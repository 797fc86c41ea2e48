SPECIFICATION Spec
CONSTANTS
    IntFiles = {"n"}
    StringFiles = {"s"}
    Ints <- MCInts
    Strings <- MCStrings
    COUNT_SIZE = 3
INVARIANTS
    ReadsLastStored
    BootCountExact
