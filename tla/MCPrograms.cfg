SPECIFICATION PSpec
CONSTANTS
    TICKS = 5
    PERIOD = 2
    MAX_TURN = 2
    Program <- MCProgram
    Requests <- MCRequests
INVARIANTS
    LookupRight
    LedOnTime
PROPERTIES
    LedNeverEarly
    EveryPageServed
