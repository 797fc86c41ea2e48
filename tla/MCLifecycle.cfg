SPECIFICATION MCSpec
CONSTANTS
    Blocks = {b1, b2, b3}
    MAX_PCBS = 2
    MAX_DRIVER = 3
SYMMETRY Symmetry
INVARIANTS
    ListenerLive
    OrderlyClean
    StartedIsListening
    CarefulRestart
CHECK_DEADLOCK FALSE
