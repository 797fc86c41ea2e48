SPECIFICATION Spec
CONSTANTS
    Conns = {k1}
    MaxAsked = 3
    POLL_INTERVAL = 2
INVARIANTS
    CallbacksOwnState
    AbortReported
    SentCountExact
    AnswersMatch
PROPERTIES
    EveryConnectionEnds
