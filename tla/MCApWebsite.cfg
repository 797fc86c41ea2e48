SPECIFICATION Spec
CONSTANTS
    Conns = {k1}
    MaxAsked = 3
INVARIANTS
    CallbacksOwnState
    AbortReported
    AnswersMatch
PROPERTIES
    OwnResponseDelivered
    ImplementsHttpConnection
