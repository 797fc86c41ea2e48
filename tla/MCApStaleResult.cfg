SPECIFICATION Safety
CONSTANTS
    Conns = {k1}
    MaxAsked = 3
INVARIANT
    UnknownIsNotFound
