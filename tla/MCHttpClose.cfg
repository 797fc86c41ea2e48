SPECIFICATION Safety
CONSTANTS
    Conns = {k1}
    MaxAsked = 3
    POLL_INTERVAL = 2
INVARIANT
    ClosedAfterResponse
