SPECIFICATION FairSpec
CONSTANTS
    p1 = p1  p2 = p2  e1 = e1  e2 = e2
    Flushers <- TwoFlushers
    Events <- Events2
    Sendable <- Events2
    Scopes <- TwoScopes
    MaxFlushes = 3
    MaxQueue = 2
    CanCrash = TRUE
\* Only MaxFlushes flushes are started.
CHECK_DEADLOCK FALSE
INVARIANTS FlushedIsDelivered StaysReadable NeverForgotten
PROPERTIES KeepsDeliveryPromise FlushEnds
