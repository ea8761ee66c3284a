SPECIFICATION GhSpec
CONSTANTS
    p1 = p1  e1 = e1  e2 = e2
    Flushers <- OneFlusher
    Events <- Events2
    Sendable <- Events2
    Scopes <- OneScope
    MaxFlushes = 2
    MaxQueue = 2
    CanCrash = TRUE
    Payload <- MCPayload
    MaxCount = 3
\* Only MaxFlushes flushes are started.
CHECK_DEADLOCK FALSE
INVARIANTS UsedDirectly
