SPECIFICATION Spec
CONSTANTS
    b1 = b1  b2 = b2  fa = fa  fb = fb
    NoBatchId = NoBatchId  NoCandidate = NoCandidate
    Batches <- TwoBatches
    Candidates <- TwoCandidates
    Requests <- AllRequests
    AllowedTriggers <- Triggers
    Resources <- Resource2
    Usages <- Usages3
    Budget <- Budget2
    MaxCalls = 2
    ErrorStop = 2
    MaxBegins = 2
    MaxInvocations = 3
    CanCrash = TRUE
\* The bounds stop the model.
CHECK_DEADLOCK FALSE
INVARIANTS PassedIsAllowed InvocationsBounded
PROPERTIES OneCallOver
