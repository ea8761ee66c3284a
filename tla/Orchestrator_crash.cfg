SPECIFICATION FairSpec
CONSTANTS
    fa = fa  fb = fb
    Fingerprints <- Fps2
    Levels <- MCLevels
    Plan <- PlanMixed
    Sentinels = {"passed", "triggered"}
    StrongRuns = 1
    WeakRuns = 2
    AgentUnderTest = TRUE
    UpgradeBatches = 2
    ExpireBatches = 0
    EnvironmentMin = 2
    MaxBatch = 2
    MaxAttempts = 2
    CanCrash = TRUE
    CanAge = TRUE
\* run_batch is not called for ever: the model stops after MaxAttempts calls.
CHECK_DEADLOCK FALSE
INVARIANTS IntermittentEarned ZoneSwept DistinctBugEvents FiledHasHit RefHasEvent VetoAfterEvidence Accounting
PROPERTIES KeepsFilingPromise VoidFilesNothing BatchEnds
