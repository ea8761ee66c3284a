SPECIFICATION Spec
CONSTANTS
    fa = fa  fb = fb
    Fingerprints <- Fps2
    Levels <- MCLevels
    Plan <- PlanMixed
    Sentinels = {"passed", "triggered"}
    StrongRuns = 1
    WeakRuns = 2
    AgentUnderTest = TRUE
    UpgradeBatches = 2
    ExpireBatches = 1
    EnvironmentMin = 2
    MaxBatch = 1
    MaxAttempts = 2
    CanCrash = FALSE
    CanAge = FALSE
\* run_batch is not called for ever: the model stops after MaxAttempts calls.
CHECK_DEADLOCK FALSE
INVARIANTS DistinctEvents
