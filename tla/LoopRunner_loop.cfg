SPECIFICATION GatedFairSpec
CONSTANTS
    da = da  db = db  NoLimit = NoLimit
    Details <- TwoDetails
    Arguments <- MixedLoops
    Duration = 3
    SleepSec = 1
    Threshold = 2
    Retries = 1
    HasPreflight = TRUE
    HasHook = TRUE
    Times = {1, 2}
    MaxFiled = 1
    MaxRuns = 2
    CanCrash = TRUE
    NoCommit = NoCommit
    FilesOf <- MCFilesOf
\* run_loop is not called for ever.
CHECK_DEADLOCK FALSE
INVARIANTS RepeatEndsLoop CountsAreQueued SummaryKeepsUp GatedRoundsAreCurrent CoverageAgrees
PROPERTIES LoopEnds
