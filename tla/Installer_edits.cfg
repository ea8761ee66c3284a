SPECIFICATION Spec
CONSTANTS
    Paths = {1, 2, 3}
    Versions = {1, 2}
    Contents <- MCContents
    Template <- MCTemplate
    MaxCommands = 3
    MaxEdits = 2
    CanCrash = TRUE
\* The bounds stop the model.
CHECK_DEADLOCK FALSE
INVARIANTS DoctorAgrees FinishedIsComplete TrackedUnlessKilled
PROPERTIES EditsKept
