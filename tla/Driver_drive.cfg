SPECIFICATION FairSpec
CONSTANTS
    MaxMessages = 3
    DrainInitial = 2
    MaxEvents = 3
    PushTypes = {"other", "broken"}
    Window = 3
\* A run returns and the model stops.
CHECK_DEADLOCK FALSE
INVARIANTS EnvironmentHasCause
PROPERTIES KeepsConversation RunEnds
