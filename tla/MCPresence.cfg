SPECIFICATION FairSpec
CONSTANTS
    None = None
    MaxActions = 2
    MaxEdits = 2
    MaxFailures = 1
    MaxOthers = 1
INVARIANTS
    ListenerIsCurrent
    DisableForgets
    PauseStops
    EditsAreGathered
PROPERTY ActionsEnd
CHECK_DEADLOCK FALSE
