SPECIFICATION FairSpec
CONSTANTS
    None = None
    MaxOutput = 2
    MaxProduced = 3
INVARIANTS
    CancelledHasStopped
    OutputIsAccounted
PROPERTIES
    SettledForGood
    NothingStartsAfterAbort
    RunningEnds
CHECK_DEADLOCK FALSE
