SPECIFICATION FairSpec
CONSTANTS
    MaxRequests = 4
    MaxStops = 1
    MaxPowerFailures = 1
    MaxDamages = 1
INVARIANTS
    LocalJournalTypeOK
    JournalVerifies
    ReplayInCallOrder
PROPERTIES
    ImplementsEventLog
    EveryRequestEnds
CHECK_DEADLOCK FALSE
