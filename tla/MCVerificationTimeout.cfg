SPECIFICATION Spec
CONSTANTS
    None = None
    MaxOutput = 2
    MaxProduced = 3
INVARIANTS
    TimeoutIsTheDeadline
CHECK_DEADLOCK FALSE
