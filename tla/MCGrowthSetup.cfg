SPECIFICATION SetupSpec
CONSTANTS
    w1 = w1
    s1 = s1
    o1 = o1
    o2 = o2
    None = None
    Workspaces <- MCWorkspaces
    SessionIds <- MCSessionIds
    Paths <- MCPaths
    WorkUnitIds <- MCWorkUnitIds
    Proposals <- MCProposals
    Ceilings <- MCCeilings
    HintLevels <- MCHintLevels
    OperationIds = {}
    OperationTools = {}
    GrantIds <- MCGrantIds
    GrantTools <- MCGrantTools
    MaxRevision = 40
    Requests <- MCRequests
    Objectives <- MCObjectives
    Ceiling = 4
    MaxElsewhere = 2
INVARIANT
    AgreedWasConfirmed
PROPERTIES
    SetupReplacesNothing
    CompletedIsTrue
    CheckpointIsCurrent
CHECK_DEADLOCK FALSE
