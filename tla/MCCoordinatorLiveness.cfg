SPECIFICATION FairCoordinatorSpec
CONSTANTS
    w1 = w1
    s1 = s1
    u1 = u1
    o1 = o1
    g1 = g1
    c1 = c1
    c2 = c2
    None = None
    Workspaces <- MCWorkspaces
    SessionIds <- MCSessionIds
    Paths <- MCPaths
    WorkUnitIds <- MCWorkUnitIds
    Proposals <- MCProposals
    Ceilings <- MCCeilings
    HintLevels <- MCHintLevels
    OperationIds <- MCOperationIds
    OperationTools <- MCOperationTools
    GrantIds <- MCGrantIds
    GrantTools <- MCGrantTools
    Slots <- MCSlots
    Tools <- MCTools
    MaxRevision = 7
PROPERTIES
    EveryCallEnds
CHECK_DEADLOCK FALSE
