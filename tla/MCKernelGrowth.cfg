SPECIFICATION Spec
CONSTANTS
    w1 = w1
    s1 = s1
    u1 = u1
    g1 = g1
    None = None
    Workspaces <- MCWorkspaces
    SessionIds <- MCSessionIds
    Paths <- MCPaths
    WorkUnitIds <- MCWorkUnitIds
    Proposals <- MCProposals
    Ceilings <- MCCeilings
    HintLevels <- MCHintLevels
    OperationIds <- MCOperationIds
    OperationTools <- MCOperationTools
    GrantIds <- MCGrantIds
    GrantTools <- MCGrantTools
    MaxRevision = 11
INVARIANTS
    TypeOK
    WorkUnitFitsSession
    HintLadder
PROPERTIES
    AiDecidesNothingAlone
CHECK_DEADLOCK FALSE
