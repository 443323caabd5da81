SPECIFICATION Spec
CONSTANTS
    w1 = w1
    w2 = w2
    s1 = s1
    s2 = s2
    u1 = u1
    p1 = p1
    p2 = p2
    None = None
    Workspaces <- MCWorkspaces
    SessionIds <- MCSessionIds
    Paths <- MCPaths
    WorkUnitIds <- MCWorkUnitIds
    Proposals <- MCProposals
    Ceilings <- MCCeilings
    HintLevels <- MCHintLevels
    OperationIds <- MCOperationIds
    OperationTools <- MCOperationTools
    GrantIds <- MCGrantIds
    GrantTools <- MCGrantTools
    MaxRevision = 9
SYMMETRY Identifiers
INVARIANTS
    PresenceTracksSession
PROPERTIES
    ProtectedPathsStay
CHECK_DEADLOCK FALSE
