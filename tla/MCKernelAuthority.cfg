SPECIFICATION Spec
CONSTANTS
    w1 = w1
    s1 = s1
    u1 = u1
    g1 = g1
    g2 = g2
    o1 = o1
    o2 = o2
    None = None
    Workspaces <- MCWorkspaces
    SessionIds <- MCSessionIds
    Paths <- MCPaths
    WorkUnitIds <- MCWorkUnitIds
    Proposals <- MCProposals
    Ceilings <- MCCeilings
    HintLevels <- MCHintLevels
    OperationIds <- MCOperationIds
    OperationTools <- MCOperationTools
    GrantIds <- MCGrantIds
    GrantTools <- MCGrantTools
    MaxRevision = 11
SYMMETRY Identifiers
INVARIANTS
    OpenOperationsAreCurrent
    GrantPaysForOneOperation
PROPERTIES
    AuthorityIsNotRevived
    ImplementsLedger
CHECK_DEADLOCK FALSE
