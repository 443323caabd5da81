SPECIFICATION TurnSpec
CONSTANTS
    w1 = w1
    s1 = s1
    u1 = u1
    m1 = m1
    None = None
    Workspaces <- MCWorkspaces
    SessionIds <- MCSessionIds
    Paths <- MCPaths
    WorkUnitIds <- MCWorkUnitIds
    Proposals <- MCProposals
    Ceilings <- MCCeilings
    HintLevels <- MCHintLevels
    OperationIds <- MCIds
    OperationTools <- MCOperationTools
    GrantIds <- MCIds
    GrantTools <- MCGrantTools
    MaxRevision = 40
    Turns <- MCTurns
    Models <- MCModels
    Responses <- MCResponses
    MaxModelCalls = 2
    MaxElsewhere = 2
INVARIANTS
    ContextIsConsented
    RevealsAreConfirmed
    CheckIsTheSessions
PROPERTY
    AnswersFitTheMoment
CHECK_DEADLOCK FALSE
