-------------------------- MODULE PairKernelProofs --------------------------
(***************************************************************************)
(* Theorems about the session kernel, for every value of its constants.    *)
(***************************************************************************)
EXTENDS PairKernel, FiniteSetTheorems, TLAPS

GrantFunctions == [GrantIds -> Grant \cup {None}]
OperationFunctions == [OperationIds -> Operation \cup {None}]

LEMMA NoFunctionsType ==
    NoOperations \in OperationFunctions /\ NoGrants \in GrantFunctions
  BY DEF NoOperations, NoGrants, OperationFunctions, GrantFunctions

LEMMA CreatedType ==
    /\ \A workspace \in Workspaces : CreatePresence(workspace) \in Presence
    /\ \A id \in SessionIds, startedAt \in Nat :
           CreateSession(id, startedAt) \in Session
  BY DEF CreatePresence, Presence, PresenceStatuses, CreateSession, Session,
         SessionStatuses

LEMMA CommitType ==
  ASSUME TypeOK, NEW n \in Nat, Commit(n)
  PROVE  revision' \in 0..MaxRevision
  BY BoundAssumption DEF TypeOK, Commit

LEMMA EventsType == \A grantId : Events(grantId) \in Nat
  BY DEF Events

LEMMA OpenOperationsCount == Cardinality(OpenOperations) \in Nat
<1>1. IsFiniteSet(OpenOperations)
  BY FiniteAssumption, FS_Subset DEF OpenOperations
<1> QED
  BY <1>1, FS_CardinalityType

LEMMA StatusMeansSession ==
  ASSUME TypeOK, NEW statuses, InStatus(statuses)
  PROVE  session \in Session /\ session.status \in statuses
  BY DEF TypeOK, InStatus

LEMMA ConsumedType ==
  ASSUME TypeOK, NEW id \in GrantIds, grants[id] # None, UserActionConsumed(id)
  PROVE  grants' \in GrantFunctions
<1>1. grants \in [GrantIds -> Grant \cup {None}] /\ grants[id] \in Grant
  BY DEF TypeOK
<1>2. [grants[id] EXCEPT !.status = "consumed"] \in Grant
  BY <1>1 DEF Grant
<1> QED
  BY <1>1, <1>2 DEF UserActionConsumed, GrantFunctions

LEMMA HumanActionType ==
  ASSUME TypeOK, NEW actor, NEW grantId \in GrantIds \cup {None}, NEW tool,
         HumanAction(actor, grantId, tool)
  PROVE  grants' \in GrantFunctions
<1>1. CASE UNCHANGED grants
  BY <1>1 DEF TypeOK, GrantFunctions
<1>2. CASE /\ grantId # None
           /\ CurrentGrant(grantId, tool)
           /\ UserActionConsumed(grantId)
  BY <1>2, ConsumedType DEF CurrentGrant
<1> QED
  BY <1>1, <1>2 DEF HumanAction

LEMMA NormalizedType ==
  ASSUME NEW entry \in Entry, NEW previous \in Entry \cup {None}
  PROVE  NormalizeEntry(entry, previous) \in Entry
  BY DEF NormalizeEntry, Entry

LEMMA AssistanceType ==
  ASSUME TypeOK, session \in Session
  PROVE  CurrentAssistance \in Assistance
  BY DEF CurrentAssistance, NoAssistance, Assistance, Session

-----------------------------------------------------------------------------
(* Type correctness.                                                       *)

LEMMA PauseTypeStep ==
  ASSUME TypeOK, PauseSession
  PROVE  TypeOK' /\ session' \in Session
<1> USE DEF GrantFunctions, OperationFunctions
<1>1. session \in Session /\ UNCHANGED grants
  BY StatusMeansSession DEF PauseSession, Pausable
<1>2. revision' \in 0..MaxRevision
  BY CommitType, OpenOperationsCount DEF PauseSession
<1>3. session' \in Session /\ presence' \in Presence
  <2>1. session.authorityEpoch + 1 \in Nat /\ session.sessionId \in SessionIds
    BY <1>1 DEF Session
  <2>2. session' \in Session
    BY <1>1, <2>1 DEF PauseSession, SessionPaused, Session, SessionStatuses
  <2>3. presence' \in Presence
    BY <2>1 DEF PauseSession, SessionPaused, TypeOK, Presence,
         PresenceStatuses
  <2> QED
    BY <2>2, <2>3
<1>4. operations' \in OperationFunctions
  <2>1. \A id \in OperationIds : IsOpen(id) =>
          [operations[id] EXCEPT !.status = "cancelled"] \in Operation
    BY DEF TypeOK, IsOpen, Operation, TerminalStatuses
  <2> QED
    BY <2>1 DEF PauseSession, OpenOperationsCancelled, TypeOK
<1> QED
  BY <1>1, <1>2, <1>3, <1>4 DEF TypeOK

LEMMA PresenceTypeStep ==
  ASSUME TypeOK, NEW actor \in Actors, PresenceCommand(actor)
  PROVE  TypeOK'
<1> USE DEF GrantFunctions, OperationFunctions
<1>1. ASSUME NEW workspace \in Workspaces, EnablePresence(actor, workspace)
      PROVE  TypeOK'
  <2>1. CASE RequiresWorkspaceReset(workspace)
    <3>1. revision' \in 0..MaxRevision
      BY <1>1, <2>1, CommitType DEF EnablePresence
    <3>2. /\ presence' = [CreatePresence(workspace) EXCEPT !.status = "observing"]
          /\ session' = None
          /\ operations' = NoOperations
          /\ grants' = NoGrants
      BY <1>1, <2>1 DEF EnablePresence
    <3>3. presence' \in Presence
      BY <3>2, CreatedType DEF Presence, PresenceStatuses
    <3> QED
      BY <3>1, <3>2, <3>3, NoFunctionsType DEF TypeOK
  <2>2. CASE ~RequiresWorkspaceReset(workspace)
    <3>1. revision' \in 0..MaxRevision /\ PresenceEnabled(workspace)
      BY <1>1, <2>2, CommitType DEF EnablePresence
    <3>2. EnabledPresenceStatus \in PresenceStatuses
      BY DEF EnabledPresenceStatus, PresenceStatuses
    <3> QED
      BY <3>1, <3>2 DEF TypeOK, PresenceEnabled, Presence
  <2> QED
    BY <2>1, <2>2
<1>2. ASSUME NEW requested \in {"observing", "quiet", "paused", "off"},
             SetPresence(actor, requested)
      PROVE  TypeOK'
  <2>1. CASE PauseSession
    BY <2>1, PauseTypeStep
  <2>2. ASSUME NEW status \in PresenceStatuses, Commit(1), PresenceChanged(status)
        PROVE  TypeOK'
    <3>1. revision' \in 0..MaxRevision
      BY <2>2, CommitType
    <3>2. CreatePresence(presence.workspaceId) \in Presence
      BY CreatedType DEF TypeOK, Presence
    <3> QED
      BY <2>2, <3>1, <3>2, NoFunctionsType DEF PresenceChanged, TypeOK, Presence
  <2>3. EnabledPresenceStatus \in PresenceStatuses /\ requested \in PresenceStatuses
    BY DEF EnabledPresenceStatus, PresenceStatuses
  <2> QED
    BY <1>2, <2>1, <2>2, <2>3 DEF SetPresence
<1>3. ASSUME ObserveWorkspace(actor)
      PROVE  TypeOK'
  <2>1. revision' \in 0..MaxRevision /\ WorkspaceObserved
    BY <1>3, CommitType DEF ObserveWorkspace
  <2> QED
    BY <2>1 DEF WorkspaceObserved, TypeOK, Presence
<1> QED
  BY <1>1, <1>2, <1>3 DEF PresenceCommand

LEMMA SessionTypeStep ==
  ASSUME TypeOK, NEW actor \in Actors, NEW grantId \in GrantIds \cup {None},
         SessionCommand(actor, grantId)
  PROVE  TypeOK' /\ session' \in Session
<1> USE DEF GrantFunctions
<1>1. ASSUME NEW entry \in Entry, CaptureEntry(actor, grantId, entry)
      PROVE  TypeOK' /\ session' \in Session
  <2>1. /\ session \in Session
        /\ grants' \in GrantFunctions
        /\ revision' \in 0..MaxRevision
        /\ EntryCaptured(entry)
    BY <1>1, StatusMeansSession, HumanActionType, CommitType, EventsType
       DEF CaptureEntry, Briefing
  <2>2. NormalizeEntry(entry, session.entry) \in Entry
    BY <2>1, NormalizedType DEF Session
  <2> QED
    BY <2>1, <2>2 DEF EntryCaptured, TypeOK, Session, Presence, PresenceStatuses
<1>2. ASSUME CloseSession(actor, grantId)
      PROVE  TypeOK' /\ session' \in Session
  <2>1. /\ session \in Session
        /\ grants' \in GrantFunctions
        /\ revision' \in 0..MaxRevision
        /\ SessionClosed
    BY <1>2, StatusMeansSession, HumanActionType, CommitType, EventsType
       DEF CloseSession, Closable
  <2> QED
    BY <2>1 DEF SessionClosed, TypeOK, Session, SessionStatuses, Presence,
         PresenceStatuses
<1> QED
  BY <1>1, <1>2 DEF SessionCommand

LEMMA AgreementTypeStep ==
  ASSUME TypeOK, NEW actor \in Actors, NEW grantId \in GrantIds \cup {None},
         AgreementCommand(actor, grantId)
  PROVE  TypeOK' /\ session' \in Session
<1> USE DEF GrantFunctions
<1>1. ASSUME NEW ceiling \in Ceilings, ConfirmLearning(actor, grantId, ceiling)
      PROVE  TypeOK' /\ session' \in Session
  <2>1. /\ session \in Session
        /\ grants' \in GrantFunctions
        /\ revision' \in 0..MaxRevision
        /\ LearningConfirmed(ceiling)
    BY <1>1, StatusMeansSession, HumanActionType, CommitType, EventsType
       DEF ConfirmLearning, Briefing
  <2>2. ceiling \in 0..5
    BY LevelAssumption
  <2>3. session' \in Session
    BY <2>1, <2>2 DEF LearningConfirmed, Session
  <2> QED
    BY <2>1, <2>3 DEF LearningConfirmed, TypeOK
<1>2. ASSUME NEW mode \in Modes, SelectMode(actor, grantId, mode)
      PROVE  TypeOK' /\ session' \in Session
  <2>1. /\ session \in Session
        /\ grants' \in GrantFunctions
        /\ revision' \in 0..MaxRevision
        /\ ModeSelected(mode)
    BY <1>2, StatusMeansSession, HumanActionType, CommitType, EventsType
       DEF SelectMode, Briefing
  <2>2. NoAssistance \in Assistance
    BY DEF NoAssistance, Assistance
  <2>3. session' \in Session
    BY <2>1, <2>2 DEF ModeSelected, Session
  <2> QED
    BY <2>1, <2>3 DEF ModeSelected, TypeOK
<1>3. ASSUME NEW unitId \in WorkUnitIds, AgreeWorkUnit(actor, grantId, unitId)
      PROVE  TypeOK' /\ session' \in Session
  <2>1. /\ session \in Session
        /\ grants' \in GrantFunctions
        /\ revision' \in 0..MaxRevision
        /\ session.workUnit \in WorkUnit
        /\ WorkUnitAgreed
    BY <1>3, StatusMeansSession, HumanActionType, CommitType, EventsType
       DEF AgreeWorkUnit, Briefing, Session
  <2>2. NoAssistance \in Assistance
    BY DEF NoAssistance, Assistance
  <2>3. [session.workUnit EXCEPT !.status = "agreed"] \in WorkUnit
    BY <2>1 DEF WorkUnit, WorkUnitStatuses
  <2>4. session' \in Session
    BY <2>1, <2>2, <2>3 DEF WorkUnitAgreed, Session, SessionStatuses
  <2> QED
    BY <2>1, <2>4 DEF WorkUnitAgreed, TypeOK
<1> QED
  BY <1>1, <1>2, <1>3 DEF AgreementCommand

LEMMA AssistType ==
  ASSUME session \in Session, NEW assistance \in Assistance, Assist(assistance)
  PROVE  session' \in Session /\ UNCHANGED <<presence, operations>>
  BY DEF Assist, Session, SessionStatuses

LEMMA GrowthTypeStep ==
  ASSUME TypeOK, NEW actor \in Actors, NEW grantId \in GrantIds \cup {None},
         GrowthCommand(actor, grantId)
  PROVE  TypeOK' /\ session' \in Session
<1>1. PICK unitId \in WorkUnitIds :
        \/ RecordAttempt(actor, grantId, unitId)
        \/ RecordHypothesis(actor, grantId, unitId)
        \/ \E level \in HintLevels : RequestHint(actor, grantId, unitId, level)
        \/ \E previewOnly \in BOOLEAN :
               AuthorizeSolutionReveal(actor, grantId, unitId, previewOnly)
  BY DEF GrowthCommand
<1>2. /\ Working
      /\ \E tool : HumanAction(actor, grantId, tool)
      /\ Commit(Events(grantId))
  BY <1>1 DEF RecordAttempt, RecordHypothesis, RequestHint, AuthorizeSolutionReveal
<1>3. session \in Session /\ grants' \in GrantFunctions /\ revision' \in 0..MaxRevision
  BY <1>2, StatusMeansSession, HumanActionType, CommitType, EventsType DEF Working
<1>4. CurrentAssistance \in Assistance
  BY <1>3, AssistanceType
<1>5. \E assistance \in Assistance : Assist(assistance)
  <2>1. CASE RecordAttempt(actor, grantId, unitId)
    <3>1. [CurrentAssistance EXCEPT !.attempt = TRUE] \in Assistance
      BY <1>4 DEF Assistance
    <3> QED
      BY <2>1, <3>1 DEF RecordAttempt, AttemptRecorded
  <2>2. CASE RecordHypothesis(actor, grantId, unitId)
    <3>1. [CurrentAssistance EXCEPT !.hypothesis = TRUE] \in Assistance
      BY <1>4 DEF Assistance
    <3> QED
      BY <2>2, <3>1 DEF RecordHypothesis, HypothesisRecorded
  <2>3. ASSUME NEW level \in HintLevels, RequestHint(actor, grantId, unitId, level)
        PROVE  \E assistance \in Assistance : Assist(assistance)
    <3>1. level \in 0..5
      BY LevelAssumption
    <3>2. [CurrentAssistance EXCEPT !.hint = IF level > @ THEN level ELSE @]
            \in Assistance
      BY <1>4, <3>1 DEF Assistance
    <3> QED
      BY <2>3, <3>2 DEF RequestHint, HintRequested
  <2>4. ASSUME NEW previewOnly \in BOOLEAN,
               AuthorizeSolutionReveal(actor, grantId, unitId, previewOnly)
        PROVE  \E assistance \in Assistance : Assist(assistance)
    <3>1. [CurrentAssistance EXCEPT !.reveal = TRUE] \in Assistance
      BY <1>4 DEF Assistance
    <3> QED
      BY <2>4, <3>1 DEF AuthorizeSolutionReveal, SolutionRevealAuthorized
  <2> QED
    BY <1>1, <2>1, <2>2, <2>3, <2>4
<1>6. session' \in Session /\ UNCHANGED <<presence, operations>>
  BY <1>3, <1>5, AssistType
<1> QED
  BY <1>3, <1>6 DEF TypeOK, GrantFunctions

LEMMA OpenTypeStep ==
  ASSUME TypeOK, OpenCommand
  PROVE  TypeOK' /\ session' \in Session
<1>1. ASSUME NEW id \in SessionIds, StartSession(id)
      PROVE  TypeOK' /\ session' \in Session
  <2>1. revision' \in 0..MaxRevision /\ SessionStarted(id)
    BY <1>1, CommitType DEF StartSession
  <2>2. CreateSession(id, revision') \in Session
    BY <2>1, CreatedType
  <2> QED
    BY <2>1, <2>2, NoFunctionsType DEF SessionStarted, TypeOK, Presence,
         PresenceStatuses, OperationFunctions, GrantFunctions
<1>2. ASSUME NEW entry \in Entry, ResumeSession(entry)
      PROVE  TypeOK' /\ session' \in Session
  <2>1. /\ session \in Session
        /\ revision' \in 0..MaxRevision
        /\ SessionResumed(entry)
    BY <1>2, StatusMeansSession, CommitType DEF ResumeSession, Paused
  <2>2. NormalizeEntry(entry, session.entry) \in Entry
    BY <2>1, NormalizedType DEF Session
  <2>3. ReconcileWorkUnit(session.workUnit) \in WorkUnit \cup {None}
    BY <2>1 DEF ReconcileWorkUnit, Session, WorkUnit, WorkUnitStatuses
  <2>4. session' \in Session
    BY <2>1, <2>2, <2>3 DEF SessionResumed, Session, SessionStatuses
  <2> QED
    BY <2>1, <2>4 DEF SessionResumed, TypeOK, Session, Presence, PresenceStatuses
<1>3. ASSUME NEW unit \in Proposals, ProposeWorkUnit(unit)
      PROVE  TypeOK' /\ session' \in Session
  <2>1. /\ session \in Session
        /\ revision' \in 0..MaxRevision
        /\ WorkUnitProposed(unit)
        /\ unit \in WorkUnit
    BY <1>3, StatusMeansSession, CommitType, ProposalAssumption
       DEF ProposeWorkUnit, Briefing
  <2>2. session' \in Session
    BY <2>1 DEF WorkUnitProposed, Session
  <2> QED
    BY <2>1, <2>2 DEF WorkUnitProposed, TypeOK
<1> QED
  BY <1>1, <1>2, <1>3, PauseTypeStep DEF OpenCommand

LEMMA OperationTypeStep ==
  ASSUME TypeOK, OperationCommand
  PROVE  TypeOK'
<1> USE DEF GrantFunctions
<1>1. ASSUME NEW id \in OperationIds, NEW tool \in OperationTools,
             NEW grantId \in GrantIds \cup {None},
             AuthorizeOperation(id, tool, grantId)
      PROVE  TypeOK'
  <2>1. /\ session \in Session
        /\ revision' \in 0..MaxRevision
        /\ session.workUnit \in WorkUnit
        /\ OperationAuthorized(id, tool, grantId)
    BY <1>1, StatusMeansSession, CommitType, EventsType
       DEF AuthorizeOperation, Operational, HasAgreedWorkUnit, Session
  <2>2. grants' \in GrantFunctions
    BY <1>1, ConsumedType DEF AuthorizeOperation, CurrentGrant, TypeOK
  <2>3. /\ session.workUnit.id \in WorkUnitIds
        /\ session.authorityEpoch \in Nat
    BY <2>1 DEF WorkUnit, Session
  <2>4. operations' \in [OperationIds -> Operation \cup {None}]
    BY <2>1, <2>3 DEF OperationAuthorized, TypeOK, Operation
  <2> QED
    BY <2>1, <2>2, <2>4 DEF OperationAuthorized, TypeOK
<1>2. ASSUME NEW id \in OperationIds, NEW epoch, NEW status \in TerminalStatuses,
             ObserveOperationResult(id, epoch, status)
      PROVE  TypeOK'
  <2>1. revision' \in 0..MaxRevision /\ OperationObserved(id, status)
    BY <1>2, CommitType DEF ObserveOperationResult
  <2>2. [operations[id] EXCEPT !.status = status] \in Operation
    BY <1>2 DEF ObserveOperationResult, IsOpen, TypeOK, Operation
  <2> QED
    BY <2>1, <2>2 DEF OperationObserved, TypeOK
<1> QED
  BY <1>1, <1>2 DEF OperationCommand

LEMMA GrantTypeStep ==
  ASSUME TypeOK, NEW actor, NEW id \in GrantIds, NEW tool \in GrantTools,
         GrantUserAction(actor, id, tool)
  PROVE  TypeOK'
<1>1. /\ session \in Session
      /\ revision' \in 0..MaxRevision
      /\ UserActionGranted(id, tool)
  BY CommitType, StatusMeansSession
     DEF GrantUserAction, Grantable, Briefing, Operational, OperationalGrowth,
         OperationalDeliveryAi, Closable
<1>2. grants' \in GrantFunctions
  BY <1>1 DEF UserActionGranted, TypeOK, Grant, GrantFunctions, Session
<1> QED
  BY <1>1, <1>2 DEF UserActionGranted, TypeOK, GrantFunctions

(* The snapshot keeps its types whatever commands arrive, in any order.    *)
THEOREM TypeCorrect == Spec => []TypeOK
<1>1. Init => TypeOK
  BY CreatedType, NoFunctionsType, BoundAssumption
     DEF Init, TypeOK, OperationFunctions, GrantFunctions
<1>2. TypeOK /\ [Next]_vars => TypeOK'
  <2>1. ASSUME TypeOK, NEW actor \in Actors, Command(actor)
        PROVE  TypeOK'
    BY <2>1, PresenceTypeStep, SessionTypeStep, AgreementTypeStep, GrowthTypeStep,
       OpenTypeStep, OperationTypeStep, GrantTypeStep DEF Command
  <2>2. TypeOK /\ UNCHANGED vars => TypeOK'
    BY DEF vars, TypeOK
  <2> QED
    BY <2>1, <2>2 DEF Next
<1> QED
  BY <1>1, <1>2, PTL DEF Spec

-----------------------------------------------------------------------------
(* The kernel's safety invariants: each is shown inductive, relative to    *)
(* the type invariant and to the ones before it.                           *)

LEMMA PresenceInductive ==
  ASSUME TypeOK, PresenceTracksSession, [Next]_vars
  PROVE  PresenceTracksSession'
<1> USE DEF PresenceTracksSession, InStatus, Paused, Closable, SessionStatuses
<1>1. CASE UNCHANGED vars
  BY <1>1 DEF vars
<1>2. ASSUME PauseSession
      PROVE  PresenceTracksSession'
  BY <1>2, PauseTypeStep, NoneAssumption DEF PauseSession, SessionPaused, Pausable, TypeOK, Session, Presence
<1>3. ASSUME NEW actor \in Actors, PresenceCommand(actor)
      PROVE  PresenceTracksSession'
  <2>1. ASSUME NEW workspace \in Workspaces, EnablePresence(actor, workspace)
        PROVE  PresenceTracksSession'
    BY <2>1 DEF EnablePresence, CreatePresence, PresenceEnabled,
         EnabledPresenceStatus, RequiresWorkspaceReset, TypeOK, Presence, Session
  <2>2. ASSUME NEW requested \in {"observing", "quiet", "paused", "off"},
               SetPresence(actor, requested)
        PROVE  PresenceTracksSession'
    BY <2>2, <1>2 DEF SetPresence, CreatePresence, PresenceChanged, Pausable,
         PresenceChanges, EnabledPresenceStatus, TypeOK, Presence, Session
  <2>3. CASE ObserveWorkspace(actor)
    BY <2>3 DEF ObserveWorkspace, WorkspaceObserved, TypeOK, Presence
  <2> QED
    BY <1>3, <2>1, <2>2, <2>3 DEF PresenceCommand
<1>4. ASSUME NEW actor \in Actors, NEW grantId \in GrantIds \cup {None},
             SessionCommand(actor, grantId)
      PROVE  PresenceTracksSession'
  <2>1. session' \in Session /\ session' # None
    BY <1>4, SessionTypeStep, NoneAssumption
  <2>2. ASSUME NEW entry \in Entry, CaptureEntry(actor, grantId, entry)
        PROVE  PresenceTracksSession'
    BY <2>1, <2>2 DEF CaptureEntry, EntryCaptured, Briefing, TypeOK, Presence,
         Session
  <2>3. CASE CloseSession(actor, grantId)
    BY <2>1, <2>3 DEF CloseSession, SessionClosed, TypeOK, Presence, Session
  <2> QED
    BY <1>4, <2>2, <2>3 DEF SessionCommand
<1>5. ASSUME NEW actor \in Actors, NEW grantId \in GrantIds \cup {None},
             AgreementCommand(actor, grantId)
      PROVE  PresenceTracksSession'
  <2>1. session' \in Session /\ session' # None
    BY <1>5, AgreementTypeStep, NoneAssumption
  <2>2. ASSUME NEW ceiling \in Ceilings, ConfirmLearning(actor, grantId, ceiling)
        PROVE  PresenceTracksSession'
    BY <2>1, <2>2 DEF ConfirmLearning, LearningConfirmed, Briefing, TypeOK, Session
  <2>3. ASSUME NEW mode \in Modes, SelectMode(actor, grantId, mode)
        PROVE  PresenceTracksSession'
    BY <2>1, <2>3 DEF SelectMode, ModeSelected, Briefing, TypeOK, Session
  <2>4. ASSUME NEW unitId \in WorkUnitIds, AgreeWorkUnit(actor, grantId, unitId)
        PROVE  PresenceTracksSession'
    BY <2>1, <2>4 DEF AgreeWorkUnit, WorkUnitAgreed, Briefing, TypeOK, Session
  <2> QED
    BY <1>5, <2>2, <2>3, <2>4 DEF AgreementCommand
<1>6. ASSUME NEW actor \in Actors, NEW grantId \in GrantIds \cup {None},
             GrowthCommand(actor, grantId)
      PROVE  PresenceTracksSession'
  BY <1>6, GrowthTypeStep, NoneAssumption DEF GrowthCommand, RecordAttempt, AttemptRecorded, RecordHypothesis,
       HypothesisRecorded, RequestHint, HintRequested, AuthorizeSolutionReveal,
       SolutionRevealAuthorized, Assist, Working, TypeOK, Session
<1>7. ASSUME OpenCommand
      PROVE  PresenceTracksSession'
  <2>1. session' \in Session /\ session' # None
    BY <1>7, OpenTypeStep, NoneAssumption
  <2>2. ASSUME NEW id \in SessionIds, StartSession(id)
        PROVE  PresenceTracksSession'
    BY <2>1, <2>2 DEF StartSession, SessionStarted, CreateSession, TypeOK, Presence
  <2>3. ASSUME NEW entry \in Entry, ResumeSession(entry)
        PROVE  PresenceTracksSession'
    BY <2>1, <2>3 DEF ResumeSession, SessionResumed, TypeOK, Presence, Session
  <2>4. ASSUME NEW unit \in Proposals, ProposeWorkUnit(unit)
        PROVE  PresenceTracksSession'
    BY <2>1, <2>4 DEF ProposeWorkUnit, WorkUnitProposed, Briefing, TypeOK, Session
  <2> QED
    BY <1>2, <1>7, <2>2, <2>3, <2>4 DEF OpenCommand
<1>8. ASSUME OperationCommand
      PROVE  PresenceTracksSession'
  BY <1>8 DEF OperationCommand, AuthorizeOperation, OperationAuthorized,
       ObserveOperationResult, OperationObserved
<1>9. ASSUME NEW actor \in Actors, NEW id \in GrantIds, NEW tool \in GrantTools,
             GrantUserAction(actor, id, tool)
      PROVE  PresenceTracksSession'
  BY <1>9 DEF GrantUserAction, UserActionGranted
<1> QED
  BY <1>1, <1>3, <1>4, <1>5, <1>6, <1>7, <1>8, <1>9 DEF Next, Command

(* Presence and the session's life stay in step.                           *)
THEOREM PresenceCorrect == Spec => []PresenceTracksSession
<1>1. Init => PresenceTracksSession
  BY DEF Init, CreatePresence, PresenceTracksSession, Closable, Paused, InStatus
<1>2. TypeOK /\ PresenceTracksSession /\ [Next]_vars => PresenceTracksSession'
  BY PresenceInductive
<1> QED
  BY <1>1, <1>2, TypeCorrect, PTL DEF Spec

-----------------------------------------------------------------------------
(* Work units and the hint ladder.                                         *)

(* What the commands that are not about the session's work do to it. *)
LEMMA SessionFrame ==
  /\ \A actor \in Actors : PresenceCommand(actor) =>
         session' = session \/ session' = None \/ PauseSession
  /\ OperationCommand => session' = session
  /\ \A actor \in Actors, id \in GrantIds, tool \in GrantTools :
         GrantUserAction(actor, id, tool) => session' = session
<1>1. ASSUME NEW actor \in Actors, PresenceCommand(actor)
      PROVE  session' = session \/ session' = None \/ PauseSession
  BY <1>1 DEF PresenceCommand, EnablePresence, PresenceEnabled, SetPresence,
       PresenceChanged, ObserveWorkspace, WorkspaceObserved
<1>2. OperationCommand => session' = session
  BY DEF OperationCommand, AuthorizeOperation, OperationAuthorized,
       ObserveOperationResult, OperationObserved
<1>3. ASSUME NEW actor \in Actors, NEW id \in GrantIds, NEW tool \in GrantTools,
             GrantUserAction(actor, id, tool)
      PROVE  session' = session
  BY <1>3 DEF GrantUserAction, UserActionGranted
<1> QED
  BY <1>1, <1>2, <1>3

(* An invariant of the session alone holds after a command that leaves the *)
(* session as it is or ends it; this is what is left to show of the others.*)
WorkInv == WorkUnitFitsSession /\ HintLadder

LEMMA WorkFrame ==
  ASSUME WorkInv, session' = session \/ session' = None
  PROVE  WorkInv'
  BY DEF WorkInv, WorkUnitFitsSession, HintLadder, InStatus, Operational, Briefing,
     HasAgreedWorkUnit, HasEntry, HasGrowthAgreement, NoAssistance

LEMMA WorkInductive ==
  ASSUME TypeOK, WorkInv, [Next]_vars
  PROVE  WorkInv'
<1> USE DEF WorkInv, WorkUnitFitsSession, HintLadder, InStatus, Operational,
        Briefing, HasAgreedWorkUnit, HasEntry, HasGrowthAgreement
<1>1. CASE UNCHANGED vars
  BY <1>1, WorkFrame DEF vars
<1>2. ASSUME PauseSession
      PROVE  WorkInv'
  BY <1>2, PauseTypeStep, NoneAssumption
     DEF PauseSession, SessionPaused, Pausable, TypeOK, Session, WorkUnit
<1>3. ASSUME NEW actor \in Actors, PresenceCommand(actor)
      PROVE  WorkInv'
  BY <1>2, <1>3, SessionFrame, WorkFrame
<1>4. ASSUME NEW actor \in Actors, NEW grantId \in GrantIds \cup {None},
             SessionCommand(actor, grantId)
      PROVE  WorkInv'
  <2>1. session' \in Session /\ session' # None
    BY <1>4, SessionTypeStep, NoneAssumption
  <2>2. ASSUME NEW entry \in Entry, CaptureEntry(actor, grantId, entry)
        PROVE  WorkInv'
    <3>1. session \in Session /\ NormalizeEntry(entry, session.entry) \in Entry
      BY <2>2, NormalizedType DEF CaptureEntry, TypeOK, Session
    <3> QED
      BY <2>1, <2>2, <3>1, NoneAssumption DEF CaptureEntry, EntryCaptured, Session
  <2>3. CASE CloseSession(actor, grantId)
    BY <2>1, <2>3 DEF CloseSession, SessionClosed, Closable, TypeOK, Session
  <2> QED
    BY <1>4, <2>2, <2>3 DEF SessionCommand
<1>5. ASSUME NEW actor \in Actors, NEW grantId \in GrantIds \cup {None},
             AgreementCommand(actor, grantId)
      PROVE  WorkInv'
  <2>1. session' \in Session /\ session' # None
    BY <1>5, AgreementTypeStep, NoneAssumption
  <2>2. ASSUME NEW ceiling \in Ceilings, ConfirmLearning(actor, grantId, ceiling)
        PROVE  WorkInv'
    <3>1. ceiling \in 0..5 /\ ceiling # None
      BY LevelAssumption, NoneAssumption
    <3> QED
      BY <2>1, <2>2, <3>1 DEF ConfirmLearning, LearningConfirmed, TypeOK, Session,
           NoAssistance
  <2>3. ASSUME NEW mode \in Modes, SelectMode(actor, grantId, mode)
        PROVE  WorkInv'
    BY <2>1, <2>3 DEF SelectMode, ModeSelected, HasNoWorkUnit, TypeOK, Session,
         NoAssistance
  <2>4. ASSUME NEW unitId \in WorkUnitIds, AgreeWorkUnit(actor, grantId, unitId)
        PROVE  WorkInv'
    <3>1. /\ session \in Session
          /\ session.workUnit \in WorkUnit
          /\ session.workUnit.mode = session.mode
          /\ WorkUnitAgreed
      BY <2>4 DEF AgreeWorkUnit, TypeOK, Session
    <3> DEFINE unit == [session.workUnit EXCEPT !.status = "agreed"]
    <3>2. /\ unit # None
          /\ unit.status = "agreed"
          /\ unit.mode = session.workUnit.mode
          /\ ValidGrowthWorkUnit(session.workUnit) => ValidGrowthWorkUnit(unit)
      BY <3>1, NoneAssumption DEF WorkUnit, WorkUnitStatuses, ValidGrowthWorkUnit
    <3>3. /\ session'.workUnit = unit
          /\ session'.mode = session.mode
          /\ session'.entry = session.entry
          /\ session'.maximumHintLevel = session.maximumHintLevel
          /\ session'.status = "ready"
          /\ session'.assistance \in {NoAssistance, session.assistance}
      BY <3>1 DEF WorkUnitAgreed, Session
    <3> HIDE DEF unit
    <3>4. session # None /\ session.status = "briefing" /\ HasEntry
      BY <2>4 DEF AgreeWorkUnit
    <3>5. WorkUnitFitsSession'
      BY <2>1, <3>1, <3>2, <3>3, <3>4, NoneAssumption
    <3>6. HintLadder'
      <4>1. session.assistance # None => session.assistance = NoAssistance
        BY <3>4
      <4>2. session'.assistance # None => session'.assistance = NoAssistance
        BY <3>3, <4>1
      <4>3. NoAssistance.hint = 0
        BY DEF NoAssistance
      <4> QED
        BY <4>2, <4>3
    <3> QED
      BY <3>5, <3>6
  <2> QED
    BY <1>5, <2>2, <2>3, <2>4 DEF AgreementCommand
<1>6. ASSUME NEW actor \in Actors, NEW grantId \in GrantIds \cup {None},
             GrowthCommand(actor, grantId)
      PROVE  WorkInv'
  <2>1. session' \in Session /\ session' # None
    BY <1>6, GrowthTypeStep, NoneAssumption
  <2>2. PICK unitId \in WorkUnitIds :
          \/ RecordAttempt(actor, grantId, unitId)
          \/ RecordHypothesis(actor, grantId, unitId)
          \/ \E level \in HintLevels : RequestHint(actor, grantId, unitId, level)
          \/ \E previewOnly \in BOOLEAN :
                 AuthorizeSolutionReveal(actor, grantId, unitId, previewOnly)
    BY <1>6 DEF GrowthCommand
  <2>3. session # None /\ session \in Session /\ IsGrowthWorkUnit(unitId)
    BY <2>2 DEF RecordAttempt, RecordHypothesis, RequestHint, ValidHintLevel,
         AuthorizeSolutionReveal, Working, TypeOK
  <2>4. CurrentAssistance \in Assistance
    BY <2>3, AssistanceType
  <2>5. ASSUME NEW assistance \in Assistance, Assist(assistance),
               assistance.hint > 0 => /\ HasGrowthAgreement
                                      /\ assistance.hint <= session.maximumHintLevel,
               assistance.hint > 1 => assistance.attempt,
               assistance.hint = 5 => assistance.reveal
        PROVE  WorkInv'
    BY <2>1, <2>3, <2>5 DEF Assist, IsGrowthWorkUnit, Session
  <2>6. /\ CurrentAssistance.hint > 0 =>
              /\ HasGrowthAgreement
              /\ CurrentAssistance.hint <= session.maximumHintLevel
        /\ CurrentAssistance.hint > 1 => CurrentAssistance.attempt
        /\ CurrentAssistance.hint = 5 => CurrentAssistance.reveal
    BY <2>3 DEF CurrentAssistance, NoAssistance
  <2>7. CASE RecordAttempt(actor, grantId, unitId)
    <3>1. [CurrentAssistance EXCEPT !.attempt = TRUE] \in Assistance
      BY <2>4 DEF Assistance
    <3> QED
      BY <2>4, <2>5, <2>6, <2>7, <3>1 DEF RecordAttempt, AttemptRecorded, Assistance
  <2>8. CASE RecordHypothesis(actor, grantId, unitId)
    <3>1. [CurrentAssistance EXCEPT !.hypothesis = TRUE] \in Assistance
      BY <2>4 DEF Assistance
    <3> QED
      BY <2>4, <2>5, <2>6, <2>8, <3>1
         DEF RecordHypothesis, HypothesisRecorded, Assistance
  <2>9. ASSUME NEW level \in HintLevels, RequestHint(actor, grantId, unitId, level)
        PROVE  WorkInv'
    <3>1. level \in 0..5 /\ ValidHintLevel(unitId, level) /\ HintRequested(level)
      BY <2>9, LevelAssumption DEF RequestHint
    <3> DEFINE raised ==
          [CurrentAssistance EXCEPT !.hint = IF level > @ THEN level ELSE @]
    <3>2. raised \in Assistance /\ Assist(raised)
      BY <2>4, <3>1 DEF Assistance, HintRequested
    <3>3. /\ raised.hint > 0 => /\ HasGrowthAgreement
                               /\ raised.hint <= session.maximumHintLevel
          /\ raised.hint > 1 => raised.attempt
          /\ raised.hint = 5 => raised.reveal
      BY <2>4, <2>6, <3>1 DEF ValidHintLevel, Assistance
    <3> HIDE DEF raised
    <3> QED
      BY <2>5, <3>2, <3>3
  <2>10. ASSUME NEW previewOnly \in BOOLEAN,
                AuthorizeSolutionReveal(actor, grantId, unitId, previewOnly)
         PROVE  WorkInv'
    <3>1. [CurrentAssistance EXCEPT !.reveal = TRUE] \in Assistance
      BY <2>4 DEF Assistance
    <3> QED
      BY <2>4, <2>5, <2>6, <2>10, <3>1
         DEF AuthorizeSolutionReveal, SolutionRevealAuthorized, Assistance
  <2> QED
    BY <2>2, <2>7, <2>8, <2>9, <2>10
<1>7. ASSUME OpenCommand
      PROVE  WorkInv'
  <2>1. session' \in Session /\ session' # None
    BY <1>7, OpenTypeStep, NoneAssumption
  <2>2. ASSUME NEW id \in SessionIds, StartSession(id)
        PROVE  WorkInv'
    BY <2>2, NoneAssumption DEF StartSession, SessionStarted, CreateSession, Modes
  <2>3. ASSUME NEW entry \in Entry, ResumeSession(entry)
        PROVE  WorkInv'
    <3>1. session # None /\ session \in Session
      BY <2>3 DEF ResumeSession, Paused, TypeOK
    <3>2. NormalizeEntry(entry, session.entry) \in Entry
      BY <3>1, NormalizedType DEF Session
    <3> DEFINE unit == ReconcileWorkUnit(session.workUnit)
    <3>3. /\ session.workUnit # None =>
                /\ unit.mode = session.workUnit.mode
                /\ ValidGrowthWorkUnit(session.workUnit) => ValidGrowthWorkUnit(unit)
          /\ session.workUnit = None <=> unit = None
      BY <3>1, NoneAssumption DEF Session, WorkUnit, WorkUnitStatuses,
         ReconcileWorkUnit, ValidGrowthWorkUnit
    <3>4. /\ session'.workUnit = unit
          /\ session'.mode = session.mode
          /\ session'.entry # None
          /\ session'.maximumHintLevel = session.maximumHintLevel
          /\ session'.status = "reconciling"
          /\ session'.assistance = session.assistance
      BY <2>3, <3>1, <3>2, NoneAssumption DEF ResumeSession, SessionResumed, Session
    <3> HIDE DEF unit
    <3> QED
      BY <2>1, <3>1, <3>3, <3>4 DEF NoAssistance
  <2>4. ASSUME NEW unit \in Proposals, ProposeWorkUnit(unit)
        PROVE  WorkInv'
    BY <2>1, <2>4 DEF ProposeWorkUnit, WorkUnitProposed, ValidProposal, TypeOK,
         Session, NoAssistance
  <2> QED
    BY <1>2, <1>7, <2>2, <2>3, <2>4 DEF OpenCommand
<1>8. ASSUME OperationCommand
      PROVE  WorkInv'
  BY <1>8, SessionFrame, WorkFrame
<1>9. ASSUME NEW actor \in Actors, NEW id \in GrantIds, NEW tool \in GrantTools,
             GrantUserAction(actor, id, tool)
      PROVE  WorkInv'
  BY <1>9, SessionFrame, WorkFrame
<1> QED
  BY <1>1, <1>3, <1>4, <1>5, <1>6, <1>7, <1>8, <1>9 DEF Next, Command

LEMMA WorkInvariant == Spec => []WorkInv
<1>1. Init => WorkInv
  BY DEF Init, WorkInv, WorkUnitFitsSession, HintLadder
<1>2. TypeOK /\ WorkInv /\ [Next]_vars => WorkInv'
  BY WorkInductive
<1> QED
  BY <1>1, <1>2, TypeCorrect, PTL DEF Spec

(* Work starts only on an agreed unit that fits the session's mode.        *)
THEOREM WorkUnitsCorrect == Spec => []WorkUnitFitsSession
<1>1. WorkInv => WorkUnitFitsSession
  BY DEF WorkInv
<1> QED
  BY <1>1, WorkInvariant, PTL

(* No order of commands climbs past a rung of the hint ladder.             *)
THEOREM HintsCorrect == Spec => []HintLadder
<1>1. WorkInv => HintLadder
  BY DEF WorkInv
<1> QED
  BY <1>1, WorkInvariant, PTL
=============================================================================
