-------------------------- MODULE PairKernelAuthority --------------------------
(***************************************************************************)
(* Authority: what the kernel's operations and grants may do, and that the *)
(* kernel implements the operation ledger, for every value of its          *)
(* constants.                                                              *)
(***************************************************************************)
EXTENDS PairKernelProofs, KernelLedger

-----------------------------------------------------------------------------
(* Open operations belong to the present epoch and the agreed unit.        *)

LEMMA NothingOpen ==
  ASSUME OpenOperationsAreCurrent, ~InStatus({"ready", "active", "closed"}),
         operations' = operations
  PROVE  OpenOperationsAreCurrent'
<1>1. OpenOperations = {}
  BY DEF OpenOperationsAreCurrent
<1>2. OpenOperations' = {}
  BY <1>1 DEF OpenOperations, IsOpen
<1> QED
  BY <1>2 DEF OpenOperationsAreCurrent

LEMMA StillOpen ==
  ASSUME OpenOperationsAreCurrent, operations' = operations,
         session # None => /\ session' # None
                           /\ session'.authorityEpoch = session.authorityEpoch
                           /\ session'.workUnit = session.workUnit
                           /\ session'.status \in {session.status, "active", "closed"}
  PROVE  OpenOperationsAreCurrent'
<1>1. OpenOperations' = OpenOperations
  BY DEF OpenOperations, IsOpen
<1> QED
  BY <1>1 DEF OpenOperationsAreCurrent, InStatus, HasAgreedWorkUnit

LEMMA OpenInductive ==
  ASSUME TypeOK, OpenOperationsAreCurrent, [Next]_vars
  PROVE  OpenOperationsAreCurrent'
<1> USE DEF InStatus
<1>1. CASE UNCHANGED vars
  BY <1>1, StillOpen DEF vars
<1>2. ASSUME operations' = NoOperations
      PROVE  OpenOperationsAreCurrent'
  BY <1>2 DEF OpenOperationsAreCurrent, OpenOperations, IsOpen, NoOperations
<1>3. ASSUME PauseSession
      PROVE  OpenOperationsAreCurrent'
  <2>1. \A id \in OperationIds : ~IsOpen(id)'
    BY <1>3 DEF PauseSession, OpenOperationsCancelled, IsOpen, TypeOK, Operation,
         TerminalStatuses
  <2> QED
    BY <2>1 DEF OpenOperationsAreCurrent, OpenOperations
<1>4. ASSUME NEW actor \in Actors, PresenceCommand(actor)
      PROVE  OpenOperationsAreCurrent'
  <2>1. \/ operations' = NoOperations
        \/ PauseSession
        \/ operations' = operations /\ session' = session
    BY <1>4 DEF PresenceCommand, EnablePresence, PresenceEnabled, SetPresence,
         PresenceChanged, ObserveWorkspace, WorkspaceObserved
  <2> QED
    BY <1>2, <1>3, <2>1, StillOpen
<1>5. ASSUME NEW actor \in Actors, NEW grantId \in GrantIds \cup {None},
             SessionCommand(actor, grantId)
      PROVE  OpenOperationsAreCurrent'
  <2>1. session' \in Session /\ session' # None
    BY <1>5, SessionTypeStep, NoneAssumption
  <2>2. ASSUME NEW entry \in Entry, CaptureEntry(actor, grantId, entry)
        PROVE  OpenOperationsAreCurrent'
    BY <2>2, NothingOpen DEF CaptureEntry, EntryCaptured, Briefing
  <2>3. CASE CloseSession(actor, grantId)
    BY <2>1, <2>3, StillOpen DEF CloseSession, SessionClosed, TypeOK, Session
  <2> QED
    BY <1>5, <2>2, <2>3 DEF SessionCommand
<1>6. ASSUME NEW actor \in Actors, NEW grantId \in GrantIds \cup {None},
             AgreementCommand(actor, grantId)
      PROVE  OpenOperationsAreCurrent'
  BY <1>6, NothingOpen DEF AgreementCommand, ConfirmLearning, LearningConfirmed,
       SelectMode, ModeSelected, AgreeWorkUnit, WorkUnitAgreed, Briefing
<1>7. ASSUME NEW actor \in Actors, NEW grantId \in GrantIds \cup {None},
             GrowthCommand(actor, grantId)
      PROVE  OpenOperationsAreCurrent'
  <2>1. session' \in Session /\ session' # None
    BY <1>7, GrowthTypeStep, NoneAssumption
  <2>2. Working /\ \E assistance : Assist(assistance)
    BY <1>7 DEF GrowthCommand, RecordAttempt, AttemptRecorded, RecordHypothesis,
         HypothesisRecorded, RequestHint, HintRequested, AuthorizeSolutionReveal,
         SolutionRevealAuthorized
  <2> QED
    BY <2>1, <2>2, StillOpen DEF Working, Assist, TypeOK, Session
<1>8. ASSUME OpenCommand
      PROVE  OpenOperationsAreCurrent'
  <2>1. ASSUME NEW id \in SessionIds, StartSession(id)
        PROVE  OpenOperationsAreCurrent'
    BY <1>2, <2>1 DEF StartSession, SessionStarted
  <2>2. ASSUME NEW entry \in Entry, ResumeSession(entry)
        PROVE  OpenOperationsAreCurrent'
    BY <2>2, NothingOpen DEF ResumeSession, SessionResumed, Paused
  <2>3. ASSUME NEW unit \in Proposals, ProposeWorkUnit(unit)
        PROVE  OpenOperationsAreCurrent'
    BY <2>3, NothingOpen DEF ProposeWorkUnit, WorkUnitProposed, Briefing
  <2> QED
    BY <1>3, <1>8, <2>1, <2>2, <2>3 DEF OpenCommand
<1>9. ASSUME OperationCommand
      PROVE  OpenOperationsAreCurrent'
  <2>1. ASSUME NEW id \in OperationIds, NEW tool \in OperationTools,
               NEW grantId \in GrantIds \cup {None},
               AuthorizeOperation(id, tool, grantId)
        PROVE  OpenOperationsAreCurrent'
    <3>1. /\ session' = session
          /\ Operational
          /\ HasAgreedWorkUnit
          /\ OperationAuthorized(id, tool, grantId)
      BY <2>1 DEF AuthorizeOperation, OperationAuthorized
    <3>2. \A other \in OperationIds \ {id} : operations'[other] = operations[other]
      BY <3>1 DEF OperationAuthorized, TypeOK
    <3>3. /\ operations'[id].authorityEpoch = session.authorityEpoch
          /\ operations'[id].workUnitId = session.workUnit.id
      BY <3>1 DEF OperationAuthorized, TypeOK
    <3> QED
      BY <3>1, <3>2, <3>3 DEF OpenOperationsAreCurrent, OpenOperations, IsOpen,
           Operational, HasAgreedWorkUnit
  <2>2. ASSUME NEW id \in OperationIds, NEW epoch, NEW status \in TerminalStatuses,
               ObserveOperationResult(id, epoch, status)
        PROVE  OpenOperationsAreCurrent'
    <3>1. session' = session /\ OperationObserved(id, status)
      BY <2>2 DEF ObserveOperationResult, OperationObserved
    <3>2. \A other \in OperationIds \ {id} : operations'[other] = operations[other]
      BY <3>1 DEF OperationObserved, TypeOK
    <3>3. operations'[id].status = status
      BY <2>2, <3>1 DEF OperationObserved, ObserveOperationResult, IsOpen, TypeOK,
         Operation
    <3> QED
      BY <3>1, <3>2, <3>3 DEF OpenOperationsAreCurrent, OpenOperations, IsOpen,
           HasAgreedWorkUnit
  <2> QED
    BY <1>9, <2>1, <2>2 DEF OperationCommand
<1>10. ASSUME NEW actor \in Actors, NEW id \in GrantIds, NEW tool \in GrantTools,
              GrantUserAction(actor, id, tool)
       PROVE  OpenOperationsAreCurrent'
  BY <1>10, StillOpen DEF GrantUserAction, UserActionGranted
<1> QED
  BY <1>1, <1>4, <1>5, <1>6, <1>7, <1>8, <1>9, <1>10 DEF Next, Command

(* No open operation survives the authority it was given under.            *)
THEOREM OpenOperationsCorrect == Spec => []OpenOperationsAreCurrent
<1>1. Init => OpenOperationsAreCurrent
  BY DEF Init, NoOperations, OpenOperationsAreCurrent, OpenOperations, IsOpen
<1>2. TypeOK /\ OpenOperationsAreCurrent /\ [Next]_vars => OpenOperationsAreCurrent'
  BY OpenInductive
<1> QED
  BY <1>1, <1>2, TypeCorrect, PTL DEF Spec

-----------------------------------------------------------------------------
(* A grant pays for one operation.                                         *)

SpentGrantsKept ==
    \A grantId \in GrantIds :
        grants[grantId] # None /\ grants[grantId].status = "consumed" =>
            grants'[grantId] = grants[grantId]

OperationsKept ==
    \A id \in OperationIds :
        /\ operations'[id] # None => operations[id] # None
        /\ operations'[id] # None =>
              /\ operations'[id].toolName = operations[id].toolName
              /\ operations'[id].grantId = operations[id].grantId
              /\ operations'[id].authorityEpoch = operations[id].authorityEpoch
              /\ operations'[id].runtimeRevision = operations[id].runtimeRevision

LEMMA PaymentKept ==
  ASSUME TypeOK, GrantPaysForOneOperation, SpentGrantsKept, OperationsKept
  PROVE  GrantPaysForOneOperation'
<1>1. \A id \in OperationIds : operations[id] # None /\ operations[id].grantId # None
        => operations[id].grantId \in GrantIds
  BY DEF TypeOK, Operation
<1> QED
  BY <1>1 DEF GrantPaysForOneOperation, SpentGrantsKept, OperationsKept

LEMMA ConsumedKeepsSpent ==
  ASSUME TypeOK, NEW id \in GrantIds, grants[id] # None,
         grants[id].status = "available", UserActionConsumed(id)
  PROVE  SpentGrantsKept
  BY DEF SpentGrantsKept, UserActionConsumed, TypeOK

LEMMA HumanActionKeepsSpent ==
  ASSUME TypeOK, NEW actor, NEW grantId \in GrantIds \cup {None}, NEW tool,
         HumanAction(actor, grantId, tool)
  PROVE  SpentGrantsKept
<1>1. CASE UNCHANGED grants
  BY <1>1 DEF SpentGrantsKept
<1>2. CASE /\ grantId # None
           /\ CurrentGrant(grantId, tool)
           /\ UserActionConsumed(grantId)
  BY <1>2, ConsumedKeepsSpent DEF CurrentGrant
<1> QED
  BY <1>1, <1>2 DEF HumanAction

LEMMA PaymentInductive ==
  ASSUME TypeOK, GrantPaysForOneOperation, [Next]_vars
  PROVE  GrantPaysForOneOperation'
<1>1. ASSUME UNCHANGED operations, SpentGrantsKept
      PROVE  GrantPaysForOneOperation'
  BY <1>1, PaymentKept DEF OperationsKept
<1>2. ASSUME operations' = NoOperations
      PROVE  GrantPaysForOneOperation'
  BY <1>2 DEF GrantPaysForOneOperation, NoOperations
<1>3. UNCHANGED grants => SpentGrantsKept
  BY DEF SpentGrantsKept
<1>4. CASE UNCHANGED vars
  BY <1>1, <1>3, <1>4 DEF vars
<1>5. ASSUME PauseSession
      PROVE  GrantPaysForOneOperation'
  <2>1. OperationsKept
    BY <1>5 DEF PauseSession, OpenOperationsCancelled, OperationsKept, TypeOK,
         Operation, IsOpen
  <2> QED
    BY <1>3, <1>5, <2>1, PaymentKept DEF PauseSession
<1>6. ASSUME NEW actor \in Actors, PresenceCommand(actor)
      PROVE  GrantPaysForOneOperation'
  <2>1. \/ operations' = NoOperations
        \/ PauseSession
        \/ UNCHANGED <<operations, grants>>
    BY <1>6 DEF PresenceCommand, EnablePresence, PresenceEnabled, SetPresence,
         PresenceChanged, ObserveWorkspace, WorkspaceObserved
  <2> QED
    BY <1>1, <1>2, <1>3, <1>5, <2>1
<1>7. ASSUME NEW actor \in Actors, NEW grantId \in GrantIds \cup {None},
             \/ SessionCommand(actor, grantId)
             \/ AgreementCommand(actor, grantId)
             \/ GrowthCommand(actor, grantId)
      PROVE  GrantPaysForOneOperation'
  <2>1. /\ UNCHANGED operations
        /\ \E tool : HumanAction(actor, grantId, tool)
    <3>1. CASE SessionCommand(actor, grantId)
      BY <3>1 DEF SessionCommand, CaptureEntry, EntryCaptured, CloseSession,
           SessionClosed
    <3>2. CASE AgreementCommand(actor, grantId)
      BY <3>2 DEF AgreementCommand, ConfirmLearning, LearningConfirmed, SelectMode,
           ModeSelected, AgreeWorkUnit, WorkUnitAgreed
    <3>3. CASE GrowthCommand(actor, grantId)
      BY <3>3 DEF GrowthCommand, RecordAttempt, AttemptRecorded, RecordHypothesis,
           HypothesisRecorded, RequestHint, HintRequested,
           AuthorizeSolutionReveal, SolutionRevealAuthorized, Assist
    <3> QED
      BY <1>7, <3>1, <3>2, <3>3
  <2> QED
    BY <1>1, <2>1, HumanActionKeepsSpent
<1>8. ASSUME OpenCommand
      PROVE  GrantPaysForOneOperation'
  <2>1. \/ operations' = NoOperations
        \/ PauseSession
        \/ UNCHANGED <<operations, grants>>
    BY <1>8 DEF OpenCommand, StartSession, SessionStarted, ResumeSession,
         SessionResumed, ProposeWorkUnit, WorkUnitProposed
  <2> QED
    BY <1>1, <1>2, <1>3, <1>5, <2>1
<1>9. ASSUME NEW id \in OperationIds, NEW tool \in OperationTools,
             NEW grantId \in GrantIds \cup {None},
             AuthorizeOperation(id, tool, grantId)
      PROVE  GrantPaysForOneOperation'
  <2>1. /\ \A other \in OperationIds \ {id} : operations'[other] = operations[other]
        /\ operations'[id].grantId = grantId
        /\ operations'[id].toolName = tool
        /\ operations'[id].authorityEpoch = session.authorityEpoch
        /\ operations'[id].runtimeRevision = revision'
    BY <1>9 DEF AuthorizeOperation, OperationAuthorized, TypeOK
  <2>2. CASE grantId = None
    <3>1. UNCHANGED grants
      BY <1>9, <2>2 DEF AuthorizeOperation
    <3> QED
      BY <2>1, <2>2, <3>1 DEF GrantPaysForOneOperation
  <2>3. CASE grantId # None
    <3>1. /\ grantId \in GrantIds
          /\ CurrentGrant(grantId, tool)
          /\ UserActionConsumed(grantId)
          /\ revision' = revision + 2
      BY <1>9, <2>3 DEF AuthorizeOperation, Commit, Events
    <3>2. grants[grantId] \in Grant
      BY <3>1 DEF CurrentGrant, TypeOK
    <3>3. /\ grants'[grantId] = [grants[grantId] EXCEPT !.status = "consumed"]
          /\ \A other \in GrantIds \ {grantId} : grants'[other] = grants[other]
      BY <3>1 DEF UserActionConsumed, TypeOK
    <3>4. /\ grants'[grantId] # None
          /\ grants'[grantId].status = "consumed"
          /\ grants'[grantId].toolName = tool
          /\ grants'[grantId].authorityEpoch = session.authorityEpoch
          /\ grants'[grantId].runtimeRevision = revision
      BY <3>1, <3>2, <3>3, NoneAssumption DEF CurrentGrant, Grant
    <3>5. \A other \in OperationIds \ {id} :
            operations[other] # None /\ operations[other].grantId # None =>
                /\ operations[other].grantId # grantId
                /\ operations[other].grantId \in GrantIds
      BY <3>1 DEF GrantPaysForOneOperation, CurrentGrant, TypeOK, Operation
    <3>6. grants'[grantId].runtimeRevision + 2 = operations'[id].runtimeRevision
      BY <2>1, <3>1, <3>4 DEF TypeOK
    <3> SUFFICES ASSUME NEW paid \in OperationIds,
                        operations'[paid] # None, operations'[paid].grantId # None
                 PROVE  LET grant == grants'[operations'[paid].grantId]
                        IN  /\ grant # None
                            /\ grant.status = "consumed"
                            /\ grant.toolName = operations'[paid].toolName
                            /\ grant.authorityEpoch = operations'[paid].authorityEpoch
                            /\ grant.runtimeRevision + 2
                                  = operations'[paid].runtimeRevision
                            /\ \A other \in OperationIds \ {paid} :
                                 operations'[other] # None =>
                                   operations'[other].grantId
                                     # operations'[paid].grantId
      BY DEF GrantPaysForOneOperation
    <3>7. CASE paid = id
      BY <2>1, <2>3, <3>4, <3>5, <3>6, <3>7
    <3>8. CASE paid # id
      <4>1. operations'[paid] = operations[paid]
        BY <2>1, <3>8
      <4>2. grants'[operations[paid].grantId] = grants[operations[paid].grantId]
        BY <3>3, <3>5, <3>8, <4>1
      <4> QED
        BY <2>1, <3>5, <3>8, <4>1, <4>2 DEF GrantPaysForOneOperation
    <3> QED
      BY <3>7, <3>8
  <2> QED
    BY <2>2, <2>3
<1>10. ASSUME NEW id \in OperationIds, NEW epoch, NEW status \in TerminalStatuses,
              ObserveOperationResult(id, epoch, status)
       PROVE  GrantPaysForOneOperation'
  <2>1. OperationsKept /\ UNCHANGED grants
    BY <1>10 DEF ObserveOperationResult, OperationObserved, OperationsKept, TypeOK,
         Operation, IsOpen
  <2> QED
    BY <1>3, <2>1, PaymentKept
<1>11. ASSUME NEW actor \in Actors, NEW id \in GrantIds, NEW tool \in GrantTools,
              GrantUserAction(actor, id, tool)
       PROVE  GrantPaysForOneOperation'
  <2>1. UNCHANGED operations /\ SpentGrantsKept
    BY <1>11 DEF GrantUserAction, UserActionGranted, SpentGrantsKept, TypeOK
  <2> QED
    BY <1>1, <2>1
<1> QED
  BY <1>4, <1>6, <1>7, <1>8, <1>9, <1>10, <1>11 DEF Next, Command, OperationCommand

(* A user action pays for one operation, of its own tool, and at once.     *)
THEOREM GrantsCorrect == Spec => []GrantPaysForOneOperation
<1>1. Init => GrantPaysForOneOperation
  BY DEF Init, NoOperations, GrantPaysForOneOperation
<1>2. TypeOK /\ GrantPaysForOneOperation /\ [Next]_vars => GrantPaysForOneOperation'
  BY PaymentInductive
<1> QED
  BY <1>1, <1>2, TypeCorrect, PTL DEF Spec

-----------------------------------------------------------------------------
(* Protected paths.                                                        *)

(* Every entry on record went through NormalizeEntry. *)
DirtyIsProtected ==
    session # None /\ session.entry # None =>
        session.entry.dirty \subseteq session.entry.protected

PathsKept ==
    SameSession /\ session.entry # None =>
        /\ session'.entry # None
        /\ session.entry.dirty \cup session.entry.protected
              \subseteq session'.entry.protected

LEMMA NormalizedProtects ==
  ASSUME NEW entry \in Entry, NEW previous \in Entry \cup {None}
  PROVE  LET new == NormalizeEntry(entry, previous)
         IN  /\ new \in Entry
             /\ new # None
             /\ new.dirty \subseteq new.protected
             /\ previous # None =>
                   previous.dirty \cup previous.protected \subseteq new.protected
  BY NoneAssumption DEF NormalizeEntry, Entry

LEMMA PathsStep ==
  ASSUME TypeOK, DirtyIsProtected, [Next]_vars
  PROVE  DirtyIsProtected' /\ PathsKept
<1> USE DEF DirtyIsProtected, PathsKept, SameSession
<1>1. ASSUME session' = None \/ session' = session
      PROVE  DirtyIsProtected' /\ PathsKept
  BY <1>1
<1>2. ASSUME session' \in Session, session # None, session'.entry = session.entry
      PROVE  DirtyIsProtected' /\ PathsKept
  BY <1>2
<1>3. ASSUME NEW entry \in Entry, session \in Session, session' \in Session,
             session'.entry = NormalizeEntry(entry, session.entry)
      PROVE  DirtyIsProtected' /\ PathsKept
  BY <1>3, NormalizedProtects DEF Session
<1>4. ASSUME PauseSession
      PROVE  DirtyIsProtected' /\ PathsKept
  BY <1>2, <1>4, PauseTypeStep DEF PauseSession, SessionPaused, Pausable, InStatus,
     TypeOK, Session
<1>5. ASSUME NEW actor \in Actors, PresenceCommand(actor)
      PROVE  DirtyIsProtected' /\ PathsKept
  BY <1>1, <1>4, <1>5, SessionFrame
<1>6. ASSUME NEW actor \in Actors, NEW grantId \in GrantIds \cup {None},
             SessionCommand(actor, grantId)
      PROVE  DirtyIsProtected' /\ PathsKept
  <2>1. session' \in Session
    BY <1>6, SessionTypeStep
  <2>2. ASSUME NEW entry \in Entry, CaptureEntry(actor, grantId, entry)
        PROVE  DirtyIsProtected' /\ PathsKept
    <3>1. session \in Session /\ EntryCaptured(entry)
      BY <2>2 DEF CaptureEntry, Briefing, InStatus, TypeOK
    <3>2. session'.entry = NormalizeEntry(entry, session.entry)
      BY <3>1 DEF EntryCaptured, Session
    <3> QED
      BY <1>3, <2>1, <3>1, <3>2
  <2>3. CASE CloseSession(actor, grantId)
    BY <1>2, <2>1, <2>3 DEF CloseSession, SessionClosed, Closable, InStatus, TypeOK,
       Session
  <2> QED
    BY <1>6, <2>2, <2>3 DEF SessionCommand
<1>7. ASSUME NEW actor \in Actors, NEW grantId \in GrantIds \cup {None},
             AgreementCommand(actor, grantId) \/ GrowthCommand(actor, grantId)
      PROVE  DirtyIsProtected' /\ PathsKept
  <2>1. session' \in Session
    BY <1>7, AgreementTypeStep, GrowthTypeStep
  <2>2. session # None /\ session'.entry = session.entry
    <3>1. CASE AgreementCommand(actor, grantId)
      BY <3>1 DEF AgreementCommand, ConfirmLearning, LearningConfirmed, SelectMode,
           ModeSelected, AgreeWorkUnit, WorkUnitAgreed, Briefing, InStatus, TypeOK,
           Session
    <3>2. CASE GrowthCommand(actor, grantId)
      BY <3>2 DEF GrowthCommand, RecordAttempt, AttemptRecorded, RecordHypothesis,
           HypothesisRecorded, RequestHint, HintRequested, AuthorizeSolutionReveal,
           SolutionRevealAuthorized, Assist, Working, InStatus, TypeOK, Session
    <3> QED
      BY <1>7, <3>1, <3>2
  <2> QED
    BY <1>2, <2>1, <2>2
<1>8. ASSUME OpenCommand
      PROVE  DirtyIsProtected' /\ PathsKept
  <2>1. session' \in Session
    BY <1>8, OpenTypeStep
  <2>2. ASSUME NEW id \in SessionIds, StartSession(id)
        PROVE  DirtyIsProtected' /\ PathsKept
    BY <2>2 DEF StartSession, SessionStarted, CreateSession
  <2>3. ASSUME NEW entry \in Entry, ResumeSession(entry)
        PROVE  DirtyIsProtected' /\ PathsKept
    <3>1. session \in Session /\ SessionResumed(entry)
      BY <2>3 DEF ResumeSession, Paused, InStatus, TypeOK
    <3>2. session'.entry = NormalizeEntry(entry, session.entry)
      BY <3>1 DEF SessionResumed, Session
    <3> QED
      BY <1>3, <2>1, <3>1, <3>2
  <2>4. ASSUME NEW unit \in Proposals, ProposeWorkUnit(unit)
        PROVE  DirtyIsProtected' /\ PathsKept
    BY <1>2, <2>1, <2>4 DEF ProposeWorkUnit, WorkUnitProposed, Briefing, InStatus,
       TypeOK, Session
  <2> QED
    BY <1>4, <1>8, <2>2, <2>3, <2>4 DEF OpenCommand
<1>9. ASSUME OperationCommand \/ UNCHANGED vars
      PROVE  DirtyIsProtected' /\ PathsKept
  BY <1>1, <1>9, SessionFrame DEF vars
<1>10. ASSUME NEW actor \in Actors, NEW id \in GrantIds, NEW tool \in GrantTools,
              GrantUserAction(actor, id, tool)
       PROVE  DirtyIsProtected' /\ PathsKept
  BY <1>1, <1>10, SessionFrame
<1> QED
  BY <1>5, <1>6, <1>7, <1>8, <1>9, <1>10 DEF Next, Command

(* The developer's unsaved work, once seen, is protected to the session's  *)
(* end.                                                                    *)
THEOREM ProtectedPathsCorrect == Spec => ProtectedPathsStay
<1>1. Init => DirtyIsProtected
  BY DEF Init, DirtyIsProtected
<1>2. TypeOK /\ DirtyIsProtected /\ [Next]_vars => DirtyIsProtected' /\ [PathsKept]_vars
  BY PathsStep
<1> QED
  BY <1>1, <1>2, TypeCorrect, PTL DEF Spec, ProtectedPathsStay, PathsKept

-----------------------------------------------------------------------------
(* Authority is not revived.                                               *)

NoSessionNoAuthority ==
    session = None => operations = NoOperations /\ grants = NoGrants

OperationsOnlySettle ==
    \A id \in OperationIds : operations[id] # None =>
        /\ operations'[id] # None
        /\ operations'[id] = [operations[id] EXCEPT !.status = operations'[id].status]
        /\ ~IsOpen(id) => operations'[id] = operations[id]

AuthorityStep ==
    /\ SameSession =>
          /\ session'.authorityEpoch >= session.authorityEpoch
          /\ OperationsOnlySettle
    /\ ~SameSession => operations' = NoOperations /\ grants' = NoGrants
    /\ presence'.workspaceId # presence.workspaceId => session' = None

LEMMA UnchangedSettle ==
  ASSUME TypeOK, UNCHANGED operations
  PROVE  OperationsOnlySettle
<1>1. \A id \in OperationIds : operations[id] # None => operations[id] \in Operation
  BY DEF TypeOK
<1>2. \A operation \in Operation :
        operation = [operation EXCEPT !.status = operation.status]
  BY DEF Operation
<1> QED
  BY <1>1, <1>2 DEF OperationsOnlySettle

LEMMA RevivalStep ==
  ASSUME TypeOK, NoSessionNoAuthority, [Next]_vars
  PROVE  NoSessionNoAuthority' /\ AuthorityStep
<1>1. ASSUME UNCHANGED <<session, operations>>,
             presence'.workspaceId # presence.workspaceId => session' = None,
             session = None => UNCHANGED grants
      PROVE  NoSessionNoAuthority' /\ AuthorityStep
  BY <1>1, UnchangedSettle DEF NoSessionNoAuthority, AuthorityStep, SameSession, TypeOK,
     Session, NoOperations, NoGrants
<1>2. ASSUME session' = None, operations' = NoOperations, grants' = NoGrants
      PROVE  NoSessionNoAuthority' /\ AuthorityStep
  BY <1>2 DEF NoSessionNoAuthority, AuthorityStep, SameSession, NoOperations, NoGrants
<1>3. ASSUME session \in Session, session' \in Session,
             session'.startedAtRevision = session.startedAtRevision,
             session'.authorityEpoch \in {session.authorityEpoch,
                                          session.authorityEpoch + 1},
             presence'.workspaceId = presence.workspaceId,
             OperationsOnlySettle
      PROVE  NoSessionNoAuthority' /\ AuthorityStep
  BY <1>3, NoneAssumption DEF NoSessionNoAuthority, AuthorityStep, SameSession, Session
<1>4. ASSUME PauseSession
      PROVE  NoSessionNoAuthority' /\ AuthorityStep
  <2>1. session \in Session /\ session' \in Session
    BY <1>4, PauseTypeStep, StatusMeansSession DEF PauseSession, Pausable
  <2>2. OperationsOnlySettle
    <3>1. \A id \in OperationIds : operations[id] # None => operations[id] \in Operation
      BY DEF TypeOK
    <3>2. \A id \in OperationIds : IsOpen(id) =>
            operations'[id] = [operations[id] EXCEPT !.status = "cancelled"]
      BY <1>4 DEF PauseSession, OpenOperationsCancelled
    <3>3. \A id \in OperationIds : ~IsOpen(id) => operations'[id] = operations[id]
      BY <1>4 DEF PauseSession, OpenOperationsCancelled
    <3>4. \A operation \in Operation :
            LET cancelled == [operation EXCEPT !.status = "cancelled"]
            IN  /\ cancelled \in Operation
                /\ cancelled.status = "cancelled"
                /\ operation = [operation EXCEPT !.status = operation.status]
      BY DEF Operation, TerminalStatuses
    <3>5. ASSUME NEW id \in OperationIds, IsOpen(id)
          PROVE  /\ operations'[id] # None
                 /\ operations'[id]
                      = [operations[id] EXCEPT !.status = operations'[id].status]
      <4>1. /\ operations[id] \in Operation
            /\ operations'[id] = [operations[id] EXCEPT !.status = "cancelled"]
        BY <3>1, <3>2, <3>5 DEF IsOpen
      <4>2. operations'[id] \in Operation /\ operations'[id].status = "cancelled"
        BY <3>4, <4>1
      <4> QED
        BY <4>1, <4>2, NoneAssumption
    <3>6. ASSUME NEW id \in OperationIds, operations[id] # None, ~IsOpen(id)
          PROVE  operations'[id]
                   = [operations[id] EXCEPT !.status = operations'[id].status]
      <4>1. operations[id] \in Operation /\ operations'[id] = operations[id]
        BY <3>1, <3>3, <3>6
      <4>2. operations[id] = [operations[id] EXCEPT !.status = operations[id].status]
        BY <3>4, <4>1
      <4> QED
        BY <4>1, <4>2
    <3> QED
      BY <3>3, <3>5, <3>6 DEF OperationsOnlySettle
  <2> QED
    BY <1>3, <1>4, <2>1, <2>2 DEF PauseSession, SessionPaused, TypeOK, Session, Presence
<1>5. ASSUME NEW actor \in Actors, PresenceCommand(actor)
      PROVE  NoSessionNoAuthority' /\ AuthorityStep
  <2>1. \/ PauseSession
        \/ session' = None /\ operations' = NoOperations /\ grants' = NoGrants
        \/ /\ UNCHANGED <<session, operations, grants>>
           /\ presence'.workspaceId # presence.workspaceId => session' = None
    <3>1. ASSUME NEW workspace \in Workspaces, EnablePresence(actor, workspace),
                 ~RequiresWorkspaceReset(workspace)
          PROVE  /\ UNCHANGED <<session, operations, grants>>
                 /\ presence'.workspaceId # presence.workspaceId => session' = None
      BY <3>1 DEF EnablePresence, PresenceEnabled, RequiresWorkspaceReset, TypeOK,
         Presence
    <3>2. ASSUME NEW requested \in {"observing", "quiet", "paused", "off"},
                 SetPresence(actor, requested), ~PauseSession
          PROVE  \/ session' = None /\ operations' = NoOperations /\ grants' = NoGrants
                 \/ /\ UNCHANGED <<session, operations, grants>>
                    /\ presence'.workspaceId = presence.workspaceId
      BY <3>2 DEF SetPresence, PresenceChanged, TypeOK, Presence
    <3>3. ASSUME ObserveWorkspace(actor)
          PROVE  /\ UNCHANGED <<session, operations, grants>>
                 /\ presence'.workspaceId = presence.workspaceId
      BY <3>3 DEF ObserveWorkspace, WorkspaceObserved, TypeOK, Presence
    <3> QED
      BY <1>5, <3>1, <3>2, <3>3 DEF PresenceCommand, EnablePresence
  <2> QED
    BY <1>1, <1>2, <1>4, <2>1
<1>6. ASSUME NEW actor \in Actors, NEW grantId \in GrantIds \cup {None},
             \/ SessionCommand(actor, grantId)
             \/ AgreementCommand(actor, grantId)
             \/ GrowthCommand(actor, grantId)
      PROVE  NoSessionNoAuthority' /\ AuthorityStep
  <2>1. session' \in Session
    BY <1>6, SessionTypeStep, AgreementTypeStep, GrowthTypeStep
  <2>2. /\ session \in Session
        /\ session'.startedAtRevision = session.startedAtRevision
        /\ session'.authorityEpoch = session.authorityEpoch
        /\ presence'.workspaceId = presence.workspaceId
        /\ UNCHANGED operations
    <3>1. CASE SessionCommand(actor, grantId)
      BY <3>1 DEF SessionCommand, CaptureEntry, EntryCaptured, CloseSession,
         SessionClosed, Briefing, Closable, InStatus, TypeOK, Session, Presence
    <3>2. CASE AgreementCommand(actor, grantId)
      BY <3>2 DEF AgreementCommand, ConfirmLearning, LearningConfirmed, SelectMode,
         ModeSelected, AgreeWorkUnit, WorkUnitAgreed, Briefing, InStatus, TypeOK,
         Session
    <3>3. CASE GrowthCommand(actor, grantId)
      BY <3>3 DEF GrowthCommand, RecordAttempt, AttemptRecorded, RecordHypothesis,
         HypothesisRecorded, RequestHint, HintRequested, AuthorizeSolutionReveal,
         SolutionRevealAuthorized, Assist, Working, InStatus, TypeOK, Session
    <3> QED
      BY <1>6, <3>1, <3>2, <3>3
  <2> QED
    BY <1>3, <2>1, <2>2, UnchangedSettle
<1>7. ASSUME OpenCommand
      PROVE  NoSessionNoAuthority' /\ AuthorityStep
  <2>1. session' \in Session
    BY <1>7, OpenTypeStep
  <2>2. ASSUME NEW id \in SessionIds, StartSession(id)
        PROVE  NoSessionNoAuthority' /\ AuthorityStep
    <3>1. /\ session = None
          /\ operations' = NoOperations
          /\ grants' = NoGrants
          /\ presence'.workspaceId = presence.workspaceId
      BY <2>2 DEF StartSession, SessionStarted, TypeOK, Presence
    <3> QED
      BY <2>1, <3>1, NoneAssumption DEF NoSessionNoAuthority, AuthorityStep,
         SameSession
  <2>3. ASSUME NEW entry \in Entry, ResumeSession(entry)
        PROVE  NoSessionNoAuthority' /\ AuthorityStep
    BY <1>3, <2>1, <2>3, UnchangedSettle DEF ResumeSession, SessionResumed, Paused,
       InStatus, TypeOK, Session, Presence
  <2>4. ASSUME NEW unit \in Proposals, ProposeWorkUnit(unit)
        PROVE  NoSessionNoAuthority' /\ AuthorityStep
    BY <1>3, <2>1, <2>4, UnchangedSettle DEF ProposeWorkUnit, WorkUnitProposed,
       Briefing, InStatus, TypeOK, Session
  <2> QED
    BY <1>4, <1>7, <2>2, <2>3, <2>4 DEF OpenCommand
<1>8. ASSUME OperationCommand
      PROVE  NoSessionNoAuthority' /\ AuthorityStep
  <2>1. session \in Session /\ UNCHANGED <<presence, session>>
    BY <1>8 DEF OperationCommand, AuthorizeOperation, OperationAuthorized,
       ObserveOperationResult, OperationObserved, Operational, InStatus, TypeOK
  <2>2. \A id \in OperationIds : operations[id] # None => operations[id] \in Operation
    BY DEF TypeOK
  <2>3. OperationsOnlySettle
    <3>1. ASSUME NEW id \in OperationIds, NEW tool \in OperationTools,
                 NEW grantId \in GrantIds \cup {None},
                 AuthorizeOperation(id, tool, grantId)
          PROVE  OperationsOnlySettle
      <4>1. operations[id] = None
        BY <3>1 DEF AuthorizeOperation
      <4>2. \A other \in OperationIds \ {id} : operations'[other] = operations[other]
        BY <3>1 DEF AuthorizeOperation, OperationAuthorized, TypeOK
      <4>3. \A operation \in Operation :
              operation = [operation EXCEPT !.status = operation.status]
        BY DEF Operation
      <4> QED
        BY <2>2, <4>1, <4>2, <4>3 DEF OperationsOnlySettle
    <3>2. ASSUME NEW id \in OperationIds, NEW epoch, NEW status \in TerminalStatuses,
                 ObserveOperationResult(id, epoch, status)
          PROVE  OperationsOnlySettle
      <4>1. IsOpen(id) /\ operations[id] \in Operation
        BY <2>2, <3>2 DEF ObserveOperationResult, IsOpen
      <4>2. operations'[id] = [operations[id] EXCEPT !.status = status]
        BY <3>2 DEF ObserveOperationResult, OperationObserved, TypeOK
      <4>3. operations'[id] \in Operation /\ operations'[id].status = status
        BY <4>1, <4>2 DEF Operation
      <4>4. \A other \in OperationIds \ {id} : operations'[other] = operations[other]
        BY <3>2 DEF ObserveOperationResult, OperationObserved, TypeOK
      <4>5. \A operation \in Operation :
              operation = [operation EXCEPT !.status = operation.status]
        BY DEF Operation
      <4> QED
        BY <2>2, <4>1, <4>2, <4>3, <4>4, <4>5, NoneAssumption DEF OperationsOnlySettle
    <3> QED
      BY <1>8, <3>1, <3>2 DEF OperationCommand
  <2> QED
    BY <1>3, <2>1, <2>3
<1>9. ASSUME NEW actor \in Actors, NEW id \in GrantIds, NEW tool \in GrantTools,
             GrantUserAction(actor, id, tool)
      PROVE  NoSessionNoAuthority' /\ AuthorityStep
  <2>1. session # None
    BY <1>9 DEF GrantUserAction, Grantable, Briefing, Operational, OperationalGrowth,
       OperationalDeliveryAi, Closable, InStatus
  <2> QED
    BY <1>1, <1>9, <2>1 DEF GrantUserAction, UserActionGranted
<1>10. CASE UNCHANGED vars
  BY <1>1, <1>10 DEF vars
<1> QED
  BY <1>5, <1>6, <1>7, <1>8, <1>9, <1>10 DEF Next, Command

(* An operation settles once, an epoch never falls, and neither operations *)
(* nor grants outlive the session or the workspace they were given in.     *)
THEOREM AuthorityCorrect == Spec => AuthorityIsNotRevived
<1>1. Init => NoSessionNoAuthority
  BY DEF Init, NoSessionNoAuthority
<1>2. TypeOK /\ NoSessionNoAuthority /\ [Next]_vars
        => NoSessionNoAuthority' /\ [AuthorityStep]_vars
  BY RevivalStep
<1> QED
  BY <1>1, <1>2, TypeCorrect, PTL
     DEF Spec, AuthorityIsNotRevived, AuthorityStep, OperationsOnlySettle

-----------------------------------------------------------------------------
(* The model decides nothing alone.                                        *)

ChoicesKept == HumanChoices' = HumanChoices /\ AgreedUnitStands

LEMMA AiNeedsGrant ==
  ASSUME TypeOK, NEW grantId \in GrantIds \cup {None}, NEW tool,
         HumanAction("ai", grantId, tool)
  PROVE  SpendsGrant
<1>1. /\ grantId \in GrantIds
      /\ CurrentGrant(grantId, tool)
      /\ UserActionConsumed(grantId)
  BY DEF HumanAction
<1>2. grants[grantId] \in Grant /\ grants[grantId].status = "available"
  BY <1>1 DEF CurrentGrant, TypeOK
<1>3. grants'[grantId] = [grants[grantId] EXCEPT !.status = "consumed"]
  BY <1>1 DEF UserActionConsumed, TypeOK
<1>4. grants'[grantId] \in Grant /\ grants'[grantId].status = "consumed"
  BY <1>2, <1>3 DEF Grant
<1> QED
  BY <1>1, <1>2, <1>4, NoneAssumption DEF SpendsGrant

LEMMA AiStep ==
  ASSUME TypeOK, WorkUnitFitsSession, session # None, Command("ai"), ~SpendsGrant
  PROVE  ChoicesKept
<1>1. ~PresenceCommand("ai")
  BY DEF PresenceCommand, EnablePresence, SetPresence, ObserveWorkspace
<1>2. ASSUME NEW grantId \in GrantIds \cup {None},
             \/ SessionCommand("ai", grantId)
             \/ AgreementCommand("ai", grantId)
             \/ GrowthCommand("ai", grantId)
      PROVE  FALSE
  <2>1. \E tool : HumanAction("ai", grantId, tool)
    BY <1>2 DEF SessionCommand, CaptureEntry, CloseSession, AgreementCommand,
       ConfirmLearning, SelectMode, AgreeWorkUnit, GrowthCommand, RecordAttempt,
       RecordHypothesis, RequestHint, AuthorizeSolutionReveal
  <2> QED
    BY <2>1, AiNeedsGrant
<1>3. \A id \in GrantIds, tool \in GrantTools : ~GrantUserAction("ai", id, tool)
  BY DEF GrantUserAction
<1>4. CASE OperationCommand
  BY <1>4, SessionFrame DEF ChoicesKept, HumanChoices, InStatus, AgreedUnitStands
<1>5. CASE OpenCommand
  <2>1. session \in Session /\ session' \in Session
    BY <1>5, OpenTypeStep DEF TypeOK
  <2>2. CASE PauseSession
    <3>1. /\ session.status # "closed" /\ session'.status # "closed"
          /\ session'.maximumHintLevel = session.maximumHintLevel
          /\ session'.mode = session.mode
          /\ session'.assistance = session.assistance
          /\ session'.workUnit = session.workUnit
      BY <2>1, <2>2, NoneAssumption DEF PauseSession, SessionPaused, Pausable, InStatus,
         Session
    <3> QED
      BY <2>1, <3>1, NoneAssumption DEF ChoicesKept, HumanChoices, InStatus,
         AgreedUnitStands
  <2>3. ASSUME NEW entry \in Entry, ResumeSession(entry)
        PROVE  ChoicesKept
    <3>1. /\ session.status = "paused" /\ session'.status = "reconciling"
          /\ session'.maximumHintLevel = session.maximumHintLevel
          /\ session'.mode = session.mode
          /\ session'.assistance = session.assistance
          /\ session'.workUnit = ReconcileWorkUnit(session.workUnit)
      BY <2>1, <2>3 DEF ResumeSession, SessionResumed, Paused, InStatus, Session
    <3> QED
      BY <2>1, <3>1, NoneAssumption DEF ChoicesKept, HumanChoices, InStatus,
         AgreedUnitStands, SuspendsUnit
  <2>4. ASSUME NEW unit \in Proposals, ProposeWorkUnit(unit)
        PROVE  ChoicesKept
    <3>1. ~HasAgreedWorkUnit
      BY <2>4 DEF ProposeWorkUnit, WorkUnitFitsSession
    <3>2. ~HasAgreedWorkUnit'
      BY <2>1, <2>4 DEF ProposeWorkUnit, WorkUnitProposed, ValidProposal, Session,
         HasAgreedWorkUnit
    <3>3. HumanChoices' = HumanChoices
      BY <2>1, <2>4, NoneAssumption DEF ProposeWorkUnit, WorkUnitProposed, Briefing,
         InStatus, Session, HumanChoices
    <3> QED
      BY <3>1, <3>2, <3>3 DEF ChoicesKept, AgreedUnitStands
  <2> QED
    BY <1>5, <2>2, <2>3, <2>4 DEF OpenCommand, StartSession
<1> QED
  BY <1>1, <1>2, <1>3, <1>4, <1>5 DEF Command

(* What only the developer may decide takes the developer's action or a    *)
(* grant of it; a pause and a resume, which ask for neither, only suspend  *)
(* an agreement.                                                           *)
THEOREM HumanChoicesCorrect == Spec => AiDecidesNothingAlone
<1>1. TypeOK /\ WorkUnitFitsSession /\ [Next]_vars =>
        [/\ session # None
         /\ ~(HumanChoices' = HumanChoices /\ AgreedUnitStands)
         /\ ~SpendsGrant
         => ~Command("ai")]_vars
  BY AiStep DEF ChoicesKept
<1> QED
  BY <1>1, TypeCorrect, WorkUnitsCorrect, PTL DEF Spec, AiDecidesNothingAlone

-----------------------------------------------------------------------------
(* The refinement: a step of the kernel is a step of the ledger or a       *)
(* stutter.  The mapping needs two invariants: nothing is authorised       *)
(* without a session, and an open operation has a ready, active or closed  *)
(* session.                                                                *)

MappingInv == NoSessionNoAuthority /\ OpenOperationsAreCurrent

LEMMA LedgerUnchanged ==
  ASSUME UNCHANGED operations, LedgerPhase' = LedgerPhase, LedgerEpoch' = LedgerEpoch
  PROVE  UNCHANGED <<LedgerPhase, LedgerEpoch, OpenOperations, SettledOperations>>
  BY DEF OpenOperations, SettledOperations, IsOpen

LEMMA LedgerBlank ==
  /\ operations = NoOperations => OpenOperations = {} /\ SettledOperations = {}
  /\ operations' = NoOperations => OpenOperations' = {} /\ SettledOperations' = {}
  BY DEF OpenOperations, SettledOperations, IsOpen, NoOperations

(* Where each command leaves the session's phase and epoch. *)
LEMMA LedgerStep ==
  ASSUME TypeOK, MappingInv, [Next]_vars
  PROVE  [Ledger!Next]_<<LedgerPhase, LedgerEpoch, OpenOperations, SettledOperations>>
<1> DEFINE Step ==
      [Ledger!Next]_<<LedgerPhase, LedgerEpoch, OpenOperations, SettledOperations>>
<1> USE DEF LedgerPhase, LedgerEpoch
<1>1. ASSUME UNCHANGED <<session, operations>>
      PROVE  Step
  BY <1>1, LedgerUnchanged
<1>2. ASSUME session' = None, operations' = NoOperations
      PROVE  Step
  <2>1. OpenOperations' = {} /\ SettledOperations' = {}
    BY <1>2, LedgerBlank
  <2>2. CASE session = None
    <3>1. OpenOperations = {} /\ SettledOperations = {}
      BY <2>2, LedgerBlank DEF MappingInv, NoSessionNoAuthority
    <3> QED
      BY <1>2, <2>1, <2>2, <3>1
  <2>3. CASE session # None
    <3>1. LedgerPhase # "vacant"
      BY <2>3 DEF TypeOK, Session, SessionStatuses
    <3>2. Ledger!Forget
      BY <1>2, <2>1, <3>1 DEF Ledger!Forget, Ledger!Blank
    <3> QED
      BY <3>2 DEF Ledger!Next
  <2> QED
    BY <2>2, <2>3
<1>3. ASSUME PauseSession
      PROVE  Step
  <2>1. session \in Session /\ session' \in Session
    BY <1>3, PauseTypeStep, StatusMeansSession DEF PauseSession, Pausable
  <2>2. /\ LedgerPhase \in {"given", "revoked"}
        /\ LedgerPhase' = "revoked"
        /\ LedgerEpoch' = LedgerEpoch + 1
    BY <1>3, <2>1, NoneAssumption DEF PauseSession, SessionPaused, Pausable, InStatus,
       Session
  <2>3. \A id \in OperationIds :
          /\ (operations[id] # None) <=> (operations[id] # None)'
          /\ ~IsOpen(id)'
    <3>1. \A operation \in Operation :
            /\ [operation EXCEPT !.status = "cancelled"] \in Operation
            /\ [operation EXCEPT !.status = "cancelled"].status = "cancelled"
      BY DEF Operation, TerminalStatuses
    <3>2. \A id \in OperationIds : operations[id] # None => operations[id] \in Operation
      BY DEF TypeOK
    <3>3. ASSUME NEW id \in OperationIds, IsOpen(id)
          PROVE  operations'[id] # None /\ operations'[id].status = "cancelled"
      <4>1. operations'[id] = [operations[id] EXCEPT !.status = "cancelled"]
        BY <1>3, <3>3 DEF PauseSession, OpenOperationsCancelled
      <4> QED
        BY <3>1, <3>2, <3>3, <4>1, NoneAssumption DEF IsOpen
    <3>4. \A id \in OperationIds : ~IsOpen(id) => operations'[id] = operations[id]
      BY <1>3 DEF PauseSession, OpenOperationsCancelled
    <3> QED
      BY <3>3, <3>4 DEF IsOpen, TerminalStatuses
  <2>4. OpenOperations' = {} /\ SettledOperations' = SettledOperations \cup OpenOperations
    BY <2>3 DEF OpenOperations, SettledOperations, IsOpen
  <2>5. Ledger!Revoke
    BY <2>2, <2>4 DEF Ledger!Revoke
  <2> QED
    BY <2>5 DEF Ledger!Next
<1>4. ASSUME NEW actor \in Actors, PresenceCommand(actor)
      PROVE  Step
  <2>1. \/ PauseSession
        \/ session' = None /\ operations' = NoOperations
        \/ UNCHANGED <<session, operations>>
    BY <1>4 DEF PresenceCommand, EnablePresence, PresenceEnabled, SetPresence,
       PresenceChanged, ObserveWorkspace, WorkspaceObserved
  <2> QED
    BY <1>1, <1>2, <1>3, <2>1
<1>5. ASSUME UNCHANGED operations, session \in Session, session' \in Session,
             session'.authorityEpoch = session.authorityEpoch,
             LedgerPhase' = LedgerPhase
      PROVE  Step
  BY <1>5, LedgerUnchanged, NoneAssumption
<1>6. ASSUME NEW actor \in Actors, NEW grantId \in GrantIds \cup {None},
             SessionCommand(actor, grantId)
      PROVE  Step
  <2>1. session' \in Session
    BY <1>6, SessionTypeStep
  <2>2. ASSUME NEW entry \in Entry, CaptureEntry(actor, grantId, entry)
        PROVE  Step
    <3>1. /\ session \in Session
          /\ UNCHANGED operations
          /\ session'.authorityEpoch = session.authorityEpoch
          /\ session'.status = session.status
          /\ session.status \in SessionStatuses
      BY <2>2 DEF CaptureEntry, EntryCaptured, Briefing, InStatus, TypeOK, Session
    <3> QED
      BY <1>5, <2>1, <3>1, NoneAssumption DEF SessionStatuses
  <2>3. CASE CloseSession(actor, grantId)
    <3>1. /\ session \in Session
          /\ session.status # "closed"
          /\ UNCHANGED operations
          /\ session'.authorityEpoch = session.authorityEpoch
          /\ session'.status = "closed"
      BY <2>3 DEF CloseSession, SessionClosed, Closable, InStatus, TypeOK, Session
    <3>2. LedgerPhase \in {"briefing", "given", "revoked"} /\ LedgerPhase' = "ended"
      BY <2>1, <3>1, NoneAssumption DEF Session, SessionStatuses
    <3>3. UNCHANGED <<LedgerEpoch, OpenOperations, SettledOperations>>
      BY <2>1, <3>1, NoneAssumption DEF OpenOperations, SettledOperations, IsOpen
    <3> QED
      BY <3>2, <3>3 DEF Ledger!Next, Ledger!End
  <2> QED
    BY <1>6, <2>2, <2>3 DEF SessionCommand
<1>7. ASSUME NEW actor \in Actors, NEW grantId \in GrantIds \cup {None},
             AgreementCommand(actor, grantId)
      PROVE  Step
  <2>1. session' \in Session
    BY <1>7, AgreementTypeStep
  <2>2. /\ session \in Session
        /\ session.status = "briefing"
        /\ UNCHANGED operations
        /\ session'.authorityEpoch = session.authorityEpoch
        /\ session'.status \in {"briefing", "ready"}
    BY <1>7 DEF AgreementCommand, ConfirmLearning, LearningConfirmed, SelectMode,
       ModeSelected, AgreeWorkUnit, WorkUnitAgreed, Briefing, InStatus, TypeOK, Session
  <2>3. CASE session'.status = "briefing"
    BY <1>5, <2>1, <2>2, <2>3, NoneAssumption
  <2>4. CASE session'.status = "ready"
    <3>1. /\ LedgerPhase = "briefing" /\ LedgerPhase' = "given"
          /\ UNCHANGED <<LedgerEpoch, OpenOperations, SettledOperations>>
      BY <2>1, <2>2, <2>4, NoneAssumption DEF OpenOperations, SettledOperations, IsOpen
    <3> QED
      BY <3>1 DEF Ledger!Next, Ledger!Give
  <2> QED
    BY <2>2, <2>3, <2>4
<1>8. ASSUME NEW actor \in Actors, NEW grantId \in GrantIds \cup {None},
             GrowthCommand(actor, grantId)
      PROVE  Step
  <2>1. session' \in Session
    BY <1>8, GrowthTypeStep
  <2>2. /\ session \in Session
        /\ session.status \in {"briefing", "ready", "active"}
        /\ UNCHANGED operations
        /\ session'.authorityEpoch = session.authorityEpoch
        /\ session'.status = "active"
    BY <1>8 DEF GrowthCommand, RecordAttempt, AttemptRecorded, RecordHypothesis,
       HypothesisRecorded, RequestHint, HintRequested, AuthorizeSolutionReveal,
       SolutionRevealAuthorized, Assist, Working, InStatus, TypeOK, Session
  <2>3. CASE session.status = "briefing"
    <3>1. /\ LedgerPhase = "briefing" /\ LedgerPhase' = "given"
          /\ UNCHANGED <<LedgerEpoch, OpenOperations, SettledOperations>>
      BY <2>1, <2>2, <2>3, NoneAssumption DEF OpenOperations, SettledOperations, IsOpen
    <3> QED
      BY <3>1 DEF Ledger!Next, Ledger!Give
  <2>4. CASE session.status # "briefing"
    BY <1>5, <2>1, <2>2, <2>4, NoneAssumption
  <2> QED
    BY <2>3, <2>4
<1>9. ASSUME OpenCommand
      PROVE  Step
  <2>1. session' \in Session
    BY <1>9, OpenTypeStep
  <2>2. ASSUME NEW id \in SessionIds, StartSession(id)
        PROVE  Step
    <3>1. session = None /\ operations' = NoOperations
      BY <2>2 DEF StartSession, SessionStarted
    <3>2. session'.status = "briefing" /\ session'.authorityEpoch = 0
      BY <2>2 DEF StartSession, SessionStarted, CreateSession
    <3>3. LedgerPhase = "vacant" /\ LedgerPhase' = "briefing" /\ LedgerEpoch' = 0
      BY <2>1, <3>1, <3>2, NoneAssumption
    <3>4. OpenOperations' = {} /\ SettledOperations' = {}
      BY <3>1, LedgerBlank
    <3> QED
      BY <3>3, <3>4 DEF Ledger!Next, Ledger!Begin, Ledger!Blank
  <2>3. ASSUME NEW entry \in Entry, ResumeSession(entry)
        PROVE  Step
    <3>1. /\ session \in Session
          /\ session.status = "paused"
          /\ UNCHANGED operations
          /\ session'.authorityEpoch = session.authorityEpoch
          /\ session'.status = "reconciling"
      BY <2>3 DEF ResumeSession, SessionResumed, Paused, InStatus, TypeOK, Session
    <3> QED
      BY <1>5, <2>1, <3>1, NoneAssumption
  <2>4. ASSUME NEW unit \in Proposals, ProposeWorkUnit(unit)
        PROVE  Step
    <3>1. /\ session \in Session
          /\ UNCHANGED operations
          /\ session'.authorityEpoch = session.authorityEpoch
          /\ session'.status = session.status
          /\ session.status \in SessionStatuses
      BY <2>4 DEF ProposeWorkUnit, WorkUnitProposed, Briefing, InStatus, TypeOK, Session
    <3> QED
      BY <1>5, <2>1, <3>1, NoneAssumption DEF SessionStatuses
  <2> QED
    BY <1>3, <1>9, <2>2, <2>3, <2>4 DEF OpenCommand
<1>10. ASSUME NEW id \in OperationIds, NEW tool \in OperationTools,
              NEW grantId \in GrantIds \cup {None},
              AuthorizeOperation(id, tool, grantId)
       PROVE  Step
  <2>1. /\ UNCHANGED session
        /\ LedgerPhase = "given"
        /\ operations[id] = None
        /\ \A other \in OperationIds \ {id} : operations'[other] = operations[other]
    BY <1>10 DEF AuthorizeOperation, OperationAuthorized, Operational, InStatus, TypeOK
  <2>2. IsOpen(id)'
    <3>1. /\ session \in Session
          /\ session.workUnit \in WorkUnit
      BY <1>10 DEF AuthorizeOperation, Operational, HasAgreedWorkUnit, InStatus,
         TypeOK, Session
    <3>2. revision' \in Nat
      BY <1>10, CommitType, EventsType DEF AuthorizeOperation
    <3>3. operations'[id] \in Operation /\ operations'[id].status = "authorized"
      BY <1>10, <3>1, <3>2 DEF AuthorizeOperation, OperationAuthorized, TypeOK,
         Operation, Session, WorkUnit
    <3> QED
      BY <3>3, NoneAssumption DEF IsOpen, TerminalStatuses
  <2>3. OpenOperations' = OpenOperations \cup {id} /\ UNCHANGED SettledOperations
    BY <2>1, <2>2 DEF OpenOperations, SettledOperations, IsOpen
  <2>4. id \notin OpenOperations \cup SettledOperations
    BY <2>1 DEF OpenOperations, SettledOperations, IsOpen
  <2>5. Ledger!Authorize(id)
    BY <2>1, <2>3, <2>4 DEF Ledger!Authorize
  <2> QED
    BY <2>5 DEF Ledger!Next
<1>11. ASSUME NEW id \in OperationIds, NEW observed, NEW status \in TerminalStatuses,
              ObserveOperationResult(id, observed, status)
       PROVE  Step
  <2>1. /\ UNCHANGED session
        /\ IsOpen(id)
        /\ \A other \in OperationIds \ {id} : operations'[other] = operations[other]
    BY <1>11 DEF ObserveOperationResult, OperationObserved, TypeOK
  <2>2. LedgerPhase \in {"given", "ended"}
    BY <2>1 DEF MappingInv, OpenOperationsAreCurrent, OpenOperations, InStatus
  <2>3. operations'[id] # None /\ ~IsOpen(id)'
    <3>1. operations[id] \in Operation
      BY <2>1 DEF IsOpen, TypeOK
    <3>2. operations'[id] = [operations[id] EXCEPT !.status = status]
      BY <1>11 DEF ObserveOperationResult, OperationObserved, TypeOK
    <3>3. operations'[id] \in Operation /\ operations'[id].status = status
      BY <3>1, <3>2 DEF Operation
    <3> QED
      BY <3>3, NoneAssumption DEF IsOpen
  <2>4. /\ OpenOperations' = OpenOperations \ {id}
        /\ SettledOperations' = SettledOperations \cup {id}
        /\ id \in OpenOperations
    BY <2>1, <2>3 DEF OpenOperations, SettledOperations, IsOpen
  <2>5. Ledger!Settle(id)
    BY <2>1, <2>2, <2>4 DEF Ledger!Settle
  <2> QED
    BY <2>5 DEF Ledger!Next
<1>12. ASSUME NEW actor \in Actors, NEW id \in GrantIds, NEW tool \in GrantTools,
              GrantUserAction(actor, id, tool)
       PROVE  Step
  BY <1>1, <1>12 DEF GrantUserAction, UserActionGranted
<1>13. CASE UNCHANGED vars
  BY <1>1, <1>13 DEF vars
<1> QED
  BY <1>4, <1>6, <1>7, <1>8, <1>9, <1>10, <1>11, <1>12, <1>13
     DEF Next, Command, OperationCommand

(* The kernel implements the ledger: effects are opened under given        *)
(* authority only, settle once, and authority taken back stays back.       *)
THEOREM KernelImplementsLedger == Spec => ImplementsLedger
<1>1. Init => Ledger!Init
  <2>1. ASSUME Init PROVE Ledger!Init
    <3>1. OpenOperations = {} /\ SettledOperations = {}
      BY <2>1, LedgerBlank DEF Init
    <3> QED
      BY <2>1, <3>1 DEF Init, Ledger!Init, LedgerPhase, LedgerEpoch
  <2> QED
    BY <2>1
<1>2. Init => NoSessionNoAuthority
  BY DEF Init, NoSessionNoAuthority
<1>3. TypeOK /\ NoSessionNoAuthority /\ [Next]_vars => NoSessionNoAuthority'
  BY RevivalStep
<1>4. TypeOK /\ NoSessionNoAuthority /\ OpenOperationsAreCurrent /\ [Next]_vars
        => [Ledger!Next]_<<LedgerPhase, LedgerEpoch, OpenOperations, SettledOperations>>
  BY LedgerStep DEF MappingInv
<1> QED
  BY <1>1, <1>2, <1>3, <1>4, TypeCorrect, OpenOperationsCorrect, PTL
     DEF Spec, ImplementsLedger, Ledger!Spec, Ledger!ledger
================================================================================
