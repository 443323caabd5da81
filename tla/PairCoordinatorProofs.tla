------------------------ MODULE PairCoordinatorProofs ------------------------
(***************************************************************************)
(* What the coordinator promises of calls and effects, for any number of   *)
(* calls, tools, operations and grants.                                    *)
(***************************************************************************)
EXTENDS PairCoordinator, PairKernelAuthority

-----------------------------------------------------------------------------
(* What a commit that authorises and observes nothing does to the work     *)
(* under way: it may end it, but it never puts other work in its place.    *)

AtWork ==
    session # None /\ session.status \notin {"paused", "reconciling", "closed"}

SameWork ==
    /\ Operational'
    /\ session'.workUnit = session.workUnit
    /\ session'.mode = session.mode
    /\ session'.maximumHintLevel = session.maximumHintLevel

OperationsStay ==
    \A id \in OperationIds :
        /\ IsOpen(id)' => operations'[id] = operations[id]
        /\ operations'[id] # None =>
               /\ operations[id] # None
               /\ operations'[id].runtimeRevision = operations[id].runtimeRevision

SettlesByPause ==
    \A id \in OperationIds :
        IsOpen(id) /\ operations'[id] # None /\ ~IsOpen(id)' =>
            session'.status = "paused" /\ operations'[id].status = "cancelled"

Calm ==
    /\ TypeOK' /\ OpenOperationsAreCurrent'
    /\ revision' > revision
    /\ OperationsStay /\ SettlesByPause
    /\ Operational /\ AtWork' => SameWork /\ operations' = operations
    /\ ~Operational /\ Operational' => OpenOperations' = {}

LEMMA CommitGrows ==
  ASSUME TypeOK, NEW n \in Nat, n > 0, Commit(n)
  PROVE  revision' > revision
BY DEF TypeOK, Commit

LEMMA EventsPositive == \A grantId : Events(grantId) \in Nat /\ Events(grantId) > 0
BY DEF Events

(* The commands that are the kernel's own keep its invariants.             *)
LEMMA KernelKeeps ==
  ASSUME TypeOK, OpenOperationsAreCurrent, NEW actor \in Actors, Command(actor)
  PROVE  TypeOK' /\ OpenOperationsAreCurrent'
<1>1. Next
  BY DEF Next
<1>2. OpenOperationsAreCurrent'
  BY <1>1, OpenInductive
<1>3. TypeOK'
  BY PresenceTypeStep, SessionTypeStep, AgreementTypeStep, GrowthTypeStep, OpenTypeStep,
     OperationTypeStep, GrantTypeStep DEF Command
<1> QED
  BY <1>2, <1>3

LEMMA CalmIfOperationsStay ==
  ASSUME TypeOK, OpenOperationsAreCurrent, TypeOK', OpenOperationsAreCurrent',
         revision' > revision, operations' = operations,
         Operational /\ AtWork' => SameWork,
         ~Operational /\ Operational' => ~InStatus({"ready", "active", "closed"})
  PROVE  Calm
<1>1. OperationsStay /\ SettlesByPause
  BY DEF OperationsStay, SettlesByPause, IsOpen
<1>2. ASSUME ~InStatus({"ready", "active", "closed"})
      PROVE  OpenOperations' = {}
  <2>1. OpenOperations = {}
    BY <1>2 DEF OpenOperationsAreCurrent
  <2> QED
    BY <2>1 DEF OpenOperations, IsOpen
<1> QED
  BY <1>1, <1>2 DEF Calm

LEMMA CalmIfReset ==
  ASSUME TypeOK, TypeOK', revision' > revision, operations' = NoOperations,
         session' = None \/ (session = None /\ InStatus({"briefing"})')
  PROVE  Calm
<1>1. \A id \in OperationIds : operations'[id] = None
  BY DEF NoOperations
<1>2. OpenOperations' = {}
  BY <1>1 DEF OpenOperations, IsOpen
<1>3. OperationsStay /\ SettlesByPause /\ OpenOperationsAreCurrent'
  BY <1>1, <1>2 DEF OperationsStay, SettlesByPause, IsOpen, OpenOperationsAreCurrent
<1>4. ~(Operational /\ AtWork')
  BY DEF Operational, InStatus, AtWork
<1> QED
  BY <1>2, <1>3, <1>4 DEF Calm

LEMMA CalmPause ==
  ASSUME TypeOK, TypeOK', OpenOperationsAreCurrent', PauseSession
  PROVE  Calm
<1>1. revision' > revision
  <2>1. Cardinality(OpenOperations) + 1 \in Nat /\ Cardinality(OpenOperations) + 1 > 0
    BY OpenOperationsCount
  <2> QED
    BY <2>1, CommitGrows DEF PauseSession
<1>2. session \in Session /\ session'.status = "paused"
  BY StatusMeansSession DEF PauseSession, Pausable, SessionPaused, Session
<1>3. ~AtWork' /\ ~Operational'
  BY <1>2 DEF AtWork, Operational, InStatus
<1>4. ASSUME NEW id \in OperationIds
      PROVE  /\ ~IsOpen(id)'
             /\ IsOpen(id) => operations'[id].status = "cancelled"
             /\ operations'[id] # None =>
                   /\ operations[id] # None
                   /\ operations'[id].runtimeRevision = operations[id].runtimeRevision
  <2>1. operations'[id] = IF IsOpen(id) THEN [operations[id] EXCEPT !.status = "cancelled"]
                                        ELSE operations[id]
    BY DEF PauseSession, OpenOperationsCancelled
  <2>2. IsOpen(id) => operations[id] \in Operation
    BY DEF IsOpen, TypeOK
  <2>3. "cancelled" \in TerminalStatuses
    BY DEF TerminalStatuses
  <2> QED
    BY <2>1, <2>2, <2>3 DEF IsOpen, Operation
<1>5. OperationsStay /\ SettlesByPause
  BY <1>2, <1>4 DEF OperationsStay, SettlesByPause
<1> QED
  BY <1>1, <1>3, <1>5 DEF Calm

(* Each command but those that authorise, observe or grant is calm.        *)
LEMMA CalmSession ==
  ASSUME TypeOK, OpenOperationsAreCurrent, NEW actor \in Actors,
         NEW grantId \in GrantIds \cup {None}, SessionCommand(actor, grantId)
  PROVE  Calm
<1> USE DEF InStatus
<1>1. TypeOK' /\ OpenOperationsAreCurrent'
  BY KernelKeeps DEF Command
<1>2. revision' > revision
  BY CommitGrows, EventsPositive DEF SessionCommand, CaptureEntry, CloseSession
<1>3. operations' = operations
  BY DEF SessionCommand, CaptureEntry, EntryCaptured, CloseSession, SessionClosed
<1>4. session \in Session
  BY StatusMeansSession DEF SessionCommand, CaptureEntry, CloseSession, Briefing, Closable
<1>5. \/ session.status = "briefing" /\ session'.status = "briefing"
      \/ session'.status = "closed"
  BY <1>4 DEF SessionCommand, CaptureEntry, EntryCaptured, CloseSession, SessionClosed,
     Briefing, Session
<1> QED
  BY <1>1, <1>2, <1>3, <1>5, CalmIfOperationsStay DEF Operational, AtWork

LEMMA CalmAgreement ==
  ASSUME TypeOK, OpenOperationsAreCurrent, NEW actor \in Actors,
         NEW grantId \in GrantIds \cup {None}, AgreementCommand(actor, grantId)
  PROVE  Calm
<1> USE DEF InStatus
<1>1. TypeOK' /\ OpenOperationsAreCurrent'
  BY KernelKeeps DEF Command
<1>2. revision' > revision
  BY CommitGrows, EventsPositive DEF AgreementCommand, ConfirmLearning, SelectMode,
     AgreeWorkUnit
<1>3. operations' = operations /\ session.status = "briefing"
  BY DEF AgreementCommand, ConfirmLearning, LearningConfirmed, SelectMode, ModeSelected,
     AgreeWorkUnit, WorkUnitAgreed, Briefing
<1> QED
  BY <1>1, <1>2, <1>3, CalmIfOperationsStay DEF Operational

LEMMA CalmGrowth ==
  ASSUME TypeOK, OpenOperationsAreCurrent, NEW actor \in Actors,
         NEW grantId \in GrantIds \cup {None}, GrowthCommand(actor, grantId)
  PROVE  Calm
<1> USE DEF InStatus
<1>1. TypeOK' /\ OpenOperationsAreCurrent'
  BY KernelKeeps DEF Command
<1>2. revision' > revision
  BY CommitGrows, EventsPositive DEF GrowthCommand, RecordAttempt, RecordHypothesis,
     RequestHint, AuthorizeSolutionReveal
<1>3. Working /\ \E assistance : Assist(assistance)
  BY DEF GrowthCommand, RecordAttempt, AttemptRecorded, RecordHypothesis,
     HypothesisRecorded, RequestHint, HintRequested, AuthorizeSolutionReveal,
     SolutionRevealAuthorized
<1>4. session \in Session /\ session.status \in {"briefing", "ready", "active"}
  BY <1>3, StatusMeansSession DEF Working
<1>5. session' # None
  BY GrowthTypeStep, NoneAssumption
<1>6. operations' = operations /\ SameWork
  BY <1>3, <1>4, <1>5 DEF Assist, SameWork, Operational, Session
<1> QED
  BY <1>1, <1>2, <1>4, <1>6, CalmIfOperationsStay DEF Operational

LEMMA CalmOpen ==
  ASSUME TypeOK, OpenOperationsAreCurrent, OpenCommand
  PROVE  Calm
<1> USE DEF InStatus
<1>1. TypeOK' /\ OpenOperationsAreCurrent'
  BY KernelKeeps DEF Command, Actors
<1>2. ASSUME NEW id \in SessionIds, StartSession(id)
      PROVE  Calm
  <2>1. revision' > revision
    BY <1>2, CommitGrows DEF StartSession
  <2>2. session' \in Session /\ session' # None
    <3>1. revision' \in Nat /\ session' = CreateSession(id, revision')
      BY <1>1, <1>2, BoundAssumption DEF StartSession, SessionStarted, TypeOK
    <3> QED
      BY <3>1, CreatedType, NoneAssumption
  <2>3. session = None /\ session'.status = "briefing" /\ operations' = NoOperations
    BY <1>2 DEF StartSession, SessionStarted, CreateSession
  <2> QED
    BY <1>1, <2>1, <2>2, <2>3, CalmIfReset
<1>3. ASSUME NEW entry \in Entry, ResumeSession(entry)
      PROVE  Calm
  <2>1. revision' > revision
    BY <1>3, CommitGrows DEF ResumeSession
  <2>2. session.status = "paused" /\ operations' = operations
    BY <1>3 DEF ResumeSession, SessionResumed, Paused
  <2> QED
    BY <1>1, <2>1, <2>2, CalmIfOperationsStay DEF Operational
<1>4. ASSUME NEW unit \in Proposals, ProposeWorkUnit(unit)
      PROVE  Calm
  <2>1. revision' > revision
    BY <1>4, CommitGrows DEF ProposeWorkUnit
  <2>2. session.status = "briefing" /\ operations' = operations
    BY <1>4 DEF ProposeWorkUnit, WorkUnitProposed, Briefing
  <2> QED
    BY <1>1, <2>1, <2>2, CalmIfOperationsStay DEF Operational
<1> QED
  BY <1>1, <1>2, <1>3, <1>4, CalmPause DEF OpenCommand

LEMMA CalmPresence ==
  ASSUME TypeOK, OpenOperationsAreCurrent, NEW actor \in Actors,
         PresenceCommand(actor)
  PROVE  Calm
<1>1. TypeOK' /\ OpenOperationsAreCurrent'
  BY KernelKeeps DEF Command
<1>2. \/ PauseSession
      \/ /\ revision' > revision
         /\ \/ operations' = NoOperations /\ session' = None
            \/ operations' = operations /\ session' = session
  <2>1. Commit(1) \/ Commit(2) => revision' > revision
    BY DEF TypeOK, Commit
  <2>2. \A workspace \in Workspaces : EnablePresence(actor, workspace) =>
          /\ Commit(1) \/ Commit(2)
          /\ \/ operations' = NoOperations /\ session' = None
             \/ operations' = operations /\ session' = session
    BY DEF EnablePresence, PresenceEnabled
  <2>3. \A status : Commit(1) /\ PresenceChanged(status) =>
          /\ Commit(1) \/ Commit(2)
          /\ \/ operations' = NoOperations /\ session' = None
             \/ operations' = operations /\ session' = session
    BY DEF PresenceChanged
  <2>4. ObserveWorkspace(actor) => /\ Commit(1) \/ Commit(2)
                                  /\ operations' = operations /\ session' = session
    BY DEF ObserveWorkspace, WorkspaceObserved
  <2>5. \A status : SetPresence(actor, status) =>
          \/ PauseSession
          \/ \E other : Commit(1) /\ PresenceChanged(other)
    BY DEF SetPresence
  <2> QED
    BY <2>1, <2>2, <2>3, <2>4, <2>5 DEF PresenceCommand
<1>3. CASE operations' = operations /\ session' = session /\ revision' > revision
  BY <1>1, <1>3, CalmIfOperationsStay DEF Operational, SameWork, InStatus
<1> QED
  BY <1>1, <1>2, <1>3, CalmPause, CalmIfReset

LEMMA CalmGrant ==
  ASSUME TypeOK, OpenOperationsAreCurrent, NEW actor \in Actors, NEW id \in GrantIds,
         NEW tool \in GrantTools, GrantUserAction(actor, id, tool)
  PROVE  Calm
<1>1. TypeOK' /\ OpenOperationsAreCurrent'
  BY KernelKeeps DEF Command
<1>2. revision' > revision /\ session' = session /\ operations' = operations
  BY CommitGrows DEF GrantUserAction, UserActionGranted
<1> QED
  BY <1>1, <1>2, CalmIfOperationsStay DEF Operational, SameWork, InStatus

LEMMA CalmEnable ==
  ASSUME TypeOK, OpenOperationsAreCurrent, NEW requested \in {"observing", "quiet"},
         NEW workspace \in Workspaces, EnableAndSet(requested, workspace)
  PROVE  Calm
<1> DEFINE reset == RequiresWorkspaceReset(workspace)
           enabled == IF reset THEN "observing" ELSE EnabledPresenceStatus
           status == IF requested = "observing" \/ (Paused /\ ~reset) THEN enabled
                                                                      ELSE requested
           enables == \/ presence.workspaceId # workspace
                      \/ presence.status # enabled
           events == (IF reset THEN 2 ELSE IF enables THEN 1 ELSE 0) +
                     (IF status # enabled THEN 1 ELSE 0)
<1>1. events \in Nat /\ events > 0 /\ Commit(events)
  BY DEF EnableAndSet
<1>2. /\ reset => /\ presence' = [CreatePresence(workspace) EXCEPT !.status = status]
                  /\ session' = None
                  /\ operations' = NoOperations
                  /\ grants' = NoGrants
      /\ ~reset => /\ presence' = [presence EXCEPT !.workspaceId = workspace,
                                                  !.status = status]
                   /\ UNCHANGED <<session, operations, grants>>
  BY DEF EnableAndSet
<1>3. status \in PresenceStatuses
  BY DEF EnabledPresenceStatus, PresenceStatuses
<1> HIDE DEF reset, enabled, status, enables, events
<1>4. revision' \in 0..MaxRevision /\ revision' > revision
  BY <1>1, CommitType, CommitGrows
<1>5. presence' \in Presence
  BY <1>2, <1>3, CreatedType DEF TypeOK, Presence
<1>6. CASE reset
  <2>1. TypeOK'
    BY <1>2, <1>4, <1>5, <1>6, NoFunctionsType
       DEF TypeOK, GrantFunctions, OperationFunctions
  <2> QED
    BY <1>2, <1>4, <1>6, <2>1, CalmIfReset
<1>7. CASE ~reset
  <2>1. TypeOK' /\ session' = session /\ operations' = operations
    BY <1>2, <1>4, <1>5, <1>7 DEF TypeOK
  <2>2. OpenOperationsAreCurrent'
    BY <2>1, StillOpen
  <2> QED
    BY <1>4, <2>1, <2>2, CalmIfOperationsStay DEF Operational, SameWork, InStatus
<1> QED
  BY <1>6, <1>7

LEMMA DispatchIsCalm ==
  ASSUME TypeOK, OpenOperationsAreCurrent, Dispatch
  PROVE  Calm
<1>1. None \in GrantIds \cup {None} /\ "human" \in Actors /\ "host" \in Actors
  BY DEF Actors
<1>2. ASSUME NEW status \in {"observing", "quiet", "paused", "off"},
             SetPresence("human", status)
      PROVE  Calm
  BY <1>1, <1>2, CalmPresence DEF PresenceCommand
<1>3. ASSUME ObserveWorkspace("host")
      PROVE  Calm
  BY <1>1, <1>3, CalmPresence DEF PresenceCommand
<1> QED
  BY <1>1, <1>2, <1>3, CalmEnable, CalmSession, CalmAgreement, CalmGrowth, CalmOpen
     DEF Dispatch

LEMMA LocalCommandIsCalm ==
  ASSUME TypeOK, OpenOperationsAreCurrent, NEW tool, NEW grantId \in GrantIds \cup {None},
         LocalCommand(tool, grantId)
  PROVE  Calm
<1>1. "ai" \in Actors /\ TRUE \in BOOLEAN
  BY DEF Actors
<1>2. \/ SessionCommand("ai", grantId)
      \/ AgreementCommand("ai", grantId)
      \/ GrowthCommand("ai", grantId)
      \/ OpenCommand
  BY DEF LocalCommand, SessionCommand, AgreementCommand, GrowthCommand, OpenCommand
<1> QED
  BY <1>1, <1>2, CalmSession, CalmAgreement, CalmGrowth, CalmOpen
-----------------------------------------------------------------------------
(* The invariant behind the calls.  A call that waits stands on what it    *)
(* was checked on until something commits.  A call with an operation       *)
(* remembers it as it was authorised; the revision of its authorisation,   *)
(* which no two operations share, tells it from any other that has had its *)
(* identifier.  While the session is at work, an open operation is tracked *)
(* by the one call that runs it; an effect that lost that call's tracking  *)
(* has been aborted.                                                       *)

AtEffect(slot) == calls[slot].stage \in {"effect", "result"}

CallFits(slot) ==
    LET call == calls[slot]
    IN  /\ call.revision <= revision
        /\ call.stage = "grant" =>
               /\ call.tool \in GrantTools
               /\ call.revision = revision =>
                      Visible(call.tool) /\ Owner \in RequiredOwner(call.tool)
        /\ call.stage = "command" /\ call.revision = revision =>
               Allowed(call.tool, call.grantId)
        /\ call.stage = "admit" => call.id \in OperationIds
        /\ call.stage = "result" => call.result \in TerminalStatuses

EffectFits(slot) ==
    LET call == calls[slot]
    IN  AtEffect(slot) =>
            /\ call.id \in OperationIds
            /\ call.record \in Operation
            /\ call.record.runtimeRevision <= revision
            /\ \A id \in OperationIds :
                   /\ operations[id] # None
                   /\ operations[id].runtimeRevision = call.record.runtimeRevision
                   => id = call.id
            /\ /\ IsOpen(call.id)
               /\ operations[call.id].runtimeRevision = call.record.runtimeRevision
               => /\ operations[call.id] = call.record
                  /\ Operational => pending[call.id] = slot
            /\ call.stage = "effect" /\ ~call.aborted => pending[call.id] = slot

TrackedFits(id) ==
    pending[id] # None =>
        LET operation == operations[id]
        IN  /\ Operational
            /\ IsOpen(id)
            /\ AtEffect(pending[id])
            /\ calls[pending[id]].id = id
            /\ calls[pending[id]].record = operation
            /\ Visible(operation.toolName)
            /\ Owner \in RequiredOwner(operation.toolName)
            /\ RequiresUserAction(operation.toolName) => operation.grantId # None

OperationsDiffer ==
    \A id \in OperationIds : operations[id] # None =>
        /\ operations[id].runtimeRevision <= revision
        /\ \A other \in OperationIds \ {id} :
               operations[other] # None =>
                   operations[other].runtimeRevision # operations[id].runtimeRevision

EffectsDiffer ==
    \A slot, other \in Slots :
        slot # other /\ AtEffect(slot) /\ AtEffect(other) =>
            calls[slot].record.runtimeRevision # calls[other].record.runtimeRevision

CoordinatorInv ==
    /\ CoordinatorTypeOK
    /\ OpenOperationsAreCurrent
    /\ OperationsDiffer
    /\ \A slot \in Slots : CallFits(slot) /\ EffectFits(slot)
    /\ \A id \in OperationIds : TrackedFits(id)
    /\ EffectsDiffer

-----------------------------------------------------------------------------
(* A commit of the kernel, and the invalidation that follows it, leave     *)
(* every call as the invariant wants it.                                   *)

LEMMA OperationsDifferStay ==
  ASSUME CoordinatorInv, Calm
  PROVE  OperationsDiffer'
BY DEF CoordinatorInv, OperationsDiffer, Calm, OperationsStay, CoordinatorTypeOK, TypeOK,
   Operation

(* Nothing that was checked before a commit is checked on its revision. *)
LEMMA CallStays ==
  ASSUME CoordinatorInv, revision' \in Nat, revision' > revision, NEW slot \in Slots,
         \/ calls'[slot] = calls[slot]
         \/ calls'[slot] = [calls[slot] EXCEPT !.aborted = TRUE]
  PROVE  CallFits(slot)'
<1>1. calls[slot] \in Call /\ CallFits(slot) /\ revision \in Nat
  BY BoundAssumption DEF CoordinatorInv, CoordinatorTypeOK, TypeOK
<1>2. /\ calls'[slot].stage = calls[slot].stage
      /\ calls'[slot].tool = calls[slot].tool
      /\ calls'[slot].revision = calls[slot].revision
      /\ calls'[slot].id = calls[slot].id
      /\ calls'[slot].result = calls[slot].result
  BY <1>1 DEF Call
<1>3. calls[slot].revision \in Nat /\ calls[slot].revision <= revision
  BY <1>1 DEF Call, CallFits
<1>4. calls'[slot].revision <= revision' /\ calls'[slot].revision # revision'
  BY <1>1, <1>2, <1>3
<1> QED
  BY <1>1, <1>2, <1>4 DEF CallFits

LEMMA IdleFits ==
  ASSUME NEW slot \in Slots, calls'[slot] = Idle, revision' \in Nat
  PROVE  CallFits(slot)' /\ EffectFits(slot)'
BY DEF Idle, CallFits, EffectFits, AtEffect

(* The fate of a call under the invalidation that follows a commit. *)
Kept(slot) ==
    /\ calls'[slot] = InvalidatedCalls[slot]
    /\ \A id \in OperationIds :
           pending[id] = slot /\ Survives(slot) => pending'[id] = slot

Invalidated ==
    /\ \A slot \in Slots : Kept(slot) \/ calls'[slot] = Idle
    /\ \A id \in OperationIds : pending'[id] # None =>
           /\ pending'[id] = pending[id]
           /\ Survives(pending[id])
           /\ Kept(pending[id])

LEMMA KeptCall ==
  ASSUME CoordinatorInv, NEW slot \in Slots, Kept(slot)
  PROVE  /\ calls[slot] \in Call
         /\ \/ calls'[slot] = calls[slot]
            \/ calls'[slot] = [calls[slot] EXCEPT !.aborted = TRUE]
         /\ \A id \in OperationIds : pending[id] = slot /\ ~Survives(slot) =>
                calls'[slot] = [calls[slot] EXCEPT !.aborted = TRUE]
         /\ calls'[slot].stage = calls[slot].stage
         /\ calls'[slot].id = calls[slot].id
         /\ calls'[slot].record = calls[slot].record
         /\ calls[slot].aborted => calls'[slot].aborted
<1>1. calls[slot] \in Call
  BY DEF CoordinatorInv, CoordinatorTypeOK
<1>2. calls'[slot] = IF (\E id \in OperationIds : pending[id] = slot) /\ ~Survives(slot)
                     THEN [calls[slot] EXCEPT !.aborted = TRUE]
                     ELSE calls[slot]
  BY DEF Kept, InvalidatedCalls
<1> QED
  BY <1>1, <1>2 DEF Call

LEMMA CalmEffect ==
  ASSUME CoordinatorInv, Calm, NEW slot \in Slots, Kept(slot)
  PROVE  EffectFits(slot)'
<1> SUFFICES ASSUME AtEffect(slot)'
             PROVE  EffectFits(slot)'
  BY DEF EffectFits
<1>0. PICK id \in OperationIds, record \in Operation :
           id = calls[slot].id /\ record = calls[slot].record
  BY KeptCall DEF AtEffect, CoordinatorInv, EffectFits
<1>1. /\ calls'[slot].id = id
      /\ calls'[slot].record = record
      /\ calls'[slot].stage = calls[slot].stage
      /\ AtEffect(slot)
  BY <1>0, KeptCall DEF AtEffect
<1>2. /\ record.runtimeRevision <= revision
      /\ \A other \in OperationIds :
             /\ operations[other] # None
             /\ operations[other].runtimeRevision = record.runtimeRevision
             => other = id
      /\ IsOpen(id) /\ operations[id].runtimeRevision = record.runtimeRevision
         => operations[id] = record /\ (Operational => pending[id] = slot)
      /\ calls[slot].stage = "effect" /\ ~calls[slot].aborted => pending[id] = slot
  BY <1>0, <1>1 DEF CoordinatorInv, EffectFits
<1>3. record.runtimeRevision <= revision'
  BY <1>2, BoundAssumption
     DEF Calm, CoordinatorInv, CoordinatorTypeOK, TypeOK, Operation
<1>4. \A other \in OperationIds :
         /\ operations'[other] # None
         /\ operations'[other].runtimeRevision = record.runtimeRevision
         => other = id
  BY <1>2 DEF Calm, OperationsStay
<1>5. ASSUME IsOpen(id)', operations'[id].runtimeRevision = record.runtimeRevision
      PROVE  operations'[id] = record /\ (Operational' => pending'[id] = slot)
  <2>1. operations'[id] = operations[id] /\ IsOpen(id)
    BY <1>2, <1>5 DEF Calm, OperationsStay, IsOpen
  <2>2. operations'[id] = record /\ (Operational => pending[id] = slot)
    BY <1>2, <1>5, <2>1 DEF IsOpen
  <2>3. ASSUME Operational'
        PROVE  pending'[id] = slot
    <3>1. id \in OpenOperations'
      BY <1>5 DEF OpenOperations
    <3>2. Operational
      BY <2>3, <3>1 DEF Calm
    <3>3. session'.authorityEpoch = record.authorityEpoch
      BY <2>2, <3>1 DEF Calm, OpenOperationsAreCurrent
    <3>4. Survives(slot)
      BY <1>0, <2>3, <3>3 DEF Survives, Operational, InStatus
    <3> QED
      BY <1>2, <2>2, <3>2, <3>4 DEF Kept
  <2> QED
    BY <2>2, <2>3
<1>6. ASSUME calls'[slot].stage = "effect", ~calls'[slot].aborted
      PROVE  pending'[id] = slot
  <2>1. pending[id] = slot
    BY <1>1, <1>2, <1>6, KeptCall
  <2>2. Survives(slot)
    BY <1>2, <1>6, <2>1, KeptCall DEF Call
  <2> QED
    BY <1>2, <2>1, <2>2 DEF Kept
<1> QED
  BY <1>1, <1>3, <1>4, <1>5, <1>6 DEF EffectFits

LEMMA VisibleWhileWorking ==
  ASSUME Operational, SameWork, NEW tool, Visible(tool)
  PROVE  Visible(tool)' /\ Owner' = Owner
<1>1. session # None /\ session' # None
  BY DEF Operational, SameWork, InStatus
<1>2. ~Briefing /\ ~Briefing' /\ Operational'
  BY DEF Operational, SameWork, Briefing, InStatus
<1>3. HasAgreedOperationalWorkUnit => HasAgreedOperationalWorkUnit'
  BY <1>2 DEF HasAgreedOperationalWorkUnit, HasAgreedWorkUnit, SameWork
<1>4. Owner' = Owner
  BY <1>1 DEF Owner, SameWork
<1>5. HasOperationalGrowthWorkUnit => HasOperationalGrowthWorkUnit'
  BY <1>3, <1>4 DEF HasOperationalGrowthWorkUnit, HasGrowthAgreement, SameWork
<1>6. HasOperationalAiOwnedUnit => HasOperationalAiOwnedUnit'
  BY <1>3, <1>4 DEF HasOperationalAiOwnedUnit, SameWork
<1>7. Closable'
  BY <1>2 DEF Operational, Closable, InStatus, SessionStatuses
<1>8. session'.mode = session.mode
  BY DEF SameWork
<1> QED
  BY <1>2, <1>3, <1>4, <1>5, <1>6, <1>7, <1>8
     DEF Visible, CanConfirmLearning, CanSelectMode, CanProposeWorkUnit, CanAgreeWorkUnit

LEMMA CalmTracked ==
  ASSUME CoordinatorInv, Calm, Invalidated, NEW id \in OperationIds
  PROVE  TrackedFits(id)'
<1> SUFFICES ASSUME pending'[id] # None
             PROVE  TrackedFits(id)'
  BY DEF TrackedFits
<1> DEFINE slot == pending[id]
<1>1. pending'[id] = slot /\ Survives(slot) /\ Kept(slot) /\ slot \in Slots
  BY DEF Invalidated, CoordinatorInv, CoordinatorTypeOK
<1>2. /\ Operational
      /\ IsOpen(id)
      /\ AtEffect(slot)
      /\ calls[slot].id = id
      /\ calls[slot].record = operations[id]
      /\ Visible(operations[id].toolName)
      /\ Owner \in RequiredOwner(operations[id].toolName)
      /\ RequiresUserAction(operations[id].toolName) => operations[id].grantId # None
  BY <1>1 DEF CoordinatorInv, TrackedFits
<1>3. SameWork /\ operations' = operations
  BY <1>1, <1>2 DEF Calm, Survives, AtWork
<1>4. /\ AtEffect(slot)'
      /\ calls'[slot].id = id
      /\ calls'[slot].record = operations'[id]
  BY <1>1, <1>2, <1>3, KeptCall DEF AtEffect
<1>5. Visible(operations[id].toolName)' /\ Owner' = Owner
  <2>1. \A tool : Visible(tool) => Visible(tool)' /\ Owner' = Owner
    BY <1>2, <1>3, VisibleWhileWorking
  <2> QED
    BY <1>2, <1>3, <2>1
<1>6. Operational' /\ IsOpen(id)'
  BY <1>2, <1>3 DEF SameWork, IsOpen
<1> QED
  BY <1>1, <1>2, <1>3, <1>4, <1>5, <1>6 DEF TrackedFits

LEMMA CalmKeepsInv ==
  ASSUME CoordinatorInv, CoordinatorTypeOK', Calm, Invalidated
  PROVE  CoordinatorInv'
<1>1. revision' > revision /\ revision' \in Nat
  BY BoundAssumption DEF Calm, CoordinatorTypeOK, TypeOK
<1>2. ASSUME NEW slot \in Slots
      PROVE  CallFits(slot)' /\ EffectFits(slot)'
  <2>1. CASE Kept(slot)
    BY <1>1, <2>1, KeptCall, CallStays, CalmEffect
  <2>2. CASE calls'[slot] = Idle
    BY <1>1, <2>2, IdleFits
  <2> QED
    BY <2>1, <2>2 DEF Invalidated
<1>3. EffectsDiffer'
  <2>1. \A slot \in Slots : AtEffect(slot)' =>
          AtEffect(slot) /\ calls'[slot].record = calls[slot].record
    <3> SUFFICES ASSUME NEW slot \in Slots, AtEffect(slot)'
                 PROVE  AtEffect(slot) /\ calls'[slot].record = calls[slot].record
      OBVIOUS
    <3>1. Kept(slot)
      BY DEF Invalidated, AtEffect, Idle
    <3> QED
      BY <3>1, KeptCall DEF AtEffect
  <2> QED
    BY <2>1 DEF EffectsDiffer, CoordinatorInv
<1> QED
  BY <1>2, <1>3, CalmTracked, OperationsDifferStay DEF Calm, CoordinatorInv

-----------------------------------------------------------------------------
(* Steps that leave the snapshot alone.                                    *)

LEMMA SameSessionView ==
  ASSUME session' = session
  PROVE  /\ \A tool : Visible(tool)' <=> Visible(tool)
         /\ Owner' = Owner
         /\ Operational' <=> Operational
<1> USE DEF InStatus
<1>1. \A tool : Visible(tool)' <=> Visible(tool)
  BY DEF Visible, Briefing, CanConfirmLearning, HasEntry, CanSelectMode, HasNoWorkUnit,
     CanProposeWorkUnit, HasGrowthAgreement, CanAgreeWorkUnit, Closable,
     HasAgreedOperationalWorkUnit, Operational, HasAgreedWorkUnit,
     HasOperationalGrowthWorkUnit, Owner, HasOperationalAiOwnedUnit
<1>2. Owner' = Owner
  BY DEF Owner
<1> QED
  BY <1>1, <1>2 DEF Operational

LEMMA SameView ==
  ASSUME UNCHANGED vars
  PROVE  /\ \A tool : Visible(tool)' <=> Visible(tool)
         /\ Owner' = Owner
         /\ Operational' <=> Operational
         /\ \A tool, grantId : Allowed(tool, grantId)' <=> Allowed(tool, grantId)
         /\ \A id : IsOpen(id)' <=> IsOpen(id)
BY SameSessionView DEF vars, Allowed, CurrentGrant, IsOpen

LEMMA OtherStays ==
  ASSUME CoordinatorInv, UNCHANGED vars, NEW slot \in Slots,
         calls'[slot] = calls[slot],
         \A id \in OperationIds : pending[id] = slot => pending'[id] = slot
  PROVE  CallFits(slot)' /\ EffectFits(slot)'
<1>1. CallFits(slot) /\ EffectFits(slot)
  BY DEF CoordinatorInv
<1>2. revision' = revision /\ operations' = operations
  BY DEF vars
<1>3. CallFits(slot)'
  BY <1>1, <1>2, SameView DEF CallFits
<1>4. EffectFits(slot)'
  BY <1>1, <1>2, SameView DEF EffectFits, AtEffect
<1> QED
  BY <1>3, <1>4

LEMMA TrackedStays ==
  ASSUME CoordinatorInv, UNCHANGED vars, NEW id \in OperationIds,
         pending'[id] # None =>
             /\ pending'[id] = pending[id]
             /\ AtEffect(pending[id])'
             /\ calls'[pending[id]].id = calls[pending[id]].id
             /\ calls'[pending[id]].record = calls[pending[id]].record
  PROVE  TrackedFits(id)'
<1> SUFFICES ASSUME pending'[id] # None
             PROVE  TrackedFits(id)'
  BY DEF TrackedFits
<1>1. TrackedFits(id) /\ operations' = operations /\ pending'[id] = pending[id]
  BY DEF CoordinatorInv, vars
<1>2. AtEffect(pending[id])'
  OBVIOUS
<1> QED
  BY <1>1, <1>2, SameView DEF TrackedFits, AtEffect

LEMMA OnlyCallsMove ==
  ASSUME CoordinatorInv, CoordinatorTypeOK', UNCHANGED vars, NEW slot \in Slots,
         \A other \in Slots \ {slot} : calls'[other] = calls[other],
         \A id \in OperationIds :
             \/ pending'[id] = pending[id]
             \/ pending[id] = slot /\ pending'[id] = None,
         CallFits(slot)', EffectFits(slot)',
         \A id \in OperationIds : pending'[id] = slot => AtEffect(slot)',
         AtEffect(slot)' => /\ AtEffect(slot)
                            /\ calls'[slot].id = calls[slot].id
                            /\ calls'[slot].record = calls[slot].record
  PROVE  CoordinatorInv'
<1>1. \A other \in Slots : CallFits(other)' /\ EffectFits(other)'
  BY OtherStays, CoordinatorAssumption
<1>2. ASSUME NEW id \in OperationIds
      PROVE  TrackedFits(id)'
  <2>1. CASE pending'[id] = None
    BY <2>1 DEF TrackedFits
  <2>2. CASE pending'[id] # None
    <3>1. pending'[id] = pending[id] /\ pending[id] \in Slots
      BY <2>2 DEF CoordinatorInv, CoordinatorTypeOK
    <3>2. CASE pending[id] = slot
      BY <3>1, <3>2, TrackedStays DEF AtEffect
    <3>3. CASE pending[id] # slot
      <4>1. calls'[pending[id]] = calls[pending[id]] /\ AtEffect(pending[id])
        BY <2>2, <3>1, <3>3 DEF CoordinatorInv, TrackedFits
      <4> QED
        BY <3>1, <4>1, TrackedStays DEF AtEffect
    <3> QED
      BY <3>2, <3>3
  <2> QED
    BY <2>1, <2>2
<1>3. EffectsDiffer'
  BY DEF CoordinatorInv, EffectsDiffer, AtEffect
<1>4. OpenOperationsAreCurrent' /\ OperationsDiffer'
  BY DEF CoordinatorInv, vars, OpenOperationsAreCurrent, OpenOperations, IsOpen, InStatus,
     HasAgreedWorkUnit, OperationsDiffer
<1> QED
  BY <1>1, <1>2, <1>3, <1>4 DEF CoordinatorInv

LEMMA IdleTracksNothing ==
  ASSUME CoordinatorInv, NEW slot \in Slots, ~AtEffect(slot), NEW id \in OperationIds
  PROVE  pending[id] # slot
BY CoordinatorAssumption DEF CoordinatorInv, TrackedFits

LEMMA SameTypes ==
  ASSUME CoordinatorInv, UNCHANGED vars
  PROVE  TypeOK'
BY DEF CoordinatorInv, CoordinatorTypeOK, TypeOK, vars

(* A call that asks for its first turn. *)
LEMMA CallBegins ==
  ASSUME CoordinatorInv, UNCHANGED vars, UNCHANGED pending, NEW slot \in Slots,
         calls[slot].stage = "idle", NEW call \in Call,
         calls' = [calls EXCEPT ![slot] = call], queue' = Append(queue, slot),
         call.stage \in {"grant", "command", "admit"}, call.revision <= revision,
         call.stage = "grant" => /\ call.tool \in GrantTools
                                 /\ Visible(call.tool)
                                 /\ Owner \in RequiredOwner(call.tool),
         call.stage = "command" => Allowed(call.tool, call.grantId),
         call.stage = "admit" => call.id \in OperationIds
  PROVE  CoordinatorInv'
<1>1. calls'[slot] = call /\ \A other \in Slots \ {slot} : calls'[other] = calls[other]
  BY DEF CoordinatorInv, CoordinatorTypeOK
<1>2. CoordinatorTypeOK'
  BY SameTypes DEF CoordinatorInv, CoordinatorTypeOK
<1>3. revision' = revision
  BY DEF vars
<1>4. CallFits(slot)'
  BY <1>1, <1>3, SameView DEF CallFits
<1>5. ~AtEffect(slot) /\ ~AtEffect(slot)' /\ EffectFits(slot)'
  BY <1>1 DEF EffectFits, AtEffect
<1> QED
  BY <1>1, <1>2, <1>4, <1>5, IdleTracksNothing, OnlyCallsMove

LEMMA CallerStep ==
  ASSUME CoordinatorInv, NEW slot \in Slots, Caller(slot)
  PROVE  CoordinatorInv'
<1>1. Idle \in Call /\ revision \in 0..MaxRevision /\ calls[slot] \in Call
  BY BoundAssumption DEF Idle, Call, Stages, CoordinatorInv, CoordinatorTypeOK, TypeOK
<1>2. ASSUME NEW tool \in Tools, RequestGrant(slot, tool)
      PROVE  CoordinatorInv'
  <2> DEFINE call == [Idle EXCEPT !.stage = "grant", !.tool = tool, !.revision = revision]
  <2>1. /\ call \in Call
        /\ call.stage = "grant"
        /\ call.tool = tool
        /\ call.revision = revision
    BY <1>1 DEF Idle, Call, Stages
  <2>2. /\ calls' = [calls EXCEPT ![slot] = call]
        /\ calls[slot].stage = "idle"
        /\ queue' = Append(queue, slot)
        /\ UNCHANGED vars /\ UNCHANGED pending
        /\ Visible(tool) /\ Owner \in RequiredOwner(tool) /\ tool \in GrantTools
    BY <1>2, CoordinatorAssumption DEF RequestGrant
  <2>3. revision <= revision
    BY <1>1
  <2> HIDE DEF call
  <2> QED
    BY <2>1, <2>2, <2>3, CallBegins
<1>3. ASSUME NEW tool \in Tools, NEW grantId \in GrantIds \cup {None},
             InvokeTool(slot, tool, grantId)
      PROVE  CoordinatorInv'
  <2> DEFINE spent == IF RequiresUserAction(tool) THEN grantId ELSE None
             call == [Idle EXCEPT !.stage = "command", !.tool = tool,
                                  !.revision = revision, !.grantId = spent]
  <2>1. /\ call \in Call
        /\ call.stage = "command"
        /\ call.tool = tool
        /\ call.revision = revision
        /\ call.grantId = spent
    BY <1>1 DEF Idle, Call, Stages
  <2>2. /\ calls' = [calls EXCEPT ![slot] = call]
        /\ calls[slot].stage = "idle"
        /\ queue' = Append(queue, slot)
        /\ UNCHANGED vars /\ UNCHANGED pending
        /\ Allowed(tool, spent)
    BY <1>3 DEF InvokeTool, Allowed
  <2>3. revision <= revision
    BY <1>1
  <2> HIDE DEF call, spent
  <2> QED
    BY <2>1, <2>2, <2>3, CallBegins
<1>4. ASSUME NEW id \in OperationIds, AskRecovery(slot, id)
      PROVE  CoordinatorInv'
  <2> DEFINE call == [Idle EXCEPT !.stage = "admit", !.id = id]
  <2>1. /\ call \in Call
        /\ call.stage = "admit"
        /\ call.revision = 0
        /\ call.id = id
    BY <1>1 DEF Idle, Call, Stages
  <2>2. /\ calls' = [calls EXCEPT ![slot] = call]
        /\ calls[slot].stage = "idle"
        /\ queue' = Append(queue, slot)
        /\ UNCHANGED vars /\ UNCHANGED pending
    BY <1>4 DEF AskRecovery
  <2>3. 0 <= revision
    BY <1>1
  <2> HIDE DEF call
  <2> QED
    BY <2>1, <2>2, <2>3, CallBegins
<1>5. ASSUME Cancel(slot)
      PROVE  CoordinatorInv'
  <2>1. /\ calls' = [calls EXCEPT ![slot] = [@ EXCEPT !.aborted = TRUE]]
        /\ UNCHANGED vars /\ UNCHANGED pending /\ UNCHANGED queue
    BY <1>5 DEF Cancel
  <2>2. CoordinatorTypeOK'
    BY <1>1, <2>1, SameTypes DEF CoordinatorInv, CoordinatorTypeOK, Call
  <2>3. /\ \A other \in Slots \ {slot} : calls'[other] = calls[other]
        /\ calls'[slot].stage = calls[slot].stage
        /\ calls'[slot].tool = calls[slot].tool
        /\ calls'[slot].grantId = calls[slot].grantId
        /\ calls'[slot].revision = calls[slot].revision
        /\ calls'[slot].id = calls[slot].id
        /\ calls'[slot].record = calls[slot].record
        /\ calls'[slot].result = calls[slot].result
        /\ calls'[slot].aborted = TRUE
    BY <1>1, <2>1 DEF CoordinatorInv, CoordinatorTypeOK, Call
  <2>4. revision' = revision /\ operations' = operations
    BY <2>1 DEF vars
  <2>5. CallFits(slot)'
    BY <2>1, <2>3, <2>4, SameView DEF CallFits, CoordinatorInv
  <2>6. EffectFits(slot)'
    BY <2>1, <2>3, <2>4, SameView DEF EffectFits, AtEffect, CoordinatorInv
  <2>7. AtEffect(slot)' = AtEffect(slot)
    BY <2>3 DEF AtEffect
  <2> QED
    BY <2>1, <2>2, <2>3, <2>5, <2>6, <2>7, IdleTracksNothing, OnlyCallsMove
<1> QED
  BY <1>2, <1>3, <1>4, <1>5 DEF Caller

LEMMA TailType ==
  ASSUME queue \in Seq(Slots), NEW slot, NEW stage, Turn(slot, stage)
  PROVE  Tail(queue) \in Seq(Slots)
BY DEF Turn

LEMMA IdleType == Idle \in Call
BY BoundAssumption DEF Idle, Call, Stages

(* A call that ends without a commit. *)
LEMMA CallEnds ==
  ASSUME CoordinatorInv, NEW slot \in Slots, EndsUnchanged(slot), queue' \in Seq(Slots)
  PROVE  CoordinatorInv'
<1>1. /\ calls' = [calls EXCEPT ![slot] = Idle]
      /\ \A id \in OperationIds :
             pending'[id] = IF pending[id] = slot THEN None ELSE pending[id]
      /\ pending' \in [OperationIds -> Slots \cup {None}]
  BY DEF EndsUnchanged, Released, CoordinatorInv, CoordinatorTypeOK
<1>2. UNCHANGED vars
  BY DEF EndsUnchanged
<1>3. /\ calls'[slot] = Idle
      /\ \A other \in Slots \ {slot} : calls'[other] = calls[other]
      /\ calls' \in [Slots -> Call]
  BY <1>1, IdleType DEF CoordinatorInv, CoordinatorTypeOK
<1>4. CoordinatorTypeOK'
  BY <1>1, <1>2, <1>3, SameTypes DEF CoordinatorTypeOK
<1>5. revision' \in Nat
  BY <1>4, BoundAssumption DEF CoordinatorTypeOK, TypeOK
<1>6. CallFits(slot)' /\ EffectFits(slot)' /\ ~AtEffect(slot)'
  BY <1>3, <1>5, IdleFits DEF AtEffect, Idle
<1>7. \A id \in OperationIds : pending'[id] # slot
  BY <1>1, CoordinatorAssumption
<1> QED
  BY <1>1, <1>2, <1>3, <1>4, <1>6, <1>7, OnlyCallsMove

LEMMA EffectEndsStep ==
  ASSUME CoordinatorInv, NEW slot \in Slots, EffectEnds(slot)
  PROVE  CoordinatorInv'
<1>1. CASE EffectRejects(slot)
  <2>1. queue' \in Seq(Slots)
    BY <1>1 DEF EffectRejects, CoordinatorInv, CoordinatorTypeOK
  <2> QED
    BY <1>1, <2>1, CallEnds DEF EffectRejects
<1>2. ASSUME NEW status \in TerminalStatuses, EffectAnswers(slot, status)
      PROVE  CoordinatorInv'
  <2>1. /\ calls' = [calls EXCEPT ![slot] = [@ EXCEPT !.stage = "result",
                                                      !.result = status]]
        /\ UNCHANGED vars /\ UNCHANGED pending
        /\ queue' = Append(queue, slot)
        /\ calls[slot].stage = "effect"
        /\ calls[slot] \in Call
    BY <1>2 DEF EffectAnswers, CoordinatorInv, CoordinatorTypeOK
  <2>2. CoordinatorTypeOK'
    <3>1. [calls[slot] EXCEPT !.stage = "result", !.result = status] \in Call
      BY <2>1 DEF Call, Stages
    <3>2. calls' \in [Slots -> Call] /\ queue' \in Seq(Slots)
      BY <2>1, <3>1 DEF CoordinatorInv, CoordinatorTypeOK
    <3> QED
      BY <2>1, <3>2, SameTypes DEF CoordinatorInv, CoordinatorTypeOK
  <2>3. /\ \A other \in Slots \ {slot} : calls'[other] = calls[other]
        /\ calls'[slot].stage = "result"
        /\ calls'[slot].revision = calls[slot].revision
        /\ calls'[slot].id = calls[slot].id
        /\ calls'[slot].record = calls[slot].record
        /\ calls'[slot].result = status
    BY <2>1 DEF CoordinatorInv, CoordinatorTypeOK, Call
  <2>4. revision' = revision /\ operations' = operations
    BY <2>1 DEF vars
  <2>5. CallFits(slot)'
    BY <2>3, <2>4 DEF CallFits, CoordinatorInv
  <2>6. EffectFits(slot)'
    BY <2>1, <2>3, <2>4, SameView DEF EffectFits, AtEffect, CoordinatorInv
  <2>7. AtEffect(slot) /\ AtEffect(slot)'
    BY <2>1, <2>3 DEF AtEffect
  <2> QED
    BY <2>1, <2>2, <2>3, <2>5, <2>6, <2>7, OnlyCallsMove
<1> QED
  BY <1>1, <1>2 DEF EffectEnds

(* A recovery takes up an open read that no call tracks.                   *)
LEMMA AdmitStep ==
  ASSUME CoordinatorInv, NEW slot \in Slots, AdmitRecovery(slot)
  PROVE  CoordinatorInv'
<1>0. queue' \in Seq(Slots)
  BY TailType DEF AdmitRecovery, TurnOver, CoordinatorInv, CoordinatorTypeOK
<1>1. CASE ~Recoverable(calls[slot].id)
  BY <1>0, <1>1, CallEnds DEF AdmitRecovery
<1>2. CASE Recoverable(calls[slot].id)
  <2>1. calls[slot] \in Call /\ CallFits(slot) /\ calls[slot].stage = "admit"
    BY DEF CoordinatorInv, CoordinatorTypeOK, AdmitRecovery, Turn
  <2>2. PICK id \in OperationIds : id = calls[slot].id
    BY <2>1 DEF CallFits
  <2>3. Recoverable(id) /\ operations[id] \in Operation
    BY <1>2, <2>2 DEF Recoverable, IsOpen, CoordinatorInv, CoordinatorTypeOK, TypeOK
  <2>4. PICK record \in Operation : record = operations[id]
    BY <2>3
  <2>5. /\ pending' = [pending EXCEPT ![id] = slot]
        /\ calls' = [calls EXCEPT ![slot] = [@ EXCEPT !.stage = "effect",
                                                      !.record = record]]
        /\ UNCHANGED vars
    <3>1. \/ EndsUnchanged(slot) /\ ~Recoverable(calls[slot].id)
          \/ /\ pending' = [pending EXCEPT ![id] = slot]
             /\ calls' = [calls EXCEPT ![slot] = [@ EXCEPT !.stage = "effect",
                                                           !.record = record]]
             /\ UNCHANGED vars
      BY <2>2, <2>4 DEF AdmitRecovery
    <3> QED
      BY <1>2, <3>1
  <2>6. CoordinatorTypeOK'
    BY <1>0, <2>1, <2>5, SameTypes DEF CoordinatorInv, CoordinatorTypeOK, Call, Stages
  <2>7. /\ \A other \in Slots \ {slot} : calls'[other] = calls[other]
        /\ calls'[slot].stage = "effect"
        /\ calls'[slot].revision = calls[slot].revision
        /\ calls'[slot].id = id
        /\ calls'[slot].record = record
        /\ pending'[id] = slot
        /\ \A other \in OperationIds \ {id} : pending'[other] = pending[other]
    BY <2>1, <2>2, <2>5 DEF CoordinatorInv, CoordinatorTypeOK, Call
  <2>8. revision' = revision /\ operations' = operations /\ ~AtEffect(slot)
    BY <2>1, <2>5 DEF vars, AtEffect
  <2>9. /\ IsOpen(id)
        /\ pending[id] = None
        /\ Visible(record.toolName)
        /\ Operational
        /\ record.toolName \in {"read_scope", "search_scope"}
    BY <2>3, <2>4 DEF Recoverable, BoundedRead, Visible, HasAgreedOperationalWorkUnit
  <2>10. Owner \in RequiredOwner(record.toolName) /\ ~RequiresUserAction(record.toolName)
    <3>1. Owner \in {"human", "ai", "none"}
      BY StatusMeansSession
         DEF Owner, CoordinatorInv, CoordinatorTypeOK, TypeOK, Session, WorkUnit
    <3> QED
      BY <2>9, <3>1 DEF RequiredOwner, RequiresUserAction
  <2>11. /\ record.runtimeRevision <= revision
         /\ \A other \in OperationIds :
                /\ operations[other] # None
                /\ operations[other].runtimeRevision = record.runtimeRevision
                => other = id
    BY <2>4, <2>9 DEF OperationsDiffer, CoordinatorInv, IsOpen
  <2>12. CallFits(slot)' /\ EffectFits(slot)'
    <3>1. CallFits(slot)'
      BY <2>1, <2>7, <2>8 DEF CallFits
    <3>2. EffectFits(slot)'
      BY <2>4, <2>7, <2>8, <2>11 DEF EffectFits
    <3> QED
      BY <3>1, <3>2
  <2>13. \A other \in Slots \ {slot} : CallFits(other)' /\ EffectFits(other)'
    BY <2>5, <2>7, <2>9, OtherStays, CoordinatorAssumption
  <2>14. TrackedFits(id)'
    BY <2>4, <2>5, <2>7, <2>8, <2>9, <2>10, SameView DEF TrackedFits, AtEffect
  <2>15. ASSUME NEW other \in OperationIds \ {id}
         PROVE  TrackedFits(other)'
    <3>1. CASE pending'[other] = None
      BY <3>1 DEF TrackedFits
    <3>2. CASE pending'[other] # None
      <4>1. pending'[other] = pending[other] /\ pending[other] \in Slots
        BY <2>7, <3>2 DEF CoordinatorInv, CoordinatorTypeOK
      <4>2. pending[other] # slot /\ AtEffect(pending[other])
        BY <2>8, <3>2, <4>1, IdleTracksNothing DEF CoordinatorInv, TrackedFits
      <4>3. calls'[pending[other]] = calls[pending[other]]
        BY <2>7, <4>1, <4>2
      <4> QED
        BY <2>5, <4>1, <4>2, <4>3, TrackedStays DEF AtEffect
    <3> QED
      BY <3>1, <3>2
  <2>16. ASSUME NEW other \in Slots \ {slot}, AtEffect(other)
         PROVE  calls[other].record.runtimeRevision # record.runtimeRevision
    BY <2>4, <2>9, <2>16, CoordinatorAssumption DEF CoordinatorInv, EffectFits, IsOpen
  <2>17. EffectsDiffer'
    BY <2>7, <2>16 DEF EffectsDiffer, AtEffect, CoordinatorInv
  <2>18. OpenOperationsAreCurrent' /\ OperationsDiffer'
    BY <2>5 DEF CoordinatorInv, vars, OpenOperationsAreCurrent, OpenOperations, IsOpen,
       InStatus, HasAgreedWorkUnit, OperationsDiffer
  <2>19. /\ \A other \in Slots : CallFits(other)' /\ EffectFits(other)'
         /\ \A other \in OperationIds : TrackedFits(other)'
    BY <2>12, <2>13, <2>14, <2>15
  <2> QED
    BY <2>6, <2>17, <2>18, <2>19 DEF CoordinatorInv
<1> QED
  BY <1>1, <1>2

-----------------------------------------------------------------------------
(* Steps that commit.                                                      *)

LEMMA InvalidatedTypes ==
  ASSUME CoordinatorInv
  PROVE  /\ InvalidatedCalls \in [Slots -> Call]
         /\ InvalidatedPending \in [OperationIds -> Slots \cup {None}]
<1>1. \A slot \in Slots : [calls[slot] EXCEPT !.aborted = TRUE] \in Call
  BY DEF CoordinatorInv, CoordinatorTypeOK, Call
<1> QED
  BY <1>1 DEF InvalidatedCalls, InvalidatedPending, CoordinatorInv, CoordinatorTypeOK

LEMMA DispatchStep ==
  ASSUME CoordinatorInv, Dispatch
  PROVE  CoordinatorInv'
<1>1. Calm
  BY DispatchIsCalm DEF CoordinatorInv, CoordinatorTypeOK
<1>2. calls' = InvalidatedCalls /\ pending' = InvalidatedPending /\ queue' = queue
  BY DEF Dispatch
<1>3. CoordinatorTypeOK'
  BY <1>1, <1>2, InvalidatedTypes DEF Calm, CoordinatorInv, CoordinatorTypeOK
<1>4. \A slot \in Slots : Kept(slot)
  BY <1>2, CoordinatorAssumption DEF Kept, InvalidatedPending
<1>5. Invalidated
  BY <1>2, <1>4 DEF Invalidated, InvalidatedPending, CoordinatorInv, CoordinatorTypeOK
<1> QED
  BY <1>1, <1>3, <1>5, CalmKeepsInv

LEMMA CommittedCallEnds ==
  ASSUME CoordinatorInv, Calm, NEW slot \in Slots, EndsCommitted(slot),
         queue' \in Seq(Slots)
  PROVE  CoordinatorInv'
<1>1. /\ calls' = [InvalidatedCalls EXCEPT ![slot] = Idle]
      /\ \A id \in OperationIds :
             pending'[id] = IF InvalidatedPending[id] = slot THEN None
                                                            ELSE InvalidatedPending[id]
      /\ pending' \in [OperationIds -> Slots \cup {None}]
  BY InvalidatedTypes DEF EndsCommitted, Released
<1>2. CoordinatorTypeOK'
  BY <1>1, InvalidatedTypes, IdleType DEF Calm, CoordinatorTypeOK
<1>3. \A id \in OperationIds :
         InvalidatedPending[id] = IF pending[id] # None /\ Survives(pending[id])
                                  THEN pending[id] ELSE None
  BY DEF InvalidatedPending
<1>4. \A other \in Slots \ {slot} : Kept(other)
  BY <1>1, <1>3, InvalidatedTypes, CoordinatorAssumption DEF Kept
<1>5. calls'[slot] = Idle
  BY <1>1, InvalidatedTypes
<1>6. Invalidated
  BY <1>1, <1>3, <1>4, <1>5 DEF Invalidated, CoordinatorInv, CoordinatorTypeOK
<1> QED
  BY <1>2, <1>6, CalmKeepsInv

LEMMA CommandIsCalm ==
  ASSUME CoordinatorInv, NEW slot \in Slots, CommitGrant(slot) \/ CommitCommand(slot)
  PROVE  Calm
<1>1. TypeOK /\ OpenOperationsAreCurrent /\ calls[slot] \in Call /\ CallFits(slot)
  BY DEF CoordinatorInv, CoordinatorTypeOK
<1>2. ASSUME CommitGrant(slot)
      PROVE  Calm
  <2>1. PICK id \in GrantIds : GrantUserAction("human", id, calls[slot].tool)
    BY <1>2 DEF CommitGrant
  <2>2. PICK tool \in GrantTools : tool = calls[slot].tool
    BY <1>1, <1>2 DEF CommitGrant, Turn, CallFits
  <2>3. "human" \in Actors
    BY DEF Actors
  <2> QED
    BY <1>1, <2>1, <2>2, <2>3, CalmGrant
<1>3. ASSUME CommitCommand(slot)
      PROVE  Calm
  <2>1. PICK grantId \in GrantIds \cup {None} : grantId = calls[slot].grantId
    BY <1>1 DEF Call
  <2>2. PICK tool : tool = calls[slot].tool
    OBVIOUS
  <2> QED
    BY <1>1, <1>3, <2>1, <2>2, LocalCommandIsCalm DEF CommitCommand
<1> QED
  BY <1>2, <1>3

LEMMA CommandStep ==
  ASSUME CoordinatorInv, NEW slot \in Slots, CommitGrant(slot) \/ CommitCommand(slot)
  PROVE  CoordinatorInv'
<1>1. queue' \in Seq(Slots) /\ EndsCommitted(slot)
  BY TailType
     DEF CommitGrant, CommitCommand, EndsCommitted, TurnOver, CoordinatorInv,
         CoordinatorTypeOK
<1> QED
  BY <1>1, CommandIsCalm, CommittedCallEnds

(* What authorises or observes leaves the session and all that is tracked. *)
LEMMA NothingInvalidated ==
  ASSUME CoordinatorInv, session' = session
  PROVE  InvalidatedCalls = calls /\ InvalidatedPending = pending
<1>1. ASSUME NEW id \in OperationIds, pending[id] # None
      PROVE  Survives(pending[id])
  <2>1. Operational /\ IsOpen(id) /\ calls[pending[id]].record = operations[id]
    BY <1>1 DEF CoordinatorInv, TrackedFits
  <2>2. operations[id].authorityEpoch = session.authorityEpoch
    BY <2>1 DEF CoordinatorInv, OpenOperationsAreCurrent, OpenOperations
  <2> QED
    BY <2>1, <2>2 DEF Survives, Operational, InStatus
<1>2. InvalidatedPending = pending
  BY <1>1 DEF InvalidatedPending, CoordinatorInv, CoordinatorTypeOK
<1>3. InvalidatedCalls = calls
  <2>1. \A slot \in Slots : ~((\E id \in OperationIds : pending[id] = slot)
                               /\ ~Survives(slot))
    BY <1>1, CoordinatorAssumption
  <2> QED
    BY <2>1 DEF InvalidatedCalls, CoordinatorInv, CoordinatorTypeOK
<1> QED
  BY <1>2, <1>3

LEMMA AuthorizeStep ==
  ASSUME CoordinatorInv, NEW slot \in Slots, CommitOperation(slot)
  PROVE  CoordinatorInv'
<1>1. /\ calls[slot] \in Call /\ CallFits(slot)
      /\ calls[slot].stage = "command" /\ Turn(slot, "command")
      /\ calls[slot].revision = revision
      /\ TypeOK /\ OpenOperationsAreCurrent
      /\ queue \in Seq(Slots)
  BY DEF CoordinatorInv, CoordinatorTypeOK, CommitOperation, Commits, Turn
<1>2. PICK tool \in OperationTools, grantId \in GrantIds \cup {None} :
           tool = calls[slot].tool /\ grantId = calls[slot].grantId
  BY <1>1 DEF CommitOperation, Call
<1>3. Allowed(tool, grantId)
  BY <1>1, <1>2 DEF CallFits
<1>4. PICK id \in OperationIds, tooLate \in BOOLEAN :
           /\ AuthorizeOperation(id, tool, grantId)
           /\ pending' = [InvalidatedPending EXCEPT ![id] = slot]
           /\ calls' = [InvalidatedCalls EXCEPT ![slot] =
                  [@ EXCEPT !.id = id, !.record = operations'[id],
                            !.aborted = tooLate,
                            !.stage = IF tooLate THEN "result" ELSE "effect",
                            !.result = IF tooLate THEN "cancelled" ELSE None]]
           /\ queue' = IF tooLate THEN Append(Tail(queue), slot) ELSE Tail(queue)
  BY <1>2 DEF CommitOperation
<1>5. /\ TypeOK' /\ OpenOperationsAreCurrent'
      /\ revision' > revision
      /\ session' = session
      /\ Operational
      /\ operations[id] = None
  <2>1. Command("ai") /\ "ai" \in Actors
    BY <1>4 DEF Command, OperationCommand, Actors
  <2>2. TypeOK' /\ OpenOperationsAreCurrent'
    BY <1>1, <2>1, KernelKeeps
  <2>3. revision' > revision
    BY <1>1, <1>4, CommitGrows, EventsPositive DEF AuthorizeOperation
  <2> QED
    BY <1>4, <2>2, <2>3 DEF AuthorizeOperation, OperationAuthorized
<1>6. /\ operations'[id] \in Operation
      /\ operations'[id].toolName = tool
      /\ operations'[id].grantId = grantId
      /\ operations'[id].status = "authorized"
      /\ operations'[id].runtimeRevision = revision'
      /\ \A other \in OperationIds \ {id} : operations'[other] = operations[other]
  <2>1. operations' = [operations EXCEPT ![id] =
           [ workUnitId |-> session.workUnit.id, toolName |-> tool,
             runtimeRevision |-> revision',
             authorityEpoch |-> session.authorityEpoch,
             status |-> "authorized", grantId |-> grantId ]]
    BY <1>4 DEF AuthorizeOperation, OperationAuthorized
  <2>2. operations' \in [OperationIds -> Operation \cup {None}]
    BY <1>5 DEF TypeOK
  <2>3. /\ operations'[id] = [ workUnitId |-> session.workUnit.id, toolName |-> tool,
             runtimeRevision |-> revision',
             authorityEpoch |-> session.authorityEpoch,
             status |-> "authorized", grantId |-> grantId ]
        /\ \A other \in OperationIds \ {id} : operations'[other] = operations[other]
    BY <1>1, <2>1 DEF TypeOK
  <2>4. operations'[id] # None
    <3>1. /\ session \in Session
          /\ session.workUnit \in WorkUnit
      BY <1>1, <1>4, StatusMeansSession
         DEF AuthorizeOperation, Operational, HasAgreedWorkUnit, Session
    <3>2. session.workUnit.id \in WorkUnitIds /\ session.authorityEpoch \in Nat
      BY <3>1 DEF Session, WorkUnit
    <3>3. revision' \in Nat
      BY <1>5, BoundAssumption DEF TypeOK
    <3>4. operations'[id] \in Operation
      BY <1>2, <2>3, <3>2, <3>3 DEF Operation
    <3> QED
      BY <3>4, NoneAssumption
  <2> QED
    BY <2>2, <2>3, <2>4
<1>7. PICK record \in Operation : record = operations'[id]
  BY <1>6
<1>8. /\ pending' = [pending EXCEPT ![id] = slot]
      /\ calls' = [calls EXCEPT ![slot] =
             [@ EXCEPT !.id = id, !.record = record, !.aborted = tooLate,
                       !.stage = IF tooLate THEN "result" ELSE "effect",
                       !.result = IF tooLate THEN "cancelled" ELSE None]]
  BY <1>4, <1>5, <1>7, NothingInvalidated
<1>9. /\ \A other \in Slots \ {slot} : calls'[other] = calls[other]
      /\ calls'[slot].stage = IF tooLate THEN "result" ELSE "effect"
      /\ calls'[slot].result = IF tooLate THEN "cancelled" ELSE None
      /\ calls'[slot].revision = calls[slot].revision
      /\ calls'[slot].id = id
      /\ calls'[slot].record = record
      /\ calls'[slot].aborted = tooLate
      /\ calls'[slot] \in Call
      /\ calls' \in [Slots -> Call]
  <2>1. [calls[slot] EXCEPT !.id = id, !.record = record, !.aborted = tooLate,
                            !.stage = IF tooLate THEN "result" ELSE "effect",
                            !.result = IF tooLate THEN "cancelled" ELSE None] \in Call
    BY <1>1 DEF Call, Stages, TerminalStatuses
  <2> QED
    BY <1>1, <1>8, <2>1 DEF CoordinatorInv, CoordinatorTypeOK, Call
<1>10. /\ pending'[id] = slot
       /\ \A other \in OperationIds \ {id} : pending'[other] = pending[other]
       /\ pending' \in [OperationIds -> Slots \cup {None}]
       /\ pending[id] = None
  <2>1. pending[id] = None
    BY <1>5 DEF CoordinatorInv, TrackedFits, IsOpen
  <2> QED
    BY <1>8, <2>1 DEF CoordinatorInv, CoordinatorTypeOK
<1>11. CoordinatorTypeOK'
  <2>1. Tail(queue) \in Seq(Slots)
    BY <1>1, TailType
  <2>2. queue' \in Seq(Slots)
    BY <1>4, <2>1
  <2> QED
    BY <1>5, <1>9, <1>10, <2>2 DEF CoordinatorTypeOK
<1>12. revision \in Nat /\ revision' \in Nat
  BY <1>1, <1>5, BoundAssumption DEF TypeOK
<1>13. OperationsDiffer /\ \A other \in OperationIds : operations[other] # None =>
           operations[other] \in Operation /\ operations[other].runtimeRevision < revision'
  <2>1. OperationsDiffer
    BY DEF CoordinatorInv
  <2>2. \A other \in OperationIds : operations[other] # None =>
           operations[other] \in Operation /\ operations[other].runtimeRevision <= revision
    BY <1>1, <2>1 DEF TypeOK, OperationsDiffer
  <2> QED
    BY <1>5, <1>12, <2>1, <2>2 DEF Operation
<1>14. OperationsDiffer'
  <2>1. \A other \in OperationIds : operations'[other] # None =>
           operations'[other].runtimeRevision <= revision'
    BY <1>6, <1>12, <1>13 DEF Operation
  <2>2. \A one, other \in OperationIds :
           one # other /\ operations'[one] # None /\ operations'[other] # None =>
               operations'[other].runtimeRevision # operations'[one].runtimeRevision
    BY <1>6, <1>12, <1>13 DEF OperationsDiffer, Operation
  <2> QED
    BY <2>1, <2>2 DEF OperationsDiffer
<1>15. ASSUME NEW other \in Slots \ {slot}, AtEffect(other)
       PROVE  calls[other].record.runtimeRevision < revision'
  <2>1. calls[other].record \in Operation /\ calls[other].record.runtimeRevision <= revision
    BY <1>15 DEF CoordinatorInv, EffectFits
  <2> QED
    BY <1>5, <1>12, <2>1 DEF Operation
<1>16. ASSUME NEW other \in Slots \ {slot}
       PROVE  CallFits(other)' /\ EffectFits(other)'
  <2>1. CallFits(other)'
    BY <1>5, <1>9, <1>12, CallStays
  <2>2. CASE ~AtEffect(other)
    BY <1>9, <2>1, <2>2 DEF EffectFits, AtEffect
  <2>3. CASE AtEffect(other)
    <3>1. EffectFits(other) /\ calls'[other] = calls[other] /\ other # slot
      BY <1>9 DEF CoordinatorInv
    <3>2. PICK own \in OperationIds : own = calls[other].id
      BY <2>3, <3>1 DEF EffectFits
    <3>3. calls[other].record.runtimeRevision <= revision'
      <4>1. calls[other].record \in Operation
        BY <2>3, <3>1 DEF EffectFits
      <4> QED
        BY <1>12, <1>15, <2>3, <4>1 DEF Operation
    <3>4. \A i \in OperationIds :
             /\ operations'[i] # None
             /\ operations'[i].runtimeRevision = calls[other].record.runtimeRevision
             => i = own
      <4>1. operations'[id].runtimeRevision # calls[other].record.runtimeRevision
        <5>1. calls[other].record \in Operation
          BY <2>3, <3>1 DEF EffectFits
        <5> QED
          BY <1>6, <1>12, <1>15, <2>3, <5>1 DEF Operation
      <4> QED
        BY <1>6, <2>3, <3>1, <3>2, <4>1 DEF EffectFits
    <3>5. ASSUME IsOpen(own)',
                 operations'[own].runtimeRevision = calls[other].record.runtimeRevision
          PROVE  /\ operations'[own] = calls[other].record
                 /\ Operational' => pending'[own] = other
      <4>1. own # id
        <5>1. calls[other].record \in Operation
          BY <2>3, <3>1 DEF EffectFits
        <5> QED
          BY <1>6, <1>12, <1>15, <2>3, <3>5, <5>1 DEF Operation
      <4>2. operations'[own] = operations[own] /\ pending'[own] = pending[own]
        BY <1>6, <1>10, <4>1
      <4>3. IsOpen(own)
        BY <3>5, <4>2 DEF IsOpen
      <4> QED
        BY <1>5, <2>3, <3>1, <3>2, <3>5, <4>2, <4>3 DEF EffectFits
    <3>6. calls[other].stage = "effect" /\ ~calls[other].aborted => pending'[own] = other
      BY <1>10, <2>3, <3>1, <3>2, CoordinatorAssumption DEF EffectFits
    <3>7. EffectFits(other)'
      BY <2>3, <3>1, <3>2, <3>3, <3>4, <3>5, <3>6 DEF EffectFits
    <3> QED
      BY <2>1, <3>7
  <2> QED
    BY <2>1, <2>2, <2>3
<1>17. CallFits(slot)' /\ EffectFits(slot)'
  <2>1. calls'[slot].revision <= revision'
    BY <1>1, <1>5, <1>9, <1>12
  <2>2. CallFits(slot)'
    BY <1>9, <2>1 DEF CallFits, TerminalStatuses
  <2>3. record.runtimeRevision <= revision'
    BY <1>6, <1>7, <1>12
  <2>4. \A i \in OperationIds :
           operations'[i] # None /\ operations'[i].runtimeRevision = record.runtimeRevision
           => i = id
    BY <1>6, <1>7, <1>12, <1>13 DEF Operation
  <2>5. EffectFits(slot)'
    BY <1>7, <1>9, <1>10, <2>3, <2>4 DEF EffectFits
  <2> QED
    BY <2>2, <2>5
<1>18. TrackedFits(id)'
  <2>1. Visible(tool)' /\ Owner' = Owner /\ Operational'
    BY <1>3, <1>5, SameSessionView DEF Allowed
  <2>2. Owner \in RequiredOwner(tool) /\ (RequiresUserAction(tool) => grantId # None)
    BY <1>3 DEF Allowed
  <2>3. IsOpen(id)'
    BY <1>6, NoneAssumption DEF IsOpen, TerminalStatuses
  <2>4. AtEffect(slot)'
    BY <1>9 DEF AtEffect
  <2> QED
    BY <1>6, <1>7, <1>9, <1>10, <2>1, <2>2, <2>3, <2>4 DEF TrackedFits, AtEffect
<1>19. ASSUME NEW other \in OperationIds \ {id}
       PROVE  TrackedFits(other)'
  <2> SUFFICES ASSUME pending'[other] # None
               PROVE  TrackedFits(other)'
    BY DEF TrackedFits
  <2>1. pending'[other] = pending[other] /\ operations'[other] = operations[other]
    BY <1>6, <1>10
  <2>2. pending[other] \in Slots /\ TrackedFits(other)
    BY <2>1 DEF CoordinatorInv, CoordinatorTypeOK
  <2>3. pending[other] # slot
    BY <1>1, IdleTracksNothing DEF AtEffect
  <2>4. calls'[pending[other]] = calls[pending[other]]
    BY <1>9, <2>2, <2>3
  <2>5. /\ Operational' /\ IsOpen(other)'
        /\ Owner' = Owner
        /\ Visible(operations[other].toolName)
    BY <1>5, <2>1, <2>2, SameSessionView DEF TrackedFits, IsOpen
  <2>6. Visible(operations[other].toolName)'
    BY <1>5, <2>1, <2>5, SameSessionView
  <2> QED
    BY <2>1, <2>2, <2>4, <2>5, <2>6 DEF TrackedFits, AtEffect
<1>20. EffectsDiffer'
  <2>1. \A other \in Slots \ {slot} : AtEffect(other)' =>
           /\ AtEffect(other)
           /\ calls'[other].record = calls[other].record
           /\ calls[other].record \in Operation
    BY <1>9 DEF AtEffect, CoordinatorInv, EffectFits
  <2>2. \A other \in Slots \ {slot} : AtEffect(other)' =>
           calls'[other].record.runtimeRevision # calls'[slot].record.runtimeRevision
    BY <1>6, <1>7, <1>9, <1>12, <1>15, <2>1 DEF Operation
  <2> QED
    BY <2>1, <2>2 DEF EffectsDiffer, CoordinatorInv
<1> QED
  BY <1>5, <1>11, <1>14, <1>16, <1>17, <1>18, <1>19, <1>20 DEF CoordinatorInv

LEMMA SettleStep ==
  ASSUME CoordinatorInv, NEW slot \in Slots, Turn(slot, "result"),
         StillAuthorized(calls[slot]),
         ObserveOperationResult(calls[slot].id, calls[slot].record.authorityEpoch,
                                calls[slot].result),
         EndsCommitted(slot)
  PROVE  CoordinatorInv'
<1>1. /\ calls[slot] \in Call /\ CallFits(slot) /\ EffectFits(slot) /\ AtEffect(slot)
      /\ calls[slot].stage = "result"
      /\ TypeOK /\ OpenOperationsAreCurrent
      /\ queue \in Seq(Slots)
  BY DEF CoordinatorInv, CoordinatorTypeOK, Turn, AtEffect
<1>2. PICK id \in OperationIds, status \in TerminalStatuses :
           id = calls[slot].id /\ status = calls[slot].result
  BY <1>1 DEF CallFits, EffectFits
<1>3. /\ IsOpen(id)
      /\ operations[id] = calls[slot].record
      /\ Operational => pending[id] = slot
  BY <1>1, <1>2 DEF StillAuthorized, EffectFits
<1>4. /\ revision' > revision
      /\ session' = session /\ presence' = presence /\ grants' = grants
      /\ operations' = [operations EXCEPT ![id] = [@ EXCEPT !.status = status]]
  BY <1>1, <1>2, CommitGrows DEF ObserveOperationResult, OperationObserved
<1>5. TypeOK'
  <2>1. revision' \in 0..MaxRevision
    BY <1>1, CommitType DEF ObserveOperationResult
  <2>2. [operations[id] EXCEPT !.status = status] \in Operation
    BY <1>1, <1>3 DEF IsOpen, TypeOK, Operation
  <2> QED
    BY <1>1, <1>4, <2>1, <2>2 DEF TypeOK
<1>6. /\ operations[id] \in Operation
      /\ operations'[id] = [operations[id] EXCEPT !.status = status]
      /\ operations'[id].status = status
      /\ operations'[id].runtimeRevision = operations[id].runtimeRevision
      /\ ~IsOpen(id)'
      /\ \A other \in OperationIds \ {id} : operations'[other] = operations[other]
  BY <1>1, <1>3, <1>4 DEF TypeOK, IsOpen, Operation
<1>7. \A other \in OperationIds :
         /\ IsOpen(other)' => other # id /\ IsOpen(other)
         /\ operations'[other] # None =>
               /\ operations[other] # None
               /\ operations'[other].runtimeRevision = operations[other].runtimeRevision
  BY <1>3, <1>6 DEF IsOpen
<1>8. OpenOperationsAreCurrent'
  BY <1>1, <1>4, <1>6, <1>7 DEF OpenOperationsAreCurrent, OpenOperations, InStatus,
     HasAgreedWorkUnit
<1>9. /\ calls' = [calls EXCEPT ![slot] = Idle]
      /\ \A other \in OperationIds :
             pending'[other] = IF pending[other] = slot THEN None ELSE pending[other]
      /\ pending' \in [OperationIds -> Slots \cup {None}]
      /\ queue' \in Seq(Slots)
  BY <1>1, <1>4, NothingInvalidated, TailType
     DEF EndsCommitted, Released, TurnOver, CoordinatorInv, CoordinatorTypeOK
<1>10. /\ calls'[slot] = Idle
       /\ \A other \in Slots \ {slot} : calls'[other] = calls[other]
       /\ calls' \in [Slots -> Call]
  BY <1>9, IdleType DEF CoordinatorInv, CoordinatorTypeOK
<1>11. CoordinatorTypeOK'
  BY <1>5, <1>9, <1>10 DEF CoordinatorTypeOK
<1>12. revision \in Nat /\ revision' \in Nat
  BY <1>1, <1>5, BoundAssumption DEF TypeOK
<1>13. OperationsDiffer'
  <2>1. OperationsDiffer /\ \A other \in OperationIds : operations[other] # None =>
           operations[other] \in Operation
    BY <1>1 DEF CoordinatorInv, TypeOK
  <2> QED
    BY <1>4, <1>7, <1>12, <2>1 DEF OperationsDiffer, Operation
<1>14. ASSUME NEW other \in Slots \ {slot}
       PROVE  CallFits(other)' /\ EffectFits(other)'
  <2>1. CallFits(other)'
    BY <1>4, <1>10, <1>12, CallStays
  <2>2. CASE ~AtEffect(other)
    BY <1>10, <2>1, <2>2 DEF EffectFits, AtEffect
  <2>3. CASE AtEffect(other)
    <3>1. EffectFits(other) /\ calls'[other] = calls[other] /\ other # slot
      BY <1>10 DEF CoordinatorInv
    <3>2. PICK own \in OperationIds : own = calls[other].id
      BY <2>3, <3>1 DEF EffectFits
    <3>3. calls[other].record.runtimeRevision <= revision'
      BY <1>4, <1>12, <2>3, <3>1 DEF EffectFits, Operation
    <3>4. \A i \in OperationIds :
             /\ operations'[i] # None
             /\ operations'[i].runtimeRevision = calls[other].record.runtimeRevision
             => i = own
      BY <1>7, <2>3, <3>1, <3>2 DEF EffectFits
    <3>5. pending[own] = other => pending'[own] = other
      BY <1>9, <3>1, CoordinatorAssumption
    <3>6. ASSUME IsOpen(own)',
                 operations'[own].runtimeRevision = calls[other].record.runtimeRevision
          PROVE  /\ operations'[own] = calls[other].record
                 /\ Operational' => pending'[own] = other
      <4>1. IsOpen(own) /\ operations'[own] = operations[own]
        BY <1>6, <1>7, <3>6
      <4>2. Operational' => Operational
        BY <1>4, SameSessionView
      <4> QED
        BY <2>3, <3>1, <3>2, <3>5, <3>6, <4>1, <4>2 DEF EffectFits
    <3>7. calls[other].stage = "effect" /\ ~calls[other].aborted => pending'[own] = other
      BY <2>3, <3>1, <3>2, <3>5 DEF EffectFits
    <3>8. EffectFits(other)'
      BY <2>3, <3>1, <3>2, <3>3, <3>4, <3>6, <3>7 DEF EffectFits
    <3> QED
      BY <2>1, <3>8
  <2> QED
    BY <2>2, <2>3
<1>15. CallFits(slot)' /\ EffectFits(slot)'
  BY <1>10, <1>12, IdleFits
<1>16. ASSUME NEW other \in OperationIds
       PROVE  TrackedFits(other)'
  <2> SUFFICES ASSUME pending'[other] # None
               PROVE  TrackedFits(other)'
    BY DEF TrackedFits
  <2>1. pending'[other] = pending[other] /\ pending[other] # slot
    BY <1>9
  <2>2. pending[other] \in Slots /\ TrackedFits(other) /\ Operational
    BY <2>1 DEF CoordinatorInv, CoordinatorTypeOK, TrackedFits
  <2>3. other # id
    BY <1>3, <2>1, <2>2
  <2>4. /\ calls'[pending[other]] = calls[pending[other]]
        /\ operations'[other] = operations[other]
    BY <1>6, <1>10, <2>1, <2>2, <2>3
  <2>5. /\ Operational' /\ IsOpen(other)'
        /\ Owner' = Owner
        /\ Visible(operations[other].toolName)
    BY <1>4, <2>1, <2>2, <2>4, SameSessionView DEF TrackedFits, IsOpen
  <2>6. Visible(operations[other].toolName)'
    BY <1>4, <2>4, <2>5, SameSessionView
  <2> QED
    BY <2>1, <2>2, <2>4, <2>5, <2>6 DEF TrackedFits, AtEffect
<1>17. EffectsDiffer'
  <2>1. \A other \in Slots : AtEffect(other)' =>
           AtEffect(other) /\ calls'[other].record = calls[other].record
    BY <1>10 DEF AtEffect, Idle
  <2> QED
    BY <2>1 DEF EffectsDiffer, CoordinatorInv
<1> QED
  BY <1>8, <1>11, <1>13, <1>14, <1>15, <1>16, <1>17 DEF CoordinatorInv

LEMMA ServeStep ==
  ASSUME CoordinatorInv, NEW slot \in Slots, Serve(slot)
  PROVE  CoordinatorInv'
<1>1. queue \in Seq(Slots)
  BY DEF CoordinatorInv, CoordinatorTypeOK
<1>2. CASE ObserveResult(slot)
  <2>1. CASE StillAuthorized(calls[slot])
    BY <1>2, <2>1, SettleStep DEF ObserveResult
  <2>2. CASE ~StillAuthorized(calls[slot])
    <3>1. EndsUnchanged(slot) /\ queue' \in Seq(Slots)
      BY <1>1, <1>2, <2>2, TailType DEF ObserveResult, TurnOver
    <3> QED
      BY <3>1, CallEnds
  <2> QED
    BY <2>1, <2>2
<1>3. CASE Refuse(slot)
  <2>1. EndsUnchanged(slot) /\ queue' \in Seq(Slots)
    BY <1>1, <1>3, TailType DEF Refuse, TurnOver
  <2> QED
    BY <2>1, CallEnds
<1> QED
  BY <1>2, <1>3, CommandStep, AuthorizeStep, AdmitStep DEF Serve

LEMMA StutterKeeps ==
  ASSUME CoordinatorInv, UNCHANGED coordinator
  PROVE  CoordinatorInv'
<1>1. UNCHANGED vars /\ calls' = calls /\ pending' = pending /\ queue' = queue
  BY DEF coordinator, host
<1>2. CoordinatorTypeOK'
  BY <1>1, SameTypes DEF CoordinatorInv, CoordinatorTypeOK
<1>3. \A slot \in Slots : CallFits(slot)' /\ EffectFits(slot)'
  BY <1>1, OtherStays
<1>4. \A id \in OperationIds : TrackedFits(id)'
  BY <1>1, TrackedStays DEF CoordinatorInv, TrackedFits, AtEffect
<1>5. EffectsDiffer'
  BY <1>1 DEF CoordinatorInv, EffectsDiffer, AtEffect
<1>6. OpenOperationsAreCurrent' /\ OperationsDiffer'
  BY <1>1 DEF CoordinatorInv, vars, OpenOperationsAreCurrent, OpenOperations, IsOpen,
     InStatus, HasAgreedWorkUnit, OperationsDiffer
<1> QED
  BY <1>2, <1>3, <1>4, <1>5, <1>6 DEF CoordinatorInv

LEMMA CoordinatorInductive ==
  ASSUME CoordinatorInv, [CoordinatorNext]_coordinator
  PROVE  CoordinatorInv'
BY DispatchStep, CallerStep, ServeStep, EffectEndsStep, StutterKeeps DEF CoordinatorNext

LEMMA CoordinatorInvariant == CoordinatorSpec => []CoordinatorInv
<1>1. CoordinatorInit => CoordinatorInv
  <2> SUFFICES ASSUME CoordinatorInit
               PROVE  CoordinatorInv
    OBVIOUS
  <2>1. TypeOK /\ revision = 0 /\ operations = NoOperations
    BY CreatedType, NoFunctionsType, BoundAssumption
       DEF CoordinatorInit, Init, TypeOK, OperationFunctions, GrantFunctions
  <2>2. /\ calls \in [Slots -> Call]
        /\ \A slot \in Slots : calls[slot] = Idle
        /\ pending \in [OperationIds -> Slots \cup {None}]
        /\ \A id \in OperationIds : pending[id] = None
        /\ queue \in Seq(Slots)
    BY IdleType DEF CoordinatorInit
  <2>3. CoordinatorTypeOK
    BY <2>1, <2>2 DEF CoordinatorTypeOK
  <2>4. OpenOperationsAreCurrent /\ OperationsDiffer
    BY <2>1 DEF OpenOperationsAreCurrent, OpenOperations, IsOpen, OperationsDiffer,
       NoOperations
  <2>5. \A slot \in Slots : CallFits(slot) /\ EffectFits(slot)
    BY <2>1, <2>2 DEF CallFits, EffectFits, AtEffect, Idle
  <2>6. \A id \in OperationIds : TrackedFits(id)
    BY <2>2 DEF TrackedFits
  <2>7. EffectsDiffer
    BY <2>2 DEF EffectsDiffer, AtEffect, Idle
  <2> QED
    BY <2>3, <2>4, <2>5, <2>6, <2>7 DEF CoordinatorInv
<1> QED
  BY <1>1, CoordinatorInductive, PTL DEF CoordinatorSpec

-----------------------------------------------------------------------------
(* What the coordinator promises.                                          *)

(* Calls, tracking and queue keep their types over the kernel's snapshot.  *)
THEOREM CoordinatorTypeCorrect == CoordinatorSpec => []CoordinatorTypeOK
<1>1. CoordinatorInv => CoordinatorTypeOK
  BY DEF CoordinatorInv
<1> QED
  BY <1>1, CoordinatorInvariant, PTL

(* What is tracked as pending is an open operation of a session at work,   *)
(* by the call that runs it: every commit's invalidation forgets the rest. *)
THEOREM PendingCorrect == CoordinatorSpec => []PendingIsCurrent
<1>1. CoordinatorInv => PendingIsCurrent
  BY DEF CoordinatorInv, TrackedFits, PendingIsCurrent, AtEffect
<1> QED
  BY <1>1, CoordinatorInvariant, PTL

(* An effect that nobody aborted runs for an open operation of the agreed  *)
(* unit, under authority that is still given, and can still be reached.    *)
THEOREM EffectsCorrect == CoordinatorSpec => []EffectsAreEntitled
<1>1. CoordinatorInv => EffectsAreEntitled
  <2> SUFFICES ASSUME CoordinatorInv, NEW slot \in Slots,
                      calls[slot].stage = "effect", ~calls[slot].aborted
               PROVE  LET call == calls[slot]
                          tool == call.record.toolName
                      IN  /\ Visible(tool)
                          /\ Owner \in RequiredOwner(tool)
                          /\ RequiresUserAction(tool) => call.record.grantId # None
                          /\ operations[call.id] = call.record
                          /\ IsOpen(call.id)
                          /\ call.record.authorityEpoch = session.authorityEpoch
                          /\ pending[call.id] = slot
    BY DEF EffectsAreEntitled
  <2>1. calls[slot].id \in OperationIds /\ pending[calls[slot].id] = slot
    BY DEF CoordinatorInv, EffectFits, AtEffect
  <2>2. TrackedFits(calls[slot].id)
    BY <2>1 DEF CoordinatorInv
  <2>3. calls[slot].record = operations[calls[slot].id] /\ IsOpen(calls[slot].id)
    BY <2>1, <2>2, CoordinatorAssumption DEF TrackedFits
  <2>4. operations[calls[slot].id].authorityEpoch = session.authorityEpoch
    BY <2>1, <2>3 DEF CoordinatorInv, OpenOperationsAreCurrent, OpenOperations
  <2> QED
    BY <2>1, <2>2, <2>3, <2>4, CoordinatorAssumption DEF TrackedFits
<1> QED
  BY <1>1, CoordinatorInvariant, PTL

(* Neither a second call nor a recovery runs an operation that is running. *)
THEOREM EffectsAreSingle == CoordinatorSpec => []OneEffectPerOperation
<1>1. CoordinatorInv => OneEffectPerOperation
  BY DEF CoordinatorInv, EffectsDiffer, OneEffectPerOperation, AtEffect
<1> QED
  BY <1>1, CoordinatorInvariant, PTL

(* What the policy let in is committed only while it would still let it in. *)
THEOREM CommandsCorrect == CoordinatorSpec => CommandsStayAllowed
<1>1. ASSUME CoordinatorInv, [CoordinatorNext]_coordinator, NEW slot \in Slots,
             Turn(slot, "grant") \/ Turn(slot, "command"),
             queue' # queue, vars' # vars
      PROVE  LET call == calls[slot]
             IN  /\ Visible(call.tool)
                 /\ Owner \in RequiredOwner(call.tool)
                 /\ call.stage = "command" => Allowed(call.tool, call.grantId)
  <2>1. PICK other \in Slots : Serve(other)
    BY <1>1 DEF CoordinatorNext, coordinator, host, Dispatch, Caller, RequestGrant,
       InvokeTool, AskRecovery, Cancel, EffectEnds, EffectRejects, EffectAnswers,
       EndsUnchanged
  <2>2. CommitGrant(other) \/ CommitCommand(other) \/ CommitOperation(other)
        \/ Turn(other, "result")
    BY <1>1, <2>1 DEF Serve, Refuse, AdmitRecovery, ObserveResult, EndsUnchanged
  <2>3. other = slot /\ calls[slot].stage \in {"grant", "command"}
    BY <1>1, <2>2 DEF Turn, CommitGrant, CommitCommand, CommitOperation
  <2>4. calls[slot].revision = revision
    BY <2>2, <2>3 DEF Turn, CommitGrant, CommitCommand, CommitOperation, Commits
  <2> QED
    BY <1>1, <2>3, <2>4 DEF CoordinatorInv, CallFits, Allowed
<1>2. ASSUME CoordinatorInv, [CoordinatorNext]_coordinator
      PROVE  [\A slot \in Slots :
                /\ Turn(slot, "grant") \/ Turn(slot, "command")
                /\ queue' # queue
                /\ vars' # vars
                => LET call == calls[slot]
                   IN  /\ Visible(call.tool)
                       /\ Owner \in RequiredOwner(call.tool)
                       /\ call.stage = "command" =>
                              Allowed(call.tool, call.grantId)]_coordinator
  BY <1>1, <1>2
<1> QED
  BY <1>2, CoordinatorInvariant, PTL DEF CoordinatorSpec, CommandsStayAllowed

(* An operation settles by the answer of its own effect or by a pause,     *)
(* never by one that comes late for another of the same identifier.        *)
THEOREM ResultsCorrect == CoordinatorSpec => ResultsSettleTheirOwn
<1>1. ASSUME CoordinatorInv, [CoordinatorNext]_coordinator, NEW id \in OperationIds,
             IsOpen(id), operations'[id] # None, ~IsOpen(id)'
      PROVE  \/ session'.status = "paused" /\ operations'[id].status = "cancelled"
             \/ \E slot \in Slots :
                    /\ calls[slot].stage = "result"
                    /\ calls[slot].record = operations[id]
                    /\ calls[slot].result = operations'[id].status
  <2>1. TypeOK /\ OpenOperationsAreCurrent
    BY <1>1 DEF CoordinatorInv, CoordinatorTypeOK
  <2>2. operations'[id] # operations[id]
    BY <1>1 DEF IsOpen
  <2>3. CASE Calm
    BY <1>1, <2>3 DEF Calm, SettlesByPause
  <2>4. CASE Dispatch
    BY <2>1, <2>3, <2>4, DispatchIsCalm
  <2>5. ASSUME NEW slot \in Slots, Serve(slot)
        PROVE  \/ Calm
               \/ /\ calls[slot].stage = "result"
                  /\ calls[slot].record = operations[id]
                  /\ calls[slot].result = operations'[id].status
    <3>1. CASE CommitGrant(slot) \/ CommitCommand(slot)
      BY <1>1, <3>1, CommandIsCalm
    <3>2. CASE CommitOperation(slot)
      <4>1. PICK other \in OperationIds :
               \E tool, grantId : /\ operations[other] = None
                                 /\ OperationAuthorized(other, tool, grantId)
        BY <3>2 DEF CommitOperation, AuthorizeOperation
      <4> QED
        BY <1>1, <2>1, <2>2, <4>1 DEF OperationAuthorized, TypeOK, IsOpen
    <3>3. CASE ObserveResult(slot)
      <4>1. /\ calls[slot].stage = "result"
            /\ StillAuthorized(calls[slot])
            /\ OperationObserved(calls[slot].id, calls[slot].result)
        BY <2>2, <3>3
           DEF ObserveResult, Turn, ObserveOperationResult, EndsUnchanged, vars
      <4>2. EffectFits(slot) /\ AtEffect(slot)
        BY <1>1, <4>1 DEF CoordinatorInv, AtEffect
      <4>3. calls[slot].id = id
        BY <2>1, <2>2, <4>1, <4>2 DEF OperationObserved, TypeOK, EffectFits
      <4>4. calls[slot].record = operations[id]
        BY <1>1, <4>1, <4>2, <4>3 DEF StillAuthorized, EffectFits
      <4>5. operations'[id].status = calls[slot].result
        BY <1>1, <2>1, <4>1, <4>3 DEF OperationObserved, TypeOK, IsOpen, Operation
      <4> QED
        BY <4>1, <4>4, <4>5
    <3>4. CASE AdmitRecovery(slot) \/ Refuse(slot)
      BY <2>2, <3>4 DEF AdmitRecovery, Refuse, EndsUnchanged, vars
    <3> QED
      BY <2>5, <3>1, <3>2, <3>3, <3>4 DEF Serve
  <2>6. Dispatch \/ \E slot \in Slots : Serve(slot)
    BY <1>1, <2>2 DEF CoordinatorNext, coordinator, Caller, RequestGrant, InvokeTool,
       AskRecovery, Cancel, EffectEnds, EffectRejects, EffectAnswers, EndsUnchanged, vars
  <2> QED
    BY <2>3, <2>4, <2>5, <2>6
<1>2. ASSUME CoordinatorInv, [CoordinatorNext]_coordinator
      PROVE  [\A id \in OperationIds :
                IsOpen(id) /\ operations'[id] # None /\ ~IsOpen(id)' =>
                    \/ session'.status = "paused" /\ operations'[id].status = "cancelled"
                    \/ \E slot \in Slots :
                           /\ calls[slot].stage = "result"
                           /\ calls[slot].record = operations[id]
                           /\ calls[slot].result = operations'[id].status]_coordinator
  BY <1>1, <1>2
<1> QED
  BY <1>2, CoordinatorInvariant, PTL DEF CoordinatorSpec, ResultsSettleTheirOwn
=============================================================================
