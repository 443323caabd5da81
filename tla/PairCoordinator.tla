--------------------------- MODULE PairCoordinator ---------------------------
(***************************************************************************)
(* The coordinator and its tool executor (packages/runtime), over the      *)
(* session kernel.  Calls of one host run concurrently: a call reads a     *)
(* snapshot, is checked against the tools that snapshot shows, and then    *)
(* waits for its turn on the transition queue, where alone the snapshot    *)
(* changes; the effect of an authorised operation runs outside the queue   *)
(* and its result waits for a turn of its own.  Every commit is followed,  *)
(* in the same transition, by the invalidation of effects whose authority  *)
(* it took back.                                                           *)
(*                                                                         *)
(* A step is what runs between two turns of the queue.  The call whose     *)
(* turn ends goes on before the next turn begins (its continuation is      *)
(* queued first), so authorising an operation, tracking it as pending and  *)
(* dispatching its effect are one step, and so are taking a result and     *)
(* the clean-up behind it.                                                 *)
(***************************************************************************)
EXTENDS PairKernel, Sequences

CONSTANTS
    Slots,           \* calls that may be under way at once
    Tools            \* the tools callers ask for

VARIABLES
    calls,           \* slot -> the call under way in it
    pending,         \* operation id -> the call whose controller tracks it
    queue            \* calls waiting for their turn, in order

host == <<calls, pending, queue>>
coordinator == <<vars, host>>

Stages == {"idle", "grant", "command", "admit", "effect", "result"}

Call == [ stage : Stages,
          tool : Tools \cup {None},            \* None in a read recovery
          grantId : GrantIds \cup {None},
          revision : 0..MaxRevision,           \* of the snapshot it was checked on
          id : OperationIds \cup {None},
          record : Operation \cup {None},      \* the operation as authorised
          result : TerminalStatuses \cup {None},
          aborted : BOOLEAN ]                  \* its signal or controller

Idle == [ stage |-> "idle", tool |-> None, grantId |-> None, revision |-> 0,
          id |-> None, record |-> None, result |-> None, aborted |-> FALSE ]

-----------------------------------------------------------------------------
(* The tool catalogue and what a snapshot shows of it (packages/harness).  *)

RequiresUserAction(tool) ==
    tool \notin {"read_scope", "search_scope", "propose_work_unit", "apply_edit"}

ASSUME CoordinatorAssumption ==
    /\ None \notin Slots
    /\ \A tool \in Tools : RequiresUserAction(tool) => tool \in GrantTools

RequiredOwner(tool) ==
    IF tool \in {"record_attempt", "record_hypothesis", "reveal_solution"}
    THEN {"human"}
    ELSE IF tool \in {"apply_edit", "run_command"} THEN {"ai"}
    ELSE {"human", "ai", "none"}

BoundedRead(tool) == tool \in {"read_scope", "search_scope"}

Owner ==
    IF session = None \/ session.workUnit = None THEN "none"
                                                 ELSE session.workUnit.owner

HasAgreedOperationalWorkUnit ==
    Operational /\ HasAgreedWorkUnit /\ session.workUnit.mode = session.mode

HasOperationalGrowthWorkUnit ==
    /\ HasAgreedOperationalWorkUnit
    /\ session.mode = "growth"
    /\ HasGrowthAgreement
    /\ Owner = "human"

HasOperationalAiOwnedUnit ==
    /\ HasAgreedOperationalWorkUnit
    /\ Owner = "ai"
    /\ session.mode \in {"pair", "delivery"}

CanProposeWorkUnit ==
    /\ Briefing
    /\ HasEntry
    /\ session.mode # None
    /\ session.mode = "growth" => HasGrowthAgreement

CanConfirmLearning == Briefing /\ HasEntry /\ session.mode \in {None, "growth"}

CanSelectMode == Briefing /\ HasNoWorkUnit

CanAgreeWorkUnit ==
    /\ CanProposeWorkUnit
    /\ session.workUnit # None
    /\ session.workUnit.status = "proposed"
    /\ session.workUnit.mode = session.mode

Visible(tool) ==
    \/ tool = "capture_entry" /\ Briefing
    \/ tool = "confirm_learning" /\ CanConfirmLearning
    \/ tool = "select_mode" /\ CanSelectMode
    \/ tool = "propose_work_unit" /\ CanProposeWorkUnit
    \/ tool = "agree_work_unit" /\ CanAgreeWorkUnit
    \/ /\ tool \in {"read_scope", "search_scope", "run_verification"}
       /\ HasAgreedOperationalWorkUnit
    \/ /\ tool \in {"record_attempt", "record_hypothesis", "request_hint",
                    "reveal_solution"}
       /\ HasOperationalGrowthWorkUnit
    \/ tool = "apply_edit" /\ HasOperationalAiOwnedUnit
    \/ tool = "run_command" /\ HasOperationalAiOwnedUnit /\ session.mode = "delivery"
    \/ tool = "close_session" /\ Closable

(* The tool policy, on the snapshot the call has read. *)
Allowed(tool, grantId) ==
    /\ Visible(tool)
    /\ Owner \in RequiredOwner(tool)
    /\ RequiresUserAction(tool) => grantId # None /\ CurrentGrant(grantId, tool)

-----------------------------------------------------------------------------
(* The queue, and the operations under way.                                *)

Turn(slot, stage) ==
    queue # <<>> /\ Head(queue) = slot /\ calls[slot].stage = stage

TurnOver == queue' = Tail(queue)

(* Fault: closing a session is not looked for. *)
SurvivesClose(slot) ==
    /\ session' # None
    /\ session'.status \notin {"paused", "reconciling"}
    /\ session'.authorityEpoch = calls[slot].record.authorityEpoch

(* The effect of a pending operation outlives a commit that leaves its     *)
(* session at work and at the same epoch.                                  *)
Survives(slot) ==
    /\ session' # None
    /\ session'.status \notin {"paused", "reconciling", "closed"}
    /\ session'.authorityEpoch = calls[slot].record.authorityEpoch

InvalidatedPending ==
    [id \in OperationIds |->
        IF pending[id] # None /\ Survives(pending[id]) THEN pending[id] ELSE None]

InvalidatedCalls ==
    [slot \in Slots |->
        IF (\E id \in OperationIds : pending[id] = slot) /\ ~Survives(slot)
        THEN [calls[slot] EXCEPT !.aborted = TRUE]
        ELSE calls[slot]]

(* Fault: a call that ends clears its identifier, whoever tracks it now. *)
ReleasedById(tracked, slot) ==
    [id \in OperationIds |-> IF id = calls[slot].id THEN None ELSE tracked[id]]

(* A call that ends stops tracking its operation, if it still does. *)
Released(tracked, slot) ==
    [id \in OperationIds |-> IF tracked[id] = slot THEN None ELSE tracked[id]]

(* A call ends after a commit. *)
EndsCommitted(slot) ==
    /\ calls' = [InvalidatedCalls EXCEPT ![slot] = Idle]
    /\ pending' = Released(InvalidatedPending, slot)
    /\ TurnOver

(* A call ends without one. *)
EndsUnchanged(slot) ==
    /\ calls' = [calls EXCEPT ![slot] = Idle]
    /\ pending' = Released(pending, slot)
    /\ UNCHANGED vars

-----------------------------------------------------------------------------
(* Commands of the developer's own, and the host's observations: each runs *)
(* on the queue, between the turns of the calls.                           *)

(* One commit that first enables the workspace, unless it disables. *)
EnableAndSet(requested, workspace) ==
    LET reset == RequiresWorkspaceReset(workspace)
        enabled == IF reset THEN "observing" ELSE EnabledPresenceStatus
        status == IF requested = "observing" \/ (Paused /\ ~reset) THEN enabled
                                                                  ELSE requested
        enables == \/ presence.workspaceId # workspace
                   \/ presence.status # enabled
        events == (IF reset THEN 2 ELSE IF enables THEN 1 ELSE 0) +
                  (IF status # enabled THEN 1 ELSE 0)
    IN  /\ events > 0
        /\ Commit(events)
        /\ IF reset
           THEN /\ presence' = [CreatePresence(workspace) EXCEPT !.status = status]
                /\ session' = None
                /\ operations' = NoOperations
                /\ grants' = NoGrants
           ELSE /\ presence' = [presence EXCEPT !.workspaceId = workspace,
                                                !.status = status]
                /\ UNCHANGED <<session, operations, grants>>

Dispatch ==
    /\ \/ \E status \in {"observing", "quiet"}, workspace \in Workspaces :
              EnableAndSet(status, workspace)
       \/ \E status \in {"observing", "quiet", "paused", "off"} :
              SetPresence("human", status)
       \/ ObserveWorkspace("host")
       \/ SessionCommand("human", None)
       \/ AgreementCommand("human", None)
       \/ GrowthCommand("human", None)
       \/ OpenCommand
    /\ calls' = InvalidatedCalls
    /\ pending' = InvalidatedPending
    /\ UNCHANGED queue

-----------------------------------------------------------------------------
(* Calls.                                                                  *)

RequestGrant(slot, tool) ==
    /\ calls[slot].stage = "idle"
    /\ Visible(tool)
    /\ Owner \in RequiredOwner(tool)
    /\ RequiresUserAction(tool)
    /\ calls' = [calls EXCEPT ![slot] =
           [Idle EXCEPT !.stage = "grant", !.tool = tool, !.revision = revision]]
    /\ queue' = Append(queue, slot)
    /\ UNCHANGED <<vars, pending>>

InvokeTool(slot, tool, grantId) ==
    /\ calls[slot].stage = "idle"
    /\ Allowed(tool, grantId)
    /\ calls' = [calls EXCEPT ![slot] =
           [Idle EXCEPT !.stage = "command", !.tool = tool, !.revision = revision,
                        !.grantId = IF RequiresUserAction(tool) THEN grantId
                                                                ELSE None]]
    /\ queue' = Append(queue, slot)
    /\ UNCHANGED <<vars, pending>>

(* The caller gives up: a call that waits is refused at its turn, a        *)
(* running effect sees its controller aborted.                             *)
Cancel(slot) ==
    /\ calls[slot].stage \in {"grant", "command", "effect"}
    /\ calls[slot].tool # None
    /\ ~calls[slot].aborted
    /\ calls' = [calls EXCEPT ![slot].aborted = TRUE]
    /\ UNCHANGED <<vars, pending, queue>>

(* Fault: the command takes the revision of its turn, not of its check. *)
CommitsLater(slot) == ~calls[slot].aborted

(* What was decided on one revision is committed on that revision only. *)
Commits(slot) == ~calls[slot].aborted /\ revision = calls[slot].revision

CommitGrant(slot) ==
    /\ Turn(slot, "grant")
    /\ Commits(slot)
    /\ \E id \in GrantIds : GrantUserAction("human", id, calls[slot].tool)
    /\ EndsCommitted(slot)

(* The tools that the session core alone carries out. *)
LocalCommand(tool, grantId) ==
    \/ tool = "capture_entry" /\ \E entry \in Entry : CaptureEntry("ai", grantId, entry)
    \/ /\ tool = "confirm_learning"
       /\ \E ceiling \in Ceilings : ConfirmLearning("ai", grantId, ceiling)
    \/ tool = "select_mode" /\ \E mode \in Modes : SelectMode("ai", grantId, mode)
    \/ tool = "propose_work_unit" /\ \E unit \in Proposals : ProposeWorkUnit(unit)
    \/ tool = "close_session" /\ CloseSession("ai", grantId)
    \/ \E unitId \in WorkUnitIds :
           \/ tool = "agree_work_unit" /\ AgreeWorkUnit("ai", grantId, unitId)
           \/ tool = "record_attempt" /\ RecordAttempt("ai", grantId, unitId)
           \/ tool = "record_hypothesis" /\ RecordHypothesis("ai", grantId, unitId)
           \/ /\ tool = "reveal_solution"
              /\ AuthorizeSolutionReveal("ai", grantId, unitId, TRUE)
           \/ /\ tool = "request_hint"
              /\ \E level \in HintLevels : RequestHint("ai", grantId, unitId, level)

CommitCommand(slot) ==
    /\ Turn(slot, "command")
    /\ Commits(slot)
    /\ LocalCommand(calls[slot].tool, calls[slot].grantId)
    /\ EndsCommitted(slot)

(* If the caller gave up while the store committed, the effect is not      *)
(* dispatched and the operation's result is that it was cancelled.         *)
CommitOperation(slot) ==
    /\ Turn(slot, "command")
    /\ Commits(slot)
    /\ calls[slot].tool \in OperationTools
    /\ \E id \in OperationIds, tooLate \in BOOLEAN :
           /\ AuthorizeOperation(id, calls[slot].tool, calls[slot].grantId)
           /\ pending' = [InvalidatedPending EXCEPT ![id] = slot]
           /\ calls' = [InvalidatedCalls EXCEPT ![slot] =
                  [@ EXCEPT !.id = id, !.record = operations'[id],
                            !.aborted = tooLate,
                            !.stage = IF tooLate THEN "result" ELSE "effect",
                            !.result = IF tooLate THEN "cancelled" ELSE None]]
           /\ queue' = IF tooLate THEN Append(Tail(queue), slot) ELSE Tail(queue)

(* Fault: a rejected transition stays at the tail the next one waits for. *)
RefuseForGood(slot) ==
    /\ \E stage \in Stages : Turn(slot, stage)
    /\ EndsUnchanged(slot)
    /\ UNCHANGED queue

(* Stale, given up, refused by the core or by the store: the transition    *)
(* rejects, the call ends with it and the queue goes on.                   *)
Refuse(slot) ==
    /\ \E stage \in Stages : Turn(slot, stage)
    /\ EndsUnchanged(slot)
    /\ TurnOver

-----------------------------------------------------------------------------
(* Effects and their results.                                              *)

(* Whatever it did, and whether or not it was aborted, an effect answers. *)
EffectAnswers(slot, status) ==
    /\ calls[slot].stage = "effect"
    /\ calls' = [calls EXCEPT ![slot].stage = "result", ![slot].result = status]
    /\ queue' = Append(queue, slot)
    /\ UNCHANGED <<vars, pending>>

(* The port rejects: nothing is observed and the operation stays open. *)
EffectRejects(slot) ==
    /\ calls[slot].stage = "effect"
    /\ EndsUnchanged(slot)
    /\ UNCHANGED queue

(* Fault: the identifier and the epoch are taken to name the operation. *)
StillAuthorizedById(call) ==
    /\ session # None
    /\ IsOpen(call.id)
    /\ session.authorityEpoch = call.record.authorityEpoch

(* The operation the result is for is the one that was authorised. *)
StillAuthorized(call) ==
    /\ session # None
    /\ IsOpen(call.id)
    /\ operations[call.id].runtimeRevision = call.record.runtimeRevision
    /\ session.authorityEpoch = call.record.authorityEpoch

ObserveResult(slot) ==
    /\ Turn(slot, "result")
    /\ \/ /\ StillAuthorized(calls[slot])
          /\ ObserveOperationResult(calls[slot].id,
                                    calls[slot].record.authorityEpoch,
                                    calls[slot].result)
          /\ EndsCommitted(slot)
       \/ /\ ~StillAuthorized(calls[slot])
          /\ EndsUnchanged(slot)
          /\ TurnOver

-----------------------------------------------------------------------------
(* Recovery of reads whose effect was lost.  The candidates come from an   *)
(* earlier snapshot, so any identifier may be asked for.                   *)

AskRecovery(slot, id) ==
    /\ calls[slot].stage = "idle"
    /\ calls' = [calls EXCEPT ![slot] = [Idle EXCEPT !.stage = "admit", !.id = id]]
    /\ queue' = Append(queue, slot)
    /\ UNCHANGED <<vars, pending>>

(* Fault: what is under way is not looked for. *)
RecoverableTwice(id) ==
    /\ session # None
    /\ IsOpen(id)
    /\ BoundedRead(operations[id].toolName)
    /\ operations[id].authorityEpoch = session.authorityEpoch
    /\ Visible(operations[id].toolName)
    /\ HasAgreedWorkUnit
    /\ session.workUnit.id = operations[id].workUnitId

Recoverable(id) ==
    /\ session # None
    /\ IsOpen(id)
    /\ BoundedRead(operations[id].toolName)
    /\ operations[id].authorityEpoch = session.authorityEpoch
    /\ pending[id] = None
    /\ Visible(operations[id].toolName)
    /\ HasAgreedWorkUnit
    /\ session.workUnit.id = operations[id].workUnitId

AdmitRecovery(slot) ==
    /\ Turn(slot, "admit")
    /\ TurnOver
    /\ LET id == calls[slot].id
       IN  \/ /\ Recoverable(id)
              /\ pending' = [pending EXCEPT ![id] = slot]
              /\ calls' = [calls EXCEPT ![slot].stage = "effect",
                                        ![slot].record = operations[id]]
              /\ UNCHANGED vars
           \/ ~Recoverable(id) /\ EndsUnchanged(slot)

-----------------------------------------------------------------------------
(* One turn of the queue, for the call at its head. *)
Serve(slot) ==
    \/ CommitGrant(slot) \/ CommitCommand(slot) \/ CommitOperation(slot)
    \/ ObserveResult(slot) \/ AdmitRecovery(slot) \/ Refuse(slot)

EffectEnds(slot) ==
    EffectRejects(slot) \/ \E status \in TerminalStatuses : EffectAnswers(slot, status)

Caller(slot) ==
    \/ \E tool \in Tools : RequestGrant(slot, tool)
    \/ \E tool \in Tools, grantId \in GrantIds \cup {None} :
           InvokeTool(slot, tool, grantId)
    \/ \E id \in OperationIds : AskRecovery(slot, id)
    \/ Cancel(slot)

CoordinatorInit ==
    /\ Init
    /\ calls = [slot \in Slots |-> Idle]
    /\ pending = [id \in OperationIds |-> None]
    /\ queue = <<>>

CoordinatorNext ==
    Dispatch \/ \E slot \in Slots : Caller(slot) \/ Serve(slot) \/ EffectEnds(slot)

CoordinatorSpec == CoordinatorInit /\ [][CoordinatorNext]_coordinator

(* The queue serves its head, and effects end: reads are local, and a       *)
(* verification that runs is bounded by its timers.  The question before it *)
(* has no timeout: its effect ends because the developer answers.           *)
FairCoordinatorSpec ==
    /\ CoordinatorSpec
    /\ \A slot \in Slots : /\ WF_coordinator(Serve(slot))
                           /\ WF_coordinator(EffectEnds(slot))

-----------------------------------------------------------------------------
(* Properties.                                                             *)

CoordinatorTypeOK ==
    /\ TypeOK
    /\ calls \in [Slots -> Call]
    /\ pending \in [OperationIds -> Slots \cup {None}]
    /\ queue \in Seq(Slots)

(* An effect that nobody aborted runs for an open operation of the agreed  *)
(* unit, under authority that is still given, within what the unit's owner *)
(* and mode allow and paid for where the tool asks for it; and a pause,    *)
(* close or "off" still reaches it.                                        *)
EffectsAreEntitled ==
    \A slot \in Slots :
        calls[slot].stage = "effect" /\ ~calls[slot].aborted =>
            LET call == calls[slot]
                tool == call.record.toolName
            IN  /\ Visible(tool)
                /\ Owner \in RequiredOwner(tool)
                /\ RequiresUserAction(tool) => call.record.grantId # None
                /\ operations[call.id] = call.record
                /\ IsOpen(call.id)
                /\ call.record.authorityEpoch = session.authorityEpoch
                /\ pending[call.id] = slot

(* What is tracked as pending is an open operation of a session at work,   *)
(* by the call that runs it.                                               *)
PendingIsCurrent ==
    \A id \in OperationIds : pending[id] # None =>
        /\ Operational
        /\ IsOpen(id)
        /\ calls[pending[id]].stage \in {"effect", "result"}
        /\ calls[pending[id]].record = operations[id]

(* Neither a second call nor a recovery runs an operation that is running. *)
OneEffectPerOperation ==
    \A slot, other \in Slots :
        /\ slot # other
        /\ calls[slot].stage = "effect"
        /\ calls[other].stage = "effect"
        => calls[slot].record # calls[other].record

(* A tool call, or a request for the developer's grant, changes the        *)
(* snapshot only while the policy that let it in would still let it in: no *)
(* commit of another call, no presence change and no session that took the *)
(* place of another comes between the check and the command.               *)
CommandsStayAllowed ==
    [][\A slot \in Slots :
          /\ Turn(slot, "grant") \/ Turn(slot, "command")
          /\ queue' # queue
          /\ vars' # vars
          => LET call == calls[slot]
             IN  /\ Visible(call.tool)
                 /\ Owner \in RequiredOwner(call.tool)
                 /\ call.stage = "command" => Allowed(call.tool, call.grantId)]_coordinator

(* An operation settles by the answer of its own effect or, cancelled, by  *)
(* a pause: an answer that comes late never settles another operation that *)
(* was given the same identifier.                                          *)
ResultsSettleTheirOwn ==
    [][\A id \in OperationIds :
          IsOpen(id) /\ operations'[id] # None /\ ~IsOpen(id)' =>
              \/ session'.status = "paused" /\ operations'[id].status = "cancelled"
              \/ \E slot \in Slots :
                     /\ calls[slot].stage = "result"
                     /\ calls[slot].record = operations[id]
                     /\ calls[slot].result = operations'[id].status]_coordinator

(* Every call ends, whatever is refused, revoked or rejected meanwhile: a  *)
(* transition that fails does not stop the queue.                          *)
EveryCallEnds ==
    \A slot \in Slots : calls[slot].stage # "idle" ~> calls[slot].stage = "idle"
=============================================================================
