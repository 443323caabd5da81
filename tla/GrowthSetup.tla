---------------------------- MODULE GrowthSetup -----------------------------
(***************************************************************************)
(* Setting up growth work from the chat (/setup) and saving a checkpoint   *)
(* of it (/checkpoint), over the session kernel.                           *)
(*                                                                         *)
(* A set-up collects what the developer wants, captures an entry and asks  *)
(* for three confirmations, committing after each; every commit and every  *)
(* answer must find the runtime as the set-up left it.  A step is what     *)
(* runs between two awaits: other set-ups, the developer, the host and a   *)
(* model that uses the native tools come in between.  What a developer     *)
(* types is an objective; the file, the check and the plan go with it.     *)
(* The kernel does not look at objectives, so they are kept here.          *)
(***************************************************************************)
EXTENDS PairKernel

CONSTANTS
    Requests,       \* the requests of a conversation
    Objectives,     \* what a developer may type
    Ceiling,        \* the hint ceiling every set-up proposes
    MaxElsewhere    \* bound of the model: what is done outside the requests

ASSUME SetupAssumption ==
    /\ MaxRevision > 0 /\ MaxElsewhere \in Nat
    /\ Ceiling \in Ceilings
    /\ WorkUnitIds = 0..MaxRevision /\ GrantIds = 1..MaxRevision
    /\ {"confirm_learning", "select_mode", "agree_work_unit"} \subseteq GrantTools
    /\ None \notin Objectives /\ None # "completed"

VARIABLES
    goal,           \* the objective of the session's learning agreement, or None
    objective,      \* the objective of the session's work unit, or None
    available,      \* the workspace is trusted and still the presence's own
    requests,       \* where each request is
    issued,         \* grants given out so far
    elsewhere,      \* what was done outside the requests so far
    confirmed       \* history: what each request had confirmed, and when

texts == <<goal, objective>>
all == <<vars, texts, available, requests, issued, elsewhere, confirmed>>

Stages == {"learning", "mode", "work-unit"}
Outcomes == {"completed", "cancelled", "unavailable", "stale", "failed"}

Idle ==
    [ step |-> "idle", stage |-> None, input |-> None, seen |-> None, id |-> None,
      unitId |-> None, resumes |-> FALSE, aborted |-> FALSE, outcome |-> None,
      record |-> None ]

-----------------------------------------------------------------------------
(* What a request compares.                                                *)

Enabled(status) == status \notin {"off", "paused"}

(* The snapshot, as far as a later one is compared with it.                *)
Snapshot ==
    [ revision |-> revision, workspaceId |-> presence.workspaceId,
      sessionId |-> IF session = None THEN None ELSE session.sessionId,
      startedAt |-> IF session = None THEN None ELSE session.startedAtRevision,
      epoch |-> IF session = None THEN None ELSE session.authorityEpoch ]

(* Fault: the same session will do, whatever happened in it.               *)
SeesSameSession(r) ==
    /\ ~requests[r].aborted /\ available
    /\ Enabled(presence.status)
    /\ Snapshot = [requests[r].seen EXCEPT !.revision = revision]

(* SetupTransaction.current: nothing has happened since the snapshot that  *)
(* the request goes by.                                                    *)
Sees(r) ==
    /\ ~requests[r].aborted /\ available
    /\ Enabled(presence.status)
    /\ Snapshot = requests[r].seen

Set(r, record) == requests' = [requests EXCEPT ![r] = record]

Ends(r, outcome) ==
    Set(r, [Idle EXCEPT !.step = "report", !.outcome = outcome,
                        !.aborted = requests[r].aborted])

Alone == UNCHANGED <<vars, texts, available, issued, elsewhere, confirmed>>

Others == UNCHANGED <<available, elsewhere, confirmed>>

(* proposedInput: a proposal that a set-up could have made.                *)
Resumable ==
    /\ session.mode = "growth"
    /\ session.workUnit.mode = "growth" /\ session.workUnit.owner = "human"
    /\ session.workUnit.learningValue = "high"
    /\ session.maximumHintLevel = Ceiling
    /\ goal = objective

-----------------------------------------------------------------------------
(* The request.                                                            *)

CanSetUp ==
    /\ available /\ Enabled(presence.status)
    /\ Briefing
    /\ session.mode \in {None, "growth"}

(* A proposal that is waiting is confirmed again instead of collected.     *)
Begins(r) ==
    IF HasNoWorkUnit
    THEN Set(r, [Idle EXCEPT !.step = "collect", !.seen = Snapshot])
    ELSE IF Resumable
    THEN Set(r, [Idle EXCEPT !.step = "dialog", !.stage = "learning", !.seen = Snapshot,
                             !.input = objective, !.resumes = TRUE,
                             !.unitId = session.workUnit.id])
    ELSE Set(r, [Idle EXCEPT !.step = "report", !.outcome = "unavailable"])

AskSetup(r) ==
    /\ requests[r].step = "idle"
    /\ IF CanSetUp THEN Begins(r)
                   ELSE Set(r, [Idle EXCEPT !.step = "report", !.outcome = "unavailable"])
    /\ Alone

(* The four inputs; the ones the set-up cannot use end it.                 *)
Collect(r) ==
    /\ requests[r].step = "collect"
    /\ IF ~Sees(r) THEN Ends(r, "stale")
       ELSE \/ \E input \in Objectives :
                   Set(r, [requests[r] EXCEPT !.step = "prepare", !.input = input])
            \/ \E outcome \in {"cancelled", "unavailable"} : Ends(r, outcome)
    /\ Alone

(* prepareGrowthEntry: the entry is captured, which takes its time, and    *)
(* committed at the revision the set-up has seen.                          *)
Prepare(r) ==
    /\ requests[r].step = "prepare" /\ Sees(r)
    /\ \E entry \in Entry : CaptureEntry("human", None, entry)
    /\ Set(r, [requests[r] EXCEPT !.step = "dialog", !.stage = "learning",
                                  !.seen = Snapshot'])
    /\ UNCHANGED <<texts, issued>> /\ Others

(* What comes after a confirmation: a proposal that is resumed was         *)
(* committed before, only its agreement is left.                           *)
AfterConfirming(request) ==
    IF ~request.resumes
    THEN [request EXCEPT !.step = IF request.stage = "work-unit" THEN "propose" ELSE "grant"]
    ELSE CASE request.stage = "learning" -> [request EXCEPT !.stage = "mode"]
           [] request.stage = "mode" -> [request EXCEPT !.stage = "work-unit"]
           [] request.stage = "work-unit" -> [request EXCEPT !.step = "grant"]

Confirmation(r) ==
    [ request |-> r, stage |-> requests[r].stage, objective |-> requests[r].input,
      startedAt |-> requests[r].seen.startedAt ]

(* The dialog shows what the set-up has seen and is answered later.        *)
Confirm(r, accepts) ==
    /\ requests[r].step = "dialog"
    /\ confirmed' = IF accepts THEN confirmed \cup {Confirmation(r)} ELSE confirmed
    /\ IF ~Sees(r) THEN Ends(r, "stale")
       ELSE IF accepts THEN Set(r, AfterConfirming(requests[r]))
       ELSE Ends(r, "cancelled")
    /\ UNCHANGED <<vars, texts, available, issued, elsewhere>>

Tool(request) ==
    CASE request.stage = "learning" -> "confirm_learning"
      [] request.stage = "mode" -> "select_mode"
      [] request.stage = "work-unit" -> "agree_work_unit"

(* The grant must be the one commit since, and still be there to spend.    *)
TakeGrant(r) ==
    /\ requests[r].step = "grant" /\ Sees(r)
    /\ GrantUserAction("human", issued + 1, Tool(requests[r]))
    /\ issued' = issued + 1
    /\ Set(r, [requests[r] EXCEPT !.step = "apply", !.id = issued + 1, !.seen = Snapshot'])
    /\ UNCHANGED texts /\ Others

(* The set-up's unit is named after the revision it is proposed at.        *)
Propose(r) ==
    /\ requests[r].step = "propose" /\ Sees(r)
    /\ ProposeWorkUnit([ id |-> revision, mode |-> "growth", owner |-> "human",
                         learningValue |-> "high", checked |-> TRUE,
                         status |-> "proposed" ])
    /\ objective' = requests[r].input
    /\ Set(r, [requests[r] EXCEPT !.step = "grant", !.unitId = revision, !.seen = Snapshot'])
    /\ UNCHANGED <<goal, issued>> /\ Others

Apply(r) ==
    /\ requests[r].step = "apply" /\ Sees(r)
    /\ LET id == requests[r].id
           NextStage(stage) == Set(r, [requests[r] EXCEPT !.step = "dialog", !.stage = stage,
                                                          !.id = None, !.seen = Snapshot'])
       IN  \/ /\ requests[r].stage = "learning"
              /\ ConfirmLearning("ai", id, Ceiling)
              /\ goal' = requests[r].input
              /\ NextStage("mode")
           \/ /\ requests[r].stage = "mode"
              /\ SelectMode("ai", id, "growth")
              /\ NextStage("work-unit")
              /\ UNCHANGED goal
           \/ /\ requests[r].stage = "work-unit"
              /\ AgreeWorkUnit("ai", id, requests[r].unitId)
              /\ Set(r, [requests[r] EXCEPT !.step = "end", !.id = None, !.seen = Snapshot'])
              /\ UNCHANGED goal
    /\ UNCHANGED <<objective, issued>> /\ Others

(* The last look, and any step that does not find what it expects or is    *)
(* refused by the kernel.                                                  *)
End(r) ==
    /\ requests[r].step = "end"
    /\ IF Sees(r)
       THEN Set(r, [requests[r] EXCEPT !.step = "report", !.outcome = "completed"])
       ELSE Ends(r, "stale")
    /\ Alone

Fail(r) ==
    /\ requests[r].step \in {"prepare", "grant", "propose", "apply"}
    /\ \E outcome \in {"stale", "failed"} : Ends(r, outcome)
    /\ Alone

(* Fault: what the set-up came to is said whatever happened since.         *)
SaysAnyway(r) == requests[r].outcome

(* The tools are told of the new state, which takes an await.              *)
Says(r) ==
    IF requests[r].outcome = "completed" /\ ~Sees(r) THEN "stale" ELSE requests[r].outcome

Report(r) ==
    /\ requests[r].step = "report"
    /\ Set(r, [Idle EXCEPT !.step = "said", !.aborted = requests[r].aborted,
                           !.outcome = IF requests[r].aborted THEN None ELSE Says(r)])
    /\ Alone

(* A dialog is answered all the same; between the commits the request      *)
(* looks at its signal before it goes on, which is Fail.                   *)
Cancel(r) ==
    /\ requests[r].step \in {"collect", "dialog", "end", "report", "checkpoint dialog"}
    /\ ~requests[r].aborted
    /\ Set(r, [requests[r] EXCEPT !.aborted = TRUE])
    /\ Alone

-----------------------------------------------------------------------------
(* Checkpoints.                                                            *)

HasCheckpoint ==
    /\ Enabled(presence.status) /\ Operational
    /\ session.mode = "growth" /\ session.workUnit # None
    /\ session.workUnit.mode = "growth" /\ session.workUnit.owner = "human"
    /\ HasGrowthAgreement

(* createNativeCheckpoint; that an attempt or hypothesis was waived rather *)
(* than recorded is left out, as in the kernel's assistance.               *)
Checkpoint ==
    [ unit |-> session.workUnit.status, ceiling |-> session.maximumHintLevel,
      help |-> CurrentAssistance ]

AskCheckpoint(r) ==
    /\ requests[r].step = "idle" /\ HasCheckpoint /\ available
    /\ Set(r, [Idle EXCEPT !.step = "checkpoint dialog", !.seen = Snapshot,
                           !.record = Checkpoint])
    /\ Alone

(* Saved with the chat's answer, or not at all.                            *)
SaveCheckpoint(r) ==
    /\ requests[r].step = "checkpoint dialog" /\ Sees(r)
    /\ Set(r, [requests[r] EXCEPT !.step = "said"])
    /\ Alone

DropCheckpoint(r) ==
    /\ requests[r].step = "checkpoint dialog"
    /\ Set(r, [Idle EXCEPT !.step = "said"])
    /\ Alone

-----------------------------------------------------------------------------
(* The developer's commands, the host, and a model with the native tools.  *)

Elsewhere ==
    /\ elsewhere < MaxElsewhere /\ elsewhere' = elsewhere + 1
    /\ \/ /\ \/ ObserveWorkspace("host")
             \/ \E status \in {"observing", "paused", "off"} : SetPresence("human", status)
             \/ \E id \in SessionIds : StartSession(id)
             \/ \E entry \in Entry : CaptureEntry("human", None, entry)
             \/ CloseSession("human", None)
             \/ \E unitId \in WorkUnitIds : RecordAttempt("human", None, unitId)
          /\ goal' = IF session' = None THEN None ELSE goal
          /\ objective' = IF session' = None THEN None ELSE objective
          /\ UNCHANGED available
       \/ /\ \E unit \in Proposals : ProposeWorkUnit(unit)
          /\ objective' \in Objectives
          /\ UNCHANGED <<goal, available>>
       \/ available' = FALSE /\ available /\ UNCHANGED <<vars, texts>>
    /\ UNCHANGED <<requests, issued, confirmed>>

SetupInit ==
    /\ revision = 1
    /\ \E id \in SessionIds, workspace \in Workspaces :
           /\ session = CreateSession(id, 1)
           /\ presence = [CreatePresence(workspace) EXCEPT
                             !.status = "engaged", !.activeSessionId = id]
    /\ operations = NoOperations /\ grants = NoGrants
    /\ goal = None /\ objective = None /\ available = TRUE
    /\ requests = [r \in Requests |-> Idle]
    /\ issued = 0 /\ elsewhere = 0 /\ confirmed = {}

SetupNext ==
    \/ Elsewhere
    \/ \E r \in Requests :
           \/ AskSetup(r) \/ Collect(r) \/ Prepare(r) \/ TakeGrant(r) \/ Propose(r)
           \/ Apply(r) \/ End(r) \/ Fail(r) \/ Report(r) \/ Cancel(r)
           \/ \E accepts \in BOOLEAN : Confirm(r, accepts)
           \/ AskCheckpoint(r) \/ SaveCheckpoint(r) \/ DropCheckpoint(r)

SetupSpec == SetupInit /\ [][SetupNext]_all

-----------------------------------------------------------------------------
(* Work is agreed only after one and the same request had all three of its *)
(* confirmations given in this life of the session, each for the objective *)
(* that the work unit and the learning agreement carry: no answer that was *)
(* meant for another proposal, request or session counts.                  *)
AgreedWasConfirmed ==
    session # None /\ HasAgreedWorkUnit =>
        /\ goal = objective
        /\ \E r \in Requests : \A stage \in Stages :
               [ request |-> r, stage |-> stage, objective |-> objective,
                 startedAt |-> session.startedAtRevision ] \in confirmed

(* A set-up replaces no proposal: neither one that waited when it began    *)
(* nor one that a model made while a dialog was open.                      *)
SetupReplacesNothing ==
    [][\A r \in Requests : Propose(r) => session.workUnit = None]_all

(* "Completed" is said only while the session works on the agreed unit     *)
(* with the objective that was typed in, and presence is on.               *)
CompletedIsTrue ==
    [][\A r \in Requests :
          Report(r) /\ requests'[r].outcome = "completed" =>
              /\ Operational /\ HasAgreedWorkUnit /\ available
              /\ Enabled(presence.status)
              /\ objective = requests[r].input]_all

(* A checkpoint that is saved says what the session's record says then,    *)
(* however long its dialog was open.                                       *)
CheckpointIsCurrent ==
    [][\A r \in Requests : SaveCheckpoint(r) =>
          HasCheckpoint /\ requests[r].record = Checkpoint]_all
=============================================================================
