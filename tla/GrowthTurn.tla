----------------------------- MODULE GrowthTurn -----------------------------
(***************************************************************************)
(* The chat participant's turns over the session kernel: guidance, hints,  *)
(* reveals, transfers, checks and recorded attempts, each with the dialogs *)
(* it waits for, the developer's actions it sends, the model it asks and   *)
(* what it publishes.                                                      *)
(*                                                                         *)
(* A step is what runs between two awaits, so other turns, edits and the   *)
(* developer's commands come between any two steps.  The coordinator's     *)
(* queue (PairCoordinator) is reduced to the commit of a command at the    *)
(* revision and epoch it was pinned to, or its refusal.  Texts, prompts    *)
(* and token counts are left out: a count is within its cap or the turn    *)
(* fails.  In an operational growth session the model may call only the    *)
(* bounded reads; every other tool ends the turn.                          *)
(***************************************************************************)
EXTENDS PairKernel

CONSTANTS
    Turns,          \* the requests of a conversation
    Models,
    Responses,      \* what a model may answer
    MaxModelCalls,  \* GROWTH_TURN_CAPS.maxModelCalls
    MaxElsewhere    \* bound of the model: what is done outside the turns

ResponseKinds == {"question", "hint", "pseudocode", "analogy", "solution-preview"}

ASSUME TurnAssumption ==
    /\ MaxModelCalls \in Nat /\ MaxElsewhere \in Nat
    /\ MaxRevision >= 2
    /\ GrantIds \subseteq Nat /\ OperationIds = GrantIds
    /\ {"reveal_solution", "request_hint", "record_attempt", "run_verification"}
           \subseteq GrantTools
    /\ {"read_scope", "run_verification"} \subseteq OperationTools
    /\ Responses \subseteq [level : 0..5, kind : ResponseKinds, solution : BOOLEAN]

VARIABLES
    turns,          \* where each request is
    elsewhere,      \* what was done outside the turns so far
    issued,         \* identifiers given out so far
    registry,       \* ModelConsentRegistry: the session it is for, the models granted
    lastCheck,      \* the last product check, or None
    transfer,       \* the transfer task that was started, or None
    agreed,         \* history: what sharing the developer agreed to, and when
    confirmed       \* history: the sessions in which a reveal was confirmed

caches == <<registry, lastCheck, transfer>>
history == <<agreed, confirmed>>
participant == <<turns, issued, caches, history>>
all == <<vars, participant, elsewhere>>

Routes == {"chat", "hint", "reveal", "transfer", "check", "attempt"}
Dialogs == {"reveal dialog", "consent dialog"}
Steps == Dialogs \cup
    {"idle", "grant", "invoke", "effect", "report", "prepare", "call", "count", "sent",
     "read", "publish", "transfer", "ended"}

Idle ==
    [ route |-> None, model |-> None, step |-> "idle", aborted |-> FALSE,
      intent |-> None, revision |-> 0, epoch |-> 0, tool |-> None, level |-> 0,
      id |-> None, calls |-> 0, told |-> None, response |-> None ]

Ended == [Idle EXCEPT !.step = "ended"]

-----------------------------------------------------------------------------
(* Identities: the life of a session, and what a turn was asked about.     *)

(* Fault: a session is told by the identifiers it shows.                   *)
SessionKeyById ==
    IF presence.status = "off" \/ session = None THEN None
    ELSE <<presence.workspaceId, session.sessionId>>

SessionKey ==
    IF presence.status = "off" \/ session = None THEN None
    ELSE <<presence.workspaceId, session.sessionId, session.startedAtRevision>>

CurrentIntent ==
    [ workspaceId |-> presence.workspaceId, sessionId |-> session.sessionId,
      startedAtRevision |-> session.startedAtRevision,
      authorityEpoch |-> session.authorityEpoch, mode |-> session.mode,
      workUnit |-> session.workUnit, agreement |-> session.maximumHintLevel ]

(* Fault: another life of the session will do.                             *)
IsIntentCurrentInAnyLife(intent) ==
    /\ session # None /\ presence.status # "off"
    /\ Operational /\ HasAgreedWorkUnit
    /\ CurrentIntent = [intent EXCEPT !.startedAtRevision = session.startedAtRevision]

(* isGrowthTurnIntentCurrent; the unit stands for its objective and        *)
(* capability, the agreement for the independent check.                    *)
IsIntentCurrent(intent) ==
    /\ session # None /\ presence.status # "off"
    /\ Operational /\ HasAgreedWorkUnit
    /\ CurrentIntent = intent

CanCapture ==
    /\ presence.status # "off"
    /\ Operational /\ HasAgreedWorkUnit
    /\ session.mode = "growth" /\ session.workUnit.mode = "growth"
    /\ HasGrowthAgreement
    /\ session.workUnit.owner = "human"

HasUnit == session # None /\ ~HasNoWorkUnit

Identity ==
    [ workspaceId |-> presence.workspaceId, sessionId |-> session.sessionId,
      startedAtRevision |-> session.startedAtRevision,
      workUnitId |-> session.workUnit.id ]

(* Fault: a record is of the unit whose name it bears.                     *)
IsOfUnitByName(identity) ==
    /\ HasUnit /\ presence.status # "off"
    /\ session.workUnit.id = identity.workUnitId

(* isGrowthWorkUnitCurrent.                                                *)
IsOfUnit(identity) ==
    /\ HasUnit /\ presence.status # "off"
    /\ Identity = identity

Hint(level) == IF level = 0 THEN 1 ELSE level

Least(a, b) == IF a <= b THEN a ELSE b

(* maximumHintLevelForSnapshot, in growth mode.                            *)
AuthorizedLevel == Least(Hint(CurrentAssistance.hint), session.maximumHintLevel)

-----------------------------------------------------------------------------
To(t, step) == turns' = [turns EXCEPT ![t].step = step]

Ends(t) == turns' = [turns EXCEPT ![t] = Ended]

Pinned(t) ==
    /\ ~turns[t].aborted
    /\ session # None
    /\ turns[t].revision = revision /\ turns[t].epoch = session.authorityEpoch

IsCurrent(t) == ~turns[t].aborted /\ IsIntentCurrent(turns[t].intent)

Granted(model) ==
    /\ SessionKey # None /\ registry.key = SessionKey
    /\ model \in registry.models

(* What a route does once it may share: an action of the developer's, or   *)
(* the model.                                                              *)
AfterSharing(route) == IF route \in {"hint", "reveal"} THEN "grant" ELSE "prepare"

Gathers(turn) ==
    IF Granted(turn.model) THEN [turn EXCEPT !.step = AfterSharing(turn.route)]
                           ELSE [turn EXCEPT !.step = "consent dialog"]

Request(route, model) == [Idle EXCEPT !.route = route, !.model = model]

AskModel(t, route, model) ==
    /\ turns[t].step = "idle" /\ CanCapture
    /\ LET turn == [Request(route, model) EXCEPT !.intent = CurrentIntent]
       IN  turns' = [turns EXCEPT ![t] =
               IF route = "reveal" THEN [turn EXCEPT !.step = "reveal dialog"]
                                   ELSE Gathers(turn)]
    /\ UNCHANGED <<vars, issued, caches, history>>

AskAction(t, route) ==
    /\ turns[t].step = "idle"
    /\ turns' = [turns EXCEPT ![t] = [Request(route, None) EXCEPT !.step = "grant"]]
    /\ UNCHANGED <<vars, issued, caches, history>>

(* The chat is cancelled.  A dialog and an effect are answered all the     *)
(* same, and the turn looks at its signal then; anywhere else the turn     *)
(* looks at it before it goes on, which is Fail.                           *)
Cancel(t) ==
    /\ turns[t].step \in Dialogs \cup {"effect", "report", "transfer"}
    /\ ~turns[t].aborted
    /\ turns' = [turns EXCEPT ![t].aborted = TRUE]
    /\ UNCHANGED <<vars, issued, caches, history>>

-----------------------------------------------------------------------------
(* Dialogs.                                                                *)

RevealAnswered(t, accepts) ==
    /\ turns[t].step = "reveal dialog"
    /\ confirmed' = IF accepts THEN confirmed \cup {turns[t].intent} ELSE confirmed
    /\ IF accepts /\ IsCurrent(t)
       THEN turns' = [turns EXCEPT ![t] = Gathers(turns[t])]
       ELSE Ends(t)
    /\ UNCHANGED <<vars, issued, caches, agreed>>

Sharing(t) == [ model |-> turns[t].model, intent |-> turns[t].intent ]

(* A grant given in another session empties the registry first.            *)
ConsentAnswered(t, accepts) ==
    /\ turns[t].step = "consent dialog"
    /\ agreed' = IF accepts THEN agreed \cup {Sharing(t)} ELSE agreed
    /\ IF accepts /\ IsCurrent(t)
       THEN /\ To(t, AfterSharing(turns[t].route))
            /\ registry' = [ key |-> SessionKey,
                             models |-> {turns[t].model} \cup
                                 (IF registry.key = SessionKey THEN registry.models ELSE {}) ]
       ELSE Ends(t) /\ UNCHANGED registry
    /\ UNCHANGED <<vars, issued, lastCheck, transfer, confirmed>>

-----------------------------------------------------------------------------
(* Actions of the developer's that a turn sends: a grant, then the command *)
(* that spends it, each only on the state the turn has seen.               *)

NextId == issued + 1

(* A route reads the snapshot and asks for a grant on that very state, or  *)
(* fails; a reveal goes on with a hint on the state its reveal committed.  *)
TakeGrant(t, tool, level) ==
    /\ turns[t].step = "grant" /\ ~turns[t].aborted /\ NextId \in GrantIds
    /\ GrantUserAction("human", NextId, tool)
    /\ issued' = NextId
    /\ turns' = [turns EXCEPT
           ![t].step = "invoke", ![t].id = NextId, ![t].tool = tool, ![t].level = level]
    /\ UNCHANGED <<caches, history>>

(* handleReveal, escalateHint (an explicit level is any), handleCheck and  *)
(* handleRecord.                                                           *)
GrantFor(t) ==
    \/ /\ turns[t].route = "reveal" /\ IsCurrent(t) /\ turns[t].tool = None
       /\ TakeGrant(t, "reveal_solution", 0)
    \/ /\ turns[t].route = "reveal" /\ turns[t].tool = "reveal_solution" /\ Pinned(t)
       /\ TakeGrant(t, "request_hint", 5)
    \/ /\ turns[t].route = "hint" /\ IsCurrent(t)
       /\ \E level \in HintLevels : TakeGrant(t, "request_hint", level)
    \/ turns[t].route = "check" /\ HasUnit /\ TakeGrant(t, "run_verification", 0)
    \/ turns[t].route = "attempt" /\ HasUnit /\ TakeGrant(t, "record_attempt", 0)

(* The tool that a turn invokes with its grant; once its hint is recorded, *)
(* the turn goes on as any chat.                                           *)
Invoke(t) ==
    /\ turns[t].step = "invoke" /\ ~turns[t].aborted /\ HasUnit
    /\ LET id == turns[t].id
           unitId == session.workUnit.id
       IN  \/ /\ turns[t].tool = "reveal_solution"
              /\ AuthorizeSolutionReveal("ai", id, unitId, TRUE)
              /\ turns' = [turns EXCEPT ![t].step = "grant", ![t].id = None,
                                        ![t].revision = revision',
                                        ![t].epoch = session.authorityEpoch]
              /\ UNCHANGED issued
           \/ /\ turns[t].tool = "request_hint"
              /\ RequestHint("ai", id, unitId, turns[t].level)
              /\ turns' = [turns EXCEPT ![t].step = "prepare", ![t].route = "chat",
                                        ![t].id = None, ![t].tool = None, ![t].level = 0]
              /\ UNCHANGED issued
           \/ /\ turns[t].tool = "record_attempt"
              /\ RecordAttempt("ai", id, unitId)
              /\ Ends(t)
              /\ UNCHANGED issued
           \/ /\ turns[t].tool = "run_verification" /\ NextId \in OperationIds
              /\ AuthorizeOperation(NextId, "run_verification", id)
              /\ issued' = NextId
              /\ turns' = [turns EXCEPT ![t].step = "effect", ![t].id = NextId,
                                        ![t].intent = Identity,
                                        ![t].epoch = session.authorityEpoch]
    /\ UNCHANGED <<caches, history>>

-----------------------------------------------------------------------------
(* The model: requestGuardedGrowthTurn and the adapter's loop.             *)

Told == [ level |-> AuthorizedLevel, reveal |-> CurrentAssistance.reveal ]

(* The turn is compiled from a snapshot of its own, which must be the one  *)
(* the intent was compared with: the two are one.                          *)
Prepare(t) ==
    /\ turns[t].step = "prepare" /\ IsIntentCurrent(turns[t].intent)
    /\ turns' = [turns EXCEPT ![t].step = "call", ![t].told = Told,
                              ![t].revision = revision, ![t].epoch = session.authorityEpoch]
    /\ UNCHANGED <<vars, issued, caches, history>>

(* captureRuntime, then the provider counts the tokens of the request.     *)
CallModel(t) ==
    /\ turns[t].step = "call" /\ turns[t].calls < MaxModelCalls /\ Pinned(t)
    /\ turns' = [turns EXCEPT ![t].step = "count", ![t].calls = @ + 1]
    /\ UNCHANGED <<vars, issued, caches, history>>

(* Counting done, only the turn's own signal is looked at.                 *)
Send(t) ==
    /\ turns[t].step = "count" /\ ~turns[t].aborted
    /\ To(t, "sent")
    /\ UNCHANGED <<vars, issued, caches, history>>

Answers(t) ==
    /\ turns[t].step = "sent" /\ ~turns[t].aborted
    /\ \/ \E response \in Responses :
              turns' = [turns EXCEPT ![t].step = "publish", ![t].response = response]
       \/ To(t, "read")
    /\ UNCHANGED <<vars, issued, caches, history>>

(* A bounded read, pinned to the turn's boundary.  One stands for the      *)
(* several an answer may ask for in turn; pair_get_state, which commits    *)
(* nothing, is left out.                                                   *)
Read(t) ==
    /\ turns[t].step = "read" /\ Pinned(t) /\ NextId \in OperationIds
    /\ AuthorizeOperation(NextId, "read_scope", None)
    /\ issued' = NextId
    /\ turns' = [turns EXCEPT ![t].step = "effect", ![t].id = NextId]
    /\ UNCHANGED <<caches, history>>

(* The effect's result is committed, and moves the boundary of its turn;   *)
(* a result that is not taken any more ends the turn as stale.             *)
EffectEnds(t, status) ==
    /\ turns[t].step = "effect"
    /\ \/ /\ ObserveOperationResult(turns[t].id, turns[t].epoch, status)
          /\ turns' = [turns EXCEPT
                 ![t].step = IF turns[t].route = "check" THEN "report" ELSE "call",
                 ![t].revision = revision',
                 ![t].id = IF turns[t].route = "check" THEN @ ELSE None]
       \/ /\ ~( /\ session # None /\ IsOpen(turns[t].id)
                /\ session.authorityEpoch = turns[t].epoch )
          /\ Ends(t) /\ UNCHANGED vars
    /\ UNCHANGED <<issued, caches, history>>

-----------------------------------------------------------------------------
(* What is shown: checks and loads nothing between the check and the       *)
(* display.                                                                *)

ReportCheck(t) ==
    /\ turns[t].step = "report"
    /\ lastCheck' = IF Pinned(t) /\ IsOfUnit(turns[t].intent)
                    THEN [ of |-> turns[t].intent, id |-> turns[t].id,
                           status |-> operations[turns[t].id].status ]
                    ELSE lastCheck
    /\ Ends(t)
    /\ UNCHANGED <<vars, issued, registry, transfer, history>>

MinimumLevel(kind) ==
    CASE kind = "question" -> 0
      [] kind = "hint" -> 2
      [] kind \in {"pseudocode", "analogy"} -> 4
      [] kind = "solution-preview" -> 5

(* guardGrowthResponse; `solution` is what the patterns for an             *)
(* implementation of the target find.                                      *)
Accepts(response) ==
    /\ response.level <= AuthorizedLevel
    /\ MinimumLevel(response.kind) <= response.level
    /\ response.level = 5 => CurrentAssistance.reveal
    /\ response.level < 5 => ~response.solution

(* Fault: the epoch alone is looked at, as if only a pause mattered.       *)
FinalizesInEpoch(t) ==
    /\ IsCurrent(t)
    /\ turns[t].epoch = session.authorityEpoch
    /\ Accepts(turns[t].response)

(* finishGuardedGrowthTurn, on the snapshot of the moment.                 *)
Finalizes(t) ==
    /\ IsCurrent(t)
    /\ Pinned(t)
    /\ Accepts(turns[t].response)

Publish(t) ==
    /\ turns[t].step = "publish" /\ Finalizes(t)
    /\ IF turns[t].route = "transfer" THEN To(t, "transfer") ELSE Ends(t)
    /\ UNCHANGED <<vars, issued, caches, history>>

(* The task was shown; it counts as started if the moment is still its own.*)
StartTransfer(t) ==
    /\ turns[t].step = "transfer"
    /\ transfer' = IF IsCurrent(t) /\ Pinned(t) THEN Identity ELSE transfer
    /\ Ends(t)
    /\ UNCHANGED <<vars, issued, registry, lastCheck, history>>

(* Stale, cancelled, over a cap, refused, withheld, not distinct, not an   *)
(* answer, or failed on the way: the turn says so and ends.                *)
Fail(t) ==
    /\ turns[t].step \notin Dialogs \cup {"idle", "effect", "report", "transfer", "ended"}
    /\ Ends(t)
    /\ UNCHANGED <<vars, issued, caches, history>>

Continue(t) ==
    \/ GrantFor(t) \/ Invoke(t) \/ Prepare(t) \/ CallModel(t)
    \/ Send(t) \/ Answers(t) \/ Read(t) \/ ReportCheck(t) \/ Publish(t)
    \/ StartTransfer(t) \/ Fail(t)
    \/ \E status \in {"confirmed", "failed"} : EffectEnds(t, status)

AnswerDialog(t) ==
    \E accepts \in BOOLEAN : RevealAnswered(t, accepts) \/ ConsentAnswered(t, accepts)

-----------------------------------------------------------------------------
(* What the developer and the host do outside these turns.                 *)

(* A session as its set-up leaves it.  A set-up (GrowthSetup) commits more *)
(* often, in a briefing in which no turn is current; turns compare         *)
(* revisions only for being the same.                                      *)
SetUp(startedAt, id, ceiling, unit) ==
    [ CreateSession(id, startedAt) EXCEPT
        !.status = "ready", !.mode = "growth", !.maximumHintLevel = ceiling,
        !.entry = [dirty |-> {}, protected |-> {}],
        !.workUnit = [unit EXCEPT !.status = "agreed"],
        !.assistance = NoAssistance ]

(* Presence goes off and another session is set up.                        *)
StartOver ==
    \E id \in SessionIds, ceiling \in Ceilings, unit \in Proposals :
        /\ Commit(3)
        /\ session' = SetUp(revision + 2, id, ceiling, unit)
        /\ presence' = [CreatePresence(presence.workspaceId) EXCEPT
                            !.status = "engaged", !.activeSessionId = id]
        /\ operations' = NoOperations /\ grants' = NoGrants

Elsewhere ==
    /\ \/ ObserveWorkspace("host")
       \/ \E status \in {"paused", "off"} : SetPresence("human", status)
       \/ CloseSession("human", None)
       \/ StartOver
    /\ elsewhere < MaxElsewhere /\ elsewhere' = elsewhere + 1
    /\ UNCHANGED participant

TurnInit ==
    /\ revision = 2
    /\ \E id \in SessionIds, ceiling \in Ceilings, unit \in Proposals :
           /\ session = SetUp(1, id, ceiling, unit)
           /\ presence \in [ workspaceId : Workspaces, observationRevision : {0},
                             status : {"engaged"}, activeSessionId : {id} ]
    /\ operations = NoOperations /\ grants = NoGrants
    /\ turns = [t \in Turns |-> Idle]
    /\ elsewhere = 0
    /\ issued = 0
    /\ registry = [key |-> None, models |-> {}]
    /\ lastCheck = None /\ transfer = None
    /\ agreed = {} /\ confirmed = {}

Asks(t) ==
    \/ \E route \in Routes \ {"check", "attempt"}, model \in Models :
           AskModel(t, route, model)
    \/ \E route \in {"check", "attempt"} : AskAction(t, route)
    \/ Cancel(t)

TurnNext ==
    \/ Elsewhere
    \/ /\ \E t \in Turns : Asks(t) \/ AnswerDialog(t) \/ Continue(t)
       /\ UNCHANGED elsewhere

TurnSpec == TurnInit /\ [][TurnNext]_all

-----------------------------------------------------------------------------
(* What a request to a model carries is shared only because the developer  *)
(* agreed to share with that model in that very life of that session: no   *)
(* agreement outlives its session, whoever ends it and whatever            *)
(* identifiers the next one uses.                                          *)
ContextIsConsented ==
    \A t \in Turns : turns[t].step \in {"count", "sent"} =>
        \E sharing \in agreed :
            /\ sharing.model = turns[t].model
            /\ sharing.intent.workspaceId = turns[t].intent.workspaceId
            /\ sharing.intent.sessionId = turns[t].intent.sessionId
            /\ sharing.intent.startedAtRevision = turns[t].intent.startedAtRevision

(* A reveal is on record only in a life of the session in which the        *)
(* developer confirmed one: a dialog that is answered after the session    *)
(* was replaced reveals nothing in the one that took its place.            *)
RevealsAreConfirmed ==
    session # None /\ session.assistance # None /\ session.assistance.reveal =>
        \E intent \in confirmed :
            /\ intent.sessionId = session.sessionId
            /\ intent.startedAtRevision = session.startedAtRevision

(* An answer is shown only about the work it was asked about, and with a   *)
(* solution only while a reveal is on record; one that took no read only   *)
(* while all its model was told still holds.  A read moves its turn to the *)
(* revision its result is committed at, past the hints and reveals of      *)
(* other turns meanwhile, and the instructions stay what they were.        *)
AnswersFitTheMoment ==
    [][\A t \in Turns : Publish(t) =>
          /\ turns[t].intent = CurrentIntent
          /\ turns[t].response.solution => Told.reveal /\ Told.level = 5
          /\ turns[t].calls = 1 => turns[t].told = Told]_all

(* What /session says of the product check is how the operation of this    *)
(* very session ended; after anything replaced the session it says that no *)
(* check was observed.                                                     *)
CheckIsTheSessions ==
    lastCheck # None /\ IsOfUnit(lastCheck.of) =>
        /\ operations[lastCheck.id] # None
        /\ operations[lastCheck.id].toolName = "run_verification"
        /\ operations[lastCheck.id].status = lastCheck.status
=============================================================================
