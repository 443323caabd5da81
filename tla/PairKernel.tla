----------------------------- MODULE PairKernel -----------------------------
(***************************************************************************)
(* The session kernel (packages/session-core): decide() turns a command    *)
(* into events, reduce() folds them into the next runtime snapshot.  Both  *)
(* are pure and synchronous, and the coordinator commits the events of one *)
(* command as a whole, so a command is one action: a decision (its guard   *)
(* is every `throw` and every empty decision of the code) conjoined with   *)
(* the reducers of the events it emits.  A refused command and a command   *)
(* that decides no event leave the snapshot alone: they are stuttering.    *)
(*                                                                         *)
(* `operations` and `grants` are the two lists of the session snapshot,    *)
(* kept here as functions from their identifiers.  Tool names drop the     *)
(* prefix that grants and operations spell differently.  Summaries, goals, *)
(* times and diagnostics are left out: no transition reads them.           *)
(*                                                                         *)
(* A definition whose comment begins with `Fault:` is not the code's: it   *)
(* is a bug the code could have had, which some property must catch.       *)
(***************************************************************************)
EXTENDS Integers, FiniteSets

CONSTANTS
    Workspaces,      \* workspace identifiers
    SessionIds,      \* session identifiers; one may be used again after "off"
    Paths,           \* file paths an entry snapshot mentions
    WorkUnitIds,     \* work-unit identifiers
    Proposals,       \* the work units a command may propose
    Ceilings,        \* the maximum hint levels a developer may agree to
    HintLevels,      \* the hint levels a command may request
    OperationIds,
    OperationTools,  \* tools that run an effect through an operation
    GrantIds,
    GrantTools,      \* tools a user action may be requested for
    MaxRevision,     \* bound of the model: the runtime stops at this revision
    None             \* `undefined`

VARIABLES
    revision,        \* revision of the runtime snapshot
    presence,        \* Pair Presence
    session,         \* the session snapshot, or None
    operations,      \* operation id -> its record, or None
    grants           \* grant id -> its record, or None

vars == <<revision, presence, session, operations, grants>>

-----------------------------------------------------------------------------
(* The snapshot's types (packages/protocol).                               *)

Actors == {"human", "ai", "host"}
Modes == {"growth", "pair", "delivery"}
PresenceStatuses == {"off", "observing", "engaged", "quiet", "paused"}
SessionStatuses ==
    {"briefing", "ready", "active", "paused", "reconciling", "closed"}
WorkUnitStatuses == {"proposed", "agreed", "needs-reconcile"}
TerminalStatuses == {"confirmed", "failed", "declined", "cancelled", "unknown"}

Presence == [ workspaceId : Workspaces,
              observationRevision : Nat,
              status : PresenceStatuses,
              activeSessionId : SessionIds \cup {None} ]

WorkUnit == [ id : WorkUnitIds,
              mode : Modes,
              owner : {"human", "ai"},
              learningValue : {"low", "mixed", "high"},
              checked : BOOLEAN,               \* has an acceptance check
              status : WorkUnitStatuses ]

Entry == [ dirty : SUBSET Paths, protected : SUBSET Paths ]

Assistance == [ attempt : BOOLEAN,
                hypothesis : BOOLEAN,
                hint : 0..5,                   \* highest level shown, 0: none
                reveal : BOOLEAN ]

Session == [ sessionId : SessionIds,
             startedAtRevision : Nat,
             authorityEpoch : Nat,
             status : SessionStatuses,
             mode : Modes \cup {None},
             maximumHintLevel : 0..5 \cup {None},
             entry : Entry \cup {None},
             workUnit : WorkUnit \cup {None},
             assistance : Assistance \cup {None} ]

Operation == [ workUnitId : WorkUnitIds,
               toolName : OperationTools,
               runtimeRevision : Nat,
               authorityEpoch : Nat,
               status : TerminalStatuses \cup {"authorized"},
               grantId : GrantIds \cup {None} ]

Grant == [ toolName : GrantTools,
           runtimeRevision : Nat,
           authorityEpoch : Nat,
           status : {"available", "consumed"} ]

ASSUME BoundAssumption == MaxRevision \in Nat
ASSUME ProposalAssumption == Proposals \subseteq WorkUnit
ASSUME LevelAssumption == Ceilings \subseteq 0..5 /\ HintLevels \subseteq 0..5
ASSUME FiniteAssumption == IsFiniteSet(OperationIds)
ASSUME NoneAssumption ==
    /\ None \notin SessionIds /\ None \notin GrantIds
    /\ None \notin Modes /\ None \notin 0..5
    /\ None \notin Session /\ None \notin Operation /\ None \notin Grant
    /\ None \notin Entry /\ None \notin WorkUnit /\ None \notin Assistance

NoOperations == [id \in OperationIds |-> None]
NoGrants == [id \in GrantIds |-> None]

CreatePresence(workspace) ==
    [ workspaceId |-> workspace, observationRevision |-> 0,
      status |-> "off", activeSessionId |-> None ]

CreateSession(id, startedAt) ==
    [ sessionId |-> id, startedAtRevision |-> startedAt, authorityEpoch |-> 0,
      status |-> "briefing", mode |-> None, maximumHintLevel |-> None,
      entry |-> None, workUnit |-> None, assistance |-> None ]

NoAssistance ==
    [attempt |-> FALSE, hypothesis |-> FALSE, hint |-> 0, reveal |-> FALSE]

-----------------------------------------------------------------------------
(* What decisions and reducers ask of a snapshot.                          *)

InStatus(statuses) == session # None /\ session.status \in statuses

Briefing == InStatus({"briefing"})
Pausable == InStatus({"ready", "active", "reconciling"})
Operational == InStatus({"ready", "active"})
Working == InStatus({"briefing", "ready", "active"})
Paused == InStatus({"paused"})
Closable == InStatus(SessionStatuses \ {"closed"})

HasEntry == session.entry # None
HasGrowthAgreement == session.maximumHintLevel # None
(* Fault: only an agreed work unit keeps the mode from changing. *)
HasNoAgreedWorkUnit ==
    IF session.workUnit = None THEN TRUE ELSE session.workUnit.status = "proposed"

HasNoWorkUnit == session.workUnit = None

HasAgreedWorkUnit == session.workUnit # None /\ session.workUnit.status = "agreed"

IsGrowthWorkUnit(unitId) ==
    /\ HasAgreedWorkUnit
    /\ session.workUnit.id = unitId
    /\ session.mode = "growth"
    /\ session.workUnit.mode = "growth"

OperationalGrowth ==
    Operational /\ HasAgreedWorkUnit /\ IsGrowthWorkUnit(session.workUnit.id)

OperationalDeliveryAi ==
    /\ Operational
    /\ HasAgreedWorkUnit
    /\ session.mode = "delivery"
    /\ session.workUnit.mode = "delivery"
    /\ session.workUnit.owner = "ai"

(* A growth work unit is the human's, worth learning from, and checkable. *)
ValidGrowthWorkUnit(unit) ==
    unit.mode = "growth" =>
        unit.owner = "human" /\ unit.learningValue # "low" /\ unit.checked

ValidProposal(unit) ==
    /\ session.mode # None
    /\ unit.mode = session.mode
    /\ unit.status = "proposed"
    /\ ValidGrowthWorkUnit(unit)

CurrentAssistance ==
    IF session.assistance = None THEN NoAssistance ELSE session.assistance

(* Fault: the second rung needs no attempt. *)
ValidHintLevelOffByOne(unitId, level) ==
    /\ IsGrowthWorkUnit(unitId)
    /\ HasGrowthAgreement
    /\ level <= session.maximumHintLevel
    /\ level > 2 => CurrentAssistance.attempt
    /\ level = 5 => CurrentAssistance.reveal

ValidHintLevel(unitId, level) ==
    /\ IsGrowthWorkUnit(unitId)
    /\ HasGrowthAgreement
    /\ level <= session.maximumHintLevel
    /\ level > 1 => CurrentAssistance.attempt
    /\ level = 5 => CurrentAssistance.reveal

(* Fault: a new snapshot replaces what the one before it protected. *)
NormalizeEntryAlone(entry, previous) ==
    [entry EXCEPT !.protected = @ \cup entry.dirty]

(* What was dirty or protected before stays protected. *)
NormalizeEntry(entry, previous) ==
    [ entry EXCEPT !.protected =
        @ \cup entry.dirty \cup
          (IF previous = None THEN {} ELSE previous.protected \cup previous.dirty) ]

RequiresWorkspaceReset(workspace) ==
    /\ presence.workspaceId # workspace
    /\ \/ presence.status # "off"
       \/ session # None
       \/ presence.observationRevision # 0
       \/ presence.activeSessionId # None

(* Fault: enabling presence does not look for a paused session. *)
EnabledPresenceStatusAlways ==
    IF presence.status \in {"observing", "quiet", "engaged"} THEN presence.status
    ELSE IF Closable THEN "engaged" ELSE "observing"

EnabledPresenceStatus ==
    IF Paused THEN "paused"
    ELSE IF presence.status \in {"observing", "quiet", "engaged"} THEN presence.status
    ELSE IF Closable THEN "engaged" ELSE "observing"

IsOpen(id) ==
    operations[id] # None /\ operations[id].status \notin TerminalStatuses

OpenOperations == {id \in OperationIds : IsOpen(id)}

-----------------------------------------------------------------------------
(* Reducers: what one event does to the snapshot.  Each names every        *)
(* variable but `grants`, which UserActionGranted, UserActionConsumed and  *)
(* the reducers that replace the whole session own, and `revision`.        *)

(* n events, each at the revision after the one before it. *)
Commit(n) ==
    /\ revision + n <= MaxRevision
    /\ revision' = revision + n

PresenceEnabled(workspace) ==
    /\ presence' = [presence EXCEPT !.workspaceId = workspace,
                                    !.status = EnabledPresenceStatus]
    /\ UNCHANGED <<session, operations, grants>>

(* "off" forgets the session and everything it authorised. *)
PresenceChanged(status) ==
    IF status = "off"
    THEN /\ presence' = CreatePresence(presence.workspaceId)
         /\ session' = None
         /\ operations' = NoOperations
         /\ grants' = NoGrants
    ELSE /\ presence' = [presence EXCEPT !.status = status]
         /\ UNCHANGED <<session, operations, grants>>

WorkspaceObserved ==
    /\ presence' = [presence EXCEPT !.observationRevision = @ + 1]
    /\ UNCHANGED <<session, operations, grants>>

SessionStarted(id) ==
    /\ presence' = [presence EXCEPT !.status = "engaged", !.activeSessionId = id]
    /\ session' = CreateSession(id, revision')
    /\ operations' = NoOperations
    /\ grants' = NoGrants

SessionPaused ==
    /\ presence' = [presence EXCEPT !.status = "paused",
                                    !.activeSessionId = session.sessionId]
    /\ session' = [session EXCEPT !.status = "paused", !.authorityEpoch = @ + 1]

EntryCaptured(entry) ==
    /\ presence' = [presence EXCEPT !.status = "engaged",
                                    !.activeSessionId = session.sessionId]
    /\ session' = [session EXCEPT !.entry = NormalizeEntry(entry, @)]
    /\ UNCHANGED operations

ReconcileWorkUnit(unit) ==
    IF unit = None THEN None ELSE [unit EXCEPT !.status = "needs-reconcile"]

(* Fault: a resumed session is back at work, with its agreement. *)
SessionResumedReady(entry) ==
    /\ presence' = [presence EXCEPT !.status = "engaged",
                                    !.activeSessionId = session.sessionId]
    /\ session' = [session EXCEPT !.status = "ready",
                                  !.entry = NormalizeEntry(entry, @)]
    /\ UNCHANGED <<operations, grants>>

SessionResumed(entry) ==
    /\ presence' = [presence EXCEPT !.status = "engaged",
                                    !.activeSessionId = session.sessionId]
    /\ session' = [session EXCEPT !.status = "reconciling",
                                  !.entry = NormalizeEntry(entry, @),
                                  !.workUnit = ReconcileWorkUnit(@)]
    /\ UNCHANGED <<operations, grants>>

SessionClosed ==
    /\ presence' = [presence EXCEPT !.status = "observing",
                                    !.activeSessionId = None]
    /\ session' = [session EXCEPT !.status = "closed"]
    /\ UNCHANGED operations

LearningConfirmed(ceiling) ==
    /\ session' = [session EXCEPT !.maximumHintLevel = ceiling]
    /\ UNCHANGED <<presence, operations>>

ModeSelected(mode) ==
    /\ session' = [session EXCEPT
           !.mode = mode,
           !.assistance = IF mode = "growth" THEN NoAssistance ELSE None]
    /\ UNCHANGED <<presence, operations>>

WorkUnitProposed(unit) ==
    /\ session' = [session EXCEPT !.workUnit = unit]
    /\ UNCHANGED <<presence, operations, grants>>

WorkUnitAgreed ==
    /\ session' = [session EXCEPT
           !.status = "ready",
           !.workUnit.status = "agreed",
           !.assistance = IF session.workUnit.mode = "growth" THEN NoAssistance
                                                              ELSE @]
    /\ UNCHANGED <<presence, operations>>

(* Every growth event makes the session active. *)
Assist(assistance) ==
    /\ session' = [session EXCEPT !.status = "active", !.assistance = assistance]
    /\ UNCHANGED <<presence, operations>>

AttemptRecorded == Assist([CurrentAssistance EXCEPT !.attempt = TRUE])

HypothesisRecorded == Assist([CurrentAssistance EXCEPT !.hypothesis = TRUE])

(* Fault: hint levels add up instead of the highest one standing. *)
HintRequestedAdded(level) ==
    Assist([CurrentAssistance EXCEPT !.hint = @ + level])

HintRequested(level) ==
    Assist([CurrentAssistance EXCEPT !.hint = IF level > @ THEN level ELSE @])

SolutionRevealAuthorized == Assist([CurrentAssistance EXCEPT !.reveal = TRUE])

UserActionGranted(id, tool) ==
    /\ grants' = [grants EXCEPT ![id] =
           [ toolName |-> tool, runtimeRevision |-> revision',
             authorityEpoch |-> session.authorityEpoch, status |-> "available" ]]
    /\ UNCHANGED <<presence, session, operations>>

UserActionConsumed(id) ==
    grants' = [grants EXCEPT ![id] = [@ EXCEPT !.status = "consumed"]]

OperationAuthorized(id, tool, grantId) ==
    /\ operations' = [operations EXCEPT ![id] =
           [ workUnitId |-> session.workUnit.id, toolName |-> tool,
             runtimeRevision |-> revision',
             authorityEpoch |-> session.authorityEpoch,
             status |-> "authorized", grantId |-> grantId ]]
    /\ UNCHANGED <<presence, session>>

OperationObserved(id, status) ==
    /\ operations' = [operations EXCEPT ![id] = [@ EXCEPT !.status = status]]
    /\ UNCHANGED <<presence, session, grants>>

(* Fault: a pause leaves what is under way for its result to settle. *)
OpenOperationsLeft == UNCHANGED operations

(* The OperationObserved events a pause emits, one for each open operation. *)
OpenOperationsCancelled ==
    operations' = [id \in OperationIds |->
        IF IsOpen(id) THEN [operations[id] EXCEPT !.status = "cancelled"]
                      ELSE operations[id]]

-----------------------------------------------------------------------------
(* Decisions.                                                              *)

(* Fault: a grant serves until it is spent. *)
CurrentGrantOfEpoch(grantId, tool) ==
    /\ grants[grantId] # None
    /\ grants[grantId].status = "available"
    /\ grants[grantId].authorityEpoch = session.authorityEpoch
    /\ grants[grantId].toolName = tool

(* A grant serves the one command that follows it, for the tool it names. *)
CurrentGrant(grantId, tool) ==
    /\ grants[grantId] # None
    /\ grants[grantId].status = "available"
    /\ grants[grantId].runtimeRevision = revision
    /\ grants[grantId].authorityEpoch = session.authorityEpoch
    /\ grants[grantId].toolName = tool

(* Fault: an action without a grant is not asked whose it is. *)
AnyonesAction(actor, grantId, tool) ==
    \/ grantId = None /\ UNCHANGED grants
    \/ /\ grantId # None
       /\ CurrentGrant(grantId, tool)
       /\ UserActionConsumed(grantId)

(* The action is the human's own, or spends a grant the human gave for it. *)
HumanAction(actor, grantId, tool) ==
    \/ /\ grantId = None
       /\ actor = "human"
       /\ UNCHANGED grants
    \/ /\ grantId # None
       /\ CurrentGrant(grantId, tool)
       /\ UserActionConsumed(grantId)

(* The events of an action that may spend a grant first. *)
Events(grantId) == IF grantId = None THEN 1 ELSE 2

EnablePresence(actor, workspace) ==
    /\ actor = "human"
    /\ \/ /\ RequiresWorkspaceReset(workspace)
          /\ Commit(2)
          /\ presence' = [CreatePresence(workspace) EXCEPT !.status = "observing"]
          /\ session' = None
          /\ operations' = NoOperations
          /\ grants' = NoGrants
       \/ /\ ~RequiresWorkspaceReset(workspace)
          /\ \/ presence.workspaceId # workspace
             \/ presence.status # EnabledPresenceStatus
          /\ Commit(1)
          /\ PresenceEnabled(workspace)

PauseSession ==
    /\ Pausable
    /\ Commit(Cardinality(OpenOperations) + 1)
    /\ OpenOperationsCancelled
    /\ SessionPaused
    /\ UNCHANGED grants

(* "off" also ends a session or an observation count that outlived it. *)
PresenceChanges(status) ==
    \/ status # presence.status
    \/ status = "off" /\ (session # None \/ presence.observationRevision # 0)

SetPresence(actor, requested) ==
    /\ actor = "human"
    /\ ~(requested # "off" /\ Paused)
    /\ \/ requested = "paused" /\ Pausable /\ PauseSession
       \/ /\ ~(requested = "paused" /\ (Pausable \/ presence.status = "off"))
          /\ LET status == IF requested = "observing" THEN EnabledPresenceStatus
                                                      ELSE requested
             IN  /\ PresenceChanges(status)
                 /\ Commit(1)
                 /\ PresenceChanged(status)

ObserveWorkspace(actor) ==
    /\ actor = "host"
    /\ presence.status \notin {"off", "paused"}
    /\ Commit(1)
    /\ WorkspaceObserved

StartSession(id) ==
    /\ session = None
    /\ Commit(1)
    /\ SessionStarted(id)

CaptureEntry(actor, grantId, entry) ==
    /\ Briefing
    /\ HumanAction(actor, grantId, "capture_entry")
    /\ Commit(Events(grantId))
    /\ EntryCaptured(entry)

ResumeSession(entry) ==
    /\ Paused
    /\ Commit(1)
    /\ SessionResumed(entry)

CloseSession(actor, grantId) ==
    /\ Closable
    /\ HumanAction(actor, grantId, "close_session")
    /\ Commit(Events(grantId))
    /\ SessionClosed

ConfirmLearning(actor, grantId, ceiling) ==
    /\ Briefing
    /\ HasEntry
    /\ HumanAction(actor, grantId, "confirm_learning")
    /\ Commit(Events(grantId))
    /\ LearningConfirmed(ceiling)

SelectMode(actor, grantId, mode) ==
    /\ Briefing
    /\ HasNoWorkUnit
    /\ mode = "growth" => HasGrowthAgreement
    /\ HumanAction(actor, grantId, "select_mode")
    /\ Commit(Events(grantId))
    /\ ModeSelected(mode)

ProposeWorkUnit(unit) ==
    /\ Briefing
    /\ HasEntry
    /\ ValidProposal(unit)
    /\ Commit(1)
    /\ WorkUnitProposed(unit)

AgreeWorkUnit(actor, grantId, unitId) ==
    /\ Briefing
    /\ HasEntry
    /\ session.workUnit # None
    /\ session.workUnit.id = unitId
    /\ session.workUnit.status = "proposed"
    /\ session.workUnit.mode = session.mode
    /\ HumanAction(actor, grantId, "agree_work_unit")
    /\ Commit(Events(grantId))
    /\ WorkUnitAgreed

RecordAttempt(actor, grantId, unitId) ==
    /\ Working
    /\ IsGrowthWorkUnit(unitId)
    /\ HumanAction(actor, grantId, "record_attempt")
    /\ Commit(Events(grantId))
    /\ AttemptRecorded

RecordHypothesis(actor, grantId, unitId) ==
    /\ Working
    /\ IsGrowthWorkUnit(unitId)
    /\ HumanAction(actor, grantId, "record_hypothesis")
    /\ Commit(Events(grantId))
    /\ HypothesisRecorded

RequestHint(actor, grantId, unitId, level) ==
    /\ Working
    /\ ValidHintLevel(unitId, level)
    /\ HumanAction(actor, grantId, "request_hint")
    /\ Commit(Events(grantId))
    /\ HintRequested(level)

AuthorizeSolutionReveal(actor, grantId, unitId, previewOnly) ==
    /\ Working
    /\ IsGrowthWorkUnit(unitId)
    /\ previewOnly
    /\ HumanAction(actor, grantId, "reveal_solution")
    /\ Commit(Events(grantId))
    /\ SolutionRevealAuthorized

(* The session state in which a user action may be requested for a tool. *)
Grantable(tool) ==
    \/ tool = "capture_entry" /\ Briefing
    \/ tool = "confirm_learning" /\ Briefing /\ HasEntry
    \/ tool = "select_mode" /\ Briefing /\ HasNoWorkUnit
    \/ /\ tool = "agree_work_unit"
       /\ Briefing
       /\ HasEntry
       /\ session.workUnit # None
       /\ session.workUnit.status = "proposed"
    \/ /\ tool \in {"record_attempt", "record_hypothesis", "reveal_solution"}
       /\ OperationalGrowth
    \/ tool = "request_hint" /\ OperationalGrowth /\ HasGrowthAgreement
    \/ tool = "run_verification" /\ Operational
    \/ tool = "run_command" /\ OperationalDeliveryAi
    \/ tool = "close_session" /\ Closable

GrantUserAction(actor, id, tool) ==
    /\ Grantable(tool)
    /\ actor = "human"
    /\ grants[id] = None
    /\ Commit(1)
    /\ UserActionGranted(id, tool)

AuthorizeOperation(id, tool, grantId) ==
    /\ Operational
    /\ HasAgreedWorkUnit
    /\ operations[id] = None
    /\ Commit(Events(grantId))
    /\ \/ grantId = None /\ UNCHANGED grants
       \/ /\ grantId # None
          /\ CurrentGrant(grantId, tool)
          /\ UserActionConsumed(grantId)
    /\ OperationAuthorized(id, tool, grantId)

(* Fault: a later result replaces the one that settled the operation. *)
ObserveLatestResult(id, epoch, status) ==
    /\ session # None
    /\ operations[id] # None
    /\ operations[id].authorityEpoch = epoch
    /\ session.authorityEpoch = epoch
    /\ Commit(1)
    /\ OperationObserved(id, status)

(* A result is taken only while its operation is open and its epoch current. *)
ObserveOperationResult(id, epoch, status) ==
    /\ session # None
    /\ IsOpen(id)
    /\ operations[id].authorityEpoch = epoch
    /\ session.authorityEpoch = epoch
    /\ Commit(1)
    /\ OperationObserved(id, status)

-----------------------------------------------------------------------------
(* The commands each actor may send.  The kernel asks who acts only where  *)
(* a command is the human's or the host's alone; the others are anyone's.  *)

PresenceCommand(actor) ==
    \/ \E workspace \in Workspaces : EnablePresence(actor, workspace)
    \/ \E status \in {"observing", "quiet", "paused", "off"} :
           SetPresence(actor, status)
    \/ ObserveWorkspace(actor)

SessionCommand(actor, grantId) ==
    \/ \E entry \in Entry : CaptureEntry(actor, grantId, entry)
    \/ CloseSession(actor, grantId)

AgreementCommand(actor, grantId) ==
    \/ \E ceiling \in Ceilings : ConfirmLearning(actor, grantId, ceiling)
    \/ \E mode \in Modes : SelectMode(actor, grantId, mode)
    \/ \E unitId \in WorkUnitIds : AgreeWorkUnit(actor, grantId, unitId)

GrowthCommand(actor, grantId) ==
    \E unitId \in WorkUnitIds :
        \/ RecordAttempt(actor, grantId, unitId)
        \/ RecordHypothesis(actor, grantId, unitId)
        \/ \E level \in HintLevels : RequestHint(actor, grantId, unitId, level)
        \/ \E previewOnly \in BOOLEAN :
               AuthorizeSolutionReveal(actor, grantId, unitId, previewOnly)

OpenCommand ==
    \/ \E id \in SessionIds : StartSession(id)
    \/ PauseSession
    \/ \E entry \in Entry : ResumeSession(entry)
    \/ \E unit \in Proposals : ProposeWorkUnit(unit)

OperationCommand ==
    \E id \in OperationIds :
        \/ \E tool \in OperationTools, grantId \in GrantIds \cup {None} :
               AuthorizeOperation(id, tool, grantId)
        \/ \E epoch \in 0..MaxRevision, status \in TerminalStatuses :
               ObserveOperationResult(id, epoch, status)

Command(actor) ==
    \/ PresenceCommand(actor)
    \/ \E grantId \in GrantIds \cup {None} :
           \/ SessionCommand(actor, grantId)
           \/ AgreementCommand(actor, grantId)
           \/ GrowthCommand(actor, grantId)
    \/ \E id \in GrantIds, tool \in GrantTools : GrantUserAction(actor, id, tool)
    \/ OpenCommand
    \/ OperationCommand

Init ==
    /\ revision = 0
    /\ \E workspace \in Workspaces : presence = CreatePresence(workspace)
    /\ session = None
    /\ operations = NoOperations
    /\ grants = NoGrants

Next == \E actor \in Actors : Command(actor)

Spec == Init /\ [][Next]_vars

-----------------------------------------------------------------------------
(* Properties.                                                             *)

(* The snapshot, its operations and its grants keep the protocol's types.  *)
TypeOK ==
    /\ revision \in 0..MaxRevision
    /\ presence \in Presence
    /\ session \in Session \cup {None}
    /\ operations \in [OperationIds -> Operation \cup {None}]
    /\ grants \in [GrantIds -> Grant \cup {None}]

(* Presence and session change in different reducers and must agree: the   *)
(* active session is the session that is neither gone nor closed, "off"    *)
(* leaves neither a session nor an observation, a paused session is never  *)
(* observed, and a resumed session is never left paused.                   *)
PresenceTracksSession ==
    /\ presence.activeSessionId = IF Closable THEN session.sessionId ELSE None
    /\ presence.status = "off" => session = None /\ presence.observationRevision = 0
    /\ Paused => presence.status = "paused"
    /\ InStatus({"reconciling"}) => presence.status # "paused"

(* An operation that is still open belongs to the session's present epoch  *)
(* and to its agreed work unit: no pause, resume, close or "off" leaves an *)
(* effect authorised under an authority the developer has taken back.      *)
OpenOperationsAreCurrent ==
    \A id \in OpenOperations :
        /\ InStatus({"ready", "active", "closed"})
        /\ operations[id].authorityEpoch = session.authorityEpoch
        /\ HasAgreedWorkUnit
        /\ operations[id].workUnitId = session.workUnit.id

(* A grant pays for one operation at most, the one of the tool it was      *)
(* given for, and only at once: the grant, its spending and the operation  *)
(* are three consecutive revisions of one epoch.                           *)
GrantPaysForOneOperation ==
    \A id \in OperationIds :
        operations[id] # None /\ operations[id].grantId # None =>
            LET grant == grants[operations[id].grantId]
            IN  /\ grant # None
                /\ grant.status = "consumed"
                /\ grant.toolName = operations[id].toolName
                /\ grant.authorityEpoch = operations[id].authorityEpoch
                /\ grant.runtimeRevision + 2 = operations[id].runtimeRevision
                /\ \A other \in OperationIds \ {id} :
                       operations[other] # None =>
                           operations[other].grantId # operations[id].grantId

(* Whatever the order of the agreements, a work unit is in the session's   *)
(* mode and was proposed from an entry; a growth unit is the human's,      *)
(* checkable and under a learning agreement; work starts only on an agreed *)
(* unit, and no unit is agreed while the briefing goes on.                 *)
WorkUnitFitsSession ==
    session # None =>
        /\ session.workUnit # None =>
               /\ HasEntry
               /\ session.workUnit.mode = session.mode
               /\ ValidGrowthWorkUnit(session.workUnit)
        /\ session.mode = "growth" => HasGrowthAgreement
        /\ Operational => HasAgreedWorkUnit
        /\ Briefing => ~HasAgreedWorkUnit

(* The hint ladder: no hint above the agreed ceiling, none past the first  *)
(* without an attempt, the last only after a reveal; and no help is on     *)
(* record before a growth unit was agreed to.                              *)
HintLadder ==
    session # None /\ session.assistance # None =>
        /\ session.assistance.hint > 0 =>
               HasGrowthAgreement /\ session.assistance.hint <= session.maximumHintLevel
        /\ session.assistance.hint > 1 => session.assistance.attempt
        /\ session.assistance.hint = 5 => session.assistance.reveal
        /\ session.assistance # NoAssistance =>
               /\ ~Briefing
               /\ session.workUnit # None
               /\ session.workUnit.mode = "growth"

SameSession ==
    /\ session # None
    /\ session' # None
    /\ session'.startedAtRevision = session.startedAtRevision

(* Within one session, a path that was dirty or protected in some entry is *)
(* protected in every later entry: neither a new capture nor a resume      *)
(* hands the developer's unsaved work back to an edit.                     *)
ProtectedPathsStay ==
    [][SameSession /\ session.entry # None =>
          /\ session'.entry # None
          /\ session.entry.dirty \cup session.entry.protected
                \subseteq session'.entry.protected]_vars

(* What an operation was authorised for never changes and a settled one    *)
(* stays settled; the epoch never falls; and authority does not outlive a  *)
(* session: another session or another workspace starts with nothing       *)
(* authorised and nothing granted.                                         *)
AuthorityIsNotRevived ==
    [][/\ SameSession =>
              /\ session'.authorityEpoch >= session.authorityEpoch
              /\ \A id \in OperationIds : operations[id] # None =>
                     /\ operations'[id] # None
                     /\ operations'[id] = [operations[id] EXCEPT
                                              !.status = operations'[id].status]
                     /\ ~IsOpen(id) => operations'[id] = operations[id]
       /\ ~SameSession => operations' = NoOperations /\ grants' = NoGrants
       /\ presence'.workspaceId # presence.workspaceId => session' = None]_vars

(* What only the developer may decide in a session.                        *)
HumanChoices ==
    IF session = None THEN <<"none">>
    ELSE <<"some", session.maximumHintLevel, session.mode, session.assistance,
           InStatus({"closed"})>>

SpendsGrant ==
    \E id \in GrantIds : /\ grants[id] # None /\ grants[id].status = "available"
                         /\ grants'[id] # None /\ grants'[id].status = "consumed"

(* A resume asks no actor, and asks for a new agreement on the unit.       *)
SuspendsUnit ==
    /\ session.status = "paused" /\ session'.status = "reconciling"
    /\ session'.workUnit = ReconcileWorkUnit(session.workUnit)

AgreedUnitStands ==
    HasAgreedWorkUnit \/ HasAgreedWorkUnit' =>
        session'.workUnit = session.workUnit \/ SuspendsUnit

(* Without spending a grant, a command of the model's never changes the    *)
(* mode, the learning agreement or the help on record, never ends the      *)
(* session, and never gives, replaces or alters an agreed unit: each of    *)
(* these takes the developer's own action.  It may pause and resume, and   *)
(* then the unit loses its agreement, which the developer alone gives back.*)
AiDecidesNothingAlone ==
    [][/\ session # None
       /\ ~(HumanChoices' = HumanChoices /\ AgreedUnitStands)
       /\ ~SpendsGrant
       => ~Command("ai")]_vars
=============================================================================
