-------------------------- MODULE PresenceLifecycle --------------------------
(***************************************************************************)
(* The presence controller of the extension with the session controller    *)
(* it drives, the edit aggregator and the journal it feeds, and what it    *)
(* shows: listener, context keys, status bar.                              *)
(*                                                                         *)
(* Every command awaits the trust question, commits, captures and journal  *)
(* operations, and any other command may begin meanwhile; lifecycle and    *)
(* restoration generations and the capture lifetime tell late              *)
(* continuations that they are.  A continuation runs as part of the event  *)
(* it waited for, as the micro-tasks of a promise do.  The runtime behind  *)
(* the coordinator is reduced to what these controllers ask of it;         *)
(* PairKernel has it in full.                                              *)
(***************************************************************************)
EXTENDS Integers, Sequences, FiniteSets

CONSTANTS
    None,
    MaxActions,             \* commands, and pauses after a failure
    MaxEdits,               \* edits that reach the listener
    MaxFailures,            \* of the journal and of captures
    MaxOthers               \* steps of the chat participant

ASSUME LifecycleAssumption ==
    /\ MaxActions \in Nat /\ MaxEdits \in Nat
    /\ MaxFailures \in Nat /\ MaxOthers \in Nat
    /\ None \notin Nat
    /\ None \notin [edits : SUBSET Nat, timer : Nat]

VARIABLES
    \* the runtime
    status,                 \* of presence: "off", "on" (observing, quiet, engaged), "paused"
    session,
    revision,
    queue,                  \* transitions waiting for their turn
    \* the controllers
    trusted,                \* the workspace
    actions,                \* commands under way
    generation,             \* lifecycleGeneration
    restoration,            \* journalRestorationGeneration
    lifetime,               \* of captures
    disposed,
    \* what is observed and kept
    listener,               \* the generation it was attached in, or None
    window,                 \* what the observation window holds
    pending,                \* the edit episode being gathered
    timers,                 \* scheduled callbacks, each with the edits it closed over
    stored,                 \* the journal on disk holds episodes
    tasks,                  \* journal operations in their order
    restoring,              \* a replay: the generation it began in, what it found
    \* what is shown
    view, context,
    \* history and bounds
    intent,                 \* what the developer asked for last
    unreported,             \* edits recorded, not reported and not dropped
    edits, failures, others

runtime == <<status, session, revision>>
kept == <<window, pending, timers, unreported>>
disk == <<stored, tasks, restoring>>
shown == <<listener, view, context>>
epochs == <<generation, restoration, lifetime>>
bounds == <<edits, failures, others>>

vars == <<runtime, queue, trusted, actions, epochs, disposed, kept, disk, shown,
          intent, bounds>>

ActionIds == 1..MaxActions

Trusting == {"enable", "start", "join"}
Kinds == Trusting \cup {"pause", "disable"}

Idle == [kind |-> "none", step |-> "idle", generation |-> 0, lifetime |-> 0, base |-> 0]

Transition(kind, by) == [kind |-> kind, by |-> by]

Task(kind, by) == [kind |-> kind, by |-> by]

(* The extension was just activated, and replays the journal an earlier    *)
(* life of the host may have left; or it has been in use for a while, with *)
(* a work unit agreed or paused and no command under way.                  *)
JustActivated ==
    /\ status = "off" /\ session = "none" /\ tasks = <<Task("replay", None)>>

LongInUse ==
    /\ trusted /\ tasks = <<>>
    /\ \/ status = "on" /\ session = "working"
       \/ status = "paused" /\ session = "paused"

Init ==
    /\ trusted \in BOOLEAN /\ stored \in BOOLEAN
    /\ JustActivated \/ LongInUse
    /\ revision = 0 /\ queue = <<>>
    /\ actions = [a \in ActionIds |-> Idle]
    /\ generation = 0 /\ restoration = 0 /\ lifetime = 0 /\ disposed = FALSE
    /\ listener = (IF status = "on" THEN generation ELSE None)
    /\ view = status /\ context = (status = "on")
    /\ window = {} /\ pending = None /\ timers = {} /\ unreported = {}
    /\ restoring = [generation |-> 0, found |-> None]
    /\ intent = "none"
    /\ edits = 0 /\ failures = 0 /\ others = 0

-----------------------------------------------------------------------------
Free(a) ==
    actions[a].step = "idle" /\ \A b \in 1..(a - 1) : actions[b].step # "idle"

(* Fault: a late continuation is not told from a current one.              *)
IsCurrentAlways(a) == ~disposed

IsCurrentGeneration(a) == ~disposed /\ actions[a].generation = generation

Aborted(a) == disposed \/ actions[a].lifetime # lifetime

To(a, step) == actions' = [actions EXCEPT ![a].step = step]

Ended == [Idle EXCEPT !.step = "ended"]

Ends(a) == actions' = [actions EXCEPT ![a] = Ended]

(* EditEpisodeAggregator: an edit joins the episode, which gets a new      *)
(* timer; clearing drops the episode, reporting it hands it to the journal.*)
Gathered(edit) ==
    [edits |-> (IF pending = None THEN {} ELSE pending.edits) \cup {edit}, timer |-> edit]

Dropped == pending' = None /\ unreported' = {}

Journalled == Append(tasks, Task("append", None))

(* ObservationWindow.record; its capacity is left out.                     *)
Observed(kind) == window \cup {kind}

(* Fault: the listener stays until the commit has answered.                *)
HaltListening ==
    /\ generation' = generation + 1 /\ lifetime' = lifetime + 1
    /\ Dropped
    /\ context' = FALSE /\ UNCHANGED listener

(* What pausing, disabling and disposing do before their first await: a    *)
(* new generation, no pending episode, no context, no listener.            *)
Halt ==
    /\ generation' = generation + 1 /\ lifetime' = lifetime + 1
    /\ Dropped
    /\ listener' = None /\ context' = FALSE

Enqueued(kind, by) == Append(queue, Transition(kind, by))

Started(kind) == [Idle EXCEPT !.kind = kind, !.step = "queued"]

(* runTrustedAction notes the generation and awaits the trust question.    *)
Begin(a, kind) ==
    /\ Free(a) /\ ~disposed
    /\ actions' = [actions EXCEPT ![a] = [Idle EXCEPT !.kind = kind, !.step = "asking",
                                            !.generation = generation]]
    /\ intent' = "on"
    /\ UNCHANGED <<runtime, queue, trusted, epochs, disposed, kept, disk, shown, bounds>>

Pause(a) ==
    /\ Free(a) /\ ~disposed
    /\ Halt
    /\ actions' = [actions EXCEPT ![a] = Started("pause")]
    /\ queue' = Enqueued("pause", a)
    /\ intent' = "pause"
    /\ UNCHANGED <<runtime, trusted, restoration, disposed, window, timers, disk, view,
                   bounds>>

Disabling(a) == actions[a].kind = "disable" /\ actions[a].step \in {"queued", "clearing"}

(* performDisable, after the developer has confirmed.                      *)
Disable(a) ==
    /\ Free(a) /\ ~disposed
    /\ Halt
    /\ restoration' = restoration + 1
    /\ window' = {}
    /\ actions' = [actions EXCEPT ![a] = Started("disable")]
    /\ queue' = Enqueued("off", a)
    /\ intent' = IF \E b \in ActionIds : Disabling(b) THEN "disable again" ELSE "disable"
    /\ UNCHANGED <<runtime, trusted, disposed, timers, disk, view, bounds>>

Dispose ==
    /\ ~disposed
    /\ Halt
    /\ disposed' = TRUE
    /\ UNCHANGED <<runtime, queue, trusted, actions, restoration, window, timers, disk,
                   view, intent, bounds>>

-----------------------------------------------------------------------------
(* Trusted actions up to their first commit.                               *)

Refuse(a) ==
    /\ actions[a].step = "asking" /\ ~trusted
    /\ Ends(a)
    /\ context' = FALSE /\ listener' = None /\ view' = "off"
    /\ UNCHANGED <<runtime, queue, trusted, epochs, disposed, kept, disk, intent, bounds>>

Supersede(a) ==
    /\ actions[a].step = "asking" /\ trusted /\ ~IsCurrentGeneration(a)
    /\ Ends(a)
    /\ UNCHANGED <<runtime, queue, trusted, epochs, disposed, kept, disk, shown, intent,
                   bounds>>

(* Every trusted action enables presence first, under the lifetime of now. *)
Admit(a) ==
    /\ actions[a].step = "asking" /\ trusted /\ IsCurrentGeneration(a)
    /\ actions' = [actions EXCEPT ![a].step = "queued", ![a].lifetime = lifetime]
    /\ queue' = Enqueued("enable", a)
    /\ UNCHANGED <<runtime, trusted, epochs, disposed, kept, disk, shown, intent, bounds>>

(* applyCurrentSnapshot, from the snapshot of the moment it runs.          *)
ApplySnapshot ==
    /\ view' = status'
    /\ listener' = IF status' # "on" THEN None
                   ELSE IF listener = None THEN generation ELSE listener
    /\ context' = (status' = "on")

(* A trusted action applies the snapshot only in its own generation.       *)
ApplyIfCurrent(a) == IF IsCurrentGeneration(a) THEN ApplySnapshot ELSE UNCHANGED shown

ApplyUnlessDisposed == IF disposed THEN UNCHANGED shown ELSE ApplySnapshot

-----------------------------------------------------------------------------
(* The transition queue of the coordinator: one commit at a time, and what *)
(* the command that waits for it does next.                                *)

Committed(newStatus, newSession) ==
    /\ status' = newStatus /\ session' = newSession
    /\ revision' = IF <<newStatus, newSession>> = <<status, session>>
                   THEN revision ELSE revision + 1

Turn(kind) == queue # <<>> /\ Head(queue).kind = kind

Owner == Head(queue).by

(* startIfNeeded and the entry of joinInProgress, by the snapshot that the *)
(* commit returned.                                                        *)
StartIfNeeded(a) ==
    /\ session' \in {"none", "closed"}
    /\ actions' = [actions EXCEPT ![a].step = "queued", ![a].base = revision']
    /\ queue' = Append(Tail(queue), Transition("start", a))
    /\ UNCHANGED shown

CaptureStarts(a) ==
    /\ actions[a].kind = "join" /\ session' \in {"briefing", "paused"}
    /\ actions' = [actions EXCEPT ![a].step = "capturing", ![a].base = revision']
    /\ queue' = Tail(queue)
    /\ UNCHANGED shown

(* A start that finds the session paused says so, and waits until the      *)
(* message is gone before it applies the snapshot.                         *)
FindsPaused(a) ==
    actions[a].kind = "start" /\ session' = "paused" /\ IsCurrentGeneration(a)

Complete(a) ==
    /\ queue' = Tail(queue)
    /\ \/ FindsPaused(a) /\ To(a, "telling") /\ UNCHANGED shown
       \/ ~FindsPaused(a) /\ Ends(a) /\ ApplyIfCurrent(a)

Cancel(a) ==
    /\ Ends(a)
    /\ queue' = Tail(queue)
    /\ UNCHANGED shown

(* enabledPresenceStatus: presence stays paused with its session.          *)
CommitEnable ==
    /\ Turn("enable")
    /\ Committed(IF session = "paused" THEN "paused" ELSE "on", session)
    /\ IF Owner = None THEN queue' = Tail(queue) /\ UNCHANGED <<actions, shown>>
       ELSE IF actions[Owner].kind = "enable" THEN Complete(Owner)
       ELSE IF Aborted(Owner) THEN Cancel(Owner)
       ELSE \/ StartIfNeeded(Owner)
            \/ CaptureStarts(Owner)
            \/ /\ session' \notin {"none", "closed"}
               /\ actions[Owner].kind = "start" \/ session' = "working"
               /\ Complete(Owner)
    /\ UNCHANGED <<trusted, epochs, disposed, kept, disk, intent, bounds>>

(* A command that carries the revision it was decided on is refused when   *)
(* anything was committed since.                                           *)
Accepted(allowed) == allowed /\ actions[Owner].base = revision

CommitStart ==
    /\ Turn("start")
    /\ IF ~Accepted(session = "none") THEN UNCHANGED runtime /\ Cancel(Owner)
       ELSE /\ Committed("on", "briefing")
            /\ IF actions[Owner].kind = "join" /\ Aborted(Owner) THEN Cancel(Owner)
               ELSE \/ CaptureStarts(Owner)
                    \/ actions[Owner].kind = "start" /\ Complete(Owner)
    /\ UNCHANGED <<trusted, epochs, disposed, kept, disk, intent, bounds>>

(* CaptureEntry of a briefing, ResumeSession of a paused session.          *)
CommitEntry ==
    /\ Turn("entry")
    /\ \/ /\ ~Accepted(session \in {"briefing", "paused"})
          /\ UNCHANGED runtime /\ Cancel(Owner)
       \/ /\ Accepted(session \in {"briefing", "paused"})
          /\ revision' = revision + 1
          /\ status' = "on"
          /\ session' = IF session = "paused" THEN "working" ELSE session
          /\ Complete(Owner)
    /\ UNCHANGED <<trusted, epochs, disposed, kept, disk, intent, bounds>>

CommitPause ==
    /\ Turn("pause")
    /\ Committed(IF status = "off" THEN "off" ELSE "paused",
                 IF session = "working" THEN "paused" ELSE session)
    /\ Ends(Owner)
    /\ queue' = Tail(queue)
    /\ ApplyUnlessDisposed
    /\ UNCHANGED <<trusted, epochs, disposed, kept, disk, intent, bounds>>

(* performDisable goes on with the journal.                                *)
CommitOff ==
    /\ Turn("off")
    /\ Committed("off", "none")
    /\ To(Owner, "clearing")
    /\ tasks' = Append(tasks, Task("clear", Owner))
    /\ queue' = Tail(queue)
    /\ UNCHANGED <<trusted, epochs, disposed, kept, stored, restoring, shown, intent, bounds>>

CommitObservation ==
    /\ Turn("observe")
    /\ revision' = IF status = "on" THEN revision + 1 ELSE revision
    /\ queue' = Tail(queue)
    /\ UNCHANGED <<status, session, trusted, actions, epochs, disposed, kept, disk, shown,
                   intent, bounds>>

CommitNext ==
    \/ CommitEnable \/ CommitStart \/ CommitEntry \/ CommitPause \/ CommitOff
    \/ CommitObservation

(* Fault: a capture that was aborted never settles.                        *)
CaptureEndsIfCurrent(a) ==
    /\ actions[a].step = "capturing" /\ ~Aborted(a)
    /\ \/ To(a, "queued") /\ queue' = Enqueued("entry", a) /\ UNCHANGED failures
       \/ /\ failures < MaxFailures /\ failures' = failures + 1
          /\ Ends(a) /\ UNCHANGED queue
    /\ UNCHANGED <<runtime, trusted, epochs, disposed, kept, disk, shown, intent, edits, others>>

(* The workspace was read for an entry, or could not be.                   *)
CaptureEnds(a) ==
    /\ actions[a].step = "capturing"
    /\ \/ /\ Aborted(a)
          /\ Ends(a) /\ UNCHANGED <<queue, failures>>
       \/ /\ ~Aborted(a)
          /\ To(a, "queued") /\ queue' = Enqueued("entry", a) /\ UNCHANGED failures
       \/ /\ failures < MaxFailures /\ failures' = failures + 1
          /\ Ends(a) /\ UNCHANGED queue
    /\ UNCHANGED <<runtime, trusted, epochs, disposed, kept, disk, shown, intent, edits, others>>

(* The developer closes the message of a start on a paused session.        *)
Acknowledge(a) ==
    /\ actions[a].step = "telling"
    /\ Ends(a)
    /\ UNCHANGED runtime
    /\ ApplyIfCurrent(a)
    /\ UNCHANGED <<queue, trusted, epochs, disposed, kept, disk, intent, bounds>>

(* The chat participant: /quiet enables presence past this controller, the *)
(* setup agrees a unit, a tool closes the session.                         *)
OthersAct ==
    /\ others < MaxOthers /\ others' = others + 1
    /\ intent' = "on"
    /\ \/ queue' = Enqueued("enable", None) /\ UNCHANGED runtime
       \/ /\ status = "on" /\ session = "briefing" /\ Committed("on", "working")
          /\ UNCHANGED queue
       \/ /\ session \in {"briefing", "working", "paused"} /\ Committed("on", "closed")
          /\ UNCHANGED queue
    /\ UNCHANGED <<trusted, actions, epochs, disposed, kept, disk, shown, edits, failures>>

-----------------------------------------------------------------------------
(* Edits, their episodes and the journal.                                  *)

(* A change reaches the listener.                                          *)
Edit ==
    /\ edits < MaxEdits /\ listener # None
    /\ edits' = edits + 1
    /\ IF disposed \/ listener # generation \/ status # "on"
       THEN UNCHANGED <<queue, kept>>
       ELSE /\ window' = Observed("live")
            /\ queue' = Enqueued("observe", None)
            /\ pending' = Gathered(edits')
            /\ timers' = timers \cup {Gathered(edits')}
            /\ unreported' = unreported \cup {edits'}
    /\ UNCHANGED <<runtime, trusted, actions, epochs, disposed, disk, shown, intent,
                   failures, others>>

(* Fault: a timer does not look whether it is still the one that counts.   *)
FiresAnyway(timer) == pending # None

Fires(timer) == pending # None /\ pending.timer = timer.timer

(* A timer that was replaced may fire all the same: the scheduler is not   *)
(* trusted to cancel it.                                                   *)
TimerFires(timer) ==
    /\ timers' = timers \ {timer}
    /\ IF Fires(timer)
       THEN /\ pending' = None
            /\ unreported' = unreported \ timer.edits
            /\ tasks' = Journalled
       ELSE UNCHANGED <<pending, unreported, tasks>>
    /\ UNCHANGED <<runtime, queue, trusted, actions, epochs, disposed, window, stored,
                   restoring, shown, intent, bounds>>

TaskDone ==
    /\ tasks # <<>>
    /\ LET task == Head(tasks)
       IN  /\ stored' = CASE task.kind = "append" -> TRUE
                          [] task.kind = "clear" -> FALSE
                          [] OTHER -> stored
           /\ restoring' = IF task.kind # "replay" THEN restoring
                           ELSE [restoring EXCEPT !.found = stored]
           /\ UNCHANGED runtime
           /\ IF task.kind = "clear" THEN Ends(task.by) /\ ApplyUnlessDisposed
              ELSE UNCHANGED <<actions, shown>>
    /\ tasks' = Tail(tasks)
    /\ UNCHANGED <<queue, trusted, epochs, disposed, kept, intent, bounds>>

(* Whatever fails, the controller fails closed: it pauses, in whatever     *)
(* generation it is by now; a disable whose clear failed goes on to apply  *)
(* the snapshot.                                                           *)
TaskFails(a) ==
    /\ tasks # <<>> /\ Free(a)
    /\ failures < MaxFailures /\ failures' = failures + 1
    /\ generation' = generation + 1 /\ lifetime' = lifetime + 1
    /\ Dropped
    /\ UNCHANGED runtime
    /\ LET task == Head(tasks)
           paused == [actions EXCEPT ![a] = Started("pause")]
       IN  IF task.kind = "clear" /\ ~disposed /\ status = "on"
           THEN /\ actions' = [paused EXCEPT ![task.by] = Ended]
                /\ view' = "on" /\ listener' = generation' /\ context' = TRUE
           ELSE /\ actions' = IF task.kind # "clear" THEN paused
                              ELSE [paused EXCEPT ![task.by] = Ended]
                /\ view' = IF task.kind = "clear" /\ ~disposed THEN status ELSE view
                /\ listener' = None /\ context' = FALSE
    /\ queue' = Enqueued("pause", a)
    /\ tasks' = Tail(tasks)
    /\ intent' = IF intent \in {"disable", "disable again"} THEN intent ELSE "pause"
    /\ UNCHANGED <<trusted, restoration, disposed, window, timers, stored,
                   restoring, edits, others>>

(* Fault: what was replayed is kept without looking at the generation.     *)
RestoresAlways == TRUE

Restores == restoring.generation = restoration

(* reconcileJournal goes on once the replay has answered.                  *)
Reconcile ==
    /\ restoring.found \in BOOLEAN
    /\ restoring' = [restoring EXCEPT !.found = None]
    /\ window' = IF Restores /\ restoring.found THEN Observed("restored") ELSE window
    /\ UNCHANGED <<runtime, queue, trusted, actions, epochs, disposed, pending, timers,
                   unreported, stored, tasks, shown, intent, bounds>>

-----------------------------------------------------------------------------
Continue(a) == Refuse(a) \/ Supersede(a) \/ Admit(a) \/ CaptureEnds(a)

Next ==
    \/ \E a \in ActionIds, kind \in Trusting : Begin(a, kind)
    \/ \E a \in ActionIds : Pause(a) \/ Disable(a) \/ TaskFails(a) \/ Continue(a) \/ Acknowledge(a)
    \/ Dispose \/ CommitNext \/ OthersAct \/ Edit \/ TaskDone \/ Reconcile
    \/ \E timer \in timers : TimerFires(timer)

Spec == Init /\ [][Next]_vars

(* The event loop runs every continuation; captures and journal operations *)
(* answer.  Nothing is asked of the developer, who may leave a message     *)
(* standing for ever.                                                      *)
FairSpec ==
    /\ Spec
    /\ \A a \in ActionIds : WF_vars(Continue(a))
    /\ WF_vars(CommitNext) /\ WF_vars(TaskDone)

-----------------------------------------------------------------------------
(* Nothing is under way but messages that nobody has closed yet.           *)
Settled ==
    /\ \A a \in ActionIds : actions[a].step \in {"idle", "telling", "ended"}
    /\ queue = <<>> /\ tasks = <<>> /\ restoring.found = None

NotObserving == listener = None /\ ~context /\ (disposed \/ ~trusted \/ view = status)

(* A listener is attached only in the present generation and only while    *)
(* the developer can see that Pair observes: no late continuation attaches *)
(* one after a pause, a disable or the end of the extension.               *)
ListenerIsCurrent ==
    listener # None => listener = generation /\ view = "on" /\ ~disposed

(* When the developer disabled Pair, no other disable being under way, and *)
(* asked for nothing since, it ends off, observing nothing, with nothing   *)
(* kept: no command begun before, no replay, no timer and no append that   *)
(* was still on its way brings presence, session, window or journal back.  *)
DisableForgets ==
    Settled /\ intent = "disable" =>
        /\ status = "off" /\ session = "none"
        /\ NotObserving
        /\ window = {} /\ pending = None
        /\ failures = 0 => ~stored

(* When the developer paused, or the journal failed, and nothing was asked *)
(* for since, presence ends paused or off and observes nothing, whatever   *)
(* was under way.                                                          *)
PauseStops ==
    Settled /\ intent = "pause" => status # "on" /\ NotObserving

(* Every edit that was recorded is in the one pending episode until it is  *)
(* reported with it or dropped by a pause: no timer that was replaced      *)
(* reports part of an episode, and none reports an edit twice.             *)
EditsAreGathered ==
    unreported = IF pending = None THEN {} ELSE pending.edits

(* Every command ends, whatever others do in between; one that starts a    *)
(* paused session may wait for its message to be closed, and for nothing   *)
(* else.                                                                   *)
ActionsEnd ==
    \A a \in ActionIds :
        actions[a].step \notin {"idle", "ended"} ~> actions[a].step \in {"telling", "ended"}
=============================================================================
