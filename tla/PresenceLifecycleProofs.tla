------------------------ MODULE PresenceLifecycleProofs ------------------------
(***************************************************************************)
(* What the developer asked for last wins, for any number of commands,     *)
(* edits, failures and steps of others: a listener is of the present       *)
(* generation, edits are gathered once, a pause stops and a disable        *)
(* forgets.                                                                *)
(*                                                                         *)
(* PauseStops and DisableForgets speak of a state in which nothing is      *)
(* under way.  PauseHolds and DisableHolds say how it gets there: every    *)
(* command begun before is stale, so that it can neither be admitted nor   *)
(* put anything behind the pause or the disable in the queue; and until    *)
(* that has had its turn and the journal is cleared, these are still to    *)
(* come.                                                                   *)
(***************************************************************************)
EXTENDS PresenceLifecycle, TLAPS

Loud == {"enable", "start", "entry"}

Transitions ==
    [kind : Loud \cup {"pause", "off"}, by : ActionIds]
        \cup [kind : {"enable", "observe"}, by : {None}]

Tasks == [kind : {"clear"}, by : ActionIds] \cup [kind : {"append", "replay"}, by : {None}]

ActionSteps == {"idle", "asking", "queued", "capturing", "telling", "clearing", "ended"}

Action ==
    [kind : Kinds \cup {"none"}, step : ActionSteps, generation : Nat, lifetime : Nat,
     base : Nat]

Episode == [edits : SUBSET Nat, timer : Nat]

Numbers ==
    /\ status \in {"off", "on", "paused"}
    /\ revision \in Nat /\ generation \in Nat /\ restoration \in Nat /\ lifetime \in Nat
    /\ edits \in Nat /\ failures \in Nat

Flags ==
    /\ trusted \in BOOLEAN /\ disposed \in BOOLEAN /\ context \in BOOLEAN
    /\ stored \in BOOLEAN

Structures ==
    /\ restoring \in [generation : {0}, found : BOOLEAN \cup {None}]
    /\ actions \in [ActionIds -> Action]
    /\ queue \in Seq(Transitions)
    /\ tasks \in Seq(Tasks)
    /\ timers \subseteq Episode
    /\ pending \in Episode \cup {None}

PresenceTypeOK == Numbers /\ Flags /\ Structures

(* Generations and lifetimes only grow, and no command is ahead of them.   *)
NotAhead ==
    \A a \in ActionIds :
        /\ actions[a].generation <= generation
        /\ actions[a].lifetime <= lifetime

(* Whoever waits in the queue or for the journal is known by its command.  *)
Waits(transition, acts) ==
    LET by == transition.by
    IN  IF transition.kind = "off"
        THEN acts[by].kind = "disable" /\ acts[by].step = "queued"
        ELSE by # None => acts[by].kind # "disable" /\ acts[by].step # "idle"

QueueFits(q, acts) == \A i \in 1..Len(q) : Waits(q[i], acts)

Clears(task, acts) ==
    task.kind = "clear" => acts[task.by].kind = "disable" /\ acts[task.by].step = "clearing"

TasksFit(t, acts) == \A i \in 1..Len(t) : Clears(t[i], acts)

OnTheirWay(acts) ==
    \A a \in ActionIds :
        acts[a].step \in {"asking", "capturing", "telling"} => acts[a].kind # "disable"

OwnersFit ==
    QueueFits(queue, actions) /\ TasksFit(tasks, actions) /\ OnTheirWay(actions)

(* No two disables share a command.                                        *)
Differ(q, kind) ==
    \A i, j \in 1..Len(q) :
        q[i].kind = kind /\ q[j].kind = kind /\ q[i].by = q[j].by => i = j

OwnersDiffer == Differ(queue, "off") /\ Differ(tasks, "clear")

ContextFits == listener = None => ~context

(* A timer that still counts has closed over the whole pending episode.    *)
TimersFit ==
    \A timer \in timers :
        /\ timer.timer <= edits
        /\ Fires(timer) => timer.edits = pending.edits

-----------------------------------------------------------------------------
(* Every command was begun, and every capture admitted, before the halt.   *)
Stale ==
    \A a \in ActionIds :
        /\ actions[a].generation < generation
        /\ actions[a].lifetime < lifetime

NoLoud(q) == \A i \in 1..Len(q) : q[i].kind \notin Loud

(* The first transition of a kind is still to come, with nothing loud      *)
(* behind it.                                                              *)
Awaits(q, kind) ==
    \E i \in 1..Len(q) :
        /\ q[i].kind = kind
        /\ \A j \in 1..Len(q) : j > i => q[j].kind \notin Loud

AwaitsFirst(q, kind) ==
    \E i \in 1..Len(q) :
        /\ q[i].kind = kind
        /\ \A j \in 1..Len(q) : j < i => q[j].kind # kind
        /\ \A j \in 1..Len(q) : j > i => q[j].kind \notin Loud

Has(t, kind) == \E i \in 1..Len(t) : t[i].kind = kind

Dark == listener = None /\ ~context

Shown == disposed \/ ~trusted \/ view = status \/ Has(tasks, "clear")

IsPaused == NoLoud(queue) /\ status # "on" /\ Dark /\ Shown

PauseHolds == intent = "pause" => Stale /\ (Awaits(queue, "pause") \/ IsPaused)

(* The journal is empty, or will be after everything that it still gets.   *)
Cleared(t, onDisk) ==
    \/ ~onDisk /\ ~Has(t, "append")
    \/ \E i \in 1..Len(t) :
          /\ t[i].kind = "clear"
          /\ \A j \in 1..Len(t) : j > i => t[j].kind # "append"

IsOff ==
    /\ NoLoud(queue) /\ status = "off" /\ session = "none" /\ Shown
    /\ failures = 0 => Cleared(tasks, stored)

Forgotten == Dark /\ restoration > 0 /\ window = {} /\ pending = None

DisableHolds ==
    intent = "disable" =>
        /\ Stale /\ Forgotten
        /\ (AwaitsFirst(queue, "off") /\ ~Has(tasks, "clear")) \/ IsOff

IInv ==
    /\ PresenceTypeOK /\ NotAhead /\ OwnersFit /\ OwnersDiffer
    /\ ContextFits /\ ListenerIsCurrent
    /\ TimersFit /\ EditsAreGathered
    /\ PauseHolds /\ DisableHolds

-----------------------------------------------------------------------------
(* Joining and leaving a queue.                                            *)

LEMMA AppendLast ==
  ASSUME NEW S, NEW q \in Seq(S), NEW x \in S
  PROVE  /\ Append(q, x) \in Seq(S) /\ Len(q) \in Nat
         /\ Len(Append(q, x)) = Len(q) + 1
         /\ \A i \in 1..Len(q) : Append(q, x)[i] = q[i]
         /\ Append(q, x)[Len(q) + 1] = x
OBVIOUS

LEMMA TailShifts ==
  ASSUME NEW S, NEW q \in Seq(S), q # <<>>
  PROVE  /\ Tail(q) \in Seq(S) /\ Len(q) \in Nat \ {0}
         /\ Len(Tail(q)) = Len(q) - 1
         /\ \A i \in 1..(Len(q) - 1) : Tail(q)[i] = q[i + 1]
         /\ Head(q) = q[1] /\ q[1] \in S
OBVIOUS

LEMMA NoLoudAppend ==
  ASSUME NEW q \in Seq(Transitions), NEW x \in Transitions, NoLoud(q), x.kind \notin Loud
  PROVE  NoLoud(Append(q, x))
<1>1. SUFFICES ASSUME NEW i \in 1..(Len(q) + 1)
               PROVE  Append(q, x)[i].kind \notin Loud
  BY AppendLast DEF NoLoud
<1>2. CASE i = Len(q) + 1
  BY <1>2, AppendLast
<1>3. CASE i \in 1..Len(q)
  BY <1>3, AppendLast DEF NoLoud
<1> QED
  BY <1>2, <1>3, AppendLast

LEMMA NoLoudTail ==
  ASSUME NEW q \in Seq(Transitions), q # <<>>, NoLoud(q)
  PROVE  NoLoud(Tail(q))
<1>1. SUFFICES ASSUME NEW i \in 1..(Len(q) - 1)
               PROVE  Tail(q)[i].kind \notin Loud
  BY TailShifts DEF NoLoud
<1>2. i + 1 \in 1..Len(q) /\ Tail(q)[i] = q[i + 1]
  BY TailShifts
<1> QED
  BY <1>2 DEF NoLoud

(* What joins the queue last is awaited.                                   *)
LEMMA AwaitsNew ==
  ASSUME NEW q \in Seq(Transitions), NEW x \in Transitions
  PROVE  /\ Awaits(Append(q, x), x.kind)
         /\ (\A i \in 1..Len(q) : q[i].kind # x.kind) => AwaitsFirst(Append(q, x), x.kind)
<1> DEFINE p == Append(q, x)
           n == Len(q) + 1
<1>1. /\ Len(p) = n /\ n \in 1..n /\ p[n] = x
      /\ \A j \in 1..n : ~(j > n)
      /\ \A j \in 1..n : j < n => j \in 1..Len(q) /\ p[j] = q[j]
  BY AppendLast
<1> HIDE DEF p, n
<1> QED
  BY <1>1 DEF Awaits, AwaitsFirst, p

LEMMA AwaitsAppend ==
  ASSUME NEW q \in Seq(Transitions), NEW x \in Transitions, NEW kind, x.kind \notin Loud
  PROVE  /\ Awaits(q, kind) => Awaits(Append(q, x), kind)
         /\ AwaitsFirst(q, kind) => AwaitsFirst(Append(q, x), kind)
<1> DEFINE p == Append(q, x)
           n == Len(q)
<1>1. /\ Len(p) = n + 1 /\ n \in Nat
      /\ \A j \in 1..n : p[j] = q[j]
      /\ p[n + 1] = x
  BY AppendLast
<1> HIDE DEF p
<1>2. \A i \in 1..n : /\ i \in 1..(n + 1) /\ p[i] = q[i]
                      /\ \A j \in 1..(n + 1) : j < i => j \in 1..n /\ p[j] = q[j]
                      /\ (\A j \in 1..n : j > i => q[j].kind \notin Loud)
                             => \A j \in 1..(n + 1) : j > i => p[j].kind \notin Loud
  <2> SUFFICES ASSUME NEW i \in 1..n
               PROVE  /\ i \in 1..(n + 1) /\ p[i] = q[i]
                      /\ \A j \in 1..(n + 1) : j < i => j \in 1..n /\ p[j] = q[j]
                      /\ (\A j \in 1..n : j > i => q[j].kind \notin Loud)
                             => \A j \in 1..(n + 1) : j > i => p[j].kind \notin Loud
    OBVIOUS
  <2>1. \A j \in 1..(n + 1) : j = n + 1 \/ j \in 1..n
    BY <1>1
  <2>2. i \in 1..(n + 1) /\ p[i] = q[i]
    BY <1>1
  <2>3. \A j \in 1..(n + 1) : j < i => j \in 1..n /\ p[j] = q[j]
    BY <1>1
  <2> QED
    BY <1>1, <2>1, <2>2, <2>3
<1>3. Awaits(q, kind) => Awaits(p, kind)
  BY <1>1, <1>2 DEF Awaits
<1>4. AwaitsFirst(q, kind) => AwaitsFirst(p, kind)
  BY <1>1, <1>2 DEF AwaitsFirst
<1> QED
  BY <1>3, <1>4 DEF p

(* Whoever is awaited comes nearer, or is next; then nothing loud follows. *)
LEMMA AwaitsTail ==
  ASSUME NEW q \in Seq(Transitions), q # <<>>, NEW kind
  PROVE  /\ Awaits(q, kind) => Awaits(Tail(q), kind) \/ (Head(q).kind = kind /\ NoLoud(Tail(q)))
         /\ AwaitsFirst(q, kind) =>
               \/ AwaitsFirst(Tail(q), kind) /\ Head(q).kind # kind
               \/ Head(q).kind = kind /\ NoLoud(Tail(q))
<1> DEFINE p == Tail(q)
           n == Len(q)
<1>1. /\ Len(p) = n - 1 /\ n \in Nat \ {0} /\ Head(q) = q[1]
      /\ \A j \in 1..(n - 1) : p[j] = q[j + 1] /\ j + 1 \in 1..n
  BY TailShifts
<1> HIDE DEF p, n
<1>2. ASSUME NEW i \in 1..n, \A j \in 1..n : j > i => q[j].kind \notin Loud, i = 1
      PROVE  NoLoud(p)
  BY <1>1, <1>2 DEF NoLoud
<1>3. ASSUME NEW i \in 1..n, \A j \in 1..n : j > i => q[j].kind \notin Loud, i # 1
      PROVE  /\ i - 1 \in 1..Len(p) /\ p[i - 1] = q[i]
             /\ \A j \in 1..Len(p) : j > i - 1 => p[j].kind \notin Loud
             /\ \A j \in 1..Len(p) : j < i - 1 => p[j] = q[j + 1] /\ j + 1 < i /\ j + 1 \in 1..n
             /\ 1 < i /\ 1 \in 1..n
  <2>1. i - 1 \in 1..Len(p)
    BY <1>1, <1>3
  <2>2. p[i - 1] = q[i]
    BY <1>1, <2>1
  <2>3. \A j \in 1..Len(p) : j > i - 1 => p[j].kind \notin Loud
    BY <1>1, <1>3
  <2>4. \A j \in 1..Len(p) : j < i - 1 => p[j] = q[j + 1] /\ j + 1 < i /\ j + 1 \in 1..n
    BY <1>1
  <2> QED
    BY <1>1, <1>3, <2>1, <2>2, <2>3, <2>4
<1>4. ASSUME Awaits(q, kind)
      PROVE  Awaits(p, kind) \/ (Head(q).kind = kind /\ NoLoud(p))
  <2>1. PICK i \in 1..n : q[i].kind = kind /\ \A j \in 1..n : j > i => q[j].kind \notin Loud
    BY <1>4 DEF Awaits, n
  <2>2. CASE i = 1
    BY <1>1, <1>2, <2>1, <2>2
  <2>3. CASE i # 1
    BY <1>3, <2>1, <2>3 DEF Awaits
  <2> QED
    BY <2>2, <2>3
<1>5. ASSUME AwaitsFirst(q, kind)
      PROVE  \/ AwaitsFirst(p, kind) /\ Head(q).kind # kind
             \/ Head(q).kind = kind /\ NoLoud(p)
  <2>1. PICK i \in 1..n : /\ q[i].kind = kind
                          /\ \A j \in 1..n : j < i => q[j].kind # kind
                          /\ \A j \in 1..n : j > i => q[j].kind \notin Loud
    BY <1>5 DEF AwaitsFirst, n
  <2>2. CASE i = 1
    BY <1>1, <1>2, <2>1, <2>2
  <2>3. CASE i # 1
    <3>1. /\ i - 1 \in 1..Len(p) /\ p[i - 1] = q[i]
          /\ \A j \in 1..Len(p) : j > i - 1 => p[j].kind \notin Loud
          /\ \A j \in 1..Len(p) : j < i - 1 => p[j].kind # kind
          /\ q[1].kind # kind
      BY <1>3, <2>1, <2>3
    <3> QED
      BY <1>1, <2>1, <3>1 DEF AwaitsFirst
  <2> QED
    BY <2>2, <2>3
<1> QED
  BY <1>4, <1>5 DEF p

-----------------------------------------------------------------------------
(* Types.                                                                  *)

LEMMA NamesOfActions ==
  /\ ActionIds \subseteq Nat /\ None \notin ActionIds /\ None \notin Nat
  /\ None \notin Episode
BY LifecycleAssumption DEF ActionIds, Episode

LEMMA OwnerType ==
  ASSUME PresenceTypeOK, queue # <<>>
  PROVE  /\ Head(queue) \in Transitions /\ Head(queue) = queue[1] /\ 1 \in 1..Len(queue)
         /\ Tail(queue) \in Seq(Transitions)
         /\ Head(queue).kind \in {"start", "entry", "pause", "off"} => Owner \in ActionIds
         /\ Owner # None => Owner \in ActionIds
<1>1. queue \in Seq(Transitions)
  BY DEF PresenceTypeOK, Structures
<1>2. Head(queue) \in Transitions /\ Head(queue) = queue[1] /\ 1 \in 1..Len(queue)
      /\ Tail(queue) \in Seq(Transitions)
  BY <1>1, TailShifts
<1> QED
  BY <1>2 DEF Transitions, Owner

LEMMA AcknowledgeFrame ==
  ASSUME NEW a \in ActionIds, Acknowledge(a)
  PROVE  /\ actions[a].step = "telling" /\ actions' = [actions EXCEPT ![a] = Ended]
         /\ UNCHANGED <<status, session, revision, queue, trusted, generation, restoration,
                         lifetime, disposed, window, pending, timers, unreported, stored,
                         tasks, restoring, intent, edits, failures>>
         /\ UNCHANGED shown \/ (ApplySnapshot /\ ~disposed /\ IsCurrentGeneration(a))
<1>1. /\ actions[a].step = "telling" /\ actions' = [actions EXCEPT ![a] = Ended]
      /\ UNCHANGED <<runtime, queue, trusted, epochs, disposed, kept, disk, intent, bounds>>
  BY DEF Acknowledge, Ends
<1>2. UNCHANGED shown \/ (ApplySnapshot /\ ~disposed /\ IsCurrentGeneration(a))
  BY DEF Acknowledge, ApplyIfCurrent, IsCurrentGeneration
<1> QED
  BY <1>1, <1>2 DEF runtime, epochs, kept, disk, bounds

LEMMA NumbersStep ==
  ASSUME Numbers, [Next]_vars
  PROVE  Numbers'
<1> USE DEF Numbers, runtime, epochs, kept, disk, shown, bounds
<1>1. ASSUME NEW a \in ActionIds, NEW kind \in Trusting, Begin(a, kind)
      PROVE  Numbers'
  BY <1>1 DEF Begin
<1>2. ASSUME NEW a \in ActionIds, Pause(a) \/ Disable(a) PROVE Numbers'
  <2>1. /\ generation' = generation + 1 /\ lifetime' = lifetime + 1
        /\ restoration' = restoration \/ restoration' = restoration + 1
        /\ UNCHANGED <<status, revision, edits, failures>>
    <3>1. CASE Pause(a)
      BY <3>1 DEF Pause, Halt
    <3>2. CASE Disable(a)
      BY <3>2 DEF Disable, Halt
    <3> QED
      BY <1>2, <3>1, <3>2
  <2> QED
    BY <2>1
<1>3. CASE Dispose
  BY <1>3 DEF Dispose, Halt
<1>4. ASSUME NEW a \in ActionIds, Continue(a) PROVE Numbers'
  BY <1>4 DEF Continue, Refuse, Supersede, Admit, CaptureEnds
<1>5. CASE OthersAct
  BY <1>5 DEF OthersAct, Committed
<1>6. CASE Edit \/ Reconcile \/ UNCHANGED vars
  BY <1>6 DEF Edit, Reconcile, vars
<1>7. ASSUME NEW timer \in timers, TimerFires(timer) PROVE Numbers'
  BY <1>7 DEF TimerFires
<1>8. CASE TaskDone
  BY <1>8 DEF TaskDone, ApplyUnlessDisposed, ApplySnapshot
<1>9. ASSUME NEW a \in ActionIds, TaskFails(a) PROVE Numbers'
  <2>1. /\ generation' = generation + 1 /\ lifetime' = lifetime + 1
        /\ failures' = failures + 1
        /\ UNCHANGED <<status, revision, restoration, edits>>
    BY <1>9 DEF TaskFails
  <2> QED
    BY <2>1
<1>10. CASE CommitNext
  <2>1. CASE CommitEnable \/ CommitStart
    BY <2>1 DEF CommitEnable, CommitStart, Committed, Complete, Cancel, StartIfNeeded,
                CaptureStarts, ApplyIfCurrent, ApplySnapshot
  <2>2. CASE CommitEntry \/ CommitPause \/ CommitOff \/ CommitObservation
    BY <2>2 DEF CommitEntry, CommitPause, CommitOff, CommitObservation, Committed, Complete,
                Cancel, ApplyIfCurrent, ApplyUnlessDisposed, ApplySnapshot
  <2> QED
    BY <1>10, <2>1, <2>2 DEF CommitNext
<1>11. ASSUME NEW a \in ActionIds, Acknowledge(a) PROVE Numbers'
  BY <1>11, AcknowledgeFrame
<1> QED
  BY <1>1, <1>2, <1>3, <1>4, <1>5, <1>6, <1>7, <1>8, <1>9, <1>10, <1>11 DEF Next

LEMMA FlagsStep ==
  ASSUME Flags, [Next]_vars
  PROVE  Flags'
<1> USE DEF Flags, runtime, epochs, kept, disk, shown, bounds
<1>1. ASSUME NEW a \in ActionIds, NEW kind \in Trusting, Begin(a, kind)
      PROVE  Flags'
  BY <1>1 DEF Begin
<1>2. ASSUME NEW a \in ActionIds, Pause(a) \/ Disable(a) PROVE Flags'
  BY <1>2 DEF Pause, Disable, Halt
<1>3. CASE Dispose
  BY <1>3 DEF Dispose, Halt
<1>4. ASSUME NEW a \in ActionIds, Continue(a) PROVE Flags'
  BY <1>4 DEF Continue, Refuse, Supersede, Admit, CaptureEnds
<1>5. CASE OthersAct
  BY <1>5 DEF OthersAct, Committed
<1>6. CASE Edit \/ Reconcile \/ UNCHANGED vars
  BY <1>6 DEF Edit, Reconcile, vars
<1>7. ASSUME NEW timer \in timers, TimerFires(timer) PROVE Flags'
  BY <1>7 DEF TimerFires
<1>8. CASE TaskDone
  BY <1>8 DEF TaskDone, ApplyUnlessDisposed, ApplySnapshot
<1>9. ASSUME NEW a \in ActionIds, TaskFails(a) PROVE Flags'
  BY <1>9 DEF TaskFails
<1>10. CASE CommitNext
  <2>1. CASE CommitEnable \/ CommitStart
    BY <2>1 DEF CommitEnable, CommitStart, Committed, Complete, Cancel, StartIfNeeded,
                CaptureStarts, ApplyIfCurrent, ApplySnapshot
  <2>2. CASE CommitEntry \/ CommitPause \/ CommitOff \/ CommitObservation
    BY <2>2 DEF CommitEntry, CommitPause, CommitOff, CommitObservation, Committed, Complete,
                Cancel, ApplyIfCurrent, ApplyUnlessDisposed, ApplySnapshot
  <2> QED
    BY <1>10, <2>1, <2>2 DEF CommitNext
<1>11. ASSUME NEW a \in ActionIds, Acknowledge(a) PROVE Flags'
  BY <1>11, AcknowledgeFrame DEF ApplySnapshot
<1> QED
  BY <1>1, <1>2, <1>3, <1>4, <1>5, <1>6, <1>7, <1>8, <1>9, <1>10, <1>11 DEF Next

LEMMA StructuresStep ==
  ASSUME PresenceTypeOK, [Next]_vars
  PROVE  Structures'
<1> USE NamesOfActions DEF PresenceTypeOK, Numbers, Structures
<1>0. ASSUME NEW a \in ActionIds
      PROVE  /\ actions[a] \in Action
             /\ \A action \in Action :
                   [actions EXCEPT ![a] = action] \in [ActionIds -> Action]
             /\ \A kind \in Loud \cup {"pause", "off"} :
                   Append(queue, Transition(kind, a)) \in Seq(Transitions)
  <2>1. \A kind \in Loud \cup {"pause", "off"} : Transition(kind, a) \in Transitions
    BY DEF Transition, Transitions
  <2> QED
    BY <2>1
<1>00. Idle \in Action /\ Ended \in Action
  BY DEF Idle, Ended, Action, ActionSteps
<1>1. ASSUME NEW a \in ActionIds, NEW kind \in Trusting, Begin(a, kind)
      PROVE  Structures'
  <2>1. [Idle EXCEPT !.kind = kind, !.step = "asking", !.generation = generation] \in Action
    BY DEF Idle, Action, ActionSteps, Kinds
  <2> QED
    BY <1>0, <1>1, <2>1 DEF Begin, runtime, epochs, kept, disk, shown, bounds
<1>2. ASSUME NEW a \in ActionIds, Pause(a) \/ Disable(a) PROVE Structures'
  <2>1. Started("pause") \in Action /\ Started("disable") \in Action
    BY DEF Idle, Action, ActionSteps, Kinds, Started
  <2>2. CASE Pause(a)
    BY <1>0, <2>1, <2>2 DEF Pause, Halt, Dropped, Enqueued, runtime, disk, bounds
  <2>3. CASE Disable(a)
    BY <1>0, <2>1, <2>3 DEF Disable, Halt, Dropped, Enqueued, runtime, disk, bounds
  <2> QED
    BY <1>2, <2>2, <2>3
<1>3. CASE Dispose
  <2>1. generation' \in Nat /\ lifetime' \in Nat /\ pending' = None
    BY <1>3 DEF Dispose, Halt, Dropped
  <2> QED
    BY <1>3, <2>1 DEF Dispose, runtime, disk, bounds
<1>4. ASSUME NEW a \in ActionIds, Refuse(a) \/ Supersede(a) PROVE Structures'
  BY <1>0, <1>00, <1>4
     DEF Refuse, Supersede, Ends, runtime, epochs, kept, disk, shown, bounds
<1>5. ASSUME NEW a \in ActionIds, Admit(a) PROVE Structures'
  <2>1. actions' = [actions EXCEPT ![a] = [actions[a] EXCEPT !.step = "queued",
                                                           !.lifetime = lifetime]]
    BY <1>5 DEF Admit
  <2>2. [actions[a] EXCEPT !.step = "queued", !.lifetime = lifetime] \in Action
    BY <1>0 DEF Action, ActionSteps
  <2> QED
    BY <1>0, <1>5, <2>1, <2>2
       DEF Admit, Enqueued, Loud, runtime, epochs, kept, disk, shown, bounds
<1>6. ASSUME NEW a \in ActionIds, CaptureEnds(a) PROVE Structures'
  <2>1. [actions[a] EXCEPT !.step = "queued"] \in Action
    BY <1>0 DEF Action, ActionSteps
  <2>2. \/ actions' = [actions EXCEPT ![a] = Ended] /\ queue' = queue
        \/ /\ actions' = [actions EXCEPT ![a] = [actions[a] EXCEPT !.step = "queued"]]
           /\ queue' = Append(queue, Transition("entry", a))
    BY <1>6 DEF CaptureEnds, To, Ends, Enqueued
  <2>3. actions' \in [ActionIds -> Action]
    BY <1>0, <1>00, <2>1, <2>2
  <2>4. queue' \in Seq(Transitions)
    <3>1. Append(queue, Transition("entry", a)) \in Seq(Transitions)
      BY <1>0 DEF Loud
    <3> QED
      BY <2>2, <3>1
  <2> QED
    BY <1>6, <2>3, <2>4 DEF CaptureEnds, runtime, epochs, kept, disk, shown
<1>7. CASE OthersAct
  <2>1. Transition("enable", None) \in Transitions
    BY DEF Transition, Transitions
  <2>2. queue' = queue \/ queue' = Append(queue, Transition("enable", None))
    BY <1>7 DEF OthersAct, Enqueued
  <2>3. queue' \in Seq(Transitions)
    BY <2>1, <2>2
  <2> QED
    BY <1>7, <2>3 DEF OthersAct, epochs, kept, disk, shown
<1>8. CASE Edit
  <2>1. Transition("observe", None) \in Transitions
    BY DEF Transition, Transitions
  <2>2. edits + 1 \in Nat /\ Gathered(edits + 1) \in Episode
    BY DEF Gathered, Episode
  <2>3. \/ UNCHANGED <<queue, pending, timers>>
        \/ /\ queue' = Append(queue, Transition("observe", None))
           /\ pending' = Gathered(edits + 1)
           /\ timers' = timers \cup {Gathered(edits + 1)}
    BY <1>8 DEF Edit, Enqueued, kept
  <2>4. queue' \in Seq(Transitions)
    BY <2>1, <2>3
  <2>5. pending' \in Episode \cup {None} /\ timers' \subseteq Episode
    BY <2>2, <2>3
  <2> QED
    BY <1>8, <2>4, <2>5 DEF Edit, runtime, epochs, disk, shown
<1>9. ASSUME NEW timer \in timers, TimerFires(timer) PROVE Structures'
  <2>1. Task("append", None) \in Tasks
    BY DEF Task, Tasks
  <2>2. tasks' \in Seq(Tasks)
    <3>1. tasks' = tasks \/ tasks' = Append(tasks, Task("append", None))
      BY <1>9 DEF TimerFires, Journalled
    <3> QED
      BY <2>1, <3>1
  <2>3. pending' \in Episode \cup {None} /\ timers' \subseteq Episode
    BY <1>9 DEF TimerFires
  <2> QED
    BY <1>9, <2>2, <2>3 DEF TimerFires, runtime, epochs, shown, bounds
<1>10. CASE Reconcile
  <2>1. restoring' \in [generation : {0}, found : BOOLEAN \cup {None}]
    BY <1>10 DEF Reconcile
  <2> QED
    BY <1>10, <2>1 DEF Reconcile, runtime, epochs, shown, bounds
<1>11. ASSUME tasks # <<>>
       PROVE  /\ Head(tasks) \in Tasks /\ Tail(tasks) \in Seq(Tasks)
              /\ Head(tasks).kind = "clear" => Head(tasks).by \in ActionIds
  <2>1. Head(tasks) \in Tasks /\ Tail(tasks) \in Seq(Tasks)
    BY <1>11, TailShifts
  <2> QED
    BY <2>1 DEF Tasks
<1>12. CASE TaskDone
  <2>1. actions' \in [ActionIds -> Action]
    BY <1>0, <1>00, <1>11, <1>12 DEF TaskDone, Ends, ApplyUnlessDisposed, ApplySnapshot, shown
  <2>2. restoring' \in [generation : {0}, found : BOOLEAN \cup {None}]
    <3>1. stored \in BOOLEAN
      BY DEF Flags
    <3> QED
      BY <1>12, <3>1 DEF TaskDone
  <2>3. tasks' \in Seq(Tasks)
    BY <1>11, <1>12 DEF TaskDone
  <2> QED
    BY <1>12, <2>1, <2>2, <2>3 DEF TaskDone, runtime, epochs, kept, bounds
<1>13. ASSUME NEW a \in ActionIds, TaskFails(a) PROVE Structures'
  <2>1. Started("pause") \in Action
    BY DEF Idle, Action, ActionSteps, Kinds, Started
  <2>2. actions' \in [ActionIds -> Action]
    <3> DEFINE paused == [actions EXCEPT ![a] = Started("pause")]
    <3>1. paused \in [ActionIds -> Action]
      BY <1>0, <2>1
    <3>2. \/ actions' = paused
          \/ /\ Head(tasks).kind = "clear" /\ tasks # <<>>
             /\ actions' = [paused EXCEPT ![Head(tasks).by] = Ended]
      BY <1>13 DEF TaskFails
    <3> HIDE DEF paused
    <3> QED
      BY <1>00, <1>11, <3>1, <3>2
  <2>3. queue' \in Seq(Transitions) /\ tasks' \in Seq(Tasks)
    BY <1>0, <1>11, <1>13 DEF TaskFails, Enqueued
  <2> QED
    BY <1>13, <2>2, <2>3 DEF TaskFails, Dropped, runtime
<1>14. ASSUME CommitNext PROVE Structures'
  <2>1. queue # <<>>
    BY <1>14 DEF CommitNext, CommitEnable, CommitStart, CommitEntry, CommitPause, CommitOff,
                 CommitObservation, Turn
  <2> USE OwnerType
  <2>2. ASSUME NEW a \in ActionIds
        PROVE  /\ Append(Tail(queue), Transition("start", a)) \in Seq(Transitions)
               /\ \A base \in Nat, step \in ActionSteps :
                     [actions[a] EXCEPT !.step = step, !.base = base] \in Action
               /\ \A step \in ActionSteps : [actions[a] EXCEPT !.step = step] \in Action
    <3>1. Append(Tail(queue), Transition("start", a)) \in Seq(Transitions)
      <4>1. Transition("start", a) \in Transitions
        BY DEF Transition, Transitions, Loud
      <4> QED
        BY <2>1, <4>1
    <3>2. ASSUME NEW action \in Action, NEW step \in ActionSteps, NEW base \in Nat
          PROVE  /\ [action EXCEPT !.step = step, !.base = base] \in Action
                 /\ [action EXCEPT !.step = step] \in Action
      BY <3>2 DEF Action
    <3> QED
      BY <1>0, <3>1, <3>2
  <2>3. ASSUME NEW newStatus \in {"off", "on", "paused"}, NEW newSession,
               Committed(newStatus, newSession)
        PROVE  status' \in {"off", "on", "paused"} /\ revision' \in Nat
    BY <2>3 DEF Committed
  <2>4. ASSUME NEW a \in ActionIds, revision' \in Nat,
               StartIfNeeded(a) \/ CaptureStarts(a)
        PROVE  /\ actions' \in [ActionIds -> Action]
               /\ queue' \in Seq(Transitions)
    <3>1. PICK step \in ActionSteps :
             actions' = [actions EXCEPT ![a] = [actions[a] EXCEPT !.step = step,
                                                                 !.base = revision']]
      BY <2>4 DEF StartIfNeeded, CaptureStarts, ActionSteps
    <3> QED
      BY <1>0, <2>1, <2>2, <2>4, <3>1 DEF StartIfNeeded, CaptureStarts, shown
  <2>5. ASSUME NEW a \in ActionIds, Complete(a) \/ Cancel(a)
        PROVE  /\ actions' \in [ActionIds -> Action]
               /\ queue' \in Seq(Transitions)
    <3>1. /\ queue' = Tail(queue)
          /\ \/ actions' = [actions EXCEPT ![a] = Ended]
             \/ actions' = [actions EXCEPT ![a] = [actions[a] EXCEPT !.step = "telling"]]
      BY <2>5 DEF Complete, Cancel, Ends, To
    <3>2. [actions[a] EXCEPT !.step = "telling"] \in Action
      BY <2>2 DEF ActionSteps
    <3> QED
      BY <1>0, <1>00, <2>1, <3>1, <3>2
  <2>6. CASE CommitEnable
    <3>1. status' \in {"off", "on", "paused"} /\ revision' \in Nat
      BY <2>3, <2>6 DEF CommitEnable
    <3>2. /\ actions' \in [ActionIds -> Action]
          /\ queue' \in Seq(Transitions)
      <4>1. CASE Owner = None
        BY <2>1, <2>6, <4>1 DEF CommitEnable, shown
      <4>2. CASE Owner # None
        BY <2>1, <2>4, <2>5, <2>6, <3>1, <4>2 DEF CommitEnable
      <4> QED
        BY <4>1, <4>2
    <3> QED
      BY <2>6, <3>1, <3>2 DEF CommitEnable, epochs, kept, disk, bounds
  <2>7. CASE CommitStart
    <3>0. Owner \in ActionIds
      BY <2>1, <2>7 DEF CommitStart, Turn
    <3>1. status' \in {"off", "on", "paused"} /\ revision' \in Nat
      BY <2>3, <2>7 DEF CommitStart, runtime
    <3>2. /\ actions' \in [ActionIds -> Action]
          /\ queue' \in Seq(Transitions)
      BY <2>4, <2>5, <2>7, <3>0, <3>1 DEF CommitStart
    <3> QED
      BY <2>7, <3>1, <3>2 DEF CommitStart, epochs, kept, disk, bounds
  <2>8. CASE CommitEntry
    <3>0. Owner \in ActionIds
      BY <2>1, <2>8 DEF CommitEntry, Turn
    <3>1. status' \in {"off", "on", "paused"} /\ revision' \in Nat
      BY <2>8 DEF CommitEntry, runtime
    <3>2. /\ actions' \in [ActionIds -> Action]
          /\ queue' \in Seq(Transitions)
      BY <2>5, <2>8, <3>0 DEF CommitEntry
    <3> QED
      BY <2>8, <3>1, <3>2 DEF CommitEntry, epochs, kept, disk, bounds
  <2>9. CASE CommitPause
    <3>0. Owner \in ActionIds
      BY <2>1, <2>9 DEF CommitPause, Turn
    <3>1. status' \in {"off", "on", "paused"} /\ revision' \in Nat
      BY <2>3, <2>9 DEF CommitPause
    <3>2. actions' \in [ActionIds -> Action]
      BY <1>0, <1>00, <2>9, <3>0 DEF CommitPause, Ends
    <3>3. queue' \in Seq(Transitions)
      BY <2>1, <2>9 DEF CommitPause, ApplyUnlessDisposed, ApplySnapshot, shown
    <3> QED
      BY <2>9, <3>1, <3>2, <3>3 DEF CommitPause, epochs, kept, disk, bounds
  <2>10. CASE CommitOff
    <3>0. Owner \in ActionIds
      BY <2>1, <2>10 DEF CommitOff, Turn
    <3>1. status' \in {"off", "on", "paused"} /\ revision' \in Nat
      BY <2>3, <2>10 DEF CommitOff
    <3>2. actions' \in [ActionIds -> Action]
      BY <1>0, <2>2, <2>10, <3>0 DEF CommitOff, To, ActionSteps
    <3>3. Task("clear", Owner) \in Tasks
      BY <3>0 DEF Task, Tasks
    <3>4. queue' \in Seq(Transitions) /\ tasks' \in Seq(Tasks)
      BY <2>1, <2>10, <3>3 DEF CommitOff
    <3> QED
      BY <2>10, <3>1, <3>2, <3>4 DEF CommitOff, epochs, kept, shown, bounds
  <2>11. CASE CommitObservation
    BY <2>1, <2>11 DEF CommitObservation, epochs, kept, disk, shown, bounds
  <2> QED
    BY <1>14, <2>6, <2>7, <2>8, <2>9, <2>10, <2>11 DEF CommitNext
<1>15. CASE UNCHANGED vars
  BY <1>15 DEF vars, runtime, epochs, kept, disk, shown, bounds
<1>16. ASSUME NEW a \in ActionIds, Acknowledge(a) PROVE Structures'
  BY <1>0, <1>00, <1>16, AcknowledgeFrame
<1> QED
  BY <1>1, <1>2, <1>3, <1>4, <1>5, <1>6, <1>7, <1>8, <1>9, <1>10, <1>12, <1>13, <1>14, <1>15,
     <1>16 DEF Next, Continue

LEMMA TypeStep ==
  ASSUME PresenceTypeOK, [Next]_vars
  PROVE  PresenceTypeOK'
BY NumbersStep, FlagsStep, StructuresStep DEF PresenceTypeOK

-----------------------------------------------------------------------------
(* What the larger actions come to.                                        *)

LEMMA CommitFrame ==
  ASSUME CommitNext
  PROVE  /\ queue # <<>>
         /\ UNCHANGED <<trusted, generation, restoration, lifetime, disposed, window, pending,
                         timers, unreported, stored, restoring, intent, edits, failures>>
<1>1. CASE CommitEnable \/ CommitStart
  BY <1>1 DEF CommitEnable, CommitStart, Turn, epochs, kept, disk, bounds
<1>2. CASE CommitEntry \/ CommitPause
  BY <1>2 DEF CommitEntry, CommitPause, Turn, epochs, kept, disk, bounds
<1>3. CASE CommitOff \/ CommitObservation
  BY <1>3 DEF CommitOff, CommitObservation, Turn, epochs, kept, disk, bounds
<1> QED
  BY <1>1, <1>2, <1>3 DEF CommitNext

GoesOn ==
    /\ Head(queue).kind \in {"enable", "start"} /\ Owner \in ActionIds /\ ~Aborted(Owner)
    /\ StartIfNeeded(Owner) \/ CaptureStarts(Owner)
    /\ tasks' = tasks

LeavesAlone ==
    /\ Head(queue).kind # "off" /\ actions' = actions
    /\ queue' = Tail(queue) /\ tasks' = tasks

EndsOwner ==
    /\ Head(queue).kind # "off" /\ Owner \in ActionIds
    /\ actions' = [actions EXCEPT ![Owner] = Ended]
    /\ queue' = Tail(queue) /\ tasks' = tasks

Tells ==
    /\ Head(queue).kind # "off" /\ Owner \in ActionIds
    /\ actions' = [actions EXCEPT ![Owner] = [actions[Owner] EXCEPT !.step = "telling"]]
    /\ queue' = Tail(queue) /\ tasks' = tasks

LEMMA CommitCases ==
  ASSUME PresenceTypeOK, CommitNext
  PROVE  /\ GoesOn \/ LeavesAlone \/ EndsOwner \/ Tells \/ CommitOff
         /\ \/ UNCHANGED shown
            \/ /\ ApplySnapshot /\ ~disposed
               /\ \/ Head(queue).kind = "pause"
                  \/ Owner \in ActionIds /\ IsCurrentGeneration(Owner)
<1>1. /\ Head(queue).kind \in {"start", "entry", "pause", "off"} => Owner \in ActionIds
      /\ Owner # None => Owner \in ActionIds
  BY OwnerType, CommitFrame
<1>2. ASSUME Owner \in ActionIds, Complete(Owner)
      PROVE  /\ queue' = Tail(queue)
             /\ \/ actions' = [actions EXCEPT ![Owner] = Ended]
                \/ actions' = [actions EXCEPT ![Owner] =
                                  [actions[Owner] EXCEPT !.step = "telling"]]
             /\ UNCHANGED shown \/ (ApplySnapshot /\ ~disposed /\ IsCurrentGeneration(Owner))
  BY <1>2 DEF Complete, Ends, To, ApplyIfCurrent, IsCurrentGeneration
<1>3. ASSUME Cancel(Owner)
      PROVE  /\ actions' = [actions EXCEPT ![Owner] = Ended] /\ queue' = Tail(queue)
             /\ UNCHANGED shown
  BY <1>3 DEF Cancel, Ends
<1>4. ASSUME StartIfNeeded(Owner) \/ CaptureStarts(Owner) PROVE UNCHANGED shown
  BY <1>4 DEF StartIfNeeded, CaptureStarts
<1>5. CASE CommitEnable
  <2>1. Head(queue).kind = "enable" /\ tasks' = tasks
    BY <1>5 DEF CommitEnable, Turn, disk
  <2>2. \/ Owner = None /\ queue' = Tail(queue) /\ UNCHANGED <<actions, shown>>
        \/ Owner # None /\ (Complete(Owner) \/ Cancel(Owner))
        \/ /\ Owner # None /\ ~Aborted(Owner)
           /\ StartIfNeeded(Owner) \/ CaptureStarts(Owner)
    BY <1>5 DEF CommitEnable
  <2> QED
    BY <1>1, <1>2, <1>3, <1>4, <2>1, <2>2 DEF GoesOn, LeavesAlone, EndsOwner, Tells
<1>6. CASE CommitStart
  <2>1. Head(queue).kind = "start" /\ tasks' = tasks
    BY <1>6 DEF CommitStart, Turn, disk
  <2>2. \/ Complete(Owner) \/ Cancel(Owner)
        \/ ~Aborted(Owner) /\ CaptureStarts(Owner)
    BY <1>6 DEF CommitStart, CaptureStarts
  <2> QED
    BY <1>1, <1>2, <1>3, <1>4, <2>1, <2>2 DEF GoesOn, EndsOwner, Tells
<1>7. CASE CommitEntry
  <2>1. Head(queue).kind = "entry" /\ tasks' = tasks
    BY <1>7 DEF CommitEntry, Turn, disk
  <2>2. Complete(Owner) \/ Cancel(Owner)
    BY <1>7 DEF CommitEntry
  <2> QED
    BY <1>1, <1>2, <1>3, <2>1, <2>2 DEF EndsOwner, Tells
<1>8. CASE CommitPause
  <2>1. Head(queue).kind = "pause" /\ tasks' = tasks
    BY <1>8 DEF CommitPause, Turn, disk
  <2>2. actions' = [actions EXCEPT ![Owner] = Ended] /\ queue' = Tail(queue)
    BY <1>8 DEF CommitPause, Ends
  <2>3. UNCHANGED shown \/ (ApplySnapshot /\ ~disposed)
    BY <1>8 DEF CommitPause, ApplyUnlessDisposed
  <2> QED
    BY <1>1, <2>1, <2>2, <2>3 DEF EndsOwner
<1>9. CASE CommitOff
  BY <1>9 DEF CommitOff
<1>10. CASE CommitObservation
  BY <1>10 DEF CommitObservation, LeavesAlone, Turn, disk
<1> QED
  BY <1>5, <1>6, <1>7, <1>8, <1>9, <1>10 DEF CommitNext

LEMMA FailureFrame ==
  ASSUME NEW a \in ActionIds, TaskFails(a)
  PROVE  /\ tasks # <<>> /\ Free(a)
         /\ failures' = failures + 1
         /\ generation' = generation + 1 /\ lifetime' = lifetime + 1
         /\ pending' = None /\ unreported' = {}
         /\ queue' = Append(queue, Transition("pause", a))
         /\ tasks' = Tail(tasks)
         /\ UNCHANGED <<status, session, trusted, restoration, disposed, window, timers,
                         stored, restoring, edits>>
BY DEF TaskFails, Dropped, Enqueued, runtime

LEMMA FailureCases ==
  ASSUME NEW a \in ActionIds, TaskFails(a)
  PROVE  /\ Head(tasks).kind # "clear" => actions' = [actions EXCEPT ![a] = Started("pause")]
         /\ Head(tasks).kind = "clear" =>
               actions' = [[actions EXCEPT ![a] = Started("pause")]
                              EXCEPT ![Head(tasks).by] = Ended]
         /\ \/ /\ listener' = None /\ ~context'
               /\ IF Head(tasks).kind = "clear" /\ ~disposed THEN view' = status
                  ELSE view' = view
            \/ /\ Head(tasks).kind = "clear" /\ ~disposed /\ status = "on"
               /\ listener' = generation' /\ view' = "on"
<1>1. CASE Head(tasks).kind = "clear" /\ ~disposed /\ status = "on"
  BY <1>1 DEF TaskFails
<1>2. CASE ~(Head(tasks).kind = "clear" /\ ~disposed /\ status = "on")
  BY <1>2 DEF TaskFails
<1> QED
  BY <1>1, <1>2

-----------------------------------------------------------------------------
(* Generations and lifetimes.                                              *)

LEMMA Changed ==
  ASSUME PresenceTypeOK, NEW a \in ActionIds, NEW action,
         actions' = [actions EXCEPT ![a] = action]
  PROVE  \A b \in ActionIds : actions'[b] = IF b = a THEN action ELSE actions[b]
BY DEF PresenceTypeOK, Structures

(* Only an action that begins takes the generation, and only one that is   *)
(* admitted in it takes the lifetime.                                      *)
Ages ==
    \A b \in ActionIds :
        /\ \/ actions'[b].generation \in {0, actions[b].generation}
           \/ intent' = "on" /\ actions'[b].generation = generation
        /\ \/ actions'[b].lifetime \in {0, actions[b].lifetime}
           \/ /\ generation' = generation /\ actions[b].generation = generation
              /\ actions'[b].lifetime = lifetime

LEMMA AgesOne ==
  ASSUME PresenceTypeOK, NEW a \in ActionIds, NEW action,
         actions' = [actions EXCEPT ![a] = action],
         action.generation \in {0, actions[a].generation},
         action.lifetime \in {0, actions[a].lifetime}
  PROVE  Ages
BY Changed DEF Ages

LEMMA IdleFields ==
  /\ Ended.generation = 0 /\ Ended.lifetime = 0 /\ Ended.step = "ended" /\ Ended.kind = "none"
  /\ \A kind : /\ Started(kind).generation = 0 /\ Started(kind).lifetime = 0
               /\ Started(kind).step = "queued" /\ Started(kind).kind = kind
BY DEF Ended, Started, Idle

LEMMA ActionFields ==
  ASSUME PresenceTypeOK, NEW a \in ActionIds
  PROVE  /\ actions[a].generation \in Nat /\ actions[a].lifetime \in Nat
         /\ \A step, base :
               LET action == [actions[a] EXCEPT !.step = step, !.base = base]
               IN  /\ action.generation = actions[a].generation
                   /\ action.lifetime = actions[a].lifetime
                   /\ action.kind = actions[a].kind
                   /\ action.step = step
         /\ \A step :
               LET action == [actions[a] EXCEPT !.step = step]
               IN  /\ action.generation = actions[a].generation
                   /\ action.lifetime = actions[a].lifetime
                   /\ action.kind = actions[a].kind
                   /\ action.step = step
<1>1. actions[a] \in Action
  BY DEF PresenceTypeOK, Structures
<1> QED
  BY <1>1 DEF Action

LEMMA AgesGoingOn ==
  ASSUME PresenceTypeOK, NEW a \in ActionIds, NEW step, NEW base,
         \/ actions' = [actions EXCEPT ![a] = [actions[a] EXCEPT !.step = step]]
         \/ actions' = [actions EXCEPT ![a] = [actions[a] EXCEPT !.step = step, !.base = base]]
  PROVE  Ages
<1> DEFINE one == [actions[a] EXCEPT !.step = step]
           two == [actions[a] EXCEPT !.step = step, !.base = base]
<1>1. /\ one.generation = actions[a].generation /\ one.lifetime = actions[a].lifetime
      /\ two.generation = actions[a].generation /\ two.lifetime = actions[a].lifetime
  BY ActionFields
<1>2. actions' = [actions EXCEPT ![a] = one] \/ actions' = [actions EXCEPT ![a] = two]
  OBVIOUS
<1> HIDE DEF one, two
<1> QED
  BY <1>1, <1>2, AgesOne

LEMMA CommandsAge ==
  ASSUME PresenceTypeOK, [Next]_vars
  PROVE  /\ Ages
         /\ \/ UNCHANGED <<generation, lifetime>>
            \/ generation' = generation + 1 /\ lifetime' = lifetime + 1
<1> USE IdleFields, ActionFields
<1>0. ASSUME UNCHANGED actions PROVE Ages
  BY <1>0 DEF Ages
<1>1. ASSUME NEW a \in ActionIds, NEW kind \in Trusting, Begin(a, kind)
      PROVE  Ages /\ UNCHANGED <<generation, lifetime>>
  <2> DEFINE begun == [Idle EXCEPT !.kind = kind, !.step = "asking", !.generation = generation]
  <2>1. begun.generation = generation /\ begun.lifetime = 0
    BY DEF Idle
  <2>2. actions' = [actions EXCEPT ![a] = begun] /\ intent' = "on"
    BY <1>1 DEF Begin
  <2> HIDE DEF begun
  <2>3. Ages
    BY <2>1, <2>2, Changed DEF Ages
  <2> QED
    BY <1>1, <2>3 DEF Begin, epochs
<1>2. ASSUME NEW a \in ActionIds, Pause(a)
      PROVE  Ages /\ generation' = generation + 1 /\ lifetime' = lifetime + 1
  BY <1>2, AgesOne DEF Pause, Halt
<1>3. ASSUME NEW a \in ActionIds, Disable(a)
      PROVE  Ages /\ generation' = generation + 1 /\ lifetime' = lifetime + 1
  BY <1>3, AgesOne DEF Disable, Halt
<1>4. ASSUME NEW a \in ActionIds, TaskFails(a)
      PROVE  Ages /\ generation' = generation + 1 /\ lifetime' = lifetime + 1
  <2>1. CASE Head(tasks).kind # "clear"
    BY <1>4, <2>1, FailureFrame, FailureCases, AgesOne
  <2>2. CASE Head(tasks).kind = "clear"
    <3>1. \A b \in ActionIds : \/ actions'[b] \in {Ended, Started("pause")}
                               \/ actions'[b] = actions[b]
      BY <1>4, <2>2, FailureCases DEF PresenceTypeOK, Structures
    <3> QED
      BY <1>4, <3>1, FailureFrame DEF Ages
  <2> QED
    BY <1>4, <2>1, <2>2, FailureFrame
<1>5. ASSUME NEW a \in ActionIds, Refuse(a) \/ Supersede(a) \/ CaptureEnds(a)
      PROVE  Ages /\ UNCHANGED <<generation, lifetime>>
  <2>1. \/ actions' = [actions EXCEPT ![a] = Ended]
        \/ actions' = [actions EXCEPT ![a] = [actions[a] EXCEPT !.step = "queued"]]
    BY <1>5 DEF Refuse, Supersede, CaptureEnds, Ends, To
  <2>2. Ages
    <3>1. CASE actions' = [actions EXCEPT ![a] = Ended]
      BY <3>1, AgesOne
    <3>2. CASE actions' = [actions EXCEPT ![a] = [actions[a] EXCEPT !.step = "queued"]]
      BY <3>2, AgesGoingOn
    <3> QED
      BY <2>1, <3>1, <3>2
  <2> QED
    BY <1>5, <2>2 DEF Refuse, Supersede, CaptureEnds, epochs
<1>6. ASSUME NEW a \in ActionIds, Admit(a)
      PROVE  Ages /\ UNCHANGED <<generation, lifetime>>
  <2> DEFINE admitted == [actions[a] EXCEPT !.step = "queued", !.lifetime = lifetime]
  <2>1. admitted.generation = actions[a].generation /\ admitted.lifetime = lifetime
    BY DEF PresenceTypeOK, Structures, Action
  <2>2. /\ actions' = [actions EXCEPT ![a] = admitted] /\ actions[a].generation = generation
        /\ UNCHANGED <<generation, lifetime>>
    BY <1>6 DEF Admit, IsCurrentGeneration, epochs
  <2> HIDE DEF admitted
  <2> QED
    BY <2>1, <2>2, Changed DEF Ages
<1>7. CASE Dispose
  BY <1>0, <1>7 DEF Dispose, Halt
<1>8. CASE OthersAct \/ Edit \/ Reconcile \/ UNCHANGED vars
  BY <1>0, <1>8 DEF OthersAct, Edit, Reconcile, vars, epochs
<1>9. ASSUME NEW timer \in timers, TimerFires(timer)
      PROVE  Ages /\ UNCHANGED <<generation, lifetime>>
  BY <1>0, <1>9 DEF TimerFires, epochs
<1>10. CASE TaskDone
  <2>1. UNCHANGED <<generation, lifetime>>
    BY <1>10 DEF TaskDone, epochs
  <2>2. UNCHANGED actions \/ actions' = [actions EXCEPT ![Head(tasks).by] = Ended]
    BY <1>10 DEF TaskDone, Ends
  <2>3. \A b \in ActionIds : actions'[b] \in {Ended, actions[b]}
    BY <2>2 DEF PresenceTypeOK, Structures
  <2> QED
    BY <2>1, <2>3 DEF Ages
<1>11. CASE CommitNext
  <2>1. UNCHANGED <<generation, lifetime>>
    BY <1>11, CommitFrame
  <2>2. CASE GoesOn
    <3>1. Owner \in ActionIds
      BY <2>2 DEF GoesOn
    <3>2. PICK step \in {"queued", "capturing"} :
             actions' = [actions EXCEPT ![Owner].step = step, ![Owner].base = revision']
      BY <2>2 DEF GoesOn, StartIfNeeded, CaptureStarts
    <3>3. actions' = [actions EXCEPT ![Owner] =
                         [actions[Owner] EXCEPT !.step = step, !.base = revision']]
      BY <3>1, <3>2
    <3> QED
      BY <2>1, <3>1, <3>3, AgesGoingOn
  <2>3. CASE LeavesAlone
    BY <1>0, <2>1, <2>3 DEF LeavesAlone
  <2>4. CASE EndsOwner
    BY <2>1, <2>4, AgesOne DEF EndsOwner
  <2>5. CASE CommitOff
    <3>1. Owner \in ActionIds
      BY <1>11, <2>5, CommitFrame, OwnerType DEF CommitOff, Turn
    <3>2. actions' = [actions EXCEPT ![Owner] = [actions[Owner] EXCEPT !.step = "clearing"]]
      BY <2>5 DEF CommitOff, To
    <3> QED
      BY <2>1, <3>1, <3>2, AgesGoingOn
  <2>6. CASE Tells
    BY <2>1, <2>6, AgesGoingOn DEF Tells
  <2> QED
    BY <1>11, <2>2, <2>3, <2>4, <2>5, <2>6, CommitCases
<1>12. ASSUME NEW a \in ActionIds, Acknowledge(a)
       PROVE  Ages /\ UNCHANGED <<generation, lifetime>>
  BY <1>12, AcknowledgeFrame, AgesOne
<1> QED
  BY <1>1, <1>2, <1>3, <1>4, <1>5, <1>6, <1>7, <1>8, <1>9, <1>10, <1>11, <1>12
     DEF Next, Continue

LEMMA NotAheadStep ==
  ASSUME PresenceTypeOK, NotAhead, [Next]_vars
  PROVE  NotAhead'
<1>1. generation \in Nat /\ lifetime \in Nat
  BY DEF PresenceTypeOK, Numbers
<1>2. /\ Ages
      /\ \/ UNCHANGED <<generation, lifetime>>
         \/ generation' = generation + 1 /\ lifetime' = lifetime + 1
  BY CommandsAge
<1>3. SUFFICES ASSUME NEW b \in ActionIds
               PROVE  /\ actions'[b].generation <= generation'
                      /\ actions'[b].lifetime <= lifetime'
  BY DEF NotAhead
<1>4. /\ actions[b].generation \in Nat /\ actions[b].lifetime \in Nat
      /\ actions[b].generation <= generation /\ actions[b].lifetime <= lifetime
  BY ActionFields DEF NotAhead
<1> QED
  BY <1>1, <1>2, <1>4 DEF Ages

(* After a halt every command is stale, and it stays so until one begins.  *)
LEMMA HaltMakesStale ==
  ASSUME PresenceTypeOK, NotAhead, [Next]_vars, intent' # "on", generation' = generation + 1
  PROVE  Stale'
<1>1. generation \in Nat /\ lifetime \in Nat
  BY DEF PresenceTypeOK, Numbers
<1>2. Ages /\ lifetime' = lifetime + 1
  BY <1>1, CommandsAge
<1>3. SUFFICES ASSUME NEW b \in ActionIds
               PROVE  /\ actions'[b].generation < generation'
                      /\ actions'[b].lifetime < lifetime'
  BY DEF Stale
<1>4. /\ actions[b].generation \in Nat /\ actions[b].lifetime \in Nat
      /\ actions[b].generation <= generation /\ actions[b].lifetime <= lifetime
  BY ActionFields DEF NotAhead
<1> QED
  BY <1>1, <1>2, <1>4 DEF Ages

LEMMA StaysStale ==
  ASSUME PresenceTypeOK, Stale, [Next]_vars, intent' # "on"
  PROVE  Stale'
<1>1. generation \in Nat /\ lifetime \in Nat
  BY DEF PresenceTypeOK, Numbers
<1>2. /\ Ages
      /\ \/ UNCHANGED <<generation, lifetime>>
         \/ generation' = generation + 1 /\ lifetime' = lifetime + 1
  BY CommandsAge
<1>3. SUFFICES ASSUME NEW b \in ActionIds
               PROVE  /\ actions'[b].generation < generation'
                      /\ actions'[b].lifetime < lifetime'
  BY DEF Stale
<1>4. /\ actions[b].generation \in Nat /\ actions[b].lifetime \in Nat
      /\ actions[b].generation < generation /\ actions[b].lifetime < lifetime
  BY ActionFields DEF Stale
<1> QED
  BY <1>1, <1>2, <1>4 DEF Ages

LEMMA StaleIsLate ==
  ASSUME Stale, PresenceTypeOK, NEW a \in ActionIds
  PROVE  ~IsCurrentGeneration(a) /\ Aborted(a) /\ ~Admit(a)
<1>1. /\ actions[a].generation < generation /\ actions[a].lifetime < lifetime
      /\ actions[a].generation \in Nat /\ actions[a].lifetime \in Nat
      /\ generation \in Nat /\ lifetime \in Nat
  BY ActionFields DEF Stale, PresenceTypeOK, Numbers
<1> QED
  BY <1>1 DEF IsCurrentGeneration, Aborted, Admit

-----------------------------------------------------------------------------
(* What is observed and gathered.                                          *)

LEMMA ListenerStep ==
  ASSUME PresenceTypeOK, ListenerIsCurrent, ContextFits, [Next]_vars
  PROVE  ListenerIsCurrent' /\ ContextFits'
<1> USE DEF ListenerIsCurrent, ContextFits
<1>0. generation # None
  BY NamesOfActions DEF PresenceTypeOK, Numbers
<1>1. ASSUME UNCHANGED <<listener, view, context, generation, disposed>>
      PROVE  ListenerIsCurrent' /\ ContextFits'
  BY <1>1
<1>2. ASSUME listener' = None, ~context' PROVE ListenerIsCurrent' /\ ContextFits'
  BY <1>2
<1>3. ASSUME ApplySnapshot, ~disposed, UNCHANGED <<generation, disposed>>
      PROVE  ListenerIsCurrent' /\ ContextFits'
  BY <1>0, <1>3 DEF ApplySnapshot
<1>4. ASSUME NEW a \in ActionIds, NEW kind \in Trusting, Begin(a, kind)
      PROVE  ListenerIsCurrent' /\ ContextFits'
  BY <1>1, <1>4 DEF Begin, shown, epochs
<1>5. ASSUME NEW a \in ActionIds, Pause(a) \/ Disable(a)
      PROVE  ListenerIsCurrent' /\ ContextFits'
  BY <1>2, <1>5 DEF Pause, Disable, Halt
<1>6. CASE Dispose
  BY <1>2, <1>6 DEF Dispose, Halt
<1>7. ASSUME NEW a \in ActionIds, Continue(a)
      PROVE  ListenerIsCurrent' /\ ContextFits'
  <2>1. CASE Refuse(a)
    BY <1>2, <2>1 DEF Refuse
  <2>2. CASE Supersede(a) \/ Admit(a) \/ CaptureEnds(a)
    BY <1>1, <2>2 DEF Supersede, Admit, CaptureEnds, shown, epochs
  <2> QED
    BY <1>7, <2>1, <2>2 DEF Continue
<1>8. CASE OthersAct \/ Edit \/ Reconcile \/ UNCHANGED vars
  BY <1>1, <1>8 DEF OthersAct, Edit, Reconcile, vars, shown, epochs
<1>9. ASSUME NEW timer \in timers, TimerFires(timer)
      PROVE  ListenerIsCurrent' /\ ContextFits'
  BY <1>1, <1>9 DEF TimerFires, shown, epochs
<1>10. CASE TaskDone
  BY <1>1, <1>3, <1>10 DEF TaskDone, ApplyUnlessDisposed, shown, epochs
<1>11. ASSUME NEW a \in ActionIds, TaskFails(a)
       PROVE  ListenerIsCurrent' /\ ContextFits'
  <2>1. generation' # None
    BY <1>11, FailureFrame, NamesOfActions DEF PresenceTypeOK, Numbers
  <2> QED
    BY <1>11, <2>1, FailureFrame, FailureCases
<1>12. CASE CommitNext
  BY <1>1, <1>3, <1>12, CommitFrame, CommitCases DEF shown
<1>13. ASSUME NEW a \in ActionIds, Acknowledge(a)
       PROVE  ListenerIsCurrent' /\ ContextFits'
  BY <1>1, <1>3, <1>13, AcknowledgeFrame DEF shown
<1> QED
  BY <1>4, <1>5, <1>6, <1>7, <1>8, <1>9, <1>10, <1>11, <1>12, <1>13 DEF Next

LEMMA GatheringStep ==
  ASSUME PresenceTypeOK, TimersFit, EditsAreGathered, [Next]_vars
  PROVE  TimersFit' /\ EditsAreGathered'
<1> USE DEF TimersFit, EditsAreGathered, Fires
<1>0. edits \in Nat /\ \A timer \in timers : timer.timer \in Nat
  BY DEF PresenceTypeOK, Numbers, Structures, Episode
<1>1. ASSUME UNCHANGED <<edits, pending, timers, unreported>>
      PROVE  TimersFit' /\ EditsAreGathered'
  BY <1>1
<1>2. ASSUME UNCHANGED <<edits, timers>>, pending' = None, unreported' = {}
      PROVE  TimersFit' /\ EditsAreGathered'
  BY <1>2
<1>3. ASSUME NEW a \in ActionIds, NEW kind \in Trusting, Begin(a, kind)
      PROVE  TimersFit' /\ EditsAreGathered'
  BY <1>1, <1>3 DEF Begin, kept, bounds
<1>4. ASSUME NEW a \in ActionIds, Pause(a) \/ Disable(a)
      PROVE  TimersFit' /\ EditsAreGathered'
  BY <1>2, <1>4 DEF Pause, Disable, Halt, Dropped, bounds
<1>5. CASE Dispose
  BY <1>2, <1>5 DEF Dispose, Halt, Dropped, bounds
<1>6. ASSUME NEW a \in ActionIds, Continue(a)
      PROVE  TimersFit' /\ EditsAreGathered'
  BY <1>1, <1>6 DEF Continue, Refuse, Supersede, Admit, CaptureEnds, kept, bounds
<1>7. CASE OthersAct \/ Reconcile \/ TaskDone \/ UNCHANGED vars
  BY <1>1, <1>7 DEF OthersAct, Reconcile, TaskDone, vars, kept, bounds
<1>8. CASE CommitNext
  BY <1>1, <1>8, CommitFrame
<1>9. ASSUME NEW a \in ActionIds, TaskFails(a)
      PROVE  TimersFit' /\ EditsAreGathered'
  BY <1>2, <1>9, FailureFrame
<1>10. CASE Edit
  <2>1. CASE UNCHANGED kept
    <3>1. edits' = edits + 1 /\ UNCHANGED <<pending, timers, unreported>>
      BY <1>10, <2>1 DEF Edit, kept
    <3> QED
      BY <1>0, <3>1
  <2>2. CASE ~UNCHANGED kept
    <3> DEFINE gathered == Gathered(edits + 1)
    <3>1. /\ edits' = edits + 1 /\ pending' = gathered /\ timers' = timers \cup {gathered}
          /\ unreported' = unreported \cup {edits + 1}
      BY <1>10, <2>2 DEF Edit
    <3>2. /\ gathered.timer = edits + 1
          /\ gathered.edits = (IF pending = None THEN {} ELSE pending.edits) \cup {edits + 1}
      BY DEF Gathered
    <3>3. gathered # None
      <4>1. gathered \in Episode
        BY <1>0 DEF Gathered, Episode, PresenceTypeOK, Structures
      <4> QED
        BY <4>1, NamesOfActions
    <3> HIDE DEF gathered
    <3>4. unreported' = gathered.edits
      BY <3>1, <3>2
    <3>5. \A timer \in timers : timer.timer <= edits + 1 /\ timer.timer # edits + 1
      BY <1>0
    <3> QED
      BY <1>0, <3>1, <3>2, <3>3, <3>4, <3>5
  <2> QED
    BY <2>1, <2>2
<1>11. ASSUME NEW timer \in timers, TimerFires(timer)
       PROVE  TimersFit' /\ EditsAreGathered'
  <2>1. timers' \subseteq timers /\ UNCHANGED edits
    BY <1>11 DEF TimerFires, bounds
  <2>2. CASE Fires(timer)
    <3>1. pending' = None /\ unreported' = unreported \ timer.edits
      BY <1>11, <2>2 DEF TimerFires
    <3>2. unreported' = {}
      BY <2>2, <3>1
    <3> QED
      BY <2>1, <3>1, <3>2
  <2>3. CASE ~Fires(timer)
    BY <1>11, <2>1, <2>3 DEF TimerFires
  <2> QED
    BY <2>2, <2>3
<1>12. ASSUME NEW a \in ActionIds, Acknowledge(a)
       PROVE  TimersFit' /\ EditsAreGathered'
  BY <1>1, <1>12, AcknowledgeFrame
<1> QED
  BY <1>3, <1>4, <1>5, <1>6, <1>7, <1>8, <1>9, <1>10, <1>11, <1>12 DEF Next

-----------------------------------------------------------------------------
(* Owners.                                                                 *)

LEMMA FitsTail ==
  ASSUME NEW acts,
         NEW q \in Seq(Transitions), q # <<>>, QueueFits(q, acts)
  PROVE  QueueFits(Tail(q), acts)
<1>1. \A i \in 1..Len(Tail(q)) : i + 1 \in 1..Len(q) /\ Tail(q)[i] = q[i + 1]
  BY TailShifts
<1> QED
  BY <1>1 DEF QueueFits

LEMMA TasksFitTail ==
  ASSUME NEW acts,
         NEW t \in Seq(Tasks), t # <<>>, TasksFit(t, acts)
  PROVE  TasksFit(Tail(t), acts)
<1>1. \A i \in 1..Len(Tail(t)) : i + 1 \in 1..Len(t) /\ Tail(t)[i] = t[i + 1]
  BY TailShifts
<1> QED
  BY <1>1 DEF TasksFit

LEMMA FitsAppend ==
  ASSUME NEW acts,
         NEW q \in Seq(Transitions), NEW x \in Transitions, QueueFits(q, acts), Waits(x, acts)
  PROVE  QueueFits(Append(q, x), acts)
<1>1. \A i \in 1..Len(Append(q, x)) : \/ i \in 1..Len(q) /\ Append(q, x)[i] = q[i]
                                      \/ Append(q, x)[i] = x
  BY AppendLast
<1> QED
  BY <1>1 DEF QueueFits

LEMMA TasksFitAppend ==
  ASSUME NEW acts,
         NEW t \in Seq(Tasks), NEW x \in Tasks, TasksFit(t, acts), Clears(x, acts)
  PROVE  TasksFit(Append(t, x), acts)
<1>1. \A i \in 1..Len(Append(t, x)) : \/ i \in 1..Len(t) /\ Append(t, x)[i] = t[i]
                                      \/ Append(t, x)[i] = x
  BY AppendLast
<1> QED
  BY <1>1 DEF TasksFit

LEMMA DifferTail ==
  ASSUME NEW S, NEW q \in Seq(S), q # <<>>, NEW kind, Differ(q, kind)
  PROVE  /\ Differ(Tail(q), kind)
         /\ \A i \in 1..Len(Tail(q)) :
               ~(Tail(q)[i].kind = kind /\ Head(q).kind = kind /\ Tail(q)[i].by = Head(q).by)
<1> DEFINE p == Tail(q)
           n == Len(q)
<1>1. /\ n \in Nat /\ 1 \in 1..n /\ Head(q) = q[1] /\ Len(p) = n - 1
      /\ \A i \in 1..(n - 1) : i + 1 \in 1..n /\ p[i] = q[i + 1]
  BY TailShifts
<1> HIDE DEF p
<1>2. Differ(p, kind)
  <2>1. SUFFICES ASSUME NEW i \in 1..(n - 1), NEW j \in 1..(n - 1),
                        p[i].kind = kind, p[j].kind = kind, p[i].by = p[j].by
                 PROVE  i = j
    BY <1>1 DEF Differ
  <2>2. i + 1 \in 1..n /\ j + 1 \in 1..n /\ p[i] = q[i + 1] /\ p[j] = q[j + 1]
    BY <1>1
  <2>3. i + 1 = j + 1
    BY <2>1, <2>2 DEF Differ
  <2> QED
    BY <1>1, <2>3
<1>3. ASSUME NEW i \in 1..(n - 1), p[i].kind = kind, q[1].kind = kind, p[i].by = q[1].by
      PROVE  FALSE
  <2>1. i + 1 \in 1..n /\ p[i] = q[i + 1]
    BY <1>1
  <2>2. i + 1 = 1
    BY <1>1, <1>3, <2>1 DEF Differ
  <2> QED
    BY <1>1, <2>2
<1> QED
  BY <1>1, <1>2, <1>3 DEF p

LEMMA DifferAppend ==
  ASSUME NEW S, NEW q \in Seq(S), NEW kind, Differ(q, kind), NEW x \in S,
         \A i \in 1..Len(q) : ~(q[i].kind = kind /\ x.kind = kind /\ q[i].by = x.by)
  PROVE  Differ(Append(q, x), kind)
<1>1. /\ Len(q) \in Nat /\ Len(Append(q, x)) = Len(q) + 1
      /\ \A i \in 1..(Len(q) + 1) : \/ i \in 1..Len(q) /\ Append(q, x)[i] = q[i]
                                    \/ i = Len(q) + 1 /\ Append(q, x)[i] = x
  BY AppendLast
<1>2. SUFFICES ASSUME NEW i \in 1..(Len(q) + 1), NEW j \in 1..(Len(q) + 1),
                      Append(q, x)[i].kind = kind, Append(q, x)[j].kind = kind,
                      Append(q, x)[i].by = Append(q, x)[j].by
               PROVE  i = j
  BY <1>1 DEF Differ
<1>3. CASE i \in 1..Len(q) /\ j \in 1..Len(q)
  <2>1. Append(q, x)[i] = q[i] /\ Append(q, x)[j] = q[j]
    BY <1>3, AppendLast
  <2> QED
    BY <1>2, <1>3, <2>1 DEF Differ
<1>4. CASE i \in 1..Len(q) /\ j = Len(q) + 1
  <2>1. Append(q, x)[i] = q[i] /\ Append(q, x)[j] = x
    BY <1>4, AppendLast
  <2> QED
    BY <1>2, <1>4, <2>1
<1>5. CASE j \in 1..Len(q) /\ i = Len(q) + 1
  <2>1. Append(q, x)[j] = q[j] /\ Append(q, x)[i] = x
    BY <1>5, AppendLast
  <2> QED
    BY <1>2, <1>5, <2>1
<1> QED
  BY <1>1, <1>3, <1>4, <1>5

(* A command that owns nothing may become anything; one that is no disable *)
(* owns no disable, and may become what else is none.                      *)
LEMMA OwnersKeep ==
  ASSUME NEW acts \in [ActionIds -> Action], NEW a \in ActionIds, NEW x,
         NEW q \in Seq(Transitions), NEW t \in Seq(Tasks),
         QueueFits(q, acts), TasksFit(t, acts), OnTheirWay(acts),
         x.step \in {"asking", "capturing", "telling"} => x.kind # "disable",
         \/ acts[a].step = "idle"
         \/ acts[a].kind # "disable" /\ x.kind # "disable" /\ x.step # "idle"
  PROVE  LET changed == [acts EXCEPT ![a] = x]
         IN  QueueFits(q, changed) /\ TasksFit(t, changed) /\ OnTheirWay(changed)
<1> DEFINE changed == [acts EXCEPT ![a] = x]
<1>1. changed[a] = x /\ \A b \in ActionIds : b # a => changed[b] = acts[b]
  OBVIOUS
<1> HIDE DEF changed
<1>2. QueueFits(q, changed)
  <2>1. SUFFICES ASSUME NEW i \in 1..Len(q) PROVE Waits(q[i], changed)
    BY DEF QueueFits
  <2>2. Waits(q[i], acts)
    BY DEF QueueFits
  <2>3. q[i] \in Transitions
    OBVIOUS
  <2>4. q[i].by \in ActionIds \cup {None} /\ (q[i].kind = "off" => q[i].by \in ActionIds)
    BY <2>3 DEF Transitions, Loud
  <2>5. CASE q[i].by = a
    BY <1>1, <2>2, <2>4, <2>5, NamesOfActions DEF Waits
  <2>6. CASE q[i].by # a
    BY <1>1, <2>2, <2>4, <2>6 DEF Waits
  <2> QED
    BY <2>5, <2>6
<1>3. TasksFit(t, changed)
  <2>1. SUFFICES ASSUME NEW i \in 1..Len(t) PROVE Clears(t[i], changed)
    BY DEF TasksFit
  <2>2. Clears(t[i], acts)
    BY DEF TasksFit
  <2>3. t[i] \in Tasks
    OBVIOUS
  <2>4. t[i].kind = "clear" => t[i].by \in ActionIds
    BY <2>3 DEF Tasks
  <2> QED
    BY <1>1, <2>2, <2>4 DEF Clears
<1>4. OnTheirWay(changed)
  BY <1>1 DEF OnTheirWay
<1> QED
  BY <1>2, <1>3, <1>4 DEF changed

(* A clear that had its turn ends its disable, which nothing else knows.   *)
LEMMA OwnersCleared ==
  ASSUME NEW acts \in [ActionIds -> Action],
         NEW q \in Seq(Transitions), NEW t \in Seq(Tasks), t # <<>>, Head(t).kind = "clear",
         QueueFits(q, acts), TasksFit(t, acts), OnTheirWay(acts), Differ(t, "clear")
  PROVE  LET changed == [acts EXCEPT ![Head(t).by] = Ended]
         IN  QueueFits(q, changed) /\ TasksFit(Tail(t), changed) /\ OnTheirWay(changed)
<1> DEFINE a == Head(t).by
           changed == [acts EXCEPT ![a] = Ended]
<1>1. /\ a \in ActionIds /\ acts[a].kind = "disable" /\ acts[a].step = "clearing"
      /\ Tail(t) \in Seq(Tasks)
  <2>1. 1 \in 1..Len(t) /\ Head(t) = t[1] /\ t[1] \in Tasks /\ Tail(t) \in Seq(Tasks)
    BY TailShifts
  <2> QED
    BY <2>1 DEF TasksFit, Clears, Tasks
<1>2. changed[a] = Ended /\ \A b \in ActionIds : b # a => changed[b] = acts[b]
  BY <1>1
<1>3. TasksFit(Tail(t), acts)
  BY TasksFitTail
<1>4. \A i \in 1..Len(Tail(t)) : ~(Tail(t)[i].kind = "clear" /\ Tail(t)[i].by = a)
  BY DifferTail
<1> HIDE DEF changed
<1>5. QueueFits(q, changed)
  <2>1. SUFFICES ASSUME NEW i \in 1..Len(q) PROVE Waits(q[i], changed)
    BY DEF QueueFits
  <2>2. Waits(q[i], acts)
    BY DEF QueueFits
  <2>3. q[i] \in Transitions
    OBVIOUS
  <2>4. q[i].by \in ActionIds \cup {None} /\ (q[i].kind = "off" => q[i].by \in ActionIds)
    BY <2>3 DEF Transitions, Loud
  <2>5. q[i].by # a
    BY <1>1, <2>2, NamesOfActions DEF Waits
  <2> QED
    BY <1>2, <2>2, <2>4, <2>5 DEF Waits
<1>6. TasksFit(Tail(t), changed)
  <2>1. SUFFICES ASSUME NEW i \in 1..Len(Tail(t)) PROVE Clears(Tail(t)[i], changed)
    BY DEF TasksFit
  <2>2. Clears(Tail(t)[i], acts)
    BY <1>3 DEF TasksFit
  <2>3. Tail(t)[i] \in Tasks
    BY <1>1
  <2>4. Tail(t)[i].kind = "clear" => Tail(t)[i].by \in ActionIds
    BY <2>3 DEF Tasks
  <2> QED
    BY <1>2, <1>4, <2>2, <2>4 DEF Clears
<1>7. OnTheirWay(changed)
  BY <1>2, IdleFields DEF OnTheirWay
<1> QED
  BY <1>5, <1>6, <1>7 DEF changed

(* A disable that was committed waits for its clear, and for nothing else. *)
LEMMA OwnersOff ==
  ASSUME NEW acts \in [ActionIds -> Action],
         NEW q \in Seq(Transitions), NEW t \in Seq(Tasks), q # <<>>, Head(q).kind = "off",
         QueueFits(q, acts), TasksFit(t, acts), OnTheirWay(acts),
         Differ(q, "off"), Differ(t, "clear")
  PROVE  LET changed == [acts EXCEPT ![Head(q).by] = [acts[Head(q).by] EXCEPT !.step = "clearing"]]
             later == Append(t, Task("clear", Head(q).by))
         IN  /\ QueueFits(Tail(q), changed) /\ TasksFit(later, changed) /\ OnTheirWay(changed)
             /\ Differ(later, "clear")
<1> DEFINE a == Head(q).by
           x == [acts[a] EXCEPT !.step = "clearing"]
           changed == [acts EXCEPT ![a] = x]
           task == Task("clear", a)
<1>1. /\ a \in ActionIds /\ acts[a].kind = "disable" /\ acts[a].step = "queued"
      /\ Tail(q) \in Seq(Transitions)
  <2>1. /\ 1 \in 1..Len(q) /\ Head(q) = q[1] /\ q[1] \in Transitions
        /\ Tail(q) \in Seq(Transitions)
    BY TailShifts
  <2> QED
    BY <2>1 DEF QueueFits, Waits, Transitions, Loud
<1>2. x.kind = "disable" /\ x.step = "clearing"
  <2>1. acts[a] \in Action
    BY <1>1
  <2> QED
    BY <1>1, <2>1 DEF Action
<1>3. changed[a] = x /\ \A b \in ActionIds : b # a => changed[b] = acts[b]
  BY <1>1
<1>4. QueueFits(Tail(q), acts)
  BY FitsTail
<1>5. \A i \in 1..Len(Tail(q)) : ~(Tail(q)[i].kind = "off" /\ Tail(q)[i].by = a)
  BY DifferTail
<1>6. task \in Tasks /\ task.kind = "clear" /\ task.by = a
  BY <1>1 DEF Task, Tasks
<1> HIDE DEF changed, x, task, a
<1>7. QueueFits(Tail(q), changed)
  <2>1. SUFFICES ASSUME NEW i \in 1..Len(Tail(q)) PROVE Waits(Tail(q)[i], changed)
    BY DEF QueueFits
  <2>2. Waits(Tail(q)[i], acts)
    BY <1>4 DEF QueueFits
  <2>3. Tail(q)[i] \in Transitions
    BY <1>1
  <2>4. /\ Tail(q)[i].by \in ActionIds \cup {None}
        /\ Tail(q)[i].kind = "off" => Tail(q)[i].by \in ActionIds
    BY <2>3 DEF Transitions, Loud
  <2>5. Tail(q)[i].by # a
    BY <1>1, <1>5, <2>2, NamesOfActions DEF Waits
  <2> QED
    BY <1>3, <2>2, <2>4, <2>5 DEF Waits
<1>8. \A i \in 1..Len(t) : ~(t[i].kind = "clear" /\ t[i].by = a)
  BY <1>1 DEF TasksFit, Clears
<1>9. TasksFit(t, changed)
  <2>1. SUFFICES ASSUME NEW i \in 1..Len(t) PROVE Clears(t[i], changed)
    BY DEF TasksFit
  <2>2. Clears(t[i], acts)
    BY DEF TasksFit
  <2>3. t[i] \in Tasks
    OBVIOUS
  <2>4. t[i].kind = "clear" => t[i].by \in ActionIds
    BY <2>3 DEF Tasks
  <2> QED
    BY <1>3, <1>8, <2>2, <2>4 DEF Clears
<1>10. TasksFit(Append(t, task), changed)
  <2>1. Clears(task, changed)
    BY <1>2, <1>3, <1>6 DEF Clears
  <2> QED
    BY <1>6, <1>9, <2>1, TasksFitAppend
<1>11. Differ(Append(t, task), "clear")
  BY <1>6, <1>8, DifferAppend
<1>12. OnTheirWay(changed)
  BY <1>2, <1>3 DEF OnTheirWay
<1> QED
  BY <1>7, <1>10, <1>11, <1>12 DEF changed, x, task, a

LEMMA DifferAppendOther ==
  ASSUME NEW q \in Seq(Transitions), Differ(q, "off"), NEW x \in Transitions, x.kind # "off"
  PROVE  Differ(Append(q, x), "off")
BY DifferAppend

LEMMA OwnersStep ==
  ASSUME PresenceTypeOK, OwnersFit, OwnersDiffer, [Next]_vars
  PROVE  OwnersFit' /\ OwnersDiffer'
<1> USE IdleFields
<1>t. /\ actions \in [ActionIds -> Action] /\ queue \in Seq(Transitions)
      /\ tasks \in Seq(Tasks)
  BY DEF PresenceTypeOK, Structures
<1>o. /\ QueueFits(queue, actions) /\ TasksFit(tasks, actions) /\ OnTheirWay(actions)
      /\ Differ(queue, "off") /\ Differ(tasks, "clear")
  BY DEF OwnersFit, OwnersDiffer
<1>0. ASSUME UNCHANGED <<actions, queue, tasks>> PROVE OwnersFit' /\ OwnersDiffer'
  BY <1>0 DEF OwnersFit, OwnersDiffer
<1>k. ASSUME NEW a \in ActionIds, NEW x, actions' = [actions EXCEPT ![a] = x],
             x.step \in {"asking", "capturing", "telling"} => x.kind # "disable",
             \/ actions[a].step = "idle"
             \/ actions[a].kind # "disable" /\ x.kind # "disable" /\ x.step # "idle"
      PROVE  QueueFits(queue, actions') /\ TasksFit(tasks, actions') /\ OnTheirWay(actions')
  BY <1>t, <1>o, <1>k, OwnersKeep
<1>q. ASSUME NEW transition \in Transitions, transition.kind # "off",
             QueueFits(queue, actions'), Waits(transition, actions'),
             queue' = Append(queue, transition)
      PROVE  QueueFits(queue', actions') /\ Differ(queue', "off")
  BY <1>t, <1>o, <1>q, FitsAppend, DifferAppend
<1>n. /\ \A a \in ActionIds, kind \in Loud \cup {"pause", "off"} :
            Transition(kind, a) \in Transitions
      /\ \A kind \in {"enable", "observe"} : Transition(kind, None) \in Transitions
      /\ \A kind, by : Transition(kind, by).kind = kind /\ Transition(kind, by).by = by
  BY DEF Transition, Transitions
<1>1. ASSUME NEW a \in ActionIds, NEW kind \in Trusting, Begin(a, kind)
      PROVE  OwnersFit' /\ OwnersDiffer'
  <2> DEFINE begun == [Idle EXCEPT !.kind = kind, !.step = "asking", !.generation = generation]
  <2>1. begun.kind = kind /\ kind # "disable"
    BY DEF Idle, Trusting
  <2>2. /\ actions' = [actions EXCEPT ![a] = begun] /\ actions[a].step = "idle"
        /\ UNCHANGED <<queue, tasks>>
    BY <1>1 DEF Begin, Free, disk
  <2> HIDE DEF begun
  <2>3. QueueFits(queue, actions') /\ TasksFit(tasks, actions') /\ OnTheirWay(actions')
    BY <1>k, <2>1, <2>2
  <2> QED
    BY <1>o, <2>2, <2>3 DEF OwnersFit, OwnersDiffer
<1>2. ASSUME NEW a \in ActionIds, Pause(a) PROVE OwnersFit' /\ OwnersDiffer'
  <2>1. /\ actions' = [actions EXCEPT ![a] = Started("pause")] /\ actions[a].step = "idle"
        /\ queue' = Append(queue, Transition("pause", a)) /\ UNCHANGED tasks
    BY <1>2 DEF Pause, Free, Enqueued, disk
  <2>2. QueueFits(queue, actions') /\ TasksFit(tasks, actions') /\ OnTheirWay(actions')
    BY <1>k, <2>1
  <2>3. Waits(Transition("pause", a), actions')
    BY <1>t, <1>n, <2>1 DEF Waits
  <2>4. QueueFits(queue', actions') /\ Differ(queue', "off")
    <3>1. Transition("pause", a) \in Transitions /\ Transition("pause", a).kind = "pause"
      BY <1>n
    <3> QED
      BY <1>q, <2>1, <2>2, <2>3, <3>1
  <2> QED
    BY <1>o, <2>1, <2>2, <2>4 DEF OwnersFit, OwnersDiffer
<1>3. ASSUME NEW a \in ActionIds, Disable(a) PROVE OwnersFit' /\ OwnersDiffer'
  <2>1. /\ actions' = [actions EXCEPT ![a] = Started("disable")] /\ actions[a].step = "idle"
        /\ queue' = Append(queue, Transition("off", a)) /\ UNCHANGED tasks
    BY <1>3 DEF Disable, Free, Enqueued, disk
  <2>2. QueueFits(queue, actions') /\ TasksFit(tasks, actions') /\ OnTheirWay(actions')
    BY <1>k, <2>1
  <2>3. Waits(Transition("off", a), actions')
    BY <1>t, <1>n, <2>1 DEF Waits
  <2>4. QueueFits(queue', actions')
    BY <1>t, <1>n, <2>1, <2>2, <2>3, FitsAppend
  <2>5. \A i \in 1..Len(queue) : ~(queue[i].kind = "off" /\ queue[i].by = a)
    BY <1>o, <2>1 DEF QueueFits, Waits
  <2>6. Differ(queue', "off")
    BY <1>t, <1>o, <1>n, <2>1, <2>5, DifferAppend
  <2> QED
    BY <1>o, <2>1, <2>2, <2>4, <2>6 DEF OwnersFit, OwnersDiffer
<1>4. CASE Dispose
  BY <1>0, <1>4 DEF Dispose, disk
<1>5. ASSUME NEW a \in ActionIds, Refuse(a) \/ Supersede(a) \/ Acknowledge(a)
      PROVE  OwnersFit' /\ OwnersDiffer'
  <2>1. /\ actions' = [actions EXCEPT ![a] = Ended]
        /\ actions[a].step \in {"asking", "telling"}
        /\ UNCHANGED <<queue, tasks>>
    BY <1>5, AcknowledgeFrame DEF Refuse, Supersede, Ends, disk
  <2>2. actions[a].kind # "disable"
    BY <1>o, <2>1 DEF OnTheirWay
  <2>3. QueueFits(queue, actions') /\ TasksFit(tasks, actions') /\ OnTheirWay(actions')
    BY <1>k, <2>1, <2>2
  <2> QED
    BY <1>o, <2>1, <2>3 DEF OwnersFit, OwnersDiffer
<1>6. ASSUME NEW a \in ActionIds, Admit(a) PROVE OwnersFit' /\ OwnersDiffer'
  <2> DEFINE admitted == [actions[a] EXCEPT !.step = "queued", !.lifetime = lifetime]
  <2>1. /\ actions' = [actions EXCEPT ![a] = admitted] /\ actions[a].step = "asking"
        /\ queue' = Append(queue, Transition("enable", a)) /\ UNCHANGED tasks
    BY <1>6 DEF Admit, Enqueued, disk
  <2>2. actions[a].kind # "disable"
    BY <1>o, <2>1 DEF OnTheirWay
  <2>3. admitted.kind = actions[a].kind /\ admitted.step = "queued"
    <3>1. actions[a] \in Action
      BY <1>t
    <3> QED
      BY <3>1 DEF Action
  <2> HIDE DEF admitted
  <2>4. QueueFits(queue, actions') /\ TasksFit(tasks, actions') /\ OnTheirWay(actions')
    BY <1>k, <2>1, <2>2, <2>3
  <2>5. Waits(Transition("enable", a), actions')
    BY <1>t, <1>n, <2>1, <2>2, <2>3 DEF Waits
  <2>6. Transition("enable", a) \in Transitions /\ Transition("enable", a).kind = "enable"
    BY <1>n DEF Loud
  <2>7. QueueFits(queue', actions') /\ Differ(queue', "off")
    BY <1>q, <2>1, <2>4, <2>5, <2>6
  <2> QED
    BY <1>o, <2>1, <2>4, <2>7 DEF OwnersFit, OwnersDiffer
<1>7. ASSUME NEW a \in ActionIds, CaptureEnds(a) PROVE OwnersFit' /\ OwnersDiffer'
  <2> DEFINE entering == [actions[a] EXCEPT !.step = "queued"]
  <2>1. /\ actions[a].step = "capturing" /\ UNCHANGED tasks
        /\ \/ actions' = [actions EXCEPT ![a] = Ended] /\ UNCHANGED queue
           \/ /\ actions' = [actions EXCEPT ![a] = entering]
              /\ queue' = Append(queue, Transition("entry", a))
    BY <1>7 DEF CaptureEnds, Ends, To, Enqueued, disk
  <2>2. actions[a].kind # "disable"
    BY <1>o, <2>1 DEF OnTheirWay
  <2>3. entering.kind = actions[a].kind /\ entering.step = "queued"
    BY ActionFields
  <2> HIDE DEF entering
  <2>4. CASE actions' = [actions EXCEPT ![a] = Ended] /\ UNCHANGED queue
    <3>1. QueueFits(queue, actions') /\ TasksFit(tasks, actions') /\ OnTheirWay(actions')
      BY <1>k, <2>2, <2>4
    <3> QED
      BY <1>o, <2>1, <2>4, <3>1 DEF OwnersFit, OwnersDiffer
  <2>5. CASE /\ actions' = [actions EXCEPT ![a] = entering]
             /\ queue' = Append(queue, Transition("entry", a))
    <3>1. QueueFits(queue, actions') /\ TasksFit(tasks, actions') /\ OnTheirWay(actions')
      BY <1>k, <2>2, <2>3, <2>5
    <3>2. Waits(Transition("entry", a), actions')
      BY <1>t, <1>n, <2>2, <2>3, <2>5 DEF Waits
    <3>3. Transition("entry", a) \in Transitions
      BY <1>n DEF Loud
    <3>4. QueueFits(queue', actions') /\ Differ(queue', "off")
      BY <1>n, <1>q, <2>5, <3>1, <3>2, <3>3
    <3> QED
      BY <1>o, <2>1, <3>1, <3>4 DEF OwnersFit, OwnersDiffer
  <2> QED
    BY <2>1, <2>4, <2>5
<1>8. CASE OthersAct \/ Edit
  <2>1. /\ UNCHANGED <<actions, tasks>>
        /\ \/ UNCHANGED queue
           \/ \E kind \in {"enable", "observe"} : queue' = Append(queue, Transition(kind, None))
    BY <1>8 DEF OthersAct, Edit, Enqueued, disk
  <2>2. CASE UNCHANGED queue
    BY <1>0, <2>1, <2>2
  <2>3. ASSUME NEW kind \in {"enable", "observe"}, queue' = Append(queue, Transition(kind, None))
        PROVE  OwnersFit' /\ OwnersDiffer'
    <3>1. Waits(Transition(kind, None), actions')
      BY <1>n DEF Waits
    <3>2. QueueFits(queue', actions') /\ Differ(queue', "off")
      BY <1>o, <1>n, <1>q, <2>1, <2>3, <3>1
    <3> QED
      BY <1>o, <2>1, <3>2 DEF OwnersFit, OwnersDiffer
  <2> QED
    BY <2>1, <2>2, <2>3
<1>9. ASSUME NEW timer \in timers, TimerFires(timer) PROVE OwnersFit' /\ OwnersDiffer'
  <2> DEFINE task == Task("append", None)
  <2>1. /\ UNCHANGED <<actions, queue>>
        /\ UNCHANGED tasks \/ tasks' = Append(tasks, task)
    BY <1>9 DEF TimerFires, Journalled
  <2>2. task \in Tasks /\ task.kind = "append"
    BY DEF Task, Tasks
  <2> HIDE DEF task
  <2>3. CASE tasks' = Append(tasks, task)
    <3>1. TasksFit(tasks', actions) /\ Differ(tasks', "clear")
      BY <1>t, <1>o, <2>2, <2>3, TasksFitAppend, DifferAppend DEF Clears
    <3> QED
      BY <1>o, <2>1, <3>1 DEF OwnersFit, OwnersDiffer
  <2> QED
    BY <1>0, <2>1, <2>3
<1>10. CASE Reconcile \/ UNCHANGED vars
  BY <1>0, <1>10 DEF Reconcile, vars, disk
<1>11. CASE TaskDone
  <2>1. /\ tasks # <<>> /\ tasks' = Tail(tasks) /\ UNCHANGED queue
        /\ IF Head(tasks).kind = "clear"
           THEN actions' = [actions EXCEPT ![Head(tasks).by] = Ended]
           ELSE UNCHANGED actions
    BY <1>11 DEF TaskDone, Ends
  <2>2. Differ(tasks', "clear")
    BY <1>t, <1>o, <2>1, DifferTail
  <2>3. CASE Head(tasks).kind = "clear"
    <3>1. QueueFits(queue, actions') /\ TasksFit(tasks', actions') /\ OnTheirWay(actions')
      BY <1>t, <1>o, <2>1, <2>3, OwnersCleared
    <3> QED
      BY <1>o, <2>1, <2>2, <3>1 DEF OwnersFit, OwnersDiffer
  <2>4. CASE Head(tasks).kind # "clear"
    <3>1. TasksFit(tasks', actions)
      BY <1>t, <1>o, <2>1, TasksFitTail
    <3> QED
      BY <1>o, <2>1, <2>2, <2>4, <3>1 DEF OwnersFit, OwnersDiffer
  <2> QED
    BY <2>3, <2>4
<1>12. ASSUME NEW a \in ActionIds, TaskFails(a) PROVE OwnersFit' /\ OwnersDiffer'
  <2> DEFINE paused == [actions EXCEPT ![a] = Started("pause")]
  <2>1. /\ tasks # <<>> /\ tasks' = Tail(tasks)
        /\ queue' = Append(queue, Transition("pause", a)) /\ actions[a].step = "idle"
    BY <1>12, FailureFrame DEF Free
  <2>2. /\ Head(tasks).kind # "clear" => actions' = paused
        /\ Head(tasks).kind = "clear" => actions' = [paused EXCEPT ![Head(tasks).by] = Ended]
    BY <1>12, FailureCases
  <2>3. QueueFits(queue, paused) /\ TasksFit(tasks, paused) /\ OnTheirWay(paused)
    BY <1>t, <1>o, <2>1, OwnersKeep
  <2>4. paused \in [ActionIds -> Action] /\ paused[a] = Started("pause")
    <3>1. Started("pause") \in Action
      BY DEF Idle, Action, ActionSteps, Kinds, Started
    <3> QED
      BY <1>t, <3>1
  <2> HIDE DEF paused
  <2>5. QueueFits(queue', paused) /\ Differ(queue', "off") /\ queue' \in Seq(Transitions)
    <3>1. Waits(Transition("pause", a), paused)
      BY <1>n, <2>4 DEF Waits
    <3>2. Transition("pause", a) \in Transitions /\ Transition("pause", a).kind = "pause"
      BY <1>n
    <3> QED
      BY <1>t, <1>o, <2>1, <2>3, <3>1, <3>2, FitsAppend, DifferAppend, AppendLast
  <2>6. Differ(tasks', "clear")
    BY <1>t, <1>o, <2>1, DifferTail
  <2>7. CASE Head(tasks).kind = "clear"
    <3>1. QueueFits(queue', actions') /\ TasksFit(tasks', actions') /\ OnTheirWay(actions')
      BY <1>t, <1>o, <2>1, <2>2, <2>3, <2>4, <2>5, <2>7, OwnersCleared
    <3> QED
      BY <2>5, <2>6, <3>1 DEF OwnersFit, OwnersDiffer
  <2>8. CASE Head(tasks).kind # "clear"
    <3>1. TasksFit(tasks', paused)
      BY <1>t, <2>1, <2>3, TasksFitTail
    <3> QED
      BY <2>2, <2>3, <2>5, <2>6, <2>8, <3>1 DEF OwnersFit, OwnersDiffer
  <2> QED
    BY <2>7, <2>8
<1>13. CASE CommitNext
  <2>1. queue # <<>>
    BY <1>13, CommitFrame
  <2>2. /\ Tail(queue) \in Seq(Transitions) /\ Differ(Tail(queue), "off")
        /\ Waits(Head(queue), actions)
    BY <1>t, <1>o, <2>1, DifferTail, OwnerType DEF QueueFits
  <2>3. Head(queue).kind # "off" /\ Owner \in ActionIds => actions[Owner].kind # "disable"
    BY <2>2, NamesOfActions DEF Waits, Owner
  <2>4. ASSUME QueueFits(queue, actions') PROVE QueueFits(Tail(queue), actions')
    BY <1>t, <2>1, <2>4, FitsTail
  <2>5. CASE GoesOn
    <3>1. /\ Owner \in ActionIds /\ Head(queue).kind # "off" /\ tasks' = tasks
      BY <2>5 DEF GoesOn
    <3>2. PICK step \in {"queued", "capturing"} :
             /\ actions' = [actions EXCEPT ![Owner].step = step, ![Owner].base = revision']
             /\ \/ queue' = Tail(queue)
                \/ step = "queued" /\ queue' = Append(Tail(queue), Transition("start", Owner))
      BY <2>5 DEF GoesOn, StartIfNeeded, CaptureStarts
    <3> DEFINE x == [actions[Owner] EXCEPT !.step = step, !.base = revision']
    <3>3. actions' = [actions EXCEPT ![Owner] = x]
      BY <3>1, <3>2
    <3>4. x.kind = actions[Owner].kind /\ x.step = step
      BY <3>1, ActionFields
    <3> HIDE DEF x
    <3>5. QueueFits(queue, actions') /\ TasksFit(tasks, actions') /\ OnTheirWay(actions')
      BY <1>k, <2>3, <3>1, <3>3, <3>4
    <3>6. CASE queue' = Tail(queue)
      BY <1>o, <2>2, <2>4, <3>1, <3>5, <3>6 DEF OwnersFit, OwnersDiffer
    <3>7. CASE queue' = Append(Tail(queue), Transition("start", Owner))
      <4>1. Waits(Transition("start", Owner), actions')
        BY <1>t, <1>n, <2>3, <3>1, <3>3, <3>4 DEF Waits
      <4>2. /\ Transition("start", Owner) \in Transitions
            /\ Transition("start", Owner).kind = "start"
        BY <1>n, <3>1 DEF Loud
      <4>3. QueueFits(queue', actions')
        BY <2>2, <2>4, <3>5, <3>7, <4>1, <4>2, FitsAppend
      <4>4. Differ(queue', "off")
        <5>1. Transition("start", Owner).kind # "off"
          BY <4>2
        <5> QED
          BY <2>2, <3>7, <4>2, <5>1, DifferAppendOther
      <4> QED
        BY <1>o, <3>1, <3>5, <4>3, <4>4 DEF OwnersFit, OwnersDiffer
    <3> QED
      BY <3>2, <3>6, <3>7
  <2>6. CASE LeavesAlone
    BY <1>o, <2>2, <2>4, <2>6 DEF LeavesAlone, OwnersFit, OwnersDiffer
  <2>7. CASE EndsOwner
    <3>1. /\ Owner \in ActionIds /\ actions[Owner].kind # "disable"
          /\ actions' = [actions EXCEPT ![Owner] = Ended]
          /\ queue' = Tail(queue) /\ tasks' = tasks
      BY <2>3, <2>7 DEF EndsOwner
    <3>2. QueueFits(queue, actions') /\ TasksFit(tasks, actions') /\ OnTheirWay(actions')
      BY <1>k, <3>1
    <3> QED
      BY <1>o, <2>2, <2>4, <3>1, <3>2 DEF OwnersFit, OwnersDiffer
  <2>8. CASE CommitOff
    <3>1. Head(queue).kind = "off" /\ Owner = Head(queue).by
      BY <2>8 DEF CommitOff, Turn, Owner
    <3>2. /\ actions' = [actions EXCEPT ![Head(queue).by] =
                            [actions[Head(queue).by] EXCEPT !.step = "clearing"]]
          /\ queue' = Tail(queue) /\ tasks' = Append(tasks, Task("clear", Head(queue).by))
      BY <2>8 DEF CommitOff, To, Owner
    <3>3. /\ QueueFits(queue', actions') /\ TasksFit(tasks', actions') /\ OnTheirWay(actions')
          /\ Differ(tasks', "clear")
      BY <1>t, <1>o, <2>1, <3>1, <3>2, OwnersOff
    <3> QED
      BY <2>2, <3>2, <3>3 DEF OwnersFit, OwnersDiffer
  <2>9. CASE Tells
    <3> DEFINE told == [actions[Owner] EXCEPT !.step = "telling"]
    <3>1. /\ Owner \in ActionIds /\ actions[Owner].kind # "disable"
          /\ actions' = [actions EXCEPT ![Owner] = told]
          /\ queue' = Tail(queue) /\ tasks' = tasks
      BY <2>3, <2>9 DEF Tells
    <3>2. told.kind = actions[Owner].kind /\ told.step = "telling"
      BY <3>1, ActionFields
    <3> HIDE DEF told
    <3>3. QueueFits(queue, actions') /\ TasksFit(tasks, actions') /\ OnTheirWay(actions')
      BY <1>k, <3>1, <3>2
    <3> QED
      BY <1>o, <2>2, <2>4, <3>1, <3>3 DEF OwnersFit, OwnersDiffer
  <2> QED
    BY <1>13, <2>5, <2>6, <2>7, <2>8, <2>9, CommitCases
<1> QED
  BY <1>1, <1>2, <1>3, <1>4, <1>5, <1>6, <1>7, <1>8, <1>9, <1>10, <1>11, <1>12, <1>13
     DEF Next, Continue

-----------------------------------------------------------------------------
(* The journal's operations.                                               *)

LEMMA HasTail ==
  ASSUME NEW t \in Seq(Tasks), t # <<>>, NEW kind
  PROVE  /\ Has(t, kind) => Head(t).kind = kind \/ Has(Tail(t), kind)
         /\ Has(Tail(t), kind) => Has(t, kind)
         /\ Head(t).kind = kind => Has(t, kind)
<1> DEFINE p == Tail(t)
           n == Len(t)
<1>1. /\ Len(p) = n - 1 /\ n \in Nat \ {0} /\ Head(t) = t[1] /\ 1 \in 1..n
      /\ \A j \in 1..(n - 1) : p[j] = t[j + 1] /\ j + 1 \in 1..n
  BY TailShifts
<1>2. \A i \in 1..n : i = 1 \/ (i - 1 \in 1..(n - 1) /\ p[i - 1] = t[i])
  <2>1. SUFFICES ASSUME NEW i \in 1..n, i # 1
                 PROVE  i - 1 \in 1..(n - 1) /\ p[i - 1] = t[i]
    OBVIOUS
  <2>2. i - 1 \in 1..(n - 1) /\ (i - 1) + 1 = i
    BY <1>1, <2>1
  <2> QED
    BY <1>1, <2>2
<1> HIDE DEF p, n
<1> QED
  BY <1>1, <1>2 DEF Has, p, n

LEMMA HasAppend ==
  ASSUME NEW t \in Seq(Tasks), NEW x \in Tasks, NEW kind
  PROVE  Has(Append(t, x), kind) <=> Has(t, kind) \/ x.kind = kind
<1> DEFINE p == Append(t, x)
           n == Len(t)
<1>1. /\ Len(p) = n + 1 /\ n \in Nat /\ n + 1 \in 1..(n + 1)
      /\ \A j \in 1..n : p[j] = t[j] /\ j \in 1..(n + 1)
      /\ p[n + 1] = x
      /\ \A j \in 1..(n + 1) : j = n + 1 \/ j \in 1..n
  BY AppendLast
<1> HIDE DEF p, n
<1> QED
  BY <1>1 DEF Has, p, n

LEMMA ClearedByLast ==
  ASSUME NEW t \in Seq(Tasks), NEW x \in Tasks, x.kind = "clear", NEW onDisk
  PROVE  Cleared(Append(t, x), onDisk)
<1> DEFINE p == Append(t, x)
           n == Len(t) + 1
<1>1. /\ Len(p) = n /\ n \in 1..n /\ p[n] = x
      /\ \A j \in 1..n : ~(j > n)
  BY AppendLast
<1> HIDE DEF p, n
<1> QED
  BY <1>1 DEF Cleared, p

(* Nothing that the journal does takes a clear back.                       *)
LEMMA ClearedTail ==
  ASSUME NEW t \in Seq(Tasks), t # <<>>, NEW onDisk, NEW after, Cleared(t, onDisk),
         Head(t).kind = "clear" => ~after,
         Head(t).kind \notin {"append", "clear"} => after = onDisk
  PROVE  Cleared(Tail(t), after)
<1> DEFINE p == Tail(t)
           n == Len(t)
<1>1. /\ Len(p) = n - 1 /\ n \in Nat \ {0} /\ Head(t) = t[1] /\ 1 \in 1..n
      /\ \A j \in 1..(n - 1) : p[j] = t[j + 1] /\ j + 1 \in 1..n /\ j + 1 > 1
  BY TailShifts
<1> HIDE DEF p, n
<1>2. CASE ~onDisk /\ ~Has(t, "append")
  <2>1. Head(t).kind # "append" /\ ~Has(p, "append")
    BY <1>2, HasTail DEF p
  <2>2. ~after
    BY <1>2, <2>1
  <2> QED
    BY <2>1, <2>2 DEF Cleared, p
<1>3. ASSUME NEW i \in 1..n, t[i].kind = "clear", \A j \in 1..n : j > i => t[j].kind # "append"
      PROVE  Cleared(p, after)
  <2>1. CASE i = 1
    BY <1>1, <1>3, <2>1 DEF Cleared, Has
  <2>2. CASE i # 1
    <3>1. i - 1 \in 1..Len(p) /\ (i - 1) + 1 = i
      BY <1>1, <1>3, <2>2
    <3>2. p[i - 1] = t[i]
      BY <1>1, <3>1
    <3>3. \A j \in 1..Len(p) : j > i - 1 => p[j].kind # "append"
      BY <1>1, <1>3
    <3> QED
      BY <1>3, <3>1, <3>2, <3>3 DEF Cleared
  <2> QED
    BY <2>1, <2>2
<1> QED
  BY <1>2, <1>3 DEF Cleared, p, n

-----------------------------------------------------------------------------
(* A pause.                                                                *)

LEMMA PauseStep ==
  ASSUME PresenceTypeOK, NotAhead, ContextFits, ListenerIsCurrent, PauseHolds, [Next]_vars
  PROVE  PauseHolds'
<1>t. /\ queue \in Seq(Transitions) /\ tasks \in Seq(Tasks)
  BY DEF PresenceTypeOK, Structures
<1>n. /\ \A a \in ActionIds : Transition("pause", a) \in Transitions
      /\ Transition("observe", None) \in Transitions
      /\ \A kind, by : Transition(kind, by).kind = kind
      /\ Task("append", None) \in Tasks
  BY DEF Transition, Transitions, Task, Tasks
<1>h. SUFFICES ASSUME intent' = "pause"
               PROVE  Stale' /\ (Awaits(queue', "pause") \/ IsPaused')
  BY DEF PauseHolds
<1>p. ASSUME NEW a \in ActionIds, queue' = Append(queue, Transition("pause", a)),
             generation' = generation + 1
      PROVE  Stale' /\ Awaits(queue', "pause")
  <2>1. Stale'
    BY <1>h, <1>p, HaltMakesStale
  <2>2. Transition("pause", a) \in Transitions /\ Transition("pause", a).kind = "pause"
    BY <1>n
  <2>3. Awaits(Append(queue, Transition("pause", a)), "pause")
    BY <1>t, <2>2, AwaitsNew
  <2> QED
    BY <1>p, <2>1, <2>3
<1>s. ASSUME intent' = intent
      PROVE  Stale /\ Stale' /\ (Awaits(queue, "pause") \/ IsPaused)
  BY <1>h, <1>s, StaysStale DEF PauseHolds
<1>u. ASSUME UNCHANGED <<queue, status, intent>>, IsPaused => Dark' /\ Shown'
      PROVE  Stale' /\ (Awaits(queue', "pause") \/ IsPaused')
  BY <1>s, <1>u DEF IsPaused
<1>1. ASSUME NEW a \in ActionIds, Pause(a)
      PROVE  Stale' /\ (Awaits(queue', "pause") \/ IsPaused')
  BY <1>p, <1>1 DEF Pause, Halt, Enqueued
<1>2. ASSUME NEW a \in ActionIds, TaskFails(a)
      PROVE  Stale' /\ (Awaits(queue', "pause") \/ IsPaused')
  BY <1>p, <1>2, FailureFrame
<1>3. ASSUME NEW a \in ActionIds, NEW kind \in Trusting, Begin(a, kind) PROVE FALSE
  BY <1>h, <1>3 DEF Begin
<1>4. ASSUME NEW a \in ActionIds, Disable(a) PROVE FALSE
  BY <1>h, <1>4 DEF Disable
<1>5. ASSUME OthersAct PROVE FALSE
  BY <1>h, <1>5 DEF OthersAct
<1>6. CASE Dispose
  <2>1. UNCHANGED <<queue, status, intent>> /\ Dark' /\ Shown'
    BY <1>6 DEF Dispose, Halt, Dark, Shown, runtime
  <2> QED
    BY <1>u, <2>1
<1>7. ASSUME NEW a \in ActionIds, Continue(a)
      PROVE  Stale' /\ (Awaits(queue', "pause") \/ IsPaused')
  <2>0. intent' = intent
    BY <1>7 DEF Continue, Refuse, Supersede, Admit, CaptureEnds
  <2>1. Aborted(a) /\ ~Admit(a)
    BY <1>s, <2>0, StaleIsLate
  <2>2. CASE Refuse(a)
    <3>1. UNCHANGED <<queue, status, intent>> /\ Dark' /\ Shown'
      BY <2>2 DEF Refuse, Dark, Shown, runtime
    <3> QED
      BY <1>u, <3>1
  <2>3. CASE Supersede(a) \/ CaptureEnds(a)
    <3>1. UNCHANGED <<queue, status, intent, trusted, disposed, tasks, shown>>
      BY <2>1, <2>3 DEF Supersede, CaptureEnds, runtime, disk
    <3>2. IsPaused => Dark' /\ Shown'
      BY <3>1 DEF IsPaused, Dark, Shown, shown
    <3> QED
      BY <1>u, <3>1, <3>2
  <2> QED
    BY <1>7, <2>1, <2>2, <2>3 DEF Continue
<1>8. CASE Edit
  <2>0. intent' = intent /\ listener # None
    BY <1>8 DEF Edit
  <2>1. Stale' /\ Awaits(queue, "pause")
    BY <1>s, <2>0 DEF IsPaused, Dark
  <2>2. queue' = queue \/ queue' = Append(queue, Transition("observe", None))
    BY <1>8 DEF Edit, Enqueued
  <2>3. Awaits(Append(queue, Transition("observe", None)), "pause")
    <3>1. /\ Transition("observe", None) \in Transitions
          /\ Transition("observe", None).kind \notin Loud
      BY <1>n DEF Loud
    <3> QED
      BY <1>t, <2>1, <3>1, AwaitsAppend
  <2> QED
    BY <2>1, <2>2, <2>3
<1>9. ASSUME NEW timer \in timers, TimerFires(timer)
      PROVE  Stale' /\ (Awaits(queue', "pause") \/ IsPaused')
  <2>1. UNCHANGED <<queue, status, intent, trusted, disposed, shown>>
    BY <1>9 DEF TimerFires, runtime
  <2>2. Has(tasks, "clear") => Has(tasks', "clear")
    <3> DEFINE task == Task("append", None)
    <3>1. tasks' = tasks \/ tasks' = Append(tasks, task)
      BY <1>9 DEF TimerFires, Journalled
    <3>2. task \in Tasks
      BY <1>n
    <3> HIDE DEF task
    <3>3. Has(tasks, "clear") => Has(Append(tasks, task), "clear")
      BY <1>t, <3>2, HasAppend
    <3> QED
      BY <3>1, <3>3
  <2>3. IsPaused => Dark' /\ Shown'
    BY <2>1, <2>2 DEF IsPaused, Dark, Shown, shown
  <2> QED
    BY <1>u, <2>1, <2>3
<1>10. CASE Reconcile \/ UNCHANGED vars
  <2>1. UNCHANGED <<queue, status, intent, trusted, disposed, tasks, shown>>
    BY <1>10 DEF Reconcile, vars, runtime, disk, shown
  <2>2. IsPaused => Dark' /\ Shown'
    BY <2>1 DEF IsPaused, Dark, Shown, shown
  <2> QED
    BY <1>u, <2>1, <2>2
<1>11. CASE TaskDone
  <2>1. /\ UNCHANGED <<queue, status, intent, trusted, disposed>>
        /\ tasks # <<>> /\ tasks' = Tail(tasks)
        /\ IF Head(tasks).kind = "clear" THEN ApplyUnlessDisposed ELSE UNCHANGED shown
    BY <1>11 DEF TaskDone, runtime
  <2>2. Has(tasks, "clear") => Head(tasks).kind = "clear" \/ Has(tasks', "clear")
    BY <1>t, <2>1, HasTail
  <2>3. IsPaused => Dark' /\ Shown'
    BY <2>1, <2>2 DEF IsPaused, Dark, Shown, shown, ApplyUnlessDisposed, ApplySnapshot
  <2> QED
    BY <1>u, <2>1, <2>3
<1>12. CASE CommitNext
  <2>0. queue # <<>> /\ UNCHANGED <<intent, trusted, disposed>>
    BY <1>12, CommitFrame
  <2>1. /\ Stale /\ Stale' /\ (Awaits(queue, "pause") \/ IsPaused)
        /\ \A a \in ActionIds : ~IsCurrentGeneration(a) /\ Aborted(a)
    BY <1>s, <2>0, StaleIsLate
  <2>2. queue' = Tail(queue)
    BY <1>12, <2>1, CommitCases DEF GoesOn, LeavesAlone, EndsOwner, Tells, CommitOff
  <2>3. Awaits(queue, "pause") =>
          Awaits(queue', "pause") \/ (Head(queue).kind = "pause" /\ NoLoud(queue'))
    BY <1>t, <2>0, <2>2, AwaitsTail
  <2>4. IsPaused => NoLoud(queue') /\ Head(queue).kind \notin Loud
    BY <1>t, <2>0, <2>2, NoLoudTail, OwnerType DEF IsPaused, NoLoud
  <2>5. CASE CommitPause
    <3>1. Awaits(queue', "pause") \/ NoLoud(queue')
      BY <2>1, <2>3, <2>4
    <3>2. status' # "on"
      BY <2>5 DEF CommitPause, Committed
    <3>3. CASE disposed
      <4>1. listener = None /\ ~context
        BY <3>3 DEF ListenerIsCurrent, ContextFits
      <4>2. Dark' /\ Shown'
        BY <2>0, <2>5, <3>3, <4>1 DEF CommitPause, ApplyUnlessDisposed, Dark, Shown, shown
      <4> QED
        BY <2>1, <3>1, <3>2, <4>2 DEF IsPaused
    <3>4. CASE ~disposed
      <4>1. Dark' /\ Shown'
        BY <2>5, <3>2, <3>4 DEF CommitPause, ApplyUnlessDisposed, ApplySnapshot, Dark, Shown
      <4> QED
        BY <2>1, <3>1, <3>2, <4>1 DEF IsPaused
    <3> QED
      BY <3>3, <3>4
  <2>6. CASE CommitOff \/ CommitObservation
    <3>1. Head(queue).kind \in {"off", "observe"} /\ UNCHANGED shown
      BY <2>6 DEF CommitOff, CommitObservation, Turn
    <3>2. Awaits(queue, "pause") => Awaits(queue', "pause")
      BY <2>3, <3>1
    <3>3. IsPaused => IsPaused'
      <4>1. CASE CommitOff
        <5>1. Task("clear", Owner) \in Tasks /\ Task("clear", Owner).kind = "clear"
          BY <2>0, <4>1, OwnerType DEF CommitOff, Turn, Task, Tasks
        <5>2. status' = "off" /\ tasks' = Append(tasks, Task("clear", Owner))
          BY <4>1 DEF CommitOff, Committed
        <5>3. Has(tasks', "clear")
          BY <1>t, <5>1, <5>2, HasAppend
        <5> QED
          BY <2>4, <3>1, <5>2, <5>3 DEF IsPaused, Dark, Shown, shown
      <4>2. CASE CommitObservation
        <5>1. UNCHANGED <<status, tasks>>
          BY <4>2 DEF CommitObservation, disk
        <5> QED
          BY <2>0, <2>4, <3>1, <5>1 DEF IsPaused, Dark, Shown, shown
      <4> QED
        BY <2>6, <4>1, <4>2
    <3> QED
      BY <2>1, <3>2, <3>3
  <2>7. CASE CommitEnable \/ CommitStart \/ CommitEntry
    <3>1. Head(queue).kind \in Loud
      BY <2>7 DEF CommitEnable, CommitStart, CommitEntry, Turn, Loud
    <3> QED
      BY <2>1, <2>3, <2>4, <3>1 DEF Loud
  <2> QED
    BY <1>12, <2>5, <2>6, <2>7 DEF CommitNext
<1>13. ASSUME NEW a \in ActionIds, Acknowledge(a)
       PROVE  Stale' /\ (Awaits(queue', "pause") \/ IsPaused')
  <2>1. UNCHANGED <<queue, status, intent, trusted, disposed, tasks>>
    BY <1>13, AcknowledgeFrame
  <2>2. UNCHANGED shown
    BY <1>13, <1>s, <2>1, StaleIsLate, AcknowledgeFrame
  <2>3. IsPaused => Dark' /\ Shown'
    BY <2>1, <2>2 DEF IsPaused, Dark, Shown, shown
  <2> QED
    BY <1>u, <2>1, <2>3
<1> QED
  BY <1>1, <1>2, <1>3, <1>4, <1>5, <1>6, <1>7, <1>8, <1>9, <1>10, <1>11, <1>12, <1>13 DEF Next

-----------------------------------------------------------------------------
(* A disable.                                                              *)

LEMMA DisableStep ==
  ASSUME PresenceTypeOK, NotAhead, OwnersFit, ContextFits, ListenerIsCurrent, DisableHolds,
         [Next]_vars
  PROVE  DisableHolds'
<1>t. /\ queue \in Seq(Transitions) /\ tasks \in Seq(Tasks)
      /\ restoration \in Nat /\ failures \in Nat /\ restoring.generation = 0
      /\ generation \in Nat
  BY DEF PresenceTypeOK, Structures, Numbers
<1>n. /\ \A a \in ActionIds, kind \in {"pause", "off"} : Transition(kind, a) \in Transitions
      /\ \A kind, by : Transition(kind, by).kind = kind
  BY DEF Transition, Transitions
<1> DEFINE First == AwaitsFirst(queue, "off") /\ ~Has(tasks, "clear")
<1>h. SUFFICES ASSUME intent' = "disable"
               PROVE  Stale' /\ Forgotten' /\ (First' \/ IsOff')
  BY DEF DisableHolds
<1>s. ASSUME intent' = intent
      PROVE  Stale /\ Stale' /\ Forgotten /\ (First \/ IsOff)
  BY <1>h, <1>s, StaysStale DEF DisableHolds
<1>u. ASSUME UNCHANGED <<intent, queue, status, session, restoration, window>>,
             pending' = None \/ UNCHANGED pending, Forgotten => Dark',
             First => ~Has(tasks', "clear"),
             IsOff => Shown' /\ (failures' = 0 => Cleared(tasks', stored'))
      PROVE  Stale' /\ Forgotten' /\ (First' \/ IsOff')
  BY <1>s, <1>u DEF Forgotten, IsOff
<1>1. ASSUME NEW a \in ActionIds, Disable(a)
      PROVE  Stale' /\ Forgotten' /\ (First' \/ IsOff')
  <2>1. /\ generation' = generation + 1 /\ restoration' = restoration + 1
        /\ listener' = None /\ ~context' /\ window' = {} /\ pending' = None
        /\ queue' = Append(queue, Transition("off", a)) /\ UNCHANGED tasks
    BY <1>1 DEF Disable, Halt, Dropped, Enqueued, disk
  <2>2. Stale' /\ Forgotten'
    BY <1>h, <1>t, <2>1, HaltMakesStale DEF Forgotten, Dark
  <2>3. \A b \in ActionIds : ~Disabling(b)
    BY <1>h, <1>1 DEF Disable
  <2>4. \A i \in 1..Len(queue) : queue[i].kind # "off"
    <3>1. SUFFICES ASSUME NEW i \in 1..Len(queue), queue[i].kind = "off" PROVE FALSE
      OBVIOUS
    <3>2. queue[i] \in Transitions
      BY <1>t
    <3>3. queue[i].by \in ActionIds
      BY <3>1, <3>2 DEF Transitions, Loud
    <3>4. Disabling(queue[i].by)
      BY <3>1 DEF OwnersFit, QueueFits, Waits, Disabling
    <3> QED
      BY <2>3, <3>3, <3>4
  <2>5. ~Has(tasks, "clear")
    <3>1. SUFFICES ASSUME NEW i \in 1..Len(tasks), tasks[i].kind = "clear" PROVE FALSE
      BY DEF Has
    <3>2. tasks[i] \in Tasks
      BY <1>t
    <3>3. tasks[i].by \in ActionIds
      BY <3>1, <3>2 DEF Tasks
    <3>4. Disabling(tasks[i].by)
      BY <3>1 DEF OwnersFit, TasksFit, Clears, Disabling
    <3> QED
      BY <2>3, <3>3, <3>4
  <2>6. AwaitsFirst(Append(queue, Transition("off", a)), "off")
    <3>1. Transition("off", a) \in Transitions /\ Transition("off", a).kind = "off"
      BY <1>n
    <3> QED
      BY <1>t, <2>4, <3>1, AwaitsNew
  <2> QED
    BY <2>1, <2>2, <2>5, <2>6
<1>2. ASSUME NEW a \in ActionIds, Pause(a) PROVE FALSE
  BY <1>h, <1>2 DEF Pause
<1>3. ASSUME NEW a \in ActionIds, NEW kind \in Trusting, Begin(a, kind) PROVE FALSE
  BY <1>h, <1>3 DEF Begin
<1>4. ASSUME OthersAct PROVE FALSE
  BY <1>h, <1>4 DEF OthersAct
<1>5. ASSUME NEW a \in ActionIds, TaskFails(a)
      PROVE  Stale' /\ Forgotten' /\ (First' \/ IsOff')
  <2>0. intent = "disable" /\ intent' = intent
    BY <1>h, <1>5 DEF TaskFails
  <2>1. Stale' /\ Forgotten /\ (First \/ IsOff)
    BY <1>s, <2>0
  <2>2. Has(tasks, "clear") => Head(tasks).kind = "clear" \/ Has(tasks', "clear")
    BY <1>t, <1>5, FailureFrame, HasTail
  <2>3. /\ Has(tasks', "clear") => Has(tasks, "clear")
        /\ Head(tasks).kind = "clear" => Has(tasks, "clear")
    BY <1>t, <1>5, FailureFrame, HasTail
  <2>4. /\ listener' = None /\ ~context'
        /\ IF Head(tasks).kind = "clear" /\ ~disposed THEN view' = status ELSE view' = view
    BY <1>5, <2>1, <2>3, FailureCases DEF IsOff
  <2>5. Forgotten'
    BY <1>5, <2>1, <2>4, FailureFrame DEF Forgotten, Dark
  <2>6. /\ Transition("pause", a) \in Transitions /\ Transition("pause", a).kind = "pause"
        /\ Transition("pause", a).kind \notin Loud
    BY <1>n DEF Loud
  <2>7. First => First'
    BY <1>t, <1>5, <2>3, <2>6, FailureFrame, AwaitsAppend
  <2>8. ASSUME IsOff PROVE IsOff'
    <3>1. NoLoud(queue')
      BY <1>t, <1>5, <2>6, <2>8, FailureFrame, NoLoudAppend DEF IsOff
    <3>2. Shown'
      BY <1>5, <2>2, <2>4, <2>8, FailureFrame DEF IsOff, Shown
    <3>3. failures' # 0
      BY <1>t, <1>5, FailureFrame
    <3> QED
      BY <1>5, <2>8, <3>1, <3>2, <3>3, FailureFrame DEF IsOff
  <2> QED
    BY <2>1, <2>5, <2>7, <2>8
<1>6. CASE Dispose
  <2>1. /\ UNCHANGED <<intent, queue, status, session, restoration, window, tasks, stored,
                        failures>>
        /\ pending' = None /\ Dark' /\ Shown'
    BY <1>6 DEF Dispose, Halt, Dropped, Dark, Shown, runtime, disk, bounds
  <2> QED
    BY <1>u, <2>1 DEF IsOff
<1>7. ASSUME NEW a \in ActionIds, Continue(a)
      PROVE  Stale' /\ Forgotten' /\ (First' \/ IsOff')
  <2>0. intent' = intent
    BY <1>7 DEF Continue, Refuse, Supersede, Admit, CaptureEnds
  <2>1. Aborted(a) /\ ~Admit(a)
    BY <1>s, <2>0, StaleIsLate
  <2>2. CASE Refuse(a)
    <3>1. /\ UNCHANGED <<intent, queue, status, session, restoration, window, pending, tasks,
                          stored, failures>>
          /\ Dark' /\ Shown'
      BY <2>2 DEF Refuse, Dark, Shown, runtime, epochs, kept, disk, bounds
    <3> QED
      BY <1>u, <3>1 DEF IsOff
  <2>3. CASE Supersede(a) \/ CaptureEnds(a)
    <3>1. /\ UNCHANGED <<intent, queue, status, session, restoration, window, pending, tasks,
                          stored, trusted, disposed, shown>>
          /\ failures' = failures \/ failures' = failures + 1
      BY <2>1, <2>3 DEF Supersede, CaptureEnds, runtime, epochs, kept, disk, bounds
    <3>2. failures' = 0 => failures = 0
      BY <1>t, <3>1
    <3>3. (Forgotten => Dark') /\ (IsOff => Shown')
      BY <3>1 DEF Forgotten, IsOff, Dark, Shown, shown
    <3> QED
      BY <1>u, <3>1, <3>2, <3>3 DEF IsOff
  <2> QED
    BY <1>7, <2>1, <2>2, <2>3 DEF Continue
<1>8. ASSUME Edit PROVE FALSE
  <2>1. intent' = intent /\ listener # None
    BY <1>8 DEF Edit
  <2> QED
    BY <1>s, <2>1 DEF Forgotten, Dark
<1>9. ASSUME NEW timer \in timers, TimerFires(timer)
      PROVE  Stale' /\ Forgotten' /\ (First' \/ IsOff')
  <2>0. intent' = intent
    BY <1>9 DEF TimerFires
  <2>1. pending = None
    BY <1>s, <2>0 DEF Forgotten
  <2>2. /\ UNCHANGED <<intent, queue, status, session, restoration, window, pending, tasks,
                        stored, failures, trusted, disposed, shown>>
    BY <1>9, <2>1 DEF TimerFires, Fires, runtime, epochs, bounds
  <2>3. (Forgotten => Dark') /\ (IsOff => Shown')
    BY <2>2 DEF Forgotten, IsOff, Dark, Shown, shown
  <2> QED
    BY <1>u, <2>2, <2>3 DEF IsOff
<1>10. CASE Reconcile
  <2>0. intent' = intent
    BY <1>10 DEF Reconcile
  <2>1. ~Restores
    BY <1>s, <1>t, <2>0 DEF Restores, Forgotten
  <2>2. /\ UNCHANGED <<intent, queue, status, session, restoration, window, pending, tasks,
                        stored, failures, trusted, disposed, shown>>
    BY <1>10, <2>1 DEF Reconcile, runtime, epochs, bounds
  <2>3. (Forgotten => Dark') /\ (IsOff => Shown')
    BY <2>2 DEF Forgotten, IsOff, Dark, Shown, shown
  <2> QED
    BY <1>u, <2>2, <2>3 DEF IsOff
<1>11. CASE UNCHANGED vars
  <2>1. /\ UNCHANGED <<intent, queue, status, session, restoration, window, pending, tasks,
                        stored, failures, trusted, disposed, shown>>
    BY <1>11 DEF vars, runtime, epochs, kept, disk, bounds
  <2>2. (Forgotten => Dark') /\ (IsOff => Shown')
    BY <2>1 DEF Forgotten, IsOff, Dark, Shown, shown
  <2> QED
    BY <1>u, <2>1, <2>2 DEF IsOff
<1>12. CASE TaskDone
  <2>1. /\ UNCHANGED <<intent, queue, status, session, restoration, window, pending, failures,
                        trusted, disposed>>
        /\ tasks # <<>> /\ tasks' = Tail(tasks)
        /\ IF Head(tasks).kind = "clear" THEN ApplyUnlessDisposed ELSE UNCHANGED shown
        /\ Head(tasks).kind = "clear" => ~stored'
        /\ Head(tasks).kind \notin {"append", "clear"} => stored' = stored
    BY <1>12 DEF TaskDone, runtime, epochs, kept, bounds
  <2>2. /\ Has(tasks, "clear") => Head(tasks).kind = "clear" \/ Has(tasks', "clear")
        /\ Has(tasks', "clear") => Has(tasks, "clear")
        /\ Head(tasks).kind = "clear" => Has(tasks, "clear")
    BY <1>t, <2>1, HasTail
  <2>3. Forgotten /\ (First \/ IsOff)
    BY <1>s, <2>1
  <2>4. Dark'
    BY <2>1, <2>2, <2>3
       DEF Forgotten, IsOff, Dark, shown, ApplyUnlessDisposed, ApplySnapshot
  <2>5. IsOff => Shown'
    BY <2>1, <2>2 DEF IsOff, Shown, shown, ApplyUnlessDisposed, ApplySnapshot
  <2>6. ASSUME Cleared(tasks, stored) PROVE Cleared(tasks', stored')
    BY <1>t, <2>1, <2>6, ClearedTail
  <2> QED
    BY <1>u, <2>1, <2>2, <2>4, <2>5, <2>6 DEF IsOff
<1>13. CASE CommitNext
  <2>0. /\ queue # <<>>
        /\ UNCHANGED <<intent, trusted, disposed, restoration, window, pending, stored, failures>>
    BY <1>13, CommitFrame
  <2>1. /\ Stale /\ Stale' /\ Forgotten /\ (First \/ IsOff)
        /\ \A a \in ActionIds : ~IsCurrentGeneration(a) /\ Aborted(a)
    BY <1>s, <2>0, StaleIsLate
  <2>2. queue' = Tail(queue)
    BY <1>13, <2>1, CommitCases DEF GoesOn, LeavesAlone, EndsOwner, Tells, CommitOff
  <2>3. First => \/ AwaitsFirst(queue', "off") /\ Head(queue).kind # "off"
                 \/ Head(queue).kind = "off" /\ NoLoud(queue')
    BY <1>t, <2>0, <2>2, AwaitsTail
  <2>4. IsOff => NoLoud(queue') /\ Head(queue).kind \notin Loud
    BY <1>t, <2>0, <2>2, NoLoudTail, OwnerType DEF IsOff, NoLoud
  <2>5. CASE CommitOff
    <3>1. Head(queue).kind = "off" /\ UNCHANGED shown
      BY <2>5 DEF CommitOff, Turn
    <3>2. NoLoud(queue')
      BY <2>1, <2>3, <2>4, <3>1
    <3>3. Task("clear", Owner) \in Tasks /\ Task("clear", Owner).kind = "clear"
      BY <2>0, <2>5, OwnerType DEF CommitOff, Turn, Task, Tasks
    <3>4. status' = "off" /\ session' = "none" /\ tasks' = Append(tasks, Task("clear", Owner))
      BY <2>5 DEF CommitOff, Committed
    <3>5. Has(tasks', "clear") /\ Cleared(tasks', stored')
      BY <1>t, <3>3, <3>4, HasAppend, ClearedByLast
    <3>6. IsOff'
      BY <3>2, <3>4, <3>5 DEF IsOff, Shown
    <3>7. Forgotten'
      BY <2>0, <2>1, <3>1 DEF Forgotten, Dark, shown
    <3> QED
      BY <2>1, <3>6, <3>7
  <2>6. CASE CommitPause
    <3>1. Head(queue).kind = "pause" /\ tasks' = tasks
      BY <2>6 DEF CommitPause, Turn, disk
    <3>2. status' # "on" /\ (IsOff => status' = "off" /\ session' = "none")
      BY <2>6 DEF CommitPause, Committed, IsOff
    <3>3. Dark' /\ Shown'
      <4>1. CASE disposed
        BY <2>0, <2>1, <2>6, <4>1
           DEF CommitPause, ApplyUnlessDisposed, Forgotten, Dark, Shown, shown
      <4>2. CASE ~disposed
        BY <2>6, <3>2, <4>2 DEF CommitPause, ApplyUnlessDisposed, ApplySnapshot, Dark, Shown
      <4> QED
        BY <4>1, <4>2
    <3>4. Forgotten'
      BY <2>0, <2>1, <3>3 DEF Forgotten
    <3>5. First => First'
      BY <2>3, <3>1
    <3>6. IsOff => IsOff'
      BY <2>0, <2>4, <3>1, <3>2, <3>3 DEF IsOff
    <3> QED
      BY <2>1, <3>4, <3>5, <3>6
  <2>7. CASE CommitObservation
    <3>1. Head(queue).kind = "observe" /\ UNCHANGED <<status, session, tasks, shown>>
      BY <2>7 DEF CommitObservation, Turn, disk
    <3>2. Forgotten'
      BY <2>0, <2>1, <3>1 DEF Forgotten, Dark, shown
    <3>3. First => First'
      BY <2>3, <3>1
    <3>4. IsOff => IsOff'
      BY <2>0, <2>4, <3>1 DEF IsOff, Shown, shown
    <3> QED
      BY <2>1, <3>2, <3>3, <3>4
  <2>8. CASE CommitEnable \/ CommitStart \/ CommitEntry
    <3>1. Head(queue).kind \in Loud /\ UNCHANGED tasks
      BY <2>8 DEF CommitEnable, CommitStart, CommitEntry, Turn, Loud, disk
    <3>2. UNCHANGED shown
      BY <1>13, <2>1, <3>1, CommitCases DEF Loud
    <3>3. Forgotten'
      BY <2>0, <2>1, <3>2 DEF Forgotten, Dark, shown
    <3>4. First'
      BY <2>1, <2>3, <2>4, <3>1 DEF Loud
    <3> QED
      BY <2>1, <3>3, <3>4
  <2> QED
    BY <1>13, <2>5, <2>6, <2>7, <2>8 DEF CommitNext
<1>14. ASSUME NEW a \in ActionIds, Acknowledge(a)
       PROVE  Stale' /\ Forgotten' /\ (First' \/ IsOff')
  <2>1. UNCHANGED <<intent, queue, status, session, restoration, window, pending, tasks,
                    stored, failures, trusted, disposed>>
    BY <1>14, AcknowledgeFrame
  <2>2. UNCHANGED shown
    BY <1>14, <1>s, <2>1, StaleIsLate, AcknowledgeFrame
  <2>3. (Forgotten => Dark') /\ (IsOff => Shown')
    BY <2>1, <2>2 DEF Forgotten, IsOff, Dark, Shown, shown
  <2> QED
    BY <1>u, <2>1, <2>3 DEF IsOff
<1> QED
  BY <1>1, <1>2, <1>3, <1>4, <1>5, <1>6, <1>7, <1>8, <1>9, <1>10, <1>11, <1>12, <1>13, <1>14
     DEF Next

-----------------------------------------------------------------------------
LEMMA InitHolds ==
  ASSUME Init
  PROVE  IInv
<1>1. Numbers
  BY DEF Init, JustActivated, LongInUse, Numbers
<1>2. Flags
  BY DEF Init, JustActivated, LongInUse, Flags
<1>3. Structures
  <2>1. Idle \in Action
    BY DEF Idle, Action, ActionSteps
  <2>2. Task("replay", None) \in Tasks
    BY DEF Task, Tasks
  <2>3. tasks \in Seq(Tasks)
    <3>1. tasks = <<>> \/ tasks = <<Task("replay", None)>>
      BY DEF Init, JustActivated, LongInUse
    <3> DEFINE task == Task("replay", None)
    <3>2. tasks = <<>> \/ tasks = <<task>>
      BY <3>1
    <3>3. task \in Tasks
      BY <2>2
    <3> HIDE DEF task
    <3>4. <<task>> \in Seq(Tasks) /\ <<>> \in Seq(Tasks)
      BY <3>3
    <3>5. CASE tasks = <<>>
      BY <3>4, <3>5
    <3>6. CASE tasks = <<task>>
      BY <3>4, <3>6
    <3> QED
      BY <3>2, <3>5, <3>6
  <2>4. queue \in Seq(Transitions)
    BY DEF Init
  <2> QED
    BY <2>1, <2>3, <2>4 DEF Init, Structures
<1>4. \A a \in ActionIds : /\ actions[a].generation = 0 /\ actions[a].lifetime = 0
                           /\ actions[a].step = "idle"
  BY DEF Init, Idle
<1>5. generation = 0 /\ lifetime = 0 /\ intent = "none"
  BY DEF Init
<1>6. NotAhead
  BY <1>4, <1>5 DEF NotAhead
<1>7. Len(queue) = 0 /\ (tasks = <<>> \/ tasks = <<Task("replay", None)>>)
  BY DEF Init, JustActivated, LongInUse
<1>8. OwnersFit /\ OwnersDiffer
  <2>1. \A i \in 1..Len(tasks) : tasks[i].kind = "replay"
    BY <1>7 DEF Task
  <2>2. QueueFits(queue, actions) /\ Differ(queue, "off")
    BY <1>7 DEF QueueFits, Differ
  <2>3. TasksFit(tasks, actions) /\ Differ(tasks, "clear")
    BY <2>1 DEF TasksFit, Clears, Differ
  <2>4. OnTheirWay(actions)
    BY <1>4 DEF OnTheirWay
  <2> QED
    BY <2>2, <2>3, <2>4 DEF OwnersFit, OwnersDiffer
<1>9. ContextFits /\ ListenerIsCurrent
  <2>1. /\ listener = (IF status = "on" THEN generation ELSE None) /\ view = status
        /\ context = (status = "on") /\ ~disposed
    BY DEF Init
  <2>2. listener # None => status = "on" /\ listener = generation
    BY <2>1
  <2>3. listener = None => ~context
    <3>1. generation # None
      BY <1>5, NamesOfActions
    <3> QED
      BY <2>1, <3>1
  <2> QED
    BY <2>1, <2>2, <2>3 DEF ContextFits, ListenerIsCurrent
<1>10. TimersFit /\ EditsAreGathered
  BY DEF Init, TimersFit, EditsAreGathered
<1>11. PauseHolds /\ DisableHolds
  BY <1>5 DEF PauseHolds, DisableHolds
<1> QED
  BY <1>1, <1>2, <1>3, <1>6, <1>8, <1>9, <1>10, <1>11 DEF IInv, PresenceTypeOK

LEMMA StepHolds ==
  ASSUME IInv, [Next]_vars
  PROVE  IInv'
BY TypeStep, NotAheadStep, OwnersStep, ListenerStep, GatheringStep, PauseStep, DisableStep
   DEF IInv

THEOREM LifecycleInvariant == Spec => []IInv
<1>1. Init => IInv
  BY InitHolds
<1>2. IInv /\ [Next]_vars => IInv'
  BY StepHolds
<1> QED
  BY <1>1, <1>2, PTL DEF Spec

(* ListenerIsCurrent: whatever is under way, the listener is of the        *)
(* present generation (applyCurrentSnapshot, and what halts it).           *)
THEOREM ListenerCorrect == Spec => []ListenerIsCurrent
<1>1. IInv => ListenerIsCurrent
  BY DEF IInv
<1> QED
  BY <1>1, LifecycleInvariant, PTL

(* EditsAreGathered: no recorded edit is lost or reported twice by the     *)
(* episodes of EditEpisodeAggregator and their timers.                     *)
THEOREM EditsCorrect == Spec => []EditsAreGathered
<1>1. IInv => EditsAreGathered
  BY DEF IInv
<1> QED
  BY <1>1, LifecycleInvariant, PTL

LEMMA NothingAwaited ==
  ASSUME Settled, NEW kind
  PROVE  ~Awaits(queue, kind) /\ ~AwaitsFirst(queue, kind) /\ ~Has(tasks, kind)
<1>1. Len(queue) = 0 /\ Len(tasks) = 0
  BY DEF Settled
<1> QED
  BY <1>1 DEF Awaits, AwaitsFirst, Has

(* PauseStops: once nothing is under way, the pause that the developer     *)
(* asked for last has won.                                                 *)
THEOREM PauseCorrect == Spec => []PauseStops
<1>1. IInv => PauseStops
  <2>1. SUFFICES ASSUME IInv, Settled, intent = "pause"
                 PROVE  status # "on" /\ NotObserving
    BY DEF PauseStops
  <2>2. IsPaused /\ ~Has(tasks, "clear")
    BY <2>1, NothingAwaited DEF IInv, PauseHolds
  <2> QED
    BY <2>2 DEF IsPaused, Dark, Shown, NotObserving
<1> QED
  BY <1>1, LifecycleInvariant, PTL

(* DisableForgets: once nothing is under way, a disable has won, and       *)
(* nothing that was on its way brought anything back.                      *)
THEOREM DisableCorrect == Spec => []DisableForgets
<1>1. IInv => DisableForgets
  <2>1. SUFFICES ASSUME IInv, Settled, intent = "disable"
                 PROVE  /\ status = "off" /\ session = "none"
                        /\ NotObserving
                        /\ window = {} /\ pending = None
                        /\ failures = 0 => ~stored
    BY DEF DisableForgets
  <2>2. IsOff /\ Forgotten /\ ~Has(tasks, "clear")
    BY <2>1, NothingAwaited DEF IInv, DisableHolds
  <2>3. failures = 0 => ~stored
    <3>1. Len(tasks) = 0
      BY <2>1 DEF Settled
    <3> QED
      BY <2>2, <3>1 DEF IsOff, Cleared
  <2> QED
    BY <2>2, <2>3 DEF IsOff, Forgotten, Dark, Shown, NotObserving
<1> QED
  BY <1>1, LifecycleInvariant, PTL
=============================================================================
