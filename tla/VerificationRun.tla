--------------------------- MODULE VerificationRun ---------------------------
(***************************************************************************)
(* One verification: the effect port, the adapter's checks, the question   *)
(* to the developer, and the child process with the group of processes it  *)
(* starts.  Abort, deadline, exit of the child, the grace timer and the    *)
(* confirmation timer race for the one outcome.                            *)
(*                                                                         *)
(* The tree is the set of living processes: the child and one descendant.  *)
(* A process group is taken not to be reused while it is watched.          *)
(***************************************************************************)
EXTENDS Integers, FiniteSets

CONSTANTS
    None,
    MaxOutput,              \* MAX_OUTPUT_BYTES, in pieces
    MaxProduced             \* what the child may write

ASSUME VerificationAssumption ==
    MaxOutput \in Nat \ {0} /\ MaxProduced \in Nat

VARIABLES
    host,                   \* "posix" or "windows"
    stage,                  \* of the run
    callerAborted,          \* the signal of the call
    interrupted,            \* the adapter's controller: who aborted it first
    deadline,               \* the 120 second timer
    child,                  \* what became of the spawn
    tree,                   \* processes alive
    watch,                  \* the lifecycle object
    output,                 \* the output buffer
    result                  \* what the adapter answers

call == <<host, callerAborted>>
process == <<child, tree>>

vars == <<call, stage, interrupted, deadline, process, watch, output, result>>

Hosts == {"posix", "windows"}
Stages == {"requested", "asking", "running", "ended"}
Timers == {"off", "armed", "fired"}
Children == {"none", "failed", "started", "closed"}
Statuses == {"confirmed", "cancelled", "unknown", "failed", "declined", "rejected"}

Results == [status : Statuses, timedOut : BOOLEAN, passed : BOOLEAN, partial : BOOLEAN]

ASSUME NoneAssumption == None \notin Results \cup {"caller", "deadline"}

Idle == [settled |-> FALSE, aborting |-> FALSE, grace |-> "off", confirm |-> "off",
         killed |-> FALSE]

Empty == [kept |-> 0, produced |-> 0, truncated |-> FALSE]

Init ==
    /\ host \in Hosts /\ callerAborted = FALSE
    /\ stage = "requested" /\ interrupted = None /\ deadline = "off"
    /\ child = "none" /\ tree = {} /\ watch = Idle /\ output = Empty
    /\ result = None

-----------------------------------------------------------------------------
(* Up to the question.                                                     *)

Answer(status) ==
    [status |-> status, timedOut |-> FALSE, passed |-> FALSE, partial |-> FALSE]

(* What the plan's script, the manifest and the open buffers may be found  *)
(* to be: scripts and dirtyTargets are pure readers of the workspace.      *)
Scripts == {"allowed", "refused"}
Manifests == {"absent", "unreadable", "without", "with"}
Buffers == {"clean", "dirty", "unavailable"}

Targets == [runner : BOOLEAN, script : Scripts, manifest : Manifests, buffers : Buffers]

(* The first check that fails decides.                                     *)
Preflight(target) ==
    IF callerAborted THEN "rejected"
    ELSE IF ~target.runner \/ target.script = "refused" THEN "declined"
    ELSE IF target.manifest = "unreadable" THEN "failed"
    ELSE IF target.manifest # "with" THEN "declined"
    ELSE IF target.buffers # "clean" THEN "cancelled"
    ELSE "asking"

Request ==
    /\ stage = "requested"
    /\ \E target \in Targets :
         LET verdict == Preflight(target)
         IN  IF verdict = "asking"
             THEN stage' = "asking" /\ UNCHANGED result
             ELSE stage' = "ended" /\ result' = Answer(verdict)
    /\ UNCHANGED <<call, interrupted, deadline, process, watch, output>>

(* The modal cannot be closed by the program: an abort leaves it open.     *)
Decline ==
    /\ stage = "asking"
    /\ stage' = "ended"
    /\ result' = Answer(IF callerAborted THEN "cancelled" ELSE "declined")
    /\ UNCHANGED <<call, interrupted, deadline, process, watch, output>>

(* Fault: the signal is not looked at again after the question.            *)
AcceptedUnchecked == stage = "asking"

(* The developer chose to run, and nobody aborted while the question stood.*)
Accepted == stage = "asking" /\ ~callerAborted

AcceptTooLate ==
    /\ stage = "asking" /\ ~Accepted
    /\ stage' = "ended"
    /\ result' = Answer("cancelled")
    /\ UNCHANGED <<call, interrupted, deadline, process, watch, output>>

(* npmInvocation finds no npm: only on Windows.                            *)
FailInvocation ==
    /\ Accepted /\ host = "windows"
    /\ stage' = "ended"
    /\ result' = Answer("failed")
    /\ UNCHANGED <<call, interrupted, deadline, process, watch, output>>

(* execute arms the deadline and the port spawns in the same step.         *)
Spawn ==
    /\ Accepted
    /\ stage' = "running" /\ deadline' = "armed"
    /\ child' = "started" /\ tree' = {"child"}
    /\ UNCHANGED <<call, interrupted, watch, output, result>>

-----------------------------------------------------------------------------
(* The processes and the developer, outside the program.                   *)

Fork ==
    /\ "child" \in tree
    /\ tree' = {"child", "descendant"}
    /\ UNCHANGED <<call, stage, interrupted, deadline, child, watch, output, result>>

Exit(p) ==
    /\ p \in tree
    /\ tree' = tree \ {p}
    /\ UNCHANGED <<call, stage, interrupted, deadline, child, watch, output, result>>

CallerAborts ==
    /\ stage \in {"requested", "asking"} /\ ~callerAborted
    /\ callerAborted' = TRUE
    /\ UNCHANGED <<host, stage, interrupted, deadline, process, watch, output, result>>

-----------------------------------------------------------------------------
(* The lifecycle of the child.                                             *)

(* Fault: a piece that just fits counts as truncated.                      *)
CollectedEarly(buffer, size) ==
    LET remaining == MaxOutput - buffer.kept
    IN  [kept |-> buffer.kept + (IF size < remaining THEN size ELSE remaining),
         produced |-> buffer.produced + size,
         truncated |-> buffer.truncated \/ size >= remaining]

Collected(buffer, size) ==
    LET remaining == MaxOutput - buffer.kept
    IN  [kept |-> buffer.kept + (IF size < remaining THEN size ELSE remaining),
         produced |-> buffer.produced + size,
         truncated |-> buffer.truncated \/ size > remaining]

Data ==
    /\ stage = "running" /\ tree # {}
    /\ \E size \in 1..MaxProduced :
         /\ output.produced + size <= MaxProduced
         /\ output' = Collected(output, size)
    /\ UNCHANGED <<call, stage, interrupted, deadline, process, watch, result>>

(* What isAlive can find out, once the processes are those of "alive":     *)
(* signalling a group may be forbidden, and Windows tells nothing.         *)
Liveness(alive) ==
    IF host = "windows" THEN {"unknown"}
    ELSE IF alive = {} THEN {"stopped"}
    ELSE {"alive", "unknown"}

(* interpretVerificationOutcome of a run aborted by "by", or by nobody.    *)
Interpreted(by, timer, exitCode, terminationConfirmed) ==
    LET status == IF by # None
                  THEN IF terminationConfirmed THEN "cancelled" ELSE "unknown"
                  ELSE IF exitCode = None THEN "failed" ELSE "confirmed"
    IN  [status |-> status, timedOut |-> timer = "fired",
         passed |-> status = "confirmed" /\ exitCode = 0,
         partial |-> by # None \/ output.truncated]

(* settle resolves the promise, and the adapter goes on from it before any *)
(* other event: the outcome, its reading and the end of the deadline are   *)
(* one step.                                                               *)
Settle(by, timer, exitCode, terminationConfirmed) ==
    /\ stage' = "ended"
    /\ interrupted' = by
    /\ deadline' = IF timer = "fired" THEN "fired" ELSE "off"
    /\ watch' = [watch EXCEPT !.settled = TRUE, !.aborting = by # None,
                             !.grace = "off", !.confirm = "off"]
    /\ result' = Interpreted(by, timer, exitCode, terminationConfirmed)

Unsettled == stage = "running" /\ ~watch.settled

(* Fault: the grace timer is armed without looking whether it is over.     *)
OnAbortAlways(by, timer) ==
    \/ /\ stage' = stage /\ interrupted' = by /\ deadline' = timer
       /\ watch' = [watch EXCEPT !.aborting = TRUE, !.grace = "armed"]
       /\ UNCHANGED <<process, result>>
    \/ /\ child = "started" /\ child' = "closed" /\ tree' = {}
       /\ stage' = "ended" /\ interrupted' = by /\ deadline' = timer
       /\ watch' = [watch EXCEPT !.settled = TRUE, !.aborting = TRUE, !.grace = "armed"]
       /\ result' = Interpreted(by, timer, None, host = "posix")

(* SIGTERM to the group; the child may close while it is being signalled,  *)
(* and then no timer is armed.                                             *)
OnAbort(by, timer) ==
    \/ /\ stage' = stage /\ interrupted' = by /\ deadline' = timer
       /\ watch' = [watch EXCEPT !.aborting = TRUE, !.grace = "armed"]
       /\ UNCHANGED <<process, result>>
    \/ /\ child = "started" /\ child' = "closed" /\ tree' = {}
       /\ Settle(by, timer, None, host = "posix")

CallerInterrupts ==
    /\ Unsettled /\ ~callerAborted
    /\ callerAborted' = TRUE
    /\ IF interrupted = None THEN OnAbort("caller", deadline)
       ELSE UNCHANGED <<stage, interrupted, deadline, process, watch, result>>
    /\ UNCHANGED <<host, output>>

DeadlineFires ==
    /\ Unsettled /\ deadline = "armed"
    /\ IF interrupted = None THEN OnAbort("deadline", "fired")
       ELSE deadline' = "fired" /\ UNCHANGED <<stage, interrupted, process, watch, result>>
    /\ UNCHANGED <<call, output>>

(* There is no child to spawn: Node emits the error on the next tick,      *)
(* before any timer, abort or other event.                                 *)
FailSpawn ==
    /\ Accepted
    /\ child' = "failed"
    /\ Settle(interrupted, "armed", None, FALSE)
    /\ UNCHANGED <<call, tree, output>>

OnClose ==
    /\ Unsettled /\ child = "started" /\ "child" \notin tree /\ ~watch.aborting
    /\ child' = "closed"
    /\ \E exitCode \in {0, 1, None} : Settle(interrupted, deadline, exitCode, TRUE)
    /\ UNCHANGED <<call, tree, output>>

(* Fault: not known to be alive is taken for stopped.                      *)
StoppedUnlessAlive(liveness) == liveness # "alive"

Stopped(liveness) == liveness = "stopped"

OnCloseAborting ==
    /\ Unsettled /\ child = "started" /\ "child" \notin tree /\ watch.aborting
    /\ child' = "closed"
    /\ \E liveness \in Liveness(tree) :
         IF liveness = "alive"
         THEN UNCHANGED <<stage, interrupted, deadline, watch, result>>
         ELSE Settle(interrupted, deadline, None, Stopped(liveness))
    /\ UNCHANGED <<call, tree, output>>

(* Fault: after SIGKILL only a tree known to have stopped settles.         *)
EscalateWithoutTimer ==
    /\ watch.grace = "armed" /\ child # "none"
    /\ \E liveness \in Liveness(tree) :
         IF Stopped(liveness) THEN Settle(interrupted, deadline, None, TRUE)
         ELSE /\ watch' = [watch EXCEPT !.grace = "fired", !.killed = TRUE]
              /\ UNCHANGED <<stage, interrupted, deadline, result>>
    /\ UNCHANGED <<call, process, output>>

(* The grace timer: SIGKILL, and settled at once if nothing is left alive. *)
Escalate ==
    /\ watch.grace = "armed"
    /\ \/ /\ ~watch.settled
          /\ \E liveness \in Liveness(tree) : Stopped(liveness)
          /\ Settle(interrupted, deadline, None, TRUE)
       \/ /\ watch.settled \/ \E liveness \in Liveness(tree) : ~Stopped(liveness)
          /\ watch' = [watch EXCEPT !.grace = "fired", !.killed = TRUE,
                         !.confirm = IF watch.settled THEN @ ELSE "armed"]
          /\ UNCHANGED <<stage, interrupted, deadline, result>>
    /\ UNCHANGED <<call, process, output>>

ConfirmationFires ==
    /\ watch.confirm = "armed"
    /\ \E liveness \in Liveness(tree) :
         Settle(interrupted, deadline, None, Stopped(liveness))
    /\ UNCHANGED <<call, process, output>>

-----------------------------------------------------------------------------
Next ==
    \/ Request \/ Decline \/ AcceptTooLate \/ FailInvocation \/ Spawn \/ FailSpawn
    \/ CallerInterrupts \/ DeadlineFires \/ OnClose \/ OnCloseAborting
    \/ Escalate \/ ConfirmationFires
    \/ Fork \/ (\E p \in {"child", "descendant"} : Exit(p)) \/ CallerAborts \/ Data

Spec == Init /\ [][Next]_vars

(* Timers fire.  Nothing is asked of the child, which may ignore signals   *)
(* and keep its pipes open for ever, nor of the developer.                 *)
FairSpec == Spec /\ WF_vars(DeadlineFires) /\ WF_vars(Escalate) /\ WF_vars(ConfirmationFires)

-----------------------------------------------------------------------------
(* A run reported as cancelled has left no process behind: neither the     *)
(* child nor what it started is alive, whichever of abort, deadline, exit  *)
(* and timers came first.  What cannot be told is reported as unknown.     *)
CancelledHasStopped ==
    result # None /\ result.status = "cancelled" => tree = {}

(* The buffer keeps what fits and says so exactly when something was lost. *)
OutputIsAccounted ==
    /\ output.truncated <=> output.produced > MaxOutput
    /\ output.kept = IF output.truncated THEN MaxOutput ELSE output.produced

(* After the outcome is settled nothing of the run acts any more: no late  *)
(* timer signals a group whose number may have been reused, and no event   *)
(* changes the answer.                                                     *)
SettledForGood == [][watch.settled => UNCHANGED <<watch, result>>]_vars

(* No script is run once the caller has given up, even if the developer    *)
(* accepts the question that was left open.                                *)
NothingStartsAfterAbort ==
    [][child = "none" /\ child' # "none" => ~callerAborted]_vars

(* A run that has begun ends, whatever the child does with its signals.    *)
RunningEnds == stage = "running" ~> stage = "ended"

(* verificationOutput.ts: a cancellation by the caller "must never be      *)
(* labelled a timeout".                                                    *)
TimeoutIsTheDeadline ==
    result # None /\ result.timedOut => interrupted = "deadline"
=============================================================================
