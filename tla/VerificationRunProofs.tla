------------------------ MODULE VerificationRunProofs ------------------------
(***************************************************************************)
(* What a verification promises, for every size of its buffer and of its   *)
(* output.  One invariant, RunIsOrderly, says what each stage of the run   *)
(* knows of the processes, of the timers and of who aborted it.            *)
(***************************************************************************)
EXTENDS VerificationRun, TLAPS

(* The types of the variables; a run that has ended, and no other, has its *)
(* answer.                                                                 *)
VerificationTypeOK ==
    /\ host \in Hosts /\ stage \in Stages /\ callerAborted \in BOOLEAN
    /\ interrupted \in {None, "caller", "deadline"} /\ deadline \in Timers
    /\ child \in Children /\ tree \in SUBSET {"child", "descendant"}
    /\ watch \in [settled : BOOLEAN, aborting : BOOLEAN, grace : Timers,
                  confirm : Timers, killed : BOOLEAN]
    /\ output \in [kept : 0..MaxOutput, produced : Nat, truncated : BOOLEAN]
    /\ result \in Results \cup {None}

BeforeTheRun == stage \in {"requested", "asking"}

(* Nothing lives before the run; while it runs it is not settled and knows *)
(* whether somebody aborted it; once it has ended no timer is armed.       *)
RunIsOrderly ==
    /\ result # None <=> stage = "ended"
    /\ BeforeTheRun => child = "none" /\ tree = {} /\ watch = Idle /\ interrupted = None
    /\ stage = "running" => ~watch.settled /\ (watch.aborting <=> interrupted # None)
    /\ stage = "ended" => watch.grace # "armed" /\ watch.confirm # "armed"

IInv == VerificationTypeOK /\ RunIsOrderly /\ CancelledHasStopped

-----------------------------------------------------------------------------
LEMMA AnswerType ==
  ASSUME NEW status \in Statuses
  PROVE  Answer(status) \in Results /\ Answer(status).status = status
BY DEF Answer, Results

(* Only a run that was aborted is read as cancelled, and only when its     *)
(* processes are known to have stopped.                                    *)
LEMMA InterpretedType ==
  ASSUME NEW by \in {None, "caller", "deadline"}, NEW timer \in Timers,
         NEW exitCode, NEW stopped \in BOOLEAN
  PROVE  /\ Interpreted(by, timer, exitCode, stopped) \in Results
         /\ Interpreted(by, timer, exitCode, stopped).status = "cancelled" =>
              by # None /\ stopped
<1> DEFINE status == IF by # None THEN IF stopped THEN "cancelled" ELSE "unknown"
                     ELSE IF exitCode = None THEN "failed" ELSE "confirmed"
<1>1. status \in Statuses
  BY DEF Statuses
<1>2. status = "cancelled" => by # None /\ stopped
  OBVIOUS
<1>3. (timer = "fired") \in BOOLEAN /\ (status = "confirmed" /\ exitCode = 0) \in BOOLEAN
      /\ (by # None \/ output.truncated) \in BOOLEAN
  OBVIOUS
<1> HIDE DEF status
<1> QED
  BY <1>1, <1>2, <1>3 DEF Interpreted, Results, status

(* Settling keeps the invariant wherever it happens, if a termination that *)
(* is reported as confirmed is one.                                        *)
LEMMA SettleKeeps ==
  ASSUME IInv, NEW by \in {None, "caller", "deadline"}, NEW timer \in Timers,
         NEW exitCode, NEW stopped \in BOOLEAN,
         Settle(by, timer, exitCode, stopped),
         host' = host, callerAborted' \in BOOLEAN, child' \in Children,
         tree' \in SUBSET {"child", "descendant"}, UNCHANGED output,
         by # None /\ stopped => tree' = {}
  PROVE  IInv'
<1>1. /\ result' \in Results /\ result' # None
      /\ result'.status = "cancelled" => tree' = {}
  BY InterpretedType, NoneAssumption DEF Settle
<1>2. /\ watch' \in [settled : BOOLEAN, aborting : BOOLEAN, grace : Timers,
                     confirm : Timers, killed : BOOLEAN]
      /\ watch'.grace = "off" /\ watch'.confirm = "off"
  BY DEF IInv, VerificationTypeOK, Settle, Timers
<1>3. stage' = "ended" /\ interrupted' \in {None, "caller", "deadline"} /\ deadline' \in Timers
  BY DEF Settle, Timers
<1> QED
  BY <1>1, <1>2, <1>3 DEF IInv, VerificationTypeOK, RunIsOrderly, BeforeTheRun,
       CancelledHasStopped, Stages

LEMMA StoppedTree ==
  ASSUME NEW liveness \in Liveness(tree), Stopped(liveness)
  PROVE  tree = {}
BY DEF Liveness, Stopped

LEMMA AbortKeeps ==
  ASSUME IInv, Unsettled, NEW by \in {"caller", "deadline"}, NEW timer \in Timers,
         OnAbort(by, timer), host' = host, callerAborted' \in BOOLEAN, UNCHANGED output
  PROVE  IInv'
<1>1. CASE /\ stage' = stage /\ interrupted' = by /\ deadline' = timer
           /\ watch' = [watch EXCEPT !.aborting = TRUE, !.grace = "armed"]
           /\ UNCHANGED <<process, result>>
  BY <1>1, NoneAssumption DEF IInv, VerificationTypeOK, RunIsOrderly, BeforeTheRun,
       CancelledHasStopped, Unsettled, Timers, process
<1>2. CASE /\ child = "started" /\ child' = "closed" /\ tree' = {}
           /\ Settle(by, timer, None, host = "posix")
  <2>1. (host = "posix") \in BOOLEAN
    OBVIOUS
  <2> QED
    BY <1>2, <2>1, SettleKeeps DEF Children
<1> QED
  BY <1>1, <1>2 DEF OnAbort

-----------------------------------------------------------------------------
LEMMA Initially ==
  ASSUME Init
  PROVE  IInv
<1>1. VerificationTypeOK
  <2>1. watch \in [settled : BOOLEAN, aborting : BOOLEAN, grace : Timers,
                   confirm : Timers, killed : BOOLEAN]
    BY DEF Init, Idle, Timers
  <2>2. output \in [kept : 0..MaxOutput, produced : Nat, truncated : BOOLEAN]
    BY VerificationAssumption DEF Init, Empty
  <2> QED
    BY <2>1, <2>2 DEF Init, VerificationTypeOK, Stages, Timers, Children
<1>2. RunIsOrderly /\ CancelledHasStopped
  BY DEF Init, RunIsOrderly, BeforeTheRun, CancelledHasStopped
<1> QED
  BY <1>1, <1>2 DEF IInv

(* Up to the question.                                                     *)
LEMMA QuestionKeeps ==
  ASSUME IInv, Request \/ Decline \/ AcceptTooLate \/ FailInvocation \/ Spawn \/ FailSpawn
  PROVE  IInv'
<1> USE DEF IInv, VerificationTypeOK, RunIsOrderly, BeforeTheRun, CancelledHasStopped
<1>1. CASE Request
  <2>1. PICK target \in Targets :
          LET verdict == Preflight(target)
          IN  IF verdict = "asking"
              THEN stage' = "asking" /\ UNCHANGED result
              ELSE stage' = "ended" /\ result' = Answer(verdict)
    BY <1>1 DEF Request
  <2>2. Preflight(target) \in Statuses \cup {"asking"}
    BY DEF Preflight, Statuses
  <2>3. CASE Preflight(target) = "asking"
    BY <1>1, <2>1, <2>3 DEF Request, Stages, call, process
  <2>4. CASE Preflight(target) \in Statuses
    <3>1. stage' = "ended" /\ result' \in Results /\ result' # None
      BY <2>1, <2>4, AnswerType, NoneAssumption DEF Statuses
    <3> QED
      BY <1>1, <3>1 DEF Request, Stages, call, process, Idle
  <2> QED
    BY <2>2, <2>3, <2>4
<1>2. CASE Decline
  <2>1. stage = "asking" /\ stage' = "ended" /\ result' \in Results /\ result' # None
    <3>1. (IF callerAborted THEN "cancelled" ELSE "declined") \in Statuses
      BY DEF Statuses
    <3> QED
      BY <1>2, <3>1, AnswerType, NoneAssumption DEF Decline
  <2> QED
    BY <1>2, <2>1 DEF Decline, Stages, call, process, Idle
<1>3. CASE AcceptTooLate
  <2>1. stage = "asking" /\ stage' = "ended" /\ result' \in Results /\ result' # None
    BY <1>3, AnswerType, NoneAssumption DEF AcceptTooLate, Statuses
  <2> QED
    BY <1>3, <2>1 DEF AcceptTooLate, Stages, call, process, Idle
<1>4. CASE FailInvocation
  <2>1. stage = "asking" /\ stage' = "ended" /\ result' \in Results /\ result' # None
    BY <1>4, AnswerType, NoneAssumption DEF FailInvocation, Accepted, Statuses
  <2> QED
    BY <1>4, <2>1 DEF FailInvocation, Stages, call, process, Idle
<1>5. CASE Spawn
  BY <1>5 DEF Spawn, Accepted, Stages, Timers, Children, Idle, call
<1>6. CASE FailSpawn
  <2>1. interrupted = None /\ interrupted \in {None, "caller", "deadline"}
    BY <1>6 DEF FailSpawn, Accepted
  <2>2. /\ Settle(interrupted, "armed", None, FALSE)
        /\ host' = host /\ callerAborted' \in BOOLEAN /\ UNCHANGED output
        /\ child' \in Children /\ tree' \in SUBSET {"child", "descendant"}
    BY <1>6 DEF FailSpawn, call, Children
  <2>3. "armed" \in Timers /\ IInv
    BY DEF Timers
  <2> HIDE DEF IInv, VerificationTypeOK, RunIsOrderly, BeforeTheRun, CancelledHasStopped
  <2> QED
    BY <2>1, <2>2, <2>3, SettleKeeps
<1> QED
  BY <1>1, <1>2, <1>3, <1>4, <1>5, <1>6

(* What happens outside the program: a process that ends does not come     *)
(* back, and only a living child starts another.                           *)
LEMMA OutsideKeeps ==
  ASSUME IInv, Fork \/ (\E p \in {"child", "descendant"} : Exit(p)) \/ CallerAborts \/ Data
  PROVE  IInv'
<1> USE DEF IInv, VerificationTypeOK, RunIsOrderly, BeforeTheRun, CancelledHasStopped
<1>1. CASE Fork
  BY <1>1 DEF Fork, call
<1>2. ASSUME NEW p \in {"child", "descendant"}, Exit(p)
      PROVE  IInv'
  BY <1>2 DEF Exit, call
<1>3. CASE CallerAborts
  BY <1>3 DEF CallerAborts, process
<1>4. CASE Data
  <2>1. PICK size \in 1..MaxProduced : output' = Collected(output, size)
    BY <1>4 DEF Data
  <2>2. output' \in [kept : 0..MaxOutput, produced : Nat, truncated : BOOLEAN]
    BY <2>1, VerificationAssumption DEF Collected
  <2> QED
    BY <1>4, <2>2 DEF Data, call, process
<1> QED
  BY <1>1, <1>2, <1>3, <1>4

(* The events of the run.                                                  *)
LEMMA RunKeeps ==
  ASSUME IInv,
         CallerInterrupts \/ DeadlineFires \/ OnClose \/ OnCloseAborting
           \/ Escalate \/ ConfirmationFires
  PROVE  IInv'
<1>0. /\ interrupted \in {None, "caller", "deadline"} /\ deadline \in Timers
      /\ child \in Children /\ tree \in SUBSET {"child", "descendant"}
      /\ callerAborted \in BOOLEAN
  BY DEF IInv, VerificationTypeOK
<1>1. CASE CallerInterrupts
  <2>1. CASE interrupted = None
    <3>1. Unsettled /\ OnAbort("caller", deadline)
          /\ host' = host /\ callerAborted' \in BOOLEAN /\ UNCHANGED output
      BY <1>1, <2>1 DEF CallerInterrupts
    <3> QED
      BY <1>0, <3>1, AbortKeeps
  <2>2. CASE interrupted # None
    <3>1. /\ UNCHANGED <<stage, interrupted, deadline, child, tree, watch, result>>
          /\ UNCHANGED <<host, output>> /\ callerAborted' = TRUE
      BY <1>1, <2>2 DEF CallerInterrupts, process
    <3> QED
      BY <3>1 DEF IInv, VerificationTypeOK, RunIsOrderly, BeforeTheRun, CancelledHasStopped
  <2> QED
    BY <2>1, <2>2
<1>2. CASE DeadlineFires
  <2>1. CASE interrupted = None
    <3>1. Unsettled /\ OnAbort("deadline", "fired")
          /\ host' = host /\ callerAborted' \in BOOLEAN /\ UNCHANGED output
      BY <1>0, <1>2, <2>1 DEF DeadlineFires, call
    <3> QED
      BY <3>1, AbortKeeps DEF Timers
  <2>2. CASE interrupted # None
    BY <1>2, <2>2 DEF DeadlineFires, IInv, VerificationTypeOK, RunIsOrderly, Timers,
         BeforeTheRun, CancelledHasStopped, process, call
  <2> QED
    BY <2>1, <2>2
<1>3. CASE OnClose
  <2>1. PICK exitCode \in {0, 1, None} : Settle(interrupted, deadline, exitCode, TRUE)
    BY <1>3 DEF OnClose
  <2>2. interrupted = None
    BY <1>3 DEF OnClose, Unsettled, IInv, RunIsOrderly
  <2>3. host' = host /\ callerAborted' \in BOOLEAN /\ UNCHANGED output
        /\ child' \in Children /\ tree' \in SUBSET {"child", "descendant"}
    BY <1>0, <1>3 DEF OnClose, call, Children
  <2> QED
    BY <1>0, <2>1, <2>2, <2>3, SettleKeeps
<1>4. CASE OnCloseAborting
  <2>0. host' = host /\ callerAborted' = callerAborted /\ UNCHANGED output
        /\ child' = "closed" /\ tree' = tree
    BY <1>4 DEF OnCloseAborting, call
  <2>1. PICK liveness \in Liveness(tree) :
          IF liveness = "alive"
          THEN UNCHANGED <<stage, interrupted, deadline, watch, result>>
          ELSE Settle(interrupted, deadline, None, Stopped(liveness))
    BY <1>4 DEF OnCloseAborting
  <2>2. CASE liveness = "alive"
    BY <1>4, <2>0, <2>1, <2>2 DEF OnCloseAborting, Unsettled, IInv, VerificationTypeOK,
         RunIsOrderly, BeforeTheRun, CancelledHasStopped, Children
  <2>3. CASE liveness # "alive"
    <3>1. Stopped(liveness) \in BOOLEAN /\ (Stopped(liveness) => tree' = {})
      BY <2>0, StoppedTree DEF Stopped
    <3> QED
      BY <1>0, <2>0, <2>1, <2>3, <3>1, SettleKeeps DEF Children
  <2> QED
    BY <2>2, <2>3
<1>5. CASE Escalate
  <2>0. UNCHANGED <<call, process, output>> /\ watch.grace = "armed"
    BY <1>5 DEF Escalate
  <2>1. CASE /\ \E liveness \in Liveness(tree) : Stopped(liveness)
             /\ Settle(interrupted, deadline, None, TRUE)
    <3>1. tree' = {}
      BY <2>0, <2>1, StoppedTree DEF process
    <3> QED
      BY <1>0, <2>0, <2>1, <3>1, SettleKeeps DEF call, process
  <2>2. CASE /\ watch' = [watch EXCEPT !.grace = "fired", !.killed = TRUE,
                            !.confirm = IF watch.settled THEN @ ELSE "armed"]
             /\ UNCHANGED <<stage, interrupted, deadline, result>>
    <3>1. stage = "running" /\ ~watch.settled
      BY <2>0 DEF IInv, VerificationTypeOK, RunIsOrderly, BeforeTheRun, Idle, Stages
    <3>2. /\ UNCHANGED <<host, callerAborted, stage, interrupted, deadline, child, tree>>
          /\ UNCHANGED <<output, result>>
      BY <2>0, <2>2 DEF call, process
    <3>3. /\ watch' \in [settled : BOOLEAN, aborting : BOOLEAN, grace : Timers,
                          confirm : Timers, killed : BOOLEAN]
          /\ watch'.settled = watch.settled /\ watch'.aborting = watch.aborting
      <4>1. "fired" \in Timers /\ (IF watch.settled THEN watch.confirm ELSE "armed") \in Timers
        BY DEF IInv, VerificationTypeOK, Timers
      <4> QED
        BY <2>2, <4>1 DEF IInv, VerificationTypeOK
    <3> QED
      BY <3>1, <3>2, <3>3 DEF IInv, VerificationTypeOK, RunIsOrderly, BeforeTheRun,
           CancelledHasStopped
  <2> QED
    BY <1>5, <2>1, <2>2 DEF Escalate
<1>6. CASE ConfirmationFires
  <2>1. PICK liveness \in Liveness(tree) :
          Settle(interrupted, deadline, None, Stopped(liveness))
    BY <1>6 DEF ConfirmationFires
  <2>2. Stopped(liveness) \in BOOLEAN /\ (Stopped(liveness) => tree' = {})
    BY <1>6, StoppedTree DEF Stopped, ConfirmationFires, process
  <2> QED
    BY <1>0, <1>6, <2>1, <2>2, SettleKeeps DEF ConfirmationFires, call, process
<1> QED
  BY <1>1, <1>2, <1>3, <1>4, <1>5, <1>6

LEMMA StepKeeps ==
  ASSUME IInv, [Next]_vars
  PROVE  IInv'
<1>1. CASE UNCHANGED vars
  BY <1>1 DEF vars, call, process, IInv, VerificationTypeOK, RunIsOrderly, BeforeTheRun,
       CancelledHasStopped
<1> QED
  BY <1>1, QuestionKeeps, OutsideKeeps, RunKeeps DEF Next

-----------------------------------------------------------------------------
(* No run is reported as cancelled while a process of it lives.            *)
THEOREM CancelledRunsHaveStopped == Spec => []CancelledHasStopped
<1>1. Init => IInv
  BY Initially
<1>2. IInv /\ [Next]_vars => IInv'
  BY StepKeeps
<1>3. IInv => CancelledHasStopped
  BY DEF IInv
<1> QED
  BY <1>1, <1>2, <1>3, PTL DEF Spec

(* No event and no timer acts on a run that is settled.                    *)
THEOREM SettledStaysSettled == Spec => SettledForGood
<1>1. Init => IInv
  BY Initially
<1>2. IInv /\ [Next]_vars => IInv'
  BY StepKeeps
<1>3. IInv /\ [Next]_vars => [watch.settled => UNCHANGED <<watch, result>>]_vars
  <2> SUFFICES ASSUME IInv, Next, watch.settled
               PROVE  UNCHANGED <<watch, result>>
    BY DEF vars
  <2>1. stage = "ended" /\ watch.grace # "armed" /\ watch.confirm # "armed"
    BY DEF IInv, VerificationTypeOK, RunIsOrderly, BeforeTheRun, Stages, Idle
  <2>2. CASE Request \/ Decline \/ AcceptTooLate \/ FailInvocation \/ Spawn \/ FailSpawn
    BY <2>1, <2>2 DEF Request, Decline, AcceptTooLate, FailInvocation, Spawn, FailSpawn,
         Accepted
  <2>3. CASE Fork \/ (\E p \in {"child", "descendant"} : Exit(p)) \/ CallerAborts \/ Data
    BY <2>1, <2>3 DEF Fork, Exit, CallerAborts, Data
  <2>4. CASE CallerInterrupts \/ DeadlineFires \/ OnClose \/ OnCloseAborting
    BY <2>1, <2>4 DEF CallerInterrupts, DeadlineFires, OnClose, OnCloseAborting, Unsettled
  <2>5. CASE Escalate \/ ConfirmationFires
    BY <2>1, <2>5 DEF Escalate, ConfirmationFires
  <2> QED
    BY <2>2, <2>3, <2>4, <2>5 DEF Next
<1> QED
  BY <1>1, <1>2, <1>3, PTL DEF Spec, SettledForGood

(* No script is started for a caller that has given up.                    *)
THEOREM NothingStartsLate == Spec => NothingStartsAfterAbort
<1>1. [Next]_vars => [child = "none" /\ child' # "none" => ~callerAborted]_vars
  <2> SUFFICES ASSUME Next, child = "none", child' # "none"
               PROVE  ~callerAborted
    BY DEF vars
  <2>1. CASE Spawn \/ FailSpawn
    BY <2>1 DEF Spawn, FailSpawn, Accepted
  <2>2. CASE Request \/ Decline \/ AcceptTooLate \/ FailInvocation
    BY <2>2 DEF Request, Decline, AcceptTooLate, FailInvocation, process
  <2>3. CASE Fork \/ (\E p \in {"child", "descendant"} : Exit(p)) \/ CallerAborts \/ Data
    BY <2>3 DEF Fork, Exit, CallerAborts, Data, process
  <2>4. CASE CallerInterrupts \/ DeadlineFires
    BY <2>4 DEF CallerInterrupts, DeadlineFires, OnAbort, process
  <2>5. CASE OnClose \/ OnCloseAborting \/ Escalate \/ ConfirmationFires
    BY <2>5 DEF OnClose, OnCloseAborting, Escalate, ConfirmationFires, process
  <2> QED
    BY <2>1, <2>2, <2>3, <2>4, <2>5 DEF Next
<1> QED
  BY <1>1, PTL DEF Spec, NothingStartsAfterAbort

-----------------------------------------------------------------------------
Counted == output \in [kept : 0..MaxOutput, produced : Nat, truncated : BOOLEAN]

(* One piece more is accounted for.                                        *)
LEMMA CollectedIsAccounted ==
  ASSUME Counted, OutputIsAccounted, NEW size \in Nat \ {0},
         output' = Collected(output, size)
  PROVE  Counted' /\ OutputIsAccounted'
<1> DEFINE remaining == MaxOutput - output.kept
<1>1. /\ output.kept \in Nat /\ output.kept <= MaxOutput /\ MaxOutput \in Nat
      /\ output.produced \in Nat /\ output.truncated \in BOOLEAN
  BY VerificationAssumption DEF Counted
<1>2. output' = [ kept |-> output.kept + (IF size < remaining THEN size ELSE remaining),
                  produced |-> output.produced + size,
                  truncated |-> output.truncated \/ size > remaining ]
  BY DEF Collected
<1>3. /\ output'.kept = output.kept + (IF size < remaining THEN size ELSE remaining)
      /\ output'.produced = output.produced + size
  BY <1>2
<1>4. output'.truncated <=> output.truncated \/ size > remaining
  <2> DEFINE lost == output.truncated \/ size > remaining
  <2>1. lost \in BOOLEAN
    OBVIOUS
  <2>2. output'.truncated = lost
    <3> HIDE DEF lost
    <3>1. output' = [ kept |-> output.kept + (IF size < remaining THEN size ELSE remaining),
                      produced |-> output.produced + size, truncated |-> lost ]
      BY <1>2, Zenon DEF lost
    <3> QED
      BY <2>1, <3>1
  <2> QED
    BY <2>2
<1>5. Counted'
  <2>1. output.kept + (IF size < remaining THEN size ELSE remaining) \in 0..MaxOutput
    BY <1>1
  <2>2. output.produced + size \in Nat
    BY <1>1
  <2>3. (output.truncated \/ size > remaining) \in BOOLEAN
    OBVIOUS
  <2> QED
    BY <1>2, <2>1, <2>2, <2>3 DEF Counted
<1>6. CASE output.truncated
  <2>1. output.produced > MaxOutput /\ output.kept = MaxOutput
    BY <1>6 DEF OutputIsAccounted
  <2>2. output'.produced > MaxOutput /\ output'.kept = MaxOutput
    BY <1>1, <1>3, <2>1
  <2>3. output'.truncated
    BY <1>4, <1>6
  <2> QED
    BY <1>5, <2>2, <2>3 DEF OutputIsAccounted
<1>7. CASE ~output.truncated
  <2>1. output.produced <= MaxOutput /\ output.kept = output.produced
    BY <1>1, <1>7 DEF OutputIsAccounted
  <2>2. CASE size > remaining
    <3>1. output'.produced > MaxOutput /\ output'.kept = MaxOutput
      BY <1>1, <1>3, <2>1, <2>2
    <3> QED
      BY <1>4, <1>5, <2>2, <3>1 DEF OutputIsAccounted
  <2>3. CASE ~(size > remaining)
    <3>1. ~(output'.produced > MaxOutput) /\ output'.kept = output'.produced
      BY <1>1, <1>3, <2>1, <2>3
    <3>2. ~output'.truncated
      BY <1>4, <1>7, <2>3
    <3> QED
      BY <1>5, <3>1, <3>2 DEF OutputIsAccounted
  <2> QED
    BY <2>2, <2>3
<1> QED
  BY <1>6, <1>7

(* What the buffer keeps and what it says of the rest is right, whatever   *)
(* the sizes of the pieces and of the buffer.                              *)
THEOREM OutputCorrect == Spec => []OutputIsAccounted
<1>1. Init => Counted /\ OutputIsAccounted
  BY VerificationAssumption DEF Init, Counted, OutputIsAccounted, Empty
<1>2. Counted /\ OutputIsAccounted /\ [Next]_vars => (Counted /\ OutputIsAccounted)'
  <2> SUFFICES ASSUME Counted, OutputIsAccounted, [Next]_vars
               PROVE  (Counted /\ OutputIsAccounted)'
    OBVIOUS
  <2>1. CASE Data
    <3>1. PICK size \in 1..MaxProduced : output' = Collected(output, size)
      BY <2>1 DEF Data
    <3>2. size \in Nat \ {0}
      BY VerificationAssumption
    <3> QED
      BY <3>1, <3>2, CollectedIsAccounted
  <2>2. CASE UNCHANGED output
    BY <2>2 DEF Counted, OutputIsAccounted
  <2>3. Next => Data \/ UNCHANGED output
    BY DEF Next, Request, Decline, AcceptTooLate, FailInvocation, Spawn, FailSpawn, Fork,
         Exit, CallerAborts, CallerInterrupts, DeadlineFires, OnClose, OnCloseAborting,
         Escalate, ConfirmationFires
  <2> QED
    BY <2>1, <2>2, <2>3 DEF vars
<1>3. Counted /\ OutputIsAccounted => OutputIsAccounted
  OBVIOUS
<1> QED
  BY <1>1, <1>2, <1>3, PTL DEF Spec
=============================================================================
