------------------------------- MODULE EventLog -------------------------------
(***************************************************************************)
(* What the local journal promises, without files, hashes or queues: a log *)
(* that grows by one new event at a time and is emptied as a whole.  Its   *)
(* stable copy lags behind and is what a power failure leaves; damage to   *)
(* the medium either takes events off the end or makes the log unreadable, *)
(* and an unreadable log is never read as something else.                  *)
(***************************************************************************)
EXTENDS Integers, Sequences

CONSTANTS Events, Unreadable

VARIABLES log, stable

eventLog == <<log, stable>>

Init == log = <<>> /\ stable = <<>>

Record(event) ==
    /\ log # Unreadable
    /\ \A k \in 1..Len(log) : log[k] # event
    /\ log' = Append(log, event)
    /\ UNCHANGED stable

Clear == log' = <<>> /\ UNCHANGED stable

Persist == stable' = log /\ UNCHANGED log

FallBack == log' = stable /\ UNCHANGED stable

Damage ==
    /\ \/ log' = Unreadable
       \/ log # Unreadable /\ \E k \in 0..Len(log) : log' = SubSeq(log, 1, k)
    /\ stable' = log'

Next ==
    \/ Clear \/ Persist \/ FallBack \/ Damage
    \/ \E event \in Events : Record(event)

Spec == Init /\ [][Next]_eventLog
=============================================================================
