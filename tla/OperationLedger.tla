--------------------------- MODULE OperationLedger ---------------------------
(***************************************************************************)
(* What the kernel promises about effects, without presence, agreements,   *)
(* grants or revisions: operations are opened only while authority is      *)
(* given, each settles once, taking authority back settles every open one  *)
(* in the same step and for good, and a session's authority, once taken    *)
(* back, is not given again.                                               *)
(***************************************************************************)
EXTENDS Integers

CONSTANT Ids                   \* operations

VARIABLES
    phase,                     \* of the authority over effects
    epoch,                     \* how often it was taken back
    open,                      \* operations authorised and not settled
    settled                    \* operations that have their outcome

ledger == <<phase, epoch, open, settled>>

Phases == {"vacant", "briefing", "given", "revoked", "ended"}

Blank(newPhase) ==
    phase' = newPhase /\ epoch' = 0 /\ open' = {} /\ settled' = {}

Init == phase = "vacant" /\ epoch = 0 /\ open = {} /\ settled = {}

Begin == phase = "vacant" /\ Blank("briefing")

Forget == phase # "vacant" /\ Blank("vacant")

Give ==
    /\ phase = "briefing"
    /\ phase' = "given"
    /\ UNCHANGED <<epoch, open, settled>>

Authorize(id) ==
    /\ phase = "given"
    /\ id \notin open \cup settled
    /\ open' = open \cup {id}
    /\ UNCHANGED <<phase, epoch, settled>>

(* An operation still open when the session ends may yet settle. *)
Settle(id) ==
    /\ phase \in {"given", "ended"}
    /\ id \in open
    /\ open' = open \ {id}
    /\ settled' = settled \cup {id}
    /\ UNCHANGED <<phase, epoch>>

Revoke ==
    /\ phase \in {"given", "revoked"}
    /\ phase' = "revoked"
    /\ epoch' = epoch + 1
    /\ open' = {}
    /\ settled' = settled \cup open

End ==
    /\ phase \in {"briefing", "given", "revoked"}
    /\ phase' = "ended"
    /\ UNCHANGED <<epoch, open, settled>>

Next ==
    \/ Begin \/ Forget \/ Give \/ Revoke \/ End
    \/ \E id \in Ids : Authorize(id) \/ Settle(id)

Spec == Init /\ [][Next]_ledger
=============================================================================
