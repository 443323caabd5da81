----------------------------- MODULE KernelLedger -----------------------------
(***************************************************************************)
(* The kernel implements the operation ledger: the refinement mapping      *)
(* reads the ledger off the session snapshot.                              *)
(***************************************************************************)
EXTENDS PairKernel

LedgerPhase ==
    IF session = None THEN "vacant"
    ELSE CASE session.status = "briefing" -> "briefing"
           [] session.status \in {"ready", "active"} -> "given"
           [] session.status \in {"paused", "reconciling"} -> "revoked"
           [] session.status = "closed" -> "ended"

LedgerEpoch == IF session = None THEN 0 ELSE session.authorityEpoch

SettledOperations ==
    {id \in OperationIds : operations[id] # None /\ ~IsOpen(id)}

Ledger == INSTANCE OperationLedger
            WITH Ids <- OperationIds, phase <- LedgerPhase, epoch <- LedgerEpoch,
                 open <- OpenOperations, settled <- SettledOperations

(* Every command of the kernel is a step of the ledger or leaves it alone: *)
(* no interleaving of pauses, resumes, closes and results opens an effect  *)
(* outside given authority, settles one twice or gives authority back.     *)
ImplementsLedger == Ledger!Spec
=============================================================================
