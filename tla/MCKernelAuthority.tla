-------------------------- MODULE MCKernelAuthority --------------------------
(***************************************************************************)
(* The kernel on authority: a delivery unit the model owns, two operations *)
(* and two grants of one session, with every way to pause, resume, close   *)
(* and switch off in between, and session identifiers used again.          *)
(***************************************************************************)
EXTENDS KernelLedger, TLC

CONSTANTS w1, s1, u1, g1, g2, o1, o2

MCWorkspaces == {w1}
MCSessionIds == {s1}
MCPaths == {}
MCWorkUnitIds == {u1}
MCCeilings == {}
MCHintLevels == {}
MCOperationIds == {o1, o2}
MCOperationTools == {"run_command", "read"}
MCGrantIds == {g1, g2}
MCGrantTools == {"run_command", "close_session"}

MCProposals ==
    { [ id |-> u1, mode |-> "delivery", owner |-> "ai",
        learningValue |-> "low", checked |-> FALSE, status |-> "proposed" ] }

Identifiers == Permutations(MCOperationIds) \cup Permutations(MCGrantIds)
=============================================================================
