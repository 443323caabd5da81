---------------------------- MODULE MCKernelEntry ----------------------------
(***************************************************************************)
(* The kernel on presence and entries: two workspaces, two files that may  *)
(* be dirty or protected at any capture, and the whole life of a session   *)
(* around them: quiet, paused, resumed, closed, off and started again.     *)
(***************************************************************************)
EXTENDS PairKernel, TLC

CONSTANTS w1, w2, s1, s2, u1, p1, p2

MCWorkspaces == {w1, w2}
MCSessionIds == {s1, s2}
MCPaths == {p1, p2}
MCWorkUnitIds == {u1}
MCCeilings == {}
MCHintLevels == {}
MCOperationIds == {}
MCOperationTools == {}
MCGrantIds == {}
MCGrantTools == {}

MCProposals ==
    { [ id |-> u1, mode |-> "pair", owner |-> "human",
        learningValue |-> "mixed", checked |-> FALSE, status |-> "proposed" ] }

Identifiers ==
    Permutations(MCWorkspaces) \cup Permutations(MCSessionIds) \cup
    Permutations(MCPaths)
=============================================================================
