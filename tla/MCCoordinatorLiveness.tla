------------------------ MODULE MCCoordinatorLiveness ------------------------
(***************************************************************************)
(* Whether calls end: two calls at once, reads that take no user action,  *)
(* action, commands that need one, and recoveries, under the fairness of   *)
(* the queue and of the effects.                                           *)
(***************************************************************************)
EXTENDS PairCoordinator

CONSTANTS w1, s1, u1, o1, g1, c1, c2

MCWorkspaces == {w1}
MCSessionIds == {s1}
MCPaths == {}
MCWorkUnitIds == {u1}
MCCeilings == {}
MCHintLevels == {}
MCOperationIds == {o1}
MCOperationTools == {"read_scope", "run_command"}
MCGrantIds == {g1}
MCGrantTools == {"run_command"}
MCSlots == {c1, c2}
MCTools == MCOperationTools

MCProposals ==
    { [ id |-> u1, mode |-> "delivery", owner |-> "ai",
        learningValue |-> "low", checked |-> FALSE, status |-> "proposed" ] }
=============================================================================
