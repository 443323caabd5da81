--------------------------- MODULE MCGrowthSetup ---------------------------
(***************************************************************************)
(* Two requests, two objectives, and a session whose identifier the next   *)
(* one uses again; a model may propose a unit under any name.              *)
(***************************************************************************)
EXTENDS GrowthSetup

CONSTANTS w1, s1, o1, o2

MCWorkspaces == {w1}
MCSessionIds == {s1}
MCPaths == {}
MCWorkUnitIds == 0..MaxRevision
MCCeilings == {4}
MCHintLevels == {1}
MCGrantIds == 1..MaxRevision
MCGrantTools == {"confirm_learning", "select_mode", "agree_work_unit"}
MCRequests == {1, 2}
MCObjectives == {o1, o2}

MCProposals ==
    { [ id |-> id, mode |-> "growth", owner |-> "human",
        learningValue |-> "high", checked |-> TRUE, status |-> "proposed" ]
      : id \in {8, 9} }
=============================================================================
