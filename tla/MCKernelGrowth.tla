---------------------------- MODULE MCKernelGrowth ----------------------------
(***************************************************************************)
(* The kernel on growth work: one developer-owned growth unit among        *)
(* proposals the kernel must refuse, a ceiling below and at the top of the *)
(* ladder, hints on both sides of every rung, and one grant to spend.      *)
(***************************************************************************)
EXTENDS PairKernel

CONSTANTS w1, s1, u1, g1

MCWorkspaces == {w1}
MCSessionIds == {s1}
MCPaths == {}
MCWorkUnitIds == {u1}
MCCeilings == {1, 5}
MCHintLevels == {1, 2, 5}
MCOperationIds == {}
MCOperationTools == {}
MCGrantIds == {g1}
MCGrantTools == {"confirm_learning", "record_attempt", "request_hint", "agree_work_unit"}

Growth == [ id |-> u1, mode |-> "growth", owner |-> "human",
            learningValue |-> "high", checked |-> TRUE, status |-> "proposed" ]

MCProposals ==
    { Growth,
      [Growth EXCEPT !.owner = "ai"],
      [Growth EXCEPT !.learningValue = "low"],
      [Growth EXCEPT !.checked = FALSE],
      [Growth EXCEPT !.mode = "pair", !.owner = "ai", !.learningValue = "low"] }
=============================================================================
