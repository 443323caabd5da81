------------------------- MODULE MCCoordinatorGrowth -------------------------
(***************************************************************************)
(* The coordinator on the tools of a growth session, asked for by two      *)
(* calls at once, one grant at a time, while the developer may take every  *)
(* step of the briefing without a tool.                                    *)
(***************************************************************************)
EXTENDS PairCoordinator, TLC

CONSTANTS w1, s1, u1, g1, c1, c2

MCWorkspaces == {w1}
MCSessionIds == {s1}
MCPaths == {}
MCWorkUnitIds == {u1}
MCCeilings == {1}
MCHintLevels == {1}
MCOperationIds == {}
MCOperationTools == {}
MCGrantIds == {g1}
MCTools ==
    { "capture_entry", "confirm_learning", "select_mode", "propose_work_unit",
      "agree_work_unit", "record_attempt", "record_hypothesis", "request_hint",
      "reveal_solution", "close_session" }
MCGrantTools == MCTools
MCSlots == {c1, c2}

MCProposals ==
    { [ id |-> u1, mode |-> "growth", owner |-> "human",
        learningValue |-> "high", checked |-> TRUE, status |-> "proposed" ] }

Identifiers == Permutations(MCSlots)

(* Bound: sessions begin among the first revisions, and one that took the  *)
(* place of another is not paused; the first may be paused, closed, turned *)
(* off and replaced at any time.  Nothing is observed and presence is not  *)
(* quiet: MCCoordinatorEffects has both.                                   *)
EarlySessions ==
    /\ presence.observationRevision = 0
    /\ presence.status # "quiet"
    /\ session # None =>
           /\ session.mode # "delivery"
           /\ session.startedAtRevision <= 4
           /\ session.startedAtRevision > 1 => presence.status # "paused"
=============================================================================
