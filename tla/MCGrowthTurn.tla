---------------------------- MODULE MCGrowthTurn ----------------------------
(***************************************************************************)
(* Two turns with one model, in a session whose identifiers the next one   *)
(* uses again, with room for the developer to end the session and set up   *)
(* another while a turn waits.                                             *)
(***************************************************************************)
EXTENDS GrowthTurn

CONSTANTS w1, s1, u1, m1

MCWorkspaces == {w1}
MCSessionIds == {s1}
MCPaths == {}
MCWorkUnitIds == {u1}
MCCeilings == {5}
MCHintLevels == {1}
MCIds == 1..3
MCOperationTools == {"read_scope", "run_verification"}
MCGrantTools == {"reveal_solution", "request_hint", "record_attempt", "run_verification"}
MCTurns == {1, 2}
MCModels == {m1}

MCProposals ==
    { [ id |-> u1, mode |-> "growth", owner |-> "human",
        learningValue |-> "high", checked |-> TRUE, status |-> "proposed" ] }

MCResponses ==
    { [level |-> 1, kind |-> "question", solution |-> FALSE],
      [level |-> 5, kind |-> "solution-preview", solution |-> TRUE] }
=============================================================================
