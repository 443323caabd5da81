------------------------ MODULE MCCoordinatorEffects ------------------------
(***************************************************************************)
(* The coordinator on effects: two calls at once, one operation identifier *)
(* that is used again after every "off", a read that may be recovered and  *)
(* an edit that may not, on a unit the model owns or one the developer     *)
(* owns.                                                                   *)
(***************************************************************************)
EXTENDS PairCoordinator, TLC

CONSTANTS w1, s1, u1, o1, c1, c2

MCWorkspaces == {w1}
MCSessionIds == {s1}
MCPaths == {}
MCWorkUnitIds == {u1}
MCCeilings == {}
MCHintLevels == {}
MCOperationIds == {o1}
MCOperationTools == {"read_scope", "apply_edit"}
MCGrantIds == {}
MCGrantTools == {}
MCSlots == {c1, c2}
MCTools == MCOperationTools

MCProposals ==
    [ id : {u1}, mode : {"pair"}, owner : {"human", "ai"},
      learningValue : {"low"}, checked : {FALSE}, status : {"proposed"} ]

Identifiers == Permutations(MCSlots)

(* Bound: a briefing goes straight from its entry to the agreement, and    *)
(* one observation is made; the commands left out are those of the other   *)
(* runs.                                                                   *)
StraightBriefing ==
    /\ presence.observationRevision <= 1
    /\ session # None => session.mode \in {None, "pair"}
    /\ Briefing =>
           revision = session.startedAtRevision +
               Cardinality({part \in {"entry", "mode", "workUnit"} :
                                session[part] # None})
=============================================================================
