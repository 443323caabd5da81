------------------------------ MODULE MCPresence ------------------------------
(* Two commands in any overlap, two edits, one failure, one step of the  *)
(* chat participant.                                                       *)
EXTENDS PresenceLifecycle
=============================================================================
