-------------------------- MODULE MCVerificationRun --------------------------
(* One run on either host, with a child and a descendant, and one piece of *)
(* output more than the buffer holds.                                      *)
EXTENDS VerificationRun
=============================================================================
