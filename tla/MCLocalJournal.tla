---------------------------- MODULE MCLocalJournal ----------------------------
(* Four calls with every order and kind, one stop or power failure and one *)
(* damage at any point.                                                    *)
EXTENDS LocalJournal
=============================================================================
