------------------------------- MODULE MCHub -------------------------------
(* Small instances of Hub. *)
EXTENDS Hub, TLC

CONSTANTS c1, c2, e1, e2, e3
=============================================================================
