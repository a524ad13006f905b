-------------------------- MODULE MCSessionActions --------------------------
(* Model-checking instances of SessionActions. *)
EXTENDS SessionActions

CONSTANTS t1, t2, t3, c1, n1
=============================================================================
