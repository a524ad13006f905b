--------------------------- MODULE MCSessionLease ---------------------------
(* Model-checking instances of SessionLease. *)
EXTENDS SessionLease, TLC

CONSTANTS p1, p2, p3, p4

Interchangeable == Permutations(Procs \ Recycled)
=============================================================================
