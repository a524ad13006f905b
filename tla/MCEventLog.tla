----------------------------- MODULE MCEventLog -----------------------------
(* Small instances of EventLog. *)
EXTENDS EventLog

CONSTANTS p1, p2, r1, r2, r3, r4

Interchangeable == Permutations({p1, p2}) \cup Permutations({r1, r2, r3, r4})
=============================================================================
