----------------------- MODULE MCSupervisorOwnership -----------------------
(* Model-checking instances of SupervisorOwnership. *)
EXTENDS SupervisorOwnership

CONSTANTS s1, s2, t1

(* Every pair of supervisors conflicts. *)
AllConflict == {pair \in Supervisors \X Supervisors : pair[1] # pair[2]}
=============================================================================
