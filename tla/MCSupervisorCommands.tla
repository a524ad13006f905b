------------------------ MODULE MCSupervisorCommands ------------------------
(* Model-checking instances of SupervisorCommands. *)
EXTENDS SupervisorCommands

CONSTANTS m1, prep, abort, cancel, down, e1, e2
=============================================================================
