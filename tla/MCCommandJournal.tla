-------------------------- MODULE MCCommandJournal --------------------------
(* Small instances of CommandJournal. *)
EXTENDS CommandJournal

CONSTANTS k1, k2, k3
=============================================================================
