---------------------------- MODULE MCAgentLoop ----------------------------
(* Small instances of AgentLoop. *)
EXTENDS AgentLoop

CONSTANTS m1, m2, m3

OneCustom == {m3}
Two == {<<m1>>, <<m3>>}
PairAndOne == {<<m1>>, <<m2, m3>>}
=============================================================================
