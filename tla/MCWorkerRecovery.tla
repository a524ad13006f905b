-------------------------- MODULE MCWorkerRecovery --------------------------
EXTENDS WorkerRecovery

CONSTANTS s1, s2

OneSession == {s1}
TwoSessions == {s1, s2}
=============================================================================
