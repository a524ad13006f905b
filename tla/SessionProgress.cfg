SPECIFICATION FairSpec
CONSTANTS
  t1 = t1
  t2 = t2
  t3 = t3
  c1 = c1
  n1 = n1
  None = None
  Turns = {t1}
  AgentMsgs = {}
  Commands = {c1}
  Notes = {}
  BatchAll = FALSE
  Ops = {"abort", "restart", "navigate", "run_fails", "event_fails", "retry"}
  MaxOps = 2
PROPERTY FenceIsPassedOn
CHECK_DEADLOCK FALSE
