SPECIFICATION Spec
CONSTANTS
  t1 = t1
  t2 = t2
  t3 = t3
  c1 = c1
  n1 = n1
  None = None
  Turns = {t1, t2}
  AgentMsgs = {t2}
  Commands = {}
  Notes = {n1}
  BatchAll = TRUE
  Ops = {"pause", "busy", "abort", "clear", "cancel", "clear_agent", "move", "restart", "navigate", "retry"}
  MaxOps = 2
INVARIANTS TypeOK DeliveredOnce RejectedStaysOut Driven TicketsSettled CheckpointHolds DispatchesWait NotesOnce
CHECK_DEADLOCK FALSE
