SPECIFICATION Spec
CONSTANTS
  m1 = m1
  prep = prep
  abort = abort
  cancel = cancel
  down = down
  e1 = e1
  e2 = e2
  NoFence = NoFence
  Cmds = {m1}
  PrepareCmds = {}
  DrainCmds = {}
  CancelCmds = {}
  ShutdownCmds = {}
  Evictors = {e1, e2}
  MaxEpoch = 0
INVARIANT EvictionIsExclusive
CHECK_DEADLOCK FALSE
