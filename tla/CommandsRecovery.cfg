SPECIFICATION Spec
CONSTANTS
  m1 = m1
  prep = prep
  abort = abort
  cancel = cancel
  down = down
  e1 = e1
  e2 = e2
  NoFence = NoFence
  Cmds = {m1, cancel, prep}
  PrepareCmds = {prep}
  DrainCmds = {}
  CancelCmds = {cancel}
  ShutdownCmds = {}
  Evictors = {e1}
  MaxEpoch = 2
INVARIANTS TypeOK AtMostOnce RejectedNeverRan RestartIsExclusive
CHECK_DEADLOCK FALSE
