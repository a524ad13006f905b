SPECIFICATION FairSpec
CONSTANTS
  m1 = m1
  prep = prep
  abort = abort
  cancel = cancel
  down = down
  e1 = e1
  e2 = e2
  NoFence = NoFence
  Cmds = {down, abort, prep}
  PrepareCmds = {prep}
  DrainCmds = {abort}
  CancelCmds = {}
  ShutdownCmds = {down}
  Evictors = {e1, e2}
  MaxEpoch = 0
INVARIANTS RestartIsExclusive LatchCounts
PROPERTIES WaitersGetOn
CHECK_DEADLOCK FALSE
