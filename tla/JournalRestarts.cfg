SPECIFICATION Spec
CONSTANTS
  k1 = k1
  k2 = k2
  k3 = k3
  Broken = Broken
  Empty = Empty
  Keys = {k1, k2, k3}
  CompactAfter = 4
  MaxCrashes = 2
  LaterCrashes = FALSE
INVARIANTS TypeOK ResultsKept NoSecondStart
PROPERTY ImplementsReceipts
CHECK_DEADLOCK FALSE
