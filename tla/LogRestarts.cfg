SPECIFICATION Spec
CONSTANTS
  p1 = p1
  p2 = p2
  r1 = r1
  r2 = r2
  r3 = r3
  r4 = r4
  Meta = Meta
  Broken = Broken
  Empty = Empty
  Procs = {p1, p2}
  Records = {r1, r2, r3, r4}
  Overlap = FALSE
  MaxCuts = 2
SYMMETRY Interchangeable
INVARIANTS StaysReadable AppendedStay
CHECK_DEADLOCK FALSE
