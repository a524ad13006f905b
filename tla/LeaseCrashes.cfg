SPECIFICATION Spec
CONSTANTS
  p1 = p1
  p2 = p2
  p3 = p3
  p4 = p4
  NoOne = NoOne
  Torn = Torn
  Procs = {p1, p2, p3, p4}
  Recycled = {p4}
  GuardTheft = FALSE
SYMMETRY Interchangeable
INVARIANTS LeaseExclusive NeverExhausted
CHECK_DEADLOCK FALSE
