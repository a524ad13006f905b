SPECIFICATION Spec
CONSTANTS
  s1 = s1
  s2 = s2
  t1 = t1
  NoOne = NoOne
  Procs = {s1, s2, t1}
  Supervisors = {s1, s2}
  Tools = {t1}
  Conflict <- AllConflict
  Recycled = {s1}
  StealBeforeSample = FALSE
  InodeReuse = FALSE
INVARIANTS MutualExclusion OwnerRecordOnDisk
PROPERTY RenewCertifies
CHECK_DEADLOCK FALSE
