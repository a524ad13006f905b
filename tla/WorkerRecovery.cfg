SPECIFICATION Spec
CONSTANTS
    s1 = s1
    s2 = s2
    Broken = Broken
    Empty = Empty
    Sessions <- OneSession
    MaxInc = 2
    MaxFaults = 2
    MaxOps = 2
    MaxStops = 3
    MaxLines = 2
    MaxAttempts = 2
    MaxRounds = 1
    LookupFails = TRUE
    SlowCancel = FALSE
    CutWrites = FALSE
INVARIANTS TypeOK CleanupOnlyWhenDead NoStray NoSilentLoss
CHECK_DEADLOCK FALSE
