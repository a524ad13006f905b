SPECIFICATION FairSpec
CONSTANTS
    s1 = s1
    s2 = s2
    Broken = Broken
    Empty = Empty
    Sessions <- OneSession
    MaxInc = 2
    MaxFaults = 1
    MaxOps = 1
    MaxStops = 3
    MaxLines = 2
    MaxAttempts = 2
    MaxRounds = 1
    LookupFails = FALSE
    SlowCancel = FALSE
    CutWrites = FALSE
PROPERTY StopFinishes
CHECK_DEADLOCK FALSE
