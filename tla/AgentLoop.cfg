SPECIFICATION FairSpec
CONSTANTS
    m1 = m1
    m2 = m2
    m3 = m3
    Batches <- PairAndOne
    Custom <- OneCustom
    Mode = "one-at-a-time"
    ToolModes = {FALSE, TRUE}
    ListenerThrows = TRUE
    MaxRuns = 2
    MaxToolTurns = 1
    MaxCalls = 2
INVARIANTS TypeOK RequestsComplete NothingLost DeliveredInOrder
PROPERTY AbortEndsRun
