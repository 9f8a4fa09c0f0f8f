SPECIFICATION FairSpec
CONSTANTS
    Node = {"w1", "w2"}
    Resolution = 2
    LateGrace = 4
    Capacity = 2
    QueueSize = 1
    MaxLag = 7
    TickLag = 2
    Settle = 3
    Start = 7
    StopBy = 12
    MaxTime = 21
    TimeOut = 14
    Superseded = TRUE
INVARIANTS ChartInOrder RingIsRecent StreamedOnce
PROPERTIES FinalBucketsPublished ReportLacksOnlyTheTail
CHECK_DEADLOCK FALSE
