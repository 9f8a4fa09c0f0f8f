SPECIFICATION LiveSpec
CONSTANTS
    Node = {"w1"}
    Resolution = 2
    LateGrace = 2
    Capacity = 2
    QueueSize = 2
    MaxLag = 5
    TickLag = 2
    Settle = 1
    Start = 4
    StopBy = 9
    MaxTime = 13
    TimeOut = 15
    Superseded = TRUE
    SubscriberBuffer = 2
    MaxTicks = 3
    MaxConnects = 2
    MaxFetches = 1
INVARIANTS ChartHasNoGap
CHECK_DEADLOCK FALSE
