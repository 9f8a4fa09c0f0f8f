SPECIFICATION Spec
CONSTANTS
    Hash <- CollidingHash
    Unit = 2
    Bounds <- SomeBounds
    Lowest = 2
    Highest = 4
    StoreSeries = 7
    MaxChartedEndpoints = 1
    StoreFailureKinds = 1
    Node = {"w1", "w2"}
    VU = {"v1", "v2", "v3"}
    Host <- TwoWorkers
    Scenario <- TwoScenarios
    Hint <- Spread
    Shards = 2
    TrendShards = 1
    MaxSeries = 4
    MaxFailureKinds = 1
    QueueSize = 1
    Work <- SomeRequests
    VUReadings = {1}
    MaxReadings <- OneOnSecond
    MaxFlushes <- OneOnFirst
    Thresholds <- SomeThresholds
INVARIANTS SamplesConserved ReportsAgree VerdictOfAllSamples LossIsSurfaced
CHECK_DEADLOCK FALSE
