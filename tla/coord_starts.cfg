SPECIFICATION Spec
CONSTANTS
    Agent = {1}
    Fleet = {1}
    Slot = {"p1", "p2"}
    Weight <- EqualWeights
    MaxRuns = 3
    Peak = 1
    ScaledPeaks = {}
    Outcomes = {"pass", "breach"}
    QueueSize = 2
    ReportQueue = 1
    StopLimit = 2
    MaxRunHistory = 2
    Budget <- FixedFleet
INVARIANTS TypeOK OneLiveRun HistoryBounded
PROPERTY ImplementsLedger
