SPECIFICATION Spec
CONSTANTS
    Agent = {1, 2}
    Fleet = {1, 2}
    Slot = {"p1"}
    Weight <- UnequalWeights
    MaxRuns = 1
    Peak = 5
    ScaledPeaks = {}
    Outcomes = {"pass"}
    QueueSize = 1
    ReportQueue = 1
    StopLimit = 2
    MaxRunHistory = 2
    Budget <- Churn
INVARIANTS CompletedWitnessed IdBlocksDisjointIfFixed
PROPERTY VerdictFinal
