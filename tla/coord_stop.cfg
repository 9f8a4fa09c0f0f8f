SPECIFICATION FairSpec
CONSTANTS
    Agent = {1}
    Fleet = {1}
    Slot = {"p1"}
    Weight <- EqualWeights
    MaxRuns = 1
    Peak = 1
    ScaledPeaks = {2}
    Outcomes = {"pass", "abort"}
    QueueSize = 2
    ReportQueue = 1
    StopLimit = 2
    MaxRunHistory = 2
    Budget <- StopsAndLosses
PROPERTY StopTerminates
