SPECIFICATION FairSpec
CONSTANTS
    WorkerCount = 2
    MaxStarts = 1
    Quota = 2
    Requote = {}
    Slot = {"s1", "s2"}
    Stopper = {"x"}
    Trouble = {"stop", "spawn", "build", "engine", "crash"}
    MaxUpsets = 1
INVARIANT StartedOnce
PROPERTY StartedRunsReported
CHECK_DEADLOCK FALSE
