SPECIFICATION Spec
CONSTANTS
    WorkerCount = 1
    MaxStarts = 2
    Quota = 1
    Requote = {2}
    Slot = {"s1"}
    Stopper = {"x"}
    Trouble = {"stop", "quota", "spawn", "build", "engine", "crash", "stream", "queue"}
    MaxUpsets = 1
INVARIANTS StartedOnce HostRunsOneRun StopEndsRun
CHECK_DEADLOCK FALSE
