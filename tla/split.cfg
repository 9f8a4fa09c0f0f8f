SPECIFICATION SplitSpec
CONSTANTS
    Fleet = {0, 1, 2}
    MaxWeight = 3
    MaxWorkers = 2
    MaxTotal = 4
    MaxCount = 3
INVARIANT DividedFairly
