SPECIFICATION FairSpec
CONSTANTS
    Registered <- TwoScenarios
    Refs <- NoRefs
    Profile <- RampUpAndHold
    VUQuota = 2
    IterationQuota = 2
    Limited = TRUE
    Graceful = 2
    Lead = 1
    Requotas = {1}
    Ramps = {0, 2}
    MaxRequotas = 2
    MaxVUs = 3
    LastTick = 4
INVARIANTS PoolWithinQuota TeardownLast StopsHaveDeadlines BudgetOvershootBounded
PROPERTIES EasesFromCurrent RunReturns
CHECK_DEADLOCK FALSE
