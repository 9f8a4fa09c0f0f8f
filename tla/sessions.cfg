SPECIFICATION FairSessionsSpec
CONSTANTS
    Node = {"a1"}
    MaxConn = 3
    MaxStalls = 1
    PromptJoin = TRUE
INVARIANTS NoGhosts ListedAreConnected
 
CHECK_DEADLOCK FALSE
