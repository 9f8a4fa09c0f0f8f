SPECIFICATION FairSpec
CONSTANTS
    Compiled = {}
    Variables = {"id", "__iteration"}
    MaxUint32 = 7
    DefaultPause = 2
    DefaultTimeout = 3
    DefaultMaxRedirects = 2
    Files <- AllFiles
    FlagSets <- AllFlags
    Replies <- AllReplies
    NetErrors <- AllNetErrors
    MaxIterations = 2
    MaxClock = 5
INVARIANTS PlanSurvivesTheWire CapturesStayInIteration OnlyWorkIsTimed SamplesAgree
PROPERTIES PacedUnlessCutShort StopIsPrompt
CHECK_DEADLOCK FALSE
