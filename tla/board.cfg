SPECIFICATION FairSpec
CONSTANTS
    MaxRuns = 2
    Foreign = {1}
    PerRun = 1
    MaxTitle = 1
    MaxCalls = 2
    MaxClicks = 5
    Failing = {"fetch", "restart"}
PROPERTIES
    NewOnesOwn
    CatchesUp
    OnlyItsOwn
CHECK_DEADLOCK FALSE
