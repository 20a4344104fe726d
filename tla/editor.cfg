SPECIFICATION FairSpec
CONSTANTS
    Workflows = {1, 2}
    MaxMade = 2
    MaxCalls = 2
    MaxVisits = 2
    MaxClicks = 2
    Failing = {"load", "runs", "trigger", "refresh"}
    InOrder = TRUE
INVARIANTS
    OwnPlan
    NeverApart
PROPERTIES
    Converges
CHECK_DEADLOCK FALSE
