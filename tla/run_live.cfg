SPECIFICATION PolledSpec
CONSTANTS
    Kinds = {"get", "resume"}
    Requests = {r1}
    MaxLoops = 2
    MaxLaps = 2
    MaxStops = 1
    MAX_REVIEW_RETRIES = 2
    MAX_NO_DECISION = 2
    FailingWrites = {"checkpoint", "outcome"}
CHECK_DEADLOCK FALSE
PROPERTIES
    EveryLoopEnds
    RunSettles
