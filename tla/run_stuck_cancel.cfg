SPECIFICATION FairSpec
CONSTANTS
    Kinds = {"cancel"}
    Requests = {r1}
    MaxLoops = 1
    MaxLaps = 1
    MaxStops = 0
    MAX_REVIEW_RETRIES = 1
    MAX_NO_DECISION = 1
    FailingWrites = {}
CHECK_DEADLOCK FALSE
PROPERTY CancellingSettles
