SPECIFICATION Spec
CONSTANTS
    Kinds = {"resume"}
    Requests = {r1, r2}
    MaxLoops = 3
    MaxLaps = 1
    MaxStops = 0
    MAX_REVIEW_RETRIES = 1
    MAX_NO_DECISION = 1
    FailingWrites = {}
CHECK_DEADLOCK FALSE
PROPERTY ResumeOnlyStopped
