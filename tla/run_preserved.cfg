SPECIFICATION Spec
CONSTANTS
    Kinds = {"cancel", "resume"}
    Requests = {r1}
    MaxLoops = 3
    MaxLaps = 1
    MaxStops = 0
    MAX_REVIEW_RETRIES = 1
    MAX_NO_DECISION = 1
    FailingWrites = {}
CHECK_DEADLOCK FALSE
INVARIANT PreservedForResume
