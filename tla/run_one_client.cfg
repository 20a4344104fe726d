SPECIFICATION Spec
CONSTANTS
    Kinds = {"cancel", "resume"}
    Requests = {r1}
    MaxLoops = 3
    MaxLaps = 1
    MaxStops = 1
    MAX_REVIEW_RETRIES = 1
    MAX_NO_DECISION = 1
    FailingWrites = {"checkpoint", "outcome", "recovery"}
INVARIANTS
    OneDispatcher
    TerminalMeansStopped
CHECK_DEADLOCK FALSE
