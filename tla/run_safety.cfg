SPECIFICATION Spec
CONSTANTS
    Kinds = {"cancel", "get"}
    Requests = {r1, r2}
    MaxLoops = 2
    MaxLaps = 2
    MaxStops = 1
    MAX_REVIEW_RETRIES = 2
    MAX_NO_DECISION = 2
    FailingWrites = {"checkpoint", "outcome", "recovery"}
CHECK_DEADLOCK FALSE
SYMMETRY RequestSymmetry
INVARIANTS
    ReviewGate
    CancelBound
    NoInventedOutcome
PROPERTIES
    CheckpointMonotone
    RefinesActivation
