SPECIFICATION Spec
CONSTANTS
    MaxRuns = 1
    MaxLog = 4
    MaxCalls = 2
    Slots = {1, 2}
    MAX_PENDING = 2
    MAX_EVENT_IDS = 6
    MaxDrops = 1
    MaxClicks = 4
    Failing = {}
    Outcomes = {"completed"}
    Keyboard = FALSE
CHECK_DEADLOCK FALSE
INVARIANT InOrder
