SPECIFICATION Spec
CONSTANTS
    MaxRuns = 2
    MaxLog = 2
    MaxCalls = 2
    Slots = {1, 2}
    MAX_PENDING = 2
    MAX_EVENT_IDS = 6
    MaxDrops = 1
    MaxClicks = 4
    Failing = {}
    Outcomes = {"completed"}
    Keyboard = FALSE
INVARIANTS
    NoRepeat
    OwnEvents
    OneSocket
CHECK_DEADLOCK FALSE
