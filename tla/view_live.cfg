SPECIFICATION FairSpec
CONSTANTS
    MaxRuns = 2
    MaxLog = 3
    MaxCalls = 1
    Slots = {1, 2}
    MAX_PENDING = 2
    MAX_EVENT_IDS = 6
    MaxDrops = 1
    MaxClicks = 4
    Failing = {"poll", "cancel"}
    Outcomes = {"completed"}
    Keyboard = FALSE
CHECK_DEADLOCK FALSE
PROPERTY Settles
