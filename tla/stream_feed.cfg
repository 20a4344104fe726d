SPECIFICATION Spec
CONSTANTS
    Clients = {c1}
    Publishers = {p1}
    MAX_BUFFER = 2
    MaxEvents = 7
CHECK_DEADLOCK FALSE
PROPERTIES
    RefinesFeed
