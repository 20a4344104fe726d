SPECIFICATION FairSpec
CONSTANTS
    Clients = {c1, c2}
    Publishers = {p1}
    MAX_BUFFER = 2
    MaxEvents = 2
INVARIANTS
    Served
    Delivered
PROPERTIES
    CleanedUp
CHECK_DEADLOCK FALSE
