SPECIFICATION Spec
CONSTANTS
    Clients = {c1, c2}
    Publishers = {p1}
    MAX_BUFFER = 2
    MaxEvents = 1
CHECK_DEADLOCK FALSE
INVARIANTS
    OnlyStaleRemoved
