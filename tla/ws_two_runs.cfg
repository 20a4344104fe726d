SPECIFICATION Spec
CONSTANTS
    f1 = f1
    f2 = f2
    n1 = n1
    n2 = n2
    User = User
    Files = {f1}
    Nodes = {n1}
    Writes <- OneNode
    Directors = {d1, d2}
    Restarts = {}
    Quick = FALSE
    IOMayFail = FALSE
    MaxVersions = 1
    MaxStops = 0
CHECK_DEADLOCK FALSE
INVARIANT NothingHalfDone
