SPECIFICATION Spec
CONSTANTS
    f1 = f1
    f2 = f2
    n1 = n1
    n2 = n2
    User = User
    Files = {f1, f2}
    Nodes = {n1, n2}
    Writes <- OwnFiles
    Directors = {d1}
    Restarts = {r1}
    Quick = FALSE
    IOMayFail = FALSE
    MaxVersions = 3
    MaxStops = 1
INVARIANTS
    NothingHalfDone
    Kept
    StepsBuildOn
CHECK_DEADLOCK FALSE
