SPECIFICATION Spec
CONSTANTS
    Procs = {p1, p2}
    Calls = {"write"}
    MaxOps = 1
    Limit = 2
    Size = 1
    MaxIn = 1
    MaxResets = 0
    DmaMayFail = FALSE
INVARIANTS OwnBuffer
CHECK_DEADLOCK FALSE
