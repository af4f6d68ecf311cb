SPECIFICATION SuiteSpec
CONSTANTS
    Procs = {p1, p2}
    Calls <- AllCalls
    MaxOps = 2
    Limit = 2
    Size = 2
    MaxIn = 3
    MaxResets = 1
    DmaMayFail = TRUE
INVARIANTS Accounted NothingAfterDisconnect UnitsInOrder
PROPERTIES CallsEnd
CHECK_DEADLOCK FALSE
