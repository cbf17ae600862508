SPECIFICATION FairSpec
CONSTANTS
    Threads = {"a", "b", "other"}
    Processes = {"p1", "p2"}
    ProcessOf <- MCProcessOf
    MaxLogins = 2
    MaxRefreshes = 2
    MaxOps = 3
    NoCred = NoCred
    NoThread = NoThread
INVARIANTS
    TokenSpentOnce
    StoredIsCurrent
PROPERTIES
    OperationEnds
CHECK_DEADLOCK FALSE
