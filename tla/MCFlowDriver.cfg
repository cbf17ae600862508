SPECIFICATION FairSpec
CONSTANTS
    N = 3
    Strategies = {"pipeline", "parallel"}
    Needed = 2
    Writers = {1, 2}
    Concurrency = 2
    MaxWorkers = 2
    Limit = 1
    Costs = {0, 1}
    Steers = {s1, s2}
    NoUsage = NoUsage
    NoNode = NoNode
INVARIANTS
    SlotsExact
    SessionsOwned
    SilentBrake
    DispatchedNodeFolds
PROPERTIES
    FlowEnds
CHECK_DEADLOCK FALSE
