SPECIFICATION HubFairSpec
CONSTANTS
    Emitters = {e1, e2}
    Clients = {"tab"}
    SessionIds = {"s1", "s2"}
    Filter <- MCFilter
    ReplayCapacity = 2
    SubscriberCapacity = 1
    MaxEvents = 4
    MaxConns = 2
    NoSession = NoSession
    NoEmitter = NoEmitter
    NoConn = NoConn
    NoCursor = NoCursor
    NoFrame = NoFrame
INVARIANTS
    StreamAscends
    OnlyEvictedMissed
PROPERTIES
    StreamEnds
CHECK_DEADLOCK FALSE
