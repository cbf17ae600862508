SPECIFICATION WechatFairSpec
CONSTANTS
    Bridges = {"b1", "b2"}
    MaxMsgs = 4
    KindOf <- MCKindOf
    Anonymous = {4}
    Redeliver = 1
    SEEN_CAP = 1
    MAX_CONSECUTIVE_ERRORS = 1
    NoBridge = NoBridge
INVARIANTS
    HandledOnce
PROPERTIES
    StopEnds
CHECK_DEADLOCK FALSE
