SPECIFICATION GateSpec
CONSTANTS
    c1 = c1
    c2 = c2
    bash = bash
    edit = edit
    Calls = {c1, c2}
    Tools = {bash, edit}
    ToolOf <- MCToolOf
    TierOf <- MCTierOf
    Modes = {"AlwaysAsk", "Write", "Yolo"}
    GlobalFiles <- MCGlobalFiles
    ProjectFiles <- MCProjectFiles
    NoDecision = NoDecision
INVARIANTS
    GateHonoured
    AllowNeedsOperator
    MemoryFromOperator
    AnswerDecides
PROPERTIES
    EveryCallReturns
CHECK_DEADLOCK FALSE
