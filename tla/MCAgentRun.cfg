SPECIFICATION AgentFairSpec
CONSTANTS
    Defs <- MCDefs
    MaxRuns = 2
    MaxCalls = 2
    MaxRetries = 1
    KeepPrefix = 2
    KeepRecent = 1
    Threshold = 6
    Ceiling = 8
INVARIANTS
    RequestsPaired
    CancelBoundsWork
PROPERTIES
    CompactionSound
    RunEnds
CHECK_DEADLOCK FALSE
