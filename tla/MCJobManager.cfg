SPECIFICATION FairSpec
CONSTANTS
    Results = {"ok", "cancelled", "error"}
    ClientIds <- MCClientIds
    MaxRuns = 3
    TERMINAL_RETAINED = 1
INVARIANTS
    RunOwnsRecord
    RetentionExact
PROPERTIES
    ImplementsService
    EveryRunSettles
CHECK_DEADLOCK FALSE
