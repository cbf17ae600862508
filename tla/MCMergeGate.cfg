SPECIFICATION Spec
CONSTANTS
  Runs = {r1, r2}
  LegacyRuns = {r2}
  Jobs = {j1}
  Daemons = {d1}
  Specs <- MCSpecs
  Planes <- MCPlanes
  Requests <- MCRequests
  Filters <- MCFilters
  DaemonTier = 1
  Floors = {0, 2}
  MaxEdits = 1
INVARIANTS VerdictMatchesAttempts ClearedIsEarned
