SPECIFICATION CatalogSpec
CONSTANTS
    Paths = {"a", "b"}
    Contents = {"v1", "v2"}
    EmptyFile = "empty"
    Readers = {r1, r2}
    Batches <- MCBatches
    Initial <- MCInitial
    Ticks = {1}
    MaxBatches = 1
    MaxScans = 1
    MaxQueries = 2
    NoFile = NoFile
    NoSnapshot = NoSnapshot
    NoEntry = NoEntry
    NoThread = NoThread
SYMMETRY ReaderSymmetry
INVARIANTS SymbolsNeverStale BatchUndoneOrReported SnapshotSettles
CHECK_DEADLOCK FALSE
