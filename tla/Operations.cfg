\* Three surfaces, one at a time: the ledger up to counters of three, three
\* telemetry logs in two processes, and a watched path or channel that changes
\* three times.
CONSTANTS
    Methods = {"call", "list"}
    Latencies = {0, 2}
    CounterLimit = 3
    StreakLimit = 2
    Generations = {1, 2}
    FirstGeneration = 1
    NoFault = NoFault
    Logs = {"a", "b", "c"}
    ProcessOf <- MCProcessOf
    Lengths = {1, 3}
    SnapshotLength = 2
    MaxBytes = 5
    SnapshotEvery = 2
    NoLog = NoLog
    Events <- MCEvents
    Troubles = 1
    Pieces = 2
    SettleTime = 2
    MaxPause = 1
    Releases = {"r0", "r1", "r2"}
    Incumbent = "r0"
    Unpublished = {"r2"}
    Nothing = Nothing
    Changes = 3
SPECIFICATION MCSpec
CHECK_DEADLOCK FALSE
INVARIANTS
    Balanced
    Aggregated
    BoundedRecords
    CountedAreWritten
PROPERTIES
    ArmedIsComplete
    ReplacementNoticed
