\* Two runs of the server, with shutdowns, failing file operations, crashes and
\* power losses.
SPECIFICATION ServerFairSpec
CONSTANTS
    Capacity = 2
    MaxRuns = 2
    MaxWrites = 2
    MaxErrors = 1
    MaxConnections = 1
    MaxWaiting = 1
    None = None
\* The bounded server is down for good in the end.
CHECK_DEADLOCK FALSE
INVARIANTS
    TypeOK
    ServerTypeOK
    SnapIntact
    PipelineOrdered
PROPERTIES
    SnapshotAdvances
    ExitLeavesNoTemp
    EventuallySaved
    ShutdownCompletes
