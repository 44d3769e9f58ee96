\* Expected to fail: see the findings in README.md.
SPECIFICATION Spec
CONSTANTS
    Keys <- MCKeys
    Values <- MCValues
    ShardId = 1
    TicksPerSec = 2
    Starts = {1, 2}
    MaxWall = 5
    CheckHeader = TRUE
    None = None
\* A server that has loaded its data is the matter of the module Shard.
CHECK_DEADLOCK FALSE
INVARIANT SnapshotLoads
