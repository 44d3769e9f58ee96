\* Saving and loading: two ticks to the second, every order of two entries,
\* keys and values that are empty or not, deadlines before, during and after
\* the load, on the same machine or after a reboot.  The checks of the header,
\* which no file passes (see MCSnapshotLoads.cfg), are left out.
SPECIFICATION Spec
CONSTANTS
    Keys <- MCKeys
    Values <- MCValues
    ShardId = 1
    TicksPerSec = 2
    Starts = {1, 2}
    MaxWall = 5
    CheckHeader = FALSE
    None = None
\* A server that has loaded its data is the matter of the module Shard.
CHECK_DEADLOCK FALSE
INVARIANTS
    TypeOK
    HeaderFieldsKept
    LoadKeepsDeadlines
    LoadReadsToTheEnd
    LoadQueuesDeadlines
PROPERTY NothingComesBack
