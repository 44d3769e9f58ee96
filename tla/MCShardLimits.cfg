\* Limits: a key and a value that are too large, more keys than the shard
\* takes, less memory than two large entries need, deadlines past the last
\* Instant and past the last wall clock time, half seconds.
SPECIFICATION Spec
CONSTANTS
    k1 = k1
    k2 = k2
    k3 = k3
    k4 = k4
    v1 = v1
    v2 = v2
    v3 = v3
    None = None
    Keys = {k1, k2, k3, k4}
    Values = {v1, v2, v3}
    KeyLen <- MCKeyLen
    ValLen <- MCValLen
    EntryOverhead = 1
    MaxKeySize = 2
    MaxValueSize = 4
    MaxKeys = 2
    MaxMemory = 10
    Usize = 32
    Ttls = {1, 2}
    DelArgs <- MCDelOne
    TicksPerSec = 2
    InstantMax = 5
    BootTime = 1
    KeysPerCheck = 2
    MaxNow = 2
    MaxCommands = 4
\* A worker that panicked does nothing any more, and the clock is bounded.
CHECK_DEADLOCK FALSE
INVARIANTS
    TypeOK
    MemoryCoversData
    LimitsHold
PROPERTY AccountKept
