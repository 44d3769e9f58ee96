\* Time: deadlines, stale heap elements, lazy and active expiry, and the
\* abstract store.  Limits are out of reach; a deadline may overflow.
SPECIFICATION FairSpec
CONSTANTS
    k1 = k1
    k2 = k2
    k3 = k3
    k4 = k4
    v1 = v1
    v2 = v2
    v3 = v3
    None = None
    Keys = {k1, k2}
    Values = {v1}
    KeyLen <- MCSameKeyLen
    ValLen <- MCSameValLen
    EntryOverhead = 1
    MaxKeySize = 2
    MaxValueSize = 2
    MaxKeys = 3
    MaxMemory = 20
    Usize = 64
    Ttls = {0, 1, 2}
    DelArgs <- MCDelPairs
    TicksPerSec = 1
    InstantMax = 4
    BootTime = 1
    KeysPerCheck = 1
    MaxNow = 3
    MaxCommands = 4
\* A worker that panicked does nothing any more, and the clock is bounded.
CHECK_DEADLOCK FALSE
INVARIANTS
    HeapCoversExpiry
    KeyCountExact
PROPERTIES
    NoPrematureExpiry
    ExpiryCounted
    ImplementsStore
    ExpiredEventuallyRemoved
