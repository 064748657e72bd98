\* Any calls to the in-memory storage, with late timers.
SPECIFICATION StorageSpec
CONSTANTS
    k1 = k1  k2 = k2  None = None
    Keys = {k1, k2}
    Ttls = {1, 3}
    MaxDelay = 3
    LastHit = 3
    MaxTime = 6
    MaxHits = 2
INVARIANTS
    TimersMatchRecords
PROPERTIES
    ImplementsFixedWindow
    RecordsEvicted
