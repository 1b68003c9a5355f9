SPECIFICATION CoherSpec
CONSTANTS
    processorCount = 2
    Addrs = {a1}
    EvictableAddrs = {a1}
    NULL = NULL
    DRAM_FETCH_TICKS = 3
    CACHE_DELAY = 1
    CACHE_TRANSFER = 1
    MaxQueued = 1
INVARIANT
    FlushIsComing
