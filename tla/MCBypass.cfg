SPECIFICATION BypassSpec
CONSTANTS
    processorCount = 2
    Addrs = {0, 1, 2}
    MemAddrs = {0, 1, 2}
    blockSize = 1
    EvictableAddrs = {}
    NULL = NULL
    DRAM_FETCH_TICKS = 5
    CACHE_DELAY = 2
    CACHE_TRANSFER = 2
    MaxQueued = 1
    TraceItems = {"MEM"}
    MaxOps = 3
INVARIANT
    ServedInTurn
CHECK_DEADLOCK FALSE
