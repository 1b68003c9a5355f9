SPECIFICATION StallSpec
CONSTANTS
    processorCount = 2
    Addrs = {a1, a2}
    EvictableAddrs = {}
    NULL = NULL
    DRAM_FETCH_TICKS = 5
    CACHE_DELAY = 2
    CACHE_TRANSFER = 2
    MaxQueued = 2
    TraceItems = {"MEM", "BRANCH", "ALU"}
    MaxOps = 3
    STALL_TIME = 12
PROPERTIES
    CompletesWhatWasFetched
    StallsAreReported
CHECK_DEADLOCK FALSE
