SPECIFICATION SimSpec
CONSTANTS
    processorCount = 3
    Addrs = {0, 2}
    MemAddrs = {0, 1, 2}
    blockSize = 2
    EvictableAddrs = {}
    NULL = NULL
    DRAM_FETCH_TICKS = 5
    CACHE_DELAY = 2
    CACHE_TRANSFER = 2
    MaxQueued = 1
    TraceItems = {"MEM", "BRANCH", "JUNK"}
    MaxOps = 3
INVARIANTS
    CallbackFindsAccess
    WaitingAccessHasMiss
    OneAccessPerProcessor
    HaltedIsDone
PROPERTIES
    Terminates
    AccessOwnsLine
CHECK_DEADLOCK FALSE
