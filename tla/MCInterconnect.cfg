SPECIFICATION FairSpec
CONSTANTS
    processorCount = 3
    Addrs = {a1}
    NULL = NULL
    DRAM_FETCH_TICKS = 5
    CACHE_DELAY = 2
    CACHE_TRANSFER = 2
    MaxQueued = 1
INVARIANTS
    BusBusyIffCounting
    BusInv
    MemoryServesBus
    MemoryFreeWhenAsked
    OneSource
    ServedInTurn
PROPERTIES
    PendingAnswered
    ServedUnlessOvertaken
