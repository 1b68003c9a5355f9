SPECIFICATION CoherSpec
CONSTANTS
    processorCount = 2
    Addrs = {a1, a2}
    EvictableAddrs = {a1, a2}
    NULL = NULL
    DRAM_FETCH_TICKS = 5
    CACHE_DELAY = 2
    CACHE_TRANSFER = 2
    MaxQueued = 2
INVARIANTS
    CoherTypeOK
    SingleWriter
    CoherInv
    OneRequestPerMiss
    AnswerFits
    FlushesAreAwaited
    SnoopedMissIsExclusive
PROPERTIES
    MissOnBusCompletes
    ImplementsOwnership
    UsesBusAsSpecified
