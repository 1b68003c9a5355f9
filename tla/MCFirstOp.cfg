SPECIFICATION TaskSpec
CONSTANTS
    Contexts <- MCContexts
    Graphs <- MCGraphs
    Orders <- MCOrders
    NULL = NULL
INVARIANT
    YieldsMemOps
CHECK_DEADLOCK FALSE
