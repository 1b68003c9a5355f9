SPECIFICATION TaskSpec
CONSTANTS
    Contexts <- MCContexts
    Graphs <- MCGraphs
    Orders <- MCOrders
    NULL = NULL
INVARIANT
    ReadsBackTasks
PROPERTIES
    EditsKeepLinks
    ImplementsOpStreams
CHECK_DEADLOCK FALSE
