SPECIFICATION Spec
CONSTANTS
    raw = raw
    bench = bench
    head = head
    Button <- MCButton
    Root = head
    PriorityByte <- MCPriorityByte
    ServerPriority = 17
    WaiterPriority = 7
    Capacity = 1000
    InRemoval = FALSE
    BeforeSuspend = FALSE
    Repeat = TRUE
    MaxQueue = 6
INVARIANT BodyOwnsMutex
CHECK_DEADLOCK FALSE
