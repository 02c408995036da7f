SPECIFICATION FairSpec
CONSTANTS
    raw = raw
    bench = bench
    head = head
    Button <- MCButton
    Root = head
    PriorityByte <- MCPriorityByte
    ServerPriority = 17
    WaiterPriority = 7
    Capacity = 1000
    InRemoval = TRUE
    BeforeSuspend = FALSE
    Repeat = FALSE
    MaxQueue = 4
PROPERTY EveryRequestServed
CHECK_DEADLOCK FALSE
