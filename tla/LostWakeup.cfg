SPECIFICATION Spec
CONSTANTS
    raw = raw
    bench = bench
    head = head
    Button <- MCButton
    Root = head
    PriorityByte <- MCPriorityByte
    ServerPriority = 17
    WaiterPriority = 7
    Capacity = 1000
    InRemoval = FALSE
    BeforeSuspend = TRUE
    Repeat = FALSE
    MaxQueue = 4
INVARIANT NoLostWakeup
