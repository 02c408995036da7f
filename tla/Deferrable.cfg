SPECIFICATION FairSpec
CONSTANTS
    raw = raw
    bench = bench
    head = head
    Button <- MCButton
    Root = head
    PriorityByte <- MCPriorityByte
    ServerPriority = 17
    WaiterPriority = 7
    Capacity = 1000
    InRemoval = FALSE
    BeforeSuspend = FALSE
    Repeat = FALSE
    MaxQueue = 4
INVARIANTS TypeOK ServerInv QueueIntact RunsOldest NoLostWakeup BodyOwnsMutex Budgeted BoostReturned
PROPERTIES ImplementsFifo ImplementsFairFifo
