SPECIFICATION FairSpec
CONSTANTS
    capacity = capacity
    delay = delay
    period = period
    NoTimer = none
    Timer <- MCTimers
    Periodic <- MCPeriodic
    TickMax = 7
    Time = {1, 2}
INVARIANTS Punctual EarlyFirst FlagTrue
PROPERTY InterruptEnds
