SPECIFICATION FairSpec
CONSTANTS
    Radix = 4
    RecordLength = 2
    Value = {v1, v2}
    NoData = noData
    Erased = erased
    Slow = TRUE
    Target <- MCTarget
    Instruction <- MCInstruction
INVARIANTS EraseComplete WriteTakesEffect ReadReturns WriteProtected
PROPERTY CallReturns
