SPECIFICATION FairSpec
CONSTANTS
    Radix = 256
    raw = raw
    bench = bench
    Stream <- MCStream
    Indexed = raw
    First <- MCFirst
    Size <- MCSize
    Limit <- MCLimit
    End <- MCEnd
    NumReadings = 2
    Value = {v1, v2}
    NoData = noData
    Erased = erased
    Slow = FALSE
INVARIANTS CursorInv RecordsInPart RewindErased MixedWhereMet ReadsLast
PROPERTY TaskEnds
