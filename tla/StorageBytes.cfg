SPECIFICATION Spec
CONSTANTS
    Radix = 8
    raw = raw
    bench = bench
    Stream <- RawStream
    Indexed = raw
    First <- RawFirst
    Size <- RawSize
    Limit <- RawLimit
    End <- RawEnd
    NumReadings = 2
    Value = {v1}
    NoData = noData
    Erased = erased
    Slow = FALSE
INVARIANT NothingOverwritten
