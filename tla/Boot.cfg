SPECIFICATION FairSpec
CHECK_DEADLOCK FALSE
CONSTANTS
    raw = raw
    bench = bench
    Button = {raw, bench}
    MaxPress = 3
INVARIANTS NothingMissing Configured PressureFresh
PROPERTY PressServed
