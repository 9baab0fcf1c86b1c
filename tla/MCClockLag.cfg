SPECIFICATION Spec
CONSTANTS
    Thread = {t1, t2}
    Ticker = ticker
    RefreshAfters = {1}
    ReadsPerRefresh = 2
    MaxSpurious = 1
    Counts = {0, 1, 2}
    Interval = 3
    NoteLag = 1
    MaxNoted = 4
    Ttls = {3, 4}
    Lags = {0, 1, 3}
    TicksPerMs = 2
    Sweeper = {t1}
    Key = {a, b, c}
    ShardOf <- TwoShards
    MaxInserts = 3
    ClockTime = 2
    WarnTime = 6
    StampTime = 12
    SweepTime = 1
INVARIANTS
    RefreshedWhenDue
CHECK_DEADLOCK FALSE
