SPECIFICATION Spec
CONSTANTS
    Limits = {0, 2, 3}
    Periods = {0, 2, 5}
    Bursts = {0, 1, 9}
    ShardCounts = {0, 3, 9}
    Capacities = {0, 9, 37}
    Ttls = {1, 7}
    Options = {none, some}
    NoOptions = none
    DefaultMaxKeys = 9
    Parallelism = 1
    MaxDefaultShards = 4
    MaxShards = 8
    MaxKeysPerShard = 4
    MaxSlots = 64
    MaxLogLimit = 2
    BucketRecords = 4
    ExactPerKey = 2
    CellsPerKey = 4
    MinBuckets = 2
    MaxBuckets = 8
    MinCells = 8
    MaxCells = 16
    TicksPerMs = 2
INVARIANTS
    ValidationExact
    ExpiredIsWhole
    SizedForCap
    BuiltAsAsked
CHECK_DEADLOCK FALSE
