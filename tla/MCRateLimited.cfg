SPECIFICATION Spec
CONSTANTS
    V4Bits = 2
    V6Bits = 4
    MappedPrefix = 1
    V6Subnet = 3
    LongValue = 4
    Period = 3
    DefaultLimit = 1
    MaxRate = 5
    Resolve <- ResolveTiers
    Task = {t1}
    Services <- SomeServices
    Second = 2
    MaxSfInteger = 99
    Costs = {1}
    MaxTime = 3
INVARIANTS
    OneAllowanceEach
    PromisesKept
