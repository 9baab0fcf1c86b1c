SPECIFICATION Spec
CONSTANTS
    Key = {1, 2, 3, 4}
    Buckets = {0, 1}
    Cells = {0, 1}
    Home <- SpreadHome
    Tag <- NumberedTag
    Alt <- FlipPair
    CellsOf <- TwoCells
    Places = 1
    MaxKicks = 2
    WalkBackoff = 1
    SpentMax = 3
    AllUnits = 9
    Policies = {FALSE}
    Thread = {t1, t2}
    ClockScan = 2
    TtlSweep = 1
    RetainChunk = 1
    Setups <- AllSetups
SYMMETRY AnyThread
INVARIANTS
    TypeOK
    
    HintNeverEarly
    RefusalHonest
    CountersBalance
