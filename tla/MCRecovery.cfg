SPECIFICATION Spec
CONSTANTS
    Key = {1, 2, 3}
    Buckets = {0, 1}
    Cells = {0, 1, 2}
    Home <- SpreadHome
    Tag <- NumberedTag
    Alt <- FlipPair
    CellsOf <- NeighbourCells
    Places = 1
    MaxKicks = 3
    WalkBackoff = 1
    SpentMax = 2
    AllUnits = 9
    Policies = {FALSE, TRUE}
    MaxTime = 1
    Spends = {3}
    MaxDelay = 1
    Lag = 1
INVARIANTS
    NoDebtLost
    RoomIsEnough
    NoSpreading
    ExactWhileItFits
