SPECIFICATION Spec
CONSTANTS
    Thread = {t1, t2}
    Quotas <- SomeQuotas
    MaxTime = 3
    MaxCost = 3
    MaxResets = 1
SYMMETRY Symmetric
INVARIANTS
    RollingBound
    LogOrdered
    AnswersExact
PROPERTIES
    UpkeepInvisible
