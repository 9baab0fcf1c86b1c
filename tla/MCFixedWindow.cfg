SPECIFICATION FairSpec
CONSTANTS
    Thread = {t1, t2}
    Quotas <- SomeQuotas
    MinTime = 5
    MaxTime = 7
    MaxCost = 2
    MaxResets = 1
    MaxSpurious = 1
    IndexMod = 3
INVARIANTS
    NoOverAdmit
    AnswersExact
PROPERTIES
    ImplementsAtomic
    EveryCallReturns
