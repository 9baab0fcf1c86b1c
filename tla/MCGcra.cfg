SPECIFICATION FairSpec
CONSTANTS
    Thread = {t1, t2}
    Quotas <- SomeQuotas
    MaxTime = 2
    MaxCost = 3
    MaxResets = 1
    MaxSpurious = 1
    WordMax = 65535
    Scale = 8
INVARIANTS
    NoOverAdmit
    IntervalsExact
    AnswersExact
PROPERTIES
    ImplementsAtomic
    EveryCheckReturns
