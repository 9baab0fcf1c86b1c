SPECIFICATION FairSpec
CONSTANTS
    Waiter = {w1, w2}
    Limit = 2
    Interval = 2
    Requests = {1, 2, 3}
    Budgets <- SomeBudgets
    MaxJitter = 1
INVARIANTS
    BudgetKept
    SleepsOnceUndisturbed
PROPERTIES
    WaitReturns
