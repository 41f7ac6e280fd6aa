SPECIFICATION Spec
CONSTANTS
    Threads = {t1, t2}
    Resetters = {t1}
    Inputs = {0, 2}
    Mix <- MCMix
    Threshold = 3
    AgePeriod = 2
    NotedBound = 3
    Width = 2
    Depth = 2
    Word = 4
    Golden = 5
    CounterMax = 3
    TotalMax = 10
INVARIANTS
    PrefetchIsJustified
    CreditIsKept
    AgingKeepsUp
    ResetForgets
PROPERTY LockFree
