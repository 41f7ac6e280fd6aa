SPECIFICATION Spec
CONSTANTS
    Threads = {t1}
    Resetters = {}
    Inputs = {0, 2}
    Mix <- MCMix
    Threshold = 2
    AgePeriod = 4
    NotedBound = 4
    Width = 2
    Depth = 2
    Word = 4
    Golden = 5
    CounterMax = 5
    TotalMax = 10
INVARIANT NothingIsLostAlone
