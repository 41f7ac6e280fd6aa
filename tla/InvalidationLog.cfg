SPECIFICATION Spec
CONSTANTS
    Nodes = {n1, n2}
    Keys = {k1, k2}
    None = None
    CounterBound = 3
    SentBound = 2
SYMMETRY LogSymmetry
INVARIANTS
    LogShowsLatest
    StaleIfInvalidatedAfter
    FreshIfInvalidatedBefore
