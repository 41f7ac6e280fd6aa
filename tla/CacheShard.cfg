SPECIFICATION Spec
CONSTANTS
    k1 = k1
    k2 = k2
    k3 = k3
    k4 = k4
    v1 = v1
    v2 = v2
    Keys = {k1, k2, k3, k4}
    Values = {v1, v2}
    Hash <- MCHash
    Absent = Absent
    Capacities = {0, 1, 3}
    IdxSpace = 4
    AgePeriod = 3
    Samples = 2
    Width = 2
    Depth = 2
    Word = 4
    Golden = 5
    CounterMax = 2
    TotalMax = 20
SYMMETRY ValueSymmetry
INVARIANTS
    SlabMatchesLookup
    HashFollowsKey
    WithinCapacity
    AgingKeepsUp
PROPERTY ImplementsLossyMap
