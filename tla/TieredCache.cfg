SPECIFICATION Spec
CONSTANTS
    Keys = {1, 2, 3, 4}
    v1 = v1
    v2 = v2
    Values = {v1, v2}
    NoValue = NoValue
    HotCapacities = {0, 1, 2}
    WarmCapacities = {0, 1, 2}
    Thresholds = {0, 3}
    CountMax = 3
    MoveBound = 4
SYMMETRY ValueSymmetry
INVARIANTS
    OneFreshCopy
    TiersBounded
    DemotionsAccounted
    NoneOverdue
PROPERTY LosesOnlyByEviction
