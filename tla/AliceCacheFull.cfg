SPECIFICATION MCSpec
CONSTANTS
    k1 = k1
    k2 = k2
    k3 = k3
    Keys = {k1, k2, k3}
    v1 = v1
    v2 = v2
    Values = {v1, v2}
    NoValue = NoValue
    NoCall = NoCall
    Yes = Yes
    No = No
    Threads = {t1, t2}
    Capacities = {0, 2}
    Requested = 2
    Hash <- MCHash
    DefaultShards = 256
    MaxShards = 4
    MinCapacityPerShard = 32
    StatsBound = 1
    Callers = {t1, t2}
    Capacity = 2
    Room = 1
    Batches <- MCBatches
    MaxCounted = 1
SYMMETRY MCSymmetry
PROPERTY LosesOnlyWhenFull
