SPECIFICATION MCSpec
CONSTANTS
    DefaultShards = 8
    MaxShards = 16
    MinCapacityPerShard = 4
    CapacitiesAsked <- MCCapacitiesAsked
    ShardsAsked <- MCShardsAsked
    DefaultCapacity = 37
    NoCache = NoCache
    Draws = 8
    Low = 8
    Multiplier = 45
    Precision = 32
    MaxExponent = 8
    Sizes <- MCSizes
    ByteBits = 2
    WordBytes = 2
    Stir <- MCStir
    Salt = 3
    Factor = 5
    Rotation = 1
    Final <- MCFinal
    FnvOffset = 5
    FnvPrime = 11
    Seeds = {0, 11}
    Pieces <- MCPieces
    MaxWrites = 2
    Base = 3
    MinRun = 4
    MinSizes = {0, 3}
    Plain <- MCPlain
    Foreign <- MCForeign
    MaxValues = 1
    c1 = c1
    c2 = c2
    p1 = p1
    p2 = p2
    Caches = {c1, c2}
    Keys = {1, 2}
    Plaintexts = {p1, p2}
    Digest <- MCDigest
    Altered = Altered
    Nothing = Nothing
    MaxCalls = 1
INVARIANT VerifyTellsModified
CHECK_DEADLOCK FALSE
