SPECIFICATION MCSpec
CONSTANTS
    Width = 2
    Depth = 2
    Word = 4
    Golden = 5
    CounterMax = 5
    TotalMax = 14
    Counts = {1, 2}
    Inputs = {0, 1, 2}
    Mix <- MCMix
    Threshold = 3
    AgePeriod = 4
INVARIANTS
    NeverUnderestimates
    ErrorOnlyFromSharing
    RowsAgree
    KnowsTransitions
    AdviceIsEarned
