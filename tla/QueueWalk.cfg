SPECIFICATION FairSpec
CONSTANTS
    w1 = w1
    Walkers = {w1}
    Queries <- MCQueries
    MaxLimit = 2
    MaxWithPayload = 1
    MaxId = 4
    MaxFailures = 1
INVARIANTS TypeOK WalkExact TotalTruthful
PROPERTIES WalkEnds EveryRowDrains
