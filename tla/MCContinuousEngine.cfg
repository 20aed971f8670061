SPECIFICATION EngineSpec
CONSTANTS
    x = x
    y = y
    k1 = k1
    k2 = k2
    k3 = k3
    Requests = {1, 2, 3}
    Shapes <- MCShapes
    BlockSize = 2
    BlockCount = 4
    NodeCapacity = 2
    MaxBatchSequences = 3
    MaxBatchTokens = 5
    MaxPrefills = 2
    ResultCapacity = 1
INVARIANTS
    CachesAreConsistent
    BlocksHoldTheirPrefix
    RequestsAreConserved
    ActiveOwnTheirBlocks
PROPERTIES
    EverySubmittedFinishes
