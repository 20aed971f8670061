SPECIFICATION StaticSpec
CONSTANTS
    x = x
    y = y
    z = z
    Requests = {1, 2, 3, 4}
    Shapes <- MCShapes
    BlockSize = 2
    BlockCount = 3
    PrefixCapacity = 1
    MaxBatchSequences = 2
    MaxBatchTokens = 6
    ResultCapacity = 1
    MaxTime = 1
INVARIANTS
    PrefixesStayValid
    AnsweredOrPending
PROPERTIES
    GivesUpForPinsOnly
    RunUntilIdleReturns
