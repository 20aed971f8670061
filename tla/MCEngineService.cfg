SPECIFICATION FairServiceSpec
CONSTANTS
    r1 = r1
    r2 = r2
    Requests = {r1, r2}
    Partitions = {0}
    PartitionOf <- MCPartitionOf
    MaxEpoch = 2
    MaxAttempt = 3
    Dispatches <- MCDispatches
    QueueCapacity = 2
INVARIANTS
    OneLiveJobPerRequest
    NoAttemptRunsTwice
    DrainedIsIdle
PROPERTIES
    AcceptedIsReported
    DrainTerminates
CHECK_DEADLOCK FALSE
