SPECIFICATION FairRingSpec
CONSTANTS
    Producers = {p1, p2, p3}
    Capacity = 2
    MaxCalls = 2
    None = None
INVARIANTS
    SlotsAreExclusive
PROPERTIES
    RejectedOnlyWhenFull
    ImplementsFifo
    ClaimedIsPopped
CHECK_DEADLOCK FALSE
