SPECIFICATION FairMainSpec
CONSTANTS
    i1 = i1
    i2 = i2
    e = e
    Incarnations = {i1, i2}
    EngineIds = {e}
    EngineIdOf <- MCEngineIdOf
    LeaseTtl = 5
    RegisterTries = 2
    MaxLosses = 1
    MaxStrays = 1
    Listens <- MCListens
    Demos = {"default", "overlap", "retry"}
    DemoRequests = {0}
INVARIANTS
    LeaseOutlivesHeartbeats
    StaleIsFenced
PROPERTIES
    SupersededStaysOut
    ReturnedWasHeard
    OnlyDrainHoldsMain
CHECK_DEADLOCK FALSE
