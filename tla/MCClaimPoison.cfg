SPECIFICATION FairRouterSpec
CONSTANTS
    Partitions = {0}
    MaxOffset = 1
    None = None
    a = a
    b = b
    r1 = r1
    ea = ea
    eb = eb
    Poison = Poison
    Requests = {r1}
    Engines = {ea, eb}
    Payloads <- MCPayloads
    TransitionTargets = {}
    MaxEpoch = 1
    MaxVersion = 3
    Routers = {a}
    Disturbances = {}
    MaxDisturbances = 0
    CommitMayFail = FALSE
    Log <- PoisonThenRequest
    EngineOf <- MCEngineOf
    MaxParseRetries = 3
    Failures = {}
PROPERTIES
    PoisonIsRecorded
CHECK_DEADLOCK FALSE
