SPECIFICATION FairRouterSpec
CONSTANTS
    Partitions = {0}
    MaxOffset = 2
    None = None
    a = a
    b = b
    r1 = r1
    ea = ea
    eb = eb
    Poison = Poison
    Requests = {r1}
    Engines = {ea, eb}
    Payloads <- MCPayloads
    TransitionTargets = {}
    MaxEpoch = 3
    MaxVersion = 7
    Routers = {a, b}
    Disturbances = {"crash", "stop"}
    MaxDisturbances = 2
    CommitMayFail = FALSE
    Log <- PoisonThenRequest
    EngineOf <- MCEngineOf
    MaxParseRetries = 1
    Failures = {}
PROPERTIES
    EveryRequestAnswered
CHECK_DEADLOCK FALSE
