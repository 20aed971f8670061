SPECIFICATION FairRouterSpec
CONSTANTS
    Partitions = {0}
    MaxOffset = 0
    None = None
    a = a
    b = b
    r1 = r1
    ea = ea
    eb = eb
    Poison = Poison
    Requests = {r1}
    Engines = {ea, eb}
    Payloads <- MCPayloads
    TransitionTargets = {}
    MaxEpoch = 2
    MaxVersion = 5
    Routers = {a, b}
    Disturbances = {"rebalance"}
    MaxDisturbances = 1
    CommitMayFail = FALSE
    Log <- OneRequest
    EngineOf <- MCEngineOf
    MaxParseRetries = 1
    Failures = {}
PROPERTIES
    RebalancedRequestAnswered
CHECK_DEADLOCK FALSE
