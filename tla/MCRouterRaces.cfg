SPECIFICATION RouterSpec
CONSTANTS
    Partitions = {0}
    MaxOffset = 1
    None = None
    a = a
    b = b
    r1 = r1
    ea = ea
    eb = eb
    Poison = Poison
    Requests = {r1}
    Engines = {ea, eb}
    Payloads <- MCPayloads
    TransitionTargets = {}
    MaxEpoch = 3
    MaxVersion = 8
    Routers = {a, b}
    Disturbances = {"rebalance", "expire", "crash", "stop"}
    MaxDisturbances = 2
    CommitMayFail = FALSE
    Log <- OneRequest
    EngineOf <- MCEngineOf
    MaxParseRetries = 1
    Failures = {"dispatch", "publish"}
INVARIANTS
    CommittedWasPublished
    FencesAreExclusive
    ResultIsOfCurrentAttempt
SYMMETRY MCSymmetry
CHECK_DEADLOCK FALSE
