SPECIFICATION ClientSpec
CONSTANTS
    Partitions = {0}
    MaxOffset = 1
    None = None
    Routers = {a, b}
    Disturbances = {"rebalance", "expire", "crash", "stop"}
    MaxDisturbances = 2
    CommitMayFail = TRUE
INVARIANTS
    CommittedWasMarked
SYMMETRY MCSymmetry
CHECK_DEADLOCK FALSE
