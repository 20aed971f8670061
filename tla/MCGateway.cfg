SPECIFICATION GatewaySpec
CONSTANTS
    Requests = {1, 2, 3}
    Capacity = 2
    MaxRows = 3
    MaxFaults = 2
    Limit = 2
    Faults = {"timeout", "give_up", "refuse", "crash", "buffer", "lose", "restart"}
INVARIANTS
    MarksFollowAcks
    SlotsAreCounted
PROPERTIES
    ViewsNeverGoBack
    AcknowledgedIsAnswered
CHECK_DEADLOCK FALSE
