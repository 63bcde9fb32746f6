SPECIFICATION Spec
CONSTANTS
    Peers = {p1}
    NoPeer = none
    MaxManagers = 2
    InboundIds = {}
    MaxGeneration = 2
    RekeyAfter = 1
    InboundCapacity = 1
    NetworkEvents = {"path_changed", "pre_sleep"}
    MaxNetworkEvents = 1
INVARIANTS
    ClearedAtMostOnce
    OutstandingLeaseIsHeld
CHECK_DEADLOCK FALSE
