SPECIFICATION Spec
CONSTANTS
    Peers = {p1, p2}
    MaxGeneration = 2
    InboundCapacity = 1
    RekeyAfter = 1
    WindowBits = 2
    MaxNumber = 1
    MaxBacklog = 4
    Overtaking = FALSE
    Carries = {{"outbound"}, {"inbound"}, {"outbound", "inbound"}}
PROPERTIES
    FrameUnderItsOwnLease
CHECK_DEADLOCK FALSE
