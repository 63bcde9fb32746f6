SPECIFICATION MCSpec
CONSTANTS
    Peers = {p1, p2}
    NoPeer = none
    MaxGeneration = 2
    InboundCapacity = 1
    RekeyAfter = 1
    WindowBits = 2
    MaxNumber = 1
    MaxBacklog = 2
    Overtaking = TRUE
    Carries <- RelayedLinks

    
PROPERTIES
    PacketUnderCurrentSession
    FrameUnderItsOwnLease
SYMMETRY Symmetry
CHECK_DEADLOCK FALSE
