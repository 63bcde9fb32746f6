SPECIFICATION FairReplaceSpec
CONSTANTS
    Peers = {p1, p2}
    NoPeer = none
    MaxManagers = 2
    InboundIds = {i1}
    MaxGeneration = 2
    RekeyAfter = 1
    InboundCapacity = 1
    NetworkEvents = {}
    MaxNetworkEvents = 0
PROPERTIES
    ShutdownEndsTask
    
    ImplementsSessionFeed
CHECK_DEADLOCK FALSE
