SPECIFICATION ReplaceSpec
CONSTANTS
    Peers = {p1, p2}
    NoPeer = none
    MaxManagers = 2
    InboundIds = {}
    MaxGeneration = 2
    RekeyAfter = 1
    InboundCapacity = 1
    NetworkEvents = {}
    MaxNetworkEvents = 0
INVARIANTS
    ReplacementClearsPrevious
CHECK_DEADLOCK FALSE
