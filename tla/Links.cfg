SPECIFICATION MCSpec
CONSTANTS
    NoPeer = NoPeer
INVARIANTS
    ReassemblyIsFaithful
    NoReceiverSleepsOnParked
    SessionsAgree
    
    
    SteamTrafficIsSteered
    RoutesFiltersAndCoreAgree
    VerdictsAgree
CHECK_DEADLOCK FALSE
