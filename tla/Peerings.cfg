SPECIFICATION MCSpec
CONSTANTS
    WindowBits = 3
    Sessions = 2
    Payloads = {p1, p2}
    MaxCounter = 5
    u1 = u1
    u2 = u2
    v1 = v1
    v2 = v2
    a = a
    b = b
    NoPeer = NoPeer
    g = g
    Nil = Nil
CONSTRAINT Bounded
SYMMETRY PeeringSymmetry
INVARIANTS
    OpenedAtMostOnce
    FreshFrameIsAccepted
    HandshakesAgree
    
    
    AuditIsComplete
PROPERTY DoneIsShown
CHECK_DEADLOCK FALSE
