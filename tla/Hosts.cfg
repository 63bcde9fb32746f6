SPECIFICATION MCSpec
CONSTANTS
    t1 = t1
    t2 = t2
    p1 = p1
    p2 = p2
    s1 = s1
    None = None
    c1 = c1
    c2 = c2
    Nothing = Nothing
    Partial = Partial
INVARIANTS
    KernelStateIsKnown
    StatusIsEnforced
    SessionIsGuarded
    
SYMMETRY HostSymmetry
VIEW HostView
