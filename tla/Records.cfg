SPECIFICATION MCSpec
CONSTANTS
    n1 = n1
    n2 = n2
    n3 = n3
    v1 = v1
    v2 = v2
    d1 = d1
    d2 = d2
    Nil = Nil
    NoOne = NoOne
    Loaders = {n1, n2}
    MaxSecrets = 4
SYMMETRY RecordSymmetry
INVARIANTS
    FileHoldsMemory
    HistoryIsOne
    
    IdentityIsStable
    
CHECK_DEADLOCK FALSE
