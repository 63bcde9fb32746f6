SPECIFICATION MCSpec
CONSTANTS
    TTL = 2
    Required = TRUE
    MaxLag = 0
    MaxSequence = 3
    MaxTime = 5
    MaxReplies = 2
    k1 = k1
    k2 = k2
    m1 = m1
    m2 = m2
    a1 = a1
    a2 = a2
    s1 = s1
    r0 = r0
    None = None
INVARIANTS
    
    PublishedIsHeld
    TrustedIsVouched
    OnlyVouchedAddressesDialed
    
CHECK_DEADLOCK FALSE
