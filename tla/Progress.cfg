SPECIFICATION MCSpec
CONSTANTS
    Conns = {n1, n2}
    Peers = {id1}
    Tokens = {t1, t2}
    None = None
    MaxConnections = 2
    MaxRegistered = 2
    Quota = 1
INVARIANTS
    RegistrationIsOwn
    
 
