SPECIFICATION Spec
CONSTANTS
    a1 = a1
    a2 = a2
    c1 = c1
    c2 = c2
    None = None
    Archives = {a1, a2}
    Clients = {c1, c2}
    TTL = 1
    CallTime = 1
    Configs <- Calls
SYMMETRY Symmetry
INVARIANTS
    BoundedStaleness
    PolicyEnforced
    
