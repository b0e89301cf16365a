SPECIFICATION FairSpec
CONSTANTS
    a = a
    b = b
    d = d
    p1 = p1
    p2 = p2
    p3 = p3
    c1 = c1
    c2 = c2
    None = None
    Keys = {a, b, d}
    SizeOf <- Sizes
    MaxPuts = 4
    Procs = {p1, p2, p3}
    Caches = {c1, c2}
    CacheOf <- CacheObject
    Configs <- Calls
INVARIANTS
    WholeAtKey
    NoTempLeak
    
    CounterExact
    WithinLimit
PROPERTIES
    
    CallsReturn
