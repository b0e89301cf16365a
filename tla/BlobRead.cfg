SPECIFICATION LocalSpec
CONSTANTS
    r1 = r1
    r2 = r2
    r3 = r3
    f1 = f1
    w1 = w1
    w2 = w2
    None = None
    Files = {f1}
    Readers = {r1, r2, r3}
    Blobs = {1, 2}
    Writers = {w1, w2}
    Configs <- Archives
INVARIANTS
    
    CacheClean
    
    FilesPaired
PROPERTY CallsReturn
