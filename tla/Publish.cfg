SPECIFICATION GittufSpec
CONSTANTS
    p1 = p1
    p2 = p2
    p3 = p3
    a1 = a1
    a2 = a2
    v1 = v1
    latest = latest
    u1 = u1
    u2 = u2
    c1 = c1
    c2 = c2
    None = None
    Urls = {u1, u2}
    Caches = {c1, c2}
    MaxVersion = 1
    Callers = {p1, p2, p3}
    Tags = {v1, latest}
    Archives = {a1, a2}
    MaxTime = 1
    Configs <- Everything
INVARIANTS
    Complete
    PushTagged
    PushedIsSigned
    
    EvidenceAccepted
    
