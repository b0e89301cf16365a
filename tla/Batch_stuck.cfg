SPECIFICATION FairSpec
CONSTANTS
    r1 = r1
    r2 = r2
    r3 = r3
    None = None
    N = 4
    Readers = {r1, r2, r3}
    Failures = FALSE
    Configs <- TwoReaders
PROPERTY Terminates
CHECK_DEADLOCK FALSE
