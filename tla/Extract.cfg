SPECIFICATION FairSpec
CONSTANTS
    Entries = 5
    Offset <- Offsets
    Size <- Sizes
    Compressed = {1, 3}
    Workers = 2
    IOErrors = TRUE
    Configs <- Copies
INVARIANTS
    AtomicFiles
    NothingUnfinished
    StatsExact
    
PROPERTY Terminates
