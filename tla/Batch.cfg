SPECIFICATION FairSpec
CONSTANTS
    r1 = r1
    r2 = r2
    r3 = r3
    None = None
    N = 4
    Readers = {r1, r2, r3}
    Failures = TRUE
    Configs <- Pipelines
INVARIANTS
    
    BudgetConserved
 
CHECK_DEADLOCK FALSE
