SPECIFICATION FairSpec
CONSTANTS
    MaxSeg = 3
    Bytes <- MCBytes
    LIMIT = 2
    LOW = 1
    BATCH = 2
    VALIDATE = TRUE
    MaxCrashes = 1
    MaxFaults = 1
CHECK_DEADLOCK FALSE
INVARIANTS
    TypeOK
    GhostsOldest
    BudgetKept
    NothingForgotten
PROPERTIES
    KeepsRing
    BudgetRestored
