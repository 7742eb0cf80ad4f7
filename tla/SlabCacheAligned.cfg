CONSTANTS
    Cap = 3
    MaxSlabs = 3
    Aligned = TRUE
SPECIFICATION FairSpec
INVARIANTS
    LosesOnlyFirstChunks
PROPERTIES
    ImplementsPool
CHECK_DEADLOCK FALSE
