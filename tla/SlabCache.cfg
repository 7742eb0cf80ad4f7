CONSTANTS
    Cap = 3
    MaxSlabs = 3
    Aligned = FALSE
SPECIFICATION FairSpec
INVARIANTS
    NumFreeExact
    FreeChainExact
    ListsAgree
    DestroyReleasesAll
PROPERTIES
    NoDoubleHandout
    GrowsOnlyWhenFull
    CallsReturn
CHECK_DEADLOCK FALSE
