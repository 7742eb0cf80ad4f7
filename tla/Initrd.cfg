SPECIFICATION Spec
CONSTANTS
    Names = {"in", "init", "usr"}
    Beginnings <- MCBeginnings
    MaxDepth = 3
    MaxEntries = 4
    Garbage = {0, 3}
INVARIANTS
    CountsExact
    ListsChildren
    FindsArchived
