CONSTANTS
    PAGE_SIZE = 2
    MAP_SIZE = 2
    MAX_ORDER = 4
    mem_start = 208
    mem_limit = 255
    Requests = {1, 2, 3, 5, 8, 9}
SPECIFICATION Spec
INVARIANTS EveryPageOnce BuddiesMerged NoFault NumFreeExact
PROPERTIES FailsOnlyWhenFull CallsReturn
