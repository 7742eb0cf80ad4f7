CONSTANTS
    heap_base = 16
    map_limit = 58
    MAP_CRITICAL_DIST = 20
    Growth = 32
    PAGE_SIZE = 4
    Sizes = {1, 5}
    MaxLive = 4
SPECIFICATION Spec
INVARIANTS BlocksDisjoint WalksHeaders HeadersIntact
PROPERTIES CallsReturn
CHECK_DEADLOCK FALSE
