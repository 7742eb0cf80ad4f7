CONSTANTS
    heap_base = 16
    map_limit = 58
    MAP_CRITICAL_DIST = 20
    Growth = 32
    PAGE_SIZE = 4
    Sizes = {1, 5}
    MaxLive = 4
SPECIFICATION TestSpec
PROPERTIES TestEnds
CHECK_DEADLOCK FALSE
