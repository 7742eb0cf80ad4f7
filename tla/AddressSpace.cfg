SPECIFICATION Spec
CONSTANTS
    PT_SIZE = 8
    UserTables = 2
    MemStart = 2
    NFrames = 24
    Submaps = 2
    InitrdFrames <- MCInitrd
    FilePages = 2
    USER_STACK_SIZE = 1
    Touched = {2, 7, 9}
    MaxForks = 2
INVARIANTS
    FramesMarked
    ClonesDisjoint
    CopyStaysInClones
    KernelReachable
PROPERTIES
    FaultServed
