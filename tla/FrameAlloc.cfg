CONSTANTS
    Submaps = 3
    frames_num = 3
    BootWords = 1
    Requests = {1, 2, 8}
SPECIFICATION Spec
INVARIANTS HeldOnce BitmapExact GroupsUniform
PROPERTIES FailsOnlyWhenFull
