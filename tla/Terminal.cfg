SPECIFICATION Spec
CONSTANTS
    COLS = 4
    ROWS = 2
    Prompt <- MCPrompt
    TabStop = 2
    CMD_SIZE = 3
    Chars = {"a"}
    MaxWritten = 8
INVARIANTS
    LineExact
    FaultsOnlyAtEdges
CHECK_DEADLOCK FALSE
