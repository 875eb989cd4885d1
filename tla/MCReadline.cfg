CONSTANTS
    CRT_ROWS = 3
    CRT_COLS = 2
    Glyphs = {"a", "b", ">"}
    Keys <- MCKeys
    BUFLEN = 3
    Prompt = ">"
    MaxTyped = 4
    CONSBUFSIZE = 3
    NUL = "NUL"
    DeviceSize = 1
    MaxWaiting = 3
SPECIFICATION Spec
INVARIANTS
    EchoAgrees
PROPERTIES
    LineReturned
