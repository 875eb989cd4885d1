CONSTANTS
    CRT_ROWS = 2
    CRT_COLS = 3
    Glyphs = {"a"}
    MaxTop = 3
SPECIFICATION TerminalSpec
INVARIANTS
    TerminalTypeOK
    ScreenIsWindow
