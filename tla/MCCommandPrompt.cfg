CONSTANTS
    NumFrames = 5
    Dirs = {0, 1}
    Slots = {0, 1}
    RefModulus = 65536
    Reserved = {0}
    Junk <- MCJunk
    Page0 <- MCPage0
    MaxDepth = 2
SPECIFICATION Spec
INVARIANTS
    FramesAccountedFor
PROPERTIES
    LeakOnlyWhenExhausted
    DeathExplained
CHECK_DEADLOCK FALSE
