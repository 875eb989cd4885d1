SPECIFICATION Spec

CONSTANTS
    NumFrames = 12
    Dirs <- MCDirs
    Slots <- MCSlots
    RefModulus = 65536
    NENV = 2
    ENVGEN = 4
    IdModulus = 32
    NUM_USER_PROGS = 2
    KernelFrame = 0
    SegmentPage <- MCSegmentPage
    StackPage <- MCStackPage
    Page0 <- MCPage0

INVARIANTS
    IdsIdentify
    SpacesSeparate

PROPERTIES
    LossExplained
    

VIEW Shape

CHECK_DEADLOCK FALSE
