CONSTANTS
    PAGE_SIZE = 8
    PHYS_IO_MEM = 32
    PHYS_EXTENDED_MEM = 40
    NPTENTRIES = 4
    NPDENTRIES = 15
    PDX_KERNEL_BASE = 7
    KernelEnds <- MCKernelEnds
    ExtendedSizes <- MCExtendedSizes
    Garbage <- MCGarbage
    FrameInfoSize = 1
    EnvsSize = 11
    KERNEL_STACK_SIZE = 16
SPECIFICATION FosSpec
INVARIANTS
    InvalidMemoryNeverMapped
CHECK_DEADLOCK FALSE
