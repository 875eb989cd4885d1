CONSTANTS
    LongModulus = 64
    MAX_ARGUMENTS = 3
    IntModulus = 64
    LongLongModulus = 4096
    PRINTBUF = 4
    SECTSIZE = 2
    LoadModulus = 64
    HeaderSectors = 2
    ELFHDR = 6
    MaxMemory = 5
    LineChars <- MCLineChars
    MaxLine = 6
    NumberChars <- MCNumberChars
    MaxNumber = 4
    FormatChars <- MCFormatChars
    MaxFormat = 4
    FormatValues = {0, 62}
    MaxBuffer = 2
    MaxStabs = 4
    MaxAddr = 6
    MaxVa = 5
SPECIFICATION Spec
INVARIANTS
    BytesExact
    SplitIsSplit
    NumbersExact
    TextDelivered
    StabFound
    SegmentsLoaded
