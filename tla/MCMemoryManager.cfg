CONSTANTS
    NumFrames = 5
    Dirs = {d1, d2}
    Slots = {s1, s2}
    RefModulus = 4
    Reserved = {0}
    Perms <- MCPerms
    Junk <- MCJunk
SYMMETRY MCSymmetry
SPECIFICATION Spec
INVARIANTS
    TypeOK
    FreeListSound
    RefCountExact
    NoLeak
    TLBCoherent
    TablesPrivate
PROPERTIES
    CallsAreLocal
    ImplementsAddressSpace
