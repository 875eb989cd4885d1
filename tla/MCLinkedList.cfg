CONSTANTS
    Elems = {e1, e2, e3, e4}
    HEAD = HEAD
    NULL = NULL
SYMMETRY ElemSymmetry
SPECIFICATION Spec
INVARIANTS
    Represents
    StolenIntact
