SPECIFICATION Spec
CONSTANTS
    Folder = {d1, d2}
    NULL = NULL
    Request = {r1, r2}
SYMMETRY Symmetry
INVARIANT NoCycle
