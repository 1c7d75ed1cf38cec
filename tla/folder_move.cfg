SPECIFICATION Spec
CONSTANTS
    Folder = {d1, d2, d3}
    NULL = NULL
    Request = {r1}
INVARIANT TypeOK
PROPERTIES
    ImplementsForest
    MovesReturn
