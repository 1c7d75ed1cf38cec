SPECIFICATION Spec
CONSTANTS
    File = {f1}
    Index = {i1}
    Key = {k1}
    Request = {r1}
    Purge = {p1}
    Permits = 1
    MaxAttempts = 2
    Faults = {}
    NULL = NULL
PROPERTY EmptyTrashTakesTrash
SYMMETRY Symmetry
