SPECIFICATION Spec
CONSTANTS
    User = {u1}
    Creator = {u1}
    Folder = {d1, d2, d3}
    File = {f1, f2}
    NULL = NULL
    FileLevel = {}
    FolderLevel = {}
    Faults = {"second_insert"}
SYMMETRY Symmetry
INVARIANTS
    
    Integrity
PROPERTIES
    
    ImplementsForest
