SPECIFICATION Spec
CONSTANTS
    User = {u1}
    Creator = {u1}
    Folder = {d1, d2}
    File = {f1}
    NULL = NULL
    FileLevel = {}
    FolderLevel = {}
    Faults = {}
SYMMETRY Symmetry
INVARIANT SubfoldersAreNotAtTheRoot
