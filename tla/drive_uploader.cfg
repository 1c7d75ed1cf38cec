SPECIFICATION Spec
CONSTANTS
    User = {u1, u2}
    Creator = {u1, u2}
    Folder = {d1, d2}
    File = {f1}
    NULL = NULL
    FileLevel = {}
    FolderLevel = {"editor"}
    Faults = {}
SYMMETRY Symmetry
PROPERTY DeleteFolderIsSoft
