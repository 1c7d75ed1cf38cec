SPECIFICATION Spec
CONSTANTS
    User = {u1, u2}
    Creator = {u1}
    Folder = {d1, d2}
    File = {f1}
    NULL = NULL
    FileLevel = {}
    FolderLevel = {"viewer"}
    Faults = {}
SYMMETRY Symmetry
PROPERTY RevocationCoversFiles
