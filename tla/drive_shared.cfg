SPECIFICATION Spec
CONSTANTS
    User = {u1, u2}
    Creator = {u1}
    Folder = {d1, d2}
    File = {f1}
    NULL = NULL
    FileLevel = {"owner"}
    FolderLevel = {"editor"}
    Faults = {"second_insert"}
SYMMETRY Symmetry
CONSTRAINT SideBySide
INVARIANT TypeOK
PROPERTIES
    OnlyOffersReachFurther
    FilesEndInTrash
