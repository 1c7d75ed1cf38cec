SPECIFICATION Spec
CONSTANTS
    File = {f1, f2}
    Index = {i1}
    Key = {k1}
    Request = {r1}
    Purge = {p1, p2}
    Permits = 1
    MaxAttempts = 2
    Faults = {"put", "delete", "cancel"}
    NULL = NULL
PROPERTIES
    PermitsComeBack
    DestroysEnd
