SPECIFICATION DownloadSpec
CONSTANTS
    File = {f1, f2}
    Index = {i1, i2}
    Key = {k1, k2}
    Request = {r1, r2}
    Purge = {p1}
    Reader = {c1}
    Permits = 2
    MaxAttempts = 2
    Faults = {"put", "delete", "cancel"}
    NULL = NULL
INVARIANTS
    TypeOK
    FinalizedIsComplete
    RecordedIsStored
PROPERTIES
    OrphansOnlyByFailureOrRace
    GrantedChunksAreFound
SYMMETRY Symmetry
