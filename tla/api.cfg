SPECIFICATION Spec
CONSTANTS
    Email = {e1}
    Token = {t1}
    Request = {r1, r2}
    Event = {v1}
    Size <- MCSize
    MaxSize = 1
    Top = 3
    Limit = 1
    MaxRows = 3
    Life = 1
    Window = 1
    MaxAttempts = 2
    NULL = NULL
INVARIANTS
    TypeOK
    WrongPasswordsBounded
    LoggedOutIsRefused
    NoTtlMeansCut
    OvershootBounded
PROPERTY LockoutsEnd
CONSTRAINTS OneAtATime LittleUnchecked
