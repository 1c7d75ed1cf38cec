SPECIFICATION Spec
CONSTANTS
    Email = {e1}
    Request = {r1, r2}
    Token = {t1, t2}
    Life = 2
    Cooldown = 1
    MaxAttempts = 2
    Faults = {"mail", "cancel"}
    NULL = NULL
INVARIANTS
    TypeOK
    AccountsAreConfirmed
    WrongAnswersBounded
SYMMETRY Symmetry
PROPERTIES
    RefusalsAreNotProlonged
    OnlyCutsLeaveNoTtl
