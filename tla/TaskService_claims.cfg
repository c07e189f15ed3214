\* Worker daemons only, with crashes, lost answers and service restarts.
SPECIFICATION Spec
CONSTANTS
    t1 = t1
    t2 = t2
    w1 = w1
    w2 = w2
    e1 = e1
    s1 = s1
    s2 = s2
    s3 = s3
    NoOne = NoOne
    NoCall = NoCall
    Tasks = {t1}
    Deps <- NoDeps
    Gated = {t1}
    Workers = {w1, w2}
    Editors = {}
    Requests = {s1, s2, s3}
    MaxClaims = 4
    Faults = TRUE
SYMMETRY Symmetry
INVARIANTS
    TypeOK
    ClaimLockExclusive
    ClaimExclusive
PROPERTIES
    ClaimsInCallOrder
    ImplementsOwnership
CHECK_DEADLOCK FALSE
