\* Worker daemons only, no faults: an implementation task waits for another.
SPECIFICATION Spec
CONSTANTS
    t1 = t1
    t2 = t2
    w1 = w1
    w2 = w2
    e1 = e1
    s1 = s1
    s2 = s2
    s3 = s3
    NoOne = NoOne
    NoCall = NoCall
    Tasks = {t1, t2}
    Deps <- ChainDeps
    Gated = {t2}
    Workers = {w1, w2}
    Editors = {}
    Requests = {s1, s2, s3}
    MaxClaims = 4
    Faults = FALSE
SYMMETRY Symmetry
INVARIANTS
    GateRespected
PROPERTIES
    ClosedStaysClosed
CHECK_DEADLOCK FALSE
