\* Workers and another client that edits and deletes; fair event loop.
SPECIFICATION FairSpec
CONSTANTS
    t1 = t1
    t2 = t2
    w1 = w1
    w2 = w2
    e1 = e1
    s1 = s1
    s2 = s2
    s3 = s3
    NoOne = NoOne
    NoCall = NoCall
    Tasks = {t1}
    Deps <- NoDeps
    Gated = {}
    Workers = {w1}
    Editors = {e1}
    Requests = {s1, s2}
    MaxClaims = 2
    Faults = TRUE
PROPERTIES
    RequestsAnswered
CHECK_DEADLOCK FALSE
