\* No faults but crashes of workers: shutdown and restarts.
SPECIFICATION FairSpec
CONSTANTS
    c1 = c1
    c2 = c2
    c3 = c3
    s1 = s1
    s2 = s2
    None = None
    MaxWorkers = 1
    Children = {c1, c2, c3}
    Requests = {s1, s2}
    Ports = {1}
    Preferred = {}
    Desired = 1
    Faults = FALSE
INVARIANTS
    NoOrphans
PROPERTIES
    CrashedRestarted
CHECK_DEADLOCK FALSE
