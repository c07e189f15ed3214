\* Crashes, failing puts, managers that die and leave workers behind, and one port for two ids.
SPECIFICATION Spec
CONSTANTS
    c1 = c1
    c2 = c2
    c3 = c3
    s1 = s1
    s2 = s2
    None = None
    MaxWorkers = 2
    Children = {c1, c2, c3}
    Requests = {s1, s2}
    Ports = {1}
    Preferred = {1}
    Desired = 1
    Faults = TRUE
SYMMETRY Symmetry
INVARIANTS
    TypeOK
    OneChildPerWorker
    StatusMatchesControl
    RestartPending
CHECK_DEADLOCK FALSE
