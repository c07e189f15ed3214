\* Overlapping calls, failing puts and crashes of the service.
SPECIFICATION Spec
CONSTANTS
    t1 = t1
    t2 = t2
    t3 = t3
    b1 = b1
    b2 = b2
    k1 = k1
    k2 = k2
    NoTask = NoTask
    NoBranch = NoBranch
    Missing = Missing
    Tasks = {t1, t2, t3}
    Branches = {b1, b2}
    Calls = {k1, k2}
    Faults = TRUE
SYMMETRY Symmetry
INVARIANTS
    LookupsAnswerRight
    OneTaskPerBranch
    FreeBranchesAvailable
CHECK_DEADLOCK FALSE
