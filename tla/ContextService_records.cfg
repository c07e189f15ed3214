\* Overlapping calls on two records and a file, failing calls and crashes.
SPECIFICATION Spec
CONSTANTS
    f1 = f1
    m1 = m1
    k1 = k1
    k2 = k2
    NoPath = NoPath
    NoMark = NoMark
    NoRecord = NoRecord
    Ids = {1, 2}
    Paths = {f1}
    Marks = {m1}
    Recent = 2
    Calls = {k1, k2}
    MaxTime = 2
    Faults = TRUE
SYMMETRY Symmetry
INVARIANTS
    UpdatesKept
PROPERTIES
    LookupsSettle
CHECK_DEADLOCK FALSE
