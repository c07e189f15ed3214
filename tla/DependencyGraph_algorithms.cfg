\* The searches against their definitions, on every graph.
SPECIFICATION Spec
CONSTANTS
    Ids = {a, b, c}
    Priorities = {1, 2}
    MaxDeps = 2
SYMMETRY Symmetry
INVARIANTS
    ReportedCyclesAreCycles
    SortRespectsDependencies
    SortRespectsPriorities
    DepthIsLongestPath
