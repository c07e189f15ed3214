\* Two workers on one list of tasks and one work tree.
SPECIFICATION FairSpec
CONSTANTS
    w1 = w1
    w2 = w2
    NoOne = NoOne
    MaxTasks = 2
    Deps <- NoDeps
    Workers = {w1, w2}
    LastCheck = 2
    E2eCheck = 1
    LostAt = {}
    MaxSetbacks = 1
INVARIANTS
    ActsOnClaimedTask
PROPERTIES
    ClosedWasClaimed
    BacklogFinishedUnlessStale
CHECK_DEADLOCK FALSE
