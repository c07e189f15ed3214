\* One worker: failing checks, errors, lost answers, crashes.
SPECIFICATION FairSpec
CONSTANTS
    w1 = w1
    w2 = w2
    NoOne = NoOne
    MaxTasks = 3
    Deps <- PairDeps
    Workers = {w1}
    LastCheck = 5
    E2eCheck = 4
    LostAt = {"claim", "write", "save", "persist", "clear"}
    MaxSetbacks = 5
INVARIANTS
    TypeOK
    OneClaimAtATime
PROPERTIES
    DoneAfterAllChecks
    BacklogFinishedUnlessStuck
CHECK_DEADLOCK FALSE
