\* Two instances, a created and updated task and a delete, one fault; fair timers.
SPECIFICATION FairSpec
CONSTANTS
    h1 = h1
    h2 = h2
    n1 = n1
    s1 = s1
    NoChange = NoChange
    Hooks = {h1, h2}
    Changes <- ThreeChanges
    Known = {s1}
    MaxMade = 2
    MaxDrops = 1
    MaxFaults = 1
INVARIANTS
    TypeOK
    ReturnedChangesKept
    CreatedOnce
PROPERTIES
    QueuedOfflineIsSent
CHECK_DEADLOCK FALSE
