\* Services that crash, cannot be spawned or obey SIGTERM, a supervisor that is killed; fair timers.
SPECIFICATION FairSpec
CONSTANTS
    tasks = tasks
    gateway = gateway
    manager = manager
    startupOrder <- ThreeServices
    Stubborn = {}
    MaxCrashes = 4
    Faults = TRUE
INVARIANTS
    TypeOK
    StoppedStayDown
PROPERTIES
    CleanExitIsFinal
    
    CrashedRestarted
    ShutdownEnds
CHECK_DEADLOCK FALSE
