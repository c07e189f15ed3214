-------------------------- MODULE SupervisorProofs --------------------------
(***************************************************************************)
(* Proofs about Supervisor, for any list of services and any number of     *)
(* crashes, with or without faults.                                        *)
(*                                                                         *)
(* SupervisorInv is the inductive invariant: a restart timer is there only *)
(* while its service has no child and only after a crash, a stop awaits    *)
(* the exit of the service that shutdown has come to, and until shutdown   *)
(* a stopped service has neither a child nor a timer.                      *)
(***************************************************************************)
EXTENDS Supervisor, TLAPS

TimersOfTheCrashed ==
    \A v \in Services : timers[v] > 0 => child[v] = "none" /\ crashes > 0

Up == main \in {"boot", "waiting", "ready"}

PlaceInShutdown ==
    /\ Up => pos = 0
    /\ waiting => pos \in 1..Len(shutdownOrder)
    /\ killTimer => waiting

CleanlyExited ==
    \A v \in Services :
        Up /\ status[v] = "stopped" => child[v] = "none" /\ timers[v] = 0

NothingBeforeBoot ==
    main = "boot" => \A v \in Services : child[v] = "none" /\ timers[v] = 0

SupervisorInv ==
    /\ TypeOK
    /\ NothingBeforeBoot
    /\ TimersOfTheCrashed
    /\ PlaceInShutdown
    /\ CleanlyExited
    /\ StoppedStayDown

-----------------------------------------------------------------------------

\* shutdownOrder lists every service once.
LEMMA OrderFacts ==
    /\ Len(startupOrder) \in Nat
    /\ DOMAIN shutdownOrder = 1..Len(startupOrder)
    /\ Len(shutdownOrder) = Len(startupOrder)
    /\ \A i \in DOMAIN shutdownOrder : shutdownOrder[i] \in Services
    /\ \A i, j \in DOMAIN shutdownOrder :
         shutdownOrder[i] = shutdownOrder[j] => i = j
<1> DEFINE n == Len(startupOrder)
<1>1. n \in Nat /\ DOMAIN startupOrder = 1..n
  BY ServicesAssumption
<1>2. shutdownOrder = [i \in 1..n |-> startupOrder[n - i + 1]]
  BY DEF shutdownOrder, Reverse
<1>3. \A i \in 1..n : n - i + 1 \in 1..n
  BY <1>1
<1>4. Len(shutdownOrder) = n
  BY <1>1, <1>2
<1>5. \A i \in 1..n : shutdownOrder[i] \in Services
  BY <1>1, <1>2, <1>3 DEF Services, ToSet
<1>6. \A i, j \in 1..n : shutdownOrder[i] = shutdownOrder[j] => i = j
  BY <1>1, <1>2, <1>3, ServicesAssumption DEF IsInjective
<1> QED
  BY <1>1, <1>2, <1>4, <1>5, <1>6

\* Every service is in shutdownOrder.
LEMMA EveryServiceHasItsPlace ==
    ASSUME NEW v \in Services
    PROVE  \E i \in DOMAIN shutdownOrder : shutdownOrder[i] = v
<1> DEFINE n == Len(startupOrder)
<1>1. n \in Nat /\ DOMAIN startupOrder = 1..n
  BY ServicesAssumption
<1>2. shutdownOrder = [i \in 1..n |-> startupOrder[n - i + 1]]
  BY DEF shutdownOrder, Reverse
<1>3. PICK k \in 1..n : startupOrder[k] = v
  BY <1>1 DEF Services, ToSet
<1>4. n - k + 1 \in 1..n /\ n - (n - k + 1) + 1 = k
  BY <1>1, <1>3
<1> QED
  BY <1>1, <1>2, <1>3, <1>4

\* The stop in progress is of a service of its own place in the order.
LEMMA CurrentFacts ==
    ASSUME pos \in 1..Len(shutdownOrder)
    PROVE  /\ Current \in Services
           /\ \A i \in DOMAIN shutdownOrder : i < pos => shutdownOrder[i] # Current
BY OrderFacts DEF Current

LEMMA SupervisorInit == Init => SupervisorInv
<1> SUFFICES ASSUME Init PROVE SupervisorInv
  OBVIOUS
<1>1. pos \in 0..(Len(startupOrder) + 1) /\ crashes \in 0..MaxCrashes
  BY OrderFacts, ServicesAssumption DEF Init
<1>2. TypeOK
  <2>1. /\ child \in [Services -> Processes]
        /\ status \in [Services -> {"running", "stopping", "stopped", "error"}]
        /\ timers \in [Services -> 0..1]
    BY DEF Init, Processes
  <2>2. waiting \in BOOLEAN /\ killTimer \in BOOLEAN /\ crashed \in [Services -> BOOLEAN]
    BY Zenon DEF Init
  <2>3. main \in {"boot", "waiting", "ready", "stopping", "gone"}
    BY DEF Init
  <2> QED
    BY <1>1, <2>1, <2>2, <2>3, Zenon DEF TypeOK
<1>3. TimersOfTheCrashed /\ PlaceInShutdown /\ CleanlyExited /\ NothingBeforeBoot
  BY DEF Init, TimersOfTheCrashed, PlaceInShutdown, CleanlyExited,
         NothingBeforeBoot, Up
<1>4. StoppedStayDown
  BY OrderFacts DEF Init, StoppedStayDown
<1> QED
  BY <1>2, <1>3, <1>4 DEF SupervisorInv

\* start leaves a service that has a child alone, and makes none signalled.
LEMMA StartFacts ==
    ASSUME TypeOK, NEW v \in Services, start(v)
    PROVE  /\ child' \in [Services -> Processes]
           /\ status' \in [Services -> {"running", "stopping", "stopped", "error"}]
           /\ crashed' \in [Services -> BOOLEAN]
           /\ \A u \in Services \ {v} : child'[u] = child[u] /\ status'[u] = status[u]
           /\ child'[v] = child[v] \/ child'[v] \in {"alive", "unspawned"}
           /\ child[v] = "none" => status'[v] \in {"running", "error"}
BY DEF TypeOK, start, Spawned, SpawnStatus, Processes

LEMMA RestartKeeps ==
    ASSUME SupervisorInv, NEW v \in Services, RestartTimer(v)
    PROVE  SupervisorInv'
<1> USE DEF SupervisorInv
<1>1. timers \in [Services -> 0..1] /\ timers[v] = 1
  BY DEF RestartTimer, TypeOK
<1>2. /\ child[v] = "none" /\ crashes > 0
      /\ timers' = [timers EXCEPT ![v] = 0]
      /\ UNCHANGED <<main, pos, waiting, killTimer, crashes>>
      /\ start(v)
  BY <1>1 DEF RestartTimer, TimersOfTheCrashed
<1>3. /\ child' \in [Services -> Processes]
      /\ status' \in [Services -> {"running", "stopping", "stopped", "error"}]
      /\ crashed' \in [Services -> BOOLEAN]
      /\ \A u \in Services \ {v} : child'[u] = child[u] /\ status'[u] = status[u]
      /\ child'[v] \in {"none", "alive", "unspawned"}
      /\ status'[v] \in {"running", "error"}
  BY <1>2, StartFacts
<1>4. /\ timers' \in [Services -> 0..1]
      /\ \A u \in Services : timers'[u] = IF u = v THEN 0 ELSE timers[u]
  BY <1>1, <1>2
<1>5. TypeOK'
  BY <1>2, <1>3, <1>4 DEF TypeOK
<1>6. TimersOfTheCrashed' /\ PlaceInShutdown'
  BY <1>2, <1>3, <1>4 DEF TimersOfTheCrashed, PlaceInShutdown, Up
<1>7. CleanlyExited' /\ NothingBeforeBoot'
  <2>1. main # "boot"
    BY <1>1 DEF NothingBeforeBoot
  <2> QED
    BY <1>2, <1>3, <1>4, <2>1 DEF CleanlyExited, Up, NothingBeforeBoot
<1>8. StoppedStayDown'
  <2> SUFFICES ASSUME NEW i \in DOMAIN shutdownOrder, i < pos
               PROVE  Down(shutdownOrder[i])'
    BY <1>2 DEF StoppedStayDown
  <2>1. shutdownOrder[i] \in Services
    BY OrderFacts
  <2> QED
    BY <1>2, <1>3, <2>1 DEF StoppedStayDown, Down, start
<1> QED
  BY <1>5, <1>6, <1>8, <1>7

\* The exit of a running service, asked for or not.
LEMMA ExitKeeps ==
    ASSUME SupervisorInv, NEW v \in Services, NEW clean \in BOOLEAN,
           ServiceExits(v, clean),
           \/ crashes' = crashes /\ (clean \/ main = "stopping")
           \/ crashes < MaxCrashes /\ crashes' = crashes + 1,
           crashed' \in [Services -> BOOLEAN]
    PROVE  SupervisorInv'
<1> USE DEF SupervisorInv
<1>1. /\ Running(v) /\ main # "gone" /\ main' = main
      /\ child' = [child EXCEPT ![v] = "none"]
  BY DEF ServiceExits, OnExit
<1>2. timers[v] = 0 /\ main # "boot"
  BY <1>1 DEF Running, TimersOfTheCrashed, TypeOK, NothingBeforeBoot
<1>3. /\ status' \in [Services -> {"running", "stopping", "stopped", "error"}]
      /\ \A u \in Services \ {v} : status'[u] = status[u]
      /\ \/ timers' = timers
         \/ /\ timers' = [timers EXCEPT ![v] = 1]
            /\ status'[v] = "error" /\ crashes' = crashes + 1
  BY <1>2 DEF ServiceExits, OnExit, TypeOK
<1>4. /\ crashes' \in 0..MaxCrashes /\ crashes' >= crashes
      /\ crashes' = crashes + 1 => crashes' > 0
  BY ServicesAssumption DEF TypeOK
<1>5. \/ UNCHANGED <<waiting, killTimer, pos>>
      \/ /\ waiting /\ v = Current
         /\ waiting' = FALSE /\ killTimer' = FALSE /\ pos' = pos + 1
  BY DEF ServiceExits
<1>6. /\ \A u \in Services : child'[u] = IF u = v THEN "none" ELSE child[u]
      /\ child' \in [Services -> Processes]
  BY <1>1 DEF TypeOK, Processes
<1>7. /\ timers' \in [Services -> 0..1]
      /\ \A u \in Services \ {v} : timers'[u] = timers[u]
      /\ timers'[v] = 0 \/ (status'[v] = "error" /\ crashes' > 0)
  BY <1>2, <1>3, <1>4 DEF TypeOK
<1>8. /\ pos' \in 0..(Len(startupOrder) + 1)
      /\ waiting' \in BOOLEAN /\ killTimer' \in BOOLEAN
  <2>1. waiting => pos \in 1..Len(startupOrder)
    BY OrderFacts DEF PlaceInShutdown
  <2>2. /\ pos \in 0..(Len(startupOrder) + 1)
        /\ waiting \in BOOLEAN /\ killTimer \in BOOLEAN
    BY DEF TypeOK
  <2>3. waiting => pos + 1 \in 0..(Len(startupOrder) + 1)
    BY <2>1, OrderFacts
  <2> QED
    BY <1>5, <2>2, <2>3
<1>9. TypeOK'
  BY <1>1, <1>3, <1>4, <1>6, <1>7, <1>8 DEF TypeOK
<1>10. TimersOfTheCrashed'
  BY <1>4, <1>6, <1>7 DEF TimersOfTheCrashed, TypeOK
<1>11. PlaceInShutdown'
  BY <1>1, <1>5, OrderFacts DEF PlaceInShutdown, Up
<1>12. CleanlyExited' /\ NothingBeforeBoot'
  BY <1>1, <1>2, <1>3, <1>6, <1>7 DEF CleanlyExited, Up, NothingBeforeBoot
<1>13. StoppedStayDown'
  <2> SUFFICES ASSUME NEW i \in DOMAIN shutdownOrder, i < pos'
               PROVE  Down(shutdownOrder[i])'
    BY DEF StoppedStayDown
  <2>1. shutdownOrder[i] \in Services /\ i \in Nat /\ pos \in Nat
    BY OrderFacts DEF TypeOK
  <2>2. CASE shutdownOrder[i] = v
    BY <1>6, <2>2 DEF Down
  <2>3. CASE shutdownOrder[i] # v
    <3>1. i < pos
      BY <1>5, <2>1, <2>3 DEF Current
    <3>2. child'[shutdownOrder[i]] = child[shutdownOrder[i]]
      BY <1>6, <2>1, <2>3
    <3> QED
      BY <1>4, <3>1, <3>2, ServicesAssumption DEF StoppedStayDown, Down, TypeOK
  <2> QED
    BY <2>2, <2>3
<1> QED
  BY <1>9, <1>10, <1>11, <1>12, <1>13

LEMMA StopKeeps ==
    ASSUME SupervisorInv, Stop
    PROVE  SupervisorInv'
<1> USE DEF SupervisorInv
<1>1. /\ main = "stopping" /\ ~waiting /\ pos \in 1..Len(shutdownOrder)
      /\ UNCHANGED <<main, timers, crashes, crashed>>
  BY DEF Stop, history
<1>2. /\ Current \in Services
      /\ \A i \in DOMAIN shutdownOrder : i < pos => shutdownOrder[i] # Current
  BY <1>1, CurrentFacts
<1>3. /\ Len(shutdownOrder) = Len(startupOrder) /\ Len(startupOrder) \in Nat
      /\ DOMAIN shutdownOrder = 1..Len(startupOrder)
      /\ \A i \in DOMAIN shutdownOrder : shutdownOrder[i] \in Services
  BY OrderFacts
<1>4. CASE child[Current] = "none"
  <2>1. /\ status' = [status EXCEPT ![Current] = "stopped"]
        /\ pos' = pos + 1
        /\ UNCHANGED <<child, waiting, killTimer>>
    BY <1>4 DEF Stop
  <2>2. TypeOK'
    BY <1>1, <1>2, <1>3, <2>1 DEF TypeOK
  <2>3. TimersOfTheCrashed' /\ PlaceInShutdown' /\ CleanlyExited' /\ NothingBeforeBoot'
    BY <1>1, <2>1
       DEF TimersOfTheCrashed, PlaceInShutdown, CleanlyExited, Up, NothingBeforeBoot
  <2>4. StoppedStayDown'
    <3> SUFFICES ASSUME NEW i \in DOMAIN shutdownOrder, i < pos'
                 PROVE  Down(shutdownOrder[i])
      BY <1>1, <2>1 DEF StoppedStayDown, Down
    <3>1. i < pos \/ shutdownOrder[i] = Current
      BY <1>1, <1>3, <2>1 DEF Current
    <3> QED
      BY <1>4, <3>1 DEF StoppedStayDown, Down
  <2> QED
    BY <2>2, <2>3, <2>4
<1>5. CASE child[Current] # "none"
  <2>1. /\ status' = [status EXCEPT ![Current] = "stopping"]
        /\ child' = [child EXCEPT ![Current] = IF @ = "alive" THEN "signalled" ELSE @]
        /\ waiting' = TRUE /\ killTimer' = TRUE
        /\ UNCHANGED pos
    BY <1>5 DEF Stop
  <2>2. \A u \in Services \ {Current} : child'[u] = child[u]
    BY <2>1 DEF TypeOK
  <2>3. child'[Current] # "none" /\ timers[Current] = 0
    BY <1>2, <1>5, <2>1 DEF TypeOK, TimersOfTheCrashed
  <2>4. TypeOK'
    BY <1>1, <1>2, <2>1 DEF TypeOK, Processes
  <2>5. TimersOfTheCrashed' /\ PlaceInShutdown' /\ CleanlyExited' /\ NothingBeforeBoot'
    BY <1>1, <2>1, <2>2, <2>3
       DEF TimersOfTheCrashed, PlaceInShutdown, CleanlyExited, Up, NothingBeforeBoot
  <2>6. StoppedStayDown'
    <3> SUFFICES ASSUME NEW i \in DOMAIN shutdownOrder, i < pos
                 PROVE  Down(shutdownOrder[i])'
      BY <1>1, <2>1 DEF StoppedStayDown
    <3>1. shutdownOrder[i] \in Services \ {Current}
      BY <1>2, <1>3
    <3> QED
      BY <1>1, <2>2, <3>1 DEF StoppedStayDown, Down
  <2> QED
    BY <2>4, <2>5, <2>6
<1> QED
  BY <1>4, <1>5

LEMMA KillTimerKeeps ==
    ASSUME SupervisorInv, KillTimer
    PROVE  SupervisorInv'
<1> USE DEF SupervisorInv
<1>1. /\ killTimer /\ killTimer' = FALSE
      /\ child' = [child EXCEPT ![Current] = IF @ = "alive" THEN "killed" ELSE @]
      /\ UNCHANGED <<main, status, timers, pos, waiting, crashes, crashed>>
  BY DEF KillTimer, history
<1>2. pos \in 1..Len(shutdownOrder)
  BY <1>1 DEF PlaceInShutdown
<1>3. /\ Current \in Services
      /\ \A i \in DOMAIN shutdownOrder : i < pos => shutdownOrder[i] # Current
  BY <1>2, CurrentFacts
<1>4. /\ \A u \in Services \ {Current} : child'[u] = child[u]
      /\ child'[Current] = "none" <=> child[Current] = "none"
      /\ child' \in [Services -> Processes]
  BY <1>1, <1>3 DEF TypeOK, Processes
<1>5. TypeOK'
  BY <1>1, <1>4 DEF TypeOK
<1>6. TimersOfTheCrashed' /\ PlaceInShutdown' /\ CleanlyExited' /\ NothingBeforeBoot'
  BY <1>1, <1>4
     DEF TimersOfTheCrashed, PlaceInShutdown, CleanlyExited, Up, NothingBeforeBoot
<1>7. StoppedStayDown'
  <2> SUFFICES ASSUME NEW i \in DOMAIN shutdownOrder, i < pos
               PROVE  Down(shutdownOrder[i])'
    BY <1>1 DEF StoppedStayDown
  <2>1. shutdownOrder[i] \in Services \ {Current}
    BY <1>3, OrderFacts
  <2> QED
    BY <1>1, <1>4, <2>1 DEF StoppedStayDown, Down
<1> QED
  BY <1>5, <1>6, <1>7

\* The steps of main and shutdown that touch no child.
LEMMA MainKeeps ==
    ASSUME SupervisorInv,
           Ready \/ Shutdown \/ WorkersReconciled \/ Exit \/ SupervisorDies
    PROVE  SupervisorInv'
<1> USE DEF SupervisorInv
<1>1. UNCHANGED <<child, status, timers, waiting, killTimer, crashes, crashed>>
  BY DEF Ready, Shutdown, WorkersReconciled, Exit, SupervisorDies, history
<1>2. /\ main' \in {"boot", "waiting", "ready", "stopping", "gone"}
      /\ Up' => Up
      /\ main' # "boot"
      /\ pos' = pos \/ (pos = 0 /\ pos' = 1 /\ ~Up')
  BY DEF Ready, Shutdown, WorkersReconciled, Exit, SupervisorDies, Up, TypeOK
<1>3. TypeOK'
  BY <1>1, <1>2, OrderFacts DEF TypeOK
<1>4. TimersOfTheCrashed' /\ CleanlyExited' /\ NothingBeforeBoot'
  BY <1>1, <1>2 DEF TimersOfTheCrashed, CleanlyExited, NothingBeforeBoot
<1>5. PlaceInShutdown'
  BY <1>1, <1>2 DEF PlaceInShutdown
<1>6. StoppedStayDown'
  BY <1>1, <1>2, OrderFacts DEF StoppedStayDown, Down
<1> QED
  BY <1>3, <1>4, <1>5, <1>6

LEMMA BootKeeps ==
    ASSUME SupervisorInv, Boot
    PROVE  SupervisorInv'
<1> USE DEF SupervisorInv
<1>1. /\ main = "boot" /\ main' = "waiting" /\ pos = 0
      /\ UNCHANGED <<timers, pos, waiting, killTimer, crashes, crashed>>
  BY DEF Boot, PlaceInShutdown, Up, history
<1>2. /\ child' \in [Services -> Spawned]
      /\ status' = [v \in Services |-> SpawnStatus(child'[v])]
  BY DEF Boot
<1>3. /\ child' \in [Services -> Processes]
      /\ \A v \in Services : status'[v] \in {"running", "error"}
  BY <1>2 DEF Spawned, SpawnStatus, Processes
<1>4. \A v \in Services : timers'[v] = 0
  BY <1>1 DEF NothingBeforeBoot
<1>5. status' \in [Services -> {"running", "stopping", "stopped", "error"}]
  BY <1>2, <1>3
<1>6. TypeOK'
  BY <1>1, <1>3, <1>5 DEF TypeOK
<1>7. StoppedStayDown'
  BY <1>1, OrderFacts DEF StoppedStayDown
<1> QED
  BY <1>1, <1>3, <1>4, <1>6, <1>7
     DEF TimersOfTheCrashed, PlaceInShutdown, CleanlyExited, NothingBeforeBoot, Up

LEMMA SupervisorNext == SupervisorInv /\ [Next]_vars => SupervisorInv'
<1> SUFFICES ASSUME SupervisorInv, [Next]_vars PROVE SupervisorInv'
  OBVIOUS
<1>1. ASSUME NEW v \in Services, Crash(v) PROVE SupervisorInv'
  <2>1. PICK clean \in BOOLEAN :
           ServiceExits(v, clean) /\ crashed' = [crashed EXCEPT ![v] = ~clean]
    BY <1>1 DEF Crash
  <2>2. crashed' \in [Services -> BOOLEAN]
    BY <2>1, Zenon DEF SupervisorInv, TypeOK
  <2> QED
    BY <1>1, <2>1, <2>2, ExitKeeps DEF Crash
<1>2. ASSUME NEW v \in Services, ObeysSignal(v) PROVE SupervisorInv'
  BY <1>2, ExitKeeps DEF ObeysSignal, history, SupervisorInv, TypeOK
<1>3. CASE UNCHANGED vars
  BY <1>3 DEF vars, SupervisorInv, TypeOK, NothingBeforeBoot, TimersOfTheCrashed,
              PlaceInShutdown, CleanlyExited, StoppedStayDown, Down, Up
<1> QED
  BY <1>1, <1>2, <1>3, BootKeeps, MainKeeps, StopKeeps, KillTimerKeeps, RestartKeeps
     DEF Next, ShutdownStep

LEMMA SupervisorInvariant == Spec => []SupervisorInv
BY SupervisorInit, SupervisorNext, PTL DEF Spec

\* TypeOK of init.ts: in particular a service never has two restart timers.
THEOREM SupervisorTypeCorrect == Spec => []TypeOK
<1>1. SupervisorInv => TypeOK
  BY DEF SupervisorInv
<1> QED
  BY <1>1, SupervisorInvariant, PTL

\* However the services crash, are restarted or fail to be spawned meanwhile,
\* shutdown stops a service only when those that depend on it are gone, except
\* one that a restart timer has brought back behind it.
THEOREM DependentsStopFirst == Spec => []StoppedStayDown
<1>1. SupervisorInv => StoppedStayDown
  BY DEF SupervisorInv
<1> QED
  BY <1>1, SupervisorInvariant, PTL

\* Each step keeps the order of the shutdown: SIGTERM and SIGKILL go to a service
\* whose dependents are down, and process.exit comes when all services are.
THEOREM ShutdownKeepsOrder == Spec => SignalsInOrder
<1> DEFINE InOrder ==
      /\ \A v \in Services : child[v] = "alive" /\ child'[v] \in {"signalled", "killed"}
            => \A u \in Before(v) : Down(u)
      /\ main = "stopping" /\ main' = "gone" /\ ~Faults => \A v \in Services : Down(v)
<1>1. ASSUME SupervisorInv, [Next]_vars, NEW v \in Services,
             child[v] = "alive", child'[v] \in {"signalled", "killed"}
      PROVE  pos \in 1..Len(shutdownOrder) /\ v = Current
  <2>1. ASSUME NEW u \in Services, start(u) PROVE FALSE
    BY <1>1, <2>1 DEF start, Spawned, SupervisorInv, TypeOK
  <2>2. ASSUME NEW u \in Services, NEW clean \in BOOLEAN, ServiceExits(u, clean)
        PROVE  FALSE
    BY <1>1, <2>2 DEF ServiceExits, OnExit, SupervisorInv, TypeOK
  <2>3. CASE Stop
    BY <1>1, <2>3 DEF Stop, SupervisorInv, TypeOK
  <2>4. CASE KillTimer
    <3>1. pos \in 1..Len(shutdownOrder)
      BY <1>1, <2>4 DEF KillTimer, SupervisorInv, PlaceInShutdown
    <3> QED
      BY <1>1, <2>4, <3>1 DEF KillTimer, SupervisorInv, TypeOK
  <2>5. CASE Boot
    BY <1>1, <2>5 DEF Boot, Spawned, SupervisorInv, NothingBeforeBoot
  <2>6. CASE Ready \/ Shutdown \/ WorkersReconciled \/ Exit \/ SupervisorDies \/ UNCHANGED vars
    BY <1>1, <2>6 DEF Ready, Shutdown, WorkersReconciled, Exit, SupervisorDies, vars
  <2> QED
    BY <1>1, <2>1, <2>2, <2>3, <2>4, <2>5, <2>6
    DEF Next, ShutdownStep, RestartTimer, Crash, ObeysSignal
<1>2. ASSUME SupervisorInv, [Next]_vars, NEW v \in Services,
             child[v] = "alive", child'[v] \in {"signalled", "killed"},
             NEW u \in Before(v)
      PROVE  Down(u)
  <2>1. PICK i, j \in DOMAIN shutdownOrder :
           i < j /\ shutdownOrder[i] = u /\ shutdownOrder[j] = v
    BY DEF Before
  <2>2. j = pos
    BY <1>1, <1>2, <2>1, OrderFacts DEF Current
  <2> QED
    BY <1>2, <2>1, <2>2 DEF SupervisorInv, StoppedStayDown
<1>3. ASSUME SupervisorInv, [Next]_vars, main = "stopping", main' = "gone", ~Faults,
             NEW v \in Services
      PROVE  Down(v)
  <2>1. Exit
    <3>1. ASSUME NEW u \in Services, RestartTimer(u) \/ Crash(u) \/ ObeysSignal(u)
          PROVE  FALSE
      BY <1>3, <3>1 DEF RestartTimer, Crash, ObeysSignal, ServiceExits
    <3> QED
      BY <1>3, <3>1 DEF Next, ShutdownStep, Boot, Ready, Shutdown, WorkersReconciled,
                        Stop, KillTimer, SupervisorDies, vars
  <2>2. PICK i \in DOMAIN shutdownOrder : shutdownOrder[i] = v
    BY EveryServiceHasItsPlace
  <2> QED
    BY <1>3, <2>1, <2>2, OrderFacts DEF Exit, SupervisorInv, StoppedStayDown, TypeOK
<1>4. SupervisorInv /\ [Next]_vars => InOrder
  BY <1>2, <1>3
<1>5. SupervisorInv /\ [Next]_vars => [InOrder]_vars
  BY <1>4
<1> QED
  BY <1>5, SupervisorInvariant, PTL DEF Spec, SignalsInOrder

\* A service that has exited cleanly stays stopped while the supervisor is up:
\* no timer of an earlier crash is left to start it.
THEOREM CleanExitsAreFinal == Spec => CleanExitIsFinal
<1> DEFINE Stays == \A v \in Services :
          main = "ready" /\ status[v] = "stopped" => status'[v] = "stopped"
<1>1. SupervisorInv /\ [Next]_vars => Stays
  <2> SUFFICES ASSUME SupervisorInv, [Next]_vars, NEW v \in Services,
                      main = "ready", status[v] = "stopped"
               PROVE  status'[v] = "stopped"
    OBVIOUS
  <2>1. child[v] = "none" /\ timers[v] = 0
    BY DEF SupervisorInv, CleanlyExited, Up
  <2>2. ASSUME NEW u \in Services, RestartTimer(u) PROVE status'[v] = "stopped"
    <3>1. u # v
      BY <2>1, <2>2 DEF RestartTimer
    <3> QED
      BY <2>2, <3>1, StartFacts DEF RestartTimer, SupervisorInv
  <2>3. ASSUME NEW u \in Services, NEW clean \in BOOLEAN, ServiceExits(u, clean)
        PROVE  status'[v] = "stopped"
    <3>1. u # v
      BY <2>1, <2>3 DEF ServiceExits, Running
    <3> QED
      BY <2>3, <3>1 DEF ServiceExits, OnExit, SupervisorInv, TypeOK
  <2>4. ASSUME NEW u \in Services, Crash(u) \/ ObeysSignal(u)
        PROVE  status'[v] = "stopped"
    BY <2>3, <2>4 DEF Crash, ObeysSignal
  <2>5. CASE Boot \/ ShutdownStep
    BY <2>5 DEF Boot, ShutdownStep, WorkersReconciled, Stop, Exit
  <2>6. CASE Ready \/ Shutdown \/ KillTimer \/ SupervisorDies \/ UNCHANGED vars
    BY <2>6 DEF Ready, Shutdown, KillTimer, SupervisorDies, vars
  <2> QED
    BY <2>2, <2>4, <2>5, <2>6 DEF Next
<1>2. SupervisorInv /\ [Next]_vars => [Stays]_vars
  BY <1>1
<1> QED
  BY <1>2, SupervisorInvariant, PTL DEF Spec, CleanExitIsFinal
=============================================================================
