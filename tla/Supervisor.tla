----------------------------- MODULE Supervisor -----------------------------
(***************************************************************************)
(* The root supervisor (packages/supervisor/src/init.ts): it starts every  *)
(* service as a child process, restarts those that crash, and stops them   *)
(* one after the other when it is told to shut down.                       *)
(*                                                                         *)
(* A step is one turn of the supervisor's event loop: the starts at boot   *)
(* await nothing, the listeners of a child are attached in the turn that   *)
(* spawns it, and its spawn or error event is emitted before the next turn.*)
(* How long a restart is delayed is left out.                              *)
(***************************************************************************)
EXTENDS Naturals, SequencesExt

CONSTANTS
    startupOrder,   \* the services in the order main starts them
    Stubborn,       \* services that may ignore SIGTERM
    MaxCrashes,     \* bound: exits that nobody asked for
    Faults          \* whether spawns fail and the supervisor is killed

Services == ToSet(startupOrder)

\* shutdown lists the same services the other way round
shutdownOrder == Reverse(startupOrder)

ASSUME ServicesAssumption ==
    /\ startupOrder \in Seq(Services) /\ IsInjective(startupOrder)
    /\ Stubborn \subseteq Services
    /\ MaxCrashes \in Nat /\ Faults \in BOOLEAN

VARIABLES
    main,       \* "boot", "waiting", "ready", "stopping" or "gone"
    child,      \* child[v]: the process of service v, "none" for null
    status,     \* status[v]: what snapshot reports
    timers,     \* timers[v]: restart timers that have not fired
    pos,        \* the position in shutdownOrder; 0 while workers are reconciled
    waiting,    \* the stop of the service at pos awaits its exit
    killTimer,  \* and its timer has not fired
    crashes,    \* exits so far that nobody asked for
    crashed     \* history: crashed[v]: v has crashed since it was last started

vars == <<main, child, status, timers, pos, waiting, killTimer, crashes, crashed>>
history == <<crashes, crashed>>

Processes == {"none", "alive", "signalled", "killed", "unspawned"}
Running(v) == child[v] \in {"alive", "signalled", "killed"}

-----------------------------------------------------------------------------
(* createServiceSupervisor.                                                *)

\* what a start can yield, and the status that follows: without an entry file there
\* is no child; after an error event there is one, but there is no exit event
Spawned == {"alive"} \cup IF Faults THEN {"unspawned", "none"} ELSE {}
SpawnStatus(kid) == IF kid = "alive" THEN "running" ELSE "error"

\* start: nothing when there is a child
start(v) ==
    IF child[v] # "none" THEN UNCHANGED <<child, status, crashed>>
    ELSE \E kid \in Spawned :
            /\ child' = [child EXCEPT ![v] = kid]
            /\ status' = [status EXCEPT ![v] = SpawnStatus(kid)]
            /\ crashed' = [crashed EXCEPT ![v] = FALSE]

\* Mutant: the restart timer is set before the exit is examined.
OnExitRestarting(v, clean) ==
    /\ child' = [child EXCEPT ![v] = "none"]
    /\ status' = [status EXCEPT ![v] = IF main = "stopping" \/ clean THEN "stopped"
                                       ELSE "error"]
    /\ timers' = [timers EXCEPT ![v] = @ + 1]

\* the exit listener; the one that stop adds sets nothing else
OnExit(v, clean) ==
    /\ child' = [child EXCEPT ![v] = "none"]
    /\ IF main = "stopping" \/ clean
       THEN status' = [status EXCEPT ![v] = "stopped"] /\ UNCHANGED timers
       ELSE /\ status' = [status EXCEPT ![v] = "error"]
            /\ timers' = [timers EXCEPT ![v] = @ + 1]

\* Mutant: an interval in place of a timeout.
RestartTimerKept(v) ==
    /\ timers[v] > 0 /\ main # "gone"
    /\ start(v)
    /\ UNCHANGED <<timers, main, pos, waiting, killTimer, crashes>>

\* Mutant: a restart that fails to look whether it is still wanted gives up.
RestartTimerLost(v) ==
    /\ timers[v] > 0 /\ main # "gone"
    /\ timers' = [timers EXCEPT ![v] = @ - 1]
    /\ UNCHANGED <<child, status, main, pos, waiting, killTimer, history>>

\* setTimeout(() => void start("restart")): no stop ever clears it
RestartTimer(v) ==
    /\ timers[v] > 0 /\ main # "gone"
    /\ timers' = [timers EXCEPT ![v] = @ - 1]
    /\ start(v)
    /\ UNCHANGED <<main, pos, waiting, killTimer, crashes>>

-----------------------------------------------------------------------------
(* main.                                                                   *)

Boot ==
    /\ main = "boot"
    /\ main' = "waiting"
    /\ child' \in [Services -> Spawned]
    /\ status' = [v \in Services |-> SpawnStatus(child'[v])]
    /\ UNCHANGED <<timers, pos, waiting, killTimer, history>>

\* the worker manager is healthy and reconciled: the signal handlers are set
Ready ==
    /\ main = "waiting"
    /\ main' = "ready"
    /\ UNCHANGED <<child, status, timers, pos, waiting, killTimer, history>>

-----------------------------------------------------------------------------
(* shutdown.                                                               *)

Current == shutdownOrder[pos]

Shutdown ==
    /\ main = "ready"
    /\ main' = "stopping"
    /\ UNCHANGED <<child, status, timers, pos, waiting, killTimer, history>>

\* the worker manager has answered, or the request to it has failed
WorkersReconciled ==
    /\ main = "stopping" /\ pos = 0
    /\ pos' = 1
    /\ UNCHANGED <<main, child, status, timers, waiting, killTimer, history>>

\* Mutant: stop awaits an exit whether there is a child or not.
StopAlwaysWaits ==
    /\ main = "stopping" /\ ~waiting /\ pos \in 1..Len(shutdownOrder)
    /\ status' = [status EXCEPT ![Current] = "stopping"]
    /\ child' = [child EXCEPT ![Current] = IF @ = "alive" THEN "signalled" ELSE @]
    /\ waiting' = TRUE /\ killTimer' = TRUE
    /\ UNCHANGED <<main, timers, pos, history>>

\* Mutant: shutdown does not await the stops.
StopUnawaited ==
    /\ main = "stopping" /\ pos \in 1..Len(shutdownOrder)
    /\ status' = [status EXCEPT ![Current] = "stopping"]
    /\ child' = [child EXCEPT ![Current] = IF @ = "alive" THEN "signalled" ELSE @]
    /\ pos' = pos + 1
    /\ UNCHANGED <<main, timers, waiting, killTimer, history>>

\* stop of the next service: SIGTERM and await its exit, or nothing to stop
Stop ==
    /\ main = "stopping" /\ ~waiting /\ pos \in 1..Len(shutdownOrder)
    /\ IF child[Current] = "none"
       THEN /\ status' = [status EXCEPT ![Current] = "stopped"]
            /\ pos' = pos + 1
            /\ UNCHANGED <<child, waiting, killTimer>>
       ELSE /\ status' = [status EXCEPT ![Current] = "stopping"]
            /\ child' = [child EXCEPT ![Current] = IF @ = "alive" THEN "signalled" ELSE @]
            /\ waiting' = TRUE /\ killTimer' = TRUE
            /\ UNCHANGED pos
    /\ UNCHANGED <<main, timers, history>>

\* five seconds later: SIGKILL unless proc.killed.  Node sets killed when a
\* signal has been sent, whichever and whatever the process made of it.
KillTimer ==
    /\ killTimer
    /\ killTimer' = FALSE
    /\ child' = [child EXCEPT ![Current] = IF @ = "alive" THEN "killed" ELSE @]
    /\ UNCHANGED <<main, status, timers, pos, waiting, history>>

\* every stop has returned: process.exit(0)
Exit ==
    /\ main = "stopping" /\ pos > Len(shutdownOrder)
    /\ main' = "gone"
    /\ UNCHANGED <<child, status, timers, pos, waiting, killTimer, history>>

-----------------------------------------------------------------------------
(* The environment.                                                        *)

\* a service exits, and the stop that waits for it returns
ServiceExits(v, clean) ==
    /\ Running(v) /\ main # "gone"
    /\ OnExit(v, clean)
    /\ IF waiting /\ v = Current
       THEN waiting' = FALSE /\ killTimer' = FALSE /\ pos' = pos + 1
       ELSE UNCHANGED <<waiting, killTimer, pos>>
    /\ UNCHANGED main

Crash(v) ==
    /\ crashes < MaxCrashes
    /\ crashes' = crashes + 1
    /\ \E clean \in BOOLEAN :
        /\ ServiceExits(v, clean)
        /\ crashed' = [crashed EXCEPT ![v] = ~clean]

ObeysSignal(v) ==
    /\ child[v] = "killed" \/ (child[v] = "signalled" /\ v \notin Stubborn)
    /\ ServiceExits(v, TRUE)
    /\ UNCHANGED history

\* killed, no healthy worker manager in time, or signalled before it is ready
SupervisorDies ==
    /\ Faults
    /\ main # "gone"
    /\ main' = "gone"
    /\ UNCHANGED <<child, status, timers, pos, waiting, killTimer, history>>

-----------------------------------------------------------------------------
Init ==
    /\ main = "boot"
    /\ child = [v \in Services |-> "none"]
    /\ status = [v \in Services |-> "stopped"]
    /\ timers = [v \in Services |-> 0]
    /\ pos = 0
    /\ waiting = FALSE /\ killTimer = FALSE
    /\ crashes = 0
    /\ crashed = [v \in Services |-> FALSE]

ShutdownStep == WorkersReconciled \/ Stop \/ Exit

Next ==
    \/ Boot \/ Ready \/ Shutdown \/ ShutdownStep \/ KillTimer \/ SupervisorDies
    \/ \E v \in Services : RestartTimer(v) \/ Crash(v) \/ ObeysSignal(v)

Spec == Init /\ [][Next]_vars

\* Timers fire, awaits that are settled return, the request to the worker
\* manager is answered or fails, and a service that obeys signals exits.
FairSpec ==
    /\ Spec
    /\ WF_vars(ShutdownStep)
    /\ \A v \in Services : WF_vars(RestartTimer(v)) /\ WF_vars(ObeysSignal(v))

-----------------------------------------------------------------------------
(* Properties.                                                             *)

TypeOK ==
    /\ main \in {"boot", "waiting", "ready", "stopping", "gone"}
    /\ child \in [Services -> Processes]
    /\ status \in [Services -> {"running", "stopping", "stopped", "error"}]
    /\ timers \in [Services -> 0..1]
    /\ pos \in 0..(Len(startupOrder) + 1)
    /\ waiting \in BOOLEAN /\ killTimer \in BOOLEAN
    /\ crashes \in 0..MaxCrashes
    /\ crashed \in [Services -> BOOLEAN]

\* "exited cleanly (code=0). Not restarting": no restart timer of an earlier
\* crash brings a service back that has exited cleanly since.
CleanExitIsFinal ==
    [][\A v \in Services :
          main = "ready" /\ status[v] = "stopped" => status'[v] = "stopped"]_vars

\* nothing is left of v, or the restart timer of a crash has brought it back
Down(v) == child[v] = "none" \/ (child[v] \in Spawned /\ crashes > 0)

\* A service is stopped only when those that depend on it are gone: all that come
\* before it in shutdownOrder have exited, save one that the restart timer of an
\* earlier crash has brought back since (which process.exit then leaves behind).
StoppedStayDown ==
    \A i \in DOMAIN shutdownOrder : i < pos => Down(shutdownOrder[i])

\* what comes before v in shutdownOrder
Before(v) ==
    {shutdownOrder[i] : i \in {k \in DOMAIN shutdownOrder :
        \E j \in DOMAIN shutdownOrder : k < j /\ shutdownOrder[j] = v}}

\* No service is signalled while one is there that depends on it, and the
\* supervisor exits of itself only when none is there; all but those brought back.
SignalsInOrder ==
    [][/\ \A v \in Services : child[v] = "alive" /\ child'[v] \in {"signalled", "killed"}
             => \A u \in Before(v) : Down(u)
       /\ main = "stopping" /\ main' = "gone" /\ ~Faults => \A v \in Services : Down(v)]_vars

\* A service that has crashed is started once more, unless the supervisor shuts
\* down.  There is no third attempt when that one finds no entry file or fails to
\* spawn a process.
CrashedRestarted ==
    \A v \in Services : crashed[v] ~> (~crashed[v] \/ main \in {"stopping", "gone"})

\* Shutdown comes to an end when every service obeys SIGTERM, also when some of
\* them crash, have crashed or are restarted meanwhile; but not when a service
\* could not be spawned, whose exit stop awaits.
ShutdownEnds ==
    main = "stopping" ~> main = "gone" \/ \E v \in Services : child[v] = "unspawned"

\* "Force killing <service> after graceful timeout": a service that is there
\* when the timer of its stop has fired has been sent SIGKILL.  False of the
\* code (README, section 6).
ForceKilledAfterTimeout ==
    waiting /\ ~killTimer /\ Running(Current) => child[Current] = "killed"
=============================================================================
