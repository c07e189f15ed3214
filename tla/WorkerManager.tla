--------------------------- MODULE WorkerManager ---------------------------
(***************************************************************************)
(* The worker manager (packages/worker-manager/src): a service that keeps  *)
(* a pool of worker processes running.  It starts and stops them on        *)
(* request, reconciles the pool to a size, restarts workers that exit, and *)
(* stops them all when it is told to shut down.                            *)
(*                                                                         *)
(* One Node process: code runs from await to await.  What it awaits is a   *)
(* put of a worker's record or the exit event of a child.  The listeners   *)
(* of a child are attached after the put that follows the spawn, so an     *)
(* exit before that is never heard (and neither is the spawn event, which  *)
(* Node emits on the next tick: the status "running" is never written).    *)
(***************************************************************************)
EXTENDS Integers, FiniteSets

CONSTANTS
    MaxWorkers,     \* bound: the ids are worker-1 .. worker-MaxWorkers
    Children,       \* child processes; a dead and forgotten one is reused
    Requests,       \* request slots: how many requests are served at once
    Ports,          \* workerPortRangeStart .. workerPortRangeEnd
    Preferred,      \* the ports that start requests ask for
    Desired,        \* resolveDesiredWorkerCount
    None,           \* no child, no port
    Faults          \* whether puts fail and the manager is killed

Workers == 1..MaxWorkers

ASSUME PoolAssumption ==
    /\ MaxWorkers \in Nat \ {0}
    /\ Desired \in 0..MaxWorkers
    /\ Faults \in BOOLEAN
    /\ Ports \subseteq Nat
    /\ Preferred \subseteq Nat

ASSUME NoneAssumption == None \notin Children \cup Nat

VARIABLES
    phase,      \* of the manager: "down", "starting", "up" or "closing"
    alive,      \* the children that run
    orphans,    \* those of them that an earlier manager left behind
    owner,      \* owner[c]: the worker id child c was spawned for
    opening,    \* children whose first record is being put
    heard,      \* children whose listeners are attached
    control,    \* controls: the child of each id, and whether it should run
    status,     \* records: the status, "none" for an id with no record
    port,       \* records: the port
    timer,      \* restartTimers: the ids with a restart pending
    req         \* req[s]: the request in slot s

vars == <<phase, alive, orphans, owner, opening, heard, control, status, port,
          timer, req>>
store == <<phase, alive, orphans, owner, opening, heard, port>>

-----------------------------------------------------------------------------
Control == [process : Children \cup {None}, expected : BOOLEAN]
NoControl == [process |-> None, expected |-> FALSE]
Statuses == {"none", "starting", "stopping", "stopped", "error"}

\* stage: the put or event it awaits; worker, child: of the stop or spawn it is
\* at; rest: the ids it has yet to stop; want: the ids it has yet to see running
Request ==
    [kind : {"start", "stop", "reconcile", "boot", "close"},
     stage : {"free", "spawning", "stopping", "waiting", "stopped"},
     worker : Workers \cup {None}, child : Children \cup {None},
     rest : SUBSET Workers, want : SUBSET Workers]
Fresh(kind, rest, want) ==
    [kind |-> kind, stage |-> "stopped", worker |-> None, child |-> None,
     rest |-> rest, want |-> want]
IdleSlot == [Fresh("stop", {}, {}) EXCEPT !.stage = "free"]

Free(s) == req[s].stage = "free"
At(s, stage) == req[s].stage = stage

\* A child id that names no process anything in the manager refers to.
Unused(c) ==
    /\ c \notin alive \cup opening
    /\ \A w \in Workers : control[w].process # c
    /\ \A s \in Requests : req[s].child # c

\* The ids of records and controls; a control that is as new changes nothing.
Known == {w \in Workers : status[w] # "none" \/ control[w].expected}

-----------------------------------------------------------------------------
(* The manager's process ends: its children run on.  The next open() reads *)
(* the records back as stopped; a first put in flight may be lost.         *)

ManagerGone ==
    /\ phase' = "down"
    /\ orphans' = alive
    /\ opening' = {}
    /\ heard' = {}
    /\ control' = [w \in Workers |-> NoControl]
    /\ timer' = {}
    /\ req' = [s \in Requests |-> IdleSlot]
    /\ \E lost \in SUBSET {owner[c] : c \in opening} :
        /\ status' = [w \in Workers |->
               IF status[w] = "none" \/ w \in lost THEN "none" ELSE "stopped"]
        /\ port' = [w \in Workers |-> IF w \in lost THEN None ELSE port[w]]
    /\ UNCHANGED <<alive, owner>>

-----------------------------------------------------------------------------
(* spawnWorker.                                                            *)

Lowest(ps) == {p \in ps : \A q \in ps : p <= q}

\* The port a worker gets, the empty set when there is none.
reservePort(w, preferred) ==
    IF port[w] # None THEN {port[w]}
    ELSE IF preferred \in Ports THEN {preferred}
    ELSE Lowest(Ports \ {port[v] : v \in Workers})

\* spawnWorker up to its put; ctl: controls as the caller left them
Spawn(w, c, preferred, ctl) ==
    /\ Unused(c)
    /\ \E p \in reservePort(w, preferred) : port' = [port EXCEPT ![w] = p]
    /\ alive' = alive \cup {c}
    /\ owner' = [owner EXCEPT ![c] = w]
    /\ opening' = opening \cup {c}
    /\ heard' = heard \ {c}
    /\ control' = [ctl EXCEPT ![w] = [process |-> c, expected |-> TRUE]]
    /\ status' = [status EXCEPT ![w] = "starting"]
    /\ timer' = timer \ {w}
    /\ UNCHANGED <<phase, orphans>>

\* Mutant: the listeners are attached in time for the spawn event.
OpenedRunning(c) ==
    /\ c \in opening
    /\ opening' = opening \ {c}
    /\ heard' = heard \cup {c}
    /\ status' = [status EXCEPT ![owner[c]] = "running"]
    /\ UNCHANGED <<phase, alive, orphans, owner, control, port, timer, req>>

\* The put is done: the listeners are attached, and spawnWorker returns.
Opened(c) ==
    /\ c \in opening
    /\ opening' = opening \ {c}
    /\ heard' = heard \cup {c}
    /\ UNCHANGED <<phase, alive, orphans, owner, control, status, port, timer, req>>

\* Mutant: the timer is forgotten, the worker is not spawned.
TimerFiresIdly(w, c) ==
    /\ w \in timer
    /\ control[w].process = None
    /\ Unused(c)
    /\ timer' = timer \ {w}
    /\ UNCHANGED <<store, control, status, req>>

\* The restart timer: spawnWorker once more, with the port of before.
TimerFires(w, c) ==
    /\ w \in timer
    /\ control[w].process = None
    /\ Spawn(w, c, port[w], control)
    /\ UNCHANGED req

-----------------------------------------------------------------------------
(* Requests, from one await to the next.                                   *)

\* Mutant: the stopped worker is still expected to run.
BeginStopExpected(s, r, w, timers) ==
    LET child == control[w].process IN
    /\ w \in r.rest
    /\ timer' = timers \ {w}
    /\ status' = [status EXCEPT ![w] = IF child # None THEN "stopping"
                                       ELSE IF @ = "none" THEN @ ELSE "stopped"]
    /\ req' = [req EXCEPT ![s] =
           [r EXCEPT !.rest = @ \ {w}, !.worker = w, !.child = child,
                     !.stage = IF child = None THEN "stopped" ELSE "stopping"]]
    /\ UNCHANGED control

\* Mutant: the record is put as stopped at once.
BeginStopAtOnce(s, r, w, timers) ==
    LET child == control[w].process IN
    /\ w \in r.rest
    /\ timer' = timers \ {w}
    /\ control' = [control EXCEPT ![w].expected = FALSE]
    /\ status' = [status EXCEPT ![w] = IF @ = "none" THEN @ ELSE "stopped"]
    /\ req' = [req EXCEPT ![s] =
           [r EXCEPT !.rest = @ \ {w}, !.worker = w, !.child = child,
                     !.stage = IF child = None THEN "stopped" ELSE "stopping"]]

\* stopWorker up to its first put
BeginStop(s, r, w, timers) ==
    LET child == control[w].process IN
    /\ w \in r.rest
    /\ timer' = timers \ {w}
    /\ control' = [control EXCEPT ![w].expected = FALSE]
    /\ status' = [status EXCEPT ![w] = IF child # None THEN "stopping"
                                       ELSE IF @ = "none" THEN @ ELSE "stopped"]
    /\ req' = [req EXCEPT ![s] =
           [r EXCEPT !.rest = @ \ {w}, !.worker = w, !.child = child,
                     !.stage = IF child = None THEN "stopped" ELSE "stopping"]]

\* The request is over: a boot makes the service listen.
Finish(s, kind) ==
    /\ req' = [req EXCEPT ![s] = IdleSlot]
    /\ phase' = IF kind = "boot" THEN "up" ELSE phase

\* It is rejected: a boot or a close that fails ends the process all the same.
Reject(s) ==
    IF req[s].kind \in {"boot", "close"} THEN ManagerGone
    ELSE /\ req' = [req EXCEPT ![s] = IdleSlot]
         /\ UNCHANGED <<store, control, status, timer>>

\* reconcileWorkers' second loop up to its next put: the ids with a process are
\* passed over, the first without one is spawned; with no port it throws.
Ensure(s, r) ==
    LET missing == {w \in r.want : control[w].process = None}
        Passed(ws) == [w \in Workers |-> [control[w] EXCEPT
                                            !.expected = @ \/ w \in ws]]
    IN  IF missing = {}
        THEN /\ control' = Passed(r.want)
             /\ Finish(s, r.kind)
             /\ UNCHANGED <<alive, orphans, owner, opening, heard, status, port, timer>>
        ELSE \E w \in Lowest(missing) :
            LET passed == {v \in r.want : v <= w} IN
            IF phase # "closing" /\ reservePort(w, None) # {}
            THEN \E c \in Children :
                 /\ Spawn(w, c, None, Passed(passed))
                 /\ req' = [req EXCEPT ![s] =
                        [r EXCEPT !.stage = "spawning", !.worker = w, !.child = c,
                                  !.want = @ \ passed]]
            ELSE IF r.kind = "boot" THEN ManagerGone
            ELSE /\ control' = Passed(passed)
                 /\ req' = [req EXCEPT ![s] = IdleSlot]
                 /\ UNCHANGED <<store, status, timer>>

\* What request r does next, once the stop or spawn it was at has returned.
Continue(s, r) ==
    IF r.rest # {}
    THEN \E w \in r.rest : BeginStop(s, r, w, timer) /\ UNCHANGED store
    ELSE IF r.want # {} THEN Ensure(s, r)
    ELSE IF r.kind = "close" THEN ManagerGone
    ELSE /\ Finish(s, r.kind)
         /\ UNCHANGED <<alive, orphans, owner, opening, heard, control, status, port, timer>>

-----------------------------------------------------------------------------
(* Calls.  The service listens from the end of its boot until it exits.    *)

Listening == phase \in {"up", "closing"}

\* main: open, then reconcileWorkers(Desired), then listen
Boot(s) ==
    /\ phase = "down"
    /\ phase' = "starting"
    /\ req' = [req EXCEPT ![s] = Fresh("boot", Known \ 1..Desired, 1..Desired)]
    /\ UNCHANGED <<alive, orphans, owner, opening, heard, control, status, port, timer>>

\* Mutant: spawnWorker does not look for a running child.
StartCallUnchecked(w, preferred, s) ==
    /\ Free(s) /\ phase = "up"
    /\ \E c \in Children :
        /\ Spawn(w, c, preferred, control)
        /\ req' = [req EXCEPT ![s] = [Fresh("start", {}, {}) EXCEPT
                      !.stage = "spawning", !.worker = w, !.child = c]]

\* startWorker; it changes nothing when the worker has a process
StartCall(w, preferred, s) ==
    /\ Free(s) /\ phase = "up"
    /\ control[w].process = None
    /\ \E c \in Children :
        /\ Spawn(w, c, preferred, control)
        /\ req' = [req EXCEPT ![s] = [Fresh("start", {}, {}) EXCEPT
                      !.stage = "spawning", !.worker = w, !.child = c]]

StopCall(w, s) ==
    /\ Free(s) /\ Listening
    /\ Continue(s, Fresh("stop", {w}, {}))

ReconcileCall(n, s) ==
    /\ Free(s) /\ Listening
    /\ n <= Cardinality(Ports)
    /\ Continue(s, Fresh("reconcile", Known \ 1..n, 1..n))

\* Mutant: close does not set shuttingDown.
CloseCallStillUp(s) ==
    /\ Free(s) /\ phase = "up"
    /\ LET r == Fresh("close", Known, {}) IN
       IF Known = {} THEN ManagerGone
       ELSE \E w \in Known :
            /\ BeginStop(s, r, w, {})
            /\ UNCHANGED store

\* close, on SIGTERM or SIGINT: no timers, no more spawns, then every stop.
\* A second signal runs it again beside the first.
CloseCall(s) ==
    /\ Free(s) /\ Listening
    /\ LET r == Fresh("close", Known, {}) IN
       IF Known = {} THEN ManagerGone
       ELSE \E w \in Known :
            /\ BeginStop(s, r, w, {})
            /\ phase' = "closing"
            /\ UNCHANGED <<alive, orphans, owner, opening, heard, port>>

\* the put of "stopping" is done: listen once for the exit, and signal the child
\* (the timer set here sends SIGKILL unless child.killed, which this signal sets)
Signal(s) ==
    /\ At(s, "stopping")
    /\ req' = [req EXCEPT ![s].stage = "waiting"]
    /\ UNCHANGED <<store, control, status, timer>>

\* the put of "stopped" is done, or spawnWorker has returned
Resume(s) ==
    /\ At(s, "stopped") \/ (At(s, "spawning") /\ req[s].child \notin opening)
    /\ Continue(s, req[s])

-----------------------------------------------------------------------------
(* The environment.                                                        *)

\* Child c exits, crashed or signalled.  If the listener is attached: forget the
\* process, and restart the worker later if it should run.  Then the stops that
\* wait for this exit go on, in the same turn of the event loop.
ChildExit(c) ==
    LET w == owner[c]
        told == c \in heard
        restart == told /\ control[w].expected /\ phase # "closing"
        waiters == {s \in Requests : At(s, "waiting") /\ req[s].child = c}
    IN
    /\ c \in alive
    /\ alive' = alive \ {c}
    /\ orphans' = orphans \ {c}
    /\ control' = [control EXCEPT ![w] =
           [process |-> IF told \/ waiters # {} THEN None ELSE @.process,
            expected |-> @.expected /\ waiters = {}]]
    /\ status' = [status EXCEPT ![w] =
           IF waiters # {} THEN "stopped"
           ELSE IF restart THEN "error" ELSE IF told THEN "stopped" ELSE @]
    /\ timer' = IF restart THEN timer \cup {w} ELSE timer
    /\ req' = [s \in Requests |-> IF s \in waiters
                                  THEN [req[s] EXCEPT !.stage = "stopped"] ELSE req[s]]
    /\ UNCHANGED <<phase, owner, opening, heard, port>>

\* A put of a stop fails.
StopPutFails(s) ==
    /\ Faults
    /\ At(s, "stopping") \/ At(s, "stopped")
    /\ Reject(s)

\* The put of a spawn fails: its listeners are never attached.
SpawnPutFails(c) ==
    /\ Faults
    /\ c \in opening
    /\ IF \E s \in Requests : At(s, "spawning") /\ req[s].child = c /\ req[s].kind = "boot"
       THEN ManagerGone
       ELSE /\ opening' = opening \ {c}
            /\ req' = [s \in Requests |->
                          IF At(s, "spawning") /\ req[s].child = c
                          THEN IdleSlot ELSE req[s]]
            /\ UNCHANGED <<phase, alive, orphans, owner, heard, control, status, port, timer>>

\* SIGKILL, an uncaught error, or a SIGTERM before the handlers are set
ManagerDies ==
    /\ Faults
    /\ phase # "down"
    /\ ManagerGone

-----------------------------------------------------------------------------
Init ==
    /\ phase = "down"
    /\ alive = {} /\ orphans = {} /\ opening = {} /\ heard = {}
    /\ owner = [c \in Children |-> 1]
    /\ control = [w \in Workers |-> NoControl]
    /\ status = [w \in Workers |-> "none"]
    /\ port = [w \in Workers |-> None]
    /\ timer = {}
    /\ req = [s \in Requests |-> IdleSlot]

Request_(s) ==
    \/ Boot(s) \/ CloseCall(s) \/ Signal(s) \/ Resume(s)
    \/ \E w \in Workers :
        \/ StopCall(w, s)
        \/ \E preferred \in Preferred \cup {None} : StartCall(w, preferred, s)
    \/ \E n \in 0..MaxWorkers : ReconcileCall(n, s)

Next ==
    \/ \E s \in Requests : Request_(s) \/ StopPutFails(s)
    \/ \E c \in Children : Opened(c) \/ ChildExit(c) \/ SpawnPutFails(c)
    \/ \E w \in Workers, c \in Children : TimerFires(w, c)
    \/ ManagerDies

Spec == Init /\ [][Next]_vars

\* Puts end, the event loop fires the timers that are due and runs what is
\* resumed; no child need ever exit.
FairSpec ==
    /\ Spec
    /\ \A c \in Children : WF_vars(Opened(c))
    /\ \A s \in Requests : WF_vars(Resume(s))
    /\ \A w \in Workers : WF_vars(\E c \in Children : TimerFires(w, c))

-----------------------------------------------------------------------------
(* Properties.                                                             *)

TypeOK ==
    /\ phase \in {"down", "starting", "up", "closing"}
    /\ alive \subseteq Children
    /\ orphans \subseteq alive
    /\ owner \in [Children -> Workers]
    /\ opening \subseteq Children
    /\ heard \subseteq Children
    /\ control \in [Workers -> Control]
    /\ status \in [Workers -> Statuses]
    /\ port \in [Workers -> Nat \cup {None}]
    /\ timer \subseteq Workers
    /\ req \in [Requests -> Request]

\* A manager never runs two processes for one worker id, however starts, stops,
\* reconciliations, restart timers, crashes and failing puts interleave.
OneChildPerWorker ==
    \A c, d \in alive \ orphans : owner[c] = owner[d] => c = d

\* What the records say and what the controls hold agree: a record is starting
\* or stopping exactly while the id has a process.
StatusMatchesControl ==
    \A w \in Workers :
        status[w] \in {"starting", "stopping"} <=> control[w].process # None

\* An id that should run, has had a port and has no process has its restart timer
\* pending, whatever was stopped or reconciled and whatever failed meanwhile.  (A
\* process that exits before its listeners are attached stays in the control, and
\* is not restarted; an id without a port has not been spawned.)
RestartPending ==
    \A w \in Workers :
        /\ phase # "closing" /\ control[w].expected /\ control[w].process = None
        /\ port[w] # None
        => w \in timer

\* Without faults a manager that was told to shut down leaves no child behind,
\* although it serves requests until it exits.
NoOrphans == orphans = {}

\* A worker that should run and has crashed is spawned again, unless it is
\* stopped or the manager closes first.
CrashedRestarted ==
    \A w \in Workers :
        status[w] = "error" ~> (status[w] # "error" \/ phase = "closing")
=============================================================================
