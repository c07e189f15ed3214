------------------------ MODULE WorkerManagerProofs ------------------------
(***************************************************************************)
(* Proofs about WorkerManager, for any number of worker ids, children and  *)
(* requests.                                                               *)
(*                                                                         *)
(* PoolInv is the inductive invariant: a live child that this manager      *)
(* spawned is the process of its id, so a second one can only be spawned   *)
(* once the first has exited.  CloseInv adds what a shutdown relies on:    *)
(* every close still has before it, or is stopping, each id whose process  *)
(* is not dead.  BootInv: no request is served by a manager that is down,  *)
(* and only its one boot by a manager that starts.                         *)
(***************************************************************************)
EXTENDS WorkerManager, FiniteSetTheorems, TLAPS

OwnProcess == \A c \in alive \ orphans : control[owner[c]].process = c

ProcessOwned ==
    \A w \in Workers :
        LET c == control[w].process IN
        c # None => owner[c] = w /\ c \notin orphans

OrphansForgotten ==
    /\ heard \cap orphans = {}
    /\ \A s \in Requests : req[s].child \notin orphans

OpeningOwned == opening \cap orphans = {}

TimerIdle == \A w \in timer : control[w].process = None

PoolInv ==
    /\ TypeOK
    /\ OwnProcess
    /\ ProcessOwned
    /\ OrphansForgotten
    /\ OpeningOwned
    /\ TimerIdle
    /\ StatusMatchesControl

\* A request of the stated kind is being served in slot s.
Busy(s, kind) == ~Free(s) /\ req[s].kind = kind

BootInv ==
    /\ phase = "down" => \A s \in Requests : Free(s)
    /\ \A s \in Requests : Busy(s, "boot") => phase = "starting"
    /\ \A r, s \in Requests : Busy(r, "boot") /\ Busy(s, "boot") => r = s

\* The id is the one whose process the close in slot s is stopping.
Stopping(s, w) == /\ req[s].stage # "stopped"
                  /\ req[s].worker = w /\ req[s].child = control[w].process

CloseInv ==
    /\ \A s \in Requests :
         Busy(s, "close") => /\ phase = "closing" /\ req[s].want = {}
                             /\ req[s].stage # "spawning"
    /\ phase = "closing" =>
        /\ timer = {}
        /\ \A w \in Workers, s \in Requests :
             Busy(s, "close") /\ control[w].process # None
               => w \in req[s].rest \/ Stopping(s, w)

ShutdownInv == PoolInv /\ BootInv /\ CloseInv /\ NoOrphans

-----------------------------------------------------------------------------
(* The parts the actions are built from keep PoolInv.                      *)

LEMMA FreshRequest ==
    ASSUME NEW rest \in SUBSET Workers, NEW want \in SUBSET Workers,
           NEW kind \in {"start", "stop", "reconcile", "boot", "close"}
    PROVE  /\ Fresh(kind, rest, want) \in Request
           /\ IdleSlot \in Request
BY DEF Fresh, IdleSlot, Request

LEMMA GonePool ==
    ASSUME PoolInv, ManagerGone
    PROVE  PoolInv'
<1> USE DEF PoolInv, ManagerGone
<1>1. IdleSlot \in Request /\ IdleSlot.child = None
  BY DEF Fresh, IdleSlot, Request
<1>2. TypeOK'
  BY <1>1 DEF TypeOK, Control, NoControl, Statuses
<1>3. OwnProcess' /\ ProcessOwned' /\ TimerIdle' /\ OpeningOwned'
  BY DEF OwnProcess, ProcessOwned, OpeningOwned, TimerIdle, TypeOK, NoControl
<1>4. OrphansForgotten'
  BY <1>1, NoneAssumption DEF OrphansForgotten, TypeOK
<1>5. StatusMatchesControl'
  BY DEF StatusMatchesControl, TypeOK, NoControl
<1> QED
  BY <1>2, <1>3, <1>4, <1>5

LEMMA PortReserved ==
    ASSUME TypeOK, NEW w \in Workers, NEW preferred, NEW p \in reservePort(w, preferred)
    PROVE  p \in Nat
BY PoolAssumption DEF TypeOK, reservePort, Lowest

LEMMA SpawnPool ==
    ASSUME PoolInv,
           NEW w \in Workers, NEW c \in Children, NEW preferred,
           NEW ctl \in [Workers -> Control],
           \A v \in Workers : ctl[v].process = control[v].process,
           control[w].process = None,
           Spawn(w, c, preferred, ctl),
           req' \in [Requests -> Request],
           \A s \in Requests : req'[s].child \in {c, req[s].child}
    PROVE  PoolInv'
<1> USE DEF PoolInv, Spawn
<1>1. TypeOK'
  <2>1. port' \in [Workers -> Nat \cup {None}]
    BY PortReserved DEF TypeOK
  <2>2. control' \in [Workers -> Control]
    BY DEF Control
  <2> QED
    BY <2>1, <2>2 DEF TypeOK, Statuses
<1>2. /\ \A v \in Workers \ {w} : control'[v].process = control[v].process
      /\ control'[w].process = c
  BY DEF TypeOK, Control
<1>3. OwnProcess'
  <2>1. ASSUME NEW d \in alive \ orphans
        PROVE  control'[owner'[d]].process = d
    <3>1. control[owner[d]].process = d /\ d # None /\ d # c /\ owner[d] \in Workers
      BY NoneAssumption DEF OwnProcess, TypeOK, Unused
    <3>2. owner'[d] = owner[d] /\ owner[d] # w
      BY <3>1 DEF TypeOK
    <3> QED
      BY <1>2, <3>1, <3>2
  <2>2. control'[owner'[c]].process = c
    BY <1>2 DEF TypeOK
  <2>3. alive' \ orphans' \subseteq (alive \ orphans) \cup {c}
    OBVIOUS
  <2> QED
    BY <2>1, <2>2, <2>3 DEF OwnProcess
<1>4. ProcessOwned'
  BY <1>2, NoneAssumption DEF ProcessOwned, Unused, TypeOK
<1>5. OrphansForgotten' /\ OpeningOwned'
  <2>1. c \notin orphans
    BY DEF Unused, TypeOK
  <2>2. orphans' = orphans /\ heard' = heard \ {c} /\ opening' = opening \cup {c}
    OBVIOUS
  <2> QED
    BY <2>1, <2>2 DEF OrphansForgotten, OpeningOwned
<1>6. TimerIdle'
  BY <1>2 DEF TimerIdle, TypeOK
<1>7. StatusMatchesControl'
  BY <1>2, NoneAssumption DEF StatusMatchesControl, TypeOK
<1> QED
  BY <1>1, <1>3, <1>4, <1>5, <1>6, <1>7

LEMMA BeginStopPool ==
    ASSUME PoolInv,
           NEW s \in Requests, NEW r \in Request, NEW w \in Workers,
           NEW timers \in SUBSET timer,
           BeginStop(s, r, w, timers),
           UNCHANGED <<alive, orphans, owner, opening, heard, port>>,
           phase' \in {phase, "closing"}
    PROVE  PoolInv'
<1> USE DEF PoolInv, BeginStop
<1>1. /\ \A v \in Workers : control'[v].process = control[v].process
      /\ control' \in [Workers -> Control]
  BY DEF TypeOK, Control
<1>2. control[w].process \in Children \cup {None}
  BY DEF TypeOK, Control
<1>3. TypeOK'
  BY <1>1, <1>2 DEF TypeOK, Request, Statuses
<1>4. OwnProcess' /\ ProcessOwned' /\ TimerIdle' /\ OpeningOwned'
  BY <1>1 DEF OwnProcess, ProcessOwned, OpeningOwned, TimerIdle, TypeOK
<1>5. OrphansForgotten'
  <2>1. control[w].process \notin orphans
    BY <1>2, NoneAssumption DEF ProcessOwned, TypeOK
  <2>2. req'[s].child = control[w].process
    BY DEF TypeOK, Request
  <2> QED
    BY <2>1, <2>2 DEF OrphansForgotten, TypeOK
<1>6. StatusMatchesControl'
  BY <1>1 DEF StatusMatchesControl, TypeOK
<1> QED
  BY <1>3, <1>4, <1>5, <1>6

LEMMA EnsurePool ==
    ASSUME PoolInv, NEW s \in Requests, NEW r \in Request, Ensure(s, r)
    PROVE  PoolInv'
<1> DEFINE missing == {w \in r.want : control[w].process = None}
           Passed(ws) == [w \in Workers |-> [control[w] EXCEPT
                                               !.expected = @ \/ w \in ws]]
<1>1. \A ws : /\ Passed(ws) \in [Workers -> Control]
              /\ \A v \in Workers : Passed(ws)[v].process = control[v].process
  BY DEF PoolInv, TypeOK, Control
<1>2. IdleSlot \in Request /\ IdleSlot.child = None
  BY DEF Fresh, IdleSlot, Request
<1>3. ASSUME NEW ws, control' = Passed(ws),
             UNCHANGED <<alive, orphans, owner, opening, heard, status, port, timer>>,
             phase' \in {phase, "up"},
             req' = [req EXCEPT ![s] = IdleSlot]
      PROVE  PoolInv'
  <2>1. \A v \in Workers : control'[v].process = control[v].process
    BY <1>1, <1>3
  <2>2. TypeOK'
    BY <1>1, <1>2, <1>3 DEF PoolInv, TypeOK
  <2>3. OrphansForgotten'
    BY <1>2, <1>3, NoneAssumption DEF PoolInv, OrphansForgotten, TypeOK
  <2> QED
    BY <1>3, <2>1, <2>2, <2>3
    DEF PoolInv, OwnProcess, ProcessOwned, OpeningOwned, TimerIdle, StatusMatchesControl, TypeOK
<1>4. CASE missing = {}
  BY <1>3, <1>4 DEF Ensure, Finish
<1>5. CASE missing # {}
  <2>1. PICK w \in Lowest(missing) :
          LET passed == {v \in r.want : v <= w} IN
          IF phase # "closing" /\ reservePort(w, None) # {}
          THEN \E c \in Children :
               /\ Spawn(w, c, None, Passed(passed))
               /\ req' = [req EXCEPT ![s] =
                      [r EXCEPT !.stage = "spawning", !.worker = w, !.child = c,
                                !.want = @ \ passed]]
          ELSE IF r.kind = "boot" THEN ManagerGone
          ELSE /\ control' = Passed(passed)
               /\ req' = [req EXCEPT ![s] = IdleSlot]
               /\ UNCHANGED <<store, status, timer>>
    BY <1>5 DEF Ensure
  <2>2. w \in Workers /\ control[w].process = None
    BY DEF Lowest, Request
  <2> DEFINE passed == {v \in r.want : v <= w}
  <2>3. ASSUME NEW c \in Children,
               Spawn(w, c, None, Passed(passed)),
               req' = [req EXCEPT ![s] =
                      [r EXCEPT !.stage = "spawning", !.worker = w, !.child = c,
                                !.want = @ \ passed]]
        PROVE  PoolInv'
    <3>1. /\ req' \in [Requests -> Request]
          /\ \A q \in Requests : req'[q].child \in {c, req[q].child}
      BY <2>2, <2>3 DEF PoolInv, TypeOK, Request
    <3> HIDE DEF Passed, passed
    <3> QED
      BY <1>1, <2>2, <2>3, <3>1, SpawnPool
  <2>4. CASE r.kind = "boot" /\ ManagerGone
    BY <2>4, GonePool
  <2>5. CASE control' = Passed(passed) /\ req' = [req EXCEPT ![s] = IdleSlot]
             /\ UNCHANGED <<store, status, timer>>
    BY <1>3, <2>5 DEF store
  <2> QED
    BY <2>1, <2>3, <2>4, <2>5
<1> QED
  BY <1>4, <1>5

LEMMA ContinuePool ==
    ASSUME PoolInv, NEW s \in Requests, NEW r \in Request, Continue(s, r)
    PROVE  PoolInv'
<1>1. CASE r.rest # {}
  <2>1. PICK w \in r.rest : BeginStop(s, r, w, timer) /\ UNCHANGED store
    BY <1>1 DEF Continue
  <2>2. w \in Workers
    BY DEF Request
  <2> QED
    BY <2>1, <2>2, BeginStopPool DEF store
<1>2. CASE r.rest = {} /\ r.want # {}
  BY <1>2, EnsurePool DEF Continue
<1>3. CASE r.rest = {} /\ r.want = {} /\ r.kind = "close"
  BY <1>3, GonePool DEF Continue
<1>4. CASE r.rest = {} /\ r.want = {} /\ r.kind # "close"
  <2>1. IdleSlot \in Request /\ IdleSlot.child = None
    BY DEF Fresh, IdleSlot, Request
  <2>2. /\ req' = [req EXCEPT ![s] = IdleSlot]
        /\ phase' \in {phase, "up"}
        /\ UNCHANGED <<alive, orphans, owner, opening, heard, control, status, port, timer>>
    BY <1>4 DEF Continue, Finish
  <2>3. TypeOK' /\ OrphansForgotten'
    BY <2>1, <2>2, NoneAssumption DEF PoolInv, TypeOK, OrphansForgotten
  <2> QED
    BY <2>2, <2>3
    DEF PoolInv, OwnProcess, ProcessOwned, OpeningOwned, TimerIdle, StatusMatchesControl
<1> QED
  BY <1>1, <1>2, <1>3, <1>4

-----------------------------------------------------------------------------
(* PoolInv is inductive.                                                   *)

LEMMA PoolInit == Init => PoolInv
<1> SUFFICES ASSUME Init PROVE PoolInv
  OBVIOUS
<1>1. IdleSlot \in Request /\ IdleSlot.child = None
  BY DEF Fresh, IdleSlot, Request
<1>2. TypeOK
  BY <1>1, PoolAssumption DEF Init, TypeOK, Workers, Control, NoControl, Statuses
<1>3. OwnProcess /\ ProcessOwned /\ TimerIdle /\ OrphansForgotten /\ OpeningOwned
  BY <1>1 DEF Init, OwnProcess, OpeningOwned, ProcessOwned, TimerIdle, OrphansForgotten, NoControl
<1>4. StatusMatchesControl
  BY DEF Init, StatusMatchesControl, NoControl
<1> QED
  BY <1>2, <1>3, <1>4 DEF PoolInv

LEMMA RequestPool ==
    ASSUME PoolInv, NEW s \in Requests, Request_(s) \/ StopPutFails(s)
    PROVE  PoolInv'
<1>0. TypeOK /\ req[s] \in Request /\ Known \subseteq Workers
  BY DEF PoolInv, TypeOK, Known
<1>1. CASE Boot(s)
  <2>1. 1..Desired \subseteq Workers
    BY PoolAssumption DEF Workers
  <2>2. /\ Fresh("boot", Known \ 1..Desired, 1..Desired) \in Request
        /\ Fresh("boot", Known \ 1..Desired, 1..Desired).child = None
    BY <1>0, <2>1 DEF Fresh, Request
  <2>3. /\ phase' = "starting"
        /\ req' = [req EXCEPT ![s] = Fresh("boot", Known \ 1..Desired, 1..Desired)]
        /\ UNCHANGED <<alive, orphans, owner, opening, heard, control, status, port, timer>>
    BY <1>1 DEF Boot
  <2>4. TypeOK' /\ OrphansForgotten'
    BY <1>0, <2>2, <2>3, NoneAssumption DEF PoolInv, TypeOK, OrphansForgotten
  <2> QED
    BY <2>3, <2>4
    DEF PoolInv, OwnProcess, ProcessOwned, OpeningOwned, TimerIdle, StatusMatchesControl
<1>2. CASE CloseCall(s)
  <2>1. CASE Known = {}
    BY <1>2, <2>1, GonePool DEF CloseCall
  <2>2. CASE Known # {}
    <3>1. PICK w \in Known :
            /\ BeginStop(s, Fresh("close", Known, {}), w, {})
            /\ phase' = "closing"
            /\ UNCHANGED <<alive, orphans, owner, opening, heard, port>>
      BY <1>2, <2>2 DEF CloseCall
    <3>2. Fresh("close", Known, {}) \in Request
      BY <1>0, FreshRequest
    <3>3. w \in Workers /\ {} \in SUBSET timer
      BY <1>0
    <3> QED
      BY <3>1, <3>2, <3>3, BeginStopPool
  <2> QED
    BY <2>1, <2>2
<1>3. CASE Signal(s)
  <2>1. /\ req' = [req EXCEPT ![s].stage = "waiting"]
        /\ UNCHANGED <<store, control, status, timer>>
    BY <1>3 DEF Signal
  <2>2. req' \in [Requests -> Request] /\ \A q \in Requests : req'[q].child = req[q].child
    BY <1>0, <2>1 DEF TypeOK, Request
  <2> QED
    BY <2>1, <2>2
    DEF PoolInv, TypeOK, OwnProcess, ProcessOwned, OpeningOwned, OrphansForgotten, TimerIdle,
        StatusMatchesControl, store
<1>4. CASE Resume(s)
  BY <1>0, <1>4, ContinuePool DEF Resume
<1>5. ASSUME NEW w \in Workers, StopCall(w, s)
      PROVE  PoolInv'
  <2>1. Fresh("stop", {w}, {}) \in Request
    BY FreshRequest
  <2> QED
    BY <1>5, <2>1, ContinuePool DEF StopCall
<1>6. ASSUME NEW w \in Workers, NEW preferred \in Preferred \cup {None},
             StartCall(w, preferred, s)
      PROVE  PoolInv'
  <2>1. PICK c \in Children :
          /\ Spawn(w, c, preferred, control)
          /\ req' = [req EXCEPT ![s] = [Fresh("start", {}, {}) EXCEPT
                        !.stage = "spawning", !.worker = w, !.child = c]]
    BY <1>6 DEF StartCall
  <2>2. /\ req' \in [Requests -> Request]
        /\ \A q \in Requests : req'[q].child \in {c, req[q].child}
    BY <1>0, <2>1 DEF TypeOK, Fresh, Request
  <2>3. control[w].process = None /\ control \in [Workers -> Control]
    BY <1>0, <1>6 DEF StartCall, TypeOK
  <2> QED
    BY <2>1, <2>2, <2>3, SpawnPool
<1>7. ASSUME NEW n \in 0..MaxWorkers, ReconcileCall(n, s)
      PROVE  PoolInv'
  <2>1. 1..n \subseteq Workers
    BY PoolAssumption DEF Workers
  <2>2. Fresh("reconcile", Known \ 1..n, 1..n) \in Request
    BY <1>0, <2>1, FreshRequest
  <2> QED
    BY <1>7, <2>2, ContinuePool DEF ReconcileCall
<1>8. CASE StopPutFails(s)
  <2>1. CASE ManagerGone
    BY <2>1, GonePool
  <2>2. CASE /\ req' = [req EXCEPT ![s] = IdleSlot]
             /\ UNCHANGED <<store, control, status, timer>>
    <3>1. IdleSlot \in Request /\ IdleSlot.child = None
      BY DEF Fresh, IdleSlot, Request
    <3>2. TypeOK' /\ OrphansForgotten'
      BY <1>0, <2>2, <3>1, NoneAssumption
      DEF PoolInv, TypeOK, OrphansForgotten, store
    <3> QED
      BY <2>2, <3>2
      DEF PoolInv, OwnProcess, ProcessOwned, OpeningOwned, TimerIdle, StatusMatchesControl, store
  <2> QED
    BY <1>8, <2>1, <2>2 DEF StopPutFails, Reject
<1> QED
  BY <1>1, <1>2, <1>3, <1>4, <1>5, <1>6, <1>7, <1>8 DEF Request_

LEMMA ChildPool ==
    ASSUME PoolInv, NEW c \in Children,
           Opened(c) \/ ChildExit(c) \/ SpawnPutFails(c)
    PROVE  PoolInv'
<1>1. CASE Opened(c)
  <2> USE <1>1 DEF Opened
  <2>1. c \notin orphans
    BY DEF PoolInv, OpeningOwned
  <2> QED
    BY <2>1 DEF PoolInv, TypeOK, OwnProcess, ProcessOwned, OpeningOwned, OrphansForgotten, TimerIdle,
                StatusMatchesControl
<1>2. CASE ChildExit(c)
  <2> DEFINE w == owner[c]
             told == c \in heard
             waiters == {s \in Requests : At(s, "waiting") /\ req[s].child = c}
             restart == told /\ control[w].expected /\ phase # "closing"
             known == told \/ waiters # {}
  <2>0. /\ c \in alive
        /\ alive' = alive \ {c}
        /\ orphans' = orphans \ {c}
        /\ control' = [control EXCEPT ![w] =
               [process |-> IF told \/ waiters # {} THEN None ELSE @.process,
                expected |-> @.expected /\ waiters = {}]]
        /\ status' = [status EXCEPT ![w] =
               IF waiters # {} THEN "stopped"
               ELSE IF restart THEN "error" ELSE IF told THEN "stopped" ELSE @]
        /\ timer' = IF restart THEN timer \cup {w} ELSE timer
        /\ req' = [s \in Requests |-> IF s \in waiters
                                      THEN [req[s] EXCEPT !.stage = "stopped"] ELSE req[s]]
        /\ UNCHANGED <<phase, owner, opening, heard, port>>
    BY <1>2 DEF ChildExit
  <2>1. w \in Workers /\ TypeOK
    BY DEF PoolInv, TypeOK
  <2>2. known => c \notin orphans /\ control[w].process = c
    BY <2>0, <2>1 DEF PoolInv, OrphansForgotten, OwnProcess
  <2>3. /\ \A v \in Workers \ {w} : control'[v] = control[v] /\ status'[v] = status[v]
        /\ control'[w].process = IF known THEN None ELSE control[w].process
        /\ control' \in [Workers -> Control]
    <3> HIDE DEF w, told, waiters, restart
    <3> QED
      BY <2>0, <2>1 DEF TypeOK, Control
  <2>4. \A s \in Requests : req'[s] \in Request /\ req'[s].child = req[s].child
    <3> HIDE DEF waiters
    <3> QED
      BY <2>0, <2>1 DEF TypeOK, Request
  <2>5. TypeOK'
    <3>1. req' \in [Requests -> Request]
      <4> HIDE DEF waiters
      <4> QED
        BY <2>0, <2>4
    <3>2. status' \in [Workers -> Statuses]
      <4> HIDE DEF w, told, waiters, restart
      <4> QED
        BY <2>0, <2>1 DEF TypeOK, Statuses
    <3>3. timer' \subseteq Workers
      <4> HIDE DEF w, restart
      <4> QED
        BY <2>0, <2>1 DEF TypeOK
    <3> HIDE DEF w, told, waiters, restart
    <3> QED
      BY <2>0, <2>1, <2>3, <3>1, <3>2, <3>3 DEF TypeOK
  <2>6. OwnProcess'
    <3> HIDE DEF known
    <3> QED
      BY <2>0, <2>1, <2>2, <2>3 DEF PoolInv, OwnProcess, TypeOK
  <2>7. ProcessOwned'
    <3> HIDE DEF known
    <3> QED
      BY <2>0, <2>1, <2>3 DEF PoolInv, ProcessOwned
  <2>8. OrphansForgotten' /\ OpeningOwned'
    BY <2>0, <2>4 DEF PoolInv, OrphansForgotten, OpeningOwned
  <2>9. TimerIdle'
    <3>1. restart => known
      OBVIOUS
    <3> HIDE DEF known, restart
    <3> QED
      BY <2>0, <2>1, <2>3, <3>1 DEF PoolInv, TimerIdle, TypeOK
  <2>10. StatusMatchesControl'
    <3>1. known => status'[w] \in {"stopped", "error"}
      <4> HIDE DEF w
      <4> QED
        BY <2>0, <2>1 DEF TypeOK
    <3>2. ~known => status'[w] = status[w]
      <4> HIDE DEF w
      <4> QED
        BY <2>0, <2>1 DEF TypeOK
    <3> HIDE DEF known
    <3> QED
      BY <2>1, <2>3, <3>1, <3>2 DEF PoolInv, StatusMatchesControl
  <2> QED
    BY <2>5, <2>6, <2>7, <2>8, <2>9, <2>10 DEF PoolInv
<1>3. CASE SpawnPutFails(c)
  <2>1. CASE ManagerGone
    BY <2>1, GonePool
  <2>2. CASE /\ opening' = opening \ {c}
             /\ req' = [s \in Requests |->
                          IF At(s, "spawning") /\ req[s].child = c
                          THEN IdleSlot ELSE req[s]]
             /\ UNCHANGED <<phase, alive, orphans, owner, heard, control, status, port, timer>>
    <3>1. IdleSlot \in Request /\ IdleSlot.child = None
      BY DEF Fresh, IdleSlot, Request
    <3>2. /\ req' \in [Requests -> Request]
          /\ \A s \in Requests : req'[s].child \in {None, req[s].child}
      BY <2>2, <3>1 DEF PoolInv, TypeOK
    <3>3. TypeOK' /\ OrphansForgotten'
      BY <2>2, <3>2, NoneAssumption DEF PoolInv, TypeOK, OrphansForgotten
    <3> QED
      BY <2>2, <3>3
      DEF PoolInv, OwnProcess, ProcessOwned, OpeningOwned, TimerIdle, StatusMatchesControl
  <2> QED
    BY <1>3, <2>1, <2>2 DEF SpawnPutFails
<1> QED
  BY <1>1, <1>2, <1>3

LEMMA PoolNext == PoolInv /\ [Next]_vars => PoolInv'
<1> SUFFICES ASSUME PoolInv, [Next]_vars PROVE PoolInv'
  OBVIOUS
<1>1. ASSUME NEW s \in Requests, Request_(s) \/ StopPutFails(s)
      PROVE  PoolInv'
  BY <1>1, RequestPool
<1>2. ASSUME NEW c \in Children, Opened(c) \/ ChildExit(c) \/ SpawnPutFails(c)
      PROVE  PoolInv'
  BY <1>2, ChildPool
<1>3. ASSUME NEW w \in Workers, NEW c \in Children, TimerFires(w, c)
      PROVE  PoolInv'
  <2>1. /\ control[w].process = None /\ Spawn(w, c, port[w], control) /\ UNCHANGED req
        /\ control \in [Workers -> Control] /\ req \in [Requests -> Request]
    BY <1>3 DEF TimerFires, PoolInv, TypeOK
  <2> QED
    BY <2>1, SpawnPool
<1>4. CASE ManagerDies
  BY <1>4, GonePool DEF ManagerDies
<1>5. CASE UNCHANGED vars
  BY <1>5 DEF vars, PoolInv, TypeOK, OwnProcess, ProcessOwned, OpeningOwned, OrphansForgotten,
              TimerIdle, StatusMatchesControl
<1> QED
  BY <1>1, <1>2, <1>3, <1>4, <1>5 DEF Next

\* Every reachable state has the stated types; no record ever says "running".
THEOREM PoolTypeCorrect == Spec => []TypeOK
<1>1. PoolInv => TypeOK
  BY DEF PoolInv
<1> QED
  BY <1>1, PoolInit, PoolNext, PTL DEF Spec

\* However requests, timers, exits, failing puts and deaths of the manager
\* interleave, a manager runs at most one process for a worker id.
THEOREM OneProcessPerWorker == Spec => []OneChildPerWorker
<1>1. PoolInv => OneChildPerWorker
  BY DEF PoolInv, OwnProcess, OneChildPerWorker
<1> QED
  BY <1>1, PoolInit, PoolNext, PTL DEF Spec

\* Records and controls agree on which ids have a process.
THEOREM RecordsAreHonest == Spec => []StatusMatchesControl
<1>1. PoolInv => StatusMatchesControl
  BY DEF PoolInv
<1> QED
  BY <1>1, PoolInit, PoolNext, PTL DEF Spec

-----------------------------------------------------------------------------
(* NoOrphans.  Ports are never given back, so a boot that finds none left  *)
(* would end with children alive: there must be one for every id.          *)

EnoughPorts == IsFiniteSet(Ports) /\ Cardinality(Ports) >= MaxWorkers

LEMMA Least ==
    ASSUME NEW S, S \subseteq Nat, S # {}
    PROVE  \E t \in S : \A u \in S : t <= u
<1> DEFINE R == {ss \in Nat \X Nat : ss[1] < ss[2]}
<1>1. IsWellFoundedOn(R, Nat)
  BY NatLessThanWellFounded DEF OpToRel
<1>2. \A x, y \in Nat : y < x => <<y, x>> \in R
  BY SMT
<1> HIDE DEF R
<1>3. PICK t \in S : \A u \in S : ~ (<<u, t>> \in R)
  BY <1>1, WFMin
<1>4. \A u \in S : ~ (u < t)
  BY <1>2, <1>3
<1> QED
  BY <1>4, SMT

\* The other ids cannot have taken all the ports.
LEMMA PortLeft ==
    ASSUME TypeOK, EnoughPorts, NEW w \in Workers
    PROVE  reservePort(w, None) # {}
<1>1. CASE port[w] # None
  BY <1>1 DEF reservePort
<1>2. CASE port[w] = None
  <2> DEFINE others == Workers \ {w}
             taken == {port[v] : v \in others}
             f == [v \in others |-> port[v]]
  <2>1. IsFiniteSet(others) /\ Cardinality(others) = MaxWorkers - 1
    <3>1. IsFiniteSet(Workers) /\ Cardinality(Workers) = MaxWorkers
      BY PoolAssumption, FS_Interval DEF Workers
    <3> QED
      BY <3>1, FS_RemoveElement
  <2>2. IsFiniteSet(taken) /\ Cardinality(taken) <= Cardinality(others)
    <3>1. f \in Surjection(others, taken)
      BY DEF Surjection
    <3> HIDE DEF f, taken, others
    <3> QED
      BY <2>1, <3>1, FS_Surjection
  <2>3. ~ (Ports \subseteq taken)
    <3> SUFFICES ASSUME Ports \subseteq taken PROVE FALSE
      OBVIOUS
    <3>1. Cardinality(Ports) <= Cardinality(taken)
      <4> HIDE DEF taken
      <4> QED
        BY <2>2, FS_Subset
    <3>2. /\ Cardinality(Ports) \in Nat /\ Cardinality(taken) \in Nat
          /\ Cardinality(others) \in Nat /\ MaxWorkers \in Nat
      <4> HIDE DEF taken, others
      <4> QED
        BY <2>1, <2>2, FS_CardinalityType, PoolAssumption DEF EnoughPorts
    <3> HIDE DEF taken, others
    <3> QED
      BY <2>1, <2>2, <3>1, <3>2 DEF EnoughPorts
  <2> DEFINE left == Ports \ {port[v] : v \in Workers}
  <2>4. left # {} /\ left \subseteq Nat
    BY <1>2, <2>3, PoolAssumption, NoneAssumption
  <2>5. Lowest(left) # {}
    <3> HIDE DEF left
    <3> QED
      BY <2>4, Least DEF Lowest
  <2> QED
    BY <1>2, <2>5, PoolAssumption, NoneAssumption DEF reservePort
<1> QED
  BY <1>1, <1>2

\* A manager without processes leaves none behind.
LEMMA GoneEmpty ==
    ASSUME ShutdownInv, ManagerGone, \A w \in Workers : control[w].process = None
    PROVE  ShutdownInv'
<1>1. PoolInv'
  BY GonePool DEF ShutdownInv
<1>2. alive = {}
  BY NoneAssumption DEF ShutdownInv, PoolInv, OwnProcess, NoOrphans, TypeOK
<1>3. NoOrphans'
  BY <1>2 DEF ManagerGone, NoOrphans
<1>4. \A s \in Requests : Free(s)'
  BY DEF ManagerGone, Free, IdleSlot, Fresh
<1> QED
  BY <1>1, <1>3, <1>4 DEF ShutdownInv, BootInv, CloseInv, Busy, ManagerGone

\* A step of the request in slot s that is not a close.
LEMMA OtherStep ==
    ASSUME ShutdownInv, PoolInv', NEW s \in Requests, NEW r \in Request,
           r.kind # "close", ~Busy(s, "close"),
           req' = [req EXCEPT ![s] = r],
           r.kind = "boot" =>
             /\ phase' = "starting"
             /\ \A q \in Requests \ {s} : ~Busy(q, "boot"),
           phase' # "down",
           \/ phase' = phase
           \/ phase = "down" /\ phase' = "starting"
           \/ phase = "starting" /\ phase' = "up" /\ \A q \in Requests \ {s} : ~Busy(q, "boot"),
           orphans' = orphans,
           phase = "closing" =>
             /\ timer' \subseteq timer
             /\ \A w \in Workers : control'[w].process = control[w].process
    PROVE  ShutdownInv'
<1>1. \A q \in Requests \ {s} : req'[q] = req[q]
  BY DEF ShutdownInv, PoolInv, TypeOK
<1>2. req'[s] = r
  BY DEF ShutdownInv, PoolInv, TypeOK
<1>3. BootInv'
  BY <1>1, <1>2 DEF ShutdownInv, BootInv, Busy, Free
<1>4. CloseInv'
  BY <1>1, <1>2 DEF ShutdownInv, CloseInv, Busy, Free, Stopping
<1> QED
  BY <1>3, <1>4 DEF ShutdownInv, NoOrphans

LEMMA ContinueOther ==
    ASSUME ShutdownInv, PoolInv', EnoughPorts,
           NEW s \in Requests, NEW r \in Request, Continue(s, r),
           r.kind # "close", ~Busy(s, "close"), phase # "down",
           r.kind = "boot" => Busy(s, "boot")
    PROVE  ShutdownInv'
<1>0. /\ TypeOK /\ IdleSlot \in Request
      /\ IdleSlot.kind = "stop" /\ IdleSlot.stage = "free"
  BY FreshRequest DEF ShutdownInv, PoolInv, IdleSlot, Fresh
<1>1. r.kind = "boot" => /\ phase = "starting"
                         /\ \A q \in Requests \ {s} : ~Busy(q, "boot")
  BY DEF ShutdownInv, BootInv
<1>2. ASSUME phase' = IF r.kind = "boot" THEN "up" ELSE phase,
             req' = [req EXCEPT ![s] = IdleSlot],
             orphans' = orphans, timer' = timer,
             \A w \in Workers : control'[w].process = control[w].process
      PROVE  ShutdownInv'
  BY <1>0, <1>1, <1>2, OtherStep
<1>3. CASE r.rest # {}
  <2>1. PICK w \in r.rest : BeginStop(s, r, w, timer) /\ UNCHANGED store
    BY <1>3 DEF Continue
  <2> DEFINE child == control[w].process
             q == [r EXCEPT !.rest = @ \ {w}, !.worker = w, !.child = child,
                            !.stage = IF child = None THEN "stopped" ELSE "stopping"]
  <2>2. w \in Workers /\ child \in Children \cup {None}
    BY <1>0 DEF Request, TypeOK, Control
  <2>3. q \in Request /\ q.kind = r.kind
    BY <2>2 DEF Request
  <2>4. /\ req' = [req EXCEPT ![s] = q]
        /\ timer' \subseteq timer
        /\ \A v \in Workers : control'[v].process = control[v].process
    BY <1>0, <2>1, <2>2 DEF BeginStop, TypeOK, Control
  <2>5. phase' = phase /\ orphans' = orphans
    BY <2>1 DEF store
  <2> HIDE DEF q
  <2> QED
    BY <1>1, <2>3, <2>4, <2>5, OtherStep
<1>4. CASE r.rest = {} /\ r.want # {}
  <2> DEFINE missing == {w \in r.want : control[w].process = None}
             Passed(ws) == [w \in Workers |-> [control[w] EXCEPT
                                                 !.expected = @ \/ w \in ws]]
  <2>1. \A ws : \A v \in Workers : Passed(ws)[v].process = control[v].process
    BY <1>0 DEF TypeOK, Control
  <2>2. Ensure(s, r)
    BY <1>4 DEF Continue
  <2>3. CASE missing = {}
    <3>1. control' = Passed(r.want) /\ Finish(s, r.kind)
          /\ orphans' = orphans /\ timer' = timer
      BY <2>2, <2>3 DEF Ensure
    <3> HIDE DEF Passed
    <3> QED
      BY <1>2, <2>1, <3>1 DEF Finish
  <2>4. CASE missing # {}
    <3>1. PICK w \in Lowest(missing) :
            LET passed == {v \in r.want : v <= w} IN
            IF phase # "closing" /\ reservePort(w, None) # {}
            THEN \E c \in Children :
                 /\ Spawn(w, c, None, Passed(passed))
                 /\ req' = [req EXCEPT ![s] =
                        [r EXCEPT !.stage = "spawning", !.worker = w, !.child = c,
                                  !.want = @ \ passed]]
            ELSE IF r.kind = "boot" THEN ManagerGone
            ELSE /\ control' = Passed(passed)
                 /\ req' = [req EXCEPT ![s] = IdleSlot]
                 /\ UNCHANGED <<store, status, timer>>
      BY <2>2, <2>4 DEF Ensure
    <3>2. w \in Workers
      BY DEF Lowest, Request
    <3>3. reservePort(w, None) # {}
      BY <1>0, <3>2, PortLeft
    <3> DEFINE passed == {v \in r.want : v <= w}
    <3>4. CASE phase # "closing"
      <4>1. PICK c \in Children :
              /\ Spawn(w, c, None, Passed(passed))
              /\ req' = [req EXCEPT ![s] =
                     [r EXCEPT !.stage = "spawning", !.worker = w, !.child = c,
                               !.want = @ \ passed]]
        BY <3>1, <3>3, <3>4
      <4> DEFINE q == [r EXCEPT !.stage = "spawning", !.worker = w, !.child = c,
                                !.want = @ \ passed]
      <4>2. q \in Request /\ q.kind = r.kind
        BY <3>2 DEF Request
      <4>3. phase' = phase /\ orphans' = orphans
        BY <4>1 DEF Spawn
      <4>4. req' = [req EXCEPT ![s] = q]
        BY <4>1
      <4> HIDE DEF q
      <4> QED
        BY <1>1, <3>4, <4>2, <4>3, <4>4, OtherStep
    <3>5. CASE phase = "closing"
      <4>1. r.kind # "boot"
        BY <1>1, <3>5
      <4>2. /\ control' = Passed(passed)
            /\ req' = [req EXCEPT ![s] = IdleSlot]
            /\ UNCHANGED <<store, status, timer>>
        BY <3>1, <3>5, <4>1
      <4> HIDE DEF Passed, passed
      <4> QED
        BY <1>2, <2>1, <4>1, <4>2 DEF store
    <3> QED
      BY <3>4, <3>5
  <2> QED
    BY <2>3, <2>4
<1>5. CASE r.rest = {} /\ r.want = {}
  BY <1>2, <1>5 DEF Continue, Finish
<1> QED
  BY <1>3, <1>4, <1>5

\* A close that comes to the id w, with all that run still before it.
LEMMA CloseStops ==
    ASSUME ShutdownInv, PoolInv', NEW s \in Requests, NEW r \in Request,
           NEW w \in Workers, BeginStop(s, r, w, {}),
           r.kind = "close", r.want = {},
           \A v \in Workers : control[v].process # None => v \in r.rest,
           phase \in {"up", "closing"}, phase' = "closing", orphans' = orphans
    PROVE  ShutdownInv'
<1> DEFINE child == control[w].process
           q == [r EXCEPT !.rest = @ \ {w}, !.worker = w, !.child = child,
                          !.stage = IF child = None THEN "stopped" ELSE "stopping"]
<1>0. TypeOK
  BY DEF ShutdownInv, PoolInv
<1>1. /\ timer' = {}
      /\ \A v \in Workers : control'[v].process = control[v].process
  BY <1>0 DEF BeginStop, TypeOK, Control
<1>2. req'[s] = q /\ \A p \in Requests \ {s} : req'[p] = req[p]
  BY <1>0 DEF BeginStop, TypeOK
<1>3. /\ q.kind = "close" /\ q.want = {} /\ q.stage \in {"stopped", "stopping"}
      /\ q.rest = r.rest \ {w}
      /\ child # None => q.stage = "stopping" /\ q.worker = w /\ q.child = child
  BY DEF Request
<1> HIDE DEF q
<1>4. BootInv'
  BY <1>2, <1>3 DEF ShutdownInv, BootInv, Busy, Free
<1>5. CloseInv'
  <2>1. \A p \in Requests \ {s} :
          Busy(p, "close")' => Busy(p, "close") /\ phase = "closing"
    BY <1>2 DEF ShutdownInv, CloseInv, Busy, Free
  <2>2. ASSUME NEW v \in Workers, control'[v].process # None
        PROVE  v \in req'[s].rest \/ Stopping(s, v)'
    BY <1>1, <1>2, <1>3, <2>2 DEF Stopping
  <2>3. ASSUME NEW v \in Workers, NEW p \in Requests \ {s},
               control'[v].process # None, Busy(p, "close")'
        PROVE  v \in req'[p].rest \/ Stopping(p, v)'
    BY <1>1, <1>2, <2>1, <2>3 DEF ShutdownInv, CloseInv, Stopping
  <2>4. \A p \in Requests :
          Busy(p, "close")' => req'[p].want = {} /\ req'[p].stage # "spawning"
    BY <1>2, <1>3, <2>1 DEF ShutdownInv, CloseInv
  <2> QED
    BY <1>1, <2>2, <2>3, <2>4 DEF CloseInv
<1> QED
  BY <1>4, <1>5 DEF ShutdownInv, NoOrphans

LEMMA RequestShutdown ==
    ASSUME ShutdownInv, EnoughPorts, NEW s \in Requests, Request_(s)
    PROVE  ShutdownInv'
<1>0. /\ TypeOK /\ PoolInv' /\ req[s] \in Request
      /\ Known \subseteq Workers
      /\ \A w \in Workers : control[w].process # None => w \in Known
  BY RequestPool DEF ShutdownInv, PoolInv, TypeOK, Known, StatusMatchesControl
<1>1. CASE Boot(s)
  <2> DEFINE r == Fresh("boot", Known \ 1..Desired, 1..Desired)
  <2>1. r \in Request /\ r.kind = "boot"
    <3>1. 1..Desired \subseteq Workers
      BY PoolAssumption DEF Workers
    <3> QED
      BY <1>0, <3>1, FreshRequest DEF Fresh
  <2>2. \A q \in Requests : Free(q)
    BY <1>1 DEF Boot, ShutdownInv, BootInv
  <2>3. /\ phase = "down" /\ phase' = "starting" /\ orphans' = orphans
        /\ req' = [req EXCEPT ![s] = r]
    BY <1>1 DEF Boot
  <2>4. ~Busy(s, "close")
    BY <2>2 DEF Busy
  <2>5. \A q \in Requests : ~Busy(q, "boot")
    BY <2>2 DEF Busy
  <2> HIDE DEF r
  <2> QED
    BY <1>0, <2>1, <2>3, <2>4, <2>5, OtherStep
<1>2. CASE CloseCall(s)
  <2>1. CASE Known = {}
    BY <1>0, <1>2, <2>1, GoneEmpty DEF CloseCall
  <2>2. CASE Known # {}
    <3> DEFINE r == Fresh("close", Known, {})
    <3>1. PICK w \in Known :
            /\ BeginStop(s, r, w, {})
            /\ phase' = "closing" /\ orphans' = orphans
      BY <1>2, <2>2 DEF CloseCall
    <3>2. r \in Request /\ r.kind = "close" /\ r.want = {} /\ r.rest = Known
      BY <1>0, FreshRequest DEF Fresh
    <3>3. phase \in {"up", "closing"} /\ w \in Workers
      BY <1>0, <1>2 DEF CloseCall, Listening
    <3> HIDE DEF r
    <3> QED
      BY <1>0, <3>1, <3>2, <3>3, CloseStops
  <2> QED
    BY <2>1, <2>2
<1>3. CASE Signal(s)
  <2>1. /\ At(s, "stopping")
        /\ req' = [req EXCEPT ![s].stage = "waiting"]
        /\ UNCHANGED <<store, control, status, timer>>
    BY <1>3 DEF Signal
  <2>2. \A q \in Requests : /\ req'[q] = IF q = s THEN [req[s] EXCEPT !.stage = "waiting"]
                                         ELSE req[q]
                            /\ req[q] \in Request
    BY <1>0, <2>1 DEF TypeOK
  <2>3. \A q \in Requests :
          /\ req'[q].kind = req[q].kind /\ req'[q].want = req[q].want
          /\ req'[q].rest = req[q].rest /\ req'[q].child = req[q].child
          /\ req'[q].worker = req[q].worker
          /\ req'[q].stage = IF q = s THEN "waiting" ELSE req[q].stage
    BY <2>2 DEF Request
  <2>4. /\ \A q \in Requests, k \in {"boot", "close"} : Busy(q, k)' <=> Busy(q, k)
        /\ \A q \in Requests : Free(q) => Free(q)'
        /\ \A q \in Requests, w \in Workers : Stopping(q, w) => Stopping(q, w)'
    BY <2>1, <2>3 DEF Busy, Free, At, Stopping
  <2>5. BootInv'
    BY <2>1, <2>4 DEF ShutdownInv, BootInv, store
  <2>6. CloseInv'
    BY <2>1, <2>3, <2>4 DEF ShutdownInv, CloseInv, store
  <2> QED
    BY <1>0, <2>1, <2>5, <2>6 DEF ShutdownInv, NoOrphans, store
<1>4. CASE Resume(s)
  <2>1. ~Free(s) /\ Continue(s, req[s])
    BY <1>4 DEF Resume, At, Free
  <2>2. phase # "down"
    BY <2>1 DEF ShutdownInv, BootInv
  <2>3. CASE req[s].kind # "close"
    BY <1>0, <2>1, <2>2, <2>3, ContinueOther DEF Busy
  <2>4. CASE req[s].kind = "close"
    <3>1. /\ phase = "closing" /\ timer = {} /\ req[s].want = {}
          /\ req[s].stage = "stopped"
          /\ \A v \in Workers : control[v].process # None => v \in req[s].rest
      BY <1>4, <2>1, <2>4 DEF ShutdownInv, CloseInv, Busy, Resume, At, Stopping
    <3>2. CASE req[s].rest # {}
      <4>1. PICK w \in req[s].rest : BeginStop(s, req[s], w, timer) /\ UNCHANGED store
        BY <2>1, <3>2 DEF Continue
      <4>2. w \in Workers
        BY <1>0 DEF Request
      <4> QED
        BY <1>0, <2>4, <3>1, <4>1, <4>2, CloseStops DEF store
    <3>3. CASE req[s].rest = {}
      BY <2>1, <2>4, <3>1, <3>3, GoneEmpty DEF Continue
    <3> QED
      BY <3>2, <3>3
  <2> QED
    BY <2>3, <2>4
<1>5. ASSUME NEW w \in Workers, StopCall(w, s)
      PROVE  ShutdownInv'
  <2> DEFINE r == Fresh("stop", {w}, {})
  <2>1. r \in Request /\ r.kind = "stop"
    BY FreshRequest DEF Fresh
  <2>2. phase # "down" /\ ~Busy(s, "close") /\ Continue(s, r)
    BY <1>5 DEF StopCall, Listening, Busy
  <2> HIDE DEF r
  <2> QED
    BY <1>0, <2>1, <2>2, ContinueOther
<1>6. ASSUME NEW w \in Workers, NEW preferred \in Preferred \cup {None},
             StartCall(w, preferred, s)
      PROVE  ShutdownInv'
  <2>1. PICK c \in Children :
          /\ Spawn(w, c, preferred, control)
          /\ req' = [req EXCEPT ![s] = [Fresh("start", {}, {}) EXCEPT
                        !.stage = "spawning", !.worker = w, !.child = c]]
    BY <1>6 DEF StartCall
  <2> DEFINE r == [Fresh("start", {}, {}) EXCEPT
                     !.stage = "spawning", !.worker = w, !.child = c]
  <2>2. r \in Request /\ r.kind = "start"
    BY DEF Fresh, Request
  <2>3. phase = "up" /\ phase' = phase /\ orphans' = orphans /\ ~Busy(s, "close")
    BY <1>6, <2>1 DEF StartCall, Spawn, Busy
  <2>4. req' = [req EXCEPT ![s] = r]
    BY <2>1
  <2> HIDE DEF r
  <2> QED
    BY <1>0, <2>2, <2>3, <2>4, OtherStep
<1>7. ASSUME NEW n \in 0..MaxWorkers, ReconcileCall(n, s)
      PROVE  ShutdownInv'
  <2> DEFINE r == Fresh("reconcile", Known \ 1..n, 1..n)
  <2>1. r \in Request /\ r.kind = "reconcile"
    <3>1. 1..n \subseteq Workers
      BY PoolAssumption DEF Workers
    <3> QED
      BY <1>0, <3>1, FreshRequest DEF Fresh
  <2>2. phase # "down" /\ ~Busy(s, "close") /\ Continue(s, r)
    BY <1>7 DEF ReconcileCall, Listening, Busy
  <2> HIDE DEF r
  <2> QED
    BY <1>0, <2>1, <2>2, ContinueOther
<1> QED
  BY <1>1, <1>2, <1>3, <1>4, <1>5, <1>6, <1>7 DEF Request_

LEMMA ChildShutdown ==
    ASSUME ShutdownInv, NEW c \in Children, Opened(c) \/ ChildExit(c)
    PROVE  ShutdownInv'
<1>0. TypeOK /\ PoolInv'
  BY ChildPool DEF ShutdownInv, PoolInv
<1>1. CASE Opened(c)
  BY <1>0, <1>1
  DEF Opened, ShutdownInv, BootInv, CloseInv, NoOrphans, Busy, Free, Stopping
<1>2. CASE ChildExit(c)
  <2> DEFINE waiters == {s \in Requests : At(s, "waiting") /\ req[s].child = c}
  <2>1. \A s \in Requests :
          /\ req'[s] = IF s \in waiters THEN [req[s] EXCEPT !.stage = "stopped"]
                       ELSE req[s]
          /\ req[s] \in Request
    BY <1>0, <1>2 DEF ChildExit, TypeOK
  <2>2. \A s \in Requests :
          /\ req'[s].kind = req[s].kind /\ req'[s].want = req[s].want
          /\ req'[s].rest = req[s].rest /\ req'[s].child = req[s].child
          /\ req'[s].worker = req[s].worker
          /\ req'[s].stage = IF s \in waiters THEN "stopped" ELSE req[s].stage
    <3> HIDE DEF waiters
    <3> QED
      BY <2>1, ZenonT(40) DEF Request
  <2>3. \A s \in Requests : /\ \A k \in {"boot", "close"} : Busy(s, k)' <=> Busy(s, k)
                            /\ Free(s) => Free(s)'
    BY <2>2 DEF Busy, Free, At
  <2>4. /\ phase' = phase /\ orphans' = orphans \ {c}
        /\ phase = "closing" => timer' = timer
    BY <1>2 DEF ChildExit
  <2>5. owner[c] \in Workers /\ control[owner[c]].process = c
    BY <1>0, <1>2 DEF ChildExit, TypeOK, ShutdownInv, PoolInv, OwnProcess, NoOrphans
  <2>6. /\ \A w \in Workers : control'[w].process \in {None, control[w].process}
        /\ waiters # {} => control'[owner[c]].process = None
    BY <1>0, <1>2, <2>5 DEF ChildExit, TypeOK, Control
  <2>7. ASSUME NEW w \in Workers, NEW s \in Requests, Stopping(s, w),
               control'[w].process # None
        PROVE  Stopping(s, w)'
    <3>1. control'[w].process = control[w].process
      BY <2>6, <2>7
    <3>2. CASE s \in waiters
      <4>1. control[w].process = c
        BY <2>7, <3>2 DEF Stopping
      <4>2. w = owner[c]
        BY <1>0, <4>1, NoneAssumption DEF ShutdownInv, PoolInv, ProcessOwned
      <4> QED
        BY <2>6, <2>7, <3>2, <4>2
    <3>3. CASE s \notin waiters
      BY <2>2, <2>7, <3>1, <3>3 DEF Stopping
    <3> QED
      BY <3>2, <3>3
  <2>8. BootInv'
    BY <2>3, <2>4 DEF ShutdownInv, BootInv
  <2>9. CloseInv'
    <3>1. \A s \in Requests :
            Busy(s, "close")' => /\ phase' = "closing" /\ req'[s].want = {}
                                 /\ req'[s].stage # "spawning"
      BY <2>2, <2>3, <2>4 DEF ShutdownInv, CloseInv
    <3>2. ASSUME phase = "closing", NEW w \in Workers, NEW s \in Requests,
                 Busy(s, "close"), control'[w].process # None
          PROVE  w \in req'[s].rest \/ Stopping(s, w)'
      <4>1. control[w].process # None
        BY <2>6, <3>2
      <4>2. w \in req[s].rest \/ Stopping(s, w)
        BY <3>2, <4>1 DEF ShutdownInv, CloseInv
      <4> QED
        BY <2>2, <2>7, <3>2, <4>2
    <3> HIDE DEF waiters
    <3> QED
      BY <2>3, <2>4, <3>1, <3>2 DEF ShutdownInv, CloseInv
  <2> QED
    BY <1>0, <2>4, <2>8, <2>9 DEF ShutdownInv, NoOrphans
<1> QED
  BY <1>1, <1>2

\* Unless puts fail or the manager is killed, a shutdown leaves no child
\* behind, whatever requests it overlaps, a second shutdown included, and
\* whatever timers are due; so the next manager never spawns a second process
\* beside a survivor of the last.
THEOREM ShutdownIsComplete ==
    ASSUME Faults = FALSE, EnoughPorts
    PROVE  Spec => []NoOrphans
<1>1. ShutdownInv => NoOrphans
  BY DEF ShutdownInv
<1>2. Init => ShutdownInv
  <2> SUFFICES ASSUME Init PROVE ShutdownInv
    OBVIOUS
  <2>1. \A s \in Requests : Free(s)
    BY DEF Init, Free, IdleSlot, Fresh
  <2> QED
    BY <2>1, PoolInit
    DEF Init, ShutdownInv, BootInv, CloseInv, NoOrphans, Busy
<1>3. ShutdownInv /\ [Next]_vars => ShutdownInv'
  <2> SUFFICES ASSUME ShutdownInv, [Next]_vars PROVE ShutdownInv'
    OBVIOUS
  <2>1. ASSUME NEW w \in Workers, NEW c \in Children, TimerFires(w, c)
        PROVE  ShutdownInv'
    <3>1. PoolInv'
      BY <2>1, PoolNext DEF Next, ShutdownInv
    <3>2. phase # "closing"
      BY <2>1 DEF TimerFires, ShutdownInv, CloseInv
    <3>3. phase' = phase /\ req' = req /\ orphans' = orphans
      BY <2>1 DEF TimerFires, Spawn
    <3> QED
      BY <3>1, <3>2, <3>3
      DEF ShutdownInv, BootInv, CloseInv, NoOrphans, Busy, Free
  <2>2. CASE UNCHANGED vars
    <3>1. PoolInv'
      BY <2>2, PoolNext DEF ShutdownInv
    <3> QED
      BY <2>2, <3>1
      DEF vars, ShutdownInv, BootInv, CloseInv, NoOrphans, Busy, Free, Stopping
  <2>3. \A s \in Requests : ~StopPutFails(s)
    BY DEF StopPutFails
  <2>4. /\ \A c \in Children : ~SpawnPutFails(c)
        /\ ~ManagerDies
    BY DEF SpawnPutFails, ManagerDies
  <2> QED
    BY <2>1, <2>2, <2>3, <2>4, RequestShutdown, ChildShutdown DEF Next
<1> QED
  BY <1>1, <1>2, <1>3, PTL DEF Spec

-----------------------------------------------------------------------------
(* RestartPending, with faults.                                            *)

RestartInv == PoolInv /\ BootInv /\ RestartPending

LEMMA GoneBoot ==
    ASSUME ManagerGone
    PROVE  BootInv' /\ RestartPending'
<1>1. \A s \in Requests : Free(s)'
  BY DEF ManagerGone, Free, IdleSlot, Fresh
<1>2. \A w \in Workers : control'[w].expected = FALSE
  BY DEF ManagerGone, NoControl
<1> QED
  BY <1>1, <1>2 DEF BootInv, Busy, RestartPending

\* The request in slot s goes on as r.
LEMMA SlotBoot ==
    ASSUME TypeOK, BootInv, NEW s \in Requests, NEW r \in Request,
           req' = [req EXCEPT ![s] = r],
           r.kind = "boot" =>
             /\ phase' = "starting"
             /\ \A q \in Requests \ {s} : ~Busy(q, "boot"),
           phase' # "down",
           \/ phase' = phase
           \/ phase = "down" /\ phase' = "starting"
           \/ phase # "starting" /\ phase' = "closing"
           \/ phase = "starting" /\ phase' = "up" /\ \A q \in Requests \ {s} : ~Busy(q, "boot")
    PROVE  BootInv'
<1>1. \A q \in Requests : req'[q] = IF q = s THEN r ELSE req[q]
  BY DEF TypeOK
<1> QED
  BY <1>1 DEF BootInv, Busy, Free

LEMMA ContinueBoot ==
    ASSUME TypeOK, BootInv, NEW s \in Requests, NEW r \in Request, Continue(s, r),
           phase # "down", r.kind = "boot" => Busy(s, "boot")
    PROVE  BootInv'
<1>0. IdleSlot \in Request /\ IdleSlot.kind = "stop"
  BY FreshRequest DEF IdleSlot, Fresh
<1>1. r.kind = "boot" => /\ phase = "starting"
                         /\ \A q \in Requests \ {s} : ~Busy(q, "boot")
  BY DEF BootInv
<1>2. ASSUME NEW q \in Request, req' = [req EXCEPT ![s] = q],
             q.kind = r.kind, phase' = phase
      PROVE  BootInv'
  BY <1>1, <1>2, SlotBoot
<1>3. ASSUME req' = [req EXCEPT ![s] = IdleSlot],
             phase' = phase \/ phase' = IF r.kind = "boot" THEN "up" ELSE phase
      PROVE  BootInv'
  BY <1>0, <1>1, <1>3, SlotBoot
<1>4. CASE r.rest # {}
  <2>1. PICK w \in r.rest : BeginStop(s, r, w, timer) /\ UNCHANGED store
    BY <1>4 DEF Continue
  <2> DEFINE child == control[w].process
             q == [r EXCEPT !.rest = @ \ {w}, !.worker = w, !.child = child,
                            !.stage = IF child = None THEN "stopped" ELSE "stopping"]
  <2>2. w \in Workers /\ child \in Children \cup {None}
    BY DEF Request, TypeOK, Control
  <2>3. q \in Request /\ q.kind = r.kind
    BY <2>2 DEF Request
  <2>4. req' = [req EXCEPT ![s] = q] /\ phase' = phase
    BY <2>1 DEF BeginStop, store
  <2> HIDE DEF q
  <2> QED
    BY <1>2, <2>3, <2>4
<1>5. CASE r.rest = {} /\ r.want # {}
  <2> DEFINE missing == {w \in r.want : control[w].process = None}
  <2>1. Ensure(s, r)
    BY <1>5 DEF Continue
  <2>2. CASE missing = {}
    BY <1>3, <2>1, <2>2 DEF Ensure, Finish
  <2>3. CASE missing # {}
    <3> DEFINE Passed(ws) == [w \in Workers |-> [control[w] EXCEPT
                                                   !.expected = @ \/ w \in ws]]
    <3>1. PICK w \in Lowest(missing) :
            LET passed == {v \in r.want : v <= w} IN
            IF phase # "closing" /\ reservePort(w, None) # {}
            THEN \E c \in Children :
                 /\ Spawn(w, c, None, Passed(passed))
                 /\ req' = [req EXCEPT ![s] =
                        [r EXCEPT !.stage = "spawning", !.worker = w, !.child = c,
                                  !.want = @ \ passed]]
            ELSE IF r.kind = "boot" THEN ManagerGone
            ELSE /\ control' = Passed(passed)
                 /\ req' = [req EXCEPT ![s] = IdleSlot]
                 /\ UNCHANGED <<store, status, timer>>
      BY <2>1, <2>3 DEF Ensure
    <3> DEFINE passed == {v \in r.want : v <= w}
               left == r.want \ passed
    <3> HIDE DEF Passed
    <3>2. w \in Workers
      BY DEF Lowest, Request
    <3>3. left \in SUBSET Workers
      BY DEF Request
    <3>4. ASSUME NEW c \in Children, Spawn(w, c, None, Passed(passed)),
                 req' = [req EXCEPT ![s] =
                      [r EXCEPT !.stage = "spawning", !.worker = w, !.child = c,
                                !.want = @ \ passed]]
          PROVE  BootInv'
      <4> DEFINE q == [r EXCEPT !.stage = "spawning", !.worker = w, !.child = c,
                                !.want = @ \ passed]
      <4>1. q \in Request /\ q.kind = r.kind
        BY <3>2, <3>3, <3>4 DEF Request
      <4>2. req' = [req EXCEPT ![s] = q] /\ phase' = phase
        BY <3>4 DEF Spawn
      <4> HIDE DEF q
      <4> QED
        BY <1>2, <4>1, <4>2
    <3>5. CASE phase # "closing" /\ reservePort(w, None) # {}
      BY <3>1, <3>4, <3>5
    <3>6. CASE ManagerGone
      BY <3>6, GoneBoot
    <3>7. CASE /\ ~(phase # "closing" /\ reservePort(w, None) # {})
               /\ r.kind # "boot"
      BY <1>3, <3>1, <3>7 DEF store
    <3> QED
      BY <3>1, <3>5, <3>6, <3>7
  <2> QED
    BY <2>2, <2>3
<1>6. CASE r.rest = {} /\ r.want = {}
  BY <1>3, <1>6, GoneBoot DEF Continue, Finish
<1> QED
  BY <1>4, <1>5, <1>6

LEMMA RequestBoot ==
    ASSUME PoolInv, BootInv, NEW s \in Requests, Request_(s) \/ StopPutFails(s)
    PROVE  BootInv'
<1>0. TypeOK /\ req[s] \in Request /\ Known \subseteq Workers
  BY DEF PoolInv, TypeOK, Known
<1>1. CASE Boot(s)
  <2> DEFINE r == Fresh("boot", Known \ 1..Desired, 1..Desired)
  <2>1. r \in Request
    <3>1. 1..Desired \subseteq Workers
      BY PoolAssumption DEF Workers
    <3> QED
      BY <1>0, <3>1, FreshRequest
  <2>2. /\ phase = "down" /\ phase' = "starting"
        /\ req' = [req EXCEPT ![s] = r]
        /\ \A q \in Requests : ~Busy(q, "boot")
    BY <1>1 DEF Boot, BootInv, Busy
  <2> HIDE DEF r
  <2> QED
    BY <1>0, <2>1, <2>2, SlotBoot
<1>2. CASE CloseCall(s)
  <2>1. CASE Known = {}
    BY <1>2, <2>1, GoneBoot DEF CloseCall
  <2>2. CASE Known # {}
    <3> DEFINE r == Fresh("close", Known, {})
    <3>1. PICK w \in Known : BeginStop(s, r, w, {}) /\ phase' = "closing"
      BY <1>2, <2>2 DEF CloseCall
    <3> DEFINE child == control[w].process
               q == [r EXCEPT !.rest = @ \ {w}, !.worker = w, !.child = child,
                              !.stage = IF child = None THEN "stopped" ELSE "stopping"]
    <3>2. q \in Request /\ q.kind = "close"
      BY <1>0 DEF TypeOK, Control, Request, Fresh
    <3>3. req' = [req EXCEPT ![s] = q] /\ phase # "starting" /\ phase' # "down"
      BY <1>2, <3>1 DEF BeginStop, CloseCall, Listening
    <3> HIDE DEF q
    <3> QED
      BY <1>0, <3>1, <3>2, <3>3, SlotBoot
  <2> QED
    BY <2>1, <2>2
<1>3. CASE Signal(s)
  <2>1. /\ req' = [req EXCEPT ![s].stage = "waiting"] /\ phase' = phase
        /\ ~Free(s)
    BY <1>3 DEF Signal, store, At, Free
  <2>2. \A q \in Requests : /\ req'[q].kind = req[q].kind
                            /\ req'[q].stage \in {"waiting", req[q].stage}
                            /\ Free(q) => req'[q].stage = req[q].stage
    BY <2>1 DEF PoolInv, TypeOK, Request, Free
  <2>3. \A q \in Requests : Free(q)' <=> Free(q)
    BY <2>1, <2>2 DEF PoolInv, TypeOK, Request, Free
  <2> QED
    BY <2>1, <2>2, <2>3 DEF BootInv, Busy
<1>4. CASE Resume(s)
  <2>1. ~Free(s) /\ Continue(s, req[s])
    BY <1>4 DEF Resume, At, Free
  <2>2. phase # "down"
    BY <2>1 DEF BootInv
  <2> QED
    BY <1>0, <2>1, <2>2, ContinueBoot DEF Busy
<1>5. ASSUME NEW w \in Workers, StopCall(w, s)
      PROVE  BootInv'
  <2>1. Fresh("stop", {w}, {}) \in Request /\ Fresh("stop", {w}, {}).kind = "stop"
    BY FreshRequest DEF Fresh
  <2> QED
    BY <1>0, <1>5, <2>1, ContinueBoot DEF StopCall, Listening
<1>6. ASSUME NEW w \in Workers, NEW preferred \in Preferred \cup {None},
             StartCall(w, preferred, s)
      PROVE  BootInv'
  <2>1. PICK c \in Children :
          /\ Spawn(w, c, preferred, control)
          /\ req' = [req EXCEPT ![s] = [Fresh("start", {}, {}) EXCEPT
                        !.stage = "spawning", !.worker = w, !.child = c]]
    BY <1>6 DEF StartCall
  <2> DEFINE r == [Fresh("start", {}, {}) EXCEPT
                     !.stage = "spawning", !.worker = w, !.child = c]
  <2>2. r \in Request /\ r.kind = "start"
    BY DEF Fresh, Request
  <2>3. phase = "up" /\ phase' = phase /\ req' = [req EXCEPT ![s] = r]
    BY <1>6, <2>1 DEF StartCall, Spawn
  <2> HIDE DEF r
  <2> QED
    BY <1>0, <2>2, <2>3, SlotBoot
<1>7. ASSUME NEW n \in 0..MaxWorkers, ReconcileCall(n, s)
      PROVE  BootInv'
  <2> DEFINE r == Fresh("reconcile", Known \ 1..n, 1..n)
  <2>1. r \in Request /\ r.kind = "reconcile"
    <3>1. 1..n \subseteq Workers
      BY PoolAssumption DEF Workers
    <3> QED
      BY <1>0, <3>1, FreshRequest DEF Fresh
  <2>2. phase # "down" /\ Continue(s, r)
    BY <1>7 DEF ReconcileCall, Listening
  <2> HIDE DEF r
  <2> QED
    BY <1>0, <2>1, <2>2, ContinueBoot
<1>8. CASE StopPutFails(s)
  <2>1. CASE ManagerGone
    BY <2>1, GoneBoot
  <2>2. CASE /\ req' = [req EXCEPT ![s] = IdleSlot]
             /\ UNCHANGED <<store, control, status, timer>>
    <3>1. phase # "down"
      BY <1>8 DEF StopPutFails, BootInv, At, Free
    <3>2. IdleSlot \in Request /\ IdleSlot.kind = "stop"
      BY FreshRequest DEF IdleSlot, Fresh
    <3> QED
      BY <1>0, <2>2, <3>1, <3>2, SlotBoot DEF store
  <2> QED
    BY <1>8, <2>1, <2>2 DEF StopPutFails, Reject
<1> QED
  BY <1>1, <1>2, <1>3, <1>4, <1>5, <1>6, <1>7, <1>8 DEF Request_

LEMMA BootNext == PoolInv /\ BootInv /\ [Next]_vars => BootInv'
<1> SUFFICES ASSUME PoolInv, BootInv, [Next]_vars PROVE BootInv'
  OBVIOUS
<1>1. ASSUME NEW c \in Children, ChildExit(c)
      PROVE  BootInv'
  <2>1. \A s \in Requests :
          /\ req[s] \in Request
          /\ \/ req'[s] = req[s]
             \/ At(s, "waiting") /\ req'[s] = [req[s] EXCEPT !.stage = "stopped"]
    BY <1>1 DEF ChildExit, PoolInv, TypeOK
  <2>2. \A s \in Requests : /\ req'[s].kind = req[s].kind
                            /\ Free(s)' <=> Free(s)
    BY <2>1 DEF Request, At, Free
  <2>3. phase' = phase
    BY <1>1 DEF ChildExit
  <2> QED
    BY <2>2, <2>3 DEF BootInv, Busy
<1>2. ASSUME NEW c \in Children, SpawnPutFails(c)
      PROVE  BootInv'
  <2>1. CASE ManagerGone
    BY <2>1, GoneBoot
  <2>2. CASE /\ req' = [s \in Requests |->
                          IF At(s, "spawning") /\ req[s].child = c
                          THEN IdleSlot ELSE req[s]]
             /\ phase' = phase
    <3>1. IdleSlot.stage = "free"
      BY DEF IdleSlot, Fresh
    <3> QED
      BY <2>2, <3>1 DEF BootInv, Busy, Free
  <2> QED
    BY <1>2, <2>1, <2>2 DEF SpawnPutFails
<1>3. ASSUME phase' = phase, req' = req PROVE BootInv'
  BY <1>3 DEF BootInv, Busy, Free
<1> QED
  BY <1>1, <1>2, <1>3, RequestBoot, GoneBoot
  DEF Next, Opened, TimerFires, Spawn, ManagerDies, vars

\* A spawn forgets no crash when only ids with a process are newly expected.
LEMMA SpawnPending ==
    ASSUME TypeOK, RestartPending, NEW w \in Workers, NEW c \in Children,
           NEW preferred, NEW ctl \in [Workers -> Control],
           \A v \in Workers \ {w} :
             /\ ctl[v].process = control[v].process
             /\ ctl[v].expected => control[v].expected \/ control[v].process # None,
           Spawn(w, c, preferred, ctl)
    PROVE  RestartPending'
<1>1. \A v \in Workers : control'[v] = IF v = w THEN [process |-> c, expected |-> TRUE]
                                       ELSE ctl[v]
  BY DEF Spawn
<1>2. /\ phase' = phase /\ timer' = timer \ {w}
      /\ \A v \in Workers \ {w} : port'[v] = port[v]
  BY DEF Spawn, TypeOK
<1>3. c # None
  BY NoneAssumption
<1> QED
  BY <1>1, <1>2, <1>3 DEF RestartPending

LEMMA BeginStopPending ==
    ASSUME TypeOK, RestartPending, NEW s, NEW r, NEW w \in Workers, BeginStop(s, r, w, timer),
           phase' = phase, port' = port
    PROVE  RestartPending'
<1>1. /\ timer' = timer \ {w}
      /\ \A v \in Workers : control'[v] = IF v = w THEN [control[w] EXCEPT !.expected = FALSE]
                                          ELSE control[v]
      /\ control'[w].expected = FALSE
  BY DEF BeginStop, TypeOK, Control
<1> QED
  BY <1>1 DEF RestartPending

LEMMA ContinuePending ==
    ASSUME TypeOK, BootInv, RestartPending,
           NEW s \in Requests, NEW r \in Request, Continue(s, r),
           r.kind = "boot" => Busy(s, "boot")
    PROVE  RestartPending'
<1>1. phase = "closing" => r.kind # "boot"
  BY DEF BootInv
<1>2. CASE r.rest # {}
  <2>1. PICK w \in r.rest : BeginStop(s, r, w, timer) /\ UNCHANGED <<phase, port>>
    BY <1>2 DEF Continue, store
  <2>2. w \in Workers
    BY DEF Request
  <2> QED
    BY <2>1, <2>2, BeginStopPending
<1>3. CASE r.rest = {} /\ r.want # {}
  <2> DEFINE missing == {w \in r.want : control[w].process = None}
             Passed(ws) == [w \in Workers |-> [control[w] EXCEPT
                                                 !.expected = @ \/ w \in ws]]
  <2>0. r.want \subseteq Workers /\ Ensure(s, r)
    BY <1>3 DEF Request, Continue
  <2>1. \A ws : /\ Passed(ws) \in [Workers -> Control]
                /\ \A v \in Workers :
                     /\ Passed(ws)[v].process = control[v].process
                     /\ Passed(ws)[v].expected => control[v].expected \/ v \in ws
    BY DEF TypeOK, Control
  <2>2. CASE missing = {}
    <3>1. /\ control' = Passed(r.want) /\ phase' \in {phase, "up"}
          /\ UNCHANGED <<timer, port>>
          /\ phase = "closing" => phase' = phase
      BY <1>1, <2>0, <2>2 DEF Ensure, Finish
    <3> HIDE DEF Passed
    <3> QED
      BY <2>1, <2>2, <3>1 DEF RestartPending
  <2>3. CASE missing # {}
    <3>1. PICK w \in Lowest(missing) :
            LET passed == {v \in r.want : v <= w} IN
            IF phase # "closing" /\ reservePort(w, None) # {}
            THEN \E c \in Children : Spawn(w, c, None, Passed(passed))
            ELSE IF r.kind = "boot" THEN ManagerGone
            ELSE /\ control' = Passed(passed)
                 /\ UNCHANGED <<phase, timer, port>>
      BY <2>0, <2>3 DEF Ensure, store
    <3>2. w \in missing /\ \A v \in missing : w <= v
      BY DEF Lowest
    <3> DEFINE passed == {v \in r.want : v <= w}
    <3>3. w \in Workers /\ \A v \in passed \ {w} : control[v].process # None
      <4>1. \A v \in Workers : v <= w /\ w <= v => v = w
        BY <2>0, <3>2 DEF Workers
      <4> QED
        BY <2>0, <3>2, <4>1
    <3>4. CASE phase # "closing" /\ reservePort(w, None) # {}
      <4>1. PICK c \in Children : Spawn(w, c, None, Passed(passed))
        BY <3>1, <3>4
      <4> HIDE DEF Passed, passed
      <4> QED
        BY <2>1, <3>3, <4>1, SpawnPending
    <3>5. CASE ManagerGone
      BY <3>5, GoneBoot
    <3>6. CASE /\ control' = Passed(passed)
               /\ UNCHANGED <<phase, timer, port>>
               /\ phase = "closing" \/ reservePort(w, None) = {}
      <4>1. phase = "closing" \/ port[w] = None
        BY <3>6 DEF reservePort
      <4> HIDE DEF Passed, passed
      <4> QED
        BY <2>1, <3>3, <3>6, <4>1 DEF RestartPending
    <3> QED
      BY <3>1, <3>4, <3>5, <3>6
  <2> QED
    BY <2>2, <2>3
<1>4. CASE r.rest = {} /\ r.want = {}
  <2>1. CASE ManagerGone
    BY <2>1, GoneBoot
  <2>2. CASE Finish(s, r.kind) /\ UNCHANGED <<control, timer, port>>
    BY <1>1, <2>2 DEF Finish, RestartPending
  <2> QED
    BY <1>4, <2>1, <2>2 DEF Continue
<1> QED
  BY <1>2, <1>3, <1>4

LEMMA ExitPending ==
    ASSUME TypeOK, RestartPending, NEW c \in Children, ChildExit(c)
    PROVE  RestartPending'
<1> DEFINE w == owner[c]
           told == c \in heard
           waiters == {s \in Requests : At(s, "waiting") /\ req[s].child = c}
           restart == told /\ control[w].expected /\ phase # "closing"
<1>1. /\ w \in Workers
      /\ control' = [control EXCEPT ![w] =
             [process |-> IF told \/ waiters # {} THEN None ELSE @.process,
              expected |-> @.expected /\ waiters = {}]]
      /\ timer' = IF restart THEN timer \cup {w} ELSE timer
      /\ phase' = phase /\ port' = port
  BY DEF ChildExit, TypeOK
<1>2. /\ \A v \in Workers \ {w} : control'[v] = control[v]
      /\ control'[w].expected => control[w].expected /\ waiters = {}
      /\ control'[w].process = IF told \/ waiters # {} THEN None ELSE control[w].process
  <2> HIDE DEF w, told, waiters
  <2> QED
    BY <1>1 DEF TypeOK
<1> HIDE DEF w, waiters
<1> QED
  BY <1>1, <1>2 DEF RestartPending

\* Whatever requests, failing puts and deaths of the manager come between, and
\* however many ports there are: an id that is expected to run, has had a port and
\* has no process has its timer.
THEOREM CrashesRemembered == Spec => []RestartPending
<1>1. RestartInv => RestartPending
  BY DEF RestartInv
<1>2. Init => RestartInv
  <2> SUFFICES ASSUME Init PROVE RestartInv
    OBVIOUS
  <2>1. \A s \in Requests : Free(s)
    BY DEF Init, Free, IdleSlot, Fresh
  <2>2. \A w \in Workers : control[w].expected = FALSE
    BY DEF Init, NoControl
  <2> QED
    BY <2>1, <2>2, PoolInit DEF Init, RestartInv, BootInv, RestartPending, Busy
<1>3. RestartInv /\ [Next]_vars => RestartInv'
  <2> SUFFICES ASSUME RestartInv, [Next]_vars PROVE RestartPending'
    BY PoolNext, BootNext DEF RestartInv
  <2>0. /\ TypeOK /\ BootInv /\ RestartPending
        /\ \A s \in Requests : req[s] \in Request
        /\ Known \subseteq Workers
    BY DEF RestartInv, PoolInv, TypeOK, Known
  <2>1. ASSUME NEW s \in Requests, Request_(s)
        PROVE  RestartPending'
    <3>1. CASE Boot(s)
      BY <2>0, <3>1 DEF Boot, RestartPending
    <3>2. CASE CloseCall(s)
      BY <3>2, GoneBoot DEF CloseCall, RestartPending
    <3>3. CASE Signal(s)
      BY <2>0, <3>3 DEF Signal, store, RestartPending
    <3>4. CASE Resume(s)
      <4>1. ~Free(s) /\ Continue(s, req[s])
        BY <3>4 DEF Resume, At, Free
      <4> QED
        BY <2>0, <4>1, ContinuePending DEF Busy
    <3>5. ASSUME NEW w \in Workers, StopCall(w, s)
          PROVE  RestartPending'
      <4>1. Fresh("stop", {w}, {}) \in Request /\ Fresh("stop", {w}, {}).kind = "stop"
        BY FreshRequest DEF Fresh
      <4> QED
        BY <2>0, <3>5, <4>1, ContinuePending DEF StopCall
    <3>6. ASSUME NEW w \in Workers, NEW preferred \in Preferred \cup {None},
                 StartCall(w, preferred, s)
          PROVE  RestartPending'
      <4>1. PICK c \in Children : Spawn(w, c, preferred, control)
        BY <3>6 DEF StartCall
      <4> QED
        BY <2>0, <4>1, SpawnPending DEF TypeOK
    <3>7. ASSUME NEW n \in 0..MaxWorkers, ReconcileCall(n, s)
          PROVE  RestartPending'
      <4> DEFINE r == Fresh("reconcile", Known \ 1..n, 1..n)
      <4>1. r \in Request /\ r.kind = "reconcile"
        <5>1. 1..n \subseteq Workers
          BY PoolAssumption DEF Workers
        <5> QED
          BY <2>0, <5>1, FreshRequest DEF Fresh
      <4>2. Continue(s, r)
        BY <3>7 DEF ReconcileCall
      <4> HIDE DEF r
      <4> QED
        BY <2>0, <4>1, <4>2, ContinuePending
    <3> QED
      BY <2>1, <3>1, <3>2, <3>3, <3>4, <3>5, <3>6, <3>7 DEF Request_
  <2>2. ASSUME NEW s \in Requests, StopPutFails(s)
        PROVE  RestartPending'
    BY <2>0, <2>2, GoneBoot DEF StopPutFails, Reject, RestartPending, store
  <2>3. ASSUME NEW c \in Children, SpawnPutFails(c)
        PROVE  RestartPending'
    <3>1. CASE ManagerGone
      BY <3>1, GoneBoot
    <3>2. CASE UNCHANGED <<phase, control, timer, port>>
      BY <2>0, <3>2 DEF RestartPending
    <3> QED
      BY <2>3, <3>1, <3>2 DEF SpawnPutFails
  <2>4. ASSUME NEW w \in Workers, NEW c \in Children, TimerFires(w, c)
        PROVE  RestartPending'
    BY <2>0, <2>4, SpawnPending DEF TimerFires, TypeOK
  <2>5. ASSUME NEW c \in Children, Opened(c)
        PROVE  RestartPending'
    BY <2>0, <2>5 DEF Opened, RestartPending
  <2>6. CASE ManagerDies
    BY <2>6, GoneBoot DEF ManagerDies
  <2>7. CASE UNCHANGED vars
    BY <2>0, <2>7 DEF vars, RestartPending
  <2> QED
    BY <2>0, <2>1, <2>2, <2>3, <2>4, <2>5, <2>6, <2>7, ExitPending DEF Next
<1> QED
  BY <1>1, <1>2, <1>3, PTL DEF Spec
=============================================================================
