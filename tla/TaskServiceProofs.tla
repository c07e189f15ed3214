------------------------- MODULE TaskServiceProofs -------------------------
(***************************************************************************)
(* Proofs about TaskService, for any set of tasks, workers and slots, any  *)
(* number of claims, with or without faults.                               *)
(*                                                                         *)
(* First the promise chain: LockInv is inductive and makes it a lock.      *)
(* Then, without editors, ownership: OwnInv is inductive relative to the   *)
(* lock, and makes the service an implementation of TaskOwnership.         *)
(***************************************************************************)
EXTENDS TaskService, TLAPS

(* The shapes of a step of a request: it moves to its next stage, or it   *)
(* returns.                                                                *)

Claiming(s) == ~Free(s) /\ req[s].kind = "claim"

Moves(s) ==
    /\ ~Free(s)
    /\ req' \in [Requests -> Request \cup {IdleSlot}]
    /\ req'[s] \in Request /\ req'[s].stage # "queued"
    /\ \A r \in Requests : r # s => req'[r] = req[r]
    /\ req'[s].kind = req[s].kind
    /\ req'[s].caller = req[s].caller
    /\ req'[s].task = req[s].task
    /\ req'[s].ticket = req[s].ticket
    /\ req[s].stage = "queued"
       => req[s].ticket = 1 \/ req[s].ticket - 1 \in released
    /\ UNCHANGED <<born, tail, released, call, holds>>

Returns(s) ==
    /\ ~Free(s) /\ req[s].stage # "queued"
    /\ \E ok \in BOOLEAN : Respond(s, ok) /\ (ok => req[s].stage = "index")

-----------------------------------------------------------------------------
(* Types.                                                                  *)

\* A slot that is not free holds a request.
LEMMA BusySlot ==
    ASSUME TypeOK, NEW s \in Requests, ~Free(s)
    PROVE  req[s] \in Request
  BY DEF TypeOK, Free, IdleSlot

\* The merged entity of an update is an entity.
LEMMA ApplyPatchType ==
    ASSUME NEW task \in Entity, NEW patch \in Patch
    PROVE  applyPatch(task, patch) \in Entity
  <1>1. applyPatch(task, patch).status \in Status
    BY DEF applyPatch, Entity, Patch, Keep
  <1>2. applyPatch(task, patch).assignedTo \in Assignee
    BY DEF applyPatch, Entity, Patch, Keep
  <1> QED
    BY <1>1, <1>2 DEF applyPatch, Entity

LEMMA AdvanceMoves ==
    ASSUME TypeOK, NEW s \in Requests, ~Free(s), NEW stage \in Stages,
           Advance(s, stage),
           stage # "queued",
           req[s].stage = "queued"
           => req[s].ticket = 1 \/ req[s].ticket - 1 \in released
    PROVE  Moves(s)
  <1>1. req[s] \in Request
    BY BusySlot
  <1>2. req' = [req EXCEPT ![s].stage = stage]
    BY DEF Advance, Goto
  <1>3. req'[s] \in Request /\ req'[s] = [req[s] EXCEPT !.stage = stage]
    BY <1>1, <1>2 DEF TypeOK, Request
  <1> QED
    BY <1>1, <1>2, <1>3 DEF Moves, Advance, TypeOK, Request

\* Every step of a request moves it on or returns it.
LEMMA ServeShape ==
    ASSUME TypeOK, NEW s \in Requests, Serve(s) \/ IoError(s)
    PROVE  Moves(s) \/ Returns(s)
  <1>1. CASE Acquire(s)
    <2>1. ~Free(s) /\ "read" \in Stages
      BY <1>1 DEF Acquire, Free, Stages
    <2> QED
      BY <1>1, <2>1, AdvanceMoves DEF Acquire
  <1>2. CASE ClaimRead(s)
    <2>1. ~Free(s) /\ "scan" \in Stages /\ req[s].stage # "queued"
      BY <1>2 DEF ClaimRead, Free, Stages
    <2> QED
      BY <1>2, <2>1, AdvanceMoves DEF ClaimRead, Returns
  <1>3. CASE ClaimScan(s)
    <2>1. ~Free(s) /\ "load" \in Stages /\ req[s].stage # "queued"
      BY <1>3 DEF ClaimScan, Free, Stages
    <2> QED
      BY <1>3, <2>1, AdvanceMoves DEF ClaimScan, Returns
  <1>4. CASE ReadOldStatus(s)
    <2>1. ~Free(s) /\ "load" \in Stages /\ req[s].stage # "queued"
      BY <1>4 DEF ReadOldStatus, Free, Stages
    <2> QED
      BY <1>4, <2>1, AdvanceMoves DEF ReadOldStatus, Returns
  <1>5. CASE CheckExists(s)
    <2>1. ~Free(s) /\ "put" \in Stages /\ req[s].stage # "queued"
      BY <1>5 DEF CheckExists, Free, Stages
    <2> QED
      BY <1>5, <2>1, AdvanceMoves DEF CheckExists, Returns
  <1>6. CASE Load(s)
    <2>1. ~Free(s) /\ req[s].stage # "queued" /\ req[s] \in Request
      BY <1>6, BusySlot DEF Load, Free
    <2>2. CASE Respond(s, FALSE)
      BY <2>1, <2>2 DEF Returns
    <2>3. CASE ~Respond(s, FALSE)
      <3> DEFINE e == IF req[s].kind = "delete" THEN Absent
                      ELSE applyPatch(db[req[s].task], req[s].patch)
      <3>1. /\ Exists(req[s].task)
            /\ req' = [req EXCEPT ![s].stage = "exists", ![s].entity = e,
                                  ![s].patch = NoPatch]
            /\ UNCHANGED <<db, born, tail, released, call, holds>>
        BY <1>6, <2>3 DEF Load
      <3>2. db[req[s].task] \in Entity
        BY <3>1, <2>1 DEF Exists, TypeOK, Absent, Request
      <3>3. e \in Entity \cup {Absent}
        BY <3>2, <2>1, ApplyPatchType DEF Request
      <3>4. NoPatch \in Patch
        BY DEF NoPatch, Patch
      <3> HIDE DEF e
      <3>5. req'[s] = [req[s] EXCEPT !.stage = "exists", !.entity = e,
                                     !.patch = NoPatch]
        BY <3>1 DEF TypeOK
      <3>6. req'[s] \in Request
        BY <3>5, <3>3, <3>4, <2>1 DEF Request, Stages
      <3> QED
        BY <3>1, <3>5, <3>6, <2>1 DEF Moves, TypeOK, Request
    <2> QED
      BY <2>2, <2>3
  <1>7. CASE CheckDependency(s)
    <2>1. ~Free(s) /\ req[s].stage # "queued" /\ req[s] \in Request
      BY <1>7, BusySlot DEF CheckDependency, Free
    <2>2. PICK d \in req[s].unchecked :
            \/ /\ req' = [req EXCEPT ![s].unchecked = @ \ {d},
                                     ![s].stage = IF req[s].unchecked = {d}
                                                  THEN "put" ELSE "deps"]
               /\ UNCHANGED <<db, born, tail, released, call, holds>>
            \/ Respond(s, FALSE)
      BY <1>7 DEF CheckDependency
    <2>3. CASE Respond(s, FALSE)
      BY <2>1, <2>3 DEF Returns
    <2>4. CASE ~Respond(s, FALSE)
      <3> DEFINE g == IF req[s].unchecked = {d} THEN "put" ELSE "deps"
                 u == req[s].unchecked \ {d}
      <3>1. g \in Stages /\ u \in SUBSET Tasks /\ g # "queued"
        BY <2>1 DEF Stages, Request
      <3>2. req' = [req EXCEPT ![s].unchecked = u, ![s].stage = g]
        BY <2>2, <2>4
      <3> HIDE DEF g, u
      <3>3. req'[s] = [req[s] EXCEPT !.unchecked = u, !.stage = g]
        BY <3>2 DEF TypeOK
      <3>4. req'[s] \in Request
        BY <3>3, <3>1, <2>1 DEF Request
      <3> QED
        BY <2>2, <2>4, <3>1, <3>2, <3>3, <3>4, <2>1 DEF Moves, TypeOK, Request
    <2> QED
      BY <2>3, <2>4
  <1>8. CASE Write(s)
    <2>1. ~Free(s) /\ req[s].stage # "queued" /\ req[s] \in Request
      BY <1>8, BusySlot DEF Write, Free
    <2>2. req'[s] = [req[s] EXCEPT !.stage = "index", !.entity = Absent]
      BY <1>8 DEF Write, TypeOK
    <2>3. req'[s] \in Request
      BY <2>1, <2>2 DEF Request, Stages
    <2> QED
      BY <1>8, <2>1, <2>2, <2>3 DEF Moves, Write, TypeOK, Request
  <1>9. CASE Reply(s)
    BY <1>9 DEF Reply, Returns, Free
  <1>10. CASE IoError(s)
    BY <1>10 DEF IoError, Returns, Free
  <1> QED
    BY <1>1, <1>2, <1>3, <1>4, <1>5, <1>6, <1>7, <1>8, <1>9, <1>10 DEF Serve

-----------------------------------------------------------------------------
(* The promise chain.                                                      *)

\* a claim in flight owns a promise of the chain, which is not yet resolved
TicketsIssued ==
    \A s \in Requests : Claiming(s) => req[s].ticket \in 1..tail \ released

TicketsDistinct ==
    \A r, s \in Requests :
        Claiming(r) /\ Claiming(s) /\ req[r].ticket = req[s].ticket => r = s

\* promises are resolved in the order of the chain
ReleasedInOrder ==
    \A n \in released : \A m \in 1..n : m \in released

\* a claim leaves the queue after all the promises before its own
TurnComes ==
    \A s \in Requests :
        InClaimLock(s) => \A m \in 1..(req[s].ticket - 1) : m \in released

\* only claims queue
QueueOfClaims ==
    \A s \in Requests : req[s].stage = "queued" => req[s].kind = "claim"

LockInv ==
    /\ TypeOK
    /\ TicketsIssued
    /\ TicketsDistinct
    /\ ReleasedInOrder
    /\ TurnComes
    /\ QueueOfClaims

\* Two claims cannot both be past the queue: the later one's turn comes after
\* the promise of the earlier one is resolved, that is after it has returned.
LEMMA LockInvExcludes ==
    LockInv => ClaimLockExclusive
  <1> SUFFICES ASSUME LockInv, NEW r \in Requests, NEW s \in Requests,
                      InClaimLock(r), InClaimLock(s), r # s
               PROVE  FALSE
    BY DEF ClaimLockExclusive
  <1>1. Claiming(r) /\ Claiming(s)
    BY DEF InClaimLock, Claiming, Free
  <1>2. /\ req[r].ticket \in Nat /\ req[s].ticket \in Nat
        /\ req[r].ticket # req[s].ticket
        /\ req[r].ticket \in 1..tail \ released
        /\ req[s].ticket \in 1..tail \ released
    BY <1>1, BusySlot DEF LockInv, TicketsIssued, TicketsDistinct, Claiming, Request
  <1>3. CASE req[r].ticket < req[s].ticket
    BY <1>2, <1>3 DEF LockInv, TurnComes
  <1>4. CASE req[s].ticket < req[r].ticket
    BY <1>2, <1>4 DEF LockInv, TurnComes
  <1> QED
    BY <1>2, <1>3, <1>4

LEMMA LockInvInit ==
    Init => LockInv
  <1> SUFFICES ASSUME Init
               PROVE  LockInv
    OBVIOUS
  <1>1. \A s \in Requests : req[s] = IdleSlot /\ Free(s)
    BY DEF Init, Free, IdleSlot
  <1>2. TypeOK
    BY DEF Init, TypeOK
  <1> QED
    BY <1>1, <1>2
    DEF LockInv, TicketsIssued, TicketsDistinct, ReleasedInOrder, TurnComes,
        QueueOfClaims, Init, Claiming, InClaimLock, IdleSlot

\* A request that moves keeps its promise; it leaves the queue on its turn.
LEMMA MovesKeepLock ==
    ASSUME LockInv, NEW s \in Requests, Moves(s), TypeOK'
    PROVE  LockInv'
  <1>1. TicketsIssued' /\ TicketsDistinct'
    <2>1. \A r \in Requests :
            Claiming(r)' => Claiming(r) /\ req'[r].ticket = req[r].ticket
      BY DEF Moves, Claiming, Free
    <2> QED
      BY <2>1 DEF LockInv, TicketsIssued, TicketsDistinct, Moves
  <1>2. ReleasedInOrder'
    BY DEF LockInv, ReleasedInOrder, Moves
  <1>3. TurnComes'
    <2> SUFFICES ASSUME NEW r \in Requests, InClaimLock(r)',
                        NEW m \in 1..(req'[r].ticket - 1)
                 PROVE  m \in released
      BY DEF TurnComes, Moves
    <2>1. CASE r # s \/ req[r].stage # "queued"
      <3>1. InClaimLock(r) /\ req'[r].ticket = req[r].ticket
        BY <2>1 DEF InClaimLock, Moves, Free
      <3> QED
        BY <3>1 DEF LockInv, TurnComes
    <2>2. CASE r = s /\ req[s].stage = "queued"
      <3>1. req[s].kind = "claim" /\ req[s] \in Request
        BY <2>2, BusySlot DEF LockInv, QueueOfClaims, Moves
      <3>2. req[s].ticket \in 1..tail /\ tail \in Nat
        BY <3>1 DEF LockInv, TicketsIssued, TypeOK, Claiming, Moves
      <3>3. req'[s].ticket = req[s].ticket
        BY DEF Moves
      <3>4. req[s].ticket - 1 \in released
        BY <2>2, <3>2, <3>3 DEF Moves
      <3>5. m \in 1..(req[s].ticket - 1)
        BY <2>2, <3>3
      <3> QED
        BY <3>4, <3>5 DEF LockInv, ReleasedInOrder
    <2> QED
      BY <2>1, <2>2
  <1>4. QueueOfClaims'
    <2> SUFFICES ASSUME NEW r \in Requests, req'[r].stage = "queued"
                 PROVE  req'[r].kind = "claim"
      BY DEF QueueOfClaims
    <2> QED
      BY DEF LockInv, QueueOfClaims, Moves
  <1> QED
    BY <1>1, <1>2, <1>3, <1>4 DEF LockInv
\* A request that returns resolves its promise, all the earlier ones being so.
LEMMA ReturnsKeepLock ==
    ASSUME LockInv, NEW s \in Requests, Returns(s)
    PROVE  LockInv'
  <1>1. PICK ok \in BOOLEAN : Respond(s, ok)
    BY DEF Returns
  <1>2. /\ req[s] \in Request
        /\ req' = [req EXCEPT ![s] = IdleSlot]
        /\ \A r \in Requests : r # s => req'[r] = req[r]
        /\ req'[s] = IdleSlot
        /\ UNCHANGED <<db, born, tail>>
    BY <1>1, BusySlot DEF LockInv, Returns, Respond, TypeOK
  <1>3. Free(s)' /\ ~Claiming(s)' /\ ~InClaimLock(s)' /\ req'[s].stage # "queued"
    BY <1>2 DEF Free, Claiming, InClaimLock, IdleSlot
  <1>4. released' \in {released, released \cup {req[s].ticket}}
        /\ (released' # released => Claiming(s))
    BY <1>1 DEF Respond, Claiming, Returns
  <1>5. req[s].ticket \in Nat /\ (Claiming(s) => req[s].ticket \in 1..tail)
    BY <1>2 DEF LockInv, TicketsIssued, Request
  <1>6. TypeOK'
    <2>1. released' \subseteq 1..tail'
      BY <1>2, <1>4, <1>5 DEF LockInv, TypeOK
    <2>2. call' \in [Workers -> Requests \cup {NoCall}]
          /\ holds' \in [Workers -> SUBSET Tasks]
      BY <1>1, <1>2 DEF LockInv, TypeOK, Respond, Answered, Request
    <2>3. req' \in [Requests -> Request \cup {IdleSlot}]
      BY <1>2 DEF LockInv, TypeOK
    <2> QED
      BY <1>2, <2>1, <2>2, <2>3 DEF LockInv, TypeOK
  <1>7. TicketsDistinct'
    BY <1>2, <1>3 DEF LockInv, TicketsDistinct, Claiming, Free
  <1>8. TicketsIssued'
    <2> SUFFICES ASSUME NEW r \in Requests, Claiming(r)'
                 PROVE  req'[r].ticket \in 1..tail' \ released'
      BY DEF TicketsIssued
    <2>1. r # s /\ Claiming(r) /\ req'[r] = req[r]
      BY <1>2, <1>3 DEF Claiming, Free
    <2>2. Claiming(s) => req[r].ticket # req[s].ticket
      BY <2>1 DEF LockInv, TicketsDistinct
    <2> QED
      BY <1>2, <1>4, <2>1, <2>2 DEF LockInv, TicketsIssued
  <1>9. ReleasedInOrder'
    <2> SUFFICES ASSUME NEW n \in released', NEW m \in 1..n
                 PROVE  m \in released'
      BY DEF ReleasedInOrder
    <2>1. CASE n \in released
      BY <2>1, <1>4 DEF LockInv, ReleasedInOrder
    <2>2. CASE n \notin released
      <3>1. n = req[s].ticket /\ Claiming(s) /\ released' = released \cup {n}
        BY <2>2, <1>4
      <3>2. InClaimLock(s)
        BY <3>1 DEF Claiming, InClaimLock, Returns, Free
      <3>3. m = n \/ m \in 1..(n - 1)
        BY <3>1, <1>5
      <3> QED
        BY <3>1, <3>2, <3>3 DEF LockInv, TurnComes
    <2> QED
      BY <2>1, <2>2
  <1>10. TurnComes'
    BY <1>2, <1>3, <1>4 DEF LockInv, TurnComes, InClaimLock
  <1>11. QueueOfClaims'
    BY <1>2, <1>3 DEF LockInv, QueueOfClaims
  <1> QED
    BY <1>6, <1>7, <1>8, <1>9, <1>10, <1>11 DEF LockInv

\* A new request; if it is a claim it takes the next promise.
Arrives(s) ==
    /\ Free(s)
    /\ req'[s] \in Request
    /\ req' = [req EXCEPT ![s] = req'[s]]
    /\ req'[s].stage # "queued"
       => req'[s].kind # "claim" /\ tail' = tail
    /\ req'[s].stage = "queued"
       => req'[s].kind = "claim" /\ tail' = tail + 1 /\ req'[s].ticket = tail'
    /\ born' \subseteq Tasks
    /\ call' \in [Workers -> Requests \cup {NoCall}]
    /\ UNCHANGED <<db, released, holds>>

LEMMA ArrivesKeepsLock ==
    ASSUME LockInv, NEW s \in Requests, Arrives(s)
    PROVE  LockInv'
  <1>1. tail \in Nat /\ tail' \in Nat /\ tail <= tail' /\ released \subseteq 1..tail
    BY DEF LockInv, TypeOK, Arrives
  <1>2. \A r \in Requests : r # s => req'[r] = req[r]
    BY DEF Arrives, LockInv, TypeOK
  <1>3. TypeOK'
    <2>1. req' \in [Requests -> Request \cup {IdleSlot}]
      BY DEF Arrives, LockInv, TypeOK
    <2> QED
      BY <1>1, <2>1 DEF Arrives, LockInv, TypeOK
  <1>4. \A r \in Requests : Claiming(r)' =>
           \/ r # s /\ Claiming(r) /\ req'[r].ticket = req[r].ticket
           \/ r = s /\ req'[s].ticket = tail + 1 /\ tail' = tail + 1
    BY <1>2 DEF Arrives, Claiming, Free
  <1>5. TicketsIssued'
    BY <1>1, <1>4 DEF Arrives, LockInv, TicketsIssued
  <1>6. TicketsDistinct'
    BY <1>1, <1>4 DEF LockInv, TicketsIssued, TicketsDistinct
  <1>7. ReleasedInOrder'
    BY DEF LockInv, ReleasedInOrder, Arrives
  <1>8. TurnComes'
    <2>1. \A r \in Requests : InClaimLock(r)' =>
             InClaimLock(r) /\ req'[r].ticket = req[r].ticket
      BY <1>2 DEF Arrives, InClaimLock
    <2> QED
      BY <2>1 DEF LockInv, TurnComes, Arrives
  <1>9. QueueOfClaims'
    BY <1>2 DEF Arrives, LockInv, QueueOfClaims
  <1> QED
    BY <1>3, <1>5, <1>6, <1>7, <1>8, <1>9 DEF LockInv

\* A request record built by Receive is a request.
LEMMA ReceiveRequest ==
    ASSUME TypeOK, NEW s \in Requests, NEW kind \in Kinds,
           NEW caller \in Workers \cup Editors \cup {NoOne}, NEW t \in Tasks,
           NEW patch \in Patch, NEW stage \in Stages, NEW ticket \in Nat,
           Receive(s, kind, caller, t, patch, stage, ticket)
    PROVE  /\ Free(s)
           /\ req'[s] \in Request
           /\ req' = [req EXCEPT ![s] = req'[s]]
           /\ req'[s].stage = stage /\ req'[s].kind = kind
           /\ req'[s].caller = caller /\ req'[s].task = t
           /\ req'[s].patch = patch /\ req'[s].ticket = ticket
  BY DEF Receive, TypeOK, Request

\* The patches of the calls are patches.
LEMMA PatchTypes ==
    /\ NoPatch \in Patch
    /\ \A status \in Status : [NoPatch EXCEPT !.status = status] \in Patch
    /\ \A w \in Workers : [status |-> "in-progress", assignedTo |-> w] \in Patch
  BY DEF NoPatch, Patch, Status, Assignee

LEMMA ClaimCallArrives ==
    ASSUME LockInv, NEW w \in Workers, NEW t \in Tasks, NEW s \in Requests,
           ClaimCall(w, t, s)
    PROVE  Arrives(s)
  <1>1. tail + 1 \in Nat /\ "claim" \in Kinds /\ "queued" \in Stages
    BY DEF LockInv, TypeOK, Kinds, Stages
  <1>2. /\ Free(s) /\ req'[s] \in Request /\ req' = [req EXCEPT ![s] = req'[s]]
        /\ req'[s].stage = "queued" /\ req'[s].kind = "claim"
        /\ req'[s].ticket = tail + 1
    BY <1>1, PatchTypes, ReceiveRequest DEF ClaimCall, LockInv
  <1> QED
    BY <1>2 DEF Arrives, ClaimCall, LockInv, TypeOK

LEMMA CloseCallArrives ==
    ASSUME LockInv, NEW w \in Workers, NEW t \in Tasks, NEW s \in Requests,
           NEW status \in Status, CloseCall(w, t, status, s)
    PROVE  Arrives(s)
  <1>1. 0 \in Nat /\ "status" \in Kinds /\ "old" \in Stages
    BY DEF Kinds, Stages
  <1>2. /\ Free(s) /\ req'[s] \in Request /\ req' = [req EXCEPT ![s] = req'[s]]
        /\ req'[s].stage = "old" /\ req'[s].kind = "status"
    BY <1>1, PatchTypes, ReceiveRequest DEF CloseCall, LockInv
  <1> QED
    BY <1>2 DEF Arrives, CloseCall, LockInv, TypeOK

LEMMA LogCallArrives ==
    ASSUME LockInv, NEW w \in Workers, NEW t \in Tasks, NEW s \in Requests,
           LogCall(w, t, s)
    PROVE  Arrives(s)
  <1>1. 0 \in Nat /\ "update" \in Kinds /\ "load" \in Stages
    BY DEF Kinds, Stages
  <1>2. /\ Free(s) /\ req'[s] \in Request /\ req' = [req EXCEPT ![s] = req'[s]]
        /\ req'[s].stage = "load" /\ req'[s].kind = "update"
    BY <1>1, PatchTypes, ReceiveRequest DEF LogCall, LockInv
  <1> QED
    BY <1>2 DEF Arrives, LogCall, LockInv, TypeOK

LEMMA EditCallArrives ==
    ASSUME LockInv, NEW e \in Editors, NEW t \in Tasks, NEW s \in Requests,
           EditCall(e, t, s)
    PROVE  Arrives(s)
  <1>1. PICK kind \in {"status", "update", "delete"}, patch \in Patch,
             stage \in {"old", "load"} : Receive(s, kind, e, t, patch, stage, 0)
    BY PatchTypes DEF EditCall
  <1>2. 0 \in Nat /\ kind \in Kinds /\ stage \in Stages
    BY DEF Kinds, Stages
  <1>3. /\ Free(s) /\ req'[s] \in Request /\ req' = [req EXCEPT ![s] = req'[s]]
        /\ req'[s].stage = stage /\ req'[s].kind = kind
    BY <1>1, <1>2, ReceiveRequest DEF LockInv
  <1> QED
    BY <1>3 DEF Arrives, EditCall, LockInv, TypeOK

LEMMA CreateCallArrives ==
    ASSUME LockInv, NEW t \in Tasks, NEW to \in Assignee, NEW s \in Requests,
           CreateCall(t, to, s)
    PROVE  Arrives(s)
  <1> DEFINE g == IF Deps[t] = {} THEN "put" ELSE "deps"
             en == [status |-> "todo", assignedTo |-> to]
  <1>1. req'[s] = [stage |-> g, kind |-> "create", caller |-> NoOne, task |-> t,
                   patch |-> NoPatch, entity |-> en, ticket |-> 0,
                   unchecked |-> Deps[t]]
    BY DEF CreateCall, LockInv, TypeOK
  <1>2. /\ g \in Stages /\ g # "queued" /\ "create" \in Kinds
        /\ en \in Entity /\ Deps[t] \in SUBSET Tasks
    BY GraphAssumption DEF Stages, Kinds, Entity, Status
  <1> HIDE DEF g, en
  <1>3. req'[s] \in Request
    BY <1>1, <1>2, PatchTypes DEF Request
  <1> QED
    BY <1>1, <1>2, <1>3 DEF Arrives, CreateCall, LockInv, TypeOK

\* The promise chain's invariant is inductive: one step per action.
LEMMA LockInvStep ==
    LockInv /\ [Next]_vars => LockInv'
  <1> SUFFICES ASSUME LockInv, [Next]_vars
               PROVE  LockInv'
    OBVIOUS
  <1>1. ASSUME NEW t \in Tasks, NEW to \in Assignee, NEW s \in Requests,
               CreateCall(t, to, s)
        PROVE  LockInv'
    BY <1>1, CreateCallArrives, ArrivesKeepsLock
  <1>2. ASSUME NEW w \in Workers, WorkerStep(w)
        PROVE  LockInv'
    <2>1. {"done", "invalid"} \subseteq Status
      BY DEF Status
    <2>2. PICK t \in Tasks, s \in Requests :
             \/ ClaimCall(w, t, s)
             \/ \E status \in {"done", "invalid"} : CloseCall(w, t, status, s)
             \/ LogCall(w, t, s)
      BY <1>2 DEF WorkerStep
    <2>3. Arrives(s)
      BY <2>1, <2>2, ClaimCallArrives, CloseCallArrives, LogCallArrives
    <2> QED
      BY <2>3, ArrivesKeepsLock
  <1>3. ASSUME NEW e \in Editors, NEW t \in Tasks, NEW s \in Requests,
               EditCall(e, t, s)
        PROVE  LockInv'
    BY <1>3, EditCallArrives, ArrivesKeepsLock
  <1>4. ASSUME NEW s \in Requests, Serve(s) \/ IoError(s)
        PROVE  LockInv'
    <2>1. CASE Returns(s)
      BY <2>1, ReturnsKeepLock
    <2>2. CASE Moves(s)
      <3>1. db' \in [Tasks -> Entity \cup {Absent}]
        <4>1. CASE Write(s)
          <5>1. req[s] \in Request
            BY <2>2, BusySlot DEF Moves, LockInv
          <5> QED
            BY <4>1, <5>1 DEF Write, LockInv, TypeOK, Request
        <4>2. CASE ~Write(s)
          BY <1>4, <4>2
          DEF Serve, IoError, Acquire, ClaimRead, ClaimScan, ReadOldStatus, Load,
              CheckDependency, CheckExists, Reply, Advance, Respond, LockInv, TypeOK
        <4> QED
          BY <4>1, <4>2
      <3>2. TypeOK'
        BY <2>2, <3>1 DEF Moves, LockInv, TypeOK
      <3> QED
        BY <2>2, <3>2, MovesKeepLock
    <2> QED
      BY <1>4, <2>1, <2>2, ServeShape DEF LockInv
  <1>5. ASSUME NEW w \in Workers, Crash(w) \/ Disconnect(w)
        PROVE  LockInv'
    BY <1>5 DEF Crash, Disconnect, LockInv, TypeOK, TicketsIssued, TicketsDistinct,
                ReleasedInOrder, TurnComes, QueueOfClaims, Claiming, InClaimLock, Free
  <1>6. CASE Restart
    <2>1. TypeOK'
      BY <1>6 DEF Restart, LockInv, TypeOK
    <2>2. \A s \in Requests : Free(s)' /\ ~InClaimLock(s)' /\ req'[s].stage = "free"
      BY <1>6 DEF Restart, Free, InClaimLock, IdleSlot
    <2> QED
      BY <1>6, <2>1, <2>2
      DEF Restart, LockInv, TicketsIssued, TicketsDistinct, ReleasedInOrder,
          TurnComes, QueueOfClaims, Claiming
  <1>7. CASE UNCHANGED vars
    BY <1>7 DEF vars, LockInv, TypeOK, TicketsIssued, TicketsDistinct,
                ReleasedInOrder, TurnComes, QueueOfClaims, Claiming, InClaimLock, Free
  <1> QED
    BY <1>1, <1>2, <1>3, <1>4, <1>5, <1>6, <1>7 DEF Next

LEMMA LockInvAlways ==
    Spec => []LockInv
  BY LockInvInit, LockInvStep, PTL DEF Spec

\* Every reachable state is well typed: tickets, promises, slots and holdings.
THEOREM TypeCorrect ==
    Spec => []TypeOK
  <1>1. LockInv => TypeOK
    BY DEF LockInv
  <1> QED
    BY <1>1, LockInvAlways, PTL

\* withTaskClaimLock is a lock, however many claims there are and however they
\* end: only one runs the body of claimTaskForWorker at a time.
THEOREM ClaimLock ==
    Spec => []ClaimLockExclusive
  BY LockInvAlways, LockInvExcludes, PTL

\* A lock that is fair: no claim overtakes one called before it.
THEOREM ClaimOrder ==
    Spec => ClaimsInCallOrder
  <1> DEFINE InOrder == \A r, s \in Requests :
                 req[r].stage = "queued" /\ req[s].stage = "queued"
                 /\ req[r].ticket < req[s].ticket
                 => req'[s].stage # "read"
  <1>1. LockInv /\ [Next]_vars => [InOrder]_vars
    <2> SUFFICES ASSUME LockInv, Next, NEW r \in Requests, NEW s \in Requests,
                        req[r].stage = "queued", req[s].stage = "queued",
                        req[r].ticket < req[s].ticket, req'[s].stage = "read"
                 PROVE  FALSE
      OBVIOUS
    <2>1. Claiming(r) /\ Claiming(s)
      BY DEF LockInv, QueueOfClaims, Claiming, Free
    <2>2. /\ req[r].ticket \in 1..tail /\ req[r].ticket \notin released
          /\ req[s].ticket \in 1..tail /\ tail \in Nat
      BY <2>1 DEF LockInv, TypeOK, TicketsIssued
    <2>3. ~Acquire(s)
      <3> SUFFICES ASSUME Acquire(s)
                   PROVE  FALSE
        OBVIOUS
      <3>1. req[s].ticket - 1 \in released
        BY <2>2 DEF Acquire
      <3> QED
        BY <3>1, <2>2 DEF LockInv, ReleasedInOrder
    <2>4. ASSUME NEW q \in Requests, Arrives(q)
          PROVE  FALSE
      BY <2>4 DEF Arrives, Free, LockInv, TypeOK
    <2>5. ASSUME NEW q \in Requests, Serve(q) \/ IoError(q)
          PROVE  FALSE
      <3>1. CASE Moves(q)
        <4>1. q = s
          BY <3>1 DEF Moves
        <4> QED
          BY <4>1, <2>3, <2>5
          DEF Serve, IoError, ClaimRead, ClaimScan, ReadOldStatus, Load,
              CheckDependency, CheckExists, Write, Reply
      <3>2. CASE Returns(q)
        <4>1. req' = [req EXCEPT ![q] = IdleSlot]
          BY <3>2 DEF Returns, Respond
        <4> QED
          BY <4>1 DEF LockInv, TypeOK, IdleSlot
      <3> QED
        BY <2>5, <3>1, <3>2, ServeShape DEF LockInv
    <2>6. ASSUME NEW w \in Workers, WorkerStep(w)
          PROVE  FALSE
      <3>1. {"done", "invalid"} \subseteq Status
        BY DEF Status
      <3> QED
        BY <3>1, <2>4, <2>6, ClaimCallArrives, CloseCallArrives, LogCallArrives
        DEF WorkerStep
    <2> QED
      BY <2>4, <2>5, <2>6, CreateCallArrives, EditCallArrives
      DEF Next, Crash, Disconnect, Restart, IdleSlot
  <1> QED
    BY <1>1, LockInvAlways, PTL DEF Spec, ClaimsInCallOrder

-----------------------------------------------------------------------------
(***************************************************************************)
(* Without editors, the tasks service implements TaskOwnership.            *)
(*                                                                         *)
(* The inductive invariant OwnInv says why stale whole-entity writes do no *)
(* harm: a request that will write a task can only write its own caller as *)
(* the assignee, and from the moment it may write, that caller is the only *)
(* worker the task can belong to.  It is inductive relative to the promise *)
(* chain: two claims past the queue would break it.                        *)
(*                                                                         *)
(* Without faults as well, GateInv says of the statuses what OwnInv says   *)
(* of the assignees: what a request has read is still true when it writes. *)
(***************************************************************************)

Started(t) == db[t].status \notin {"absent", "todo"}
OwnedBy(t, w) == Started(t) /\ db[t].assignedTo = w
MayOwn(t, w) == db[t].status = "todo" \/ OwnedBy(t, w)

\* the entity a request is about to put makes its caller the owner
PutsCaller(s) ==
    /\ req[s].entity.status \notin {"absent", "todo"}
    /\ req[s].entity.assignedTo = req[s].caller

ClaimPatch(w) == [status |-> "in-progress", assignedTo |-> w]
Creating(s) == req[s].stage \in {"deps", "put"} /\ req[s].kind = "create"

\* what a request of each kind knows at each of its stages
CreateOK(s) ==
    /\ req[s].stage \in {"deps", "put", "index"}
    /\ req[s].caller = NoOne
    /\ req[s].task \in born
    /\ req[s].stage # "index"
       => db[req[s].task] = Absent /\ req[s].entity.status = "todo"

UpdateOK(s) ==
    /\ req[s].stage \in {"old", "load", "exists", "put", "index"}
    /\ req[s].caller \in Workers
    /\ OwnedBy(req[s].task, req[s].caller)
    /\ req[s].stage \in {"old", "load"}
       => req[s].patch.assignedTo = Keep /\ req[s].patch.status # "todo"
    /\ req[s].stage \in {"exists", "put"} => PutsCaller(s)

ClaimOK(s) ==
    /\ req[s].stage \in {"queued", "read", "scan", "load", "exists", "put", "index"}
    /\ req[s].caller \in Workers
    /\ req[s].stage \in {"queued", "read", "scan", "load"}
       => req[s].patch = ClaimPatch(req[s].caller)
    /\ req[s].stage \in {"scan", "load", "exists", "put"}
       => MayOwn(req[s].task, req[s].caller)
    /\ req[s].stage \in {"exists", "put"} => PutsCaller(s)
    /\ req[s].stage = "index" => OwnedBy(req[s].task, req[s].caller)

RequestOK(s) ==
    ~Free(s) =>
        \/ req[s].kind = "create" /\ CreateOK(s)
        \/ req[s].kind \in {"status", "update"} /\ UpdateOK(s)
        \/ req[s].kind = "claim" /\ ClaimOK(s)

RequestsOK == \A s \in Requests : RequestOK(s)

CreatesDistinct ==
    \A r, s \in Requests :
        Creating(r) /\ Creating(s) /\ req[r].task = req[s].task => r = s

ExistBorn == \A t \in Tasks : Exists(t) => t \in born
StartedOwned == \A t \in Tasks : Started(t) => db[t].assignedTo \in Workers
HoldersOwn == \A w \in Workers : \A t \in holds[w] : OwnedBy(t, w)

OwnInv ==
    /\ RequestsOK
    /\ CreatesDistinct
    /\ ExistBorn
    /\ StartedOwned
    /\ HoldersOwn

-----------------------------------------------------------------------------
(* OwnInv is preserved by each shape of step.                              *)

LEMMA OwnInvInit ==
    Init => OwnInv
  <1> SUFFICES ASSUME Init
               PROVE  OwnInv
    OBVIOUS
  <1>1. \A s \in Requests : req[s] = IdleSlot /\ Free(s) /\ ~Creating(s)
    BY DEF Init, Free, IdleSlot, Creating
  <1>2. \A t \in Tasks : ~Exists(t) /\ ~Started(t)
    BY DEF Init, Exists, Started, Absent
  <1> QED
    BY <1>1, <1>2
    DEF OwnInv, RequestsOK, RequestOK, CreatesDistinct, ExistBorn, StartedOwned,
        HoldersOwn, Init

\* A request keeps what it knows while it and the database stand still.
LEMMA UntouchedRequest ==
    ASSUME NEW s \in Requests, RequestOK(s), req'[s] = req[s], db' = db,
           born \subseteq born'
    PROVE  RequestOK(s)'
  BY DEF RequestOK, Free, CreateOK, UpdateOK, ClaimOK, OwnedBy, MayOwn, Started,
         PutsCaller

\* A request moves on without writing, and knows what it must at its new stage.
LEMMA MovesKeepOwn ==
    ASSUME OwnInv, NEW s \in Requests, Moves(s), db' = db, RequestOK(s)',
           Creating(s)' => Creating(s)
    PROVE  OwnInv'
  <1>1. RequestsOK'
    <2> SUFFICES ASSUME NEW r \in Requests, r # s
                 PROVE  RequestOK(r)'
      BY DEF RequestsOK
    <2> QED
      BY UntouchedRequest DEF Moves, OwnInv, RequestsOK
  <1>2. CreatesDistinct'
    <2>1. \A r \in Requests : Creating(r)' => Creating(r) /\ req'[r].task = req[r].task
      BY DEF Moves, Creating
    <2> QED
      BY <2>1 DEF OwnInv, CreatesDistinct
  <1>3. ExistBorn' /\ StartedOwned' /\ HoldersOwn'
    BY DEF OwnInv, ExistBorn, StartedOwned, HoldersOwn, OwnedBy, Started, Exists, Moves
  <1> QED
    BY <1>1, <1>2, <1>3 DEF OwnInv

\* What a returning request does to the tasks the workers hold.
LEMMA RespondHolds ==
    ASSUME TypeOK, NEW s \in Requests, ~Free(s), NEW ok \in BOOLEAN, Respond(s, ok)
    PROVE  \/ holds' = holds
           \/ \E w \in Workers :
                /\ w = req[s].caller /\ ok /\ req[s].kind = "claim"
                /\ holds' = [holds EXCEPT ![w] = @ \cup {req[s].task}]
           \/ \E w \in Workers :
                holds' = [holds EXCEPT ![w] = @ \ {req[s].task}]
  <1> DEFINE w == req[s].caller
  <1>1. CASE ~(w \in Workers /\ call[w] = s)
    BY <1>1 DEF Respond, Answered
  <1>2. CASE w \in Workers /\ call[w] = s
    <2>1. holds' = [holds EXCEPT ![w] =
                       IF ok /\ req[s].kind = "claim" THEN @ \cup {req[s].task}
                       ELSE IF ok /\ req[s].kind = "status" THEN @ \ {req[s].task}
                       ELSE @]
      BY <1>2 DEF Respond, Answered
    <2>2. CASE ok /\ req[s].kind = "claim"
      BY <1>2, <2>1, <2>2
    <2>3. CASE ~(ok /\ req[s].kind = "claim") /\ ok /\ req[s].kind = "status"
      BY <1>2, <2>1, <2>3
    <2>4. CASE ~(ok /\ req[s].kind = "claim") /\ ~(ok /\ req[s].kind = "status")
      BY <1>2, <2>1, <2>4 DEF TypeOK
    <2> QED
      BY <2>2, <2>3, <2>4
  <1> QED
    BY <1>1, <1>2

\* A request returns; it says yes only after it has written.
LEMMA RespondKeepsOwn ==
    ASSUME LockInv, OwnInv, NEW s \in Requests, ~Free(s), NEW ok \in BOOLEAN,
           Respond(s, ok), ok => req[s].stage = "index"
    PROVE  OwnInv'
  <1>1. /\ req' = [req EXCEPT ![s] = IdleSlot]
        /\ req'[s] = IdleSlot
        /\ \A r \in Requests : r # s => req'[r] = req[r]
        /\ db' = db /\ born' = born
    BY DEF Respond, LockInv, TypeOK
  <1>2. RequestsOK'
    <2> SUFFICES ASSUME NEW r \in Requests
                 PROVE  RequestOK(r)'
      BY DEF RequestsOK
    <2>1. CASE r = s
      BY <1>1, <2>1 DEF RequestOK, Free, IdleSlot
    <2>2. CASE r # s
      BY <1>1, <2>2, UntouchedRequest DEF OwnInv, RequestsOK
    <2> QED
      BY <2>1, <2>2
  <1>3. CreatesDistinct'
    <2>1. \A r \in Requests : Creating(r)' => Creating(r) /\ req'[r] = req[r]
      BY <1>1 DEF Creating, IdleSlot
    <2> QED
      BY <2>1 DEF OwnInv, CreatesDistinct
  <1>4. ExistBorn' /\ StartedOwned'
    BY <1>1 DEF OwnInv, ExistBorn, StartedOwned, Started, Exists
  <1>5. HoldersOwn'
    <2>1. \A t \in Tasks, w \in Workers : OwnedBy(t, w) => OwnedBy(t, w)'
      BY <1>1 DEF OwnedBy, Started
    <2>2. holds \in [Workers -> SUBSET Tasks]
      BY DEF LockInv, TypeOK
    <2>3. CASE holds' = holds
      BY <2>1, <2>2, <2>3 DEF OwnInv, HoldersOwn
    <2>4. ASSUME NEW w \in Workers, w = req[s].caller, ok, req[s].kind = "claim",
                 holds' = [holds EXCEPT ![w] = @ \cup {req[s].task}]
          PROVE  HoldersOwn'
      <3>1. req[s].task \in Tasks
        BY BusySlot DEF LockInv, Request
      <3>2. OwnedBy(req[s].task, w)
        BY <2>4 DEF OwnInv, RequestsOK, RequestOK, ClaimOK
      <3> QED
        BY <2>1, <2>2, <2>4, <3>1, <3>2 DEF OwnInv, HoldersOwn
    <2>5. ASSUME NEW w \in Workers,
                 holds' = [holds EXCEPT ![w] = @ \ {req[s].task}]
          PROVE  HoldersOwn'
      BY <2>1, <2>2, <2>5 DEF OwnInv, HoldersOwn
    <2> QED
      BY <2>3, <2>4, <2>5, RespondHolds DEF LockInv
  <1> QED
    BY <1>2, <1>3, <1>4, <1>5 DEF OwnInv

\* A request arrives that knows what it must and creates nothing born already.
LEMMA ArrivesKeepsOwn ==
    ASSUME LockInv, OwnInv, NEW s \in Requests, Arrives(s), born \subseteq born',
           RequestOK(s)', Creating(s)' => req'[s].task \notin born
    PROVE  OwnInv'
  <1>1. db' = db /\ holds' = holds /\ \A r \in Requests : r # s => req'[r] = req[r]
    BY DEF Arrives, LockInv, TypeOK
  <1>2. RequestsOK'
    <2> SUFFICES ASSUME NEW r \in Requests, r # s
                 PROVE  RequestOK(r)'
      BY DEF RequestsOK
    <2> QED
      BY <1>1, UntouchedRequest DEF OwnInv, RequestsOK
  <1>3. CreatesDistinct'
    <2>1. \A r \in Requests : r # s /\ Creating(r)'
             => Creating(r) /\ req'[r].task = req[r].task /\ req[r].task \in born
      BY <1>1 DEF Creating, OwnInv, RequestsOK, RequestOK, CreateOK, Free
    <2> QED
      BY <2>1 DEF OwnInv, CreatesDistinct
  <1>4. ExistBorn' /\ StartedOwned' /\ HoldersOwn'
    BY <1>1 DEF OwnInv, ExistBorn, StartedOwned, HoldersOwn, OwnedBy, Started, Exists
  <1> QED
    BY <1>2, <1>3, <1>4 DEF OwnInv

-----------------------------------------------------------------------------
(* The write.                                                              *)

\* What a write changes: one task, from an entity its caller may own to one
\* it owns, or from nothing to a todo entity.
LEMMA WriteEffect ==
    ASSUME LockInv, OwnInv, NEW s \in Requests, Write(s)
    PROVE  /\ req[s] \in Request /\ req[s].task \in Tasks /\ Moves(s)
           /\ db'[req[s].task] = req[s].entity
           /\ \A t \in Tasks : t # req[s].task => db'[t] = db[t]
           /\ req'[s].stage = "index"
           /\ \/ /\ Creating(s) /\ req[s].task \in born
                 /\ db[req[s].task] = Absent /\ req[s].entity.status = "todo"
              \/ /\ req[s].kind \in {"status", "update"}
                 /\ req[s].caller \in Workers /\ PutsCaller(s)
                 /\ OwnedBy(req[s].task, req[s].caller)
              \/ /\ req[s].kind = "claim" /\ InClaimLock(s)
                 /\ req[s].caller \in Workers /\ PutsCaller(s)
                 /\ MayOwn(req[s].task, req[s].caller)
  <1>1. ~Free(s) /\ req[s].stage = "put"
    BY DEF Write, Free
  <1>2. req[s] \in Request /\ req[s].task \in Tasks
    BY <1>1, BusySlot DEF LockInv, Request
  <1>3. Moves(s)
    <2>1. ~Returns(s)
      <3>1. req'[s] = [req[s] EXCEPT !.stage = "index", !.entity = Absent]
        BY DEF Write, LockInv, TypeOK
      <3>2. req'[s].stage = "index"
        BY <1>2, <3>1 DEF Request
      <3> QED
        BY <3>2 DEF Returns, Respond, LockInv, TypeOK, IdleSlot
    <2> QED
      BY <2>1, ServeShape DEF LockInv, Serve
  <1>4. req'[s].stage = "index"
    BY <1>2 DEF Write, LockInv, TypeOK, Request
  <1>5. db' = [db EXCEPT ![req[s].task] = req[s].entity]
    BY DEF Write
  <1>6. RequestOK(s)
    BY DEF OwnInv, RequestsOK
  <1>7. CASE req[s].kind = "create" /\ CreateOK(s)
    BY <1>1, <1>2, <1>3, <1>4, <1>5, <1>7 DEF CreateOK, Creating, LockInv, TypeOK
  <1>8. CASE req[s].kind \in {"status", "update"} /\ UpdateOK(s)
    BY <1>1, <1>2, <1>3, <1>4, <1>5, <1>8 DEF UpdateOK, LockInv, TypeOK
  <1>9. CASE req[s].kind = "claim" /\ ClaimOK(s)
    <2>1. InClaimLock(s)
      BY <1>1, <1>9 DEF InClaimLock
    <2> QED
      BY <1>1, <1>2, <1>3, <1>4, <1>5, <1>9, <2>1 DEF ClaimOK, LockInv, TypeOK
  <1> QED
    BY <1>1, <1>6, <1>7, <1>8, <1>9 DEF RequestOK

\* No write takes a task from its owner.
LEMMA WriteKeepsOwner ==
    ASSUME LockInv, OwnInv, NEW s \in Requests, Write(s),
           NEW t \in Tasks, NEW w \in Workers, OwnedBy(t, w)
    PROVE  db'[t].status \notin {"absent", "todo"} /\ db'[t].assignedTo = w
  <1>1. CASE t # req[s].task
    BY <1>1, WriteEffect DEF OwnedBy, Started
  <1>2. CASE t = req[s].task
    BY <1>2, WriteEffect DEF OwnedBy, Started, MayOwn, PutsCaller, Absent
  <1> QED
    BY <1>1, <1>2

\* The other requests still know what they did: it is here that two claims in
\* the lock at once would break the invariant.
LEMMA WriteKeepsOthers ==
    ASSUME LockInv, OwnInv, NEW s \in Requests, Write(s),
           NEW r \in Requests, r # s
    PROVE  RequestOK(r)'
  <1>1. req'[r] = req[r] /\ born' = born
    BY WriteEffect DEF Moves
  <1>2. SUFFICES ASSUME ~Free(r)
                 PROVE  RequestOK(r)'
    BY <1>1 DEF RequestOK, Free
  <1>3. req[r].task \in Tasks
    BY <1>2, BusySlot DEF LockInv, Request
  <1>4. \A w \in Workers : OwnedBy(req[r].task, w) =>
           /\ db'[req[r].task].status \notin {"absent", "todo"}
           /\ db'[req[r].task].assignedTo = w
    BY <1>3, WriteKeepsOwner
  <1>5. RequestOK(r)
    BY DEF OwnInv, RequestsOK
  <1>6. CASE req[r].kind = "create" /\ CreateOK(r)
    <2>1. CASE req[r].stage = "index"
      BY <1>1, <1>6, <2>1 DEF RequestOK, CreateOK
    <2>2. CASE req[r].stage # "index"
      <3>1. Creating(r) /\ db[req[r].task] = Absent
        BY <1>6, <2>2 DEF Creating, CreateOK
      <3>2. req[r].task # req[s].task
        BY <3>1, WriteEffect DEF OwnInv, CreatesDistinct, OwnedBy, MayOwn, Started, Absent
      <3>3. db'[req[r].task] = db[req[r].task]
        BY <1>3, <3>2, WriteEffect
      <3> QED
        BY <1>1, <1>6, <3>3 DEF RequestOK, CreateOK
    <2> QED
      BY <2>1, <2>2
  <1>7. CASE req[r].kind \in {"status", "update"} /\ UpdateOK(r)
    <2>1. UpdateOK(r)'
      BY <1>1, <1>4, <1>7 DEF UpdateOK, PutsCaller, OwnedBy, Started
    <2> QED
      BY <1>1, <1>7, <2>1 DEF RequestOK
  <1>8. CASE req[r].kind = "claim" /\ ClaimOK(r)
    <2>1. CASE req[r].stage \in {"queued", "read", "index"}
      <3>1. ClaimOK(r)'
        BY <1>1, <1>4, <1>8, <2>1 DEF ClaimOK, OwnedBy, Started
      <3> QED
        BY <1>1, <1>8, <3>1 DEF RequestOK
    <2>2. CASE req[r].stage \in {"scan", "load", "exists", "put"}
      <3>1. InClaimLock(r) /\ MayOwn(req[r].task, req[r].caller)
        BY <1>8, <2>2 DEF InClaimLock, ClaimOK
      <3>2. ~InClaimLock(s)
        BY <3>1, LockInvExcludes DEF ClaimLockExclusive
      <3>3. MayOwn(req[r].task, req[r].caller)'
        <4>1. CASE req[r].task # req[s].task
          BY <1>1, <1>3, <3>1, <4>1, WriteEffect DEF MayOwn, OwnedBy, Started
        <4>2. CASE req[r].task = req[s].task
          <5>1. OwnedBy(req[s].task, req[s].caller)
            BY <3>1, <3>2, <4>2, WriteEffect DEF MayOwn, OwnedBy, Started, Absent
          <5>2. req[r].caller = req[s].caller
            BY <3>1, <4>2, <5>1 DEF MayOwn, OwnedBy, Started
          <5> QED
            BY <1>1, <1>4, <1>8, <4>2, <5>1, <5>2 DEF ClaimOK, MayOwn, OwnedBy, Started
        <4> QED
          BY <4>1, <4>2
      <3>4. ClaimOK(r)'
        BY <1>1, <1>8, <2>2, <3>3 DEF ClaimOK, PutsCaller
      <3> QED
        BY <1>1, <1>8, <3>4 DEF RequestOK
    <2> QED
      BY <1>8, <2>1, <2>2 DEF ClaimOK
  <1> QED
    BY <1>2, <1>5, <1>6, <1>7, <1>8 DEF RequestOK

LEMMA WriteKeepsOwn ==
    ASSUME LockInv, OwnInv, NEW s \in Requests, Write(s)
    PROVE  OwnInv'
  <1> DEFINE t0 == req[s].task
  <1>1. /\ \A r \in Requests : r # s => req'[r] = req[r]
        /\ req'[s].kind = req[s].kind /\ req'[s].caller = req[s].caller
        /\ req'[s].task = t0 /\ req'[s].stage = "index"
        /\ born' = born /\ holds' = holds
    BY WriteEffect DEF Moves
  <1>2. RequestOK(s)'
    <2>1. CASE Creating(s)
      BY <1>1, <2>1, WriteEffect DEF RequestOK, CreateOK, Creating, OwnInv,
         RequestsOK, Free
    <2>2. CASE req[s].kind \in {"status", "update"}
      <3>1. /\ req[s].caller \in Workers
            /\ db'[t0].status \notin {"absent", "todo"}
            /\ db'[t0].assignedTo = req[s].caller
        BY <2>2, WriteEffect, WriteKeepsOwner DEF Creating
      <3> QED
        BY <1>1, <2>2, <3>1 DEF RequestOK, UpdateOK, OwnedBy, Started
    <2>3. CASE req[s].kind = "claim"
      <3>1. PutsCaller(s) /\ req[s].caller \in Workers
        BY <2>3, WriteEffect DEF Creating
      <3>2. /\ db'[t0].status \notin {"absent", "todo"}
            /\ db'[t0].assignedTo = req[s].caller
        BY <1>1, <3>1, WriteEffect DEF PutsCaller
      <3> QED
        BY <1>1, <2>3, <3>1, <3>2 DEF RequestOK, ClaimOK, OwnedBy, Started
    <2> QED
      BY <2>1, <2>2, <2>3, WriteEffect
  <1>3. RequestsOK'
    BY <1>2, WriteKeepsOthers DEF RequestsOK
  <1>4. CreatesDistinct'
    <2>1. \A r \in Requests : Creating(r)' => Creating(r) /\ req'[r] = req[r]
      BY <1>1 DEF Creating
    <2> QED
      BY <2>1 DEF OwnInv, CreatesDistinct
  <1>5. ExistBorn'
    <2> SUFFICES ASSUME NEW t \in Tasks, Exists(t)'
                 PROVE  t \in born
      BY <1>1 DEF ExistBorn
    <2>1. CASE t # t0
      BY <2>1, WriteEffect DEF OwnInv, ExistBorn, Exists
    <2>2. CASE t = t0
      BY <2>2, WriteEffect DEF OwnInv, ExistBorn, Exists, OwnedBy, MayOwn, Started
    <2> QED
      BY <2>1, <2>2
  <1>6. StartedOwned'
    <2> SUFFICES ASSUME NEW t \in Tasks, Started(t)'
                 PROVE  db'[t].assignedTo \in Workers
      BY DEF StartedOwned
    <2>1. CASE t # t0
      BY <2>1, WriteEffect DEF OwnInv, StartedOwned, Started
    <2>2. CASE t = t0
      BY <2>2, WriteEffect DEF Started, PutsCaller
    <2> QED
      BY <2>1, <2>2
  <1>7. HoldersOwn'
    BY <1>1, WriteKeepsOwner DEF OwnInv, HoldersOwn, LockInv, TypeOK, OwnedBy, Started
  <1> QED
    BY <1>3, <1>4, <1>5, <1>6, <1>7 DEF OwnInv

-----------------------------------------------------------------------------
(* One step per action.                                                    *)

\* A request that only advances keeps all it knows but its stage.
LEMMA AdvanceKeepsOwn ==
    ASSUME LockInv, OwnInv, NEW s \in Requests, NEW stage \in Stages \ {"queued"},
           Advance(s, stage), ~Free(s), req[s].stage # "queued" \/ Acquire(s),
           ~Creating(s),
           \/ req[s].kind \in {"status", "update"}
              /\ stage = "load" /\ req[s].stage = "old"
           \/ req[s].kind = "claim" /\ stage = "read" /\ req[s].stage = "queued"
           \/ /\ req[s].kind = "claim"
              /\ \/ stage = "scan" /\ req[s].stage = "read"
                 \/ stage = "load" /\ req[s].stage = "scan"
              /\ MayOwn(req[s].task, req[s].caller)
           \/ stage = "put" /\ req[s].stage = "exists"
    PROVE  OwnInv'
  <1>1. Moves(s)
    BY AdvanceMoves DEF LockInv, Acquire
  <1>2. req[s] \in Request
    BY BusySlot DEF LockInv
  <1>3. req'[s] = [req[s] EXCEPT !.stage = stage]
    BY DEF Advance, Goto, LockInv, TypeOK
  <1>4. /\ req'[s].stage = stage /\ req'[s].kind = req[s].kind
        /\ req'[s].caller = req[s].caller /\ req'[s].task = req[s].task
        /\ req'[s].patch = req[s].patch /\ req'[s].entity = req[s].entity
        /\ db' = db /\ born' = born
    BY <1>2, <1>3 DEF Request, Advance
  <1>5. RequestOK(s)
    BY DEF OwnInv, RequestsOK
  <1>6. CASE req[s].kind = "create" /\ CreateOK(s)
    BY <1>6 DEF CreateOK, Creating
  <1>7. CASE req[s].kind \in {"status", "update"} /\ UpdateOK(s)
    <2>1. UpdateOK(s)'
      BY <1>4, <1>7 DEF UpdateOK, PutsCaller, OwnedBy, Started
    <2>2. RequestOK(s)' /\ ~Creating(s)'
      BY <1>4, <1>7, <2>1 DEF RequestOK, Creating
    <2> QED
      BY <1>1, <1>4, <2>2, MovesKeepOwn
  <1>8. CASE req[s].kind = "claim" /\ ClaimOK(s)
    <2>1. ClaimOK(s)'
      BY <1>4, <1>8 DEF ClaimOK, PutsCaller, OwnedBy, Started, MayOwn
    <2>2. RequestOK(s)' /\ ~Creating(s)'
      BY <1>4, <1>8, <2>1 DEF RequestOK, Creating
    <2> QED
      BY <1>1, <1>4, <2>2, MovesKeepOwn
  <1> QED
    BY <1>5, <1>6, <1>7, <1>8 DEF RequestOK

\* A refusal or an error is a return that says no.
LEMMA RefusalKeepsOwn ==
    ASSUME LockInv, OwnInv, NEW s \in Requests, ~Free(s), Respond(s, FALSE)
    PROVE  OwnInv'
  BY RespondKeepsOwn

\* What a claim or an update merges into the stored entity.
LEMMA MergedEntity ==
    ASSUME LockInv, OwnInv, NEW s \in Requests, ~Free(s), req[s].stage = "load",
           Exists(req[s].task)
    PROVE  /\ req[s].kind # "create" /\ req[s].kind # "delete"
           /\ LET e == applyPatch(db[req[s].task], req[s].patch) IN
              /\ e.status \notin {"absent", "todo"}
              /\ e.assignedTo = req[s].caller
  <1>1. req[s] \in Request /\ RequestOK(s)
    BY BusySlot DEF LockInv, OwnInv, RequestsOK
  <1>2. CASE req[s].kind \in {"status", "update"} /\ UpdateOK(s)
    <2>1. /\ req[s].patch.assignedTo = Keep /\ req[s].patch.status # "todo"
          /\ req[s].patch.status \in Status \cup {Keep}
          /\ OwnedBy(req[s].task, req[s].caller)
      BY <1>1, <1>2 DEF UpdateOK, Request, Patch
    <2> QED
      BY <1>2, <2>1 DEF applyPatch, OwnedBy, Started, Status, Keep
  <1>3. CASE req[s].kind = "claim" /\ ClaimOK(s)
    <2>1. req[s].patch = ClaimPatch(req[s].caller) /\ req[s].caller \in Workers
      BY <1>3 DEF ClaimOK
    <2> QED
      BY <1>3, <2>1, IdsAssumption DEF applyPatch, ClaimPatch, Keep
  <1> QED
    BY <1>1, <1>2, <1>3 DEF RequestOK, CreateOK

LEMMA LoadKeepsOwn ==
    ASSUME LockInv, OwnInv, NEW s \in Requests, Load(s)
    PROVE  OwnInv'
  <1>1. ~Free(s) /\ req[s].stage = "load"
    BY DEF Load, Free
  <1>2. req[s] \in Request /\ RequestOK(s)
    BY <1>1, BusySlot DEF LockInv, OwnInv, RequestsOK
  <1>3. CASE Respond(s, FALSE)
    BY <1>1, <1>3, RefusalKeepsOwn
  <1>4. CASE ~Respond(s, FALSE)
    <2> DEFINE e == applyPatch(db[req[s].task], req[s].patch)
               f == IF req[s].kind = "delete" THEN Absent ELSE e
    <2>1. /\ Exists(req[s].task)
          /\ req' = [req EXCEPT ![s].stage = "exists", ![s].entity = f,
                                ![s].patch = NoPatch]
          /\ UNCHANGED <<db, born, tail, released, call, holds>>
      BY <1>4 DEF Load
    <2>2. /\ req[s].kind # "create" /\ f = e
          /\ e.status \notin {"absent", "todo"} /\ e.assignedTo = req[s].caller
      BY <1>1, <2>1, MergedEntity
    <2> HIDE DEF e, f
    <2>3. req'[s] = [req[s] EXCEPT !.stage = "exists", !.entity = f, !.patch = NoPatch]
      BY <2>1 DEF LockInv, TypeOK
    <2>4. /\ req'[s].stage = "exists" /\ req'[s].kind = req[s].kind
          /\ req'[s].caller = req[s].caller /\ req'[s].task = req[s].task
          /\ req'[s].entity = e
      BY <1>2, <2>2, <2>3 DEF Request
    <2>5. PutsCaller(s)'
      BY <2>2, <2>4 DEF PutsCaller
    <2>6. RequestOK(s)' /\ ~Creating(s)'
      <3>1. CASE req[s].kind \in {"status", "update"} /\ UpdateOK(s)
        <4>1. UpdateOK(s)'
          BY <2>1, <2>4, <2>5, <3>1 DEF UpdateOK, OwnedBy, Started
        <4> QED
          BY <2>4, <3>1, <4>1 DEF RequestOK, Creating
      <3>2. CASE req[s].kind = "claim" /\ ClaimOK(s)
        <4>1. ClaimOK(s)'
          BY <1>1, <2>1, <2>4, <2>5, <3>2 DEF ClaimOK, OwnedBy, MayOwn, Started
        <4> QED
          BY <2>4, <3>2, <4>1 DEF RequestOK, Creating
      <3> QED
        BY <1>1, <1>2, <2>2, <3>1, <3>2 DEF RequestOK
    <2>7. Moves(s)
      <3>1. ~Returns(s)
        BY <1>2, <2>4 DEF Returns, Respond, LockInv, TypeOK, IdleSlot
      <3> QED
        BY <3>1, ServeShape DEF Serve, LockInv
    <2> QED
      BY <2>1, <2>6, <2>7, MovesKeepOwn
  <1> QED
    BY <1>3, <1>4

LEMMA CheckDependencyKeepsOwn ==
    ASSUME LockInv, OwnInv, NEW s \in Requests, CheckDependency(s)
    PROVE  OwnInv'
  <1>1. ~Free(s) /\ req[s].stage = "deps"
    BY DEF CheckDependency, Free
  <1>2. req[s] \in Request /\ req[s].kind = "create" /\ CreateOK(s)
    BY <1>1, BusySlot DEF LockInv, OwnInv, RequestsOK, RequestOK, UpdateOK, ClaimOK
  <1>3. CASE Respond(s, FALSE)
    BY <1>1, <1>3, RefusalKeepsOwn
  <1>4. CASE ~Respond(s, FALSE)
    <2>0. PICK d \in req[s].unchecked :
             req' = [req EXCEPT ![s].unchecked = @ \ {d},
                                ![s].stage = IF req[s].unchecked = {d}
                                             THEN "put" ELSE "deps"]
      BY <1>4 DEF CheckDependency
    <2> DEFINE u == req[s].unchecked \ {d}
               g == IF req[s].unchecked = {d} THEN "put" ELSE "deps"
    <2>1. g \in {"put", "deps"} /\ req' = [req EXCEPT ![s].unchecked = u, ![s].stage = g]
      BY <2>0
    <2> HIDE DEF u, g
    <2>2. UNCHANGED <<db, born, tail, released, call, holds>>
      BY <1>4 DEF CheckDependency
    <2>3. req'[s] = [req[s] EXCEPT !.unchecked = u, !.stage = g]
      BY <2>1 DEF LockInv, TypeOK
    <2>4. /\ req'[s].stage = g /\ req'[s].kind = req[s].kind
          /\ req'[s].caller = req[s].caller /\ req'[s].task = req[s].task
          /\ req'[s].entity = req[s].entity
      BY <1>2, <2>3 DEF Request
    <2>5. CreateOK(s)' /\ Creating(s)
      BY <1>1, <1>2, <2>1, <2>2, <2>4 DEF CreateOK, Creating
    <2>6. RequestOK(s)'
      BY <1>2, <2>4, <2>5 DEF RequestOK
    <2>7. Moves(s)
      <3>1. ~Returns(s)
        BY <2>1, <2>4 DEF Returns, Respond, LockInv, TypeOK, IdleSlot
      <3> QED
        BY <3>1, ServeShape DEF Serve, LockInv
    <2> QED
      BY <2>2, <2>5, <2>6, <2>7, MovesKeepOwn
  <1> QED
    BY <1>3, <1>4

LEMMA ServeKeepsOwn ==
    ASSUME LockInv, OwnInv, NEW s \in Requests, Serve(s) \/ IoError(s)
    PROVE  OwnInv'
  <1>1. RequestOK(s) /\ {"read", "scan", "load", "put"} \subseteq Stages \ {"queued"}
    BY DEF OwnInv, RequestsOK, Stages
  <1>2. CASE Acquire(s)
    <2>1. ~Free(s) /\ req[s].stage = "queued" /\ Advance(s, "read")
      BY <1>2 DEF Acquire, Free
    <2>2. req[s].kind = "claim" /\ ~Creating(s)
      BY <1>1, <2>1 DEF RequestOK, CreateOK, UpdateOK, Creating
    <2> QED
      BY <1>1, <1>2, <2>1, <2>2, AdvanceKeepsOwn
  <1>3. CASE ClaimRead(s)
    <2>1. ~Free(s) /\ req[s].stage = "read" /\ req[s].kind = "claim" /\ ~Creating(s)
      BY <1>1, <1>3 DEF ClaimRead, Free, RequestOK, CreateOK, UpdateOK, Creating
    <2>2. CASE Claimable(db[req[s].task], req[s].caller)
      <3>1. req[s].task \in Tasks
        BY <2>1, BusySlot DEF LockInv, Request
      <3>2. MayOwn(req[s].task, req[s].caller)
        BY <2>2, <3>1, IdsAssumption
        DEF Claimable, MayOwn, OwnedBy, Started, OwnInv, StartedOwned
      <3> QED
        BY <1>1, <1>3, <2>1, <2>2, <3>2, AdvanceKeepsOwn DEF ClaimRead
    <2>3. CASE ~Claimable(db[req[s].task], req[s].caller)
      BY <1>3, <2>1, <2>3, RefusalKeepsOwn DEF ClaimRead
    <2> QED
      BY <2>2, <2>3
  <1>4. CASE ClaimScan(s)
    <2>1. ~Free(s) /\ req[s].stage = "scan" /\ req[s].kind = "claim" /\ ~Creating(s)
          /\ MayOwn(req[s].task, req[s].caller)
      BY <1>1, <1>4 DEF ClaimScan, Free, RequestOK, CreateOK, UpdateOK, ClaimOK, Creating
    <2>2. CASE Advance(s, "load")
      BY <1>1, <2>1, <2>2, AdvanceKeepsOwn
    <2>3. CASE Respond(s, FALSE)
      BY <2>1, <2>3, RefusalKeepsOwn
    <2> QED
      BY <1>4, <2>2, <2>3 DEF ClaimScan
  <1>5. CASE ReadOldStatus(s)
    <2>1. ~Free(s) /\ req[s].stage = "old" /\ req[s].kind \in {"status", "update"}
          /\ ~Creating(s)
      BY <1>1, <1>5 DEF ReadOldStatus, Free, RequestOK, CreateOK, ClaimOK, Creating
    <2>2. CASE Advance(s, "load")
      BY <1>1, <2>1, <2>2, AdvanceKeepsOwn
    <2>3. CASE Respond(s, FALSE)
      BY <2>1, <2>3, RefusalKeepsOwn
    <2> QED
      BY <1>5, <2>2, <2>3 DEF ReadOldStatus
  <1>6. CASE CheckExists(s)
    <2>1. ~Free(s) /\ req[s].stage = "exists" /\ ~Creating(s)
      BY <1>6 DEF CheckExists, Free, Creating
    <2>2. CASE Advance(s, "put")
      BY <1>1, <2>1, <2>2, AdvanceKeepsOwn
    <2>3. CASE Respond(s, FALSE)
      BY <2>1, <2>3, RefusalKeepsOwn
    <2> QED
      BY <1>6, <2>2, <2>3 DEF CheckExists
  <1>7. CASE Load(s)
    BY <1>7, LoadKeepsOwn
  <1>8. CASE CheckDependency(s)
    BY <1>8, CheckDependencyKeepsOwn
  <1>9. CASE Write(s)
    BY <1>9, WriteKeepsOwn
  <1>10. CASE Reply(s)
    BY <1>10, RespondKeepsOwn DEF Reply, Free
  <1>11. CASE IoError(s)
    BY <1>11, RefusalKeepsOwn DEF IoError, Free
  <1> QED
    BY <1>2, <1>3, <1>4, <1>5, <1>6, <1>7, <1>8, <1>9, <1>10, <1>11 DEF Serve

LEMMA CallsKeepOwn ==
    ASSUME LockInv, OwnInv, NEW w \in Workers, WorkerStep(w)
    PROVE  OwnInv'
  <1>1. PICK t \in Tasks, s \in Requests :
             \/ ClaimCall(w, t, s)
             \/ \E status \in {"done", "invalid"} : CloseCall(w, t, status, s)
             \/ LogCall(w, t, s)
    BY DEF WorkerStep
  <1>2. {"done", "invalid"} \subseteq Status /\ {"claim", "status", "update"} \subseteq Kinds
        /\ {"queued", "old", "load"} \subseteq Stages /\ 0 \in Nat /\ tail + 1 \in Nat
    BY DEF Status, Kinds, Stages, LockInv, TypeOK
  <1>3. CASE ClaimCall(w, t, s)
    <2>1. /\ req'[s].stage = "queued" /\ req'[s].kind = "claim"
          /\ req'[s].caller = w /\ req'[s].patch = ClaimPatch(w)
      BY <1>2, <1>3, PatchTypes, ReceiveRequest DEF ClaimCall, ClaimPatch, LockInv
    <2>2. RequestOK(s)' /\ ~Creating(s)'
      BY <2>1 DEF RequestOK, ClaimOK, Creating
    <2> QED
      BY <1>3, <2>2, ClaimCallArrives, ArrivesKeepsOwn DEF ClaimCall
  <1>4. ASSUME NEW status \in {"done", "invalid"}, CloseCall(w, t, status, s)
        PROVE  OwnInv'
    <2>1. /\ req'[s].stage = "old" /\ req'[s].kind = "status"
          /\ req'[s].caller = w /\ req'[s].task = t
          /\ req'[s].patch = [NoPatch EXCEPT !.status = status]
      BY <1>2, <1>4, PatchTypes, ReceiveRequest DEF CloseCall, LockInv
    <2>2. req'[s].patch.assignedTo = Keep /\ req'[s].patch.status # "todo"
      BY <2>1 DEF NoPatch
    <2>3. OwnedBy(t, w) /\ db' = db
      BY <1>4 DEF CloseCall, OwnInv, HoldersOwn
    <2>4. RequestOK(s)' /\ ~Creating(s)'
      BY <2>1, <2>2, <2>3 DEF RequestOK, UpdateOK, Creating, OwnedBy, Started
    <2> QED
      BY <1>2, <1>4, <2>4, CloseCallArrives, ArrivesKeepsOwn DEF CloseCall
  <1>5. CASE LogCall(w, t, s)
    <2>1. /\ req'[s].stage = "load" /\ req'[s].kind = "update"
          /\ req'[s].caller = w /\ req'[s].task = t /\ req'[s].patch = NoPatch
      BY <1>2, <1>5, PatchTypes, ReceiveRequest DEF LogCall, LockInv
    <2>2. req'[s].patch.assignedTo = Keep /\ req'[s].patch.status # "todo"
      BY <2>1 DEF NoPatch, Keep
    <2>3. OwnedBy(t, w) /\ db' = db
      BY <1>5 DEF LogCall, OwnInv, HoldersOwn
    <2>4. RequestOK(s)' /\ ~Creating(s)'
      BY <2>1, <2>2, <2>3 DEF RequestOK, UpdateOK, Creating, OwnedBy, Started
    <2> QED
      BY <1>5, <2>4, LogCallArrives, ArrivesKeepsOwn DEF LogCall
  <1> QED
    BY <1>1, <1>3, <1>4, <1>5

LEMMA CreateCallKeepsOwn ==
    ASSUME LockInv, OwnInv, NEW t \in Tasks, NEW to \in Assignee, NEW s \in Requests,
           CreateCall(t, to, s)
    PROVE  OwnInv'
  <1> DEFINE g == IF Deps[t] = {} THEN "put" ELSE "deps"
  <1>1. /\ req'[s].stage = g /\ req'[s].kind = "create" /\ req'[s].caller = NoOne
        /\ req'[s].task = t /\ req'[s].entity.status = "todo"
        /\ born' = born \cup {t} /\ db' = db /\ t \notin born
    BY DEF CreateCall, LockInv, TypeOK
  <1>2. db[t] = Absent
    BY <1>1 DEF OwnInv, ExistBorn, Exists, LockInv, TypeOK, Entity, Status
  <1>3. RequestOK(s)'
    BY <1>1, <1>2 DEF RequestOK, CreateOK
  <1> QED
    BY <1>1, <1>3, CreateCallArrives, ArrivesKeepsOwn

\* Ownership is inductive, given the promise chain and no editors.
LEMMA OwnInvStep ==
    ASSUME Editors = {}
    PROVE  LockInv /\ OwnInv /\ [Next]_vars => OwnInv'
  <1> SUFFICES ASSUME LockInv, OwnInv, [Next]_vars
               PROVE  OwnInv'
    OBVIOUS
  <1>1. ASSUME NEW w \in Workers, Crash(w) \/ Disconnect(w)
        PROVE  OwnInv'
    <2>1. db' = db /\ born' = born /\ req' = req
      BY <1>1 DEF Crash, Disconnect
    <2>2. \A v \in Workers : holds'[v] \subseteq holds[v]
      BY <1>1 DEF Crash, Disconnect, LockInv, TypeOK
    <2>3. RequestsOK'
      BY <2>1, UntouchedRequest DEF OwnInv, RequestsOK
    <2> QED
      BY <2>1, <2>2, <2>3
      DEF OwnInv, CreatesDistinct, Creating, ExistBorn, StartedOwned, HoldersOwn,
          OwnedBy, Started, Exists
  <1>2. CASE Restart
    <2>1. \A s \in Requests : req'[s] = IdleSlot
      BY <1>2 DEF Restart
    <2>2. RequestsOK' /\ CreatesDistinct'
      BY <2>1 DEF RequestsOK, RequestOK, CreatesDistinct, Creating, Free, IdleSlot
    <2> QED
      BY <1>2, <2>2
      DEF Restart, OwnInv, ExistBorn, StartedOwned, HoldersOwn, OwnedBy, Started, Exists
  <1>3. CASE UNCHANGED vars
    <2>1. RequestsOK'
      BY <1>3, UntouchedRequest DEF OwnInv, RequestsOK, vars
    <2> QED
      BY <1>3, <2>1
      DEF vars, OwnInv, CreatesDistinct, Creating, ExistBorn, StartedOwned,
          HoldersOwn, OwnedBy, Started, Exists
  <1> QED
    BY <1>1, <1>2, <1>3, CallsKeepOwn, CreateCallKeepsOwn, ServeKeepsOwn DEF Next

LEMMA OwnInvAlways ==
    ASSUME Editors = {}
    PROVE  Spec => [](LockInv /\ OwnInv)
  BY LockInvInit, LockInvStep, OwnInvInit, OwnInvStep, PTL DEF Spec

\* Without editors, no two workers ever work on the same task, whatever
\* crashes, restarts or lost answers there are.
THEOREM OneWorkerPerTask ==
    ASSUME Editors = {}
    PROVE  Spec => []ClaimExclusive
  <1>1. LockInv /\ OwnInv => ClaimExclusive
    BY DEF LockInv, TypeOK, OwnInv, HoldersOwn, OwnedBy, ClaimExclusive
  <1> QED
    BY <1>1, OwnInvAlways, PTL

-----------------------------------------------------------------------------
(* Refinement.                                                             *)

Owner == [t \in Tasks |-> IF db[t].status \in {"absent", "todo"}
                          THEN NoOne ELSE db[t].assignedTo]

LEMMA OwnershipInit ==
    Init => Ownership!Init
  BY DEF Init, Ownership!Init, Absent

\* The owners change only when a claim, or an update of the owner's, is put.
LEMMA WriteGives ==
    ASSUME LockInv, OwnInv, NEW s \in Requests, Write(s)
    PROVE  /\ holds' = holds
           /\ \/ Owner' = Owner
              \/ \E w \in Workers, t \in Tasks : Ownership!Give(w, t)
  <1> DEFINE t0 == req[s].task
             w == req[s].caller
  <1>1. holds' = holds /\ t0 \in Tasks
        /\ \A t \in Tasks : t # t0 => db'[t] = db[t]
    BY WriteEffect DEF Moves
  <1>2. CASE Creating(s)
    <2>1. db[t0].status = "absent" /\ db'[t0].status = "todo"
      BY <1>2, WriteEffect DEF Absent, Creating
    <2>2. Owner' = Owner
      BY <1>1, <2>1 DEF Owner
    <2> QED
      BY <1>1, <2>2
  <1>3. CASE OwnedBy(t0, w) /\ PutsCaller(s)
    <2>1. Owner' = Owner
      BY <1>1, <1>3, WriteEffect DEF Owner, OwnedBy, Started, PutsCaller
    <2> QED
      BY <1>1, <2>1
  <1>4. CASE db[t0].status = "todo" /\ PutsCaller(s) /\ w \in Workers
    <2>1. Owner' = [Owner EXCEPT ![t0] = w]
      BY <1>1, <1>4, WriteEffect DEF Owner, PutsCaller
    <2>2. Owner[t0] = NoOne
      BY <1>1, <1>4 DEF Owner
    <2> QED
      BY <1>1, <1>4, <2>1, <2>2 DEF Ownership!Give, Owner
  <1> QED
    BY <1>2, <1>3, <1>4, WriteEffect DEF MayOwn

\* Every step of the service is a step of TaskOwnership, or leaves it alone.
LEMMA OwnershipStep ==
    ASSUME Editors = {}
    PROVE  LockInv /\ OwnInv /\ [Next]_vars => [Ownership!Next]_<<Owner, holds>>
  <1> SUFFICES ASSUME LockInv, OwnInv, [Next]_vars
               PROVE  Ownership!Next \/ (Owner' = Owner /\ holds' = holds)
    BY DEF Owner
  <1>1. holds \in [Workers -> SUBSET Tasks]
    BY DEF LockInv, TypeOK
  <1>2. CASE UNCHANGED vars
    BY <1>2 DEF vars, Owner
  <1>3. CASE \E t \in Tasks, to \in Assignee, s \in Requests : CreateCall(t, to, s)
    BY <1>3 DEF CreateCall, Owner
  <1>4. CASE \E w \in Workers : WorkerStep(w)
    BY <1>4 DEF WorkerStep, ClaimCall, CloseCall, LogCall, Owner
  <1>5. ASSUME NEW w \in Workers, Crash(w) \/ Disconnect(w)
        PROVE  Ownership!Next \/ (Owner' = Owner /\ holds' = holds)
    <2>1. Owner' = Owner
      BY <1>5 DEF Crash, Disconnect, Owner
    <2>2. CASE Crash(w)
      <3>1. holds' = [holds EXCEPT ![w] = @ \ Tasks]
        BY <1>1, <2>2 DEF Crash
      <3>2. Ownership!Stop(w, Tasks)
        BY <2>1, <3>1 DEF Ownership!Stop, Owner
      <3> QED
        BY <3>2 DEF Ownership!Next
    <2> QED
      BY <1>5, <2>1, <2>2 DEF Disconnect
  <1>6. CASE Restart
    BY <1>6 DEF Restart, Owner
  <1>7. ASSUME NEW s \in Requests, Serve(s) \/ IoError(s)
        PROVE  Ownership!Next \/ (Owner' = Owner /\ holds' = holds)
    <2>1. CASE Write(s)
      BY <2>1, WriteGives DEF Ownership!Next
    <2>2. CASE ~Write(s) /\ Moves(s)
      <3>1. db' = db
        BY <1>7, <2>2
        DEF Serve, IoError, Acquire, ClaimRead, ClaimScan, ReadOldStatus, Load,
            CheckDependency, CheckExists, Reply, Advance, Respond
      <3> QED
        BY <2>2, <3>1 DEF Moves, Owner
    <2>3. ASSUME NEW ok \in BOOLEAN, Respond(s, ok), ~Free(s),
                 ok => req[s].stage = "index"
          PROVE  Ownership!Next \/ (Owner' = Owner /\ holds' = holds)
      <3>1. Owner' = Owner
        BY <2>3 DEF Respond, Owner
      <3>2. req[s].task \in Tasks /\ RequestOK(s)
        BY <2>3, BusySlot DEF LockInv, Request, OwnInv, RequestsOK
      <3>3. ASSUME NEW w \in Workers, w = req[s].caller, ok, req[s].kind = "claim",
                   holds' = [holds EXCEPT ![w] = @ \cup {req[s].task}]
            PROVE  Ownership!Next
        <4>1. OwnedBy(req[s].task, w)
          BY <2>3, <3>2, <3>3 DEF RequestOK, ClaimOK
        <4>2. Ownership!Start(w, req[s].task)
          BY <3>1, <3>2, <3>3, <4>1 DEF Ownership!Start, Owner, OwnedBy, Started
        <4> QED
          BY <3>2, <4>2 DEF Ownership!Next
      <3>4. ASSUME NEW w \in Workers,
                   holds' = [holds EXCEPT ![w] = @ \ {req[s].task}]
            PROVE  Ownership!Next
        <4>1. Ownership!Stop(w, {req[s].task})
          BY <3>1, <3>4 DEF Ownership!Stop, Owner
        <4> QED
          BY <3>2, <4>1 DEF Ownership!Next
      <3> QED
        BY <2>3, <3>1, <3>3, <3>4, RespondHolds DEF LockInv
    <2>4. CASE ~Write(s) /\ ~Moves(s)
      BY <1>7, <2>3, <2>4, ServeShape DEF Returns, LockInv
    <2> QED
      BY <2>1, <2>2, <2>4
  <1> QED
    BY <1>2, <1>3, <1>4, <1>5, <1>6, <1>7 DEF Next

\* The tasks service implements TaskOwnership: a task has one owner, for good.
THEOREM ServiceImplementsOwnership ==
    ASSUME Editors = {}
    PROVE  Spec => ImplementsOwnership
  BY OwnershipInit, OwnershipStep, OwnInvAlways, PTL
  DEF Spec, ImplementsOwnership, Ownership!Spec, Owner

-----------------------------------------------------------------------------
(* Without faults too, a worker awaits each request it has made, so that    *)
(* of the requests for a task at most one is on its way to a write.  What   *)
(* that one has read of the statuses is then still true when it writes.     *)

Awaited(s) == ~Free(s) /\ req[s].kind # "create" => call[req[s].caller] = s

Closing == {"done", "invalid"}
Open(t) == db[t].status \in {"todo", "in-progress"}

\* What a request on its way to a write knows of statuses and dependencies.
CreateKnows(s) ==
    /\ req[s].stage = "deps"
       => \A d \in Deps[req[s].task] \ req[s].unchecked : Exists(d)
    /\ req[s].stage = "put" => \A d \in Deps[req[s].task] : Exists(d)

UpdateKnows(s) ==
    /\ req[s].stage \in {"old", "load"} => req[s].patch.status \in Closing \cup {Keep}
    /\ req[s].stage \in {"exists", "put"}
       => \/ req[s].entity.status = db[req[s].task].status
          \/ req[s].entity.status \in Closing /\ db[req[s].task].status = "in-progress"

ClaimKnows(s) ==
    /\ req[s].stage \in {"scan", "load", "exists", "put"} => Open(req[s].task)
    /\ req[s].stage \in {"exists", "put"} => req[s].entity.status = "in-progress"
    /\ req[s].stage \in {"load", "exists", "put"} /\ req[s].task \in Gated
       => areDependenciesSatisfied(req[s].task)

Knows(s) ==
    /\ req[s].stage # "free" /\ req[s].kind = "create" => CreateKnows(s)
    /\ req[s].stage # "free" /\ req[s].kind \in {"status", "update"} => UpdateKnows(s)
    /\ req[s].stage # "free" /\ req[s].kind = "claim" => ClaimKnows(s)

\* A task that is there has its dependencies: nothing is deleted.
DependenciesExist == \A t \in Tasks : Exists(t) => \A d \in Deps[t] : Exists(d)

GateInv ==
    /\ \A s \in Requests : Awaited(s) /\ Knows(s)
    /\ DependenciesExist
    /\ GateRespected

LEMMA GateInvInit ==
    Init => GateInv
  <1> SUFFICES ASSUME Init
               PROVE  GateInv
    OBVIOUS
  <1>1. \A s \in Requests : req[s].stage = "free" /\ Free(s)
    BY DEF Init, Free, IdleSlot
  <1>2. \A t \in Tasks : ~Exists(t) /\ db[t].status = "absent"
    BY DEF Init, Exists, Absent
  <1> QED
    BY <1>1, <1>2, GraphAssumption
    DEF GateInv, Awaited, Knows, DependenciesExist, GateRespected

LEMMA SameKnows ==
    ASSUME NEW s \in Requests, Knows(s), req'[s] = req[s], db' = db
    PROVE  Knows(s)'
  BY DEF Knows, CreateKnows, UpdateKnows, ClaimKnows, Open, Exists,
         areDependenciesSatisfied

\* A request moves on without writing, and knows what it must at its new stage.
LEMMA MovesKeepGate ==
    ASSUME GateInv, NEW s \in Requests, Moves(s), db' = db, Knows(s)'
    PROVE  GateInv'
  <1>1. ASSUME NEW r \in Requests
        PROVE  Awaited(r)' /\ Knows(r)'
    <2>0. Awaited(r) /\ Knows(r)
      BY DEF GateInv
    <2>1. CASE r = s
      BY <2>0, <2>1 DEF Moves, Awaited, Free
    <2>2. CASE r # s
      BY <2>0, <2>2, SameKnows DEF Moves, Awaited, Free
    <2> QED
      BY <2>1, <2>2
  <1>2. DependenciesExist' /\ GateRespected'
    BY DEF GateInv, DependenciesExist, GateRespected, Exists, areDependenciesSatisfied
  <1> QED
    BY <1>1, <1>2 DEF GateInv

\* The caller of a request that is no create is a worker.
LEMMA CallerWorks ==
    ASSUME OwnInv, NEW s \in Requests, ~Free(s), req[s].kind # "create"
    PROVE  req[s].caller \in Workers
  BY DEF OwnInv, RequestsOK, RequestOK, UpdateOK, ClaimOK

\* A return ends the wait of its own caller only.
LEMMA RespondKeepsGate ==
    ASSUME LockInv, OwnInv, GateInv, NEW s \in Requests, ~Free(s),
           NEW ok \in BOOLEAN, Respond(s, ok)
    PROVE  GateInv'
  <1>1. /\ db' = db /\ req'[s] = IdleSlot
        /\ \A r \in Requests : r # s => req'[r] = req[r]
    BY DEF Respond, LockInv, TypeOK
  <1>2. \A w \in Workers : call'[w] = call[w] \/ call[w] = s
    BY DEF Respond, Answered, LockInv, TypeOK
  <1>3. ASSUME NEW r \in Requests
        PROVE  Awaited(r)' /\ Knows(r)'
    <2>0. Awaited(r) /\ Knows(r)
      BY DEF GateInv
    <2>1. CASE r = s
      BY <1>1, <2>1 DEF Awaited, Knows, Free, IdleSlot
    <2>2. CASE r # s
      <3>1. Knows(r)'
        BY <1>1, <2>0, <2>2, SameKnows
      <3>2. Awaited(r)'
        BY <1>1, <1>2, <2>0, <2>2, CallerWorks DEF Awaited, Free
      <3> QED
        BY <3>1, <3>2
    <2> QED
      BY <2>1, <2>2
  <1>4. DependenciesExist' /\ GateRespected'
    BY <1>1
    DEF GateInv, DependenciesExist, GateRespected, Exists, areDependenciesSatisfied
  <1> QED
    BY <1>3, <1>4 DEF GateInv

\* A call comes from a worker that awaits nothing.
LEMMA ArrivesKeepsGate ==
    ASSUME LockInv, OwnInv, GateInv, NEW s \in Requests, Arrives(s),
           \A w \in Workers : call'[w] = call[w] \/ call[w] = NoCall,
           Awaited(s)', Knows(s)'
    PROVE  GateInv'
  <1>1. db' = db /\ \A r \in Requests : r # s => req'[r] = req[r]
    BY DEF Arrives, LockInv, TypeOK
  <1>2. ASSUME NEW r \in Requests, r # s
        PROVE  Awaited(r)' /\ Knows(r)'
    <2>0. Awaited(r) /\ Knows(r)
      BY DEF GateInv
    <2>1. Knows(r)'
      BY <1>1, <1>2, <2>0, SameKnows
    <2>2. Awaited(r)'
      BY <1>1, <1>2, <2>0, CallerWorks, IdsAssumption DEF Awaited, Free
    <2> QED
      BY <2>1, <2>2
  <1>3. DependenciesExist' /\ GateRespected'
    BY <1>1
    DEF GateInv, DependenciesExist, GateRespected, Exists, areDependenciesSatisfied
  <1> QED
    BY <1>2, <1>3 DEF GateInv

-----------------------------------------------------------------------------
(* The write.                                                              *)

\* Beside a request that is about to write a task there are only claims that
\* have not read it or have put it, and the create that made it.
LEMMA SoleWriter ==
    ASSUME LockInv, OwnInv, GateInv, NEW s \in Requests, Write(s),
           NEW r \in Requests, r # s, ~Free(r), req[r].task = req[s].task
    PROVE  \/ req[r].kind = "claim" /\ req[r].stage \in {"queued", "read", "index"}
           \/ req[r].kind = "create" /\ req[r].stage = "index"
  <1>1. /\ req[s].stage = "put" /\ ~Free(s) /\ RequestOK(r)
        /\ Awaited(r) /\ Awaited(s)
    BY DEF Write, Free, OwnInv, RequestsOK, GateInv
  <1>2. \/ Creating(s) /\ db[req[s].task] = Absent
        \/ /\ req[s].kind \in {"status", "update", "claim"}
           /\ req[s].caller \in Workers
           /\ MayOwn(req[s].task, req[s].caller)
           /\ req[s].kind # "claim" => OwnedBy(req[s].task, req[s].caller)
           /\ req[s].kind = "claim" => InClaimLock(s)
    BY WriteEffect DEF MayOwn
  <1>3. ASSUME req[r].kind = "create", Creating(r)
        PROVE  FALSE
    <2>1. db[req[s].task] = Absent
      BY <1>1, <1>3 DEF RequestOK, CreateOK, Creating
    <2>2. Creating(s)
      BY <1>2, <2>1 DEF MayOwn, OwnedBy, Started, Absent
    <2> QED
      BY <1>3, <2>2 DEF OwnInv, CreatesDistinct
  <1>4. ASSUME req[r].kind \in {"status", "update"}
        PROVE  FALSE
    <2>1. OwnedBy(req[s].task, req[r].caller)
      BY <1>1, <1>4 DEF RequestOK, UpdateOK
    <2>2. req[s].kind # "create" /\ req[s].caller = req[r].caller
      BY <1>2, <2>1 DEF MayOwn, OwnedBy, Started, Absent, Creating
    <2> QED
      BY <1>1, <1>4, <2>2 DEF Awaited
  <1>5. ASSUME req[r].kind = "claim", req[r].stage \in {"scan", "load", "exists", "put"}
        PROVE  FALSE
    <2>1. MayOwn(req[s].task, req[r].caller) /\ InClaimLock(r)
      BY <1>1, <1>5 DEF RequestOK, ClaimOK, InClaimLock
    <2>2. db[req[s].task] # Absent
      BY <2>1 DEF MayOwn, OwnedBy, Started, Absent
    <2>3. ~InClaimLock(s)
      BY <2>1, LockInvExcludes DEF ClaimLockExclusive
    <2>4. /\ req[s].kind \in {"status", "update"}
          /\ OwnedBy(req[s].task, req[s].caller)
      BY <1>2, <2>2, <2>3
    <2>5. req[s].caller = req[r].caller
      BY <2>1, <2>4 DEF MayOwn, OwnedBy, Started
    <2> QED
      BY <1>1, <1>5, <2>4, <2>5 DEF Awaited
  <1> QED
    BY <1>1, <1>3, <1>4, <1>5 DEF RequestOK, CreateOK, UpdateOK, ClaimOK, Creating

\* No write changes the status of a closed task, or removes a task.
LEMMA WriteKeepsClosed ==
    ASSUME LockInv, OwnInv, GateInv, NEW s \in Requests, Write(s), NEW t \in Tasks
    PROVE  /\ db[t].status \in Closing => db'[t].status = db[t].status
           /\ Exists(t) => Exists(t)'
  <1>1. CASE t # req[s].task
    BY <1>1, WriteEffect DEF Exists
  <1>2. CASE t = req[s].task
    <2>1. Knows(s) /\ req[s].stage = "put" /\ db'[t] = req[s].entity
      BY <1>2, WriteEffect DEF GateInv, Write
    <2>2. CASE Creating(s) /\ db[t] = Absent /\ req[s].entity.status = "todo"
      BY <2>1, <2>2 DEF Absent, Closing, Exists
    <2>3. CASE req[s].kind \in {"status", "update"} /\ PutsCaller(s)
      BY <1>2, <2>1, <2>3 DEF Knows, UpdateKnows, PutsCaller, Closing, Exists
    <2>4. CASE req[s].kind = "claim" /\ PutsCaller(s)
      BY <1>2, <2>1, <2>4 DEF Knows, ClaimKnows, PutsCaller, Open, Closing, Exists
    <2> QED
      BY <1>2, <2>2, <2>3, <2>4, WriteEffect
  <1> QED
    BY <1>1, <1>2

\* The gate that a task has passed stays open.
LEMMA WriteKeepsSatisfied ==
    ASSUME LockInv, OwnInv, GateInv, NEW s \in Requests, Write(s), NEW t \in Tasks,
           Exists(t), areDependenciesSatisfied(t)
    PROVE  areDependenciesSatisfied(t)'
  <1> SUFFICES ASSUME NEW d \in Deps[t]
               PROVE  db'[d].status \in {"absent", "done", "invalid"}
    BY DEF areDependenciesSatisfied
  <1>1. d \in Tasks /\ Exists(d)
    BY GraphAssumption DEF GateInv, DependenciesExist
  <1>2. db[d].status \in Closing
    BY <1>1 DEF areDependenciesSatisfied, Exists, Closing
  <1> QED
    BY <1>1, <1>2, WriteKeepsClosed DEF Closing

LEMMA WriteKeepsGate ==
    ASSUME LockInv, OwnInv, GateInv, NEW s \in Requests, Write(s)
    PROVE  GateInv'
  <1>0. /\ req[s].stage = "put" /\ ~Free(s) /\ Knows(s) /\ req[s].task \in Tasks
        /\ Moves(s) /\ req'[s].stage = "index"
        /\ db'[req[s].task] = req[s].entity
        /\ \A t \in Tasks : t # req[s].task => db'[t] = db[t]
    BY WriteEffect DEF Write, Free, GateInv
  <1>1. ASSUME NEW r \in Requests
        PROVE  Awaited(r)' /\ Knows(r)'
    <2>0. Awaited(r) /\ Knows(r)
      BY DEF GateInv
    <2>1. CASE r = s
      BY <1>0, <2>0, <2>1
      DEF Moves, Awaited, Knows, CreateKnows, UpdateKnows, ClaimKnows, Free
    <2>2. CASE r # s
      <3>1. req'[r] = req[r] /\ Awaited(r)'
        BY <1>0, <2>0, <2>2 DEF Moves, Awaited, Free
      <3>2. CASE Free(r)
        BY <3>1, <3>2 DEF Knows, Free
      <3>3. CASE ~Free(r) /\ req[r].task = req[s].task
        BY <2>2, <3>1, <3>3, SoleWriter DEF Knows, ClaimKnows, CreateKnows
      <3>4. CASE ~Free(r) /\ req[r].task # req[s].task
        <4>1. req[r].task \in Tasks /\ db'[req[r].task] = db[req[r].task]
          BY <1>0, <3>4, BusySlot DEF LockInv, Request
        <4>2. CASE req[r].kind = "create"
          BY <2>0, <3>1, <4>1, <4>2, WriteKeepsClosed, GraphAssumption
          DEF Knows, CreateKnows
        <4>3. CASE req[r].kind \in {"status", "update"}
          BY <2>0, <3>1, <4>1, <4>3 DEF Knows, UpdateKnows
        <4>4. CASE req[r].kind = "claim"
          <5>1. Open(req[r].task) => Exists(req[r].task)
            BY DEF Open, Exists
          <5> QED
            BY <2>0, <3>1, <4>1, <4>4, <5>1, WriteKeepsSatisfied
            DEF Knows, ClaimKnows, Open
        <4> QED
          BY <3>1, <4>2, <4>3, <4>4 DEF Knows
      <3> QED
        BY <3>1, <3>2, <3>3, <3>4
    <2> QED
      BY <2>1, <2>2
  <1>2. DependenciesExist'
    <2> SUFFICES ASSUME NEW t \in Tasks, Exists(t)', NEW d \in Deps[t]
                 PROVE  Exists(d)'
      BY DEF DependenciesExist
    <2>1. d \in Tasks
      BY GraphAssumption
    <2>2. CASE Exists(t)
      BY <2>1, <2>2, WriteKeepsClosed DEF GateInv, DependenciesExist
    <2>3. CASE ~Exists(t)
      <3>1. t = req[s].task /\ db[t].status = "absent"
        BY <1>0, <2>3 DEF Exists
      <3>2. Creating(s)
        BY <3>1, WriteEffect DEF MayOwn, OwnedBy, Started
      <3> QED
        BY <1>0, <2>1, <3>1, <3>2, WriteKeepsClosed DEF Creating, Knows, CreateKnows
    <2> QED
      BY <2>2, <2>3
  <1>3. GateRespected'
    <2> SUFFICES ASSUME NEW t \in Gated, db'[t].status = "in-progress"
                 PROVE  areDependenciesSatisfied(t)'
      BY DEF GateRespected
    <2>1. t \in Tasks
      BY GraphAssumption
    <2>2. CASE db[t].status = "in-progress"
      <3>1. Exists(t) /\ areDependenciesSatisfied(t)
        BY <2>2 DEF Exists, GateInv, GateRespected
      <3> QED
        BY <2>1, <3>1, WriteKeepsSatisfied
    <2>3. CASE db[t].status # "in-progress"
      <3>1. t = req[s].task /\ req[s].entity.status = "in-progress"
        BY <1>0, <2>1, <2>3
      <3>2. req[s].kind = "claim"
        BY <1>0, <2>3, <3>1, WriteEffect DEF Knows, UpdateKnows, Closing
      <3>3. Exists(t) /\ areDependenciesSatisfied(t)
        BY <1>0, <3>1, <3>2 DEF Knows, ClaimKnows, Open, Exists
      <3> QED
        BY <2>1, <3>3, WriteKeepsSatisfied
    <2> QED
      BY <2>2, <2>3
  <1> QED
    BY <1>1, <1>2, <1>3 DEF GateInv

-----------------------------------------------------------------------------
(* One step per action.                                                    *)

\* What a request that only advances knows at its new stage.
LEMMA AdvanceKeepsGate ==
    ASSUME LockInv, GateInv, NEW s \in Requests, NEW stage \in Stages \ {"queued"},
           Advance(s, stage), ~Free(s), req[s].stage # "queued" \/ Acquire(s),
           \/ req[s].kind \in {"status", "update"}
              /\ stage = "load" /\ req[s].stage = "old"
           \/ req[s].kind = "claim" /\ stage = "read"
           \/ req[s].kind = "claim" /\ stage = "scan" /\ Open(req[s].task)
           \/ /\ req[s].kind = "claim" /\ stage = "load" /\ req[s].stage = "scan"
              /\ req[s].task \in Gated => areDependenciesSatisfied(req[s].task)
           \/ req[s].kind # "create" /\ stage = "put" /\ req[s].stage = "exists"
    PROVE  GateInv'
  <1>1. Moves(s)
    BY AdvanceMoves DEF LockInv, Acquire
  <1>2. req[s] \in Request /\ Knows(s)
    BY BusySlot DEF LockInv, GateInv
  <1>3. req'[s] = [req[s] EXCEPT !.stage = stage]
    BY DEF Advance, Goto, LockInv, TypeOK
  <1>4. /\ req'[s].stage = stage /\ req'[s].kind = req[s].kind
        /\ req'[s].caller = req[s].caller /\ req'[s].task = req[s].task
        /\ req'[s].patch = req[s].patch /\ req'[s].entity = req[s].entity
        /\ db' = db
    BY <1>2, <1>3 DEF Request, Advance
  <1>5. CASE req[s].kind \in {"status", "update"}
    <2>1. UpdateKnows(s)
      BY <1>2, <1>5 DEF Knows, Free
    <2>2. UpdateKnows(s)'
      BY <1>4, <1>5, <2>1 DEF UpdateKnows
    <2>3. Knows(s)'
      BY <1>4, <1>5, <2>2 DEF Knows
    <2> QED
      BY <1>1, <1>4, <2>3, MovesKeepGate
  <1>6. CASE req[s].kind = "claim"
    <2>1. ClaimKnows(s)
      BY <1>2, <1>6 DEF Knows, Free
    <2>2. ClaimKnows(s)'
      BY <1>4, <1>6, <2>1 DEF ClaimKnows, Open, areDependenciesSatisfied
    <2>3. Knows(s)'
      BY <1>4, <1>6, <2>2 DEF Knows
    <2> QED
      BY <1>1, <1>4, <2>3, MovesKeepGate
  <1>7. CASE req[s].kind \notin {"status", "update", "claim"} /\ stage = "put"
    <2>1. Knows(s)'
      BY <1>4, <1>7 DEF Knows
    <2> QED
      BY <1>1, <1>4, <2>1, MovesKeepGate
  <1> QED
    BY <1>5, <1>6, <1>7

\* The status that is merged into an entity: it is the stored one, or the
\* entity is closed, or a claim puts it in progress.
LEMMA LoadKeepsGate ==
    ASSUME LockInv, OwnInv, GateInv, NEW s \in Requests, Load(s)
    PROVE  GateInv'
  <1>1. ~Free(s) /\ req[s].stage = "load"
    BY DEF Load, Free
  <1>2. req[s] \in Request /\ RequestOK(s) /\ Knows(s)
    BY <1>1, BusySlot DEF LockInv, OwnInv, RequestsOK, GateInv
  <1>3. CASE Respond(s, FALSE)
    BY <1>1, <1>3, RespondKeepsGate
  <1>4. CASE ~Respond(s, FALSE)
    <2> DEFINE e == applyPatch(db[req[s].task], req[s].patch)
               f == IF req[s].kind = "delete" THEN Absent ELSE e
    <2>1. /\ Exists(req[s].task)
          /\ updateAllowed(db[req[s].task], req[s].patch)
          /\ req' = [req EXCEPT ![s].stage = "exists", ![s].entity = f,
                                ![s].patch = NoPatch]
          /\ UNCHANGED <<db, born, tail, released, call, holds>>
      BY <1>4 DEF Load
    <2>2. f = e
      BY <1>1, <2>1, MergedEntity
    <2>3. e.status = IF req[s].patch.status = Keep THEN db[req[s].task].status
                                                   ELSE req[s].patch.status
      BY DEF applyPatch
    <2> HIDE DEF e, f
    <2>4. req'[s] = [req[s] EXCEPT !.stage = "exists", !.entity = f, !.patch = NoPatch]
      BY <2>1 DEF LockInv, TypeOK
    <2>5. /\ req'[s].stage = "exists" /\ req'[s].kind = req[s].kind
          /\ req'[s].caller = req[s].caller /\ req'[s].task = req[s].task
          /\ req'[s].entity = e
      BY <1>2, <2>2, <2>4 DEF Request
    <2>6. Knows(s)'
      <3>1. CASE req[s].kind \in {"status", "update"} /\ UpdateOK(s)
        <4>1. req[s].patch.status \in Closing \cup {Keep}
          BY <1>1, <1>2, <3>1 DEF Knows, UpdateKnows
        <4>2. db[req[s].task].status \notin {"absent", "todo"}
          BY <3>1 DEF UpdateOK, OwnedBy, Started
        <4>3. \/ e.status = db[req[s].task].status
              \/ e.status \in Closing /\ db[req[s].task].status = "in-progress"
          BY <2>1, <2>3, <4>1, <4>2
          DEF updateAllowed, canTransitionStatus, Closing, Keep
        <4>4. UpdateKnows(s)'
          BY <2>1, <2>5, <4>3 DEF UpdateKnows
        <4> QED
          BY <2>5, <3>1, <4>4 DEF Knows
      <3>2. CASE req[s].kind = "claim" /\ ClaimOK(s)
        <4>1. ClaimKnows(s)
          BY <1>1, <1>2, <3>2 DEF Knows
        <4>2. e.status = "in-progress"
          BY <1>1, <2>3, <3>2 DEF ClaimOK, ClaimPatch, Keep
        <4>3. ClaimKnows(s)'
          BY <1>1, <2>1, <2>5, <4>1, <4>2 DEF ClaimKnows, Open, areDependenciesSatisfied
        <4> QED
          BY <2>5, <3>2, <4>3 DEF Knows
      <3> QED
        BY <1>1, <1>2, <3>1, <3>2 DEF RequestOK, CreateOK
    <2>7. Moves(s)
      <3>1. ~Returns(s)
        BY <1>2, <2>5 DEF Returns, Respond, LockInv, TypeOK, IdleSlot
      <3> QED
        BY <3>1, ServeShape DEF Serve, LockInv
    <2> QED
      BY <2>1, <2>6, <2>7, MovesKeepGate
  <1> QED
    BY <1>3, <1>4

\* A create has looked up the dependencies that are not unchecked.
LEMMA CheckDependencyKeepsGate ==
    ASSUME LockInv, OwnInv, GateInv, NEW s \in Requests, CheckDependency(s)
    PROVE  GateInv'
  <1>1. ~Free(s) /\ req[s].stage = "deps"
    BY DEF CheckDependency, Free
  <1>2. req[s] \in Request /\ req[s].kind = "create" /\ Knows(s)
    BY <1>1, BusySlot
    DEF LockInv, OwnInv, RequestsOK, RequestOK, UpdateOK, ClaimOK, GateInv
  <1>3. CASE Respond(s, FALSE)
    BY <1>1, <1>3, RespondKeepsGate
  <1>4. CASE ~Respond(s, FALSE)
    <2>0. PICK d \in req[s].unchecked :
             /\ Exists(d)
             /\ req' = [req EXCEPT ![s].unchecked = @ \ {d},
                                   ![s].stage = IF req[s].unchecked = {d}
                                                THEN "put" ELSE "deps"]
      BY <1>4 DEF CheckDependency
    <2> DEFINE u == req[s].unchecked \ {d}
               g == IF req[s].unchecked = {d} THEN "put" ELSE "deps"
    <2>1. /\ g \in {"put", "deps"} /\ (g = "put" => u = {})
          /\ req' = [req EXCEPT ![s].unchecked = u, ![s].stage = g]
          /\ req[s].unchecked \subseteq u \cup {d}
      BY <2>0
    <2> HIDE DEF u, g
    <2>2. UNCHANGED <<db, born, tail, released, call, holds>>
      BY <1>4 DEF CheckDependency
    <2>3. req'[s] = [req[s] EXCEPT !.unchecked = u, !.stage = g]
      BY <2>1 DEF LockInv, TypeOK
    <2>4. /\ req'[s].stage = g /\ req'[s].kind = "create"
          /\ req'[s].task = req[s].task /\ req'[s].unchecked = u
      BY <1>2, <2>3 DEF Request
    <2>5. CreateKnows(s)
      BY <1>1, <1>2 DEF Knows
    <2>6. CreateKnows(s)'
      BY <1>1, <2>0, <2>1, <2>2, <2>4, <2>5 DEF CreateKnows, Exists
    <2>7. Knows(s)'
      BY <2>4, <2>6 DEF Knows
    <2>8. Moves(s)
      <3>1. ~Returns(s)
        BY <2>1, <2>4 DEF Returns, Respond, LockInv, TypeOK, IdleSlot
      <3> QED
        BY <3>1, ServeShape DEF Serve, LockInv
    <2> QED
      BY <2>2, <2>7, <2>8, MovesKeepGate
  <1> QED
    BY <1>3, <1>4

LEMMA ServeKeepsGate ==
    ASSUME LockInv, OwnInv, GateInv, NEW s \in Requests, Serve(s) \/ IoError(s)
    PROVE  GateInv'
  <1>1. RequestOK(s) /\ {"read", "scan", "load", "put"} \subseteq Stages \ {"queued"}
    BY DEF OwnInv, RequestsOK, Stages
  <1>2. CASE Acquire(s)
    <2>1. ~Free(s) /\ req[s].stage = "queued" /\ Advance(s, "read")
      BY <1>2 DEF Acquire, Free
    <2>2. req[s].kind = "claim"
      BY <1>1, <2>1 DEF RequestOK, CreateOK, UpdateOK
    <2> QED
      BY <1>1, <1>2, <2>1, <2>2, AdvanceKeepsGate
  <1>3. CASE ClaimRead(s)
    <2>1. ~Free(s) /\ req[s].stage = "read" /\ req[s].kind = "claim"
      BY <1>1, <1>3 DEF ClaimRead, Free, RequestOK, CreateOK, UpdateOK
    <2>2. CASE Advance(s, "scan") /\ Claimable(db[req[s].task], req[s].caller)
      <3>1. Open(req[s].task)
        BY <2>2 DEF Claimable, Open
      <3> QED
        BY <1>1, <2>1, <2>2, <3>1, AdvanceKeepsGate
    <2>3. CASE Respond(s, FALSE)
      BY <2>1, <2>3, RespondKeepsGate
    <2> QED
      BY <1>3, <2>2, <2>3 DEF ClaimRead
  <1>4. CASE ClaimScan(s)
    <2>1. ~Free(s) /\ req[s].stage = "scan" /\ req[s].kind = "claim"
      BY <1>1, <1>4 DEF ClaimScan, Free, RequestOK, CreateOK, UpdateOK
    <2>2. CASE /\ Advance(s, "load")
               /\ req[s].task \in Gated => areDependenciesSatisfied(req[s].task)
      BY <1>1, <2>1, <2>2, AdvanceKeepsGate
    <2>3. CASE Respond(s, FALSE)
      BY <2>1, <2>3, RespondKeepsGate
    <2> QED
      BY <1>4, <2>2, <2>3 DEF ClaimScan
  <1>5. CASE ReadOldStatus(s)
    <2>1. ~Free(s) /\ req[s].stage = "old" /\ req[s].kind \in {"status", "update"}
      BY <1>1, <1>5 DEF ReadOldStatus, Free, RequestOK, CreateOK, ClaimOK
    <2>2. CASE Advance(s, "load")
      BY <1>1, <2>1, <2>2, AdvanceKeepsGate
    <2>3. CASE Respond(s, FALSE)
      BY <2>1, <2>3, RespondKeepsGate
    <2> QED
      BY <1>5, <2>2, <2>3 DEF ReadOldStatus
  <1>6. CASE CheckExists(s)
    <2>1. ~Free(s) /\ req[s].stage = "exists" /\ req[s].kind # "create"
      BY <1>1, <1>6 DEF CheckExists, Free, RequestOK, CreateOK
    <2>2. CASE Advance(s, "put")
      BY <1>1, <2>1, <2>2, AdvanceKeepsGate
    <2>3. CASE Respond(s, FALSE)
      BY <2>1, <2>3, RespondKeepsGate
    <2> QED
      BY <1>6, <2>2, <2>3 DEF CheckExists
  <1>7. CASE Load(s)
    BY <1>7, LoadKeepsGate
  <1>8. CASE CheckDependency(s)
    BY <1>8, CheckDependencyKeepsGate
  <1>9. CASE Write(s)
    BY <1>9, WriteKeepsGate
  <1>10. CASE Reply(s)
    BY <1>10, RespondKeepsGate DEF Reply, Free
  <1>11. CASE IoError(s)
    BY <1>11, RespondKeepsGate DEF IoError, Free
  <1> QED
    BY <1>2, <1>3, <1>4, <1>5, <1>6, <1>7, <1>8, <1>9, <1>10, <1>11 DEF Serve

LEMMA CallsKeepGate ==
    ASSUME LockInv, OwnInv, GateInv, NEW w \in Workers, WorkerStep(w)
    PROVE  GateInv'
  <1>1. PICK t \in Tasks, s \in Requests :
             \/ ClaimCall(w, t, s)
             \/ \E status \in Closing : CloseCall(w, t, status, s)
             \/ LogCall(w, t, s)
    BY DEF WorkerStep, Closing
  <1>2. Closing \subseteq Status /\ {"claim", "status", "update"} \subseteq Kinds
        /\ {"queued", "old", "load"} \subseteq Stages /\ 0 \in Nat /\ tail + 1 \in Nat
    BY DEF Status, Kinds, Stages, LockInv, TypeOK, Closing
  <1>3. /\ call[w] = NoCall /\ call' = [call EXCEPT ![w] = s]
    BY <1>1 DEF ClaimCall, CloseCall, LogCall
  <1>4. \A v \in Workers : call'[v] = call[v] \/ call[v] = NoCall
    BY <1>3 DEF LockInv, TypeOK
  <1>5. call'[w] = s
    BY <1>3 DEF LockInv, TypeOK
  <1>6. CASE ClaimCall(w, t, s)
    <2>1. /\ req'[s].stage = "queued" /\ req'[s].kind = "claim" /\ req'[s].caller = w
      BY <1>2, <1>6, PatchTypes, ReceiveRequest DEF ClaimCall, LockInv
    <2>2. Knows(s)' /\ Awaited(s)'
      BY <1>5, <2>1 DEF Knows, ClaimKnows, Awaited
    <2> QED
      BY <1>4, <1>6, <2>2, ClaimCallArrives, ArrivesKeepsGate
  <1>7. ASSUME NEW status \in Closing, CloseCall(w, t, status, s)
        PROVE  GateInv'
    <2>1. /\ req'[s].stage = "old" /\ req'[s].kind = "status" /\ req'[s].caller = w
          /\ req'[s].patch = [NoPatch EXCEPT !.status = status]
      BY <1>2, <1>7, PatchTypes, ReceiveRequest DEF CloseCall, LockInv
    <2>2. req'[s].patch.status = status
      BY <2>1 DEF NoPatch
    <2>3. Knows(s)' /\ Awaited(s)'
      BY <1>5, <2>1, <2>2 DEF Knows, UpdateKnows, Awaited
    <2> QED
      BY <1>2, <1>4, <1>7, <2>3, CloseCallArrives, ArrivesKeepsGate
  <1>8. CASE LogCall(w, t, s)
    <2>1. /\ req'[s].stage = "load" /\ req'[s].kind = "update" /\ req'[s].caller = w
          /\ req'[s].patch = NoPatch
      BY <1>2, <1>8, PatchTypes, ReceiveRequest DEF LogCall, LockInv
    <2>2. req'[s].patch.status = Keep
      BY <2>1 DEF NoPatch
    <2>3. Knows(s)' /\ Awaited(s)'
      BY <1>5, <2>1, <2>2 DEF Knows, UpdateKnows, Awaited
    <2> QED
      BY <1>4, <1>8, <2>3, LogCallArrives, ArrivesKeepsGate
  <1> QED
    BY <1>1, <1>6, <1>7, <1>8

LEMMA CreateCallKeepsGate ==
    ASSUME LockInv, OwnInv, GateInv, NEW t \in Tasks, NEW to \in Assignee,
           NEW s \in Requests, CreateCall(t, to, s)
    PROVE  GateInv'
  <1> DEFINE g == IF Deps[t] = {} THEN "put" ELSE "deps"
  <1>1. /\ req'[s].stage = g /\ req'[s].kind = "create" /\ req'[s].task = t
        /\ req'[s].unchecked = Deps[t] /\ call' = call
    BY DEF CreateCall, LockInv, TypeOK
  <1>2. Knows(s)' /\ Awaited(s)'
    BY <1>1 DEF Knows, CreateKnows, Awaited
  <1> QED
    BY <1>1, <1>2, CreateCallArrives, ArrivesKeepsGate

\* Inductive, given the promise chain and ownership.
LEMMA GateInvStep ==
    ASSUME Editors = {}, ~Faults
    PROVE  LockInv /\ OwnInv /\ GateInv /\ [Next]_vars => GateInv'
  <1> SUFFICES ASSUME LockInv, OwnInv, GateInv, [Next]_vars
               PROVE  GateInv'
    OBVIOUS
  <1>1. CASE UNCHANGED vars
    <2>1. \A s \in Requests : Awaited(s)' /\ Knows(s)'
      BY <1>1, SameKnows DEF vars, GateInv, Awaited, Free
    <2> QED
      BY <1>1, <2>1
      DEF vars, GateInv, DependenciesExist, GateRespected, Exists,
          areDependenciesSatisfied
  <1>2. ~Restart /\ \A w \in Workers : ~Crash(w) /\ ~Disconnect(w)
    BY DEF Restart, Crash, Disconnect
  <1> QED
    BY <1>1, <1>2, CallsKeepGate, CreateCallKeepsGate, ServeKeepsGate DEF Next

LEMMA GateInvAlways ==
    ASSUME Editors = {}, ~Faults
    PROVE  Spec => [](LockInv /\ OwnInv /\ GateInv)
  BY LockInvInit, LockInvStep, OwnInvInit, OwnInvStep, GateInvInit, GateInvStep,
     PTL DEF Spec

\* Without editors and faults, a gated task is in progress only when all its
\* dependencies are finished: what a claim has read at its gate is still so
\* three awaits later, when it writes.
THEOREM GateHolds ==
    ASSUME Editors = {}, ~Faults
    PROVE  Spec => []GateRespected
  <1>1. GateInv => GateRespected
    BY DEF GateInv
  <1> QED
    BY <1>1, GateInvAlways, PTL

\* Nor does a claim, which may move a task from done to in progress, ever do
\* so: no task is closed between its read of the task and its write.
THEOREM ClosedForGood ==
    ASSUME Editors = {}, ~Faults
    PROVE  Spec => ClosedStaysClosed
  <1> DEFINE A == \A t \in Tasks : db[t].status \in {"done", "invalid"}
                                     => db'[t].status = db[t].status
  <1>1. LockInv /\ OwnInv /\ GateInv /\ [Next]_vars => [A]_vars
    <2> SUFFICES ASSUME LockInv, OwnInv, GateInv, Next
                 PROVE  A
      OBVIOUS
    <2>1. CASE db' = db
      BY <2>1
    <2>2. ASSUME NEW s \in Requests, Write(s)
          PROVE  A
      BY <2>2, WriteKeepsClosed DEF Closing
    <2>3. ASSUME db' # db
          PROVE  \E s \in Requests : Write(s)
      <3>1. ASSUME NEW s \in Requests, Serve(s) \/ IoError(s)
            PROVE  Write(s)
        BY <2>3, <3>1
        DEF Serve, IoError, Acquire, ClaimRead, ClaimScan, ReadOldStatus, Load,
            CheckDependency, CheckExists, Reply, Advance, Respond
      <3> QED
        BY <2>3, <3>1
        DEF Next, WorkerStep, CreateCall, ClaimCall, CloseCall, LogCall, EditCall,
            Crash, Disconnect, Restart
    <2> QED
      BY <2>1, <2>2, <2>3
  <1> QED
    BY <1>1, GateInvAlways, PTL DEF Spec, ClosedStaysClosed
=============================================================================
