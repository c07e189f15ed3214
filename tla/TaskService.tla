---------------------------- MODULE TaskService ----------------------------
(***************************************************************************)
(* The tasks service: EnhancedTaskService over the LevelDB task repository *)
(* (packages/tasks/src), as its clients see it.                            *)
(*                                                                         *)
(* The service is one Node process.  Every request is an async function:   *)
(* it runs without interruption from one await to the next, and requests   *)
(* interleave at the awaits.  A stage of a request is the code between two *)
(* awaits; each database read or write is one stage.  An update is a       *)
(* read-modify-write of the whole entity: the entity is loaded in one      *)
(* stage and written back, patched, in a later one.  Only claims are       *)
(* serialised, by a chain of promises (withTaskClaimLock).                 *)
(*                                                                         *)
(* Workers are the worker daemons: each has one call outstanding, claims   *)
(* tasks, works on the tasks it holds, logs on them and closes them.       *)
(* Editors are every other client (dashboard, API, MCP, scripts).          *)
(***************************************************************************)
EXTENDS Naturals

CONSTANTS
    Tasks,          \* the task ids that may ever be created
    Deps,           \* Deps[t]: the ids in t.dependencies
    Gated,          \* tasks of a type whose claim waits for dependencies
    Workers,        \* worker ids
    Editors,        \* clients that update tasks without claiming them
    Requests,       \* request slots: how many requests are served at once
    NoOne,          \* assignedTo of an unassigned task
    NoCall,         \* call[w] of a worker that waits for nothing
    MaxClaims,      \* bound: claims called in one life of the service
    Faults          \* whether workers and the service crash, connections break

Keep == "keep"      \* a field that a patch leaves alone

ASSUME IdsAssumption ==
    /\ NoOne \notin Workers
    /\ NoCall \notin Requests
    /\ Keep \notin Workers
    /\ Workers \cap Editors = {}

ASSUME GraphAssumption ==
    /\ Deps \in [Tasks -> SUBSET Tasks]
    /\ Gated \subseteq Tasks

ASSUME BoundAssumption == MaxClaims \in Nat /\ Faults \in BOOLEAN

VARIABLES
    db,         \* db[t]: the stored entity of task t
    born,       \* ids already given to a task (ids are random, never reused)
    tail,       \* number of promises chained on taskClaimQueue so far
    released,   \* those of the promises 1..tail that are resolved
    req,        \* req[s]: the request in slot s
    call,       \* call[w]: the slot whose answer worker w awaits
    holds       \* holds[w]: the tasks w claimed and is working on

vars == <<db, born, tail, released, req, call, holds>>

-----------------------------------------------------------------------------
(* Entities and patches.                                                   *)

Status == {"todo", "in-progress", "done", "invalid"}
Assignee == Workers \cup {NoOne}
Absent == [status |-> "absent", assignedTo |-> NoOne]
Entity == [status : Status, assignedTo : Assignee]

Patch == [status : Status \cup {Keep}, assignedTo : Assignee \cup {Keep}]
NoPatch == [status |-> Keep, assignedTo |-> Keep]

\* TaskDomainRules.canTransitionStatus
canTransitionStatus(from, to) ==
    <<from, to>> \in {"todo"} \X {"in-progress", "done", "invalid"}
                     \cup {"in-progress"} \X {"done", "todo", "invalid"}
                     \cup {"done", "invalid"} \X {"todo", "in-progress"}

\* TaskFactory.update: the status check, then the merged entity
updateAllowed(task, patch) ==
    \/ patch.status \in {Keep, task.status}
    \/ canTransitionStatus(task.status, patch.status)

\* Mutant: an absent field of the patch clears the stored one.
applyPatchClearing(task, patch) ==
    [status     |-> IF patch.status = Keep THEN task.status ELSE patch.status,
     assignedTo |-> IF patch.assignedTo = Keep THEN NoOne ELSE patch.assignedTo]

applyPatch(task, patch) ==
    [status     |-> IF patch.status = Keep THEN task.status ELSE patch.status,
     assignedTo |-> IF patch.assignedTo = Keep
                    THEN task.assignedTo ELSE patch.assignedTo]

Exists(t) == db[t].status # "absent"

\* areDependenciesSatisfied: a missing dependency counts as satisfied
areDependenciesSatisfied(t) ==
    \A d \in Deps[t] : db[d].status \in {"absent", "done", "invalid"}

-----------------------------------------------------------------------------
(* Requests.  kind: the service method; stage: the next step it will take. *)

Kinds == {"create", "claim", "status", "update", "delete"}
Stages == {"queued", "read", "scan", "old", "load", "exists", "deps", "put", "index"}

\* patch: what it changes; entity: what it will put; ticket: its promise;
\* unchecked: the dependencies createTask has yet to look up
Request == [stage : Stages, kind : Kinds, caller : Workers \cup Editors \cup {NoOne},
            task : Tasks, patch : Patch, entity : Entity \cup {Absent},
            ticket : Nat, unchecked : SUBSET Tasks]
IdleSlot == [stage |-> "free"]

Free(s) == req[s].stage = "free"
Goto(s, stage) == req' = [req EXCEPT ![s].stage = stage]

\* A request enters the service and runs to its first await.
Receive(s, kind, caller, t, patch, stage, ticket) ==
    /\ Free(s)
    /\ req' = [req EXCEPT ![s] =
                [stage |-> stage, kind |-> kind, caller |-> caller, task |-> t,
                 patch |-> patch, entity |-> Absent, ticket |-> ticket,
                 unchecked |-> {}]]

\* What the caller makes of the answer, if it still waits for it: a granted
\* claim adds the task to those it works on, a closed task leaves them.
Answered(s, ok) ==
    LET w == req[s].caller
        t == req[s].task
    IN  IF w \in Workers /\ call[w] = s
        THEN /\ call' = [call EXCEPT ![w] = NoCall]
             /\ holds' = [holds EXCEPT ![w] =
                    IF ok /\ req[s].kind = "claim" THEN @ \cup {t}
                    ELSE IF ok /\ req[s].kind = "status" THEN @ \ {t}
                    ELSE @]
        ELSE UNCHANGED <<call, holds>>

\* Mutant: the promise is resolved on success only, not in a finally block.
RespondKeepingLock(s, ok) ==
    /\ req' = [req EXCEPT ![s] = IdleSlot]
    /\ released' = IF req[s].kind = "claim" /\ ok
                   THEN released \cup {req[s].ticket} ELSE released
    /\ Answered(s, ok)
    /\ UNCHANGED <<db, born, tail>>

\* The request returns; the finally block of a claim resolves its promise.
Respond(s, ok) ==
    /\ req' = [req EXCEPT ![s] = IdleSlot]
    /\ released' = IF req[s].kind = "claim"
                   THEN released \cup {req[s].ticket} ELSE released
    /\ Answered(s, ok)
    /\ UNCHANGED <<db, born, tail>>

Advance(s, stage) ==
    /\ Goto(s, stage)
    /\ UNCHANGED <<db, born, tail, released, call, holds>>

-----------------------------------------------------------------------------
(* Calls.                                                                  *)

\* Mutant: the claim reads the chain's last promise and chains none of its own.
ClaimCallUnchained(w, t, s) ==
    /\ call[w] = NoCall
    /\ tail < MaxClaims
    /\ Receive(s, "claim", w, t, [status |-> "in-progress", assignedTo |-> w],
               "queued", tail + 1)
    /\ call' = [call EXCEPT ![w] = s]
    /\ UNCHANGED <<db, born, tail, released, holds>>

\* claimTaskForWorker: chain a new promise on taskClaimQueue, await the last
ClaimCall(w, t, s) ==
    /\ call[w] = NoCall
    /\ tail < MaxClaims
    /\ tail' = tail + 1
    /\ Receive(s, "claim", w, t, [status |-> "in-progress", assignedTo |-> w],
               "queued", tail + 1)
    /\ call' = [call EXCEPT ![w] = s]
    /\ UNCHANGED <<db, born, released, holds>>

\* a worker closes a task it works on (tests-passing, close-invalid-task)
CloseCall(w, t, status, s) ==
    /\ call[w] = NoCall
    /\ t \in holds[w]
    /\ Receive(s, "status", w, t, [NoPatch EXCEPT !.status = status], "old", 0)
    /\ call' = [call EXCEPT ![w] = s]
    /\ UNCHANGED <<db, born, tail, released, holds>>

\* appendTaskActionLogEntry, branch provisioning: other fields of the entity
LogCall(w, t, s) ==
    /\ call[w] = NoCall
    /\ t \in holds[w]
    /\ Receive(s, "update", w, t, NoPatch, "load", 0)
    /\ call' = [call EXCEPT ![w] = s]
    /\ UNCHANGED <<db, born, tail, released, holds>>

\* updateTaskStatus, updateTask / assignTask, deleteTask by other clients
EditCall(e, t, s) ==
    /\ \/ \E status \in Status :
            Receive(s, "status", e, t, [NoPatch EXCEPT !.status = status], "old", 0)
       \/ \E patch \in Patch : Receive(s, "update", e, t, patch, "load", 0)
       \/ Receive(s, "delete", e, t, NoPatch, "load", 0)
    /\ UNCHANGED <<db, born, tail, released, call, holds>>

\* createTask: a fresh id, a todo entity that may already have an assignee
CreateCall(t, to, s) ==
    /\ t \notin born
    /\ Free(s)
    /\ born' = born \cup {t}
    /\ req' = [req EXCEPT ![s] =
                [stage |-> IF Deps[t] = {} THEN "put" ELSE "deps", kind |-> "create",
                 caller |-> NoOne, task |-> t, patch |-> NoPatch,
                 entity |-> [status |-> "todo", assignedTo |-> to],
                 ticket |-> 0, unchecked |-> Deps[t]]]
    /\ UNCHANGED <<db, tail, released, call, holds>>

-----------------------------------------------------------------------------
(* The stages of a request.                                                *)

\* Mutant: the claim does not await the promise before its own.
AcquireAtOnce(s) ==
    /\ req[s].stage = "queued"
    /\ Advance(s, "read")

\* Mutant: a lock that wakes any of its waiters.
AcquireAnyTurn(s) ==
    /\ req[s].stage = "queued"
    /\ \A r \in Requests :
         ~Free(r) /\ req[r].kind = "claim" => req[r].stage = "queued"
    /\ Advance(s, "read")

\* await pending: the promise before this claim's own is resolved
Acquire(s) ==
    /\ req[s].stage = "queued"
    /\ req[s].ticket = 1 \/ req[s].ticket - 1 \in released
    /\ Advance(s, "read")

\* Mutant: whoever asks gets a task in progress.
ClaimableByAnyone(task, w) ==
    task.status \in {"todo", "in-progress"}

\* Mutant: a worker is also given back the tasks it closed.
ClaimableAgain(task, w) ==
    \/ task.status = "todo"
    \/ task.status # "absent" /\ task.assignedTo \in {NoOne, w}

\* getTask in the claim: closed tasks and tasks of another worker are refused
Claimable(task, w) ==
    \/ task.status = "todo"
    \/ task.status = "in-progress" /\ task.assignedTo \in {NoOne, w}

ClaimRead(s) ==
    /\ req[s].stage = "read"
    /\ IF Claimable(db[req[s].task], req[s].caller)
       THEN Advance(s, "scan") ELSE Respond(s, FALSE)

\* Mutant: a started dependency is good enough.
ClaimScanStarted(s) ==
    /\ req[s].stage = "scan"
    /\ IF req[s].task \in Gated => \A d \in Deps[req[s].task] : db[d].status # "todo"
       THEN Advance(s, "load") ELSE Respond(s, FALSE)

\* getAllTasks in the claim: the dependency gate
ClaimScan(s) ==
    /\ req[s].stage = "scan"
    /\ IF req[s].task \in Gated => areDependenciesSatisfied(req[s].task)
       THEN Advance(s, "load") ELSE Respond(s, FALSE)

\* updateTaskStatus reads the old status before it calls updateTask
ReadOldStatus(s) ==
    /\ req[s].stage = "old"
    /\ IF Exists(req[s].task) THEN Advance(s, "load") ELSE Respond(s, FALSE)

\* getTask in updateTask and deleteTask; the stored entity is merged with the
\* patch there and then.  deleteTask asks canDeleteTask, which may refuse.
Load(s) ==
    /\ req[s].stage = "load"
    /\ LET task == db[req[s].task] IN
       IF Exists(req[s].task) /\ updateAllowed(task, req[s].patch)
       THEN \/ /\ req' = [req EXCEPT ![s].stage = "exists",
                                     ![s].entity =
                                         IF req[s].kind = "delete" THEN Absent
                                         ELSE applyPatch(task, req[s].patch),
                                     ![s].patch = NoPatch]
               /\ UNCHANGED <<db, born, tail, released, call, holds>>
            \/ req[s].kind = "delete" /\ Respond(s, FALSE)
       ELSE Respond(s, FALSE)

\* ensureDependenciesInSameEnvironment: the dependencies are looked up one by
\* one; a task is not its own dependency and every dependency exists
CheckDependency(s) ==
    /\ req[s].stage = "deps"
    /\ \E d \in req[s].unchecked :
         IF d # req[s].task /\ Exists(d)
         THEN /\ req' = [req EXCEPT ![s].unchecked = @ \ {d},
                                   ![s].stage = IF req[s].unchecked = {d}
                                                THEN "put" ELSE "deps"]
              /\ UNCHANGED <<db, born, tail, released, call, holds>>
         ELSE Respond(s, FALSE)

\* the repository looks the id up again before it writes
CheckExists(s) ==
    /\ req[s].stage = "exists"
    /\ IF Exists(req[s].task) THEN Advance(s, "put") ELSE Respond(s, FALSE)

\* db.put of the merged entity, or db.del
Write(s) ==
    /\ req[s].stage = "put"
    /\ db' = [db EXCEPT ![req[s].task] = req[s].entity]
    /\ req' = [req EXCEPT ![s].stage = "index", ![s].entity = Absent]
    /\ UNCHANGED <<born, tail, released, call, holds>>

\* the branch index is written after the entity; then the answer
Reply(s) == req[s].stage = "index" /\ Respond(s, TRUE)

\* A database call fails: the method returns its error.  The entity stays
\* written when it is the branch index that cannot be; deleteTask ignores that.
IoError(s) ==
    /\ req[s].stage \notin {"free", "queued"}
    /\ req[s].stage = "index" => req[s].kind # "delete"
    /\ Respond(s, FALSE)

Serve(s) ==
    \/ Acquire(s) \/ ClaimRead(s) \/ ClaimScan(s) \/ ReadOldStatus(s)
    \/ Load(s) \/ CheckDependency(s) \/ CheckExists(s) \/ Write(s) \/ Reply(s)

-----------------------------------------------------------------------------
(* Faults.  The request of a crashed or disconnected worker runs on.  When  *)
(* the service itself dies, only the database is left of it.               *)

Crash(w) ==
    /\ Faults
    /\ call[w] # NoCall \/ holds[w] # {}
    /\ call' = [call EXCEPT ![w] = NoCall]
    /\ holds' = [holds EXCEPT ![w] = {}]
    /\ UNCHANGED <<db, born, tail, released, req>>

Disconnect(w) ==
    /\ Faults
    /\ call[w] # NoCall
    /\ call' = [call EXCEPT ![w] = NoCall]
    /\ UNCHANGED <<db, born, tail, released, req, holds>>

Restart ==
    /\ Faults
    /\ \E s \in Requests : ~Free(s)
    /\ tail' = 0
    /\ released' = {}
    /\ req' = [s \in Requests |-> IdleSlot]
    /\ call' = [w \in Workers |-> NoCall]
    /\ UNCHANGED <<db, born, holds>>

-----------------------------------------------------------------------------
Init ==
    /\ db = [t \in Tasks |-> Absent]
    /\ born = {}
    /\ tail = 0
    /\ released = {}
    /\ req = [s \in Requests |-> IdleSlot]
    /\ call = [w \in Workers |-> NoCall]
    /\ holds = [w \in Workers |-> {}]

WorkerStep(w) ==
    \E t \in Tasks, s \in Requests :
        \/ ClaimCall(w, t, s)
        \/ \E status \in {"done", "invalid"} : CloseCall(w, t, status, s)
        \/ LogCall(w, t, s)

Next ==
    \/ \E t \in Tasks, to \in Assignee, s \in Requests : CreateCall(t, to, s)
    \/ \E w \in Workers : WorkerStep(w) \/ Crash(w) \/ Disconnect(w)
    \/ Restart
    \/ \E e \in Editors, t \in Tasks, s \in Requests : EditCall(e, t, s)
    \/ \E s \in Requests : Serve(s) \/ IoError(s)

Spec == Init /\ [][Next]_vars

\* The event loop runs every continuation whose await is settled.
FairSpec == Spec /\ \A s \in Requests : WF_vars(Serve(s))

-----------------------------------------------------------------------------
(* Properties.                                                             *)

TypeOK ==
    /\ db \in [Tasks -> Entity \cup {Absent}]
    /\ born \subseteq Tasks
    /\ tail \in Nat
    /\ released \subseteq 1..tail
    /\ req \in [Requests -> Request \cup {IdleSlot}]
    /\ call \in [Workers -> Requests \cup {NoCall}]
    /\ holds \in [Workers -> SUBSET Tasks]

\* a claim between the settlement of its await and its return
InClaimLock(s) ==
    /\ req[s].stage \notin {"free", "queued"}
    /\ req[s].kind = "claim"

\* The promise chain is a lock: however many claims are in flight, and
\* whichever of them failed, only one runs the body of claimTaskForWorker.
ClaimLockExclusive ==
    \A r, s \in Requests : InClaimLock(r) /\ InClaimLock(s) => r = s

\* While no other client edits tasks, no two workers work on one task: not
\* when their claims overlap, when a worker crashes with a claim or an update
\* in flight, or when an answer is lost.
ClaimExclusive ==
    \A v, w \in Workers : holds[v] \cap holds[w] # {} => v = w

\* Without faults and editors: a gated task in progress has every dependency
\* finished, although the gate is checked three awaits before the write.
GateRespected ==
    \A t \in Gated : db[t].status = "in-progress" => areDependenciesSatisfied(t)

\* The claim lock is fair: the body runs in the order of the calls.
ClaimsInCallOrder ==
    [][\A r, s \in Requests :
          req[r].stage = "queued" /\ req[s].stage = "queued"
          /\ req[r].ticket < req[s].ticket
          => req'[s].stage # "read"]_vars

\* Without editors the service implements TaskOwnership: a task that has left
\* todo belongs to the worker it was given to, for good.  No late write of an
\* older request, crash, lost answer or restart takes it away or hands it on.
Ownership == INSTANCE TaskOwnership WITH
    owner <- [t \in Tasks |-> IF db[t].status \in {"absent", "todo"}
                              THEN NoOne ELSE db[t].assignedTo],
    working <- holds

ImplementsOwnership == Ownership!Spec

\* Without faults and editors: a closed task is never reopened, although
\* canTransitionStatus would let a late claim do it.
ClosedStaysClosed ==
    [][\A t \in Tasks : db[t].status \in {"done", "invalid"}
          => db'[t].status = db[t].status]_vars

\* Every request is answered: a claim never waits for ever for the lock, be it
\* behind claims that were refused, failed, or lost their caller.
RequestsAnswered ==
    \A s \in Requests : ~Free(s) ~> Free(s)
=============================================================================
