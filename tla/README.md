# A verification development for Isomorphiq

Isomorphiq is a task manager whose tasks are worked off by a pool of worker
processes.  A supervisor starts the services, the tasks service keeps the tasks
in LevelDB, a worker manager keeps the pool of worker daemons running, and each
worker runs a loop that claims a task, lets an agent work on it, takes it
through a chain of quality checks and closes it.

This directory holds TLA+ models of the parts of that system where the order of
events decides whether it is correct, the TLC configurations that check them on
small instances, and TLAPS proofs that hold for instances of any size.  All
paths below are relative to `src/`.

- [1. The system](#1-the-system)
- [2. The modules](#2-the-modules)
- [3. What each module models](#3-what-each-module-models)
- [4. The runs](#4-the-runs)
- [5. The proofs](#5-the-proofs)
- [6. Findings](#6-findings)
- [7. What is not modelled](#7-what-is-not-modelled)
- [8. Plan](#8-plan)

## 1. The system

### 1.1 Inventory

| Component | Source (`packages/`) | State | Operations | What makes it correct |
|---|---|---|---|---|
| Tasks service | `tasks/src/enhanced-task-service.ts`, `task-domain.ts`, `task-factory.ts` | the task entities in LevelDB; the promise chain `taskClaimQueue` | create, update, update status, delete, claim | a claim excludes other claims; a task belongs to one worker; a gated task waits for its dependencies; every request is answered |
| Task graph | `tasks/src/task-domain.ts`, `dependency-validator.ts` | none (functions over the list of tasks) | cycle check, cycle listing, topological sort by priority, depth, change of dependencies | each computes what its name says, also on cyclic graphs and dangling ids |
| Worker daemon | `worker/src/worker-daemon.ts` | the call it awaits; the tasks it works on | claim, log, close | it works on a task only while the service says it may |
| Worker manager | `worker-manager/src` | one record per worker id (persisted), one control per id (in memory), restart timers, ports | start, stop, reconcile, close, restart | one process per id; records that tell the truth; a crash that was heard is not forgotten; no process left behind |
| Root supervisor | `supervisor/src/init.ts` | one child per service, restart timers, the position of the shutdown | boot, restart, shutdown | crashes are retried, clean exits are final, the shutdown keeps its order and ends |
| Profile workflow runner | `workflow/src/profile-workflow-runner` | a token (place in the workflow graph) in memory; a context record per worker; the git work tree shared by the workers | prepare a transition, claim, check out a branch, act, persist, advance | a task is closed only after all its checks have passed; work goes on after a crash |
| Task repository | `tasks/src/persistence/leveldb-task-repository.ts` | task records and the branch index, entries of one LevelDB | create, update, delete, find by branch | a branch belongs to one task; a lookup is right whatever the index says; a free branch is not refused for ever |
| Context service | `context/src` | context records in LevelDB | create, get, merge, replace, delete, get-or-create by file | what a call has written stays until it is replaced or due to be forgotten; lookups of a file agree |
| Offline sync of the app shell | `appshell/src/hooks/useOfflineSync.ts` | local task records and a queue of changes in IndexedDB; per mounted page a sync loop, a timer and its delay | create, update, delete a task offline or online; sync; retry | no change is lost; none is sent twice without a cause; what waits and can be accepted is sent |
| Coordination library | `core/src/distributed-coordination.ts` | leases, locks and permits in a shared store; timers | leader election, lock, semaphore, barrier | used by no other package |
| Persistence adapters | `persistence-adapter/src` | LevelDB handles; undo logs of transactions | get, put, del, batch, transactions, compare-and-swap | the transactions are used by no other package |
| Approval workflows | `core/src`, `tasks/src` | stages of approvals | submit, approve, reject, delegate | stages advance in order |

The remaining parts (gateway, dashboard, MCP, auth, notifications, search,
scheduling, plugins, earlier generations of the daemon and of the task service,
side services) are listed with the reason they are left out in
`PROJECT.json`, `components`.

### 1.2 How the components interact

- The **supervisor** spawns every service as a child process in
  `startupOrder`, restarts a service that exits with an error after a delay, and
  on SIGTERM first asks the worker manager to reconcile its pool to zero workers
  and then stops the services one by one in the reverse order.
- The **worker manager** spawns a worker daemon per worker id and restarts those
  that exit.  It gets start, stop and reconcile commands from the supervisor and
  the dashboard through the gateway.  Its records survive it; its controls and
  timers do not.
- A **worker daemon** runs the profile workflow runner.  It claims tasks from the
  **tasks service** over tRPC, updates them, and stores its context in the
  **context service** under its worker id.
- The **tasks service** keeps its entities in the **task repository**, which
  also answers its clients which task works on a branch.
- The **dashboard, API, MCP tools and scripts** edit tasks through the same
  service without claiming them.
- The **app shell** runs in browsers.  Its pages make changes through the http
  API, or keep them in a queue in IndexedDB while there is no connection; all
  open pages and tabs of a browser share that queue.

Every service is one Node process: code runs without interruption from one
`await` to the next, and everything that can go wrong in a service goes wrong
at those points, at the timers, and between the processes.

### 1.3 What is hard

- **Read-modify-write across awaits.**  `updateTask` loads an entity and writes
  the whole of it back three awaits later.  Only claims are serialised.
- **Calls that outlive their caller.**  A worker that crashes or loses its
  connection leaves its request running in the service; the worker that starts
  in its place repeats the call.
- **Two writers of one variable in a callback and after an await.**  The exit
  listener of a child and the `stopWorker` that waits for the exit both write
  the record and the control.
- **Timers that nobody clears** race stops, starts and shutdowns.
- **Readers that write.**  A lookup by branch repairs the index, a lookup of a
  file creates or touches a context record, and a read of a missing context
  record deletes it: each of them races the writers.
- **Loops over shared queues.**  Each page of the app shell walks its own copy of
  the one queue, sends, removes and puts back, and knows nothing of the others.
- **State that survives and state that does not.**  Records and contexts are on
  disk; controls, promise chains and the workers' tokens are not.

`PROJECT.json`, `hazards`, lists each place in the code where one of these
bites, with the properties that would notice.

## 2. The modules

| Module | Contents |
|---|---|
| `TaskService` | the tasks service, its requests stage by stage, workers, other clients, faults |
| `TaskOwnership` | what the service promises its workers: the abstract specification |
| `TaskServiceProofs` | proofs about the two |
| `WorkerManager`, `WorkerManagerProofs` | the worker manager and its child processes |
| `Supervisor`, `SupervisorProofs` | the root supervisor and its services |
| `DependencyGraph`, `DependencyGraphProofs` | the graph searches of the tasks service, call by call |
| `WorkflowRunner`, `WorkflowRunnerProofs` | the loop of the workers over the workflow graph, their contexts and their common git work tree |
| `TaskRepository`, `TaskRepositoryProofs` | the task records and the branch index, await by await |
| `ContextService`, `ContextServiceProofs` | the context records, await by await |
| `OfflineSync`, `OfflineSyncProofs` | the offline queue of the app shell, its pages and their timers |
| `MCTaskService`, `MCTaskRepository`, `MCContextService`, `MCOfflineSync`, `MCWorkerManager`, `MCSupervisor`, `MCDependencyGraph`, `MCWorkflowRunner` | constants, graphs and symmetries for TLC |

Conventions.  Names of operators that translate a function of the code are the
function's name where there is one (`updateAllowed`, `reservePort`, `addDependency`).
An action is the code between two awaits, or one callback.  An operator whose
comment begins with *Mutant* is a variant of the definition after it with a
plausible bug; `PROJECT.json`, `mutants`, names the property that finds each of
them out.  Specifications use none of them.  Every counter bound is a CONSTANT
whose comment says *bound*.

## 3. What each module models

### 3.1 TaskService

One database `db` of entities (status and assignee; `absent` when there is no
record), a promise chain (`tail`: the promises chained so far; `released`: those
resolved), request slots `req`, and for each worker the call it awaits and the
tasks it works on (`holds`).

| Action | Code |
|---|---|
| `ClaimCall`, `Acquire` | `withTaskClaimLock` (`enhanced-task-service.ts`): chain a promise, await the one before |
| `ClaimRead`, `ClaimScan` | `claimTaskForWorker`: `getTask` and the checks on status and assignee; `getAllTasks` and the dependency gate |
| `ReadOldStatus` | `updateTaskStatus`, which reads the old status before it calls `updateTask` |
| `Load`, `CheckExists`, `Write`, `Reply` | `updateTask`: `getTask` and merge, the repository's look at the id, `db.put`, the put of the branch index |
| `CreateCall`, `CheckDependency` | `createTask` with its look at each dependency in turn |
| `IoError`, `Respond` | a database call that fails; the `finally` of the lock |
| `Crash`, `Disconnect`, `Restart` | a worker dies, an answer is lost, the service is killed and started again |

The patch is merged with the entity in `Load`, and the merged entity is what
`Write` puts: the lost update of the code is a behaviour of the model.  Titles,
priorities, collaborators, action logs and branches are fields no property
tells apart; an update that touches only such fields is an update with the
empty patch (`LogCall`), which writes the stale status and assignee back all the
same.

*Workers and editors.*  A worker calls claim, logs on a task it holds and closes
a task it holds; everybody else is an editor, who may send any patch at any
time.  The properties about ownership are stated for `Editors = {}`, since with
editors the code does not have them: an edit that loaded a task before a claim
and writes after it erases the claim.  The worker discipline is an assumption
about the workflow runner: that a worker touches only tasks it holds.  The
runner departs from it where it infers a task from the list
(`workflow/src/profile-workflow-runner/loop/prepare-transition.ts:53`); such a
worker is an editor in the terms of this module.  `WorkflowRunner` (3.5) shows
what the runner does.

**TaskOwnership** has two variables, the owner of a task and the tasks a worker
works on.  A task gets an owner once; a worker works only on tasks it owns; it
may stop at any time.  `TaskService` implements it under

    owner   <- the assignee of a task that has left todo
    working <- holds

### 3.2 WorkerManager

Child processes (`alive`, `owner`, `opening`, `heard`, `orphans`), the control
and the record of each id (`control`, `status`, `port`), the restart timers and
the requests.  `phase` is the life of the manager's process.

| Action | Code (`worker-manager-service.ts`) |
|---|---|
| `Boot`, `CloseCall`, `StartCall`, `StopCall`, `ReconcileCall` | the entry points up to their first await |
| `Spawn`, `Opened` | `spawnWorker` before and after the put of the record; `Opened` attaches the listeners |
| `BeginStop`, `Signal`, `Resume` | `stopWorker`: the put of `stopping`; listen for the exit and signal; what the caller does once it returns |
| `Ensure`, `Continue` | the two loops of `reconcileWorkers`, the loop of `close` |
| `ChildExit` | the exit listener, and in the same turn the stops that wait for that exit |
| `TimerFires` | the restart timer |
| `StopPutFails`, `SpawnPutFails`, `ManagerDies` | a record that cannot be stored; the end of the process |

Two details of the code shape the model.  The listeners are attached after an
awaited put, so an exit before it goes unheard, and the `spawn` event, which
Node emits on the next tick, is never heard at all: no record ever says
`running` (the type invariant says so, and it is proved).  The timer that should
send SIGKILL to a worker that ignores SIGTERM looks at `child.killed`, which
Node has set when SIGTERM was sent, so it does nothing; it is left out, and no
child is assumed to obey.  A second signal during the shutdown runs `close` again
beside the first (`CloseCall` is open while the manager listens), and whichever
ends first ends the process.

### 3.3 Supervisor

The child, status and pending restart timers of each service, and the place
`pos` of the shutdown in `shutdownOrder`.  `start`, `OnExit`, `RestartTimer`,
`Stop` and `KillTimer` are the closures of `createServiceSupervisor`; `Boot`,
`Ready`, `Shutdown`, `WorkersReconciled`, `Exit` are `main` and `shutdown`.  What
a `start` yields is one of `Spawned`: a process; no child at all, when the entry
file is missing (`init.ts:132`); or, when the spawn fails, a child that emits
`error` and never `exit` (`unspawned`), which leaves `child` set, as in the code.
After the last two the status is `error` and no timer is armed.  So a crash is
answered by one more start, and by a third attempt only if that one has yielded a
process that crashes again; `crashed` is history, and says that no start has
followed the crash yet.  The supervision tree, through which `main` calls `start`
and `stop`, only looks the supervisor up by name, and adds no step.

### 3.4 DependencyGraph

The tasks that exist and those that did (`stored`, `deleted`), each with its list
of dependencies and the weight of its priority, and the one search that runs.

The searches are recursive closures.  Here each is a machine with a stack of
calls: `path[k]` is the id that the `k`-th call is about, `at` how far the loop of
each call, and of the search itself, has come.  `Loop(k)` is what that loop runs
over, `roots` for the search and the dependencies of a listed task for a call.
The sets `visited` and `recursionStack` are `entered` (which also keeps the
order of entry) and the ids on `path`; `cycles`, `result` and `best` are what the
closures accumulate.

| Action | Code |
|---|---|
| `Enter` | a first visit: `hasCycle` and `topologicalSort`'s `visit` (`task-domain.ts`), `dfs` of `detectCycles` (`dependency-validator.ts`) |
| `EnterBranch` | `calculateDepth`, whose visited set is copied for each branch, so that it holds the ids of the calls it is in |
| `PassOver` | a call that returns at once: visited, a leaf, not in the list |
| `Find`, `Report` | an id that is on the stack: `hasCycle` returns true through all its calls; `dfs` reports the part of the path from it on and goes on |
| `Leave`, `Output`, `ReturnDepth` | the end of a call: back to the caller; `result.push`; `1 + Math.max(...)` into the maximum of the caller |
| `detectCycles`, `sortTasksByPriorityAndDependencies`, `calculateMaxDependencyDepth` | the searches, of any set of stored tasks in any order (for the sort: any that the stable sort by priority can make) |
| `addDependency`, `Finish` | `addDependency` up to its cycle check, and from the answer on: `updateTask`, or the refusal |
| `createTask`, `updateTask`, `removeDependency`, `deleteTask` | the other methods that change the graph, with `ensureDependenciesInSameEnvironment` (`Accepted`) |

A search is synchronous, so nothing else happens while it runs; and the methods
of the service come one at a time here, since what their awaits let through is
the subject of `TaskService`.  Lists are stored as they were given: only the check
removes duplicates (`enhanced-task-service.ts:101`), so that a task may name a
dependency twice.  Nobody asks at a delete whether the task is a dependency, so
lists name deleted tasks.  A task that is gone keeps no list.

### 3.5 WorkflowRunner

For each worker its `token` (in memory), its context record `ctx` (in the
context service) and the `step` it is in; shared by all the tasks, the branches
they have and the branch `head` that is checked out, since all workers run in
one work tree.  `passed[t]` is history: the checks that have passed on the
branch of `t` since an agent last edited there, or since `t` was closed.

The states of the graph from `task-in-progress` on are the number of checks
done, so that one action models the five transitions `run-lint` to
`ensure-coverage` and another the five that lead back when a check has failed.
`LastCheck` and `E2eCheck` are constants; in the code they are 5 and 4.  After
the e2e tests the code looks at their own result first, which the last check
does not overwrite; hence `e2e` in the context.

| Action | Code (`workflow/src/profile-workflow-runner`) |
|---|---|
| `BeginImplementation`, `RunCheck`, `Fix`, `TestsPassing` | the deciders of the state (`workflow.ts`), `prepareTransition`, and the choice of a task in `resolveTaskForTransition`, up to the first await |
| `NeedMoreTasks`, `RefineIntoTasks`, `PickUpNextTask` | the ways to and from the portfolio part of the graph |
| `Claim` | one round of the claim loop: a refused claim goes on to the next candidate of the same list |
| `Checkout`, `SaveContext` | `ensureTaskBranchCheckedOutForTransition` and the first patch of the context |
| `Runs`, `Edits` | `runTransitionAction`: a check, whose outcome is any; an agent |
| `Load` | `updateTask` of the tasks service (`tasks/src/enhanced-task-service.ts`) up to its put: the whole entity as it is read |
| `StoreBranch` | `ensureTaskBranchForBeginImplementation`, its put |
| `Persist`, `AppendLog`, `LogFails` | `persistExecutionResult`: the patch of the context; after a check the log entry, whose error is caught; then the token |
| `CheckoutMain`, `Close`, `Clear` | the awaits of `tests-passing`, the status through `Load` |
| `Throws`, `CrashAndRestart` | the `catch` of `runLoop`; a daemon that dies and is started again |

A call may also do its part and its answer be lost (`LostAt`): the loop starts
over with the old token and the new store.  Left out: the portfolio part of the
graph, which is one place `Planning` with a step to `tasks-prepared`; story
coverage, by which `tasks-prepared` may ask for more tasks although there are
some (a setback); tasks whose text is incomplete (`close-invalid-task`).

An update of a task reads the entity (`Load`) and later writes all of it back
(`Put`), with its own field changed and the others as they were read: the branch
of a begin, the status of a closing, and the log of a check
(`worker/src/worker-daemon.ts:247`), which changes nothing that the module keeps
of a task.  Such a log that overlaps the closing of its task by another worker
writes `in-progress` over `done`; with one worker nothing overlaps.  The claims of
this module are atomic, since the lock of the service keeps them apart, as
`TaskService` shows; a claim that reads before an update's put and writes after it
is not among its behaviours, nor is an update that goes on in the service after its worker has died
(`CrashAndRestart` waits for the put).  `TaskService` has both.

### 3.6 TaskRepository

The record of a task is abstracted to its branch (`tasks`), the index is a
function from branches to tasks (`index`), and each call in flight is at the
await it has come to (`call`).  `TaskService` has the same two awaits of an
update as one `Write` and one `Reply`, and no branches; here the claim logic is
left out and every call may overlap every other.

| Action | Code (`leveldb-task-repository.ts`) |
|---|---|
| `Create`, `Update`, `Delete`, `FindByBranch` | the methods up to their first await |
| `ReadExisting` | the `findById` of `update` and `delete` |
| `AssertBranchAvailable` | `assertBranchAvailable`; a get that fails counts as no entry (`getIndexedTaskIdForBranch`) |
| `PutTask`, `Unindex`, `SetBranchIndex` | `db.put` or `db.del` of the record, `removeBranchIndex`, `setBranchIndex` |
| `LookupIndex`, `VerifyIndexed`, `RemoveStale`, `ScanTasks`, `Reindex` | the awaits of `findByBranch` |
| `Fail`, `Crash` | an await that rejects; the end of the process |

Two history variables carry the properties.  `right[c]` collects what was true of
the records at the moments of a lookup, so that `LookupsAnswerRight` is that the
answer was true at some moment of the call, the most a reader of a changing
store can be promised.  `disturbed` holds the branches for which the code
promises nothing more: those of two overlapping calls, unless both are lookups,
and those of a call that broke off half way.  A lookup that meets nobody takes
its branch out again, because it leaves the index right, whatever it was.

### 3.7 ContextService

A record is the file paths it stands for, the date of its last write and the
marks of the calls that wrote it, each with its *life*: the number of lookups
that would forget it.  `mergeContextData` keeps what a patch does not overwrite,
`replaceContext` nothing.  `mergeFileContextData`, the merge of a lookup, keeps the
last 100 observations (`clampRecent`) and builds `fileContext` anew from the fields
it knows (`context-service.ts:133-150`).  So the observation of a lookup lives for
`Recent` further ones (100 in the code), a field of `fileContext` that the service
does not know lives until the next lookup, and what lookups leave alone is
`Lasting`.

| Action | Code (`context-service.ts`) |
|---|---|
| `CreateContext`, `GetContext`, `PatchContext`, `FileLookup` | the operations up to their first await |
| `DeleteContext` | `deleteContext`, a single `del` |
| `List` | `findFileContextByPath` over a snapshot, with the filter and the stable sort by `updatedAt`; a new random id when nothing matches |
| `ReadRecord`, `Purge` | `readRecord`, which takes a missing record for a corrupt one and deletes it |
| `Put` | the merge and `repository.put`; the date lies between the read and the put |
| `Tick`, `Fail`, `Crash` | the clock; a database call that rejects; the end of the process |

`Purge` is why even a mere read counts as a writer: a client that asks for a
record which is not there yet deletes it after another client has created it.
`kept` and `settled` are histories: the least life that each mark must still have
in a record, and the record on which lookups of a file have settled.  A mark is
given to one call at a time; calls without one are the writes nobody follows.

### 3.8 OfflineSync

Each slot of `Hooks` is an instance of `useOfflineSync` in a page or tab.  Its
retry timer (`armed`), its `syncFailureCount` (`failing`) and its `retryDelay`
(`delay`) are in `hook`, its loop in `sync`; `local` and `queue` are the two
stores in IndexedDB that all instances share, and `sent` is what the server has
carried out.

| Action | Code (`useOfflineSync.ts`) |
|---|---|
| `Create`, `Update`, `SaveUpdate`, `Delete` | `createOfflineTask`, `updateOfflineTask`, `deleteOfflineTask` |
| `SendNow`, `Stamp`, `Enqueue` | the immediate attempt, the `isOffline` flag it clears, `addToSyncQueue` |
| `TimerFires`, `RetrySyncNow` | the effect with the timer; the button |
| `ReadQueue`, `Send`, `Remove`, `Requeue` | `syncOfflineChanges`: the queue as it is read, and each item in turn |
| `Settle` | the states set at its end, and whether the effect that depends on them arms the timer again |
| `Mount`, `Unmount`, `Close`, `GoOnline`, `GoOffline` | navigation, a closed tab, the events of the browser |

`Request` is the server as `http-api/src/http/routes/task-routes.ts` has it: a
POST gives the task an id of the server's, there is no PUT for tasks, and a
DELETE of a task that is gone is refused.  So an update, or a delete of a task
that was created offline, is refused for ever under the id the client uses;
`Deliverable` says so.  (`MOBILE_IMPLEMENTATION.md:16` speaks of updates and deletes
too; `QueuedOfflineIsSent` does not promise those.)  A POST is taken as accepted.
The route can refuse one (`task-routes.ts:220-242`: a title or description that is
not valid, an unknown type, dependencies that are no list), and would then refuse
it for ever; the creates of the model are of tasks that the route accepts.  Keys of the queue begin with the type of the change, and
`getAll` returns them in that order (`Rank`).  IndexedDB and the token of the
user are taken to be there.

## 4. The runs

| Run | Instance | What it shows |
|---|---|---|
| `task_claims` | 1 task, 2 workers, 3 slots, 4 claims, all faults | `ClaimLockExclusive`: one claim at a time past the queue. `ClaimsInCallOrder`: first come, first served. `ClaimExclusive`: no two workers on one task. `ImplementsOwnership`: the refinement |
| `task_gate` | 2 tasks (one gated, on the other), 2 workers, 3 slots, no faults | `GateRespected`: a task in progress has its dependencies finished, though they were read three awaits before. `ClosedStaysClosed` |
| `task_editors` | 1 task, a worker, an editor, 2 slots, all faults, fair event loop | `RequestsAnswered`: nothing waits for ever, whatever fails and whatever editors do |
| `task_repository` | 3 tasks, 2 branches, 2 overlapping calls, all faults | `LookupsAnswerRight`: a lookup is right whatever the index says. `OneTaskPerBranch`, `FreeBranchesAvailable`: index and records disagree only after calls that overlapped or broke off, and no longer than until the next lookup |
| `context_records` | 2 records that keep 2 observations, a file, a mark, 2 overlapping calls, a clock, all faults | `UpdatesKept`: before lookups are due to forget it, only an overlapping writer, a replace or a delete makes a write vanish. `LookupsSettle`: lookups of a file agree from the first undisturbed one on |
| `offline_sync` | 2 pages, a created, updated and a deleted task, a loss of connection, a fault, fair timers | `ReturnedChangesKept`: nothing the user was told is lost. `CreatedOnce`: a task is created twice only with a stated cause. `QueuedOfflineIsSent`: the queue is emptied once there is a connection |
| `manager_faults` | 2 ids, 3 children, 2 slots, 1 port, which requests may name, all faults | `OneChildPerWorker`, `StatusMatchesControl`, `RestartPending`: a worker that crashed has a timer, or nobody heard of the crash |
| `manager_shutdown` | 1 id, 3 children, 2 slots, crashing workers, fair event loop | `NoOrphans`: a shutdown that races requests, timers and a second shutdown leaves no child. `CrashedRestarted` |
| `supervisor_services` | 3 services, 4 crashes, failing spawns, missing entry files, fair timers | `StoppedStayDown`, `SignalsInOrder`: the order of the shutdown. `CleanExitIsFinal`. `CrashedRestarted`: a crash is followed by a start. `ShutdownEnds` |
| `dependency_algorithms` | all graphs of 3 tasks, some deleted, 2 priorities, lists in every order | `ReportedCyclesAreCycles`, `SortRespectsDependencies`, `SortRespectsPriorities`, `DepthIsLongestPath`: these searches compute what they should by definitions of reachability and paths |
| `workflow_solo` | 1 worker, 3 tasks (one gated), 5 checks, 5 setbacks, any answer lost | `DoneAfterAllChecks`: no task is closed unchecked, whatever failed or crashed. `OneClaimAtATime`: an error or a crash does not make the worker take a second task. `BacklogFinishedUnlessStuck`: the backlog is finished, unless the answer of the last patch of `tests-passing` is lost and the worker is stuck (`Stuck`) |
| `workflow_pool` | 2 workers, 2 tasks, 2 checks, 1 setback | `ActsOnClaimedTask`: checks, which claim nothing, run on no unclaimed task. `ClosedWasClaimed`: nor is one closed. `BacklogFinishedUnlessStale`: the backlog is finished, also with a worker that is stuck or a log that reopens a task, unless that happens again and again |

### 4.1 Bounds, and why they are enough

- *Three request slots and two workers* in `task_claims` let a claim run beside
  a request of a crashed predecessor and one of another worker: the longest
  chain of interference the code has, since the lock lets one claim at a time
  through and an abandoned request belongs to a worker that has called again.
  *Four claims* (`MaxClaims`, per life of the service) are two rounds for each
  worker; the proofs of section 5 have no such bound.
- *Two tasks* in `task_gate`: the gate relates a task to its dependencies, each
  separately.
- *Three children for two ids*, two of them live and one a survivor of an
  earlier manager or an abandoned child that is still dying.  A child that is
  dead and that nothing refers to is reused, so the run is not bounded in time.
- *One id* in `manager_shutdown`: the property that a shutdown leaves no child
  behind is about each id on its own; the second request slot is the request the
  shutdown races.
- *One port* for two ids, and `Preferred = {1}`: whichever id is started first
  keeps the port when it is stopped, so that the other runs out of ports, in a
  start and in a reconcile; and a request that names the port, which the code
  takes unchecked, gives it to both.  In `manager_shutdown` there is a port for
  its one id, since a boot that finds none ends the process.
- *Two overlapping calls* in `task_repository` and `context_records`: the
  histories are about pairs of calls, and what a third could do to a pair it does
  to one of them.  *Three tasks* let a branch be held, wanted and indexed by
  three different ones, *two branches* let an update leave one for the other.
  *One mark*: `UpdatesKept` is about each mark on its own, and the calls that could
  make it vanish need none.  *Two observations* (`Recent`), so that a mark is seen
  to age and to go; the proofs are for any number.  *Three dates*
  (`MaxTime = 2`) are a date before, at and after another.  *Two record ids* are
  the two records that overlapping lookups create for a file.
- *Two pages* in `offline_sync`, since every hazard of the queue is one of two
  loops.  *Two of the three changes* are made in a behaviour (`MaxMade`), which
  gives all pairs; *one fault* (a failed request, a lost answer or a closed tab)
  and *one loss of connection*, after either of the two initial states.  There is
  no symmetry, because the run has a liveness property.
- *Three services, four crashes*: one before, one at and one after the place of
  the shutdown, each able to crash again after its restart.
- *Three tasks, two dependencies each* (`MaxDeps`) in `DependencyGraph`: cycles of
  length two and three, cycles that share a task, a dependency named twice,
  chains, dependencies on deleted tasks.  The proofs are for any number of tasks
  and any `MaxDeps`.
- *Three tasks* in `workflow_solo`: one gated on another and a third beside them,
  so that there is a task to take wrongly.  *Five setbacks* are enough for a
  check that fails, a fix that throws, an answer that is lost and a crash, in
  any order and with one to spare.  The answer of every call that changes a store
  can be lost (`LostAt`): a claim, an update of a task, each patch of the context.
- *Two checks* in `workflow_pool`, of which the first has the part of the e2e
  tests: one that leads to another, one that leads to the closing.  The order of
  two workers on one branch is what the run is about, and it does not depend on
  the number of checks; with five the run would be too long.  For the same reason
  there is *one setback*, and no answer is lost here: what a lost answer does to a
  worker is the subject of `workflow_solo`, and the proofs for two workers have
  them all.

`CHECK_DEADLOCK FALSE` is set where the bound on claims or crashes, the end
of a shutdown, or a worker that waits for tasks, makes the system stop.

### 4.2 Fairness, and why the code justifies it

- `TaskService`: weak fairness of `Serve(s)`.  The event loop runs every
  continuation whose await is settled, and LevelDB calls end, with success or
  with an error.  Nobody is assumed to call.
- `WorkerManager`: weak fairness of `Opened` (a put ends), `Resume` (a settled
  await returns) and of each restart timer.  No child is assumed to exit, so a
  stop may wait for ever, as in the code.
- `Supervisor`: weak fairness of the shutdown's steps, of restart timers and of
  the exit of services that obey SIGTERM.  The request to the worker manager is
  answered or fails: `fetch` rejects when the other side goes away.
- `OfflineSync`: weak fairness of each page's loop (`SyncStep`): a timer that is
  armed fires, a request is answered or fails, IndexedDB calls end.  Nobody is
  assumed to press Retry, to open or leave a page, or to restore the connection:
  the property has the connection and one open page as its premises.
- `WorkflowRunner`: weak fairness of each worker's loop.  It polls for ever,
  awaits return or throw, agents and checks end.  `RefineIntoTasks` is part of
  the loop, which assumes that the portfolio agents come to `tasks-prepared`
  again; without it no backlog need ever be looked at.  Setbacks are bounded, so
  that a check that fails for ever is not a counterexample.

## 5. The proofs

| Theorem | Statement |
|---|---|
| `TypeCorrect` | `Spec => []TypeOK` (TaskService) |
| `ClaimLock` | `Spec => []ClaimLockExclusive` |
| `ClaimOrder` | `Spec => ClaimsInCallOrder` |
| `OneWorkerPerTask` | `Editors = {}`: `Spec => []ClaimExclusive` |
| `ServiceImplementsOwnership` | `Editors = {}`: `Spec => ImplementsOwnership` |
| `GateHolds` | `Editors = {}`, `~Faults`: `Spec => []GateRespected` |
| `ClosedForGood` | `Editors = {}`, `~Faults`: `Spec => ClosedStaysClosed` |
| `TypeCorrect`, `LookupsRight` | `Spec => []TypeOK`, `Spec => []LookupsAnswerRight` (TaskRepository) |
| `BranchesAreExclusive` | `Spec => []OneTaskPerBranch` |
| `FreeBranchesNotRefused` | `Spec => []FreeBranchesAvailable` |
| `TypeCorrect`, `MarksKept` | `Spec => []TypeOK`, `Spec => []UpdatesKept` (ContextService) |
| `LookupsAgree` | `Spec => LookupsSettle` |
| `TypeCorrect`, `ChangesKept`, `CreatesOnce` | `Spec => []TypeOK`, `Spec => []ReturnedChangesKept`, `Spec => []CreatedOnce` (OfflineSync) |
| `PoolTypeCorrect` | `Spec => []TypeOK` (WorkerManager) |
| `OneProcessPerWorker` | `Spec => []OneChildPerWorker` |
| `RecordsAreHonest` | `Spec => []StatusMatchesControl` |
| `ShutdownIsComplete` | `Faults = FALSE`, `EnoughPorts`: `Spec => []NoOrphans` |
| `CrashesRemembered` | `Spec => []RestartPending` |
| `SupervisorTypeCorrect` | `Spec => []TypeOK` (Supervisor) |
| `DependentsStopFirst` | `Spec => []StoppedStayDown` |
| `ShutdownKeepsOrder` | `Spec => SignalsInOrder` |
| `CleanExitsAreFinal` | `Spec => CleanExitIsFinal` |
| `SearchesSafe`, `SearchTypes` | `Spec => []SearchInv`, `Spec => []TypeOK` (DependencyGraph) |
| `CheckIsExact` | `Spec => []CheckFindsReachableCycle` |
| `CyclesAreReported` | `Spec => []ReportedCyclesAreCycles` |
| `SortIsTopological` | `Spec => []SortRespectsDependencies` |
| `SortPutsPrioritiesFirst` | `Spec => []SortRespectsPriorities` |
| `DepthIsExact` | `Spec => []DepthIsLongestPath` |
| `RunnerTypeCorrect` | `Spec => []TypeOK` (WorkflowRunner) |
| `CheckedBeforeDone` | one worker: `Spec => DoneAfterAllChecks` |
| `HoldsOneTask` | one worker: `Spec => []OneClaimAtATime` |
| `NobodyActsUnclaimed` | `Spec => []ActsOnClaimedTask` |
| `OnlyClaimedClosed` | `Spec => ClosedWasClaimed` |
| `WorkFollowsDependencies` | one worker: `Spec => []DependenciesFirst` |

They hold for any number of tasks, branches, records, changes, pages, workers,
request slots, ids, children, ports, services and checks, for any dependency
graph, and with and without faults unless the row says otherwise, under the named
assumptions on the constants
(`IdsAssumption`, `GraphAssumption`, `BoundAssumption`, `DistinctValues`,
`StoreAssumption`, `RecordAssumption`, `FiniteTasks`, `ChangesAssumption`,
`PoolAssumption`, `NoneAssumption`, `RunnerAssumption`, `ServicesAssumption`,
`SearchAssumption`), which TLC evaluates in the runs.

**The claim lock.**  Exclusion alone is not inductive: a state with one claim
past the queue and another whose predecessor is released would break it in one
step.  `LockInv` in `TaskServiceProofs` adds that tickets are distinct, that
each claim in flight has an unresolved promise of its own, that promises are
resolved in the order of the chain, and that past the queue every earlier one is.
Of two claims past the queue the later one's turn would have come after the
earlier one's promise was resolved, which it is not.

**Ownership.**  `OwnInv` in `TaskServiceProofs` says what each kind of request
knows at each of its stages.  The heart of it: a request that is about to put an
entity can only put its own caller as the assignee, and from the moment it may
do so that caller is the only worker the task can belong to.  So stale
whole-entity writes do no harm among workers.  It is inductive relative to
`LockInv`: two claims past the queue would break it.  The refinement is proved
from the same invariant, action by action: every step is a step or a stutter of
`TaskOwnership`.

**The gate.**  A claim decides on statuses it reads in three awaits and writes
them in a fourth.  `GateInv` in `TaskServiceProofs` says that what a request
knows of the statuses is still true when it writes: of its own task because it is
the only request on its way to a write of that task (`SoleWriter`, from the claim
lock, `OwnInv` and `Awaited`: a worker has no request but the one it awaits); of
the dependencies because a task that is finished is written by nobody but with
the status it has.  Both theorems take the hypotheses that the code needs.  With
editors they are false, since an edit may set any status.  With faults they are
false as well: a worker whose connection drops while it closes a task goes on to
log on it, and the log request, which has read `in-progress`, writes that after
the closing request has written `done` (`task_gate` with `Faults = TRUE` shows it).

**Lookups by branch.**  `LookupInv` in `TaskRepositoryProofs` needs one fact
besides the types: what a lookup has found by its scan, and is about to write
into the index, is among the answers that were right during the call
(`FoundRight`).  The scan has seen it in the records, the set of right answers
only grows during a call, and an indexed task is answered only by the step that
reads its record.  The contents of the index appear nowhere in the argument,
which is what makes the theorem hold after any crash.

**The branch index.**  `IndexInv` in `TaskRepositoryProofs` is about the branches
that are not disturbed.  The calls in flight that concern such a branch are
lookups, or one call alone (`Exclusive`); what that call has read of records and
index still holds (`Knows`); and the index entry names the task that has the
branch, but for what a call in flight is about to mend (`IndexRight`).  A branch
stops being disturbed when a lookup has met nobody, so the invariant has to say
too what such a lookup knows whatever the index held before it began
(`AloneApart`, `AloneKnows`), and that a task which is being created has no
record yet (`FreshMissing`).

**Context records.**  `KeptInv` in `ContextServiceProofs` says that a record holds
every mark with at least the life it is owed (`KeptHeld`), that of two writers of a
record at once neither is marked as alone (`AloneMeansAlone`), that a call
which is alone and about to put has read every mark with the life it is owed
(`WritersKnow`), and that a call which is alone and about to delete a missing
record deletes nothing that must be kept (`PurgedIsEmpty`).  A lookup takes one
from the life it has read and one from the life that is owed, so the order
between them stays.  A put by a call that
is not alone is the case to see: it may drop the marks only of calls that it
overlapped, whose marks were never counted.

**Lookups of a file.**  `SettleInv`, on top of `KeptInv`: the record on which
lookups have settled is the one the sort puts first (`SettledIsFound`).  What
could break it is a put that makes this record older than another of the file.
A call that is alone has read the very record it overwrites, or one that was
deleted since (`AloneReadsLast`), it computes its date after that read
(`InHand`), and no record bears a date that is still to come (`DatedBefore`); so
its put only makes the record younger.  A put by a call that is not alone
unsettles the file, as the property says.

**The offline queue.**  `KeptInv` in `OfflineSyncProofs`: an item that a loop is
about to remove has been sent (`RemovedSent`).  So whoever takes a change out of
the queue leaves it on the server, and the loops need know nothing of each
other.  `OnceInv`, for creates that nothing excuses: until the call hands its
change over nobody else knows of it (`StillOfItsCall`); it is in the loop of at
most one page (`InOneLoop`), because a page that reads the queue while another
has the item excuses it; and once it is sent, that page is about to remove it
(`SentIsRemoved`), so that no one else finds it in the queue.

**The pool.**  `PoolInv` in `WorkerManagerProofs` says that a live child of this
manager is the process of its id, that a process in a control belongs to that
id, that nothing refers to the children of earlier managers, and that an id with
a restart timer has no process.  A second process of an id can then be spawned
only when the first has exited, because every path to `Spawn` looks at the
control in the same turn.  `ShutdownInv` adds what a shutdown relies on: every
`close` under way, and there may be two, still has before it, or is stopping,
each id whose process is not dead; nothing spawns once the phase is `closing`,
so when a `close` has come to its end no child of this manager is alive.  It
assumes `EnoughPorts`, a port for every id: ports are never given back, and a boot
that finds none left ends the process with the children it had spawned.
`RestartInv` shows that an id which has had a port, and whose process was heard to
exit, has its timer; it needs no such assumption, because a port is kept.

**The supervisor.**  `SupervisorInv` in `SupervisorProofs` says that a restart
timer is pending only for a service without a child and only after a crash
(`TimersOfTheCrashed`), so that a service never has two of them although no stop
clears one; that a stop awaits the exit of the service at whose place the
shutdown is (`PlaceInShutdown`); and that, until the shutdown, a service which is
recorded as stopped has neither a child nor a timer (`CleanlyExited`).  That no
service comes twice in the order is needed: a second stop of it would find the
child that a timer has brought back.  `SignalsInOrder` says of the steps what
`StoppedStayDown` says of the states: who signals, and when the supervisor exits.

**The searches of the graph.**  `SearchInv` in `DependencyGraphProofs` is about the
stack.  Each call is the one that its caller's loop has come to, no id is in two
calls, and a call can be reached from every call around it (`StackInv`); so a call
of an id that is on the stack closes a cycle, which is half of `CheckIsExact`.  For
the other half: in any set of ids whose calls have ended (*black* ids) is one from
which no edge leads into the set, but for edges that have been reported
(`VisitInv`).  A cycle that had been passed over would be such a set without such
an id; the set of all tasks on cycles with a given one is another, hence what
`CyclesAreReported` says of each of them.  That `SubSeq` of the path is a cycle is
`CycleInv`; that two reported cycles differ in their tasks needs the order of entry
(`OrderInv`: two with the same tasks begin and end with the same ones) and that the
edge from the end to the beginning is looked at once for each time it is in a
list (`OnceInv`).  For the sort: the list holds the black ids, each once
(`ResultInv`), and on an acyclic graph what a loop has passed is in it (`SortInv`).
That priorities are respected needs, for each task in the list, the root from which
it was visited: all roots before it are in the list by then (the last part of
`ResultInv`), and a root which comes later has no higher priority.  For the depth:
`best` of a call is the longest path from what its loop has passed (`DepthInv`); an
id on the stack, which `calculateDepth` counts as 0, is met on no acyclic graph.
No induction over the graph is needed for any of this, because the run of the
search is one; what is needed of `Reach` follows from its definition as the
least closed set.

**The workflow runner.** `CheckedInv` in `WorkflowRunnerProofs` ties the place
of the token and the verdict in the context, neither of which mentions the
checks of a branch, to the history `passed`. While the verdict lets the token go
on, the checks up to the token have passed on the task in the context
(`PassedSoFar`), and that task is in progress (`InHand`, `AtEnd`), so that the
selection, which prefers it, stays with it. A worker that begins or fixes a task
is at a place from which the verdict does not let it go on (`Repairing`), so its
edits, which make `passed` empty, break nothing; after them the token goes back
to the first check. What is stored when an answer is lost, with the token left
where it was, is one of the cases of each step. The argument is about one
worker, and for two the property is false (section 6). `ClaimedInv`, for any
number of workers, says that every task with a branch has been claimed, which is
why a check, which claims nothing, runs on no unclaimed task. It says the same
of the task that a step is for and of the entity an update has read
(`ClaimedStep`), and of the task in a context (`ClaimedContext`): a worker that
comes to close its task and finds it closed by another closes it again and not
one that nobody has begun, and what it writes back is never `todo`. With one
worker the entity that an update writes back is the one that is stored, but for
its own field, so nothing is reopened, and whatever has been begun has its
dependencies finished (`DependenciesFirst`). With two it is false: a log of a
check that overlaps the closing reopens a dependency after its dependent has
been begun. `HoldInv`, for one worker, says that a task which has been claimed
is the only one in progress (`Alone`). Where a task may be claimed from, the
context names a task in progress or none (`Prefers`), and without one the
selection infers a task in progress from the list; so a claim is begun only when
nothing is in progress (`NothingBegun`, `TodoPicked`), and the claim of the only
worker is granted. `Least`, the principle of the least number for sets, makes
the selection by order usable in the proofs.

Left to TLC: the liveness properties (`RequestsAnswered`, `CrashedRestarted`,
`ShutdownEnds`, `QueuedOfflineIsSent`, `BacklogFinishedUnlessStuck`,
`BacklogFinishedUnlessStale`), which need ENABLED. Every other property of the
runs is stated by a theorem. That a search of the graph never gets stuck is the
deadlock check of `dependency_algorithms`.

## 6. Findings

In three places the code does not do what a document, a message or a comment of
the repository says.  The formulas are in the modules, and no run of the project
checks them: each is refuted by adding it to a configuration as described.

- **The cycle check does not see the edge it is asked about.**
  `hasCircularDependency` ignores the id of the task and searches the stored
  graph, so `addDependency` closes cycles, contrary to
  `packages/tasks/docs/dependency-visualization-guide.md:250` ("The system detects
  and prevents circular dependencies") and to its own message ("Adding this
  dependency would create a circular dependency", `enhanced-task-service.ts:641`).
  What it does compute, and the theorem `CheckIsExact` says no more, is
  `CheckFindsReachableCycle`: whether the graph has a cycle already.  To see it: `PreventsCircularDependencies`
  as an INVARIANT of `dependency_algorithms` with `SPECIFICATION CheckedSpec`.
- **Workers get stuck on tasks without a branch**, which
  `begin-implementation should have created` says an error message
  (`packages/workflow/src/profile-workflow-runner/transitions/git-branch.ts:166`).
  All workers prefer the one task in progress, and when one of them closes it,
  another that is about to check it picks a task that is still to do.  The check
  throws on every poll until somebody begins that task.  To see it:
  `TaskBranchThere` as an INVARIANT of `workflow_pool` with `LastCheck = 5`,
  `E2eCheck = 4` and `MaxSetbacks = 0`.
- **A service that ignores SIGTERM is never killed**, contrary to the message the
  supervisor would log (`packages/supervisor/src/init.ts:199`): `proc.killed` is
  set by the first signal.  To see it: `ForceKilledAfterTimeout` as an INVARIANT of
  `supervisor_services` with `Stubborn = {gateway}`, `MaxCrashes = 0` and
  `Faults = FALSE`.

Other behaviours met on the way, which no document of the repository denies, are
recorded as hazards: an edit that overlaps a claim erases it; a worker that
exits before its listeners are attached is never restarted; a supervisor whose
service cannot be spawned waits for its exit for ever; a service whose entry
file is missing when it is to be restarted stays down, with status `error`; a
service in the delay of a restart comes back in the middle of a shutdown, and if
the shutdown has passed it by it outlives the supervisor; `detectCycles` reports
one of several cycles that share a task, and one twice whose last task names its
first twice (`ReportedCyclesAreCycles` says what it does report).

Of the workflow runner: `DoneAfterAllChecks` holds for one worker only.  Two
workers that work on the same task check and edit what the other has checked
out, and a task is closed on the verdicts of both.  A worker that comes to fix a
task closed by another claims the next one, and goes on claiming as long as its
checkouts throw.  And if the answer of the last context patch of
`tests-passing` (`loop/execute-transition.ts:105`) is lost, the worker is at
`coverage-completed` with an empty context: it takes that for failed coverage,
claims a task it has not begun, finds no branch, and does so at every poll until it
is restarted.  `BacklogFinishedUnlessStuck` excepts this one way (`Stuck`), and
shows that a single worker has no other.  With two workers on one task the log of
a check that overlaps the closing reopens the task
(`loop/persist-execution.ts:120`), possibly after one that depends on it has been
begun; `BacklogFinishedUnlessStale` says that it is worked off once more.

Of the task repository: two tasks can get one branch when their calls overlap,
and a lookup that overlaps an update can write a stale entry over the update's.
Of the context service: a client that asks for a record before it is created can
delete it after it is (`context/src/context-service.ts:161`); patches that
overlap lose one of the two; and a lookup of a file drops from `fileContext` what
the service does not know, and all but the last 100 observations.

Of the offline queue: two pages can send one create twice; a create whose answer
is lost is sent again, and the server cannot know; a change queued while online,
after its immediate attempt failed, waits for the next event or timer, which need
not come; updates and deletes of a task created offline are retried for ever,
since the server has given it another id; so is a delete whose answer was lost, and
a create that the route refuses;
and the service worker's `BACKGROUND_SYNC` message has no listener.  The hook is
mounted by `useDashboardTasks`, in the overview and analytics pages;
`MobileLayout` and `MobileCreateTaskForm`, which use it too, are imported by
nobody.

## 7. What is not modelled

The portfolio part of the workflow graph is abstracted as section 3.5 says, and the
claims of the runner's module are atomic.  Of
the modelled components: events published after a write (their handlers only
log), the normalisation of stored records, the HTTP and tRPC layers, pids,
metadata and the length of delays; in the context service, patches that change
the paths of a file's record; in the app shell, everything but the offline sync.
The supervision tree's restart of a single service, which nothing calls.

The coordination library (leader election, lock, semaphore) and the transaction
helpers of the persistence adapters are used by no other package, so no property
of the system depends on them.  The rest of the repository (`PROJECT.json`,
`components`) is request-response code over stores and external services, user
interface, or earlier generations of the same services: the largest files (the
dashboard's server, the daemon, the MCP server, the profiles, the gateway) hold
mostly HTML, prompts, schemas and routing.

## 8. Plan

Done, in this order: `TaskService` with `TaskOwnership` and their proofs;
`WorkerManager` and its proofs; `DependencyGraph`; `Supervisor`;
`WorkflowRunner` and its proofs; `TaskRepository`, `OfflineSync` and
`ContextService` with theirs; the proofs about `DependencyGraph`, for which its
recursive operators gave way to a stack of calls.

Next, to model:

1. `ContextService` as the implementation of the `ctx` of `WorkflowRunner`, which
   is patched atomically there.
2. The approval workflows, as a sequential state machine.
