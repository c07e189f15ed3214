---------------------------- MODULE OfflineSync ----------------------------
(***************************************************************************)
(* useOfflineSync: the changes a user makes to tasks without a connection. *)
(* A change is kept in IndexedDB, put in a queue there, and sent by a      *)
(* sync loop when the browser is online.  Every mounted instance of the    *)
(* hook (one per page or tab) has a loop and a timer of its own; all of    *)
(* them share the queue.  Pages are left in the middle of a sync, tabs are *)
(* closed, requests fail, and answers are lost.                            *)
(*                                                                         *)
(* IndexedDB itself is taken to work.  A change is (type, task, number).   *)
(***************************************************************************)
EXTENDS Naturals, FiniteSets

CONSTANTS
    Hooks,          \* slots for instances of the hook
    Changes,        \* the changes users make: [type, task, n]
    NoChange,       \* no change in hand
    Known,          \* tasks the server has under the id the client uses
    MaxMade,        \* bound: how many of the changes are made
    MaxDrops,       \* bound: how often the connection is lost
    MaxFaults       \* bound: failed requests, lost answers, closed tabs

ASSUME ChangesAssumption ==
    /\ \A i \in Changes : i.type \in {"create", "update", "delete"}
    /\ \A i \in Changes : i.type # "delete" => i.task \notin Known
    /\ NoChange \notin Changes
    /\ MaxMade \in Nat /\ MaxDrops \in Nat /\ MaxFaults \in Nat

VARIABLES
    online,     \* navigator.onLine, and isOnline of every instance
    drops,      \* how often it has gone offline
    faults,     \* how many faults there have been
    local,      \* local[t]: the record of t in the store "tasks"
    queue,      \* the store "syncQueue"
    sent,       \* sent[i]: how often the server has carried out i, up to 2
    act,        \* act[i]: the call that makes the change i
    hook,       \* hook[h]: the state of an instance
    sync,       \* sync[h]: its sync loop
    excused     \* history: changes that may reach the server twice

browser == <<local, queue>>
vars == <<online, drops, faults, local, queue, sent, act, hook, sync, excused>>

LocalTasks == {i.task : i \in {j \in Changes : j.type = "create"}}

\* direct: send at once; flag: the isOffline that an update writes back.
Act == [at: {"new", "save", "send", "stamp", "enqueue", "done", "cut"},
        by: Hooks \cup {NoChange}, direct: BOOLEAN,
        flag: {"offline", "synced"}]

\* armed: the retry timer runs; failing: syncFailureCount > 0.
Hook == [mounted: BOOLEAN, armed: BOOLEAN, failing: BOOLEAN,
         delay: {"now", "base", "backoff"}]

Loop == [at: {"idle", "read", "send", "remove", "requeue"},
         todo: SUBSET Changes, item: Changes \cup {NoChange}, failed: BOOLEAN]

Unmounted == [mounted |-> FALSE, armed |-> FALSE, failing |-> FALSE,
              delay |-> "now"]
Stopped == [at |-> "idle", todo |-> {}, item |-> NoChange, failed |-> FALSE]
Fresh == [at |-> "new", by |-> NoChange, direct |-> FALSE, flag |-> "offline"]
Done == [Fresh EXCEPT !.at = "done"]

TypeOK ==
    /\ online \in BOOLEAN
    /\ drops \in 0..MaxDrops /\ faults \in 0..MaxFaults
    /\ local \in [LocalTasks -> {"absent", "offline", "synced"}]
    /\ queue \subseteq Changes
    /\ sent \in [Changes -> 0..2]
    /\ act \in [Changes -> Act]
    /\ hook \in [Hooks -> Hook]
    /\ sync \in [Hooks -> Loop]
    /\ excused \subseteq Changes
    /\ \A h \in Hooks : hook[h].armed => online /\ hook[h].mounted

Init ==
    /\ online \in BOOLEAN
    /\ drops = 0 /\ faults = 0
    /\ local = [t \in LocalTasks |-> "absent"]
    /\ queue = {}
    /\ sent = [i \in Changes |-> 0]
    /\ act = [i \in Changes |-> Fresh]
    /\ hook = [h \in Hooks |-> Unmounted]
    /\ sync = [h \in Hooks |-> Stopped]
    /\ excused = {}

-----------------------------------------------------------------------------
(* A request to the server.  A created task gets an id of the server's, so *)
(* updates and deletes of it under the client's id are refused, and so is  *)
(* the delete of a task that is gone.                                      *)

Accepts(i) == \/ i.type = "create"
              \/ (i.type = "delete" /\ i.task \in Known /\ sent[i] = 0)

CarriesOut(i) ==
    sent' = [sent EXCEPT ![i] = IF @ = 2 THEN 2 ELSE @ + 1]

\* The request of i ends well, or not; what a fault hides is excused.
Request(i, ok) ==
    \/ /\ ok /\ online /\ Accepts(i)
       /\ CarriesOut(i)
       /\ UNCHANGED <<faults, excused>>
    \/ /\ ~ok /\ (~online \/ ~Accepts(i))
       /\ UNCHANGED <<sent, faults, excused>>
    \/ /\ ~ok /\ faults < MaxFaults
       /\ faults' = faults + 1
       /\ \/ UNCHANGED <<sent, excused>>
          \/ Accepts(i) /\ CarriesOut(i) /\ excused' = excused \cup {i}

-----------------------------------------------------------------------------
(* createOfflineTask, updateOfflineTask and deleteOfflineTask.  isOnline   *)
(* is the one of the render the call was made from.                        *)

Makes(h, i) ==
    /\ hook[h].mounted /\ act[i].at = "new"
    /\ Cardinality({j \in Changes : act[j].at # "new"}) < MaxMade

Create(h, i) ==
    /\ Makes(h, i) /\ i.type = "create"
    /\ local' = [local EXCEPT ![i.task] = "offline"]
    /\ act' = [act EXCEPT ![i] = [@ EXCEPT
                 !.at = IF online THEN "send" ELSE "enqueue",
                 !.by = h, !.direct = online]]
    /\ UNCHANGED <<online, drops, faults, queue, sent, hook, sync, excused>>

\* getTask: only tasks of the local store can be updated.
Update(h, i) ==
    /\ Makes(h, i) /\ i.type = "update"
    /\ i.task \in LocalTasks /\ local[i.task] # "absent"
    /\ act' = [act EXCEPT ![i] = [at |-> "save", by |-> h,
                 direct |-> online /\ local[i.task] = "synced",
                 flag |-> local[i.task]]]
    /\ UNCHANGED <<online, drops, faults, local, queue, sent, hook, sync,
                   excused>>

\* saveTask writes back the record that was read, flag included.
SaveUpdate(i) ==
    /\ act[i].at = "save"
    /\ local' = [local EXCEPT ![i.task] = act[i].flag]
    /\ act' = [act EXCEPT ![i].at = IF act[i].direct THEN "send"
                                                     ELSE "enqueue"]
    /\ UNCHANGED <<online, drops, faults, queue, sent, hook, sync, excused>>

Delete(h, i) ==
    /\ Makes(h, i) /\ i.type = "delete"
    /\ local' = [t \in LocalTasks |-> IF t = i.task THEN "absent"
                                                    ELSE local[t]]
    /\ act' = [act EXCEPT ![i] = [@ EXCEPT
                 !.at = IF online THEN "send" ELSE "enqueue",
                 !.by = h, !.direct = online]]
    /\ UNCHANGED <<online, drops, faults, queue, sent, hook, sync, excused>>

\* The immediate processSyncItem; a failure puts the change in the queue.
SendNow(i) ==
    /\ act[i].at = "send"
    /\ \E ok \in BOOLEAN :
         /\ Request(i, ok)
         /\ act' = [act EXCEPT ![i] =
                      IF ok /\ i.type # "create" THEN Done
                      ELSE [@ EXCEPT !.at = IF ok THEN "stamp" ELSE "enqueue"]]
    /\ UNCHANGED <<online, drops, browser, hook, sync>>

Stamp(i) ==
    /\ act[i].at = "stamp"
    /\ local' = [local EXCEPT ![i.task] = "synced"]
    /\ act' = [act EXCEPT ![i] = Done]
    /\ UNCHANGED <<online, drops, faults, queue, sent, hook, sync, excused>>

\* addToSyncQueue; the call returns, and the user believes the change kept.
Enqueue(i) ==
    /\ act[i].at = "enqueue"
    /\ queue' = queue \cup {i}
    /\ act' = [act EXCEPT ![i] = Done]
    /\ UNCHANGED <<online, drops, faults, local, sent, hook, sync, excused>>

-----------------------------------------------------------------------------
(* syncOfflineChanges.                                                     *)

\* getAll returns the items in the order of their keys, "create-..." first.
Rank(i) == CASE i.type = "create" -> 0 [] i.type = "delete" -> 1
             [] i.type = "update" -> 2

First(items) == {i \in items : \A j \in items : Rank(i) <= Rank(j)}

\* The changes that another instance is about to send as well.
Shared(h) == queue \cap UNION {sync[g].todo : g \in Hooks \ {h}}

\* The timer fires or the user presses Retry: a second sync of the same
\* instance is skipped (syncInProgressRef).
Begin(h) ==
    sync' = [sync EXCEPT ![h] = IF @.at = "idle"
                                THEN [Stopped EXCEPT !.at = "read"] ELSE @]

TimerFires(h) ==
    /\ hook[h].armed
    /\ hook' = [hook EXCEPT ![h].armed = FALSE]
    /\ Begin(h)
    /\ UNCHANGED <<online, drops, faults, browser, sent, act, excused>>

\* retrySyncNow: a new delay is a new effect, and so a new timer.
RetrySyncNow(h) ==
    /\ hook[h].mounted
    /\ hook' = [hook EXCEPT ![h].delay = "now",
                            ![h].armed = @ \/ (online /\ hook[h].delay # "now")]
    /\ IF online THEN Begin(h) ELSE UNCHANGED sync
    /\ UNCHANGED <<online, drops, faults, browser, sent, act, excused>>

\* Mutant: a sync that ends well leaves the timer alone.
SettleQuietly(h, failed) ==
    hook' = [hook EXCEPT ![h] =
               IF ~@.mounted THEN @
               ELSE [@ EXCEPT !.failing = failed, !.armed = online /\ failed]]

\* Mutant: the timer is armed whether or not the browser is online.
SettleAnyway(h, failed) ==
    hook' = [hook EXCEPT ![h] =
               IF ~@.mounted THEN @
               ELSE [@ EXCEPT !.failing = failed, !.armed = TRUE]]

\* The states set at the end of a sync; an effect that depends on one that
\* changes arms the timer again.
Settle(h, failed) ==
    LET new == IF failed THEN [failing |-> TRUE, delay |-> "backoff"]
                         ELSE [failing |-> FALSE, delay |-> "base"]
        changed == \/ failed
                   \/ hook[h].failing
                   \/ hook[h].delay # "base"
    IN  hook' = [hook EXCEPT ![h] =
                   IF ~@.mounted THEN @
                   ELSE [@ EXCEPT !.failing = new.failing, !.delay = new.delay,
                                  !.armed = online /\ (@ \/ changed)]]

\* The end of an iteration: on to the next item, or out of the loop.
NextItem(h, failed) ==
    LET rest == sync[h].todo \ {sync[h].item}
    IN  IF rest = {}
        THEN Settle(h, failed) /\ sync' = [sync EXCEPT ![h] = Stopped]
        ELSE /\ sync' = [sync EXCEPT ![h] =
                           [Stopped EXCEPT !.at = "send", !.todo = rest,
                                           !.failed = failed]]
             /\ UNCHANGED hook

ReadQueue(h) ==
    /\ sync[h].at = "read"
    /\ IF queue = {}
       THEN Settle(h, FALSE) /\ sync' = [sync EXCEPT ![h] = Stopped]
       ELSE /\ sync' = [sync EXCEPT ![h].at = "send", ![h].todo = queue]
            /\ UNCHANGED hook
    /\ excused' = excused \cup Shared(h)
    /\ UNCHANGED <<online, drops, faults, browser, sent, act>>

\* Mutant: the item is taken out of the queue before it is sent.
SendRemoved(h) ==
    /\ sync[h].at = "send"
    /\ \E i \in First(sync[h].todo), ok \in BOOLEAN :
         /\ Request(i, ok)
         /\ queue' = queue \ {i}
         /\ sync' = [sync EXCEPT ![h].at = IF ok THEN "remove" ELSE "requeue",
                                 ![h].item = i]
    /\ UNCHANGED <<online, drops, local, act, hook>>

\* processSyncItem
Send(h) ==
    /\ sync[h].at = "send"
    /\ \E i \in First(sync[h].todo), ok \in BOOLEAN :
         /\ Request(i, ok)
         /\ sync' = [sync EXCEPT ![h].at = IF ok THEN "remove" ELSE "requeue",
                                 ![h].item = i]
    /\ UNCHANGED <<online, drops, browser, act, hook>>

\* Mutant: what was sent stays in the queue.
RemoveNothing(h) ==
    /\ sync[h].at = "remove"
    /\ NextItem(h, sync[h].failed)
    /\ UNCHANGED <<online, drops, faults, browser, sent, act, excused>>

\* removeFromSyncQueue
Remove(h) ==
    /\ sync[h].at = "remove"
    /\ queue' = queue \ {sync[h].item}
    /\ NextItem(h, sync[h].failed)
    /\ UNCHANGED <<online, drops, faults, local, sent, act, excused>>

\* The catch of an iteration puts the item under its key again, and does
\* not look whether another instance has sent and removed it by now.
Requeue(h) ==
    /\ sync[h].at = "requeue"
    /\ queue' = queue \cup {sync[h].item}
    /\ NextItem(h, TRUE)
    /\ UNCHANGED <<online, drops, faults, local, sent, act, excused>>

-----------------------------------------------------------------------------
(* The browser.                                                            *)

\* The first render; a timer without delay is armed if it is online.
Mount(h) ==
    /\ ~hook[h].mounted /\ sync[h].at = "idle"
    /\ hook' = [hook EXCEPT ![h] = [Unmounted EXCEPT !.mounted = TRUE,
                                                     !.armed = online]]
    /\ UNCHANGED <<online, drops, faults, browser, sent, act, sync, excused>>

\* Navigation: the timer is cleared; calls and a sync in flight go on.
Unmount(h) ==
    /\ hook[h].mounted
    /\ hook' = [hook EXCEPT ![h] = Unmounted]
    /\ UNCHANGED <<online, drops, faults, browser, sent, act, sync, excused>>

\* The tab is closed with all that is in flight; IndexedDB remains.
Close(h) ==
    /\ faults < MaxFaults /\ faults' = faults + 1
    /\ hook[h].mounted \/ sync[h].at # "idle"
    /\ hook' = [hook EXCEPT ![h] = Unmounted]
    /\ sync' = [sync EXCEPT ![h] = Stopped]
    /\ act' = [i \in Changes |->
                 IF act[i].by = h
                 THEN [Fresh EXCEPT !.at = "cut"] ELSE act[i]]
    /\ excused' = excused \cup ({sync[h].item} \ {NoChange})
    /\ UNCHANGED <<online, drops, browser, sent>>

\* handleOnline: another delay, another isOnline, a new timer.
GoOnline ==
    /\ ~online /\ online' = TRUE
    /\ hook' = [h \in Hooks |-> IF hook[h].mounted
                                THEN [hook[h] EXCEPT !.delay = "now",
                                                     !.armed = TRUE]
                                ELSE hook[h]]
    /\ UNCHANGED <<drops, faults, browser, sent, act, sync, excused>>

\* handleOffline: the cleanup of the effect clears the timer.
GoOffline ==
    /\ online /\ online' = FALSE
    /\ drops < MaxDrops /\ drops' = drops + 1
    /\ hook' = [h \in Hooks |-> [hook[h] EXCEPT !.armed = FALSE]]
    /\ UNCHANGED <<faults, browser, sent, act, sync, excused>>

-----------------------------------------------------------------------------
Change(h, i) == Create(h, i) \/ Update(h, i) \/ Delete(h, i)
CallStep(i) == SaveUpdate(i) \/ SendNow(i) \/ Stamp(i) \/ Enqueue(i)
SyncStep(h) ==
    TimerFires(h) \/ ReadQueue(h) \/ Send(h) \/ Remove(h) \/ Requeue(h)

Next ==
    \/ \E h \in Hooks, i \in Changes : Change(h, i)
    \/ \E i \in Changes : CallStep(i)
    \/ \E h \in Hooks : \/ SyncStep(h) \/ RetrySyncNow(h)
                       \/ Mount(h) \/ Unmount(h) \/ Close(h)
    \/ GoOnline
    \/ GoOffline

Spec == Init /\ [][Next]_vars

\* Timers fire, promises settle: the event loop of a page that is open.
FairSpec == Spec /\ \A h \in Hooks : WF_vars(SyncStep(h))

-----------------------------------------------------------------------------
(* Properties.                                                             *)

\* Once a call has returned, its change is on the server or in the queue,
\* whatever instances send, fail, requeue and remove at once, and whichever
\* tab is closed in between (syncOfflineChanges, addToSyncQueue).
ReturnedChangesKept ==
    \A i \in Changes : act[i].at = "done" => i \in queue \/ sent[i] > 0

\* A created task reaches the server twice only if an answer was lost, a tab
\* was closed between the request and the removal, or two instances had it
\* in their loops at once (processSyncItem, removeFromSyncQueue).
CreatedOnce ==
    \A i \in Changes \ excused : i.type = "create" => sent[i] <= 1

\* The server can carry the change out under the id the client uses.
Deliverable(i) ==
    i.type = "create" \/ (i.type = "delete" /\ i.task \in Known)

\* What waits in the queue while the browser is offline is sent once it is
\* online for good and a page stays open: no timer is lost between a sync
\* in flight, the events and the states that arm it.  A created task leaves
\* the queue as well (the effect of syncOfflineChanges).
QueuedOfflineIsSent ==
    (<>[]online /\ \E h \in Hooks : <>[]hook[h].mounted)
      => \A i \in {j \in Changes : Deliverable(j)} :
           (i \in queue /\ ~online)
             ~> (sent[i] > 0 /\ (i.type = "create" => i \notin queue))
=============================================================================
