------------------------- MODULE OfflineSyncProofs -------------------------
(***************************************************************************)
(* Proofs about OfflineSync, for any number of hook instances and changes. *)
(*                                                                         *)
(* KeptInv carries ReturnedChangesKept: a change is taken out of the queue *)
(* only by a loop whose request of it went well.  OnceInv carries          *)
(* CreatedOnce: a created task that no fault and no second loop excuses is *)
(* in one loop at most, and once it was sent, that loop is about to remove *)
(* it.                                                                     *)
(***************************************************************************)
EXTENDS OfflineSync, TLAPS

\* A loop has items only while it sends them, and the one in hand is of them.
LoopShape ==
    \A h \in Hooks :
        /\ sync[h].at \in {"idle", "read"} => sync[h].todo = {}
        /\ sync[h].at \in {"remove", "requeue"} => sync[h].item \in sync[h].todo

TypeInv == TypeOK /\ LoopShape

Removing(h, i) == sync[h].at = "remove" /\ sync[h].item = i

StampedSent == \A i \in Changes : act[i].at = "stamp" => sent[i] > 0

RemovedSent == \A h \in Hooks, i \in Changes : Removing(h, i) => sent[i] > 0

KeptInv == TypeInv /\ StampedSent /\ RemovedSent /\ ReturnedChangesKept

\* The created tasks of which nothing excuses a second request.
Single == {i \in Changes \ excused : i.type = "create"}

SavesAreUpdates == \A i \in Changes : act[i].at = "save" => i.type = "update"

\* The call has not handed its change over: nobody else knows of it.
StillOfItsCall ==
    \A i \in Single :
        act[i].at \in {"new", "send", "enqueue"} =>
            /\ sent[i] = 0
            /\ i \notin queue
            /\ \A h \in Hooks : i \notin sync[h].todo

InOneLoop ==
    \A i \in Single : \A g, h \in Hooks :
        i \in sync[g].todo /\ i \in sync[h].todo => g = h

SentIsRemoved ==
    \A i \in Single :
        sent[i] > 0 =>
            /\ \A h \in Hooks : i \in sync[h].todo => Removing(h, i)
            /\ i \in queue => \E h \in Hooks : Removing(h, i)

OnceInv ==
    /\ TypeInv
    /\ SavesAreUpdates
    /\ StillOfItsCall
    /\ InOneLoop
    /\ SentIsRemoved
    /\ CreatedOnce

-----------------------------------------------------------------------------
(* The parts the actions are built from.                                   *)

LEMMA RecordTypes ==
    /\ Unmounted \in Hook /\ Stopped \in Loop
    /\ Fresh \in Act /\ Done \in Act /\ [Fresh EXCEPT !.at = "cut"] \in Act
    /\ Done.at = "done" /\ Stopped.at = "idle" /\ Stopped.todo = {}
BY DEF Unmounted, Stopped, Fresh, Done, Hook, Loop, Act

LEMMA RequestFacts ==
    ASSUME TypeOK, NEW i \in Changes, NEW ok \in BOOLEAN, Request(i, ok)
    PROVE  /\ sent' \in [Changes -> 0..2]
           /\ faults' \in 0..MaxFaults
           /\ excused' \subseteq Changes /\ excused \subseteq excused'
           /\ \A j \in Changes : sent'[j] >= sent[j]
           /\ \A j \in Changes \ {i} : sent'[j] = sent[j]
           /\ ok => sent'[i] > 0
           /\ sent'[i] <= sent[i] + 1
           /\ ~ok => sent'[i] = sent[i] \/ i \in excused'
<1> USE ChangesAssumption DEF TypeOK
<1>1. ASSUME CarriesOut(i)
      PROVE  /\ sent' \in [Changes -> 0..2]
             /\ \A j \in Changes : sent'[j] >= sent[j]
             /\ \A j \in Changes \ {i} : sent'[j] = sent[j]
             /\ sent'[i] > 0 /\ sent'[i] <= sent[i] + 1
  BY <1>1 DEF CarriesOut
<1> QED
  BY <1>1 DEF Request

LEMMA SettleType ==
    ASSUME TypeOK, NEW h \in Hooks, NEW failed \in BOOLEAN, Settle(h, failed),
           online' = online
    PROVE  /\ hook' \in [Hooks -> Hook]
           /\ \A g \in Hooks : hook'[g].armed => online' /\ hook'[g].mounted
BY ZenonT(40) DEF TypeOK, Settle, Hook

\* The next item of a loop: the one in hand leaves it, and no other comes.
LEMMA NextItemFacts ==
    ASSUME TypeOK, NEW h \in Hooks, NEW failed \in BOOLEAN,
           sync[h].item \in Changes, NextItem(h, failed), online' = online
    PROVE  /\ hook' \in [Hooks -> Hook]
           /\ \A g \in Hooks : hook'[g].armed => online' /\ hook'[g].mounted
           /\ sync' \in [Hooks -> Loop]
           /\ \A g \in Hooks \ {h} : sync'[g] = sync[g]
           /\ sync'[h].at \in {"idle", "send"}
           /\ sync'[h].at = "idle" => sync'[h].todo = {}
           /\ sync'[h].todo = sync[h].todo \ {sync[h].item}
<1>1. CASE sync[h].todo \ {sync[h].item} = {}
  BY <1>1, RecordTypes, SettleType DEF NextItem, TypeOK
<1>2. CASE sync[h].todo \ {sync[h].item} # {}
  <2>1. [Stopped EXCEPT !.at = "send", !.todo = sync[h].todo \ {sync[h].item},
                        !.failed = failed] \in Loop
    BY DEF Stopped, Loop, TypeOK
  <2> QED
    BY <1>2, <2>1 DEF NextItem, TypeOK, Stopped
<1> QED
  BY <1>1, <1>2

LEMMA ActType ==
    ASSUME TypeOK, NEW h \in Hooks, NEW i \in Changes,
           act' = [act EXCEPT ![i] = [@ EXCEPT
                     !.at = IF online THEN "send" ELSE "enqueue",
                     !.by = h, !.direct = online]]
    PROVE  /\ act' \in [Changes -> Act]
           /\ act'[i].at \in {"send", "enqueue"}
           /\ \A j \in Changes \ {i} : act'[j] = act[j]
<1>1. [act[i] EXCEPT !.at = IF online THEN "send" ELSE "enqueue",
                     !.by = h, !.direct = online] \in Act
  BY DEF TypeOK, Act
<1>2. act'[i].at = IF online THEN "send" ELSE "enqueue"
  BY DEF TypeOK, Act
<1> QED
  BY <1>1, <1>2 DEF TypeOK

LEMMA ChangeFacts ==
    ASSUME TypeOK, NEW h \in Hooks, NEW i \in Changes, Change(h, i)
    PROVE  /\ act[i].at = "new"
           /\ act'[i].at \in {"send", "enqueue", "save"}
           /\ act'[i].at = "save" => i.type = "update"
           /\ \A j \in Changes \ {i} : act'[j] = act[j]
           /\ queue' = queue /\ sent' = sent /\ sync' = sync
           /\ excused' = excused
<1>1. CASE Create(h, i)
  BY <1>1, ActType DEF Create, Makes
<1>2. CASE Update(h, i)
  BY <1>2 DEF Update, Makes, TypeOK
<1>3. CASE Delete(h, i)
  BY <1>3, ActType DEF Delete, Makes
<1> QED
  BY <1>1, <1>2, <1>3 DEF Change

LEMMA ReadFacts ==
    ASSUME TypeOK, NEW h \in Hooks, ReadQueue(h)
    PROVE  /\ sync'[h].at \in {"idle", "send"}
           /\ sync'[h].todo = queue
           /\ \A g \in Hooks \ {h} : sync'[g] = sync[g]
<1>1. CASE queue = {}
  BY <1>1, RecordTypes DEF ReadQueue, TypeOK
<1>2. CASE queue # {}
  <2>1. sync' = [sync EXCEPT ![h] = [@ EXCEPT !.at = "send", !.todo = queue]]
    BY <1>2 DEF ReadQueue
  <2> QED
    BY <2>1 DEF TypeOK, Loop
<1> QED
  BY <1>1, <1>2

LEMMA BeginType ==
    ASSUME TypeInv, NEW h \in Hooks, Begin(h)
    PROVE  /\ sync' \in [Hooks -> Loop]
           /\ LoopShape'
           /\ \A g \in Hooks : sync'[g].todo = sync[g].todo
           /\ \A g \in Hooks : sync'[g] = sync[g] \/ sync'[g].at = "read"
           /\ \A g \in Hooks : sync[g].at # "idle" => sync'[g] = sync[g]
BY DEF TypeInv, TypeOK, LoopShape, Begin, Stopped, Loop

\* The end of an iteration.
LEMMA LoopEnds ==
    ASSUME TypeInv, NEW h \in Hooks, Remove(h) \/ Requeue(h)
    PROVE  /\ sync[h].item \in Changes /\ sync[h].item \in sync[h].todo
           /\ hook' \in [Hooks -> Hook]
           /\ \A g \in Hooks : hook'[g].armed => online' /\ hook'[g].mounted
           /\ sync' \in [Hooks -> Loop] /\ LoopShape'
           /\ \A g \in Hooks \ {h} : sync'[g] = sync[g]
           /\ sync'[h].at \in {"idle", "send"}
           /\ sync'[h].todo = sync[h].todo \ {sync[h].item}
           /\ sent' = sent /\ act' = act /\ excused' = excused
<1> USE DEF TypeInv
<1>1. /\ sync[h].item \in Changes /\ sync[h].item \in sync[h].todo
      /\ sync[h].failed \in BOOLEAN
  BY DEF Remove, Requeue, LoopShape, TypeOK, Loop
<1>2. PICK failed \in BOOLEAN : NextItem(h, failed)
  BY <1>1 DEF Remove, Requeue
<1>3. /\ online' = online /\ sent' = sent /\ act' = act /\ excused' = excused
  BY DEF Remove, Requeue
<1>4. /\ hook' \in [Hooks -> Hook]
      /\ \A g \in Hooks : hook'[g].armed => online' /\ hook'[g].mounted
      /\ sync' \in [Hooks -> Loop]
      /\ \A g \in Hooks \ {h} : sync'[g] = sync[g]
      /\ sync'[h].at \in {"idle", "send"}
      /\ sync'[h].at = "idle" => sync'[h].todo = {}
      /\ sync'[h].todo = sync[h].todo \ {sync[h].item}
  BY <1>1, <1>2, <1>3, NextItemFacts
<1>5. LoopShape'
  BY <1>4 DEF LoopShape
<1> QED
  BY <1>1, <1>3, <1>4, <1>5

\* What the browser does leaves calls and loops as they are, or ends them.
LEMMA BrowserFacts ==
    ASSUME TypeInv,
           \/ \E h \in Hooks : RetrySyncNow(h) \/ Mount(h) \/ Unmount(h)
           \/ GoOnline \/ GoOffline
    PROVE  /\ queue' = queue /\ sent' = sent /\ act' = act
           /\ excused' = excused
           /\ \A g \in Hooks : sync'[g].todo = sync[g].todo
           /\ \A g \in Hooks : sync'[g] = sync[g] \/ sync'[g].at = "read"
           /\ \A g \in Hooks : sync[g].at # "idle" => sync'[g] = sync[g]
<1>1. ASSUME NEW h \in Hooks, RetrySyncNow(h), Begin(h)
      PROVE  /\ \A g \in Hooks : sync'[g].todo = sync[g].todo
             /\ \A g \in Hooks : sync'[g] = sync[g] \/ sync'[g].at = "read"
             /\ \A g \in Hooks : sync[g].at # "idle" => sync'[g] = sync[g]
  BY <1>1, BeginType
<1>2. ASSUME NEW h \in Hooks, RetrySyncNow(h)
      PROVE  /\ queue' = queue /\ sent' = sent /\ act' = act
             /\ excused' = excused /\ (Begin(h) \/ sync' = sync)
  BY <1>2 DEF RetrySyncNow, browser
<1>3. ASSUME NEW h \in Hooks, Mount(h)
      PROVE  UNCHANGED <<queue, sent, act, excused, sync>>
  BY <1>3 DEF Mount, browser
<1>4. ASSUME NEW h \in Hooks, Unmount(h)
      PROVE  UNCHANGED <<queue, sent, act, excused, sync>>
  BY <1>4 DEF Unmount, browser
<1>5. CASE GoOnline \/ GoOffline
  BY <1>5 DEF GoOnline, GoOffline, browser
<1> QED
  BY <1>1, <1>2, <1>3, <1>4, <1>5

LEMMA CloseFacts ==
    ASSUME TypeOK, NEW h \in Hooks, Close(h)
    PROVE  /\ queue' = queue /\ sent' = sent
           /\ excused' = excused \cup ({sync[h].item} \ {NoChange})
           /\ \A j \in Changes : act'[j] = act[j] \/ act'[j].at = "cut"
           /\ sync'[h].at = "idle" /\ sync'[h].todo = {}
           /\ \A g \in Hooks \ {h} : sync'[g] = sync[g]
<1>1. [Fresh EXCEPT !.at = "cut"].at = "cut"
  BY DEF Fresh
<1> QED
  BY <1>1, RecordTypes DEF Close, browser, TypeOK

-----------------------------------------------------------------------------
(* Types.                                                                  *)

LEMMA CallTypes ==
    ASSUME TypeInv,
           \/ \E h \in Hooks, i \in Changes : Change(h, i)
           \/ \E i \in Changes : CallStep(i)
    PROVE  TypeInv'
<1> USE DEF TypeInv, TypeOK, LoopShape
<1>1. ASSUME NEW h \in Hooks, NEW i \in Changes, Create(h, i)
      PROVE  TypeInv'
  BY <1>1, ActType DEF Create
<1>2. ASSUME NEW h \in Hooks, NEW i \in Changes, Update(h, i)
      PROVE  TypeInv'
  BY <1>2 DEF Update, Makes, Act
<1>3. ASSUME NEW h \in Hooks, NEW i \in Changes, Delete(h, i)
      PROVE  TypeInv'
  BY <1>3, ActType DEF Delete
<1>4. ASSUME NEW i \in Changes, SaveUpdate(i)
      PROVE  TypeInv'
  BY <1>4, ZenonT(40) DEF SaveUpdate, Act
<1>5. ASSUME NEW i \in Changes, SendNow(i)
      PROVE  TypeInv'
  <2>1. PICK ok \in BOOLEAN : Request(i, ok)
                 /\ act' = [act EXCEPT ![i] =
                      IF ok /\ i.type # "create" THEN Done
                      ELSE [@ EXCEPT !.at = IF ok THEN "stamp" ELSE "enqueue"]]
    BY <1>5 DEF SendNow
  <2>2. act' \in [Changes -> Act]
    BY <2>1, RecordTypes DEF Act
  <2> QED
    BY <1>5, <2>1, <2>2, RequestFacts DEF SendNow, browser
<1>6. ASSUME NEW i \in Changes, Stamp(i)
      PROVE  TypeInv'
  BY <1>6, RecordTypes DEF Stamp
<1>7. ASSUME NEW i \in Changes, Enqueue(i)
      PROVE  TypeInv'
  BY <1>7, RecordTypes DEF Enqueue
<1> QED
  BY <1>1, <1>2, <1>3, <1>4, <1>5, <1>6, <1>7 DEF Change, CallStep

LEMMA LoopTypes ==
    ASSUME TypeInv, NEW h \in Hooks, SyncStep(h)
    PROVE  TypeInv'
<1> USE DEF TypeInv
<1>1. CASE TimerFires(h)
  <2>1. hook' \in [Hooks -> Hook]
    BY <1>1 DEF TimerFires, TypeOK, Hook
  <2> QED
    BY <1>1, <2>1, BeginType DEF TimerFires, browser, TypeOK
<1>2. CASE ReadQueue(h)
  <2>1. sync' \in [Hooks -> Loop] /\ LoopShape'
    <3>1. CASE queue = {}
      BY <1>2, <3>1, RecordTypes DEF ReadQueue, TypeOK, LoopShape
    <3>2. CASE queue # {}
      <4>1. [sync[h] EXCEPT !.at = "send", !.todo = queue] \in Loop
        BY DEF TypeOK, Loop
      <4>2. sync' = [sync EXCEPT ![h] = [@ EXCEPT !.at = "send", !.todo = queue]]
        BY <1>2, <3>2 DEF ReadQueue
      <4> QED
        BY <4>1, <4>2 DEF TypeOK, LoopShape, Loop
    <3> QED
      BY <3>1, <3>2
  <2>2. /\ hook' \in [Hooks -> Hook]
        /\ \A g \in Hooks : hook'[g].armed => online' /\ hook'[g].mounted
    BY <1>2, SettleType DEF ReadQueue, TypeOK
  <2>3. excused' \subseteq Changes
    BY <1>2 DEF ReadQueue, Shared, TypeOK
  <2> QED
    BY <1>2, <2>1, <2>2, <2>3 DEF ReadQueue, browser, TypeOK
<1>3. CASE Send(h)
  <2>1. PICK i \in First(sync[h].todo), ok \in BOOLEAN :
            /\ Request(i, ok)
            /\ sync' = [sync EXCEPT
                 ![h].at = IF ok THEN "remove" ELSE "requeue", ![h].item = i]
    BY <1>3 DEF Send
  <2>2. i \in sync[h].todo /\ i \in Changes
    BY DEF First, TypeOK, Loop
  <2>3. sync' \in [Hooks -> Loop] /\ LoopShape'
    <3>1. [sync[h] EXCEPT !.at = IF ok THEN "remove" ELSE "requeue",
                          !.item = i] \in Loop
      BY <2>2 DEF TypeOK, Loop
    <3>2. sync' = [sync EXCEPT ![h] = [@ EXCEPT
                     !.at = IF ok THEN "remove" ELSE "requeue", !.item = i]]
      BY <2>1
    <3> QED
      BY <2>2, <3>1, <3>2 DEF TypeOK, LoopShape, Loop
  <2> QED
    BY <1>3, <2>1, <2>2, <2>3, RequestFacts DEF Send, browser, TypeOK
<1>4. CASE Remove(h) \/ Requeue(h)
  BY <1>4, LoopEnds DEF Remove, Requeue, TypeOK
<1> QED
  BY <1>1, <1>2, <1>3, <1>4 DEF SyncStep

LEMMA BrowserTypes ==
    ASSUME TypeInv,
           \/ \E h \in Hooks : RetrySyncNow(h) \/ Mount(h) \/ Unmount(h) \/ Close(h)
           \/ GoOnline \/ GoOffline
    PROVE  TypeInv'
<1> USE DEF TypeInv
<1>1. ASSUME NEW h \in Hooks, RetrySyncNow(h)
      PROVE  TypeInv'
  <2>1. /\ hook' \in [Hooks -> Hook]
        /\ \A g \in Hooks : hook'[g].armed => online' /\ hook'[g].mounted
    BY <1>1 DEF RetrySyncNow, TypeOK, Hook
  <2>2. sync' \in [Hooks -> Loop] /\ LoopShape'
    BY <1>1, BeginType DEF RetrySyncNow, TypeOK, LoopShape
  <2> QED
    BY <1>1, <2>1, <2>2 DEF RetrySyncNow, browser, TypeOK
<1>2. ASSUME NEW h \in Hooks, Mount(h)
      PROVE  TypeInv'
  <2>1. [Unmounted EXCEPT !.mounted = TRUE, !.armed = online] \in Hook
    BY DEF Unmounted, Hook, TypeOK
  <2> QED
    BY <1>2, <2>1 DEF Mount, Unmounted, browser, TypeOK, LoopShape
<1>3. ASSUME NEW h \in Hooks, Unmount(h)
      PROVE  TypeInv'
  BY <1>3, RecordTypes DEF Unmount, Unmounted, browser, TypeOK, LoopShape
<1>4. ASSUME NEW h \in Hooks, Close(h)
      PROVE  TypeInv'
  <2>1. faults' \in 0..MaxFaults
    BY <1>4, ChangesAssumption DEF Close, TypeOK
  <2>2. excused' \subseteq Changes
    BY <1>4 DEF Close, TypeOK, Loop
  <2> QED
    BY <1>4, <2>1, <2>2, RecordTypes
    DEF Close, Unmounted, browser, TypeOK, LoopShape
<1>5. CASE GoOnline
  <2>1. /\ hook' \in [Hooks -> Hook]
        /\ \A h \in Hooks : hook'[h].armed => online' /\ hook'[h].mounted
    BY <1>5 DEF GoOnline, TypeOK, Hook
  <2> QED
    BY <1>5, <2>1 DEF GoOnline, browser, TypeOK, LoopShape
<1>6. CASE GoOffline
  <2>1. drops' \in 0..MaxDrops
    BY <1>6, ChangesAssumption DEF GoOffline, TypeOK
  <2>2. /\ hook' \in [Hooks -> Hook]
        /\ \A h \in Hooks : ~hook'[h].armed
    BY <1>6 DEF GoOffline, TypeOK, Hook
  <2> QED
    BY <1>6, <2>1, <2>2 DEF GoOffline, browser, TypeOK, LoopShape
<1> QED
  BY <1>1, <1>2, <1>3, <1>4, <1>5, <1>6

LEMMA TypeStep ==
    ASSUME TypeInv, [Next]_vars
    PROVE  TypeInv'
<1>1. CASE UNCHANGED vars
  BY <1>1 DEF vars, TypeInv, TypeOK, LoopShape
<1> QED
  BY <1>1, CallTypes, LoopTypes, BrowserTypes DEF Next

LEMMA TypeInit ==
    ASSUME Init
    PROVE  TypeInv
BY RecordTypes, ChangesAssumption
DEF Init, TypeInv, TypeOK, LoopShape, Unmounted, Stopped

\* The records of calls, hook instances and loops keep their shape, and a
\* timer is armed only while the browser is online and the page is mounted.
THEOREM TypeCorrect == Spec => []TypeOK
<1>1. TypeInv => TypeOK
  BY DEF TypeInv
<1> QED
  BY <1>1, TypeInit, TypeStep, PTL DEF Spec

-----------------------------------------------------------------------------
(* ReturnedChangesKept.                                                    *)

\* sent only grows, so what depends on it for the untouched rest stays.
LEMMA KeptByCalls ==
    ASSUME KeptInv, TypeInv',
           \/ \E h \in Hooks, i \in Changes : Change(h, i)
           \/ \E i \in Changes : CallStep(i)
    PROVE  KeptInv'
<1> USE DEF KeptInv, TypeInv, StampedSent, RemovedSent, Removing,
            ReturnedChangesKept
<1>1. ASSUME NEW h \in Hooks, NEW i \in Changes, Change(h, i)
      PROVE  KeptInv'
  BY <1>1, ChangeFacts
<1>2. ASSUME NEW i \in Changes, SaveUpdate(i)
      PROVE  KeptInv'
  <2>1. /\ act'[i].at \in {"send", "enqueue"}
        /\ \A j \in Changes \ {i} : act'[j] = act[j]
        /\ queue' = queue /\ sent' = sent /\ sync' = sync
    BY <1>2 DEF SaveUpdate, TypeOK, Act
  <2> QED
    BY <2>1
<1>3. ASSUME NEW i \in Changes, SendNow(i)
      PROVE  KeptInv'
  <2>1. PICK ok \in BOOLEAN : Request(i, ok)
                 /\ act' = [act EXCEPT ![i] =
                      IF ok /\ i.type # "create" THEN Done
                      ELSE [@ EXCEPT !.at = IF ok THEN "stamp" ELSE "enqueue"]]
    BY <1>3 DEF SendNow
  <2>2. /\ act'[i].at \in {"done", "stamp"} => sent'[i] > 0
        /\ \A j \in Changes \ {i} : act'[j] = act[j]
    BY <2>1, RecordTypes, RequestFacts DEF TypeOK, Act
  <2>3. /\ \A j \in Changes : sent[j] > 0 => sent'[j] > 0
        /\ queue' = queue /\ sync' = sync
    BY <1>3, <2>1, RequestFacts DEF SendNow, browser, TypeOK
  <2> QED
    BY <2>2, <2>3
<1>4. ASSUME NEW i \in Changes, Stamp(i) \/ Enqueue(i)
      PROVE  KeptInv'
  <2>1. /\ act'[i].at = "done" /\ (i \in queue' \/ sent[i] > 0)
        /\ \A j \in Changes \ {i} : act'[j] = act[j]
        /\ queue \subseteq queue' /\ sent' = sent /\ sync' = sync
    BY <1>4, RecordTypes DEF Stamp, Enqueue, TypeOK
  <2> QED
    BY <2>1
<1> QED
  BY <1>1, <1>2, <1>3, <1>4 DEF CallStep

LEMMA KeptByLoops ==
    ASSUME KeptInv, TypeInv', NEW h \in Hooks, SyncStep(h)
    PROVE  KeptInv'
<1> USE DEF KeptInv, TypeInv, StampedSent, RemovedSent, Removing,
            ReturnedChangesKept
<1>1. CASE TimerFires(h)
  <2>1. \A g \in Hooks : sync'[g] = sync[g] \/ sync'[g].at = "read"
    BY <1>1, BeginType DEF TimerFires
  <2> QED
    BY <1>1, <2>1 DEF TimerFires, browser
<1>2. CASE ReadQueue(h)
  BY <1>2, ReadFacts DEF ReadQueue, browser
<1>3. CASE Send(h)
  <2>1. PICK i \in First(sync[h].todo), ok \in BOOLEAN :
            /\ Request(i, ok)
            /\ sync' = [sync EXCEPT
                 ![h].at = IF ok THEN "remove" ELSE "requeue", ![h].item = i]
    BY <1>3 DEF Send
  <2>2. i \in Changes
    BY DEF First, TypeOK, Loop
  <2>3. /\ sync'[h].item = i /\ (sync'[h].at = "remove" => ok)
        /\ \A g \in Hooks \ {h} : sync'[g] = sync[g]
    BY <2>1 DEF TypeOK, Loop
  <2>4. /\ \A j \in Changes : sent[j] > 0 => sent'[j] > 0
        /\ ok => sent'[i] > 0
    BY <2>1, <2>2, RequestFacts DEF TypeOK
  <2> QED
    BY <1>3, <2>3, <2>4 DEF Send, browser
<1>4. CASE Remove(h) \/ Requeue(h)
  <2>1. \A i \in Changes : i \in queue => i \in queue' \/ sent'[i] > 0
    BY <1>4, LoopEnds DEF Remove, Requeue
  <2> QED
    BY <1>4, <2>1, LoopEnds
<1> QED
  BY <1>1, <1>2, <1>3, <1>4 DEF SyncStep

LEMMA KeptByBrowser ==
    ASSUME KeptInv, TypeInv',
           \/ \E h \in Hooks : RetrySyncNow(h) \/ Mount(h) \/ Unmount(h) \/ Close(h)
           \/ GoOnline \/ GoOffline
    PROVE  KeptInv'
<1> USE DEF KeptInv, TypeInv, StampedSent, RemovedSent, Removing,
            ReturnedChangesKept
<1>1. CASE \E h \in Hooks : Close(h)
  <2>1. PICK h \in Hooks : Close(h)
    BY <1>1
  <2> QED
    BY <2>1, CloseFacts
<1>2. CASE ~ \E h \in Hooks : Close(h)
  BY <1>2, BrowserFacts
<1> QED
  BY <1>1, <1>2

LEMMA KeptStep ==
    ASSUME KeptInv, [Next]_vars
    PROVE  KeptInv'
<1>1. TypeInv'
  BY TypeStep DEF KeptInv
<1>2. CASE UNCHANGED vars
  BY <1>1, <1>2 DEF vars, KeptInv, StampedSent, RemovedSent, Removing,
                    ReturnedChangesKept
<1> QED
  BY <1>1, <1>2, KeptByCalls, KeptByLoops, KeptByBrowser DEF Next

\* A change whose call has returned is on the server or in the queue, for
\* any number of hook instances that send, fail, requeue and remove at once.
THEOREM ChangesKept == Spec => []ReturnedChangesKept
<1>1. Init => KeptInv
  BY TypeInit DEF Init, KeptInv, StampedSent, RemovedSent, Removing,
                  ReturnedChangesKept, Fresh, Stopped
<1>2. KeptInv => ReturnedChangesKept
  BY DEF KeptInv
<1> QED
  BY <1>1, <1>2, KeptStep, PTL DEF Spec

-----------------------------------------------------------------------------
(* CreatedOnce.                                                            *)

LEMMA OnceByCalls ==
    ASSUME OnceInv, TypeInv',
           \/ \E h \in Hooks, i \in Changes : Change(h, i)
           \/ \E i \in Changes : CallStep(i)
    PROVE  OnceInv'
<1> USE DEF OnceInv, TypeInv, SavesAreUpdates, StillOfItsCall, InOneLoop,
            SentIsRemoved, CreatedOnce, Single, Removing
<1>1. ASSUME NEW h \in Hooks, NEW i \in Changes, Change(h, i)
      PROVE  OnceInv'
  BY <1>1, ChangeFacts
<1>2. ASSUME NEW i \in Changes, SaveUpdate(i)
      PROVE  OnceInv'
  <2>1. /\ i.type = "update" /\ act'[i].at \in {"send", "enqueue"}
        /\ \A j \in Changes \ {i} : act'[j] = act[j]
        /\ queue' = queue /\ sent' = sent /\ sync' = sync /\ excused' = excused
    BY <1>2 DEF SaveUpdate, TypeOK, Act
  <2> QED
    BY <2>1
<1>3. ASSUME NEW i \in Changes, SendNow(i)
      PROVE  OnceInv'
  <2>1. PICK ok \in BOOLEAN : Request(i, ok)
                 /\ act' = [act EXCEPT ![i] =
                      IF ok /\ i.type # "create" THEN Done
                      ELSE [@ EXCEPT !.at = IF ok THEN "stamp" ELSE "enqueue"]]
    BY <1>3 DEF SendNow
  <2>2. /\ act[i].at = "send"
        /\ act'[i].at \in {"done", "stamp", "enqueue"}
        /\ act'[i].at = "enqueue" => ~ok
        /\ \A j \in Changes \ {i} : act'[j] = act[j]
        /\ queue' = queue /\ sync' = sync
    BY <1>3, <2>1, RecordTypes DEF SendNow, browser, TypeOK, Act
  <2>3. i \in Single' => /\ sent'[i] <= 1
                         /\ i \notin queue
                         /\ \A h \in Hooks : i \notin sync[h].todo
                         /\ ~ok => sent'[i] = 0
    BY <2>1, <2>2, RequestFacts DEF TypeOK
  <2>4. /\ excused \subseteq excused'
        /\ \A j \in Changes \ {i} : sent'[j] = sent[j]
    BY <2>1, RequestFacts
  <2>5. SavesAreUpdates' /\ InOneLoop'
    BY <2>2, <2>4
  <2>6. CreatedOnce'
    BY <2>2, <2>3, <2>4
  <2>7. StillOfItsCall'
    <3>1. ASSUME NEW j \in Single',
                 act'[j].at \in {"new", "send", "enqueue"}
          PROVE  /\ sent'[j] = 0
                 /\ j \notin queue'
                 /\ \A h \in Hooks : j \notin sync'[h].todo
      <4>1. CASE j = i
        BY <2>2, <2>3, <3>1, <4>1
      <4>2. CASE j # i
        BY <2>2, <2>4, <3>1, <4>2
      <4> QED
        BY <4>1, <4>2
    <3> QED
      BY <3>1
  <2>8. SentIsRemoved'
    BY <2>2, <2>3, <2>4
  <2> QED
    BY <2>5, <2>7, <2>8, <2>6
<1>4. ASSUME NEW i \in Changes, Stamp(i) \/ Enqueue(i)
      PROVE  OnceInv'
  <2>1. /\ act'[i].at = "done"
        /\ \A j \in Changes \ {i} : act'[j] = act[j]
        /\ sent' = sent /\ sync' = sync /\ excused' = excused
        /\ queue' = queue \/ (act[i].at = "enqueue" /\ queue' = queue \cup {i})
    BY <1>4, RecordTypes DEF Stamp, Enqueue, TypeOK
  <2>2. StillOfItsCall' /\ SavesAreUpdates' /\ InOneLoop' /\ CreatedOnce'
    BY <2>1
  <2>3. SentIsRemoved'
    BY <2>1 DEF TypeOK
  <2> QED
    BY <2>2, <2>3
<1> QED
  BY <1>1, <1>2, <1>3, <1>4 DEF CallStep

LEMMA OnceByLoops ==
    ASSUME OnceInv, TypeInv', NEW h \in Hooks, SyncStep(h)
    PROVE  OnceInv'
<1> USE DEF OnceInv, TypeInv, SavesAreUpdates, StillOfItsCall, InOneLoop,
            SentIsRemoved, CreatedOnce, Single, Removing
<1>1. CASE TimerFires(h)
  <2>1. /\ \A g \in Hooks : sync'[g].todo = sync[g].todo
        /\ \A g \in Hooks : sync[g].at # "idle" => sync'[g] = sync[g]
    BY <1>1, BeginType DEF TimerFires
  <2>2. /\ queue' = queue /\ sent' = sent /\ act' = act /\ excused' = excused
    BY <1>1 DEF TimerFires, browser
  <2> QED
    BY <2>1, <2>2
<1>2. CASE ReadQueue(h)
  <2>1. /\ sync[h].at = "read"
        /\ sync'[h].todo = queue
        /\ \A g \in Hooks \ {h} : sync'[g] = sync[g]
        /\ queue' = queue /\ sent' = sent /\ act' = act
        /\ excused' = excused \cup Shared(h)
    BY <1>2, ReadFacts DEF ReadQueue, browser
  <2>2. ASSUME NEW i \in queue, i \notin Shared(h)
        PROVE  \A g \in Hooks \ {h} : i \notin sync[g].todo
    BY <2>2 DEF Shared
  <2>3. SavesAreUpdates' /\ CreatedOnce' /\ StillOfItsCall'
    BY <2>1
  <2>4. InOneLoop'
    BY <2>1, <2>2
  <2>5. SentIsRemoved'
    <3>1. ASSUME NEW i \in Single', sent[i] > 0
          PROVE  i \notin queue
      <4>1. SUFFICES ASSUME i \in queue PROVE FALSE
        OBVIOUS
      <4>2. PICK g \in Hooks : Removing(g, i)
        BY <2>1, <3>1, <4>1
      <4>3. g # h /\ i \in sync[g].todo
        BY <2>1, <4>2 DEF LoopShape
      <4> QED
        BY <2>1, <2>2, <3>1, <4>1, <4>3
    <3> QED
      BY <2>1, <3>1
  <2> QED
    BY <2>3, <2>4, <2>5
<1>3. CASE Send(h)
  <2>1. PICK i \in First(sync[h].todo), ok \in BOOLEAN :
            /\ Request(i, ok)
            /\ sync' = [sync EXCEPT
                 ![h].at = IF ok THEN "remove" ELSE "requeue", ![h].item = i]
    BY <1>3 DEF Send
  <2>2. i \in sync[h].todo /\ i \in Changes /\ sync[h].at = "send"
    BY <1>3 DEF First, TypeOK, Loop, Send
  <2>3. /\ sync'[h].item = i /\ sync'[h].todo = sync[h].todo
        /\ ok => sync'[h].at = "remove"
        /\ \A g \in Hooks \ {h} : sync'[g] = sync[g]
        /\ queue' = queue /\ act' = act
    BY <1>3, <2>1 DEF TypeOK, Loop, Send, browser
  <2>4. /\ excused \subseteq excused'
        /\ \A j \in Changes \ {i} : sent'[j] = sent[j]
        /\ sent'[i] <= sent[i] + 1
        /\ ~ok => sent'[i] = sent[i] \/ i \in excused'
    BY <2>1, <2>2, RequestFacts
  <2>5. i \in Single => sent[i] = 0
    BY <2>2 DEF TypeOK
  <2>6. SavesAreUpdates' /\ InOneLoop' /\ CreatedOnce'
    BY <2>3, <2>4, <2>5
  <2>7. StillOfItsCall'
    BY <2>2, <2>3, <2>4
  <2>8. SentIsRemoved'
    <3>1. ASSUME NEW j \in Single', j # i, sent'[j] > 0
          PROVE  /\ \A g \in Hooks : j \in sync'[g].todo => Removing(g, j)'
                 /\ j \in queue' => \E g \in Hooks : Removing(g, j)'
      <4>1. j \in Single /\ sent[j] > 0
        BY <2>4, <3>1
      <4>2. \A g \in Hooks : Removing(g, j) => Removing(g, j)'
        BY <2>2, <2>3
      <4> QED
        BY <2>3, <4>1, <4>2
    <3>2. ASSUME i \in Single', sent'[i] > 0
          PROVE  /\ \A g \in Hooks : i \in sync'[g].todo => Removing(g, i)'
                 /\ i \in queue' => \E g \in Hooks : Removing(g, i)'
      <4>1. ok /\ i \in Single
        BY <2>4, <2>5, <3>2
      <4>2. Removing(h, i)'
        BY <2>3, <4>1
      <4>3. \A g \in Hooks : i \in sync'[g].todo => g = h
        BY <2>2, <2>3, <4>1
      <4> QED
        BY <4>2, <4>3
    <3> QED
      BY <3>1, <3>2
  <2> QED
    BY <2>6, <2>7, <2>8
<1>4. CASE Remove(h) \/ Requeue(h)
  <2>1. sync[h].item \in Changes /\ sync[h].item \in sync[h].todo
    BY <1>4, LoopEnds
  <2>2. /\ sync'[h].at \in {"idle", "send"}
        /\ sync'[h].todo = sync[h].todo \ {sync[h].item}
        /\ \A g \in Hooks \ {h} : sync'[g] = sync[g]
        /\ sent' = sent /\ act' = act /\ excused' = excused
    BY <1>4, LoopEnds
  <2>3. \/ sync[h].at = "remove" /\ queue' = queue \ {sync[h].item}
        \/ sync[h].at = "requeue" /\ queue' = queue \cup {sync[h].item}
    BY <1>4 DEF Remove, Requeue
  <2>4. SavesAreUpdates' /\ InOneLoop' /\ CreatedOnce' /\ StillOfItsCall'
    BY <2>1, <2>2, <2>3
  <2>5. SentIsRemoved'
    <3>1. ASSUME NEW j \in Single, sent[j] > 0
          PROVE  /\ \A g \in Hooks : j \in sync'[g].todo => Removing(g, j)'
                 /\ j \in queue' => \E g \in Hooks : Removing(g, j)'
      <4>1. \A g \in Hooks : j \in sync[g].todo => Removing(g, j)
        BY <3>1
      <4>2. j \notin sync'[h].todo
        BY <2>2, <4>1
      <4>3. ASSUME j \in queue' PROVE \E g \in Hooks : Removing(g, j)'
        <5>1. j \in queue /\ j # sync[h].item
          BY <2>1, <2>3, <4>1, <4>3
        <5>2. PICK g \in Hooks : Removing(g, j)
          BY <3>1, <5>1
        <5> QED
          BY <2>2, <5>1, <5>2
      <4> QED
        BY <2>2, <4>1, <4>2, <4>3
    <3> QED
      BY <2>2, <3>1
  <2> QED
    BY <2>4, <2>5
<1> QED
  BY <1>1, <1>2, <1>3, <1>4 DEF SyncStep

LEMMA OnceByBrowser ==
    ASSUME OnceInv, TypeInv',
           \/ \E h \in Hooks : RetrySyncNow(h) \/ Mount(h) \/ Unmount(h) \/ Close(h)
           \/ GoOnline \/ GoOffline
    PROVE  OnceInv'
<1> USE DEF OnceInv, TypeInv, SavesAreUpdates, StillOfItsCall, InOneLoop,
            SentIsRemoved, CreatedOnce, Single, Removing
<1>1. CASE \E h \in Hooks : Close(h)
  <2>1. PICK h \in Hooks : Close(h)
    BY <1>1
  <2>2. \A j \in Single' : j \in Single /\ sync[h].item # j
    BY <2>1, CloseFacts, ChangesAssumption
  <2> QED
    BY <2>1, <2>2, CloseFacts
<1>2. CASE ~ \E h \in Hooks : Close(h)
  BY <1>2, BrowserFacts
<1> QED
  BY <1>1, <1>2

LEMMA OnceStep ==
    ASSUME OnceInv, [Next]_vars
    PROVE  OnceInv'
<1>1. TypeInv'
  BY TypeStep DEF OnceInv
<1>2. CASE UNCHANGED vars
  BY <1>1, <1>2 DEF vars, OnceInv, SavesAreUpdates, StillOfItsCall, InOneLoop,
                    SentIsRemoved, CreatedOnce, Single, Removing
<1> QED
  BY <1>1, <1>2, OnceByCalls, OnceByLoops, OnceByBrowser DEF Next

\* A created task reaches the server a second time only after a lost answer,
\* a closed tab, or two loops that had it at once.
THEOREM CreatesOnce == Spec => []CreatedOnce
<1>1. Init => OnceInv
  BY TypeInit DEF Init, OnceInv, SavesAreUpdates, StillOfItsCall, InOneLoop,
                  SentIsRemoved, CreatedOnce, Single, Removing, Fresh, Stopped
<1>2. OnceInv => CreatedOnce
  BY DEF OnceInv
<1> QED
  BY <1>1, <1>2, OnceStep, PTL DEF Spec
=============================================================================
