--------------------------- MODULE TaskRepository ---------------------------
(***************************************************************************)
(* LevelDbTaskRepository: the task records and the index from a branch     *)
(* name to the one task that works on it.  Records and index are entries   *)
(* of one LevelDB, written by separate puts with an await between any two, *)
(* and no lock is held: calls of several requests overlap, and a put that  *)
(* fails or a service that dies leaves a call half done.  findByBranch     *)
(* repairs the index on its way, so it is a writer as well.                *)
(*                                                                         *)
(* A task is abstracted to its branch.  A call is one step per await.      *)
(***************************************************************************)
EXTENDS Naturals, FiniteSets

CONSTANTS
    Tasks,      \* task ids; each is created once, for ids are random
    Branches,   \* branch names, trimmed and not empty
    Calls,      \* slots for calls in flight
    NoTask,     \* no task, or a task that does not exist
    NoBranch,   \* a task without a branch
    Missing,    \* what is read of a task that does not exist
    Faults      \* whether puts fail and the service dies

ASSUME DistinctValues ==
    /\ NoTask \notin Tasks
    /\ NoBranch \notin Branches
    /\ Missing \notin Branches \cup {NoBranch}
    /\ Faults \in BOOLEAN

ASSUME FiniteTasks == IsFiniteSet(Tasks)

VARIABLES
    tasks,      \* tasks[t]: the branch of the record of t, or Missing
    index,      \* index[b]: the entry branch-index:b, or NoTask
    fresh,      \* the ids that have not been given out
    call,       \* call[c]: the call in slot c
    disturbed,  \* history: branches of overlapping or broken-off calls
    right       \* history: what a lookup in slot c may answer by now

store == <<tasks, index, fresh>>
vars == <<tasks, index, fresh, call, disturbed, right>>

MaybeTask == Tasks \cup {NoTask}
MaybeBranch == Branches \cup {NoBranch}

\* The await at which a call is.
Places == {"idle", "read", "check", "put", "unindex", "index",
           "lookup", "verify", "repair", "scan", "reindex", "answered"}

\* op, and the task and the branch it is called with; old: the branch of
\* the record it has read; found: the task a lookup has in hand; alone:
\* history, whether it has met no other call so far.
Call == [op: {"none", "create", "update", "delete", "find"},
         at: Places, task: MaybeTask, branch: MaybeBranch,
         old: MaybeBranch, found: MaybeTask, alone: BOOLEAN]

Idle == [op |-> "none", at |-> "idle", task |-> NoTask,
         branch |-> NoBranch, old |-> NoBranch, found |-> NoTask,
         alone |-> TRUE]

TypeOK ==
    /\ tasks \in [Tasks -> MaybeBranch \cup {Missing}]
    /\ index \in [Branches -> MaybeTask]
    /\ fresh \subseteq Tasks
    /\ call \in [Calls -> Call]
    /\ disturbed \subseteq Branches
    /\ right \in [Calls -> SUBSET MaybeTask]

Init ==
    /\ tasks = [t \in Tasks |-> Missing]
    /\ index = [b \in Branches |-> NoTask]
    /\ fresh = Tasks
    /\ call = [c \in Calls |-> Idle]
    /\ disturbed = {}
    /\ right = [c \in Calls |-> {}]

-----------------------------------------------------------------------------
(* History.  Two calls meet when they are in flight together and concern   *)
(* one task or one branch.  The branches they concern are disturbed then,  *)
(* unless both are lookups, and so are those of a call that is broken off. *)

Busy(c) == call[c].at \notin {"idle", "answered"}

\* The branches a call concerns, those of its task's record included.
Concerns(k) ==
    ({k.branch, k.old}
       \cup IF k.task \in Tasks THEN {tasks[k.task]} ELSE {}) \cap Branches

Meet(k, l) == \/ k.task = l.task /\ k.task # NoTask
              \/ Concerns(k) \cap Concerns(l) # {}

\* The calls in flight that a call k that is about to start meets.
Met(k) == {c \in Calls : Busy(c) /\ Meet(k, call[c])}

\* The branches that are disturbed by that.
Disturbs(k) ==
    UNION {Concerns(k) \cup Concerns(call[c]) :
             c \in {d \in Met(k) : k.op # "find" \/ call[d].op # "find"}}

Holders(b) == {t \in Tasks : tasks[t] = b}

\* The answers to a lookup of b that are true of the records ts.
Answers(ts, b) ==
    IF \E t \in Tasks : ts[t] = b THEN {t \in Tasks : ts[t] = b}
                                  ELSE {NoTask}

\* Every step adds what is true after it to what lookups may answer.
Witness ==
    right' = [c \in Calls |->
                CASE call'[c].op # "find" -> {}
                  [] call'[c].at = "lookup" /\ call[c].op # "find"
                       -> Answers(tasks', call'[c].branch)
                  [] OTHER -> IF call[c].at = "answered" THEN right[c]
                              ELSE right[c] \cup
                                     Answers(tasks', call'[c].branch)]

Start(c, k) ==
    /\ call[c].at = "idle"
    /\ call' = [d \in Calls |->
                  IF d = c THEN [k EXCEPT !.alone = Met(k) = {}]
                  ELSE [call[d] EXCEPT !.alone = @ /\ d \notin Met(k)]]
    /\ disturbed' = disturbed \cup Disturbs(k)
    /\ UNCHANGED <<tasks, index>>

Goto(c, place) == call' = [call EXCEPT ![c].at = place]
Return(c) == call' = [call EXCEPT ![c] = Idle]

-----------------------------------------------------------------------------
(* The calls begin.                                                        *)

Create(c, t, b) ==
    /\ t \in fresh
    /\ fresh' = fresh \ {t}
    /\ Start(c, [Idle EXCEPT !.op = "create", !.task = t, !.branch = b,
                             !.at = IF b = NoBranch THEN "put" ELSE "check"])

Update(c, t, b) ==
    /\ Start(c, [Idle EXCEPT !.op = "update", !.at = "read",
                             !.task = t, !.branch = b])
    /\ UNCHANGED fresh

Delete(c, t) ==
    /\ Start(c, [Idle EXCEPT !.op = "delete", !.at = "read", !.task = t])
    /\ UNCHANGED fresh

FindByBranch(c, b) ==
    /\ Start(c, [Idle EXCEPT !.op = "find", !.at = "lookup", !.branch = b])
    /\ UNCHANGED fresh

-----------------------------------------------------------------------------
(* The awaits of create, update and delete.                                *)

\* update and delete read the record first and end when there is none.
ReadExisting(c) ==
    LET k == call[c]
        old == tasks[k.task]
        next == IF k.op = "update" /\ k.branch \notin {NoBranch, old}
                THEN "check" ELSE "put"
    IN  /\ k.at = "read"
        /\ IF old = Missing
           THEN Return(c)
           ELSE call' = [call EXCEPT ![c].old = old, ![c].at = next]
        /\ UNCHANGED <<store, disturbed>>

\* Mutant: whatever the index says.
AssertNothing(c) ==
    /\ call[c].at = "check"
    /\ Goto(c, "put")
    /\ UNCHANGED <<store, disturbed>>

\* assertBranchAvailable: the index entry is absent or the task's own; a
\* get that fails counts as absent.
AssertBranchAvailable(c) ==
    LET k == call[c]
    IN  /\ k.at = "check"
        /\ \/ /\ IF index[k.branch] \in {NoTask, k.task} THEN Goto(c, "put")
                                                         ELSE Return(c)
              /\ UNCHANGED disturbed
           \/ /\ Faults
              /\ Goto(c, "put")
              /\ disturbed' = disturbed \cup {k.branch}
        /\ UNCHANGED store

\* Whether an index entry of the branch the task had is to be removed.
Leaves(k) == /\ k.old # NoBranch
             /\ k.op = "delete" \/ k.old # k.branch

\* Mutant: the entry of the branch that an update leaves is kept.
PutTaskOnly(c) ==
    LET k == call[c]
    IN  /\ k.at = "put"
        /\ tasks' = [tasks EXCEPT ![k.task] = IF k.op = "delete"
                                              THEN Missing ELSE k.branch]
        /\ IF k.branch # NoBranch THEN Goto(c, "index") ELSE Return(c)
        /\ UNCHANGED <<index, fresh, disturbed>>

\* db.put(id, task) of create and update, db.del(id) of delete.
PutTask(c) ==
    LET k == call[c]
    IN  /\ k.at = "put"
        /\ tasks' = [tasks EXCEPT ![k.task] = IF k.op = "delete"
                                              THEN Missing ELSE k.branch]
        /\ IF Leaves(k) THEN Goto(c, "unindex")
           ELSE IF k.branch # NoBranch THEN Goto(c, "index") ELSE Return(c)
        /\ UNCHANGED <<index, fresh, disturbed>>

\* removeBranchIndex: a failure of its del is ignored.
Unindex(c) ==
    LET k == call[c]
    IN  /\ k.at = "unindex"
        /\ \/ index' = [index EXCEPT ![k.old] = NoTask]
           \/ Faults /\ UNCHANGED index
        /\ IF k.branch # NoBranch THEN Goto(c, "index") ELSE Return(c)
        /\ disturbed' = disturbed \cup IF index'[k.old] = NoTask THEN {}
                                                                 ELSE {k.old}
        /\ UNCHANGED <<tasks, fresh>>

SetBranchIndex(c) ==
    LET k == call[c]
    IN  /\ k.at = "index"
        /\ index' = [index EXCEPT ![k.branch] = k.task]
        /\ Return(c)
        /\ UNCHANGED <<tasks, fresh, disturbed>>

-----------------------------------------------------------------------------
(* The awaits of findByBranch.                                             *)

\* A lookup that nothing disturbed leaves the index of its branch right,
\* whatever it was before, unless two tasks have the branch by now.
Answer(c, t) ==
    LET b == call[c].branch
    IN  /\ call' = [call EXCEPT ![c].at = "answered", ![c].found = t]
        /\ disturbed' = disturbed \ IF call[c].alone
                                       /\ Cardinality(Holders(b)) <= 1
                                    THEN {b} ELSE {}

\* A get that fails counts as an entry that is absent; the scan repairs
\* the index then only if it finds a task.
LookupIndex(c) ==
    LET k == call[c]
        Read(t, ok) == [k EXCEPT !.found = t, !.alone = @ /\ ok,
                                 !.at = IF t = NoTask THEN "scan" ELSE "verify"]
    IN  /\ k.at = "lookup"
        /\ \/ call' = [call EXCEPT ![c] = Read(index[k.branch], TRUE)]
           \/ Faults /\ call' = [call EXCEPT ![c] = Read(NoTask, FALSE)]
        /\ UNCHANGED <<store, disturbed>>

\* Mutant: the index is believed.
BelieveIndex(c) ==
    /\ call[c].at = "verify"
    /\ Answer(c, call[c].found)
    /\ UNCHANGED store

\* The indexed task is answered only if its record has the branch; a get
\* that fails counts as a task that is not there.
VerifyIndexed(c) ==
    LET k == call[c]
    IN  /\ k.at = "verify"
        /\ \/ tasks[k.found] = k.branch /\ Answer(c, k.found)
           \/ /\ tasks[k.found] # k.branch \/ Faults
              /\ Goto(c, "repair")
              /\ UNCHANGED disturbed
        /\ UNCHANGED store

RemoveStale(c) ==
    LET k == call[c]
    IN  /\ k.at = "repair"
        /\ \/ /\ index' = [index EXCEPT ![k.branch] = NoTask]
              /\ Goto(c, "scan")
           \/ /\ Faults
              /\ call' = [call EXCEPT ![c].at = "scan", ![c].alone = FALSE]
              /\ UNCHANGED index
        /\ UNCHANGED <<tasks, fresh, disturbed>>

\* findAll iterates over a snapshot; the first match in key order counts.
ScanTasks(c) ==
    LET k == call[c]
    IN  /\ k.at = "scan"
        /\ IF Holders(k.branch) = {}
           THEN Answer(c, NoTask)
           ELSE /\ \E t \in Holders(k.branch) :
                     call' = [call EXCEPT ![c].found = t, ![c].at = "reindex"]
                /\ UNCHANGED disturbed
        /\ UNCHANGED store

Reindex(c) ==
    LET k == call[c]
    IN  /\ k.at = "reindex"
        /\ index' = [index EXCEPT ![k.branch] = k.found]
        /\ Answer(c, k.found)
        /\ UNCHANGED <<tasks, fresh>>

Forget(c) ==
    /\ call[c].at = "answered"
    /\ Return(c)
    /\ UNCHANGED <<store, disturbed>>

-----------------------------------------------------------------------------
(* Faults.                                                                 *)

\* What a call that ends here leaves half done: an index that lags behind
\* the record, or one that a lookup has emptied and not filled again.
HalfDone(k) ==
    IF k.at \in {"unindex", "index", "scan", "reindex"} THEN Concerns(k)
                                                       ELSE {}

\* A put or the scan rejects: the caller is told, what was written stays.
Fail(c) ==
    /\ Faults /\ Busy(c)
    /\ disturbed' = disturbed \cup HalfDone(call[c])
    /\ Return(c)
    /\ UNCHANGED store

\* The service dies with every call in flight; LevelDB keeps what is put.
Crash ==
    /\ Faults /\ \E c \in Calls : Busy(c)
    /\ disturbed' = disturbed \cup
                      UNION {HalfDone(call[c]) : c \in Calls}
    /\ call' = [c \in Calls |-> Idle]
    /\ UNCHANGED store

-----------------------------------------------------------------------------
Begin(c) ==
    \/ \E t \in Tasks, b \in MaybeBranch : Create(c, t, b) \/ Update(c, t, b)
    \/ \E t \in Tasks : Delete(c, t)
    \/ \E b \in Branches : FindByBranch(c, b)

Await(c) ==
    \/ ReadExisting(c) \/ AssertBranchAvailable(c) \/ PutTask(c)
    \/ Unindex(c) \/ SetBranchIndex(c)
    \/ LookupIndex(c) \/ VerifyIndexed(c) \/ RemoveStale(c)
    \/ ScanTasks(c) \/ Reindex(c) \/ Forget(c)

Next ==
    /\ \/ \E c \in Calls : Begin(c) \/ Await(c) \/ Fail(c)
       \/ Crash
    /\ Witness

Spec == Init /\ [][Next]_vars

-----------------------------------------------------------------------------
(* Properties.                                                             *)

\* A lookup answers a task that worked on the branch at some moment of the
\* call, and says that nobody does only if at some moment nobody did: the
\* index may be missing, stale or another's, after crashes, failed puts and
\* overlapping writes (findByBranch).
LookupsAnswerRight ==
    \A c \in Calls : call[c].at = "answered" => call[c].found \in right[c]

\* Two tasks get one branch only after calls that concern the branch have
\* overlapped, a repairing lookup counted as a writer, or one was broken
\* off (assertBranchAvailable, create, update, delete, findByBranch).
OneTaskPerBranch ==
    \A b \in Branches \ disturbed : Cardinality(Holders(b)) <= 1

\* A branch that no task works on is not refused to another task for ever
\* by an entry that was left behind, unless calls overlapped or broke off.
FreeBranchesAvailable ==
    \A b \in Branches \ disturbed :
        (\A c \in Calls : Busy(c) => b \notin Concerns(call[c]))
          => index[b] = NoTask \/ tasks[index[b]] = b
=============================================================================
