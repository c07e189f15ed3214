--------------------------- MODULE ContextService ---------------------------
(***************************************************************************)
(* The context service: records by id in LevelDB that workers, agents and  *)
(* the dashboard create, patch, replace, delete and look up by file.  A    *)
(* call reads its record, and puts the whole of it one or two awaits       *)
(* later; nothing is locked.  A record that is missing is deleted by       *)
(* whoever reads it: get answers undefined, which readRecord takes for a   *)
(* corrupt record.                                                         *)
(*                                                                         *)
(* A record is abstracted to the file paths it stands for, the date of its *)
(* last write, and the marks that calls have left in it, each with the     *)
(* number of lookups that would forget it.  A lookup rebuilds fileContext  *)
(* from the fields it knows: it keeps the Recent last observations, with   *)
(* its own, and none of the other fields that a patch has set there.  So   *)
(* an observation goes with the lookup that is Recent after its own, a     *)
(* field that the service does not know goes from fileContext with the     *)
(* next one, and lookups leave alone what is outside of fileContext.       *)
(***************************************************************************)
EXTENDS Integers, FiniteSets

CONSTANTS
    Ids,        \* record ids, numbered in the order of their keys
    Paths,      \* file paths
    Marks,      \* what calls leave in a record
    Calls,      \* slots for calls in flight
    NoPath,     \* of a call that concerns no file
    NoMark,     \* of a call that leaves no mark
    NoRecord,   \* what is read of a record that is missing
    Recent,     \* how many observations a record keeps: 100 in the code
    MaxTime,    \* bound: milliseconds that pass
    Faults      \* whether database calls fail and the service dies

NoId == -1

ASSUME StoreAssumption ==
    /\ Ids \subseteq Nat
    /\ NoPath \notin Paths /\ NoMark \notin Marks
    /\ MaxTime \in Nat /\ Recent \in Nat \ {0} /\ Faults \in BOOLEAN

\* A mark's life: the lookups until it is forgotten, 0 if it is not there;
\* what no lookup forgets is Lasting.
Lasting == Recent + 1
Lives == [Marks -> 0..Lasting]
NoMarks == [m \in Marks |-> 0]

Record == [paths: SUBSET Paths, marks: Lives, at: 0..MaxTime]

ASSUME RecordAssumption == NoRecord \notin Record

VARIABLES
    db,         \* db[r]: the record of r, or NoRecord
    now,        \* Date.now() of the service
    fresh,      \* random ids that have not been given out
    call,       \* call[c]: the call in slot c
    kept,       \* history: the least life that marks must have in record r
    settled     \* history: the record that lookups of p must answer

vars == <<db, now, fresh, call, kept, settled>>

\* id: the record the call concerns, once it is known; life: that of its mark;
\* snap: the record it has read; since: when it first could have computed the
\* date it writes; alone: history, whether no other writer of its record has
\* overlapped.
Call == [op: {"none", "create", "get", "update", "replace", "lookup"},
         at: {"idle", "list", "read", "purge", "put"},
         id: Ids \cup {NoId}, path: Paths \cup {NoPath},
         mark: Marks \cup {NoMark}, life: 1..Lasting,
         snap: Record \cup {NoRecord}, since: 0..MaxTime, alone: BOOLEAN]

Idle == [op |-> "none", at |-> "idle", id |-> NoId, path |-> NoPath,
         mark |-> NoMark, life |-> Lasting, snap |-> NoRecord, since |-> 0,
         alone |-> TRUE]

TypeOK ==
    /\ db \in [Ids -> Record \cup {NoRecord}]
    /\ now \in 0..MaxTime
    /\ fresh \subseteq Ids
    /\ call \in [Calls -> Call]
    /\ kept \in [Ids -> Lives]
    /\ settled \in [Paths -> Ids \cup {NoId}]

Init ==
    /\ db = [r \in Ids |-> NoRecord]
    /\ now = 0
    /\ fresh = Ids
    /\ call = [c \in Calls |-> Idle]
    /\ kept = [r \in Ids |-> NoMarks]
    /\ settled = [p \in Paths |-> NoId]

-----------------------------------------------------------------------------
(* Which calls overlap.  A call writes its record from the moment it is    *)
(* known, a mere read only when it is about to delete what is missing.     *)

Writing(c, r) ==
    /\ call[c].id = r
    /\ \/ call[c].at \in {"read", "put"} /\ call[c].op # "get"
       \/ call[c].at = "purge"

\* The calls after c goes on as k, which writes the record k.id from now on.
Joins(c, k) ==
    LET others == {d \in Calls \ {c} : Writing(d, k.id)}
    IN  [d \in Calls |->
           IF d = c THEN [k EXCEPT !.alone = @ /\ others = {}]
           ELSE [call[d] EXCEPT !.alone = @ /\ d \notin others]]

\* A mark stands for one call, and is used again when nothing remembers it;
\* the writes of a call without a mark are not followed.
MarksOf(rec) == IF rec = NoRecord THEN NoMarks ELSE rec.marks
Unused(m) ==
    m \in Marks => /\ \A r \in Ids : kept[r][m] = 0 /\ MarksOf(db[r])[m] = 0
                  /\ \A c \in Calls : /\ m # call[c].mark
                                       /\ MarksOf(call[c].snap)[m] = 0

\* The marks of a caller's data: in fields outside of fileContext, or in one
\* inside that the service does not know.
DataLives(m) == IF m = NoMark THEN {Lasting} ELSE {Lasting, 1}

-----------------------------------------------------------------------------
(* The calls begin.                                                        *)

\* createContext: with an id of the caller's, or with a random one.
CreateContext(c, r, m, n) ==
    /\ call[c].at = "idle" /\ Unused(m)
    /\ fresh' = fresh \ {r}
    /\ call' = Joins(c, [Idle EXCEPT !.op = "create", !.at = "read",
                                     !.id = r, !.mark = m, !.life = n])
    /\ UNCHANGED <<db, now, kept, settled>>

GetContext(c, r) ==
    /\ call[c].at = "idle"
    /\ call' = [call EXCEPT ![c] = [Idle EXCEPT !.op = "get", !.at = "read",
                                                !.id = r]]
    /\ UNCHANGED <<db, now, fresh, kept, settled>>

\* updateContext and replaceContext
PatchContext(c, op, r, m, n) ==
    /\ call[c].at = "idle" /\ Unused(m)
    /\ call' = Joins(c, [Idle EXCEPT !.op = op, !.at = "read",
                                     !.id = r, !.mark = m, !.life = n])
    /\ UNCHANGED <<db, now, fresh, kept, settled>>

\* getOrCreateFileContext, with a contextId of the caller's or without.
FileLookup(c, p, m) ==
    LET k == [Idle EXCEPT !.op = "lookup", !.path = p, !.mark = m,
                          !.life = Recent]
    IN  /\ call[c].at = "idle" /\ Unused(m)
        /\ \/ call' = [call EXCEPT ![c] = [k EXCEPT !.at = "list"]]
           \/ \E r \in Ids \ fresh :
                call' = Joins(c, [k EXCEPT !.at = "read", !.id = r])
        /\ UNCHANGED <<db, now, fresh, kept, settled>>

\* deleteContext: one del.
DeleteContext(r) ==
    /\ db[r] # NoRecord
    /\ db' = [db EXCEPT ![r] = NoRecord]
    /\ kept' = [kept EXCEPT ![r] = NoMarks]
    /\ settled' = [p \in Paths |-> IF settled[p] = r THEN NoId ELSE settled[p]]
    /\ UNCHANGED <<now, fresh, call>>

-----------------------------------------------------------------------------
(* The awaits.                                                             *)

Matching(p) == {r \in Ids : db[r] # NoRecord /\ p \in db[r].paths}

\* Mutant: the record that was not written for longest.
OldestMatch(p, r) ==
    /\ r \in Matching(p)
    /\ \A s \in Matching(p) : db[r].at < db[s].at \/ (db[r].at = db[s].at /\ r <= s)

\* recordMatchesFilePath and the sort by updatedAt, which is stable.
IsMatch(p, r) ==
    /\ r \in Matching(p)
    /\ \A s \in Matching(p) : db[r].at > db[s].at \/ (db[r].at = db[s].at /\ r <= s)

\* findFileContextByPath: a snapshot of all records, and the id of a record
\* that is to be created when none of them matches.
List(c) ==
    LET k == call[c]
    IN  /\ k.at = "list"
        /\ \/ \E r \in Ids :
                /\ IsMatch(k.path, r)
                /\ call' = Joins(c, [k EXCEPT !.at = "put", !.id = r,
                                              !.snap = db[r], !.since = now])
                /\ UNCHANGED fresh
           \/ /\ Matching(k.path) = {}
              /\ \E r \in fresh :
                   /\ fresh' = fresh \ {r}
                   /\ call' = Joins(c, [k EXCEPT !.at = "read", !.id = r])
        /\ UNCHANGED <<db, now, kept, settled>>

\* readRecord, up to the del of a missing one.
ReadRecord(c) ==
    LET k == call[c]
    IN  /\ k.at = "read"
        /\ IF db[k.id] = NoRecord
           THEN call' = Joins(c, [k EXCEPT !.at = "purge"])
           ELSE call' = [call EXCEPT ![c] =
                           IF k.op \in {"create", "get"} THEN Idle
                           ELSE [k EXCEPT !.at = "put", !.snap = db[k.id],
                                          !.since = now]]
        /\ UNCHANGED <<db, now, fresh, kept, settled>>

\* The del in readRecord, whose failure is ignored; then a create or a
\* lookup goes on with no record, and the others end.
Purge(c) ==
    LET k == call[c]
    IN  /\ k.at = "purge"
        /\ \/ /\ db' = [db EXCEPT ![k.id] = NoRecord]
              /\ settled' = [p \in Paths |-> IF settled[p] = k.id THEN NoId
                                                             ELSE settled[p]]
           \/ Faults /\ UNCHANGED <<db, settled>>
        /\ call' = [call EXCEPT ![c] =
                      IF k.op \in {"create", "lookup"}
                      THEN [k EXCEPT !.at = "put", !.since = now] ELSE Idle]
        /\ UNCHANGED <<now, fresh, kept>>

PathsBefore(k) == IF k.snap = NoRecord THEN {} ELSE k.snap.paths

\* What a lookup leaves of a mark: clampRecent, and the fields of the new
\* fileContext.
Aged(n) == IF n = Lasting \/ n = 0 THEN n ELSE n - 1

\* mergeContextData of update, mergeFileContextData of lookup, and the new
\* data of create, which has read no record, and of replace.
PathsAfter(k) ==
    CASE k.op = "lookup" -> PathsBefore(k) \cup {k.path}
      [] k.op = "update" -> PathsBefore(k)
      [] k.op \in {"create", "replace"} -> {}

LifeAfter(k, m) ==
    IF m = k.mark THEN k.life
    ELSE CASE k.op = "lookup" -> Aged(MarksOf(k.snap)[m])
           [] k.op \in {"create", "update"} -> MarksOf(k.snap)[m]
           [] k.op = "replace" -> 0

\* Mutant: a patch takes the place of the data.
WrittenForgetting(k, date) ==
    [paths |-> PathsAfter(k),
     marks |-> [m \in Marks |-> IF m = k.mark THEN k.life ELSE 0], at |-> date]

Written(k, date) ==
    [paths |-> PathsAfter(k),
     marks |-> [m \in Marks |-> LifeAfter(k, m)], at |-> date]

\* History.  A record must hold the mark of a call that was alone for as many
\* lookups as that mark lives, whatever else is written to the record, unless
\* a replace takes its place.
Owed(k, m) ==
    IF m = k.mark THEN IF k.alone THEN k.life ELSE 0
    ELSE IF k.op = "replace" THEN 0
    ELSE IF k.op = "lookup" /\ kept[k.id][m] \in 1..Recent
    THEN kept[k.id][m] - 1 ELSE kept[k.id][m]

\* History.  A lookup of p that overlaps nothing settles p, on its record;
\* so does a write of that record.  A write of another record of p, or one
\* that overlaps another, may change what lookups answer.
Settles(p, k, rec) ==
    IF k.op = "lookup" /\ k.path = p /\ k.alone
         /\ (IsMatch(p, k.id) \/ Matching(p) = {})
    THEN k.id
    ELSE IF settled[p] = k.id
    THEN IF k.alone /\ p \in rec.paths THEN k.id ELSE NoId
    ELSE IF p \in rec.paths THEN NoId ELSE settled[p]

\* repository.put
Put(c) ==
    LET k == call[c]
    IN  /\ k.at = "put"
        /\ \E date \in k.since..now :
             LET rec == Written(k, date)
             IN  /\ db' = [db EXCEPT ![k.id] = rec]
                 /\ settled' = [p \in Paths |-> Settles(p, k, rec)]
        /\ kept' = [kept EXCEPT ![k.id] = [m \in Marks |-> Owed(k, m)]]
        /\ call' = [call EXCEPT ![c] = Idle]
        /\ UNCHANGED <<now, fresh>>

-----------------------------------------------------------------------------
(* Time and faults.                                                        *)

Tick == /\ now < MaxTime /\ now' = now + 1
        /\ UNCHANGED <<db, fresh, call, kept, settled>>

\* A database call rejects: the caller is told.
Fail(c) ==
    /\ Faults /\ call[c].at # "idle"
    /\ call' = [call EXCEPT ![c] = Idle]
    /\ UNCHANGED <<db, now, fresh, kept, settled>>

\* The service dies with every call in flight.
Crash ==
    /\ Faults /\ \E c \in Calls : call[c].at # "idle"
    /\ call' = [c \in Calls |-> Idle]
    /\ UNCHANGED <<db, now, fresh, kept, settled>>

-----------------------------------------------------------------------------
Begin(c) ==
    \/ \E r \in Ids, m \in Marks \cup {NoMark} : \E n \in DataLives(m) :
         \/ CreateContext(c, r, m, n)
         \/ PatchContext(c, "update", r, m, n)
         \/ PatchContext(c, "replace", r, m, n)
    \/ \E r \in Ids : GetContext(c, r)
    \/ \E p \in Paths, m \in Marks \cup {NoMark} : FileLookup(c, p, m)

Await(c) == List(c) \/ ReadRecord(c) \/ Purge(c) \/ Put(c)

Next ==
    \/ \E c \in Calls : Begin(c) \/ Await(c) \/ Fail(c)
    \/ \E r \in Ids : DeleteContext(r)
    \/ Tick
    \/ Crash

Spec == Init /\ [][Next]_vars

-----------------------------------------------------------------------------
(* Properties.                                                             *)

\* What a call has written stays until the record is replaced or deleted by
\* a call of that name, or lookups have forgotten it: the Recent next ones an
\* observation, the next one a field of fileContext that the service does not
\* know, none of them any other field.  That is so unless another writer of
\* the record overlapped the call, a read of the missing record counted as
\* one (updateContext, getOrCreateFileContext, readRecord).
UpdatesKept ==
    \A r \in Ids, m \in Marks : kept[r][m] > 0 => MarksOf(db[r])[m] > 0

\* Once a lookup of a file overlaps nothing, later ones find the record it
\* answered, though there be several for the file and dates be equal, until
\* another of them is written (findFileContextByPath).
LookupsSettle ==
    [][\A c \in Calls :
         LET p == call[c].path
         IN  call[c].at = "list" /\ call'[c].op = "lookup" /\ settled[p] # NoId
               => call'[c].at = "list" \/ call'[c].id = settled[p]]_vars
=============================================================================
