------------------------ MODULE ContextServiceProofs ------------------------
(***************************************************************************)
(* Proofs about ContextService, for any number of records, files and       *)
(* calls, with and without faults.                                         *)
(*                                                                         *)
(* KeptInv carries UpdatesKept.  Its core is that of two calls that write  *)
(* one record at once neither is alone, so that no mark is owed a longer   *)
(* life between the read of a call and its put, that a lookup shortens     *)
(* what is owed as it shortens what it has read, and that a call that is   *)
(* about to delete what it found missing deletes nothing that anybody      *)
(* relies on.                                                              *)
(*                                                                         *)
(* SettleInv, on top of it, carries LookupsSettle: the record a lookup has *)
(* settled on is the youngest of its file.  A call that is alone has read  *)
(* what it overwrites, so that it makes no record older.                   *)
(***************************************************************************)
EXTENDS ContextService, TLAPS

\* What a call in flight has in hand.
Shaped(k) ==
    /\ k.at \in {"read", "purge", "put"} => k.id \in Ids
    /\ k.at = "list" => k.op = "lookup"
    /\ k.at = "read" => k.op # "none"
    /\ k.at = "put" => k.op \in {"create", "update", "replace", "lookup"}
    /\ k.op = "lookup" => k.path \in Paths

CallShape == \A c \in Calls : Shaped(call[c])

TypeInv == TypeOK /\ CallShape

\* Of two writers of one record at once, neither is alone.
AloneMeansAlone ==
    \A c, d \in Calls : \A r \in Ids :
        c # d /\ Writing(c, r) /\ Writing(d, r) => ~call[c].alone

\* Marks that live as long in f as in g, or longer in g.
Within(f, g) == \A m \in Marks : f[m] <= g[m]

\* A call that is about to write knows all that the record must hold.
WritersKnow ==
    \A c \in Calls :
        call[c].at = "put" /\ call[c].op # "replace"
          => Within(kept[call[c].id], MarksOf(call[c].snap))

PurgedIsEmpty ==
    \A c \in Calls : call[c].at = "purge" => Within(kept[call[c].id], NoMarks)

\* A record holds its marks for as long as it must.
KeptHeld == \A r \in Ids : Within(kept[r], MarksOf(db[r]))

KeptInv ==
    /\ TypeInv
    /\ AloneMeansAlone
    /\ WritersKnow
    /\ PurgedIsEmpty
    /\ KeptHeld

\* No record bears a date that is still to come.
DatedBefore == \A r \in Ids : db[r] # NoRecord => db[r].at <= now

\* What a call has in hand to write: nothing before it reads, then a record that
\* is no younger than the dates it may write.
Ready(k) ==
    /\ k.at \in {"list", "read", "purge"} => k.snap = NoRecord
    /\ k.at = "put" => k.since <= now /\ (k.snap # NoRecord => k.snap.at <= k.since)

InHand == \A c \in Calls : Ready(call[c])

\* Nobody has changed the record of a call that is alone; it may have been deleted.
ReadLast(k) ==
    k.alone /\ k.at \in {"purge", "put"} => db[k.id] \in {NoRecord, k.snap}

AloneReadsLast == \A c \in Calls : ReadLast(call[c])

\* The record on which lookups have settled is the one they find.
SettledIsFound ==
    \A p \in Paths : settled[p] # NoId => settled[p] \in Ids /\ IsMatch(p, settled[p])

SettleInv ==
    /\ KeptInv
    /\ DatedBefore
    /\ InHand
    /\ AloneReadsLast
    /\ SettledIsFound

-----------------------------------------------------------------------------
(* Types.                                                                  *)

LEMMA LifeTypes ==
    /\ Lasting \in 1..Lasting /\ 1 \in 1..Lasting /\ Recent \in 1..Lasting
    /\ NoMarks \in Lives
    /\ \A m \in Marks : NoMarks[m] = 0
    /\ \A m : DataLives(m) \subseteq 1..Lasting
BY StoreAssumption DEF Lasting, NoMarks, Lives, DataLives

LEMMA IdleType ==
    /\ Idle \in Call /\ Shaped(Idle)
    /\ Idle.at = "idle" /\ Idle.op = "none" /\ Idle.alone = TRUE
BY StoreAssumption, LifeTypes DEF Idle, Call, Shaped

LEMMA MarksType ==
    ASSUME NEW rec \in Record \cup {NoRecord}
    PROVE  MarksOf(rec) \in Lives
BY LifeTypes, RecordAssumption DEF MarksOf, Record

LEMMA OneCallType ==
    ASSUME TypeInv, NEW c \in Calls, NEW k \in Call, Shaped(k),
           call' = [call EXCEPT ![c] = k]
    PROVE  call' \in [Calls -> Call] /\ CallShape'
BY DEF TypeInv, TypeOK, CallShape

\* The calls after c has gone on as k.
LEMMA JoinsFacts ==
    ASSUME TypeInv, NEW c \in Calls, NEW k \in Call, Shaped(k),
           call' = Joins(c, k)
    PROVE  /\ call' \in [Calls -> Call] /\ CallShape'
           /\ call'[c].alone =>
                k.alone /\ \A d \in Calls \ {c} : ~Writing(d, k.id)
           /\ call'[c] = [k EXCEPT !.alone = call'[c].alone]
           /\ \A d \in Calls \ {c} :
                /\ call'[d] = [call[d] EXCEPT !.alone = call'[d].alone]
                /\ call'[d].alone => call[d].alone /\ ~Writing(d, k.id)
<1> DEFINE others == {d \in Calls \ {c} : Writing(d, k.id)}
<1>1. call' = [d \in Calls |->
                 IF d = c THEN [k EXCEPT !.alone = @ /\ others = {}]
                 ELSE [call[d] EXCEPT !.alone = @ /\ d \notin others]]
  BY DEF Joins
<1>2. ASSUME NEW l \in Call, Shaped(l), NEW b \in BOOLEAN
      PROVE  /\ [l EXCEPT !.alone = b] \in Call
             /\ Shaped([l EXCEPT !.alone = b])
             /\ [l EXCEPT !.alone = b].alone = b
  BY <1>2 DEF Call, Shaped
<1>3. call'[c] = [k EXCEPT !.alone = k.alone /\ others = {}]
  BY <1>1
<1>4. \A d \in Calls \ {c} :
        call'[d] = [call[d] EXCEPT !.alone = call[d].alone /\ d \notin others]
  BY <1>1
<1>5. /\ call'[c] \in Call /\ Shaped(call'[c])
      /\ call'[c].alone = (k.alone /\ others = {})
  <2>1. (k.alone /\ others = {}) \in BOOLEAN
    OBVIOUS
  <2> QED
    BY <1>2, <1>3, <2>1
<1>6. ASSUME NEW d \in Calls \ {c}
      PROVE  /\ call'[d] \in Call /\ Shaped(call'[d])
             /\ call'[d].alone = (call[d].alone /\ d \notin others)
  <2>1. (call[d].alone /\ d \notin others) \in BOOLEAN
    OBVIOUS
  <2>2. call[d] \in Call /\ Shaped(call[d])
    BY DEF TypeInv, TypeOK, CallShape
  <2> QED
    BY <1>2, <1>4, <2>1, <2>2, ZenonT(40)
<1>7. call' = [d \in Calls |-> call'[d]]
  BY <1>1
<1>8. call' \in [Calls -> Call] /\ CallShape'
  BY <1>5, <1>6, <1>7 DEF CallShape
<1>9. /\ call'[c] = [k EXCEPT !.alone = call'[c].alone]
      /\ \A d \in Calls \ {c} : call'[d] = [call[d] EXCEPT !.alone = call'[d].alone]
  BY <1>3, <1>4, <1>5, <1>6
<1> QED
  BY <1>5, <1>6, <1>8, <1>9

LEMMA WrittenType ==
    ASSUME TypeInv, NEW c \in Calls, call[c].at = "put",
           NEW date \in call[c].since..now
    PROVE  Written(call[c], date) \in Record
<1>1. call[c] \in Call /\ Shaped(call[c])
  BY DEF TypeInv, TypeOK, CallShape
<1>2. date \in 0..MaxTime
  BY <1>1, StoreAssumption DEF Call, TypeInv, TypeOK
<1>3. PathsBefore(call[c]) \subseteq Paths
  BY <1>1 DEF Call, Record, PathsBefore
<1>4. MarksOf(call[c].snap) \in Lives /\ call[c].life \in 0..Lasting
  BY <1>1, MarksType, StoreAssumption DEF Call, Lasting
<1>5. call[c].op \in {"create", "update", "replace", "lookup"}
  BY <1>1 DEF Shaped
<1>6. call[c].op = "lookup" => call[c].path \in Paths
  BY <1>1 DEF Shaped
<1>7. ASSUME NEW m \in Marks
      PROVE  LifeAfter(call[c], m) \in 0..Lasting
  <2>1. MarksOf(call[c].snap)[m] \in 0..Lasting /\ 0 \in 0..Lasting
    BY <1>4, StoreAssumption DEF Lives, Lasting
  <2>2. Aged(MarksOf(call[c].snap)[m]) \in 0..Lasting
    BY <2>1, StoreAssumption DEF Aged, Lasting
  <2> QED
    BY <1>4, <1>5, <2>1, <2>2 DEF LifeAfter
<1>8. PathsAfter(call[c]) \in SUBSET Paths
  BY <1>3, <1>5, <1>6 DEF PathsAfter
<1> QED
  BY <1>2, <1>7, <1>8 DEF Written, Record, Lives

LEMMA SettlesType ==
    ASSUME TypeInv, NEW c \in Calls, call[c].at = "put", NEW p \in Paths,
           NEW rec \in Record
    PROVE  Settles(p, call[c], rec) \in Ids \cup {NoId}
BY DEF Settles, TypeInv, TypeOK, CallShape, Shaped

\* How a call begins: as a writer of a record, or with nothing written yet.
LEMMA BeginFacts ==
    ASSUME TypeInv, NEW c \in Calls, Begin(c)
    PROVE  /\ db' = db /\ now' = now /\ kept' = kept /\ settled' = settled
           /\ fresh' \subseteq fresh
           /\ \E k \in Call :
                /\ Shaped(k) /\ k.at \in {"read", "list"} /\ k.snap = NoRecord
                /\ \/ call' = Joins(c, k) /\ k.at = "read"
                   \/ /\ call' = [call EXCEPT ![c] = k]
                      /\ k.at = "list" \/ k.op = "get"
<1>1. ASSUME NEW r \in Ids, NEW m \in Marks \cup {NoMark}, NEW n \in 1..Lasting,
             NEW op \in {"create", "update", "replace"}
      PROVE  LET k == [Idle EXCEPT !.op = op, !.at = "read", !.id = r, !.mark = m,
                                   !.life = n]
             IN  k \in Call /\ Shaped(k) /\ k.at = "read" /\ k.snap = NoRecord
  BY <1>1, IdleType DEF Call, Shaped, Idle
<1>2. ASSUME NEW r \in Ids, NEW m \in Marks \cup {NoMark}, NEW n \in 1..Lasting,
             CreateContext(c, r, m, n)
      PROVE  /\ UNCHANGED <<db, now, kept, settled>> /\ fresh' \subseteq fresh
             /\ \E k \in Call : /\ Shaped(k) /\ k.at = "read" /\ k.snap = NoRecord
                               /\ call' = Joins(c, k)
  <2> DEFINE k == [Idle EXCEPT !.op = "create", !.at = "read", !.id = r,
                               !.mark = m, !.life = n]
  <2>1. k \in Call /\ Shaped(k) /\ k.at = "read" /\ k.snap = NoRecord
    BY <1>1
  <2>2. /\ UNCHANGED <<db, now, kept, settled>> /\ fresh' \subseteq fresh
        /\ call' = Joins(c, k)
    BY <1>2 DEF CreateContext
  <2> HIDE DEF k
  <2> QED
    BY <2>1, <2>2
<1>3. ASSUME NEW r \in Ids, NEW m \in Marks \cup {NoMark}, NEW n \in 1..Lasting,
             NEW op \in {"update", "replace"}, PatchContext(c, op, r, m, n)
      PROVE  /\ UNCHANGED <<db, now, kept, settled>> /\ fresh' \subseteq fresh
             /\ \E k \in Call : /\ Shaped(k) /\ k.at = "read" /\ k.snap = NoRecord
                               /\ call' = Joins(c, k)
  <2> DEFINE k == [Idle EXCEPT !.op = op, !.at = "read", !.id = r,
                               !.mark = m, !.life = n]
  <2>1. k \in Call /\ Shaped(k) /\ k.at = "read" /\ k.snap = NoRecord
    BY IdleType DEF Call, Shaped, Idle
  <2>2. /\ UNCHANGED <<db, now, kept, settled>> /\ fresh' \subseteq fresh
        /\ call' = Joins(c, k)
    BY <1>3 DEF PatchContext
  <2> HIDE DEF k
  <2> QED
    BY <2>1, <2>2
<1>4. ASSUME NEW r \in Ids, GetContext(c, r)
      PROVE  /\ UNCHANGED <<db, now, kept, settled>> /\ fresh' \subseteq fresh
             /\ \E k \in Call : /\ Shaped(k) /\ k.at = "read" /\ k.op = "get"
                               /\ k.snap = NoRecord /\ call' = [call EXCEPT ![c] = k]
  <2> DEFINE k == [Idle EXCEPT !.op = "get", !.at = "read", !.id = r]
  <2>1. k \in Call /\ Shaped(k) /\ k.at = "read" /\ k.op = "get" /\ k.snap = NoRecord
    BY IdleType DEF Call, Shaped, Idle
  <2> QED
    BY <1>4, <2>1 DEF GetContext
<1>5. ASSUME NEW p \in Paths, NEW m \in Marks \cup {NoMark}, FileLookup(c, p, m)
      PROVE  /\ UNCHANGED <<db, now, kept, settled>> /\ fresh' \subseteq fresh
             /\ \E k \in Call :
                  /\ Shaped(k) /\ k.at \in {"read", "list"} /\ k.snap = NoRecord
                  /\ \/ call' = Joins(c, k) /\ k.at = "read"
                     \/ call' = [call EXCEPT ![c] = k] /\ k.at = "list"
  <2> DEFINE k == [Idle EXCEPT !.op = "lookup", !.path = p, !.mark = m,
                               !.life = Recent]
             listing == [k EXCEPT !.at = "list"]
             reading(r) == [k EXCEPT !.at = "read", !.id = r]
  <2>1. /\ listing \in Call /\ Shaped(listing)
        /\ listing.at = "list" /\ listing.snap = NoRecord
    BY IdleType, LifeTypes DEF Call, Shaped, Idle
  <2>2. ASSUME NEW r \in Ids
        PROVE  /\ reading(r) \in Call /\ Shaped(reading(r))
               /\ reading(r).at = "read" /\ reading(r).snap = NoRecord
    BY IdleType, LifeTypes DEF Call, Shaped, Idle
  <2>3. /\ UNCHANGED <<db, now, kept, settled>> /\ fresh' \subseteq fresh
        /\ \/ call' = [call EXCEPT ![c] = listing]
           \/ \E r \in Ids : call' = Joins(c, reading(r))
    BY <1>5 DEF FileLookup
  <2> HIDE DEF listing, reading
  <2> QED
    BY <2>1, <2>2, <2>3
<1> QED
  BY <1>2, <1>3, <1>4, <1>5, LifeTypes DEF Begin

\* How a call goes on until its put.
LEMMA ListFacts ==
    ASSUME TypeInv, NEW c \in Calls, List(c)
    PROVE  /\ db' = db /\ now' = now /\ kept' = kept /\ settled' = settled
           /\ fresh' \subseteq fresh
           /\ \E k \in Call :
                /\ Shaped(k) /\ call' = Joins(c, k) /\ k.id \in Ids
                /\ \/ /\ k.at = "read" /\ k.snap = call[c].snap
                      /\ Matching(call[c].path) = {}
                   \/ /\ k.at = "put" /\ k.snap = db[k.id] /\ k.since = now
                      /\ IsMatch(call[c].path, k.id)
<1>1. /\ call[c] \in Call /\ call[c].at = "list" /\ call[c].op = "lookup"
      /\ call[c].path \in Paths
  BY DEF TypeInv, TypeOK, CallShape, Shaped, List
<1>2. ASSUME NEW r \in Ids
      PROVE  LET k == [call[c] EXCEPT !.at = "put", !.id = r, !.snap = db[r],
                                      !.since = now]
             IN  /\ k \in Call /\ Shaped(k) /\ k.id \in Ids
                 /\ k.at = "put" /\ k.snap = db[k.id] /\ k.since = now /\ k.id = r
  BY <1>1 DEF Call, Shaped, TypeInv, TypeOK
<1>3. ASSUME NEW r \in Ids
      PROVE  LET k == [call[c] EXCEPT !.at = "read", !.id = r]
             IN  /\ k \in Call /\ Shaped(k) /\ k.id \in Ids /\ k.at = "read"
                 /\ k.snap = call[c].snap
  BY <1>1 DEF Call, Shaped
<1>4. fresh \subseteq Ids
  BY DEF TypeInv, TypeOK
<1>5. CASE \E r \in Ids :
             /\ IsMatch(call[c].path, r)
             /\ call' = Joins(c, [call[c] EXCEPT !.at = "put", !.id = r,
                                     !.snap = db[r], !.since = now])
             /\ fresh' = fresh
  <2>1. PICK r \in Ids :
             /\ IsMatch(call[c].path, r)
             /\ call' = Joins(c, [call[c] EXCEPT !.at = "put", !.id = r,
                                     !.snap = db[r], !.since = now])
             /\ fresh' = fresh
    BY <1>5
  <2> DEFINE k == [call[c] EXCEPT !.at = "put", !.id = r, !.snap = db[r],
                                  !.since = now]
  <2>2. /\ k \in Call /\ Shaped(k) /\ k.id \in Ids
        /\ k.at = "put" /\ k.snap = db[k.id] /\ k.since = now
        /\ IsMatch(call[c].path, k.id) /\ call' = Joins(c, k)
    BY <1>2, <2>1
  <2> HIDE DEF k
  <2> QED
    BY <2>1, <2>2 DEF List
<1>6. CASE /\ Matching(call[c].path) = {}
           /\ \E r \in fresh :
                /\ call' = Joins(c, [call[c] EXCEPT !.at = "read", !.id = r])
                /\ fresh' = fresh \ {r}
  <2>1. PICK r \in fresh :
             /\ call' = Joins(c, [call[c] EXCEPT !.at = "read", !.id = r])
             /\ fresh' = fresh \ {r}
    BY <1>6
  <2> DEFINE k == [call[c] EXCEPT !.at = "read", !.id = r]
  <2>2. /\ k \in Call /\ Shaped(k) /\ k.id \in Ids
        /\ k.at = "read" /\ k.snap = call[c].snap /\ call' = Joins(c, k)
    BY <1>3, <1>4, <2>1
  <2> HIDE DEF k
  <2> QED
    BY <1>6, <2>1, <2>2 DEF List
<1> QED
  BY <1>5, <1>6 DEF List

LEMMA ReadFacts ==
    ASSUME TypeInv, NEW c \in Calls, ReadRecord(c)
    PROVE  /\ db' = db /\ now' = now /\ kept' = kept /\ settled' = settled
           /\ fresh' = fresh
           /\ \E k \in Call :
                /\ Shaped(k) /\ k.id \in Ids \cup {NoId}
                /\ \/ /\ call' = Joins(c, k) /\ k.at = "purge"
                      /\ k.id \in Ids /\ db[k.id] = NoRecord
                      /\ k.snap = call[c].snap
                   \/ call' = [call EXCEPT ![c] = k] /\ k.at = "idle"
                   \/ /\ call' = [call EXCEPT ![c] = k] /\ k.at = "put"
                      /\ Writing(c, k.id) /\ k.alone = call[c].alone
                      /\ k.snap = db[k.id] /\ k.since = now
<1> DEFINE purge == [call[c] EXCEPT !.at = "purge"]
           put == [call[c] EXCEPT !.at = "put", !.snap = db[call[c].id],
                                  !.since = now]
<1>1. call[c] \in Call /\ call[c].at = "read" /\ call[c].id \in Ids
  BY DEF TypeInv, TypeOK, CallShape, Shaped, ReadRecord
<1>2. Shaped(call[c])
  BY DEF TypeInv, CallShape
<1>3. /\ purge \in Call /\ Shaped(purge) /\ purge.at = "purge" /\ purge.id = call[c].id
      /\ purge.snap = call[c].snap
  BY <1>1, <1>2 DEF Call, Shaped
<1>4. ASSUME call[c].op \notin {"create", "get"}
      PROVE  /\ put \in Call /\ Shaped(put) /\ put.at = "put"
             /\ put.alone = call[c].alone /\ put.id = call[c].id
             /\ put.snap = db[put.id] /\ put.since = now /\ Writing(c, put.id)
  <2>1. /\ put \in Call /\ put.at = "put" /\ put.id = call[c].id
        /\ put.alone = call[c].alone /\ put.op = call[c].op
        /\ put.snap = db[put.id] /\ put.path = call[c].path /\ put.since = now
    BY <1>1 DEF Call, TypeInv, TypeOK
  <2>2. call[c].op # "none"
    BY <1>1, <1>2 DEF TypeInv, TypeOK, CallShape, Shaped
  <2> QED
    BY <1>1, <1>2, <1>4, <2>1, <2>2 DEF Call, Shaped, Writing
<1>5. /\ db' = db /\ now' = now /\ kept' = kept /\ settled' = settled
      /\ fresh' = fresh
  BY DEF ReadRecord
<1>6. CASE db[call[c].id] = NoRecord
  <2>1. call' = Joins(c, purge)
    BY <1>6 DEF ReadRecord
  <2> HIDE DEF purge
  <2> QED
    BY <1>1, <1>3, <1>5, <1>6, <2>1
<1>7. CASE db[call[c].id] # NoRecord /\ call[c].op \in {"create", "get"}
  <2>1. call' = [call EXCEPT ![c] = Idle]
    BY <1>7 DEF ReadRecord
  <2>2. Idle.id \in Ids \cup {NoId}
    BY DEF Idle
  <2> QED
    BY <1>5, <2>1, <2>2, IdleType
<1>8. CASE db[call[c].id] # NoRecord /\ call[c].op \notin {"create", "get"}
  <2>1. call' = [call EXCEPT ![c] = put]
    BY <1>8 DEF ReadRecord
  <2> HIDE DEF put
  <2> QED
    BY <1>1, <1>4, <1>5, <1>8, <2>1
<1> QED
  BY <1>6, <1>7, <1>8

LEMMA PurgeFacts ==
    ASSUME TypeInv, NEW c \in Calls, Purge(c)
    PROVE  /\ now' = now /\ kept' = kept /\ fresh' = fresh
           /\ call[c].at = "purge" /\ call[c].id \in Ids
           /\ db' = db \/ db' = [db EXCEPT ![call[c].id] = NoRecord]
           /\ settled' \in [Paths -> Ids \cup {NoId}]
           /\ \E k \in Call :
                /\ Shaped(k) /\ call' = [call EXCEPT ![c] = k]
                /\ \/ k.at = "idle"
                   \/ /\ k.at = "put" /\ k.id = call[c].id
                      /\ k.alone = call[c].alone
                      /\ k.snap = call[c].snap /\ k.since = now
<1> DEFINE put == [call[c] EXCEPT !.at = "put", !.since = now]
<1>1. /\ call[c] \in Call /\ call[c].at = "purge" /\ call[c].id \in Ids
      /\ Shaped(call[c])
  BY DEF TypeInv, TypeOK, CallShape, Shaped, Purge
<1>2. ASSUME call[c].op \in {"create", "lookup"}
      PROVE  /\ put \in Call /\ Shaped(put) /\ put.at = "put"
             /\ put.id = call[c].id /\ put.alone = call[c].alone
             /\ put.snap = call[c].snap /\ put.since = now
  BY <1>1, <1>2 DEF Call, Shaped, TypeInv, TypeOK
<1>3. settled' \in [Paths -> Ids \cup {NoId}]
  BY DEF Purge, TypeInv, TypeOK
<1>4. /\ now' = now /\ kept' = kept /\ fresh' = fresh
      /\ db' = db \/ db' = [db EXCEPT ![call[c].id] = NoRecord]
  BY DEF Purge
<1>5. call' = [call EXCEPT ![c] = IF call[c].op \in {"create", "lookup"}
                                  THEN put ELSE Idle]
  BY DEF Purge
<1> HIDE DEF put
<1>6. \E k \in Call :
         /\ Shaped(k) /\ call' = [call EXCEPT ![c] = k]
         /\ \/ k.at = "idle"
            \/ /\ k.at = "put" /\ k.id = call[c].id
               /\ k.alone = call[c].alone
               /\ k.snap = call[c].snap /\ k.since = now
  BY <1>2, <1>5, IdleType
<1> QED
  BY <1>1, <1>3, <1>4, <1>6

LEMMA PutFacts ==
    ASSUME TypeInv, NEW c \in Calls, Put(c)
    PROVE  /\ now' = now /\ fresh' = fresh
           /\ call[c].at = "put" /\ call[c].id \in Ids
           /\ call' = [call EXCEPT ![c] = Idle]
           /\ \E date \in call[c].since..now :
                LET rec == Written(call[c], date)
                IN  /\ rec \in Record /\ db' = [db EXCEPT ![call[c].id] = rec]
           /\ settled' \in [Paths -> Ids \cup {NoId}]
           /\ kept' = [kept EXCEPT ![call[c].id] = [m \in Marks |-> Owed(call[c], m)]]
           /\ \A m \in Marks : Owed(call[c], m) \in 0..Lasting
<1>1. call[c].at = "put" /\ call[c].id \in Ids /\ call[c] \in Call
  BY DEF Put, TypeInv, TypeOK, CallShape, Shaped
<1>2. PICK date \in call[c].since..now :
        /\ db' = [db EXCEPT ![call[c].id] = Written(call[c], date)]
        /\ settled' = [p \in Paths |-> Settles(p, call[c], Written(call[c], date))]
  BY DEF Put
<1>3. Written(call[c], date) \in Record
  BY <1>1, WrittenType
<1>4. settled' \in [Paths -> Ids \cup {NoId}]
  BY <1>1, <1>2, <1>3, SettlesType
<1>5. ASSUME NEW m \in Marks
      PROVE  Owed(call[c], m) \in 0..Lasting
  <2>1. kept[call[c].id][m] \in 0..Lasting /\ call[c].life \in 1..Lasting
    BY <1>1 DEF TypeInv, TypeOK, Lives, Call
  <2> QED
    BY <2>1, StoreAssumption DEF Owed, Lasting
<1> QED
  BY <1>1, <1>2, <1>3, <1>4, <1>5 DEF Put

LEMMA TypeStep ==
    ASSUME TypeInv, [Next]_vars
    PROVE  TypeInv'
<1> USE DEF TypeInv
<1>1. ASSUME NEW c \in Calls, Begin(c)
      PROVE  TypeInv'
  <2>1. PICK k \in Call : /\ Shaped(k)
                          /\ call' = Joins(c, k) \/ call' = [call EXCEPT ![c] = k]
    BY <1>1, BeginFacts
  <2> QED
    BY <1>1, <2>1, BeginFacts, JoinsFacts, OneCallType DEF TypeOK
<1>2. ASSUME NEW c \in Calls, List(c)
      PROVE  TypeInv'
  <2>1. PICK k \in Call : Shaped(k) /\ call' = Joins(c, k)
    BY <1>2, ListFacts
  <2> QED
    BY <1>2, <2>1, ListFacts, JoinsFacts DEF TypeOK
<1>3. ASSUME NEW c \in Calls, ReadRecord(c)
      PROVE  TypeInv'
  <2>1. PICK k \in Call : /\ Shaped(k)
                          /\ call' = Joins(c, k) \/ call' = [call EXCEPT ![c] = k]
    BY <1>3, ReadFacts
  <2>2. call' \in [Calls -> Call] /\ CallShape'
    BY <2>1, JoinsFacts, OneCallType
  <2>3. UNCHANGED <<db, now, kept, settled, fresh>>
    BY <1>3, ReadFacts
  <2> QED
    BY <2>2, <2>3 DEF TypeOK
<1>4. ASSUME NEW c \in Calls, Purge(c)
      PROVE  TypeInv'
  <2>1. PICK k \in Call : Shaped(k) /\ call' = [call EXCEPT ![c] = k]
    BY <1>4, PurgeFacts
  <2> QED
    BY <1>4, <2>1, PurgeFacts, OneCallType DEF TypeOK
<1>5. ASSUME NEW c \in Calls, Put(c)
      PROVE  TypeInv'
  <2>1. call' \in [Calls -> Call] /\ CallShape'
    BY <1>5, PutFacts, IdleType, OneCallType
  <2>2. db' \in [Ids -> Record \cup {NoRecord}]
    <3>1. PICK rec \in Record : db' = [db EXCEPT ![call[c].id] = rec]
      BY <1>5, PutFacts
    <3> QED
      BY <3>1 DEF TypeOK
  <2>3. kept' \in [Ids -> Lives]
    <3>1. [m \in Marks |-> Owed(call[c], m)] \in Lives
      BY <1>5, PutFacts DEF Lives
    <3> QED
      BY <1>5, <3>1, PutFacts DEF TypeOK
  <2>4. now' = now /\ fresh' = fresh /\ settled' \in [Paths -> Ids \cup {NoId}]
    BY <1>5, PutFacts
  <2> QED
    BY <2>1, <2>2, <2>3, <2>4 DEF TypeOK
<1>6. ASSUME NEW c \in Calls, Fail(c)
      PROVE  TypeInv'
  BY <1>6, IdleType, OneCallType DEF Fail, TypeOK
<1>7. ASSUME NEW r \in Ids, DeleteContext(r)
      PROVE  TypeInv'
  BY <1>7, LifeTypes DEF DeleteContext, TypeOK, CallShape
<1>8. CASE Tick
  BY <1>8, StoreAssumption DEF Tick, TypeOK, CallShape
<1>9. CASE Crash
  BY <1>9, IdleType DEF Crash, TypeOK, CallShape
<1>10. CASE UNCHANGED vars
  BY <1>10 DEF vars, TypeOK, CallShape
<1> QED
  BY <1>1, <1>2, <1>3, <1>4, <1>5, <1>6, <1>7, <1>8, <1>9, <1>10 DEF Next, Await

LEMMA TypeInit ==
    ASSUME Init
    PROVE  TypeInv
BY IdleType, LifeTypes, StoreAssumption DEF Init, TypeInv, TypeOK, CallShape

\* Records and the calls in flight keep their shape, whatever fails.
THEOREM TypeCorrect == Spec => []TypeOK
<1>1. TypeInv => TypeOK
  BY DEF TypeInv
<1> QED
  BY <1>1, TypeInit, TypeStep, PTL DEF Spec

-----------------------------------------------------------------------------
(* UpdatesKept.                                                            *)

\* Lives compare as numbers do.
LEMMA WithinTrans ==
    ASSUME NEW f \in Lives, NEW g \in Lives, NEW h \in Lives
    PROVE  Within(f, f) /\ (Within(f, g) /\ Within(g, h) => Within(f, h))
<1>1. ASSUME NEW l \in Lives, NEW m \in Marks
      PROVE  l[m] \in Int
  BY StoreAssumption DEF Lives, Lasting
<1> QED
  BY <1>1 DEF Within

LEMMA NothingOwed ==
    ASSUME NEW f \in Lives
    PROVE  Within(NoMarks, f)
<1>1. \A m \in Marks : NoMarks[m] = 0 /\ f[m] \in 0..Lasting
  BY LifeTypes DEF Lives
<1> QED
  BY <1>1 DEF Within

\* A call goes on as k, a writer of k.id, and writes nothing yet.
LEMMA JoinKept ==
    ASSUME KeptInv, TypeInv', NEW c \in Calls, NEW k \in Call, Shaped(k),
           call' = Joins(c, k), k.id \in Ids, kept' = kept, db' = db,
           k.at \in {"read", "purge", "put"},
           k.at = "put" => Within(kept[k.id], MarksOf(k.snap)),
           k.at = "purge" => Within(kept[k.id], NoMarks)
    PROVE  KeptInv'
<1> USE DEF KeptInv
<1>1. /\ call'[c].alone => \A d \in Calls \ {c} : ~Writing(d, k.id)
      /\ \A d \in Calls \ {c} :
           call'[d].alone => call[d].alone /\ ~Writing(d, k.id)
  BY JoinsFacts
<1>2. /\ call'[c].at = k.at /\ call'[c].id = k.id /\ call'[c].snap = k.snap
      /\ \A d \in Calls \ {c} :
           /\ call'[d].at = call[d].at /\ call'[d].id = call[d].id
           /\ call'[d].op = call[d].op /\ call'[d].snap = call[d].snap
  BY JoinsFacts DEF Call, TypeInv, TypeOK
<1>3. /\ \A r \in Ids : Writing(c, r)' => r = k.id
      /\ \A d \in Calls \ {c}, r \in Ids : Writing(d, r)' <=> Writing(d, r)
  BY <1>2 DEF Writing
<1>4. AloneMeansAlone'
  BY <1>1, <1>3 DEF AloneMeansAlone
<1>5. WritersKnow'
  BY <1>2 DEF WritersKnow
<1>6. PurgedIsEmpty' /\ KeptHeld'
  BY <1>2 DEF PurgedIsEmpty, KeptHeld
<1> QED
  BY <1>4, <1>5, <1>6

\* A call goes on as k and is the writer of no other record than before;
\* what records must hold grows only by what no other writer knows of.
LEMMA GoOnKept ==
    ASSUME KeptInv, TypeInv', NEW c \in Calls, NEW k \in Call, Shaped(k),
           call' = [call EXCEPT ![c] = k],
           \/ k.at \in {"idle", "list"}
           \/ k.at = "read" /\ k.op = "get"
           \/ k.at = "put" /\ Writing(c, k.id) /\ k.alone = call[c].alone,
           k.at = "put" => Within(kept'[k.id], MarksOf(k.snap)),
           \A d \in Calls \ {c}, r \in Ids :
             Writing(d, r) => Within(kept'[r], kept[r]),
           KeptHeld'
    PROVE  KeptInv'
<1> USE DEF KeptInv
<1>1. call'[c] = k /\ \A d \in Calls \ {c} : call'[d] = call[d]
  BY DEF TypeInv, TypeOK
<1>2. /\ \A r \in Ids : Writing(c, r)' =>
            r = k.id /\ k.at = "put" /\ Writing(c, r) /\ k.alone = call[c].alone
      /\ \A d \in Calls \ {c}, r \in Ids : Writing(d, r)' <=> Writing(d, r)
  BY <1>1 DEF Writing
<1>3. AloneMeansAlone'
  BY <1>1, <1>2 DEF AloneMeansAlone
<1>4. \A d \in Calls \ {c} :
        call[d].at \in {"purge", "put"} => Writing(d, call[d].id) /\ call[d].id \in Ids
  BY DEF TypeInv, CallShape, Shaped, Writing
<1>5. ASSUME NEW d \in Calls \ {c}, call[d].at \in {"purge", "put"}, NEW f \in Lives,
             Within(kept[call[d].id], f)
      PROVE  Within(kept'[call[d].id], f)
  <2>1. PICK r \in Ids : r = call[d].id
    BY <1>4, <1>5
  <2>2. Within(kept'[r], kept[r])
    BY <1>4, <1>5, <2>1
  <2>3. kept[r] \in Lives /\ kept'[r] \in Lives
    BY DEF TypeInv, TypeOK
  <2> QED
    BY <1>5, <2>1, <2>2, <2>3, WithinTrans
<1>6. \A d \in Calls : MarksOf(call[d].snap) \in Lives
  BY MarksType DEF TypeInv, TypeOK, Call
<1>7. WritersKnow'
  BY <1>1, <1>5, <1>6 DEF WritersKnow
<1>8. PurgedIsEmpty'
  BY <1>1, <1>5, LifeTypes DEF PurgedIsEmpty
<1> QED
  BY <1>3, <1>7, <1>8

LEMMA KeptStep ==
    ASSUME KeptInv, [Next]_vars
    PROVE  KeptInv'
<1> USE DEF KeptInv
<1>0. TypeInv' /\ \A r \in Ids : Within(kept[r], kept[r])
  BY TypeStep, WithinTrans DEF TypeInv, TypeOK
<1>1. ASSUME NEW c \in Calls, Begin(c)
      PROVE  KeptInv'
  <2>1. PICK k \in Call :
          /\ Shaped(k) /\ k.at \in {"read", "list"}
          /\ \/ call' = Joins(c, k) /\ k.at = "read"
             \/ /\ call' = [call EXCEPT ![c] = k]
                /\ k.at = "list" \/ k.op = "get"
    BY <1>1, BeginFacts
  <2>2. db' = db /\ kept' = kept
    BY <1>1, BeginFacts
  <2>3. KeptHeld'
    BY <2>2 DEF KeptHeld
  <2>4. CASE call' = Joins(c, k) /\ k.at = "read"
    <3>1. k.id \in Ids
      BY <2>1, <2>4 DEF Shaped
    <3> QED
      BY <1>0, <2>1, <2>2, <2>4, <3>1, JoinKept
  <2>5. CASE call' = [call EXCEPT ![c] = k] /\ (k.at = "list" \/ k.op = "get")
    BY <1>0, <2>1, <2>2, <2>3, <2>5, GoOnKept
  <2> QED
    BY <2>1, <2>4, <2>5
<1>2. ASSUME NEW c \in Calls, List(c)
      PROVE  KeptInv'
  <2>1. PICK k \in Call :
          /\ Shaped(k) /\ call' = Joins(c, k) /\ k.id \in Ids
          /\ k.at = "read" \/ (k.at = "put" /\ k.snap = db[k.id])
    BY <1>2, ListFacts
  <2>2. db' = db /\ kept' = kept
    BY <1>2, ListFacts
  <2>3. k.at = "put" => Within(kept[k.id], MarksOf(k.snap))
    BY <2>1 DEF KeptHeld
  <2> QED
    BY <1>0, <2>1, <2>2, <2>3, JoinKept
<1>3. ASSUME NEW c \in Calls, ReadRecord(c)
      PROVE  KeptInv'
  <2>1. PICK k \in Call :
          /\ Shaped(k) /\ k.id \in Ids \cup {NoId}
          /\ \/ /\ call' = Joins(c, k) /\ k.at = "purge"
                /\ k.id \in Ids /\ db[k.id] = NoRecord
             \/ call' = [call EXCEPT ![c] = k] /\ k.at = "idle"
             \/ /\ call' = [call EXCEPT ![c] = k] /\ k.at = "put"
                /\ Writing(c, k.id) /\ k.alone = call[c].alone
                /\ k.snap = db[k.id]
    BY <1>3, ReadFacts
  <2>2. db' = db /\ kept' = kept
    BY <1>3, ReadFacts
  <2>3. KeptHeld'
    BY <2>2 DEF KeptHeld
  <2>4. CASE call' = Joins(c, k) /\ k.at = "purge" /\ k.id \in Ids /\ db[k.id] = NoRecord
    <3>1. Within(kept[k.id], NoMarks)
      BY <2>4 DEF KeptHeld, MarksOf
    <3> QED
      BY <1>0, <2>1, <2>2, <2>4, <3>1, JoinKept
  <2>5. CASE call' = [call EXCEPT ![c] = k] /\ k.at = "idle"
    BY <1>0, <2>1, <2>2, <2>3, <2>5, GoOnKept
  <2>6. CASE /\ call' = [call EXCEPT ![c] = k] /\ k.at = "put"
             /\ Writing(c, k.id) /\ k.alone = call[c].alone
             /\ k.snap = db[k.id]
    <3>1. k.id \in Ids
      BY <2>1, <2>6 DEF Shaped
    <3>2. Within(kept'[k.id], MarksOf(k.snap))
      BY <2>2, <2>6, <3>1 DEF KeptHeld
    <3> QED
      BY <1>0, <2>1, <2>2, <2>3, <2>6, <3>2, GoOnKept
  <2> QED
    BY <2>1, <2>4, <2>5, <2>6
<1>4. ASSUME NEW c \in Calls, Purge(c)
      PROVE  KeptInv'
  <2>1. /\ kept' = kept /\ call[c].at = "purge" /\ call[c].id \in Ids
        /\ db' = db \/ db' = [db EXCEPT ![call[c].id] = NoRecord]
    BY <1>4, PurgeFacts
  <2>2. PICK k \in Call :
          /\ Shaped(k) /\ call' = [call EXCEPT ![c] = k]
          /\ \/ k.at = "idle"
             \/ /\ k.at = "put" /\ k.id = call[c].id
                /\ k.alone = call[c].alone
    BY <1>4, PurgeFacts
  <2>3. Within(kept[call[c].id], NoMarks)
    BY <2>1 DEF PurgedIsEmpty
  <2>4. KeptHeld'
    <3>1. \A r \in Ids : db'[r] = db[r] \/ (r = call[c].id /\ db'[r] = NoRecord)
      BY <2>1 DEF TypeInv, TypeOK
    <3> QED
      BY <2>1, <2>3, <3>1 DEF KeptHeld, MarksOf
  <2>5. k.at = "put" => Writing(c, k.id) /\ Within(kept'[k.id], MarksOf(k.snap))
    <3>1. MarksOf(k.snap) \in Lives /\ kept[call[c].id] \in Lives
      BY <2>1, MarksType DEF Call, TypeInv, TypeOK
    <3>2. Within(NoMarks, MarksOf(k.snap))
      BY <3>1, NothingOwed
    <3>3. Within(kept[call[c].id], MarksOf(k.snap))
      BY <2>3, <3>1, <3>2, LifeTypes, WithinTrans
    <3> QED
      BY <2>1, <2>2, <3>3 DEF Writing
  <2>6. k.at = "idle" \/ (k.at = "put" /\ k.alone = call[c].alone)
    BY <2>2
  <2> QED
    BY <1>0, <2>1, <2>2, <2>4, <2>5, <2>6, GoOnKept
<1>5. ASSUME NEW c \in Calls, Put(c)
      PROVE  KeptInv'
  <2> DEFINE r == call[c].id
  <2>1. /\ call[c].at = "put" /\ r \in Ids /\ call' = [call EXCEPT ![c] = Idle]
        /\ kept' = [kept EXCEPT ![r] = [m \in Marks |-> Owed(call[c], m)]]
    BY <1>5, PutFacts
  <2>2. PICK date \in call[c].since..now :
          /\ Written(call[c], date) \in Record
          /\ db' = [db EXCEPT ![r] = Written(call[c], date)]
    BY <1>5, PutFacts
  <2>3. Within(kept'[r], MarksOf(Written(call[c], date)))
    <3>1. MarksOf(Written(call[c], date)) = Written(call[c], date).marks
      BY <2>2, RecordAssumption DEF MarksOf
    <3>2. kept'[r] = [m \in Marks |-> Owed(call[c], m)]
      BY <2>1 DEF TypeInv, TypeOK
    <3>3. call[c].op # "replace" => Within(kept[r], MarksOf(call[c].snap))
      BY <2>1 DEF WritersKnow
    <3>4. /\ call[c] \in Call
          /\ call[c].op \in {"create", "update", "replace", "lookup"}
      BY <2>1 DEF TypeInv, TypeOK, CallShape, Shaped
    <3>5. ASSUME NEW m \in Marks
          PROVE  Owed(call[c], m) <= LifeAfter(call[c], m)
      <4>1. kept[r][m] \in 0..Lasting
        BY <2>1 DEF TypeInv, TypeOK, Lives
      <4>2. MarksOf(call[c].snap)[m] \in 0..Lasting
        BY <3>4, MarksType DEF Call, Lives
      <4>3. call[c].op # "replace" => kept[r][m] <= MarksOf(call[c].snap)[m]
        BY <3>3 DEF Within
      <4>4. CASE m = call[c].mark
        BY <3>4, <4>4, StoreAssumption DEF Owed, LifeAfter, Call, Lasting
      <4>5. CASE m # call[c].mark /\ call[c].op = "lookup"
        BY <4>1, <4>2, <4>3, <4>5, StoreAssumption DEF Owed, LifeAfter, Aged, Lasting
      <4>6. CASE m # call[c].mark /\ call[c].op \in {"create", "update"}
        BY <4>1, <4>2, <4>3, <4>6 DEF Owed, LifeAfter
      <4>7. CASE m # call[c].mark /\ call[c].op = "replace"
        BY <4>7 DEF Owed, LifeAfter
      <4> QED
        BY <3>4, <4>4, <4>5, <4>6, <4>7
    <3> QED
      BY <3>1, <3>2, <3>5 DEF Within, Written
  <2>4. KeptHeld'
    BY <2>1, <2>2, <2>3 DEF KeptHeld, TypeInv, TypeOK
  <2>5. Writing(c, r)
    <3>1. call[c].op # "get"
      BY <2>1 DEF TypeInv, CallShape, Shaped
    <3> QED
      BY <2>1, <3>1 DEF Writing
  <2>6. ASSUME NEW d \in Calls \ {c}, NEW s \in Ids, Writing(d, s)
        PROVE  Within(kept'[s], kept[s])
    <3>1. kept[s] \in Lives
      BY DEF TypeInv, TypeOK
    <3>2. CASE s # r
      <4>1. kept'[s] = kept[s]
        BY <2>1, <3>2 DEF TypeInv, TypeOK
      <4> QED
        BY <3>1, <4>1, WithinTrans
    <3>3. CASE s = r
      <4>1. ~call[c].alone
        BY <2>5, <2>6, <3>3 DEF AloneMeansAlone
      <4>2. kept'[s] = [m \in Marks |-> Owed(call[c], m)]
        BY <2>1, <3>3 DEF TypeInv, TypeOK
      <4>3. ASSUME NEW m \in Marks
            PROVE  Owed(call[c], m) <= kept[s][m]
        <5>1. kept[s][m] \in 0..Lasting
          BY <3>1 DEF Lives
        <5> QED
          BY <3>3, <4>1, <5>1, StoreAssumption DEF Owed, Lasting
      <4> QED
        BY <4>2, <4>3 DEF Within
    <3> QED
      BY <3>2, <3>3
  <2> QED
    BY <1>0, <2>1, <2>4, <2>6, IdleType, GoOnKept
<1>6. ASSUME NEW c \in Calls, Fail(c)
      PROVE  KeptInv'
  <2>1. KeptHeld' /\ kept' = kept /\ call' = [call EXCEPT ![c] = Idle]
    BY <1>6 DEF Fail, KeptHeld
  <2> QED
    BY <1>0, <2>1, IdleType, GoOnKept
<1>7. ASSUME NEW r \in Ids, DeleteContext(r)
      PROVE  KeptInv'
  <2>1. /\ call' = call /\ kept'[r] = NoMarks
        /\ \A s \in Ids \ {r} : kept'[s] = kept[s] /\ db'[s] = db[s]
    BY <1>7 DEF DeleteContext, TypeInv, TypeOK
  <2>2. \A s \in Ids : kept'[s] = kept[s] \/ kept'[s] = NoMarks
    BY <2>1
  <2>3. KeptHeld'
    <3>1. ASSUME NEW s \in Ids
          PROVE  Within(kept'[s], MarksOf(db'[s]))
      <4>1. MarksOf(db'[s]) \in Lives
        BY <1>0, MarksType DEF TypeInv, TypeOK
      <4>2. Within(NoMarks, MarksOf(db'[s]))
        BY <4>1, NothingOwed
      <4> QED
        BY <2>1, <4>2 DEF KeptHeld
    <3> QED
      BY <3>1 DEF KeptHeld, MarksOf
  <2>4. AloneMeansAlone'
    BY <2>1 DEF AloneMeansAlone, Writing
  <2>5. \A c \in Calls : call[c].at \in {"purge", "put"} => call[c].id \in Ids
    BY DEF TypeInv, CallShape, Shaped
  <2>6. \A l \in Call : Within(NoMarks, MarksOf(l.snap)) /\ Within(NoMarks, NoMarks)
    BY MarksType, LifeTypes, NothingOwed DEF Call
  <2>7. \A c \in Calls : call[c] \in Call
    BY DEF TypeInv, TypeOK
  <2>8. WritersKnow' /\ PurgedIsEmpty'
    BY <2>1, <2>2, <2>5, <2>6, <2>7 DEF WritersKnow, PurgedIsEmpty
  <2> QED
    BY <1>0, <2>3, <2>4, <2>8
<1>8. CASE Tick
  BY <1>0, <1>8 DEF Tick, AloneMeansAlone, Writing, WritersKnow, PurgedIsEmpty,
                    KeptHeld
<1>9. CASE Crash
  <2>1. db' = db /\ kept' = kept /\ \A c \in Calls : call'[c].at = "idle"
    BY <1>9, IdleType DEF Crash
  <2> QED
    BY <1>0, <2>1 DEF AloneMeansAlone, Writing, WritersKnow, PurgedIsEmpty,
                      KeptHeld
<1>10. CASE UNCHANGED vars
  BY <1>0, <1>10 DEF vars, AloneMeansAlone, Writing, WritersKnow, PurgedIsEmpty,
                     KeptHeld
<1> QED
  BY <1>1, <1>2, <1>3, <1>4, <1>5, <1>6, <1>7, <1>8, <1>9, <1>10 DEF Next, Await

LEMMA InitKept ==
    ASSUME Init
    PROVE  KeptInv
<1>1. TypeInv /\ \A c \in Calls : call[c].at = "idle"
  BY TypeInit, IdleType DEF Init
<1>2. AloneMeansAlone /\ WritersKnow /\ PurgedIsEmpty
  BY <1>1 DEF AloneMeansAlone, Writing, WritersKnow, PurgedIsEmpty
<1>3. \A r \in Ids : kept[r] = NoMarks /\ MarksOf(db[r]) = NoMarks
  BY DEF Init, MarksOf
<1>4. KeptHeld
  BY <1>3, LifeTypes, NothingOwed DEF KeptHeld
<1> QED
  BY <1>1, <1>2, <1>4 DEF KeptInv

\* What a call that met no other writer has left in a record stays there
\* until the record is replaced or deleted, or so many lookups have followed
\* as forget it, for any number of calls and of observations that are kept.
THEOREM MarksKept == Spec => []UpdatesKept
<1>1. Init => KeptInv
  BY InitKept
<1>2. KeptInv => UpdatesKept
  <2> SUFFICES ASSUME KeptInv, NEW r \in Ids, NEW m \in Marks, kept[r][m] > 0
               PROVE  MarksOf(db[r])[m] > 0
    BY DEF UpdatesKept
  <2>1. kept[r] \in Lives /\ MarksOf(db[r]) \in Lives
    BY MarksType DEF KeptInv, TypeInv, TypeOK
  <2>2. kept[r][m] \in Int /\ MarksOf(db[r])[m] \in Int
    BY <2>1, StoreAssumption DEF Lives, Lasting
  <2>3. kept[r][m] <= MarksOf(db[r])[m]
    BY DEF KeptInv, KeptHeld, Within
  <2> QED
    BY <2>2, <2>3
<1> QED
  BY <1>1, <1>2, KeptStep, PTL DEF Spec

-----------------------------------------------------------------------------
(* LookupsSettle.                                                          *)

\* Joining changes nothing of a call but whether it is alone.
LEMMA OnlyAlone ==
    ASSUME NEW l \in Call, NEW b, NEW m, m = [l EXCEPT !.alone = b]
    PROVE  /\ m.at = l.at /\ m.id = l.id /\ m.snap = l.snap /\ m.since = l.since
           /\ m.op = l.op /\ m.path = l.path
BY DEF Call

\* A lookup finds one record.
LEMMA OneMatch ==
    ASSUME TypeInv, NEW p \in Paths, NEW r \in Ids, NEW s \in Ids,
           IsMatch(p, r), IsMatch(p, s)
    PROVE  r = s
<1>1. r \in Matching(p) /\ s \in Matching(p)
  BY DEF IsMatch
<1>2. db[r].at \in Nat /\ db[s].at \in Nat
  BY <1>1 DEF Matching, TypeInv, TypeOK, Record
<1>3. r \in Nat /\ s \in Nat
  BY StoreAssumption
<1> QED
  BY <1>1, <1>2, <1>3 DEF IsMatch

\* What is found after a record has been written or deleted.
LEMMA MatchingAfter ==
    ASSUME TypeInv, NEW p \in Paths, NEW r \in Ids, NEW rec \in Record \cup {NoRecord},
           db' = [db EXCEPT ![r] = rec]
    PROVE  Matching(p)' = IF rec # NoRecord /\ p \in rec.paths
                          THEN Matching(p) \cup {r} ELSE Matching(p) \ {r}
<1>1. db'[r] = rec /\ \A s \in Ids \ {r} : db'[s] = db[s]
  BY DEF TypeInv, TypeOK
<1> QED
  BY <1>1 DEF Matching

LEMMA StillMatch ==
    ASSUME TypeInv, NEW p \in Paths, NEW r \in Ids, NEW rec \in Record \cup {NoRecord},
           db' = [db EXCEPT ![r] = rec], ~ (rec # NoRecord /\ p \in rec.paths),
           NEW s \in Ids, s # r, IsMatch(p, s)
    PROVE  IsMatch(p, s)'
<1>1. Matching(p)' = Matching(p) \ {r}
  BY MatchingAfter
<1>2. \A t \in Ids \ {r} : db'[t] = db[t]
  BY DEF TypeInv, TypeOK
<1>3. Matching(p) \subseteq Ids
  BY DEF Matching
<1> QED
  BY <1>1, <1>2, <1>3 DEF IsMatch

LEMMA YoungerMatch ==
    ASSUME TypeInv, NEW p \in Paths, NEW r \in Ids, NEW rec \in Record,
           db' = [db EXCEPT ![r] = rec], p \in rec.paths,
           \/ Matching(p) = {}
           \/ IsMatch(p, r) /\ db[r].at <= rec.at
    PROVE  IsMatch(p, r)'
<1>1. Matching(p)' = Matching(p) \cup {r}
  BY MatchingAfter, RecordAssumption
<1>2. db'[r] = rec /\ \A t \in Ids \ {r} : db'[t] = db[t]
  BY DEF TypeInv, TypeOK
<1>3. Matching(p) \subseteq Ids /\ \A t \in Matching(p) : db[t].at \in Nat
  BY DEF Matching, TypeInv, TypeOK, Record
<1>4. rec.at \in Nat /\ Ids \subseteq Nat
  BY StoreAssumption DEF Record
<1>5. CASE Matching(p) = {}
  BY <1>1, <1>2, <1>4, <1>5 DEF IsMatch
<1>6. CASE IsMatch(p, r) /\ db[r].at <= rec.at
  <2>1. r \in Matching(p)
    BY <1>6 DEF IsMatch
  <2>2. ASSUME NEW t \in Matching(p)'
        PROVE  db'[r].at > db'[t].at \/ (db'[r].at = db'[t].at /\ r <= t)
    <3>1. CASE t = r
      BY <1>2, <1>4, <3>1
    <3>2. CASE t # r
      <4>1. t \in Matching(p) /\ t \in Ids
        BY <1>1, <1>3, <2>2, <3>2
      <4>2. db[r].at > db[t].at \/ (db[r].at = db[t].at /\ r <= t)
        BY <1>6, <4>1 DEF IsMatch
      <4>3. db[r].at \in Nat /\ db[t].at \in Nat /\ rec.at \in Nat
        BY <1>3, <1>4, <2>1, <4>1
      <4>4. rec.at > db[t].at \/ (rec.at = db[t].at /\ r <= t)
        BY <1>6, <4>2, <4>3
      <4> QED
        BY <1>2, <3>2, <4>1, <4>4
    <3> QED
      BY <3>1, <3>2
  <2> QED
    BY <1>1, <2>2 DEF IsMatch
<1> QED
  BY <1>5, <1>6

\* A call goes on, and the records stay as they are.
LEMMA JoinSettle ==
    ASSUME SettleInv, KeptInv', NEW c \in Calls, NEW k \in Call, Shaped(k),
           call' = Joins(c, k), db' = db, now' = now, settled' = settled,
           Ready(k), ReadLast(k)
    PROVE  SettleInv'
<1> USE DEF SettleInv
<1>0. TypeInv
  BY DEF KeptInv
<1>1. call'[c].alone => k.alone
  BY <1>0, JoinsFacts
<1>2. ASSUME NEW d \in Calls \ {c}
      PROVE  /\ call'[d].alone => call[d].alone
             /\ call'[d].at = call[d].at /\ call'[d].id = call[d].id
             /\ call'[d].snap = call[d].snap /\ call'[d].since = call[d].since
  <2>1. /\ call'[d] = [call[d] EXCEPT !.alone = call'[d].alone]
        /\ call'[d].alone => call[d].alone
    BY <1>0, JoinsFacts
  <2>2. call[d] \in Call
    BY <1>0 DEF TypeInv, TypeOK
  <2> QED
    BY <2>1, <2>2, OnlyAlone
<1>3. /\ call'[c].at = k.at /\ call'[c].id = k.id
      /\ call'[c].snap = k.snap /\ call'[c].since = k.since
  <2>1. call'[c] = [k EXCEPT !.alone = call'[c].alone]
    BY <1>0, JoinsFacts
  <2> QED
    BY <2>1, OnlyAlone
<1>4. InHand'
  BY <1>2, <1>3 DEF InHand, Ready
<1>5. AloneReadsLast'
  BY <1>1, <1>2, <1>3 DEF AloneReadsLast, ReadLast
<1>6. DatedBefore' /\ SettledIsFound'
  BY DEF DatedBefore, SettledIsFound, IsMatch, Matching
<1> QED
  BY <1>4, <1>5, <1>6

LEMMA GoOnSettle ==
    ASSUME SettleInv, KeptInv', NEW c \in Calls, NEW k \in Call,
           call' = [call EXCEPT ![c] = k], db' = db, now' = now, settled' = settled,
           Ready(k), ReadLast(k)
    PROVE  SettleInv'
<1> USE DEF SettleInv
<1>1. call'[c] = k /\ \A d \in Calls \ {c} : call'[d] = call[d]
  BY DEF KeptInv, TypeInv, TypeOK
<1>2. InHand'
  BY <1>1 DEF InHand, Ready
<1>3. AloneReadsLast'
  BY <1>1 DEF AloneReadsLast, ReadLast
<1>4. DatedBefore' /\ SettledIsFound'
  BY DEF DatedBefore, SettledIsFound, IsMatch, Matching
<1> QED
  BY <1>2, <1>3, <1>4

\* Record r is deleted; a call may go on as k, a writer of r that was alone if k is.
LEMMA DeleteSettle ==
    ASSUME SettleInv, KeptInv', NEW r \in Ids, db' = [db EXCEPT ![r] = NoRecord],
           settled' = [p \in Paths |-> IF settled[p] = r THEN NoId ELSE settled[p]],
           now' = now,
           \A c \in Calls : call'[c] = call[c] \/ (Ready(call[c])' /\ ReadLast(call[c])')
    PROVE  SettleInv'
<1> USE DEF SettleInv
<1>0. TypeInv /\ db'[r] = NoRecord /\ \A s \in Ids \ {r} : db'[s] = db[s]
  BY DEF KeptInv, TypeInv, TypeOK
<1>1. DatedBefore'
  BY <1>0 DEF DatedBefore
<1>2. InHand'
  BY DEF InHand, Ready
<1>3. ASSUME NEW c \in Calls
      PROVE  ReadLast(call[c])'
  <2>1. CASE call'[c] = call[c] /\ call[c].at \in {"purge", "put"}
    <3>1. call[c].id \in Ids
      BY <1>0, <2>1 DEF TypeInv, CallShape, Shaped
    <3>2. ReadLast(call[c])
      BY DEF AloneReadsLast
    <3> QED
      BY <1>0, <2>1, <3>1, <3>2 DEF ReadLast
  <2>2. CASE call'[c] = call[c] /\ call[c].at \notin {"purge", "put"}
    BY <2>2 DEF ReadLast
  <2> QED
    BY <2>1, <2>2 DEF ReadLast
<1>4. ASSUME NEW p \in Paths, settled'[p] # NoId
      PROVE  settled'[p] \in Ids /\ IsMatch(p, settled[p])'
  <2>1. settled'[p] = settled[p] /\ settled[p] # r
    BY <1>4
  <2>2. settled[p] \in Ids /\ IsMatch(p, settled[p])
    BY <1>4, <2>1 DEF SettledIsFound
  <2>3. PICK s \in Ids : s = settled[p]
    BY <2>2
  <2>4. IsMatch(p, s)'
    BY <1>0, <2>1, <2>2, <2>3, StillMatch
  <2> QED
    BY <2>1, <2>3, <2>4 DEF IsMatch, Matching
<1> QED
  BY <1>1, <1>2, <1>3, <1>4 DEF AloneReadsLast, SettledIsFound

\* A record is written by a call that has read it.
LEMMA PutSettle ==
    ASSUME SettleInv, KeptInv', NEW c \in Calls, Put(c)
    PROVE  SettleInv'
<1> USE DEF SettleInv
<1>0. TypeInv
  BY DEF KeptInv
<1>1. PICK k \in Call : k = call[c]
  BY <1>0 DEF TypeInv, TypeOK
<1>2. /\ k.at = "put" /\ k.id \in Ids /\ call' = [call EXCEPT ![c] = Idle]
      /\ now' = now /\ Shaped(k)
  BY <1>0, <1>1, PutFacts DEF TypeInv, CallShape
<1>3. PICK date \in k.since..now :
        /\ db' = [db EXCEPT ![k.id] = Written(k, date)]
        /\ settled' = [p \in Paths |-> Settles(p, k, Written(k, date))]
  BY <1>1 DEF Put
<1>4. PICK rec \in Record : rec = Written(k, date)
  BY <1>0, <1>1, <1>2, <1>3, WrittenType
<1>5. rec.at = date /\ date <= now /\ k.since <= date
  <2>1. k.since \in Nat /\ now \in Nat
    BY <1>0, StoreAssumption DEF Call, TypeInv, TypeOK
  <2> QED
    BY <1>3, <1>4, <2>1 DEF Written
<1>6. db' = [db EXCEPT ![k.id] = rec]
  BY <1>3, <1>4
<1>7. db'[k.id] = rec /\ \A s \in Ids \ {k.id} : db'[s] = db[s]
  BY <1>0, <1>2, <1>6 DEF TypeInv, TypeOK
<1>8. call'[c] = Idle /\ \A d \in Calls \ {c} : call'[d] = call[d]
  BY <1>0, <1>2 DEF TypeInv, TypeOK
<1>9. DatedBefore'
  BY <1>2, <1>5, <1>7 DEF DatedBefore
<1>10. InHand'
  BY <1>2, <1>8, IdleType DEF InHand, Ready
<1>11. AloneReadsLast'
  <2>1. Writing(c, k.id)
    BY <1>1, <1>2 DEF Writing, Shaped
  <2>2. ASSUME NEW d \in Calls \ {c}, call[d].alone, call[d].at \in {"purge", "put"}
        PROVE  db'[call[d].id] \in {NoRecord, call[d].snap}
    <3>1. call[d].id \in Ids /\ Writing(d, call[d].id)
      BY <1>0, <2>2 DEF TypeInv, CallShape, Shaped, Writing
    <3>2. call[d].id # k.id
      BY <1>2, <2>1, <2>2, <3>1 DEF KeptInv, AloneMeansAlone
    <3>3. db[call[d].id] \in {NoRecord, call[d].snap}
      BY <2>2 DEF AloneReadsLast, ReadLast
    <3> QED
      BY <1>7, <3>1, <3>2, <3>3
  <2> QED
    BY <1>8, <2>2, IdleType DEF AloneReadsLast, ReadLast
<1>12. ASSUME NEW p \in Paths, settled'[p] # NoId
       PROVE  settled'[p] \in Ids /\ IsMatch(p, settled[p])'
  <2>1. settled'[p] = Settles(p, k, rec)
    BY <1>3, <1>4
  <2>2. ASSUME k.alone, IsMatch(p, k.id)
        PROVE  db[k.id].at <= rec.at
    <3>1. db[k.id] \in Record
      BY <1>0, <1>2, <2>2 DEF IsMatch, Matching, TypeInv, TypeOK
    <3>2. db[k.id] # NoRecord /\ db[k.id] = k.snap
      BY <1>1, <1>2, <2>2, <3>1, RecordAssumption DEF AloneReadsLast, ReadLast
    <3>3. db[k.id].at <= k.since
      BY <1>1, <1>2, <3>2 DEF InHand, Ready
    <3>4. db[k.id].at \in Nat /\ k.since \in Nat /\ rec.at \in Nat
      BY <3>1, StoreAssumption DEF Record, Call
    <3> QED
      BY <1>5, <3>3, <3>4
  <2>3. CASE /\ k.op = "lookup" /\ k.path = p /\ k.alone
             /\ IsMatch(p, k.id) \/ Matching(p) = {}
    <3>1. settled'[p] = k.id
      BY <2>1, <2>3 DEF Settles
    <3>2. p \in rec.paths
      BY <1>4, <2>3 DEF Written, PathsAfter
    <3>3. IsMatch(p, k.id)'
      BY <1>0, <1>2, <1>6, <2>2, <2>3, <3>2, YoungerMatch
    <3> QED
      BY <1>2, <3>1, <3>3 DEF IsMatch, Matching
  <2>4. CASE /\ ~ (/\ k.op = "lookup" /\ k.path = p /\ k.alone
                   /\ IsMatch(p, k.id) \/ Matching(p) = {})
             /\ settled[p] = k.id
    <3>1. k.alone /\ p \in rec.paths /\ settled'[p] = k.id
      BY <1>12, <2>1, <2>4 DEF Settles
    <3>2. k.id # NoId
      BY <1>2, StoreAssumption DEF NoId
    <3>3. IsMatch(p, k.id)
      BY <2>4, <3>2 DEF SettledIsFound
    <3>4. IsMatch(p, k.id)'
      BY <1>0, <1>2, <1>6, <2>2, <3>1, <3>3, YoungerMatch
    <3> QED
      BY <1>2, <3>1, <3>4 DEF IsMatch, Matching
  <2>5. CASE /\ ~ (/\ k.op = "lookup" /\ k.path = p /\ k.alone
                   /\ IsMatch(p, k.id) \/ Matching(p) = {})
             /\ settled[p] # k.id
    <3>1. p \notin rec.paths /\ settled'[p] = settled[p]
      BY <1>12, <2>1, <2>5 DEF Settles
    <3>2. settled[p] \in Ids /\ IsMatch(p, settled[p])
      BY <1>12, <3>1 DEF SettledIsFound
    <3>3. PICK s \in Ids : s = settled[p]
      BY <3>2
    <3>4. IsMatch(p, s)'
      BY <1>0, <1>2, <1>6, <2>5, <3>1, <3>2, <3>3, StillMatch
    <3> QED
      BY <3>1, <3>3, <3>4 DEF IsMatch, Matching
  <2> QED
    BY <2>3, <2>4, <2>5
<1> QED
  BY <1>9, <1>10, <1>11, <1>12 DEF SettledIsFound

LEMMA SettleStep ==
    ASSUME SettleInv, [Next]_vars
    PROVE  SettleInv'
<1> USE DEF SettleInv
<1>0. KeptInv' /\ TypeInv
  BY KeptStep DEF KeptInv
<1>1. ASSUME NEW c \in Calls, Begin(c)
      PROVE  SettleInv'
  <2>1. PICK k \in Call :
          /\ Shaped(k) /\ k.at \in {"read", "list"} /\ k.snap = NoRecord
          /\ call' = Joins(c, k) \/ call' = [call EXCEPT ![c] = k]
    BY <1>0, <1>1, BeginFacts
  <2>2. db' = db /\ now' = now /\ settled' = settled
    BY <1>0, <1>1, BeginFacts
  <2>3. Ready(k) /\ ReadLast(k)
    BY <2>1 DEF Ready, ReadLast
  <2> QED
    BY <1>0, <2>1, <2>2, <2>3, JoinSettle, GoOnSettle
<1>2. ASSUME NEW c \in Calls, List(c)
      PROVE  SettleInv'
  <2>1. PICK k \in Call :
          /\ Shaped(k) /\ call' = Joins(c, k) /\ k.id \in Ids
          /\ \/ k.at = "read" /\ k.snap = call[c].snap
             \/ k.at = "put" /\ k.snap = db[k.id] /\ k.since = now
    BY <1>0, <1>2, ListFacts
  <2>2. db' = db /\ now' = now /\ settled' = settled
    BY <1>0, <1>2, ListFacts
  <2>3. call[c].snap = NoRecord
    BY <1>2 DEF List, InHand, Ready
  <2>4. now \in Nat
    BY <1>0 DEF TypeInv, TypeOK
  <2>5. Ready(k) /\ ReadLast(k)
    BY <2>1, <2>3, <2>4 DEF Ready, ReadLast, DatedBefore
  <2> QED
    BY <1>0, <2>1, <2>2, <2>5, JoinSettle
<1>3. ASSUME NEW c \in Calls, ReadRecord(c)
      PROVE  SettleInv'
  <2>1. PICK k \in Call :
          /\ Shaped(k)
          /\ \/ /\ call' = Joins(c, k) /\ k.at = "purge"
                /\ k.id \in Ids /\ db[k.id] = NoRecord /\ k.snap = call[c].snap
             \/ call' = [call EXCEPT ![c] = k] /\ k.at = "idle"
             \/ /\ call' = [call EXCEPT ![c] = k] /\ k.at = "put"
                /\ k.snap = db[k.id] /\ k.since = now
    BY <1>0, <1>3, ReadFacts
  <2>2. db' = db /\ now' = now /\ settled' = settled
    BY <1>0, <1>3, ReadFacts
  <2>3. call[c].snap = NoRecord
    BY <1>3 DEF ReadRecord, InHand, Ready
  <2>4. now \in Nat
    BY <1>0 DEF TypeInv, TypeOK
  <2>5. k.at = "put" => k.id \in Ids
    BY <2>1 DEF Shaped
  <2>6. Ready(k) /\ ReadLast(k)
    BY <2>1, <2>3, <2>4, <2>5 DEF Ready, ReadLast, DatedBefore
  <2> QED
    BY <1>0, <2>1, <2>2, <2>6, JoinSettle, GoOnSettle
<1>4. ASSUME NEW c \in Calls, Purge(c)
      PROVE  SettleInv'
  <2>1. PICK k \in Call :
          /\ Shaped(k) /\ call' = [call EXCEPT ![c] = k]
          /\ \/ k.at = "idle"
             \/ /\ k.at = "put" /\ k.id = call[c].id
                /\ k.alone = call[c].alone
                /\ k.snap = call[c].snap /\ k.since = now
    BY <1>0, <1>4, PurgeFacts
  <2>2. PICK r \in Ids : r = call[c].id
    BY <1>0, <1>4, PurgeFacts
  <2>3. call[c].at = "purge" /\ now' = now
    BY <1>0, <1>4, PurgeFacts
  <2>4. call[c].snap = NoRecord
    BY <2>3 DEF InHand, Ready
  <2>5. now \in Nat
    BY <1>0 DEF TypeInv, TypeOK
  <2>6. Ready(k)
    BY <2>1, <2>4, <2>5 DEF Ready
  <2>7. ReadLast(k)
    BY <2>1, <2>3 DEF AloneReadsLast, ReadLast
  <2>8. CASE db' = db /\ settled' = settled
    BY <1>0, <2>1, <2>3, <2>6, <2>7, <2>8, GoOnSettle
  <2>9. CASE /\ db' = [db EXCEPT ![r] = NoRecord]
             /\ settled' = [p \in Paths |-> IF settled[p] = r THEN NoId ELSE settled[p]]
    <3>1. call'[c] = k /\ \A d \in Calls \ {c} : call'[d] = call[d]
      BY <1>0, <2>1 DEF TypeInv, TypeOK
    <3>2. db'[r] = NoRecord
      BY <1>0, <2>9 DEF TypeInv, TypeOK
    <3>3. ReadLast(call[c])'
      BY <2>1, <2>2, <3>1, <3>2 DEF ReadLast
    <3>4. Ready(call[c])'
      BY <2>3, <2>6, <3>1 DEF Ready
    <3> QED
      BY <1>0, <2>3, <2>9, <3>1, <3>3, <3>4, DeleteSettle
  <2> QED
    BY <1>4, <2>2, <2>8, <2>9 DEF Purge
<1>5. ASSUME NEW c \in Calls, Put(c)
      PROVE  SettleInv'
  BY <1>0, <1>5, PutSettle
<1>6. ASSUME NEW c \in Calls, Fail(c)
      PROVE  SettleInv'
  <2>1. Ready(Idle) /\ ReadLast(Idle)
    BY IdleType DEF Ready, ReadLast
  <2> QED
    BY <1>0, <1>6, <2>1, IdleType, GoOnSettle DEF Fail
<1>7. ASSUME NEW r \in Ids, DeleteContext(r)
      PROVE  SettleInv'
  BY <1>0, <1>7, DeleteSettle DEF DeleteContext
<1>8. CASE Tick
  <2>1. /\ now \in Nat /\ now' = now + 1
        /\ UNCHANGED <<db, call, settled>>
    BY <1>0, <1>8 DEF Tick, TypeInv, TypeOK
  <2>2. \A r \in Ids : db[r] # NoRecord => db[r].at \in Nat
    BY <1>0 DEF TypeInv, TypeOK, Record
  <2>3. DatedBefore'
    BY <2>1, <2>2 DEF DatedBefore
  <2>4. \A c \in Calls : call[c].since \in Nat
    BY <1>0 DEF TypeInv, TypeOK, Call
  <2>5. InHand'
    BY <2>1, <2>4 DEF InHand, Ready
  <2>6. AloneReadsLast' /\ SettledIsFound'
    BY <2>1 DEF AloneReadsLast, ReadLast, SettledIsFound, IsMatch, Matching
  <2> QED
    BY <1>0, <2>3, <2>5, <2>6
<1>9. CASE Crash
  <2>1. UNCHANGED <<db, now, settled>> /\ \A c \in Calls : call'[c].at = "idle"
    BY <1>9, IdleType DEF Crash
  <2> QED
    BY <1>0, <2>1 DEF DatedBefore, InHand, Ready, AloneReadsLast, ReadLast,
                      SettledIsFound, IsMatch, Matching
<1>10. CASE UNCHANGED vars
  BY <1>0, <1>10 DEF vars, DatedBefore, InHand, Ready, AloneReadsLast, ReadLast,
                     SettledIsFound, IsMatch, Matching
<1> QED
  BY <1>1, <1>2, <1>3, <1>4, <1>5, <1>6, <1>7, <1>8, <1>9, <1>10 DEF Next, Await

\* A call that is to list the records does so next, or ends.
LEMMA ListedNext ==
    ASSUME TypeInv, Next, NEW c \in Calls, call[c].at = "list"
    PROVE  List(c) \/ call'[c].at = "list" \/ call'[c].op = "none"
<1>1. ASSUME NEW d \in Calls \ {c}, Begin(d) \/ Await(d) \/ Fail(d)
      PROVE  call'[c].at = "list"
  <2>1. \E k \in Call : /\ Shaped(k)
                        /\ call' = Joins(d, k) \/ call' = [call EXCEPT ![d] = k]
    <3>1. CASE Begin(d)
      BY <3>1, BeginFacts
    <3>2. CASE List(d)
      BY <3>2, ListFacts
    <3>3. CASE ReadRecord(d)
      BY <3>3, ReadFacts
    <3>4. CASE Purge(d)
      BY <3>4, PurgeFacts
    <3>5. CASE Put(d) \/ Fail(d)
      BY <3>5, PutFacts, IdleType DEF Fail
    <3> QED
      BY <1>1, <3>1, <3>2, <3>3, <3>4, <3>5 DEF Await
  <2>2. PICK k \in Call : /\ Shaped(k)
                          /\ call' = Joins(d, k) \/ call' = [call EXCEPT ![d] = k]
    BY <2>1
  <2>3. CASE call' = Joins(d, k)
    <3>1. call'[c] = [call[c] EXCEPT !.alone = call'[c].alone]
      BY <1>1, <2>2, <2>3, JoinsFacts
    <3> QED
      BY <3>1 DEF TypeInv, TypeOK, Call
  <2>4. CASE call' = [call EXCEPT ![d] = k]
    BY <1>1, <2>4 DEF TypeInv, TypeOK
  <2> QED
    BY <2>2, <2>3, <2>4
<1>2. ~Begin(c) /\ ~ReadRecord(c) /\ ~Purge(c) /\ ~Put(c)
  BY DEF Begin, CreateContext, PatchContext, GetContext, FileLookup, ReadRecord, Purge, Put
<1>3. Fail(c) => call'[c].op = "none"
  BY IdleType DEF Fail, TypeInv, TypeOK
<1>4. CASE Tick \/ \E r \in Ids : DeleteContext(r)
  BY <1>4 DEF Tick, DeleteContext
<1>5. CASE Crash
  BY <1>5, IdleType DEF Crash
<1> QED
  BY <1>1, <1>2, <1>3, <1>4, <1>5 DEF Next, Await

\* Once a lookup of a file has overlapped nothing, later ones find the record it
\* answered, until another of the file is written or this one by overlapping calls,
\* for any number of records, files and calls.
THEOREM LookupsAgree == Spec => LookupsSettle
<1>1. Init => SettleInv
  <2> SUFFICES ASSUME Init PROVE SettleInv
    OBVIOUS
  <2>1. KeptInv
    BY InitKept
  <2>2. DatedBefore /\ SettledIsFound
    BY DEF Init, DatedBefore, SettledIsFound
  <2>3. InHand /\ AloneReadsLast
    BY IdleType DEF Init, InHand, Ready, AloneReadsLast, ReadLast
  <2> QED
    BY <2>1, <2>2, <2>3 DEF SettleInv
<1>2. SettleInv /\ [Next]_vars =>
        [\A c \in Calls :
           LET p == call[c].path
           IN  call[c].at = "list" /\ call'[c].op = "lookup" /\ settled[p] # NoId
                 => call'[c].at = "list" \/ call'[c].id = settled[p]]_vars
  <2> SUFFICES ASSUME SettleInv, Next, NEW c \in Calls, call[c].at = "list",
                      call'[c].op = "lookup", settled[call[c].path] # NoId,
                      call'[c].at # "list"
               PROVE  call'[c].id = settled[call[c].path]
    OBVIOUS
  <2>1. TypeInv
    BY DEF SettleInv, KeptInv
  <2>2. List(c)
    BY <2>1, ListedNext
  <2>3. call[c].path \in Paths
    BY <2>1 DEF TypeInv, CallShape, Shaped
  <2>4. /\ settled[call[c].path] \in Ids
        /\ IsMatch(call[c].path, settled[call[c].path])
    BY <2>3 DEF SettleInv, SettledIsFound
  <2>5. PICK k \in Call :
          /\ Shaped(k) /\ call' = Joins(c, k) /\ k.id \in Ids
          /\ Matching(call[c].path) = {} \/ IsMatch(call[c].path, k.id)
    BY <2>1, <2>2, ListFacts
  <2>6. Matching(call[c].path) # {}
    BY <2>4 DEF IsMatch
  <2>7. k.id = settled[call[c].path]
    BY <2>1, <2>3, <2>4, <2>5, <2>6, OneMatch
  <2>8. call'[c].id = k.id
    <3>1. call'[c] = [k EXCEPT !.alone = call'[c].alone]
      BY <2>1, <2>5, JoinsFacts
    <3> QED
      BY <3>1, OnlyAlone
  <2> QED
    BY <2>7, <2>8
<1> QED
  BY <1>1, <1>2, SettleStep, PTL DEF Spec, LookupsSettle
=============================================================================
