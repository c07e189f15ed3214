------------------------ MODULE TaskRepositoryProofs ------------------------
(***************************************************************************)
(* Proofs about TaskRepository, for any number of tasks, branches and      *)
(* calls, with and without faults.                                         *)
(*                                                                         *)
(* LookupInv carries LookupsAnswerRight.  A lookup answers what it has     *)
(* seen in the records itself: the indexed task whose record it has read,  *)
(* or what its scan found, which it still answers when records change      *)
(* before the index is written.                                            *)
(*                                                                         *)
(* IndexInv carries OneTaskPerBranch and FreeBranchesAvailable: of a       *)
(* branch that is not disturbed, the calls that concern it are lookups, or *)
(* one call alone, and what that has read is still true when it writes.    *)
(***************************************************************************)
EXTENDS TaskRepository, FiniteSetTheorems, TLAPS

LookupPlaces == {"lookup", "verify", "repair", "scan", "reindex", "answered"}

\* What a call has in hand, by the await it is at.
Shaped(k) ==
    /\ k.at \in LookupPlaces <=> k.op = "find"
    /\ k.op = "find" => k.branch \in Branches /\ k.task = NoTask /\ k.old = NoBranch
    /\ k.op = "delete" => k.branch = NoBranch
    /\ k.at = "read" => k.op \in {"update", "delete"}
    /\ k.at \in {"read", "check", "put", "unindex", "index"} => k.task \in Tasks
    /\ k.at \in {"check", "index"} => k.branch \in Branches
    /\ k.at = "unindex" => k.old \in Branches /\ k.old # k.branch
    /\ k.at \in {"verify", "reindex"} => k.found \in Tasks

CallShape == \A c \in Calls : Shaped(call[c])

TypeInv == TypeOK /\ CallShape

FoundRight == \A c \in Calls : call[c].at = "reindex" => call[c].found \in right[c]

LookupInv == TypeInv /\ FoundRight /\ LookupsAnswerRight

-----------------------------------------------------------------------------
(* The parts the actions are built from.                                   *)

LEMMA IdleType ==
    /\ Idle \in Call
    /\ Idle.at = "idle" /\ Idle.op = "none"
BY DEF Idle, Call, Places, MaybeTask, MaybeBranch

LEMMA WitnessType ==
    ASSUME TypeOK, Witness
    PROVE  right' \in [Calls -> SUBSET MaybeTask]
<1>1. \A ts, b : Answers(ts, b) \subseteq MaybeTask
  BY DEF Answers, MaybeTask
<1> QED
  BY <1>1 DEF TypeOK, Witness

\* A step that writes the record k of one call only.
LEMMA OneCallType ==
    ASSUME TypeInv, NEW c \in Calls, NEW k \in Call, Shaped(k),
           call' = [call EXCEPT ![c] = k]
    PROVE  call' \in [Calls -> Call] /\ CallShape'
BY DEF TypeInv, TypeOK, CallShape, Shaped

LEMMA IdleShaped == Shaped(Idle)
BY IdleType DEF Shaped, LookupPlaces, Idle

LEMMA ReturnType ==
    ASSUME TypeInv, NEW c \in Calls, Return(c)
    PROVE  call' \in [Calls -> Call] /\ CallShape'
BY OneCallType, IdleType, IdleShaped DEF Return

LEMMA GotoType ==
    ASSUME TypeInv, NEW c \in Calls, NEW place \in Places, Goto(c, place),
           Shaped([call[c] EXCEPT !.at = place])
    PROVE  call' \in [Calls -> Call] /\ CallShape'
<1>1. [call[c] EXCEPT !.at = place] \in Call
  BY DEF TypeInv, TypeOK, Call
<1>2. call' = [call EXCEPT ![c] = [call[c] EXCEPT !.at = place]]
  BY DEF Goto
<1> QED
  BY <1>1, <1>2, OneCallType

LEMMA AnswerType ==
    ASSUME TypeInv, NEW c \in Calls, NEW t \in MaybeTask, Answer(c, t),
           call[c].op = "find"
    PROVE  /\ call' \in [Calls -> Call] /\ CallShape'
           /\ disturbed' \subseteq Branches
           /\ call'[c].found = t /\ call'[c].at = "answered"
           /\ \A d \in Calls \ {c} : call'[d] = call[d]
<1> DEFINE k == [call[c] EXCEPT !.at = "answered", !.found = t]
<1>1. k \in Call /\ Shaped(k) /\ k.found = t /\ k.at = "answered"
  BY ZenonT(40) DEF TypeInv, TypeOK, CallShape, Shaped, Call, Places, LookupPlaces
<1>2. call' = [call EXCEPT ![c] = k]
  BY DEF Answer
<1> HIDE DEF k
<1>3. call' \in [Calls -> Call] /\ CallShape'
  BY <1>1, <1>2, OneCallType
<1> QED
  BY <1>1, <1>2, <1>3 DEF Answer, TypeInv, TypeOK

LEMMA StartType ==
    ASSUME TypeInv, NEW c \in Calls, NEW k \in Call, Shaped(k), Start(c, k)
    PROVE  /\ call' \in [Calls -> Call] /\ CallShape'
           /\ disturbed' \subseteq Branches
           /\ tasks' = tasks /\ index' = index
           /\ call'[c].op = k.op /\ call'[c].at = k.at
           /\ \A d \in Calls \ {c} :
                /\ call'[d].op = call[d].op /\ call'[d].at = call[d].at
                /\ call'[d].branch = call[d].branch
                /\ call'[d].found = call[d].found
<1>1. \A l : Concerns(l) \subseteq Branches
  BY DEF Concerns
<1>2. disturbed' \subseteq Branches
  BY <1>1 DEF Start, Disturbs, TypeInv, TypeOK
<1>3. ASSUME NEW l \in Call, NEW b \in BOOLEAN
      PROVE  /\ [l EXCEPT !.alone = b] \in Call
             /\ Shaped(l) => Shaped([l EXCEPT !.alone = b])
             /\ [l EXCEPT !.alone = b].op = l.op
             /\ [l EXCEPT !.alone = b].at = l.at
             /\ [l EXCEPT !.alone = b].branch = l.branch
             /\ [l EXCEPT !.alone = b].found = l.found
  BY <1>3 DEF Call, Shaped
<1>4. call'[c] = [k EXCEPT !.alone = Met(k) = {}]
  BY DEF Start
<1>5. \A d \in Calls \ {c} :
        call'[d] = [call[d] EXCEPT !.alone = call[d].alone /\ d \notin Met(k)]
  BY DEF Start
<1>6. /\ call'[c] \in Call /\ Shaped(call'[c])
      /\ call'[c].op = k.op /\ call'[c].at = k.at
  BY <1>3, <1>4
<1>7. ASSUME NEW d \in Calls \ {c}
      PROVE  /\ call'[d] \in Call /\ Shaped(call'[d])
             /\ call'[d].op = call[d].op /\ call'[d].at = call[d].at
             /\ call'[d].branch = call[d].branch
             /\ call'[d].found = call[d].found
  <2>1. call[d] \in Call /\ Shaped(call[d])
    BY DEF TypeInv, TypeOK, CallShape, Shaped
  <2>2. (call[d].alone /\ d \notin Met(k)) \in BOOLEAN
    OBVIOUS
  <2> QED
    BY <1>3, <1>5, <2>1, <2>2, ZenonT(40)
<1>8. DOMAIN call' = Calls /\ call' = [d \in DOMAIN call' |-> call'[d]]
  BY DEF Start
<1>9. CallShape' /\ call' \in [Calls -> Call]
  BY <1>6, <1>7, <1>8 DEF CallShape, Shaped
<1> QED
  BY <1>2, <1>6, <1>7, <1>9 DEF Start

-----------------------------------------------------------------------------
(* Types.                                                                  *)

\* Call c begins as k.
Begins(c, k) ==
    /\ Start(c, k) /\ Shaped(k) /\ fresh' \subseteq fresh
    /\ k.at \in {"read", "check", "put", "lookup"}
    /\ k.old = NoBranch
    /\ k.at \in {"check", "put"} => k.task \in fresh \ fresh'
    /\ k.at = "put" => k.branch = NoBranch

LEMMA BeginFacts ==
    ASSUME TypeInv, NEW c \in Calls, Begin(c)
    PROVE  \E k \in Call : Begins(c, k)
<1>1. ASSUME NEW t \in Tasks, NEW b \in MaybeBranch, Create(c, t, b)
      PROVE  \E k \in Call : Begins(c, k)
  <2> DEFINE k == [Idle EXCEPT !.op = "create", !.task = t, !.branch = b,
                               !.at = IF b = NoBranch THEN "put" ELSE "check"]
  <2>1. /\ k \in Call /\ Shaped(k) /\ k.old = NoBranch
        /\ k.at \in {"read", "check", "put", "lookup"}
        /\ k.at \in {"check", "put"} => k.task = t
        /\ k.at = "put" => k.branch = NoBranch
    BY DistinctValues
    DEF Idle, Call, Shaped, Places, LookupPlaces, MaybeTask, MaybeBranch
  <2>2. Start(c, k) /\ fresh' \subseteq fresh /\ t \in fresh \ fresh'
    BY <1>1 DEF Create
  <2> QED
    BY <2>1, <2>2 DEF Begins
<1>2. ASSUME NEW t \in Tasks, NEW b \in MaybeBranch, Update(c, t, b)
      PROVE  \E k \in Call : Begins(c, k)
  <2> DEFINE k == [Idle EXCEPT !.op = "update", !.at = "read",
                               !.task = t, !.branch = b]
  <2>1. /\ k \in Call /\ Shaped(k) /\ k.old = NoBranch
        /\ k.at = "read"
    BY DistinctValues
    DEF Idle, Call, Shaped, Places, LookupPlaces, MaybeTask, MaybeBranch
  <2>2. Start(c, k) /\ fresh' \subseteq fresh
    BY <1>2 DEF Update
  <2> QED
    BY <2>1, <2>2 DEF Begins
<1>3. ASSUME NEW t \in Tasks, Delete(c, t)
      PROVE  \E k \in Call : Begins(c, k)
  <2> DEFINE k == [Idle EXCEPT !.op = "delete", !.at = "read", !.task = t]
  <2>1. /\ k \in Call /\ Shaped(k) /\ k.old = NoBranch
        /\ k.at = "read"
    BY DistinctValues
    DEF Idle, Call, Shaped, Places, LookupPlaces, MaybeTask, MaybeBranch
  <2>2. Start(c, k) /\ fresh' \subseteq fresh
    BY <1>3 DEF Delete
  <2> QED
    BY <2>1, <2>2 DEF Begins
<1>4. ASSUME NEW b \in Branches, FindByBranch(c, b)
      PROVE  \E k \in Call : Begins(c, k)
  <2> DEFINE k == [Idle EXCEPT !.op = "find", !.at = "lookup", !.branch = b]
  <2>1. /\ k \in Call /\ Shaped(k) /\ k.old = NoBranch
        /\ k.at = "lookup"
    BY DistinctValues
    DEF Idle, Call, Shaped, Places, LookupPlaces, MaybeTask, MaybeBranch
  <2>2. Start(c, k) /\ fresh' \subseteq fresh
    BY <1>4 DEF FindByBranch
  <2> QED
    BY <2>1, <2>2 DEF Begins
<1> QED
  BY <1>1, <1>2, <1>3, <1>4 DEF Begin

\* What an await of create, update or delete leaves.
LEMMA WriterTypes ==
    ASSUME TypeInv, NEW c \in Calls,
           \/ ReadExisting(c) \/ AssertBranchAvailable(c) \/ PutTask(c)
           \/ Unindex(c) \/ SetBranchIndex(c)
    PROVE  /\ tasks' \in [Tasks -> MaybeBranch \cup {Missing}]
           /\ index' \in [Branches -> MaybeTask]
           /\ fresh' = fresh
           /\ disturbed' \subseteq Branches
           /\ call' \in [Calls -> Call] /\ CallShape'
<1> USE DEF TypeInv
<1>0. /\ call[c] \in Call /\ Shaped(call[c])
      /\ \A p \in Places :
           /\ [call[c] EXCEPT !.at = p].op = call[c].op
           /\ [call[c] EXCEPT !.at = p].at = p
           /\ [call[c] EXCEPT !.at = p].task = call[c].task
           /\ [call[c] EXCEPT !.at = p].branch = call[c].branch
           /\ [call[c] EXCEPT !.at = p].old = call[c].old
  BY DEF TypeOK, CallShape, Shaped, Call
<1>1. CASE ReadExisting(c)
  <2> DEFINE old == tasks[call[c].task]
             next == IF call[c].op = "update"
                        /\ call[c].branch \notin {NoBranch, old}
                     THEN "check" ELSE "put"
             k == [call[c] EXCEPT !.old = old, !.at = next]
  <2>1. CASE old = Missing
    BY <1>1, <2>1, ReturnType DEF ReadExisting, store, TypeOK
  <2>2. CASE old # Missing
    <3>1. call[c].at = "read" /\ call[c].task \in Tasks /\ old \in MaybeBranch
      BY <1>0, <1>1, <2>2 DEF ReadExisting, Shaped, TypeOK
    <3>2. next = "check" => call[c].branch \in Branches
      BY <1>0 DEF Call, MaybeBranch
    <3>3. k \in Call /\ Shaped(k)
      BY <1>0, <3>1, <3>2, ZenonT(40) DEF Call, Shaped, Places, LookupPlaces
    <3>4. call' = [call EXCEPT ![c] = k]
      BY <1>1, <2>2 DEF ReadExisting
    <3> HIDE DEF k
    <3> QED
      BY <1>1, <3>3, <3>4, OneCallType DEF ReadExisting, store, TypeOK
  <2> QED
    BY <2>1, <2>2
<1>2. CASE AssertBranchAvailable(c)
  <2>1. call[c].at = "check"
    BY <1>2 DEF AssertBranchAvailable
  <2>2. Shaped([call[c] EXCEPT !.at = "put"])
    BY <1>0, <2>1 DEF Shaped, Places, LookupPlaces
  <2>3. "put" \in Places
    BY DEF Places
  <2>4. Goto(c, "put") \/ Return(c)
    BY <1>2 DEF AssertBranchAvailable
  <2>5. call' \in [Calls -> Call] /\ CallShape'
    BY <2>2, <2>3, <2>4, GotoType, ReturnType
  <2>6. call[c].branch \in Branches
    BY <1>0, <2>1 DEF Shaped
  <2> QED
    BY <1>2, <2>5, <2>6 DEF AssertBranchAvailable, store, TypeOK
<1>3. CASE PutTask(c)
  <2>1. call[c].at = "put" /\ call[c].op # "find"
    BY <1>0, <1>3 DEF PutTask, Shaped, LookupPlaces
  <2>2. ASSUME Leaves(call[c]) PROVE Shaped([call[c] EXCEPT !.at = "unindex"])
    BY <1>0, <2>1, <2>2
    DEF Shaped, Places, LookupPlaces, Leaves, Call, MaybeBranch
  <2>3. ASSUME call[c].branch # NoBranch
        PROVE  Shaped([call[c] EXCEPT !.at = "index"])
    BY <1>0, <2>1, <2>3 DEF Shaped, Places, LookupPlaces, Call, MaybeBranch
  <2>4. {"unindex", "index"} \subseteq Places
    BY DEF Places
  <2>5. \/ Leaves(call[c]) /\ Goto(c, "unindex")
        \/ call[c].branch # NoBranch /\ Goto(c, "index")
        \/ Return(c)
    BY <1>3 DEF PutTask
  <2>6. call' \in [Calls -> Call] /\ CallShape'
    BY <2>2, <2>3, <2>4, <2>5, GotoType, ReturnType
  <2>7. tasks' \in [Tasks -> MaybeBranch \cup {Missing}]
    BY <1>0, <1>3 DEF PutTask, TypeOK, Call
  <2> QED
    BY <1>3, <2>6, <2>7 DEF PutTask, TypeOK
<1>4. CASE Unindex(c)
  <2>1. call[c].at = "unindex" /\ call[c].op # "find" /\ call[c].old \in Branches
    BY <1>0, <1>4 DEF Unindex, Shaped, LookupPlaces
  <2>2. ASSUME call[c].branch # NoBranch
        PROVE  Shaped([call[c] EXCEPT !.at = "index"])
    BY <1>0, <2>1, <2>2 DEF Shaped, Places, LookupPlaces, Call, MaybeBranch
  <2>3. "index" \in Places
    BY DEF Places
  <2>4. (call[c].branch # NoBranch /\ Goto(c, "index")) \/ Return(c)
    BY <1>4 DEF Unindex
  <2>5. call' \in [Calls -> Call] /\ CallShape'
    BY <2>2, <2>3, <2>4, GotoType, ReturnType
  <2>6. index' \in [Branches -> MaybeTask]
    BY <1>4 DEF Unindex, TypeOK, MaybeTask
  <2> QED
    BY <1>4, <2>1, <2>5, <2>6 DEF Unindex, TypeOK
<1>5. CASE SetBranchIndex(c)
  <2>1. index' \in [Branches -> MaybeTask]
    BY <1>0, <1>5 DEF SetBranchIndex, TypeOK, Call
  <2> QED
    BY <1>5, <2>1, ReturnType DEF SetBranchIndex, TypeOK
<1> QED
  BY <1>1, <1>2, <1>3, <1>4, <1>5

\* What an await of findByBranch leaves.
LEMMA LookupTypes ==
    ASSUME TypeInv, NEW c \in Calls,
           \/ LookupIndex(c) \/ VerifyIndexed(c) \/ RemoveStale(c)
           \/ ScanTasks(c) \/ Reindex(c) \/ Forget(c)
    PROVE  /\ tasks' = tasks
           /\ index' \in [Branches -> MaybeTask]
           /\ fresh' = fresh
           /\ disturbed' \subseteq Branches
           /\ call' \in [Calls -> Call] /\ CallShape'
<1> USE DEF TypeInv
<1>0. call[c] \in Call /\ Shaped(call[c])
  BY DEF TypeOK, CallShape, Shaped
<1>1. CASE LookupIndex(c)
  <2>1. PICK t \in MaybeTask, ok \in BOOLEAN :
          call' = [call EXCEPT ![c] =
                     [call[c] EXCEPT !.found = t, !.alone = @ /\ ok,
                        !.at = IF t = NoTask THEN "scan" ELSE "verify"]]
    <3>1. call[c].at = "lookup" /\ call[c].branch \in Branches
      BY <1>0, <1>1 DEF LookupIndex, Shaped, LookupPlaces
    <3>2. index[call[c].branch] \in MaybeTask /\ NoTask \in MaybeTask
      BY <3>1 DEF TypeOK, MaybeTask
    <3> QED
      BY <1>1, <3>2 DEF LookupIndex
  <2> DEFINE k == [call[c] EXCEPT !.found = t, !.alone = @ /\ ok,
                     !.at = IF t = NoTask THEN "scan" ELSE "verify"]
  <2>2. call[c].at = "lookup"
    BY <1>1 DEF LookupIndex
  <2>3. (call[c].alone /\ ok) \in BOOLEAN
    OBVIOUS
  <2>4. k \in Call
    BY <1>0, <2>3 DEF Call, Places
  <2>5. Shaped(k)
    BY <1>0, <2>2 DEF Call, Shaped, LookupPlaces, MaybeTask
  <2>6. call' = [call EXCEPT ![c] = k]
    BY <2>1
  <2> HIDE DEF k
  <2> QED
    BY <1>1, <2>4, <2>5, <2>6, OneCallType DEF LookupIndex, store, TypeOK
<1>2. CASE VerifyIndexed(c)
  <2>1. call[c].at = "verify" /\ call[c].op = "find" /\ call[c].found \in MaybeTask
    BY <1>0, <1>2 DEF VerifyIndexed, Shaped, LookupPlaces, Call
  <2>2. Shaped([call[c] EXCEPT !.at = "repair"]) /\ "repair" \in Places
    BY <1>0, <2>1 DEF Shaped, LookupPlaces, Places, Call
  <2>3. \/ Answer(c, call[c].found)
        \/ Goto(c, "repair") /\ disturbed' = disturbed
    BY <1>2 DEF VerifyIndexed
  <2>4. call' \in [Calls -> Call] /\ CallShape' /\ disturbed' \subseteq Branches
    BY <2>1, <2>2, <2>3, AnswerType, GotoType DEF TypeOK
  <2> QED
    BY <1>2, <2>4 DEF VerifyIndexed, store, TypeOK
<1>3. CASE RemoveStale(c)
  <2>1. call[c].at = "repair"
    BY <1>3 DEF RemoveStale
  <2>2. ASSUME NEW alone \in BOOLEAN
        PROVE  LET k == [call[c] EXCEPT !.at = "scan", !.alone = alone]
               IN  k \in Call /\ Shaped(k)
    BY <1>0, <2>1 DEF Shaped, LookupPlaces, Places, Call
  <2>3. PICK alone \in BOOLEAN :
          call' = [call EXCEPT ![c] = [call[c] EXCEPT !.at = "scan", !.alone = alone]]
    <3>1. CASE Goto(c, "scan")
      <4>1. [call[c] EXCEPT !.at = "scan"]
              = [call[c] EXCEPT !.at = "scan", !.alone = call[c].alone]
        BY <1>0 DEF Call
      <4>2. call[c].alone \in BOOLEAN
        BY <1>0 DEF Call
      <4> QED
        BY <3>1, <4>1, <4>2 DEF Goto
    <3>2. CASE call' = [call EXCEPT ![c] = [call[c] EXCEPT !.at = "scan",
                                                          !.alone = FALSE]]
      BY <3>2
    <3>3. \/ Goto(c, "scan")
          \/ call' = [call EXCEPT ![c].at = "scan", ![c].alone = FALSE]
      BY <1>3 DEF RemoveStale
    <3>4. [call EXCEPT ![c].at = "scan", ![c].alone = FALSE]
            = [call EXCEPT ![c] = [call[c] EXCEPT !.at = "scan", !.alone = FALSE]]
      BY DEF TypeOK, Call
    <3> QED
      BY <3>1, <3>2, <3>3, <3>4
  <2>4. index' \in [Branches -> MaybeTask]
    BY <1>3 DEF RemoveStale, TypeOK, MaybeTask
  <2>5. call' \in [Calls -> Call] /\ CallShape'
    BY <2>2, <2>3, OneCallType
  <2> QED
    BY <1>3, <2>4, <2>5 DEF RemoveStale, TypeOK
<1>4. CASE ScanTasks(c)
  <2>1. call[c].at = "scan" /\ call[c].op = "find" /\ NoTask \in MaybeTask
    BY <1>0, <1>4 DEF ScanTasks, Shaped, LookupPlaces, MaybeTask
  <2>2. CASE Answer(c, NoTask)
    BY <1>4, <2>1, <2>2, AnswerType DEF ScanTasks, store, TypeOK
  <2>3. CASE \E t \in Holders(call[c].branch) :
               /\ call' = [call EXCEPT ![c].found = t, ![c].at = "reindex"]
               /\ disturbed' = disturbed
    <3>1. PICK t \in Tasks :
            /\ call' = [call EXCEPT ![c] = [call[c] EXCEPT !.found = t,
                                                           !.at = "reindex"]]
            /\ disturbed' = disturbed
      BY <2>3 DEF Holders, TypeOK, Call
    <3> DEFINE k == [call[c] EXCEPT !.found = t, !.at = "reindex"]
    <3>2. k \in Call /\ Shaped(k)
      BY <1>0, <2>1 DEF Shaped, LookupPlaces, Places, Call, MaybeTask
    <3> HIDE DEF k
    <3> QED
      BY <1>4, <3>1, <3>2, OneCallType DEF ScanTasks, store, TypeOK, k
  <2> QED
    BY <1>4, <2>2, <2>3 DEF ScanTasks
<1>5. CASE Reindex(c)
  <2>1. /\ call[c].at = "reindex" /\ call[c].op = "find"
        /\ call[c].found \in MaybeTask
    BY <1>0, <1>5 DEF Reindex, Shaped, LookupPlaces, Call
  <2>2. index' \in [Branches -> MaybeTask]
    BY <1>5, <2>1 DEF Reindex, TypeOK
  <2> QED
    BY <1>5, <2>1, <2>2, AnswerType DEF Reindex, TypeOK
<1>6. CASE Forget(c)
  BY <1>6, ReturnType DEF Forget, store, TypeOK
<1> QED
  BY <1>1, <1>2, <1>3, <1>4, <1>5, <1>6

LEMMA TypeStep ==
    ASSUME TypeInv, [Next]_vars
    PROVE  TypeInv'
<1> USE DEF TypeInv
<1>1. ASSUME NEW c \in Calls, Begin(c), Witness
      PROVE  TypeInv'
  <2>1. PICK k \in Call : Start(c, k) /\ Shaped(k) /\ fresh' \subseteq fresh
    BY <1>1, BeginFacts DEF Begins
  <2> QED
    BY <1>1, <2>1, StartType, WitnessType DEF TypeOK
<1>2. ASSUME NEW c \in Calls, Await(c), Witness
      PROVE  TypeInv'
  <2>1. /\ tasks' \in [Tasks -> MaybeBranch \cup {Missing}]
        /\ index' \in [Branches -> MaybeTask]
        /\ fresh' = fresh
        /\ disturbed' \subseteq Branches
        /\ call' \in [Calls -> Call] /\ CallShape'
    BY <1>2, WriterTypes, LookupTypes DEF Await, TypeOK
  <2> QED
    BY <1>2, <2>1, WitnessType DEF TypeOK
<1>3. ASSUME NEW c \in Calls, Fail(c), Witness
      PROVE  TypeInv'
  <2>1. disturbed' \subseteq Branches
    BY <1>3 DEF Fail, HalfDone, Concerns, TypeOK
  <2> QED
    BY <1>3, <2>1, ReturnType, WitnessType DEF Fail, store, TypeOK
<1>4. CASE Crash /\ Witness
  <2>1. disturbed' \subseteq Branches
    BY <1>4 DEF Crash, HalfDone, Concerns, TypeOK
  <2>2. call' \in [Calls -> Call] /\ CallShape'
    BY <1>4, IdleType, IdleShaped DEF Crash, CallShape, Shaped
  <2> QED
    BY <1>4, <2>1, <2>2, WitnessType DEF Crash, store, TypeOK
<1>5. CASE UNCHANGED vars
  BY <1>5 DEF vars, store, TypeOK, CallShape, Shaped
<1> QED
  BY <1>1, <1>2, <1>3, <1>4, <1>5 DEF Next

LEMMA TypeInit ==
    ASSUME Init
    PROVE  TypeInv
BY IdleType, IdleShaped
DEF Init, TypeInv, TypeOK, CallShape, Shaped, MaybeTask, MaybeBranch

\* Records, index entries and the calls in flight keep their shape.
THEOREM TypeCorrect == Spec => []TypeOK
<1>1. TypeInv => TypeOK
  BY DEF TypeInv
<1> QED
  BY <1>1, TypeInit, TypeStep, PTL DEF Spec

-----------------------------------------------------------------------------
(* LookupsAnswerRight.                                                     *)

\* A lookup in flight may answer all it might before, and what is true now.
LEMMA WitnessGrows ==
    ASSUME TypeOK, Witness, NEW c \in Calls,
           call[c].op = "find", call'[c].op = "find"
    PROVE  /\ right[c] \subseteq right'[c]
           /\ call[c].at # "answered" => Answers(tasks', call'[c].branch) \subseteq right'[c]
BY DEF Witness, TypeOK

\* A lookup that goes no further is as right as before.
LEMMA OthersRight ==
    ASSUME LookupInv, TypeInv', Witness, NEW d \in Calls,
           call'[d].op = call[d].op, call'[d].at = call[d].at,
           call'[d].found = call[d].found
    PROVE  call'[d].at \in {"reindex", "answered"} => call'[d].found \in right'[d]
<1>1. SUFFICES ASSUME call'[d].at \in {"reindex", "answered"}
               PROVE  call'[d].found \in right'[d]
  OBVIOUS
<1>2. call[d].op = "find" /\ call'[d].op = "find"
  BY <1>1 DEF LookupInv, TypeInv, CallShape, Shaped, LookupPlaces
<1>3. call[d].found \in right[d]
  BY <1>1 DEF LookupInv, FoundRight, LookupsAnswerRight
<1> QED
  BY <1>2, <1>3, WitnessGrows DEF LookupInv, TypeInv

\* A step of call c alone: whether c is right is what is left to see.
LEMMA OneCallRight ==
    ASSUME LookupInv, TypeInv', Witness, NEW c \in Calls,
           \A d \in Calls \ {c} : /\ call'[d].op = call[d].op
                                  /\ call'[d].at = call[d].at
                                  /\ call'[d].found = call[d].found,
           call'[c].at \in {"reindex", "answered"} => call'[c].found \in right'[c]
    PROVE  LookupInv'
BY OthersRight DEF LookupInv, FoundRight, LookupsAnswerRight

LEMMA AnswersOf ==
    ASSUME TypeOK, NEW b \in Branches, NEW t, t \in Answers(tasks, b),
           NEW c \in Calls, call[c].op = "find", call[c].at # "answered",
           call'[c].op = "find", call[c].branch = b, call'[c].branch = b,
           tasks' = tasks, Witness
    PROVE  t \in right'[c]
BY WitnessGrows

LEMMA AnswerRight ==
    ASSUME LookupInv, TypeInv', Witness, NEW c \in Calls, NEW t \in MaybeTask,
           Answer(c, t), call[c].op = "find", call[c].at # "answered",
           tasks' = tasks,
           t \in right[c] \cup Answers(tasks, call[c].branch)
    PROVE  LookupInv'
<1> USE DEF LookupInv, TypeInv
<1>1. /\ call'[c].found = t /\ call'[c].at = "answered"
      /\ \A d \in Calls \ {c} : call'[d] = call[d]
  BY AnswerType
<1>2. call'[c].op = "find" /\ call'[c].branch = call[c].branch
  BY DEF Answer, TypeOK, Call
<1>3. t \in right'[c]
  <2>1. /\ right[c] \subseteq right'[c]
        /\ Answers(tasks, call[c].branch) \subseteq right'[c]
    BY <1>2, WitnessGrows
  <2> QED
    BY <2>1
<1> QED
  BY <1>1, <1>3, OneCallRight

LEMMA LookupStep ==
    ASSUME LookupInv, [Next]_vars
    PROVE  LookupInv'
<1> USE DEF LookupInv
<1>0. TypeInv'
  BY TypeStep
<1>1. ASSUME NEW c \in Calls, Begin(c), Witness
      PROVE  LookupInv'
  <2>1. PICK k \in Call : /\ Start(c, k) /\ Shaped(k)
                          /\ k.at \in {"read", "check", "put", "lookup"}
    BY <1>1, BeginFacts DEF Begins
  <2>2. /\ call'[c].at = k.at
        /\ \A d \in Calls \ {c} :
             /\ call'[d].op = call[d].op /\ call'[d].at = call[d].at
             /\ call'[d].found = call[d].found
    BY <2>1, StartType
  <2> QED
    BY <1>0, <1>1, <2>1, <2>2, OneCallRight
<1>2. ASSUME NEW c \in Calls, Witness,
             \/ ReadExisting(c) \/ AssertBranchAvailable(c) \/ PutTask(c)
             \/ Unindex(c) \/ SetBranchIndex(c)
      PROVE  LookupInv'
  <2>1. call'[c].op # "find" /\ \A d \in Calls \ {c} : call'[d] = call[d]
    <3>1. call[c].op # "find"
      BY <1>2 DEF ReadExisting, AssertBranchAvailable, PutTask, Unindex,
                  SetBranchIndex, TypeInv, CallShape, Shaped, LookupPlaces
    <3>2. \/ Return(c)
          \/ \E p \in Places : Goto(c, p)
          \/ \E p \in Places, o \in MaybeBranch :
               call' = [call EXCEPT ![c] = [call[c] EXCEPT !.old = o, !.at = p]]
      <4>1. CASE ReadExisting(c) /\ tasks[call[c].task] # Missing
        <5> DEFINE old == tasks[call[c].task]
                   p == IF call[c].op = "update"
                           /\ call[c].branch \notin {NoBranch, old}
                        THEN "check" ELSE "put"
        <5>1. call[c].task \in Tasks
          BY <4>1 DEF ReadExisting, TypeInv, CallShape, Shaped
        <5>2. old \in MaybeBranch /\ p \in Places
          BY <4>1, <5>1 DEF TypeInv, TypeOK, Places
        <5>3. call' = [call EXCEPT ![c] = [call[c] EXCEPT !.old = old, !.at = p]]
          BY <4>1 DEF ReadExisting
        <5> HIDE DEF p, old
        <5> QED
          BY <5>2, <5>3
      <4>2. CASE ReadExisting(c) /\ tasks[call[c].task] = Missing
        BY <4>2 DEF ReadExisting
      <4>3. {"put", "unindex", "index"} \subseteq Places
        BY DEF Places
      <4> QED
        BY <1>2, <4>1, <4>2, <4>3
        DEF AssertBranchAvailable, PutTask, Unindex, SetBranchIndex
    <3> QED
      BY <3>1, <3>2, IdleType, ZenonT(40) DEF Return, Goto, TypeInv, TypeOK, Call
  <2>2. call'[c].at \notin {"reindex", "answered"}
    BY <1>0, <2>1 DEF TypeInv, CallShape, Shaped, LookupPlaces
  <2> QED
    BY <1>0, <1>2, <2>1, <2>2, OneCallRight
<1>3. ASSUME NEW c \in Calls, Witness, LookupIndex(c) \/ RemoveStale(c) \/ Forget(c)
      PROVE  LookupInv'
  <2>1. /\ call'[c].at \notin {"reindex", "answered"}
        /\ \A d \in Calls \ {c} : call'[d] = call[d]
    <3>1. CASE LookupIndex(c)
      BY <3>1, ZenonT(40) DEF LookupIndex, TypeInv, TypeOK, Call
    <3>2. CASE RemoveStale(c)
      BY <3>2 DEF RemoveStale, Goto, TypeInv, TypeOK, Call
    <3>3. CASE Forget(c)
      BY <3>3, IdleType DEF Forget, Return, TypeInv, TypeOK
    <3> QED
      BY <1>3, <3>1, <3>2, <3>3
  <2> QED
    BY <1>0, <1>3, <2>1, OneCallRight
<1>4. ASSUME NEW c \in Calls, Witness, VerifyIndexed(c)
      PROVE  LookupInv'
  <2>1. /\ call[c].at = "verify" /\ call[c].op = "find"
        /\ call[c].found \in Tasks /\ call[c].found \in MaybeTask
        /\ call[c].branch \in Branches
    BY <1>4 DEF VerifyIndexed, TypeInv, CallShape, Shaped, LookupPlaces, MaybeTask
  <2>2. CASE tasks[call[c].found] = call[c].branch /\ Answer(c, call[c].found)
    <3>1. call[c].found \in Answers(tasks, call[c].branch)
      BY <2>1, <2>2 DEF Answers
    <3> QED
      BY <1>0, <1>4, <2>1, <2>2, <3>1, AnswerRight DEF VerifyIndexed, store
  <2>3. CASE Goto(c, "repair")
    <3>1. /\ call'[c].at = "repair"
          /\ \A d \in Calls \ {c} : call'[d] = call[d]
      BY <2>3 DEF Goto, TypeInv, TypeOK, Call
    <3> QED
      BY <1>0, <1>4, <3>1, OneCallRight
  <2> QED
    BY <1>4, <2>2, <2>3 DEF VerifyIndexed
<1>5. ASSUME NEW c \in Calls, Witness, ScanTasks(c)
      PROVE  LookupInv'
  <2>1. /\ call[c].at = "scan" /\ call[c].op = "find"
        /\ call[c].branch \in Branches /\ NoTask \in MaybeTask
        /\ tasks' = tasks
    BY <1>5 DEF ScanTasks, TypeInv, CallShape, Shaped, LookupPlaces, MaybeTask, store
  <2>2. CASE Holders(call[c].branch) = {}
    <3>1. NoTask \in Answers(tasks, call[c].branch)
      BY <2>2 DEF Answers, Holders
    <3>2. Answer(c, NoTask)
      BY <1>5, <2>2 DEF ScanTasks
    <3> QED
      BY <1>0, <1>5, <2>1, <3>1, <3>2, AnswerRight
  <2>3. CASE Holders(call[c].branch) # {}
    <3>1. PICK t \in Holders(call[c].branch) :
            call' = [call EXCEPT ![c].found = t, ![c].at = "reindex"]
      BY <1>5, <2>3 DEF ScanTasks
    <3>2. /\ call'[c].at = "reindex" /\ call'[c].found = t
          /\ call'[c].op = "find" /\ call'[c].branch = call[c].branch
          /\ \A d \in Calls \ {c} : call'[d] = call[d]
      BY <2>1, <3>1 DEF TypeInv, TypeOK, Call
    <3>3. t \in Answers(tasks, call[c].branch)
      BY DEF Answers, Holders
    <3>4. t \in right'[c]
      BY <1>5, <2>1, <3>2, <3>3, AnswersOf DEF TypeInv
    <3> QED
      BY <1>0, <1>5, <3>2, <3>4, OneCallRight
  <2> QED
    BY <2>2, <2>3
<1>6. ASSUME NEW c \in Calls, Witness, Reindex(c)
      PROVE  LookupInv'
  <2>1. /\ call[c].at = "reindex" /\ call[c].op = "find"
        /\ call[c].found \in MaybeTask
    BY <1>6 DEF Reindex, TypeInv, CallShape, Shaped, LookupPlaces, MaybeTask
  <2>2. call[c].found \in right[c]
    BY <2>1 DEF FoundRight
  <2> QED
    BY <1>0, <1>6, <2>1, <2>2, AnswerRight DEF Reindex
<1>7. ASSUME NEW c \in Calls, Fail(c), Witness
      PROVE  LookupInv'
  <2>1. /\ call'[c].at = "idle"
        /\ \A d \in Calls \ {c} : call'[d] = call[d]
    BY <1>7, IdleType DEF Fail, Return, TypeInv, TypeOK
  <2> QED
    BY <1>0, <1>7, <2>1, OneCallRight
<1>8. CASE Crash
  <2>1. \A c \in Calls : call'[c].at = "idle"
    BY <1>8, IdleType DEF Crash
  <2> QED
    BY <1>0, <2>1 DEF FoundRight, LookupsAnswerRight
<1>9. CASE UNCHANGED vars
  BY <1>0, <1>9 DEF vars, FoundRight, LookupsAnswerRight
<1> QED
  BY <1>1, <1>2, <1>3, <1>4, <1>5, <1>6, <1>7, <1>8, <1>9 DEF Next, Await

\* Whatever overlaps, fails or crashes, and whatever is in the index, a
\* lookup answers what was true of the records at some moment of the call.
THEOREM LookupsRight == Spec => []LookupsAnswerRight
<1>1. Init => LookupInv
  BY TypeInit, IdleType DEF Init, LookupInv, FoundRight, LookupsAnswerRight
<1>2. LookupInv => LookupsAnswerRight
  BY DEF LookupInv
<1> QED
  BY <1>1, <1>2, LookupStep, PTL DEF Spec

-----------------------------------------------------------------------------
(* OneTaskPerBranch and FreeBranchesAvailable.                             *)
(*                                                                         *)
(* Of a branch that is not disturbed, the calls that concern it are        *)
(* lookups, or one call alone.  What that call has read of the records and *)
(* of the index is then still true when it writes.                         *)

\* The ids not given out have no record, and no writer has them in hand.
FreshMissing ==
    /\ \A t \in fresh : tasks[t] = Missing
    /\ \A c \in Calls : call[c].at \in {"check", "put", "unindex", "index"}
                          => call[c].task \notin fresh

OneHolder(b) == \A t, u \in Holders(b) : t = u

\* Two calls in flight that concern b are lookups, and of different tasks.
Exclusive(b) ==
    \A c, d \in Calls :
        c # d /\ Busy(c) /\ Busy(d) /\ b \in Concerns(call[c])
        => /\ call[c].op # "find" \/ call[d].op # "find"
                => b \notin Concerns(call[d])
           /\ call[c].task # NoTask => call[d].task # call[c].task

\* What a call k knows about b at the await it is at.
Knows(k, b) ==
    /\ k.at \in {"check", "put"} => (tasks[k.task] = b <=> k.old = b)
    /\ k.at \in {"unindex", "index"} => (tasks[k.task] = b <=> k.branch = b)
    /\ k.at = "put" /\ k.branch = b => Holders(b) \subseteq {k.task}
    /\ k.at = "unindex" /\ k.old = b => Holders(b) = {}
    /\ k.at = "reindex" /\ k.branch = b => k.found \in Holders(b)

\* The index entry of b names its holder, but for what a call in flight is
\* about to mend.
IndexRight(b) ==
    /\ \/ index[b] \in Holders(b) \cup {NoTask}
       \/ \E c \in Calls : /\ call[c].at = "unindex" /\ call[c].old = b
                           /\ index[b] = call[c].task
    /\ index[b] = NoTask /\ Holders(b) # {}
       => \E c \in Calls : /\ call[c].at \in {"scan", "reindex", "unindex", "index"}
                           /\ call[c].branch = b

Quiet(b) ==
    /\ OneHolder(b)
    /\ Exclusive(b)
    /\ \A c \in Calls : Knows(call[c], b)
    /\ IndexRight(b)

\* A call that has met no other meets none that is in flight.
AloneApart ==
    \A c, d \in Calls : c # d /\ Busy(c) /\ Busy(d) /\ call[c].alone
                        => ~Meet(call[c], call[d])

\* What a lookup k that has met no other call knows.
AloneKnows(k) ==
    k.alone => /\ k.at = "verify" => index[k.branch] = k.found
               /\ k.at = "scan" => index[k.branch] = NoTask
               /\ k.at = "reindex" => k.found \in Holders(k.branch)

IndexInv ==
    /\ TypeInv
    /\ FreshMissing
    /\ AloneApart
    /\ \A c \in Calls : AloneKnows(call[c])
    /\ \A b \in Branches \ disturbed : Quiet(b)

LEMMA ConcernsOf ==
    ASSUME NEW k, NEW b \in Branches
    PROVE  b \in Concerns(k) <=> \/ k.branch = b \/ k.old = b
                                 \/ k.task \in Tasks /\ tasks[k.task] = b
BY DEF Concerns

LEMMA ConcernsOfNext ==
    ASSUME NEW k, NEW b \in Branches
    PROVE  b \in Concerns(k)' <=> \/ k'.branch = b \/ k'.old = b
                                  \/ k'.task \in Tasks /\ tasks'[k'.task] = b
BY DEF Concerns

\* A lookup concerns its branch and nothing else.
LEMMA ConcernsFind ==
    ASSUME TypeInv, NEW c \in Calls, call[c].op = "find"
    PROVE  Concerns(call[c]) = {call[c].branch} /\ call[c].branch \in Branches
<1>1. /\ call[c].branch \in Branches /\ call[c].task = NoTask
      /\ call[c].old = NoBranch
  BY DEF TypeInv, CallShape, Shaped
<1> QED
  BY <1>1, DistinctValues DEF Concerns

\* Whoever has met no other call in flight shares no branch with one.
LEMMA ApartFrom ==
    ASSUME AloneApart, NEW c \in Calls, NEW d \in Calls \ {c}, Busy(c), Busy(d),
           call[c].alone \/ call[d].alone, NEW b, b \in Concerns(call[c])
    PROVE  b \notin Concerns(call[d])
BY DEF AloneApart, Meet

\* A step of call c that leaves the records alone.
LEMMA SameRecords ==
    ASSUME IndexInv, TypeInv', tasks' = tasks, fresh' = fresh, NEW c \in Calls,
           \A d \in Calls \ {c} : call'[d] = call[d],
           Busy(c)' => /\ Busy(c)
                       /\ call'[c].op = call[c].op /\ call'[c].task = call[c].task
                       /\ Concerns(call[c])' \subseteq Concerns(call[c])
                       /\ call'[c].alone => call[c].alone,
           call'[c].at \in {"check", "put", "unindex", "index"}
             => call'[c].task \notin fresh
    PROVE  /\ FreshMissing'
           /\ AloneApart'
           /\ \A b \in Branches \ disturbed :
                /\ OneHolder(b)' /\ Exclusive(b)'
                /\ \A d \in Calls \ {c} : Knows(call[d], b)'
<1>1. \A d \in Calls : Busy(d)' =>
        /\ Busy(d) /\ call'[d].op = call[d].op /\ call'[d].task = call[d].task
        /\ Concerns(call[d])' \subseteq Concerns(call[d])
        /\ call'[d].alone => call[d].alone
  <2> SUFFICES ASSUME NEW d \in Calls, Busy(d)'
               PROVE  /\ Busy(d) /\ call'[d].op = call[d].op
                      /\ call'[d].task = call[d].task
                      /\ Concerns(call[d])' \subseteq Concerns(call[d])
                      /\ call'[d].alone => call[d].alone
    OBVIOUS
  <2>1. CASE d = c
    BY <2>1
  <2>2. CASE d # c
    BY <2>2 DEF Busy, Concerns
  <2> QED
    BY <2>1, <2>2
<1>2. FreshMissing'
  BY DEF FreshMissing, IndexInv
<1>3. AloneApart'
  <2> SUFFICES ASSUME NEW d \in Calls, NEW e \in Calls, d # e, Busy(d)', Busy(e)',
                      call'[d].alone
               PROVE  ~Meet(call[d], call[e])'
    BY DEF AloneApart
  <2>1. ~Meet(call[d], call[e])
    BY <1>1 DEF AloneApart, IndexInv
  <2> QED
    BY <1>1, <2>1 DEF Meet
<1>4. ASSUME NEW b \in Branches \ disturbed
      PROVE  /\ OneHolder(b)' /\ Exclusive(b)'
             /\ \A d \in Calls \ {c} : Knows(call[d], b)'
  <2>0. Quiet(b)
    BY DEF IndexInv
  <2>1. OneHolder(b)'
    BY <2>0 DEF Quiet, OneHolder, Holders
  <2>2. Exclusive(b)'
    <3> SUFFICES ASSUME NEW d \in Calls, NEW e \in Calls, d # e, Busy(d)', Busy(e)',
                        b \in Concerns(call[d])'
                 PROVE  /\ call'[d].op # "find" \/ call'[e].op # "find"
                             => b \notin Concerns(call[e])'
                        /\ call'[d].task # NoTask => call'[e].task # call'[d].task
      BY DEF Exclusive
    <3> QED
      BY <1>1, <2>0 DEF Quiet, Exclusive
  <2>3. \A d \in Calls \ {c} : Knows(call[d], b)'
    BY <2>0 DEF Quiet, Knows, Holders
  <2> QED
    BY <2>1, <2>2, <2>3
<1> QED
  BY <1>2, <1>3, <1>4

\* What the other lookups that have met no call know stays true when c
\* writes the index entry of a branch it concerns.
LEMMA OthersAlone ==
    ASSUME IndexInv, tasks' = tasks, NEW c \in Calls, Busy(c),
           \A d \in Calls \ {c} : call'[d] = call[d],
           \/ index' = index
           \/ \E x \in Concerns(call[c]), v \in MaybeTask : index' = [index EXCEPT ![x] = v]
    PROVE  \A d \in Calls \ {c} : AloneKnows(call[d])'
<1> SUFFICES ASSUME NEW d \in Calls \ {c}, call[d].alone,
                    call[d].at \in {"verify", "scan", "reindex"}
             PROVE  AloneKnows(call[d])'
  BY DEF AloneKnows
<1>1. call[d].op = "find" /\ Busy(d)
  BY DEF IndexInv, TypeInv, CallShape, Shaped, LookupPlaces, Busy
<1>2. call[d].branch \in Branches /\ call[d].branch \in Concerns(call[d])
  BY <1>1, ConcernsFind DEF IndexInv
<1>3. call[d].branch \notin Concerns(call[c])
  BY <1>1, <1>2, ApartFrom DEF IndexInv
<1>4. index'[call[d].branch] = index[call[d].branch]
  BY <1>2, <1>3 DEF IndexInv, TypeInv, TypeOK
<1>5. AloneKnows(call[d])
  BY DEF IndexInv
<1> QED
  BY <1>4, <1>5 DEF AloneKnows, Holders

\* Putting a step of c together.
LEMMA Together ==
    ASSUME NEW c \in Calls, TypeInv', FreshMissing', AloneApart',
           \A d \in Calls \ {c} : AloneKnows(call[d])', AloneKnows(call[c])',
           disturbed \subseteq disturbed',
           \A b \in Branches \ disturbed :
             /\ OneHolder(b)' /\ Exclusive(b)'
             /\ \A d \in Calls \ {c} : Knows(call[d], b)',
           \A b \in Branches \ disturbed' : Knows(call[c], b)' /\ IndexRight(b)'
    PROVE  IndexInv'
BY DEF IndexInv, Quiet

\* Of the places of the calls, the busy ones.
LEMMA BusyPlaces ==
    ASSUME NEW c \in Calls
    PROVE  /\ call[c].at \in {"read", "check", "put", "unindex", "index", "lookup",
                              "verify", "repair", "scan", "reindex"} => Busy(c)
           /\ call[c].at \in {"idle", "answered"} => ~Busy(c)
BY DEF Busy

LEMMA BeginIndex ==
    ASSUME IndexInv, TypeInv', NEW c \in Calls, NEW k \in Call, Begins(c, k)
    PROVE  IndexInv'
<1>s. /\ Start(c, k) /\ Shaped(k) /\ fresh' \subseteq fresh
      /\ k.at \in {"read", "check", "put", "lookup"}
      /\ k.old = NoBranch
      /\ k.at \in {"check", "put"} => k.task \in fresh \ fresh'
      /\ k.at = "put" => k.branch = NoBranch
  BY DEF Begins
<1>0. TypeInv /\ tasks' = tasks /\ index' = index
  BY <1>s DEF IndexInv, Start
<1>1. /\ call'[c].op = k.op /\ call'[c].at = k.at /\ call'[c].task = k.task
      /\ call'[c].branch = k.branch /\ call'[c].old = k.old
      /\ call'[c].alone <=> Met(k) = {}
  BY <1>s DEF Start, Call
<1>2. ASSUME NEW d \in Calls \ {c}
      PROVE  /\ call'[d].op = call[d].op /\ call'[d].at = call[d].at
             /\ call'[d].task = call[d].task /\ call'[d].branch = call[d].branch
             /\ call'[d].old = call[d].old /\ call'[d].found = call[d].found
             /\ call'[d].alone <=> call[d].alone /\ d \notin Met(k)
  <2>1. call[d] \in Call
    BY <1>0 DEF TypeInv, TypeOK
  <2>2. call'[d] = [call[d] EXCEPT !.alone = @ /\ d \notin Met(k)]
    BY <1>s DEF Start
  <2> QED
    BY <2>1, <2>2 DEF Call
<1>3. \A d \in Calls \ {c} : Concerns(call[d])' = Concerns(call[d]) /\ (Busy(d)' <=> Busy(d))
  BY <1>0, <1>2 DEF Concerns, Busy
<1>4. Concerns(call[c])' = Concerns(k)
  BY <1>0, <1>1 DEF Concerns
<1>5. ~Busy(c) /\ disturbed' = disturbed \cup Disturbs(k)
  BY <1>s DEF Start, Busy
<1>6. FreshMissing'
  BY <1>s, <1>0, <1>1, <1>2 DEF FreshMissing, IndexInv
<1>7. AloneApart'
  <2> SUFFICES ASSUME NEW d \in Calls, NEW e \in Calls, d # e, Busy(d)', Busy(e)',
                      call'[d].alone
               PROVE  ~Meet(call[d], call[e])'
    BY DEF AloneApart
  <2>1. CASE d # c /\ e # c
    <3>1. ~Meet(call[d], call[e])
      BY <1>2, <1>3, <2>1 DEF AloneApart, IndexInv
    <3> QED
      BY <1>2, <1>3, <2>1, <3>1 DEF Meet
  <2>2. CASE d = c
    <3>1. ~Meet(k, call[e])
      BY <1>1, <1>3, <2>2 DEF Met
    <3> QED
      BY <1>1, <1>2, <1>3, <1>4, <2>2, <3>1 DEF Meet
  <2>3. CASE e = c
    <3>1. ~Meet(k, call[d])
      BY <1>2, <1>3, <2>3 DEF Met
    <3> QED
      BY <1>1, <1>2, <1>3, <1>4, <2>3, <3>1 DEF Meet
  <2> QED
    BY <2>1, <2>2, <2>3
<1>8. \A d \in Calls : AloneKnows(call[d])'
  <2> SUFFICES ASSUME NEW d \in Calls PROVE AloneKnows(call[d])'
    OBVIOUS
  <2>1. CASE d = c
    BY <1>s, <1>1, <2>1 DEF AloneKnows
  <2>2. CASE d # c
    <3>1. AloneKnows(call[d])
      BY DEF IndexInv
    <3> QED
      BY <1>0, <1>2, <2>2, <3>1 DEF AloneKnows, Holders
  <2> QED
    BY <2>1, <2>2
<1>9. ASSUME NEW b \in Branches \ disturbed' PROVE Quiet(b)'
  <2>0. Quiet(b) /\ b \notin Disturbs(k)
    BY <1>5 DEF IndexInv
  <2>1. OneHolder(b)'
    BY <1>0, <2>0 DEF Quiet, OneHolder, Holders
  <2>2. ASSUME NEW d \in Calls \ {c}, Busy(d), k.op # "find" \/ call[d].op # "find",
               \/ b \in Concerns(k) /\ b \in Concerns(call[d])
               \/ /\ b \in Concerns(k) \cup Concerns(call[d])
                  /\ k.task = call[d].task /\ k.task # NoTask
        PROVE  FALSE
    <3>1. d \in Met(k)
      BY <2>2 DEF Met, Meet
    <3> QED
      BY <2>0, <2>2, <3>1 DEF Disturbs
  <2>3. k.task # NoTask => k.op # "find"
    BY <1>s DEF Shaped
  <2>4. Exclusive(b)'
    <3> SUFFICES ASSUME NEW d \in Calls, NEW e \in Calls, d # e, Busy(d)', Busy(e)',
                        b \in Concerns(call[d])'
                 PROVE  /\ call'[d].op # "find" \/ call'[e].op # "find"
                             => b \notin Concerns(call[e])'
                        /\ call'[d].task # NoTask => call'[e].task # call'[d].task
      BY DEF Exclusive
    <3>1. CASE d # c /\ e # c
      BY <1>2, <1>3, <2>0, <3>1 DEF Quiet, Exclusive
    <3>2. CASE d = c
      BY <1>1, <1>2, <1>3, <1>4, <2>2, <2>3, <3>2
    <3>3. CASE e = c
      BY <1>1, <1>2, <1>3, <1>4, <2>2, <2>3, <3>3
    <3> QED
      BY <3>1, <3>2, <3>3
  <2>5. ASSUME NEW d \in Calls PROVE Knows(call[d], b)'
    <3>1. CASE d = c
      <4>1. k.at \in {"check", "put"} => tasks[k.task] = Missing /\ k.old # b
        BY <1>s, DistinctValues DEF FreshMissing, IndexInv
      <4> QED
        BY <1>s, <1>0, <1>1, <3>1, <4>1, DistinctValues DEF Knows
    <3>2. CASE d # c
      BY <1>0, <1>2, <2>0, <3>2 DEF Quiet, Knows, Holders
    <3> QED
      BY <3>1, <3>2
  <2>6. IndexRight(b)'
    <3>1. IndexRight(b)
      BY <2>0 DEF Quiet
    <3>2. call[c].at = "idle"
      BY <1>s DEF Start
    <3>3. \A d \in Calls :
            call[d].at \in {"scan", "reindex", "unindex", "index"} =>
              /\ call'[d].at = call[d].at /\ call'[d].branch = call[d].branch
              /\ call'[d].old = call[d].old /\ call'[d].task = call[d].task
      BY <1>2, <3>2
    <3> QED
      BY <1>0, <3>1, <3>3 DEF IndexRight, Holders
  <2> QED
    BY <2>1, <2>4, <2>5, <2>6 DEF Quiet
<1> QED
  BY <1>6, <1>7, <1>8, <1>9 DEF IndexInv

\* A call that returns, or moves on, without having written anything.
LEMMA ReturnIndex ==
    ASSUME IndexInv, TypeInv', NEW c \in Calls, Return(c), Busy(c),
           tasks' = tasks, index' = index, fresh' = fresh, disturbed \subseteq disturbed',
           HalfDone(call[c]) \subseteq disturbed'
    PROVE  IndexInv'
<1>1. /\ call'[c] = Idle /\ \A d \in Calls \ {c} : call'[d] = call[d]
  BY DEF Return, IndexInv, TypeInv, TypeOK
<1>2. ~Busy(c)' /\ call'[c].at = "idle"
  BY <1>1, IdleType DEF Busy
<1>3. /\ FreshMissing'
      /\ AloneApart'
      /\ \A b \in Branches \ disturbed :
           /\ OneHolder(b)' /\ Exclusive(b)'
           /\ \A d \in Calls \ {c} : Knows(call[d], b)'
  BY <1>1, <1>2, SameRecords
<1>4. \A d \in Calls \ {c} : AloneKnows(call[d])'
  BY <1>1, OthersAlone
<1>5. AloneKnows(call[c])'
  BY <1>2 DEF AloneKnows
<1>6. ASSUME NEW b \in Branches \ disturbed' PROVE Knows(call[c], b)' /\ IndexRight(b)'
  <2>1. IndexRight(b)
    BY DEF IndexInv, Quiet
  <2>2. /\ call[c].at = "unindex" => call[c].old # b
        /\ call[c].at \in {"scan", "reindex", "unindex", "index"} => call[c].branch # b
    BY ConcernsOf DEF HalfDone
  <2>3. Knows(call[c], b)'
    BY <1>2 DEF Knows
  <2>4. IndexRight(b)'
    BY <1>1, <2>1, <2>2 DEF IndexRight, Holders
  <2> QED
    BY <2>3, <2>4
<1> QED
  BY <1>3, <1>4, <1>5, <1>6, Together

\* A call that moves on, having written nothing, from a place where it mends
\* no index entry.
LEMMA GoOn ==
    ASSUME IndexInv, TypeInv', NEW c \in Calls, Busy(c),
           \A d \in Calls \ {c} : call'[d] = call[d],
           tasks' = tasks, index' = index, fresh' = fresh, disturbed \subseteq disturbed',
           call'[c].op = call[c].op, call'[c].task = call[c].task,
           call'[c].alone => call[c].alone,
           call'[c].branch = call[c].branch,
           Concerns(call[c])' \subseteq Concerns(call[c]),
           call'[c].at \in {"check", "put", "unindex", "index"}
             => call'[c].task \notin fresh,
           call[c].at \notin {"scan", "reindex", "unindex", "index"},
           AloneKnows(call[c])',
           \A b \in Branches \ disturbed' : Knows(call[c], b)'
    PROVE  IndexInv'
<1>3. /\ FreshMissing'
      /\ AloneApart'
      /\ \A b \in Branches \ disturbed :
           /\ OneHolder(b)' /\ Exclusive(b)'
           /\ \A d \in Calls \ {c} : Knows(call[d], b)'
  BY SameRecords
<1>4. \A d \in Calls \ {c} : AloneKnows(call[d])'
  BY OthersAlone
<1>6. ASSUME NEW b \in Branches \ disturbed' PROVE IndexRight(b)'
  <2>1. IndexRight(b)
    BY DEF IndexInv, Quiet
  <2> QED
    BY <2>1 DEF IndexRight, Holders
<1> QED
  BY <1>3, <1>4, <1>6, Together

LEMMA ReadIndex ==
    ASSUME IndexInv, TypeInv', NEW c \in Calls, ReadExisting(c)
    PROVE  IndexInv'
<1> DEFINE k == call[c]
           old == tasks[k.task]
           next == IF k.op = "update" /\ k.branch \notin {NoBranch, old}
                   THEN "check" ELSE "put"
<1>0. /\ k.at = "read" /\ k \in Call /\ k.task \in Tasks
      /\ k.op \in {"update", "delete"} /\ (k.op = "delete" => k.branch = NoBranch)
      /\ Busy(c)
      /\ tasks' = tasks /\ index' = index /\ fresh' = fresh /\ disturbed' = disturbed
  BY BusyPlaces
  DEF ReadExisting, IndexInv, TypeInv, TypeOK, CallShape, Shaped, store
<1>1. CASE old = Missing
  <2>1. Return(c) /\ HalfDone(call[c]) = {}
    BY <1>0, <1>1 DEF ReadExisting, HalfDone
  <2> QED
    BY <1>0, <2>1, ReturnIndex
<1>2. CASE old # Missing
  <2>1. /\ \A d \in Calls \ {c} : call'[d] = call[d]
        /\ call'[c] = [k EXCEPT !.old = old, !.at = next]
    BY <1>2 DEF ReadExisting, IndexInv, TypeInv, TypeOK
  <2>2. /\ call'[c].op = k.op /\ call'[c].task = k.task /\ call'[c].branch = k.branch
        /\ call'[c].alone = k.alone /\ call'[c].old = old /\ call'[c].at = next
    BY <1>0, <2>1 DEF Call
  <2>3. Concerns(call[c])' \subseteq Concerns(call[c])
    BY <1>0, <2>2 DEF Concerns
  <2>4. k.task \notin fresh
    BY <1>2 DEF IndexInv, FreshMissing
  <2>5. AloneKnows(call[c])'
    BY <2>2 DEF AloneKnows
  <2>6. ASSUME NEW b \in Branches \ disturbed' PROVE Knows(call[c], b)'
    <3>1. next = "put" /\ k.branch = b => tasks[k.task] = b
      BY <1>0, DistinctValues
    <3>2. next = "put" /\ k.branch = b => Holders(b) \subseteq {k.task}
      BY <1>0, <3>1 DEF IndexInv, Quiet, OneHolder, Holders
    <3> QED
      BY <1>0, <2>2, <3>2 DEF Knows, Holders
  <2>7. k.at \notin {"scan", "reindex", "unindex", "index"}
    BY <1>0
  <2> HIDE DEF k, old, next
  <2> QED
    BY <1>0, <2>1, <2>2, <2>3, <2>4, <2>5, <2>6, <2>7, GoOn DEF k
<1> QED
  BY <1>1, <1>2

LEMMA CheckIndex ==
    ASSUME IndexInv, TypeInv', NEW c \in Calls, AssertBranchAvailable(c)
    PROVE  IndexInv'
<1> DEFINE k == call[c]
<1>0. /\ k.at = "check" /\ k \in Call /\ k.task \in Tasks /\ k.branch \in Branches
      /\ k.op # "find" /\ Busy(c)
      /\ tasks' = tasks /\ index' = index /\ fresh' = fresh
      /\ disturbed \subseteq disturbed'
  BY BusyPlaces
  DEF AssertBranchAvailable, IndexInv, TypeInv, TypeOK, CallShape, Shaped, store,
      LookupPlaces
<1>1. CASE Return(c)
  <2>1. HalfDone(call[c]) = {}
    BY <1>0 DEF HalfDone
  <2> QED
    BY <1>0, <1>1, <2>1, ReturnIndex
<1>2. CASE Goto(c, "put")
  <2>1. /\ \A d \in Calls \ {c} : call'[d] = call[d]
        /\ call'[c] = [k EXCEPT !.at = "put"]
    BY <1>2 DEF Goto, IndexInv, TypeInv, TypeOK
  <2>2. /\ call'[c].op = k.op /\ call'[c].task = k.task /\ call'[c].branch = k.branch
        /\ call'[c].alone = k.alone /\ call'[c].old = k.old /\ call'[c].at = "put"
    BY <1>0, <2>1 DEF Call
  <2>3. Concerns(call[c])' \subseteq Concerns(call[c])
    BY <1>0, <2>2 DEF Concerns
  <2>4. k.task \notin fresh
    BY <1>0 DEF IndexInv, FreshMissing
  <2>5. AloneKnows(call[c])'
    BY <2>2 DEF AloneKnows
  <2>6. ASSUME NEW b \in Branches \ disturbed' PROVE Knows(call[c], b)'
    <3>0. Quiet(b)
      BY <1>0 DEF IndexInv
    <3>1. ASSUME k.branch = b PROVE Holders(b) \subseteq {k.task}
      <4>0. ~Return(c)
        BY <2>2, IdleType DEF Return, IndexInv, TypeInv, TypeOK
      <4>1. index[b] \in {NoTask, k.task}
        BY <3>1, <4>0 DEF AssertBranchAvailable
      <4>2. \A d \in Calls \ {c} : Busy(d) => b \notin Concerns(call[d])
        BY <1>0, <3>0, <3>1, ConcernsOf DEF Quiet, Exclusive
      <4>3. \A d \in Calls : call[d].at \in {"scan", "reindex", "unindex", "index"}
                               => call[d].branch # b /\ call[d].old # b
        BY <1>0, <4>2, ConcernsOf, BusyPlaces
      <4>4. /\ index[b] \in Holders(b) \cup {NoTask}
            /\ index[b] = NoTask => Holders(b) = {}
        BY <3>0, <4>3 DEF Quiet, IndexRight
      <4> QED
        BY <3>0, <4>1, <4>4 DEF Quiet, OneHolder
    <3>2. Knows(call[c], b)
      BY <3>0 DEF Quiet
    <3> QED
      BY <1>0, <2>2, <3>1, <3>2 DEF Knows, Holders
  <2>7. k.at \notin {"scan", "reindex", "unindex", "index"}
    BY <1>0
  <2> HIDE DEF k
  <2> QED
    BY <1>0, <2>1, <2>2, <2>3, <2>4, <2>5, <2>6, <2>7, GoOn DEF k
<1> QED
  BY <1>1, <1>2 DEF AssertBranchAvailable

LEMMA PutIndex ==
    ASSUME IndexInv, TypeInv', NEW c \in Calls, PutTask(c)
    PROVE  IndexInv'
<1> DEFINE k == call[c]
           new == IF k.op = "delete" THEN Missing ELSE k.branch
<1>0. /\ TypeInv /\ FreshMissing /\ AloneApart
      /\ k.at = "put" /\ k \in Call /\ k.task \in Tasks /\ k.task # NoTask
      /\ k.op # "find" /\ (k.op = "delete" => k.branch = NoBranch) /\ Busy(c)
      /\ index' = index /\ fresh' = fresh /\ disturbed' = disturbed
  BY BusyPlaces, DistinctValues
  DEF PutTask, IndexInv, TypeInv, TypeOK, CallShape, Shaped, LookupPlaces
<1>1. /\ tasks' = [tasks EXCEPT ![k.task] = new]
      /\ \A t \in Tasks : tasks'[t] = IF t = k.task THEN new ELSE tasks[t]
  BY <1>0 DEF PutTask, TypeInv, TypeOK
<1>2. \A d \in Calls \ {c} : call'[d] = call[d]
  BY <1>0 DEF PutTask, Goto, Return, TypeInv, TypeOK
<1>3. \/ /\ Leaves(k) /\ call'[c] = [k EXCEPT !.at = "unindex"]
      \/ /\ ~Leaves(k) /\ k.branch # NoBranch /\ call'[c] = [k EXCEPT !.at = "index"]
      \/ /\ ~Leaves(k) /\ k.branch = NoBranch /\ call'[c] = Idle
  BY <1>0 DEF PutTask, Goto, Return, TypeInv, TypeOK
<1>4. /\ Busy(c)' => /\ call'[c].op = k.op /\ call'[c].task = k.task
                     /\ call'[c].branch = k.branch /\ call'[c].old = k.old
                     /\ call'[c].alone = k.alone
      /\ call'[c].at = "unindex" <=> Leaves(k)
      /\ call'[c].at = "index" <=> ~Leaves(k) /\ k.branch # NoBranch
      /\ call'[c].at \in {"unindex", "index", "idle"}
      /\ Leaves(k) \/ k.branch # NoBranch => Busy(c)'
  BY <1>0, <1>3, IdleType DEF Call, Busy
<1>5. \A b \in Branches : new = b <=> k.branch = b
  BY <1>0, DistinctValues
<1> HIDE DEF new
<1>6. Busy(c)' => Concerns(call[c])' \subseteq Concerns(k)
  <2> SUFFICES ASSUME Busy(c)', NEW b \in Branches, b \in Concerns(call[c])'
               PROVE  b \in Concerns(k)
    BY DEF Concerns
  <2>1. k.branch = b \/ k.old = b \/ tasks'[k.task] = b
    BY <1>4, ConcernsOfNext
  <2>2. k.branch = b \/ k.old = b
    BY <1>0, <1>1, <1>5, <2>1
  <2> QED
    BY <2>2, ConcernsOf
<1>7. ASSUME NEW d \in Calls \ {c}, call[d].task # k.task
      PROVE  Concerns(call[d])' = Concerns(call[d])
  BY <1>1, <1>2, <1>7 DEF Concerns
<1>8. ASSUME NEW d \in Calls \ {c}, NEW b \in Branches, b \in Concerns(call[d])'
      PROVE  b \in Concerns(call[d]) \/ (call[d].task = k.task /\ k.branch = b)
  <2>1. CASE call[d].task # k.task
    BY <1>7, <1>8, <2>1
  <2>2. CASE call[d].task = k.task
    <3>1. call[d].branch = b \/ call[d].old = b \/ tasks'[k.task] = b
      BY <1>2, <1>8, <2>2, ConcernsOfNext
    <3> QED
      BY <1>0, <1>1, <1>5, <2>2, <3>1, ConcernsOf
  <2> QED
    BY <2>1, <2>2
<1>9. \A d \in Calls \ {c} : Busy(d)' <=> Busy(d)
  BY <1>2 DEF Busy
<1>10. FreshMissing'
  <2>1. k.task \notin fresh
    BY <1>0 DEF FreshMissing
  <2>2. \A t \in fresh : tasks'[t] = Missing
    BY <1>0, <1>1, <2>1 DEF FreshMissing, TypeInv, TypeOK
  <2>3. \A d \in Calls : call'[d].at \in {"check", "put", "unindex", "index"}
                           => call'[d].task \notin fresh
    <3> SUFFICES ASSUME NEW d \in Calls,
                        call'[d].at \in {"check", "put", "unindex", "index"}
                 PROVE  call'[d].task \notin fresh
      OBVIOUS
    <3>1. CASE d = c
      <4>1. Busy(c)'
        BY <3>1 DEF Busy
      <4> QED
        BY <1>4, <2>1, <3>1, <4>1
    <3>2. CASE d # c
      BY <1>0, <1>2, <3>2 DEF FreshMissing
    <3> QED
      BY <3>1, <3>2
  <2> QED
    BY <1>0, <2>2, <2>3 DEF FreshMissing
<1>11. AloneApart'
  <2> SUFFICES ASSUME NEW d \in Calls, NEW e \in Calls, d # e, Busy(d)', Busy(e)',
                      call'[d].alone
               PROVE  ~Meet(call[d], call[e])'
    BY DEF AloneApart
  <2>1. Busy(d) /\ Busy(e) /\ call[d].alone
        /\ call'[d].task = call[d].task /\ call'[e].task = call[e].task
    BY <1>0, <1>2, <1>4, <1>9
  <2>2. ~Meet(call[d], call[e])
    BY <1>0, <2>1 DEF AloneApart
  <2>3. ASSUME NEW b \in Concerns(call[d])', b \in Concerns(call[e])'
        PROVE  FALSE
    <3>0. b \in Branches
      BY DEF Concerns
    <3>1. CASE d = c
      <4>1. b \in Concerns(k) /\ call[e].task # k.task
        BY <1>0, <1>6, <2>1, <2>2, <3>1 DEF Meet
      <4>2. b \in Concerns(call[e])
        BY <1>7, <2>3, <3>1, <4>1
      <4> QED
        BY <2>2, <3>1, <4>1, <4>2 DEF Meet
    <3>2. CASE d # c
      <4>1. ~Meet(call[d], k)
        BY <1>0, <2>1, <3>2 DEF AloneApart
      <4>2. call[d].task # k.task /\ b \in Concerns(call[d])
        BY <1>0, <1>7, <3>2, <4>1 DEF Meet
      <4>3. b \notin Concerns(k)
        BY <4>1, <4>2 DEF Meet
      <4>4. k.branch # b
        BY <3>0, <4>3, ConcernsOf
      <4>5. b \in Concerns(call[e])
        BY <1>6, <1>8, <2>3, <3>0, <4>3, <4>4
      <4> QED
        BY <2>2, <4>2, <4>5 DEF Meet
    <3> QED
      BY <3>1, <3>2
  <2> QED
    BY <2>1, <2>2, <2>3 DEF Meet, Concerns
<1>12. ASSUME NEW d \in Calls PROVE AloneKnows(call[d])'
  <2> SUFFICES ASSUME call'[d].alone, call'[d].at \in {"verify", "scan", "reindex"}
               PROVE  AloneKnows(call[d])'
    BY DEF AloneKnows
  <2>1. d # c /\ call'[d] = call[d]
    BY <1>2, <1>4
  <2>2. call[d].op = "find" /\ Busy(d) /\ AloneKnows(call[d])
    BY <1>0, <2>1 DEF IndexInv, TypeInv, CallShape, Shaped, LookupPlaces, Busy
  <2>3. call[d].branch \in Branches /\ call[d].branch \in Concerns(call[d])
    BY <1>0, <2>2, ConcernsFind
  <2>4. call[d].branch \notin Concerns(k)
    BY <1>0, <2>1, <2>2, <2>3, ApartFrom
  <2>5. tasks[k.task] # call[d].branch
    BY <1>0, <2>3, <2>4, ConcernsOf
  <2>6. Holders(call[d].branch) \subseteq Holders(call[d].branch)'
    BY <1>1, <2>1, <2>5 DEF Holders
  <2> QED
    BY <1>0, <2>1, <2>2, <2>6 DEF AloneKnows
<1>13. ASSUME NEW b \in Branches \ disturbed PROVE Quiet(b)'
  <2>0. Quiet(b)
    BY DEF IndexInv
  <2>1. /\ tasks[k.task] = b <=> k.old = b
        /\ k.branch = b => Holders(b) \subseteq {k.task}
    BY <1>0, <2>0 DEF Quiet, Knows
  <2>2. b \in Concerns(k) <=> k.branch = b \/ tasks[k.task] = b
    BY <1>0, <2>1, ConcernsOf
  <2>3. /\ k.branch = b => Holders(b)' = {k.task}
        /\ k.branch # b => Holders(b)' = Holders(b) \ {k.task}
    BY <1>0, <1>1, <1>5, <2>1 DEF Holders
  <2>4. OneHolder(b)'
    BY <2>0, <2>3 DEF Quiet, OneHolder
  \* the calls that concern b
  <2>5. ASSUME NEW d \in Calls \ {c}, Busy(d)
        PROVE  /\ call[d].task = k.task => b \notin Concerns(k) /\ b \notin Concerns(call[d])
               /\ b \in Concerns(k) => b \notin Concerns(call[d])
               /\ b \in Concerns(call[d])' => b \in Concerns(call[d])
    <3>1. /\ call[d].task = k.task => b \notin Concerns(k) /\ b \notin Concerns(call[d])
          /\ b \in Concerns(k) => b \notin Concerns(call[d])
      BY <1>0, <2>0, <2>5 DEF Quiet, Exclusive
    <3>2. b \in Concerns(call[d])' => b \in Concerns(call[d])
      BY <1>8, <2>2, <3>1
    <3> QED
      BY <3>1, <3>2
  <2>6. Exclusive(b)'
    <3> SUFFICES ASSUME NEW d \in Calls, NEW e \in Calls, d # e, Busy(d)', Busy(e)',
                        b \in Concerns(call[d])'
                 PROVE  /\ call'[d].op # "find" \/ call'[e].op # "find"
                             => b \notin Concerns(call[e])'
                        /\ call'[d].task # NoTask => call'[e].task # call'[d].task
      BY DEF Exclusive
    <3>1. \A f \in Calls : Busy(f)' =>
            /\ Busy(f) /\ call'[f].op = call[f].op /\ call'[f].task = call[f].task
            /\ b \in Concerns(call[f])' => b \in Concerns(call[f])
      BY <1>0, <1>2, <1>4, <1>6, <1>9, <2>5
    <3> QED
      BY <2>0, <3>1 DEF Quiet, Exclusive
  <2>7. ASSUME NEW d \in Calls PROVE Knows(call[d], b)'
    <3>1. CASE d = c
      <4>1. CASE Busy(c)'
        <5>1. tasks'[k.task] = b <=> k.branch = b
          BY <1>0, <1>1, <1>5
        <5>2. call'[c].at = "unindex" /\ k.old = b => Holders(b)' = {}
          <6> SUFFICES ASSUME Leaves(k), k.old = b PROVE Holders(b)' = {}
            BY <1>4
          <6>1. k.task \in Holders(b) /\ k.branch # b
            BY <1>0, <2>1, DistinctValues DEF Holders, Leaves
          <6> QED
            BY <2>0, <2>3, <6>1 DEF Quiet, OneHolder
        <5> QED
          BY <1>4, <3>1, <4>1, <5>1, <5>2 DEF Knows
      <4>2. CASE ~Busy(c)'
        BY <1>4, <3>1, <4>2 DEF Knows, Busy
      <4> QED
        BY <4>1, <4>2
    <3>2. CASE d # c
      <4> SUFFICES ASSUME call[d].at \in {"check", "put", "unindex", "index", "reindex"}
                   PROVE  Knows(call[d], b)'
        BY <1>2, <3>2 DEF Knows
      <4>1. Busy(d) /\ call'[d] = call[d] /\ Knows(call[d], b)
        BY <1>2, <2>0, <3>2 DEF Busy, Quiet
      <4>2. call[d].at # "reindex" => call[d].task \in Tasks
        BY <1>0 DEF TypeInv, CallShape, Shaped
      <4>3. CASE b \in Concerns(call[d])
        <5>1. b \notin Concerns(k) /\ call[d].task # k.task
          BY <2>5, <3>2, <4>1, <4>3
        <5>2. Holders(b)' = Holders(b)
          BY <2>2, <2>3, <5>1 DEF Holders
        <5>3. call[d].at # "reindex" => tasks'[call[d].task] = tasks[call[d].task]
          BY <1>1, <4>2, <5>1
        <5> QED
          BY <4>1, <5>2, <5>3 DEF Knows
      <4>4. CASE b \notin Concerns(call[d])
        <5>1. /\ call[d].branch # b /\ call[d].old # b
              /\ b \notin Concerns(call[d])'
          BY <2>5, <3>2, <4>1, <4>4, ConcernsOf
        <5>2. call[d].at # "reindex" => tasks'[call[d].task] # b
          BY <4>1, <4>2, <5>1, ConcernsOfNext
        <5> QED
          BY <4>1, <5>1, <5>2 DEF Knows
      <4> QED
        BY <4>3, <4>4
    <3> QED
      BY <3>1, <3>2
  <2>8. IndexRight(b)'
    <3>1. IndexRight(b)
      BY <2>0 DEF Quiet
    <3>2. ASSUME index[b] = k.task, k.task \in Holders(b), k.branch # b
          PROVE  call'[c].at = "unindex" /\ call'[c].old = b /\ call'[c].task = k.task
      <4>1. k.old = b
        BY <2>1, <3>2 DEF Holders
      <4>2. Leaves(k)
        BY <3>2, <4>1, DistinctValues DEF Leaves
      <4> QED
        BY <1>4, <4>1, <4>2
    <3>3. \/ index[b] \in Holders(b)' \cup {NoTask}
          \/ \E d \in Calls : /\ call'[d].at = "unindex" /\ call'[d].old = b
                              /\ index[b] = call'[d].task
      <4>1. CASE \E d \in Calls : /\ call[d].at = "unindex" /\ call[d].old = b
                                  /\ index[b] = call[d].task
        BY <1>0, <1>2, <4>1
      <4>2. CASE index[b] \in Holders(b) /\ index[b] # k.task
        BY <2>1, <2>3, <4>2
      <4>3. CASE index[b] \in Holders(b) /\ index[b] = k.task
        BY <2>3, <3>2, <4>3
      <4> QED
        BY <3>1, <4>1, <4>2, <4>3 DEF IndexRight
    <3>4. ASSUME index[b] = NoTask, Holders(b)' # {}
          PROVE  \E d \in Calls :
                   /\ call'[d].at \in {"scan", "reindex", "unindex", "index"}
                   /\ call'[d].branch = b
      <4>1. CASE k.branch = b
        <5>1. Busy(c)' /\ call'[c].at \in {"unindex", "index"}
          BY <1>4, <4>1, DistinctValues
        <5> QED
          BY <1>4, <4>1, <5>1
      <4>2. CASE k.branch # b
        <5>1. PICK d \in Calls :
                /\ call[d].at \in {"scan", "reindex", "unindex", "index"}
                /\ call[d].branch = b
          BY <2>3, <3>1, <3>4, <4>2 DEF IndexRight
        <5> QED
          BY <1>0, <1>2, <5>1
      <4> QED
        BY <4>1, <4>2
    <3> QED
      BY <1>0, <3>3, <3>4 DEF IndexRight
  <2> QED
    BY <2>4, <2>6, <2>7, <2>8 DEF Quiet
<1> QED
  BY <1>0, <1>10, <1>11, <1>12, <1>13 DEF IndexInv

\* A step of c that leaves the records alone and writes at most the index
\* entry of a branch it concerns: what is left to see is what c knows, and
\* the index of the branches that are not disturbed.
LEMMA IndexStep ==
    ASSUME IndexInv, TypeInv', NEW c \in Calls, Busy(c),
           \A d \in Calls \ {c} : call'[d] = call[d],
           tasks' = tasks, fresh' = fresh, disturbed \subseteq disturbed',
           \/ index' = index
           \/ \E x \in Concerns(call[c]), v \in MaybeTask : index' = [index EXCEPT ![x] = v],
           Busy(c)' => /\ call'[c].op = call[c].op /\ call'[c].task = call[c].task
                       /\ Concerns(call[c])' \subseteq Concerns(call[c])
                       /\ call'[c].alone => call[c].alone,
           call'[c].at \in {"check", "put", "unindex", "index"}
             => call'[c].task \notin fresh,
           AloneKnows(call[c])',
           \A b \in Branches \ disturbed' : Knows(call[c], b)' /\ IndexRight(b)'
    PROVE  IndexInv'
<1>1. /\ FreshMissing'
      /\ AloneApart'
      /\ \A b \in Branches \ disturbed :
           /\ OneHolder(b)' /\ Exclusive(b)'
           /\ \A d \in Calls \ {c} : Knows(call[d], b)'
  BY SameRecords
<1>2. \A d \in Calls \ {c} : AloneKnows(call[d])'
  BY OthersAlone
<1> QED
  BY <1>1, <1>2, Together

LEMMA UnindexIndex ==
    ASSUME IndexInv, TypeInv', NEW c \in Calls, Unindex(c)
    PROVE  IndexInv'
<1> DEFINE k == call[c]
<1>0. /\ TypeInv
      /\ k.at = "unindex" /\ k \in Call /\ k.task \in Tasks /\ k.old \in Branches
      /\ k.old # k.branch /\ k.op # "find" /\ Busy(c)
      /\ tasks' = tasks /\ fresh' = fresh /\ disturbed \subseteq disturbed'
      /\ \A d \in Calls \ {c} : call'[d] = call[d]
  BY BusyPlaces
  DEF Unindex, Goto, Return, IndexInv, TypeInv, TypeOK, CallShape, Shaped, LookupPlaces
<1>1. \/ call'[c] = [k EXCEPT !.at = "index"] /\ k.branch # NoBranch
      \/ call'[c] = Idle /\ k.branch = NoBranch
  BY <1>0 DEF Unindex, Goto, Return, TypeInv, TypeOK
<1>2. /\ Busy(c)' => /\ call'[c].op = k.op /\ call'[c].task = k.task
                     /\ call'[c].branch = k.branch /\ call'[c].old = k.old
                     /\ call'[c].alone = k.alone /\ call'[c].at = "index"
      /\ call'[c].at \in {"index", "idle"}
      /\ k.branch # NoBranch => Busy(c)'
  BY <1>0, <1>1, IdleType DEF Call, Busy
<1>3. /\ index' = index \/ index' = [index EXCEPT ![k.old] = NoTask]
      /\ \A b \in Branches : b # k.old => index'[b] = index[b]
      /\ k.old \notin disturbed' => index'[k.old] = NoTask
  BY <1>0 DEF Unindex, TypeInv, TypeOK
<1>4. Busy(c)' => Concerns(call[c])' \subseteq Concerns(call[c])
  BY <1>0, <1>2 DEF Concerns
<1>5. k.old \in Concerns(call[c]) /\ NoTask \in MaybeTask
  BY <1>0, ConcernsOf DEF MaybeTask
<1>6. call'[c].at \in {"check", "put", "unindex", "index"} => call'[c].task \notin fresh
  <2>1. k.task \notin fresh
    BY <1>0 DEF IndexInv, FreshMissing
  <2> QED
    BY <1>2, <2>1 DEF Busy
<1>7. AloneKnows(call[c])'
  BY <1>2 DEF AloneKnows
<1>8. ASSUME NEW b \in Branches \ disturbed' PROVE Knows(call[c], b)' /\ IndexRight(b)'
  <2>0. Quiet(b)
    BY <1>0 DEF IndexInv
  <2>1. Knows(call[c], b)'
    <3>1. Knows(call[c], b)
      BY <2>0 DEF Quiet
    <3> QED
      BY <1>0, <1>2, <3>1 DEF Knows, Busy
  <2>2. CASE b = k.old
    <3>1. index'[b] = NoTask /\ Holders(b) = {}
      BY <1>0, <1>3, <2>0, <2>2 DEF Quiet, Knows
    <3>2. IndexRight(b)'
      BY <1>0, <3>1 DEF IndexRight, Holders
    <3> QED
      BY <2>1, <3>2
  <2>3. CASE b # k.old
    <3>1. index'[b] = index[b] /\ IndexRight(b)
      BY <1>3, <2>0, <2>3 DEF Quiet
    <3>2. \A d \in Calls : call[d].at = "unindex" /\ call[d].old = b => call'[d] = call[d]
      BY <1>0, <2>3
    <3>3. \A d \in Calls :
            call[d].at \in {"scan", "reindex", "unindex", "index"} /\ call[d].branch = b
            => /\ call'[d].at \in {"scan", "reindex", "unindex", "index"}
               /\ call'[d].branch = b
      BY <1>0, <1>2, DistinctValues
    <3>4. IndexRight(b)'
      BY <1>0, <3>1, <3>2, <3>3 DEF IndexRight, Holders
    <3> QED
      BY <2>1, <3>4
  <2> QED
    BY <2>2, <2>3
<1> HIDE DEF k
<1> QED
  BY <1>0, <1>2, <1>3, <1>4, <1>5, <1>6, <1>7, <1>8, IndexStep DEF k

LEMMA SetIndex ==
    ASSUME IndexInv, TypeInv', NEW c \in Calls, SetBranchIndex(c)
    PROVE  IndexInv'
<1> DEFINE k == call[c]
<1>0. /\ TypeInv
      /\ k.at = "index" /\ k \in Call /\ k.task \in Tasks /\ k.branch \in Branches
      /\ Busy(c)
      /\ tasks' = tasks /\ fresh' = fresh /\ disturbed' = disturbed
      /\ \A d \in Calls \ {c} : call'[d] = call[d]
      /\ call'[c] = Idle
      /\ index' = [index EXCEPT ![k.branch] = k.task]
  BY BusyPlaces
  DEF SetBranchIndex, Return, IndexInv, TypeInv, TypeOK, CallShape, Shaped
<1>1. ~Busy(c)' /\ call'[c].at = "idle"
  BY <1>0, IdleType DEF Busy
<1>2. k.branch \in Concerns(call[c]) /\ k.task \in MaybeTask
  BY <1>0, ConcernsOf DEF MaybeTask
<1>3. AloneKnows(call[c])'
  BY <1>1 DEF AloneKnows
<1>4. ASSUME NEW b \in Branches \ disturbed' PROVE Knows(call[c], b)' /\ IndexRight(b)'
  <2>0. Quiet(b)
    BY <1>0 DEF IndexInv
  <2>1. Knows(call[c], b)'
    BY <1>1 DEF Knows
  <2>2. CASE b = k.branch
    <3>1. index'[b] = k.task
      BY <1>0, <2>2 DEF TypeInv, TypeOK
    <3>2. k.task \in Holders(b) /\ k.task # NoTask
      BY <1>0, <2>0, <2>2, DistinctValues DEF Quiet, Knows, Holders
    <3>3. IndexRight(b)'
      BY <1>0, <3>1, <3>2 DEF IndexRight, Holders
    <3> QED
      BY <2>1, <3>3
  <2>3. CASE b # k.branch
    <3>1. index'[b] = index[b] /\ IndexRight(b)
      BY <1>0, <2>0, <2>3 DEF Quiet, TypeInv, TypeOK
    <3>2. IndexRight(b)'
      BY <1>0, <2>3, <3>1 DEF IndexRight, Holders
    <3> QED
      BY <2>1, <3>2
  <2> QED
    BY <2>2, <2>3
<1> HIDE DEF k
<1> QED
  BY <1>0, <1>1, <1>2, <1>3, <1>4, IndexStep DEF k

\* The facts about a lookup c in flight that the next lemmas share.
LEMMA LookupFacts ==
    ASSUME IndexInv, NEW c \in Calls, call[c].at \in LookupPlaces \ {"answered"}
    PROVE  /\ TypeInv /\ call[c] \in Call /\ Shaped(call[c]) /\ Busy(c)
           /\ call[c].op = "find" /\ call[c].branch \in Branches /\ call[c].task = NoTask
           /\ call[c].old = NoBranch
           /\ Concerns(call[c]) = {call[c].branch}
           /\ index[call[c].branch] \in MaybeTask
<1>1. TypeInv /\ call[c] \in Call /\ Shaped(call[c]) /\ Busy(c)
  BY DEF IndexInv, TypeInv, TypeOK, CallShape, LookupPlaces, Busy, Shaped
<1>2. /\ call[c].op = "find" /\ call[c].branch \in Branches /\ call[c].task = NoTask
      /\ call[c].old = NoBranch
  BY <1>1 DEF Shaped
<1> QED
  BY <1>1, <1>2, ConcernsFind DEF TypeInv, TypeOK

LEMMA LookupIndexIndex ==
    ASSUME IndexInv, TypeInv', NEW c \in Calls, LookupIndex(c)
    PROVE  IndexInv'
<1> DEFINE k == call[c]
<1>0. k.at = "lookup" /\ k.at \in LookupPlaces \ {"answered"}
  BY DEF LookupIndex, LookupPlaces
<1>1. /\ TypeInv /\ k \in Call /\ Busy(c) /\ k.op = "find" /\ k.task = NoTask
      /\ k.branch \in Branches /\ index[k.branch] \in MaybeTask
  BY <1>0, LookupFacts
<1>2. PICK t \in MaybeTask, ok \in BOOLEAN :
        /\ ok => t = index[k.branch]
        /\ call' = [call EXCEPT ![c] =
                     [call[c] EXCEPT !.found = t, !.alone = @ /\ ok,
                        !.at = IF t = NoTask THEN "scan" ELSE "verify"]]
  <2>1. NoTask \in MaybeTask
    BY DEF MaybeTask
  <2> QED
    BY <1>1, <2>1 DEF LookupIndex
<1>3. /\ \A d \in Calls \ {c} : call'[d] = call[d]
      /\ call'[c] = [call[c] EXCEPT !.found = t, !.alone = @ /\ ok,
                        !.at = IF t = NoTask THEN "scan" ELSE "verify"]
  BY <1>1, <1>2 DEF TypeInv, TypeOK
<1>4. /\ call'[c].op = k.op /\ call'[c].task = k.task /\ call'[c].branch = k.branch
      /\ call'[c].old = k.old /\ call'[c].found = t
      /\ call'[c].at = IF t = NoTask THEN "scan" ELSE "verify"
      /\ call'[c].alone <=> k.alone /\ ok
  BY <1>1, <1>3 DEF Call
<1>5. tasks' = tasks /\ index' = index /\ fresh' = fresh /\ disturbed' = disturbed
  BY DEF LookupIndex, store
<1>6. Concerns(call[c])' \subseteq Concerns(call[c])
  BY <1>4, <1>5 DEF Concerns
<1>7. AloneKnows(call[c])'
  BY <1>2, <1>4, <1>5 DEF AloneKnows
<1>8. \A b \in Branches \ disturbed' : Knows(call[c], b)'
  BY <1>4 DEF Knows
<1>9. call'[c].at \notin {"check", "put", "unindex", "index"}
  BY <1>4
<1>10. k.at \notin {"scan", "reindex", "unindex", "index"}
  BY <1>0
<1> HIDE DEF k
<1> QED
  BY <1>1, <1>3, <1>4, <1>5, <1>6, <1>7, <1>8, <1>9, <1>10, GoOn DEF k

\* An answer: of its branch it leaves the index right, if that was disturbed.
LEMMA AnswerIndex ==
    ASSUME IndexInv, TypeInv', NEW c \in Calls, NEW t \in MaybeTask, Answer(c, t),
           NEW b, b = call[c].branch,
           call[c].at \in LookupPlaces \ {"answered"},
           tasks' = tasks, fresh' = fresh,
           index' = index \/ index' = [index EXCEPT ![b] = t],
           call[c].alone => \/ index'[b] \in Holders(b)
                            \/ index'[b] = NoTask /\ Holders(b) = {},
           b \notin disturbed => IndexRight(b)'
    PROVE  IndexInv'
<1> DEFINE k == call[c]
<1>1. /\ TypeInv /\ k \in Call /\ Busy(c) /\ k.op = "find" /\ k.task = NoTask
      /\ b \in Branches /\ Concerns(k) = {b}
  BY LookupFacts
<1>2. /\ call'[c].at = "answered" /\ ~Busy(c)'
      /\ \A d \in Calls \ {c} : call'[d] = call[d]
  BY <1>1, AnswerType DEF Busy
<1>3. /\ FreshMissing'
      /\ AloneApart'
      /\ \A x \in Branches \ disturbed :
           /\ OneHolder(x)' /\ Exclusive(x)'
           /\ \A d \in Calls \ {c} : Knows(call[d], x)'
  BY <1>2, SameRecords
<1>4. \A d \in Calls \ {c} : AloneKnows(call[d])'
  BY <1>1, <1>2, OthersAlone
<1>5. AloneKnows(call[c])' /\ \A x : Knows(call[c], x)'
  BY <1>2 DEF AloneKnows, Knows
<1>6. ASSUME NEW x \in Branches \ disturbed PROVE Quiet(x)'
  <2>1. CASE x = b
    BY <1>3, <1>5, <2>1 DEF Quiet
  <2>2. CASE x # b
    <3>1. IndexRight(x) /\ index'[x] = index[x]
      BY <1>1, <2>2 DEF IndexInv, Quiet, TypeInv, TypeOK
    <3>2. k.at # "unindex"
      BY DEF LookupPlaces
    <3>3. IndexRight(x)'
      BY <1>2, <2>2, <3>1, <3>2 DEF IndexRight, Holders
    <3> QED
      BY <1>3, <1>5, <3>3 DEF Quiet
  <2> QED
    BY <2>1, <2>2
<1>7. ASSUME k.alone, Cardinality(Holders(b)) <= 1, b \in disturbed PROVE Quiet(b)'
  <2>1. OneHolder(b)'
    <3>1. IsFiniteSet(Holders(b))
      BY FiniteTasks, FS_Subset DEF Holders
    <3>2. ASSUME NEW u \in Holders(b), NEW v \in Holders(b), u # v PROVE FALSE
      <4>1. {u, v} \subseteq Holders(b) /\ IsFiniteSet({u, v})
        BY <3>1, FS_Subset
      <4>2. Cardinality({u, v}) = 2
        <5>1. IsFiniteSet({u}) /\ Cardinality({u}) = 1
          BY FS_Singleton
        <5>2. {u, v} = {u} \cup {v} /\ v \notin {u}
          BY <3>2
        <5>3. Cardinality({u} \cup {v}) = Cardinality({u}) + 1
          BY <5>1, <5>2, FS_AddElement
        <5> QED
          BY <5>1, <5>2, <5>3
      <4>3. Cardinality({u, v}) <= Cardinality(Holders(b))
        BY <3>1, <4>1, FS_Subset
      <4>4. Cardinality(Holders(b)) \in Nat
        BY <3>1, FS_CardinalityType
      <4> QED
        BY <1>7, <4>2, <4>3, <4>4
    <3> QED
      BY <3>2 DEF OneHolder, Holders
  <2>2. ASSUME NEW d \in Calls, Busy(d)'
        PROVE  d # c /\ Busy(d) /\ b \notin Concerns(call[d]) /\ b \notin Concerns(call[d])'
    <3>1. d # c /\ call'[d] = call[d] /\ Busy(d)
      BY <1>2, <2>2 DEF Busy
    <3>2. b \notin Concerns(call[d])
      BY <1>1, <1>7, <3>1, ApartFrom DEF IndexInv
    <3> QED
      BY <3>1, <3>2 DEF Concerns
  <2>3. Exclusive(b)'
    BY <2>2 DEF Exclusive
  <2>4. ASSUME NEW d \in Calls PROVE Knows(call[d], b)'
    <3> SUFFICES ASSUME call'[d].at \in {"check", "put", "unindex", "index", "reindex"}
                 PROVE  Knows(call[d], b)'
      BY DEF Knows
    <3>1. b \notin Concerns(call[d])'
      BY <2>2 DEF Busy
    <3>2. call'[d].at # "reindex" => call'[d].task \in Tasks
      BY DEF TypeInv, CallShape, Shaped
    <3>3. /\ call'[d].branch # b /\ call'[d].old # b
          /\ call'[d].at # "reindex" => tasks'[call'[d].task] # b
      BY <1>1, <3>1, <3>2 DEF Concerns
    <3> QED
      BY <3>3 DEF Knows
  <2>5. IndexRight(b)'
    <3>1. \/ index'[b] \in Holders(b)'
          \/ index'[b] = NoTask /\ Holders(b)' = {}
      BY <1>7 DEF Holders
    <3>2. NoTask \notin Holders(b)'
      BY DistinctValues DEF Holders
    <3> QED
      BY <3>1, <3>2 DEF IndexRight
  <2> QED
    BY <2>1, <2>3, <2>4, <2>5 DEF Quiet
<1>8. \A x \in Branches \ disturbed' :
        x \in Branches \ disturbed
        \/ (x = b /\ k.alone /\ Cardinality(Holders(b)) <= 1 /\ b \in disturbed)
  BY DEF Answer
<1>9. \A x \in Branches \ disturbed' : Quiet(x)'
  BY <1>6, <1>7, <1>8
<1>10. \A d \in Calls : AloneKnows(call[d])'
  BY <1>4, <1>5
<1> QED
  BY <1>3, <1>9, <1>10 DEF IndexInv

LEMMA VerifyIndex ==
    ASSUME IndexInv, TypeInv', NEW c \in Calls, VerifyIndexed(c)
    PROVE  IndexInv'
<1>0. /\ call[c].at = "verify" /\ call[c].at \in LookupPlaces \ {"answered"}
      /\ tasks' = tasks /\ index' = index /\ fresh' = fresh
  BY DEF VerifyIndexed, LookupPlaces, store
<1>1. /\ TypeInv /\ call[c] \in Call /\ Shaped(call[c]) /\ Busy(c)
      /\ call[c].op = "find" /\ call[c].branch \in Branches
  BY <1>0, LookupFacts
<1>2. call[c].found \in Tasks /\ call[c].found \in MaybeTask
  BY <1>0, <1>1 DEF Shaped, MaybeTask
<1>3. PICK b \in Branches : b = call[c].branch
  BY <1>1
<1>4. CASE tasks[call[c].found] = b /\ Answer(c, call[c].found)
  <2>1. call[c].alone => index'[b] \in Holders(b)
    BY <1>0, <1>2, <1>3, <1>4 DEF IndexInv, AloneKnows, Holders
  <2>2. ASSUME b \notin disturbed PROVE IndexRight(b)'
    <3>1. IndexRight(b)
      BY <2>2 DEF IndexInv, Quiet
    <3>2. \A d \in Calls \ {c} : call'[d] = call[d]
      BY <1>1, <1>2, <1>4, AnswerType
    <3> QED
      BY <1>0, <3>1, <3>2 DEF IndexRight, Holders
  <2> QED
    BY <1>0, <1>2, <1>3, <1>4, <2>1, <2>2, AnswerIndex
<1>5. CASE Goto(c, "repair") /\ disturbed' = disturbed
  <2>1. /\ \A d \in Calls \ {c} : call'[d] = call[d]
        /\ call'[c] = [call[c] EXCEPT !.at = "repair"]
    BY <1>1, <1>5 DEF Goto, TypeInv, TypeOK
  <2>2. /\ call'[c].op = call[c].op /\ call'[c].task = call[c].task
        /\ call'[c].branch = call[c].branch /\ call'[c].old = call[c].old
        /\ call'[c].alone = call[c].alone /\ call'[c].at = "repair"
    BY <1>1, <2>1 DEF Call
  <2>3. Concerns(call[c])' \subseteq Concerns(call[c])
    BY <1>0, <2>2 DEF Concerns
  <2>4. AloneKnows(call[c])' /\ \A x \in Branches : Knows(call[c], x)'
    BY <2>2 DEF AloneKnows, Knows
  <2> QED
    BY <1>0, <1>1, <1>5, <2>1, <2>2, <2>3, <2>4, GoOn
<1> QED
  BY <1>3, <1>4, <1>5 DEF VerifyIndexed

LEMMA RemoveIndex ==
    ASSUME IndexInv, TypeInv', NEW c \in Calls, RemoveStale(c)
    PROVE  IndexInv'
<1>0. /\ call[c].at = "repair" /\ call[c].at \in LookupPlaces \ {"answered"}
      /\ tasks' = tasks /\ fresh' = fresh /\ disturbed' = disturbed
  BY DEF RemoveStale, LookupPlaces
<1>1. /\ TypeInv /\ call[c] \in Call /\ Busy(c) /\ call[c].op = "find"
      /\ call[c].branch \in Branches /\ Concerns(call[c]) = {call[c].branch}
  BY <1>0, LookupFacts
<1>2. /\ \A d \in Calls \ {c} : call'[d] = call[d]
      /\ \/ /\ call'[c] = [call[c] EXCEPT !.at = "scan"]
            /\ index' = [index EXCEPT ![call[c].branch] = NoTask]
         \/ /\ call'[c] = [call[c] EXCEPT !.at = "scan", !.alone = FALSE]
            /\ index' = index
  BY <1>1 DEF RemoveStale, Goto, TypeInv, TypeOK
<1>3. /\ call'[c].op = call[c].op /\ call'[c].task = call[c].task
      /\ call'[c].branch = call[c].branch /\ call'[c].old = call[c].old
      /\ call'[c].at = "scan"
  BY <1>1, <1>2 DEF Call
<1>4. call'[c].alone => call[c].alone /\ index'[call[c].branch] = NoTask
  <2>1. CASE call'[c] = [call[c] EXCEPT !.at = "scan", !.alone = FALSE]
    BY <1>1, <2>1 DEF Call
  <2>2. CASE /\ call'[c] = [call[c] EXCEPT !.at = "scan"]
             /\ index' = [index EXCEPT ![call[c].branch] = NoTask]
    <3>1. call'[c].alone = call[c].alone
      BY <1>1, <2>2 DEF Call
    <3>2. index'[call[c].branch] = NoTask
      BY <1>1, <2>2 DEF TypeInv, TypeOK
    <3> QED
      BY <3>1, <3>2
  <2> QED
    BY <1>2, <2>1, <2>2
<1>5. Concerns(call[c])' \subseteq Concerns(call[c])
  BY <1>0, <1>3 DEF Concerns
<1>6. AloneKnows(call[c])'
  BY <1>3, <1>4 DEF AloneKnows
<1>7. ASSUME NEW b \in Branches \ disturbed' PROVE Knows(call[c], b)' /\ IndexRight(b)'
  <2>1. IndexRight(b)
    BY <1>0 DEF IndexInv, Quiet
  <2>2. Knows(call[c], b)'
    BY <1>3 DEF Knows
  <2>3. \/ index'[b] = index[b]
        \/ index'[b] = NoTask /\ call[c].branch = b
    BY <1>1, <1>2 DEF TypeInv, TypeOK
  <2>4. IndexRight(b)'
    BY <1>0, <1>2, <1>3, <2>1, <2>3 DEF IndexRight, Holders
  <2> QED
    BY <2>2, <2>4
<1>8. \/ index' = index
      \/ \E x \in Concerns(call[c]), v \in MaybeTask : index' = [index EXCEPT ![x] = v]
  BY <1>1, <1>2 DEF MaybeTask
<1> QED
  BY <1>0, <1>1, <1>2, <1>3, <1>4, <1>5, <1>6, <1>7, <1>8, IndexStep

LEMMA ScanIndex ==
    ASSUME IndexInv, TypeInv', NEW c \in Calls, ScanTasks(c)
    PROVE  IndexInv'
<1>0. /\ call[c].at = "scan" /\ call[c].at \in LookupPlaces \ {"answered"}
      /\ tasks' = tasks /\ index' = index /\ fresh' = fresh
  BY DEF ScanTasks, LookupPlaces, store
<1>1. /\ TypeInv /\ call[c] \in Call /\ Busy(c) /\ call[c].op = "find"
      /\ call[c].branch \in Branches
  BY <1>0, LookupFacts
<1>2. PICK b \in Branches : b = call[c].branch
  BY <1>1
<1>3. CASE Holders(b) = {}
  <2>1. Answer(c, NoTask) /\ NoTask \in MaybeTask
    BY <1>2, <1>3 DEF ScanTasks, MaybeTask
  <2>2. call[c].alone => index'[b] = NoTask
    BY <1>0, <1>2 DEF IndexInv, AloneKnows
  <2>3. ASSUME b \notin disturbed PROVE IndexRight(b)'
    <3>1. IndexRight(b)
      BY <2>3 DEF IndexInv, Quiet
    <3>2. \A d \in Calls \ {c} : call'[d] = call[d]
      BY <1>1, <2>1, AnswerType
    <3> QED
      BY <1>0, <1>3, <3>1, <3>2 DEF IndexRight, Holders
  <2> QED
    BY <1>0, <1>2, <1>3, <2>1, <2>2, <2>3, AnswerIndex
<1>4. CASE Holders(b) # {}
  <2>1. PICK t \in Holders(b) :
          /\ call' = [call EXCEPT ![c].found = t, ![c].at = "reindex"]
          /\ disturbed' = disturbed
    BY <1>2, <1>4 DEF ScanTasks
  <2>2. /\ \A d \in Calls \ {c} : call'[d] = call[d]
        /\ call'[c] = [call[c] EXCEPT !.found = t, !.at = "reindex"]
    BY <1>1, <2>1 DEF TypeInv, TypeOK
  <2>3. /\ call'[c].op = call[c].op /\ call'[c].task = call[c].task
        /\ call'[c].branch = call[c].branch /\ call'[c].old = call[c].old
        /\ call'[c].alone = call[c].alone /\ call'[c].at = "reindex"
        /\ call'[c].found = t
    BY <1>1, <2>2 DEF Call
  <2>4. Concerns(call[c])' \subseteq Concerns(call[c])
    BY <1>0, <2>3 DEF Concerns
  <2>5. AloneKnows(call[c])'
    BY <1>0, <1>2, <2>3 DEF AloneKnows, Holders
  <2>6. ASSUME NEW x \in Branches \ disturbed' PROVE Knows(call[c], x)' /\ IndexRight(x)'
    <3>1. IndexRight(x)
      BY <2>1 DEF IndexInv, Quiet
    <3>2. Knows(call[c], x)'
      BY <1>0, <1>2, <2>3 DEF Knows, Holders
    <3>3. \A d \in Calls : call[d].at = "unindex" => call'[d] = call[d]
      BY <1>0, <2>2
    <3>4. \A d \in Calls :
            call[d].at \in {"scan", "reindex", "unindex", "index"} /\ call[d].branch = x
            => /\ call'[d].at \in {"scan", "reindex", "unindex", "index"}
               /\ call'[d].branch = x
      BY <2>2, <2>3
    <3>5. IndexRight(x)'
      BY <1>0, <3>1, <3>3, <3>4 DEF IndexRight, Holders
    <3> QED
      BY <3>2, <3>5
  <2> QED
    BY <1>0, <1>1, <2>1, <2>2, <2>3, <2>4, <2>5, <2>6, IndexStep
<1> QED
  BY <1>3, <1>4

LEMMA ReindexIndex ==
    ASSUME IndexInv, TypeInv', NEW c \in Calls, Reindex(c)
    PROVE  IndexInv'
<1>0. /\ call[c].at = "reindex" /\ call[c].at \in LookupPlaces \ {"answered"}
      /\ tasks' = tasks /\ fresh' = fresh
  BY DEF Reindex, LookupPlaces
<1>1. /\ TypeInv /\ Shaped(call[c]) /\ call[c].branch \in Branches
  BY <1>0, LookupFacts
<1>2. call[c].found \in Tasks /\ call[c].found \in MaybeTask
  BY <1>0, <1>1 DEF Shaped, MaybeTask
<1>3. PICK b \in Branches : b = call[c].branch
  BY <1>1
<1>4. /\ index' = [index EXCEPT ![b] = call[c].found]
      /\ Answer(c, call[c].found)
  BY <1>3 DEF Reindex
<1>5. index'[b] = call[c].found
  BY <1>1, <1>4 DEF TypeInv, TypeOK
<1>6. call[c].alone => index'[b] \in Holders(b)
  BY <1>0, <1>3, <1>5 DEF IndexInv, AloneKnows
<1>7. ASSUME b \notin disturbed PROVE IndexRight(b)'
  <2>1. call[c].found \in Holders(b)
    BY <1>0, <1>3, <1>7 DEF IndexInv, Quiet, Knows
  <2> QED
    BY <1>0, <1>2, <1>5, <2>1, DistinctValues DEF IndexRight, Holders
<1> QED
  BY <1>0, <1>2, <1>3, <1>4, <1>6, <1>7, AnswerIndex

LEMMA ForgetIndex ==
    ASSUME IndexInv, TypeInv', NEW c \in Calls, Forget(c)
    PROVE  IndexInv'
<1>0. /\ call[c].at = "answered" /\ tasks' = tasks /\ index' = index
      /\ fresh' = fresh /\ disturbed' = disturbed
  BY DEF Forget, store
<1>1. call'[c] = Idle /\ \A d \in Calls \ {c} : call'[d] = call[d]
  BY DEF Forget, Return, IndexInv, TypeInv, TypeOK
<1>2. ~Busy(c)' /\ call'[c].at = "idle"
  BY <1>1, IdleType DEF Busy
<1>3. /\ FreshMissing'
      /\ AloneApart'
      /\ \A b \in Branches \ disturbed :
           /\ OneHolder(b)' /\ Exclusive(b)'
           /\ \A d \in Calls \ {c} : Knows(call[d], b)'
  BY <1>0, <1>1, <1>2, SameRecords
<1>4. \A d \in Calls \ {c} : AloneKnows(call[d])'
  BY <1>0, <1>1 DEF IndexInv, AloneKnows, Holders
<1>5. AloneKnows(call[c])'
  BY <1>2 DEF AloneKnows
<1>6. ASSUME NEW b \in Branches \ disturbed' PROVE Knows(call[c], b)' /\ IndexRight(b)'
  <2>1. IndexRight(b)
    BY <1>0 DEF IndexInv, Quiet
  <2>2. Knows(call[c], b)'
    BY <1>2 DEF Knows
  <2>3. IndexRight(b)'
    BY <1>0, <1>1, <2>1 DEF IndexRight, Holders
  <2> QED
    BY <2>2, <2>3
<1> QED
  BY <1>0, <1>3, <1>4, <1>5, <1>6, Together

LEMMA FailIndex ==
    ASSUME IndexInv, TypeInv', NEW c \in Calls, Fail(c)
    PROVE  IndexInv'
BY ReturnIndex DEF Fail, store

LEMMA CrashIndex ==
    ASSUME IndexInv, TypeInv', Crash
    PROVE  IndexInv'
<1>0. tasks' = tasks /\ index' = index /\ fresh' = fresh /\ disturbed \subseteq disturbed'
  BY DEF Crash, store
<1>1. \A d \in Calls : call'[d].at = "idle" /\ ~Busy(d)'
  BY IdleType DEF Crash, Busy
<1>2. FreshMissing' /\ AloneApart' /\ \A d \in Calls : AloneKnows(call[d])'
  BY <1>0, <1>1 DEF IndexInv, FreshMissing, AloneApart, AloneKnows
<1>3. ASSUME NEW b \in Branches \ disturbed' PROVE Quiet(b)'
  <2>0. OneHolder(b) /\ IndexRight(b)
    BY <1>0 DEF IndexInv, Quiet
  <2>1. OneHolder(b)'
    BY <1>0, <2>0 DEF OneHolder, Holders
  <2>2. Exclusive(b)' /\ \A d \in Calls : Knows(call[d], b)'
    BY <1>1 DEF Exclusive, Knows
  <2>3. \A d \in Calls : b \notin HalfDone(call[d])
    BY DEF Crash
  <2>4. \A d \in Calls :
          /\ call[d].at = "unindex" => call[d].old # b
          /\ call[d].at \in {"scan", "reindex", "unindex", "index"} => call[d].branch # b
    BY <2>3, ConcernsOf DEF HalfDone
  <2>5. IndexRight(b)'
    BY <1>0, <2>0, <2>4 DEF IndexRight, Holders
  <2> QED
    BY <2>1, <2>2, <2>5 DEF Quiet
<1> QED
  BY <1>2, <1>3 DEF IndexInv

LEMMA IndexInit == Init => IndexInv
<1> SUFFICES ASSUME Init PROVE IndexInv
  OBVIOUS
<1>1. \A d \in Calls : call[d].at = "idle" /\ ~Busy(d)
  BY IdleType DEF Init, Busy
<1>2. FreshMissing /\ AloneApart /\ \A d \in Calls : AloneKnows(call[d])
  BY <1>1 DEF Init, FreshMissing, AloneApart, AloneKnows
<1>3. ASSUME NEW b \in Branches PROVE Quiet(b)
  <2>1. Holders(b) = {}
    BY DistinctValues DEF Init, Holders
  <2> QED
    BY <1>1, <2>1 DEF Init, Quiet, OneHolder, Exclusive, Knows, IndexRight
<1> QED
  BY <1>2, <1>3, TypeInit DEF IndexInv

LEMMA IndexNext == IndexInv /\ [Next]_vars => IndexInv'
<1> SUFFICES ASSUME IndexInv, [Next]_vars PROVE IndexInv'
  OBVIOUS
<1>0. TypeInv'
  BY TypeStep DEF IndexInv
<1>1. ASSUME NEW c \in Calls, Begin(c) PROVE IndexInv'
  <2>1. PICK k \in Call : Begins(c, k)
    BY <1>1, BeginFacts DEF IndexInv
  <2> QED
    BY <1>0, <2>1, BeginIndex
<1>2. ASSUME NEW c \in Calls, Await(c) PROVE IndexInv'
  BY <1>0, <1>2, ReadIndex, CheckIndex, PutIndex, UnindexIndex, SetIndex,
     LookupIndexIndex, VerifyIndex, RemoveIndex, ScanIndex, ReindexIndex, ForgetIndex
  DEF Await
<1>3. ASSUME NEW c \in Calls, Fail(c) PROVE IndexInv'
  BY <1>0, <1>3, FailIndex
<1>4. CASE Crash
  BY <1>0, <1>4, CrashIndex
<1>5. CASE UNCHANGED vars
  <2>1. \A k, l : Concerns(k)' = Concerns(k') /\ Meet(k, l)' = Meet(k', l')
    BY <1>5 DEF vars, Concerns, Meet
  <2> QED
    BY <1>0, <1>5 DEF vars, IndexInv, FreshMissing, AloneApart, AloneKnows, Quiet,
       OneHolder, Exclusive, Knows, IndexRight, Holders, Busy, Meet, Concerns
<1> QED
  BY <1>1, <1>2, <1>3, <1>4, <1>5 DEF Next

\* Of a branch whose calls did not overlap or break off, no two tasks.
THEOREM BranchesAreExclusive == Spec => []OneTaskPerBranch
<1>1. IndexInv => OneTaskPerBranch
  <2> SUFFICES ASSUME IndexInv, NEW b \in Branches \ disturbed
               PROVE  Cardinality(Holders(b)) <= 1
    BY DEF OneTaskPerBranch
  <2>1. OneHolder(b)
    BY DEF IndexInv, Quiet
  <2>2. CASE Holders(b) = {}
    BY <2>2, FS_EmptySet
  <2>3. CASE Holders(b) # {}
    <3>1. PICK t \in Holders(b) : Holders(b) = {t}
      BY <2>1, <2>3 DEF OneHolder
    <3>2. Cardinality({t}) = 1
      BY FS_Singleton
    <3> QED
      BY <3>1, <3>2
  <2> QED
    BY <2>2, <2>3
<1> QED
  BY <1>1, IndexInit, IndexNext, PTL DEF Spec

\* The entry that an undisturbed branch has while nobody concerns it names a
\* task that works on it: an update or a delete takes its own entry with it.
THEOREM FreeBranchesNotRefused == Spec => []FreeBranchesAvailable
<1>1. IndexInv => FreeBranchesAvailable
  <2> SUFFICES ASSUME IndexInv, NEW b \in Branches \ disturbed,
                      \A c \in Calls : Busy(c) => b \notin Concerns(call[c])
               PROVE  index[b] = NoTask \/ tasks[index[b]] = b
    BY DEF FreeBranchesAvailable
  <2>1. IndexRight(b)
    BY DEF IndexInv, Quiet
  <2>2. ~\E c \in Calls : call[c].at = "unindex" /\ call[c].old = b
    BY BusyPlaces, ConcernsOf
  <2> QED
    BY <2>1, <2>2 DEF IndexRight, Holders
<1> QED
  BY <1>1, IndexInit, IndexNext, PTL DEF Spec
=============================================================================
