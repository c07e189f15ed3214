------------------------ MODULE DependencyGraphProofs ------------------------
(***************************************************************************)
(* What the searches of DependencyGraph compute, for any set of tasks, any *)
(* lists of dependencies and priorities, and any order of the lists they   *)
(* are given.                                                              *)
(*                                                                         *)
(* The arguments are about the stack: its ids are a path of the graph, so  *)
(* that a call of an id on it closes a cycle, and what a loop has passed   *)
(* has been dealt with.  No induction over the graph is needed: it is the  *)
(* run of the search.                                                      *)
(***************************************************************************)
EXTENDS DependencyGraph, FiniteSetTheorems, SequenceTheorems, TLAPS

-----------------------------------------------------------------------------
(* The inductive invariant, in parts.                                      *)

\* The stack: each call is the one that its caller's loop has come to.
CallsMade ==
    /\ \A k \in 1..Len(at) : at[k] <= Len(Loop(k)) + 1
    /\ \A k \in 1..Len(path) : at[k] <= Len(Loop(k)) /\ path[k] = Loop(k)[at[k]]

\* No id is in two calls.
CalledOnce == \A i, j \in 1..Len(path) : path[i] = path[j] => i = j

\* A call can be reached from every call around it.
PathReaches == \A i, j \in 1..Len(path) : i < j => path[j] \in Reach(path[i])

PathEntered == search.kind # "depth" => \A k \in 1..Len(path) : entered[path[k]] # 0

StackInv ==
    /\ Len(at) = Len(path) + 1
    /\ CallsMade /\ CalledOnce /\ PathReaches /\ PathEntered

\* What holds of a search from its beginning on.
InputInv ==
    /\ search.kind = "none" =>
          /\ path = <<>> /\ at = <<1>> /\ roots = <<>>
          /\ entered = [x \in Ids |-> 0]
    /\ found => search.kind = "check"
    /\ search.kind # "cycles" => cycles = <<>>
    /\ search.kind # "sort" => result = <<>>
    /\ search.kind # "depth" => best = <<0>>
    /\ search.kind \in Kinds => ToSet(roots) = listed
    /\ search.kind = "sort" =>
          \A i, j \in DOMAIN roots : i < j => priority[roots[i]] >= priority[roots[j]]

\* each call has its maximum
BestInv == search.kind = "depth" => Len(best) = Len(at)

Visiting == search.kind \in {"check", "cycles"}

\* a call of x has ended
Black(x) == entered[x] # 0 /\ ~OnPath(x)

\* a cycle has been reported that the edge from x to y closes
Back(x, y) == \E i \in DOMAIN cycles : Last(cycles[i]) = x /\ cycles[i][1] = y

\* What has been looked at is black, or was on the path and has been reported.  In
\* any set of black ids is one from which no edge leads into the set, those
\* reported apart.
VisitInv ==
    Visiting =>
        /\ \A m \in 1..(at[1] - 1) : Black(roots[m])
        /\ \A k \in 2..Len(at) : \A m \in 1..(at[k] - 1) :
              Black(Loop(k)[m]) \/ Back(path[k - 1], Loop(k)[m])
        /\ \A x, y \in Ids : Black(x) /\ Edge(x, y) => Black(y) \/ Back(x, y)
        /\ \A S \in SUBSET Ids : S # {} /\ (\A x \in S : Black(x)) =>
              \E s \in S : \A y \in S : Edge(s, y) => Back(s, y)

FoundInv ==
    found => \E d \in ToSet(roots) : \E e \in {d} \cup Reach(d) : OnCycle(e)

\* Ids are on the path, and in a cycle, in the order of their entry.
OrderInv ==
    search.kind = "cycles" =>
        /\ \A x \in Ids : entered[x] <= Count
        /\ \A i, j \in 1..Len(path) : i < j => entered[path[i]] < entered[path[j]]
        /\ \A c \in ToSet(cycles) : \A i, j \in 1..Len(c) :
              entered[c[i]] # 0 /\ (i < j => entered[c[i]] < entered[c[j]])

CycleInv ==
    \A c \in ToSet(cycles) :
        /\ IsCycle(c)
        /\ \A i, j \in 1..Len(c) : c[j] \in Reach(c[i])

\* An edge that closes a cycle has been looked at, once for each time it is there.
OnceInv ==
    /\ \A c \in ToSet(cycles) :
          \/ Black(Last(c))
          \/ \E k \in 1..Len(path) : \E m \in 1..(at[k + 1] - 1) :
                path[k] = Last(c) /\ Loop(k + 1)[m] = c[1]
    /\ \A i, j \in 1..Len(cycles) :
          i # j /\ Last(cycles[i]) = Last(cycles[j]) /\ cycles[i][1] = cycles[j][1]
          => Twice(Last(cycles[i]), cycles[i][1])

\* The list has what is black, each once; and of each task in it, the root from
\* which it was visited, and that all roots before are in the list before it.
ResultInv ==
    search.kind = "sort" =>
        /\ \A k \in 1..Len(path) : path[k] \in listed
        /\ \A x \in Ids : Black(x) <=> x \in ToSet(result)
        /\ \A x \in ToSet(result) : x \in listed
        /\ \A i, j \in 1..Len(result) : result[i] = result[j] => i = j
        /\ \A m \in 1..(at[1] - 1) : roots[m] \in ToSet(result)
        /\ \A j \in 1..Len(result) : \E k \in 1..Len(roots) :
              /\ result[j] = roots[k] \/ result[j] \in Reach(roots[k])
              /\ \A m \in 1..(k - 1) : \E i \in 1..(j - 1) : result[i] = roots[m]

SortInv ==
    search.kind = "sort" /\ Acyclic =>
        /\ \A k \in 2..Len(at) : \A m \in 1..(at[k] - 1) :
              Loop(k)[m] \in listed => Loop(k)[m] \in ToSet(result)
        /\ \A j \in 1..Len(result) : \A u \in listed : Edge(result[j], u) =>
              \E i \in 1..(j - 1) : result[i] = u

\* The maximum of the lengths of the paths from what a loop has passed.
DepthInv ==
    search.kind = "depth" =>
        /\ \A k \in 1..Len(path) : ~Leaf(path[k])
        /\ Acyclic => \A k \in 1..Len(at) :
              /\ \A m \in 1..(at[k] - 1), n \in Nat : HasPath(Loop(k)[m], n) => n <= best[k]
              /\ \/ at[k] = 1 /\ best[k] = 0
                 \/ \E m \in 1..(at[k] - 1) : HasPath(Loop(k)[m], best[k])

-----------------------------------------------------------------------------
(* Reachability.                                                           *)

LEMMA ReachEdge ==
    ASSUME NEW a \in Ids, NEW b \in Ids, Edge(a, b)
    PROVE  b \in Reach(a)
BY DEF Reach

LEMMA ReachOn ==
    ASSUME NEW a \in Ids, NEW b \in Reach(a), NEW c \in Ids, Edge(b, c)
    PROVE  c \in Reach(a)
BY DEF Reach, Closed

LEMMA ReachTrans ==
    ASSUME NEW a \in Ids, NEW b \in Reach(a), NEW c \in Reach(b)
    PROVE  c \in Reach(a)
<1>1. b \in Ids /\ c \in Ids
  BY DEF Reach
<1>2. ASSUME NEW S \in SUBSET Ids, Closed(S), \A d \in Ids : Edge(a, d) => d \in S
      PROVE  c \in S
  <2>1. b \in S
    BY <1>2 DEF Reach
  <2>2. \A d \in Ids : Edge(b, d) => d \in S
    BY <1>2, <2>1 DEF Closed
  <2> QED
    BY <1>2, <2>2 DEF Reach
<1> QED
  BY <1>1, <1>2 DEF Reach

\* What is reached is in every closed set that has the first steps.
LEMMA ReachLeast ==
    ASSUME NEW a \in Ids, NEW S \in SUBSET Ids, Closed(S),
           \A c \in Ids : Edge(a, c) => c \in S
    PROVE  Reach(a) \subseteq S
BY DEF Reach

LEMMA ReachFirst ==
    ASSUME NEW a \in Ids, NEW c \in Reach(a)
    PROVE  Edge(a, c) \/ \E b \in Ids : Edge(a, b) /\ c \in Reach(b)
<1> DEFINE S == {x \in Ids : Edge(a, x) \/ \E b \in Ids : Edge(a, b) /\ x \in Reach(b)}
<1>1. Closed(S)
  <2> SUFFICES ASSUME NEW x \in S, NEW y \in Ids, Edge(x, y) PROVE y \in S
    BY DEF Closed
  <2>1. CASE Edge(a, x)
    BY <2>1, ReachEdge
  <2>2. CASE \E b \in Ids : Edge(a, b) /\ x \in Reach(b)
    BY <2>2, ReachOn
  <2> QED
    BY <2>1, <2>2
<1>2. Reach(a) \subseteq S
  <2> HIDE DEF S
  <2>1. S \in SUBSET Ids /\ \A d \in Ids : Edge(a, d) => d \in S
    BY DEF S
  <2> QED
    BY <1>1, <2>1, ReachLeast
<1> QED
  BY <1>2

\* The ids that are on cycles with a have each an edge to one of them.
Around(a) == {x \in Ids : x \in Reach(a) /\ a \in Reach(x)}

LEMMA AroundCycle ==
    ASSUME NEW a \in Ids, OnCycle(a)
    PROVE  /\ a \in Around(a)
           /\ \A x \in Around(a) : \E y \in Around(a) : Edge(x, y)
<1>1. a \in Around(a)
  BY DEF Around, OnCycle
<1>2. ASSUME NEW x \in Around(a) PROVE \E y \in Around(a) : Edge(x, y)
  <2>1. x \in Ids /\ x \in Reach(a) /\ a \in Reach(x)
    BY DEF Around
  <2>2. CASE Edge(x, a)
    BY <1>1, <2>2
  <2>3. ASSUME NEW b \in Ids, Edge(x, b), a \in Reach(b)
        PROVE  b \in Around(a)
    BY <2>1, <2>3, ReachOn DEF Around
  <2> QED
    BY <2>1, <2>2, <2>3, ReachFirst
<1> QED
  BY <1>1, <1>2

\* While the list and its dependencies stay as they are, so does the graph.
LEMMA SameGraph ==
    ASSUME UNCHANGED <<listed, deps>>
    PROVE  /\ \A a, b : Edge(a, b)' <=> Edge(a, b)
           /\ \A a : Reach(a)' = Reach(a)
           /\ \A a : OnCycle(a)' <=> OnCycle(a)
           /\ Acyclic' <=> Acyclic
           /\ \A a : DepsOf(a)' = DepsOf(a)
           /\ \A a, n : HasPath(a, n)' <=> HasPath(a, n)
           /\ \A a : Leaf(a)' <=> Leaf(a)
           /\ \A a, b : Twice(a, b)' <=> Twice(a, b)
           /\ \A c : IsCycle(c)' <=> IsCycle(c)
<1>1. \A a : DepsOf(a)' = DepsOf(a)
  BY DEF DepsOf
<1>2. \A a, b : Edge(a, b)' <=> Edge(a, b)
  BY <1>1 DEF Edge
<1>3. \A S : Closed(S)' <=> Closed(S)
  BY <1>2 DEF Closed
<1>4. \A a : Reach(a)' = Reach(a)
  BY <1>2, <1>3 DEF Reach
<1>5. \A a : OnCycle(a)' <=> OnCycle(a)
  BY <1>4 DEF OnCycle
<1> QED
  BY <1>1, <1>2, <1>4, <1>5 DEF Acyclic, HasPath, Leaf, Twice, IsCycle

-----------------------------------------------------------------------------
(* Paths and their lengths.                                                *)

LEMMA PathOn ==
    ASSUME NEW a \in Ids, NEW b \in Ids, Edge(a, b), NEW n \in Nat, HasPath(b, n)
    PROVE  HasPath(a, n + 1)
<1>1. PICK s \in [0..n -> Ids] : s[0] = b /\ \A i \in 0..(n - 1) : Edge(s[i], s[i + 1])
  BY DEF HasPath
<1> DEFINE r == [i \in 0..(n + 1) |-> IF i = 0 THEN a ELSE s[i - 1]]
<1>2. r \in [0..(n + 1) -> Ids] /\ r[0] = a
  BY <1>1
<1>3. ASSUME NEW i \in 0..n PROVE Edge(r[i], r[i + 1])
  <2>1. CASE i = 0
    BY <1>1, <2>1
  <2>2. CASE i # 0
    <3>1. i - 1 \in 0..(n - 1) /\ r[i] = s[i - 1] /\ r[i + 1] = s[(i - 1) + 1]
      BY <2>2
    <3> QED
      BY <1>1, <3>1
  <2> QED
    BY <2>1, <2>2
<1>4. n + 1 \in Nat /\ (n + 1) - 1 = n
  OBVIOUS
<1> HIDE DEF r
<1> QED
  BY <1>2, <1>3, <1>4 DEF HasPath

LEMMA PathFirst ==
    ASSUME NEW a \in Ids, NEW n \in Nat, n # 0, HasPath(a, n)
    PROVE  \E b \in Ids : Edge(a, b) /\ HasPath(b, n - 1)
<1>1. PICK s \in [0..n -> Ids] : s[0] = a /\ \A i \in 0..(n - 1) : Edge(s[i], s[i + 1])
  BY DEF HasPath
<1> DEFINE r == [i \in 0..(n - 1) |-> s[i + 1]]
<1>2. r \in [0..(n - 1) -> Ids] /\ r[0] = s[1] /\ s[1] \in Ids
  BY <1>1
<1>3. Edge(a, s[1])
  BY <1>1
<1>4. ASSUME NEW i \in 0..((n - 1) - 1) PROVE Edge(r[i], r[i + 1])
  <2>1. i + 1 \in 0..(n - 1) /\ r[i] = s[i + 1] /\ r[i + 1] = s[(i + 1) + 1]
    OBVIOUS
  <2> QED
    BY <1>1, <2>1
<1> QED
  BY <1>2, <1>3, <1>4 DEF HasPath

LEMMA NoPath ==
    ASSUME NEW a \in Ids
    PROVE  HasPath(a, 0)
<1> DEFINE r == [i \in 0..0 |-> a]
<1>1. r \in [0..0 -> Ids] /\ r[0] = a
  OBVIOUS
<1>2. 0..(0 - 1) = {}
  OBVIOUS
<1> HIDE DEF r
<1> QED
  BY <1>1, <1>2 DEF HasPath

LEMMA LeafPath ==
    ASSUME NEW a \in Ids, Leaf(a), NEW n \in Nat, HasPath(a, n)
    PROVE  n = 0
BY PathFirst DEF Leaf, Edge, ToSet

-----------------------------------------------------------------------------
(* What a step does to the stack.                                          *)

\* the shape of the stack, which every step keeps
Shaped == TypeOK /\ Len(at) = Len(path) + 1

LEMMA OnPathIndex ==
    ASSUME path \in Seq(Ids)
    PROVE  \A x : OnPath(x) <=> \E k \in 1..Len(path) : path[k] = x
BY DEF OnPath, ToSet

LEMMA PushFacts ==
    ASSUME Shaped, NEW x \in Ids, Push(x), UNCHANGED <<graph, input>>
    PROVE  /\ path' \in Seq(Ids) /\ at' \in Seq(Nat \ {0})
           /\ Len(path') = Len(path) + 1 /\ Len(at') = Len(at) + 1
           /\ \A k \in 1..Len(path) : path'[k] = path[k]
           /\ path'[Len(path) + 1] = x
           /\ \A k \in 1..Len(at) : at'[k] = at[k]
           /\ at'[Len(at) + 1] = 1
           /\ \A k \in 1..Len(at) : Loop(k)' = Loop(k)
           /\ \A n : n = Len(at) + 1 => Loop(n)' = DepsOf(x)
           /\ \A y : OnPath(y)' <=> OnPath(y) \/ y = x
<1>1. path \in Seq(Ids) /\ at \in Seq(Nat \ {0}) /\ Len(path) \in Nat /\ Len(at) \in Nat
  BY DEF Shaped, TypeOK
<1>2. /\ path' \in Seq(Ids)
      /\ Len(path') = Len(path) + 1
      /\ \A k \in 1..Len(path) : path'[k] = path[k]
      /\ path'[Len(path) + 1] = x
  BY <1>1 DEF Push
<1>3. /\ at' \in Seq(Nat \ {0})
      /\ Len(at') = Len(at) + 1
      /\ \A k \in 1..Len(at) : at'[k] = at[k]
      /\ at'[Len(at) + 1] = 1
  BY <1>1 DEF Push
<1>4. \A t : DepsOf(t)' = DepsOf(t)
  BY DEF DepsOf, graph, input
<1>5. ASSUME NEW k \in 1..Len(at) PROVE Loop(k)' = Loop(k)
  <2>1. CASE k = 1
    BY <2>1 DEF Loop, input
  <2>2. CASE k # 1
    <3>1. k - 1 \in 1..Len(path)
      BY <1>1, <2>2 DEF Shaped
    <3>2. path'[k - 1] = path[k - 1]
      BY <1>2, <3>1
    <3> QED
      BY <1>4, <2>2, <3>2 DEF Loop
  <2> QED
    BY <2>1, <2>2
<1>6. \A n : n = Len(at) + 1 => Loop(n)' = DepsOf(x)
  BY <1>1, <1>2, <1>4 DEF Loop, Shaped
<1>7. \A y : OnPath(y)' <=> OnPath(y) \/ y = x
  <2>1. \A y : OnPath(y)' <=> \E k \in 1..Len(path') : path'[k] = y
    BY <1>2 DEF OnPath, ToSet
  <2> QED
    BY <1>1, <1>2, <2>1, OnPathIndex
<1> QED
  BY <1>2, <1>3, <1>5, <1>6, <1>7

LEMMA AdvanceFacts ==
    ASSUME Shaped, Advance, UNCHANGED <<graph, input>>
    PROVE  /\ path' = path /\ at' \in Seq(Nat \ {0}) /\ Len(at') = Len(at)
           /\ \A k \in 1..(Len(at) - 1) : at'[k] = at[k]
           /\ at'[Len(at)] = at[Len(at)] + 1
           /\ \A k : Loop(k)' = Loop(k)
           /\ \A y : OnPath(y)' <=> OnPath(y)
<1>1. path \in Seq(Ids) /\ at \in Seq(Nat \ {0}) /\ Len(path) \in Nat /\ Len(at) \in Nat
  BY DEF Shaped, TypeOK
<1>2. /\ at' \in Seq(Nat \ {0}) /\ Len(at') = Len(at)
      /\ \A k \in 1..(Len(at) - 1) : at'[k] = at[k]
      /\ at'[Len(at)] = at[Len(at)] + 1
  BY <1>1 DEF Advance, Shaped
<1>3. \A t : DepsOf(t)' = DepsOf(t)
  BY DEF DepsOf, graph, input
<1> QED
  BY <1>2, <1>3 DEF Advance, Loop, OnPath, input

LEMMA FrontFacts ==
    ASSUME NEW S, NEW s \in Seq(S), s # <<>>
    PROVE  /\ Front(s) \in Seq(S) /\ Len(Front(s)) = Len(s) - 1
           /\ \A k \in 1..(Len(s) - 1) : Front(s)[k] = s[k]
           /\ Last(s) = s[Len(s)] /\ Len(s) \in Nat \ {0}
<1>1. Len(s) \in Nat \ {0} /\ \A i \in 1..(Len(s) - 1) : s[i] \in S
  BY EmptySeq
<1>2. /\ Front(s) \in Seq(S)
      /\ Len(Front(s)) = IF 1 <= Len(s) - 1 THEN (Len(s) - 1) - 1 + 1 ELSE 0
      /\ \A i \in 1..((Len(s) - 1) - 1 + 1) : Front(s)[i] = s[1 + i - 1]
  BY <1>1, SubSeqProperties DEF Front
<1> DEFINE f == Front(s)
<1>3. /\ f \in Seq(S)
      /\ Len(f) = IF 1 <= Len(s) - 1 THEN (Len(s) - 1) - 1 + 1 ELSE 0
      /\ \A i \in 1..((Len(s) - 1) - 1 + 1) : f[i] = s[1 + i - 1]
  BY <1>2
<1> HIDE DEF f
<1>4. Len(f) = Len(s) - 1
  <2>1. CASE Len(s) = 1
    <3>1. ~(1 <= Len(s) - 1) /\ Len(s) - 1 = 0
      BY <2>1
    <3> QED
      BY <1>3, <3>1
  <2>2. CASE Len(s) # 1
    <3> DEFINE n == Len(s)
    <3>0. n \in Nat /\ n # 0 /\ n # 1
      BY <1>1, <2>2
    <3> HIDE DEF n
    <3>2. 1 <= n - 1 /\ (n - 1) - 1 + 1 = n - 1
      BY <3>0
    <3>1. 1 <= Len(s) - 1 /\ (Len(s) - 1) - 1 + 1 = Len(s) - 1
      BY <3>2 DEF n
    <3> QED
      BY <1>3, <3>1
  <2> QED
    BY <2>1, <2>2
<1>5. ASSUME NEW k \in 1..(Len(s) - 1) PROVE f[k] = s[k]
  <2>1. k \in 1..((Len(s) - 1) - 1 + 1) /\ 1 + k - 1 = k
    BY <1>1
  <2>2. f[k] = s[1 + k - 1]
    BY <1>3, <2>1
  <2> QED
    BY <2>1, <2>2
<1> QED
  BY <1>1, <1>3, <1>4, <1>5 DEF Last, f

LEMMA PopFacts ==
    ASSUME Shaped, path # <<>>, Pop, UNCHANGED <<graph, input>>
    PROVE  /\ path' \in Seq(Ids) /\ at' \in Seq(Nat \ {0})
           /\ Len(path) \in Nat \ {0}
           /\ Len(path') = Len(path) - 1 /\ Len(at') = Len(at) - 1
           /\ \A k \in 1..(Len(path) - 1) : path'[k] = path[k]
           /\ \A k \in 1..(Len(path) - 1) : at'[k] = at[k]
           /\ at'[Len(path)] = at[Len(path)] + 1
           /\ \A k \in 1..Len(path) : Loop(k)' = Loop(k)
           /\ Last(path) = path[Len(path)] /\ Last(path) \in Ids
<1>1. path \in Seq(Ids) /\ at \in Seq(Nat \ {0}) /\ at # <<>>
  BY DEF Shaped, TypeOK
<1>2. /\ path' \in Seq(Ids) /\ Len(path') = Len(path) - 1 /\ Len(path) \in Nat \ {0}
      /\ \A k \in 1..(Len(path) - 1) : path'[k] = path[k]
      /\ Last(path) = path[Len(path)]
  BY <1>1, FrontFacts DEF Pop
<1>3. /\ Front(at) \in Seq(Nat \ {0}) /\ Len(Front(at)) = Len(at) - 1
      /\ \A k \in 1..(Len(at) - 1) : Front(at)[k] = at[k]
  BY <1>1, FrontFacts
<1>4. at' = [Front(at) EXCEPT ![Len(path)] = @ + 1]
  BY <1>2 DEF Pop, Shaped
<1>5. /\ at' \in Seq(Nat \ {0}) /\ Len(at') = Len(at) - 1
      /\ \A k \in 1..(Len(path) - 1) : at'[k] = at[k]
      /\ at'[Len(path)] = at[Len(path)] + 1
  <2> DEFINE f == Front(at)
  <2>1. f \in Seq(Nat \ {0}) /\ Len(f) = Len(path) /\ at' = [f EXCEPT ![Len(path)] = @ + 1]
    BY <1>3, <1>4 DEF Shaped
  <2>2. \A k \in 1..Len(path) : f[k] = at[k]
    BY <1>3 DEF Shaped
  <2> HIDE DEF f
  <2>3. /\ at' \in Seq(Nat \ {0}) /\ Len(at') = Len(path)
        /\ \A k \in 1..(Len(path) - 1) : at'[k] = f[k]
        /\ at'[Len(path)] = f[Len(path)] + 1
    BY <1>2, <2>1
  <2> QED
    BY <1>2, <2>2, <2>3 DEF Shaped
<1>6. \A t : DepsOf(t)' = DepsOf(t)
  BY DEF DepsOf, graph, input
<1>7. \A k \in 1..Len(path) : Loop(k)' = Loop(k)
  BY <1>2, <1>6 DEF Loop, input
<1> QED
  BY <1>1, <1>2, <1>5, <1>7

-----------------------------------------------------------------------------
(* The stack is a path of the graph.                                       *)

BaseInv == TypeOK /\ StackInv /\ InputInv /\ BestInv

LEMMA BaseShaped == BaseInv => Shaped
BY DEF BaseInv, StackInv, Shaped

LEMMA LoopType ==
    ASSUME Shaped
    PROVE  /\ \A t \in Ids : DepsOf(t) \in Seq(Ids)
           /\ \A k \in 1..Len(at) : Loop(k) \in Seq(Ids)
<1>1. \A t \in Ids : DepsOf(t) \in Seq(Ids)
  BY DEF DepsOf, Shaped, TypeOK
<1>2. ASSUME NEW k \in 1..Len(at), k # 1 PROVE path[k - 1] \in Ids
  <2>1. path \in Seq(Ids) /\ Len(path) \in Nat /\ k - 1 \in 1..Len(path)
    BY <1>2 DEF Shaped, TypeOK
  <2> QED
    BY <2>1
<1> QED
  BY <1>1, <1>2 DEF Loop, Shaped, TypeOK

LEMMA EdgeIndex ==
    ASSUME Shaped, NEW a \in Ids
    PROVE  \A b : Edge(a, b) <=> \E m \in 1..Len(DepsOf(a)) : DepsOf(a)[m] = b
BY LoopType DEF Edge, ToSet

\* The next call is of a dependency of the innermost, or of a root.
LEMMA CalleeFacts ==
    ASSUME BaseInv, More
    PROVE  /\ Callee \in Ids
           /\ Len(at) \in Nat \ {0} /\ Len(path) \in Nat
           /\ at[Len(at)] \in 1..Len(Loop(Len(at)))
           /\ Callee = Loop(Len(at))[at[Len(at)]]
           /\ path # <<>> => Len(path) # 0 /\ Edge(path[Len(path)], Callee)
           /\ path = <<>> => Len(at) = 1 /\ Callee = roots[at[1]]
<1>1. /\ path \in Seq(Ids) /\ at \in Seq(Nat \ {0}) /\ Len(path) \in Nat
      /\ Len(at) = Len(path) + 1 /\ Loop(Len(at)) \in Seq(Ids)
  <2>1. path \in Seq(Ids) /\ at \in Seq(Nat \ {0}) /\ Len(at) = Len(path) + 1 /\ Shaped
    BY BaseShaped DEF Shaped, TypeOK
  <2>2. Len(path) \in Nat /\ Len(at) \in 1..Len(at)
    BY <2>1
  <2> QED
    BY <2>1, <2>2, LoopType
<1>2. at[Len(at)] \in 1..Len(Loop(Len(at)))
  BY <1>1 DEF More, Last
<1>3. Callee \in Ids /\ Callee = Loop(Len(at))[at[Len(at)]]
  BY <1>1, <1>2 DEF Callee, Last
<1>4. CASE path # <<>>
  <2>1. Len(path) # 0
    BY <1>1, <1>4, EmptySeq
  <2>2. path[Len(path)] \in Ids /\ Loop(Len(at)) = DepsOf(path[Len(path)])
    BY <1>1, <2>1 DEF Loop
  <2>3. Edge(path[Len(path)], Callee)
    BY <1>2, <1>3, <2>2, EdgeIndex, BaseShaped
  <2> QED
    BY <1>1, <1>2, <1>3, <1>4, <2>1, <2>3
<1>5. CASE path = <<>>
  <2>1. Len(at) = 1
    BY <1>1, <1>5
  <2> QED
    BY <1>1, <1>2, <1>3, <1>5, <2>1 DEF Loop
<1> QED
  BY <1>4, <1>5

\* A call of an id on the path closes a cycle.
LEMMA OnPathCycle ==
    ASSUME BaseInv, More, OnPath(Callee)
    PROVE  /\ path # <<>> /\ OnCycle(Callee)
           /\ \A k \in 1..Len(path) : Callee \in Reach(path[k])
<1>0. path \in Seq(Ids) /\ Len(path) \in Nat
  BY DEF BaseInv, TypeOK
<1>1. PICK i \in 1..Len(path) : path[i] = Callee
  BY <1>0, OnPathIndex
<1>2. path # <<>> /\ path[Len(path)] \in Ids /\ Edge(path[Len(path)], Callee) /\ Callee \in Ids
  BY <1>0, <1>1, CalleeFacts
<1>3. ASSUME NEW k \in 1..Len(path) PROVE Callee \in Reach(path[k])
  <2>1. path[k] \in Ids
    BY <1>0
  <2>2. CASE k = Len(path)
    BY <1>2, <2>2, ReachEdge
  <2>3. CASE k # Len(path)
    <3>1. path[Len(path)] \in Reach(path[k])
      BY <1>0, <2>3 DEF BaseInv, StackInv, PathReaches
    <3> QED
      BY <1>2, <2>1, <3>1, ReachOn
  <2> QED
    BY <2>2, <2>3
<1> QED
  BY <1>1, <1>2, <1>3 DEF OnCycle

LEMMA StackPush ==
    ASSUME BaseInv, More, NEW x, x = Callee, ~OnPath(x), Push(x),
           UNCHANGED <<graph, input>>,
           entered' \in [Ids -> Nat],
           search.kind # "depth" =>
              entered'[x] # 0 /\ \A y \in Ids : entered[y] # 0 => entered'[y] # 0
    PROVE  StackInv'
<1>0. /\ Shaped /\ StackInv /\ x \in Ids
      /\ Len(path) \in Nat /\ Len(at) = Len(path) + 1
      /\ \A k \in 1..Len(path) : path[k] \in Ids
  <2>1. Shaped /\ StackInv /\ Len(at) = Len(path) + 1
    BY BaseShaped DEF BaseInv, Shaped
  <2>2. x \in Ids
    BY CalleeFacts
  <2>3. path \in Seq(Ids)
    BY DEF BaseInv, TypeOK
  <2> QED
    BY <2>1, <2>2, <2>3
<1>1. Len(path') = Len(path) + 1 /\ Len(at') = Len(at) + 1
  BY <1>0, PushFacts
<1>2. (\A k \in 1..Len(path) : path'[k] = path[k]) /\ path'[Len(path) + 1] = x
  BY <1>0, PushFacts
<1>3. (\A k \in 1..Len(at) : at'[k] = at[k]) /\ at'[Len(at) + 1] = 1
  BY <1>0, PushFacts
<1>4. (\A k \in 1..Len(at) : Loop(k)' = Loop(k)) /\ \A n : n = Len(at) + 1 => Loop(n)' = DepsOf(x)
  BY <1>0, PushFacts
<1>5. CallsMade'
  <2>1. ASSUME NEW k \in 1..Len(at') PROVE at'[k] <= Len(Loop(k)') + 1
    <3>1. CASE k \in 1..Len(at)
      <4>1. at[k] <= Len(Loop(k)) + 1
        BY <1>0, <3>1 DEF StackInv, CallsMade
      <4>2. at'[k] = at[k] /\ Loop(k)' = Loop(k)
        BY <1>3, <1>4, <3>1
      <4> QED
        BY <4>1, <4>2
    <3>2. CASE k = Len(at) + 1
      <4>1. DepsOf(x) \in Seq(Ids) /\ Len(DepsOf(x)) \in Nat
        BY <1>0, LoopType
      <4>2. at'[k] = 1 /\ Loop(k)' = DepsOf(x)
        BY <1>3, <1>4, <3>2
      <4> QED
        BY <4>1, <4>2
    <3> QED
      BY <1>0, <1>1, <3>1, <3>2
  <2>2. ASSUME NEW k \in 1..Len(path')
        PROVE  at'[k] <= Len(Loop(k)') /\ path'[k] = Loop(k)'[at'[k]]
    <3>0. k \in 1..Len(at)
      BY <1>0, <1>1
    <3>1. at'[k] = at[k] /\ Loop(k)' = Loop(k)
      BY <1>3, <1>4, <3>0
    <3>2. CASE k \in 1..Len(path)
      <4>1. at[k] <= Len(Loop(k)) /\ path[k] = Loop(k)[at[k]]
        BY <1>0, <3>2 DEF StackInv, CallsMade
      <4> QED
        BY <1>2, <3>1, <3>2, <4>1
    <3>3. CASE k = Len(path) + 1
      <4>1. at[k] \in 1..Len(Loop(k)) /\ x = Loop(k)[at[k]]
        BY <1>0, <3>3, CalleeFacts
      <4>2. path'[k] = x
        BY <1>2, <3>3
      <4> QED
        BY <3>1, <4>1, <4>2
    <3> QED
      BY <1>0, <1>1, <3>2, <3>3
  <2> QED
    BY <2>1, <2>2 DEF CallsMade
<1>6. CalledOnce'
  <2>1. \A k \in 1..Len(path) : path[k] # x
    BY <1>0, OnPathIndex DEF Shaped, TypeOK
  <2>2. \A i, j \in 1..Len(path) : path[i] = path[j] => i = j
    BY <1>0 DEF StackInv, CalledOnce
  <2>3. ASSUME NEW i \in 1..Len(path'), NEW j \in 1..Len(path'), path'[i] = path'[j]
        PROVE  i = j
    <3>1. \A k \in 1..Len(path') : k \in 1..Len(path) \/ k = Len(path) + 1
      BY <1>0, <1>1
    <3>2. \A k \in 1..Len(path) : path'[k] # x
      BY <1>2, <2>1
    <3>3. CASE i \in 1..Len(path) /\ j \in 1..Len(path)
      BY <1>2, <2>2, <2>3, <3>3
    <3>4. CASE i = Len(path) + 1 \/ j = Len(path) + 1
      BY <1>2, <2>3, <3>1, <3>2, <3>4
    <3> QED
      BY <3>1, <3>3, <3>4
  <2> QED
    BY <2>3 DEF CalledOnce
<1>7. PathReaches'
  <2>1. ASSUME NEW i \in 1..Len(path'), NEW j \in 1..Len(path'), i < j
        PROVE  path'[j] \in Reach(path'[i])
    <3>1. i \in 1..Len(path) /\ path'[i] = path[i] /\ path[i] \in Ids
      BY <1>0, <1>1, <1>2, <2>1
    <3>2. CASE j \in 1..Len(path)
      <4>1. path[j] \in Reach(path[i])
        BY <1>0, <2>1, <3>1, <3>2 DEF StackInv, PathReaches
      <4> QED
        BY <1>2, <3>1, <3>2, <4>1
    <3>3. CASE j = Len(path) + 1
      <4>1. path'[j] = x
        BY <1>2, <3>3
      <4>2. path # <<>> /\ Edge(path[Len(path)], x)
        BY <1>0, <3>1, CalleeFacts
      <4>3. CASE i = Len(path)
        BY <1>0, <3>1, <4>1, <4>2, <4>3, ReachEdge
      <4>4. CASE i # Len(path)
        <5>1. Len(path) \in 1..Len(path) /\ i < Len(path)
          BY <1>0, <3>1, <4>4
        <5>2. path[Len(path)] \in Reach(path[i])
          BY <1>0, <3>1, <5>1 DEF StackInv, PathReaches
        <5> QED
          BY <1>0, <3>1, <4>1, <4>2, <5>2, ReachOn
      <4> QED
        BY <4>3, <4>4
    <3> QED
      BY <1>0, <1>1, <3>2, <3>3
  <2>2. \A a : Reach(a)' = Reach(a)
    BY SameGraph DEF graph, input
  <2> QED
    BY <2>1, <2>2 DEF PathReaches
<1>8. PathEntered'
  <2>1. ASSUME search.kind # "depth", NEW k \in 1..Len(path')
        PROVE  entered'[path'[k]] # 0
    <3>1. CASE k \in 1..Len(path)
      <4>1. entered[path[k]] # 0 /\ path[k] \in Ids
        BY <1>0, <2>1, <3>1 DEF StackInv, PathEntered
      <4> QED
        BY <1>2, <2>1, <3>1, <4>1
    <3>2. CASE k = Len(path) + 1
      BY <1>2, <2>1, <3>2
    <3> QED
      BY <1>0, <1>1, <3>1, <3>2
  <2> QED
    BY <2>1 DEF PathEntered, input
<1> QED
  BY <1>0, <1>1, <1>5, <1>6, <1>7, <1>8 DEF StackInv

LEMMA StackAdvance ==
    ASSUME BaseInv, More, Advance, UNCHANGED <<graph, input, entered>>
    PROVE  StackInv'
<1>0. /\ Shaped /\ StackInv
      /\ Len(path) \in Nat /\ Len(at) \in Nat /\ Len(at) = Len(path) + 1
      /\ at[Len(at)] \in 1..Len(Loop(Len(at)))
  BY BaseShaped, CalleeFacts DEF BaseInv, Shaped, TypeOK
<1>1. path' = path /\ Len(at') = Len(at)
  BY <1>0, AdvanceFacts
<1>2. (\A k \in 1..(Len(at) - 1) : at'[k] = at[k]) /\ at'[Len(at)] = at[Len(at)] + 1
  BY <1>0, AdvanceFacts
<1>3. \A k : Loop(k)' = Loop(k)
  BY <1>0, AdvanceFacts
<1>4. CallsMade'
  <2>1. ASSUME NEW k \in 1..Len(at') PROVE at'[k] <= Len(Loop(k)') + 1
    <3>1. CASE k = Len(at)
      BY <1>0, <1>2, <1>3, <3>1
    <3>2. CASE k # Len(at)
      <4>1. at[k] <= Len(Loop(k)) + 1 /\ at'[k] = at[k]
        BY <1>0, <1>1, <1>2, <3>2 DEF StackInv, CallsMade
      <4> QED
        BY <1>3, <4>1
    <3> QED
      BY <3>1, <3>2
  <2>2. ASSUME NEW k \in 1..Len(path')
        PROVE  at'[k] <= Len(Loop(k)') /\ path'[k] = Loop(k)'[at'[k]]
    <3>1. k \in 1..Len(path) /\ at'[k] = at[k]
      BY <1>0, <1>1, <1>2
    <3>2. at[k] <= Len(Loop(k)) /\ path[k] = Loop(k)[at[k]]
      BY <1>0, <3>1 DEF StackInv, CallsMade
    <3> QED
      BY <1>1, <1>3, <3>1, <3>2
  <2> QED
    BY <2>1, <2>2 DEF CallsMade
<1>5. CalledOnce' /\ PathEntered'
  BY <1>0, <1>1 DEF StackInv, CalledOnce, PathEntered, input
<1>6. PathReaches'
  <2>1. \A a : Reach(a)' = Reach(a)
    BY SameGraph DEF graph, input
  <2> QED
    BY <1>0, <1>1, <2>1 DEF StackInv, PathReaches
<1> QED
  BY <1>0, <1>1, <1>4, <1>5, <1>6 DEF StackInv

LEMMA StackPop ==
    ASSUME BaseInv, path # <<>>, Pop, UNCHANGED <<graph, input, entered>>
    PROVE  StackInv'
<1>0. /\ Shaped /\ StackInv
      /\ Len(path) \in Nat \ {0} /\ Len(at) = Len(path) + 1
  BY BaseShaped, PopFacts DEF BaseInv, Shaped
<1>1. Len(path') = Len(path) - 1 /\ Len(at') = Len(at) - 1
  BY <1>0, PopFacts
<1>2. \A k \in 1..(Len(path) - 1) : path'[k] = path[k]
  BY <1>0, PopFacts
<1>3. (\A k \in 1..(Len(path) - 1) : at'[k] = at[k]) /\ at'[Len(path)] = at[Len(path)] + 1
  BY <1>0, PopFacts
<1>4. \A k \in 1..Len(path) : Loop(k)' = Loop(k)
  BY <1>0, PopFacts
<1>5. CallsMade'
  <2>1. ASSUME NEW k \in 1..Len(at') PROVE at'[k] <= Len(Loop(k)') + 1
    <3>0. k \in 1..Len(path) /\ k \in 1..Len(at)
      BY <1>0, <1>1
    <3>1. CASE k = Len(path)
      <4>1. at[k] <= Len(Loop(k)) /\ Loop(k) \in Seq(Ids)
        BY <1>0, <3>0, LoopType DEF StackInv, CallsMade
      <4>2. Len(Loop(k)) \in Nat /\ at[k] \in Nat
        BY <1>0, <3>0, <4>1 DEF Shaped, TypeOK
      <4>3. at'[k] = at[k] + 1 /\ Loop(k)' = Loop(k)
        BY <1>3, <1>4, <3>0, <3>1
      <4> QED
        BY <4>1, <4>2, <4>3
    <3>2. CASE k # Len(path)
      <4>1. at[k] <= Len(Loop(k)) + 1
        BY <1>0, <3>0 DEF StackInv, CallsMade
      <4>2. k \in 1..(Len(path) - 1)
        BY <1>0, <3>0, <3>2
      <4>3. at'[k] = at[k] /\ Loop(k)' = Loop(k)
        BY <1>3, <1>4, <3>0, <4>2
      <4> QED
        BY <4>1, <4>3
    <3> QED
      BY <3>1, <3>2
  <2>2. ASSUME NEW k \in 1..Len(path')
        PROVE  at'[k] <= Len(Loop(k)') /\ path'[k] = Loop(k)'[at'[k]]
    <3>1. k \in 1..Len(path) /\ k \in 1..(Len(path) - 1)
      BY <1>0, <1>1
    <3>2. at'[k] = at[k] /\ path'[k] = path[k] /\ Loop(k)' = Loop(k)
      BY <1>2, <1>3, <1>4, <3>1
    <3>3. at[k] <= Len(Loop(k)) /\ path[k] = Loop(k)[at[k]]
      BY <1>0, <3>1 DEF StackInv, CallsMade
    <3> QED
      BY <3>2, <3>3
  <2> QED
    BY <2>1, <2>2 DEF CallsMade
<1>6. CalledOnce'
  <2>1. \A i, j \in 1..Len(path) : path[i] = path[j] => i = j
    BY <1>0 DEF StackInv, CalledOnce
  <2>2. \A i, j \in 1..Len(path') : path'[i] = path'[j] => i = j
    BY <1>0, <1>1, <1>2, <2>1
  <2> QED
    BY <2>2 DEF CalledOnce
<1>7. PathReaches'
  <2>1. ASSUME NEW i \in 1..Len(path'), NEW j \in 1..Len(path'), i < j
        PROVE  path'[j] \in Reach(path'[i])
    <3>1. /\ i \in 1..Len(path) /\ path'[i] = path[i]
          /\ j \in 1..Len(path) /\ path'[j] = path[j]
      BY <1>0, <1>1, <1>2
    <3>2. path[j] \in Reach(path[i])
      BY <1>0, <2>1, <3>1 DEF StackInv, PathReaches
    <3> QED
      BY <3>1, <3>2
  <2>2. \A a : Reach(a)' = Reach(a)
    BY SameGraph DEF graph, input
  <2> QED
    BY <2>1, <2>2 DEF PathReaches
<1>8. PathEntered'
  <2>1. ASSUME search.kind # "depth", NEW k \in 1..Len(path')
        PROVE  entered[path'[k]] # 0
    <3>1. k \in 1..Len(path) /\ path'[k] = path[k]
      BY <1>0, <1>1, <1>2
    <3> QED
      BY <1>0, <2>1, <3>1 DEF StackInv, PathEntered
  <2> QED
    BY <2>1 DEF PathEntered, input
<1> QED
  BY <1>0, <1>1, <1>5, <1>6, <1>7, <1>8 DEF StackInv

-----------------------------------------------------------------------------
(* Types, the stack and the input in every step.                           *)

LEMMA CountType == Count \in Nat
<1>1. IsFiniteSet({x \in Ids : entered[x] # 0})
  BY SearchAssumption, FS_Subset
<1> QED
  BY <1>1, FS_CardinalityType DEF Count

LEMMA EnumerationType ==
    ASSUME NEW list \in SUBSET Ids, NEW order \in Enumerations(list)
    PROVE  order \in Seq(Ids) /\ ToSet(order) = list
<1>1. Cardinality(list) \in Nat
  BY SearchAssumption, FS_Subset, FS_CardinalityType
<1>2. order \in [1..Cardinality(list) -> list] /\ ToSet(order) = list
  BY DEF Enumerations
<1>3. order \in [1..Cardinality(list) -> Ids]
  BY <1>2
<1> QED
  BY <1>1, <1>2, <1>3

LEMMA InputSteady ==
    ASSUME InputInv, search.kind # "none", UNCHANGED <<graph, input>>,
           found' => search.kind = "check",
           search.kind # "cycles" => cycles' = cycles,
           search.kind # "sort" => result' = result,
           search.kind # "depth" => best' = best
    PROVE  InputInv'
BY DEF InputInv, graph, input

\* No search runs: the first state of the next one, but for its input.
Fresh ==
    /\ path = <<>> /\ at = <<1>>
    /\ entered = [x \in Ids |-> 0] /\ found = FALSE
    /\ cycles = <<>> /\ result = <<>> /\ best = <<0>>

LEMMA IdleFresh == BaseInv /\ search = Idle => Fresh /\ roots = <<>>
BY DEF BaseInv, InputInv, TypeOK, Idle, Fresh

LEMMA FreshStack ==
    ASSUME Fresh, roots \in Seq(Ids)
    PROVE  StackInv
<1>1. Len(at) = 1 /\ Len(path) = 0 /\ at[1] = 1 /\ Loop(1) = roots /\ Len(roots) \in Nat
  BY DEF Fresh, Loop
<1>2. 1..Len(at) = {1} /\ 1..Len(path) = {}
  BY <1>1
<1>3. CallsMade
  BY <1>1, <1>2 DEF CallsMade
<1> QED
  BY <1>1, <1>2, <1>3 DEF StackInv, CalledOnce, PathReaches, PathEntered

\* the service's own part of the type
GraphType ==
    /\ stored \subseteq Ids /\ deleted \subseteq Ids
    /\ deps \in [Ids -> Seq(Ids)] /\ priority \in [Ids -> Nat]

\* No search, or one that begins.
Started ==
    /\ Fresh /\ GraphType /\ search \in Searches /\ listed \subseteq Ids /\ roots \in Seq(Ids)
    /\ search.kind = "none" => roots = <<>>
    /\ search.kind \in Kinds => ToSet(roots) = listed
    /\ search.kind = "sort" =>
          \A i, j \in DOMAIN roots : i < j => priority[roots[i]] >= priority[roots[j]]

LEMMA StartedBase == Started => BaseInv
<1> SUFFICES ASSUME Started PROVE BaseInv
  OBVIOUS
<1>1. /\ path \in Seq(Ids) /\ at \in Seq(Nat \ {0}) /\ entered \in [Ids -> Nat]
      /\ cycles \in Seq(Seq(Ids)) /\ result \in Seq(Ids) /\ best \in Seq(Nat)
      /\ found \in BOOLEAN
  <2>1. <<1>> \in Seq(Nat \ {0}) /\ <<0>> \in Seq(Nat)
    OBVIOUS
  <2> QED
    BY <2>1, EmptySeq DEF Started, Fresh
<1>2. TypeOK
  BY <1>1 DEF Started, GraphType, TypeOK
<1>3. InputInv
  BY DEF Started, Fresh, InputInv
<1>4. BestInv
  BY DEF Started, Fresh, BestInv
<1>5. StackInv
  BY FreshStack DEF Started
<1> QED
  BY <1>2, <1>3, <1>4, <1>5 DEF BaseInv

LEMMA InitStarted == Init => Started
<1> SUFFICES ASSUME Init PROVE Started
  OBVIOUS
<1>1. Fresh /\ search.kind = "none"
  BY DEF Init, Fresh, Idle
<1>2. GraphType /\ search \in Searches /\ listed \subseteq Ids /\ roots = <<>>
  BY EmptySeq DEF Init, GraphType, Searches, Idle
<1> QED
  BY <1>1, <1>2, EmptySeq DEF Started, Kinds

\* A step outside the searches' own ends there.
LEMMA ServiceStep ==
    ASSUME BaseInv, Asked \/ Created \/ Updated \/ Finish \/ \E t \in Ids : deleteTask(t)
    PROVE  Started'
<1>1. GraphType /\ \A t \in Ids : deps[t] \in Seq(Ids)
  BY DEF BaseInv, TypeOK, GraphType
<1>2. ASSUME Quiet, GraphType' PROVE Started'
  <2>1. Fresh /\ roots = <<>> /\ search = Idle
    BY <1>2, IdleFresh DEF Quiet
  <2>2. Fresh' /\ roots' = <<>> /\ search' = Idle /\ listed' = listed
    BY <1>2, <2>1 DEF Quiet, Fresh, input, stack
  <2>3. search' \in Searches /\ listed' \subseteq Ids /\ search'.kind = "none"
    BY <2>2 DEF BaseInv, TypeOK, Searches, Idle
  <2> QED
    BY <1>2, <2>2, <2>3, EmptySeq DEF Kinds, Started
<1>3. ASSUME NEW s \in Searches, NEW list \in SUBSET Ids, NEW order \in Seq(Ids),
             Begin(s, list, order), s.kind # "none",
             s.kind \in Kinds => ToSet(order) = list,
             s.kind = "sort" => \A i, j \in DOMAIN order :
                i < j => priority[order[i]] >= priority[order[j]]
      PROVE  Started'
  <2>1. Fresh
    BY <1>3, IdleFresh DEF Begin
  <2>2. Fresh' /\ GraphType'
    BY <1>1, <1>3, <2>1 DEF Begin, Fresh, GraphType, graph, stack
  <2>3. search' = s /\ listed' = list /\ roots' = order /\ priority' = priority
    BY <1>3 DEF Begin, graph
  <2> QED
    BY <1>3, <2>2, <2>3 DEF Started
<1>4. ASSUME NEW t \in Ids, NEW d \in Ids, addDependency(t, d) PROVE Started'
  <2> DEFINE s == [kind |-> "check", task |-> t]
             order == Append(deps[t], d)
  <2>1. s \in Searches /\ s.kind = "check" /\ order \in Seq(Ids) /\ stored \in SUBSET Ids
    BY <1>1 DEF Searches, GraphType
  <2>2. Begin(s, stored, order)
    BY <1>4 DEF addDependency
  <2> HIDE DEF s, order
  <2> QED
    BY <1>3, <2>1, <2>2 DEF Kinds
<1>5. ASSUME NEW t \in Ids, NEW d \in Ids, removeDependency(t, d) PROVE Started'
  <2>1. PICK ds \in SeqOf(stored, MaxDeps) :
             Quiet /\ deps' = [deps EXCEPT ![t] = ds] /\ UNCHANGED <<stored, deleted, priority>>
    BY <1>5 DEF removeDependency
  <2>2. ds \in Seq(Ids)
    BY <1>1, SearchAssumption DEF SeqOf, GraphType
  <2>3. Quiet /\ GraphType'
    BY <1>1, <2>1, <2>2 DEF GraphType
  <2> QED
    BY <1>2, <2>3
<1>6. ASSUME NEW list \in SUBSET stored,
             \/ sortTasksByPriorityAndDependencies(list)
             \/ detectCycles(list) \/ calculateMaxDependencyDepth(list)
      PROVE  Started'
  <2>0. list \in SUBSET Ids
    BY <1>1, <1>6 DEF GraphType
  <2>1. CASE sortTasksByPriorityAndDependencies(list)
    <3>1. PICK order \in sortedByPriority(list) : Begin([kind |-> "sort"], list, order)
      BY <2>1 DEF sortTasksByPriorityAndDependencies
    <3>2. /\ order \in Enumerations(list)
          /\ \A i, j \in DOMAIN order : i < j => priority[order[i]] >= priority[order[j]]
      BY DEF sortedByPriority
    <3>3. order \in Seq(Ids) /\ ToSet(order) = list
      BY <2>0, <3>2, EnumerationType
    <3> DEFINE s == [kind |-> "sort"]
    <3>4. s \in Searches /\ s.kind = "sort"
      BY DEF Searches, Kinds
    <3>5. Begin(s, list, order)
      BY <3>1
    <3> HIDE DEF s
    <3> QED
      BY <1>3, <2>0, <3>2, <3>3, <3>4, <3>5
  <2>2. CASE detectCycles(list)
    <3>1. PICK order \in Enumerations(list) : Begin([kind |-> "cycles"], list, order)
      BY <2>2 DEF detectCycles
    <3>2. order \in Seq(Ids) /\ ToSet(order) = list
      BY <2>0, EnumerationType
    <3> DEFINE s == [kind |-> "cycles"]
    <3>3. s \in Searches /\ s.kind = "cycles"
      BY DEF Searches, Kinds
    <3>4. Begin(s, list, order)
      BY <3>1
    <3> HIDE DEF s
    <3> QED
      BY <1>3, <2>0, <3>2, <3>3, <3>4
  <2>3. CASE calculateMaxDependencyDepth(list)
    <3>1. PICK order \in Enumerations(list) : Begin([kind |-> "depth"], list, order)
      BY <2>3 DEF calculateMaxDependencyDepth
    <3>2. order \in Seq(Ids) /\ ToSet(order) = list
      BY <2>0, EnumerationType
    <3> DEFINE s == [kind |-> "depth"]
    <3>3. s \in Searches /\ s.kind = "depth"
      BY DEF Searches, Kinds
    <3>4. Begin(s, list, order)
      BY <3>1
    <3> HIDE DEF s
    <3> QED
      BY <1>3, <2>0, <3>2, <3>3, <3>4
  <2> QED
    BY <1>6, <2>1, <2>2, <2>3
<1>7. ASSUME NEW t \in Ids, NEW ds \in SeqOf(stored, MaxDeps), NEW p \in Priorities,
             createTask(t, ds, p) \/ updateTask(t, ds, p)
      PROVE  Started'
  <2>1. p \in Nat /\ ds \in Seq(Ids)
    BY <1>1, <1>7, SearchAssumption DEF SeqOf, GraphType
  <2>2. GraphType' /\ Quiet
    BY <1>1, <1>7, <2>1 DEF createTask, updateTask, GraphType
  <2> QED
    BY <1>2, <2>2
<1>8. ASSUME NEW t \in Ids, deleteTask(t) PROVE Started'
  <2>1. GraphType' /\ Quiet
    BY <1>1, <1>8, EmptySeq DEF deleteTask, GraphType
  <2> QED
    BY <1>2, <2>1
<1>9. ASSUME Finish PROVE Started'
  <2>1. Fresh' /\ search' = Idle /\ listed' = {} /\ roots' = <<>>
    BY <1>9 DEF Finish, Fresh
  <2>2. deps' \in [Ids -> Seq(Ids)]
    <3>1. roots \in Seq(Ids)
      BY DEF BaseInv, TypeOK
    <3> QED
      BY <1>1, <1>9, <3>1 DEF Finish, GraphType
  <2>3. GraphType'
    BY <1>1, <1>9, <2>2 DEF Finish, GraphType
  <2> QED
    BY <2>1, <2>3, EmptySeq DEF Searches, Idle, Kinds, Started
<1> QED
  BY <1>4, <1>5, <1>6, <1>7, <1>8, <1>9 DEF Asked, Created, Updated

LEMMA BaseCall ==
    ASSUME BaseInv, Call
    PROVE  BaseInv'
<1> DEFINE x == Callee
<1>0. Running /\ More /\ x \in Ids /\ Shaped /\ search.kind # "none" /\ found = FALSE
  BY BaseShaped, CalleeFacts DEF Call, Running, BaseInv, TypeOK
<1>1. Enter(x) \/ EnterBranch(x) \/ PassOver(x) \/ Find(x) \/ Report(x)
  BY DEF Call
<1> HIDE DEF x
<1>2. CASE Enter(x)
  <2>1. Push(x) /\ UNCHANGED <<graph, input, found, cycles, result, best>>
    BY <1>2 DEF Enter
  <2>2. path' \in Seq(Ids) /\ at' \in Seq(Nat \ {0})
    BY <1>0, <2>1, PushFacts
  <2>3. entered' \in [Ids -> Nat] /\ entered' = [entered EXCEPT ![x] = Count + 1]
    <3>1. entered' = [entered EXCEPT ![x] = Count + 1] /\ entered \in [Ids -> Nat]
      BY <1>2 DEF Enter, BaseInv, TypeOK
    <3> DEFINE c == Count + 1
    <3>2. c \in Nat /\ entered' = [entered EXCEPT ![x] = c]
      BY <3>1, CountType
    <3> HIDE DEF c
    <3>3. entered' \in [Ids -> Nat]
      BY <3>1, <3>2
    <3> QED
      BY <3>1, <3>3
  <2>4. TypeOK'
    BY <2>1, <2>2, <2>3 DEF BaseInv, TypeOK, graph, input
  <2>5. InputInv'
    BY <1>0, <2>1, InputSteady DEF BaseInv
  <2>6. ~OnPath(x)
    <3>1. path \in Seq(Ids) /\ entered[x] = 0 /\ search.kind # "depth"
      BY <1>2 DEF Enter, BaseInv, TypeOK
    <3> QED
      BY <3>1, OnPathIndex DEF BaseInv, StackInv, PathEntered
  <2>7. entered'[x] # 0 /\ \A y \in Ids : entered[y] # 0 => entered'[y] # 0
    BY <1>0, <2>3, CountType DEF BaseInv, TypeOK
  <2>8. x = Callee
    BY DEF x
  <2>9. StackInv'
    BY <1>0, <2>1, <2>3, <2>6, <2>7, <2>8, StackPush
  <2>10. BestInv'
    BY <1>2 DEF Enter, BestInv, input
  <2> QED
    BY <2>4, <2>5, <2>9, <2>10 DEF BaseInv
<1>3. CASE EnterBranch(x)
  <2>1. /\ Push(x) /\ UNCHANGED <<graph, input, entered, found, cycles, result>>
        /\ search.kind = "depth" /\ ~OnPath(x) /\ best' = Append(best, 0)
    BY <1>3 DEF EnterBranch
  <2>2. path' \in Seq(Ids) /\ at' \in Seq(Nat \ {0})
    BY <1>0, <2>1, PushFacts
  <2>3. best' \in Seq(Nat) /\ entered' \in [Ids -> Nat]
    BY <2>1 DEF BaseInv, TypeOK
  <2>4. TypeOK'
    BY <2>1, <2>2, <2>3 DEF BaseInv, TypeOK, graph, input
  <2>5. InputInv'
    BY <1>0, <2>1, InputSteady DEF BaseInv
  <2>6. x = Callee
    BY DEF x
  <2>7. StackInv'
    BY <1>0, <2>1, <2>3, <2>6, StackPush
  <2>8. BestInv'
    <3>1. Len(at') = Len(at) + 1
      BY <1>0, <2>1, PushFacts
    <3>2. Len(best') = Len(best) + 1
      BY <2>1 DEF BaseInv, TypeOK
    <3> QED
      BY <2>1, <3>1, <3>2 DEF BaseInv, BestInv, input
  <2> QED
    BY <2>4, <2>5, <2>7, <2>8 DEF BaseInv
<1>4. CASE PassOver(x) \/ Report(x)
  <2>1. /\ Advance /\ UNCHANGED <<graph, input, entered, found, result, best>>
        /\ search.kind # "cycles" => cycles' = cycles
    BY <1>4 DEF PassOver, Report
  <2>2. path' \in Seq(Ids) /\ at' \in Seq(Nat \ {0})
    BY <1>0, <2>1, AdvanceFacts DEF BaseInv, TypeOK
  <2>3. cycles' \in Seq(Seq(Ids))
    <3>1. CASE PassOver(x)
      BY <3>1 DEF PassOver, BaseInv, TypeOK
    <3>2. CASE Report(x)
      <4>1. PICK i \in DOMAIN path : cycles' = Append(cycles, SubSeq(path, i, Len(path)))
        BY <3>2 DEF Report
      <4>2. path \in Seq(Ids) /\ cycles \in Seq(Seq(Ids))
        BY DEF BaseInv, TypeOK
      <4>4. i \in 1..Len(path) /\ Len(path) \in Nat
        BY <4>2
      <4>3. SubSeq(path, i, Len(path)) \in Seq(Ids)
        BY <4>2, <4>4, SubSeqProperties
      <4> QED
        BY <4>1, <4>2, <4>3
    <3> QED
      BY <1>4, <3>1, <3>2
  <2>4. TypeOK'
    BY <2>1, <2>2, <2>3 DEF BaseInv, TypeOK, graph, input
  <2>5. InputInv'
    BY <1>0, <2>1, InputSteady DEF BaseInv, InputInv
  <2>6. StackInv'
    BY <1>0, <2>1, StackAdvance
  <2>7. BestInv'
    BY <1>0, <2>1, AdvanceFacts DEF BaseInv, BestInv, input
  <2> QED
    BY <2>4, <2>5, <2>6, <2>7 DEF BaseInv
<1>5. CASE Find(x)
  <2>1. /\ UNCHANGED <<graph, input, stack, entered, cycles, result, best>>
        /\ found' = TRUE /\ search.kind = "check"
    BY <1>5 DEF Find
  <2>2. TypeOK'
    BY <2>1 DEF BaseInv, TypeOK, graph, input, stack
  <2>3. InputInv'
    BY <1>0, <2>1, InputSteady DEF BaseInv
  <2>4. \A k : Loop(k)' = Loop(k)
    BY <2>1 DEF Loop, DepsOf, graph, input, stack
  <2>5. \A a : Reach(a)' = Reach(a)
    BY <2>1, SameGraph DEF graph, input
  <2>6. StackInv /\ path' = path /\ at' = at /\ entered' = entered /\ search' = search
    BY <2>1 DEF BaseInv, input, stack
  <2>7. StackInv'
    BY <2>4, <2>5, <2>6 DEF StackInv, CallsMade, CalledOnce, PathReaches, PathEntered
  <2>8. BestInv'
    BY <2>1 DEF BaseInv, BestInv, input, stack
  <2> QED
    BY <2>2, <2>3, <2>7, <2>8 DEF BaseInv
<1> QED
  BY <1>1, <1>2, <1>3, <1>4, <1>5

LEMMA ReturnBest ==
    ASSUME best \in Seq(Nat), Len(best) = Len(path) + 1, Len(path) \in Nat \ {0}, ReturnDepth
    PROVE  /\ best' \in Seq(Nat) /\ Len(best') = Len(path)
           /\ \A k \in 1..(Len(path) - 1) : best'[k] = best[k]
           /\ best'[Len(path)] = IF best[Len(path)] > 1 + best[Len(path) + 1]
                                 THEN best[Len(path)] ELSE 1 + best[Len(path) + 1]
<1> DEFINE n == Len(path)
           f == Front(best)
           depth == 1 + best[n + 1]
<1>1. best # <<>> /\ n \in Nat \ {0} /\ Len(best) = n + 1
  OBVIOUS
<1>2. /\ f \in Seq(Nat) /\ Len(f) = Len(best) - 1
      /\ \A k \in 1..(Len(best) - 1) : f[k] = best[k]
      /\ Last(best) = best[Len(best)]
  BY <1>1, FrontFacts
<1>3. Last(best) = best[n + 1] /\ depth \in Nat
  BY <1>1, <1>2
<1>4. best' = [f EXCEPT ![Len(best) - 1] = IF @ > 1 + Last(best) THEN @ ELSE 1 + Last(best)]
  BY DEF ReturnDepth
<1> HIDE DEF n, f, depth
<1>5. best' = [f EXCEPT ![n] = IF @ > depth THEN @ ELSE depth]
  <2>1. Len(best) - 1 = n
    BY <1>1
  <2> QED
    BY <1>3, <1>4, <2>1 DEF depth
<1>6. f \in Seq(Nat) /\ Len(f) = n /\ \A k \in 1..n : f[k] = best[k]
  BY <1>1, <1>2
<1>7. /\ best' \in Seq(Nat) /\ Len(best') = n
      /\ \A k \in 1..(n - 1) : best'[k] = f[k]
      /\ best'[n] = IF f[n] > depth THEN f[n] ELSE depth
  BY <1>1, <1>3, <1>5, <1>6
<1>8. \A k \in 1..(n - 1) : best'[k] = best[k]
  BY <1>1, <1>6, <1>7
<1>9. best'[n] = IF best[n] > depth THEN best[n] ELSE depth
  BY <1>1, <1>6, <1>7
<1> QED
  BY <1>7, <1>8, <1>9 DEF n, depth

LEMMA BaseReturn ==
    ASSUME BaseInv, Return
    PROVE  BaseInv'
<1>0. Running /\ path # <<>> /\ Shaped /\ search.kind # "none" /\ found = FALSE
  BY BaseShaped DEF Return, Running, BaseInv, TypeOK
<1>1. /\ Pop /\ UNCHANGED <<graph, input, entered, found, cycles>>
      /\ search.kind # "sort" => result' = result
      /\ search.kind # "depth" => best' = best
  BY DEF Return, Leave, Output, ReturnDepth
<1>2. path' \in Seq(Ids) /\ at' \in Seq(Nat \ {0}) /\ Last(path) \in Ids
  BY <1>0, <1>1, PopFacts
<1>3. result' \in Seq(Ids)
  <2>1. result \in Seq(Ids) /\ (result' = result \/ result' = Append(result, Last(path)))
    BY DEF Return, Leave, Output, ReturnDepth, BaseInv, TypeOK
  <2> QED
    BY <1>2, <2>1
<1>4. best' \in Seq(Nat) /\ BestInv'
  <2>1. best \in Seq(Nat)
    BY DEF BaseInv, TypeOK
  <2>2. CASE search.kind = "depth"
    <3>1. Len(best) = Len(path) + 1 /\ Len(path) \in Nat \ {0} /\ Len(at') = Len(path)
      BY <1>0, <1>1, <2>2, PopFacts DEF BaseInv, BestInv, Shaped
    <3>2. best' \in Seq(Nat) /\ Len(best') = Len(path)
      BY <1>0, <2>1, <2>2, <3>1, ReturnBest DEF Return, Leave, Output
    <3> QED
      BY <1>1, <3>1, <3>2 DEF BestInv, input
  <2>3. CASE search.kind # "depth"
    BY <1>1, <2>1, <2>3 DEF BestInv, input
  <2> QED
    BY <2>2, <2>3
<1>5. TypeOK'
  BY <1>1, <1>2, <1>3, <1>4 DEF BaseInv, TypeOK, graph, input
<1>6. InputInv'
  BY <1>0, <1>1, InputSteady DEF BaseInv
<1>7. StackInv'
  BY <1>0, <1>1, StackPop
<1> QED
  BY <1>4, <1>5, <1>6, <1>7 DEF BaseInv

-----------------------------------------------------------------------------
(* What the visits of hasCycle and dfs leave behind.                       *)

LEMMA StartedVisit == Started => VisitInv /\ FoundInv
<1> SUFFICES ASSUME Started PROVE VisitInv /\ FoundInv
  OBVIOUS
<1>1. at[1] = 1 /\ Len(at) = 1 /\ found = FALSE /\ \A x \in Ids : ~Black(x)
  BY DEF Started, Fresh, Black
<1>2. 1..(at[1] - 1) = {} /\ 2..Len(at) = {}
  BY <1>1
<1>3. ~ \E S \in SUBSET Ids : S # {} /\ \A x \in S : Black(x)
  BY <1>1
<1> QED
  BY <1>1, <1>2, <1>3 DEF VisitInv, FoundInv

\* What a loop has passed are ids.
LEMMA PassedIds ==
    ASSUME BaseInv, NEW k \in 1..Len(at), NEW m \in 1..(at[k] - 1)
    PROVE  m \in 1..Len(Loop(k)) /\ Loop(k)[m] \in Ids
<1>1. Loop(k) \in Seq(Ids) /\ at[k] \in Nat
  BY BaseShaped, LoopType DEF BaseInv, TypeOK
<1>2. at[k] <= Len(Loop(k)) + 1
  BY DEF BaseInv, StackInv, CallsMade
<1>3. m \in 1..Len(Loop(k))
  BY <1>1, <1>2
<1> QED
  BY <1>1, <1>3

LEMMA RootsLoop == Loop(1) = roots
BY DEF Loop

LEMMA StackSize ==
    ASSUME BaseInv
    PROVE  /\ path \in Seq(Ids) /\ Len(path) \in Nat /\ Len(at) = Len(path) + 1
           /\ \A k \in 1..Len(path) : path[k] \in Ids
           /\ \A k \in 1..Len(at) : at[k] \in Nat \ {0}
           /\ 1 \in 1..Len(at)
<1>1. path \in Seq(Ids) /\ Len(at) = Len(path) + 1 /\ at \in Seq(Nat \ {0})
  BY DEF BaseInv, TypeOK, StackInv
<1> QED
  BY <1>1

\* Entering an id makes none black.
LEMMA EnterBlack ==
    ASSUME BaseInv, Call, Enter(Callee)
    PROVE  \A y \in Ids : Black(y)' <=> Black(y)
<1> DEFINE x == Callee
<1>1. x \in Ids /\ Shaped
  BY CalleeFacts, BaseShaped DEF Call
<1> HIDE DEF x
<1>2. Enter(x) /\ Push(x) /\ UNCHANGED <<graph, input>>
  BY DEF Enter, x
<1>3. \A y : OnPath(y)' <=> OnPath(y) \/ y = x
  BY <1>1, <1>2, PushFacts
<1>4. entered[x] = 0 /\ entered \in [Ids -> Nat] /\ entered' = [entered EXCEPT ![x] = Count + 1]
  BY <1>2 DEF Enter, BaseInv, TypeOK
<1>5. \A y \in Ids : y # x => entered'[y] = entered[y]
  BY <1>4
<1> QED
  BY <1>3, <1>4, <1>5 DEF Black

\* Leaving a call makes its id black.
LEMMA PopBlack ==
    ASSUME BaseInv, path # <<>>, Pop, UNCHANGED <<graph, input, entered>>, search.kind # "depth"
    PROVE  /\ \A y \in Ids : Black(y)' <=> Black(y) \/ y = Last(path)
           /\ ~Black(Last(path)) /\ Last(path) \in Ids
<1> DEFINE v == Last(path)
           n == Len(path)
<1>1. Shaped /\ path \in Seq(Ids) /\ n \in Nat
  BY BaseShaped, StackSize
<1>2. /\ path' \in Seq(Ids) /\ n # 0 /\ Len(path') = n - 1 /\ v = path[n] /\ v \in Ids
      /\ \A k \in 1..(n - 1) : path'[k] = path[k]
  BY <1>1, PopFacts
<1>3. \A y : OnPath(y) <=> \E k \in 1..n : path[k] = y
  BY <1>1, OnPathIndex
<1>4. \A y : OnPath(y)' <=> \E k \in 1..(n - 1) : path'[k] = y
  <2>1. \A y : OnPath(y)' <=> \E k \in 1..Len(path') : path'[k] = y
    BY <1>2 DEF OnPath, ToSet
  <2> QED
    BY <1>2, <2>1
<1>5. \A k \in 1..n : path[k] = v => k = n
  BY <1>1, <1>2 DEF BaseInv, StackInv, CalledOnce
<1>6. OnPath(v)
  BY <1>1, <1>2, <1>3
<1> HIDE DEF v, n
<1>7. \A y : OnPath(y)' <=> OnPath(y) /\ y # v
  <2>1. \A k : k \in 1..(n - 1) <=> k \in 1..n /\ k # n
    BY <1>1, <1>2
  <2> QED
    BY <1>2, <1>3, <1>4, <1>5, <2>1
<1>8. entered[v] # 0
  BY <1>1, <1>2 DEF BaseInv, StackInv, PathEntered, n
<1> QED
  BY <1>2, <1>6, <1>7, <1>8 DEF Black, v

LEMMA VisitEnter ==
    ASSUME BaseInv, VisitInv, Call, Enter(Callee)
    PROVE  VisitInv'
<1> SUFFICES ASSUME Visiting' PROVE VisitInv'
  BY DEF VisitInv
<1>1. Shaped /\ Push(Callee) /\ UNCHANGED <<graph, input, cycles>> /\ Callee \in Ids
  BY BaseShaped, CalleeFacts DEF Enter, Call
<1>2. Visiting
  BY <1>1 DEF Visiting, input
<1>3. \A y \in Ids : Black(y)' <=> Black(y)
  BY EnterBlack
<1>4. \A y, z : Back(y, z)' <=> Back(y, z)
  BY <1>1 DEF Back
<1>5. \A a, b : Edge(a, b)' <=> Edge(a, b)
  BY <1>1, SameGraph DEF graph, input
<1>6. /\ Len(path) \in Nat /\ Len(at) = Len(path) + 1
      /\ \A k \in 1..Len(path) : path[k] \in Ids
      /\ 1 \in 1..Len(at)
  BY StackSize
<1>7. (\A k \in 1..Len(at) : at'[k] = at[k] /\ Loop(k)' = Loop(k))
      /\ at'[Len(at) + 1] = 1 /\ Len(at') = Len(at) + 1
      /\ \A k \in 1..Len(path) : path'[k] = path[k]
  BY <1>1, PushFacts
<1>8. ASSUME NEW m \in 1..(at'[1] - 1) PROVE Black(roots[m])'
  <2>1. m \in 1..(at[1] - 1)
    BY <1>6, <1>7
  <2>2. Loop(1)[m] \in Ids /\ Black(roots[m])
    BY <1>2, <1>6, <2>1, PassedIds DEF VisitInv
  <2>3. roots[m]' = roots[m] /\ roots[m] \in Ids
    BY <1>1, <2>2, RootsLoop DEF input
  <2> QED
    BY <1>3, <2>2, <2>3 DEF Black, OnPath
<1>9. ASSUME NEW k \in 2..Len(at'), NEW m \in 1..(at'[k] - 1)
      PROVE  (Black(Loop(k)[m]) \/ Back(path[k - 1], Loop(k)[m]))'
  <2>1. k \in 1..Len(at) /\ k \in 2..Len(at) /\ k - 1 \in 1..Len(path)
    BY <1>6, <1>7
  <2>2. m \in 1..(at[k] - 1)
    BY <1>7, <2>1
  <2> DEFINE y == Loop(k)[m]
             z == path[k - 1]
  <2>3. y \in Ids /\ (Black(y) \/ Back(z, y))
    BY <1>2, <2>1, <2>2, PassedIds DEF VisitInv
  <2>4. Loop(k)'[m] = y /\ path'[k - 1] = z
    BY <1>7, <2>1
  <2> HIDE DEF y, z
  <2>5. \A u, w : u = y /\ w = z => Black(u)' \/ Back(w, u)'
    BY <1>3, <1>4, <2>3
  <2> QED
    BY <2>4, <2>5 DEF Black, OnPath, Back
<1>10. (\A x, y \in Ids : Black(x) /\ Edge(x, y) => Black(y) \/ Back(x, y))'
  BY <1>2, <1>3, <1>4, <1>5 DEF VisitInv
<1>11. (\A S \in SUBSET Ids : S # {} /\ (\A x \in S : Black(x)) =>
              \E s \in S : \A y \in S : Edge(s, y) => Back(s, y))'
  BY <1>2, <1>3, <1>4, <1>5 DEF VisitInv
<1> QED
  BY <1>8, <1>9, <1>10, <1>11 DEF VisitInv

\* A reported cycle ends with the innermost call and begins with the one called.
LEMMA ReportFacts ==
    ASSUME BaseInv, NEW x, Report(x), path # <<>>
    PROVE  \E i \in 1..Len(path) :
              LET c == SubSeq(path, i, Len(path))
              IN  /\ path[i] = x /\ cycles' = Append(cycles, c)
                  /\ c \in Seq(Ids) /\ Len(c) = Len(path) - i + 1 /\ Len(c) \in Nat \ {0}
                  /\ \A k \in 1..Len(c) : i + k - 1 \in i..Len(path) /\ c[k] = path[i + k - 1]
                  /\ c[1] = x /\ Last(c) = path[Len(path)]
<1>1. path \in Seq(Ids) /\ Len(path) \in Nat /\ \A k \in 1..Len(path) : path[k] \in Ids
  BY StackSize
<1>2. PICK i \in 1..Len(path) :
         path[i] = x /\ cycles' = Append(cycles, SubSeq(path, i, Len(path)))
  <2>1. DOMAIN path = 1..Len(path)
    BY <1>1
  <2> QED
    BY <2>1 DEF Report
<1> DEFINE c == SubSeq(path, i, Len(path))
           n == Len(path)
<1>3. /\ c \in Seq(Ids)
      /\ Len(c) = IF i <= n THEN n - i + 1 ELSE 0
      /\ \A k \in 1..(n - i + 1) : c[k] = path[i + k - 1]
  BY <1>1, SubSeqProperties
<1>4. i \in 1..n /\ n \in Nat
  BY <1>1
<1> HIDE DEF c, n
<1>5. Len(c) = n - i + 1 /\ Len(c) \in Nat \ {0}
  BY <1>3, <1>4
<1>6. \A k \in 1..Len(c) : i + k - 1 \in i..n /\ c[k] = path[i + k - 1]
  BY <1>3, <1>4, <1>5
<1>7. c[1] = path[i]
  <2>1. 1 \in 1..Len(c) /\ i + 1 - 1 = i
    BY <1>4, <1>5
  <2> QED
    BY <1>6, <2>1
<1>8. Last(c) = path[n]
  <2>1. Len(c) \in 1..Len(c) /\ i + Len(c) - 1 = n
    BY <1>4, <1>5
  <2> QED
    BY <1>6, <2>1 DEF Last
<1>9. path[i] = x /\ cycles' = Append(cycles, c)
  BY <1>2 DEF c
<1> QED
  BY <1>3, <1>5, <1>6, <1>7, <1>8, <1>9 DEF c, n

LEMMA BackGrows ==
    ASSUME BaseInv, NEW c \in Seq(Ids), cycles' = Append(cycles, c)
    PROVE  \A y, z : Back(y, z)' <=> Back(y, z) \/ (y = Last(c) /\ z = c[1])
<1>1. cycles \in Seq(Seq(Ids)) /\ Len(cycles) \in Nat
  BY DEF BaseInv, TypeOK
<1>2. /\ Len(cycles') = Len(cycles) + 1 /\ cycles' \in Seq(Seq(Ids))
      /\ \A i \in 1..Len(cycles) : cycles'[i] = cycles[i]
      /\ cycles'[Len(cycles) + 1] = c
  BY <1>1
<1>3. \A y, z : Back(y, z) <=> \E i \in 1..Len(cycles) : Last(cycles[i]) = y /\ cycles[i][1] = z
  <2>1. DOMAIN cycles = 1..Len(cycles)
    BY <1>1
  <2> QED
    BY <2>1 DEF Back
<1>4. \A y, z : Back(y, z)' <=> \E i \in 1..Len(cycles') : Last(cycles'[i]) = y /\ cycles'[i][1] = z
  <2>1. DOMAIN cycles' = 1..Len(cycles')
    BY <1>2
  <2> QED
    BY <2>1 DEF Back
<1>5. \A i : i \in 1..Len(cycles') <=> i \in 1..Len(cycles) \/ i = Len(cycles) + 1
  BY <1>1, <1>2
<1> QED
  BY <1>2, <1>3, <1>4, <1>5

LEMMA VisitPass ==
    ASSUME BaseInv, VisitInv, Call, PassOver(Callee) \/ Report(Callee)
    PROVE  VisitInv'
<1> SUFFICES ASSUME Visiting' PROVE VisitInv'
  BY DEF VisitInv
<1> DEFINE x == Callee
<1>1. Shaped /\ Advance /\ UNCHANGED <<graph, input, entered>> /\ More /\ x \in Ids
  BY BaseShaped, CalleeFacts DEF PassOver, Report, Call
<1>2. Visiting
  BY <1>1 DEF Visiting, input
<1>3. \A y : Black(y)' <=> Black(y)
  BY <1>1, AdvanceFacts DEF Black
<1>4. \A y, z : Back(y, z) => Back(y, z)'
  <2>1. CASE PassOver(x)
    BY <2>1 DEF PassOver, Back
  <2>2. CASE Report(x)
    <3>1. path # <<>>
      BY <1>1, <2>2, OnPathCycle DEF Report
    <3>2. PICK c \in Seq(Ids) : cycles' = Append(cycles, c)
      BY <2>2, <3>1, ReportFacts
    <3> QED
      BY <3>2, BackGrows
  <2> QED
    BY <2>1, <2>2
<1>5. \/ Black(x)
      \/ path # <<>> /\ \A y, z : y = path[Len(path)] /\ z = x => Back(y, z)'
  <2>1. CASE PassOver(x)
    BY <1>2, <2>1 DEF PassOver, Black, Visiting
  <2>2. CASE Report(x)
    <3>1. path # <<>>
      BY <1>1, <2>2, OnPathCycle DEF Report
    <3>2. PICK c \in Seq(Ids) :
             cycles' = Append(cycles, c) /\ c[1] = x /\ Last(c) = path[Len(path)]
      BY <2>2, <3>1, ReportFacts
    <3> QED
      BY <3>1, <3>2, BackGrows
  <2> QED
    BY <2>1, <2>2
<1>6. \A a, b : Edge(a, b)' <=> Edge(a, b)
  BY <1>1, SameGraph DEF graph, input
<1>7. /\ Len(path) \in Nat /\ Len(at) = Len(path) + 1 /\ path' = path
      /\ \A k \in 1..Len(at) : at[k] \in Nat \ {0}
  BY <1>1, StackSize, AdvanceFacts
<1>8. /\ \A k \in 1..(Len(at) - 1) : at'[k] = at[k]
      /\ at'[Len(at)] = at[Len(at)] + 1 /\ Len(at') = Len(at)
      /\ \A k : Loop(k)' = Loop(k)
  BY <1>1, AdvanceFacts
<1>9. x = Loop(Len(at))[at[Len(at)]] /\ (path = <<>> => Len(at) = 1) /\ (path # <<>> => Len(path) # 0)
  BY <1>1, CalleeFacts
<1> HIDE DEF x
<1>10. ASSUME NEW m \in 1..(at'[1] - 1) PROVE Black(roots[m])'
  <2>1. CASE m \in 1..(at[1] - 1)
    BY <1>1, <1>2, <1>3, <2>1 DEF VisitInv, input
  <2>2. CASE m \notin 1..(at[1] - 1)
    <3>1. Len(at) = 1 /\ m = at[1]
      BY <1>7, <1>8, <2>2
    <3>2. path = <<>>
      BY <1>7, <1>9, <3>1
    <3>3. x = roots[m] /\ Black(x)
      BY <1>5, <1>9, <3>1, <3>2, RootsLoop
    <3> QED
      BY <1>1, <1>3, <3>3 DEF input
  <2> QED
    BY <2>1, <2>2
<1>11. ASSUME NEW k \in 2..Len(at'), NEW m \in 1..(at'[k] - 1)
       PROVE  (Black(Loop(k)[m]) \/ Back(path[k - 1], Loop(k)[m]))'
  <2> DEFINE y == Loop(k)[m]
             z == path[k - 1]
  <2>1. Loop(k)'[m] = y /\ path'[k - 1] = z
    BY <1>7, <1>8
  <2>2. Black(y) \/ \A u, w : w = z /\ u = y => Back(w, u)'
    <3>1. CASE m \in 1..(at[k] - 1)
      <4>1. k \in 2..Len(at)
        BY <1>8
      <4>2. Black(y) \/ Back(z, y)
        BY <1>2, <3>1, <4>1 DEF VisitInv
      <4> HIDE DEF y, z
      <4> QED
        BY <1>4, <4>2
    <3>2. CASE m \notin 1..(at[k] - 1)
      <4>1. k = Len(at) /\ m = at[k] /\ path # <<>> /\ k - 1 = Len(path)
        BY <1>7, <1>8, <1>9, <3>2
      <4>2. y = x /\ z = path[Len(path)]
        BY <1>9, <4>1
      <4> HIDE DEF y, z
      <4> QED
        BY <1>5, <4>1, <4>2
    <3> QED
      BY <3>1, <3>2
  <2> HIDE DEF y, z
  <2>3. \A u, w : u = y /\ w = z => Black(u)' \/ Back(w, u)'
    BY <1>3, <2>2
  <2> QED
    BY <2>1, <2>3 DEF Black, OnPath, Back
<1>12. (\A u, y \in Ids : Black(u) /\ Edge(u, y) => Black(y) \/ Back(u, y))'
  BY <1>2, <1>3, <1>4, <1>6 DEF VisitInv
<1>13. (\A S \in SUBSET Ids : S # {} /\ (\A u \in S : Black(u)) =>
              \E s \in S : \A y \in S : Edge(s, y) => Back(s, y))'
  <2>1. ASSUME NEW S \in SUBSET Ids, S # {}, \A u \in S : Black(u)
        PROVE  \E s \in S : \A y \in S : Edge(s, y)' => Back(s, y)'
    BY <1>2, <1>4, <1>6, <2>1 DEF VisitInv
  <2> QED
    BY <1>3, <2>1
<1> QED
  BY <1>10, <1>11, <1>12, <1>13 DEF VisitInv

\* The loop of the innermost call has passed all there is.
LEMMA LoopPassed ==
    ASSUME BaseInv, ~More, path # <<>>
    PROVE  /\ Len(path) \in 1..Len(path) /\ path[Len(path)] \in Ids
           /\ Len(at) \in 2..Len(at)
           /\ Loop(Len(at)) = DepsOf(path[Len(path)])
           /\ \A b : Edge(path[Len(path)], b) =>
                 \E m \in 1..(at[Len(at)] - 1) : Loop(Len(at))[m] = b
<1>1. /\ path \in Seq(Ids) /\ Len(path) \in Nat /\ Len(at) = Len(path) + 1
      /\ at[Len(at)] \in Nat /\ Len(path) # 0
  BY StackSize, EmptySeq
<1>2. Loop(Len(at)) = DepsOf(path[Len(path)]) /\ path[Len(path)] \in Ids
  BY <1>1, StackSize DEF Loop
<1>3. Loop(Len(at)) \in Seq(Ids) /\ Len(Loop(Len(at))) \in Nat
  BY <1>2, BaseShaped, LoopType
<1>4. at[Len(at)] > Len(Loop(Len(at)))
  BY <1>1, <1>3 DEF More, Last
<1>5. \A m \in 1..Len(Loop(Len(at))) : m \in 1..(at[Len(at)] - 1)
  BY <1>1, <1>3, <1>4
<1> QED
  BY <1>1, <1>2, <1>5, EdgeIndex, BaseShaped

LEMMA VisitLeave ==
    ASSUME BaseInv, VisitInv, Return, Leave
    PROVE  VisitInv'
<1> SUFFICES ASSUME Visiting' PROVE VisitInv'
  BY DEF VisitInv
<1> DEFINE v == path[Len(path)]
<1>1. /\ Shaped /\ Pop /\ UNCHANGED <<graph, input, entered, cycles>>
      /\ ~More /\ path # <<>> /\ search.kind # "depth"
  BY BaseShaped DEF Return, Leave
<1>2. Visiting
  BY <1>1 DEF Visiting, input
<1>3. v = Last(path) /\ v \in Ids
  BY <1>1, PopFacts
<1>4. (\A y \in Ids : Black(y)' <=> Black(y) \/ y = v) /\ ~Black(v)
  BY <1>1, <1>3, PopBlack
<1>5. \A y, z : Back(y, z)' <=> Back(y, z)
  BY <1>1 DEF Back
<1>6. \A a, b : Edge(a, b)' <=> Edge(a, b)
  BY <1>1, SameGraph DEF graph, input
<1>7. /\ Len(path) \in Nat \ {0} /\ Len(at) = Len(path) + 1
      /\ \A k \in 1..Len(at) : at[k] \in Nat \ {0}
      /\ 1 \in 1..Len(at)
  BY <1>1, StackSize, PopFacts
<1>8. /\ Len(at') = Len(at) - 1
      /\ \A k \in 1..(Len(path) - 1) : at'[k] = at[k]
      /\ at'[Len(path)] = at[Len(path)] + 1
      /\ \A k \in 1..Len(path) : Loop(k)' = Loop(k)
      /\ \A k \in 1..(Len(path) - 1) : path'[k] = path[k]
  BY <1>1, PopFacts
<1>9. \A b : Edge(v, b) => Black(b) \/ Back(v, b)
  <2>1. SUFFICES ASSUME NEW b, Edge(v, b) PROVE Black(b) \/ Back(v, b)
    OBVIOUS
  <2>2. PICK m \in 1..(at[Len(at)] - 1) : Loop(Len(at))[m] = b
    BY <1>1, <2>1, LoopPassed
  <2>3. Len(at) \in 2..Len(at) /\ Len(at) - 1 = Len(path)
    BY <1>7
  <2>4. Black(Loop(Len(at))[m]) \/ Back(path[Len(at) - 1], Loop(Len(at))[m])
    BY <1>2, <2>3 DEF VisitInv
  <2> QED
    BY <2>2, <2>3, <2>4
<1>10. v = Loop(Len(path))[at[Len(path)]]
  BY <1>7 DEF BaseInv, StackInv, CallsMade
<1> HIDE DEF v
<1>11. ASSUME NEW m \in 1..(at'[1] - 1) PROVE Black(roots[m])'
  <2>1. CASE m \in 1..(at[1] - 1)
    <3>1. Black(roots[m]) /\ roots[m] \in Ids
      BY <1>2, <1>7, <2>1, PassedIds, RootsLoop DEF VisitInv
    <3> QED
      BY <1>1, <1>4, <3>1 DEF input
  <2>2. CASE m \notin 1..(at[1] - 1)
    <3>1. Len(path) = 1 /\ m = at[1]
      BY <1>7, <1>8, <2>2
    <3>2. roots[m] = v
      BY <1>10, <3>1, RootsLoop
    <3> QED
      BY <1>1, <1>3, <1>4, <3>2 DEF input
  <2> QED
    BY <2>1, <2>2
<1>12. ASSUME NEW k \in 2..Len(at'), NEW m \in 1..(at'[k] - 1)
       PROVE  (Black(Loop(k)[m]) \/ Back(path[k - 1], Loop(k)[m]))'
  <2> DEFINE y == Loop(k)[m]
             z == path[k - 1]
  <2>0. k \in 1..Len(path) /\ k - 1 \in 1..(Len(path) - 1) /\ k \in 2..Len(at) /\ k \in 1..Len(at)
    BY <1>7, <1>8
  <2>1. Loop(k)'[m] = y /\ path'[k - 1] = z
    BY <1>8, <2>0
  <2>2. y \in Ids /\ (Black(y) \/ y = v \/ Back(z, y))
    <3>1. CASE m \in 1..(at[k] - 1)
      BY <1>2, <2>0, <3>1, PassedIds DEF VisitInv
    <3>2. CASE m \notin 1..(at[k] - 1)
      <4>1. k = Len(path) /\ m = at[k]
        BY <1>7, <1>8, <2>0, <3>2
      <4> QED
        BY <1>3, <1>10, <4>1
    <3> QED
      BY <3>1, <3>2
  <2> HIDE DEF y, z
  <2>3. \A u, w : u = y /\ w = z => Black(u)' \/ Back(w, u)'
    BY <1>4, <1>5, <2>2
  <2> QED
    BY <2>1, <2>3 DEF Black, OnPath, Back
<1>13. (\A x, y \in Ids : Black(x) /\ Edge(x, y) => Black(y) \/ Back(x, y))'
  <2>1. \A x, y \in Ids : Black(x) /\ Edge(x, y) => Black(y) \/ Back(x, y)
    BY <1>2 DEF VisitInv
  <2> QED
    BY <1>4, <1>5, <1>6, <1>9, <2>1
<1>14. ASSUME NEW S \in SUBSET Ids, S # {}, \A x \in S : Black(x)'
       PROVE  \E s \in S : \A y \in S : Edge(s, y) => Back(s, y)
  <2> DEFINE T == S \ {v}
  <2>1. T \in SUBSET Ids /\ \A x \in T : Black(x)
    BY <1>4, <1>14
  <2>2. CASE T = {}
    <3>1. S = {v}
      BY <1>14, <2>2
    <3> QED
      BY <1>4, <1>9, <3>1
  <2>3. CASE T # {}
    <3>1. PICK s \in T : \A y \in T : Edge(s, y) => Back(s, y)
      BY <1>2, <2>1, <2>3 DEF VisitInv
    <3>2. Edge(s, v) => Back(s, v)
      BY <1>2, <1>3, <1>4, <2>1 DEF VisitInv
    <3> QED
      BY <3>1, <3>2
  <2> QED
    BY <2>2, <2>3
<1>15. (\A S \in SUBSET Ids : S # {} /\ (\A x \in S : Black(x)) =>
              \E s \in S : \A y \in S : Edge(s, y) => Back(s, y))'
  BY <1>5, <1>6, <1>14
<1> QED
  BY <1>11, <1>12, <1>13, <1>15 DEF VisitInv

LEMMA VisitFind ==
    ASSUME BaseInv, VisitInv, Call, Find(Callee)
    PROVE  VisitInv' /\ FoundInv'
<1> DEFINE x == Callee
<1>1. /\ UNCHANGED <<graph, input, stack, entered, cycles>> /\ More /\ OnPath(x)
      /\ \A a : Reach(a)' = Reach(a) /\ (OnCycle(a)' <=> OnCycle(a))
  BY SameGraph DEF Find, Call, graph, input
<1>2. /\ \A y : Black(y)' <=> Black(y)
      /\ \A y, z : Back(y, z)' <=> Back(y, z)
      /\ \A a, b : Edge(a, b)' <=> Edge(a, b)
      /\ \A k : Loop(k)' = Loop(k)
  BY <1>1 DEF Black, OnPath, Back, Edge, DepsOf, Loop, graph, input, stack
<1>3. VisitInv'
  BY <1>1, <1>2 DEF VisitInv, Visiting, input, stack
<1>4. path # <<>> /\ OnCycle(x) /\ \A k \in 1..Len(path) : x \in Reach(path[k])
  BY <1>1, OnPathCycle
<1>5. /\ 1 \in 1..Len(path) /\ 1 \in 1..Len(at) /\ roots \in Seq(Ids) /\ at[1] \in Nat \ {0}
  <2>1. 1 \in 1..Len(path)
    BY <1>4, StackSize, EmptySeq
  <2>2. 1 \in 1..Len(at) /\ at[1] \in Nat \ {0}
    BY StackSize
  <2>3. roots \in Seq(Ids)
    BY DEF BaseInv, TypeOK
  <2> QED
    BY <2>1, <2>2, <2>3
<1>6. at[1] <= Len(roots) /\ path[1] = roots[at[1]]
  BY <1>5, RootsLoop DEF BaseInv, StackInv, CallsMade
<1>7. path[1] \in ToSet(roots)
  BY <1>5, <1>6 DEF ToSet
<1>8. \E d \in ToSet(roots) : \E e \in {d} \cup Reach(d) : OnCycle(e)
  BY <1>4, <1>5, <1>7
<1>9. FoundInv'
  BY <1>1, <1>8 DEF FoundInv, input
<1> QED
  BY <1>3, <1>9

\* Every step keeps what the visits leave behind.
LEMMA VisitStep ==
    ASSUME BaseInv, VisitInv, FoundInv, Call \/ Return
    PROVE  VisitInv' /\ FoundInv'
<1>1. ASSUME found' = FALSE PROVE FoundInv'
  BY <1>1 DEF FoundInv
<1>2. CASE Call
  <2>1. found = FALSE
    BY <1>2 DEF Call, Running, BaseInv, TypeOK
  <2>2. CASE Enter(Callee)
    BY <1>1, <1>2, <2>1, <2>2, VisitEnter DEF Enter
  <2>3. CASE EnterBranch(Callee)
    BY <1>1, <2>1, <2>3 DEF EnterBranch, VisitInv, Visiting, input
  <2>4. CASE PassOver(Callee) \/ Report(Callee)
    BY <1>1, <1>2, <2>1, <2>4, VisitPass DEF PassOver, Report
  <2>5. CASE Find(Callee)
    BY <1>2, <2>5, VisitFind
  <2> QED
    BY <1>2, <2>2, <2>3, <2>4, <2>5 DEF Call
<1>3. CASE Return
  <2>1. found = FALSE
    BY <1>3 DEF Return, Running, BaseInv, TypeOK
  <2>2. CASE Leave
    BY <1>1, <1>3, <2>1, <2>2, VisitLeave DEF Leave
  <2>3. CASE Output \/ ReturnDepth
    BY <1>1, <2>1, <2>3 DEF Output, ReturnDepth, VisitInv, Visiting, input
  <2> QED
    BY <1>3, <2>2, <2>3 DEF Return
<1> QED
  BY <1>2, <1>3

\* At the end of a visit what is black is closed, and so all that can be reached.
LEMMA ReachedBlack ==
    ASSUME BaseInv, VisitInv, Visiting, path = <<>>, ~More,
           \A x, y \in Ids : ~Back(x, y) \/ Black(y)
    PROVE  /\ \A d \in ToSet(roots) : d \in Ids /\ Black(d)
           /\ \A d \in Ids : Black(d) => \A e \in Reach(d) : e \in Ids /\ Black(e)
<1> DEFINE B == {x \in Ids : Black(x)}
<1>1. Len(at) = 1 /\ roots \in Seq(Ids) /\ at[1] \in Nat /\ Len(roots) \in Nat
  <2>1. Len(at) = 1 /\ at[1] \in Nat
    BY StackSize, EmptySeq
  <2> QED
    BY <2>1 DEF BaseInv, TypeOK
<1>2. at[1] > Len(roots)
  BY <1>1, RootsLoop DEF More, Last
<1>3. ASSUME NEW d \in ToSet(roots) PROVE d \in Ids /\ Black(d)
  <2>1. PICK m \in 1..Len(roots) : roots[m] = d
    BY <1>1 DEF ToSet
  <2>2. m \in 1..(at[1] - 1)
    BY <1>1, <1>2
  <2> QED
    BY <1>1, <2>1, <2>2 DEF VisitInv
<1>4. Closed(B) /\ B \in SUBSET Ids
  BY DEF Closed, VisitInv
<1>5. ASSUME NEW d \in Ids, Black(d) PROVE Reach(d) \subseteq B
  <2>1. \A c \in Ids : Edge(d, c) => c \in B
    BY <1>5 DEF VisitInv
  <2> HIDE DEF B
  <2> QED
    BY <1>4, <2>1, ReachLeast
<1> QED
  BY <1>3, <1>5

LEMMA CheckInv ==
    BaseInv /\ VisitInv /\ FoundInv => CheckFindsReachableCycle
<1> SUFFICES ASSUME BaseInv, VisitInv, FoundInv, Ended("check"), ~found,
                    NEW d \in ToSet(roots), NEW e \in {d} \cup Reach(d), OnCycle(e)
             PROVE  FALSE
  BY DEF CheckFindsReachableCycle, FoundInv
<1>1. Visiting /\ path = <<>> /\ ~More /\ \A x, y : ~Back(x, y)
  BY DEF Ended, Done, Visiting, Back, BaseInv, InputInv
<1>2. d \in Ids /\ Black(d) /\ \A f \in Ids : Black(f) => \A y \in Reach(f) : y \in Ids /\ Black(y)
  BY <1>1, ReachedBlack
<1>3. e \in Ids /\ Black(e)
  BY <1>2
<1>4. e \in Around(e) /\ \A x \in Around(e) : \E y \in Around(e) : Edge(x, y)
  BY <1>3, AroundCycle
<1>5. Around(e) \in SUBSET Ids /\ \A x \in Around(e) : Black(x)
  BY <1>2, <1>3 DEF Around
<1>6. PICK s \in Around(e) : \A y \in Around(e) : Edge(s, y) => Back(s, y)
  BY <1>1, <1>4, <1>5 DEF VisitInv
<1> QED
  BY <1>1, <1>4, <1>6

-----------------------------------------------------------------------------
(* The sort.                                                               *)

LEMMA SetOf ==
    ASSUME NEW S, NEW s \in Seq(S)
    PROVE  /\ DOMAIN s = 1..Len(s) /\ Len(s) \in Nat
           /\ \A y : y \in ToSet(s) <=> \E i \in 1..Len(s) : s[i] = y
BY DEF ToSet

LEMMA Appended ==
    ASSUME NEW S, NEW s \in Seq(S), NEW x \in S
    PROVE  /\ Append(s, x) \in Seq(S) /\ Len(s) \in Nat /\ Len(Append(s, x)) = Len(s) + 1
           /\ \A i \in 1..Len(s) : Append(s, x)[i] = s[i]
           /\ Append(s, x)[Len(s) + 1] = x
           /\ \A y : y \in ToSet(Append(s, x)) <=> y \in ToSet(s) \/ y = x
<1> DEFINE r == Append(s, x)
<1>1. /\ r \in Seq(S) /\ Len(s) \in Nat /\ Len(r) = Len(s) + 1
      /\ \A i \in 1..Len(s) : r[i] = s[i]
      /\ r[Len(s) + 1] = x
  OBVIOUS
<1> HIDE DEF r
<1>2. \A y : y \in ToSet(r) <=> \E i \in 1..Len(r) : r[i] = y
  BY <1>1, SetOf
<1>3. \A i : i \in 1..Len(r) <=> i \in 1..Len(s) \/ i = Len(s) + 1
  BY <1>1
<1>4. \A y : y \in ToSet(r) <=> y \in ToSet(s) \/ y = x
  BY <1>1, <1>2, <1>3, SetOf
<1> QED
  BY <1>1, <1>4 DEF r

LEMMA StartedSort == Started => ResultInv /\ SortInv
<1> SUFFICES ASSUME Started PROVE ResultInv /\ SortInv
  OBVIOUS
<1>1. /\ Len(path) = 0 /\ at[1] = 1 /\ Len(at) = 1 /\ Len(result) = 0
      /\ ToSet(result) = {} /\ \A x \in Ids : ~Black(x)
  <2>1. /\ Len(path) = 0 /\ at[1] = 1 /\ Len(at) = 1 /\ Len(result) = 0
        /\ \A x \in Ids : ~Black(x)
    BY DEF Started, Fresh, Black
  <2>2. ToSet(result) = {}
    BY DEF Started, Fresh, ToSet
  <2> QED
    BY <2>1, <2>2
<1>2. 1..(at[1] - 1) = {} /\ 2..Len(at) = {} /\ 1..Len(path) = {} /\ 1..Len(result) = {}
  BY <1>1
<1> QED
  BY <1>1, <1>2 DEF ResultInv, SortInv

\* A root is on the list of tasks, and so is not passed over for want of it.
LEMMA RootListed ==
    ASSUME BaseInv, search.kind \in Kinds
    PROVE  \A m \in 1..Len(roots) : roots[m] \in listed
<1>1. roots \in Seq(Ids) /\ ToSet(roots) = listed
  BY DEF BaseInv, TypeOK, InputInv
<1> QED
  BY <1>1, SetOf

LEMMA ResultEnter ==
    ASSUME BaseInv, ResultInv, SortInv, Call, Enter(Callee)
    PROVE  ResultInv' /\ SortInv'
<1> SUFFICES ASSUME search'.kind = "sort" PROVE ResultInv' /\ SortInv'
  BY DEF ResultInv, SortInv
<1> DEFINE x == Callee
<1>1. Shaped /\ Push(x) /\ UNCHANGED <<graph, input, result>> /\ x \in Ids
  BY BaseShaped, CalleeFacts DEF Enter, Call
<1>2. search.kind = "sort" /\ x \in listed /\ listed' = listed /\ roots' = roots
  BY <1>1 DEF input, Enter
<1>3. \A y \in Ids : Black(y)' <=> Black(y)
  BY EnterBlack
<1>4. /\ \A a, b : Edge(a, b)' <=> Edge(a, b)
      /\ \A a : Reach(a)' = Reach(a)
      /\ Acyclic' <=> Acyclic
  BY <1>1, SameGraph DEF graph, input
<1>5. Len(path) \in Nat /\ Len(at) = Len(path) + 1 /\ 1 \in 1..Len(at)
  BY StackSize
<1>6. /\ \A k \in 1..Len(at) : at'[k] = at[k] /\ Loop(k)' = Loop(k)
      /\ at'[Len(at) + 1] = 1 /\ Len(at') = Len(at) + 1
      /\ \A k \in 1..Len(path) : path'[k] = path[k]
      /\ path'[Len(path) + 1] = x /\ Len(path') = Len(path) + 1
  BY <1>1, PushFacts
<1> HIDE DEF x
<1>7. \A k \in 1..Len(path') : path'[k] \in listed
  <2>1. \A k \in 1..Len(path) : path[k] \in listed
    BY <1>2 DEF ResultInv
  <2> QED
    BY <1>2, <1>5, <1>6, <2>1
<1>8. at'[1] = at[1]
  BY <1>5, <1>6
<1>9. ResultInv'
  <2>1. result' = result /\ search' = search
    BY <1>1 DEF input
  <2>2. \A y \in Ids : Black(y)' <=> y \in ToSet(result')
    BY <1>2, <1>3, <2>1 DEF ResultInv
  <2>3. /\ \A y \in ToSet(result) : y \in listed
        /\ \A i, j \in 1..Len(result) : result[i] = result[j] => i = j
        /\ \A m \in 1..(at[1] - 1) : roots[m] \in ToSet(result)
    BY <1>2 DEF ResultInv
  <2>4. \A j \in 1..Len(result) : \E k \in 1..Len(roots) :
           /\ result[j] = roots[k] \/ result[j] \in Reach(roots[k])
           /\ \A m \in 1..(k - 1) : \E i \in 1..(j - 1) : result[i] = roots[m]
    BY <1>2 DEF ResultInv
  <2> QED
    BY <1>2, <1>4, <1>7, <1>8, <2>1, <2>2, <2>3, <2>4 DEF ResultInv
<1>10. ASSUME Acyclic, NEW k \in 2..Len(at'), NEW m \in 1..(at'[k] - 1), Loop(k)'[m] \in listed
       PROVE  Loop(k)'[m] \in ToSet(result)
  <2>1. k \in 1..Len(at) /\ k \in 2..Len(at)
    BY <1>5, <1>6
  <2>2. m \in 1..(at[k] - 1) /\ Loop(k)'[m] = Loop(k)[m]
    BY <1>6, <2>1
  <2> QED
    BY <1>2, <1>10, <2>1, <2>2 DEF SortInv
<1>11. SortInv'
  BY <1>1, <1>2, <1>4, <1>10 DEF SortInv
<1> QED
  BY <1>9, <1>11

LEMMA ResultPass ==
    ASSUME BaseInv, ResultInv, SortInv, Call, PassOver(Callee)
    PROVE  ResultInv' /\ SortInv'
<1> SUFFICES ASSUME search'.kind = "sort" PROVE ResultInv' /\ SortInv'
  BY DEF ResultInv, SortInv
<1> DEFINE x == Callee
<1>1. /\ Shaped /\ Advance /\ UNCHANGED <<graph, input, entered, result>> /\ More
      /\ x \in Ids
  BY BaseShaped, CalleeFacts DEF PassOver, Call
<1>2. /\ search.kind = "sort" /\ listed' = listed /\ roots' = roots
      /\ entered[x] # 0 \/ x \notin listed
  BY <1>1 DEF input, PassOver
<1>3. \A y : Black(y)' <=> Black(y)
  BY <1>1, AdvanceFacts DEF Black
<1>4. /\ \A a, b : Edge(a, b)' <=> Edge(a, b)
      /\ \A a : Reach(a)' = Reach(a)
      /\ Acyclic' <=> Acyclic
  BY <1>1, SameGraph DEF graph, input
<1>5. /\ Len(path) \in Nat /\ Len(at) = Len(path) + 1 /\ path' = path
      /\ \A k \in 1..Len(at) : at[k] \in Nat \ {0}
  BY <1>1, StackSize, AdvanceFacts
<1>6. /\ \A k \in 1..(Len(at) - 1) : at'[k] = at[k]
      /\ at'[Len(at)] = at[Len(at)] + 1 /\ Len(at') = Len(at)
      /\ \A k : Loop(k)' = Loop(k)
  BY <1>1, AdvanceFacts
<1>7. /\ x = Loop(Len(at))[at[Len(at)]] /\ at[Len(at)] \in 1..Len(Loop(Len(at)))
  BY <1>1, CalleeFacts
<1>8. x \in listed /\ ~OnPath(x) => x \in ToSet(result)
  BY <1>1, <1>2 DEF ResultInv, Black
<1>9. Acyclic => ~OnPath(x)
  BY <1>1, OnPathCycle DEF Acyclic
<1> HIDE DEF x
<1>10. ASSUME NEW m \in 1..(at'[1] - 1) PROVE roots[m] \in ToSet(result)
  <2>1. CASE m \in 1..(at[1] - 1)
    BY <1>2, <2>1 DEF ResultInv
  <2>2. CASE m \notin 1..(at[1] - 1)
    <3>1. Len(at) = 1 /\ m = at[1] /\ Len(path) = 0
      BY <1>5, <1>6, <2>2
    <3>2. x = roots[m] /\ m \in 1..Len(roots)
      BY <1>7, <3>1, RootsLoop
    <3>3. x \in listed
      BY <1>2, <3>2, RootListed DEF Kinds
    <3>4. ~OnPath(x)
      BY <3>1, StackSize, OnPathIndex
    <3> QED
      BY <1>8, <3>2, <3>3, <3>4
  <2> QED
    BY <2>1, <2>2
<1>11. ResultInv'
  BY <1>1, <1>2, <1>3, <1>4, <1>5, <1>10 DEF ResultInv
<1>12. ASSUME Acyclic, NEW k \in 2..Len(at'), NEW m \in 1..(at'[k] - 1), Loop(k)[m] \in listed
       PROVE  Loop(k)[m] \in ToSet(result)
  <2>1. CASE m \in 1..(at[k] - 1)
    BY <1>2, <1>6, <1>12, <2>1 DEF SortInv
  <2>2. CASE m \notin 1..(at[k] - 1)
    <3>1. k = Len(at) /\ m = at[k]
      BY <1>5, <1>6, <2>2
    <3> QED
      BY <1>7, <1>8, <1>9, <1>12, <3>1
  <2> QED
    BY <2>1, <2>2
<1>13. SortInv'
  <2>1. \A k \in 2..Len(at') : \A m \in 1..(at'[k] - 1) :
           Acyclic /\ Loop(k)'[m] \in listed => Loop(k)'[m] \in ToSet(result)
    BY <1>6, <1>12
  <2>2. Acyclic => \A j \in 1..Len(result) : \A u \in listed : Edge(result[j], u) =>
              \E i \in 1..(j - 1) : result[i] = u
    BY <1>2 DEF SortInv
  <2>3. result' = result
    BY <1>1
  <2> QED
    BY <1>2, <1>4, <2>1, <2>2, <2>3 DEF SortInv
<1> QED
  BY <1>11, <1>13

LEMMA ResultOutput ==
    ASSUME BaseInv, ResultInv, SortInv, Return, Output
    PROVE  ResultInv' /\ SortInv'
<1> DEFINE v == path[Len(path)]
           n == Len(path)
           r == Len(result)
<1>1. /\ Shaped /\ Pop /\ UNCHANGED <<graph, input, entered>>
      /\ ~More /\ path # <<>> /\ search.kind = "sort"
  BY BaseShaped DEF Return, Output
<1>2. listed' = listed /\ roots' = roots /\ search'.kind = "sort"
  BY <1>1 DEF input
<1>3. v = Last(path) /\ v \in Ids /\ n \in Nat \ {0} /\ n \in 1..n
  BY <1>1, PopFacts
<1>4. (\A y \in Ids : Black(y)' <=> Black(y) \/ y = v) /\ ~Black(v)
  BY <1>1, <1>3, PopBlack
<1>5. /\ \A a, b : Edge(a, b)' <=> Edge(a, b)
      /\ \A a : Reach(a)' = Reach(a)
      /\ Acyclic' <=> Acyclic
  BY <1>1, SameGraph DEF graph, input
<1>6. /\ Len(at) = n + 1
      /\ \A k \in 1..Len(at) : at[k] \in Nat \ {0}
      /\ \A k \in 1..n : path[k] \in Ids
  BY StackSize
<1>7. /\ Len(at') = n /\ Len(path') = n - 1
      /\ \A k \in 1..(n - 1) : at'[k] = at[k]
      /\ at'[n] = at[n] + 1
      /\ \A k \in 1..n : Loop(k)' = Loop(k)
      /\ \A k \in 1..(n - 1) : path'[k] = path[k]
  <2>1. /\ Len(at') = Len(at) - 1 /\ Len(path') = n - 1
        /\ \A k \in 1..(n - 1) : at'[k] = at[k]
        /\ at'[n] = at[n] + 1
        /\ \A k \in 1..n : Loop(k)' = Loop(k)
        /\ \A k \in 1..(n - 1) : path'[k] = path[k]
    BY <1>1, PopFacts
  <2> QED
    BY <1>3, <1>6, <2>1
<1>8. /\ result' \in Seq(Ids) /\ r \in Nat /\ Len(result') = r + 1
      /\ \A i \in 1..r : result'[i] = result[i]
      /\ result'[r + 1] = v
      /\ \A y : y \in ToSet(result') <=> y \in ToSet(result) \/ y = v
      /\ \A y : y \in ToSet(result) <=> \E i \in 1..r : result[i] = y
  <2>1. result \in Seq(Ids) /\ result' = Append(result, v)
    BY <1>3 DEF Output, BaseInv, TypeOK
  <2> QED
    BY <1>3, <2>1, Appended, SetOf
<1>9. /\ \A k \in 1..n : path[k] \in listed
      /\ \A x \in Ids : Black(x) <=> x \in ToSet(result)
      /\ \A x \in ToSet(result) : x \in listed
      /\ \A i, j \in 1..r : result[i] = result[j] => i = j
      /\ \A m \in 1..(at[1] - 1) : roots[m] \in ToSet(result)
      /\ \A j \in 1..r : \E k \in 1..Len(roots) :
            /\ result[j] = roots[k] \/ result[j] \in Reach(roots[k])
            /\ \A m \in 1..(k - 1) : \E i \in 1..(j - 1) : result[i] = roots[m]
  BY <1>1 DEF ResultInv
<1>10. /\ \A k \in 1..n : at[k] <= Len(Loop(k)) /\ path[k] = Loop(k)[at[k]]
       /\ v = path[1] \/ v \in Reach(path[1])
  <2>1. \A k \in 1..n : at[k] <= Len(Loop(k)) /\ path[k] = Loop(k)[at[k]]
    BY DEF BaseInv, StackInv, CallsMade
  <2>2. 1 # n => v \in Reach(path[1])
    <3>1. \A i, j \in 1..n : i < j => path[j] \in Reach(path[i])
      BY DEF BaseInv, StackInv, PathReaches
    <3>2. n \in Nat \ {0}
      BY <1>3
    <3> HIDE DEF n
    <3>3. 1 # n => 1 \in 1..n /\ n \in 1..n /\ 1 < n
      BY <3>2
    <3> QED
      BY <3>1, <3>3 DEF n
  <2> QED
    BY <2>1, <2>2
<1>11. ASSUME Acyclic, NEW u \in listed, Edge(v, u)
       PROVE  u \in ToSet(result)
  <2>1. PICK m \in 1..(at[Len(at)] - 1) : Loop(Len(at))[m] = u
    BY <1>1, <1>11, LoopPassed
  <2>2. Len(at) \in 2..Len(at)
    BY <1>1, LoopPassed
  <2> QED
    BY <1>1, <1>11, <2>1, <2>2 DEF SortInv
<1>12. Acyclic =>
         /\ \A k \in 2..Len(at) : \A m \in 1..(at[k] - 1) :
              Loop(k)[m] \in listed => Loop(k)[m] \in ToSet(result)
         /\ \A j \in 1..r : \A u \in listed : Edge(result[j], u) =>
              \E i \in 1..(j - 1) : result[i] = u
  BY <1>1 DEF SortInv
<1> HIDE DEF v, n, r
<1>13. \A k \in 1..Len(path') : path'[k] \in listed
  BY <1>3, <1>7, <1>9
<1>14. \A x \in Ids : Black(x)' <=> x \in ToSet(result')
  BY <1>4, <1>8, <1>9
<1>15. \A x \in ToSet(result') : x \in listed
  BY <1>3, <1>8, <1>9 DEF v, n
<1>16. \A i, j \in 1..Len(result') : result'[i] = result'[j] => i = j
  <2>1. \A i \in 1..r : result[i] # v
    BY <1>3, <1>4, <1>8, <1>9
  <2> SUFFICES ASSUME NEW i \in 1..Len(result'), NEW j \in 1..Len(result'),
                      result'[i] = result'[j]
               PROVE  i = j
    OBVIOUS
  <2>2. (i \in 1..r /\ result'[i] = result[i]) \/ (i = r + 1 /\ result'[i] = v)
    BY <1>8
  <2>3. (j \in 1..r /\ result'[j] = result[j]) \/ (j = r + 1 /\ result'[j] = v)
    BY <1>8
  <2> QED
    BY <1>9, <2>1, <2>2, <2>3
<1>17. ASSUME NEW m \in 1..(at'[1] - 1) PROVE roots[m] \in ToSet(result')
  <2>1. CASE m \in 1..(at[1] - 1)
    BY <1>8, <1>9, <2>1
  <2>2. CASE m \notin 1..(at[1] - 1)
    <3>1. n = 1 /\ m = at[1]
      BY <1>3, <1>6, <1>7, <2>2
    <3>2. roots[m] = v
      BY <1>3, <1>10, <3>1, RootsLoop DEF v, n
    <3> QED
      BY <1>8, <3>2
  <2> QED
    BY <2>1, <2>2
<1>18. ASSUME NEW j \in 1..Len(result')
       PROVE  \E k \in 1..Len(roots) :
                 /\ result'[j] = roots[k] \/ result'[j] \in Reach(roots[k])
                 /\ \A m \in 1..(k - 1) : \E i \in 1..(j - 1) : result'[i] = roots[m]
  <2>1. CASE j \in 1..r
    <3>1. PICK k \in 1..Len(roots) :
             /\ result[j] = roots[k] \/ result[j] \in Reach(roots[k])
             /\ \A m \in 1..(k - 1) : \E i \in 1..(j - 1) : result[i] = roots[m]
      BY <1>9, <2>1
    <3>2. \A i \in 1..(j - 1) : result'[i] = result[i]
      BY <1>8, <2>1
    <3> QED
      BY <1>8, <2>1, <3>1, <3>2
  <2>2. CASE j = r + 1
    <3>1. 1 \in 1..n /\ 1 \in 1..Len(at) /\ at[1] \in Nat \ {0}
      BY <1>3, <1>6
    <3>2. at[1] \in 1..Len(roots) /\ path[1] = roots[at[1]]
      <4>1. at[1] <= Len(roots) /\ path[1] = roots[at[1]]
        BY <1>10, <3>1, RootsLoop
      <4>2. Len(roots) \in Nat
        BY SetOf DEF BaseInv, TypeOK
      <4> QED
        BY <3>1, <4>1, <4>2
    <3>3. ASSUME NEW m \in 1..(at[1] - 1) PROVE \E i \in 1..(j - 1) : result'[i] = roots[m]
      <4>1. PICK i \in 1..r : result[i] = roots[m]
        BY <1>8, <1>9
      <4>2. i \in 1..(j - 1)
        BY <1>8, <2>2
      <4> QED
        BY <1>8, <4>1, <4>2
    <3> QED
      BY <1>8, <1>10, <2>2, <3>2, <3>3
  <2> QED
    BY <1>8, <2>1, <2>2
<1>19. ResultInv'
  BY <1>2, <1>5, <1>13, <1>14, <1>15, <1>16, <1>17, <1>18 DEF ResultInv
<1>20. ASSUME Acyclic, NEW k \in 2..Len(at'), NEW m \in 1..(at'[k] - 1), Loop(k)[m] \in listed
       PROVE  Loop(k)[m] \in ToSet(result')
  <2>1. CASE m \in 1..(at[k] - 1)
    <3>1. k \in 2..Len(at)
      BY <1>3, <1>6, <1>7
    <3> QED
      BY <1>8, <1>12, <1>20, <2>1, <3>1
  <2>2. CASE m \notin 1..(at[k] - 1)
    <3>1. k = n /\ m = at[k]
      BY <1>3, <1>6, <1>7, <2>2
    <3> QED
      BY <1>3, <1>8, <1>10, <3>1 DEF v, n
  <2> QED
    BY <2>1, <2>2
<1>21. ASSUME Acyclic, NEW j \in 1..Len(result'), NEW u \in listed, Edge(result'[j], u)
       PROVE  \E i \in 1..(j - 1) : result'[i] = u
  <2>1. CASE j \in 1..r
    <3>1. PICK i \in 1..(j - 1) : result[i] = u
      BY <1>8, <1>12, <1>21, <2>1
    <3>2. i \in 1..r
      BY <1>8, <2>1
    <3> QED
      BY <1>8, <3>1, <3>2
  <2>2. CASE j = r + 1
    <3>1. PICK i \in 1..r : result[i] = u
      BY <1>8, <1>11, <1>21, <2>2
    <3>2. i \in 1..(j - 1)
      BY <1>8, <2>2
    <3> QED
      BY <1>8, <3>1, <3>2
  <2> QED
    BY <1>8, <2>1, <2>2
<1>22. SortInv'
  <2>1. \A k \in 2..Len(at') : \A m \in 1..(at'[k] - 1) :
           Acyclic /\ Loop(k)'[m] \in listed => Loop(k)'[m] \in ToSet(result')
    <3>1. \A k \in 2..Len(at') : Loop(k)' = Loop(k)
      BY <1>3, <1>7
    <3> QED
      BY <1>20, <3>1
  <2> QED
    BY <1>2, <1>5, <1>21, <2>1 DEF SortInv
<1> QED
  BY <1>19, <1>22

LEMMA ResultStep ==
    ASSUME BaseInv, ResultInv, SortInv, Call \/ Return
    PROVE  ResultInv' /\ SortInv'
<1>1. ASSUME search.kind # "sort", search' = search PROVE ResultInv' /\ SortInv'
  BY <1>1 DEF ResultInv, SortInv
<1>2. CASE Call
  <2>1. CASE Enter(Callee) \/ PassOver(Callee)
    BY <1>2, <2>1, ResultEnter, ResultPass
  <2>2. CASE EnterBranch(Callee) \/ Find(Callee) \/ Report(Callee)
    BY <1>1, <2>2 DEF EnterBranch, Find, Report, input
  <2> QED
    BY <1>2, <2>1, <2>2 DEF Call
<1>3. CASE Return
  <2>1. CASE Output
    BY <1>3, <2>1, ResultOutput
  <2>2. CASE Leave \/ ReturnDepth
    BY <1>1, <2>2 DEF Leave, ReturnDepth, input
  <2> QED
    BY <1>3, <2>1, <2>2 DEF Return
<1> QED
  BY <1>2, <1>3

\* A search that is not a check ends with its own loop.
LEMMA EndedAll ==
    ASSUME BaseInv, Done, search.kind \in Kinds
    PROVE  /\ path = <<>> /\ ~More /\ Len(path) = 0 /\ Len(at) = 1
           /\ roots \in Seq(Ids) /\ Len(roots) \in Nat
           /\ at[1] = Len(roots) + 1
           /\ \A x : x \in listed <=> \E m \in 1..Len(roots) : roots[m] = x
<1>1. path = <<>> /\ ~More /\ roots \in Seq(Ids) /\ ToSet(roots) = listed
  BY DEF BaseInv, InputInv, TypeOK, Done, Kinds
<1>2. Len(path) = 0 /\ Len(at) = 1 /\ at[1] \in Nat \ {0}
  BY <1>1, StackSize
<1>3. Len(roots) \in Nat /\ \A x : x \in listed <=> \E m \in 1..Len(roots) : roots[m] = x
  BY <1>1, SetOf
<1>4. at[1] > Len(roots)
  BY <1>1, <1>2, <1>3, RootsLoop DEF More, Last
<1>5. at[1] <= Len(roots) + 1
  BY <1>2, RootsLoop DEF BaseInv, StackInv, CallsMade
<1> QED
  BY <1>1, <1>2, <1>3, <1>4, <1>5

LEMMA DependenciesInv == BaseInv /\ ResultInv /\ SortInv => SortRespectsDependencies
<1> SUFFICES ASSUME BaseInv, ResultInv, SortInv, Ended("sort")
             PROVE  /\ IsInjective(result) /\ ToSet(result) = listed
                    /\ Acyclic => \A i, j \in DOMAIN result : Edge(result[i], result[j]) => j < i
  BY DEF SortRespectsDependencies
<1>1. search.kind = "sort" /\ Done
  BY DEF Ended
<1>2. /\ at[1] = Len(roots) + 1 /\ Len(roots) \in Nat
      /\ \A x : x \in listed <=> \E m \in 1..Len(roots) : roots[m] = x
  BY <1>1, EndedAll DEF Kinds
<1>3. /\ DOMAIN result = 1..Len(result) /\ Len(result) \in Nat
      /\ \A y : y \in ToSet(result) <=> \E i \in 1..Len(result) : result[i] = y
  BY SetOf DEF BaseInv, TypeOK
<1>4. /\ \A x \in ToSet(result) : x \in listed
      /\ \A i, j \in 1..Len(result) : result[i] = result[j] => i = j
      /\ \A m \in 1..(at[1] - 1) : roots[m] \in ToSet(result)
  BY <1>1 DEF ResultInv
<1>5. IsInjective(result)
  BY <1>3, <1>4 DEF IsInjective
<1>6. ToSet(result) = listed
  <2>1. \A m \in 1..Len(roots) : m \in 1..(at[1] - 1)
    BY <1>2
  <2>2. \A x \in listed : x \in ToSet(result)
    BY <1>2, <1>4, <2>1
  <2> QED
    BY <1>4, <2>2
<1>7. ASSUME Acyclic, NEW i \in 1..Len(result), NEW j \in 1..Len(result),
             Edge(result[i], result[j])
      PROVE  j < i
  <2>1. result[j] \in listed
    BY <1>3, <1>4
  <2>2. PICK k \in 1..(i - 1) : result[k] = result[j]
    BY <1>1, <1>7, <2>1 DEF SortInv
  <2>3. k \in 1..Len(result)
    BY <1>3
  <2>4. k = j
    BY <1>4, <2>2, <2>3
  <2> QED
    BY <2>4
<1> QED
  BY <1>3, <1>5, <1>6, <1>7

LEMMA PrioritiesInv == BaseInv /\ ResultInv => SortRespectsPriorities
<1> SUFFICES ASSUME BaseInv, ResultInv, Ended("sort"),
                    NEW i \in DOMAIN result, NEW j \in DOMAIN result, i < j,
                    priority[result[i]] < priority[result[j]]
             PROVE  \E v \in listed : priority[v] >= priority[result[j]] /\ result[i] \in Reach(v)
  BY DEF SortRespectsPriorities
<1>1. search.kind = "sort" /\ Done
  BY DEF Ended
<1>2. /\ roots \in Seq(Ids) /\ Len(roots) \in Nat
      /\ \A x : x \in listed <=> \E m \in 1..Len(roots) : roots[m] = x
  BY <1>1, EndedAll DEF Kinds
<1>3. /\ DOMAIN result = 1..Len(result) /\ Len(result) \in Nat
      /\ \A y : y \in ToSet(result) <=> \E m \in 1..Len(result) : result[m] = y
  BY SetOf DEF BaseInv, TypeOK
<1>4. result[j] \in listed /\ result[i] \in Ids /\ result[j] \in Ids
  BY <1>1, <1>3 DEF ResultInv, BaseInv, TypeOK
<1>5. PICK l \in 1..Len(roots) : roots[l] = result[j]
  BY <1>2, <1>4
<1>6. PICK k \in 1..Len(roots) :
         /\ result[i] = roots[k] \/ result[i] \in Reach(roots[k])
         /\ \A m \in 1..(k - 1) : \E o \in 1..(i - 1) : result[o] = roots[m]
  BY <1>1, <1>3 DEF ResultInv
<1>7. k <= l
  <2>1. SUFFICES ASSUME l < k PROVE FALSE
    BY <1>2
  <2>2. l \in 1..(k - 1)
    BY <1>2, <2>1
  <2>3. PICK o \in 1..(i - 1) : result[o] = result[j]
    BY <1>5, <1>6, <2>2
  <2>4. o \in 1..Len(result) /\ o < j
    BY <1>3
  <2>5. o = j
    BY <1>1, <1>3, <2>3, <2>4 DEF ResultInv
  <2> QED
    BY <1>3, <2>4, <2>5
<1>8. priority[roots[k]] >= priority[result[j]]
  <2>1. \A x \in Ids : priority[x] \in Nat
    BY DEF BaseInv, TypeOK
  <2>2. CASE k = l
    BY <1>4, <1>5, <2>1, <2>2
  <2>3. CASE k # l
    <3>1. DOMAIN roots = 1..Len(roots) /\ k < l
      BY <1>2, <1>7, <2>3, SetOf
    <3> QED
      BY <1>1, <1>5, <3>1 DEF BaseInv, InputInv
  <2> QED
    BY <2>2, <2>3
<1>9. result[i] # roots[k]
  <2>1. priority[result[i]] \in Nat /\ priority[result[j]] \in Nat
    BY <1>4 DEF BaseInv, TypeOK
  <2> QED
    BY <1>8, <2>1
<1>10. roots[k] \in listed
  BY <1>2
<1> QED
  BY <1>6, <1>8, <1>9, <1>10

-----------------------------------------------------------------------------
(* The depth.                                                              *)

\* What the k-th call's maximum says, of any stack, list of maxima and loops.
Deepest(c, L, b) ==
    /\ \A m \in 1..(c - 1), n \in Nat : HasPath(L[m], n) => n <= b
    /\ \/ c = 1 /\ b = 0
       \/ \E m \in 1..(c - 1) : HasPath(L[m], b)

LEMMA DepthParts ==
    DepthInv <=>
        (search.kind = "depth" =>
            /\ \A k \in 1..Len(path) : ~Leaf(path[k])
            /\ Acyclic => \A k \in 1..Len(at) : Deepest(at[k], Loop(k), best[k]))
BY DEF DepthInv, Deepest

LEMMA StartedDepth == Started => DepthInv
<1> SUFFICES ASSUME Started PROVE DepthInv
  OBVIOUS
<1>1. Len(path) = 0 /\ Len(at) = 1 /\ at[1] = 1 /\ best[1] = 0
  BY DEF Started, Fresh
<1>2. 1..Len(at) = {1} /\ 1..Len(path) = {} /\ 1..(1 - 1) = {}
  BY <1>1
<1>3. Deepest(at[1], Loop(1), best[1])
  BY <1>1, <1>2 DEF Deepest
<1> QED
  BY <1>1, <1>2, <1>3, DepthParts

LEMMA DeepestSteady ==
    ASSUME UNCHANGED <<graph, input>>
    PROVE  /\ \A c, L, b : Deepest(c, L, b)' <=> Deepest(c, L, b)
           /\ Acyclic' <=> Acyclic
           /\ \A x : Leaf(x)' <=> Leaf(x)
<1>1. UNCHANGED <<listed, deps>>
  BY DEF graph, input
<1> QED
  BY <1>1, SameGraph DEF Deepest

LEMMA DepthEnter ==
    ASSUME BaseInv, DepthInv, Call, EnterBranch(Callee)
    PROVE  DepthInv'
<1> DEFINE x == Callee
<1>1. /\ Shaped /\ Push(x) /\ UNCHANGED <<graph, input>> /\ ~Leaf(x) /\ x \in Ids
      /\ best' = Append(best, 0) /\ search.kind = "depth" /\ search' = search
  BY BaseShaped, CalleeFacts DEF EnterBranch, Call, input
<1>2. /\ Len(path) \in Nat /\ Len(at) = Len(path) + 1
  BY StackSize
<1>3. /\ \A k \in 1..Len(at) : at'[k] = at[k] /\ Loop(k)' = Loop(k)
      /\ at'[Len(at) + 1] = 1 /\ Len(at') = Len(at) + 1
      /\ \A k \in 1..Len(path) : path'[k] = path[k]
      /\ path'[Len(path) + 1] = x /\ Len(path') = Len(path) + 1
  BY <1>1, PushFacts
<1>4. /\ \A k \in 1..Len(at) : best'[k] = best[k]
      /\ best'[Len(at) + 1] = 0
  <2>1. best \in Seq(Nat) /\ Len(best) = Len(at) /\ 0 \in Nat
    BY <1>1 DEF BaseInv, TypeOK, BestInv
  <2> QED
    BY <1>1, <2>1, Appended
<1>5. /\ \A c, L, b : Deepest(c, L, b)' <=> Deepest(c, L, b)
      /\ Acyclic' <=> Acyclic
      /\ \A y : Leaf(y)' <=> Leaf(y)
  BY <1>1, DeepestSteady
<1>6. /\ \A k \in 1..Len(path) : ~Leaf(path[k])
      /\ Acyclic => \A k \in 1..Len(at) : Deepest(at[k], Loop(k), best[k])
  BY <1>1, DepthParts
<1> HIDE DEF x
<1>7. \A k \in 1..Len(path') : ~Leaf(path'[k])
  BY <1>1, <1>2, <1>3, <1>6
<1>8. ASSUME Acyclic, NEW k \in 1..Len(at')
      PROVE  Deepest(at'[k], Loop(k)', best'[k])
  <2>1. CASE k \in 1..Len(at)
    BY <1>3, <1>4, <1>6, <1>8, <2>1
  <2>2. CASE k = Len(at) + 1
    <3>1. at'[k] = 1 /\ best'[k] = 0 /\ 1..(1 - 1) = {}
      BY <1>3, <1>4, <2>2
    <3> QED
      BY <3>1 DEF Deepest
  <2> QED
    BY <1>2, <1>3, <2>1, <2>2
<1> QED
  BY <1>1, <1>5, <1>7, <1>8 DEF DepthInv, Deepest

LEMMA DepthPass ==
    ASSUME BaseInv, DepthInv, Call, PassOver(Callee)
    PROVE  DepthInv'
<1> SUFFICES ASSUME search'.kind = "depth" PROVE DepthInv'
  BY DEF DepthInv
<1> DEFINE x == Callee
           K == Len(at)
<1>1. /\ Shaped /\ Advance /\ UNCHANGED <<graph, input, best>> /\ More
      /\ x \in Ids /\ search.kind = "depth" /\ search' = search
      /\ OnPath(x) \/ Leaf(x)
  BY BaseShaped, CalleeFacts DEF PassOver, Call, input
<1>2. /\ Len(path) \in Nat /\ Len(at) = Len(path) + 1 /\ path' = path
      /\ \A k \in 1..Len(at) : at[k] \in Nat \ {0}
      /\ \A k \in 1..Len(at) : best[k] \in Nat
  <2>1. best \in Seq(Nat) /\ Len(best) = Len(at)
    BY <1>1 DEF BaseInv, TypeOK, BestInv
  <2>2. \A k \in 1..Len(at) : best[k] \in Nat
    BY <2>1
  <2>3. path' = path
    BY <1>1, AdvanceFacts
  <2> QED
    BY <2>2, <2>3, StackSize
<1>3. /\ \A k \in 1..(K - 1) : at'[k] = at[k]
      /\ at'[K] = at[K] + 1 /\ Len(at') = K
      /\ \A k : Loop(k)' = Loop(k)
  BY <1>1, AdvanceFacts
<1>4. x = Loop(K)[at[K]]
  BY <1>1, CalleeFacts
<1>5. /\ \A c, L, b : Deepest(c, L, b)' <=> Deepest(c, L, b)
      /\ Acyclic' <=> Acyclic
      /\ \A y : Leaf(y)' <=> Leaf(y)
  BY <1>1, DeepestSteady
<1>6. /\ \A k \in 1..Len(path) : ~Leaf(path[k])
      /\ Acyclic => \A k \in 1..Len(at) : Deepest(at[k], Loop(k), best[k])
  BY <1>1, DepthParts
<1>7. Acyclic => Leaf(x)
  BY <1>1, OnPathCycle DEF Acyclic
<1> HIDE DEF x, K
<1>8. K \in Nat \ {0} /\ K \in 1..Len(at) /\ at[K] \in Nat \ {0} /\ best[K] \in Nat
  BY <1>2 DEF K
<1>9. ASSUME Acyclic PROVE Deepest(at[K] + 1, Loop(K), best[K])
  <2>1. Deepest(at[K], Loop(K), best[K])
    BY <1>6, <1>8, <1>9
  <2>2. ASSUME NEW m \in 1..((at[K] + 1) - 1), NEW n \in Nat, HasPath(Loop(K)[m], n)
        PROVE  n <= best[K]
    <3>1. CASE m \in 1..(at[K] - 1)
      BY <2>1, <2>2, <3>1 DEF Deepest
    <3>2. CASE m = at[K]
      <4>1. n = 0
        BY <1>1, <1>4, <1>7, <1>9, <2>2, <3>2, LeafPath
      <4> QED
        BY <1>8, <4>1
    <3> QED
      BY <1>8, <3>1, <3>2
  <2>3. \E m \in 1..((at[K] + 1) - 1) : HasPath(Loop(K)[m], best[K])
    <3>1. CASE at[K] = 1 /\ best[K] = 0
      <4>1. HasPath(x, 0)
        BY <1>1, NoPath
      <4>2. 1 \in 1..((1 + 1) - 1)
        OBVIOUS
      <4> QED
        BY <1>4, <3>1, <4>1, <4>2
    <3>2. CASE \E m \in 1..(at[K] - 1) : HasPath(Loop(K)[m], best[K])
      <4>1. PICK m \in 1..(at[K] - 1) : HasPath(Loop(K)[m], best[K])
        BY <3>2
      <4>2. m \in 1..((at[K] + 1) - 1)
        BY <1>8
      <4> QED
        BY <4>1, <4>2
    <3> QED
      BY <2>1, <3>1, <3>2 DEF Deepest
  <2> QED
    BY <2>2, <2>3 DEF Deepest
<1>10. ASSUME Acyclic, NEW k \in 1..Len(at')
       PROVE  Deepest(at'[k], Loop(k), best[k])
  <2>1. CASE k = K
    BY <1>3, <1>9, <1>10, <2>1
  <2>2. CASE k # K
    <3>1. k \in 1..(K - 1) /\ k \in 1..Len(at)
      BY <1>3, <1>8, <2>2 DEF K
    <3> QED
      BY <1>3, <1>6, <1>10, <3>1
  <2> QED
    BY <2>1, <2>2
<1>11. \A k \in 1..Len(at') : Acyclic => Deepest(at'[k], Loop(k)', best'[k])
  BY <1>1, <1>3, <1>10
<1> QED
  BY <1>1, <1>2, <1>5, <1>6, <1>11 DEF DepthInv, Deepest

LEMMA DepthReturn ==
    ASSUME BaseInv, DepthInv, Return, ReturnDepth
    PROVE  DepthInv'
<1> DEFINE v == path[Len(path)]
           n == Len(path)
           depth == 1 + best[n + 1]
           L == Loop(n)
           L1 == Loop(n + 1)
<1>1. /\ Shaped /\ Pop /\ UNCHANGED <<graph, input>>
      /\ ~More /\ path # <<>> /\ search.kind = "depth" /\ search' = search
  BY BaseShaped DEF Return, ReturnDepth, input
<1>2. v \in Ids /\ n \in Nat \ {0} /\ n \in 1..n /\ Len(at) = n + 1
  BY <1>1, PopFacts, StackSize
<1>3. /\ \A k \in 1..Len(at) : at[k] \in Nat \ {0}
      /\ \A k \in 1..n : path[k] \in Ids
  BY StackSize
<1>4. /\ Len(at') = n /\ Len(path') = n - 1
      /\ \A k \in 1..(n - 1) : at'[k] = at[k]
      /\ at'[n] = at[n] + 1
      /\ \A k \in 1..n : Loop(k)' = Loop(k)
      /\ \A k \in 1..(n - 1) : path'[k] = path[k]
  <2>1. /\ Len(at') = Len(at) - 1 /\ Len(path') = n - 1
        /\ \A k \in 1..(n - 1) : at'[k] = at[k]
        /\ at'[n] = at[n] + 1
        /\ \A k \in 1..n : Loop(k)' = Loop(k)
        /\ \A k \in 1..(n - 1) : path'[k] = path[k]
    BY <1>1, PopFacts
  <2> QED
    BY <1>2, <2>1
<1>5. best \in Seq(Nat) /\ Len(best) = n + 1
  BY <1>1, <1>2 DEF BaseInv, TypeOK, BestInv
<1>6. /\ \A k \in 1..(n - 1) : best'[k] = best[k]
      /\ best'[n] = IF best[n] > depth THEN best[n] ELSE depth
  BY <1>2, <1>5, ReturnBest DEF Return
<1>7. best[n] \in Nat /\ best[n + 1] \in Nat /\ depth \in Nat \ {0}
  <2>1. n \in 1..Len(best) /\ n + 1 \in 1..Len(best)
    BY <1>2, <1>5
  <2> QED
    BY <1>5, <2>1
<1>8. /\ \A c, M, b : Deepest(c, M, b)' <=> Deepest(c, M, b)
      /\ Acyclic' <=> Acyclic
      /\ \A y : Leaf(y)' <=> Leaf(y)
  BY <1>1, DeepestSteady
<1>9. /\ \A k \in 1..n : ~Leaf(path[k])
      /\ Acyclic => \A k \in 1..Len(at) : Deepest(at[k], Loop(k), best[k])
  BY <1>1, DepthParts
<1>10. /\ L1 = DepsOf(v)
       /\ \A b : Edge(v, b) => \E m \in 1..(at[n + 1] - 1) : L1[m] = b
  BY <1>1, <1>2, LoopPassed
<1>11. v = L[at[n]]
  BY <1>2 DEF BaseInv, StackInv, CallsMade
<1>12. ASSUME NEW m \in 1..(at[n + 1] - 1) PROVE Edge(v, L1[m]) /\ L1[m] \in Ids
  <2>1. n + 1 \in 1..Len(at) /\ m \in 1..(at[n + 1] - 1)
    BY <1>2
  <2>2. m \in 1..Len(L1) /\ L1[m] \in Ids
    BY <2>1, PassedIds
  <2>3. Edge(v, L1[m])
    BY <1>1, <1>2, <1>10, <2>2, EdgeIndex
  <2> QED
    BY <2>2, <2>3
<1>13. at[n + 1] # 1
  <2>1. DepsOf(v) # <<>> /\ DepsOf(v) \in Seq(Ids)
    BY <1>1, <1>2, <1>9, LoopType DEF Leaf
  <2>2. 1 \in 1..Len(DepsOf(v))
    BY <2>1, EmptySeq
  <2>3. Edge(v, DepsOf(v)[1])
    BY <1>1, <1>2, <2>2, EdgeIndex
  <2>4. 1..(1 - 1) = {}
    OBVIOUS
  <2> QED
    BY <1>10, <2>3, <2>4
<1>14. /\ n + 1 \in 1..Len(at) /\ n \in 1..Len(at) /\ at[n] \in Nat \ {0}
  BY <1>2, <1>3
<1> HIDE DEF v, n, depth, L, L1
<1>15. \A k \in 1..Len(path') : ~Leaf(path'[k])
  <2>1. \A k \in 1..Len(path') : k \in 1..n /\ path'[k] = path[k]
    BY <1>2, <1>4
  <2> QED
    BY <1>9, <2>1
<1>16. ASSUME Acyclic PROVE Deepest(at[n] + 1, L, best'[n])
  <2>1. Deepest(at[n], L, best[n]) /\ Deepest(at[n + 1], L1, best[n + 1])
    BY <1>9, <1>14, <1>16 DEF L, L1
  <2>2. best'[n] >= best[n] /\ best'[n] >= depth /\ best'[n] \in Nat
    BY <1>6, <1>7
  <2>3. ASSUME NEW q \in Nat, HasPath(v, q) PROVE q <= depth
    <3>1. CASE q = 0
      BY <1>7, <3>1
    <3>2. CASE q # 0
      <4>1. PICK b \in Ids : Edge(v, b) /\ HasPath(b, q - 1)
        BY <1>2, <2>3, <3>2, PathFirst
      <4>2. PICK m \in 1..(at[n + 1] - 1) : L1[m] = b
        BY <1>10, <4>1
      <4>3. q - 1 \in Nat
        BY <3>2
      <4>4. q - 1 <= best[n + 1]
        BY <2>1, <4>1, <4>2, <4>3 DEF Deepest
      <4> QED
        BY <1>7, <4>4 DEF depth
    <3> QED
      BY <3>1, <3>2
  <2>4. HasPath(v, depth)
    <3>1. PICK m \in 1..(at[n + 1] - 1) : HasPath(L1[m], best[n + 1])
      BY <1>13, <2>1 DEF Deepest
    <3>2. HasPath(v, best[n + 1] + 1)
      BY <1>2, <1>7, <1>12, <3>1, PathOn
    <3>3. best[n + 1] + 1 = depth
      BY <1>7 DEF depth
    <3> QED
      BY <3>2, <3>3
  <2>5. ASSUME NEW m \in 1..((at[n] + 1) - 1), NEW q \in Nat, HasPath(L[m], q)
        PROVE  q <= best'[n]
    <3>1. CASE m \in 1..(at[n] - 1)
      <4>1. q <= best[n]
        BY <2>1, <2>5, <3>1 DEF Deepest
      <4> QED
        BY <1>7, <2>2, <4>1
    <3>2. CASE m = at[n]
      <4>1. q <= depth
        BY <1>11, <2>3, <2>5, <3>2
      <4> QED
        BY <1>7, <2>2, <4>1
    <3> QED
      BY <1>14, <3>1, <3>2
  <2>6. \E m \in 1..((at[n] + 1) - 1) : HasPath(L[m], best'[n])
    <3>1. CASE best'[n] = depth
      <4>1. at[n] \in 1..((at[n] + 1) - 1)
        BY <1>14
      <4> QED
        BY <1>11, <2>4, <3>1, <4>1
    <3>2. CASE best'[n] # depth
      <4>1. best'[n] = best[n] /\ best[n] # 0
        BY <1>6, <1>7, <3>2
      <4>2. PICK m \in 1..(at[n] - 1) : HasPath(L[m], best[n])
        BY <2>1, <4>1 DEF Deepest
      <4>3. m \in 1..((at[n] + 1) - 1)
        BY <1>14
      <4> QED
        BY <4>1, <4>2, <4>3
    <3> QED
      BY <3>1, <3>2
  <2> QED
    BY <2>5, <2>6 DEF Deepest
<1>17. ASSUME Acyclic, NEW k \in 1..Len(at')
       PROVE  Deepest(at'[k], Loop(k), best'[k])
  <2>1. CASE k = n
    BY <1>4, <1>16, <1>17, <2>1 DEF L
  <2>2. CASE k # n
    <3>1. k \in 1..(n - 1) /\ k \in 1..Len(at)
      BY <1>2, <1>4, <2>2
    <3> QED
      BY <1>4, <1>6, <1>9, <1>17, <3>1
  <2> QED
    BY <2>1, <2>2
<1>18. \A k \in 1..Len(at') : Acyclic => Deepest(at'[k], Loop(k)', best'[k])
  BY <1>4, <1>17
<1> QED
  BY <1>1, <1>8, <1>15, <1>18 DEF DepthInv, Deepest

LEMMA DepthStep ==
    ASSUME BaseInv, DepthInv, Call \/ Return
    PROVE  DepthInv'
<1>1. ASSUME search.kind # "depth", search' = search PROVE DepthInv'
  BY <1>1 DEF DepthInv
<1>2. CASE Call
  <2>1. CASE EnterBranch(Callee) \/ PassOver(Callee)
    BY <1>2, <2>1, DepthEnter, DepthPass
  <2>2. CASE Enter(Callee) \/ Find(Callee) \/ Report(Callee)
    BY <1>1, <2>2 DEF Enter, Find, Report, input
  <2> QED
    BY <1>2, <2>1, <2>2 DEF Call
<1>3. CASE Return
  <2>1. CASE ReturnDepth
    BY <1>3, <2>1, DepthReturn
  <2>2. CASE Leave \/ Output
    BY <1>1, <2>2 DEF Leave, Output, input
  <2> QED
    BY <1>3, <2>1, <2>2 DEF Return
<1> QED
  BY <1>2, <1>3

LEMMA LongestInv == BaseInv /\ DepthInv => DepthIsLongestPath
<1> SUFFICES ASSUME BaseInv, DepthInv, Ended("depth"), Acyclic
             PROVE  /\ \A t \in listed, n \in 0..Cardinality(Ids) : HasPath(t, n) => n <= best[1]
                    /\ best[1] > 0 => \E t \in listed : HasPath(t, best[1])
  BY DEF DepthIsLongestPath
<1>1. search.kind = "depth" /\ Done
  BY DEF Ended
<1>2. /\ at[1] = Len(roots) + 1 /\ Len(roots) \in Nat /\ Len(at) = 1
      /\ \A x : x \in listed <=> \E m \in 1..Len(roots) : roots[m] = x
  BY <1>1, EndedAll DEF Kinds
<1>3. Deepest(at[1], roots, best[1])
  BY <1>1, <1>2, DepthParts, RootsLoop, StackSize
<1>4. 1..(at[1] - 1) = 1..Len(roots)
  BY <1>2
<1>5. 0..Cardinality(Ids) \subseteq Nat
  BY SearchAssumption, FS_CardinalityType
<1>6. ASSUME NEW t \in listed, NEW n \in 0..Cardinality(Ids), HasPath(t, n)
      PROVE  n <= best[1]
  BY <1>2, <1>3, <1>4, <1>5, <1>6 DEF Deepest
<1>7. ASSUME best[1] > 0
      PROVE  \E t \in listed : HasPath(t, best[1])
  <2>1. best[1] # 0
    BY <1>7
  <2> QED
    BY <1>2, <1>3, <1>4, <2>1 DEF Deepest
<1> QED
  BY <1>6, <1>7

-----------------------------------------------------------------------------
(* The cycles.                                                             *)

LEMMA CyclesType ==
    ASSUME BaseInv
    PROVE  /\ cycles \in Seq(Seq(Ids))
           /\ \A c \in ToSet(cycles) : c \in Seq(Ids)
           /\ DOMAIN cycles = 1..Len(cycles) /\ Len(cycles) \in Nat
           /\ \A c : c \in ToSet(cycles) <=> \E i \in 1..Len(cycles) : cycles[i] = c
<1>1. cycles \in Seq(Seq(Ids))
  BY DEF BaseInv, TypeOK
<1>2. /\ DOMAIN cycles = 1..Len(cycles) /\ Len(cycles) \in Nat
      /\ \A c : c \in ToSet(cycles) <=> \E i \in 1..Len(cycles) : cycles[i] = c
  BY <1>1, SetOf
<1>3. \A i \in 1..Len(cycles) : cycles[i] \in Seq(Ids)
  BY <1>1
<1> QED
  BY <1>1, <1>2, <1>3

LEMMA CycleShape ==
    ASSUME BaseInv, CycleInv, NEW c \in ToSet(cycles)
    PROVE  /\ c \in Seq(Ids) /\ Len(c) \in Nat \ {0}
           /\ 1 \in 1..Len(c) /\ Len(c) \in 1..Len(c)
           /\ c[1] \in Ids /\ Last(c) = c[Len(c)] /\ Last(c) \in Ids
<1>1. c \in Seq(Ids) /\ c # <<>>
  BY CyclesType DEF CycleInv, IsCycle
<1>2. Len(c) \in Nat \ {0}
  BY <1>1, EmptySeq
<1> QED
  BY <1>1, <1>2 DEF Last

LEMMA NoCycles == cycles = <<>> => CycleInv /\ OnceInv
<1>1. cycles = <<>> => ToSet(cycles) = {} /\ 1..Len(cycles) = {}
  BY DEF ToSet
<1> QED
  BY <1>1 DEF CycleInv, OnceInv

LEMMA StartedCycles == Started => OrderInv /\ CycleInv /\ OnceInv
<1> SUFFICES ASSUME Started PROVE OrderInv /\ CycleInv /\ OnceInv
  OBVIOUS
<1>1. cycles = <<>> /\ Len(path) = 0 /\ entered = [x \in Ids |-> 0]
  BY DEF Started, Fresh
<1>2. ToSet(cycles) = {} /\ 1..Len(path) = {}
  BY <1>1 DEF ToSet
<1>3. \A x \in Ids : entered[x] <= Count
  BY <1>1, CountType
<1>4. OrderInv
  BY <1>2, <1>3 DEF OrderInv
<1> QED
  BY <1>1, <1>4, NoCycles

\* One more id has been entered.
LEMMA CountEnter ==
    ASSUME NEW x \in Ids, entered \in [Ids -> Nat], entered[x] = 0,
           NEW n \in Nat \ {0}, entered' = [entered EXCEPT ![x] = n]
    PROVE  Count' = Count + 1
<1> DEFINE E == {y \in Ids : entered[y] # 0}
           F == {y \in Ids : entered'[y] # 0}
<1>1. F = E \cup {x} /\ x \notin E
  OBVIOUS
<1>2. IsFiniteSet(E)
  BY SearchAssumption, FS_Subset
<1> HIDE DEF E, F
<1>3. Cardinality(F) = Cardinality(E) + 1
  BY <1>1, <1>2, FS_AddElement
<1> QED
  BY <1>3 DEF Count, E, F

LEMMA OrderEnter ==
    ASSUME BaseInv, OrderInv, Call, Enter(Callee)
    PROVE  OrderInv'
<1> SUFFICES ASSUME search'.kind = "cycles" PROVE OrderInv'
  BY DEF OrderInv
<1> DEFINE x == Callee
<1>1. /\ Shaped /\ Push(x) /\ UNCHANGED <<graph, input, cycles>> /\ x \in Ids
      /\ search.kind = "cycles" /\ cycles' = cycles /\ entered[x] = 0
  BY BaseShaped, CalleeFacts DEF Enter, Call, input
<1> DEFINE n == Count + 1
<1>2. n \in Nat \ {0} /\ Count \in Nat /\ n = Count + 1
  BY CountType
<1>3. entered \in [Ids -> Nat] /\ entered' = [entered EXCEPT ![x] = n]
  BY DEF Enter, BaseInv, TypeOK
<1>4. Len(path) \in Nat /\ \A k \in 1..Len(path) : path[k] \in Ids
  BY StackSize
<1>5. /\ \A k \in 1..Len(path) : path'[k] = path[k]
      /\ path'[Len(path) + 1] = x /\ Len(path') = Len(path) + 1
  BY <1>1, PushFacts
<1>6. /\ \A y \in Ids : entered[y] <= Count
      /\ \A i, j \in 1..Len(path) : i < j => entered[path[i]] < entered[path[j]]
      /\ \A c \in ToSet(cycles) : \A i, j \in 1..Len(c) :
            entered[c[i]] # 0 /\ (i < j => entered[c[i]] < entered[c[j]])
  BY <1>1 DEF OrderInv
<1>7. \A k \in 1..Len(path) : entered[path[k]] # 0
  BY <1>1 DEF BaseInv, StackInv, PathEntered
<1> HIDE DEF x, n
<1>8. Count' = n
  BY <1>1, <1>2, <1>3, CountEnter
<1>9. /\ \A y \in Ids : y # x => entered'[y] = entered[y]
      /\ entered'[x] = n
  BY <1>1, <1>3
<1>10. \A y \in Ids : entered'[y] <= n
  BY <1>2, <1>3, <1>6, <1>9
<1>11. ASSUME NEW i \in 1..Len(path'), NEW j \in 1..Len(path'), i < j
       PROVE  entered'[path'[i]] < entered'[path'[j]]
  <2>1. i \in 1..Len(path) /\ path'[i] = path[i] /\ path[i] \in Ids /\ path[i] # x
    BY <1>1, <1>4, <1>5, <1>7, <1>11
  <2>2. entered'[path'[i]] = entered[path[i]] /\ entered[path[i]] \in Nat
    BY <1>3, <1>9, <2>1
  <2>3. CASE j \in 1..Len(path)
    <3>1. path'[j] = path[j] /\ path[j] \in Ids /\ path[j] # x
      BY <1>1, <1>4, <1>5, <1>7, <2>3
    <3> QED
      BY <1>6, <1>9, <1>11, <2>1, <2>2, <2>3, <3>1
  <2>4. CASE j = Len(path) + 1
    <3>1. entered'[path'[j]] = n
      BY <1>5, <1>9, <2>4
    <3>2. entered[path[i]] <= Count
      BY <1>6, <2>1
    <3> QED
      BY <1>2, <2>2, <3>1, <3>2
  <2> QED
    BY <1>4, <1>5, <2>3, <2>4
<1>12. ASSUME NEW c \in ToSet(cycles), NEW i \in 1..Len(c), NEW j \in 1..Len(c)
       PROVE  entered'[c[i]] # 0 /\ (i < j => entered'[c[i]] < entered'[c[j]])
  <2>1. c \in Seq(Ids)
    BY CyclesType
  <2>2. c[i] \in Ids /\ c[j] \in Ids /\ c[i] # x /\ c[j] # x
    BY <1>1, <1>6, <2>1
  <2> QED
    BY <1>6, <1>9, <2>2
<1> QED
  BY <1>1, <1>8, <1>10, <1>11, <1>12 DEF OrderInv

LEMMA OnceEnter ==
    ASSUME BaseInv, CycleInv, OnceInv, Call, Enter(Callee)
    PROVE  OnceInv'
<1>1. /\ Shaped /\ Push(Callee) /\ UNCHANGED <<graph, input>> /\ cycles' = cycles
      /\ Callee \in Ids
  BY BaseShaped, CalleeFacts DEF Enter, Call
<1>2. \A y \in Ids : Black(y)' <=> Black(y)
  BY EnterBlack
<1>3. Len(path) \in Nat /\ Len(at) = Len(path) + 1
  BY StackSize
<1>4. /\ \A k \in 1..Len(at) : at'[k] = at[k] /\ Loop(k)' = Loop(k)
      /\ \A k \in 1..Len(path) : path'[k] = path[k]
      /\ Len(path') = Len(path) + 1
  BY <1>1, PushFacts
<1>5. \A a, b : Twice(a, b)' <=> Twice(a, b)
  BY <1>1, SameGraph DEF graph, input
<1>6. ASSUME NEW c \in ToSet(cycles)
      PROVE  \/ \A v : v = Last(c) => Black(v)'
             \/ \E k \in 1..Len(path') : \E m \in 1..(at'[k + 1] - 1) :
                   path'[k] = Last(c) /\ Loop(k + 1)'[m] = c[1]
  <2>1. CASE Black(Last(c))
    <3>1. Last(c) \in Ids
      BY CycleShape
    <3> QED
      BY <1>2, <2>1, <3>1
  <2>2. ASSUME NEW k \in 1..Len(path), NEW m \in 1..(at[k + 1] - 1),
               path[k] = Last(c), Loop(k + 1)[m] = c[1]
        PROVE  \E l \in 1..Len(path') : \E o \in 1..(at'[l + 1] - 1) :
                  path'[l] = Last(c) /\ Loop(l + 1)'[o] = c[1]
    <3>1. k + 1 \in 1..Len(at) /\ k \in 1..Len(path')
      BY <1>3, <1>4
    <3>2. at'[k + 1] = at[k + 1] /\ path'[k] = path[k] /\ \A l : l = k + 1 => Loop(l)' = Loop(l)
      BY <1>4, <3>1
    <3> QED
      BY <2>2, <3>1, <3>2
  <2> QED
    BY <2>1, <2>2 DEF OnceInv
<1> QED
  BY <1>1, <1>5, <1>6 DEF OnceInv

\* Passing on, and reporting, leave what the loops have passed.
LEMMA PassedOn ==
    ASSUME BaseInv, Advance, UNCHANGED <<graph, input, entered>>
    PROVE  /\ \A k \in 1..Len(path) : \A m \in 1..(at[k + 1] - 1) :
                 m \in 1..(at'[k + 1] - 1)
           /\ Len(at) \in Nat /\ Len(at) = Len(path) + 1
           /\ at[Len(at)] \in 1..(at'[Len(at)] - 1)
           /\ \A k : Loop(k)' = Loop(k)
           /\ path' = path
           /\ \A y : Black(y)' <=> Black(y)
<1>1. /\ Len(path) \in Nat /\ Len(at) = Len(path) + 1 /\ path' = path
      /\ \A k \in 1..Len(at) : at[k] \in Nat \ {0}
  BY StackSize DEF Advance
<1>2. /\ \A k \in 1..(Len(at) - 1) : at'[k] = at[k]
      /\ at'[Len(at)] = at[Len(at)] + 1 /\ \A k : Loop(k)' = Loop(k)
  BY BaseShaped, AdvanceFacts
<1>3. \A y : OnPath(y)' <=> OnPath(y)
  BY BaseShaped, AdvanceFacts
<1>4. \A y : Black(y)' <=> Black(y)
  BY <1>3 DEF Black
<1>5. ASSUME NEW k \in 1..Len(path), NEW m \in 1..(at[k + 1] - 1)
      PROVE  m \in 1..(at'[k + 1] - 1)
  <2>1. CASE k = Len(path)
    BY <1>1, <1>2, <2>1
  <2>2. CASE k # Len(path)
    BY <1>1, <1>2, <2>2
  <2> QED
    BY <2>1, <2>2
<1>6. at[Len(at)] \in 1..(at'[Len(at)] - 1)
  BY <1>1, <1>2
<1> QED
  BY <1>1, <1>2, <1>4, <1>5, <1>6

LEMMA OncePass ==
    ASSUME BaseInv, CycleInv, OnceInv, Advance, UNCHANGED <<graph, input, entered>>
    PROVE  \A c \in ToSet(cycles) :
              \/ \A v : v = Last(c) => Black(v)'
              \/ \E k \in 1..Len(path') : \E m \in 1..(at'[k + 1] - 1) :
                    path'[k] = Last(c) /\ Loop(k + 1)'[m] = c[1]
<1> SUFFICES ASSUME NEW c \in ToSet(cycles)
             PROVE  \/ \A v : v = Last(c) => Black(v)'
                    \/ \E k \in 1..Len(path') : \E m \in 1..(at'[k + 1] - 1) :
                          path'[k] = Last(c) /\ Loop(k + 1)'[m] = c[1]
  OBVIOUS
<1>1. \/ Black(Last(c))
      \/ \E k \in 1..Len(path) : \E m \in 1..(at[k + 1] - 1) :
            path[k] = Last(c) /\ Loop(k + 1)[m] = c[1]
  BY DEF OnceInv
<1>2. CASE Black(Last(c))
  BY <1>2, PassedOn
<1>3. ASSUME NEW k \in 1..Len(path), NEW m \in 1..(at[k + 1] - 1),
             path[k] = Last(c), Loop(k + 1)[m] = c[1]
      PROVE  \E l \in 1..Len(path') : \E o \in 1..(at'[l + 1] - 1) :
                path'[l] = Last(c) /\ Loop(l + 1)'[o] = c[1]
  <2>1. k \in 1..Len(path') /\ m \in 1..(at'[k + 1] - 1) /\ path'[k] = path[k]
    BY PassedOn
  <2>2. \A l : Loop(l)' = Loop(l)
    BY PassedOn
  <2>3. Loop(k + 1)'[m] = c[1]
    BY <1>3, <2>2
  <2> QED
    BY <1>3, <2>1, <2>3
<1> QED
  BY <1>1, <1>2, <1>3

LEMMA CyclesPass ==
    ASSUME BaseInv, OrderInv, CycleInv, OnceInv, Call, PassOver(Callee)
    PROVE  OrderInv' /\ CycleInv' /\ OnceInv'
<1>1. /\ Advance /\ UNCHANGED <<graph, input, entered>> /\ cycles' = cycles
      /\ path' = path /\ entered' = entered /\ search' = search
  BY DEF PassOver, Advance, input
<1>2. /\ \A a : Reach(a)' = Reach(a)
      /\ \A c : IsCycle(c)' <=> IsCycle(c)
      /\ \A a, b : Twice(a, b)' <=> Twice(a, b)
  BY <1>1, SameGraph DEF graph, input
<1>3. Count' = Count
  BY <1>1 DEF Count
<1>4. OrderInv'
  BY <1>1, <1>3 DEF OrderInv
<1>5. CycleInv'
  BY <1>1, <1>2 DEF CycleInv
<1>6. OnceInv'
  BY <1>1, <1>2, OncePass DEF OnceInv
<1> QED
  BY <1>4, <1>5, <1>6

\* The path from an id on it to the innermost call, which has called it.
LEMMA ReportedCycle ==
    ASSUME BaseInv, More, path # <<>>, NEW i \in 1..Len(path), path[i] = Callee,
           NEW c \in Seq(Ids), Len(c) = Len(path) - i + 1, Len(c) \in Nat \ {0},
           \A k \in 1..Len(c) : i + k - 1 \in i..Len(path) /\ c[k] = path[i + k - 1],
           c[1] = Callee, Last(c) = path[Len(path)]
    PROVE  /\ IsCycle(c)
           /\ \A k, l \in 1..Len(c) : c[l] \in Reach(c[k])
<1> DEFINE n == Len(path)
<1>1. /\ n \in Nat /\ Len(at) = n + 1 /\ \A k \in 1..n : path[k] \in Ids
      /\ i \in 1..n /\ path \in Seq(Ids)
  BY StackSize
<1>2. /\ Edge(path[n], Callee) /\ Callee \in Ids
      /\ \A k \in 1..n : Callee \in Reach(path[k])
  <2>1. OnPath(Callee)
    BY <1>1, OnPathIndex
  <2> QED
    BY <2>1, CalleeFacts, OnPathCycle
<1>3. \A k, l \in 1..n : k < l => path[l] \in Reach(path[k])
  BY DEF BaseInv, StackInv, PathReaches
<1>4. \A k, l \in 1..n : path[k] = path[l] => k = l
  BY DEF BaseInv, StackInv, CalledOnce
<1>5. ASSUME NEW k \in 1..(n - 1) PROVE Edge(path[k], path[k + 1])
  <2>1. k \in 1..n /\ k + 1 \in 1..n /\ k + 1 # 1 /\ (k + 1) - 1 = k /\ k + 1 \in 1..Len(at)
    BY <1>1
  <2>2. Loop(k + 1) = DepsOf(path[k])
    BY <2>1 DEF Loop
  <2>3. at[k + 1] <= Len(Loop(k + 1)) /\ path[k + 1] = Loop(k + 1)[at[k + 1]]
    BY <2>1 DEF BaseInv, StackInv, CallsMade
  <2>4. at[k + 1] \in Nat \ {0}
    BY <2>1, StackSize
  <2>5. Len(DepsOf(path[k])) \in Nat
    BY <1>1, <2>1, BaseShaped, LoopType
  <2>6. at[k + 1] \in 1..Len(DepsOf(path[k]))
    BY <2>2, <2>3, <2>4, <2>5
  <2> QED
    BY <1>1, <2>1, <2>2, <2>3, <2>6, EdgeIndex, BaseShaped
<1> HIDE DEF n
<1>6. Len(c) = n - i + 1 /\ \A k \in 1..Len(c) : i + k - 1 \in 1..n /\ c[k] = path[i + k - 1]
  <2>1. Len(c) = n - i + 1 /\ \A k \in 1..Len(c) : i + k - 1 \in i..n /\ c[k] = path[i + k - 1]
    BY DEF n
  <2> QED
    BY <1>1, <2>1
<1>7. Last(c) = path[n] /\ c[Len(c)] = path[n]
  BY DEF n, Last
<1>8. IsInjective(c)
  <2>1. ASSUME NEW k \in 1..Len(c), NEW l \in 1..Len(c), c[k] = c[l] PROVE k = l
    <3>1. i + k - 1 = i + l - 1
      BY <1>4, <1>6, <2>1
    <3> QED
      BY <1>1, <3>1
  <2>2. DOMAIN c = 1..Len(c)
    BY SetOf
  <2> QED
    BY <2>1, <2>2 DEF IsInjective
<1>9. ASSUME NEW k \in 1..Len(c) PROVE Edge(c[k], IF k = Len(c) THEN c[1] ELSE c[k + 1])
  <2>1. CASE k = Len(c)
    BY <1>2, <1>7, <2>1
  <2>2. CASE k # Len(c)
    <3>1. k + 1 \in 1..Len(c) /\ i + k - 1 \in 1..(n - 1) /\ i + (k + 1) - 1 = (i + k - 1) + 1
      <4> DEFINE q == Len(c)
      <4>1. n \in Nat /\ i \in 1..n /\ q = n - i + 1
        BY <1>1, <1>6
      <4>2. q \in Nat \ {0} /\ k \in 1..q /\ k # q
        BY <2>2
      <4> HIDE DEF q
      <4>3. k + 1 \in 1..q /\ i + k - 1 \in 1..(n - 1) /\ i + (k + 1) - 1 = (i + k - 1) + 1
        BY <4>1, <4>2
      <4> QED
        BY <4>3 DEF q
    <3>2. Edge(path[i + k - 1], path[(i + k - 1) + 1])
      BY <1>5, <3>1
    <3>3. c[k] = path[i + k - 1] /\ c[k + 1] = path[(i + k - 1) + 1]
      BY <1>6, <3>1
    <3> QED
      BY <2>2, <3>2, <3>3
  <2> QED
    BY <2>1, <2>2
<1>10. IsCycle(c)
  <2>1. DOMAIN c = 1..Len(c) /\ c # <<>>
    BY SetOf, EmptySeq
  <2> QED
    BY <1>8, <1>9, <2>1 DEF IsCycle
<1>11. ASSUME NEW k \in 1..Len(c), NEW l \in 1..Len(c) PROVE c[l] \in Reach(c[k])
  <2>1. /\ i + k - 1 \in 1..n /\ c[k] = path[i + k - 1] /\ c[k] \in Ids
        /\ i + l - 1 \in 1..n /\ c[l] = path[i + l - 1]
    BY <1>1, <1>6
  <2>2. Callee \in Reach(c[k])
    BY <1>2, <2>1
  <2>3. CASE l = 1
    BY <2>2, <2>3
  <2>4. CASE l # 1
    <3>1. i < i + l - 1
      BY <1>1, <2>4
    <3>2. c[l] \in Reach(Callee)
      BY <1>1, <1>3, <2>1, <3>1
    <3> QED
      BY <2>1, <2>2, <3>2, ReachTrans
  <2> QED
    BY <2>3, <2>4
<1> QED
  BY <1>10, <1>11

LEMMA CyclesReport ==
    ASSUME BaseInv, OrderInv, CycleInv, OnceInv, Call, Report(Callee)
    PROVE  OrderInv' /\ CycleInv' /\ OnceInv'
<1> DEFINE n == Len(path)
           x == Callee
<1>1. /\ Advance /\ UNCHANGED <<graph, input, entered>> /\ More /\ OnPath(x)
      /\ path' = path /\ entered' = entered /\ search' = search
      /\ search.kind = "cycles"
  BY DEF Report, Advance, input, Call
<1>2. path # <<>> /\ x \in Ids
  BY <1>1, OnPathCycle, CalleeFacts
<1>3. PICK i \in 1..n :
         LET c == SubSeq(path, i, n)
         IN  /\ path[i] = x /\ cycles' = Append(cycles, c)
             /\ c \in Seq(Ids) /\ Len(c) = n - i + 1 /\ Len(c) \in Nat \ {0}
             /\ \A k \in 1..Len(c) : i + k - 1 \in i..n /\ c[k] = path[i + k - 1]
             /\ c[1] = x /\ Last(c) = path[n]
  BY <1>2, ReportFacts
<1> DEFINE c == SubSeq(path, i, n)
<1>4. /\ path[i] = x /\ cycles' = Append(cycles, c)
      /\ c \in Seq(Ids) /\ Len(c) = n - i + 1 /\ Len(c) \in Nat \ {0}
      /\ \A k \in 1..Len(c) : i + k - 1 \in i..n /\ c[k] = path[i + k - 1]
      /\ c[1] = x /\ Last(c) = path[n]
  BY <1>3
<1> HIDE DEF c
<1>5. IsCycle(c) /\ \A k, l \in 1..Len(c) : c[l] \in Reach(c[k])
  BY <1>1, <1>2, <1>4, ReportedCycle
<1>6. /\ \A a : Reach(a)' = Reach(a)
      /\ \A d : IsCycle(d)' <=> IsCycle(d)
      /\ \A a, b : Twice(a, b)' <=> Twice(a, b)
  BY <1>1, SameGraph DEF graph, input
<1>7. /\ Len(cycles) \in Nat /\ Len(cycles') = Len(cycles) + 1
      /\ \A k \in 1..Len(cycles) : cycles'[k] = cycles[k]
      /\ cycles'[Len(cycles) + 1] = c
      /\ \A d : d \in ToSet(cycles') <=> d \in ToSet(cycles) \/ d = c
  BY <1>4, CyclesType, Appended
<1>8. /\ n \in Nat /\ n # 0 /\ Len(at) = n + 1 /\ \A k \in 1..n : path[k] \in Ids
  BY <1>2, StackSize, EmptySeq
<1>9. /\ \A k, l \in 1..n : path[k] = path[l] => k = l
      /\ \A k \in 1..n : entered[path[k]] # 0
  BY <1>1 DEF BaseInv, StackInv, CalledOnce, PathEntered
<1>10. x = Loop(n + 1)[at[n + 1]] /\ Loop(n + 1) = DepsOf(path[n])
       /\ at[n + 1] \in 1..Len(Loop(n + 1))
  BY <1>1, <1>8, CalleeFacts DEF Loop
<1>11. /\ at[n + 1] \in 1..(at'[n + 1] - 1)
       /\ \A k : Loop(k)' = Loop(k)
  BY <1>1, <1>8, PassedOn
<1>12. OrderInv'
  <2>1. Count' = Count
    BY <1>1 DEF Count
  <2>2. ASSUME NEW k \in 1..Len(c), NEW l \in 1..Len(c)
        PROVE  entered[c[k]] # 0 /\ (k < l => entered[c[k]] < entered[c[l]])
    <3>1. /\ i + k - 1 \in 1..n /\ c[k] = path[i + k - 1]
          /\ i + l - 1 \in 1..n /\ c[l] = path[i + l - 1]
          /\ k < l => i + k - 1 < i + l - 1
      <4>1. /\ i + k - 1 \in i..n /\ c[k] = path[i + k - 1]
            /\ i + l - 1 \in i..n /\ c[l] = path[i + l - 1]
        BY <1>4
      <4>2. k \in Nat /\ l \in Nat
        BY <1>4
      <4> HIDE DEF n
      <4> QED
        BY <1>8, <4>1, <4>2
    <3>2. \A p, q \in 1..n : p < q => entered[path[p]] < entered[path[q]]
      BY <1>1 DEF OrderInv
    <3> QED
      BY <1>9, <3>1, <3>2
  <2>3. /\ \A y \in Ids : entered[y] <= Count
        /\ \A k, l \in 1..n : k < l => entered[path[k]] < entered[path[l]]
        /\ \A d \in ToSet(cycles) : \A k, l \in 1..Len(d) :
              entered[d[k]] # 0 /\ (k < l => entered[d[k]] < entered[d[l]])
    BY <1>1 DEF OrderInv
  <2>4. \A d \in ToSet(cycles') : \A k, l \in 1..Len(d) :
           entered[d[k]] # 0 /\ (k < l => entered[d[k]] < entered[d[l]])
    BY <1>7, <2>2, <2>3
  <2> QED
    BY <1>1, <2>1, <2>3, <2>4 DEF OrderInv
<1>13. CycleInv'
  <2>1. \A d \in ToSet(cycles) : IsCycle(d) /\ \A k, l \in 1..Len(d) : d[l] \in Reach(d[k])
    BY DEF CycleInv
  <2>2. \A d \in ToSet(cycles') : IsCycle(d) /\ \A k, l \in 1..Len(d) : d[l] \in Reach(d[k])
    BY <1>5, <1>7, <2>1
  <2> QED
    BY <1>6, <2>2 DEF CycleInv
<1>14. ASSUME NEW d \in ToSet(cycles')
       PROVE  \/ \A v : v = Last(d) => Black(v)'
              \/ \E k \in 1..Len(path') : \E m \in 1..(at'[k + 1] - 1) :
                    path'[k] = Last(d) /\ Loop(k + 1)'[m] = d[1]
  <2>1. CASE d \in ToSet(cycles)
    BY <1>1, <2>1, OncePass
  <2>2. CASE d = c
    <3>1. n \in 1..Len(path') /\ path'[n] = Last(d)
      BY <1>1, <1>4, <1>8, <2>2
    <3>2. \A k : k = n + 1 => Loop(k)'[at[n + 1]] = d[1]
      BY <1>4, <1>10, <1>11, <2>2
    <3>3. \E m \in 1..(at'[n + 1] - 1) : path'[n] = Last(d) /\ \A k : k = n + 1 => Loop(k)'[m] = d[1]
      BY <1>11, <3>1, <3>2
    <3> QED
      BY <3>1, <3>3
  <2> QED
    BY <1>7, <2>1, <2>2
<1>15. ASSUME NEW k \in 1..Len(cycles), Last(cycles[k]) = path[n], cycles[k][1] = x
       PROVE  Twice(path[n], x)
  <2>1. cycles[k] \in ToSet(cycles)
    BY CyclesType
  <2>2. ~Black(path[n])
    BY <1>8, StackSize, OnPathIndex DEF Black
  <2>3. PICK p \in 1..n : \E m \in 1..(at[p + 1] - 1) :
           path[p] = path[n] /\ Loop(p + 1)[m] = x
    BY <1>15, <2>1, <2>2 DEF OnceInv
  <2>4. p = n
    BY <1>8, <1>9, <2>3
  <2>5. PICK m \in 1..(at[n + 1] - 1) : Loop(n + 1)[m] = x
    BY <2>3, <2>4
  <2>6. m \in 1..Len(Loop(n + 1)) /\ m # at[n + 1]
    <3>1. n + 1 \in 1..Len(at)
      BY <1>8
    <3>2. at[n + 1] \in Nat \ {0}
      BY <3>1, StackSize
    <3>3. m \in 1..Len(Loop(n + 1))
      BY <3>1, PassedIds
    <3>4. m # at[n + 1]
      BY <3>2
    <3> QED
      BY <3>3, <3>4
  <2>7. DepsOf(path[n]) \in Seq(Ids)
    BY <1>8, BaseShaped, LoopType
  <2>8. DOMAIN DepsOf(path[n]) = 1..Len(DepsOf(path[n]))
    BY <2>7, SetOf
  <2> QED
    BY <1>10, <2>5, <2>6, <2>8 DEF Twice
<1>16. ASSUME NEW k \in 1..Len(cycles'), NEW l \in 1..Len(cycles'), k # l,
              Last(cycles'[k]) = Last(cycles'[l]), cycles'[k][1] = cycles'[l][1]
       PROVE  Twice(Last(cycles'[k]), cycles'[k][1])
  <2>1. (k \in 1..Len(cycles) /\ cycles'[k] = cycles[k]) \/ (k = Len(cycles) + 1 /\ cycles'[k] = c)
    BY <1>7
  <2>2. (l \in 1..Len(cycles) /\ cycles'[l] = cycles[l]) \/ (l = Len(cycles) + 1 /\ cycles'[l] = c)
    BY <1>7
  <2>3. CASE k \in 1..Len(cycles) /\ l \in 1..Len(cycles)
    BY <1>7, <1>16, <2>3 DEF OnceInv
  <2>4. CASE k \in 1..Len(cycles) /\ cycles'[k] = cycles[k] /\ cycles'[l] = c
    BY <1>4, <1>15, <1>16, <2>4
  <2>5. CASE l \in 1..Len(cycles) /\ cycles'[l] = cycles[l] /\ cycles'[k] = c
    BY <1>4, <1>15, <1>16, <2>5
  <2> QED
    BY <1>16, <2>1, <2>2, <2>3, <2>4, <2>5
<1>17. OnceInv'
  BY <1>6, <1>14, <1>16 DEF OnceInv
<1> QED
  BY <1>12, <1>13, <1>17

LEMMA CyclesLeave ==
    ASSUME BaseInv, OrderInv, CycleInv, OnceInv, Return, Leave
    PROVE  OrderInv' /\ CycleInv' /\ OnceInv'
<1> DEFINE n == Len(path)
           v == Last(path)
<1>1. /\ Shaped /\ Pop /\ UNCHANGED <<graph, input, entered>> /\ path # <<>>
      /\ cycles' = cycles /\ entered' = entered /\ search' = search
      /\ search.kind # "depth"
  BY BaseShaped DEF Return, Leave, input
<1>2. /\ \A a : Reach(a)' = Reach(a)
      /\ \A c : IsCycle(c)' <=> IsCycle(c)
      /\ \A a, b : Twice(a, b)' <=> Twice(a, b)
  BY <1>1, SameGraph DEF graph, input
<1>3. /\ n \in Nat \ {0} /\ Len(at) = n + 1 /\ Len(path') = n - 1
      /\ \A k \in 1..(n - 1) : path'[k] = path[k] /\ at'[k] = at[k]
      /\ at'[n] = at[n] + 1
      /\ \A k \in 1..n : Loop(k)' = Loop(k)
      /\ v = path[n]
      /\ \A k \in 1..Len(at) : at[k] \in Nat \ {0}
  BY <1>1, PopFacts, StackSize
<1>4. \A y \in Ids : Black(y)' <=> Black(y) \/ y = v
  BY <1>1, PopBlack
<1> HIDE DEF n, v
<1>5. OrderInv'
  <2>1. Count' = Count
    BY <1>1 DEF Count
  <2>2. ASSUME search.kind = "cycles", NEW i \in 1..Len(path'), NEW j \in 1..Len(path'), i < j
        PROVE  entered[path'[i]] < entered[path'[j]]
    <3>1. /\ i \in 1..Len(path) /\ path'[i] = path[i]
          /\ j \in 1..Len(path) /\ path'[j] = path[j]
      <4>1. i \in 1..(n - 1) /\ j \in 1..(n - 1) /\ i \in 1..n /\ j \in 1..n
        BY <1>3
      <4> QED
        BY <1>3, <4>1 DEF n
    <3> QED
      BY <2>2, <3>1 DEF OrderInv
  <2> QED
    BY <1>1, <2>1, <2>2 DEF OrderInv
<1>6. CycleInv'
  BY <1>1, <1>2 DEF CycleInv
<1>7. ASSUME NEW c \in ToSet(cycles)
      PROVE  \/ \A y : y = Last(c) => Black(y)'
             \/ \E k \in 1..Len(path') : \E m \in 1..(at'[k + 1] - 1) :
                   path'[k] = Last(c) /\ Loop(k + 1)'[m] = c[1]
  <2>1. Last(c) \in Ids
    BY CycleShape
  <2>2. CASE Black(Last(c)) \/ Last(c) = v
    BY <1>4, <2>1, <2>2
  <2>3. ASSUME NEW k \in 1..n, NEW m \in 1..(at[k + 1] - 1), k # n,
               path[k] = Last(c), Loop(k + 1)[m] = c[1]
        PROVE  \E l \in 1..Len(path') : \E o \in 1..(at'[l + 1] - 1) :
                  path'[l] = Last(c) /\ Loop(l + 1)'[o] = c[1]
    <3>1. k \in 1..(n - 1) /\ k + 1 \in 1..n /\ k + 1 \in 1..Len(at)
      BY <1>3, <2>3
    <3>2. m \in 1..(at'[k + 1] - 1)
      <4>1. at'[k + 1] = at[k + 1] \/ at'[k + 1] = at[k + 1] + 1
        <5>1. CASE k + 1 = n
          BY <1>3, <5>1
        <5>2. CASE k + 1 # n
          BY <1>3, <3>1, <5>2
        <5> QED
          BY <5>1, <5>2
      <4>2. at[k + 1] \in Nat \ {0}
        BY <1>3, <3>1
      <4> QED
        BY <4>1, <4>2
    <3>3. k \in 1..Len(path') /\ path'[k] = Last(c)
      BY <1>3, <2>3, <3>1
    <3>4. \A l : l = k + 1 => Loop(l)' = Loop(l)
      BY <1>3, <3>1
    <3>5. \E o \in 1..(at'[k + 1] - 1) : path'[k] = Last(c) /\ \A l : l = k + 1 => Loop(l)'[o] = c[1]
      BY <2>3, <3>2, <3>3, <3>4
    <3> QED
      BY <3>3, <3>5
  <2>4. \/ Black(Last(c))
        \/ \E k \in 1..n : \E m \in 1..(at[k + 1] - 1) :
              path[k] = Last(c) /\ Loop(k + 1)[m] = c[1]
    BY DEF OnceInv, n
  <2> QED
    BY <1>3, <2>2, <2>3, <2>4
<1>8. OnceInv'
  BY <1>1, <1>2, <1>7 DEF OnceInv
<1> QED
  BY <1>5, <1>6, <1>8

LEMMA CyclesStep ==
    ASSUME BaseInv, OrderInv, CycleInv, OnceInv, Call \/ Return
    PROVE  OrderInv' /\ CycleInv' /\ OnceInv'
<1>1. ASSUME search.kind # "cycles", search' = search, cycles' = cycles
      PROVE  OrderInv' /\ CycleInv' /\ OnceInv'
  <2>1. cycles' = <<>>
    BY <1>1 DEF BaseInv, InputInv
  <2>2. ToSet(cycles') = {} /\ 1..Len(cycles') = {}
    BY <2>1 DEF ToSet
  <2>3. CycleInv' /\ OnceInv'
    BY <2>2 DEF CycleInv, OnceInv
  <2> QED
    BY <1>1, <2>3 DEF OrderInv
<1>2. CASE Call
  <2>1. CASE Enter(Callee)
    <3>1. UNCHANGED <<graph, input, cycles>>
      BY <2>1 DEF Enter
    <3>2. CycleInv'
      BY <3>1, SameGraph DEF CycleInv, graph, input
    <3> QED
      BY <1>2, <2>1, <3>2, OrderEnter, OnceEnter
  <2>2. CASE PassOver(Callee) \/ Report(Callee)
    BY <1>2, <2>2, CyclesPass, CyclesReport
  <2>3. CASE EnterBranch(Callee) \/ Find(Callee)
    BY <1>1, <2>3 DEF EnterBranch, Find, input
  <2> QED
    BY <1>2, <2>1, <2>2, <2>3 DEF Call
<1>3. CASE Return
  <2>1. CASE Leave
    BY <1>3, <2>1, CyclesLeave
  <2>2. CASE Output \/ ReturnDepth
    BY <1>1, <2>2 DEF Output, ReturnDepth, input
  <2> QED
    BY <1>3, <2>1, <2>2 DEF Return
<1> QED
  BY <1>2, <1>3

\* The first of two cycles of the same tasks is the first of both, and the last.
LEMMA SameEnds ==
    ASSUME BaseInv, OrderInv, CycleInv, search.kind = "cycles",
           NEW c \in ToSet(cycles), NEW d \in ToSet(cycles), ToSet(c) = ToSet(d)
    PROVE  c[1] = d[1] /\ Last(c) = Last(d)
<1>1. /\ \A i, j \in 1..Len(c) : i < j => entered[c[i]] < entered[c[j]]
      /\ \A i, j \in 1..Len(d) : i < j => entered[d[i]] < entered[d[j]]
  BY DEF OrderInv
<1>2. /\ c \in Seq(Ids) /\ Len(c) \in Nat \ {0} /\ 1 \in 1..Len(c) /\ Len(c) \in 1..Len(c)
      /\ d \in Seq(Ids) /\ Len(d) \in Nat \ {0} /\ 1 \in 1..Len(d) /\ Len(d) \in 1..Len(d)
      /\ Last(c) = c[Len(c)] /\ Last(d) = d[Len(d)]
  BY CycleShape
<1>3. /\ \A y : y \in ToSet(c) <=> \E i \in 1..Len(c) : c[i] = y
      /\ \A y : y \in ToSet(c) <=> \E i \in 1..Len(d) : d[i] = y
  BY <1>2, SetOf
<1>4. \A y \in Ids : entered[y] \in Nat
  BY DEF BaseInv, TypeOK
<1>5. (\A i \in 1..Len(c) : c[i] \in Ids) /\ \A i \in 1..Len(d) : d[i] \in Ids
  BY <1>2
<1>6. c[1] = d[1]
  <2>1. PICK i \in 1..Len(c) : c[i] = d[1]
    BY <1>2, <1>3
  <2>2. PICK j \in 1..Len(d) : d[j] = c[1]
    BY <1>2, <1>3
  <2>3. i = 1 \/ entered[c[1]] < entered[d[1]]
    <3>1. i = 1 \/ 1 < i
      BY <1>2
    <3> QED
      BY <1>1, <1>2, <2>1, <3>1
  <2>4. j = 1 \/ entered[d[1]] < entered[c[1]]
    <3>1. j = 1 \/ 1 < j
      BY <1>2
    <3> QED
      BY <1>1, <1>2, <2>2, <3>1
  <2>5. entered[c[1]] \in Nat /\ entered[d[1]] \in Nat
    BY <1>2, <1>4, <1>5
  <2> QED
    BY <2>1, <2>2, <2>3, <2>4, <2>5
<1>7. c[Len(c)] = d[Len(d)]
  <2>1. PICK i \in 1..Len(c) : c[i] = d[Len(d)]
    BY <1>2, <1>3
  <2>2. PICK j \in 1..Len(d) : d[j] = c[Len(c)]
    BY <1>2, <1>3
  <2>3. i = Len(c) \/ entered[d[Len(d)]] < entered[c[Len(c)]]
    <3>1. i = Len(c) \/ i < Len(c)
      BY <1>2
    <3> QED
      BY <1>1, <1>2, <2>1, <3>1
  <2>4. j = Len(d) \/ entered[c[Len(c)]] < entered[d[Len(d)]]
    <3>1. j = Len(d) \/ j < Len(d)
      BY <1>2
    <3> QED
      BY <1>1, <1>2, <2>2, <3>1
  <2>5. entered[c[Len(c)]] \in Nat /\ entered[d[Len(d)]] \in Nat
    BY <1>2, <1>4, <1>5
  <2> QED
    BY <2>1, <2>2, <2>3, <2>4, <2>5
<1> QED
  BY <1>2, <1>6, <1>7

LEMMA CyclesInv ==
    BaseInv /\ VisitInv /\ OrderInv /\ CycleInv /\ OnceInv => ReportedCyclesAreCycles
<1> SUFFICES ASSUME BaseInv, VisitInv, OrderInv, CycleInv, OnceInv, Ended("cycles")
             PROVE  /\ \A i \in DOMAIN cycles : IsCycle(cycles[i])
                    /\ \A i, j \in DOMAIN cycles : i # j /\ ToSet(cycles[i]) = ToSet(cycles[j])
                           => Twice(Last(cycles[i]), cycles[i][1])
                    /\ \A t \in listed : OnCycle(t) =>
                           \E i \in DOMAIN cycles : \A u \in ToSet(cycles[i]) :
                               u \in Reach(t) /\ t \in Reach(u)
  BY DEF ReportedCyclesAreCycles
<1>1. search.kind = "cycles" /\ Done /\ Visiting
  BY DEF Ended, Visiting
<1>2. /\ path = <<>> /\ ~More /\ roots \in Seq(Ids) /\ listed = ToSet(roots)
  BY <1>1, EndedAll DEF Kinds, BaseInv, InputInv
<1>3. DOMAIN cycles = 1..Len(cycles) /\ \A i \in 1..Len(cycles) : cycles[i] \in ToSet(cycles)
  BY CyclesType
<1>4. \A i \in 1..Len(cycles) : IsCycle(cycles[i])
  BY <1>3 DEF CycleInv
<1>5. ASSUME NEW i \in 1..Len(cycles), NEW j \in 1..Len(cycles), i # j,
             ToSet(cycles[i]) = ToSet(cycles[j])
      PROVE  Twice(Last(cycles[i]), cycles[i][1])
  <2>1. cycles[i][1] = cycles[j][1] /\ Last(cycles[i]) = Last(cycles[j])
    BY <1>1, <1>3, <1>5, SameEnds
  <2> QED
    BY <1>5, <2>1 DEF OnceInv
<1>6. \A x, y \in Ids : ~Back(x, y) \/ Black(y)
  <2> SUFFICES ASSUME NEW x \in Ids, NEW y \in Ids, Back(x, y) PROVE Black(y)
    OBVIOUS
  <2>1. PICK i \in 1..Len(cycles) : cycles[i][1] = y
    BY <1>3 DEF Back
  <2>2. 1 \in 1..Len(cycles[i])
    BY <1>3, CycleShape
  <2>3. entered[y] # 0
    BY <1>1, <1>3, <2>1, <2>2 DEF OrderInv
  <2> QED
    BY <1>2, <2>3 DEF Black, OnPath, ToSet
<1>7. ASSUME NEW t \in listed, OnCycle(t)
      PROVE  \E i \in 1..Len(cycles) : \A u \in ToSet(cycles[i]) : u \in Reach(t) /\ t \in Reach(u)
  <2>1. t \in Ids /\ Black(t) /\ \A e \in Reach(t) : e \in Ids /\ Black(e)
    BY <1>1, <1>2, <1>6, ReachedBlack
  <2>2. t \in Around(t) /\ \A x \in Around(t) : \E y \in Around(t) : Edge(x, y)
    BY <1>7, <2>1, AroundCycle
  <2>3. Around(t) \in SUBSET Ids /\ \A x \in Around(t) : Black(x)
    BY <2>1 DEF Around
  <2>4. PICK s \in Around(t) : \A y \in Around(t) : Edge(s, y) => Back(s, y)
    BY <1>1, <2>2, <2>3 DEF VisitInv
  <2>5. PICK i \in 1..Len(cycles) : Last(cycles[i]) = s
    BY <1>3, <2>2, <2>4 DEF Back
  <2> DEFINE c == cycles[i]
  <2>6. c \in ToSet(cycles) /\ Last(c) = s
    BY <1>3, <2>5
  <2> HIDE DEF c
  <2>7. ASSUME NEW u \in ToSet(c) PROVE u \in Reach(t) /\ t \in Reach(u)
    <3>1. c \in Seq(Ids) /\ Len(c) \in 1..Len(c) /\ c[Len(c)] = s
      BY <2>6, CycleShape
    <3>2. PICK k \in 1..Len(c) : c[k] = u
      BY <3>1, SetOf
    <3>3. u \in Reach(s) /\ s \in Reach(u) /\ u \in Ids
      BY <2>6, <3>1, <3>2 DEF CycleInv
    <3>4. s \in Ids /\ s \in Reach(t) /\ t \in Reach(s)
      BY DEF Around
    <3> QED
      BY <2>1, <3>3, <3>4, ReachTrans
  <2> QED
    BY <2>7 DEF c
<1> QED
  BY <1>3, <1>4, <1>5, <1>7

-----------------------------------------------------------------------------
(* The theorems.                                                           *)

\* What every state of every search satisfies.
SearchInv ==
    /\ BaseInv
    /\ VisitInv /\ FoundInv
    /\ ResultInv /\ SortInv
    /\ DepthInv
    /\ OrderInv /\ CycleInv /\ OnceInv

LEMMA StartedSearch == Started => SearchInv
BY StartedBase, StartedVisit, StartedSort, StartedDepth, StartedCycles DEF SearchInv

LEMMA SearchStep == SearchInv /\ (Call \/ Return) => SearchInv'
<1> SUFFICES ASSUME SearchInv, Call \/ Return PROVE SearchInv'
  OBVIOUS
<1>1. BaseInv'
  BY BaseCall, BaseReturn DEF SearchInv
<1>2. VisitInv' /\ FoundInv'
  BY VisitStep DEF SearchInv
<1>3. ResultInv' /\ SortInv'
  BY ResultStep DEF SearchInv
<1>4. DepthInv'
  BY DepthStep DEF SearchInv
<1>5. OrderInv' /\ CycleInv' /\ OnceInv'
  BY CyclesStep DEF SearchInv
<1> QED
  BY <1>1, <1>2, <1>3, <1>4, <1>5 DEF SearchInv

LEMMA SearchIdle == SearchInv /\ UNCHANGED vars => SearchInv'
<1> SUFFICES ASSUME SearchInv, UNCHANGED vars PROVE SearchInv'
  OBVIOUS
<1>1. UNCHANGED <<stored, deleted, deps, priority, search, listed, roots, path, at,
                  entered, found, cycles, result, best>>
  BY DEF vars, graph, input, stack
<1>2. /\ \A a, b : Edge(a, b)' <=> Edge(a, b)
      /\ \A a : Reach(a)' = Reach(a)
      /\ \A a : OnCycle(a)' <=> OnCycle(a)
      /\ Acyclic' <=> Acyclic
      /\ \A a, n : HasPath(a, n)' <=> HasPath(a, n)
      /\ \A a : Leaf(a)' <=> Leaf(a)
      /\ \A a, b : Twice(a, b)' <=> Twice(a, b)
      /\ \A c : IsCycle(c)' <=> IsCycle(c)
  BY <1>1, SameGraph
<1>3. /\ \A k : Loop(k)' = Loop(k)
      /\ \A x : Black(x)' <=> Black(x)
      /\ \A x, y : Back(x, y)' <=> Back(x, y)
      /\ Count' = Count
  BY <1>1 DEF Loop, DepsOf, Black, OnPath, Back, Count
<1>4. TypeOK' /\ InputInv' /\ BestInv'
  BY <1>1 DEF SearchInv, BaseInv, TypeOK, InputInv, BestInv
<1>5. StackInv'
  BY <1>1, <1>2, <1>3
  DEF SearchInv, BaseInv, StackInv, CallsMade, CalledOnce, PathReaches, PathEntered
<1>6. VisitInv'
  BY <1>1, <1>2, <1>3 DEF SearchInv, VisitInv, Visiting
<1>7. FoundInv'
  BY <1>1, <1>2 DEF SearchInv, FoundInv
<1>8. ResultInv'
  BY <1>1, <1>2, <1>3 DEF SearchInv, ResultInv
<1>9. SortInv'
  BY <1>1, <1>2, <1>3 DEF SearchInv, SortInv
<1>10. DepthInv'
  BY <1>1, <1>2, <1>3 DEF SearchInv, DepthInv
<1>11. OrderInv'
  BY <1>1, <1>3 DEF SearchInv, OrderInv
<1>12. CycleInv'
  BY <1>1, <1>2 DEF SearchInv, CycleInv
<1>13. OnceInv'
  BY <1>1, <1>2, <1>3 DEF SearchInv, OnceInv
<1> QED
  BY <1>4, <1>5, <1>6, <1>7, <1>8, <1>9, <1>10, <1>11, <1>12, <1>13 DEF SearchInv, BaseInv

LEMMA SearchInductive == SearchInv /\ [Next]_vars => SearchInv'
<1> SUFFICES ASSUME SearchInv, [Next]_vars PROVE SearchInv'
  OBVIOUS
<1>1. CASE Call \/ Return
  BY <1>1, SearchStep
<1>2. CASE Asked \/ Created \/ Updated \/ Finish \/ \E t \in Ids : deleteTask(t)
  <2>1. Started'
    BY <1>2, ServiceStep DEF SearchInv
  <2> QED
    BY <2>1, StartedSearch, PTL
<1>3. CASE UNCHANGED vars
  BY <1>3, SearchIdle
<1> QED
  BY <1>1, <1>2, <1>3 DEF Next, Steps

\* The inductive invariant holds throughout.
THEOREM SearchesSafe == Spec => []SearchInv
<1>1. Init => SearchInv
  BY InitStarted, StartedSearch
<1> QED
  BY <1>1, SearchInductive, PTL DEF Spec

\* Every variable keeps its type.
THEOREM SearchTypes == Spec => []TypeOK
<1>1. SearchInv => TypeOK
  BY DEF SearchInv, BaseInv
<1> QED
  BY <1>1, SearchesSafe, PTL

\* addDependency's check answers yes exactly when a cycle can be reached from the
\* dependencies the task is to have.
THEOREM CheckIsExact == Spec => []CheckFindsReachableCycle
<1>1. SearchInv => CheckFindsReachableCycle
  BY CheckInv DEF SearchInv
<1> QED
  BY <1>1, SearchesSafe, PTL

\* What detectCycles reports are cycles, of different tasks each unless a task names a
\* dependency twice, and one among the tasks on cycles with any task that is on one.
THEOREM CyclesAreReported == Spec => []ReportedCyclesAreCycles
<1>1. SearchInv => ReportedCyclesAreCycles
  BY CyclesInv DEF SearchInv
<1> QED
  BY <1>1, SearchesSafe, PTL

\* The sort has every task once, after its dependencies if the graph is acyclic.
THEOREM SortIsTopological == Spec => []SortRespectsDependencies
<1>1. SearchInv => SortRespectsDependencies
  BY DependenciesInv DEF SearchInv
<1> QED
  BY <1>1, SearchesSafe, PTL

\* A task is before one of higher priority only for a task of at least that priority
\* that depends on it.
THEOREM SortPutsPrioritiesFirst == Spec => []SortRespectsPriorities
<1>1. SearchInv => SortRespectsPriorities
  BY PrioritiesInv DEF SearchInv
<1> QED
  BY <1>1, SearchesSafe, PTL

\* On an acyclic graph the depth is the length of its longest path.
THEOREM DepthIsExact == Spec => []DepthIsLongestPath
<1>1. SearchInv => DepthIsLongestPath
  BY LongestInv DEF SearchInv
<1> QED
  BY <1>1, SearchesSafe, PTL
=============================================================================
