-------------------------- MODULE DependencyGraph --------------------------
(***************************************************************************)
(* The dependencies of the stored tasks, and the searches of them that the *)
(* tasks service makes: TaskDomainRules.hasCircularDependency and          *)
(* topologicalSort, DependencyValidator.detectCycles and                   *)
(* calculateMaxDependencyDepth (packages/tasks/src).                       *)
(*                                                                         *)
(* Each search is a recursive closure over a list of tasks.  Here it is a  *)
(* machine with a stack of calls, which takes one step for each call it    *)
(* makes, passes over or returns from.  A search is synchronous: while it  *)
(* runs nothing else does, and the methods of the service come one at a    *)
(* time.                                                                   *)
(***************************************************************************)
EXTENDS Naturals, SequencesExt, FiniteSetsExt

CONSTANTS
    Ids,        \* ids of tasks; an id is used once
    Priorities, \* priority weights (getPriorityWeight)
    MaxDeps     \* bound of the model: dependencies of one task

ASSUME SearchAssumption ==
    /\ IsFiniteSet(Ids)
    /\ Priorities \subseteq Nat /\ MaxDeps \in Nat

VARIABLES
    (* the tasks *)
    stored,     \* tasks that exist
    deleted,    \* tasks that did; dependencies may name them still
    deps,       \* deps[t]: t.dependencies
    priority,   \* priority[t]: the weight of t's priority
    (* the search that runs, and its stack *)
    search,     \* which one, and for which task
    listed,     \* the tasks in the list it was given
    roots,      \* what its own loop runs over
    path,       \* the calls, outermost first, each of one id
    at,         \* at[k]: how far the loop of the k-th call, from 0 on, has come
    (* its locals *)
    entered,    \* visited, as the place of each id in the order of entry, or 0
    found,      \* hasCircularDependency: it has returned true
    cycles,     \* detectCycles: what it has reported
    result,     \* topologicalSort: the list so far
    best        \* calculateDepth: for each call the deepest dependency so far

graph == <<stored, deleted, deps, priority>>
stack == <<path, at>>
input == <<search, listed, roots>>
vars == <<graph, input, stack, entered, found, cycles, result, best>>

Kinds == {"cycles", "sort", "depth"}
Searches == [kind : Kinds \cup {"none"}] \cup [kind : {"check"}, task : Ids]
Idle == [kind |-> "none"]

\* tasks.find((candidate) => candidate.id === depId)?.dependencies
DepsOf(t) == IF t \in listed THEN deps[t] ELSE <<>>

\* The loop of the search itself, or of the call at that height of the stack.
Loop(k) == IF k = 1 THEN roots ELSE DepsOf(path[k - 1])

OnPath(x) == x \in ToSet(path)
Leaf(x) == DepsOf(x) = <<>>

Running == search.kind # "none" /\ ~found
More == Last(at) <= Len(Loop(Len(at)))
Callee == Loop(Len(at))[Last(at)]

Done == search.kind # "none" /\ (found \/ (path = <<>> /\ ~More))

TypeOK ==
    /\ stored \subseteq Ids /\ deleted \subseteq Ids
    /\ deps \in [Ids -> Seq(Ids)]
    /\ priority \in [Ids -> Nat]
    /\ search \in Searches
    /\ listed \subseteq Ids
    /\ roots \in Seq(Ids) /\ path \in Seq(Ids) /\ at \in Seq(Nat \ {0})
    /\ entered \in [Ids -> Nat]
    /\ found \in BOOLEAN
    /\ cycles \in Seq(Seq(Ids))
    /\ result \in Seq(Ids)
    /\ best \in Seq(Nat)

-----------------------------------------------------------------------------
(* A search begins.                                                        *)

Begin(s, list, order) ==
    /\ search = Idle
    /\ search' = s /\ listed' = list /\ roots' = order
    /\ UNCHANGED <<graph, stack, entered, found, cycles, result, best>>

\* The tasks of a list, in any order.
Enumerations(list) == {s \in [1..Cardinality(list) -> list] : ToSet(s) = list}

\* Mutant: the priorities are compared the wrong way round.
sortedByPriorityRising(list) ==
    {s \in Enumerations(list) :
        \A i, j \in DOMAIN s : i < j => priority[s[i]] <= priority[s[j]]}

\* The order of equal priorities is that of the list, which is any.
sortedByPriority(list) ==
    {s \in Enumerations(list) :
        \A i, j \in DOMAIN s : i < j => priority[s[i]] >= priority[s[j]]}

\* getTasksSortedByDependencies passes those that are still to do.
sortTasksByPriorityAndDependencies(todo) ==
    \E order \in sortedByPriority(todo) : Begin([kind |-> "sort"], todo, order)

detectCycles(list) ==
    \E order \in Enumerations(list) : Begin([kind |-> "cycles"], list, order)

calculateMaxDependencyDepth(list) ==
    \E order \in Enumerations(list) : Begin([kind |-> "depth"], list, order)

-----------------------------------------------------------------------------
(* Its steps.                                                              *)

Push(x) == path' = Append(path, x) /\ at' = Append(at, 1)
Advance == at' = [at EXCEPT ![Len(at)] = @ + 1] /\ path' = path
Pop == /\ path' = Front(path)
       /\ at' = [Front(at) EXCEPT ![Len(at) - 1] = @ + 1]

Count == Cardinality({x \in Ids : entered[x] # 0})

\* hasCycle, dfs, visit: a first visit
Enter(x) ==
    /\ search.kind # "depth" /\ entered[x] = 0
    /\ search.kind = "sort" => x \in listed
    /\ Push(x)
    /\ entered' = [entered EXCEPT ![x] = Count + 1]
    /\ UNCHANGED <<graph, input, found, cycles, result, best>>

\* calculateDepth: each branch of the search has its own visited set, the
\* calls it is in
EnterBranch(x) ==
    /\ search.kind = "depth" /\ ~OnPath(x) /\ ~Leaf(x)
    /\ Push(x)
    /\ best' = Append(best, 0)
    /\ UNCHANGED <<graph, input, entered, found, cycles, result>>

\* The call returns at once, and changes nothing.
PassOver(x) ==
    /\ CASE search.kind = "sort"  -> entered[x] # 0 \/ x \notin listed
         [] search.kind = "depth" -> OnPath(x) \/ Leaf(x)
         [] OTHER                 -> entered[x] # 0 /\ ~OnPath(x)
    /\ Advance
    /\ UNCHANGED <<graph, input, entered, found, cycles, result, best>>

\* hasCycle: true, and every call returns it
Find(x) ==
    /\ search.kind = "check" /\ OnPath(x)
    /\ found' = TRUE
    /\ UNCHANGED <<graph, input, stack, entered, cycles, result, best>>

\* Mutant: the whole path is reported.
ReportPath(x) ==
    /\ search.kind = "cycles" /\ OnPath(x)
    /\ cycles' = Append(cycles, path)
    /\ Advance
    /\ UNCHANGED <<graph, input, entered, found, result, best>>

\* dfs: a cycle, here without the repetition of its first task at its end
Report(x) ==
    /\ search.kind = "cycles" /\ OnPath(x)
    /\ \E i \in DOMAIN path :
          path[i] = x /\ cycles' = Append(cycles, SubSeq(path, i, Len(path)))
    /\ Advance
    /\ UNCHANGED <<graph, input, entered, found, result, best>>

Call ==
    /\ Running /\ More
    /\ LET x == Callee
       IN  Enter(x) \/ EnterBranch(x) \/ PassOver(x) \/ Find(x) \/ Report(x)

\* hasCycle, dfs: the end of a call
Leave ==
    /\ search.kind \in {"check", "cycles"}
    /\ Pop
    /\ UNCHANGED <<graph, input, entered, found, cycles, result, best>>

\* Mutant: a task is put before what is in the list already.
OutputFirst ==
    /\ search.kind = "sort"
    /\ Pop
    /\ result' = <<Last(path)>> \o result
    /\ UNCHANGED <<graph, input, entered, found, cycles, best>>

\* visit: the end of a call
Output ==
    /\ search.kind = "sort"
    /\ Pop
    /\ result' = Append(result, Last(path))
    /\ UNCHANGED <<graph, input, entered, found, cycles, best>>

\* Mutant: only a dependency that is in the list counts.
ReturnDepthOfListed ==
    /\ search.kind = "depth"
    /\ Pop
    /\ LET depth == IF ToSet(DepsOf(Last(path))) \cap listed = {} THEN 0 ELSE 1 + Last(best)
       IN  best' = [Front(best) EXCEPT ![Len(best) - 1] = IF @ > depth THEN @ ELSE depth]
    /\ UNCHANGED <<graph, input, entered, found, cycles, result>>

\* calculateDepth: the end of a call, Math.max in its caller
ReturnDepth ==
    /\ search.kind = "depth"
    /\ Pop
    /\ LET depth == 1 + Last(best)
       IN  best' = [Front(best) EXCEPT ![Len(best) - 1] = IF @ > depth THEN @ ELSE depth]
    /\ UNCHANGED <<graph, input, entered, found, cycles, result>>

Return == Running /\ ~More /\ path # <<>> /\ (Leave \/ Output \/ ReturnDepth)

-----------------------------------------------------------------------------
(* The methods of the service that change dependencies.                    *)

Quiet == search = Idle /\ UNCHANGED <<input, stack, entered, found, cycles, result, best>>

\* ensureDependenciesInSameEnvironment: of a list, but the list is stored as it is
Accepted(t, ds) == ToSet(ds) \subseteq stored \ {t}

createTask(t, ds, p) ==
    /\ Quiet
    /\ t \notin stored \cup deleted
    /\ Accepted(t, ds)
    /\ stored' = stored \cup {t}
    /\ deps' = [deps EXCEPT ![t] = ds]
    /\ priority' = [priority EXCEPT ![t] = p]
    /\ UNCHANGED deleted

updateTask(t, ds, p) ==
    /\ Quiet
    /\ t \in stored /\ Accepted(t, ds)
    /\ deps' = [deps EXCEPT ![t] = ds]
    /\ priority' = [priority EXCEPT ![t] = p]
    /\ UNCHANGED <<stored, deleted>>

\* What is left is a list like any other, and refused like any other.
removeDependency(t, d) ==
    \E ds \in SeqOf(stored, MaxDeps) :
        /\ ds = SelectSeq(deps[t], LAMBDA x : x # d)
        /\ Quiet
        /\ t \in stored /\ Accepted(t, ds)
        /\ deps' = [deps EXCEPT ![t] = ds]
        /\ UNCHANGED <<stored, deleted, priority>>

\* Nobody is asked whether a dependency names the task.
deleteTask(t) ==
    /\ Quiet
    /\ t \in stored
    /\ stored' = stored \ {t} /\ deleted' = deleted \cup {t}
    /\ deps' = [deps EXCEPT ![t] = <<>>]
    /\ priority' = [priority EXCEPT ![t] = 0]

\* addDependency asks hasCircularDependency of the stored graph ...
addDependency(t, d) ==
    /\ t \in stored /\ d \in stored \ {t} /\ d \notin ToSet(deps[t])
    /\ Len(deps[t]) < MaxDeps
    /\ Begin([kind |-> "check", task |-> t], stored, Append(deps[t], d))

\* ... and goes on to updateTask if the answer is no.
Finish ==
    /\ Done
    /\ IF search.kind = "check" /\ ~found
       THEN deps' = IF Accepted(search.task, roots)
                    THEN [deps EXCEPT ![search.task] = roots] ELSE deps
       ELSE UNCHANGED deps
    /\ search' = Idle /\ listed' = {} /\ roots' = <<>>
    /\ path' = <<>> /\ at' = <<1>>
    /\ entered' = [x \in Ids |-> 0] /\ found' = FALSE
    /\ cycles' = <<>> /\ result' = <<>> /\ best' = <<0>>
    /\ UNCHANGED <<stored, deleted, priority>>

Init ==
    /\ stored = {} /\ deleted = {}
    /\ deps = [t \in Ids |-> <<>>]
    /\ priority = [t \in Ids |-> 0]
    /\ search = Idle /\ listed = {} /\ roots = <<>>
    /\ path = <<>> /\ at = <<1>>
    /\ entered = [x \in Ids |-> 0] /\ found = FALSE
    /\ cycles = <<>> /\ result = <<>> /\ best = <<0>>

Steps == Call \/ Return \/ Finish
Asked ==
    \/ \E t, d \in Ids : addDependency(t, d) \/ removeDependency(t, d)
    \/ \E list \in SUBSET stored :
          \/ sortTasksByPriorityAndDependencies(list)
          \/ detectCycles(list) \/ calculateMaxDependencyDepth(list)
Created == \E t \in Ids, ds \in SeqOf(stored, MaxDeps), p \in Priorities : createTask(t, ds, p)
Updated == \E t \in Ids, ds \in SeqOf(stored, MaxDeps), p \in Priorities : updateTask(t, ds, p)

Next == Steps \/ Asked \/ Created \/ Updated \/ \E t \in Ids : deleteTask(t)

Spec == Init /\ [][Next]_vars

\* Clients that change dependencies through the methods that check them only.
CheckedSpec == Init /\ [][Steps \/ Asked \/ Created]_vars

-----------------------------------------------------------------------------
(* What the searches should compute, by definition.                        *)

Edge(a, b) == b \in ToSet(DepsOf(a))
Closed(S) == \A a \in S, b \in Ids : Edge(a, b) => b \in S

\* what can be reached from a over one or more edges
Reach(a) == {b \in Ids : \A S \in SUBSET Ids :
                Closed(S) /\ (\A c \in Ids : Edge(a, c) => c \in S) => b \in S}

OnCycle(a) == a \in Reach(a)
Acyclic == \A a \in Ids : ~OnCycle(a)

IsCycle(c) ==
    /\ c # <<>> /\ IsInjective(c)
    /\ \A i \in DOMAIN c : Edge(c[i], IF i = Len(c) THEN c[1] ELSE c[i + 1])

\* a names b twice among its dependencies
Twice(a, b) ==
    \E i, j \in DOMAIN DepsOf(a) : i # j /\ DepsOf(a)[i] = b /\ DepsOf(a)[j] = b

\* there is a path of n edges from a
HasPath(a, n) ==
    \E s \in [0..n -> Ids] : s[0] = a /\ \A i \in 0..(n - 1) : Edge(s[i], s[i + 1])

-----------------------------------------------------------------------------
(* Properties.                                                             *)

Ended(kind) == search.kind = kind /\ Done

\* hasCircularDependency finds a cycle exactly when one can be reached from the
\* new dependencies; that the edges be added it does not consider.
CheckFindsReachableCycle ==
    Ended("check") =>
        (found <=> \E d \in ToSet(roots) : \E e \in {d} \cup Reach(d) : OnCycle(e))

\* What detectCycles reports are cycles of the graph.  Two that it reports are of
\* different tasks, unless a task names a dependency twice.  And it reports one
\* among the tasks that are on cycles with each other.
ReportedCyclesAreCycles ==
    Ended("cycles") =>
        /\ \A i \in DOMAIN cycles : IsCycle(cycles[i])
        /\ \A i, j \in DOMAIN cycles : i # j /\ ToSet(cycles[i]) = ToSet(cycles[j])
               => Twice(Last(cycles[i]), cycles[i][1])
        /\ \A t \in listed : OnCycle(t) =>
               \E i \in DOMAIN cycles : \A u \in ToSet(cycles[i]) :
                   u \in Reach(t) /\ t \in Reach(u)

\* The sorted list has every task once; on an acyclic graph a task comes after
\* its dependencies.
SortRespectsDependencies ==
    Ended("sort") =>
        /\ IsInjective(result) /\ ToSet(result) = listed
        /\ Acyclic => \A i, j \in DOMAIN result : Edge(result[i], result[j]) => j < i

\* A task comes before one of higher priority only where some task of at least
\* that priority depends on it.
SortRespectsPriorities ==
    Ended("sort") =>
        \A i, j \in DOMAIN result :
            i < j /\ priority[result[i]] < priority[result[j]]
            => \E v \in listed : priority[v] >= priority[result[j]] /\ result[i] \in Reach(v)

\* On an acyclic graph the depth is the length of the longest path.
DepthIsLongestPath ==
    Ended("depth") /\ Acyclic =>
        /\ \A t \in listed, n \in 0..Cardinality(Ids) : HasPath(t, n) => n <= best[1]
        /\ best[1] > 0 => \E t \in listed : HasPath(t, best[1])

\* The guide of the dependency views: "The system detects and prevents circular
\* dependencies".  False of the code (README, section 6).
PreventsCircularDependencies == search = Idle => 
    ~ \E S \in SUBSET stored : S # {} /\ \A a \in S : ToSet(deps[a]) \cap S # {}
=============================================================================
