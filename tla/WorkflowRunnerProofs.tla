------------------------ MODULE WorkflowRunnerProofs ------------------------
(***************************************************************************)
(* Proofs about WorkflowRunner, for any number of tasks and checks.        *)
(*                                                                         *)
(* TypeOK is inductive for any number of workers.  For one worker          *)
(* CheckedInv is: it says what the place of the token and the verdict in   *)
(* the context tell of the checks that have passed on the task in hand,    *)
(* what the step the worker is in adds to that, and that an update writes  *)
(* back what is stored.  On top of it HoldInv says that the worker goes on *)
(* with a task in progress before it claims one, and DependenciesFirst     *)
(* that what is begun has its dependencies done.  ClaimedInv, again for    *)
(* any number of workers, says which tasks have been claimed, also by the  *)
(* entity that a late update will write back.                              *)
(***************************************************************************)
EXTENDS WorkflowRunner, WellFoundedInduction, TLAPS

\* a check is run only while one is left to run
ChecksLeft(w) == ~Idle(w) /\ step[w].via = "check" => token[w] \in 0..(LastCheck - 1)

TypeInv == TypeOK /\ \A w \in Workers : ChecksLeft(w)

\* what the next check, or tests-passing, requires
MayGoOn(w) == token[w] = TaskInProgress \/ QaPassed(w)

\* Until its last check is done the task in the context is in progress.
InHand(w) ==
    token[w] \in 0..(LastCheck - 1)
    => ctx[w].task \in Tasks /\ status[ctx[w].task] = "in-progress"

\* After it the task in the context may be closed already, by a call whose
\* answer was lost.
AtEnd(w) ==
    token[w] = LastCheck /\ QaPassed(w)
    => ctx[w].task \in Tasks /\ status[ctx[w].task] \in {"in-progress", "done"}

\* The checks up to the token have passed, if the verdict lets it go on.
PassedSoFar(w) ==
    token[w] \in 0..LastCheck /\ MayGoOn(w) /\ status[ctx[w].task] = "in-progress"
    => 1..token[w] \subseteq passed[ctx[w].task]

E2eKnown(w) == token[w] = E2eCheck => ctx[w].e2e # "none"

Updating(w) == step[w].at \in {"load", "write"}

\* What is recorded of the check just run, until the token moves.
Recorded(w) ==
    /\ ctx[w].verdict # "none"
    /\ token[w] + 1 = E2eCheck => ctx[w].e2e # "none"
    /\ token[w] + 1 = E2eCheck /\ ctx[w].e2e # "failed" => ctx[w].verdict = "passed"
    /\ ctx[w].verdict = "passed" => 1..(token[w] + 1) \subseteq passed[step[w].task]

\* the transitions and the places they start from
ViaInv(w) ==
    /\ step[w].via = "begin" => token[w] = TasksPrepared
    /\ step[w].via = "fix" => token[w] \in Checks /\ ~QaPassed(w)
    /\ step[w].via = "check" =>
         /\ token[w] \in 0..(LastCheck - 1) /\ step[w].task = ctx[w].task
         /\ IF Updating(w) THEN Recorded(w) ELSE MayGoOn(w)
    /\ step[w].via = "pass" =>
         token[w] = LastCheck /\ QaPassed(w) /\ step[w].task = ctx[w].task

StageInv(w) ==
    /\ step[w].task \in Tasks
    /\ step[w].at = "claim" => step[w].via \in {"begin", "fix"}
    /\ Updating(w) => step[w].via # "fix"
    /\ step[w].at \in {"checkout", "save", "act", "persist"} => step[w].via # "pass"
    /\ step[w].at \in {"main", "clear"} => step[w].via = "pass"
    /\ step[w].via # "pass" /\ step[w].at # "claim" => status[step[w].task] = "in-progress"
    /\ step[w].at \in {"save", "act"} => head = step[w].task
    /\ step[w].at = "clear" => status[step[w].task] = "done"
    /\ step[w].at = "write" => step[w].entity = Stored(step[w].task)
    /\ step[w].at = "persist" /\ step[w].via = "check" =>
         /\ step[w].verdict # "none"
         /\ step[w].verdict = "passed" => token[w] + 1 \in passed[step[w].task]

WorkerInv(w) ==
    /\ InHand(w) /\ AtEnd(w) /\ PassedSoFar(w) /\ E2eKnown(w)
    /\ ~Idle(w) => ViaInv(w) /\ StageInv(w)

CheckedInv == TypeInv /\ \A w \in Workers : WorkerInv(w)

\* The task in the context is one in progress, if there is one: where a task may
\* be claimed from, in tasks-prepared and after a failed check.
GoesOn(w) == ctx[w].task = NoTask \/ status[ctx[w].task] = "in-progress"

Prefers(w) ==
    token[w] = TasksPrepared \/ (token[w] \in Checks /\ ~QaPassed(w)) => GoesOn(w)

\* A task that a worker has claimed is the only one in progress.
Alone ==
    \A t, u \in Tasks :
        status[t] = "in-progress" /\ assignee[t] # NoOne /\ status[u] = "in-progress"
        => t = u

\* What is about to be claimed can be, and nothing else is in progress.
NothingBegun(w) ==
    step[w].at = "claim" =>
        /\ status[step[w].task] = "todo" /\ dependenciesSatisfied(step[w].task)
        /\ \A u \in Tasks : status[u] # "in-progress"

HoldInv == Alone /\ \A w \in Workers : Prefers(w) /\ NothingBegun(w)

\* A task that has been claimed has its dependencies finished.
DependenciesFirst ==
    \A t \in Tasks : status[t] # "todo" => dependenciesSatisfied(t)

\* a task that somebody has claimed, if only in an earlier life
Claimed(t) == t \in Tasks /\ status[t] # "todo"

\* What the step of w knows of its task: it has been claimed from the checkout on,
\* unless a check without a branch is about to throw; so has what will be closed,
\* and the entity that will be written back says so.
ClaimedStep(w) ==
    ~Idle(w) =>
        /\ step[w].at = "checkout" /\ (step[w].via # "check" \/ step[w].branch # NoTask)
           => Claimed(step[w].task)
        /\ step[w].at \in {"load", "write", "save", "act", "persist", "main"}
           => Claimed(step[w].task)
        /\ step[w].at = "write" => step[w].entity.status # "todo"

\* A check has passed only on a task that had been claimed.
ClaimedContext(w) == ctx[w].verdict = "passed" => Claimed(ctx[w].task)

ClaimedInv ==
    /\ TypeInv
    /\ \A t \in branched : Claimed(t)
    /\ \A w \in Workers : ClaimedStep(w) /\ ClaimedContext(w)

-----------------------------------------------------------------------------
(* Selection.                                                              *)

LEMMA Least ==
    ASSUME NEW S, S \subseteq Nat, S # {}
    PROVE  \E t \in S : \A u \in S : t <= u
<1> DEFINE R == {ss \in Nat \X Nat : ss[1] < ss[2]}
<1>1. IsWellFoundedOn(R, Nat)
  BY NatLessThanWellFounded DEF OpToRel
<1>2. \A x, y \in Nat : y < x => <<y, x>> \in R
  BY SMT
<1> HIDE DEF R
<1>3. PICK t \in S : \A u \in S : ~ (<<u, t>> \in R)
  BY <1>1, WFMin
<1>4. \A u \in S : ~ (u < t)
  BY <1>2, <1>3
<1> QED
  BY <1>4, SMT

LEMMA BestIn ==
    ASSUME NEW S, S \subseteq Tasks, S # {}
    PROVE  Best(S) \in S
<1>1. S \subseteq Nat
  BY RunnerAssumption DEF Tasks
<1>2. \E t \in S : \A u \in S : t <= u
  BY <1>1, Least
<1> QED
  BY <1>2 DEF Best

LEMMA SelectedTask ==
    ASSUME TypeOK, NEW w \in Workers
    PROVE  /\ selectTaskForState(w) \in Tasks \cup {NoTask}
           /\ selectTaskForState(w) # NoTask
              => status[selectTaskForState(w)] \in {"todo", "in-progress"}
           /\ Eligible(w) \subseteq Tasks
<1>1. Eligible(w) \subseteq Tasks /\ \A t \in Eligible(w) : status[t] \in {"todo", "in-progress"}
  BY DEF Eligible
<1>2. inferredTaskId(w) \in Tasks \cup {NoTask}
  <2> DEFINE I == {t \in Tasks : status[t] = "in-progress"}
  <2>1. Best(I) \in Tasks \cup {NoTask}
    BY BestIn DEF Best
  <2>2. ctx[w].task \in Tasks \cup {NoTask}
    BY DEF TypeOK, Context
  <2> QED
    BY <2>1, <2>2 DEF inferredTaskId, selectInProgressImplementationTask
<1>3. Best(Eligible(w)) \in Eligible(w) \cup {NoTask}
  BY <1>1, BestIn DEF Best
<1>4. NoTask \notin Tasks
  BY RunnerAssumption DEF NoTask, Tasks
<1> QED
  BY <1>1, <1>2, <1>3, <1>4 DEF selectTaskForState

\* A worker goes on with the task in its context while that is in progress.
LEMMA SelectsOwn ==
    ASSUME NEW w \in Workers, ctx[w].task \in Tasks, status[ctx[w].task] = "in-progress"
    PROVE  selectTaskForState(w) = ctx[w].task
<1>1. ctx[w].task # NoTask
  BY RunnerAssumption DEF NoTask, Tasks
<1> QED
  BY <1>1 DEF selectTaskForState, inferredTaskId

-----------------------------------------------------------------------------
(* Places and steps.                                                       *)

LEMMA PlaceTypes ==
    /\ TaskInProgress \in Places /\ Planning \in Places
    /\ TasksPrepared \in Places /\ TaskCompleted \in Places
    /\ \A k \in 0..(LastCheck - 1) : k \in Places /\ k + 1 \in Places /\ k + 1 \in Checks
    /\ Cleared \in Context
BY RunnerAssumption
   DEF Places, TaskInProgress, Planning, TasksPrepared, TaskCompleted, Checks,
       Cleared, Context, Verdicts, NoTask, Tasks

LEMMA PlaceFacts ==
    /\ TaskInProgress \in 0..(LastCheck - 1) /\ TaskInProgress \notin Checks
    /\ \A k \in {Planning, TasksPrepared, TaskCompleted} : k \notin 0..LastCheck /\ k # E2eCheck
    /\ 0..(LastCheck - 1) \subseteq 0..LastCheck /\ Checks \subseteq 0..LastCheck
    /\ LastCheck \in Checks /\ LastCheck # E2eCheck /\ LastCheck \notin 0..(LastCheck - 1)
    /\ E2eCheck \in 0..(LastCheck - 1) /\ NoTask \notin Tasks
BY RunnerAssumption
   DEF TaskInProgress, Checks, Planning, TasksPrepared, TaskCompleted, NoTask, Tasks

LEMMA Busy ==
    ASSUME TypeOK, NEW w \in Workers, NEW stage \in Stages, At(w, stage)
    PROVE  ~Idle(w) /\ step[w] \in Step /\ step[w].at = stage
<1>1. ~Idle(w)
  BY DEF At, Idle, Looping, Stages
<1> QED
  BY <1>1 DEF TypeOK, Idle, At

LEMMA InStep ==
    ASSUME TypeOK, NEW w \in Workers, ~Idle(w)
    PROVE  step[w] \in Step
BY DEF TypeOK, Idle

\* What a stage of w does to the steps: only its own changes ...
Local(w) ==
    /\ step' \in [Workers -> Step \cup {Looping}]
    /\ \A v \in Workers \ {w} : step'[v] = step[v]

\* ... which goes from one stage to another, with the same task, or is over.
Goes(w, from, to) ==
    /\ ~Idle(w) /\ step[w] \in Step /\ step[w].at = from
    /\ step'[w] \in Step /\ step'[w].at = to
    /\ step'[w].via = step[w].via /\ step'[w].task = step[w].task

Ends(w) == step'[w] = Looping

LEMMA StepReplaced ==
    ASSUME TypeOK, NEW w \in Workers, NEW r \in Step \cup {Looping},
           step' = [step EXCEPT ![w] = r]
    PROVE  Local(w) /\ step'[w] = r
BY DEF TypeOK, Local

LEMMA ProceedGoes ==
    ASSUME TypeOK, NEW w \in Workers, NEW from \in Stages, At(w, from),
           NEW stage, NEW ok \in BOOLEAN, Proceed(w, stage, ok),
           ok => /\ stage \in Stages
                 /\ stage \in {"checkout", "main", "clear"} \/ step[w].task \in Tasks
    PROVE  Local(w) /\ ((ok /\ Goes(w, from, stage)) \/ (~ok /\ Ends(w)))
<1>1. ~Idle(w) /\ step[w] \in Step /\ step[w].at = from
  BY Busy
<1>2. CASE ok
  <2> DEFINE r == [step[w] EXCEPT !.at = stage]
  <2>1. r \in Step /\ r.at = stage /\ r.via = step[w].via /\ r.task = step[w].task
    BY <1>1, <1>2 DEF Step
  <2>2. step' = [step EXCEPT ![w] = r]
    BY <1>2 DEF Proceed, TypeOK
  <2> HIDE DEF r
  <2> QED
    BY <1>1, <1>2, <2>1, <2>2, StepReplaced DEF Goes
<1>3. CASE ~ok
  BY <1>3, StepReplaced DEF Proceed, Ends
<1> QED
  BY <1>2, <1>3

LEMMA SetbackType ==
    ASSUME TypeOK, Setback
    PROVE  setbacks' \in 0..MaxSetbacks
BY RunnerAssumption DEF Setback, TypeOK

LEMMA AnswerType ==
    ASSUME TypeOK, NEW ok \in BOOLEAN, NEW stage, Answer(ok, stage)
    PROVE  setbacks' \in 0..MaxSetbacks
<1>1. UNCHANGED setbacks \/ Setback
  BY DEF Answer
<1> QED
  BY <1>1, SetbackType DEF TypeOK

LEMMA LoadGoes ==
    ASSUME TypeOK, NEW w \in Workers, Load(w)
    PROVE  /\ Local(w) /\ Goes(w, "load", "write")
           /\ step'[w].entity = Stored(step[w].task) /\ Stored(step[w].task) \in Entity
<1>1. ~Idle(w) /\ step[w] \in Step /\ step[w].at = "load"
  BY Busy DEF Load, Stages
<1>2. step[w].task \in Tasks
  BY <1>1 DEF Step
<1>3. Stored(step[w].task) \in Entity
  BY <1>2 DEF TypeOK, Stored, Entity
<1> DEFINE e == Stored(step[w].task)
           r == [step[w] EXCEPT !.at = "write", !.entity = e]
<1> HIDE DEF e
<1>4. /\ r \in Step /\ r.at = "write" /\ r.via = step[w].via /\ r.task = step[w].task
      /\ r.entity = e
  BY <1>1, <1>2, <1>3 DEF Step, Stages, e
<1>5. step' = [step EXCEPT ![w] = r]
  BY DEF Load, TypeOK, e
<1> HIDE DEF r
<1> QED
  BY <1>1, <1>3, <1>4, <1>5, StepReplaced DEF Goes, e

LEMMA UnreadEntity == Unread \in Entity
BY DEF Unread, Entity

LEMMA StoreBranchGoes ==
    ASSUME TypeOK, NEW w \in Workers, StoreBranch(w)
    PROVE  Local(w) /\ (Goes(w, "write", "checkout") \/ Ends(w))
<1>1. ~Idle(w) /\ step[w] \in Step /\ step[w].at = "write"
  BY Busy DEF StoreBranch, Stages
<1> DEFINE r == [step[w] EXCEPT !.at = "checkout", !.branch = step[w].task, !.entity = Unread]
<1>2. r \in Step /\ r.at = "checkout" /\ r.via = step[w].via /\ r.task = step[w].task
  BY <1>1, UnreadEntity DEF Step, Stages
<1>3. step' = [step EXCEPT ![w] = r] \/ step' = [step EXCEPT ![w] = Looping]
  BY DEF StoreBranch, TypeOK
<1> HIDE DEF r
<1> QED
  BY <1>1, <1>2, <1>3, StepReplaced DEF Goes, Ends

LEMMA CheckoutGoes ==
    ASSUME TypeOK, NEW w \in Workers, Checkout(w)
    PROVE  /\ Local(w)
           /\ \/ /\ Goes(w, "checkout", "save") /\ step[w].task \in Tasks
                 /\ step[w].via = "begin" \/ step[w].branch # NoTask
                 /\ head' = step[w].task /\ created' = created \cup {step[w].task}
              \/ Ends(w) /\ UNCHANGED git
<1>1. ~Idle(w) /\ step[w] \in Step /\ At(w, "checkout")
  BY Busy DEF Checkout, Stages
<1>2. CASE step[w].via = "begin" \/ (step[w].branch # NoTask /\ step[w].branch \in created)
  <2>1. step[w].task \in Tasks
    BY <1>1, <1>2 DEF Step
  <2> QED
    BY <1>1, <1>2, <2>1, ProceedGoes DEF Checkout, Stages
<1>3. CASE ~(step[w].via = "begin" \/ (step[w].branch # NoTask /\ step[w].branch \in created))
  BY <1>1, <1>3, ProceedGoes DEF Checkout, Stages
<1> QED
  BY <1>2, <1>3

LEMMA SaveContextGoes ==
    ASSUME TypeOK, NEW w \in Workers, SaveContext(w)
    PROVE  Local(w) /\ (Goes(w, "save", "act") \/ Ends(w)) /\ setbacks' \in 0..MaxSetbacks
<1>1. step[w] \in Step /\ At(w, "save") /\ step[w].at = "save"
  BY Busy DEF SaveContext, Stages
<1>2. step[w].task \in Tasks
  BY <1>1 DEF Step
<1>3. PICK ok \in BOOLEAN : Answer(ok, "save") /\ Proceed(w, "act", ok)
  BY DEF SaveContext
<1> QED
  BY <1>1, <1>2, <1>3, ProceedGoes, AnswerType DEF Stages

LEMMA EditsGoes ==
    ASSUME TypeOK, NEW w \in Workers, Edits(w)
    PROVE  Local(w) /\ Goes(w, "act", "persist")
<1>1. step[w] \in Step /\ At(w, "act") /\ step[w].at = "act"
  BY Busy DEF Edits, Stages
<1>2. step[w].task \in Tasks
  BY <1>1 DEF Step
<1> QED
  BY <1>1, <1>2, ProceedGoes DEF Edits, Stages

LEMMA RunsGoes ==
    ASSUME TypeOK, NEW w \in Workers, NEW verdict \in {"passed", "failed"}, At(w, "act"),
           step' = [step EXCEPT ![w].at = "persist", ![w].verdict = verdict]
    PROVE  Local(w) /\ Goes(w, "act", "persist") /\ step'[w].verdict = verdict
<1>1. ~Idle(w) /\ step[w] \in Step /\ step[w].at = "act"
  BY Busy DEF Stages
<1>2. step[w].task \in Tasks
  BY <1>1 DEF Step
<1> DEFINE r == [step[w] EXCEPT !.at = "persist", !.verdict = verdict]
<1>3. /\ r \in Step /\ r.at = "persist" /\ r.via = step[w].via /\ r.task = step[w].task
      /\ r.verdict = verdict
  BY <1>1, <1>2 DEF Step, Stages, Verdicts
<1>4. step' = [step EXCEPT ![w] = r]
  BY DEF TypeOK
<1> HIDE DEF r
<1> QED
  BY <1>1, <1>3, <1>4, StepReplaced DEF Goes

LEMMA AdvanceEnds ==
    ASSUME TypeOK, NEW w \in Workers, Advance(w)
    PROVE  /\ Local(w) /\ Ends(w)
           /\ token' = [token EXCEPT ![w] = NextPlace(w)] /\ token'[w] = NextPlace(w)
BY StepReplaced DEF Advance, Ends, TypeOK

LEMMA PersistGoes ==
    ASSUME TypeOK, NEW w \in Workers, Persist(w)
    PROVE  /\ Local(w)
           /\ \/ Goes(w, "persist", "load") /\ step[w].via = "check" /\ UNCHANGED token
              \/ Ends(w) /\ UNCHANGED token
              \/ step[w].via # "check" /\ Advance(w)
           /\ setbacks' \in 0..MaxSetbacks
<1>1. step[w] \in Step /\ At(w, "persist") /\ step[w].at = "persist"
  BY Busy DEF Persist, Stages
<1>2. step[w].task \in Tasks
  BY <1>1 DEF Step
<1>3. PICK ok \in BOOLEAN :
        /\ Answer(ok, "persist")
        /\ IF ok /\ step[w].via # "check" THEN Advance(w)
           ELSE Proceed(w, "load", ok) /\ UNCHANGED token
  BY DEF Persist
<1>4. setbacks' \in 0..MaxSetbacks
  BY <1>3, AnswerType
<1>5. CASE ok /\ step[w].via # "check"
  BY <1>3, <1>4, <1>5, AdvanceEnds
<1>6. CASE ~(ok /\ step[w].via # "check")
  <2>1. Local(w) /\ ((ok /\ Goes(w, "persist", "load")) \/ (~ok /\ Ends(w)))
    BY <1>1, <1>2, <1>3, <1>6, ProceedGoes DEF Stages
  <2> QED
    BY <1>3, <1>4, <1>6, <2>1
<1> QED
  BY <1>5, <1>6

\* The log is written, or not: the step is over.
LEMMA LoggedEnds ==
    ASSUME TypeOK, NEW w \in Workers, AppendLog(w) \/ LogFails(w)
    PROVE  /\ ~Idle(w) /\ step[w] \in Step /\ Updating(w) /\ step[w].via = "check"
           /\ step[w].task \in Tasks /\ Local(w) /\ Ends(w)
           /\ token' = [token EXCEPT ![w] = token[w] + 1] /\ token'[w] = token[w] + 1
<1>1. ~Idle(w) /\ Updating(w) /\ step[w].via = "check" /\ Advance(w)
  BY DEF AppendLog, LogFails, Logging, Updating
<1>2. step[w] \in Step /\ step[w].task \in Tasks
  BY <1>1, InStep DEF Step, Updating
<1>3. NextPlace(w) = token[w] + 1
  BY <1>1 DEF NextPlace
<1> QED
  BY <1>1, <1>2, <1>3, AdvanceEnds

LEMMA CheckoutMainGoes ==
    ASSUME TypeOK, NEW w \in Workers, CheckoutMain(w)
    PROVE  /\ Local(w)
           /\ \/ Goes(w, "main", "load") /\ step[w].task \in Tasks
              \/ Goes(w, "main", "clear") /\ step[w].task = NoTask
<1>1. step[w] \in Step /\ At(w, "main")
  BY Busy DEF CheckoutMain, Stages
<1>2. step[w].task \in Tasks \/ step[w].task = NoTask
  BY <1>1 DEF Step
<1>3. CASE step[w].task # NoTask
  BY <1>1, <1>2, <1>3, ProceedGoes DEF CheckoutMain, Stages
<1>4. CASE step[w].task = NoTask
  BY <1>1, <1>4, ProceedGoes DEF CheckoutMain, Stages
<1> QED
  BY <1>3, <1>4

LEMMA CloseGoes ==
    ASSUME TypeOK, NEW w \in Workers, Close(w)
    PROVE  /\ Local(w) /\ (Goes(w, "write", "clear") \/ Ends(w))
           /\ setbacks' \in 0..MaxSetbacks
<1>1. ~Idle(w) /\ step[w] \in Step /\ step[w].at = "write"
  BY Busy DEF Close, Stages
<1> DEFINE r == [step[w] EXCEPT !.at = "clear", !.entity = Unread]
<1>2. r \in Step /\ r.at = "clear" /\ r.via = step[w].via /\ r.task = step[w].task
  BY <1>1, UnreadEntity DEF Step, Stages
<1>3. step' = [step EXCEPT ![w] = r] \/ step' = [step EXCEPT ![w] = Looping]
  BY DEF Close, TypeOK
<1>4. setbacks' \in 0..MaxSetbacks
  BY AnswerType DEF Close
<1> HIDE DEF r
<1> QED
  BY <1>1, <1>2, <1>3, <1>4, StepReplaced DEF Goes, Ends

LEMMA ClearEnds ==
    ASSUME TypeOK, NEW w \in Workers, Clear(w)
    PROVE  /\ Local(w) /\ Ends(w) /\ setbacks' \in 0..MaxSetbacks
           /\ UNCHANGED token \/ Advance(w)
<1>1. PICK ok \in BOOLEAN :
        /\ Answer(ok, "clear")
        /\ IF ok THEN Advance(w) ELSE Proceed(w, "loop", FALSE) /\ UNCHANGED token
  BY DEF Clear
<1>2. At(w, "clear")
  BY DEF Clear
<1>3. CASE ok
  BY <1>1, <1>3, AnswerType, AdvanceEnds
<1>4. CASE ~ok
  BY <1>1, <1>2, <1>4, AnswerType, ProceedGoes DEF Stages
<1> QED
  BY <1>3, <1>4

LEMMA BreaksOff ==
    ASSUME TypeOK, NEW w \in Workers, Throws(w) \/ CrashAndRestart(w)
    PROVE  Local(w) /\ Ends(w) /\ setbacks' \in 0..MaxSetbacks /\ UNCHANGED <<service, ctx, passed>>
<1>1. step' = [step EXCEPT ![w] = Looping]
  BY DEF Throws, CrashAndRestart, Proceed
<1> QED
  BY <1>1, StepReplaced, SetbackType DEF Throws, CrashAndRestart, Ends

\* A refused claim goes on to another candidate.
LEMMA ClaimGoes ==
    ASSUME TypeOK, NEW w \in Workers, Claim(w)
    PROVE  /\ Local(w) /\ setbacks' \in 0..MaxSetbacks
           /\ ~Idle(w) /\ step[w] \in Step /\ step[w].at = "claim" /\ step[w].task \in Tasks
           /\ \/ /\ Claimable(step[w].task, w)
                 /\ Goes(w, "claim", Provision(step[w].via, step[w].task)) \/ Ends(w)
              \/ /\ ~Claimable(step[w].task, w)
                 /\ \/ Ends(w)
                    \/ /\ step'[w] \in Step /\ step'[w].at = "claim"
                       /\ step'[w].via = step[w].via /\ step'[w].task \in Tasks
<1> DEFINE t == step[w].task
           rest == step[w].rest
<1>1. ~Idle(w) /\ step[w] \in Step /\ step[w].at = "claim"
  BY Busy DEF Claim, Stages
<1>2. t \in Tasks
  BY <1>1 DEF Step
<1>3. CASE Claimable(t, w)
  <2> DEFINE to == Provision(step[w].via, t)
             r == [step[w] EXCEPT !.at = to, !.rest = {}, !.branch = BranchOf(t)]
  <2>0. to \in {"load", "checkout"}
    BY DEF Provision
  <2> HIDE DEF to
  <2>1. r \in Step /\ r.at = to /\ r.via = step[w].via /\ r.task = t
    BY <1>1, <1>2, <2>0 DEF Step, Stages, BranchOf
  <2>2. PICK ok \in BOOLEAN :
          /\ Answer(ok, "claim")
          /\ step' = [step EXCEPT ![w] =
               IF ok THEN [@ EXCEPT !.at = Provision(step[w].via, t), !.rest = {},
                                    !.branch = BranchOf(t)]
               ELSE Looping]
    BY <1>3 DEF Claim
  <2>3. step' = [step EXCEPT ![w] = r] \/ step' = [step EXCEPT ![w] = Looping]
    BY <2>2 DEF to, TypeOK
  <2>4. setbacks' \in 0..MaxSetbacks
    BY <2>2, AnswerType
  <2> HIDE DEF r
  <2>5. Local(w) /\ (Goes(w, "claim", to) \/ Ends(w))
    BY <1>1, <2>1, <2>3, StepReplaced DEF Goes, Ends
  <2> QED
    BY <1>1, <1>2, <1>3, <2>4, <2>5 DEF to
<1>4. CASE ~Claimable(t, w)
  <2> DEFINE r == [step[w] EXCEPT !.task = Best(rest), !.rest = rest \ {Best(rest)}]
  <2>1. rest # {} => r \in Step /\ r.at = "claim" /\ r.via = step[w].via /\ r.task \in Tasks
    BY <1>1, BestIn DEF Step
  <2>2. \/ step' = [step EXCEPT ![w] = Looping]
        \/ rest # {} /\ step' = [step EXCEPT ![w] = r]
    BY <1>4 DEF Claim, TypeOK
  <2>3. setbacks' \in 0..MaxSetbacks
    BY <1>4 DEF Claim, TypeOK
  <2> HIDE DEF r
  <2> QED
    BY <1>1, <1>2, <1>4, <2>1, <2>2, <2>3, StepReplaced DEF Ends
<1> QED
  BY <1>3, <1>4

\* A pick reads only.
LEMMA PickGoes ==
    ASSUME TypeOK, NEW w \in Workers, NEW via \in Transitions, NEW first \in Stages,
           NEW t \in Tasks \cup {NoTask}, NEW rest \in SUBSET Tasks,
           t = NoTask => via # "begin" /\ first \in {"checkout", "main"},
           Pick(w, via, first, t, rest)
    PROVE  /\ Local(w) /\ UNCHANGED <<service, git, token, ctx, passed, setbacks>>
           /\ step'[w] \in Step /\ step'[w].at = first /\ step'[w].via = via
           /\ step'[w].task = t /\ step'[w].branch = BranchOf(t)
<1> DEFINE r == [at |-> first, via |-> via, task |-> t, branch |-> BranchOf(t), rest |-> rest,
                 verdict |-> "none", entity |-> Unread]
<1>1. BranchOf(t) \in Tasks \cup {NoTask} /\ (BranchOf(t) # NoTask => t \in Tasks)
  BY DEF BranchOf, TypeOK
<1>2. r \in Step
  BY <1>1, UnreadEntity DEF Step, Verdicts
<1>3. r.at = first /\ r.via = via /\ r.task = t /\ r.branch = BranchOf(t)
  OBVIOUS
<1>4. step' = [step EXCEPT ![w] = r] /\ UNCHANGED <<service, git, token, ctx, passed, setbacks>>
  BY DEF Pick
<1> HIDE DEF r
<1> QED
  BY <1>2, <1>3, <1>4, StepReplaced

LEMMA PickClaimingGoes ==
    ASSUME TypeOK, NEW w \in Workers, NEW via \in Transitions, PickClaiming(w, via)
    PROVE  LET t == selectTaskForState(w) IN
           /\ t \in Tasks
           /\ Local(w) /\ UNCHANGED <<service, git, token, ctx, passed, setbacks>>
           /\ step'[w] \in Step /\ step'[w].via = via /\ step'[w].task = t
           /\ \/ status[t] = "todo" /\ step'[w].at = "claim"
              \/ status[t] = "in-progress" /\ step'[w].at = Provision(via, t)
<1> DEFINE t == selectTaskForState(w)
<1>1. t \in Tasks /\ status[t] \in {"todo", "in-progress"} /\ Eligible(w) \subseteq Tasks
  BY SelectedTask DEF PickClaiming
<1>2. t # NoTask
  BY DEF PickClaiming
<1>3. Provision(via, t) \in {"load", "checkout"}
  BY DEF Provision
<1>4. CASE status[t] = "todo"
  <2>1. Pick(w, via, "claim", t, Eligible(w) \ {t})
    BY <1>4 DEF PickClaiming
  <2> HIDE DEF t
  <2> QED
    BY <1>1, <1>2, <1>4, <2>1, PickGoes DEF Stages, t
<1>5. CASE status[t] # "todo"
  <2>1. Pick(w, via, Provision(via, t), t, {})
    BY <1>5 DEF PickClaiming
  <2> HIDE DEF t
  <2> QED
    BY <1>1, <1>2, <1>3, <1>5, <2>1, PickGoes DEF Stages, t
<1> QED
  BY <1>4, <1>5

LEMMA RunCheckGoes ==
    ASSUME TypeOK, NEW w \in Workers, RunCheck(w)
    PROVE  LET t == selectTaskForState(w) IN
           /\ Local(w) /\ UNCHANGED <<service, git, token, ctx, passed, setbacks>>
           /\ step'[w] \in Step /\ step'[w].via = "check" /\ step'[w].at = "checkout"
           /\ step'[w].task = t /\ step'[w].branch = BranchOf(t)
BY PickGoes, SelectedTask DEF RunCheck, Transitions, Stages

LEMMA TestsPassingGoes ==
    ASSUME TypeOK, NEW w \in Workers, TestsPassing(w)
    PROVE  /\ Local(w) /\ UNCHANGED <<service, git, token, ctx, passed, setbacks>>
           /\ step'[w] \in Step /\ step'[w].via = "pass" /\ step'[w].at = "main"
           /\ ctx[w].task # NoTask => step'[w].task = ctx[w].task
<1> DEFINE t == IF ctx[w].task # NoTask THEN ctx[w].task ELSE selectTaskForState(w)
<1>1. t \in Tasks \cup {NoTask}
  BY SelectedTask DEF TypeOK, Context
<1>2. Pick(w, "pass", "main", t, {})
  BY DEF TestsPassing
<1> QED
  BY <1>1, <1>2, PickGoes DEF Transitions, Stages

LEMMA MoveEnds ==
    ASSUME TypeOK, NEW w \in Workers, Idle(w), NEW place, Move(w, place)
    PROVE  /\ Local(w) /\ Ends(w) /\ UNCHANGED <<service, git, passed>>
           /\ token'[w] = place /\ ctx'[w] = Cleared
BY DEF Move, Local, Ends, Idle, TypeOK

-----------------------------------------------------------------------------
(* Types.                                                                  *)

LEMMA ChooseType ==
    ASSUME TypeOK, NEW w \in Workers, Choose(w)
    PROVE  TypeOK' /\ Local(w)
<1>1. CASE RefineIntoTasks(w) \/ NeedMoreTasks(w) \/ PickUpNextTask(w)
  <2>1. setbacks' \in 0..MaxSetbacks
    BY <1>1, SetbackType DEF RefineIntoTasks, NeedMoreTasks, PickUpNextTask, TypeOK
  <2>2. PICK place \in Places : Idle(w) /\ Move(w, place)
    BY <1>1, PlaceTypes DEF RefineIntoTasks, NeedMoreTasks, PickUpNextTask
  <2>3. Local(w)
    BY <2>2, MoveEnds
  <2> QED
    BY <2>1, <2>2, <2>3, PlaceTypes DEF Move, TypeOK, service, git
<1>2. ASSUME UNCHANGED <<service, git, token, ctx, passed, setbacks>>, Local(w)
      PROVE  TypeOK'
  BY <1>2 DEF Local, TypeOK, service, git
<1>3. CASE BeginImplementation(w) \/ Fix(w)
  BY <1>2, <1>3, PickClaimingGoes DEF BeginImplementation, Fix, Transitions
<1> QED
  BY <1>1, <1>2, <1>3, RunCheckGoes, TestsPassingGoes DEF Choose

LEMMA PutType ==
    ASSUME TypeOK, NEW t \in Tasks, NEW entity \in Entity, Put(t, entity)
    PROVE  /\ status' \in [Tasks -> {"todo", "in-progress", "done"}]
           /\ assignee' \in [Tasks -> Workers \cup {NoOne}]
           /\ branched' \subseteq Tasks
BY DEF Put, Entity, TypeOK

LEMMA WritesEntity ==
    ASSUME TypeOK, NEW w \in Workers, At(w, "write")
    PROVE  /\ step[w].task \in Tasks /\ step[w].entity \in Entity
           /\ [step[w].entity EXCEPT !.branched = TRUE] \in Entity
           /\ [step[w].entity EXCEPT !.status = "done"] \in Entity
<1>1. step[w] \in Step /\ step[w].at = "write"
  BY Busy DEF Stages
<1>2. step[w].task \in Tasks /\ step[w].entity \in Entity
  BY <1>1 DEF Step
<1> QED
  BY <1>2 DEF Entity

LEMMA NextPlaceType ==
    ASSUME TypeOK, NEW w \in Workers, ~Idle(w), ChecksLeft(w)
    PROVE  NextPlace(w) \in Places
<1>1. step[w].via \in Transitions
  BY InStep DEF Step
<1> QED
  BY <1>1, PlaceTypes DEF NextPlace, ChecksLeft, Transitions

LEMMA ClaimType ==
    ASSUME TypeOK, NEW w \in Workers, Claim(w)
    PROVE  TypeOK'
<1>1. Local(w) /\ setbacks' \in 0..MaxSetbacks
  BY ClaimGoes
<1>2. \/ /\ status' = [status EXCEPT ![step[w].task] = "in-progress"]
         /\ assignee' = [assignee EXCEPT ![step[w].task] = w]
      \/ UNCHANGED <<status, assignee>>
  BY DEF Claim
<1> QED
  BY <1>1, <1>2 DEF Local, Claim, TypeOK, git

LEMMA UpdateType ==
    ASSUME TypeOK, NEW w \in Workers, ChecksLeft(w),
           Load(w) \/ StoreBranch(w) \/ AppendLog(w) \/ Close(w)
    PROVE  TypeOK'
<1>1. CASE Load(w)
  BY <1>1, LoadGoes DEF Load, Local, TypeOK, service, git
<1>2. CASE StoreBranch(w)
  <2>1. At(w, "write") /\ Local(w) /\ setbacks' \in 0..MaxSetbacks
    BY <1>2, StoreBranchGoes, AnswerType DEF StoreBranch
  <2> QED
    BY <1>2, <2>1, WritesEntity, PutType DEF StoreBranch, Local, TypeOK, git
<1>3. CASE AppendLog(w)
  <2>1. Local(w) /\ ~Idle(w) /\ step[w].via = "check" /\ At(w, "write")
        /\ token' = [token EXCEPT ![w] = token[w] + 1]
    BY <1>3, LoggedEnds DEF AppendLog
  <2>2. token' \in [Workers -> Places]
    BY <2>1, PlaceTypes DEF ChecksLeft, TypeOK
  <2> QED
    BY <1>3, <2>1, <2>2, WritesEntity, PutType DEF AppendLog, Local, TypeOK, git
<1>4. CASE Close(w)
  <2>1. At(w, "write") /\ Local(w) /\ setbacks' \in 0..MaxSetbacks
    BY <1>4, CloseGoes DEF Close
  <2>2. passed' \in [Tasks -> SUBSET Checks]
    BY <1>4 DEF Close, TypeOK
  <2> QED
    BY <1>4, <2>1, <2>2, WritesEntity, PutType DEF Close, Local, TypeOK, git
<1> QED
  BY <1>1, <1>2, <1>3, <1>4

LEMMA CheckoutType ==
    ASSUME TypeOK, NEW w \in Workers, Checkout(w) \/ CheckoutMain(w)
    PROVE  TypeOK'
<1>1. CASE Checkout(w)
  BY <1>1, CheckoutGoes DEF Checkout, Local, TypeOK, service, git
<1>2. CASE CheckoutMain(w)
  BY <1>2, CheckoutMainGoes DEF CheckoutMain, Local, TypeOK, service
<1> QED
  BY <1>1, <1>2

LEMMA ActType ==
    ASSUME TypeOK, NEW w \in Workers, ChecksLeft(w), Runs(w) \/ Edits(w)
    PROVE  TypeOK'
<1>1. CASE Runs(w)
  <2>1. ~Idle(w) /\ At(w, "act")
    BY <1>1, Busy DEF Runs, Stages
  <2>2. token[w] + 1 \in Checks
    BY <1>1, <2>1, PlaceTypes DEF ChecksLeft, Runs
  <2>3. PICK verdict \in {"passed", "failed"} :
          /\ IF verdict = "failed" THEN Setback ELSE UNCHANGED setbacks
          /\ passed' = [t \in Tasks |-> IF t # head THEN passed[t]
                                        ELSE IF verdict = "passed"
                                        THEN passed[t] \cup {token[w] + 1}
                                        ELSE passed[t] \ {token[w] + 1}]
          /\ step' = [step EXCEPT ![w].at = "persist", ![w].verdict = verdict]
    BY <1>1 DEF Runs
  <2>4. setbacks' \in 0..MaxSetbacks
    BY <2>3, SetbackType DEF TypeOK
  <2>5. passed' \in [Tasks -> SUBSET Checks]
    BY <2>2, <2>3 DEF TypeOK
  <2>6. Local(w)
    BY <2>1, <2>3, RunsGoes
  <2> QED
    BY <1>1, <2>4, <2>5, <2>6 DEF Runs, Local, TypeOK, service, git
<1>2. CASE Edits(w)
  BY <1>2, EditsGoes DEF Edits, Local, TypeOK, service, git
<1> QED
  BY <1>1, <1>2

LEMMA ContextType ==
    ASSUME TypeOK, NEW w \in Workers, ChecksLeft(w), SaveContext(w) \/ Persist(w) \/ Clear(w)
    PROVE  TypeOK'
<1>1. CASE SaveContext(w)
  <2>1. step[w] \in Step
    BY <1>1, Busy DEF SaveContext, Stages
  <2>2. ctx' \in [Workers -> Context]
    BY <1>1, <2>1 DEF SaveContext, TypeOK, Context, Step
  <2> QED
    BY <1>1, <2>2, SaveContextGoes DEF SaveContext, Local, TypeOK, service, git
<1>2. CASE Persist(w)
  <2>1. step[w] \in Step /\ ~Idle(w)
    BY <1>2, Busy DEF Persist, Stages
  <2>2. ctx[w] \in Context /\ step[w].task \in Tasks \cup {NoTask} /\ step[w].verdict \in Verdicts
    BY <2>1 DEF TypeOK, Step
  <2>3. /\ [Cleared EXCEPT !.task = step[w].task] \in Context
        /\ [ctx[w] EXCEPT !.task = step[w].task] \in Context
        /\ \A e \in Verdicts :
             [task |-> step[w].task, verdict |-> step[w].verdict, e2e |-> e] \in Context
        /\ ctx[w].e2e \in Verdicts
    BY <2>2, PlaceTypes DEF Context
  <2>4. ctx' \in [Workers -> Context]
    BY <1>2, <2>2, <2>3 DEF Persist, TypeOK
  <2>5. token' \in [Workers -> Places]
    BY <1>2, <2>1, PersistGoes, AdvanceEnds, NextPlaceType DEF TypeOK
  <2> QED
    BY <1>2, <2>4, <2>5, PersistGoes DEF Persist, Local, TypeOK, service, git
<1>3. CASE Clear(w)
  <2>1. ~Idle(w)
    BY <1>3, Busy DEF Clear, Stages
  <2>2. token' \in [Workers -> Places]
    BY <1>3, <2>1, ClearEnds, AdvanceEnds, NextPlaceType DEF TypeOK
  <2> QED
    BY <1>3, <2>2, ClearEnds, PlaceTypes DEF Clear, Local, TypeOK, service, git
<1> QED
  BY <1>1, <1>2, <1>3

LEMMA FailsType ==
    ASSUME TypeOK, NEW w \in Workers, ChecksLeft(w), Fails(w)
    PROVE  TypeOK'
<1>1. CASE LogFails(w)
  <2>1. Local(w) /\ ~Idle(w) /\ step[w].via = "check"
        /\ token' = [token EXCEPT ![w] = token[w] + 1]
    BY <1>1, LoggedEnds
  <2>2. token' \in [Workers -> Places]
    BY <2>1, PlaceTypes DEF ChecksLeft, TypeOK
  <2> QED
    BY <1>1, <2>1, <2>2, SetbackType DEF LogFails, Local, TypeOK, service, git
<1>2. CASE Throws(w) \/ CrashAndRestart(w)
  <2>1. token' \in [Workers -> Places] /\ head' \in Tasks \cup {NoTask} /\ UNCHANGED created
    BY <1>2, PlaceTypes DEF Throws, CrashAndRestart, TypeOK, git
  <2> QED
    BY <1>2, <2>1, BreaksOff DEF Local, TypeOK, service
<1> QED
  BY <1>1, <1>2 DEF Fails

\* What a worker does leaves the tokens, steps and contexts of the others alone, and
\* its own transition until it is over.
LEMMA StepFrame ==
    ASSUME TypeOK, NEW w \in Workers, Choose(w) \/ Execute(w) \/ Fails(w)
    PROVE  /\ \A v \in Workers \ {w} :
                token'[v] = token[v] /\ step'[v] = step[v] /\ ctx'[v] = ctx[v]
           /\ \/ Choose(w)
              \/ Ends(w)
              \/ step'[w].via = step[w].via /\ token'[w] = token[w] /\ ~Idle(w)
<1>1. CASE Choose(w)
  <2>1. Local(w)
    BY <1>1, ChooseType
  <2>2. \/ \E place : Move(w, place)
        \/ UNCHANGED <<token, ctx>>
    BY <1>1 DEF Choose, RefineIntoTasks, NeedMoreTasks, PickUpNextTask, BeginImplementation,
       RunCheck, Fix, TestsPassing, PickClaiming, Pick
  <2> QED
    BY <1>1, <2>1, <2>2 DEF Local, Move, TypeOK
<1>2. CASE Claim(w)
  BY <1>2, ClaimGoes DEF Local, Goes, Claim
<1>3. CASE Load(w) \/ StoreBranch(w) \/ Checkout(w) \/ Edits(w) \/ CheckoutMain(w) \/ Close(w)
  <2>1. Local(w) /\ (Ends(w) \/ (step'[w].via = step[w].via /\ ~Idle(w)))
    BY <1>3, LoadGoes, StoreBranchGoes, CheckoutGoes, EditsGoes, CheckoutMainGoes, CloseGoes
       DEF Goes
  <2>2. UNCHANGED <<token, ctx>>
    BY <1>3 DEF Load, StoreBranch, Checkout, Edits, CheckoutMain, Close
  <2> QED
    BY <2>1, <2>2 DEF Local
<1>4. CASE SaveContext(w)
  BY <1>4, SaveContextGoes DEF Local, Goes, SaveContext, TypeOK
<1>5. CASE Runs(w)
  <2>1. Local(w) /\ Goes(w, "act", "persist") /\ UNCHANGED <<token, ctx>>
    BY <1>5, RunsGoes DEF Runs
  <2> QED
    BY <2>1 DEF Local, Goes
<1>6. CASE Persist(w)
  <2>1. \A v \in Workers \ {w} : ctx'[v] = ctx[v]
    BY <1>6 DEF Persist, TypeOK
  <2> QED
    BY <1>6, <2>1, PersistGoes, AdvanceEnds DEF Local, Goes, TypeOK
<1>7. CASE AppendLog(w) \/ LogFails(w)
  BY <1>7, LoggedEnds DEF Local, AppendLog, LogFails, TypeOK
<1>8. CASE Clear(w)
  <2>1. \A v \in Workers \ {w} : ctx'[v] = ctx[v]
    BY <1>8 DEF Clear, TypeOK
  <2> QED
    BY <1>8, <2>1, ClearEnds, AdvanceEnds DEF Local, TypeOK
<1>9. CASE Throws(w) \/ CrashAndRestart(w)
  <2>1. \A v \in Workers \ {w} : token'[v] = token[v]
    BY <1>9 DEF Throws, CrashAndRestart, TypeOK
  <2> QED
    BY <1>9, <2>1, BreaksOff DEF Local
<1> QED
  BY <1>1, <1>2, <1>3, <1>4, <1>5, <1>6, <1>7, <1>8, <1>9 DEF Execute, Fails

LEMMA ChooseChecksLeft ==
    ASSUME TypeOK, NEW w \in Workers, Choose(w)
    PROVE  ChecksLeft(w)'
<1>1. CASE RefineIntoTasks(w) \/ NeedMoreTasks(w) \/ PickUpNextTask(w)
  BY <1>1, MoveEnds DEF RefineIntoTasks, NeedMoreTasks, PickUpNextTask, Ends, ChecksLeft, Idle
<1>2. CASE BeginImplementation(w) \/ Fix(w) \/ TestsPassing(w)
  <2>1. step'[w].via # "check"
    BY <1>2, PickClaimingGoes, TestsPassingGoes
       DEF BeginImplementation, Fix, Transitions
  <2> QED
    BY <2>1 DEF ChecksLeft
<1>3. CASE RunCheck(w)
  BY <1>3 DEF RunCheck, Pick, ChecksLeft
<1> QED
  BY <1>1, <1>2, <1>3 DEF Choose

LEMMA TypeInvStep ==
    ASSUME TypeInv, [Next]_vars
    PROVE  TypeInv'
<1>1. CASE UNCHANGED vars
  BY <1>1 DEF vars, TypeInv, TypeOK, ChecksLeft, Idle
<1>2. ASSUME NEW w \in Workers, Choose(w) \/ Execute(w) \/ Fails(w)
      PROVE  TypeInv'
  <2>1. TypeOK'
    <3>1. CASE Execute(w)
      BY <3>1, ClaimType, UpdateType, CheckoutType, ActType, ContextType DEF Execute, TypeInv
    <3> QED
      BY <1>2, <3>1, ChooseType, FailsType DEF TypeInv
  <2>2. ASSUME NEW v \in Workers
        PROVE  ChecksLeft(v)'
    <3>1. CASE v # w
      BY <1>2, <3>1, StepFrame DEF TypeInv, ChecksLeft, Idle
    <3>2. CASE v = w /\ Choose(w)
      BY <3>2, ChooseChecksLeft DEF TypeInv
    <3>3. CASE v = w /\ ~Choose(w)
      BY <1>2, <3>3, StepFrame DEF TypeInv, ChecksLeft, Idle, Ends
    <3> QED
      BY <3>1, <3>2, <3>3
  <2> QED
    BY <2>1, <2>2 DEF TypeInv
<1> QED
  BY <1>1, <1>2 DEF Next

LEMMA TypeInvInit == Init => TypeInv
BY RunnerAssumption, PlaceTypes
   DEF Init, TypeInv, TypeOK, ChecksLeft, Idle, NoTask, Tasks

\* The variables keep their types, for any number of workers: no check is run
\* after the last one, and what a begin, an update or a branch refers to is a task.
THEOREM RunnerTypeCorrect == Spec => []TypeOK
<1>1. TypeInv => TypeOK
  BY DEF TypeInv
<1> QED
  BY <1>1, TypeInvInit, TypeInvStep, PTL DEF Spec

-----------------------------------------------------------------------------
(* What the only worker does keeps WorkerInv.                              *)

LEMMA IdleInv ==
    ASSUME NEW w \in Workers, InHand(w)', AtEnd(w)', PassedSoFar(w)', E2eKnown(w)', Ends(w)
    PROVE  WorkerInv(w)'
BY DEF WorkerInv, Idle, Ends

\* What WorkerInv says of the data is kept where the data is.
LEMMA SameData ==
    ASSUME NEW w \in Workers, WorkerInv(w), UNCHANGED <<status, token, ctx, passed>>
    PROVE  /\ InHand(w)' /\ AtEnd(w)' /\ PassedSoFar(w)' /\ E2eKnown(w)'
           /\ QaPassed(w)' = QaPassed(w)
BY DEF WorkerInv, InHand, AtEnd, PassedSoFar, E2eKnown, MayGoOn, QaPassed

\* A transition goes on.
LEMMA ViaKept ==
    ASSUME NEW w \in Workers, NEW from, NEW to, ViaInv(w), Goes(w, from, to),
           UNCHANGED token, QaPassed(w)' = QaPassed(w),
           step[w].via \in {"check", "pass"} => UNCHANGED ctx,
           step[w].via = "check"
             => IF to \in {"load", "write"} THEN from \in {"load", "write"} /\ UNCHANGED passed
                ELSE from \notin {"load", "write"}
    PROVE  ViaInv(w)'
BY DEF ViaInv, Goes, Updating, MayGoOn, Recorded

\* While a task is begun or fixed no verdict lets the token go on.
LEMMA Repairing ==
    ASSUME NEW w \in Workers, ViaInv(w), step[w].via \in {"begin", "fix"}
    PROVE  ~ (token[w] \in 0..LastCheck /\ MayGoOn(w))
<1>1. CASE step[w].via = "begin"
  BY <1>1, PlaceFacts DEF ViaInv
<1>2. CASE step[w].via = "fix"
  BY <1>2, PlaceFacts DEF ViaInv, MayGoOn
<1> QED
  BY <1>1, <1>2

LEMMA ViaOf ==
    ASSUME TypeInv, NEW w \in Workers, WorkerInv(w), NEW stage \in Stages, At(w, stage)
    PROVE  /\ ViaInv(w) /\ StageInv(w) /\ ~Idle(w) /\ step[w] \in Step /\ step[w].at = stage
           /\ step[w].via \in {"begin", "fix"} \/ step[w].via = "check" \/ step[w].via = "pass"
<1>1. ~Idle(w) /\ step[w] \in Step /\ step[w].at = stage
  BY Busy DEF TypeInv
<1> QED
  BY <1>1 DEF WorkerInv, Step, Transitions

LEMMA MoveInv ==
    ASSUME TypeInv, NEW w \in Workers, Idle(w),
           NEW place \in {Planning, TasksPrepared, TaskCompleted}, Move(w, place)
    PROVE  WorkerInv(w)'
<1>1. token'[w] = place /\ Ends(w)
  BY MoveEnds DEF TypeInv
<1>2. place \notin 0..LastCheck /\ place # E2eCheck /\ place # LastCheck
  BY PlaceFacts
<1>3. InHand(w)' /\ AtEnd(w)' /\ PassedSoFar(w)' /\ E2eKnown(w)'
  BY <1>1, <1>2, PlaceFacts DEF InHand, AtEnd, PassedSoFar, E2eKnown
<1> QED
  BY <1>1, <1>3, IdleInv

LEMMA PickClaimingInv ==
    ASSUME TypeInv, NEW w \in Workers, WorkerInv(w),
           NEW via \in {"begin", "fix"}, PickClaiming(w, via),
           via = "begin" => token[w] = TasksPrepared,
           via = "fix" => token[w] \in Checks /\ ~QaPassed(w)
    PROVE  WorkerInv(w)'
<1> DEFINE t == selectTaskForState(w)
<1>1. /\ t \in Tasks
      /\ UNCHANGED <<service, token, ctx, passed>>
      /\ step'[w].via = via /\ step'[w].task = t
      /\ \/ status[t] = "todo" /\ step'[w].at = "claim"
         \/ status[t] = "in-progress" /\ step'[w].at = Provision(via, t)
  BY PickClaimingGoes DEF TypeInv, Transitions
<1> HIDE DEF t
<1>2. UNCHANGED <<status, token, ctx, passed>>
  BY <1>1 DEF service
<1>3. Provision(via, t) \in {"load", "checkout"} /\ (Provision(via, t) = "load" => via = "begin")
  BY DEF Provision
<1>4. ViaInv(w)'
  BY <1>1, <1>2, SameData DEF ViaInv
<1>5. StageInv(w)'
  BY <1>1, <1>2, <1>3 DEF StageInv, Updating
<1> QED
  BY <1>2, <1>4, <1>5, SameData DEF WorkerInv

LEMMA RunCheckInv ==
    ASSUME TypeInv, NEW w \in Workers, WorkerInv(w), RunCheck(w)
    PROVE  WorkerInv(w)'
<1>1. token[w] \in 0..(LastCheck - 1) /\ MayGoOn(w)
  BY DEF RunCheck, MayGoOn
<1>2. ctx[w].task \in Tasks /\ status[ctx[w].task] = "in-progress"
  BY <1>1 DEF WorkerInv, InHand
<1>3. /\ step'[w].at = "checkout" /\ step'[w].via = "check" /\ step'[w].task = ctx[w].task
      /\ UNCHANGED <<status, token, ctx, passed>>
  BY <1>2, SelectsOwn, RunCheckGoes DEF service, TypeInv
<1>4. ViaInv(w)'
  BY <1>1, <1>3 DEF ViaInv, MayGoOn, QaPassed, Updating
<1>5. StageInv(w)'
  BY <1>2, <1>3 DEF StageInv, Updating
<1> QED
  BY <1>3, <1>4, <1>5, SameData DEF WorkerInv

LEMMA TestsPassingInv ==
    ASSUME TypeInv, NEW w \in Workers, WorkerInv(w), TestsPassing(w)
    PROVE  WorkerInv(w)'
<1>1. token[w] = LastCheck /\ QaPassed(w)
  BY DEF TestsPassing
<1>2. ctx[w].task \in Tasks /\ ctx[w].task # NoTask
  BY <1>1, PlaceFacts DEF WorkerInv, AtEnd
<1>3. /\ step'[w].at = "main" /\ step'[w].via = "pass" /\ step'[w].task = ctx[w].task
      /\ UNCHANGED <<status, token, ctx, passed>>
  BY <1>2, TestsPassingGoes DEF service, TypeInv
<1>4. ViaInv(w)'
  BY <1>1, <1>3, SameData DEF ViaInv
<1>5. StageInv(w)'
  BY <1>2, <1>3 DEF StageInv, Updating
<1> QED
  BY <1>3, <1>4, <1>5, SameData DEF WorkerInv

LEMMA ChooseInv ==
    ASSUME TypeInv, NEW w \in Workers, WorkerInv(w), Choose(w)
    PROVE  WorkerInv(w)'
<1>1. CASE RefineIntoTasks(w) \/ NeedMoreTasks(w) \/ PickUpNextTask(w)
  BY <1>1, MoveInv DEF RefineIntoTasks, NeedMoreTasks, PickUpNextTask
<1>2. CASE BeginImplementation(w)
  BY <1>2, PickClaimingInv DEF BeginImplementation
<1>3. CASE Fix(w)
  BY <1>3, PickClaimingInv DEF Fix
<1> QED
  BY <1>1, <1>2, <1>3, RunCheckInv, TestsPassingInv DEF Choose

LEMMA ClaimInv ==
    ASSUME TypeInv, NEW w \in Workers, WorkerInv(w), Claim(w)
    PROVE  WorkerInv(w)'
<1> DEFINE t == step[w].task
<1>1. ViaInv(w) /\ StageInv(w) /\ step[w].via \in {"begin", "fix"} /\ t \in Tasks
  <2>1. At(w, "claim")
    BY DEF Claim
  <2> QED
    BY <2>1, ViaOf DEF StageInv, Stages
<1>2. ~ (token[w] \in 0..LastCheck /\ MayGoOn(w))
  BY <1>1, Repairing
<1>3. UNCHANGED <<head, token, ctx, passed>>
  BY DEF Claim, git
<1>4. \A u \in Tasks : status[u] = "in-progress" => status'[u] = "in-progress"
  BY DEF Claim, TypeInv, TypeOK
<1>5. MayGoOn(w)' = MayGoOn(w) /\ QaPassed(w)' = QaPassed(w)
  BY <1>3 DEF MayGoOn, QaPassed
<1>6. InHand(w)' /\ AtEnd(w)' /\ PassedSoFar(w)' /\ E2eKnown(w)'
  BY <1>2, <1>3, <1>4, <1>5, PlaceFacts
     DEF WorkerInv, InHand, AtEnd, PassedSoFar, E2eKnown, MayGoOn
<1>7. CASE Ends(w)
  BY <1>6, <1>7, IdleInv
<1>8. ASSUME step'[w].via = step[w].via, StageInv(w)'
      PROVE  WorkerInv(w)'
  <2>1. ViaInv(w)'
    BY <1>1, <1>3, <1>5, <1>8 DEF ViaInv
  <2> QED
    BY <1>6, <1>8, <2>1 DEF WorkerInv
<1>9. CASE Claimable(t, w) /\ Goes(w, "claim", Provision(step[w].via, t))
  <2>1. status'[t] = "in-progress"
    BY <1>1, <1>9 DEF Claim, TypeInv, TypeOK
  <2>2. /\ Provision(step[w].via, t) \in {"load", "checkout"}
        /\ Provision(step[w].via, t) = "load" => step[w].via = "begin"
    BY DEF Provision
  <2>3. StageInv(w)'
    BY <1>1, <1>9, <2>1, <2>2 DEF StageInv, Updating, Goes
  <2> QED
    BY <1>8, <1>9, <2>3 DEF Goes
<1>10. CASE step'[w].at = "claim" /\ step'[w].via = step[w].via /\ step'[w].task \in Tasks
  <2>1. StageInv(w)'
    BY <1>1, <1>10 DEF StageInv, Updating
  <2> QED
    BY <1>8, <1>10, <2>1
<1> QED
  BY <1>7, <1>9, <1>10, ClaimGoes DEF TypeInv

\* What an update that nothing has overtaken does.
LEMMA PutBack ==
    ASSUME TypeOK, NEW t \in Tasks
    PROVE  /\ Put(t, Stored(t)) => UNCHANGED service
           /\ Put(t, [Stored(t) EXCEPT !.branched = TRUE]) => UNCHANGED <<status, assignee>>
           /\ Put(t, [Stored(t) EXCEPT !.status = "done"])
              => status' = [status EXCEPT ![t] = "done"] /\ UNCHANGED <<assignee, branched>>
<1>1. [status EXCEPT ![t] = status[t]] = status /\ [assignee EXCEPT ![t] = assignee[t]] = assignee
  BY DEF TypeOK
<1>2. (IF t \in branched THEN branched \cup {t} ELSE branched \ {t}) = branched
  OBVIOUS
<1>3. ASSUME Put(t, Stored(t)) PROVE UNCHANGED service
  BY <1>1, <1>2, <1>3 DEF Put, Stored, service
<1>4. ASSUME Put(t, [Stored(t) EXCEPT !.branched = TRUE]) PROVE UNCHANGED <<status, assignee>>
  BY <1>1, <1>4 DEF Put, Stored
<1>5. ASSUME Put(t, [Stored(t) EXCEPT !.status = "done"])
      PROVE  status' = [status EXCEPT ![t] = "done"] /\ UNCHANGED <<assignee, branched>>
  BY <1>1, <1>2, <1>5 DEF Put, Stored
<1> QED
  BY <1>3, <1>4, <1>5

LEMMA LoadInv ==
    ASSUME TypeInv, NEW w \in Workers, WorkerInv(w), Load(w)
    PROVE  WorkerInv(w)'
<1>1. ViaInv(w) /\ StageInv(w) /\ step[w].at = "load"
  BY ViaOf DEF Load, Stages
<1>2. Goes(w, "load", "write") /\ step'[w].entity = Stored(step[w].task)
  BY LoadGoes DEF TypeInv
<1>3. UNCHANGED <<status, assignee, branched, head, token, ctx, passed>>
  BY DEF Load, service, git
<1>4. ViaInv(w)'
  BY <1>1, <1>2, <1>3, SameData, ViaKept
<1>5. StageInv(w)'
  BY <1>1, <1>2, <1>3 DEF StageInv, Updating, Goes, Stored
<1> QED
  BY <1>3, <1>4, <1>5, SameData DEF WorkerInv

LEMMA StoreBranchInv ==
    ASSUME TypeInv, NEW w \in Workers, WorkerInv(w), StoreBranch(w)
    PROVE  WorkerInv(w)' /\ UNCHANGED <<status, assignee>>
<1>1. ViaInv(w) /\ StageInv(w) /\ step[w].at = "write" /\ step[w].via = "begin"
  BY ViaOf DEF StoreBranch, Stages
<1>2. Goes(w, "write", "checkout") \/ Ends(w)
  BY StoreBranchGoes DEF TypeInv
<1>3. UNCHANGED <<status, assignee>>
  BY <1>1, PutBack DEF StageInv, StoreBranch, TypeInv
<1>4. UNCHANGED <<status, head, token, ctx, passed>>
  BY <1>3 DEF StoreBranch, git
<1>5. CASE Goes(w, "write", "checkout")
  <2>1. ViaInv(w)'
    BY <1>1, <1>4, <1>5, SameData, ViaKept
  <2>2. StageInv(w)'
    BY <1>1, <1>4, <1>5 DEF StageInv, Updating, Goes
  <2> QED
    BY <1>3, <1>4, <2>1, <2>2, SameData DEF WorkerInv
<1> QED
  BY <1>2, <1>3, <1>4, <1>5, SameData, IdleInv

LEMMA CheckoutInv ==
    ASSUME TypeInv, NEW w \in Workers, WorkerInv(w), Checkout(w)
    PROVE  WorkerInv(w)'
<1>1. ViaInv(w) /\ StageInv(w) /\ step[w].at = "checkout"
  BY ViaOf DEF Checkout, Stages
<1>2. UNCHANGED <<status, token, ctx, passed>>
  BY DEF Checkout, service
<1>3. (Goes(w, "checkout", "save") /\ head' = step[w].task) \/ Ends(w)
  BY CheckoutGoes DEF TypeInv
<1>4. CASE Goes(w, "checkout", "save") /\ head' = step[w].task
  <2>1. ViaInv(w)'
    BY <1>1, <1>2, <1>4, SameData, ViaKept
  <2>2. StageInv(w)'
    BY <1>1, <1>2, <1>4 DEF StageInv, Updating, Goes
  <2> QED
    BY <1>2, <2>1, <2>2, SameData DEF WorkerInv
<1> QED
  BY <1>2, <1>3, <1>4, SameData, IdleInv

LEMMA SaveContextInv ==
    ASSUME TypeInv, NEW w \in Workers, WorkerInv(w), SaveContext(w)
    PROVE  WorkerInv(w)'
<1>1. /\ ViaInv(w) /\ StageInv(w) /\ step[w].at = "save" /\ step[w].via # "pass"
      /\ status[step[w].task] = "in-progress" /\ step[w].task \in Tasks
      /\ step[w].via \in {"begin", "fix"} \/ step[w].via = "check"
  BY ViaOf DEF SaveContext, StageInv, Stages
<1>2. UNCHANGED <<status, head, token, passed>>
  BY DEF SaveContext, service, git
<1>3. /\ ctx'[w].task = step[w].task
      /\ ctx'[w].verdict = ctx[w].verdict /\ ctx'[w].e2e = ctx[w].e2e
  BY DEF SaveContext, TypeInv, TypeOK, Context
<1>4. QaPassed(w)' = QaPassed(w) /\ MayGoOn(w)' = MayGoOn(w)
  BY <1>2, <1>3 DEF QaPassed, MayGoOn
<1>5. step[w].via = "check" => UNCHANGED ctx
  BY <1>1 DEF ViaInv, SaveContext, TypeInv, TypeOK, Context
<1>6. InHand(w)' /\ AtEnd(w)' /\ PassedSoFar(w)' /\ E2eKnown(w)'
  <2>1. CASE step[w].via = "check"
    BY <1>2, <1>5, <2>1, SameData
  <2>2. CASE step[w].via \in {"begin", "fix"}
    <3>1. ~ (token[w] \in 0..LastCheck /\ MayGoOn(w))
      BY <1>1, <2>2, Repairing
    <3> QED
      BY <1>1, <1>2, <1>3, <1>4, <3>1, PlaceFacts
         DEF WorkerInv, InHand, AtEnd, PassedSoFar, E2eKnown, MayGoOn
  <2> QED
    BY <1>1, <2>1, <2>2
<1>7. CASE Goes(w, "save", "act")
  <2>1. ViaInv(w)'
    BY <1>1, <1>2, <1>4, <1>5, <1>7, ViaKept
  <2>2. StageInv(w)'
    BY <1>1, <1>2, <1>7 DEF StageInv, Updating, Goes
  <2> QED
    BY <1>6, <2>1, <2>2 DEF WorkerInv
<1> QED
  BY <1>6, <1>7, IdleInv, SaveContextGoes DEF TypeInv

LEMMA RunsInv ==
    ASSUME TypeInv, NEW w \in Workers, WorkerInv(w), Runs(w)
    PROVE  WorkerInv(w)'
<1>1. /\ ViaInv(w) /\ StageInv(w) /\ step[w].at = "act" /\ step[w].via = "check"
      /\ step[w].task \in Tasks /\ status[step[w].task] = "in-progress"
      /\ head = step[w].task /\ token[w] \in 0..(LastCheck - 1)
      /\ step[w].task = ctx[w].task
  BY ViaOf DEF Runs, StageInv, ViaInv, Stages
<1>2. PICK verdict \in {"passed", "failed"} :
        /\ passed' = [t \in Tasks |-> IF t # head THEN passed[t]
                                      ELSE IF verdict = "passed"
                                      THEN passed[t] \cup {token[w] + 1}
                                      ELSE passed[t] \ {token[w] + 1}]
        /\ step' = [step EXCEPT ![w].at = "persist", ![w].verdict = verdict]
  BY DEF Runs
<1>3. UNCHANGED <<status, head, token, ctx>>
  BY DEF Runs, service, git
<1>4. Goes(w, "act", "persist") /\ step'[w].verdict = verdict
  BY <1>2, RunsGoes DEF Runs, TypeInv
<1>5. MayGoOn(w)' = MayGoOn(w) /\ QaPassed(w)' = QaPassed(w)
  BY <1>3 DEF MayGoOn, QaPassed
<1>6. InHand(w)' /\ AtEnd(w)' /\ E2eKnown(w)'
  BY <1>3, <1>5 DEF WorkerInv, InHand, AtEnd, E2eKnown
<1>7. PassedSoFar(w)'
  <2>1. token[w] + 1 \notin 1..token[w]
    BY <1>1
  <2>2. PassedSoFar(w)
    BY DEF WorkerInv
  <2> QED
    BY <1>1, <1>2, <1>3, <1>5, <2>1, <2>2 DEF PassedSoFar
<1>8. ViaInv(w)'
  BY <1>1, <1>3, <1>4, <1>5, ViaKept
<1>9. StageInv(w)'
  <2>1. verdict = "passed" => token'[w] + 1 \in passed'[step[w].task]
    BY <1>1, <1>2, <1>3
  <2> QED
    BY <1>1, <1>3, <1>4, <2>1 DEF StageInv, Updating, Goes
<1> QED
  BY <1>6, <1>7, <1>8, <1>9 DEF WorkerInv

LEMMA EditsInv ==
    ASSUME TypeInv, NEW w \in Workers, WorkerInv(w), Edits(w)
    PROVE  WorkerInv(w)'
<1>1. /\ ViaInv(w) /\ StageInv(w) /\ step[w].at = "act" /\ step[w].via \in {"begin", "fix"}
      /\ status[step[w].task] = "in-progress"
  BY ViaOf DEF Edits, StageInv, Stages
<1>2. ~ (token[w] \in 0..LastCheck /\ MayGoOn(w))
  BY <1>1, Repairing
<1>3. UNCHANGED <<status, head, token, ctx>> /\ Goes(w, "act", "persist")
  BY EditsGoes DEF Edits, service, git, TypeInv
<1>4. MayGoOn(w)' = MayGoOn(w) /\ QaPassed(w)' = QaPassed(w)
  BY <1>3 DEF MayGoOn, QaPassed
<1>5. InHand(w)' /\ AtEnd(w)' /\ PassedSoFar(w)' /\ E2eKnown(w)'
  BY <1>2, <1>3, <1>4 DEF WorkerInv, InHand, AtEnd, PassedSoFar, E2eKnown
<1>6. ViaInv(w)'
  BY <1>1, <1>3, <1>4, ViaKept
<1>7. StageInv(w)'
  BY <1>1, <1>3 DEF StageInv, Updating, Goes
<1> QED
  BY <1>5, <1>6, <1>7 DEF WorkerInv

LEMMA PersistCheckInv ==
    ASSUME TypeInv, NEW w \in Workers, WorkerInv(w), Persist(w), step[w].via = "check"
    PROVE  WorkerInv(w)'
<1> DEFINE t == step[w].task
           verdict == step[w].verdict
<1>1. /\ token[w] \in 0..(LastCheck - 1) /\ MayGoOn(w)
      /\ StageInv(w) /\ t = ctx[w].task /\ t \in Tasks /\ status[t] = "in-progress"
      /\ verdict \in {"passed", "failed"}
      /\ verdict = "passed" => token[w] + 1 \in passed[t]
  <2>1. ViaInv(w) /\ StageInv(w) /\ step[w] \in Step /\ step[w].at = "persist"
    BY ViaOf DEF Persist, Stages
  <2>2. verdict \in Verdicts
    BY <2>1 DEF Step
  <2> QED
    BY <2>1, <2>2 DEF ViaInv, StageInv, Verdicts, Updating
<1>2. 1..token[w] \subseteq passed[t]
  BY <1>1, PlaceFacts DEF WorkerInv, PassedSoFar
<1>3. /\ ctx'[w].task = t /\ ctx'[w].verdict = verdict
      /\ ctx'[w].e2e = IF token[w] + 1 = E2eCheck THEN verdict ELSE ctx[w].e2e
  <2>1. ctx'[w] = [task |-> t, verdict |-> verdict,
                   e2e |-> IF token[w] + 1 = E2eCheck THEN verdict ELSE ctx[w].e2e]
    BY DEF Persist, TypeInv, TypeOK
  <2> QED
    BY <2>1
<1>4. UNCHANGED <<status, token, head, passed>>
  BY PersistGoes DEF Persist, service, git, TypeInv
<1>5. InHand(w)' /\ PassedSoFar(w)'
  BY <1>1, <1>2, <1>3, <1>4 DEF InHand, PassedSoFar
<1>6. AtEnd(w)'
  BY <1>1, <1>4, PlaceFacts DEF AtEnd
<1>7. E2eKnown(w)'
  <2>1. token[w] = E2eCheck => token[w] + 1 # E2eCheck
    BY <1>1
  <2> QED
    BY <1>3, <1>4, <2>1 DEF WorkerInv, E2eKnown
<1>8. CASE Goes(w, "persist", "load")
  <2>1. verdict = "passed" => 1..(token[w] + 1) \subseteq passed[t]
    <3>1. 1..(token[w] + 1) \subseteq 1..token[w] \cup {token[w] + 1}
      BY <1>1
    <3> QED
      BY <1>1, <1>2, <3>1
  <2>2. Recorded(w)'
    BY <1>1, <1>3, <1>4, <1>8, <2>1 DEF Recorded, Goes
  <2>3. ViaInv(w)'
    BY <1>1, <1>3, <1>4, <1>8, <2>2 DEF ViaInv, Updating, Goes
  <2>4. StageInv(w)'
    BY <1>1, <1>4, <1>8 DEF StageInv, Updating, Goes
  <2> QED
    BY <1>5, <1>6, <1>7, <2>3, <2>4 DEF WorkerInv
<1> QED
  BY <1>5, <1>6, <1>7, <1>8, IdleInv, PersistGoes DEF TypeInv

LEMMA PersistInv ==
    ASSUME TypeInv, NEW w \in Workers, WorkerInv(w), Persist(w)
    PROVE  WorkerInv(w)'
<1> DEFINE t == step[w].task
<1>1. /\ ViaInv(w) /\ t \in Tasks /\ status[t] = "in-progress"
      /\ step[w].via \in {"begin", "fix"} \/ step[w].via = "check"
  BY ViaOf DEF Persist, StageInv, Stages
<1>2. UNCHANGED <<status, passed>>
  BY DEF Persist, service
<1>3. CASE step[w].via \in {"begin", "fix"}
  <2>1. ctx'[w].task = t
    BY <1>3 DEF Persist, TypeInv, TypeOK, Context, Cleared
  <2>2. Ends(w) /\ (token'[w] = token[w] \/ token'[w] = TaskInProgress)
    BY <1>3, PersistGoes, AdvanceEnds DEF NextPlace, TypeInv
  <2>3. CASE token'[w] = TaskInProgress
    <3>1. TaskInProgress # LastCheck /\ TaskInProgress # E2eCheck /\ 1..TaskInProgress = {}
      BY RunnerAssumption DEF TaskInProgress
    <3>2. InHand(w)' /\ AtEnd(w)' /\ PassedSoFar(w)' /\ E2eKnown(w)'
      BY <1>1, <1>2, <2>1, <2>3, <3>1 DEF InHand, AtEnd, PassedSoFar, E2eKnown
    <3> QED
      BY <2>2, <3>2, IdleInv
  <2>4. CASE token'[w] = token[w] /\ step[w].via = "begin"
    <3>1. token[w] \notin 0..LastCheck /\ token[w] # LastCheck /\ token[w] # E2eCheck
      BY <1>1, <2>4, PlaceFacts DEF ViaInv
    <3>2. InHand(w)' /\ AtEnd(w)' /\ PassedSoFar(w)' /\ E2eKnown(w)'
      BY <2>4, <3>1, PlaceFacts DEF InHand, AtEnd, PassedSoFar, E2eKnown
    <3> QED
      BY <2>2, <3>2, IdleInv
  <2>5. CASE token'[w] = token[w] /\ step[w].via = "fix"
    <3>1. ctx'[w].verdict = ctx[w].verdict /\ ctx'[w].e2e = ctx[w].e2e
      BY <2>5 DEF Persist, TypeInv, TypeOK, Context
    <3>2. ~QaPassed(w)' /\ ~MayGoOn(w)'
      BY <1>1, <2>5, <3>1, PlaceFacts DEF ViaInv, QaPassed, MayGoOn
    <3>3. InHand(w)' /\ AtEnd(w)' /\ PassedSoFar(w)' /\ E2eKnown(w)'
      BY <1>1, <1>2, <2>1, <2>5, <3>1, <3>2
         DEF InHand, AtEnd, PassedSoFar, E2eKnown, WorkerInv
    <3> QED
      BY <2>2, <3>3, IdleInv
  <2> QED
    BY <1>3, <2>2, <2>3, <2>4, <2>5
<1> QED
  BY <1>1, <1>3, PersistCheckInv

\* The token moves after a check; the log, written or not, has changed nothing.
LEMMA LoggedInv ==
    ASSUME TypeInv, NEW w \in Workers, WorkerInv(w), AppendLog(w) \/ LogFails(w)
    PROVE  WorkerInv(w)' /\ UNCHANGED <<service, ctx>>
<1> DEFINE t == step[w].task
<1>1. /\ ~Idle(w) /\ Updating(w) /\ step[w].via = "check" /\ t \in Tasks /\ Ends(w)
      /\ token'[w] = token[w] + 1
  BY LoggedEnds DEF TypeInv
<1>2. /\ StageInv(w) /\ Recorded(w) /\ token[w] \in 0..(LastCheck - 1)
      /\ t = ctx[w].task /\ status[t] = "in-progress"
  BY <1>1 DEF WorkerInv, ViaInv, StageInv, Updating
<1>3. UNCHANGED service
  <2>1. CASE AppendLog(w)
    <3>1. step[w].entity = Stored(t)
      BY <1>2, <2>1 DEF AppendLog, At, StageInv
    <3> QED
      BY <1>1, <2>1, <3>1, PutBack DEF AppendLog, TypeInv
  <2>2. CASE LogFails(w)
    BY <2>2 DEF LogFails
  <2> QED
    BY <2>1, <2>2
<1>4. UNCHANGED <<status, ctx, passed>>
  BY <1>3 DEF AppendLog, LogFails, service
<1>5. ctx[w].verdict \in {"passed", "failed"} /\ ctx[w].e2e \in Verdicts
  BY <1>2 DEF Recorded, TypeInv, TypeOK, Context, Verdicts
<1>6. QaPassed(w)' => ctx[w].verdict = "passed"
  BY <1>1, <1>2, <1>4, <1>5 DEF QaPassed, Recorded
<1>7. token'[w] # TaskInProgress
  BY <1>1, <1>2 DEF TaskInProgress
<1>8. E2eKnown(w)'
  BY <1>1, <1>2, <1>4 DEF E2eKnown, Recorded
<1>9. InHand(w)' /\ AtEnd(w)'
  BY <1>1, <1>2, <1>4 DEF InHand, AtEnd
<1>10. PassedSoFar(w)'
  BY <1>1, <1>2, <1>4, <1>6, <1>7 DEF PassedSoFar, MayGoOn, Recorded
<1> QED
  BY <1>1, <1>3, <1>4, <1>8, <1>9, <1>10, IdleInv

LEMMA CheckoutMainInv ==
    ASSUME TypeInv, NEW w \in Workers, WorkerInv(w), CheckoutMain(w)
    PROVE  WorkerInv(w)'
<1>1. ViaInv(w) /\ StageInv(w) /\ step[w].via = "pass" /\ step[w].task \in Tasks
  BY ViaOf DEF CheckoutMain, StageInv, Stages
<1>2. UNCHANGED <<status, token, ctx, passed>>
  BY DEF CheckoutMain, service
<1>3. Goes(w, "main", "load")
  BY <1>1, CheckoutMainGoes, PlaceFacts DEF TypeInv
<1>4. ViaInv(w)'
  BY <1>1, <1>2, <1>3, SameData, ViaKept
<1>5. StageInv(w)'
  BY <1>1, <1>2, <1>3 DEF StageInv, Updating, Goes
<1> QED
  BY <1>2, <1>4, <1>5, SameData DEF WorkerInv

LEMMA CloseInv ==
    ASSUME TypeInv, NEW w \in Workers, WorkerInv(w), Close(w)
    PROVE  /\ WorkerInv(w)'
           /\ status' = [status EXCEPT ![step[w].task] = "done"]
           /\ UNCHANGED <<assignee, branched>>
<1>1. /\ ViaInv(w) /\ StageInv(w) /\ step[w].at = "write" /\ step[w].via = "pass"
      /\ token[w] = LastCheck /\ step[w].task = ctx[w].task /\ step[w].task \in Tasks
  BY ViaOf DEF Close, StageInv, ViaInv, Stages
<1>2. UNCHANGED <<token, ctx>>
  BY DEF Close
<1>3. status' = [status EXCEPT ![step[w].task] = "done"] /\ UNCHANGED <<assignee, branched>>
  BY <1>1, PutBack DEF StageInv, Close, TypeInv
<1>4. status'[step[w].task] = "done"
  BY <1>1, <1>3 DEF TypeInv, TypeOK
<1>5. QaPassed(w)' = QaPassed(w)
  BY <1>2 DEF QaPassed
<1>6. InHand(w)' /\ AtEnd(w)' /\ PassedSoFar(w)' /\ E2eKnown(w)'
  BY <1>1, <1>2, <1>4, PlaceFacts DEF InHand, AtEnd, PassedSoFar, E2eKnown
<1>7. CASE Goes(w, "write", "clear")
  <2>1. ViaInv(w)'
    BY <1>1, <1>2, <1>5, <1>7, ViaKept
  <2>2. StageInv(w)'
    BY <1>1, <1>4, <1>7 DEF StageInv, Updating, Goes
  <2> QED
    BY <1>3, <1>6, <2>1, <2>2 DEF WorkerInv
<1> QED
  BY <1>3, <1>6, <1>7, IdleInv, CloseGoes DEF TypeInv

LEMMA ClearInv ==
    ASSUME TypeInv, NEW w \in Workers, WorkerInv(w), Clear(w)
    PROVE  WorkerInv(w)'
<1>1. step[w].via = "pass" /\ token[w] = LastCheck
  BY ViaOf DEF Clear, StageInv, ViaInv, Stages
<1>2. Ends(w) /\ (token'[w] = LastCheck \/ token'[w] = TaskCompleted)
  BY <1>1, ClearEnds, AdvanceEnds DEF NextPlace, TypeInv
<1>3. ctx'[w] = Cleared
  BY DEF Clear, TypeInv, TypeOK
<1>4. CASE token'[w] = LastCheck
  <2>1. ~QaPassed(w)' /\ ~MayGoOn(w)'
    BY <1>3, <1>4, PlaceFacts DEF QaPassed, MayGoOn, Cleared
  <2>2. InHand(w)' /\ AtEnd(w)' /\ PassedSoFar(w)' /\ E2eKnown(w)'
    BY <1>4, <2>1, PlaceFacts DEF InHand, AtEnd, PassedSoFar, E2eKnown
  <2> QED
    BY <1>2, <2>2, IdleInv
<1>5. CASE token'[w] = TaskCompleted
  <2>1. InHand(w)' /\ AtEnd(w)' /\ PassedSoFar(w)' /\ E2eKnown(w)'
    BY <1>5, PlaceFacts DEF InHand, AtEnd, PassedSoFar, E2eKnown
  <2> QED
    BY <1>2, <2>1, IdleInv
<1> QED
  BY <1>2, <1>4, <1>5

LEMMA BreaksOffInv ==
    ASSUME TypeInv, NEW w \in Workers, WorkerInv(w), Throws(w) \/ CrashAndRestart(w)
    PROVE  WorkerInv(w)'
<1>1. Ends(w) /\ UNCHANGED <<status, ctx, passed>>
  BY BreaksOff DEF service, TypeInv
<1>2. CASE Throws(w)
  BY <1>1, <1>2, SameData, IdleInv DEF Throws
<1>3. CASE CrashAndRestart(w)
  <2>1. token'[w] = Planning
    BY <1>3 DEF CrashAndRestart, TypeInv, TypeOK
  <2>2. InHand(w)' /\ AtEnd(w)' /\ PassedSoFar(w)' /\ E2eKnown(w)'
    BY <2>1, PlaceFacts DEF InHand, AtEnd, PassedSoFar, E2eKnown
  <2> QED
    BY <1>1, <2>2, IdleInv
<1> QED
  BY <1>2, <1>3

LEMMA ExecuteInv ==
    ASSUME TypeInv, NEW w \in Workers, WorkerInv(w), Execute(w)
    PROVE  WorkerInv(w)'
BY ClaimInv, LoadInv, StoreBranchInv, CheckoutInv, SaveContextInv, RunsInv, EditsInv,
   PersistInv, LoggedInv, CheckoutMainInv, CloseInv, ClearInv DEF Execute

LEMMA FailsInv ==
    ASSUME TypeInv, NEW w \in Workers, WorkerInv(w), Fails(w)
    PROVE  WorkerInv(w)'
BY LoggedInv, BreaksOffInv DEF Fails

-----------------------------------------------------------------------------
(* One worker.                                                             *)

LEMMA CheckedInvInit == Init => CheckedInv
<1> SUFFICES ASSUME Init PROVE CheckedInv
  OBVIOUS
<1>1. TypeInv
  BY TypeInvInit
<1>2. ASSUME NEW w \in Workers PROVE WorkerInv(w)
  <2>1. token[w] = Planning /\ step[w] = Looping
    BY <1>2 DEF Init
  <2> QED
    BY <2>1, PlaceFacts DEF WorkerInv, InHand, AtEnd, PassedSoFar, E2eKnown, Idle
<1> QED
  BY <1>1, <1>2 DEF CheckedInv

LEMMA CheckedInvStep ==
    ASSUME NEW w, Workers = {w}
    PROVE  CheckedInv /\ [Next]_vars => CheckedInv'
<1> SUFFICES ASSUME CheckedInv, [Next]_vars PROVE CheckedInv'
  OBVIOUS
<1>1. TypeInv' /\ TypeInv /\ w \in Workers /\ WorkerInv(w)
  BY TypeInvStep DEF CheckedInv
<1>2. CASE Next
  <2>1. Choose(w) \/ Execute(w) \/ Fails(w)
    BY <1>2 DEF Next
  <2>2. WorkerInv(w)'
    BY <1>1, <2>1, ChooseInv, ExecuteInv, FailsInv
  <2> QED
    BY <1>1, <2>2 DEF CheckedInv
<1>3. CASE UNCHANGED vars
  <2>1. WorkerInv(w)'
    BY <1>1, <1>3
       DEF vars, WorkerInv, InHand, AtEnd, PassedSoFar, E2eKnown, MayGoOn, QaPassed,
           ViaInv, StageInv, Updating, Recorded, Stored, Idle
  <2> QED
    BY <1>1, <2>1 DEF CheckedInv
<1> QED
  BY <1>2, <1>3

\* The statuses change by a claim or by a closing.
LEMMA StatusStep ==
    ASSUME TypeInv, NEW w \in Workers, WorkerInv(w), Choose(w) \/ Execute(w) \/ Fails(w)
    PROVE  Claim(w) \/ Close(w) \/ UNCHANGED status
<1>1. CASE Choose(w)
  BY <1>1, MoveEnds, PickClaimingGoes, RunCheckGoes, TestsPassingGoes
     DEF Choose, RefineIntoTasks, NeedMoreTasks, PickUpNextTask, BeginImplementation,
         Fix, service, TypeInv, Transitions
<1>2. CASE Execute(w)
  BY <1>2, StoreBranchInv, LoggedInv
     DEF Execute, Load, Checkout, SaveContext, Runs, Edits, Persist, CheckoutMain, Clear,
         service
<1>3. CASE Fails(w)
  BY <1>3, LoggedInv DEF Fails, Throws, CrashAndRestart, service
<1> QED
  BY <1>1, <1>2, <1>3

\* With one worker a task is set done only when every check has passed on its
\* branch since the last edit there: whatever checks fail and are repeated, which
\* answers are lost, whatever throws and whenever the daemon is started again, the
\* verdict in its context never lets tests-passing be taken too early.
THEOREM CheckedBeforeDone ==
    ASSUME NEW w, Workers = {w}
    PROVE  Spec => DoneAfterAllChecks
<1>1. CheckedInv /\ [Next]_vars
      => [\A t \in Tasks : status[t] # "done" /\ status'[t] = "done"
                           => passed[t] = Checks]_vars
  <2> SUFFICES ASSUME CheckedInv, Next, NEW t \in Tasks,
                      status[t] # "done", status'[t] = "done"
               PROVE  passed[t] = Checks
    OBVIOUS
  <2>1. TypeInv /\ w \in Workers /\ WorkerInv(w)
    BY DEF CheckedInv
  <2>2. Claim(w) \/ Close(w)
    BY <2>1, StatusStep DEF Next
  <2>3. ~Claim(w)
    BY <2>1 DEF Claim, TypeInv, TypeOK
  <2>4. Close(w) /\ t = step[w].task
    BY <2>1, <2>2, <2>3, CloseInv DEF TypeInv, TypeOK
  <2>5. token[w] = LastCheck /\ QaPassed(w) /\ t = ctx[w].task
    BY <2>1, <2>4, ViaOf DEF Close, ViaInv, Stages
  <2>6. status[t] = "in-progress"
    BY <2>1, <2>5 DEF WorkerInv, AtEnd
  <2>7. Checks \subseteq passed[t]
    BY <2>1, <2>5, <2>6, PlaceFacts DEF WorkerInv, PassedSoFar, MayGoOn, Checks
  <2> QED
    BY <2>1, <2>7 DEF TypeInv, TypeOK
<1>2. CheckedInv /\ [Next]_vars => CheckedInv'
  BY CheckedInvStep
<1> QED
  BY <1>1, <1>2, CheckedInvInit, PTL DEF Spec, DoneAfterAllChecks

\* With one worker and any dependency graph: whatever is in progress or done, all it
\* depends on is done, also when updates fail or their answers are lost.
THEOREM WorkFollowsDependencies ==
    ASSUME NEW w, Workers = {w}
    PROVE  Spec => []DependenciesFirst
<1>1. Init => DependenciesFirst
  BY DEF Init, DependenciesFirst
<1>2. CheckedInv /\ DependenciesFirst /\ [Next]_vars => DependenciesFirst'
  <2> SUFFICES ASSUME CheckedInv, DependenciesFirst, [Next]_vars PROVE DependenciesFirst'
    OBVIOUS
  <2>1. TypeInv /\ w \in Workers /\ WorkerInv(w)
    BY DEF CheckedInv
  <2>2. CASE UNCHANGED status
    BY <2>2 DEF DependenciesFirst, dependenciesSatisfied
  <2>3. ASSUME \A t \in Tasks : status[t] = "done" => status'[t] = "done",
               \A t \in Tasks : status[t] = "todo" /\ status'[t] # "todo"
                                => dependenciesSatisfied(t)
        PROVE  DependenciesFirst'
    <3> SUFFICES ASSUME NEW t \in Tasks, status'[t] # "todo", NEW d \in Deps[t]
                 PROVE  status'[d] = "done"
      BY DEF DependenciesFirst, dependenciesSatisfied
    <3>1. d \in Tasks
      BY RunnerAssumption
    <3>2. dependenciesSatisfied(t)
      BY <2>3 DEF DependenciesFirst
    <3> QED
      BY <2>3, <3>1, <3>2 DEF dependenciesSatisfied
  <2>4. CASE Claim(w) /\ ~UNCHANGED status
    <3>1. /\ Claimable(step[w].task, w)
          /\ status' = [status EXCEPT ![step[w].task] = "in-progress"]
      BY <2>4 DEF Claim
    <3> QED
      BY <2>1, <2>3, <3>1 DEF Claimable, TypeInv, TypeOK
  <2>5. CASE Close(w)
    <3>1. status' = [status EXCEPT ![step[w].task] = "done"]
      BY <2>1, <2>5, CloseInv
    <3>2. token[w] = LastCheck /\ QaPassed(w) /\ step[w].task = ctx[w].task
      BY <2>1, <2>5, ViaOf DEF Close, ViaInv, Stages
    <3>3. status[step[w].task] # "todo"
      BY <2>1, <3>2 DEF WorkerInv, AtEnd
    <3> QED
      BY <2>1, <2>3, <3>1, <3>3 DEF TypeInv, TypeOK
  <2> QED
    BY <2>1, <2>2, <2>4, <2>5, StatusStep DEF Next, vars
<1>3. CheckedInv /\ [Next]_vars => CheckedInv'
  BY CheckedInvStep
<1> QED
  BY <1>1, <1>2, <1>3, CheckedInvInit, PTL DEF Spec

\* A worker goes on with a task in progress, the one in its context or one in the
\* list; what it picks to claim it picks when there is none.
LEMMA TodoPicked ==
    ASSUME TypeInv, NEW w \in Workers, GoesOn(w), selectTaskForState(w) # NoTask,
           status[selectTaskForState(w)] = "todo"
    PROVE  /\ dependenciesSatisfied(selectTaskForState(w))
           /\ \A u \in Tasks : status[u] # "in-progress"
<1> DEFINE I == {t \in Tasks : status[t] = "in-progress"}
<1>1. ctx[w].task = NoTask
  <2> SUFFICES ASSUME ctx[w].task # NoTask PROVE FALSE
    OBVIOUS
  <2>1. ctx[w].task \in Tasks /\ status[ctx[w].task] = "in-progress"
    BY DEF GoesOn, TypeInv, TypeOK, Context
  <2> QED
    BY <2>1, SelectsOwn
<1>2. inferredTaskId(w) = Best(I)
  BY <1>1 DEF inferredTaskId, selectInProgressImplementationTask
<1>3. I = {}
  <2> SUFFICES ASSUME I # {} PROVE FALSE
    OBVIOUS
  <2>1. Best(I) \in I
    BY BestIn
  <2>2. selectTaskForState(w) = Best(I)
    BY <1>2, <2>1, PlaceFacts DEF selectTaskForState
  <2> QED
    BY <2>1, <2>2
<1>4. selectTaskForState(w) = Best(Eligible(w))
  BY <1>2, <1>3 DEF Best, selectTaskForState
<1>5. Eligible(w) # {}
  BY <1>4 DEF Best
<1>6. Best(Eligible(w)) \in Eligible(w)
  BY <1>5, BestIn DEF Eligible
<1> QED
  BY <1>3, <1>4, <1>6 DEF Eligible

\* A step that leaves status, assignee, token and context alone.
LEMMA HoldsOn ==
    ASSUME NEW w, Workers = {w}, HoldInv, UNCHANGED <<status, assignee, token, ctx>>,
           NothingBegun(w)'
    PROVE  HoldInv'
<1>1. Alone'
  BY DEF HoldInv, Alone
<1>2. Prefers(w)'
  BY DEF HoldInv, Prefers, GoesOn, QaPassed
<1> QED
  BY <1>1, <1>2 DEF HoldInv

\* One that moves the token or writes the context.
LEMMA HoldsPlaced ==
    ASSUME NEW w, Workers = {w}, HoldInv, UNCHANGED <<status, assignee>>,
           GoesOn(w)' \/ token'[w] = Planning, NothingBegun(w)'
    PROVE  HoldInv'
<1>1. Alone'
  BY DEF HoldInv, Alone
<1>2. Planning # TasksPrepared /\ Planning \notin Checks
  BY RunnerAssumption DEF Planning, TasksPrepared, Checks
<1>3. Prefers(w)'
  BY <1>2 DEF Prefers
<1> QED
  BY <1>1, <1>3 DEF HoldInv

LEMMA EndsNothingBegun ==
    ASSUME NEW w, Ends(w)
    PROVE  NothingBegun(w)'
BY DEF Ends, NothingBegun, Looping

LEMMA MoveHold ==
    ASSUME NEW w, Workers = {w}, TypeInv, HoldInv, NEW place, Idle(w), Move(w, place)
    PROVE  HoldInv'
<1>1. ctx'[w].task = NoTask /\ Ends(w) /\ UNCHANGED <<status, assignee>>
  BY MoveEnds DEF TypeInv, Cleared, service
<1> QED
  BY <1>1, HoldsPlaced, EndsNothingBegun DEF GoesOn

LEMMA PickClaimingHold ==
    ASSUME NEW w, Workers = {w}, TypeInv, HoldInv, NEW via \in Transitions,
           PickClaiming(w, via), GoesOn(w)
    PROVE  HoldInv'
<1> DEFINE t == selectTaskForState(w)
<1>1. /\ t # NoTask /\ UNCHANGED <<status, assignee, token, ctx>>
      /\ step'[w].task = t
      /\ \/ status[t] = "todo" /\ step'[w].at = "claim"
         \/ status[t] = "in-progress" /\ step'[w].at = Provision(via, t)
  BY PickClaimingGoes DEF PickClaiming, TypeInv, service
<1>2. status[t] = "todo"
      => dependenciesSatisfied(t) /\ \A u \in Tasks : status[u] # "in-progress"
  BY <1>1, TodoPicked
<1> HIDE DEF t
<1>3. CASE status[t] = "todo" /\ step'[w].at = "claim"
  BY <1>1, <1>2, <1>3, HoldsOn DEF NothingBegun, dependenciesSatisfied
<1>4. CASE step'[w].at = Provision(via, t)
  BY <1>1, <1>4, HoldsOn DEF NothingBegun, Provision
<1> QED
  BY <1>1, <1>3, <1>4

LEMMA ChooseHold ==
    ASSUME NEW w, Workers = {w}, TypeInv, HoldInv, Choose(w)
    PROVE  HoldInv'
<1>1. CASE RefineIntoTasks(w)
  BY <1>1, MoveHold DEF RefineIntoTasks
<1>2. CASE NeedMoreTasks(w)
  BY <1>2, MoveHold DEF NeedMoreTasks
<1>3. CASE PickUpNextTask(w)
  BY <1>3, MoveHold DEF PickUpNextTask
<1>4. CASE BeginImplementation(w)
  <2>1. GoesOn(w)
    BY <1>4 DEF BeginImplementation, HoldInv, Prefers
  <2> QED
    BY <1>4, <2>1, PickClaimingHold DEF BeginImplementation, Transitions
<1>5. CASE Fix(w)
  <2>1. GoesOn(w)
    BY <1>5 DEF Fix, HoldInv, Prefers
  <2> QED
    BY <1>5, <2>1, PickClaimingHold DEF Fix, Transitions
<1>6. CASE RunCheck(w) \/ TestsPassing(w)
  <2>1. UNCHANGED <<status, assignee, token, ctx>> /\ step'[w].at \in {"checkout", "main"}
    BY <1>6, RunCheckGoes, TestsPassingGoes DEF service, TypeInv
  <2> QED
    BY <2>1, HoldsOn DEF NothingBegun
<1> QED
  BY <1>1, <1>2, <1>3, <1>4, <1>5, <1>6 DEF Choose

\* The claim of the only worker is granted.
LEMMA ClaimHold ==
    ASSUME NEW w, Workers = {w}, TypeInv, HoldInv, Claim(w)
    PROVE  HoldInv'
<1> DEFINE t == step[w].task
<1>1. step[w].at = "claim" /\ w \in Workers /\ t \in Tasks
  BY ClaimGoes DEF TypeInv
<1>2. /\ status[t] = "todo" /\ dependenciesSatisfied(t)
      /\ \A u \in Tasks : status[u] # "in-progress"
  BY <1>1 DEF HoldInv, NothingBegun
<1>3. Claimable(t, w)
  BY <1>2 DEF Claimable
<1>4. status' = [status EXCEPT ![t] = "in-progress"] /\ UNCHANGED <<token, ctx>>
  BY <1>3 DEF Claim
<1>5. Alone'
  BY <1>1, <1>2, <1>4 DEF Alone, TypeInv, TypeOK
<1>6. Prefers(w)'
  <2>1. ctx[w].task = NoTask \/ ctx[w].task \in Tasks
    BY <1>1 DEF TypeInv, TypeOK, Context
  <2>2. GoesOn(w) => GoesOn(w)'
    BY <1>1, <1>4, <2>1 DEF GoesOn, TypeInv, TypeOK
  <2> QED
    BY <1>4, <2>2 DEF HoldInv, Prefers, QaPassed
<1>7. NothingBegun(w)'
  <2>1. Ends(w) \/ Goes(w, "claim", Provision(step[w].via, t))
    BY <1>1, <1>3, ClaimGoes DEF TypeInv
  <2>2. CASE Goes(w, "claim", Provision(step[w].via, t))
    BY <2>2 DEF NothingBegun, Goes, Provision
  <2> QED
    BY <2>1, <2>2, EndsNothingBegun
<1> QED
  BY <1>5, <1>6, <1>7 DEF HoldInv

LEMMA ExecuteHold ==
    ASSUME NEW w, Workers = {w}, CheckedInv, HoldInv, Execute(w) \/ Fails(w)
    PROVE  HoldInv'
<1>0. w \in Workers /\ TypeInv /\ TypeOK /\ WorkerInv(w)
  BY DEF CheckedInv, TypeInv
<1>1. CASE Claim(w)
  BY <1>0, <1>1, ClaimHold
<1>2. ASSUME NEW from, NEW to, Goes(w, from, to), to # "claim"
      PROVE  NothingBegun(w)'
  BY <1>2 DEF Goes, NothingBegun
<1>3. CASE Load(w) \/ StoreBranch(w) \/ Checkout(w) \/ Runs(w) \/ Edits(w) \/ CheckoutMain(w)
           \/ Throws(w)
  <2>1. UNCHANGED <<status, assignee, token, ctx>>
    BY <1>0, <1>3, StoreBranchInv
       DEF Load, StoreBranch, Checkout, Runs, Edits, CheckoutMain, Throws, service
  <2>2. CASE Runs(w)
    BY <1>0, <1>2, <2>1, <2>2, RunsGoes, HoldsOn DEF Runs
  <2>3. Runs(w) \/ NothingBegun(w)'
    BY <1>0, <1>2, <1>3, LoadGoes, StoreBranchGoes, CheckoutGoes, EditsGoes,
       CheckoutMainGoes, BreaksOff, EndsNothingBegun
  <2> QED
    BY <2>1, <2>2, <2>3, HoldsOn
<1>4. CASE SaveContext(w) \/ Persist(w)
  <2>1. status[step[w].task] = "in-progress"
    BY <1>0, <1>4, ViaOf DEF SaveContext, Persist, StageInv, Stages
  <2>2. ctx'[w].task = step[w].task
    BY <1>0, <1>4 DEF SaveContext, Persist, TypeOK, Context, Cleared
  <2>3. UNCHANGED <<status, assignee>>
    BY <1>4 DEF SaveContext, Persist, service
  <2>4. GoesOn(w)'
    BY <2>1, <2>2, <2>3 DEF GoesOn
  <2>5. NothingBegun(w)'
    BY <1>0, <1>2, <1>4, SaveContextGoes, PersistGoes, AdvanceEnds, EndsNothingBegun
  <2> QED
    BY <2>3, <2>4, <2>5, HoldsPlaced
<1>5. CASE AppendLog(w) \/ LogFails(w)
  <2>1. UNCHANGED <<status, assignee, ctx>> /\ Ends(w)
    BY <1>0, <1>5, LoggedInv, LoggedEnds DEF service
  <2>2. step[w].task = ctx[w].task /\ status[step[w].task] = "in-progress"
    <3>1. ~Idle(w) /\ Updating(w) /\ step[w].via = "check"
      BY <1>0, <1>5, LoggedEnds
    <3> QED
      BY <1>0, <3>1 DEF WorkerInv, ViaInv, StageInv, Updating
  <2> QED
    BY <2>1, <2>2, HoldsPlaced, EndsNothingBegun DEF GoesOn
<1>6. CASE Close(w)
  <2>1. /\ status' = [status EXCEPT ![step[w].task] = "done"]
        /\ UNCHANGED <<assignee, token, ctx>>
    BY <1>0, <1>6, CloseInv DEF Close
  <2>2. token[w] = LastCheck /\ QaPassed(w)
    BY <1>0, <1>6, ViaOf DEF Close, ViaInv, Stages
  <2>3. LastCheck # TasksPrepared
    BY RunnerAssumption DEF TasksPrepared
  <2>4. Prefers(w)'
    BY <2>1, <2>2, <2>3 DEF Prefers, QaPassed
  <2>5. Alone'
    BY <1>0, <2>1 DEF HoldInv, Alone, TypeOK
  <2>6. NothingBegun(w)'
    BY <1>0, <1>2, <1>6, CloseGoes, EndsNothingBegun
  <2> QED
    BY <2>4, <2>5, <2>6 DEF HoldInv
<1>7. CASE Clear(w)
  <2>1. ctx'[w].task = NoTask /\ UNCHANGED <<status, assignee>>
    BY <1>0, <1>7 DEF Clear, TypeOK, Cleared, service
  <2> QED
    BY <1>0, <1>7, <2>1, ClearEnds, EndsNothingBegun, HoldsPlaced DEF GoesOn
<1>8. CASE CrashAndRestart(w)
  <2>1. token'[w] = Planning /\ UNCHANGED <<status, assignee>>
    BY <1>0, <1>8 DEF CrashAndRestart, TypeOK, service
  <2> QED
    BY <1>0, <1>8, <2>1, BreaksOff, EndsNothingBegun, HoldsPlaced
<1> QED
  BY <1>1, <1>3, <1>4, <1>5, <1>6, <1>7, <1>8 DEF Execute, Fails

\* With one worker: however its calls are lost, throw or are repeated and however
\* often it is started again, it never has claimed two tasks that are in progress.
THEOREM HoldsOneTask ==
    ASSUME NEW w, Workers = {w}
    PROVE  Spec => []OneClaimAtATime
<1>1. Init => HoldInv
  <2> SUFFICES ASSUME Init PROVE HoldInv
    OBVIOUS
  <2>1. Alone
    BY DEF Init, Alone
  <2>2. Planning # TasksPrepared /\ Planning \notin Checks
    BY RunnerAssumption DEF Planning, TasksPrepared, Checks
  <2>3. Prefers(w) /\ NothingBegun(w)
    BY <2>2 DEF Init, Prefers, NothingBegun, Looping
  <2> QED
    BY <2>1, <2>3 DEF HoldInv
<1>2. CheckedInv /\ HoldInv /\ [Next]_vars => HoldInv'
  <2> SUFFICES ASSUME CheckedInv, HoldInv, [Next]_vars PROVE HoldInv'
    OBVIOUS
  <2>1. CASE Next
    BY <2>1, ChooseHold, ExecuteHold DEF Next, CheckedInv
  <2>2. CASE UNCHANGED vars
    BY <2>2
       DEF vars, HoldInv, Alone, Prefers, GoesOn, QaPassed, NothingBegun,
           dependenciesSatisfied
  <2> QED
    BY <2>1, <2>2
<1>3. HoldInv => OneClaimAtATime
  BY RunnerAssumption DEF HoldInv, Alone, OneClaimAtATime
<1>4. CheckedInv /\ [Next]_vars => CheckedInv'
  BY CheckedInvStep
<1> QED
  BY <1>1, <1>2, <1>3, <1>4, CheckedInvInit, PTL DEF Spec

-----------------------------------------------------------------------------
(* Any number of workers.                                                  *)

\* The statuses change by a claim, or by an update of a claimed task, which writes
\* back that it has been claimed.
LEMMA StatusChanges ==
    ASSUME ClaimedInv, NEW w \in Workers, Choose(w) \/ Execute(w) \/ Fails(w)
    PROVE  \/ UNCHANGED status
           \/ Claim(w)
           \/ /\ Claimed(step[w].task)
              /\ \E s \in {"in-progress", "done"} :
                    status' = [status EXCEPT ![step[w].task] = s]
<1>0. TypeInv /\ TypeOK /\ ClaimedStep(w)
  BY DEF ClaimedInv, TypeInv
<1>1. CASE StoreBranch(w) \/ AppendLog(w) \/ Close(w)
  <2>1. /\ ~Idle(w) /\ step[w].at = "write" /\ step[w].entity \in Entity
        /\ Claimed(step[w].task) /\ step[w].entity.status # "todo"
    <3>1. At(w, "write")
      BY <1>1 DEF StoreBranch, AppendLog, Close
    <3> QED
      BY <1>0, <3>1, Busy, WritesEntity DEF ClaimedStep, Stages
  <2>2. step[w].entity.status \in {"in-progress", "done"}
    BY <2>1 DEF Entity
  <2>3. \/ status' = [status EXCEPT ![step[w].task] = step[w].entity.status]
        \/ status' = [status EXCEPT ![step[w].task] = "done"]
    BY <1>1, <2>1 DEF StoreBranch, AppendLog, Close, Put, Entity
  <2> QED
    BY <2>1, <2>2, <2>3
<1>2. CASE Choose(w)
  BY <1>0, <1>2, MoveEnds, PickClaimingGoes, RunCheckGoes, TestsPassingGoes
     DEF Choose, RefineIntoTasks, NeedMoreTasks, PickUpNextTask, BeginImplementation,
         Fix, service, Transitions
<1>3. CASE Execute(w) /\ ~(StoreBranch(w) \/ AppendLog(w) \/ Close(w))
  BY <1>3
     DEF Execute, Load, Checkout, SaveContext, Runs, Edits, Persist, CheckoutMain, Clear,
         service
<1>4. CASE Fails(w)
  BY <1>4 DEF Fails, LogFails, Throws, CrashAndRestart, service
<1> QED
  BY <1>1, <1>2, <1>3, <1>4

\* No task becomes unclaimed again, and none is closed that was not claimed.
LEMMA StaysClaimed ==
    ASSUME ClaimedInv, NEW w \in Workers, Choose(w) \/ Execute(w) \/ Fails(w)
    PROVE  /\ \A t : Claimed(t) => Claimed(t)'
           /\ \A t \in Tasks : status[t] = "todo" => status'[t] # "done"
<1>0. TypeOK
  BY DEF ClaimedInv, TypeInv
<1>1. CASE UNCHANGED status
  BY <1>1 DEF Claimed
<1>2. CASE Claim(w)
  <2>1. \/ UNCHANGED status
        \/ step[w].task \in Tasks /\ status' = [status EXCEPT ![step[w].task] = "in-progress"]
    BY <1>0, <1>2, ClaimGoes DEF Claim
  <2> QED
    BY <1>0, <2>1 DEF Claimed, TypeOK
<1>3. CASE /\ Claimed(step[w].task)
           /\ \E s \in {"in-progress", "done"} : status' = [status EXCEPT ![step[w].task] = s]
  BY <1>0, <1>3 DEF Claimed, TypeOK
<1> QED
  BY <1>1, <1>2, <1>3, StatusChanges

\* Only an update, of a claimed task, stores a branch.
LEMMA BranchedClaimed ==
    ASSUME ClaimedInv, NEW w \in Workers, Choose(w) \/ Execute(w) \/ Fails(w),
           NEW t \in branched'
    PROVE  Claimed(t)'
<1>0. TypeInv /\ TypeOK /\ ClaimedStep(w)
  BY DEF ClaimedInv, TypeInv
<1>1. CASE StoreBranch(w) \/ AppendLog(w) \/ Close(w)
  <2>1. At(w, "write") /\ branched' \subseteq branched \cup {step[w].task}
    BY <1>1 DEF StoreBranch, AppendLog, Close, Put
  <2>2. Claimed(step[w].task)
    BY <1>0, <2>1, Busy DEF ClaimedStep, Stages
  <2>3. Claimed(t)
    BY <2>1, <2>2 DEF ClaimedInv
  <2> QED
    BY <2>3, StaysClaimed
<1>2. CASE UNCHANGED branched
  BY <1>2, StaysClaimed DEF ClaimedInv
<1>3. CASE Choose(w)
  BY <1>0, <1>2, <1>3, MoveEnds, PickClaimingGoes, RunCheckGoes, TestsPassingGoes
     DEF Choose, RefineIntoTasks, NeedMoreTasks, PickUpNextTask, BeginImplementation,
         Fix, service, Transitions
<1>4. CASE Execute(w) /\ ~(StoreBranch(w) \/ AppendLog(w) \/ Close(w))
  BY <1>2, <1>4
     DEF Execute, Claim, Load, Checkout, SaveContext, Runs, Edits, Persist, CheckoutMain,
         Clear, service
<1>5. CASE Fails(w)
  BY <1>2, <1>5 DEF Fails, LogFails, Throws, CrashAndRestart, service
<1> QED
  BY <1>1, <1>3, <1>4, <1>5

LEMMA ChooseClaimedStep ==
    ASSUME ClaimedInv, NEW w \in Workers, Choose(w)
    PROVE  ClaimedStep(w)'
<1>0. TypeOK /\ ClaimedContext(w)
  BY DEF ClaimedInv, TypeInv
<1>1. CASE RefineIntoTasks(w) \/ NeedMoreTasks(w) \/ PickUpNextTask(w)
  BY <1>0, <1>1, MoveEnds
     DEF RefineIntoTasks, NeedMoreTasks, PickUpNextTask, Ends, ClaimedStep, Idle
<1>2. ASSUME NEW via \in Transitions, PickClaiming(w, via)
      PROVE  ClaimedStep(w)'
  <2> DEFINE t == selectTaskForState(w)
  <2>1. /\ t \in Tasks /\ step'[w].task = t /\ UNCHANGED status
        /\ \/ step'[w].at = "claim"
           \/ status[t] = "in-progress" /\ step'[w].at = Provision(via, t)
    BY <1>0, <1>2, PickClaimingGoes DEF service
  <2>2. Provision(via, t) \in {"load", "checkout"}
    BY DEF Provision
  <2> HIDE DEF t
  <2> QED
    BY <2>1, <2>2 DEF ClaimedStep, Claimed
<1>3. CASE RunCheck(w)
  <2> DEFINE t == selectTaskForState(w)
  <2>1. /\ step'[w].at = "checkout" /\ step'[w].via = "check"
        /\ step'[w].task = t /\ step'[w].branch = BranchOf(t) /\ UNCHANGED status
    BY <1>0, <1>3, RunCheckGoes DEF service
  <2>2. BranchOf(t) # NoTask => Claimed(t)
    BY DEF BranchOf, ClaimedInv
  <2> HIDE DEF t
  <2> QED
    BY <2>1, <2>2 DEF ClaimedStep, Claimed
<1>4. CASE TestsPassing(w)
  <2>1. ctx[w].verdict = "passed"
    BY <1>4, PlaceFacts DEF TestsPassing, QaPassed
  <2>2. Claimed(ctx[w].task) /\ ctx[w].task # NoTask
    BY <1>0, <2>1, PlaceFacts DEF ClaimedContext, Claimed
  <2>3. step'[w].at = "main" /\ step'[w].task = ctx[w].task /\ UNCHANGED status
    BY <1>0, <1>4, <2>2, TestsPassingGoes DEF service
  <2> QED
    BY <2>2, <2>3 DEF ClaimedStep, Claimed
<1> QED
  BY <1>1, <1>2, <1>3, <1>4 DEF Choose, BeginImplementation, Fix, Transitions

LEMMA ExecuteClaimedStep ==
    ASSUME ClaimedInv, NEW w \in Workers, Execute(w) \/ Fails(w)
    PROVE  ClaimedStep(w)'
<1>0. /\ TypeOK /\ ClaimedStep(w)
      /\ Claimed(step[w].task) => step[w].task \in Tasks /\ status'[step[w].task] # "todo"
  BY StaysClaimed DEF ClaimedInv, TypeInv, Claimed
<1>1. CASE Ends(w)
  BY <1>1 DEF Ends, ClaimedStep, Idle
<1>2. ASSUME NEW from \in Stages, NEW to, Goes(w, from, to), Claimed(step[w].task),
             to \in {"load", "checkout", "save", "act", "persist", "clear"}
      PROVE  ClaimedStep(w)'
  BY <1>0, <1>2 DEF Goes, ClaimedStep, Claimed
<1>3. CASE Claim(w)
  <2>1. step[w].task \in Tasks
    BY <1>0, <1>3, ClaimGoes
  <2>2. CASE step'[w].at = "claim"
    BY <2>2 DEF ClaimedStep
  <2>3. CASE /\ Claimable(step[w].task, w)
             /\ Goes(w, "claim", Provision(step[w].via, step[w].task))
    <3>1. status'[step[w].task] # "todo"
      BY <1>0, <1>3, <2>1, <2>3 DEF Claim, TypeOK
    <3>2. Provision(step[w].via, step[w].task) \in {"load", "checkout"}
      BY DEF Provision
    <3> QED
      BY <2>1, <2>3, <3>1, <3>2 DEF Goes, ClaimedStep, Claimed
  <2> QED
    BY <1>0, <1>1, <1>3, <2>2, <2>3, ClaimGoes
<1>4. CASE Load(w)
  <2>1. /\ Goes(w, "load", "write") /\ step'[w].entity = Stored(step[w].task)
        /\ Claimed(step[w].task) /\ UNCHANGED status
    BY <1>0, <1>4, LoadGoes DEF Load, Goes, ClaimedStep, service
  <2>2. step'[w].entity.status # "todo"
    BY <2>1 DEF Stored, Claimed
  <2> QED
    BY <2>1, <2>2 DEF Goes, ClaimedStep, Claimed
<1>5. CASE Checkout(w)
  <2>1. CASE /\ Goes(w, "checkout", "save")
             /\ step[w].via = "begin" \/ step[w].branch # NoTask
    <3>1. Claimed(step[w].task)
      BY <1>0, <2>1 DEF Goes, ClaimedStep
    <3> QED
      BY <1>2, <2>1, <3>1 DEF Stages
  <2> QED
    BY <1>0, <1>1, <1>5, <2>1, CheckoutGoes
<1>6. CASE StoreBranch(w) \/ SaveContext(w) \/ Edits(w) \/ Runs(w) \/ Persist(w)
           \/ CheckoutMain(w) \/ Close(w)
  <2>1. Ends(w) \/ \E from \in {"write", "save", "act", "persist", "main"},
                      to \in {"load", "checkout", "save", "act", "persist", "clear"} :
                      Goes(w, from, to)
    <3>1. CASE Runs(w)
      BY <1>0, <3>1, RunsGoes DEF Runs
    <3> QED
      BY <1>0, <1>6, <3>1, StoreBranchGoes, SaveContextGoes, EditsGoes, PersistGoes,
         AdvanceEnds, CheckoutMainGoes, CloseGoes
  <2>2. ASSUME NEW from \in {"write", "save", "act", "persist", "main"}, NEW to,
               Goes(w, from, to)
        PROVE  Claimed(step[w].task)
    BY <1>0, <2>2 DEF Goes, ClaimedStep
  <2> QED
    BY <1>1, <1>2, <2>1, <2>2 DEF Stages
<1>7. CASE AppendLog(w) \/ Clear(w) \/ Fails(w)
  BY <1>0, <1>1, <1>7, LoggedEnds, ClearEnds, BreaksOff DEF Fails
<1> QED
  BY <1>3, <1>4, <1>5, <1>6, <1>7 DEF Execute

LEMMA ClaimedContextStep ==
    ASSUME ClaimedInv, NEW w \in Workers, Choose(w) \/ Execute(w) \/ Fails(w)
    PROVE  ClaimedContext(w)'
<1>0. /\ TypeOK /\ ClaimedStep(w) /\ ClaimedContext(w)
      /\ \A t : Claimed(t) => Claimed(t)'
  BY StaysClaimed DEF ClaimedInv, TypeInv
<1>1. CASE UNCHANGED ctx
  BY <1>0, <1>1 DEF ClaimedContext, Claimed
<1>2. CASE Clear(w) \/ \E place : Move(w, place)
  <2>1. ctx' = [ctx EXCEPT ![w] = Cleared]
    BY <1>2 DEF Clear, Move
  <2>2. ctx'[w].verdict = "none"
    BY <1>0, <2>1 DEF TypeOK, Cleared
  <2> QED
    BY <2>2 DEF ClaimedContext
<1>3. CASE SaveContext(w) \/ Persist(w)
  <2>1. Claimed(step[w].task)
    BY <1>0, <1>3, Busy DEF SaveContext, Persist, ClaimedStep, Stages
  <2>2. ctx'[w].task = step[w].task
    BY <1>0, <1>3 DEF SaveContext, Persist, TypeOK, Context, Cleared
  <2> QED
    BY <1>0, <2>1, <2>2 DEF ClaimedContext, Claimed
<1>4. ASSUME ~SaveContext(w), ~Persist(w), ~Clear(w), ~ \E place : Move(w, place)
      PROVE  UNCHANGED ctx
  BY <1>4
     DEF Choose, RefineIntoTasks, NeedMoreTasks, PickUpNextTask, BeginImplementation,
         RunCheck, Fix, TestsPassing, PickClaiming, Pick, Fails, LogFails, Throws,
         CrashAndRestart, Execute, Claim, Load, StoreBranch, Checkout, Runs, Edits,
         AppendLog, CheckoutMain, Close
<1> QED
  BY <1>1, <1>2, <1>3, <1>4

LEMMA ClaimedInvStep ==
    ASSUME ClaimedInv, [Next]_vars
    PROVE  ClaimedInv'
<1>1. TypeInv'
  BY TypeInvStep DEF ClaimedInv
<1>2. CASE UNCHANGED vars
  BY <1>1, <1>2 DEF vars, ClaimedInv, ClaimedStep, ClaimedContext, Claimed, Idle
<1>3. ASSUME NEW w \in Workers, Choose(w) \/ Execute(w) \/ Fails(w)
      PROVE  ClaimedInv'
  <2>1. \A t \in branched' : Claimed(t)'
    BY <1>3, BranchedClaimed
  <2>2. ASSUME NEW v \in Workers PROVE (ClaimedStep(v) /\ ClaimedContext(v))'
    <3>1. CASE v = w
      BY <1>3, <3>1, ChooseClaimedStep, ExecuteClaimedStep, ClaimedContextStep
    <3>2. CASE v # w
      <4>1. step'[v] = step[v] /\ ctx'[v] = ctx[v]
        BY <1>3, <3>2, StepFrame DEF ClaimedInv, TypeInv
      <4>2. \A t : Claimed(t) => t \in Tasks /\ status'[t] # "todo"
        BY <1>3, StaysClaimed DEF Claimed
      <4> QED
        BY <4>1, <4>2 DEF ClaimedInv, ClaimedStep, ClaimedContext, Idle, Claimed
    <3> QED
      BY <3>1, <3>2
  <2> QED
    BY <1>1, <2>1, <2>2 DEF ClaimedInv
<1> QED
  BY <1>2, <1>3 DEF Next

LEMMA ClaimedInvInit == Init => ClaimedInv
<1> SUFFICES ASSUME Init PROVE ClaimedInv
  OBVIOUS
<1>1. \A t \in branched : Claimed(t)
  BY DEF Init, Claimed
<1>2. \A w \in Workers : ClaimedStep(w) /\ ClaimedContext(w)
  BY DEF Init, ClaimedStep, ClaimedContext, Idle, Cleared
<1> QED
  BY <1>1, <1>2, TypeInvInit DEF ClaimedInv

\* For any number of workers: an agent or a check is let loose only on a task that
\* somebody has claimed.  A check claims nothing; it needs a branch, and only a
\* task that was begun has one.
THEOREM NobodyActsUnclaimed == Spec => []ActsOnClaimedTask
<1>1. ClaimedInv => ActsOnClaimedTask
  <2> SUFFICES ASSUME ClaimedInv, NEW w \in Workers, At(w, "act")
               PROVE  step[w].task # NoTask /\ status[step[w].task] # "todo"
    BY DEF ActsOnClaimedTask
  <2>1. ~Idle(w) /\ step[w].at = "act"
    BY Busy DEF ClaimedInv, TypeInv, Stages
  <2>2. Claimed(step[w].task)
    BY <2>1 DEF ClaimedInv, ClaimedStep
  <2> QED
    BY <2>2, PlaceFacts DEF Claimed
<1> QED
  BY <1>1, ClaimedInvInit, ClaimedInvStep, PTL DEF Spec

\* For any number of workers: a task that is closed has been claimed.  A worker that
\* finds its task closed by another closes it once more, and not the next one; and an
\* update that comes late writes back a task that had been claimed when it was read.
THEOREM OnlyClaimedClosed == Spec => ClosedWasClaimed
<1>1. ClaimedInv /\ [Next]_vars
      => [\A t \in Tasks : status[t] = "todo" => status'[t] # "done"]_vars
  BY StaysClaimed DEF Next
<1> QED
  BY <1>1, ClaimedInvInit, ClaimedInvStep, PTL DEF Spec, ClosedWasClaimed
=============================================================================
