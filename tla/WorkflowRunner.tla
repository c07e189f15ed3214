--------------------------- MODULE WorkflowRunner ---------------------------
(***************************************************************************)
(* The profile workflow runner (packages/workflow/src): the loop of a      *)
(* worker daemon over the workflow graph.  A worker holds a token, its     *)
(* place in the graph, in memory, and a context record in the context      *)
(* service.  It picks a transition and a task, claims the task if it is    *)
(* todo, checks out the task's branch, lets an agent edit or runs a check, *)
(* stores the outcome in its context and moves its token.                  *)
(*                                                                         *)
(* Every step ends in an await, and every await may throw: the loop then   *)
(* starts again, with the token where it was.  A worker that crashes is    *)
(* started again at the beginning of the graph; its context is still there.*)
(* All workers share one git work tree.  An update of a task reads the     *)
(* entity in the tasks service, and writes the whole of it back later.     *)
(*                                                                         *)
(* Tasks are implementation tasks with a complete text, numbered in the    *)
(* order of selection (priority, then title).                              *)
(***************************************************************************)
EXTENDS Naturals

CONSTANTS
    MaxTasks,       \* bound: the tasks are 1..MaxTasks
    Deps,           \* Deps[t]: the ids in t.dependencies
    Workers,        \* worker ids
    LastCheck,      \* the number of QA_RUN_TRANSITIONS
    E2eCheck,       \* the position of run-e2e-tests among them
    NoOne,          \* assignedTo of an unassigned task
    LostAt,         \* the steps whose answer may be lost
    MaxSetbacks     \* bound: failed checks, errors, crashes, detours

Tasks == 1..MaxTasks
NoTask == 0         \* no task; as a branch, main
Checks == 1..LastCheck

ASSUME RunnerAssumption ==
    /\ MaxTasks \in Nat /\ LastCheck \in Nat \ {0} /\ MaxSetbacks \in Nat
    /\ Deps \in [Tasks -> SUBSET Tasks]
    /\ E2eCheck \in 1..(LastCheck - 1)
    /\ NoOne \notin Workers

VARIABLES
    status,     \* status[t]: the stored status of task t
    assignee,   \* assignee[t]: its assignedTo
    branched,   \* the tasks whose branch is stored
    created,    \* the tasks whose branch git has
    head,       \* the branch checked out in the work tree
    token,      \* token[w]: the state of the workflow graph w is in
    ctx,        \* ctx[w]: w's context record
    step,       \* step[w]: where w is in its loop
    passed,     \* history: the checks run on t's branch, all passed, since the
                \* last edit there, or the closing of t
    setbacks    \* failed checks, errors, crashes and detours so far

vars == <<status, assignee, branched, created, head, token, ctx, step, passed, setbacks>>
service == <<status, assignee, branched>>
git == <<created, head>>

-----------------------------------------------------------------------------
(* The states of the graph.  From task-in-progress on they are the number of *)
(* checks done: 1 is lint-completed, LastCheck is coverage-completed.       *)
TaskInProgress == 0
Planning == LastCheck + 1       \* any state of the portfolio part
TasksPrepared == LastCheck + 2
TaskCompleted == LastCheck + 3
Places == 0..TaskCompleted

\* task: currentTaskId; verdict: that of the last check; e2e: e2eTestResultStatus
Verdicts == {"none", "passed", "failed"}
Context == [task : Tasks \cup {NoTask}, verdict : Verdicts, e2e : Verdicts]
Cleared == [task |-> NoTask, verdict |-> "none", e2e |-> "none"]

Transitions == {"begin", "check", "fix", "pass"}
Stages == {"claim", "load", "write", "checkout", "save", "act", "persist", "main", "clear"}

\* what the tasks service stores of a task
Entity == [status : {"todo", "in-progress", "done"}, assignee : Workers \cup {NoOne},
           branched : BOOLEAN]
Stored(t) == [status |-> status[t], assignee |-> assignee[t], branched |-> t \in branched]
Unread == [status |-> "todo", assignee |-> NoOne, branched |-> FALSE]

\* via: the transition; task: the one it is for; branch: the branch it had when it
\* was read; rest: the candidates left should its claim be refused; entity: what an
\* update of the task has read and will write back
Step == {s \in [at : Stages, via : Transitions,
                task : Tasks \cup {NoTask}, branch : Tasks \cup {NoTask},
                rest : SUBSET Tasks, verdict : Verdicts, entity : Entity] :
            \/ s.via = "begin" \/ s.branch # NoTask
            \/ s.at \notin {"checkout", "main", "clear"}
            => s.task \in Tasks}
Looping == [at |-> "loop"]

Idle(w) == step[w] = Looping
At(w, stage) == step[w].at = stage

BranchOf(t) == IF t \in branched THEN t ELSE NoTask

\* The step is over: go on at the stage named, or the await has thrown.
Proceed(w, stage, ok) ==
    step' = [step EXCEPT ![w] = IF ok THEN [@ EXCEPT !.at = stage] ELSE Looping]

Setback == setbacks < MaxSetbacks /\ setbacks' = setbacks + 1

\* The answer arrives, or it is lost although the service has done its part.
Answer(ok, stage) ==
    \/ ok = TRUE /\ UNCHANGED setbacks
    \/ ok = FALSE /\ stage \in LostAt /\ Setback

-----------------------------------------------------------------------------
(* Selection of a task, in the list that taskProvider has returned.        *)

dependenciesSatisfied(t) == \A d \in Deps[t] : status[d] = "done"

Best(S) == IF S = {} THEN NoTask ELSE CHOOSE t \in S : \A u \in S : t <= u

selectInProgressImplementationTask ==
    Best({t \in Tasks : status[t] = "in-progress"})

\* Mutant: a task in progress is not inferred from the list.
currentTaskIdOnly(w) == ctx[w].task

inferredTaskId(w) ==
    IF ctx[w].task # NoTask THEN ctx[w].task ELSE selectInProgressImplementationTask

\* the candidates that a tracked transition has in claim mode: of the tasks in
\* progress only the preferred one
Eligible(w) ==
    {t \in Tasks :
        /\ status[t] = "todo" \/ (status[t] = "in-progress" /\ t = inferredTaskId(w))
        /\ dependenciesSatisfied(t)}

selectTaskForState(w) ==
    LET preferred == inferredTaskId(w)
    IN  IF preferred # NoTask /\ (status[preferred] = "in-progress" \/ preferred \in Eligible(w))
        THEN preferred ELSE Best(Eligible(w))

\* Mutant: the tasks in progress are left to whoever began them.
hasTodoTasksOnly ==
    \E t \in Tasks : status[t] = "todo" /\ dependenciesSatisfied(t)

\* hasRunnableImplementationTasks, and the decider of tasks-prepared
hasRunnableImplementationTasks ==
    \E t \in Tasks : status[t] = "in-progress" \/ (status[t] = "todo" /\ dependenciesSatisfied(t))

\* The transition and its task are resolved.
Pick(w, via, first, t, rest) ==
    /\ step' = [step EXCEPT ![w] = [at |-> first, via |-> via, task |-> t,
                                   branch |-> BranchOf(t), rest |-> rest,
                                   verdict |-> "none", entity |-> Unread]]
    /\ UNCHANGED <<service, git, token, ctx, passed, setbacks>>

\* begin-implementation stores a branch first when the task has none
Provision(via, t) == IF via = "begin" /\ t \notin branched THEN "load" ELSE "checkout"

\* shouldClaimTaskBeforeExecution, for the transitions that need a task
PickClaiming(w, via) ==
    LET t == selectTaskForState(w) IN
    /\ t # NoTask
    /\ IF status[t] = "todo"
       THEN Pick(w, via, "claim", t, Eligible(w) \ {t})
       ELSE Pick(w, via, Provision(via, t), t, {})

-----------------------------------------------------------------------------
(* The transitions that need no branch.                                    *)

Move(w, place) ==
    /\ token' = [token EXCEPT ![w] = place]
    /\ ctx' = [ctx EXCEPT ![w] = Cleared]
    /\ UNCHANGED <<service, git, step, passed>>

\* The portfolio part of the graph, from themes-proposed to refine-into-tasks:
\* its transitions are not tracked, each clears the context.
RefineIntoTasks(w) ==
    /\ Idle(w) /\ token[w] = Planning
    /\ Move(w, TasksPrepared)
    /\ UNCHANGED setbacks

\* need-more-tasks: nothing to begin, or the story is not covered
NeedMoreTasks(w) ==
    /\ Idle(w) /\ token[w] = TasksPrepared
    /\ \/ ~hasRunnableImplementationTasks /\ UNCHANGED setbacks
       \/ selectTaskForState(w) = NoTask /\ UNCHANGED setbacks
       \/ Setback
    /\ Move(w, Planning)

\* pick-up-next-task, or back to the stories
PickUpNextTask(w) ==
    /\ Idle(w) /\ token[w] = TaskCompleted
    /\ Move(w, IF hasRunnableImplementationTasks THEN TasksPrepared ELSE Planning)
    /\ UNCHANGED setbacks

-----------------------------------------------------------------------------
(* The tracked transitions are picked.                                     *)

BeginImplementation(w) ==
    /\ Idle(w) /\ token[w] = TasksPrepared
    /\ hasRunnableImplementationTasks
    /\ PickClaiming(w, "begin")

\* hasQaPassed; after the e2e tests, hasE2eFailed, which looks at their own
\* result first: whatever has not failed goes on to ensure-coverage
QaPassed(w) ==
    IF token[w] # E2eCheck THEN ctx[w].verdict = "passed"
    ELSE "failed" # IF ctx[w].e2e # "none" THEN ctx[w].e2e ELSE ctx[w].verdict

\* Mutant: a check too many.
RunCheckTooMany(w) ==
    /\ Idle(w) /\ token[w] \in 0..LastCheck
    /\ token[w] = TaskInProgress \/ QaPassed(w)
    /\ Pick(w, "check", "checkout", selectTaskForState(w), {})

\* run-lint .. ensure-coverage: they are allowed without a task
RunCheck(w) ==
    /\ Idle(w) /\ token[w] \in 0..(LastCheck - 1)
    /\ token[w] = TaskInProgress \/ QaPassed(w)
    /\ Pick(w, "check", "checkout", selectTaskForState(w), {})

\* lint-failed .. coverage-failed
Fix(w) ==
    /\ Idle(w) /\ token[w] \in Checks
    /\ ~QaPassed(w)
    /\ PickClaiming(w, "fix")

\* Mutant: a candidate goes before the task in the context, which may be done by now.
TestsPassingSelecting(w) ==
    /\ Idle(w) /\ token[w] = LastCheck
    /\ QaPassed(w)
    /\ Pick(w, "pass", "main", selectTaskForState(w), {})

\* the task that will be closed: the one in the context, or a candidate
TestsPassing(w) ==
    /\ Idle(w) /\ token[w] = LastCheck
    /\ QaPassed(w)
    /\ Pick(w, "pass", "main", IF ctx[w].task # NoTask THEN ctx[w].task
                               ELSE selectTaskForState(w), {})

-----------------------------------------------------------------------------
(* They are executed, stage by stage.                                      *)

\* claimTaskForWorker, one claim at a time (see TaskService)
Claimable(t, w) ==
    /\ \/ status[t] = "todo"
       \/ status[t] = "in-progress" /\ assignee[t] \in {w, NoOne}
    /\ dependenciesSatisfied(t)

\* a refused claim: on to the next candidate in the same list
Claim(w) ==
    /\ At(w, "claim")
    /\ LET t == step[w].task
           rest == step[w].rest
       IN  IF Claimable(t, w)
           THEN /\ status' = [status EXCEPT ![t] = "in-progress"]
                /\ assignee' = [assignee EXCEPT ![t] = w]
                /\ \E ok \in BOOLEAN :
                    /\ Answer(ok, "claim")
                    /\ step' = [step EXCEPT ![w] =
                          IF ok THEN [@ EXCEPT !.at = Provision(step[w].via, t), !.rest = {},
                                               !.branch = BranchOf(t)]
                          ELSE Looping]
           ELSE /\ step' = [step EXCEPT ![w] =
                      IF rest = {} THEN Looping
                      ELSE [@ EXCEPT !.task = Best(rest), !.rest = rest \ {Best(rest)}]]
                /\ UNCHANGED <<status, assignee, setbacks>>
    /\ UNCHANGED <<branched, git, token, ctx, passed>>

\* updateTask up to its put
Load(w) ==
    /\ At(w, "load")
    /\ step' = [step EXCEPT ![w].at = "write", ![w].entity = Stored(step[w].task)]
    /\ UNCHANGED <<service, git, token, ctx, passed, setbacks>>

\* the put, of the whole entity
Put(t, entity) ==
    /\ status' = [status EXCEPT ![t] = entity.status]
    /\ assignee' = [assignee EXCEPT ![t] = entity.assignee]
    /\ branched' = IF entity.branched THEN branched \cup {t} ELSE branched \ {t}

\* ensureTaskBranchForBeginImplementation
StoreBranch(w) ==
    /\ At(w, "write") /\ step[w].via = "begin"
    /\ Put(step[w].task, [step[w].entity EXCEPT !.branched = TRUE])
    /\ \E ok \in BOOLEAN :
        /\ Answer(ok, "write")
        /\ step' = [step EXCEPT ![w] =
              IF ok THEN [@ EXCEPT !.at = "checkout", !.branch = step[w].task,
                                   !.entity = Unread]
              ELSE Looping]
    /\ UNCHANGED <<git, token, ctx, passed>>

\* Mutant: the branch is created wherever it is missing.
CheckoutCreating(w) ==
    /\ At(w, "checkout")
    /\ step[w].task # NoTask
    /\ created' = created \cup {step[w].task}
    /\ head' = step[w].task
    /\ Proceed(w, "save", TRUE)
    /\ UNCHANGED <<service, token, ctx, passed, setbacks>>

\* Only begin-implementation creates the branch; without one the others throw.
Checkout(w) ==
    /\ At(w, "checkout")
    /\ LET s == step[w] IN
       IF s.via = "begin" \/ (s.branch # NoTask /\ s.branch \in created)
       THEN /\ created' = created \cup {s.task}
            /\ head' = s.task
            /\ Proceed(w, "save", TRUE)
       ELSE /\ Proceed(w, "save", FALSE)
            /\ UNCHANGED git
    /\ UNCHANGED <<service, token, ctx, passed, setbacks>>

SaveContext(w) ==
    /\ At(w, "save")
    /\ ctx' = [ctx EXCEPT ![w].task = step[w].task]
    /\ \E ok \in BOOLEAN : Answer(ok, "save") /\ Proceed(w, "act", ok)
    /\ UNCHANGED <<service, git, token, passed>>

\* The check runs on whatever is checked out; so does the agent.
Runs(w) ==
    /\ At(w, "act") /\ step[w].via = "check"
    /\ \E verdict \in {"passed", "failed"} :
        /\ IF verdict = "failed" THEN Setback ELSE UNCHANGED setbacks
        /\ passed' = [t \in Tasks |-> IF t # head THEN passed[t]
                                      ELSE IF verdict = "passed"
                                      THEN passed[t] \cup {token[w] + 1}
                                      ELSE passed[t] \ {token[w] + 1}]
        /\ step' = [step EXCEPT ![w].at = "persist", ![w].verdict = verdict]
    /\ UNCHANGED <<service, git, token, ctx>>

Edits(w) ==
    /\ At(w, "act") /\ step[w].via \in {"begin", "fix"}
    /\ passed' = [t \in Tasks |-> IF t = head THEN {} ELSE passed[t]]
    /\ Proceed(w, "persist", TRUE)
    /\ UNCHANGED <<service, git, token, ctx, setbacks>>

\* Mutant: after a fix only the check that failed is repeated.
NextPlaceResuming(w) ==
    CASE step[w].via = "begin" -> TaskInProgress
      [] step[w].via = "fix" -> token[w] - 1
      [] step[w].via = "check" -> token[w] + 1
      [] step[w].via = "pass" -> TaskCompleted

\* where the transition leads
NextPlace(w) ==
    CASE step[w].via \in {"begin", "fix"} -> TaskInProgress
      [] step[w].via = "check" -> token[w] + 1
      [] step[w].via = "pass" -> TaskCompleted

\* executeTransition has returned
Advance(w) ==
    /\ token' = [token EXCEPT ![w] = NextPlace(w)]
    /\ step' = [step EXCEPT ![w] = Looping]

\* the patch of persistExecutionResult: a begin clears the verdict, a fix leaves
\* that of the check which failed; a check goes on to the log of the task
Persist(w) ==
    /\ At(w, "persist")
    /\ LET s == step[w] IN
       /\ ctx' = [ctx EXCEPT ![w] =
            CASE s.via = "begin" -> [Cleared EXCEPT !.task = s.task]
              [] s.via = "check" ->
                   [task |-> s.task, verdict |-> s.verdict,
                    e2e |-> IF token[w] + 1 = E2eCheck THEN s.verdict ELSE @.e2e]
              [] OTHER -> [@ EXCEPT !.task = s.task]]
       /\ \E ok \in BOOLEAN :
            /\ Answer(ok, "persist")
            /\ IF ok /\ s.via # "check" THEN Advance(w)
               ELSE Proceed(w, "load", ok) /\ UNCHANGED token
    /\ UNCHANGED <<service, git, passed>>

\* appendTaskActionLogEntry: the log is no part of Entity, the rest is written back.
\* An error is caught, so that the token moves all the same.
Logging(w) == ~Idle(w) /\ step[w].at \in {"load", "write"} /\ step[w].via = "check"

AppendLog(w) ==
    /\ At(w, "write") /\ Logging(w)
    /\ Put(step[w].task, step[w].entity)
    /\ Advance(w)
    /\ UNCHANGED <<git, ctx, passed, setbacks>>

LogFails(w) ==
    /\ Logging(w)
    /\ Setback
    /\ Advance(w)
    /\ UNCHANGED <<service, git, ctx, passed>>

\* tests-passing: main, the status, the context
CheckoutMain(w) ==
    /\ At(w, "main")
    /\ head' = NoTask
    /\ Proceed(w, IF step[w].task # NoTask THEN "load" ELSE "clear", TRUE)
    /\ UNCHANGED <<service, created, token, ctx, passed, setbacks>>

Close(w) ==
    /\ At(w, "write") /\ step[w].via = "pass"
    /\ Put(step[w].task, [step[w].entity EXCEPT !.status = "done"])
    /\ \E ok \in BOOLEAN :
        /\ Answer(ok, "write")
        /\ step' = [step EXCEPT ![w] =
              IF ok THEN [@ EXCEPT !.at = "clear", !.entity = Unread] ELSE Looping]
    /\ passed' = [passed EXCEPT ![step[w].task] = {}]
    /\ UNCHANGED <<git, token, ctx>>

Clear(w) ==
    /\ At(w, "clear")
    /\ ctx' = [ctx EXCEPT ![w] = Cleared]
    /\ \E ok \in BOOLEAN :
        /\ Answer(ok, "clear")
        /\ IF ok THEN Advance(w) ELSE Proceed(w, "loop", FALSE) /\ UNCHANGED token
    /\ UNCHANGED <<service, git, passed>>

-----------------------------------------------------------------------------
(* Setbacks.                                                               *)

\* a call fails before it has done anything
Throws(w) ==
    /\ ~Idle(w) /\ ~Logging(w)
    /\ Setback
    /\ Proceed(w, "loop", FALSE)
    /\ UNCHANGED <<service, git, token, ctx, passed>>

\* the daemon dies and is started again: runLoop checks out main, and the token
\* is created anew.  An update that the service is at is done by then.
CrashAndRestart(w) ==
    /\ ~At(w, "write")
    /\ Setback
    /\ token[w] # Planning
    /\ token' = [token EXCEPT ![w] = Planning]
    /\ step' = [step EXCEPT ![w] = Looping]
    /\ head' = NoTask
    /\ UNCHANGED <<service, created, ctx, passed>>

-----------------------------------------------------------------------------
\* A pool may find tasks that an earlier one has left in progress.
Init ==
    /\ status \in [Tasks -> {"todo", "in-progress"}]
    /\ \A t \in Tasks : status[t] = "in-progress" => dependenciesSatisfied(t)
    /\ assignee = [t \in Tasks |-> NoOne]
    /\ branched \in SUBSET {t \in Tasks : status[t] = "in-progress"}
    /\ created \in SUBSET branched
    /\ head = NoTask
    /\ token = [w \in Workers |-> Planning]
    /\ ctx = [w \in Workers |-> Cleared]
    /\ step = [w \in Workers |-> Looping]
    /\ passed = [t \in Tasks |-> {}]
    /\ setbacks = 0

Choose(w) ==
    \/ RefineIntoTasks(w) \/ NeedMoreTasks(w) \/ PickUpNextTask(w)
    \/ BeginImplementation(w) \/ RunCheck(w) \/ Fix(w) \/ TestsPassing(w)

Execute(w) ==
    \/ Claim(w) \/ Load(w) \/ StoreBranch(w) \/ Checkout(w) \/ SaveContext(w)
    \/ Runs(w) \/ Edits(w) \/ Persist(w) \/ AppendLog(w)
    \/ CheckoutMain(w) \/ Close(w) \/ Clear(w)

Fails(w) == LogFails(w) \/ Throws(w) \/ CrashAndRestart(w)

Next == \E w \in Workers : Choose(w) \/ Execute(w) \/ Fails(w)

Spec == Init /\ [][Next]_vars

\* Polling goes on, calls return, agents and checks end, and the portfolio part
\* of the graph leads to tasks-prepared again.
FairSpec == Spec /\ \A w \in Workers : WF_vars(Choose(w) \/ Execute(w))

-----------------------------------------------------------------------------
(* Properties.                                                             *)

TypeOK ==
    /\ status \in [Tasks -> {"todo", "in-progress", "done"}]
    /\ assignee \in [Tasks -> Workers \cup {NoOne}]
    /\ branched \subseteq Tasks /\ created \subseteq Tasks
    /\ head \in Tasks \cup {NoTask}
    /\ token \in [Workers -> Places]
    /\ ctx \in [Workers -> Context]
    /\ step \in [Workers -> Step \cup {Looping}]
    /\ passed \in [Tasks -> SUBSET Checks]
    /\ setbacks \in 0..MaxSetbacks

\* With one worker, a task is set done only when every check has passed on its
\* branch since the last edit there, whatever failed, was repeated or crashed.
DoneAfterAllChecks ==
    [][\A t \in Tasks : status[t] # "done" /\ status'[t] = "done"
                        => passed[t] = Checks]_vars

\* With one worker: it has claimed one task at a time; after an error, a lost answer
\* or a crash it goes on with the one it had.
OneClaimAtATime ==
    \A w \in Workers, t, u \in Tasks :
        /\ status[t] = "in-progress" /\ assignee[t] = w
        /\ status[u] = "in-progress" /\ assignee[u] = w
        => t = u

\* Whoever lets an agent or a check loose on a task, the task has been claimed,
\* although checks run without a claim.
ActsOnClaimedTask ==
    \A w \in Workers :
        At(w, "act") => step[w].task # NoTask /\ status[step[w].task] # "todo"

\* Two workers may finish the same task.  The later one closes it once more; it
\* does not close the next one, which nobody has claimed.
ClosedWasClaimed ==
    [][\A t \in Tasks : status[t] = "todo" => status'[t] # "done"]_vars

BacklogFinished == \A t \in Tasks : status[t] # "done" ~> status[t] = "done"

\* A worker whose patch at the end of tests-passing has got lost takes its empty
\* context for a failed check, and the next task for the one to fix, which has no
\* branch to check out.
Stuck(w) ==
    /\ token[w] = LastCheck /\ ctx[w] = Cleared
    /\ \E t \in Tasks \ created : status[t] = "in-progress"

\* One worker comes to the end of the backlog, whatever fails, crashes or is lost,
\* unless it gets stuck in that one way.
BacklogFinishedUnlessStuck == (\E w \in Workers : <>[]Stuck(w)) \/ BacklogFinished

\* w is about to write back a task that has changed since it was read
Stale(w) == At(w, "write") /\ step[w].entity # Stored(step[w].task)

\* A pool works off its backlog, also when a worker finds its task closed by another
\* and waits for a branch that is not there, and when a log that overtakes a closing
\* has reopened a task; unless that happens again and again for ever.
BacklogFinishedUnlessStale == []<>(\E w \in Workers : Stale(w)) \/ BacklogFinished

\* "Transition ... requires a task branch": what is to be checked out for a
\* check or a fix has a branch.  False of the code with two workers (README,
\* section 6).
TaskBranchThere ==
    \A w \in Workers :
        At(w, "checkout") /\ step[w].via # "begin" /\ step[w].task # NoTask
        => step[w].branch # NoTask /\ step[w].branch \in created
=============================================================================
