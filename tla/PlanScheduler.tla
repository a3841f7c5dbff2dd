---------------------------- MODULE PlanScheduler ----------------------------
(***************************************************************************)
(* The CEO plan execution scheduler with everything it drives: plan runs,  *)
(* step executions, attempts and circuits (ceo-plan-run-store), the signal *)
(* queue, the child tasks of the task orchestrator, and the drain          *)
(* coroutines that interleave over them                                    *)
(* (apps/server/src/ceo-execution/ceo-plan-execution-scheduler.ts).        *)
(*                                                                         *)
(* Hall Core is one JavaScript thread: an action is the code between two   *)
(* awaits.  A coroutine is a call of enqueueSignal, onChildTaskMutated or  *)
(* the wake timer that drains the queue; it can be overtaken at an await,  *)
(* for long only while startTask awaits adapter.detect().  Requests and    *)
(* timers are jobs of their own, so they see no coroutine half way through *)
(* its microtasks (Quiet).                                                 *)
(***************************************************************************)
EXTENDS Naturals, Sequences, FiniteSets

CONSTANTS
  Runs,            \* autonomous plan runs
  Steps,           \* plan steps, numbers in the order the plans declare them
  RunOf,           \* the run a step belongs to
  Deps,            \* the steps a step depends on
  Adapters,
  AdapterOf,       \* the adapter assigned to a step's child task
  Coroutines,      \* drains that may be in flight at once
  None,
  MaxConcurrent,   \* policy maxConcurrentSteps
  Capacity,        \* per-adapter capacity
  MaxAttempts,     \* policy maxAttemptsPerStep
  MaxFailures,     \* policy maxConsecutiveFailures
  PauseOnFailure,  \* policy pauseOnAnyPermanentFailure
  Requests,        \* the kinds of operator requests that may come
  MaxOps           \* bound on their number

ASSUME PlanAssumption ==
  /\ Steps \subseteq Nat /\ IsFiniteSet(Steps)
  /\ RunOf \in [Steps -> Runs] /\ AdapterOf \in [Steps -> Adapters]
  /\ Deps \in [Steps -> SUBSET Steps]
  /\ \A s \in Steps : \A t \in Deps[s] : RunOf[t] = RunOf[s]
ASSUME PolicyAssumption ==
  /\ MaxConcurrent \in Nat \ {0} /\ Capacity \in Nat \ {0}
  /\ MaxAttempts \in Nat \ {0} /\ MaxFailures \in Nat \ {0}
  /\ PauseOnFailure \in BOOLEAN /\ MaxOps \in Nat
  /\ Requests \subseteq {"pause", "resume", "cancel", "retry", "stop", "cancel_task", "start_task"}
ASSUME NoneAssumption == None \notin Steps /\ None \notin Runs

VARIABLES
  run,       \* run rows with their circuit
  step,      \* step executions
  attempts,  \* per step, the statuses of its attempts in order
  task,      \* per step, its child task
  queue,     \* pending signals
  waiters,   \* the adapter-capacity waiter index
  co,        \* coroutines
  ops        \* operator actions so far

vars == <<run, step, attempts, task, queue, waiters, co, ops>>

RunStatus == {"configured", "running", "paused", "awaiting_intervention",
              "completed", "cancelled"}
StepStatus == {"ready", "waiting_for_dependencies", "claimed", "running", "retry_wait",
               "completed", "failed", "cancelled", "awaiting_intervention"}
AttemptStatus == {"claimed", "running", "completed", "failed", "cancelled"}
\* "active": assigned with a run id, or running (isTaskActive).
TaskStatus == {"assigned", "active", "completed", "failed", "cancelled"}

\* `parked` is readinessReason = "waiting_for_capacity", `backoff` a
\* nextEligibleAt in the future, `cancel` the task's cancellationRequested.
RunRow == [status : RunStatus, open : BOOLEAN, failures : 0..MaxFailures]
StepRow == [status : StepStatus, parked : BOOLEAN, backoff : BOOLEAN, tries : 0..MaxAttempts]
TaskRow == [status : TaskStatus, cancel : BOOLEAN]

\* `self` and `dependents` say what the reasons make resolveTargetSteps return,
\* `due` that availableAt has come, `fresh` that the generation is the run's.
Signal == [run : Runs, step : Steps \cup {None}, self : BOOLEAN, dependents : BOOLEAN,
           due : BOOLEAN, fresh : BOOLEAN]

\* pc "drain": about to claim; "loop": inside processSignal; "detect": inside
\* startTask; "wake": inside wakeCapacityWaiters, with `then` to follow it.
Coroutine ==
  [pc : {"idle", "drain", "loop", "detect", "wake"}, run : Runs \cup {None},
   todo : SUBSET Steps, cur : Steps \cup {None}, num : 0..MaxAttempts, valid : BOOLEAN,
   wake : SUBSET Steps, then : {"return", "drain", "pause"}, for : Runs \cup {None}]

TypeOK ==
  /\ run \in [Runs -> RunRow]
  /\ step \in [Steps -> StepRow]
  /\ attempts \in [Steps -> Seq(AttemptStatus)]
  /\ task \in [Steps -> TaskRow]
  /\ queue \subseteq Signal
  /\ waiters \subseteq Steps
  /\ co \in [Coroutines -> Coroutine]
  /\ ops \in 0..MaxOps

Idle == [pc |-> "idle", run |-> None, todo |-> {}, cur |-> None, num |-> 0, valid |-> TRUE,
         wake |-> {}, then |-> "return", for |-> None]
Draining == [Idle EXCEPT !.pc = "drain"]

\* configureRun
Init ==
  /\ run = [r \in Runs |-> [status |-> "configured", open |-> FALSE, failures |-> 0]]
  /\ step = [s \in Steps |->
               [status |-> IF Deps[s] = {} THEN "ready" ELSE "waiting_for_dependencies",
                parked |-> FALSE, backoff |-> FALSE, tries |-> 0]]
  /\ attempts = [s \in Steps |-> <<>>]
  /\ task = [s \in Steps |-> [status |-> "assigned", cancel |-> FALSE]]
  /\ queue = {}
  /\ waiters = {}
  /\ co = [d \in Coroutines |-> Idle]
  /\ ops = 0

StepsOf(r) == {s \in Steps : RunOf[s] = r}
\* (mutant) the dependency index of the run was never registered
DependentsUnindexed(s) == {}

Dependents(s) == {t \in Steps : s \in Deps[t]}

Quiet == \A d \in Coroutines : co[d].pc \in {"idle", "detect"}

-----------------------------------------------------------------------------
\* The signal store, as far as the scheduler can tell its rows apart.

Enqueued(q, r, s, self, dependents, due) ==
  LET same == {g \in q : g.run = r /\ g.step = s /\ g.fresh}
  IN (q \ same) \cup
       {[run |-> r, step |-> s, fresh |-> TRUE,
         self |-> self \/ \E g \in same : g.self,
         dependents |-> dependents \/ \E g \in same : g.dependents,
         due |-> due \/ \E g \in same : g.due]}

\* enqueueSignalSync drops a signal of a run that is not running.
Notify(rows, q, r, s, self, dependents, due) ==
  IF rows[r].status = "running" THEN Enqueued(q, r, s, self, dependents, due) ELSE q

WithoutRun(q, r) == {g \in q : g.run # r}
WithoutStep(q, s) == {g \in q : g.step # s}

\* The run's activeGeneration moves on.
NewGeneration(q, r) == {IF g.run = r THEN [g EXCEPT !.fresh = FALSE] ELSE g : g \in q}

Claimable == {g \in queue : g.due /\ run[g.run].status = "running"}

Targets(g) ==
  IF g.step = None THEN StepsOf(g.run)
  ELSE LET named == (IF g.self THEN {g.step} ELSE {})
                      \cup (IF g.dependents THEN Dependents(g.step) ELSE {})
       IN IF named = {} THEN {g.step} ELSE named

-----------------------------------------------------------------------------
\* Step executions: upsertStepExecution replaces the row.

Occupied == {"claimed", "running"}

Row(s, status, parked, backoff) ==
  [status |-> status, parked |-> parked, backoff |-> backoff,
   tries |-> step[s].tries
               + (IF status = "claimed" /\ step[s].status # "claimed" THEN 1 ELSE 0)]

Upsert(s, status) == [step EXCEPT ![s] = Row(s, status, FALSE, FALSE)]
Park(s) == [step EXCEPT ![s] = Row(s, "ready", TRUE, FALSE)]

\* pauseForIntervention: recoveryPauseRun and cancelSignalsForRun, atomically.
PausedRuns(rows, r) ==
  IF rows[r].status = "running"
  THEN [rows EXCEPT ![r].status = "awaiting_intervention"]
  ELSE rows
\* (mutant) pauses without cancelSignalsForRun
PausedQueueKept(rows, q, r) == q

PausedQueue(rows, q, r) == IF rows[r].status = "running" THEN WithoutRun(q, r) ELSE q

\* (mutant) the first attempt that is found takes the status
FirstAttempt(s, status) ==
  IF attempts[s] = <<>> THEN attempts ELSE [attempts EXCEPT ![s][1] = status]

\* The attempt the step's activeAttemptId names, the latest one, takes a status.
FinalAttempt(s, status) ==
  IF attempts[s] = <<>> THEN attempts
  ELSE [attempts EXCEPT ![s][Len(attempts[s])] = status]

\* (mutant) claimAttempt without its conflict check
NonTerminalAttemptIgnored(s) == FALSE
NonTerminalAttempt(s) == \E n \in 1..Len(attempts[s]) : attempts[s][n] \in Occupied

\* A mutation of a task makes the revision a parked startTask read stale.
Stale(cs, s) ==
  [d \in Coroutines |-> IF cs[d].cur = s THEN [cs[d] EXCEPT !.valid = FALSE] ELSE cs[d]]

-----------------------------------------------------------------------------
\* Draining.

ClaimSignal(d) ==
  /\ co[d].pc = "drain"
  /\ \E g \in Claimable :
       /\ g.fresh
       /\ queue' = queue \ {g}
       /\ co' = [co EXCEPT ![d].pc = "loop", ![d].run = g.run, ![d].todo = Targets(g)]
  /\ UNCHANGED <<run, step, attempts, task, waiters, ops>>

DrainDone(d) ==
  /\ co[d].pc = "drain"
  /\ Claimable = {}
  /\ co' = [co EXCEPT ![d] = IF co[d].wake = {} /\ co[d].then = "return"
                             THEN Idle ELSE [co[d] EXCEPT !.pc = "wake"]]
  /\ UNCHANGED <<run, step, attempts, task, queue, waiters, ops>>

\* (mutant) a cancelled step counts as done
AllDoneOrCancelled(r) == \A s \in StepsOf(r) : step[s].status \in {"completed", "cancelled"}

AllDone(r) == \A s \in StepsOf(r) : step[s].status = "completed"

\* maybeCompleteRun and markProcessed, once every target was looked at.
FinishSignal(d) ==
  LET r == co[d].run
  IN /\ co[d].pc = "loop"
     /\ co[d].todo = {}
     /\ run' = IF run[r].status = "running" /\ AllDone(r)
               THEN [run EXCEPT ![r].status = "completed"]
               ELSE run
     /\ co' = [co EXCEPT ![d].pc = "drain", ![d].run = None]
     /\ UNCHANGED <<step, attempts, task, queue, waiters, ops>>

\* wakeCapacityWaiters: enqueueSignal for one waiter after the other.  The
\* steps of a run are listed when its turn comes, so one that has stopped
\* waiting by then may be passed over.
WakeNext(d) ==
  /\ co[d].pc = "wake"
  /\ \E s \in co[d].wake :
       \/ /\ queue' = Notify(run, queue, RunOf[s], s, TRUE, FALSE, TRUE)
          /\ co' = [co EXCEPT ![d].pc = "drain", ![d].wake = @ \ {s}]
       \/ /\ s \notin waiters
          /\ co' = [co EXCEPT ![d].wake = @ \ {s}]
          /\ UNCHANGED queue
  /\ UNCHANGED <<run, step, attempts, task, waiters, ops>>

\* What onChildTaskMutated does after its waiters were woken.
WakeDone(d) ==
  LET c == co[d]
  IN /\ c.pc = "wake"
     /\ c.wake = {}
     /\ IF c.then = "pause"
        THEN run' = PausedRuns(run, c.for) /\ queue' = PausedQueue(run, queue, c.for)
        ELSE UNCHANGED <<run, queue>>
     /\ co' = [co EXCEPT ![d] = IF c.then = "drain" THEN Draining ELSE Idle]
     /\ UNCHANGED <<step, attempts, task, waiters, ops>>

-----------------------------------------------------------------------------
\* tryAdvanceStep, up to the await inside startTask.  Every path first takes
\* the step out of the waiter index.

Settled(s) == step[s].status \in {"completed", "cancelled"} \cup Occupied

BackingOff(s) == step[s].status = "retry_wait" /\ step[s].backoff
\* (mutant) one completed dependency is enough
AnyDepCompleted(s) ==
  Deps[s] = {} \/ \E t \in Deps[s] : step[t].status \in {"completed", "failed"}

DepsCompleted(s) == \A t \in Deps[s] : step[t].status = "completed"
DepBlocked(s) == \E t \in Deps[s] : step[t].status \in {"failed", "cancelled"}
\* (mutant) a claimed step still inside startTask is not counted
SlotsLaunched(r) == {s \in StepsOf(r) : step[s].status = "running"}

SlotsTaken(r) == {s \in StepsOf(r) : step[s].status \in Occupied}
SlotsFull(r) == Cardinality(SlotsTaken(r)) >= MaxConcurrent
ActiveOn(a) == {s \in Steps : AdapterOf[s] = a /\ task[s].status = "active"}
AdapterFull(s) == Cardinality(ActiveOn(AdapterOf[s])) >= Capacity

\* (mutant) off by one
AttemptsLeftOrEqual(s) == step[s].tries <= MaxAttempts

AttemptsLeft(s) == step[s].tries < MaxAttempts

\* prepareTaskRetryIfEligible: a failed task behind a retry_wait step.
Preparable(s) ==
  /\ step[s].status = "retry_wait"
  /\ task[s].status = "failed"
  /\ ~run[RunOf[s]].open
  /\ AttemptsLeft(s)
  /\ attempts[s] # <<>> /\ attempts[s][Len(attempts[s])] = "failed"

Prepared(s) ==
  IF Preparable(s) THEN [task EXCEPT ![s] = [status |-> "assigned", cancel |-> FALSE]]
  ELSE task
Launchable(s) == Prepared(s)[s].status = "assigned"

\* d has come to step s of its signal's targets, in plan order.
At(d, s) ==
  /\ co[d].pc = "loop"
  /\ s \in co[d].todo
  /\ \A t \in co[d].todo : s <= t

Eligible(s) ==
  /\ ~Settled(s) /\ ~BackingOff(s)
  /\ DepsCompleted(s)
  /\ ~run[RunOf[s]].open

Onward(d, s) == [co EXCEPT ![d].todo = @ \ {s}]

PassOver(d, s) ==
  /\ At(d, s)
  /\ \/ Settled(s)
     \/ BackingOff(s)
     \/ DepsCompleted(s) /\ run[RunOf[s]].open
     \/ Eligible(s) /\ ~SlotsFull(RunOf[s]) /\ ~Launchable(s)
  /\ waiters' = waiters \ {s}
  /\ co' = Onward(d, s)
  /\ UNCHANGED <<run, step, attempts, task, queue, ops>>

HoldForDependencies(d, s) ==
  /\ At(d, s)
  /\ ~Settled(s) /\ ~BackingOff(s) /\ ~DepsCompleted(s)
  /\ waiters' = waiters \ {s}
  /\ co' = Onward(d, s)
  /\ IF DepBlocked(s)
     THEN /\ step' = Upsert(s, "awaiting_intervention")
          /\ IF PauseOnFailure
             THEN run' = PausedRuns(run, RunOf[s]) /\ queue' = PausedQueue(run, queue, RunOf[s])
             ELSE UNCHANGED <<run, queue>>
     ELSE step' = Upsert(s, "waiting_for_dependencies") /\ UNCHANGED <<run, queue>>
  /\ UNCHANGED <<attempts, task, ops>>

ParkForSlot(d, s) ==
  /\ At(d, s) /\ Eligible(s)
  /\ SlotsFull(RunOf[s])
  /\ step' = Park(s)
  /\ waiters' = waiters \ {s}
  /\ co' = Onward(d, s)
  /\ UNCHANGED <<run, attempts, task, queue, ops>>

ParkForAdapter(d, s) ==
  /\ At(d, s) /\ Eligible(s)
  /\ ~SlotsFull(RunOf[s]) /\ Launchable(s) /\ AdapterFull(s)
  /\ task' = Prepared(s)
  /\ step' = Park(s)
  /\ waiters' = waiters \cup {s}
  /\ co' = Onward(d, s)
  /\ UNCHANGED <<run, attempts, queue, ops>>

\* Nothing stands in the way of attempt tries + 1 but the attempt policy.
Clear(d, s) ==
  /\ At(d, s) /\ Eligible(s)
  /\ ~SlotsFull(RunOf[s]) /\ Launchable(s) /\ ~AdapterFull(s)

ReachAttemptLimit(d, s) ==
  /\ Clear(d, s)
  /\ ~AttemptsLeft(s)
  /\ step' = Upsert(s, "awaiting_intervention")
  /\ IF PauseOnFailure
     THEN run' = PausedRuns(run, RunOf[s]) /\ queue' = PausedQueue(run, queue, RunOf[s])
     ELSE UNCHANGED <<run, queue>>
  /\ waiters' = waiters \ {s}
  /\ co' = Onward(d, s)
  /\ UNCHANGED <<attempts, task, ops>>

\* claimAttempt refuses while an attempt of the step is not terminal.
LoseClaim(d, s) ==
  /\ Clear(d, s)
  /\ AttemptsLeft(s)
  /\ NonTerminalAttempt(s)
  /\ task' = Prepared(s)
  /\ waiters' = waiters \ {s}
  /\ co' = Onward(d, s)
  /\ UNCHANGED <<run, step, attempts, queue, ops>>

ClaimStep(d, s) ==
  /\ Clear(d, s)
  /\ AttemptsLeft(s)
  /\ ~NonTerminalAttempt(s)
  /\ task' = Prepared(s)
  /\ attempts' = [attempts EXCEPT ![s] = Append(@, "claimed")]
  /\ step' = Upsert(s, "claimed")
  /\ waiters' = waiters \ {s}
  /\ co' = [co EXCEPT ![d].pc = "detect", ![d].todo = @ \ {s}, ![d].cur = s,
                      ![d].num = Len(attempts[s]) + 1, ![d].valid = TRUE]
  /\ UNCHANGED <<run, queue, ops>>

Advance(d) ==
  \E s \in Steps :
    \/ PassOver(d, s)
    \/ HoldForDependencies(d, s)
    \/ ParkForSlot(d, s)
    \/ ParkForAdapter(d, s)
    \/ ReachAttemptLimit(d, s)
    \/ LoseClaim(d, s)
    \/ ClaimStep(d, s)

-----------------------------------------------------------------------------
\* A child task reaches a terminal status: onChildTaskMutated, up to its first
\* await, run by a coroutine of its own.

Heard(s) ==
  /\ run[RunOf[s]].status \in {"running", "paused", "awaiting_intervention"}
  /\ step[s].status \notin {"completed", "failed", "cancelled", "retry_wait"}

\* (mutant) wakes the wrong side of excludeRunId
OwnWaiters(s) == {t \in waiters : AdapterOf[t] = AdapterOf[s] /\ RunOf[t] = RunOf[s]}

\* The waiters of the freed adapter that belong to other runs.
OtherWaiters(s) == {t \in waiters : AdapterOf[t] = AdapterOf[s] /\ RunOf[t] # RunOf[s]}

Listening(s, then) == [Idle EXCEPT !.pc = "wake", !.wake = OtherWaiters(s), !.then = then,
                                   !.for = RunOf[s]]

WasRunning(s) == run[RunOf[s]].status = "running"

\* After a step failed or was cancelled for good in a running run.
AfterLoss(s) ==
  IF ~WasRunning(s) THEN "return" ELSE IF PauseOnFailure THEN "pause" ELSE "drain"
LossQueue(rows, s) ==
  IF WasRunning(s) /\ ~PauseOnFailure
  THEN Notify(rows, queue, RunOf[s], s, FALSE, TRUE, TRUE)
  ELSE queue

TaskCompletes(s, d) ==
  /\ task[s].status = "active" /\ Heard(s) /\ co[d] = Idle
  /\ task' = [task EXCEPT ![s].status = "completed"]
  /\ attempts' = FinalAttempt(s, "completed")
  /\ step' = Upsert(s, "completed")
  /\ run' = [run EXCEPT ![RunOf[s]].failures = 0]
  /\ queue' = Notify(run, queue, RunOf[s], s, FALSE, TRUE, TRUE)
  /\ co' = [co EXCEPT ![d] = Listening(s, IF WasRunning(s) THEN "drain" ELSE "return")]
  /\ UNCHANGED <<waiters, ops>>

\* handleChildTaskFailure.  `transient` is the classification that decideRetry
\* accepts.
Retried(s, transient) == transient /\ AttemptsLeft(s)

Failures(r) == IF run[r].failures < MaxFailures THEN run[r].failures + 1 ELSE MaxFailures

TaskFails(s, transient, d) ==
  LET r == RunOf[s]
      trips == WasRunning(s) /\ Failures(r) >= MaxFailures
      retried == WasRunning(s) /\ ~trips /\ Retried(s, transient)
      rows == IF WasRunning(s)
              THEN [run EXCEPT ![r].failures = Failures(r), ![r].open = @ \/ trips]
              ELSE run
  IN /\ task[s].status = "active" /\ Heard(s) /\ co[d] = Idle
     /\ task' = [task EXCEPT ![s].status = "failed"]
     /\ attempts' = FinalAttempt(s, "failed")
     /\ step' = IF retried THEN [step EXCEPT ![s] = Row(s, "retry_wait", FALSE, TRUE)]
                ELSE Upsert(s, "failed")
     /\ run' = rows
     /\ queue' = IF trips THEN queue
                 ELSE IF retried THEN Notify(rows, queue, r, s, TRUE, FALSE, FALSE)
                 ELSE LossQueue(rows, s)
     /\ co' = [co EXCEPT ![d] = Listening(s, IF trips THEN "pause"
                                             ELSE IF retried THEN "return" ELSE AfterLoss(s))]
     /\ UNCHANGED <<waiters, ops>>

TaskCancelled(s, d) ==
  /\ task[s].status = "active" /\ task[s].cancel /\ Heard(s) /\ co[d] = Idle
  /\ task' = [task EXCEPT ![s].status = "cancelled"]
  /\ attempts' = FinalAttempt(s, "cancelled")
  /\ step' = Upsert(s, "cancelled")
  /\ queue' = LossQueue(run, s)
  /\ co' = [co EXCEPT ![d] = Listening(s, AfterLoss(s))]
  /\ UNCHANGED <<run, waiters, ops>>

\* A run that is over, or a step that is settled, does not hear of it.
TaskEndsUnheard(s, status) ==
  /\ task[s].status = "active" /\ ~Heard(s)
  /\ status = "cancelled" => task[s].cancel
  /\ task' = [task EXCEPT ![s].status = status]
  /\ UNCHANGED <<run, step, attempts, queue, waiters, co, ops>>

TaskEnds(s) ==
  \/ \E d \in Coroutines : \/ TaskCompletes(s, d)
                           \/ \E transient \in BOOLEAN : TaskFails(s, transient, d)
                           \/ TaskCancelled(s, d)
  \/ \E status \in {"completed", "failed", "cancelled"} : TaskEndsUnheard(s, status)

-----------------------------------------------------------------------------
\* adapter.detect() has answered: startTask ends, one way or the other.

Parked(d) == co[d].pc = "detect"

Returned(cs, d) ==
  [cs EXCEPT ![d].pc = "loop", ![d].cur = None, ![d].num = 0, ![d].valid = TRUE]

\* startIfEligible: the revision read before detect() is still the task's.
Committable(d) == co[d].valid /\ task[co[d].cur].status = "assigned"

\* The continuation writes what it launched, whatever the step has become.
\* (mutant) forgets to record the launch
StartedStepUnrecorded(s) == step

StartedStep(s) == Upsert(s, "running")
StartedAttempt(d, s) == [attempts EXCEPT ![s][co[d].num] = "running"]

LaunchSucceeds(d) ==
  LET s == co[d].cur
  IN /\ Parked(d) /\ Committable(d)
     /\ ~task[s].cancel
     /\ task' = [task EXCEPT ![s].status = "active"]
     /\ attempts' = StartedAttempt(d, s)
     /\ step' = StartedStep(s)
     /\ co' = Returned(Stale(co, s), d)
     /\ UNCHANGED <<run, queue, waiters, ops>>

\* A cancellation asked for before the launch: execute() cancels the task
\* before startTask returns, onChildTaskMutated hears of it in a coroutine of
\* its own, and only then does the launching coroutine write its success.
LaunchCancelled(d, e) ==
  LET s == co[d].cur
  IN /\ Parked(d) /\ Committable(d)
     /\ task[s].cancel
     /\ co[e] = Idle
     /\ task' = [task EXCEPT ![s].status = "cancelled"]
     /\ attempts' = StartedAttempt(d, s)
     /\ step' = StartedStep(s)
     /\ IF Heard(s)
        THEN /\ queue' = LossQueue(run, s)
             /\ co' = [Returned(Stale(co, s), d) EXCEPT ![e] = Listening(s, AfterLoss(s))]
        ELSE /\ UNCHANGED queue
             /\ co' = Returned(Stale(co, s), d)
     /\ UNCHANGED <<run, waiters, ops>>

\* handleStartFailure: the adapter is unavailable, no longer meets the
\* requirements (`drifted`), or the commit lost to another change (also
\* `drifted`).  None of these is transient, so no retry is scheduled.
LaunchFails(d, drifted) ==
  LET s == co[d].cur
      r == RunOf[s]
      q == IF drifted THEN WithoutStep(queue, s) ELSE queue
      trips == Failures(r) >= MaxFailures
      rows == [run EXCEPT ![r].failures = Failures(r), ![r].open = @ \/ trips]
  IN /\ Parked(d)
     /\ attempts' = [attempts EXCEPT ![s][co[d].num] = "failed"]
     /\ step' = Upsert(s, "awaiting_intervention")
     /\ IF trips \/ PauseOnFailure
        THEN run' = PausedRuns(rows, r) /\ queue' = PausedQueue(rows, q, r)
        ELSE run' = rows /\ queue' = q
     /\ co' = Returned(co, d)
     /\ UNCHANGED <<task, waiters, ops>>

Detected(d) ==
  \/ LaunchSucceeds(d)
  \/ \E e \in Coroutines : LaunchCancelled(d, e)
  \/ \E drifted \in BOOLEAN : LaunchFails(d, drifted)

-----------------------------------------------------------------------------
\* Requests of the operator (routes/ceo-plan-runs.ts, the Kanban board) and
\* the passing of time.

Operator(kind) == kind \in Requests /\ Quiet /\ ops < MaxOps /\ ops' = ops + 1

StartRun(r, d) ==
  /\ Quiet /\ co[d] = Idle
  /\ run[r].status = "configured"
  /\ run' = [run EXCEPT ![r].status = "running"]
  /\ queue' = Enqueued(queue, r, None, FALSE, FALSE, TRUE)
  /\ co' = [co EXCEPT ![d] = Draining]
  /\ UNCHANGED <<step, attempts, task, waiters, ops>>

PauseRun(r) ==
  /\ Operator("pause")
  /\ run[r].status \in {"running", "awaiting_intervention"}
  /\ run' = [run EXCEPT ![r].status = "paused"]
  /\ queue' = WithoutRun(queue, r)
  /\ UNCHANGED <<step, attempts, task, waiters, co>>

ResumeRun(r, d) ==
  /\ Operator("resume") /\ co[d] = Idle
  /\ run[r].status \in {"paused", "awaiting_intervention"}
  /\ run' = [run EXCEPT ![r] = [status |-> "running", open |-> FALSE, failures |-> 0]]
  /\ queue' = Enqueued(NewGeneration(queue, r), r, None, FALSE, FALSE, TRUE)
  /\ co' = [co EXCEPT ![d] = Draining]
  /\ UNCHANGED <<step, attempts, task, waiters>>

CancelRun(r) ==
  /\ Operator("cancel")
  /\ run[r].status \in {"configured", "running", "paused", "awaiting_intervention"}
  /\ run' = [run EXCEPT ![r].status = "cancelled"]
  /\ queue' = WithoutRun(queue, r)
  /\ UNCHANGED <<step, attempts, task, waiters, co>>

\* The retry route, for a step whose latest attempt was not abandoned.
RetryStep(s, d) ==
  /\ Operator("retry") /\ co[d] = Idle
  /\ step[s].status \in {"failed", "awaiting_intervention"}
  /\ queue' = Notify(run, queue, RunOf[s], s, TRUE, FALSE, TRUE)
  /\ co' = [co EXCEPT ![d] = Draining]
  /\ UNCHANGED <<run, step, attempts, task, waiters>>

Cancellable(s) == task[s].status \in {"assigned", "active"} /\ ~task[s].cancel

EmergencyStop(r) ==
  LET hit == {s \in StepsOf(r) : step[s].status \in Occupied /\ Cancellable(s)}
  IN /\ Operator("stop")
     /\ run[r].status \notin {"completed", "cancelled"}
     /\ IF run[r].status = "running"
        THEN run' = [run EXCEPT ![r].status = "paused"] /\ queue' = WithoutRun(queue, r)
        ELSE UNCHANGED <<run, queue>>
     /\ task' = [s \in Steps |-> IF s \in hit THEN [task[s] EXCEPT !.cancel = TRUE] ELSE task[s]]
     /\ co' = [d \in Coroutines |->
                 IF co[d].cur \in hit THEN [co[d] EXCEPT !.valid = FALSE] ELSE co[d]]
     /\ UNCHANGED <<step, attempts, waiters>>

\* "Cancel task" on the Kanban board (requestCancellation).
CancelTask(s) ==
  /\ Operator("cancel_task")
  /\ Cancellable(s)
  /\ task' = [task EXCEPT ![s].cancel = TRUE]
  /\ co' = Stale(co, s)
  /\ UNCHANGED <<run, step, attempts, queue, waiters>>

\* "Start task" on the Kanban board.
StartTask(s) ==
  /\ Operator("start_task")
  /\ task[s].status = "assigned" /\ ~task[s].cancel
  /\ task' = [task EXCEPT ![s].status = "active"]
  /\ co' = Stale(co, s)
  /\ UNCHANGED <<run, step, attempts, queue, waiters>>

Request ==
  \/ \E r \in Runs : PauseRun(r) \/ CancelRun(r) \/ EmergencyStop(r)
  \/ \E s \in Steps : CancelTask(s) \/ StartTask(s)
  \/ \E d \in Coroutines : \/ \E r \in Runs : ResumeRun(r, d)
                           \/ \E s \in Steps : RetryStep(s, d)

\* nextEligibleAt passes, and with it the availableAt of the retry_due signal.
BackoffElapses(s) ==
  /\ Quiet
  /\ step[s].backoff \/ \E g \in queue : g.step = s /\ ~g.due
  /\ step' = [step EXCEPT ![s].backoff = FALSE]
  /\ queue' = {IF g.step = s THEN [g EXCEPT !.due = TRUE] ELSE g : g \in queue}
  /\ UNCHANGED <<run, attempts, task, waiters, co, ops>>

\* The one-shot timer, armed for the soonest pending signal.
WakeTimer(d) ==
  /\ Quiet /\ co[d] = Idle
  /\ Claimable # {}
  /\ co' = [co EXCEPT ![d] = Draining]
  /\ UNCHANGED <<run, step, attempts, task, queue, waiters, ops>>

Drain(d) ==
  \/ ClaimSignal(d)
  \/ DrainDone(d)
  \/ Advance(d)
  \/ FinishSignal(d)
  \/ WakeNext(d)
  \/ WakeDone(d)

Next ==
  \/ \E d \in Coroutines : Drain(d) \/ Detected(d) \/ WakeTimer(d)
  \/ \E r \in Runs, d \in Coroutines : StartRun(r, d)
  \/ \E s \in Steps : TaskEnds(s) \/ BackoffElapses(s)
  \/ Request

Spec == Init /\ [][Next]_vars

\* Microtasks run, detect() answers, adapter runs end, timers fire.
Fairness ==
  /\ \A d \in Coroutines : WF_vars(Drain(d)) /\ WF_vars(Detected(d)) /\ WF_vars(WakeTimer(d))
  /\ \A s \in Steps : WF_vars(TaskEnds(s)) /\ WF_vars(BackoffElapses(s))

FairSpec == Spec /\ Fairness

-----------------------------------------------------------------------------
\* What the scheduler promises.

\* A step never has two attempts in flight, and every attempt is counted
\* against maxAttemptsPerStep (the reason claimAttempt is a transaction).
AttemptsInSequence ==
  \A s \in Steps :
    /\ step[s].tries = Len(attempts[s])
    /\ \A n \in 1..Len(attempts[s]) : n < Len(attempts[s]) => attempts[s][n] \notin Occupied

\* A step is attempted only after the work it depends on was really done.
DependenciesDoneFirst ==
  \A s \in Steps : attempts[s] # <<>> => \A t \in Deps[s] : task[t].status = "completed"

\* The plan claims no work its agents did not complete.
CompletionIsEarned ==
  /\ \A s \in Steps : step[s].status = "completed" => task[s].status = "completed"
  /\ \A r \in Runs : run[r].status = "completed"
                       => \A s \in StepsOf(r) : task[s].status = "completed"

\* A claimed step is always in the hands of a coroutine inside startTask:
\* nothing else ever moves it on.
ClaimHasLauncher ==
  \A s \in Steps : step[s].status = "claimed"
                     => \E d \in Coroutines : co[d].pc = "detect" /\ co[d].cur = s

\* maxConcurrentSteps bounds the steps of a run that are claimed or running,
\* whatever is parked in detect(), paused, resumed or retried meanwhile.
ConcurrencyLimit ==
  \A r \in Runs :
    Cardinality({s \in StepsOf(r) : step[s].status \in Occupied}) <= MaxConcurrent

\* A run that was paused, stopped or cancelled has no signal left to wake it,
\* not even one of an older generation, which nothing would ever claim.
StoppedRunIsQuiet ==
  \A g \in queue : g.fresh /\ run[g.run].status \in {"running", "completed"}

\* A step the scheduler shows as running has a task that is running.
\* Violated: a launch can overwrite a cancellation (README, 8).
RunningStepHasTask ==
  \A s \in Steps : step[s].status = "running" => task[s].status = "active"

\* No step is claimed in a run that is not running. Violated: the
\* run's status is read once per signal (README, 8).
OnlyRunningRunsClaim ==
  [][\A s \in Steps :
       (step'[s].status = "claimed" /\ step[s].status # "claimed")
         => run[RunOf[s]].status = "running"]_vars

\* The attempt history tells what happened: a step is attempted again only after
\* a failure, and its latest attempt is shown as completed or cancelled only if
\* its task is.  Launches that return late and tasks started by hand rewrite
\* attempts (lines 1149 and 1183), but never an earlier one as anything but
\* failed, and never into a result the agent did not reach.
HistoryIsTrue ==
  \A s \in Steps : \A n \in 1..Len(attempts[s]) :
    IF n < Len(attempts[s])
    THEN attempts[s][n] = "failed"
    ELSE attempts[s][n] \in {"completed", "cancelled"} => task[s].status = attempts[s][n]

\* t holds a place of another run on the adapter s waits for.
InTheWay(t, s) ==
  AdapterOf[t] = AdapterOf[s] /\ RunOf[t] # RunOf[s] /\ task[t].status = "active"

\* What may hold up a step of a running run for good: it waits for a place its
\* own run holds, a slot, which no index records (line 1027), or one on the
\* adapter, whose end wakes other runs only (331); its retry_due was cancelled by
\* a pause (979); a launch wrote "running" over its cancellation (1149).
WaitsForOwnRun(s) == step[s].parked /\ (s \notin waiters \/ ~\E t \in Steps : InTheWay(t, s))
Disarmed(s) ==
  step[s].status = "retry_wait" /\ ~\E g \in queue : g.run = RunOf[s] /\ s \in Targets(g)
Overwritten(s) == step[s].status = "running" /\ task[s].status = "cancelled"

Ended(s) == step[s].status \in {"completed", "failed", "cancelled", "awaiting_intervention"}

AtRest(s) ==
  Ended(s) \/ ~DepsCompleted(s) \/ WaitsForOwnRun(s) \/ Disarmed(s) \/ Overwritten(s)

\* A running run completes, stops, or comes to rest with every step ended,
\* behind a dependency that is not completed, or held up in one of the three
\* ways above: no other step is left with nothing to wake it, and a run whose
\* steps are all completed is.  Checked without tasks started by hand: one that
\* fails before its step's first attempt cannot be retried (line 548).
RunSettles ==
  \A r \in Runs :
    []<>(\/ run[r].status # "running"
         \/ ~AllDone(r) /\ \A s \in StepsOf(r) : AtRest(s))

\* The same without the hold-ups: a running run comes to an end, is stopped, or
\* shows the operator a step that was lost. Violated (README, 8).
RunAlwaysSettles ==
  \A r \in Runs :
    run[r].status = "running"
      ~> \/ run[r].status # "running"
         \/ \E s \in StepsOf(r) :
              step[s].status \in {"failed", "cancelled", "awaiting_intervention"}

Awaiting(s) == step[s].parked /\ s \in waiters /\ run[RunOf[s]].status = "running"

\* A step parked for its adapter is looked at again once a task of another run
\* that the scheduler listens to frees it, whatever is paused, resumed, cancelled
\* or retried meanwhile and whichever coroutines are under way.  The end of a task
\* whose run is over, or whose step has ended without it, goes unheard (line 1383).
ParkedStepReconsidered ==
  \A s, t \in Steps :
    (Awaiting(s) /\ InTheWay(t, s) /\ Heard(t))
      ~> (~Awaiting(s) \/ (InTheWay(t, s) /\ ~Heard(t)))

\* The same whoever frees the adapter: the wake of wakeCapacityWaiters is never
\* lost. Violated (README, 8).
WakeIsNeverLost ==
  \A s \in Steps : step[s].parked ~> (~step[s].parked \/ run[RunOf[s]].status # "running")

BacksOff(s) == step[s].status = "retry_wait" /\ run[RunOf[s]].status = "running"

\* A signal of the run will look at s, when its backoff is over.
Armed(s) ==
  \E g \in queue : g.run = RunOf[s] /\ g.fresh /\ s \in Targets(g) /\ (g.due => ~step[s].backoff)

\* The retry_due has merged with a wake that is due before the backoff is over.
Hurried(s) == step[s].backoff /\ \E g \in queue : g.step = s /\ g.due


\* The same across a pause: retry_wait wakes itself. Violated (README, 8).
RetryAlwaysFires ==
  \A s \in Steps :
    step[s].status = "retry_wait"
      ~> (step[s].status # "retry_wait" \/ run[RunOf[s]].status # "running")
=============================================================================
