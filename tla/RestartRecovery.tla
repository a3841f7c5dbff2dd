--------------------------- MODULE RestartRecovery ---------------------------
(***************************************************************************)
(* A durable Hall Core that may die between any two of its transactions,   *)
(* and what the next start makes of what it finds: reconcileTasks          *)
(* (recovery/reconcile-tasks.ts), then runCeoPlanExecutionRecovery         *)
(* (ceo-execution/ceo-plan-execution-recovery.ts), then the task-mutation  *)
(* bridge is armed and requests are served (server.ts).  One step of one   *)
(* autonomous plan run and its child task stand for all: what is at stake  *)
(* is the order of the transactions of one handler, and the rows they      *)
(* leave when only some of them were committed.                            *)
(*                                                                         *)
(* `todo` holds the transactions a synchronous handler has yet to commit;  *)
(* nothing else runs in the process before they are done, but it may stop  *)
(* before each.  Dependencies, capacity, the circuit breaker and several   *)
(* drains at once are PlanScheduler's; the policy is the one that pauses   *)
(* on any permanent failure.                                               *)
(***************************************************************************)
EXTENDS Naturals, Sequences, SequencesExt

CONSTANTS
  MaxAttempts, \* maxAttemptsPerStep
  MaxStops,    \* bound on crashes and shutdowns
  MaxOps,      \* bound on operator requests
  None

ASSUME BoundAssumption ==
  MaxAttempts \in Nat \ {0} /\ MaxStops \in Nat /\ MaxOps \in Nat
ASSUME NoneAssumption == None \notin Nat \cup STRING

VARIABLES
  task,     \* tasks: the child task; run 0 is no run
  log,      \* events of its stream; `closed` is the is_terminal flag of the last one
  plan,     \* ceo_plan_runs; `swept` is recoveryClassification unclean_paused
  step,     \* ceo_plan_step_executions; `waiting` until nextEligibleAt
  attempts, \* ceo_plan_step_attempts, by attempt number
  intents,  \* ceo_plan_abandoned_retry_intents, in order of requested_at
  signals,  \* pending signals: the run's own, and the step's
  clean,    \* boots: the last one ended with a clean-shutdown marker
  host,     \* the process
  launched, \* history: attempts whose task run was committed
  consent,  \* history: an operator has acted since the last unclean pause, or an
            \* intent of theirs was carried out
  stops, ops

durable == <<task, log, plan, step, attempts, intents, signals, clean>>
vars == <<task, log, plan, step, attempts, intents, signals, clean,
          host, launched, consent, stops, ops>>

Number == 1..MaxAttempts
Outcomes == {"completed", "cancelled", "transient", "permanent", "restart"}
\* (mutant) statuses and event types taken for the same words
StatusAsLogged(outcome) == outcome

StatusOf(outcome) == IF outcome \in {"completed", "cancelled"} THEN outcome ELSE "failed"
TaskEnds == {"completed", "cancelled", "failed"}

NoSignal == [on |-> FALSE, manual |-> FALSE, self |-> FALSE, due |-> FALSE]
Off == [pc |-> "down", todo |-> <<>>, agent |-> 0, ready |-> 0, index |-> FALSE,
        unclean |-> FALSE, intent |-> 0]

Transactions ==
  {"meta", "running", "outcome", "status", "hook", "reopen", "advance", "advance_for_operator",
   "launch", "attempt_runs", "step_runs", "attempt_fails", "step_waits", "pause", "complete",
   "continue", "enqueue"}

TypeOK ==
  /\ task \in [status : {"assigned", "running"} \cup TaskEnds, run : 0..MaxAttempts,
               outcome : Outcomes \cup {None}, count : Nat]
  /\ log \in [events : Seq([run : Number, type : Outcomes \cup {"started"}]), closed : BOOLEAN]
  /\ plan \in [status : {"running", "paused", "awaiting_intervention", "completed", "cancelled"},
               swept : BOOLEAN]
  /\ step \in [status : {"ready", "claimed", "running", "retry_wait", "awaiting_intervention"}
                          \cup TaskEnds,
               waiting : BOOLEAN]
  /\ attempts \in Seq([status : {"claimed", "running", "abandoned"} \cup TaskEnds,
                       run : 0..MaxAttempts])
  /\ Len(attempts) <= MaxAttempts
  /\ intents \in Seq([old : Number, new : 0..MaxAttempts])
  /\ signals \in [run : BOOLEAN,
                  step : [on : BOOLEAN, manual : BOOLEAN, self : BOOLEAN, due : BOOLEAN]]
  /\ clean \in BOOLEAN /\ consent \in BOOLEAN
  /\ host \in [pc : {"down", "tasks", "runs", "draining", "intents", "up", "closing"},
               todo : Seq(Transactions), agent : 0..MaxAttempts, ready : 0..MaxAttempts,
               index : BOOLEAN, unclean : BOOLEAN, intent : Nat]
  /\ launched \subseteq Number

\* Just after POST .../start: the run is running and its first signal pending.
Init ==
  /\ task = [status |-> "assigned", run |-> 0, outcome |-> None, count |-> 0]
  /\ log = [events |-> <<>>, closed |-> FALSE]
  /\ plan = [status |-> "running", swept |-> FALSE]
  /\ step = [status |-> "ready", waiting |-> FALSE]
  /\ attempts = <<>> /\ intents = <<>>
  /\ signals = [run |-> TRUE, step |-> NoSignal]
  /\ clean = FALSE
  /\ host = [Off EXCEPT !.pc = "up", !.index = TRUE]
  /\ launched = {} /\ consent = TRUE
  /\ stops = 0 /\ ops = 0

Serving == host.pc \in {"draining", "intents", "up", "closing"}
Idle == host.todo = <<>>
Doing(transaction) == host.todo # <<>> /\ Head(host.todo) = transaction
Done(more) == host' = [host EXCEPT !.todo = more \o Tail(@)]
Abandon == host' = [host EXCEPT !.todo = <<>>]
Latest == attempts[Len(attempts)]
Occupied == {"claimed", "running"}
LastIsOutcome == log.events # <<>> /\ Last(log.events).type \in Outcomes
Quiescent ==
  Idle /\ host.ready = 0 /\ ~signals.run /\ ~(signals.step.on /\ signals.step.due)

-----------------------------------------------------------------------------
\* The task: TaskOrchestrator's handling of an event (#handleEvent), each store
\* call a transaction of its own, and what recovery replays of it.

Appended(run, type) ==
  [events |-> Append(log.events, [run |-> run, type |-> type]),
   closed |-> log.closed \/ type \in Outcomes]

Emit(type) ==
  /\ Serving /\ Idle /\ host.agent # 0 /\ ~log.closed
  /\ LET begun == [run |-> host.agent, type |-> "started"] \in ToSet(log.events)
     IN type = "started" <=> ~begun
  /\ log' = Appended(host.agent, type)
  /\ host' = IF type = "started"
             THEN [host EXCEPT !.todo = <<"meta", "running">>]
             ELSE [host EXCEPT !.todo = <<"meta", "outcome", "status", "hook">>, !.agent = 0]
  /\ UNCHANGED <<task, plan, step, attempts, intents, signals, clean, launched, consent, stops, ops>>

RecordEventMeta ==
  /\ Doing("meta")
  /\ task' = [task EXCEPT !.count = @ + 1]
  /\ Done(<<>>)
  /\ UNCHANGED <<log, plan, step, attempts, intents, signals, clean, launched, consent, stops, ops>>

StartRunning ==
  /\ Doing("running")
  /\ task' = [task EXCEPT !.status = "running"]
  /\ Done(<<>>)
  /\ UNCHANGED <<log, plan, step, attempts, intents, signals, clean, launched, consent, stops, ops>>

SetCompleted ==
  /\ Doing("outcome")
  /\ task' = [task EXCEPT !.outcome = Last(log.events).type]
  /\ Done(<<>>)
  /\ UNCHANGED <<log, plan, step, attempts, intents, signals, clean, launched, consent, stops, ops>>

UpdateStatus ==
  /\ Doing("status")
  /\ task' = [task EXCEPT !.status = StatusOf(Last(log.events).type)]
  /\ Done(<<>>)
  /\ UNCHANGED <<log, plan, step, attempts, intents, signals, clean, launched, consent, stops, ops>>

-----------------------------------------------------------------------------
\* prepareRetry: two transactions, the second in the event store.

Prepared == [task EXCEPT !.status = "assigned", !.run = 0, !.outcome = None]

\* (mutant) prepareRetry without its second transaction
ReopenForgotten ==
  /\ Doing("reopen")
  /\ Done(<<>>)
  /\ UNCHANGED <<task, log, plan, step, attempts, intents, signals, clean, launched, consent, stops, ops>>

\* reopenForRetry(taskId, preCheck.lastSequence); a log that is open already
\* makes prepareRetry throw, after its first transaction was committed.
ReopenForRetry ==
  /\ Doing("reopen")
  /\ IF log.closed THEN log' = [log EXCEPT !.closed = FALSE] /\ Done(<<>>)
                   ELSE Abandon /\ UNCHANGED log
  /\ UNCHANGED <<task, plan, step, attempts, intents, signals, clean, launched, consent, stops, ops>>

-----------------------------------------------------------------------------
\* The scheduler.

\* enqueueSignalSync for the step; a pending signal takes the reason in.
Signalled(manual, self, due) ==
  IF plan.status # "running" THEN signals
  ELSE [signals EXCEPT !.step =
          [on |-> TRUE, manual |-> IF @.on THEN @.manual ELSE manual,
           self |-> @.self \/ self, due |-> @.due \/ due]]

NoSignals == [run |-> FALSE, step |-> NoSignal]

\* #drain takes the next signal of a running run.  A step's signal without a
\* reason to reconsider the step itself is for its dependents: here it only
\* leads to #maybeCompleteRun.
TakeSignal ==
  /\ Serving /\ Idle /\ host.ready = 0 /\ host.index
  /\ plan.status = "running"
  /\ \/ /\ signals.run
        /\ signals' = [signals EXCEPT !.run = FALSE]
        /\ host' = [host EXCEPT !.todo = <<"advance", "complete">>]
     \/ /\ signals.step.on /\ signals.step.due
        /\ signals' = [signals EXCEPT !.step = NoSignal]
        /\ host' = [host EXCEPT !.todo =
             (IF ~signals.step.self THEN <<>>
              ELSE IF signals.step.manual THEN <<"advance_for_operator">> ELSE <<"advance">>)
             \o <<"complete">>]
  /\ UNCHANGED <<task, log, plan, step, attempts, intents, clean, launched, consent, stops, ops>>

Preparable ==
  /\ step.status = "retry_wait" /\ task.status = "failed"
  /\ Len(attempts) < MaxAttempts /\ Latest.status = "failed"
  /\ task.outcome \notin {None, "restart"}

Launchable == task.status = "assigned" /\ task.run = 0

\* The intent a manual retry of the step would carry on.
Recoverable ==
  {i \in 1..Len(intents) :
     /\ attempts[intents[i].old].status = "abandoned"
     /\ \/ intents[i].new = 0
        \/ attempts[intents[i].new] = [status |-> "claimed", run |-> 0] /\ task.run = 0}
Newest(is) == CHOOSE i \in is : \A j \in is : j <= i

PassedOver ==
  \/ step.status \in {"completed", "cancelled"} \cup Occupied
  \/ step.status = "retry_wait" /\ step.waiting
  \/ ~Preparable /\ ~Launchable
  \/ Launchable /\ Len(attempts) < MaxAttempts /\ \E n \in 1..Len(attempts) : attempts[n].status \in Occupied

\* #tryAdvanceStep up to the commit of the claim.
AdvanceFor(name) ==
  /\ Doing(name)
  /\ \/ /\ PassedOver
        /\ Done(<<>>)
        /\ UNCHANGED <<task, step, attempts, intents>>
     \/ /\ ~PassedOver /\ Preparable
        /\ task' = Prepared
        /\ Done(<<"reopen", name>>)
        /\ UNCHANGED <<step, attempts, intents>>
     \/ /\ ~PassedOver /\ Launchable /\ Len(attempts) >= MaxAttempts
        /\ step' = [status |-> "awaiting_intervention", waiting |-> FALSE]
        /\ Done(<<"pause">>)
        /\ UNCHANGED <<task, attempts, intents>>
     \/ /\ ~PassedOver /\ Launchable /\ Len(attempts) < MaxAttempts
        /\ attempts' = Append(attempts, [status |-> "claimed", run |-> 0])
        /\ step' = [status |-> "claimed", waiting |-> FALSE]
        /\ intents' = IF name = "advance_for_operator" /\ Recoverable # {}
                      THEN [intents EXCEPT ![Newest(Recoverable)].new =
                              IF @ = 0 THEN Len(attempts) + 1 ELSE @]
                      ELSE intents
        /\ Done(<<"launch">>)
        /\ UNCHANGED task
  /\ UNCHANGED <<log, plan, signals, clean, launched, consent, stops, ops>>

Advance == AdvanceFor("advance") \/ AdvanceFor("advance_for_operator")

\* startTask(): the caller is parked in adapter.detect().
CallStartTask ==
  /\ Doing("launch")
  /\ host' = [host EXCEPT !.todo = <<>>, !.ready = Len(attempts)]
  /\ UNCHANGED <<durable, launched, consent, stops, ops>>

\* startIfEligible is committed, the adapter run begins, and the caller records
\* both: the attempt, then the step.
Launch ==
  /\ Serving /\ Idle /\ host.ready # 0 /\ Launchable
  /\ task' = [task EXCEPT !.run = host.ready]
  /\ launched' = launched \cup {host.ready}
  /\ consent' = (consent \/ \E i \in 1..Len(intents) : intents[i].new = host.ready)
  /\ host' = [host EXCEPT !.agent = host.ready, !.ready = 0,
                          !.todo = <<"attempt_runs", "step_runs", "complete">>]
  /\ UNCHANGED <<log, plan, step, attempts, intents, signals, clean, stops, ops>>

\* #handleStartFailure of a launch-time rejection.
LaunchFails ==
  /\ Serving /\ Idle /\ host.ready # 0
  /\ signals' = [signals EXCEPT !.step = NoSignal]
  /\ host' = [host EXCEPT !.ready = 0, !.todo = <<"attempt_fails", "step_waits", "pause", "complete">>]
  /\ UNCHANGED <<task, log, plan, step, attempts, intents, clean, launched, consent, stops, ops>>

UpdateAttempt ==
  /\ \/ /\ Doing("attempt_runs")
        /\ attempts' = [attempts EXCEPT ![Len(attempts)] =
                          [status |-> "running", run |-> Len(attempts)]]
     \/ /\ Doing("attempt_fails")
        /\ attempts' = [attempts EXCEPT ![Len(attempts)].status = "failed"]
  /\ Done(<<>>)
  /\ UNCHANGED <<task, log, plan, step, intents, signals, clean, launched, consent, stops, ops>>

UpsertStep ==
  /\ \/ Doing("step_runs") /\ step' = [status |-> "running", waiting |-> FALSE]
     \/ Doing("step_waits") /\ step' = [status |-> "awaiting_intervention", waiting |-> FALSE]
  /\ Done(<<>>)
  /\ UNCHANGED <<task, log, plan, attempts, intents, signals, clean, launched, consent, stops, ops>>

MaybeCompleteRun ==
  /\ Doing("complete")
  /\ plan' = IF plan.status = "running" /\ step.status = "completed"
             THEN [plan EXCEPT !.status = "completed"] ELSE plan
  /\ Done(<<>>)
  /\ UNCHANGED <<task, log, step, attempts, intents, signals, clean, launched, consent, stops, ops>>

PauseForIntervention ==
  /\ Doing("pause")
  /\ IF plan.status = "running"
     THEN plan' = [status |-> "awaiting_intervention", swept |-> FALSE] /\ signals' = NoSignals
     ELSE UNCHANGED <<plan, signals>>
  /\ Done(<<>>)
  /\ UNCHANGED <<task, log, step, attempts, intents, clean, launched, consent, stops, ops>>

\* onChildTaskMutated, once activateAutonomousScheduling has armed the bridge.
Deaf ==
  \/ host.pc \notin {"up", "closing"}
  \/ plan.status \notin {"running", "paused", "awaiting_intervention"}
  \/ step.status \in TaskEnds \cup {"retry_wait"}

Hook ==
  LET retried == /\ plan.status = "running" /\ task.outcome = "transient"
                 /\ Len(attempts) < MaxAttempts
  IN /\ Doing("hook")
     /\ \/ /\ Deaf
           /\ Done(<<>>)
           /\ UNCHANGED <<step, attempts, signals>>
        \/ /\ ~Deaf
           /\ attempts' = [attempts EXCEPT ![Len(attempts)].status = task.status]
           /\ step' = IF retried THEN [status |-> "retry_wait", waiting |-> TRUE]
                                 ELSE [status |-> task.status, waiting |-> FALSE]
           /\ signals' = IF retried THEN Signalled(FALSE, TRUE, FALSE)
                         ELSE IF task.status = "completed" THEN Signalled(FALSE, FALSE, TRUE)
                         ELSE signals
           /\ Done(IF retried \/ task.status = "completed" THEN <<>> ELSE <<"pause">>)
     /\ UNCHANGED <<task, log, plan, intents, clean, launched, consent, stops, ops>>

\* nextEligibleAt passes, and with it the delay of the retry_due signal.
BackoffElapses ==
  /\ step.waiting
  /\ step' = [step EXCEPT !.waiting = FALSE]
  /\ signals' = [signals EXCEPT !.step.due = signals.step.on]
  /\ UNCHANGED <<task, log, plan, attempts, intents, clean, host, launched, consent, stops, ops>>

-----------------------------------------------------------------------------
\* The abandoned retry (retryAbandonedStep, continueAbandonedRetryIntent).

\* Carries on intent number host.intent, as far as the rows allow.
ContinueIntent ==
  LET intent == intents[host.intent]
      alive == plan.status = "running" /\ host.index /\ attempts[intent.old].status = "abandoned"
      unlaunched == attempts[intent.new] = [status |-> "claimed", run |-> 0] /\ Launchable
  IN /\ Doing("continue")
     /\ \/ /\ \/ ~alive
              \/ intent.new # 0 /\ ~unlaunched
              \/ intent.new = 0 /\ ~Launchable /\ task.outcome # "restart"
           /\ Abandon /\ UNCHANGED task
        \/ /\ alive /\ intent.new # 0 /\ unlaunched
           /\ Done(<<"launch">>) /\ UNCHANGED task
        \/ /\ alive /\ intent.new = 0 /\ task.status = "failed" /\ task.outcome = "restart"
           /\ task' = Prepared
           /\ Done(<<"reopen", "enqueue">>)
        \/ /\ alive /\ intent.new = 0 /\ Launchable
           /\ Done(<<"enqueue">>) /\ UNCHANGED task
     /\ UNCHANGED <<log, plan, step, attempts, intents, signals, clean, launched, consent, stops, ops>>

EnqueueManualRetry ==
  /\ Doing("enqueue")
  /\ signals' = Signalled(TRUE, TRUE, TRUE)
  /\ Done(<<>>)
  /\ UNCHANGED <<task, log, plan, step, attempts, intents, clean, launched, consent, stops, ops>>

-----------------------------------------------------------------------------
\* Requests of the operator (routes/ceo-plan-runs.ts).

Asked == host.pc \in {"up", "closing"} /\ Idle /\ ops < MaxOps /\ ops' = ops + 1

Resume ==
  /\ Asked /\ plan.status \in {"paused", "awaiting_intervention"}
  /\ plan' = [plan EXCEPT !.status = "running"]
  /\ host' = [host EXCEPT !.index = TRUE]
  /\ signals' = [run |-> TRUE, step |-> NoSignal]
  /\ consent' = TRUE
  /\ UNCHANGED <<task, log, step, attempts, intents, clean, launched, stops>>

Pause ==
  /\ Asked /\ plan.status \in {"running", "awaiting_intervention"}
  /\ plan' = [plan EXCEPT !.status = "paused"]
  /\ signals' = NoSignals
  /\ UNCHANGED <<task, log, step, attempts, intents, clean, host, launched, consent, stops>>

CancelRun ==
  /\ Asked /\ plan.status \in {"running", "paused", "awaiting_intervention"}
  /\ plan' = [plan EXCEPT !.status = "cancelled"]
  /\ signals' = NoSignals
  /\ UNCHANGED <<task, log, step, attempts, intents, clean, host, launched, consent, stops>>

RetryAsked == Asked /\ step.status \in {"failed", "awaiting_intervention"} /\ consent' = TRUE

RetryStep ==
  /\ RetryAsked /\ (attempts = <<>> \/ Latest.status # "abandoned")
  /\ signals' = Signalled(TRUE, TRUE, TRUE)
  /\ UNCHANGED <<task, log, plan, step, attempts, intents, clean, host, launched, stops>>

\* The recoverable intent is carried on, or a new one recorded first.
RetryAbandonedStep ==
  /\ RetryAsked /\ attempts # <<>> /\ Latest.status = "abandoned"
  /\ plan.status = "running"
  /\ \/ /\ Recoverable # {}
        /\ host' = [host EXCEPT !.intent = Newest(Recoverable), !.todo = <<"continue">>]
        /\ UNCHANGED intents
     \/ /\ Recoverable = {} /\ step.status = "awaiting_intervention" /\ host.index
        /\ task.status = "failed" /\ task.outcome = "restart" /\ Len(attempts) < MaxAttempts
        /\ ~ \E i \in 1..Len(intents) : intents[i].old = Len(attempts)
        /\ intents' = Append(intents, [old |-> Len(attempts), new |-> 0])
        /\ host' = [host EXCEPT !.intent = Len(intents) + 1, !.todo = <<"continue">>]
  /\ UNCHANGED <<task, log, plan, step, attempts, signals, clean, launched, stops>>

-----------------------------------------------------------------------------
\* The process ends, and starts again.

\* A kill at any point; what was committed stays.
Crash ==
  /\ host.pc # "down" /\ stops < MaxStops
  /\ stops' = stops + 1
  /\ host' = Off
  /\ UNCHANGED <<durable, launched, consent, ops>>

BeginShutdown ==
  /\ host.pc = "up" /\ Idle /\ stops < MaxStops
  /\ stops' = stops + 1
  /\ host' = [host EXCEPT !.pc = "closing"]
  /\ UNCHANGED <<durable, launched, consent, ops>>

\* After the active runs have ended, or SHUTDOWN_TIMEOUT_MS later.
FinishShutdown ==
  /\ host.pc = "closing" /\ Idle
  /\ clean' = TRUE
  /\ host' = Off
  /\ UNCHANGED <<task, log, plan, step, attempts, intents, signals, launched, consent, stops, ops>>

Boot ==
  /\ host.pc = "down"
  /\ host' = [Off EXCEPT !.pc = "tasks", !.unclean = ~clean]
  /\ clean' = FALSE
  /\ UNCHANGED <<task, log, plan, step, attempts, intents, signals, launched, consent, stops, ops>>

Reconciling == host.pc = "tasks" /\ Idle

\* The projection is behind its own log.
CatchUp ==
  /\ Reconciling /\ task.count < Len(log.events)
  /\ host' = [host EXCEPT !.todo = <<"meta">>]
  /\ UNCHANGED <<durable, launched, consent, stops, ops>>

Pending == Reconciling /\ task.count >= Len(log.events) /\ task.status \notin TaskEnds

ReplayOutcome ==
  /\ Pending /\ LastIsOutcome
  /\ host' = [host EXCEPT !.todo = <<"status", "outcome">>]
  /\ UNCHANGED <<durable, launched, consent, stops, ops>>

\* (mutant) the synthetic event is appended without looking at the last one
RecordInterruptedRunAgain ==
  /\ Pending /\ task.run # 0
  /\ log' = Appended(task.run, "restart")
  /\ host' = [host EXCEPT !.todo = <<"meta", "status", "outcome">>]
  /\ UNCHANGED <<task, plan, step, attempts, intents, signals, clean, launched, consent, stops, ops>>

RecordInterruptedRun ==
  /\ Pending /\ ~LastIsOutcome /\ task.run # 0
  /\ log' = Appended(task.run, "restart")
  /\ host' = [host EXCEPT !.todo = <<"meta", "status", "outcome">>]
  /\ UNCHANGED <<task, plan, step, attempts, intents, signals, clean, launched, consent, stops, ops>>

\* (mutant) a run that had not emitted run.started yet is not interrupted
NothingRunning == task.status \in TaskEnds \cup {"assigned"}

NothingInterrupted == task.status \in TaskEnds \/ (task.run = 0 /\ ~LastIsOutcome)

TasksReconciled ==
  /\ Reconciling /\ task.count >= Len(log.events)
  /\ NothingInterrupted
  /\ host' = [host EXCEPT !.pc = "runs"]
  /\ UNCHANGED <<durable, launched, consent, stops, ops>>

\* shouldPreserveUnlaunchedReplacementAttempt
Preserved(n) ==
  attempts[n].run = 0 /\ Launchable /\ \E i \in 1..Len(intents) : intents[i].new = n

\* (mutant) without the terminal statuses of attempts
SweptOfAnyStatus == {n \in 1..Len(attempts) : ~Preserved(n)}

Swept == {n \in 1..Len(attempts) : attempts[n].status \in Occupied /\ ~Preserved(n)}

\* (mutant) without cancelSignalsForRun
SignalsKept == signals

SignalsAfterSweep == NoSignals

\* An unclean restart pauses a running run, in one transaction.
SweepRun ==
  /\ host.pc = "runs" /\ host.unclean /\ plan.status = "running"
  /\ attempts' = [n \in 1..Len(attempts) |->
                    IF n \in Swept THEN [attempts[n] EXCEPT !.status = "abandoned"] ELSE attempts[n]]
  /\ step' = IF step.status \in Occupied /\ ~Preserved(Len(attempts))
             THEN [status |-> "awaiting_intervention", waiting |-> FALSE] ELSE step
  /\ plan' = [status |-> "awaiting_intervention", swept |-> TRUE]
  /\ signals' = SignalsAfterSweep
  /\ host' = [host EXCEPT !.pc = "intents"]
  /\ consent' = FALSE
  /\ UNCHANGED <<task, log, intents, clean, launched, stops, ops>>

\* A clean restart revalidates a running run.
ContinueRun ==
  /\ host.pc = "runs" /\ ~host.unclean /\ plan.status = "running"
  /\ signals' = [signals EXCEPT !.run = TRUE]
  /\ host' = [host EXCEPT !.pc = "draining", !.index = TRUE]
  /\ UNCHANGED <<task, log, plan, step, attempts, intents, clean, launched, consent, stops, ops>>

RunsRecovered ==
  /\ \/ host.pc = "runs" /\ plan.status # "running"
     \/ host.pc = "draining" /\ Idle /\ host.ready = 0
        /\ (Quiescent \/ plan.status # "running")
  /\ host' = [host EXCEPT !.pc = "intents"]
  /\ UNCHANGED <<durable, launched, consent, stops, ops>>

IntentsTurn == host.pc = "intents" /\ Idle /\ host.ready = 0 /\ (Quiescent \/ plan.status # "running")

\* The next intent; a run that this restart, or an earlier one, paused is resumed.
NextIntent ==
  /\ IntentsTurn /\ host.intent < Len(intents)
  /\ IF plan.status = "running" \/ (plan.status = "awaiting_intervention" /\ plan.swept)
     THEN /\ plan' = [plan EXCEPT !.status = "running"]
          /\ host' = [host EXCEPT !.intent = @ + 1, !.index = TRUE, !.todo = <<"continue">>]
     ELSE /\ host' = [host EXCEPT !.intent = @ + 1,
                                  !.index = @ \/ plan.status = "awaiting_intervention"]
          /\ UNCHANGED plan
  /\ UNCHANGED <<task, log, step, attempts, intents, signals, clean, launched, consent, stops, ops>>

\* activateAutonomousScheduling, and the server listens.
Arm ==
  /\ IntentsTurn /\ host.intent >= Len(intents)
  /\ host' = [host EXCEPT !.pc = "up"]
  /\ UNCHANGED <<durable, launched, consent, stops, ops>>

-----------------------------------------------------------------------------
Commit ==
  \/ RecordEventMeta \/ StartRunning \/ SetCompleted \/ UpdateStatus \/ ReopenForRetry
  \/ Advance \/ CallStartTask \/ UpdateAttempt \/ UpsertStep \/ MaybeCompleteRun
  \/ PauseForIntervention \/ Hook \/ ContinueIntent \/ EnqueueManualRetry

Recover ==
  \/ Boot \/ CatchUp \/ ReplayOutcome \/ RecordInterruptedRun \/ TasksReconciled
  \/ SweepRun \/ ContinueRun \/ RunsRecovered \/ NextIntent \/ Arm

Ending == \E type \in Outcomes \ {"restart"} : Emit(type)

Next ==
  \/ Commit \/ Recover \/ Ending \/ Emit("started")
  \/ TakeSignal \/ Launch \/ LaunchFails \/ BackoffElapses
  \/ Resume \/ Pause \/ CancelRun \/ RetryStep \/ RetryAbandonedStep
  \/ Crash \/ BeginShutdown \/ FinishShutdown

Spec == Init /\ [][Next]_vars

\* The event loop runs, detect() answers, adapters end their runs, a shutdown is
\* bounded, and someone starts Hall Core again.
Fairness ==
  /\ WF_vars(Commit) /\ WF_vars(Recover) /\ WF_vars(Emit("started")) /\ WF_vars(Ending)
  /\ WF_vars(TakeSignal) /\ WF_vars(Launch \/ LaunchFails) /\ WF_vars(FinishShutdown)

FairSpec == Spec /\ Fairness

-----------------------------------------------------------------------------
\* What a restart preserves.

\* A run has one outcome in the log, however often recovery is itself killed
\* (reconcile-tasks.ts: "can never append a second synthetic terminal event for
\* the same run").
OneOutcomePerRun ==
  \A i, j \in 1..Len(log.events) :
    /\ log.events[i].type \in Outcomes /\ log.events[j].type \in Outcomes
    /\ log.events[i].run = log.events[j].run
    => i = j

\* A logged success is the task's outcome, or becomes it: no restart turns work
\* that was done into work that failed.
SuccessIsKept ==
  (\E i \in 1..Len(log.events) : log.events[i].type = "completed")
    => \/ task.status = "completed"
       \/ task.status = "running" /\ Last(log.events).type = "completed"

\* Once the tasks are reconciled, a task that looks active has an execution in
\* this process: none of the dead process's runs is taken for a live one.
ActiveTaskIsExecuting ==
  Serving /\ Idle /\ task.run # 0 /\ task.status \notin TaskEnds => host.agent = task.run

\* A run that starts can be logged to its end: the log was reopened, even if the
\* process died between the two transactions of prepareRetry.
ExecutionHasOpenLog == host.agent # 0 => ~log.closed

\* An attempt is launched at most once, although its claim survives restarts and
\* an intent may carry it on afterwards: no attempt row stands for two runs.
AttemptLaunchesOnce == host.ready # 0 => host.ready \notin launched

\* The projection never counts an event twice, wherever the process died between
\* the append and the count (reconcile-tasks.ts:54-59 catches up what is missing).
EventsAreCountedOnce == task.count <= Len(log.events)

\* The invariant of one autonomous step across restarts: whatever recovery
\* finds, a run gets one outcome, a logged success is never turned into a
\* failure, an active task has an execution with a log to write to, no attempt
\* is launched twice and no event counted twice.
RecoveryInv ==
  /\ TypeOK
  /\ OneOutcomePerRun
  /\ SuccessIsKept
  /\ ActiveTaskIsExecuting
  /\ ExecutionHasOpenLog
  /\ AttemptLaunchesOnce
  /\ EventsAreCountedOnce

\* The history of attempts is final: what has ended keeps its ending, whatever a
\* restart finds or an operator retries.  (Board requests for the child task while
\* a launch awaits detect() are not in this module; PlanScheduler's HistoryIsTrue
\* says what holds across them.)
AttemptHistoryIsFinal ==
  [][\A n \in 1..Len(attempts) : attempts[n].status \notin Occupied => attempts'[n] = attempts[n]]_vars

Launches == host.agent = 0 /\ host'.agent # 0

\* An interrupted attempt is followed by another only if an operator has acted
\* since the pause, or had asked for it by an intent that this launch carries out
\* (ceo-plan-execution-recovery.ts: "no automatic retry of interrupted provider
\* runs").
InterruptedRunWaits ==
  [][Launches => \/ host'.agent = 1
                 \/ attempts[host'.agent - 1].status # "abandoned"
                 \/ consent']_vars

\* Every run that was started has its outcome in the end, the run of a process
\* that was killed included.
StartedRunEnds == \A n \in Number : task.run = n ~> (task.status \in TaskEnds \/ task.run # n)

\* docs/architecture/0015: "every run still running is paused", for an operator to
\* resume. Violated: an intent that was carried out long ago resumes the run at
\* every later restart (README, 8).
LaunchWasAskedFor == [][Launches => consent']_vars

\* docs/architecture/0015: "after replacement-attempt claim but before adapter
\* launch, recovery preserves the unlaunched claimed attempt and starts that same
\* attempt". Violated: the tasks are reconciled first (README, 8).
ClaimedReplacementIsKept ==
  \A i \in 1..Len(intents) :
    intents[i].new \notin launched \cup {0} => attempts[intents[i].new].status # "abandoned"

=============================================================================
