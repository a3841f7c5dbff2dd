------------------------- MODULE PlanSchedulerProofs -------------------------
(***************************************************************************)
(* What holds of the plan scheduler for any plan, policy and number of     *)
(* coroutines.  First its inductive invariant: type correctness, attempts  *)
(* that follow each other and claims that are always in somebody's hands.  *)
(* Then what it promises of the work itself: dependencies first,           *)
(* completion only for completed work, an attempt history that stays true, *)
(* and no more steps at a time than the policy allows.  Last, the silence  *)
(* of a run that was stopped.                                              *)
(***************************************************************************)
EXTENDS PlanScheduler, SequenceTheorems, FiniteSetTheorems, TLAPS

\* Every attempt of a step was counted in its row (totalAttempts).
Counted == \A s \in Steps : step[s].tries = Len(attempts[s])

\* A coroutine inside startTask names a step and an attempt that exist.
Numbered ==
  \A d \in Coroutines :
    co[d].pc = "detect" => /\ co[d].cur \in Steps
                           /\ co[d].num \in 1..Len(attempts[co[d].cur])

\* upsertStepExecution writes a step row, whose attempt counter stays within the
\* policy as long as a claim finds attempts left.
LEMMA RowType ==
  ASSUME TypeOK, NEW s \in Steps, NEW status \in StepStatus,
         NEW parked \in BOOLEAN, NEW backoff \in BOOLEAN,
         status = "claimed" => AttemptsLeft(s)
  PROVE  /\ Row(s, status, parked, backoff) \in StepRow
         /\ Row(s, status, parked, backoff).status = status
         /\ status # "claimed" => Row(s, status, parked, backoff).tries = step[s].tries
<1> DEFINE times == 0..MaxAttempts
           more == IF status = "claimed" /\ step[s].status # "claimed" THEN 1 ELSE 0
           n == step[s].tries + more
<1>1. StepRow = [status : StepStatus, parked : BOOLEAN, backoff : BOOLEAN, tries : times]
  BY DEF StepRow
<1>2. step[s] \in StepRow
  BY DEF TypeOK
<1>3. step[s].tries \in 0..MaxAttempts
  BY <1>1, <1>2
<1>4. more \in {0, 1} /\ (status # "claimed" => more = 0)
  OBVIOUS
<1>5. Row(s, status, parked, backoff)
        = [status |-> status, parked |-> parked, backoff |-> backoff, tries |-> n]
  BY DEF Row
<1> HIDE DEF more
<1>6. n \in 0..MaxAttempts /\ (status # "claimed" => n = step[s].tries)
  BY <1>3, <1>4, PolicyAssumption DEF AttemptsLeft
<1> HIDE DEF times, n
<1>7. Row(s, status, parked, backoff) \in StepRow
  BY <1>1, <1>5, <1>6 DEF times
<1>8. QED
  BY <1>5, <1>6, <1>7

\* Inserting or coalescing a signal keeps the queue a set of signals.
LEMMA EnqueuedType ==
  ASSUME NEW q \in SUBSET Signal, NEW r \in Runs, NEW s \in Steps \cup {None},
         NEW self \in BOOLEAN, NEW dependents \in BOOLEAN, NEW due \in BOOLEAN
  PROVE  Enqueued(q, r, s, self, dependents, due) \in SUBSET Signal
<1> DEFINE same == {g \in q : g.run = r /\ g.step = s /\ g.fresh}
           steps == Steps \cup {None}
<1>1. Signal = [run : Runs, step : steps, self : BOOLEAN, dependents : BOOLEAN,
                due : BOOLEAN, fresh : BOOLEAN]
  BY DEF Signal
<1>2. s \in steps
  OBVIOUS
<1>3. /\ (self \/ \E g \in same : g.self) \in BOOLEAN
      /\ (dependents \/ \E g \in same : g.dependents) \in BOOLEAN
      /\ (due \/ \E g \in same : g.due) \in BOOLEAN
  OBVIOUS
<1>4. [run |-> r, step |-> s, fresh |-> TRUE,
       self |-> self \/ \E g \in same : g.self,
       dependents |-> dependents \/ \E g \in same : g.dependents,
       due |-> due \/ \E g \in same : g.due] \in Signal
  BY <1>1, <1>2, <1>3, Zenon
<1>5. QED
  BY <1>4 DEF Enqueued

\* Upsert replaces one row and leaves the attempts it counted alone, unless it claims.
LEMMA UpsertType ==
  ASSUME TypeOK, NEW s \in Steps, NEW status \in StepStatus,
         status = "claimed" => AttemptsLeft(s)
  PROVE  /\ Upsert(s, status) \in [Steps -> StepRow]
         /\ Upsert(s, status)[s].status = status
         /\ status # "claimed" => Upsert(s, status)[s].tries = step[s].tries
         /\ \A t \in Steps : t # s => Upsert(s, status)[t] = step[t]
<1>1. step \in [Steps -> StepRow]
  BY DEF TypeOK
<1>2. /\ Row(s, status, FALSE, FALSE) \in StepRow
      /\ Row(s, status, FALSE, FALSE).status = status
      /\ status # "claimed" => Row(s, status, FALSE, FALSE).tries = step[s].tries
  BY RowType
<1>3. QED
  BY <1>1, <1>2 DEF Upsert

\* Parking a step replaces one row and leaves the attempts it counted alone.
LEMMA ParkType ==
  ASSUME TypeOK, NEW s \in Steps
  PROVE  /\ Park(s) \in [Steps -> StepRow]
         /\ Park(s)[s].status = "ready"
         /\ Park(s)[s].tries = step[s].tries
         /\ \A t \in Steps : t # s => Park(s)[t] = step[t]
<1>1. step \in [Steps -> StepRow]
  BY DEF TypeOK
<1>2. "ready" \in StepStatus
  BY DEF StepStatus
<1>3. /\ Row(s, "ready", TRUE, FALSE) \in StepRow
      /\ Row(s, "ready", TRUE, FALSE).status = "ready"
      /\ Row(s, "ready", TRUE, FALSE).tries = step[s].tries
  BY <1>2, RowType
<1>4. QED
  BY <1>1, <1>3 DEF Park

\* enqueueSignalSync keeps the queue a set of signals.
LEMMA NotifyType ==
  ASSUME NEW rows, NEW q \in SUBSET Signal, NEW r \in Runs, NEW s \in Steps \cup {None},
         NEW self \in BOOLEAN, NEW dependents \in BOOLEAN, NEW due \in BOOLEAN
  PROVE  Notify(rows, q, r, s, self, dependents, due) \in SUBSET Signal
BY EnqueuedType DEF Notify

\* pauseForIntervention keeps runs and queue well-typed.
LEMMA PausedType ==
  ASSUME NEW rows \in [Runs -> RunRow], NEW q \in SUBSET Signal, NEW r
  PROVE  /\ PausedRuns(rows, r) \in [Runs -> RunRow]
         /\ PausedQueue(rows, q, r) \in SUBSET Signal
<1>1. "awaiting_intervention" \in RunStatus
  BY DEF RunStatus
<1>2. PausedRuns(rows, r) \in [Runs -> RunRow]
  BY <1>1 DEF PausedRuns, RunRow
<1>3. QED
  BY <1>2 DEF PausedQueue, WithoutRun

\* finalizeAttempt changes the latest attempt of one step and adds none.
LEMMA FinalAttemptType ==
  ASSUME TypeOK, NEW s \in Steps, NEW status \in AttemptStatus
  PROVE  /\ FinalAttempt(s, status) \in [Steps -> Seq(AttemptStatus)]
         /\ \A t \in Steps : t # s => FinalAttempt(s, status)[t] = attempts[t]
         /\ Len(FinalAttempt(s, status)[s]) = Len(attempts[s])
         /\ \A n \in 1..Len(attempts[s]) :
              FinalAttempt(s, status)[s][n]
                = IF n = Len(attempts[s]) THEN status ELSE attempts[s][n]
<1>1. attempts \in [Steps -> Seq(AttemptStatus)]
  BY DEF TypeOK
<1>2. CASE attempts[s] = <<>>
  BY <1>1, <1>2 DEF FinalAttempt
<1>3. CASE attempts[s] # <<>>
  <2>1. attempts[s] \in Seq(AttemptStatus) /\ Len(attempts[s]) \in 1..Len(attempts[s])
    BY <1>1, <1>3
  <2>2. [attempts[s] EXCEPT ![Len(attempts[s])] = status] \in Seq(AttemptStatus)
    BY <2>1
  <2>3. QED
    BY <1>1, <1>3, <2>1, <2>2 DEF FinalAttempt
<1>4. QED
  BY <1>2, <1>3

\* prepareTaskRetryIfEligible changes at most one task, and only a failed one.
LEMMA PreparedType ==
  ASSUME TypeOK, NEW s \in Steps
  PROVE  /\ Prepared(s) \in [Steps -> TaskRow]
         /\ \A t \in Steps : t # s => Prepared(s)[t] = task[t]
         /\ task[s].status # "failed" => Prepared(s) = task
         /\ Prepared(s)[s].status \in {task[s].status, "assigned"}
<1>1. task \in [Steps -> TaskRow]
  BY DEF TypeOK
<1>2. [status |-> "assigned", cancel |-> FALSE] \in TaskRow
  BY DEF TaskRow, TaskStatus
<1>3. QED
  BY <1>1, <1>2 DEF Prepared, Preparable

\* Claiming a signal is type-safe.
LEMMA ClaimSignalType ==
  ASSUME TypeOK, NEW d \in Coroutines, ClaimSignal(d)
  PROVE  TypeOK'
<1>1. PICK g \in Claimable : /\ queue' = queue \ {g}
                             /\ co' = [co EXCEPT ![d].pc = "loop", ![d].run = g.run,
                                                 ![d].todo = Targets(g)]
  BY DEF ClaimSignal
<1>2. g \in Signal
  BY DEF Claimable, TypeOK
<1>3. Targets(g) \in SUBSET Steps /\ g.run \in Runs
  BY <1>2 DEF Targets, Signal, StepsOf, Dependents
<1>4. co \in [Coroutines -> Coroutine]
  BY DEF TypeOK
<1>5. [co[d] EXCEPT !.pc = "loop", !.run = g.run, !.todo = Targets(g)] \in Coroutine
  BY <1>3, <1>4 DEF Coroutine
<1>6. co' \in [Coroutines -> Coroutine]
  BY <1>1, <1>4, <1>5
<1>7. QED
  BY <1>1, <1>6 DEF ClaimSignal, TypeOK

\* The two fresh coroutines are coroutines.
LEMMA IdleType ==
  Idle \in Coroutine /\ Draining \in Coroutine
<1> DEFINE pcs == {"idle", "drain", "loop", "detect", "wake"}
           nums == 0..MaxAttempts
           thens == {"return", "drain", "pause"}
<1>1. Coroutine =
        [pc : pcs, run : Runs \cup {None}, todo : SUBSET Steps, cur : Steps \cup {None},
         num : nums, valid : BOOLEAN, wake : SUBSET Steps, then : thens,
         for : Runs \cup {None}]
  BY DEF Coroutine
<1>2. {"idle", "drain"} \subseteq pcs /\ 0 \in nums /\ "return" \in thens
  BY PolicyAssumption
<1> HIDE DEF pcs, nums, thens
<1>3. Idle \in Coroutine
  BY <1>1, <1>2 DEF Idle
<1>4. QED
  BY <1>1, <1>2, <1>3 DEF Draining

\* The end of a drain is type-safe.
LEMMA DrainDoneType ==
  ASSUME TypeOK, NEW d \in Coroutines, DrainDone(d)
  PROVE  TypeOK'
<1>1. [co[d] EXCEPT !.pc = "wake"] \in Coroutine
  <2>1. co[d] \in Coroutine
    BY DEF TypeOK
  <2>2. QED
    BY <2>1 DEF Coroutine
<1>2. co' \in [Coroutines -> Coroutine]
  BY <1>1, IdleType DEF DrainDone, TypeOK
<1>3. QED
  BY <1>2 DEF DrainDone, TypeOK

\* The end of processSignal is type-safe.
LEMMA FinishSignalType ==
  ASSUME TypeOK, NEW d \in Coroutines, FinishSignal(d)
  PROVE  TypeOK'
<1>1. run' \in [Runs -> RunRow]
  <2>1. "completed" \in RunStatus
    BY DEF RunStatus
  <2>2. QED
    BY <2>1 DEF FinishSignal, TypeOK, RunRow
<1>2. co' \in [Coroutines -> Coroutine]
  <2>1. co[d] \in Coroutine /\ co \in [Coroutines -> Coroutine]
    BY DEF TypeOK
  <2>2. [co[d] EXCEPT !.pc = "drain", !.run = None] \in Coroutine
    BY <2>1 DEF Coroutine
  <2>3. QED
    BY <2>1, <2>2 DEF FinishSignal
<1>3. QED
  BY <1>1, <1>2 DEF FinishSignal, TypeOK

\* Waking a capacity waiter is type-safe.
LEMMA WakeNextType ==
  ASSUME TypeOK, NEW d \in Coroutines, WakeNext(d)
  PROVE  TypeOK'
<1>1. PICK s \in co[d].wake :
        \/ /\ queue' = Notify(run, queue, RunOf[s], s, TRUE, FALSE, TRUE)
           /\ co' = [co EXCEPT ![d].pc = "drain", ![d].wake = @ \ {s}]
        \/ /\ co' = [co EXCEPT ![d].wake = @ \ {s}]
           /\ UNCHANGED queue
  BY DEF WakeNext
<1>2. s \in Steps /\ RunOf[s] \in Runs
  BY PlanAssumption DEF TypeOK, Coroutine
<1>3. queue' \in SUBSET Signal
  <2>1. queue \in SUBSET Signal
    BY DEF TypeOK
  <2>2. Notify(run, queue, RunOf[s], s, TRUE, FALSE, TRUE) \in SUBSET Signal
    BY <1>2, <2>1, NotifyType
  <2>3. QED
    BY <1>1, <2>1, <2>2
<1>4. co' \in [Coroutines -> Coroutine]
  <2>1. co[d] \in Coroutine /\ co \in [Coroutines -> Coroutine]
    BY DEF TypeOK
  <2>2. /\ [co[d] EXCEPT !.pc = "drain", !.wake = @ \ {s}] \in Coroutine
        /\ [co[d] EXCEPT !.wake = @ \ {s}] \in Coroutine
    BY <2>1 DEF Coroutine
  <2>3. QED
    BY <1>1, <2>1, <2>2
<1>5. QED
  BY <1>3, <1>4 DEF WakeNext, TypeOK

\* What follows the wake of the capacity waiters is type-safe.
LEMMA WakeDoneType ==
  ASSUME TypeOK, NEW d \in Coroutines, WakeDone(d)
  PROVE  TypeOK'
<1>1. run' \in [Runs -> RunRow] /\ queue' \in SUBSET Signal
  <2>1. run \in [Runs -> RunRow] /\ queue \in SUBSET Signal
    BY DEF TypeOK
  <2>2. /\ PausedRuns(run, co[d].for) \in [Runs -> RunRow]
        /\ PausedQueue(run, queue, co[d].for) \in SUBSET Signal
    BY <2>1, PausedType
  <2>3. QED
    BY <2>1, <2>2 DEF WakeDone
<1>2. co' \in [Coroutines -> Coroutine]
  BY IdleType DEF WakeDone, TypeOK
<1>3. QED
  BY <1>1, <1>2 DEF WakeDone, TypeOK

\* Moving on to the next target keeps the coroutines typed.
LEMMA OnwardType ==
  ASSUME TypeOK, NEW d \in Coroutines, NEW s
  PROVE  Onward(d, s) \in [Coroutines -> Coroutine]
<1>1. co[d] \in Coroutine /\ co \in [Coroutines -> Coroutine]
  BY DEF TypeOK
<1>2. [co[d] EXCEPT !.todo = @ \ {s}] \in Coroutine
  BY <1>1 DEF Coroutine
<1>3. QED
  BY <1>1, <1>2 DEF Onward

\* tryAdvanceStep is type-safe.  Its claim gives the new attempt the number after
\* the last one, which is within the policy because every attempt was counted.
LEMMA AdvanceType ==
  ASSUME TypeOK, Counted, NEW d \in Coroutines, Advance(d)
  PROVE  TypeOK'
<1>1. PICK s \in Steps : \/ PassOver(d, s)
                         \/ HoldForDependencies(d, s)
                         \/ ParkForSlot(d, s)
                         \/ ParkForAdapter(d, s)
                         \/ ReachAttemptLimit(d, s)
                         \/ LoseClaim(d, s)
                         \/ ClaimStep(d, s)
  BY DEF Advance
<1>2. Onward(d, s) \in [Coroutines -> Coroutine]
  BY OnwardType
<1>3. /\ Upsert(s, "awaiting_intervention") \in [Steps -> StepRow]
      /\ Upsert(s, "waiting_for_dependencies") \in [Steps -> StepRow]
      /\ Park(s) \in [Steps -> StepRow]
      /\ Prepared(s) \in [Steps -> TaskRow]
  BY UpsertType, ParkType, PreparedType DEF StepStatus
<1>4. /\ PausedRuns(run, RunOf[s]) \in [Runs -> RunRow]
      /\ PausedQueue(run, queue, RunOf[s]) \in SUBSET Signal
  BY PausedType DEF TypeOK
<1>5. CASE PassOver(d, s)
  BY <1>2, <1>5 DEF PassOver, TypeOK
<1>6. CASE HoldForDependencies(d, s)
  BY <1>2, <1>3, <1>4, <1>6 DEF HoldForDependencies, TypeOK
<1>7. CASE ParkForSlot(d, s)
  BY <1>2, <1>3, <1>7 DEF ParkForSlot, TypeOK
<1>8. CASE ParkForAdapter(d, s)
  BY <1>2, <1>3, <1>8 DEF ParkForAdapter, TypeOK
<1>9. CASE ReachAttemptLimit(d, s)
  BY <1>2, <1>3, <1>4, <1>9 DEF ReachAttemptLimit, TypeOK
<1>10. CASE LoseClaim(d, s)
  BY <1>2, <1>3, <1>10 DEF LoseClaim, TypeOK
<1>11. CASE ClaimStep(d, s)
  <2>1. AttemptsLeft(s) /\ step' = Upsert(s, "claimed") /\ task' = Prepared(s)
    BY <1>11 DEF ClaimStep
  <2>2. step' \in [Steps -> StepRow]
    BY <2>1, UpsertType DEF StepStatus
  <2>3. attempts' \in [Steps -> Seq(AttemptStatus)]
    BY <1>11 DEF ClaimStep, TypeOK, AttemptStatus
  <2>4. Len(attempts[s]) + 1 \in 0..MaxAttempts
    BY <2>1, PolicyAssumption DEF AttemptsLeft, Counted, TypeOK, StepRow
  <2>5. co' \in [Coroutines -> Coroutine]
    <3>1. co[d] \in Coroutine /\ co \in [Coroutines -> Coroutine]
      BY DEF TypeOK
    <3>2. [co[d] EXCEPT !.pc = "detect", !.todo = @ \ {s}, !.cur = s,
                        !.num = Len(attempts[s]) + 1, !.valid = TRUE] \in Coroutine
      BY <2>4, <3>1 DEF Coroutine
    <3>3. QED
      BY <1>11, <3>1, <3>2 DEF ClaimStep
  <2>6. QED
    BY <1>3, <1>11, <2>1, <2>2, <2>3, <2>5 DEF ClaimStep, TypeOK
<1>12. QED
  BY <1>1, <1>5, <1>6, <1>7, <1>8, <1>9, <1>10, <1>11

\* The coroutine of onChildTaskMutated is a coroutine, and not inside startTask.
LEMMA ListeningType ==
  ASSUME TypeOK, NEW s \in Steps, NEW then \in {"return", "drain", "pause"}
  PROVE  Listening(s, then) \in Coroutine /\ Listening(s, then).pc = "wake"
<1> DEFINE pcs == {"idle", "drain", "loop", "detect", "wake"}
           nums == 0..MaxAttempts
           thens == {"return", "drain", "pause"}
<1>1. Coroutine =
        [pc : pcs, run : Runs \cup {None}, todo : SUBSET Steps, cur : Steps \cup {None},
         num : nums, valid : BOOLEAN, wake : SUBSET Steps, then : thens,
         for : Runs \cup {None}]
  BY DEF Coroutine
<1>2. "wake" \in pcs /\ 0 \in nums /\ then \in thens
  BY PolicyAssumption
<1>3. OtherWaiters(s) \in SUBSET Steps /\ RunOf[s] \in Runs
  BY PlanAssumption DEF OtherWaiters, TypeOK
<1> HIDE DEF pcs, nums, thens
<1>4. QED
  BY <1>1, <1>2, <1>3 DEF Listening, Idle

\* A mutation of a task invalidates the coroutines that hold a revision of it and
\* changes nothing else of them.
LEMMA StaleType ==
  ASSUME NEW cs \in [Coroutines -> Coroutine], NEW s
  PROVE  /\ Stale(cs, s) \in [Coroutines -> Coroutine]
         /\ \A d \in Coroutines :
              /\ Stale(cs, s)[d].pc = cs[d].pc
              /\ Stale(cs, s)[d].cur = cs[d].cur
              /\ Stale(cs, s)[d].num = cs[d].num
              /\ Stale(cs, s)[d].valid => cs[d].valid /\ cs[d].cur # s
<1>1. ASSUME NEW d \in Coroutines
      PROVE  /\ Stale(cs, s)[d] \in Coroutine
             /\ Stale(cs, s)[d].pc = cs[d].pc
             /\ Stale(cs, s)[d].cur = cs[d].cur
             /\ Stale(cs, s)[d].num = cs[d].num
             /\ Stale(cs, s)[d].valid => cs[d].valid /\ cs[d].cur # s
  <2>1. cs[d] \in Coroutine
    OBVIOUS
  <2>2. /\ [cs[d] EXCEPT !.valid = FALSE] \in Coroutine
        /\ [cs[d] EXCEPT !.valid = FALSE].pc = cs[d].pc
        /\ [cs[d] EXCEPT !.valid = FALSE].cur = cs[d].cur
        /\ [cs[d] EXCEPT !.valid = FALSE].num = cs[d].num
        /\ [cs[d] EXCEPT !.valid = FALSE].valid = FALSE
    BY <2>1 DEF Coroutine
  <2>3. Stale(cs, s)[d] = IF cs[d].cur = s THEN [cs[d] EXCEPT !.valid = FALSE] ELSE cs[d]
    BY DEF Stale
  <2>4. QED
    BY <2>1, <2>2, <2>3
<1>2. Stale(cs, s) = [d \in Coroutines |-> Stale(cs, s)[d]]
  BY DEF Stale
<1>3. QED
  BY <1>1, <1>2

\* A coroutine that leaves startTask is back in its loop, the others are untouched.
LEMMA ReturnedType ==
  ASSUME NEW cs \in [Coroutines -> Coroutine], NEW d \in Coroutines
  PROVE  /\ Returned(cs, d) \in [Coroutines -> Coroutine]
         /\ Returned(cs, d)[d].pc = "loop"
         /\ \A e \in Coroutines : e # d => Returned(cs, d)[e] = cs[e]
<1>1. cs[d] \in Coroutine
  OBVIOUS
<1>2. 0 \in 0..MaxAttempts
  BY PolicyAssumption
<1>3. /\ [cs[d] EXCEPT !.pc = "loop", !.cur = None, !.num = 0, !.valid = TRUE] \in Coroutine
      /\ [cs[d] EXCEPT !.pc = "loop", !.cur = None, !.num = 0, !.valid = TRUE].pc = "loop"
  BY <1>1, <1>2 DEF Coroutine
<1>4. Returned(cs, d)
        = [cs EXCEPT ![d] = [cs[d] EXCEPT !.pc = "loop", !.cur = None, !.num = 0, !.valid = TRUE]]
  BY DEF Returned
<1>5. QED
  BY <1>3, <1>4

\* What follows the loss of a step is well-typed.
LEMMA LossType ==
  ASSUME TypeOK, NEW s \in Steps, NEW rows
  PROVE  /\ AfterLoss(s) \in {"return", "drain", "pause"}
         /\ LossQueue(rows, s) \in SUBSET Signal
<1>1. queue \in SUBSET Signal /\ RunOf[s] \in Runs
  BY PlanAssumption DEF TypeOK
<1>2. Notify(rows, queue, RunOf[s], s, FALSE, TRUE, TRUE) \in SUBSET Signal
  BY <1>1, NotifyType
<1>3. QED
  BY <1>1, <1>2 DEF AfterLoss, LossQueue

\* Counting a failure in a run's circuit keeps the run rows typed.
LEMMA FailuresType ==
  ASSUME TypeOK, NEW r \in Runs, NEW open \in BOOLEAN
  PROVE  [run EXCEPT ![r].failures = Failures(r), ![r].open = @ \/ open] \in [Runs -> RunRow]
<1> DEFINE counts == 0..MaxFailures
<1>1. RunRow = [status : RunStatus, open : BOOLEAN, failures : counts]
  BY DEF RunRow
<1>2. run \in [Runs -> RunRow] /\ run[r] \in RunRow
  BY DEF TypeOK
<1>3. run[r].failures \in 0..MaxFailures
  BY <1>1, <1>2
<1>4. Failures(r) \in counts
  BY <1>3, PolicyAssumption DEF Failures
<1> HIDE DEF counts
<1>5. [run[r] EXCEPT !.failures = Failures(r), !.open = @ \/ open] \in RunRow
  BY <1>1, <1>2, <1>4
<1>6. QED
  BY <1>2, <1>5

\* The continuation of startTask writes the one attempt it claimed, and adds none.
LEMMA SettledAttemptType ==
  ASSUME TypeOK, Numbered, NEW d \in Coroutines, Parked(d), NEW status \in AttemptStatus
  PROVE  LET s == co[d].cur
             as == [attempts EXCEPT ![s][co[d].num] = status]
         IN /\ as \in [Steps -> Seq(AttemptStatus)]
            /\ \A t \in Steps :
                 /\ Len(as[t]) = Len(attempts[t])
                 /\ \A n \in 1..Len(attempts[t]) :
                      as[t][n] = IF t = s /\ n = co[d].num THEN status ELSE attempts[t][n]
<1> DEFINE s == co[d].cur
           num == co[d].num
<1>1. s \in Steps /\ num \in 1..Len(attempts[s])
  BY DEF Numbered, Parked
<1>2. attempts \in [Steps -> Seq(AttemptStatus)]
  BY DEF TypeOK
<1> HIDE DEF s, num
<1>3. [attempts[s] EXCEPT ![num] = status] \in Seq(AttemptStatus)
  BY <1>1, <1>2
<1>4. /\ Len([attempts[s] EXCEPT ![num] = status]) = Len(attempts[s])
      /\ \A n \in 1..Len(attempts[s]) :
           [attempts[s] EXCEPT ![num] = status][n] = IF n = num THEN status ELSE attempts[s][n]
  BY <1>1, <1>2
<1>5. QED
  BY <1>1, <1>2, <1>3, <1>4 DEF s, num

\* Only the latest attempt of a step may be in flight.
NoOverlap ==
  \A s \in Steps : \A n \in 1..Len(attempts[s]) :
    n < Len(attempts[s]) => attempts[s][n] \notin Occupied

\* No two coroutines inside startTask hold the same attempt.
Distinct ==
  \A d, e \in Coroutines :
    (d # e /\ co[d].pc = "detect" /\ co[e].pc = "detect" /\ co[d].cur = co[e].cur)
      => co[d].num # co[e].num

\* A coroutine whose revision is still valid holds a task nobody has started and an
\* attempt nobody has moved on.
InHand ==
  \A d \in Coroutines :
    (co[d].pc = "detect" /\ co[d].valid)
      => /\ task[co[d].cur].status = "assigned"
         /\ attempts[co[d].cur][co[d].num] = "claimed"

\* The inductive invariant.  AttemptsInSequence alone is not inductive: that a launch
\* may write its attempt without a second look at the step needs InHand, that needs
\* Distinct (a failing launch must not hit another one's attempt), and both need that
\* attempt numbers exist and were counted.
Safe ==
  TypeOK /\ Counted /\ NoOverlap /\ Numbered /\ Distinct /\ InHand /\ ClaimHasLauncher

\* What a step of the system other than a claim may do to the step rows, ...
StepsCarried ==
  \A s \in Steps : /\ step'[s].tries = step[s].tries
                   /\ step'[s].status = "claimed" => step[s].status = "claimed"

\* ... to the attempts, ...
AttemptsCarried ==
  \A s \in Steps :
    /\ Len(attempts'[s]) = Len(attempts[s])
    /\ \A n \in 1..Len(attempts[s]) :
         attempts'[s][n] \in Occupied => n = Len(attempts[s]) \/ attempts[s][n] \in Occupied

\* ... and to the coroutines inside startTask and what they hold.
Carried ==
  \A d \in Coroutines :
    /\ co'[d].pc = "detect"
         => /\ co[d].pc = "detect" /\ co'[d].cur = co[d].cur /\ co'[d].num = co[d].num
            /\ co'[d].valid => /\ co[d].valid
                               /\ task'[co[d].cur].status = "assigned"
                               /\ attempts'[co[d].cur][co[d].num] = "claimed"
    /\ (co[d].pc = "detect" /\ step'[co[d].cur].status = "claimed") => co'[d].pc = "detect"

\* No coroutine enters startTask, and one that stays there stays with its attempt.
Kept ==
  \A d \in Coroutines :
    co'[d].pc = "detect"
      => co[d].pc = "detect" /\ co'[d].cur = co[d].cur /\ co'[d].num = co[d].num

\* Whatever carries steps, attempts and launchers over keeps the invariant.
LEMMA CarriedSafe ==
  ASSUME Safe, TypeOK', StepsCarried, AttemptsCarried, Carried
  PROVE  Safe' /\ Kept
<1>1. Counted'
  BY DEF Counted, Safe, StepsCarried, AttemptsCarried
<1>2. NoOverlap'
  BY DEF NoOverlap, Safe, AttemptsCarried
<1>3. Numbered'
  BY DEF Numbered, Safe, Carried, AttemptsCarried
<1>4. Distinct'
  BY DEF Distinct, Safe, Carried
<1>5. InHand'
  BY DEF InHand, Carried
<1>6. ClaimHasLauncher'
  <2>1. SUFFICES ASSUME NEW s \in Steps, step'[s].status = "claimed"
                 PROVE  \E d \in Coroutines : co'[d].pc = "detect" /\ co'[d].cur = s
    BY DEF ClaimHasLauncher
  <2>2. PICK d \in Coroutines : co[d].pc = "detect" /\ co[d].cur = s
    BY <2>1 DEF StepsCarried, Safe, ClaimHasLauncher
  <2>3. QED
    BY <2>1, <2>2 DEF Carried
<1>7. QED
  BY <1>1, <1>2, <1>3, <1>4, <1>5, <1>6 DEF Safe, Carried, Kept

\* The tasks that wait for their launch, and their attempts, are left alone.
AssignedUntouched ==
  \A s \in Steps : task[s].status = "assigned"
                     => task'[s].status = "assigned" /\ attempts'[s] = attempts[s]

\* The coroutines inside startTask are left alone.
LaunchersUntouched ==
  \A d \in Coroutines : co'[d] = co[d] \/ (co[d].pc # "detect" /\ co'[d].pc # "detect")

\* The special case in which no coroutine leaves startTask or loses its revision.
LEMMA UntouchedSafe ==
  ASSUME Safe, TypeOK', StepsCarried, AttemptsCarried, AssignedUntouched, LaunchersUntouched
  PROVE  Safe' /\ Kept
<1>1. Carried
  <2>1. SUFFICES ASSUME NEW d \in Coroutines
                 PROVE  /\ co'[d].pc = "detect"
                             => /\ co[d].pc = "detect" /\ co'[d].cur = co[d].cur
                                /\ co'[d].num = co[d].num
                                /\ co'[d].valid
                                     => /\ co[d].valid
                                        /\ task'[co[d].cur].status = "assigned"
                                        /\ attempts'[co[d].cur][co[d].num] = "claimed"
                        /\ (co[d].pc = "detect" /\ step'[co[d].cur].status = "claimed")
                             => co'[d].pc = "detect"
    BY DEF Carried
  <2>2. CASE co[d].pc = "detect"
    <3>1. co'[d] = co[d] /\ co[d].cur \in Steps
      BY <2>2 DEF LaunchersUntouched, Safe, Numbered
    <3>2. QED
      BY <2>2, <3>1 DEF Safe, InHand, AssignedUntouched
  <2>3. CASE co[d].pc # "detect"
    BY <2>3 DEF LaunchersUntouched
  <2>4. QED
    BY <2>2, <2>3
<1>2. QED
  BY <1>1, CarriedSafe

\* Attempts that do not change are carried.
LEMMA SameAttempts ==
  ASSUME Safe, attempts' = attempts
  PROVE  /\ AttemptsCarried
         /\ (\A s \in Steps : task[s].status = "assigned" => task'[s].status = "assigned")
              => AssignedUntouched
BY DEF AttemptsCarried, AssignedUntouched

\* Step rows that do not change are carried.
LEMMA SameSteps ==
  ASSUME step' = step
  PROVE  StepsCarried
BY DEF StepsCarried

\* Replacing one row by one that is not claimed carries the steps.
LEMMA ReplacedSteps ==
  ASSUME Safe, NEW s \in Steps, NEW status \in StepStatus \ {"claimed"},
         step' = Upsert(s, status) \/ step' = Park(s)
  PROVE  StepsCarried /\ step' \in [Steps -> StepRow]
<1>1. TypeOK
  BY DEF Safe
<1>2. CASE step' = Upsert(s, status)
  BY <1>1, <1>2, UpsertType DEF StepsCarried
<1>3. CASE step' = Park(s)
  BY <1>1, <1>3, ParkType DEF StepsCarried
<1>4. QED
  BY <1>2, <1>3

\* Changing one coroutine that neither is nor gets inside startTask.
LEMMA OneLauncher ==
  ASSUME TypeOK, NEW d \in Coroutines, NEW c,
         co[d].pc # "detect", c.pc # "detect", co' = [co EXCEPT ![d] = c]
  PROVE  LaunchersUntouched
BY DEF LaunchersUntouched, TypeOK

\* The program counters of the two fresh coroutines.
LEMMA IdlePc ==
  Idle.pc = "idle" /\ Draining.pc = "drain"
BY DEF Idle, Draining

\* Drains that look for signals, finish them or wake waiters keep the invariant.
LEMMA SignalStepsSafe ==
  ASSUME Safe, NEW d \in Coroutines,
         ClaimSignal(d) \/ DrainDone(d) \/ FinishSignal(d) \/ WakeNext(d) \/ WakeDone(d)
  PROVE  Safe' /\ Kept
<1>1. TypeOK /\ co[d] \in Coroutine /\ co \in [Coroutines -> Coroutine]
  BY DEF Safe, TypeOK
<1>2. UNCHANGED <<step, attempts, task>>
  BY DEF ClaimSignal, DrainDone, FinishSignal, WakeNext, WakeDone
<1>3. TypeOK'
  BY <1>1, ClaimSignalType, DrainDoneType, FinishSignalType, WakeNextType, WakeDoneType
<1>4. LaunchersUntouched
  <2>1. CASE ClaimSignal(d)
    <3>1. PICK g \in Claimable : co' = [co EXCEPT ![d].pc = "loop", ![d].run = g.run,
                                                  ![d].todo = Targets(g)]
      BY <2>1 DEF ClaimSignal
    <3> DEFINE c == [co[d] EXCEPT !.pc = "loop", !.run = g.run, !.todo = Targets(g)]
    <3>2. c.pc = "loop"
      BY <1>1 DEF Coroutine
    <3>3. co' = [co EXCEPT ![d] = c]
      BY <3>1
    <3> HIDE DEF c
    <3>4. QED
      BY <1>1, <2>1, <3>2, <3>3, OneLauncher DEF ClaimSignal
  <2>2. CASE DrainDone(d)
    <3> DEFINE c == IF co[d].wake = {} /\ co[d].then = "return"
                    THEN Idle ELSE [co[d] EXCEPT !.pc = "wake"]
    <3>1. c.pc # "detect"
      BY <1>1, IdlePc DEF Coroutine
    <3>2. co' = [co EXCEPT ![d] = c] /\ co[d].pc = "drain"
      BY <2>2 DEF DrainDone
    <3> HIDE DEF c
    <3>3. QED
      BY <1>1, <3>1, <3>2, OneLauncher
  <2>3. CASE FinishSignal(d)
    <3> DEFINE c == [co[d] EXCEPT !.pc = "drain", !.run = None]
    <3>1. c.pc = "drain"
      BY <1>1 DEF Coroutine
    <3>2. co' = [co EXCEPT ![d] = c] /\ co[d].pc = "loop"
      BY <2>3 DEF FinishSignal
    <3> HIDE DEF c
    <3>3. QED
      BY <1>1, <3>1, <3>2, OneLauncher
  <2>4. CASE WakeNext(d)
    <3>1. PICK s \in co[d].wake :
            \/ co' = [co EXCEPT ![d].pc = "drain", ![d].wake = @ \ {s}]
            \/ co' = [co EXCEPT ![d].wake = @ \ {s}]
      BY <2>4 DEF WakeNext
    <3> DEFINE c == [co[d] EXCEPT !.pc = "drain", !.wake = @ \ {s}]
               e == [co[d] EXCEPT !.wake = @ \ {s}]
    <3>2. co[d].pc = "wake"
      BY <2>4 DEF WakeNext
    <3>3. c.pc = "drain" /\ e.pc = "wake"
      BY <1>1, <3>2 DEF Coroutine
    <3>4. co' = [co EXCEPT ![d] = c] \/ co' = [co EXCEPT ![d] = e]
      BY <3>1
    <3> HIDE DEF c, e
    <3>5. QED
      BY <1>1, <3>2, <3>3, <3>4, OneLauncher
  <2>5. CASE WakeDone(d)
    <3> DEFINE c == IF co[d].then = "drain" THEN Draining ELSE Idle
    <3>1. c.pc # "detect"
      BY IdlePc
    <3>2. co' = [co EXCEPT ![d] = c] /\ co[d].pc = "wake"
      BY <2>5 DEF WakeDone
    <3> HIDE DEF c
    <3>3. QED
      BY <1>1, <3>1, <3>2, OneLauncher
  <2>6. QED
    BY <2>1, <2>2, <2>3, <2>4, <2>5
<1>5. StepsCarried /\ AttemptsCarried /\ AssignedUntouched
  BY <1>2, SameSteps, SameAttempts
<1>6. QED
  BY <1>3, <1>4, <1>5, UntouchedSafe

\* A claim keeps the invariant: claimAttempt's conflict check says that all attempts
\* of the step are over, so no valid launch of it is parked in detect().
LEMMA ClaimStepSafe ==
  ASSUME Safe, NEW d \in Coroutines, NEW s \in Steps, ClaimStep(d, s), TypeOK'
  PROVE  Safe'
<1>1. /\ TypeOK
      /\ co \in [Coroutines -> Coroutine] /\ co[d] \in Coroutine
      /\ attempts \in [Steps -> Seq(AttemptStatus)]
      /\ task \in [Steps -> TaskRow]
      /\ step \in [Steps -> StepRow]
  BY DEF Safe, TypeOK
<1>2. /\ Launchable(s) /\ AttemptsLeft(s) /\ ~NonTerminalAttempt(s)
      /\ co[d].pc = "loop" /\ step[s].status # "claimed"
      /\ task' = Prepared(s) /\ step' = Upsert(s, "claimed")
      /\ attempts' = [attempts EXCEPT ![s] = Append(@, "claimed")]
  BY DEF ClaimStep, Clear, At, Eligible, Settled, Occupied
<1> DEFINE n == Len(attempts[s]) + 1
           c == [co[d] EXCEPT !.pc = "detect", !.todo = @ \ {s}, !.cur = s, !.num = n,
                              !.valid = TRUE]
<1>3. c.pc = "detect" /\ c.cur = s /\ c.num = n
  BY <1>1 DEF Coroutine
<1>4. co' = [co EXCEPT ![d] = c]
  BY DEF ClaimStep
<1> HIDE DEF c
<1>5. /\ Len(attempts'[s]) = n /\ attempts'[s][n] = "claimed"
      /\ \A m \in 1..Len(attempts[s]) : attempts'[s][m] = attempts[s][m]
      /\ \A t \in Steps : t # s => attempts'[t] = attempts[t]
  BY <1>1, <1>2
<1>6. /\ \A t \in Steps : t # s => step'[t] = step[t]
      /\ step'[s].tries = step[s].tries + 1
  <2>1. "claimed" \in StepStatus
    BY DEF StepStatus
  <2>2. Row(s, "claimed", FALSE, FALSE).tries = step[s].tries + 1
    BY <1>2 DEF Row
  <2>3. QED
    BY <1>1, <1>2, <2>2 DEF Upsert
<1>7. /\ \A e \in Coroutines : e # d => co'[e] = co[e]
      /\ co'[d] = c
  BY <1>1, <1>4
<1>8. Counted'
  BY <1>5, <1>6 DEF Counted, Safe
<1>9. NoOverlap'
  <2>1. SUFFICES ASSUME NEW t \in Steps, NEW m \in 1..Len(attempts'[t]),
                        m < Len(attempts'[t])
                 PROVE  attempts'[t][m] \notin Occupied
    BY DEF NoOverlap
  <2>2. CASE t = s
    <3>1. m \in 1..Len(attempts[s])
      BY <1>1, <1>5, <2>1, <2>2
    <3>2. QED
      BY <1>2, <1>5, <2>2, <3>1 DEF NonTerminalAttempt
  <2>3. CASE t # s
    BY <1>5, <2>1, <2>3 DEF NoOverlap, Safe
  <2>4. QED
    BY <2>2, <2>3
<1>10. Numbered'
  <2>1. SUFFICES ASSUME NEW e \in Coroutines, co'[e].pc = "detect"
                 PROVE  co'[e].cur \in Steps /\ co'[e].num \in 1..Len(attempts'[co'[e].cur])
    BY DEF Numbered
  <2>2. CASE e = d
    BY <1>1, <1>3, <1>5, <1>7, <2>2
  <2>3. CASE e # d
    <3>1. co[e].cur \in Steps /\ co[e].num \in 1..Len(attempts[co[e].cur])
      BY <1>7, <2>1, <2>3 DEF Numbered, Safe
    <3>2. Len(attempts[co[e].cur]) \in Nat /\ Len(attempts[co[e].cur]) <= Len(attempts'[co[e].cur])
      BY <1>1, <1>5, <3>1
    <3>3. QED
      BY <1>7, <2>3, <3>1, <3>2
  <2>4. QED
    BY <2>2, <2>3
<1>11. \A e \in Coroutines : (co[e].pc = "detect" /\ co[e].cur = s) => co[e].num \in 1..n-1
  BY <1>1 DEF Numbered, Safe
<1>12. Distinct'
  <2>1. \A e \in Coroutines : (e # d /\ co'[e].pc = "detect" /\ co'[e].cur = s) => co'[e].num # n
    BY <1>1, <1>7, <1>11
  <2>2. QED
    BY <1>3, <1>7, <2>1 DEF Distinct, Safe
<1>13. InHand'
  <2>1. SUFFICES ASSUME NEW e \in Coroutines, co'[e].pc = "detect", co'[e].valid
                 PROVE  /\ task'[co'[e].cur].status = "assigned"
                        /\ attempts'[co'[e].cur][co'[e].num] = "claimed"
    BY DEF InHand
  <2>2. CASE e = d
    BY <1>2, <1>3, <1>5, <1>7, <2>2 DEF Launchable
  <2>3. CASE e # d
    <3>1. co[e].pc = "detect" /\ co[e].valid /\ co'[e] = co[e] /\ co[e].cur \in Steps
      BY <1>7, <2>1, <2>3 DEF Numbered, Safe
    <3>2. /\ task[co[e].cur].status = "assigned"
          /\ attempts[co[e].cur][co[e].num] = "claimed"
      BY <3>1 DEF InHand, Safe
    <3>3. co[e].cur # s
      BY <1>2, <1>11, <3>1, <3>2 DEF NonTerminalAttempt, Occupied
    <3>4. QED
      BY <1>1, <1>2, <1>5, <3>1, <3>2, <3>3, PreparedType
  <2>4. QED
    BY <2>2, <2>3
<1>14. ClaimHasLauncher'
  <2>1. SUFFICES ASSUME NEW t \in Steps, step'[t].status = "claimed"
                 PROVE  \E e \in Coroutines : co'[e].pc = "detect" /\ co'[e].cur = t
    BY DEF ClaimHasLauncher
  <2>2. CASE t = s
    BY <1>3, <1>7, <2>2
  <2>3. CASE t # s
    <3>1. PICK e \in Coroutines : co[e].pc = "detect" /\ co[e].cur = t
      BY <1>6, <2>1, <2>3 DEF ClaimHasLauncher, Safe
    <3>2. e # d
      BY <1>2, <3>1
    <3>3. QED
      BY <1>7, <3>1, <3>2
  <2>4. QED
    BY <2>2, <2>3
<1>15. QED
  BY <1>8, <1>9, <1>10, <1>12, <1>13, <1>14 DEF Safe

\* tryAdvanceStep keeps the invariant, and nothing but its claim enters startTask.
LEMMA AdvanceSafe ==
  ASSUME Safe, NEW d \in Coroutines, Advance(d)
  PROVE  Safe' /\ (Kept \/ \E s \in Steps : ClaimStep(d, s))
<1>1. TypeOK /\ Counted /\ co[d] \in Coroutine
  BY DEF Safe, TypeOK
<1>2. TypeOK'
  BY <1>1, AdvanceType
<1>3. PICK s \in Steps : \/ PassOver(d, s)
                         \/ HoldForDependencies(d, s)
                         \/ ParkForSlot(d, s)
                         \/ ParkForAdapter(d, s)
                         \/ ReachAttemptLimit(d, s)
                         \/ LoseClaim(d, s)
                         \/ ClaimStep(d, s)
  BY DEF Advance
<1>4. CASE ClaimStep(d, s)
  BY <1>2, <1>4, ClaimStepSafe
<1>5. CASE ~ClaimStep(d, s)
  <2>1. /\ co[d].pc = "loop" /\ co' = Onward(d, s) /\ attempts' = attempts
        /\ task' = task \/ task' = Prepared(s)
    BY <1>3, <1>5 DEF PassOver, HoldForDependencies, ParkForSlot, ParkForAdapter,
                      ReachAttemptLimit, LoseClaim, Clear, At
  <2>2. StepsCarried
    <3>1. \/ step' = step \/ step' = Park(s)
          \/ step' = Upsert(s, "awaiting_intervention")
          \/ step' = Upsert(s, "waiting_for_dependencies")
      BY <1>3, <1>5 DEF PassOver, HoldForDependencies, ParkForSlot, ParkForAdapter,
                        ReachAttemptLimit, LoseClaim
    <3>2. {"awaiting_intervention", "waiting_for_dependencies"} \subseteq StepStatus \ {"claimed"}
      BY DEF StepStatus
    <3>3. QED
      BY <3>1, <3>2, SameSteps, ReplacedSteps
  <2>3. LaunchersUntouched
    <3> DEFINE c == [co[d] EXCEPT !.todo = @ \ {s}]
    <3>1. c.pc = "loop"
      BY <1>1, <2>1 DEF Coroutine
    <3>2. co' = [co EXCEPT ![d] = c]
      BY <2>1 DEF Onward
    <3> HIDE DEF c
    <3>3. QED
      BY <1>1, <2>1, <3>1, <3>2, OneLauncher
  <2>4. \A t \in Steps : task[t].status = "assigned" => task'[t].status = "assigned"
    BY <1>1, <2>1, PreparedType
  <2>5. QED
    BY <1>2, <2>1, <2>2, <2>3, <2>4, SameAttempts, UntouchedSafe
<1>6. QED
  BY <1>4, <1>5

\* The end of a running task touches no task that waits for its launch.
LEMMA FinalAttempts ==
  ASSUME Safe, NEW s \in Steps, NEW status \in AttemptStatus \ Occupied,
         attempts' = FinalAttempt(s, status), task[s].status = "active",
         \A t \in Steps : t # s => task'[t] = task[t]
  PROVE  /\ AttemptsCarried /\ AssignedUntouched
         /\ attempts' \in [Steps -> Seq(AttemptStatus)]
<1>1. TypeOK
  BY DEF Safe
<1>2. /\ attempts' \in [Steps -> Seq(AttemptStatus)]
      /\ \A t \in Steps : t # s => attempts'[t] = attempts[t]
      /\ Len(attempts'[s]) = Len(attempts[s])
      /\ \A n \in 1..Len(attempts[s]) :
           attempts'[s][n] = IF n = Len(attempts[s]) THEN status ELSE attempts[s][n]
  BY <1>1, FinalAttemptType
<1>3. AttemptsCarried
  BY <1>2 DEF AttemptsCarried
<1>4. AssignedUntouched
  BY <1>2 DEF AssignedUntouched
<1>5. QED
  BY <1>2, <1>3, <1>4

\* Setting the status of one task.
LEMMA TaskStatusType ==
  ASSUME TypeOK, NEW s \in Steps, NEW status \in TaskStatus
  PROVE  /\ [task EXCEPT ![s].status = status] \in [Steps -> TaskRow]
         /\ [task EXCEPT ![s].status = status][s].status = status
         /\ \A t \in Steps : t # s => [task EXCEPT ![s].status = status][t] = task[t]
BY DEF TypeOK, TaskRow

\* Starting one idle coroutine.
LEMMA OneCoroutineType ==
  ASSUME TypeOK, NEW d \in Coroutines, NEW c \in Coroutine, co[d] = Idle, c.pc # "detect",
         co' = [co EXCEPT ![d] = c]
  PROVE  co' \in [Coroutines -> Coroutine] /\ LaunchersUntouched
<1>1. co[d].pc = "idle"
  BY IdlePc
<1>2. LaunchersUntouched
  BY <1>1, OneLauncher
<1>3. QED
  BY <1>2 DEF TypeOK

\* onChildTaskMutated keeps the invariant, whatever the outcome of the task.
LEMMA TaskEndsSafe ==
  ASSUME Safe, NEW s \in Steps, TaskEnds(s)
  PROVE  Safe' /\ Kept
<1> USE DEF Safe
<1>1. RunOf[s] \in Runs /\ run \in [Runs -> RunRow] /\ queue \in SUBSET Signal
  BY PlanAssumption DEF TypeOK
<1>2. {"completed", "failed", "cancelled"} \subseteq AttemptStatus \ Occupied
  BY DEF AttemptStatus, Occupied
<1>3. {"completed", "failed", "cancelled"} \subseteq StepStatus \ {"claimed"}
  BY DEF StepStatus
<1>4. {"completed", "failed", "cancelled"} \subseteq TaskStatus
  BY DEF TaskStatus
<1>5. ASSUME NEW d \in Coroutines, NEW status \in {"completed", "failed", "cancelled"},
             NEW then \in {"return", "drain", "pause"},
             task[s].status = "active", co[d] = Idle,
             task' = [task EXCEPT ![s].status = status],
             attempts' = FinalAttempt(s, status),
             StepsCarried, step' \in [Steps -> StepRow],
             run' \in [Runs -> RunRow], queue' \in SUBSET Signal,
             co' = [co EXCEPT ![d] = Listening(s, then)],
             UNCHANGED <<waiters, ops>>
      PROVE  Safe' /\ Kept
  <2>1. /\ task' \in [Steps -> TaskRow]
        /\ \A t \in Steps : t # s => task'[t] = task[t]
    BY <1>4, <1>5, TaskStatusType
  <2>2. /\ AttemptsCarried /\ AssignedUntouched
        /\ attempts' \in [Steps -> Seq(AttemptStatus)]
    BY <1>2, <1>5, <2>1, FinalAttempts
  <2>3. co' \in [Coroutines -> Coroutine] /\ LaunchersUntouched
    BY <1>5, ListeningType, OneCoroutineType
  <2>4. TypeOK'
    BY <1>5, <2>1, <2>2, <2>3 DEF TypeOK
  <2>5. QED
    BY <1>5, <2>2, <2>3, <2>4, UntouchedSafe
<1>6. ASSUME NEW d \in Coroutines, TaskCompletes(s, d)
      PROVE  Safe' /\ Kept
  <2>1. StepsCarried /\ step' \in [Steps -> StepRow]
    BY <1>3, <1>6, ReplacedSteps DEF TaskCompletes
  <2>2. run' \in [Runs -> RunRow]
    BY <1>1, <1>6, PolicyAssumption DEF TaskCompletes, RunRow
  <2>3. queue' \in SUBSET Signal
    BY <1>1, <1>6, NotifyType DEF TaskCompletes
  <2>4. QED
    BY <1>5, <1>6, <2>1, <2>2, <2>3 DEF TaskCompletes
<1>7. ASSUME NEW d \in Coroutines, TaskCancelled(s, d)
      PROVE  Safe' /\ Kept
  <2>1. StepsCarried /\ step' \in [Steps -> StepRow]
    BY <1>3, <1>7, ReplacedSteps DEF TaskCancelled
  <2>2. LossQueue(run, s) \in SUBSET Signal /\ AfterLoss(s) \in {"return", "drain", "pause"}
    BY LossType
  <2>3. QED
    BY <1>1, <1>5, <1>7, <2>1, <2>2 DEF TaskCancelled
<1>8. ASSUME NEW d \in Coroutines, NEW transient \in BOOLEAN, TaskFails(s, transient, d)
      PROVE  Safe' /\ Kept
  <2> DEFINE r == RunOf[s]
             trips == WasRunning(s) /\ Failures(r) >= MaxFailures
             retried == WasRunning(s) /\ ~trips /\ Retried(s, transient)
             rows == IF WasRunning(s)
                     THEN [run EXCEPT ![r].failures = Failures(r), ![r].open = @ \/ trips]
                     ELSE run
             then == IF trips THEN "pause" ELSE IF retried THEN "return" ELSE AfterLoss(s)
  <2>1. /\ task[s].status = "active" /\ co[d] = Idle
        /\ task' = [task EXCEPT ![s].status = "failed"]
        /\ attempts' = FinalAttempt(s, "failed")
        /\ step' = IF retried THEN [step EXCEPT ![s] = Row(s, "retry_wait", FALSE, TRUE)]
                   ELSE Upsert(s, "failed")
        /\ run' = rows
        /\ queue' = IF trips THEN queue
                    ELSE IF retried THEN Notify(rows, queue, r, s, TRUE, FALSE, FALSE)
                    ELSE LossQueue(rows, s)
        /\ co' = [co EXCEPT ![d] = Listening(s, then)]
        /\ UNCHANGED <<waiters, ops>>
    BY <1>8 DEF TaskFails
  <2>2. trips \in BOOLEAN
    OBVIOUS
  <2>3. rows \in [Runs -> RunRow]
    BY <1>1, <2>2, FailuresType
  <2>4. then \in {"return", "drain", "pause"}
    BY LossType
  <2>5. queue' \in SUBSET Signal
    <3>1. Notify(rows, queue, r, s, TRUE, FALSE, FALSE) \in SUBSET Signal
      BY <1>1, NotifyType
    <3>2. LossQueue(rows, s) \in SUBSET Signal
      BY LossType
    <3>3. QED
      BY <1>1, <2>1, <3>1, <3>2
  <2> HIDE DEF trips, retried, rows, then
  <2>6. StepsCarried /\ step' \in [Steps -> StepRow]
    <3>1. CASE retried
      <4>1. step \in [Steps -> StepRow] /\ "retry_wait" \in StepStatus
        BY DEF TypeOK, StepStatus
      <4>2. /\ Row(s, "retry_wait", FALSE, TRUE) \in StepRow
            /\ Row(s, "retry_wait", FALSE, TRUE).status = "retry_wait"
            /\ Row(s, "retry_wait", FALSE, TRUE).tries = step[s].tries
        BY <4>1, RowType
      <4>3. QED
        BY <2>1, <3>1, <4>1, <4>2 DEF StepsCarried
    <3>2. CASE ~retried
      BY <1>3, <2>1, <3>2, ReplacedSteps
    <3>3. QED
      BY <3>1, <3>2
  <2>7. QED
    BY <1>5, <2>1, <2>3, <2>4, <2>5, <2>6
<1>9. ASSUME NEW status \in {"completed", "failed", "cancelled"}, TaskEndsUnheard(s, status)
       PROVE  Safe' /\ Kept
  <2>1. /\ task[s].status = "active"
        /\ task' = [task EXCEPT ![s].status = status]
        /\ UNCHANGED <<run, step, attempts, queue, waiters, co, ops>>
    BY <1>9 DEF TaskEndsUnheard
  <2>2. /\ task' \in [Steps -> TaskRow]
        /\ \A t \in Steps : t # s => task'[t] = task[t]
    BY <1>4, <2>1, TaskStatusType
  <2>3. TypeOK'
    BY <2>1, <2>2 DEF TypeOK
  <2>4. StepsCarried /\ AttemptsCarried /\ AssignedUntouched /\ LaunchersUntouched
    BY <2>1, <2>2, SameSteps, SameAttempts DEF LaunchersUntouched
  <2>5. QED
    BY <2>3, <2>4, UntouchedSafe
<1>10. QED
  BY <1>6, <1>7, <1>8, <1>9 DEF TaskEnds

\* The end of startTask, in general: one attempt, one row and perhaps one task are
\* written, the launching coroutine leaves, those with a revision of the task lose it.
LEMMA LaunchSafe ==
  ASSUME Safe, TypeOK', NEW d \in Coroutines, Parked(d),
         NEW status \in AttemptStatus, status # "claimed",
         status \in Occupied => Committable(d),
         attempts' = [attempts EXCEPT ![co[d].cur][co[d].num] = status],
         NEW outcome \in StepStatus \ {"claimed"}, step' = Upsert(co[d].cur, outcome),
         \A t \in Steps : t # co[d].cur => task'[t] = task[t],
         co'[d].pc # "detect",
         \A e \in Coroutines :
           /\ co'[e].pc = "detect"
                => /\ co[e].pc = "detect" /\ co'[e].cur = co[e].cur /\ co'[e].num = co[e].num
                   /\ co'[e].valid => co[e].valid /\ (co[e].cur # co[d].cur \/ task' = task)
           /\ (co[e].pc = "detect" /\ e # d) => co'[e].pc = "detect"
  PROVE  Safe' /\ Kept /\ co'[d].pc # "detect"
<1> DEFINE s == co[d].cur
           num == co[d].num
<1>1. s \in Steps /\ num \in 1..Len(attempts[s]) /\ TypeOK /\ co[d].pc = "detect"
  BY DEF Safe, Numbered, Parked
<1>2. StepsCarried /\ step'[s].status = outcome
  BY <1>1, ReplacedSteps, UpsertType
<1>3. \A t \in Steps :
        /\ Len(attempts'[t]) = Len(attempts[t])
        /\ \A n \in 1..Len(attempts[t]) :
             attempts'[t][n] = IF t = s /\ n = num THEN status ELSE attempts[t][n]
  BY SettledAttemptType DEF Safe
<1>4. AttemptsCarried
  <2>1. CASE status \in Occupied
    <3>1. attempts[s][num] \in Occupied
      BY <2>1, <1>1 DEF Safe, InHand, Committable, Occupied
    <3>2. QED
      BY <1>3, <3>1 DEF AttemptsCarried
  <2>2. CASE status \notin Occupied
    BY <1>3, <2>2 DEF AttemptsCarried
  <2>3. QED
    BY <2>1, <2>2
<1>5. Carried
  <2>1. SUFFICES ASSUME NEW e \in Coroutines
                 PROVE  /\ co'[e].pc = "detect"
                             => /\ co[e].pc = "detect" /\ co'[e].cur = co[e].cur
                                /\ co'[e].num = co[e].num
                                /\ co'[e].valid
                                     => /\ co[e].valid
                                        /\ task'[co[e].cur].status = "assigned"
                                        /\ attempts'[co[e].cur][co[e].num] = "claimed"
                        /\ (co[e].pc = "detect" /\ step'[co[e].cur].status = "claimed")
                             => co'[e].pc = "detect"
    BY DEF Carried
  <2>2. ASSUME co'[e].pc = "detect", co'[e].valid
        PROVE  /\ task'[co[e].cur].status = "assigned"
               /\ attempts'[co[e].cur][co[e].num] = "claimed"
    <3>1. /\ e # d /\ co[e].pc = "detect" /\ co[e].valid
          /\ co[e].cur # s \/ task' = task
      BY <2>2
    <3>2. co[e].cur \in Steps /\ co[e].num \in 1..Len(attempts[co[e].cur])
      BY <3>1 DEF Safe, Numbered
    <3>3. task[co[e].cur].status = "assigned" /\ attempts[co[e].cur][co[e].num] = "claimed"
      BY <3>1 DEF Safe, InHand
    <3>4. co[e].cur # s \/ co[e].num # num
      BY <1>1, <3>1 DEF Safe, Distinct
    <3>5. QED
      BY <1>3, <3>1, <3>2, <3>3, <3>4
  <2>3. ASSUME co[e].pc = "detect", step'[co[e].cur].status = "claimed"
        PROVE  co'[e].pc = "detect"
    BY <1>2, <2>3
  <2>4. QED
    BY <2>2, <2>3
<1>6. QED
  BY <1>2, <1>4, <1>5, CarriedSafe

\* The end of startTask keeps the invariant, for a success, a cancelled launch and a
\* failure.
LEMMA DetectedSafe ==
  ASSUME Safe, NEW d \in Coroutines, Detected(d)
  PROVE  Safe' /\ Kept /\ co'[d].pc # "detect"
<1> DEFINE s == co[d].cur
           r == RunOf[s]
<1>1. /\ Parked(d) /\ s \in Steps /\ r \in Runs /\ TypeOK /\ Numbered
      /\ co \in [Coroutines -> Coroutine] /\ run \in [Runs -> RunRow]
      /\ queue \in SUBSET Signal
  BY PlanAssumption DEF Detected, LaunchSucceeds, LaunchCancelled, LaunchFails, Parked, Safe,
                        Numbered, TypeOK
<1>2. {"running", "failed"} \subseteq AttemptStatus /\ "failed" \notin Occupied
  BY DEF AttemptStatus, Occupied
<1>3. {"running", "awaiting_intervention"} \subseteq StepStatus \ {"claimed"}
  BY DEF StepStatus
<1>4. {"active", "cancelled"} \subseteq TaskStatus
  BY DEF TaskStatus
<1>5. Stale(co, s) \in [Coroutines -> Coroutine]
  BY <1>1, StaleType
<1>6. CASE LaunchSucceeds(d)
  <2>1. /\ Committable(d)
        /\ task' = [task EXCEPT ![s].status = "active"]
        /\ attempts' = [attempts EXCEPT ![s][co[d].num] = "running"]
        /\ step' = Upsert(s, "running")
        /\ co' = Returned(Stale(co, s), d)
        /\ UNCHANGED <<run, queue, waiters, ops>>
    BY <1>6 DEF LaunchSucceeds, StartedAttempt, StartedStep
  <2>2. /\ co' \in [Coroutines -> Coroutine] /\ co'[d].pc = "loop"
        /\ \A e \in Coroutines : e # d => co'[e] = Stale(co, s)[e]
    BY <1>5, <2>1, ReturnedType
  <2>3. /\ task' \in [Steps -> TaskRow]
        /\ \A t \in Steps : t # s => task'[t] = task[t]
    BY <1>1, <1>4, <2>1, TaskStatusType
  <2>4. attempts' \in [Steps -> Seq(AttemptStatus)]
    BY <1>1, <1>2, <2>1, SettledAttemptType
  <2>5. step' \in [Steps -> StepRow]
    BY <1>1, <1>3, <2>1, UpsertType
  <2>6. TypeOK'
    BY <1>1, <2>1, <2>2, <2>3, <2>4, <2>5 DEF TypeOK
  <2>7. \A e \in Coroutines :
          /\ co'[e].pc = "detect"
               => /\ co[e].pc = "detect" /\ co'[e].cur = co[e].cur /\ co'[e].num = co[e].num
                  /\ co'[e].valid => co[e].valid /\ co[e].cur # s
          /\ (co[e].pc = "detect" /\ e # d) => co'[e].pc = "detect"
    BY <1>1, <2>2, StaleType
  <2> HIDE DEF s
  <2>8. QED
    BY <1>1, <1>2, <1>3, <2>1, <2>2, <2>3, <2>6, <2>7, LaunchSafe DEF s
<1>7. ASSUME NEW f \in Coroutines, LaunchCancelled(d, f)
      PROVE  Safe' /\ Kept /\ co'[d].pc # "detect"
  <2>1. /\ Committable(d) /\ co[f] = Idle
        /\ task' = [task EXCEPT ![s].status = "cancelled"]
        /\ attempts' = [attempts EXCEPT ![s][co[d].num] = "running"]
        /\ step' = Upsert(s, "running")
        /\ \/ /\ queue' = LossQueue(run, s)
              /\ co' = [Returned(Stale(co, s), d) EXCEPT ![f] = Listening(s, AfterLoss(s))]
           \/ UNCHANGED queue /\ co' = Returned(Stale(co, s), d)
        /\ UNCHANGED <<run, waiters, ops>>
    BY <1>7 DEF LaunchCancelled, StartedAttempt, StartedStep
  <2> DEFINE back == Returned(Stale(co, s), d)
  <2>2. /\ back \in [Coroutines -> Coroutine] /\ back[d].pc = "loop"
        /\ \A e \in Coroutines : e # d => back[e] = Stale(co, s)[e]
    BY <1>5, ReturnedType
  <2>3. LossQueue(run, s) \in SUBSET Signal /\ AfterLoss(s) \in {"return", "drain", "pause"}
    BY <1>1, LossType
  <2>4. /\ Listening(s, AfterLoss(s)) \in Coroutine
        /\ Listening(s, AfterLoss(s)).pc = "wake"
    BY <1>1, <2>3, ListeningType
  <2>5. co[f].pc = "idle" /\ f # d
    BY <1>1, <2>1, IdlePc DEF Parked
  <2> DEFINE hear == Listening(s, AfterLoss(s))
  <2>6. co' = back \/ co' = [back EXCEPT ![f] = hear]
    BY <2>1
  <2> HIDE DEF back, hear
  <2>7. /\ co' \in [Coroutines -> Coroutine] /\ co'[d].pc = "loop"
        /\ \A e \in Coroutines : (e # d /\ e # f) => co'[e] = Stale(co, s)[e]
        /\ co'[f].pc # "detect"
    <3>1. back[f].pc = "idle"
      BY <1>1, <2>2, <2>5, StaleType
    <3>2. QED
      BY <2>2, <2>4, <2>5, <2>6, <3>1 DEF hear
  <2>8. /\ task' \in [Steps -> TaskRow]
        /\ \A t \in Steps : t # s => task'[t] = task[t]
    BY <1>1, <1>4, <2>1, TaskStatusType
  <2>9. attempts' \in [Steps -> Seq(AttemptStatus)]
    BY <1>1, <1>2, <2>1, SettledAttemptType
  <2>10. step' \in [Steps -> StepRow]
    BY <1>1, <1>3, <2>1, UpsertType
  <2>11. TypeOK'
    BY <1>1, <2>1, <2>3, <2>7, <2>8, <2>9, <2>10 DEF TypeOK
  <2>12. \A e \in Coroutines :
           /\ co'[e].pc = "detect"
                => /\ co[e].pc = "detect" /\ co'[e].cur = co[e].cur /\ co'[e].num = co[e].num
                   /\ co'[e].valid => co[e].valid /\ co[e].cur # s
           /\ (co[e].pc = "detect" /\ e # d) => co'[e].pc = "detect"
    BY <1>1, <2>5, <2>7, StaleType
  <2> HIDE DEF s
  <2>13. QED
    BY <1>1, <1>2, <1>3, <2>1, <2>7, <2>8, <2>11, <2>12, LaunchSafe DEF s
<1>8. ASSUME NEW drifted \in BOOLEAN, LaunchFails(d, drifted)
      PROVE  Safe' /\ Kept /\ co'[d].pc # "detect"
  <2> DEFINE q == IF drifted THEN WithoutStep(queue, s) ELSE queue
             trips == Failures(r) >= MaxFailures
             rows == [run EXCEPT ![r].failures = Failures(r), ![r].open = @ \/ trips]
  <2>1. /\ attempts' = [attempts EXCEPT ![s][co[d].num] = "failed"]
        /\ step' = Upsert(s, "awaiting_intervention")
        /\ \/ run' = PausedRuns(rows, r) /\ queue' = PausedQueue(rows, q, r)
           \/ run' = rows /\ queue' = q
        /\ co' = Returned(co, d)
        /\ UNCHANGED <<task, waiters, ops>>
    BY <1>8 DEF LaunchFails
  <2>2. rows \in [Runs -> RunRow] /\ q \in SUBSET Signal
    <3>1. trips \in BOOLEAN
      OBVIOUS
    <3>2. QED
      BY <1>1, <3>1, FailuresType DEF WithoutStep
  <2> HIDE DEF rows, q
  <2>3. run' \in [Runs -> RunRow] /\ queue' \in SUBSET Signal
    BY <2>1, <2>2, PausedType
  <2>4. /\ co' \in [Coroutines -> Coroutine] /\ co'[d].pc = "loop"
        /\ \A e \in Coroutines : e # d => co'[e] = co[e]
    BY <1>1, <2>1, ReturnedType
  <2>5. attempts' \in [Steps -> Seq(AttemptStatus)]
    BY <1>1, <1>2, <2>1, SettledAttemptType
  <2>6. step' \in [Steps -> StepRow]
    BY <1>1, <1>3, <2>1, UpsertType
  <2>7. TypeOK'
    BY <1>1, <2>1, <2>3, <2>4, <2>5, <2>6 DEF TypeOK
  <2>8. \A e \in Coroutines :
          /\ co'[e].pc = "detect"
               => /\ co[e].pc = "detect" /\ co'[e].cur = co[e].cur /\ co'[e].num = co[e].num
                  /\ co'[e].valid => co[e].valid
          /\ (co[e].pc = "detect" /\ e # d) => co'[e].pc = "detect"
    BY <2>4
  <2> HIDE DEF s
  <2>9. QED
    BY <1>1, <1>2, <1>3, <2>1, <2>4, <2>7, <2>8, LaunchSafe DEF s
<1>9. QED
  BY <1>6, <1>7, <1>8 DEF Detected

\* Setting the status of one run.
LEMMA RunStatusType ==
  ASSUME TypeOK, NEW r \in Runs, NEW status \in RunStatus
  PROVE  [run EXCEPT ![r].status = status] \in [Runs -> RunRow]
BY DEF TypeOK, RunRow

\* Requests and timers that touch neither steps nor tasks keep the invariant.
LEMMA RequestFrame ==
  ASSUME Safe, UNCHANGED <<step, attempts, task, waiters>>,
         run' \in [Runs -> RunRow], queue' \in SUBSET Signal, ops' \in 0..MaxOps,
         \/ co' = co
         \/ \E d \in Coroutines : co[d] = Idle /\ co' = [co EXCEPT ![d] = Draining]
  PROVE  Safe' /\ Kept
<1>1. co' \in [Coroutines -> Coroutine] /\ LaunchersUntouched
  <2>1. CASE co' = co
    BY <2>1 DEF LaunchersUntouched, Safe, TypeOK
  <2>2. ASSUME NEW d \in Coroutines, co[d] = Idle, co' = [co EXCEPT ![d] = Draining]
        PROVE  co' \in [Coroutines -> Coroutine] /\ LaunchersUntouched
    BY <2>2, IdleType, IdlePc, OneCoroutineType DEF Safe
  <2>3. QED
    BY <2>1, <2>2
<1>2. TypeOK'
  BY <1>1 DEF Safe, TypeOK
<1>3. StepsCarried /\ AttemptsCarried /\ AssignedUntouched
  BY SameSteps, SameAttempts
<1>4. QED
  BY <1>1, <1>2, <1>3, UntouchedSafe

\* Operator requests stay within their bound.
LEMMA OperatorType ==
  ASSUME TypeOK, NEW kind, Operator(kind)
  PROVE  ops' \in 0..MaxOps
BY PolicyAssumption DEF Operator, TypeOK

\* Dropping a run's signals or outdating their generation keeps the queue typed.
LEMMA QueueType ==
  ASSUME TypeOK, NEW r \in Runs
  PROVE  /\ WithoutRun(queue, r) \in SUBSET Signal
         /\ NewGeneration(queue, r) \in SUBSET Signal
<1>1. queue \in SUBSET Signal
  BY DEF TypeOK
<1>2. ASSUME NEW g \in queue
      PROVE  [g EXCEPT !.fresh = FALSE] \in Signal
  BY <1>1 DEF Signal
<1>3. QED
  BY <1>1, <1>2 DEF WithoutRun, NewGeneration

\* Pausing and cancelling a run keep the invariant.
LEMMA RunStopsSafe ==
  ASSUME Safe, NEW r \in Runs, PauseRun(r) \/ CancelRun(r)
  PROVE  Safe' /\ Kept
<1>1. TypeOK /\ run \in [Runs -> RunRow] /\ queue \in SUBSET Signal
  BY DEF Safe, TypeOK
<1>2. {"paused", "cancelled"} \subseteq RunStatus
  BY DEF RunStatus
<1>3. QED
  BY <1>1, <1>2, QueueType, RunStatusType, OperatorType, RequestFrame DEF PauseRun, CancelRun

\* Starting and resuming a run keep the invariant.
LEMMA RunGoesSafe ==
  ASSUME Safe, NEW r \in Runs, NEW d \in Coroutines, ResumeRun(r, d) \/ StartRun(r, d)
  PROVE  Safe' /\ Kept
<1>1. /\ TypeOK /\ run \in [Runs -> RunRow] /\ queue \in SUBSET Signal
      /\ ops \in 0..MaxOps
  BY DEF Safe, TypeOK
<1>2. "running" \in RunStatus
  BY DEF RunStatus
<1>3. /\ Enqueued(queue, r, None, FALSE, FALSE, TRUE) \in SUBSET Signal
      /\ Enqueued(NewGeneration(queue, r), r, None, FALSE, FALSE, TRUE) \in SUBSET Signal
  BY <1>1, QueueType, EnqueuedType
<1>4. CASE ResumeRun(r, d)
  <2>1. 0 \in 0..MaxFailures
    BY PolicyAssumption
  <2>2. [status |-> "running", open |-> FALSE, failures |-> 0] \in RunRow
    BY <1>2, <2>1 DEF RunRow
  <2>3. run' \in [Runs -> RunRow]
    BY <1>1, <1>4, <2>2 DEF ResumeRun
  <2>4. ops' \in 0..MaxOps
    BY <1>1, <1>4, OperatorType DEF ResumeRun
  <2>5. QED
    BY <1>3, <1>4, <2>3, <2>4, RequestFrame DEF ResumeRun
<1>5. CASE StartRun(r, d)
  <2>1. run' \in [Runs -> RunRow]
    BY <1>1, <1>2, <1>5, RunStatusType DEF StartRun
  <2>2. ops' \in 0..MaxOps
    BY <1>1, <1>5 DEF StartRun
  <2>3. QED
    BY <1>3, <1>5, <2>1, <2>2, RequestFrame DEF StartRun
<1>6. QED
  BY <1>4, <1>5

\* The retry route keeps the invariant.
LEMMA RetryStepSafe ==
  ASSUME Safe, NEW s \in Steps, NEW d \in Coroutines, RetryStep(s, d)
  PROVE  Safe' /\ Kept
<1>1. /\ TypeOK /\ run \in [Runs -> RunRow] /\ queue \in SUBSET Signal
      /\ RunOf[s] \in Runs
  BY PlanAssumption DEF Safe, TypeOK
<1>2. Notify(run, queue, RunOf[s], s, TRUE, FALSE, TRUE) \in SUBSET Signal
  BY <1>1, NotifyType
<1>3. ops' \in 0..MaxOps
  BY <1>1, OperatorType DEF RetryStep
<1>4. QED
  BY <1>1, <1>2, <1>3, RequestFrame DEF RetryStep

\* The wake timer keeps the invariant.
LEMMA WakeTimerSafe ==
  ASSUME Safe, NEW d \in Coroutines, WakeTimer(d)
  PROVE  Safe' /\ Kept
<1>1. run \in [Runs -> RunRow] /\ queue \in SUBSET Signal /\ ops \in 0..MaxOps
  BY DEF Safe, TypeOK
<1>2. QED
  BY <1>1, RequestFrame DEF WakeTimer

\* Requests that take revisions away, but start no task they leave valid, keep the
\* invariant.
LEMMA StaleSafe ==
  ASSUME Safe, TypeOK', UNCHANGED <<step, attempts>>,
         \A d \in Coroutines :
           /\ co'[d].pc = co[d].pc /\ co'[d].cur = co[d].cur /\ co'[d].num = co[d].num
           /\ co'[d].valid
                => co[d].valid /\ (co[d].cur \in Steps
                                     => task'[co[d].cur].status = task[co[d].cur].status)
  PROVE  Safe' /\ Kept
<1>1. StepsCarried /\ AttemptsCarried
  BY SameSteps, SameAttempts
<1>2. Carried
  BY DEF Carried, Safe, InHand, Numbered
<1>3. QED
  BY <1>1, <1>2, CarriedSafe

\* Cancelling or starting a child task by hand keeps the invariant.
LEMMA CancelTaskSafe ==
  ASSUME Safe, NEW s \in Steps, CancelTask(s) \/ StartTask(s)
  PROVE  Safe' /\ Kept
<1>1. TypeOK /\ co \in [Coroutines -> Coroutine] /\ task \in [Steps -> TaskRow]
  BY DEF Safe, TypeOK
<1>2. /\ co' = Stale(co, s) /\ ops' \in 0..MaxOps
      /\ \/ task' = [task EXCEPT ![s].cancel = TRUE]
         \/ task' = [task EXCEPT ![s].status = "active"]
      /\ UNCHANGED <<run, step, attempts, queue, waiters>>
  BY <1>1, OperatorType DEF CancelTask, StartTask
<1>3. /\ task' \in [Steps -> TaskRow]
      /\ \A t \in Steps : t # s => task'[t] = task[t]
  <2>1. "active" \in TaskStatus
    BY DEF TaskStatus
  <2>2. CASE task' = [task EXCEPT ![s].cancel = TRUE]
    BY <1>1, <2>2 DEF TaskRow
  <2>3. CASE task' = [task EXCEPT ![s].status = "active"]
    BY <1>1, <2>1, <2>3, TaskStatusType
  <2>4. QED
    BY <1>2, <2>2, <2>3
<1>4. TypeOK'
  BY <1>1, <1>2, <1>3, StaleType DEF TypeOK
<1>5. QED
  BY <1>1, <1>2, <1>3, <1>4, StaleType, StaleSafe

\* The emergency stop keeps the invariant.
LEMMA EmergencyStopSafe ==
  ASSUME Safe, NEW r \in Runs, EmergencyStop(r)
  PROVE  Safe' /\ Kept
<1> DEFINE hit == {s \in StepsOf(r) : step[s].status \in Occupied /\ Cancellable(s)}
<1>1. /\ TypeOK /\ co \in [Coroutines -> Coroutine] /\ task \in [Steps -> TaskRow]
      /\ run \in [Runs -> RunRow] /\ queue \in SUBSET Signal
  BY DEF Safe, TypeOK
<1>2. /\ \/ run' = [run EXCEPT ![r].status = "paused"] /\ queue' = WithoutRun(queue, r)
         \/ UNCHANGED <<run, queue>>
      /\ task' = [s \in Steps |-> IF s \in hit THEN [task[s] EXCEPT !.cancel = TRUE] ELSE task[s]]
      /\ co' = [d \in Coroutines |->
                  IF co[d].cur \in hit THEN [co[d] EXCEPT !.valid = FALSE] ELSE co[d]]
      /\ ops' \in 0..MaxOps
      /\ UNCHANGED <<step, attempts, waiters>>
  BY <1>1, OperatorType DEF EmergencyStop
<1> HIDE DEF hit
<1>3. run' \in [Runs -> RunRow] /\ queue' \in SUBSET Signal
  <2>1. "paused" \in RunStatus
    BY DEF RunStatus
  <2>2. QED
    BY <1>1, <1>2, <2>1, RunStatusType, QueueType
<1>4. task' \in [Steps -> TaskRow] /\ \A s \in Steps : task'[s].status = task[s].status
  BY <1>1, <1>2 DEF TaskRow
<1>5. ASSUME NEW d \in Coroutines
      PROVE  /\ co'[d] \in Coroutine
             /\ co'[d].pc = co[d].pc /\ co'[d].cur = co[d].cur /\ co'[d].num = co[d].num
             /\ co'[d].valid => co[d].valid
  <2>1. co[d] \in Coroutine
    BY <1>1
  <2>2. LET c == [co[d] EXCEPT !.valid = FALSE]
        IN c \in Coroutine /\ c.pc = co[d].pc /\ c.cur = co[d].cur /\ c.num = co[d].num
           /\ ~c.valid
    BY <2>1 DEF Coroutine
  <2>3. co'[d] = co[d] \/ co'[d] = [co[d] EXCEPT !.valid = FALSE]
    BY <1>2
  <2>4. QED
    BY <2>1, <2>2, <2>3
<1>6. co' \in [Coroutines -> Coroutine]
  BY <1>2, <1>5
<1>7. TypeOK'
  BY <1>1, <1>2, <1>3, <1>4, <1>6 DEF TypeOK
<1>8. QED
  BY <1>2, <1>4, <1>5, <1>7, StaleSafe

\* The end of a backoff keeps the invariant.
LEMMA BackoffElapsesSafe ==
  ASSUME Safe, NEW s \in Steps, BackoffElapses(s)
  PROVE  Safe' /\ Kept
<1>1. queue \in SUBSET Signal /\ step \in [Steps -> StepRow]
  BY DEF Safe, TypeOK
<1>2. queue' \in SUBSET Signal
  <2>1. ASSUME NEW g \in queue
        PROVE  [g EXCEPT !.due = TRUE] \in Signal
    BY <1>1 DEF Signal
  <2>2. QED
    BY <1>1, <2>1 DEF BackoffElapses
<1>3. step' \in [Steps -> StepRow] /\ StepsCarried
  BY <1>1 DEF BackoffElapses, StepRow, StepsCarried
<1>4. UNCHANGED <<run, attempts, task, waiters, co, ops>>
  BY DEF BackoffElapses
<1>5. TypeOK'
  BY <1>2, <1>3, <1>4 DEF Safe, TypeOK
<1>6. QED
  BY <1>3, <1>4, <1>5, SameAttempts, UntouchedSafe DEF LaunchersUntouched

\* The invariant holds of a plan that was just configured.
LEMMA InitSafe ==
  ASSUME Init
  PROVE  Safe
<1>1. TypeOK
  <2>1. 0 \in 0..MaxAttempts /\ 0 \in 0..MaxFailures /\ 0 \in 0..MaxOps
    BY PolicyAssumption
  <2>2. [status |-> "configured", open |-> FALSE, failures |-> 0] \in RunRow
    BY <2>1 DEF RunRow, RunStatus
  <2>3. \A s \in Steps :
          [status |-> IF Deps[s] = {} THEN "ready" ELSE "waiting_for_dependencies",
           parked |-> FALSE, backoff |-> FALSE, tries |-> 0] \in StepRow
    BY <2>1 DEF StepRow, StepStatus
  <2>4. [status |-> "assigned", cancel |-> FALSE] \in TaskRow
    BY DEF TaskRow, TaskStatus
  <2>5. QED
    BY <2>1, <2>2, <2>3, <2>4, IdleType DEF Init, TypeOK
<1>2. \A d \in Coroutines : co[d].pc = "idle"
  BY IdlePc DEF Init
<1>3. Numbered /\ Distinct /\ InHand
  BY <1>2 DEF Numbered, Distinct, InHand
<1>4. Counted /\ NoOverlap /\ ClaimHasLauncher
  BY DEF Init, Counted, NoOverlap, ClaimHasLauncher
<1>5. QED
  BY <1>1, <1>3, <1>4 DEF Safe

\* Every step of the scheduler keeps the invariant.
LEMMA NextSafe ==
  ASSUME Safe, [Next]_vars
  PROVE  Safe'
<1>1. ASSUME NEW d \in Coroutines, Drain(d) \/ Detected(d) \/ WakeTimer(d)
      PROVE  Safe'
  BY <1>1, SignalStepsSafe, AdvanceSafe, DetectedSafe, WakeTimerSafe DEF Drain
<1>2. ASSUME NEW r \in Runs, NEW d \in Coroutines, StartRun(r, d)
      PROVE  Safe'
  BY <1>2, RunGoesSafe
<1>3. ASSUME NEW s \in Steps, TaskEnds(s) \/ BackoffElapses(s)
      PROVE  Safe'
  BY <1>3, TaskEndsSafe, BackoffElapsesSafe
<1>4. CASE Request
  <2>1. ASSUME NEW r \in Runs, PauseRun(r) \/ CancelRun(r)
        PROVE  Safe'
    BY <2>1, RunStopsSafe
  <2>2. ASSUME NEW r \in Runs, EmergencyStop(r)
        PROVE  Safe'
    BY <2>2, EmergencyStopSafe
  <2>3. ASSUME NEW s \in Steps, CancelTask(s) \/ StartTask(s)
        PROVE  Safe'
    BY <2>3, CancelTaskSafe
  <2>4. ASSUME NEW d \in Coroutines, NEW r \in Runs, ResumeRun(r, d)
        PROVE  Safe'
    BY <2>4, RunGoesSafe
  <2>5. ASSUME NEW d \in Coroutines, NEW s \in Steps, RetryStep(s, d)
        PROVE  Safe'
    BY <2>5, RetryStepSafe
  <2>6. QED
    BY <1>4, <2>1, <2>2, <2>3, <2>4, <2>5 DEF Request
<1>5. CASE UNCHANGED vars
  <2>1. UNCHANGED <<run, step, attempts, task, waiters, queue, co, ops>>
    BY <1>5 DEF vars
  <2>2. run \in [Runs -> RunRow] /\ queue \in SUBSET Signal /\ ops \in 0..MaxOps
    BY DEF Safe, TypeOK
  <2>3. QED
    BY <2>1, <2>2, RequestFrame
<1>6. QED
  BY <1>1, <1>2, <1>3, <1>4, <1>5 DEF Next

\* The invariant holds in every reachable state of every plan.
THEOREM AlwaysSafe == Spec => []Safe
<1>1. Init => Safe
  BY InitSafe
<1>2. Safe /\ [Next]_vars => Safe'
  BY NextSafe
<1>3. QED
  BY <1>1, <1>2, PTL DEF Spec

\* The scheduler's state is well-typed; in particular no step is attempted more often
\* than maxAttemptsPerStep.
THEOREM TypeCorrect == Spec => []TypeOK
<1>1. Safe => TypeOK
  BY DEF Safe
<1>2. QED
  BY <1>1, AlwaysSafe, PTL

\* A step never has two attempts in flight and every attempt is counted, for any plan,
\* any policy and any number of coroutines: what claimAttempt is a transaction for.
THEOREM AttemptsComeInSequence == Spec => []AttemptsInSequence
<1>1. Safe => AttemptsInSequence
  BY DEF Safe, Counted, NoOverlap, AttemptsInSequence
<1>2. QED
  BY <1>1, AlwaysSafe, PTL

\* A claimed step is always in the hands of a coroutine inside startTask, so the claim
\* is moved on when adapter.detect() answers.
THEOREM ClaimsHaveLaunchers == Spec => []ClaimHasLauncher
<1>1. Safe => ClaimHasLauncher
  BY DEF Safe
<1>2. QED
  BY <1>1, AlwaysSafe, PTL

-----------------------------------------------------------------------------
\* The work itself: dependencies, completion and slots.


\* The two promises about work that was done; together they are inductive.
Earned ==
  DependenciesDoneFirst /\ CompletionIsEarned

\* A completed task stays completed, ...
TasksLast ==
  \A s \in Steps : task[s].status = "completed" => task'[s].status = "completed"

\* ... a step completes with its task, ...
StepsHonest ==
  \A s \in Steps :
    step'[s].status = "completed" => step[s].status = "completed" \/ task'[s].status = "completed"

\* ... a run completes when all its steps have, ...
RunsHonest ==
  \A r \in Runs : run'[r].status = "completed" => run[r].status = "completed" \/ AllDone(r)

\* ... and the first attempt of a step waits for its dependencies.
AttemptsWait ==
  \A s \in Steps : attempts'[s] # <<>> => attempts[s] # <<>> \/ DepsCompleted(s)

\* What every step of the scheduler observes.
Honest == TasksLast /\ StepsHonest /\ RunsHonest /\ AttemptsWait

\* Observing these four keeps both promises.
LEMMA HonestEarned ==
  ASSUME Earned, Honest
  PROVE  Earned'
<1>1. DependenciesDoneFirst'
  <2>1. SUFFICES ASSUME NEW s \in Steps, attempts'[s] # <<>>, NEW t \in Deps[s]
                 PROVE  task'[t].status = "completed"
    BY DEF DependenciesDoneFirst
  <2>2. t \in Steps
    BY PlanAssumption
  <2>3. task[t].status = "completed"
    BY <2>1, <2>2 DEF Honest, AttemptsWait, DepsCompleted, Earned, DependenciesDoneFirst,
                      CompletionIsEarned
  <2>4. QED
    BY <2>2, <2>3 DEF Honest, TasksLast
<1>2. CompletionIsEarned'
  <2>1. ASSUME NEW s \in Steps, step'[s].status = "completed"
        PROVE  task'[s].status = "completed"
    BY <2>1 DEF Honest, StepsHonest, TasksLast, Earned, CompletionIsEarned
  <2>2. ASSUME NEW r \in Runs, run'[r].status = "completed", NEW s \in StepsOf(r)
        PROVE  task'[s].status = "completed"
    <3>1. s \in Steps
      BY DEF StepsOf
    <3>2. task[s].status = "completed"
      BY <2>2, <3>1 DEF Honest, RunsHonest, AllDone, Earned, CompletionIsEarned
    <3>3. QED
      BY <3>1, <3>2 DEF Honest, TasksLast
  <2>3. QED
    BY <2>1, <2>2 DEF CompletionIsEarned
<1>3. QED
  BY <1>1, <1>2 DEF Earned

\* Writing any status but "completed" into a step row claims nothing.
LEMMA UpsertHonest ==
  ASSUME TypeOK, NEW s \in Steps, NEW status \in StepStatus \ {"completed"},
         \/ step' = Upsert(s, status)
         \/ step' = Park(s)
         \/ step' = [step EXCEPT ![s] = Row(s, "retry_wait", FALSE, TRUE)]
         \/ step' = [step EXCEPT ![s].backoff = FALSE]
  PROVE  StepsHonest
<1>1. step \in [Steps -> StepRow]
  BY DEF TypeOK
<1>2. /\ Row(s, status, FALSE, FALSE).status = status
      /\ Row(s, "ready", TRUE, FALSE).status = "ready"
      /\ Row(s, "retry_wait", FALSE, TRUE).status = "retry_wait"
  BY DEF Row
<1>3. /\ [step[s] EXCEPT !.backoff = FALSE].status = step[s].status
  BY <1>1 DEF StepRow
<1>4. CASE step' = Upsert(s, status)
  BY <1>1, <1>2, <1>4 DEF Upsert, StepsHonest
<1>5. CASE step' = Park(s)
  BY <1>1, <1>2, <1>5 DEF Park, StepsHonest
<1>6. CASE step' = [step EXCEPT ![s] = Row(s, "retry_wait", FALSE, TRUE)]
  BY <1>1, <1>2, <1>6 DEF StepsHonest
<1>7. CASE step' = [step EXCEPT ![s].backoff = FALSE]
  BY <1>1, <1>3, <1>7 DEF StepsHonest
<1>8. QED
  BY <1>4, <1>5, <1>6, <1>7

\* pauseForIntervention completes no run.
LEMMA PausedHonest ==
  ASSUME TypeOK, NEW rows \in [Runs -> RunRow], NEW r,
         \A p \in Runs : rows[p].status = run[p].status,
         run' = rows \/ run' = PausedRuns(rows, r)
  PROVE  RunsHonest
<1>1. \A p \in Runs : \/ PausedRuns(rows, r)[p].status = rows[p].status
                      \/ PausedRuns(rows, r)[p].status = "awaiting_intervention"
  BY DEF PausedRuns, RunRow
<1>2. QED
  BY <1>1 DEF RunsHonest

\* Counting a failure completes no run.
LEMMA FailedHonest ==
  ASSUME TypeOK, NEW r \in Runs, NEW open \in BOOLEAN
  PROVE  \A p \in Runs :
           [run EXCEPT ![r].failures = Failures(r), ![r].open = @ \/ open][p].status
             = run[p].status
<1>1. run \in [Runs -> RunRow] /\ run[r] \in RunRow
  BY DEF TypeOK
<1>2. [run[r] EXCEPT !.failures = Failures(r), !.open = @ \/ open].status = run[r].status
  BY <1>1 DEF RunRow
<1>3. QED
  BY <1>1, <1>2

\* What does not change is honest.
LEMMA UnchangedHonest ==
  /\ task' = task => TasksLast
  /\ step' = step => StepsHonest
  /\ run' = run => RunsHonest
  /\ attempts' = attempts => AttemptsWait
BY DEF TasksLast, StepsHonest, RunsHonest, AttemptsWait

\* Moving attempts on starts none.
LEMMA SameLengthWaits ==
  ASSUME TypeOK, TypeOK', \A s \in Steps : Len(attempts'[s]) = Len(attempts[s])
  PROVE  AttemptsWait
<1>1. \A s \in Steps : attempts[s] \in Seq(AttemptStatus) /\ attempts'[s] \in Seq(AttemptStatus)
  BY DEF TypeOK
<1>2. QED
  BY <1>1 DEF AttemptsWait

\* Drains that look for signals, finish them or wake waiters; maybeCompleteRun is here.
LEMMA SignalStepsHonest ==
  ASSUME TypeOK, NEW d \in Coroutines,
         ClaimSignal(d) \/ DrainDone(d) \/ FinishSignal(d) \/ WakeNext(d) \/ WakeDone(d)
  PROVE  Honest
<1>1. UNCHANGED <<step, attempts, task>>
  BY DEF ClaimSignal, DrainDone, FinishSignal, WakeNext, WakeDone
<1>2. RunsHonest
  <2>1. CASE ClaimSignal(d) \/ DrainDone(d) \/ WakeNext(d)
    BY <2>1, UnchangedHonest DEF ClaimSignal, DrainDone, WakeNext
  <2>2. CASE FinishSignal(d)
    BY <2>2 DEF FinishSignal, RunsHonest, TypeOK, RunRow
  <2>3. CASE WakeDone(d)
    <3>1. run \in [Runs -> RunRow]
      BY DEF TypeOK
    <3>2. run' = run \/ run' = PausedRuns(run, co[d].for)
      BY <2>3 DEF WakeDone
    <3>3. QED
      BY <3>1, <3>2, PausedHonest
  <2>4. QED
    BY <2>1, <2>2, <2>3
<1>3. QED
  BY <1>1, <1>2, UnchangedHonest DEF Honest

\* tryAdvanceStep: a claim comes after its dependencies completed.
LEMMA AdvanceHonest ==
  ASSUME TypeOK, TypeOK', NEW d \in Coroutines, Advance(d)
  PROVE  Honest
<1>1. PICK s \in Steps : \/ PassOver(d, s)
                         \/ HoldForDependencies(d, s)
                         \/ ParkForSlot(d, s)
                         \/ ParkForAdapter(d, s)
                         \/ ReachAttemptLimit(d, s)
                         \/ LoseClaim(d, s)
                         \/ ClaimStep(d, s)
  BY DEF Advance
<1>2. TasksLast
  <2>1. task' = task \/ task' = Prepared(s)
    BY <1>1 DEF PassOver, HoldForDependencies, ParkForSlot, ParkForAdapter, ReachAttemptLimit,
                LoseClaim, ClaimStep
  <2>2. \A t \in Steps : task[t].status = "completed" => Prepared(s)[t] = task[t]
    BY PreparedType
  <2>3. QED
    BY <2>1, <2>2 DEF TasksLast
<1>3. StepsHonest
  <2>1. \/ step' = step \/ step' = Park(s)
        \/ \E status \in {"awaiting_intervention", "waiting_for_dependencies", "claimed"} :
             step' = Upsert(s, status)
    BY <1>1 DEF PassOver, HoldForDependencies, ParkForSlot, ParkForAdapter, ReachAttemptLimit,
                LoseClaim, ClaimStep
  <2>2. {"awaiting_intervention", "waiting_for_dependencies", "claimed"}
          \subseteq StepStatus \ {"completed"}
    BY DEF StepStatus
  <2>3. QED
    BY <2>1, <2>2, UnchangedHonest, UpsertHonest
<1>4. RunsHonest
  <2>1. run' = run \/ run' = PausedRuns(run, RunOf[s])
    BY <1>1 DEF PassOver, HoldForDependencies, ParkForSlot, ParkForAdapter, ReachAttemptLimit,
                LoseClaim, ClaimStep
  <2>2. run \in [Runs -> RunRow]
    BY DEF TypeOK
  <2>3. QED
    BY <2>1, <2>2, PausedHonest
<1>5. AttemptsWait
  <2>1. CASE ClaimStep(d, s)
    <3>1. DepsCompleted(s) /\ attempts' = [attempts EXCEPT ![s] = Append(@, "claimed")]
      BY <2>1 DEF ClaimStep, Clear, Eligible
    <3>2. QED
      BY <3>1 DEF AttemptsWait, TypeOK
  <2>2. CASE ~ClaimStep(d, s)
    <3>1. attempts' = attempts
      BY <1>1, <2>2 DEF PassOver, HoldForDependencies, ParkForSlot, ParkForAdapter,
                        ReachAttemptLimit, LoseClaim
    <3>2. QED
      BY <3>1, UnchangedHonest
  <2>3. QED
    BY <2>1, <2>2
<1>6. QED
  BY <1>2, <1>3, <1>4, <1>5 DEF Honest

\* onChildTaskMutated: a step is completed only by its own task's completion.
LEMMA TaskEndsHonest ==
  ASSUME TypeOK, TypeOK', NEW s \in Steps, TaskEnds(s)
  PROVE  Honest
<1>1. /\ task \in [Steps -> TaskRow] /\ run \in [Runs -> RunRow] /\ RunOf[s] \in Runs
      /\ step \in [Steps -> StepRow]
  BY PlanAssumption DEF TypeOK
<1>2. /\ task[s].status = "active"
      /\ \E status \in {"completed", "failed", "cancelled"} :
           task' = [task EXCEPT ![s].status = status]
  BY DEF TaskEnds, TaskCompletes, TaskFails, TaskCancelled, TaskEndsUnheard
<1>3. TasksLast
  BY <1>1, <1>2 DEF TasksLast
<1>4. {"failed", "cancelled"} \subseteq StepStatus \ {"completed"}
  BY DEF StepStatus
<1>5. StepsHonest
  <2>1. ASSUME NEW d \in Coroutines, TaskCompletes(s, d)
        PROVE  StepsHonest
    <3>1. step' = Upsert(s, "completed") /\ task' = [task EXCEPT ![s].status = "completed"]
      BY <2>1 DEF TaskCompletes
    <3>2. \A t \in Steps : t # s => step'[t] = step[t]
      BY <1>1, <3>1 DEF Upsert
    <3>3. task'[s].status = "completed"
      BY <1>1, <3>1 DEF TaskRow
    <3>4. QED
      BY <3>2, <3>3 DEF StepsHonest
  <2>2. ASSUME NEW d \in Coroutines, NEW transient \in BOOLEAN, TaskFails(s, transient, d)
        PROVE  StepsHonest
    <3>1. \/ step' = [step EXCEPT ![s] = Row(s, "retry_wait", FALSE, TRUE)]
          \/ step' = Upsert(s, "failed")
      BY <2>2 DEF TaskFails
    <3>2. QED
      BY <1>4, <3>1, UpsertHonest
  <2>3. ASSUME NEW d \in Coroutines, TaskCancelled(s, d)
        PROVE  StepsHonest
    BY <1>4, <2>3, UpsertHonest DEF TaskCancelled
  <2>4. ASSUME NEW status, TaskEndsUnheard(s, status)
        PROVE  StepsHonest
    BY <2>4, UnchangedHonest DEF TaskEndsUnheard
  <2>5. QED
    BY <2>1, <2>2, <2>3, <2>4 DEF TaskEnds
<1>6. RunsHonest
  <2>1. ASSUME NEW d \in Coroutines, TaskCompletes(s, d)
        PROVE  RunsHonest
    <3>1. run' = [run EXCEPT ![RunOf[s]].failures = 0]
      BY <2>1 DEF TaskCompletes
    <3>2. [run[RunOf[s]] EXCEPT !.failures = 0].status = run[RunOf[s]].status
      BY <1>1 DEF RunRow
    <3>3. QED
      BY <1>1, <3>1, <3>2 DEF RunsHonest
  <2>2. ASSUME NEW d \in Coroutines, NEW transient \in BOOLEAN, TaskFails(s, transient, d)
        PROVE  RunsHonest
    <3> DEFINE r == RunOf[s]
               trips == WasRunning(s) /\ Failures(r) >= MaxFailures
               rows == [run EXCEPT ![r].failures = Failures(r), ![r].open = @ \/ trips]
    <3>1. run' = run \/ run' = rows
      BY <2>2 DEF TaskFails
    <3>2. rows \in [Runs -> RunRow] /\ \A p \in Runs : rows[p].status = run[p].status
      <4>1. trips \in BOOLEAN
        OBVIOUS
      <4>2. rows \in [Runs -> RunRow]
        BY <1>1, <4>1, FailuresType
      <4>3. \A p \in Runs : rows[p].status = run[p].status
        BY <1>1, <4>1, FailedHonest
      <4>4. QED
        BY <4>2, <4>3
    <3> HIDE DEF rows
    <3>3. QED
      BY <3>1, <3>2, PausedHonest, UnchangedHonest
  <2>3. ASSUME run' = run
        PROVE  RunsHonest
    BY <2>3, UnchangedHonest
  <2>4. QED
    BY <2>1, <2>2, <2>3 DEF TaskEnds, TaskCancelled, TaskEndsUnheard
<1>7. AttemptsWait
  <2>1. \/ attempts' = attempts
        \/ \E status \in {"completed", "failed", "cancelled"} :
             attempts' = FinalAttempt(s, status)
    BY DEF TaskEnds, TaskCompletes, TaskFails, TaskCancelled, TaskEndsUnheard
  <2>2. {"completed", "failed", "cancelled"} \subseteq AttemptStatus
    BY DEF AttemptStatus
  <2>3. ASSUME NEW status \in {"completed", "failed", "cancelled"},
               attempts' = FinalAttempt(s, status)
        PROVE  \A t \in Steps : Len(attempts'[t]) = Len(attempts[t])
    <3>1. status \in AttemptStatus
      BY <2>2
    <3>2. /\ \A t \in Steps : t # s => FinalAttempt(s, status)[t] = attempts[t]
          /\ Len(FinalAttempt(s, status)[s]) = Len(attempts[s])
      BY <3>1, FinalAttemptType
    <3>3. QED
      BY <2>3, <3>2
  <2>4. QED
    BY <2>1, <2>3, SameLengthWaits, UnchangedHonest
<1>8. QED
  BY <1>3, <1>5, <1>6, <1>7 DEF Honest

\* The end of startTask completes nothing.
LEMMA DetectedHonest ==
  ASSUME TypeOK, TypeOK', Numbered, NEW d \in Coroutines, Detected(d)
  PROVE  Honest
<1> DEFINE s == co[d].cur
           r == RunOf[s]
<1>1. /\ Parked(d) /\ s \in Steps /\ r \in Runs
      /\ task \in [Steps -> TaskRow] /\ run \in [Runs -> RunRow]
  BY PlanAssumption DEF Detected, LaunchSucceeds, LaunchCancelled, LaunchFails, Parked,
                        Numbered, TypeOK
<1>2. TasksLast
  <2>1. \/ task' = task
        \/ /\ task[s].status = "assigned"
           /\ task' = [task EXCEPT ![s].status = "active"]
              \/ task' = [task EXCEPT ![s].status = "cancelled"]
    BY DEF Detected, LaunchSucceeds, LaunchCancelled, LaunchFails, Committable
  <2> HIDE DEF s
  <2>2. QED
    BY <1>1, <2>1 DEF TasksLast
<1>3. StepsHonest
  <2>1. step' = Upsert(s, "running") \/ step' = Upsert(s, "awaiting_intervention")
    BY DEF Detected, LaunchSucceeds, LaunchCancelled, LaunchFails, StartedStep
  <2>2. {"running", "awaiting_intervention"} \subseteq StepStatus \ {"completed"}
    BY DEF StepStatus
  <2>3. QED
    BY <1>1, <2>1, <2>2, UpsertHonest
<1>4. RunsHonest
  <2> DEFINE trips == Failures(r) >= MaxFailures
             rows == [run EXCEPT ![r].failures = Failures(r), ![r].open = @ \/ trips]
  <2>1. run' = run \/ run' = rows \/ run' = PausedRuns(rows, r)
    BY DEF Detected, LaunchSucceeds, LaunchCancelled, LaunchFails
  <2>2. rows \in [Runs -> RunRow] /\ \A p \in Runs : rows[p].status = run[p].status
    <3>1. trips \in BOOLEAN
      OBVIOUS
    <3>2. rows \in [Runs -> RunRow]
      BY <1>1, <3>1, FailuresType
    <3>3. \A p \in Runs : rows[p].status = run[p].status
      BY <1>1, <3>1, FailedHonest
    <3>4. QED
      BY <3>2, <3>3
  <2> HIDE DEF rows
  <2>3. QED
    BY <2>1, <2>2, PausedHonest, UnchangedHonest
<1>5. AttemptsWait
  <2>1. \E status \in {"running", "failed"} :
          attempts' = [attempts EXCEPT ![s][co[d].num] = status]
    BY DEF Detected, LaunchSucceeds, LaunchCancelled, LaunchFails, StartedAttempt
  <2>2. {"running", "failed"} \subseteq AttemptStatus
    BY DEF AttemptStatus
  <2>3. \A t \in Steps : Len(attempts'[t]) = Len(attempts[t])
    BY <1>1, <2>1, <2>2, SettledAttemptType
  <2>4. QED
    BY <2>3, SameLengthWaits
<1>6. QED
  BY <1>2, <1>3, <1>4, <1>5 DEF Honest

\* Cancelling or starting a child task by hand completes nothing.
LEMMA TaskRequestHonest ==
  ASSUME TypeOK, NEW s \in Steps, CancelTask(s) \/ StartTask(s)
  PROVE  Honest
<1>1. task \in [Steps -> TaskRow]
  BY DEF TypeOK
<1>2. UNCHANGED <<run, step, attempts>>
  BY DEF CancelTask, StartTask
<1>3. \/ task' = [task EXCEPT ![s].cancel = TRUE]
      \/ task[s].status = "assigned" /\ task' = [task EXCEPT ![s].status = "active"]
  BY DEF CancelTask, StartTask
<1>4. [task[s] EXCEPT !.cancel = TRUE].status = task[s].status
  BY <1>1 DEF TaskRow
<1>5. TasksLast
  BY <1>1, <1>3, <1>4 DEF TasksLast
<1>6. QED
  BY <1>2, <1>5, UnchangedHonest DEF Honest

\* The emergency stop completes nothing.
LEMMA EmergencyStopHonest ==
  ASSUME TypeOK, NEW r \in Runs, EmergencyStop(r)
  PROVE  Honest
<1>1. task \in [Steps -> TaskRow] /\ run \in [Runs -> RunRow]
  BY DEF TypeOK
<1>2. UNCHANGED <<step, attempts>> /\ (run' = run \/ run' = [run EXCEPT ![r].status = "paused"])
  BY DEF EmergencyStop
<1>3. \A s \in Steps : task'[s] = task[s] \/ task'[s] = [task[s] EXCEPT !.cancel = TRUE]
  BY DEF EmergencyStop
<1>4. TasksLast
  BY <1>1, <1>3 DEF TasksLast, TaskRow
<1>5. RunsHonest
  BY <1>1, <1>2 DEF RunsHonest, RunRow
<1>6. QED
  BY <1>2, <1>4, <1>5, UnchangedHonest DEF Honest

\* Pausing and cancelling a run complete nothing.
LEMMA RunStopsHonest ==
  ASSUME TypeOK, NEW r \in Runs, PauseRun(r) \/ CancelRun(r)
  PROVE  Honest
<1>1. UNCHANGED <<step, attempts, task>> /\ run \in [Runs -> RunRow]
  BY DEF PauseRun, CancelRun, TypeOK
<1>2. RunsHonest
  BY <1>1 DEF PauseRun, CancelRun, RunsHonest, RunRow
<1>3. QED
  BY <1>1, <1>2, UnchangedHonest DEF Honest

\* Starting and resuming a run complete nothing.
LEMMA RunGoesHonest ==
  ASSUME TypeOK, NEW r \in Runs, NEW d \in Coroutines, ResumeRun(r, d) \/ StartRun(r, d)
  PROVE  Honest
<1>1. UNCHANGED <<step, attempts, task>> /\ run \in [Runs -> RunRow]
  BY DEF ResumeRun, StartRun, TypeOK
<1>2. RunsHonest
  <2>1. CASE ResumeRun(r, d)
    BY <1>1, <2>1 DEF ResumeRun, RunsHonest
  <2>2. CASE StartRun(r, d)
    BY <1>1, <2>2 DEF StartRun, RunsHonest, RunRow
  <2>3. QED
    BY <2>1, <2>2
<1>3. QED
  BY <1>1, <1>2, UnchangedHonest DEF Honest

\* Every step of the scheduler is honest.
LEMMA NextHonest ==
  ASSUME Safe, [Next]_vars
  PROVE  Honest
<1>1. TypeOK /\ Numbered /\ TypeOK'
  BY NextSafe DEF Safe
<1>2. ASSUME NEW d \in Coroutines, Drain(d) \/ Detected(d) \/ WakeTimer(d)
      PROVE  Honest
  <2>1. CASE Drain(d)
    BY <1>1, <2>1, SignalStepsHonest, AdvanceHonest DEF Drain
  <2>2. CASE Detected(d)
    BY <1>1, <2>2, DetectedHonest
  <2>3. CASE WakeTimer(d)
    BY <2>3, UnchangedHonest DEF WakeTimer, Honest
  <2>4. QED
    BY <1>2, <2>1, <2>2, <2>3
<1>3. ASSUME NEW r \in Runs, NEW d \in Coroutines, StartRun(r, d)
      PROVE  Honest
  BY <1>1, <1>3, RunGoesHonest
<1>4. ASSUME NEW s \in Steps, TaskEnds(s) \/ BackoffElapses(s)
      PROVE  Honest
  <2>1. CASE TaskEnds(s)
    BY <1>1, <2>1, TaskEndsHonest
  <2>2. CASE BackoffElapses(s)
    <3>1. step' = [step EXCEPT ![s].backoff = FALSE] /\ UNCHANGED <<run, attempts, task>>
      BY <2>2 DEF BackoffElapses
    <3>2. "failed" \in StepStatus \ {"completed"}
      BY DEF StepStatus
    <3>3. QED
      BY <1>1, <3>1, <3>2, UpsertHonest, UnchangedHonest DEF Honest
  <2>3. QED
    BY <1>4, <2>1, <2>2
<1>5. CASE Request
  <2>1. ASSUME NEW r \in Runs, PauseRun(r) \/ CancelRun(r)
        PROVE  Honest
    BY <1>1, <2>1, RunStopsHonest
  <2>2. ASSUME NEW r \in Runs, EmergencyStop(r)
        PROVE  Honest
    BY <1>1, <2>2, EmergencyStopHonest
  <2>3. ASSUME NEW s \in Steps, CancelTask(s) \/ StartTask(s)
        PROVE  Honest
    BY <1>1, <2>3, TaskRequestHonest
  <2>4. ASSUME NEW d \in Coroutines, NEW r \in Runs, ResumeRun(r, d)
        PROVE  Honest
    BY <1>1, <2>4, RunGoesHonest
  <2>5. ASSUME NEW d \in Coroutines, NEW s \in Steps, RetryStep(s, d)
        PROVE  Honest
    BY <2>5, UnchangedHonest DEF RetryStep, Honest
  <2>6. QED
    BY <1>5, <2>1, <2>2, <2>3, <2>4, <2>5 DEF Request
<1>6. CASE UNCHANGED vars
  BY <1>6, UnchangedHonest DEF vars, Honest
<1>7. QED
  BY <1>2, <1>3, <1>4, <1>5, <1>6 DEF Next

\* A plan that was just configured has promised nothing.
LEMMA InitEarned ==
  ASSUME Init
  PROVE  Earned
<1>1. \A s \in Steps : attempts[s] = <<>> /\ step[s].status # "completed"
  BY DEF Init
<1>2. \A r \in Runs : run[r].status # "completed"
  BY DEF Init
<1>3. QED
  BY <1>1, <1>2 DEF Earned, DependenciesDoneFirst, CompletionIsEarned

\* Both promises hold together in every reachable state.
THEOREM WorkIsEarned == Spec => []Earned
<1>1. Init => Earned
  BY InitEarned
<1>2. Safe /\ Earned /\ [Next]_vars => Earned'
  BY NextHonest, HonestEarned
<1>3. QED
  BY <1>1, <1>2, AlwaysSafe, PTL DEF Spec

\* A step is attempted only after every step it depends on has a completed task,
\* however signals, failures, retries and operator requests interleave.
THEOREM DependenciesComeFirst == Spec => []DependenciesDoneFirst
<1>1. Earned => DependenciesDoneFirst
  BY DEF Earned
<1>2. QED
  BY <1>1, WorkIsEarned, PTL

\* A completed step has a completed task, a completed run has completed tasks only.
THEOREM CompletionsAreEarned == Spec => []CompletionIsEarned
<1>1. Earned => CompletionIsEarned
  BY DEF Earned
<1>2. QED
  BY <1>1, WorkIsEarned, PTL

-----------------------------------------------------------------------------
\* The attempt history: every step of the scheduler leaves it true.

\* A task that was completed or cancelled stays so, ...
OutcomesLast ==
  \A s \in Steps : task[s].status \in {"completed", "cancelled"} => task'[s].status = task[s].status

\* ... a step gets a new attempt only when no attempt is in flight and its task is
\* neither completed nor cancelled, ...
AttemptAdded(s) ==
  /\ attempts'[s] = Append(attempts[s], "claimed")
  /\ ~NonTerminalAttempt(s)
  /\ task[s].status \notin {"completed", "cancelled"}

\* ... and an attempt it has fails, starts after its claim, or ends with the task.
AttemptsMoved(s) ==
  /\ Len(attempts'[s]) = Len(attempts[s])
  /\ \A n \in 1..Len(attempts[s]) :
       \/ attempts'[s][n] \in {attempts[s][n], "failed"}
       \/ attempts[s][n] = "claimed" /\ attempts'[s][n] = "running"
       \/ n = Len(attempts[s]) /\ attempts'[s][n] = task'[s].status

\* What every step of the scheduler does to the history.
Recorded == OutcomesLast /\ \A s \in Steps : AttemptAdded(s) \/ AttemptsMoved(s)

\* Keeping to this keeps the history true.
LEMMA RecordedTrue ==
  ASSUME TypeOK, HistoryIsTrue, Recorded
  PROVE  HistoryIsTrue'
<1>1. SUFFICES ASSUME NEW s \in Steps, NEW n \in 1..Len(attempts'[s])
               PROVE  IF n < Len(attempts'[s])
                      THEN attempts'[s][n] = "failed"
                      ELSE attempts'[s][n] \in {"completed", "cancelled"}
                             => task'[s].status = attempts'[s][n]
  BY DEF HistoryIsTrue
<1>2. attempts[s] \in Seq(AttemptStatus)
  BY DEF TypeOK
<1>3. \A m \in 1..Len(attempts[s]) :
        /\ m < Len(attempts[s]) => attempts[s][m] = "failed"
        /\ attempts[s][m] \in {"completed", "cancelled"} => task'[s].status = attempts[s][m]
  BY <1>2 DEF HistoryIsTrue, Recorded, OutcomesLast
<1>4. CASE AttemptAdded(s)
  <2>1. /\ Len(attempts'[s]) = Len(attempts[s]) + 1
        /\ \A m \in 1..Len(attempts[s]) : attempts'[s][m] = attempts[s][m]
        /\ attempts'[s][Len(attempts[s]) + 1] = "claimed"
    BY <1>2, <1>4 DEF AttemptAdded
  <2>2. ASSUME NEW m \in 1..Len(attempts[s])
        PROVE  attempts[s][m] = "failed"
    <3>1. attempts[s][m] \in AttemptStatus \ Occupied
      BY <1>2, <1>4 DEF AttemptAdded, NonTerminalAttempt
    <3>2. attempts[s][m] \notin {"completed", "cancelled"}
      BY <1>2, <1>4 DEF AttemptAdded, HistoryIsTrue
    <3>3. QED
      BY <3>1, <3>2 DEF AttemptStatus, Occupied
  <2>3. CASE n \in 1..Len(attempts[s])
    BY <1>2, <2>1, <2>2, <2>3
  <2>4. CASE n = Len(attempts[s]) + 1
    BY <1>2, <2>1, <2>4
  <2>5. QED
    BY <1>1, <1>2, <2>1, <2>3, <2>4
<1>5. CASE AttemptsMoved(s)
  <2>1. n \in 1..Len(attempts[s]) /\ Len(attempts'[s]) = Len(attempts[s])
    BY <1>5 DEF AttemptsMoved
  <2>2. \/ attempts'[s][n] \in {attempts[s][n], "failed"}
        \/ attempts[s][n] = "claimed" /\ attempts'[s][n] = "running"
        \/ n = Len(attempts[s]) /\ attempts'[s][n] = task'[s].status
    BY <1>5, <2>1 DEF AttemptsMoved
  <2>3. QED
    BY <1>2, <1>3, <2>1, <2>2
<1>6. QED
  BY <1>4, <1>5 DEF Recorded

\* A history that does not change is moved on by nothing.
LEMMA SameHistory ==
  ASSUME attempts' = attempts
  PROVE  \A s \in Steps : AttemptsMoved(s)
BY DEF AttemptsMoved

\* prepareTaskRetryIfEligible takes back no completion and no cancellation.
LEMMA PreparedLasts ==
  ASSUME TypeOK, NEW s \in Steps, task' = task \/ task' = Prepared(s)
  PROVE  OutcomesLast
BY PreparedType DEF OutcomesLast

\* tryAdvanceStep adds an attempt only behind failed ones.
LEMMA AdvanceRecorded ==
  ASSUME TypeOK, NEW d \in Coroutines, Advance(d)
  PROVE  Recorded
<1>1. PICK s \in Steps : \/ PassOver(d, s)
                         \/ HoldForDependencies(d, s)
                         \/ ParkForSlot(d, s)
                         \/ ParkForAdapter(d, s)
                         \/ ReachAttemptLimit(d, s)
                         \/ LoseClaim(d, s)
                         \/ ClaimStep(d, s)
  BY DEF Advance
<1>2. OutcomesLast
  <2>1. task' = task \/ task' = Prepared(s)
    BY <1>1 DEF PassOver, HoldForDependencies, ParkForSlot, ParkForAdapter, ReachAttemptLimit,
                LoseClaim, ClaimStep
  <2>2. QED
    BY <2>1, PreparedLasts
<1>3. CASE ClaimStep(d, s)
  <2>1. /\ attempts' = [attempts EXCEPT ![s] = Append(@, "claimed")]
        /\ ~NonTerminalAttempt(s) /\ Prepared(s)[s].status = "assigned"
    BY <1>3 DEF ClaimStep, Clear, Launchable
  <2>2. task[s].status \notin {"completed", "cancelled"}
    BY <2>1, PreparedType
  <2>3. attempts'[s] = Append(attempts[s], "claimed")
        /\ \A t \in Steps : t # s => attempts'[t] = attempts[t]
    BY <2>1 DEF TypeOK
  <2>4. AttemptAdded(s) /\ \A t \in Steps : t # s => AttemptsMoved(t)
    BY <2>1, <2>2, <2>3 DEF AttemptAdded, AttemptsMoved
  <2>5. QED
    BY <1>2, <2>4 DEF Recorded
<1>4. CASE ~ClaimStep(d, s)
  <2>1. attempts' = attempts
    BY <1>1, <1>4 DEF PassOver, HoldForDependencies, ParkForSlot, ParkForAdapter,
                      ReachAttemptLimit, LoseClaim
  <2>2. QED
    BY <1>2, <2>1, SameHistory DEF Recorded
<1>5. QED
  BY <1>3, <1>4

\* onChildTaskMutated writes the task's own outcome, and into the latest attempt.
LEMMA TaskEndsRecorded ==
  ASSUME TypeOK, NEW s \in Steps, TaskEnds(s)
  PROVE  Recorded
<1> DEFINE Outcomes == {"completed", "failed", "cancelled"}
<1>1. PICK status \in Outcomes :
        /\ task[s].status = "active"
        /\ task' = [task EXCEPT ![s].status = status]
        /\ attempts' = attempts \/ attempts' = FinalAttempt(s, status)
  BY DEF TaskEnds, TaskCompletes, TaskFails, TaskCancelled, TaskEndsUnheard
<1>2. status \in TaskStatus /\ status \in AttemptStatus
  BY DEF TaskStatus, AttemptStatus
<1>3. task'[s].status = status /\ \A t \in Steps : t # s => task'[t] = task[t]
  BY <1>1, <1>2, TaskStatusType
<1>4. OutcomesLast
  BY <1>1, <1>3 DEF OutcomesLast
<1>5. CASE attempts' = attempts
  BY <1>4, <1>5, SameHistory DEF Recorded
<1>6. CASE attempts' = FinalAttempt(s, status)
  <2>1. /\ \A t \in Steps : t # s => attempts'[t] = attempts[t]
        /\ Len(attempts'[s]) = Len(attempts[s])
        /\ \A n \in 1..Len(attempts[s]) :
             attempts'[s][n] = IF n = Len(attempts[s]) THEN status ELSE attempts[s][n]
    BY <1>2, <1>6, FinalAttemptType
  <2>2. \A t \in Steps : AttemptsMoved(t)
    BY <1>3, <2>1 DEF AttemptsMoved
  <2>3. QED
    BY <1>4, <2>2 DEF Recorded
<1>7. QED
  BY <1>1, <1>5, <1>6

\* The end of startTask fails the attempt it claimed, or starts it if it is still claimed.
LEMMA DetectedRecorded ==
  ASSUME Safe, NEW d \in Coroutines, Detected(d)
  PROVE  Recorded
<1> DEFINE s == co[d].cur
           num == co[d].num
<1>1. /\ Parked(d) /\ TypeOK /\ Numbered
      /\ s \in Steps /\ num \in 1..Len(attempts[s])
      /\ task \in [Steps -> TaskRow]
  BY Zenon DEF Detected, LaunchSucceeds, LaunchCancelled, LaunchFails, Parked, Safe, Numbered,
               TypeOK
<1>2. \/ /\ task' = task
         /\ attempts' = [attempts EXCEPT ![s][num] = "failed"]
      \/ /\ Committable(d)
         /\ attempts' = [attempts EXCEPT ![s][num] = "running"]
         /\ \/ task' = [task EXCEPT ![s].status = "active"]
            \/ task' = [task EXCEPT ![s].status = "cancelled"]
  BY Zenon DEF Detected, LaunchSucceeds, LaunchCancelled, LaunchFails, StartedAttempt
<1>3. OutcomesLast
  <2>1. Committable(d) => task[s].status = "assigned"
    BY DEF Committable
  <2> HIDE DEF s
  <2>2. QED
    BY <1>1, <1>2, <2>1 DEF OutcomesLast
<1>4. Committable(d) => attempts[s][num] = "claimed"
  BY <1>1 DEF Committable, Parked, Safe, InHand
<1>5. {"failed", "running"} \subseteq AttemptStatus
  BY DEF AttemptStatus
<1>6. PICK status \in {"failed", "running"} :
        /\ attempts' = [attempts EXCEPT ![s][num] = status]
        /\ status = "running" => attempts[s][num] = "claimed"
  BY <1>2, <1>4
<1>7. \A t \in Steps :
        /\ Len(attempts'[t]) = Len(attempts[t])
        /\ \A n \in 1..Len(attempts[t]) :
             attempts'[t][n] = IF t = s /\ n = num THEN status ELSE attempts[t][n]
  BY <1>1, <1>5, <1>6, SettledAttemptType
<1> HIDE DEF s, num
<1>8. \A t \in Steps : AttemptsMoved(t)
  BY <1>6, <1>7 DEF AttemptsMoved
<1>9. QED
  BY <1>3, <1>8 DEF Recorded

\* Requests about a task change none that was completed or cancelled.
LEMMA TaskRequestRecorded ==
  ASSUME TypeOK,
         \/ \E s \in Steps : CancelTask(s) \/ StartTask(s)
         \/ \E r \in Runs : EmergencyStop(r)
  PROVE  Recorded
<1>1. attempts' = attempts /\ task \in [Steps -> TaskRow]
  BY DEF CancelTask, StartTask, EmergencyStop, TypeOK
<1>2. ASSUME NEW s \in Steps, CancelTask(s)
      PROVE  OutcomesLast
  <2>1. task' = [task EXCEPT ![s].cancel = TRUE]
    BY <1>2 DEF CancelTask
  <2>2. [task[s] EXCEPT !.cancel = TRUE].status = task[s].status
    BY <1>1 DEF TaskRow
  <2>3. QED
    BY <1>1, <2>1, <2>2 DEF OutcomesLast
<1>3. ASSUME NEW s \in Steps, StartTask(s)
      PROVE  OutcomesLast
  BY <1>1, <1>3 DEF StartTask, OutcomesLast
<1>4. ASSUME NEW r \in Runs, EmergencyStop(r)
      PROVE  OutcomesLast
  <2>1. \A s \in Steps : task'[s] = task[s] \/ task'[s] = [task[s] EXCEPT !.cancel = TRUE]
    BY <1>4 DEF EmergencyStop
  <2>2. QED
    BY <1>1, <2>1 DEF OutcomesLast, TaskRow
<1>5. OutcomesLast
  BY <1>2, <1>3, <1>4
<1>6. QED
  BY <1>1, <1>5, SameHistory DEF Recorded

\* What changes neither tasks nor attempts changes no history.
LEMMA UnchangedRecorded ==
  ASSUME UNCHANGED <<attempts, task>>
  PROVE  Recorded
BY SameHistory DEF Recorded, OutcomesLast

\* Every step of the scheduler is recorded.
LEMMA NextRecorded ==
  ASSUME Safe, [Next]_vars
  PROVE  Recorded
<1>1. TypeOK
  BY DEF Safe
<1>2. ASSUME NEW d \in Coroutines, Drain(d) \/ Detected(d) \/ WakeTimer(d)
      PROVE  Recorded
  <2>1. CASE Advance(d)
    BY <1>1, <2>1, AdvanceRecorded
  <2>2. CASE \/ ClaimSignal(d) \/ DrainDone(d) \/ FinishSignal(d) \/ WakeNext(d)
             \/ WakeDone(d) \/ WakeTimer(d)
    <3>1. UNCHANGED <<attempts, task>>
      BY <2>2, Zenon DEF ClaimSignal, DrainDone, FinishSignal, WakeNext, WakeDone, WakeTimer
    <3>2. QED
      BY <3>1, UnchangedRecorded
  <2>3. CASE Detected(d)
    BY <2>3, DetectedRecorded
  <2>4. QED
    BY <1>2, <2>1, <2>2, <2>3 DEF Drain
<1>3. ASSUME NEW s \in Steps, TaskEnds(s)
      PROVE  Recorded
  BY <1>1, <1>3, TaskEndsRecorded
<1>4. ASSUME \/ \E s \in Steps : CancelTask(s) \/ StartTask(s)
             \/ \E r \in Runs : EmergencyStop(r)
      PROVE  Recorded
  BY <1>1, <1>4, TaskRequestRecorded
<1>5. ASSUME \/ \E r \in Runs : PauseRun(r) \/ CancelRun(r)
             \/ \E d \in Coroutines, r \in Runs : StartRun(r, d) \/ ResumeRun(r, d)
             \/ \E d \in Coroutines, s \in Steps : RetryStep(s, d)
             \/ \E s \in Steps : BackoffElapses(s)
             \/ UNCHANGED vars
      PROVE  Recorded
  <2>1. UNCHANGED <<attempts, task>>
    BY <1>5 DEF PauseRun, CancelRun, StartRun, ResumeRun, RetryStep, BackoffElapses, vars
  <2>2. QED
    BY <2>1, UnchangedRecorded
<1>6. QED
  BY <1>2, <1>3, <1>4, <1>5 DEF Next, Request

\* The attempt history of every step is true in every reachable state: a failure before
\* every further attempt, and a completion or a cancellation only with the task's own,
\* however launches return late and requests interleave with them.
THEOREM HistoriesAreTrue == Spec => []HistoryIsTrue
<1>1. Init => HistoryIsTrue
  BY DEF Init, HistoryIsTrue
<1>2. Safe /\ HistoryIsTrue /\ [Next]_vars => HistoryIsTrue'
  BY NextRecorded, RecordedTrue DEF Safe
<1>3. QED
  BY <1>1, <1>2, AlwaysSafe, PTL DEF Spec

-----------------------------------------------------------------------------
\* A coroutine inside startTask, its revision valid or not, holds a claimed step, a task
\* that waits for its launch and an attempt that was claimed.  True as long as nobody
\* starts the task by hand meanwhile.
Launching ==
  \A d \in Coroutines :
    co[d].pc = "detect" => /\ step[co[d].cur].status = "claimed"
                           /\ task[co[d].cur].status = "assigned"
                           /\ attempts[co[d].cur][co[d].num] = "claimed"

\* The limit with what makes it inductive.
Limited == Launching /\ ConcurrencyLimit

\* At most one coroutine launches a step.
LEMMA OneLauncherPerStep ==
  ASSUME Safe, Launching, NEW d \in Coroutines, NEW e \in Coroutines, d # e,
         co[d].pc = "detect", co[e].pc = "detect"
  PROVE  co[d].cur # co[e].cur
<1>1. SUFFICES ASSUME co[d].cur = co[e].cur
               PROVE  FALSE
  OBVIOUS
<1> DEFINE s == co[d].cur
<1>2. /\ s \in Steps /\ co[d].num \in 1..Len(attempts[s]) /\ co[e].num \in 1..Len(attempts[s])
      /\ co[d].num # co[e].num
  BY <1>1 DEF Safe, Numbered, Distinct
<1>3. attempts[s][co[d].num] \in Occupied /\ attempts[s][co[e].num] \in Occupied
  BY <1>1 DEF Launching, Occupied
<1>4. Len(attempts[s]) \in Nat
  BY <1>2 DEF Safe, TypeOK
<1>5. QED
  BY <1>2, <1>3, <1>4 DEF Safe, NoOverlap

\* A limit that holds survives when no step takes a slot.
LEMMA SlotsShrink ==
  ASSUME ConcurrencyLimit,
         \A s \in Steps : step'[s].status \in Occupied => step[s].status \in Occupied
  PROVE  ConcurrencyLimit'
<1>1. SUFFICES ASSUME NEW r \in Runs
               PROVE  Cardinality(SlotsTaken(r)') <= MaxConcurrent
  BY DEF ConcurrencyLimit, SlotsTaken
<1>2. IsFiniteSet(SlotsTaken(r)) /\ SlotsTaken(r)' \subseteq SlotsTaken(r)
  <2>1. SlotsTaken(r) \subseteq Steps /\ SlotsTaken(r)' \subseteq SlotsTaken(r)
    BY DEF SlotsTaken, StepsOf
  <2>2. QED
    BY <2>1, PlanAssumption, FS_Subset
<1>3. Cardinality(SlotsTaken(r)) <= MaxConcurrent
  BY DEF ConcurrencyLimit, SlotsTaken
<1>4. /\ Cardinality(SlotsTaken(r)') <= Cardinality(SlotsTaken(r))
      /\ Cardinality(SlotsTaken(r)) \in Nat /\ Cardinality(SlotsTaken(r)') \in Nat
  BY <1>2, FS_Subset, FS_CardinalityType
<1>5. QED
  BY <1>3, <1>4, PolicyAssumption

\* Steps that are touched take no slot, and are in no launcher's hands afterwards.
LEMMA LimitKept ==
  ASSUME Safe, Limited, Kept, NEW touched \in SUBSET Steps,
         \A s \in Steps \ touched : /\ step'[s].status = step[s].status
                                    /\ task'[s].status = task[s].status
                                    /\ attempts'[s] = attempts[s],
         \A s \in touched : step'[s].status \in Occupied => step[s].status \in Occupied,
         \A d \in Coroutines :
           (co[d].pc = "detect" /\ co[d].cur \in touched) => co'[d].pc # "detect"
  PROVE  Limited'
<1>1. Launching'
  <2>1. SUFFICES ASSUME NEW d \in Coroutines, co'[d].pc = "detect"
                 PROVE  /\ step'[co'[d].cur].status = "claimed"
                        /\ task'[co'[d].cur].status = "assigned"
                        /\ attempts'[co'[d].cur][co'[d].num] = "claimed"
    BY DEF Launching
  <2>2. co[d].pc = "detect" /\ co'[d].cur = co[d].cur /\ co'[d].num = co[d].num
    BY <2>1 DEF Kept
  <2>3. co[d].cur \in Steps \ touched
    BY <2>1, <2>2 DEF Safe, Numbered
  <2>4. QED
    BY <2>2, <2>3 DEF Limited, Launching
<1>2. \A s \in Steps : step'[s].status \in Occupied => step[s].status \in Occupied
  OBVIOUS
<1>3. ConcurrencyLimit'
  BY <1>2, SlotsShrink DEF Limited
<1>4. QED
  BY <1>1, <1>3 DEF Limited

\* The case of one touched step.
LEMMA LimitKeptAt ==
  ASSUME Safe, Limited, Kept, NEW s \in Steps,
         \A t \in Steps : t # s => /\ step'[t] = step[t] /\ task'[t] = task[t]
                                  /\ attempts'[t] = attempts[t],
         step'[s].status \in Occupied => step[s].status \in Occupied,
         \A d \in Coroutines :
           (co[d].pc = "detect" /\ co[d].cur = s) => co'[d].pc # "detect"
  PROVE  Limited'
<1>1. {s} \in SUBSET Steps
  OBVIOUS
<1> DEFINE touched == {s}
<1>2. \A t \in Steps \ touched : /\ step'[t].status = step[t].status
                                 /\ task'[t].status = task[t].status
                                 /\ attempts'[t] = attempts[t]
  OBVIOUS
<1>3. \A t \in touched : step'[t].status \in Occupied => step[t].status \in Occupied
  OBVIOUS
<1>4. \A d \in Coroutines :
        (co[d].pc = "detect" /\ co[d].cur \in touched) => co'[d].pc # "detect"
  OBVIOUS
<1> HIDE DEF touched
<1>5. QED
  BY <1>1, <1>2, <1>3, <1>4, LimitKept DEF touched

\* The case of none.
LEMMA LimitKeptAll ==
  ASSUME Safe, Limited, Kept,
         \A s \in Steps : /\ step'[s].status = step[s].status
                          /\ task'[s].status = task[s].status
                          /\ attempts'[s] = attempts[s]
  PROVE  Limited'
<1> DEFINE touched == {}
<1>1. touched \in SUBSET Steps /\ \A s : s \notin touched
  OBVIOUS
<1> HIDE DEF touched
<1>2. QED
  BY <1>1, LimitKept

\* A claim keeps the limit: it counted the slots itself, without an await since.
LEMMA ClaimStepLimited ==
  ASSUME Safe, Limited, NEW d \in Coroutines, NEW s \in Steps, ClaimStep(d, s)
  PROVE  Limited'
<1>1. /\ TypeOK
      /\ co \in [Coroutines -> Coroutine] /\ co[d] \in Coroutine
      /\ attempts \in [Steps -> Seq(AttemptStatus)]
      /\ task \in [Steps -> TaskRow]
      /\ step \in [Steps -> StepRow]
  BY DEF Safe, TypeOK
<1>2. /\ Launchable(s) /\ step[s].status \notin Occupied /\ ~SlotsFull(RunOf[s])
      /\ task' = Prepared(s) /\ step' = Upsert(s, "claimed")
      /\ attempts' = [attempts EXCEPT ![s] = Append(@, "claimed")]
  BY DEF ClaimStep, Clear, Eligible, Settled
<1> DEFINE n == Len(attempts[s]) + 1
           c == [co[d] EXCEPT !.pc = "detect", !.todo = @ \ {s}, !.cur = s, !.num = n,
                              !.valid = TRUE]
<1>3. c.pc = "detect" /\ c.cur = s /\ c.num = n
  BY <1>1 DEF Coroutine
<1>4. co' = [co EXCEPT ![d] = c]
  BY DEF ClaimStep
<1> HIDE DEF c
<1>5. /\ \A e \in Coroutines : e # d => co'[e] = co[e]
      /\ co'[d] = c
  BY <1>1, <1>4
<1>6. /\ step'[s].status = "claimed" /\ \A t \in Steps : t # s => step'[t] = step[t]
      /\ task'[s].status = "assigned" /\ \A t \in Steps : t # s => task'[t] = task[t]
      /\ attempts'[s][n] = "claimed" /\ \A t \in Steps : t # s => attempts'[t] = attempts[t]
  <2>1. Row(s, "claimed", FALSE, FALSE).status = "claimed"
    BY DEF Row
  <2>2. step'[s].status = "claimed" /\ \A t \in Steps : t # s => step'[t] = step[t]
    BY <1>1, <1>2, <2>1 DEF Upsert
  <2>3. task'[s].status = "assigned" /\ \A t \in Steps : t # s => task'[t] = task[t]
    BY <1>1, <1>2, PreparedType DEF Launchable
  <2>4. attempts'[s][n] = "claimed" /\ \A t \in Steps : t # s => attempts'[t] = attempts[t]
    BY <1>1, <1>2
  <2>5. QED
    BY <2>2, <2>3, <2>4
<1>7. Launching'
  <2>1. SUFFICES ASSUME NEW e \in Coroutines, co'[e].pc = "detect"
                 PROVE  /\ step'[co'[e].cur].status = "claimed"
                        /\ task'[co'[e].cur].status = "assigned"
                        /\ attempts'[co'[e].cur][co'[e].num] = "claimed"
    BY DEF Launching
  <2>2. CASE e = d
    BY <1>3, <1>5, <1>6, <2>2
  <2>3. CASE e # d
    <3>1. co[e].pc = "detect" /\ co'[e] = co[e] /\ co[e].cur \in Steps
      BY <1>5, <2>1, <2>3 DEF Safe, Numbered
    <3>2. /\ step[co[e].cur].status = "claimed" /\ task[co[e].cur].status = "assigned"
          /\ attempts[co[e].cur][co[e].num] = "claimed"
      BY <3>1 DEF Limited, Launching
    <3>3. co[e].cur # s
      BY <1>2, <3>2 DEF Occupied
    <3>4. QED
      BY <1>6, <3>1, <3>2, <3>3
  <2>4. QED
    BY <2>2, <2>3
<1>8. ConcurrencyLimit'
  <2>1. SUFFICES ASSUME NEW r \in Runs
                 PROVE  Cardinality(SlotsTaken(r)') <= MaxConcurrent
    BY DEF ConcurrencyLimit, SlotsTaken
  <2>2. IsFiniteSet(SlotsTaken(r)) /\ Cardinality(SlotsTaken(r)) \in Nat
    <3>1. SlotsTaken(r) \subseteq Steps
      BY DEF SlotsTaken, StepsOf
    <3>2. QED
      BY <3>1, PlanAssumption, FS_Subset, FS_CardinalityType
  <2>3. Cardinality(SlotsTaken(r)) <= MaxConcurrent
    BY DEF Limited, ConcurrencyLimit, SlotsTaken
  <2>4. CASE r = RunOf[s]
    <3>1. SlotsTaken(r)' = SlotsTaken(r) \cup {s}
      BY <1>6, <2>4 DEF SlotsTaken, StepsOf, Occupied
    <3>2. Cardinality(SlotsTaken(r)') = Cardinality(SlotsTaken(r)) + 1
      <4>1. s \notin SlotsTaken(r)
        BY <1>2 DEF SlotsTaken
      <4>2. QED
        BY <2>2, <3>1, <4>1, FS_AddElement
    <3>3. Cardinality(SlotsTaken(r)) < MaxConcurrent
      BY <1>2, <2>2, <2>4, PolicyAssumption DEF SlotsFull
    <3>4. QED
      BY <2>2, <3>2, <3>3, PolicyAssumption
  <2>5. CASE r # RunOf[s]
    <3>1. SlotsTaken(r)' = SlotsTaken(r)
      BY <1>6, <2>5 DEF SlotsTaken, StepsOf
    <3>2. QED
      BY <2>3, <3>1
  <2>6. QED
    BY <2>4, <2>5
<1>9. QED
  BY <1>7, <1>8 DEF Limited

\* tryAdvanceStep keeps the limit.
LEMMA AdvanceLimited ==
  ASSUME Safe, Limited, NEW d \in Coroutines, Advance(d)
  PROVE  Limited'
<1>1. PICK s \in Steps : \/ PassOver(d, s)
                         \/ HoldForDependencies(d, s)
                         \/ ParkForSlot(d, s)
                         \/ ParkForAdapter(d, s)
                         \/ ReachAttemptLimit(d, s)
                         \/ LoseClaim(d, s)
                         \/ ClaimStep(d, s)
  BY DEF Advance
<1>2. TypeOK
  BY DEF Safe
<1>3. CASE \E t \in Steps : ClaimStep(d, t)
  BY <1>3, ClaimStepLimited
<1>4. CASE ~\E t \in Steps : ClaimStep(d, t)
  <2>1. Kept
    BY <1>4, AdvanceSafe
  <2>2. CASE PassOver(d, s)
    BY <2>1, <2>2, LimitKeptAll DEF PassOver
  <2>3. CASE ~PassOver(d, s)
    <3>1. /\ step[s].status \notin Occupied /\ attempts' = attempts
          /\ task' = task \/ task' = Prepared(s)
          /\ \/ step' = step \/ step' = Park(s)
             \/ \E status \in {"awaiting_intervention", "waiting_for_dependencies"} :
                  step' = Upsert(s, status)
      BY <1>1, <1>4, <2>3 DEF HoldForDependencies, ParkForSlot, ParkForAdapter,
                              ReachAttemptLimit, LoseClaim, Clear, Eligible, Settled
    <3>2. {"awaiting_intervention", "waiting_for_dependencies"} \subseteq StepStatus \ Occupied
      BY DEF StepStatus, Occupied
    <3>3. /\ step'[s].status \notin Occupied
          /\ \A t \in Steps : t # s => step'[t] = step[t]
      <4>1. CASE step' = step
        BY <3>1, <4>1
      <4>2. CASE step' = Park(s)
        BY <1>2, <4>2, ParkType DEF Occupied
      <4>3. ASSUME NEW status \in {"awaiting_intervention", "waiting_for_dependencies"},
                   step' = Upsert(s, status)
            PROVE  /\ step'[s].status \notin Occupied
                   /\ \A t \in Steps : t # s => step'[t] = step[t]
        <5>1. status \in StepStatus /\ status # "claimed" /\ status \notin Occupied
          BY <3>2 DEF Occupied
        <5>2. QED
          BY <1>2, <4>3, <5>1, UpsertType
      <4>4. QED
        BY <3>1, <4>1, <4>2, <4>3
    <3>4. \A t \in Steps : t # s => task'[t] = task[t] /\ attempts'[t] = attempts[t]
      BY <1>2, <3>1, PreparedType
    <3>5. \A e \in Coroutines : co[e].pc = "detect" => co[e].cur # s
      BY <3>1 DEF Limited, Launching, Occupied
    <3>6. QED
      BY <2>1, <3>3, <3>4, <3>5, LimitKeptAt
  <2>4. QED
    BY <2>2, <2>3
<1>5. QED
  BY <1>3, <1>4

\* onChildTaskMutated keeps the limit: a task that ran has no launcher any more.
LEMMA TaskEndsLimited ==
  ASSUME Safe, Limited, NEW s \in Steps, TaskEnds(s)
  PROVE  Limited'
<1>1. TypeOK /\ Kept /\ task \in [Steps -> TaskRow] /\ step \in [Steps -> StepRow]
  BY TaskEndsSafe DEF Safe, TypeOK
<1>2. /\ task[s].status = "active"
      /\ \E status \in {"completed", "failed", "cancelled"} :
           task' = [task EXCEPT ![s].status = status]
      /\ \/ step' = step
         \/ step' = [step EXCEPT ![s] = Row(s, "retry_wait", FALSE, TRUE)]
         \/ \E status \in {"completed", "failed", "cancelled"} : step' = Upsert(s, status)
      /\ \/ attempts' = attempts
         \/ \E status \in {"completed", "failed", "cancelled"} :
              attempts' = FinalAttempt(s, status)
  BY DEF TaskEnds, TaskCompletes, TaskFails, TaskCancelled, TaskEndsUnheard
<1>3. \A t \in Steps : t # s => task'[t] = task[t]
  BY <1>1, <1>2
<1>4. /\ step'[s].status \in Occupied => step[s].status \in Occupied
      /\ \A t \in Steps : t # s => step'[t] = step[t]
  <2>1. CASE step' = step
    BY <2>1
  <2>2. CASE step' = [step EXCEPT ![s] = Row(s, "retry_wait", FALSE, TRUE)]
    <3>1. Row(s, "retry_wait", FALSE, TRUE).status = "retry_wait"
      BY DEF Row
    <3>2. QED
      BY <1>1, <2>2, <3>1 DEF Occupied
  <2>3. ASSUME NEW status \in {"completed", "failed", "cancelled"}, step' = Upsert(s, status)
        PROVE  /\ step'[s].status \notin Occupied
               /\ \A t \in Steps : t # s => step'[t] = step[t]
    <3>1. status \in StepStatus /\ status # "claimed" /\ status \notin Occupied
      BY DEF StepStatus, Occupied
    <3>2. QED
      BY <1>1, <2>3, <3>1, UpsertType
  <2>4. QED
    BY <1>2, <2>1, <2>2, <2>3
<1>5. \A t \in Steps : t # s => attempts'[t] = attempts[t]
  <2>1. {"completed", "failed", "cancelled"} \subseteq AttemptStatus
    BY DEF AttemptStatus
  <2>2. QED
    BY <1>1, <1>2, <2>1, FinalAttemptType
<1>6. \A e \in Coroutines : co[e].pc = "detect" => co[e].cur # s
  BY <1>2 DEF Limited, Launching
<1>7. QED
  BY <1>1, <1>3, <1>4, <1>5, <1>6, LimitKeptAt

\* The end of startTask keeps the limit: the slot was taken at the claim.
LEMMA DetectedLimited ==
  ASSUME Safe, Limited, NEW d \in Coroutines, Detected(d)
  PROVE  Limited'
<1> DEFINE s == co[d].cur
<1>1. /\ TypeOK /\ Numbered /\ Kept /\ co'[d].pc # "detect" /\ Parked(d)
      /\ task \in [Steps -> TaskRow]
  BY DetectedSafe DEF Safe, TypeOK, Detected, LaunchSucceeds, LaunchCancelled, LaunchFails
<1>2. s \in Steps /\ step[s].status \in Occupied
  BY <1>1 DEF Parked, Numbered, Limited, Launching, Occupied
<1>3. \A t \in Steps : t # s => step'[t] = step[t]
  <2>1. step' = Upsert(s, "running") \/ step' = Upsert(s, "awaiting_intervention")
    BY DEF Detected, LaunchSucceeds, LaunchCancelled, LaunchFails, StartedStep
  <2>2. {"running", "awaiting_intervention"} \subseteq StepStatus \ {"claimed"}
    BY DEF StepStatus
  <2>3. QED
    BY <1>1, <1>2, <2>1, <2>2, UpsertType
<1>4. \A t \in Steps : t # s => task'[t] = task[t]
  <2>1. \/ task' = task
        \/ task' = [task EXCEPT ![s].status = "active"]
        \/ task' = [task EXCEPT ![s].status = "cancelled"]
    BY DEF Detected, LaunchSucceeds, LaunchCancelled, LaunchFails
  <2> HIDE DEF s
  <2>2. QED
    BY <1>1, <1>2, <2>1
<1>5. \A t \in Steps : t # s => attempts'[t] = attempts[t]
  <2>1. \E status \in {"running", "failed"} :
          attempts' = [attempts EXCEPT ![s][co[d].num] = status]
    BY DEF Detected, LaunchSucceeds, LaunchCancelled, LaunchFails, StartedAttempt
  <2>2. attempts \in [Steps -> Seq(AttemptStatus)]
    BY <1>1 DEF TypeOK
  <2> HIDE DEF s
  <2>3. QED
    BY <1>2, <2>1, <2>2
<1>6. \A e \in Coroutines : (co[e].pc = "detect" /\ co[e].cur = s) => co'[e].pc # "detect"
  BY <1>1, OneLauncherPerStep DEF Limited, Parked
<1> HIDE DEF s
<1>7. QED
  BY <1>1, <1>2, <1>3, <1>4, <1>5, <1>6, LimitKeptAt

\* Operator requests other than a start by hand keep the limit.
LEMMA RequestLimited ==
  ASSUME Safe, Limited, "start_task" \notin Requests, Request
  PROVE  Limited'
<1>1. ASSUME NEW r \in Runs, PauseRun(r) \/ CancelRun(r)
      PROVE  Limited'
  <2>1. Kept /\ UNCHANGED <<step, task, attempts>>
    BY <1>1, RunStopsSafe DEF PauseRun, CancelRun
  <2>2. QED
    BY <2>1, LimitKeptAll
<1>2. ASSUME NEW r \in Runs, EmergencyStop(r)
      PROVE  Limited'
  <2>1. Kept /\ UNCHANGED <<step, attempts>>
    BY <1>2, EmergencyStopSafe DEF EmergencyStop
  <2>2. \A s \in Steps : task'[s].status = task[s].status
    <3>1. task \in [Steps -> TaskRow]
      BY DEF Safe, TypeOK
    <3>2. \A s \in Steps : task'[s] = task[s] \/ task'[s] = [task[s] EXCEPT !.cancel = TRUE]
      BY <1>2 DEF EmergencyStop
    <3>3. QED
      BY <3>1, <3>2 DEF TaskRow
  <2>3. QED
    BY <2>1, <2>2, LimitKeptAll
<1>3. ASSUME NEW s \in Steps, CancelTask(s)
      PROVE  Limited'
  <2>1. Kept /\ UNCHANGED <<step, attempts>>
    BY <1>3, CancelTaskSafe DEF CancelTask
  <2>2. \A t \in Steps : task'[t].status = task[t].status
    BY <1>3 DEF CancelTask, Safe, TypeOK, TaskRow
  <2>3. QED
    BY <2>1, <2>2, LimitKeptAll
<1>4. ASSUME NEW s \in Steps, StartTask(s)
      PROVE  FALSE
  BY <1>4 DEF StartTask, Operator
<1>5. ASSUME NEW d \in Coroutines, NEW r \in Runs, ResumeRun(r, d)
      PROVE  Limited'
  <2>1. Kept /\ UNCHANGED <<step, task, attempts>>
    BY <1>5, RunGoesSafe DEF ResumeRun
  <2>2. QED
    BY <2>1, LimitKeptAll
<1>6. ASSUME NEW d \in Coroutines, NEW s \in Steps, RetryStep(s, d)
      PROVE  Limited'
  <2>1. Kept /\ UNCHANGED <<step, task, attempts>>
    BY <1>6, RetryStepSafe DEF RetryStep
  <2>2. QED
    BY <2>1, LimitKeptAll
<1>7. QED
  BY <1>1, <1>2, <1>3, <1>4, <1>5, <1>6 DEF Request

\* Every step of the scheduler but a start by hand keeps the limit.
LEMMA NextLimited ==
  ASSUME Safe, Limited, "start_task" \notin Requests, [Next]_vars
  PROVE  Limited'
<1>1. ASSUME NEW d \in Coroutines, Drain(d)
      PROVE  Limited'
  <2>1. CASE ClaimSignal(d) \/ DrainDone(d) \/ FinishSignal(d) \/ WakeNext(d) \/ WakeDone(d)
    <3>1. Kept
      BY <2>1, SignalStepsSafe
    <3>2. UNCHANGED <<step, task, attempts>>
      BY <2>1 DEF ClaimSignal, DrainDone, FinishSignal, WakeNext, WakeDone
    <3>3. QED
      BY <3>1, <3>2, LimitKeptAll
  <2>2. CASE Advance(d)
    BY <2>2, AdvanceLimited
  <2>3. QED
    BY <1>1, <2>1, <2>2 DEF Drain
<1>2. ASSUME NEW d \in Coroutines, WakeTimer(d)
      PROVE  Limited'
  <2>1. Kept /\ UNCHANGED <<step, task, attempts>>
    BY <1>2, WakeTimerSafe DEF WakeTimer
  <2>2. QED
    BY <2>1, LimitKeptAll
<1>3. ASSUME NEW r \in Runs, NEW d \in Coroutines, StartRun(r, d)
      PROVE  Limited'
  <2>1. Kept /\ UNCHANGED <<step, task, attempts>>
    BY <1>3, RunGoesSafe DEF StartRun
  <2>2. QED
    BY <2>1, LimitKeptAll
<1>4. ASSUME NEW s \in Steps, BackoffElapses(s)
      PROVE  Limited'
  <2>1. Kept /\ UNCHANGED <<task, attempts>>
    BY <1>4, BackoffElapsesSafe DEF BackoffElapses
  <2>2. \A t \in Steps : step'[t].status = step[t].status
    BY <1>4 DEF BackoffElapses, Safe, TypeOK, StepRow
  <2>3. QED
    BY <2>1, <2>2, LimitKeptAll
<1>5. CASE UNCHANGED vars
  BY <1>5, LimitKeptAll DEF vars, Kept
<1>6. QED
  BY <1>1, <1>2, <1>3, <1>4, <1>5, DetectedLimited, TaskEndsLimited, RequestLimited DEF Next

\* No slot is taken at first.
LEMMA InitLimited ==
  ASSUME Init
  PROVE  Limited
<1>1. Launching
  BY IdlePc DEF Init, Launching
<1>2. ASSUME NEW r \in Runs
      PROVE  Cardinality(SlotsTaken(r)) <= MaxConcurrent
  <2>1. SlotsTaken(r) = {}
    BY DEF Init, SlotsTaken, StepsOf, Occupied
  <2>2. QED
    BY <2>1, FS_EmptySet, PolicyAssumption
<1>3. QED
  BY <1>1, <1>2 DEF Limited, ConcurrencyLimit, SlotsTaken

\* maxConcurrentSteps is respected in every reachable state of every plan, unless child
\* tasks are also started by hand on the Kanban board.
THEOREM SlotsAreLimited ==
  ASSUME "start_task" \notin Requests
  PROVE  Spec => []ConcurrencyLimit
<1>1. Init => Limited
  BY InitLimited
<1>2. Safe /\ Limited /\ [Next]_vars => Limited'
  BY NextLimited
<1>3. Limited => ConcurrencyLimit
  BY DEF Limited
<1>4. QED
  BY <1>1, <1>2, <1>3, AlwaysSafe, PTL DEF Spec

-----------------------------------------------------------------------------
\* Signals: what a stopped run leaves behind.

\* The statuses in which a run's signals may stay queued.
Waking == {"running", "completed"}

\* A run that could be woken stays so unless its signals go, and whatever is new
\* in the queue is for a run that is running.
QueueFollowsRuns ==
  \A g \in queue' :
    \/ \E h \in queue : /\ h.run = g.run /\ (h.fresh => g.fresh)
                        /\ run[g.run].status \in Waking => run'[g.run].status \in Waking
    \/ g.fresh /\ run'[g.run].status = "running"

LEMMA QueueFollows ==
  ASSUME StoppedRunIsQuiet, QueueFollowsRuns
  PROVE  StoppedRunIsQuiet'
BY DEF StoppedRunIsQuiet, QueueFollowsRuns, Waking

\* A merged or new signal is fresh and for the run that asked for it.
LEMMA EnqueuedSignals ==
  ASSUME NEW q, NEW r, NEW s, NEW self, NEW dependents, NEW due,
         NEW g \in Enqueued(q, r, s, self, dependents, due)
  PROVE  g \in q \/ (g.run = r /\ g.fresh)
BY DEF Enqueued

LEMMA NotifiedSignals ==
  ASSUME NEW q, NEW r, NEW s, NEW self, NEW dependents, NEW due, NEW rows,
         NEW g \in Notify(rows, q, r, s, self, dependents, due)
  PROVE  g \in q \/ (g.run = r /\ g.fresh /\ rows[r].status = "running")
<1>1. CASE rows[r].status = "running"
  BY <1>1, EnqueuedSignals DEF Notify
<1>2. CASE rows[r].status # "running"
  BY <1>2 DEF Notify
<1>3. QED
  BY <1>1, <1>2

\* What a lost step puts in the queue.
LEMMA LossSignals ==
  ASSUME TypeOK, NEW s \in Steps, NEW rows, NEW g \in LossQueue(rows, s)
  PROVE  g \in queue \/ (g.run = RunOf[s] /\ g.fresh /\ rows[RunOf[s]].status = "running")
<1>1. RunOf[s] \in Runs /\ queue \in SUBSET Signal
  BY PlanAssumption DEF TypeOK
<1>2. CASE LossQueue(rows, s) = queue
  BY <1>2
<1>3. CASE LossQueue(rows, s) = Notify(rows, queue, RunOf[s], s, FALSE, TRUE, TRUE)
  <2>1. g \in Notify(rows, queue, RunOf[s], s, FALSE, TRUE, TRUE)
    BY <1>3
  <2>2. QED
    BY <2>1, NotifiedSignals
<1>4. QED
  BY <1>2, <1>3 DEF LossQueue

\* A pause for intervention takes the run's signals with it.
LEMMA PauseSilences ==
  ASSUME TypeOK, NEW rows \in [Runs -> RunRow], NEW r \in Runs, NEW q \in SUBSET queue,
         \A p \in Runs : rows[p].status = run[p].status,
         run' = PausedRuns(rows, r), queue' = PausedQueue(rows, q, r)
  PROVE  QueueFollowsRuns
<1>1. SUFFICES ASSUME NEW g \in queue'
               PROVE  /\ g \in queue
                      /\ run[g.run].status \in Waking => run'[g.run].status \in Waking
  BY DEF QueueFollowsRuns
<1>2. CASE rows[r].status = "running"
  <2>1. g \in queue /\ g.run # r
    BY <1>2 DEF PausedQueue, WithoutRun
  <2>2. g.run \in Runs
    BY <2>1 DEF TypeOK, Signal
  <2>3. run'[g.run] = rows[g.run]
    BY <1>2, <2>1, <2>2 DEF PausedRuns
  <2>4. QED
    BY <2>1, <2>2, <2>3
<1>3. CASE rows[r].status # "running"
  <2>1. g \in queue /\ run' = rows
    BY <1>3 DEF PausedQueue, PausedRuns
  <2>2. g.run \in Runs
    BY <2>1 DEF TypeOK, Signal
  <2>3. QED
    BY <2>1, <2>2
<1>4. QED
  BY <1>2, <1>3

\* Steps that leave the statuses of the runs alone and drop signals at most.
LEMMA OldSignals ==
  ASSUME TypeOK, queue' \subseteq queue, \A p \in Runs : run'[p].status = run[p].status
  PROVE  QueueFollowsRuns
<1>1. \A g \in queue : g.run \in Runs
  BY DEF TypeOK, Signal
<1>2. QED
  BY <1>1 DEF QueueFollowsRuns

\* Steps that leave the statuses alone and notify one running run.
LEMMA OneNotified ==
  ASSUME TypeOK, NEW r \in Runs, \A p \in Runs : run'[p].status = run[p].status,
         \A g \in queue' : g \in queue \/ (g.run = r /\ g.fresh /\ run[r].status = "running")
  PROVE  QueueFollowsRuns
<1>1. \A g \in queue : g.run \in Runs
  BY DEF TypeOK, Signal
<1>2. QED
  BY <1>1 DEF QueueFollowsRuns

LEMMA DrainQuiet ==
  ASSUME Safe, NEW d \in Coroutines, Drain(d)
  PROVE  QueueFollowsRuns
<1>0. /\ TypeOK /\ run \in [Runs -> RunRow] /\ queue \in SUBSET Signal
      /\ co[d] \in Coroutine
  BY DEF Safe, TypeOK
<1>1. CASE ClaimSignal(d) \/ DrainDone(d)
  BY <1>0, <1>1, OldSignals DEF ClaimSignal, DrainDone
<1>2. CASE FinishSignal(d)
  <2> DEFINE r == co[d].run
  <2>1. \A p \in Runs : run[p].status \in Waking => run'[p].status \in Waking
    BY <1>0, <1>2 DEF FinishSignal, Waking
  <2>2. queue' = queue
    BY <1>2 DEF FinishSignal
  <2>3. \A g \in queue : g.run \in Runs
    BY <1>0 DEF Signal
  <2>4. QED
    BY <2>1, <2>2, <2>3 DEF QueueFollowsRuns
<1>3. CASE WakeNext(d)
  <2>1. PICK s \in co[d].wake :
          queue' = Notify(run, queue, RunOf[s], s, TRUE, FALSE, TRUE) \/ queue' = queue
    BY <1>3 DEF WakeNext
  <2>2. s \in Steps /\ RunOf[s] \in Runs
    BY <1>0, PlanAssumption DEF Coroutine
  <2>3. run' = run
    BY <1>3 DEF WakeNext
  <2>4. \A g \in queue' :
          g \in queue \/ (g.run = RunOf[s] /\ g.fresh /\ run[RunOf[s]].status = "running")
    <3>1. \A g \in Notify(run, queue, RunOf[s], s, TRUE, FALSE, TRUE) :
            g \in queue \/ (g.run = RunOf[s] /\ g.fresh /\ run[RunOf[s]].status = "running")
      BY NotifiedSignals
    <3>2. QED
      BY <2>1, <3>1
  <2>5. QED
    BY <1>0, <2>2, <2>3, <2>4, OneNotified
<1>4. CASE WakeDone(d)
  <2>1. CASE co[d].then = "pause"
    <3>1. run' = PausedRuns(run, co[d].for) /\ queue' = PausedQueue(run, queue, co[d].for)
      BY <1>4, <2>1 DEF WakeDone
    <3>2. CASE co[d].for \in Runs
      BY <1>0, <3>1, <3>2, PauseSilences
    <3>3. CASE co[d].for \notin Runs
      <4>1. \A p \in Runs : run'[p] = run[p]
        BY <1>0, <3>1, <3>3 DEF PausedRuns
      <4>2. queue' \subseteq queue
        BY <3>1 DEF PausedQueue, WithoutRun
      <4>3. QED
        BY <1>0, <4>1, <4>2, OldSignals
    <3>4. QED
      BY <3>2, <3>3
  <2>2. CASE co[d].then # "pause"
    BY <1>0, <1>4, <2>2, OldSignals DEF WakeDone
  <2>3. QED
    BY <2>1, <2>2
<1>5. CASE Advance(d)
  <2>1. PICK s \in Steps : \/ PassOver(d, s) \/ HoldForDependencies(d, s)
                           \/ ParkForSlot(d, s) \/ ParkForAdapter(d, s)
                           \/ ReachAttemptLimit(d, s) \/ LoseClaim(d, s) \/ ClaimStep(d, s)
    BY <1>5 DEF Advance
  <2>2. \/ UNCHANGED <<run, queue>>
        \/ run' = PausedRuns(run, RunOf[s]) /\ queue' = PausedQueue(run, queue, RunOf[s])
    BY <2>1 DEF PassOver, HoldForDependencies, ParkForSlot, ParkForAdapter,
                ReachAttemptLimit, LoseClaim, ClaimStep
  <2>3. RunOf[s] \in Runs
    BY PlanAssumption
  <2>4. QED
    BY <1>0, <2>2, <2>3, PauseSilences, OldSignals
<1>6. QED
  BY <1>1, <1>2, <1>3, <1>4, <1>5 DEF Drain

LEMMA TaskEndsQuiet ==
  ASSUME Safe, NEW s \in Steps, TaskEnds(s)
  PROVE  QueueFollowsRuns
<1> DEFINE r == RunOf[s]
<1>0. TypeOK /\ run \in [Runs -> RunRow] /\ queue \in SUBSET Signal /\ r \in Runs
  BY PlanAssumption DEF Safe, TypeOK
<1>1. ASSUME NEW d \in Coroutines, TaskCompletes(s, d)
      PROVE  QueueFollowsRuns
  <2>1. \A p \in Runs : run'[p].status = run[p].status
    BY <1>0, <1>1 DEF TaskCompletes, RunRow
  <2>2. queue' = Notify(run, queue, r, s, FALSE, TRUE, TRUE)
    BY <1>1 DEF TaskCompletes
  <2>3. \A g \in queue' : g \in queue \/ (g.run = r /\ g.fresh /\ run[r].status = "running")
    BY <1>0, <2>2, NotifiedSignals
  <2>4. QED
    BY <1>0, <2>1, <2>3, OneNotified
<1>2. ASSUME NEW d \in Coroutines, NEW transient \in BOOLEAN, TaskFails(s, transient, d)
      PROVE  QueueFollowsRuns
  <2> DEFINE trips == WasRunning(s) /\ Failures(r) >= MaxFailures
             rows == IF WasRunning(s)
                     THEN [run EXCEPT ![r].failures = Failures(r), ![r].open = @ \/ trips]
                     ELSE run
  <2>1. run' = rows
    BY <1>2 DEF TaskFails
  <2>2. \A p \in Runs : rows[p].status = run[p].status
    BY <1>0 DEF RunRow
  <2> HIDE DEF rows, trips
  <2>3. \/ queue' = queue
        \/ queue' = Notify(rows, queue, r, s, TRUE, FALSE, FALSE)
        \/ queue' = LossQueue(rows, s)
    BY <1>2, <2>1 DEF TaskFails, rows, trips
  <2>4. \A g \in queue' : g \in queue \/ (g.run = r /\ g.fresh /\ rows[r].status = "running")
    <3>1. \A g \in Notify(rows, queue, r, s, TRUE, FALSE, FALSE) :
            g \in queue \/ (g.run = r /\ g.fresh /\ rows[r].status = "running")
      BY NotifiedSignals
    <3>2. \A g \in LossQueue(rows, s) :
            g \in queue \/ (g.run = r /\ g.fresh /\ rows[r].status = "running")
      BY <1>0, LossSignals
    <3>3. QED
      BY <2>3, <3>1, <3>2
  <2>5. \A g \in queue' : g \in queue \/ (g.run = r /\ g.fresh /\ run[r].status = "running")
    BY <1>0, <2>2, <2>4
  <2>6. QED
    BY <1>0, <2>1, <2>2, <2>5, OneNotified
<1>3. ASSUME NEW d \in Coroutines, TaskCancelled(s, d)
      PROVE  QueueFollowsRuns
  <2>1. run' = run /\ queue' = LossQueue(run, s)
    BY <1>3 DEF TaskCancelled
  <2>2. QED
    BY <1>0, <2>1, LossSignals, OneNotified
<1>4. ASSUME NEW status, TaskEndsUnheard(s, status)
      PROVE  QueueFollowsRuns
  BY <1>0, <1>4, OldSignals DEF TaskEndsUnheard
<1>5. QED
  BY <1>1, <1>2, <1>3, <1>4 DEF TaskEnds

LEMMA DetectedQuiet ==
  ASSUME Safe, NEW d \in Coroutines, Detected(d)
  PROVE  QueueFollowsRuns
<1> DEFINE s == co[d].cur
           r == RunOf[s]
<1>0. /\ TypeOK /\ run \in [Runs -> RunRow] /\ queue \in SUBSET Signal
      /\ s \in Steps /\ r \in Runs
  <2>1. Parked(d)
    BY DEF Detected, LaunchSucceeds, LaunchCancelled, LaunchFails
  <2>2. s \in Steps
    BY <2>1 DEF Parked, Safe, Numbered
  <2>3. QED
    BY <2>2, PlanAssumption DEF Safe, TypeOK
<1>1. CASE LaunchSucceeds(d)
  BY <1>0, <1>1, OldSignals DEF LaunchSucceeds
<1>2. ASSUME NEW e \in Coroutines, LaunchCancelled(d, e)
      PROVE  QueueFollowsRuns
  <2>1. run' = run /\ (queue' = LossQueue(run, s) \/ queue' = queue)
    BY <1>2 DEF LaunchCancelled
  <2>2. QED
    BY <1>0, <2>1, LossSignals, OneNotified
<1>3. ASSUME NEW drifted \in BOOLEAN, LaunchFails(d, drifted)
      PROVE  QueueFollowsRuns
  <2> DEFINE q == IF drifted THEN WithoutStep(queue, s) ELSE queue
             trips == Failures(r) >= MaxFailures
             rows == [run EXCEPT ![r].failures = Failures(r), ![r].open = @ \/ trips]
  <2>1. q \in SUBSET queue
    BY DEF WithoutStep
  <2>2. rows \in [Runs -> RunRow]
    BY <1>0, FailuresType
  <2>3. \A p \in Runs : rows[p].status = run[p].status
    BY <1>0 DEF RunRow
  <2>4. \/ run' = PausedRuns(rows, r) /\ queue' = PausedQueue(rows, q, r)
        \/ run' = rows /\ queue' = q
    BY <1>3 DEF LaunchFails
  <2> HIDE DEF q, rows
  <2>5. QED
    BY <1>0, <2>1, <2>2, <2>3, <2>4, PauseSilences, OldSignals
<1>4. QED
  BY <1>1, <1>2, <1>3 DEF Detected

LEMMA RequestQuiet ==
  ASSUME Safe, StoppedRunIsQuiet, Request
  PROVE  StoppedRunIsQuiet'
<1>0. /\ TypeOK /\ run \in [Runs -> RunRow] /\ queue \in SUBSET Signal
      /\ \A g \in queue : g.run \in Runs
  BY DEF Safe, TypeOK, Signal
<1>1. ASSUME NEW r \in Runs, NEW status \in {"paused", "cancelled"},
             run' = [run EXCEPT ![r].status = status], queue' = WithoutRun(queue, r)
      PROVE  StoppedRunIsQuiet'
  BY <1>0, <1>1 DEF WithoutRun, StoppedRunIsQuiet
<1>2. ASSUME NEW r \in Runs, PauseRun(r) \/ CancelRun(r)
      PROVE  StoppedRunIsQuiet'
  BY <1>1, <1>2 DEF PauseRun, CancelRun
<1>3. ASSUME UNCHANGED <<run, queue>>
      PROVE  StoppedRunIsQuiet'
  BY <1>3 DEF StoppedRunIsQuiet
<1>4. ASSUME NEW r \in Runs, EmergencyStop(r)
      PROVE  StoppedRunIsQuiet'
  <2>1. \/ run' = [run EXCEPT ![r].status = "paused"] /\ queue' = WithoutRun(queue, r)
        \/ UNCHANGED <<run, queue>>
    BY <1>4 DEF EmergencyStop
  <2>2. QED
    BY <1>1, <1>3, <2>1
<1>5. ASSUME NEW s \in Steps, CancelTask(s) \/ StartTask(s)
      PROVE  StoppedRunIsQuiet'
  BY <1>3, <1>5 DEF CancelTask, StartTask
<1>6. ASSUME NEW r \in Runs, NEW d \in Coroutines, ResumeRun(r, d)
      PROVE  StoppedRunIsQuiet'
  <2>1. \A g \in queue : g.run # r
    BY <1>6 DEF ResumeRun, StoppedRunIsQuiet
  <2>2. NewGeneration(queue, r) = queue
    BY <2>1 DEF NewGeneration
  <2>3. queue' = Enqueued(queue, r, None, FALSE, FALSE, TRUE)
    BY <1>6, <2>2 DEF ResumeRun
  <2>4. run' = [run EXCEPT ![r] = [status |-> "running", open |-> FALSE, failures |-> 0]]
    BY <1>6 DEF ResumeRun
  <2>5. \A g \in queue' : g \in queue \/ (g.run = r /\ g.fresh)
    BY <1>0, <2>3, EnqueuedSignals
  <2>6. QED
    BY <1>0, <2>1, <2>4, <2>5 DEF StoppedRunIsQuiet
<1>7. ASSUME NEW s \in Steps, NEW d \in Coroutines, RetryStep(s, d)
      PROVE  StoppedRunIsQuiet'
  <2>1. run' = run /\ queue' = Notify(run, queue, RunOf[s], s, TRUE, FALSE, TRUE)
    BY <1>7 DEF RetryStep
  <2>2. RunOf[s] \in Runs
    BY PlanAssumption
  <2>3. \A g \in queue' :
          g \in queue \/ (g.run = RunOf[s] /\ g.fresh /\ run[RunOf[s]].status = "running")
    BY <1>0, <2>1, <2>2, NotifiedSignals
  <2>4. QED
    BY <1>0, <2>1, <2>2, <2>3, OneNotified, QueueFollows
<1>8. QED
  BY <1>2, <1>4, <1>5, <1>6, <1>7 DEF Request

LEMMA NextQuiet ==
  ASSUME Safe, StoppedRunIsQuiet, [Next]_vars
  PROVE  StoppedRunIsQuiet'
<1>0. /\ TypeOK /\ run \in [Runs -> RunRow] /\ queue \in SUBSET Signal
      /\ \A g \in queue : g.run \in Runs
  BY DEF Safe, TypeOK, Signal
<1>1. ASSUME NEW r \in Runs, NEW d \in Coroutines, StartRun(r, d)
      PROVE  StoppedRunIsQuiet'
  <2>1. \A g \in queue : g.run # r
    BY <1>1 DEF StartRun, StoppedRunIsQuiet
  <2>2. /\ queue' = Enqueued(queue, r, None, FALSE, FALSE, TRUE)
        /\ run' = [run EXCEPT ![r].status = "running"]
    BY <1>1 DEF StartRun
  <2>3. \A g \in queue' : g \in queue \/ (g.run = r /\ g.fresh)
    BY <1>0, <2>2, EnqueuedSignals
  <2>4. QED
    BY <1>0, <2>1, <2>2, <2>3 DEF StoppedRunIsQuiet, RunRow
<1>2. ASSUME NEW s \in Steps, BackoffElapses(s)
      PROVE  StoppedRunIsQuiet'
  <2>1. run' = run
    BY <1>2 DEF BackoffElapses
  <2>2. \A g \in queue' : \E h \in queue : h.run = g.run /\ h.fresh = g.fresh
    <3>1. SUFFICES ASSUME NEW g \in queue'
                   PROVE  \E h \in queue : h.run = g.run /\ h.fresh = g.fresh
      OBVIOUS
    <3>2. PICK h \in queue : g = IF h.step = s THEN [h EXCEPT !.due = TRUE] ELSE h
      BY <1>2 DEF BackoffElapses
    <3>3. h \in Signal
      BY <1>0
    <3>4. QED
      BY <3>2, <3>3 DEF Signal
  <2>3. QED
    BY <2>1, <2>2 DEF StoppedRunIsQuiet
<1>3. ASSUME NEW d \in Coroutines, WakeTimer(d)
      PROVE  StoppedRunIsQuiet'
  BY <1>3 DEF WakeTimer, StoppedRunIsQuiet
<1>4. CASE UNCHANGED vars
  BY <1>4 DEF vars, StoppedRunIsQuiet
<1>5. QED
  BY <1>1, <1>2, <1>3, <1>4, DrainQuiet, DetectedQuiet, TaskEndsQuiet, RequestQuiet,
     QueueFollows DEF Next

\* A run that is paused, stopped, cancelled or waiting for the operator has no signal
\* left, whatever drains, ends of tasks and requests were under way when it stopped: no
\* later drain starts anything for it.
THEOREM StoppedRunsAreQuiet == Spec => []StoppedRunIsQuiet
<1>1. Init => StoppedRunIsQuiet
  BY DEF Init, StoppedRunIsQuiet
<1>2. Safe /\ StoppedRunIsQuiet /\ [Next]_vars => StoppedRunIsQuiet'
  BY NextQuiet
<1>3. QED
  BY <1>1, <1>2, AlwaysSafe, PTL DEF Spec

=============================================================================
