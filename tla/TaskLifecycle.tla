---------------------------- MODULE TaskLifecycle ----------------------------
(***************************************************************************)
(* One task of Hall Core from its creation to the outcome of its last run: *)
(* the task record (apps/server/src/tasks/task-store.ts), its event log    *)
(* (events/event-store.ts), and the TaskOrchestrator's requests and        *)
(* execution coroutines over them (tasks/task-orchestrator.ts).  Tasks     *)
(* share no state, so one stands for all.                                  *)
(*                                                                         *)
(* assignTask, routeAndAssign and startTask read the record, await         *)
(* adapter.detect() and then commit against the revision they read; a run  *)
(* executes in a coroutine of its own that may outlive the record's        *)
(* interest in it, because a failed task can be retried while the old      *)
(* adapter run is still ending.                                            *)
(***************************************************************************)
EXTENDS Naturals, Sequences

CONSTANTS
  Adapters,
  Reqs,        \* what a task may require of an adapter
  NoReq,       \* nothing
  Calls,       \* assign and start requests that may be in flight at once
  None,
  MaxRuns,     \* bound on the runs of the task; run ids are 1..MaxRuns
  MaxEvents    \* maxEventsPerTask

ASSUME LimitAssumption == MaxRuns \in Nat /\ MaxEvents \in Nat /\ MaxEvents >= 2
ASSUME NameAssumption == NoReq \in Reqs /\ None \notin Adapters \cup Nat

VARIABLES
  rec,     \* the task record
  log,     \* its stored events, of all its runs
  marker,  \* terminalSequenceByTaskId, counted from 1; 0 when there is none
  exec,    \* per run, its execution coroutine
  call     \* requests between their read and their commit

vars == <<rec, log, marker, exec, call>>

Runs == 1..MaxRuns
Outcomes == {"completed", "failed", "cancelled"}
Statuses == {"absent", "backlog", "ready", "blocked", "assigned", "running"} \cup Outcomes
EventTypes == {"started", "other"} \cup Outcomes

\* `last` is lastSequence + 1, `outcome` the terminalEventType.
TaskRecord ==
  [status : Statuses, run : Runs \cup {None}, adapter : Adapters \cup {None}, req : Reqs,
   cancel : BOOLEAN, outcome : Outcomes \cup {None}, last : 0..MaxEvents]

\* pc names the await the coroutine is parked in: preflight's detect(),
\* coordinator.prepare(), Hall Runner's detect() and startTask(), the adapter's
\* event stream.  `base` is sequenceBase, `sent` the events the adapter emitted.
Execution ==
  [pc : {"none", "preflight", "prepare", "launch", "stream", "gone"}, aborted : BOOLEAN,
   base : 0..MaxEvents, sent : 0..MaxEvents + 1]

\* `seen` is the record as read, `fresh` says that its revision is still the
\* task's: any mutation of the record bumps the revision.
Request ==
  [kind : {"none", "assign", "start"}, adapter : Adapters \cup {None}, req : Reqs,
   seen : TaskRecord, fresh : BOOLEAN]

TypeOK ==
  /\ rec \in TaskRecord
  /\ log \in Seq([run : Runs, type : EventTypes]) /\ Len(log) <= MaxEvents
  /\ marker \in 0..MaxEvents
  /\ exec \in [Runs -> Execution]
  /\ call \in [Calls -> Request]

Absent == [status |-> "absent", run |-> None, adapter |-> None, req |-> NoReq,
           cancel |-> FALSE, outcome |-> None, last |-> 0]
NoCall == [kind |-> "none", adapter |-> None, req |-> NoReq, seen |-> Absent, fresh |-> FALSE]

Init ==
  /\ rec = Absent
  /\ log = <<>>
  /\ marker = 0
  /\ exec = [r \in Runs |-> [pc |-> "none", aborted |-> FALSE, base |-> 0, sent |-> 0]]
  /\ call = [c \in Calls |-> NoCall]

Ended == rec.status \in Outcomes
Live(r) == exec[r].pc \notin {"none", "gone"}

\* (mutant) an event carries its run id, but nobody looks at the record's
BelongsToAnyone(r) == rec.run # None

\* recordMatchesActiveRun
Belongs(r) == rec.run = r

CancelRequested(r) == Belongs(r) /\ rec.cancel

\* Requests other than c find their revision stale from now on.
Bumped == [c \in Calls |-> [call[c] EXCEPT !.fresh = FALSE]]

-----------------------------------------------------------------------------
\* The event log.

Limit(type) == IF type \in Outcomes THEN MaxEvents ELSE MaxEvents - 1

\* (mutant) append() without its capacity check
AcceptsUncapped(seq, type) == seq = Len(log) /\ marker = 0

\* append() stores an event at the next sequence number of an open log.
Accepts(seq, type) == seq = Len(log) /\ marker = 0 /\ Len(log) < Limit(type)

Store(r, type) ==
  /\ log' = Append(log, [run |-> r, type |-> type])
  /\ marker' = IF type \in Outcomes THEN Len(log) + 1 ELSE marker

\* A synthesized terminal event of run r, and the outcome with it, even when
\* the log refuses the event.
Conclude(row, r, type) ==
  IF Accepts(Len(log), type)
  THEN /\ Store(r, type)
       /\ rec' = [row EXCEPT !.status = type, !.outcome = type, !.last = Len(log) + 1]
  ELSE /\ UNCHANGED <<log, marker>>
       /\ rec' = [row EXCEPT !.status = type, !.outcome = type]

\* failTaskWithInfrastructureFailure and cancelTaskBeforeAdapterRun behind
\* their guards: the first outcome wins, a superseded run has none.
ConcludeIfOpen(r, type) ==
  IF Belongs(r) /\ ~Ended
  THEN Conclude(rec, r, type) /\ call' = Bumped
  ELSE UNCHANGED <<rec, log, marker, call>>

Leave(r) == [exec EXCEPT ![r].pc = "gone"]

-----------------------------------------------------------------------------
\* Creation, planning moves and cancellation.

CreateDeferred(q) ==
  /\ rec.status = "absent"
  /\ rec' = [Absent EXCEPT !.status = "backlog", !.req = q]
  /\ UNCHANGED <<log, marker, exec, call>>

FirstUnused(r) == exec[r].pc = "none" /\ \A s \in Runs : s < r => exec[s].pc # "none"

\* (mutant) execute() without its first look at cancellationRequested
BeginUnchecked(row, r) ==
  /\ exec' = [exec EXCEPT ![r].pc = "preflight", ![r].base = Len(log)]
  /\ rec' = row
  /\ UNCHANGED <<log, marker>>

\* beginExecution, and execute() up to its first await.
Begin(row, r) ==
  IF row.cancel
  THEN /\ Conclude(row, r, "cancelled")
       /\ exec' = [exec EXCEPT ![r].pc = "gone", ![r].base = Len(log)]
  ELSE /\ exec' = [exec EXCEPT ![r].pc = "preflight", ![r].base = Len(log)]
       /\ rec' = row
       /\ UNCHANGED <<log, marker>>

CreateImmediate(a) ==
  /\ rec.status = "absent"
  /\ \E r \in Runs :
       FirstUnused(r) /\ Begin([Absent EXCEPT !.status = "assigned", !.run = r, !.adapter = a], r)
  /\ UNCHANGED call

ManualTransitions ==
  [backlog |-> {"ready", "blocked", "cancelled"}, ready |-> {"backlog", "blocked", "cancelled"},
   assigned |-> {"ready", "blocked", "cancelled"}, blocked |-> {"backlog", "ready", "cancelled"}]

\* A task that leaves "assigned" for a planning column loses its assignment.
TransitionTask(target) ==
  /\ rec.status \in DOMAIN ManualTransitions /\ rec.run = None
  /\ target \in ManualTransitions[rec.status]
  /\ rec' = [rec EXCEPT !.status = target,
                        !.adapter = IF rec.status = "assigned" /\ target # "cancelled"
                                    THEN None ELSE @]
  /\ call' = Bumped
  /\ UNCHANGED <<log, marker, exec>>

Aborted(runs) == [r \in Runs |-> [exec[r] EXCEPT !.aborted = @ \/ r \in runs]]

RequestCancellation ==
  /\ rec.status # "absent" /\ ~Ended /\ ~rec.cancel
  /\ rec' = [rec EXCEPT !.cancel = TRUE]
  /\ exec' = Aborted({r \in Runs : Live(r) /\ Belongs(r)})
  /\ call' = Bumped
  /\ UNCHANGED <<log, marker>>

\* Every execution is aborted; the task's own is cancelled.
Shutdown ==
  LET hit == \E r \in Runs : Live(r) /\ Belongs(r) /\ ~rec.cancel /\ ~Ended
  IN /\ \E r \in Runs : Live(r)
     /\ rec' = [rec EXCEPT !.cancel = @ \/ hit]
     /\ exec' = Aborted({r \in Runs : Live(r)})
     /\ call' = IF hit THEN Bumped ELSE call
     /\ UNCHANGED <<log, marker>>

-----------------------------------------------------------------------------
\* Requests that cross adapter.detect().

Assignable == rec.status = "ready" \/ (rec.status = "assigned" /\ rec.run = None)
Startable == rec.status = "assigned" /\ rec.run = None

Asked(c, kind, a, q) ==
  /\ call[c] = NoCall
  /\ call' = [call EXCEPT ![c] = [kind |-> kind, adapter |-> a, req |-> q, seen |-> rec,
                                  fresh |-> TRUE]]
  /\ UNCHANGED <<rec, log, marker, exec>>

\* assignTask goes by the task's own requirements, routeAndAssign may bring
\* others, which it persists.
AskAssign(c, a, q) == Assignable /\ (q = rec.req \/ q # NoReq) /\ Asked(c, "assign", a, q)
AskStart(c) == Startable /\ Asked(c, "start", rec.adapter, rec.req)

\* (mutant) the four fields without the revision
FourFieldsMatch(c) ==
  /\ rec.status = call[c].seen.status
  /\ rec.run = call[c].seen.run
  /\ rec.adapter = call[c].seen.adapter

\* assignIfEligible, startIfEligible: the revision and the four fields as read.
StillMatches(c) ==
  /\ call[c].fresh
  /\ rec.status = call[c].seen.status
  /\ rec.run = call[c].seen.run
  /\ rec.adapter = call[c].seen.adapter

CommitAssign(c) ==
  /\ call[c].kind = "assign" /\ Assignable /\ StillMatches(c)
  /\ rec' = [rec EXCEPT !.status = "assigned", !.adapter = call[c].adapter, !.req = call[c].req]
  /\ call' = [Bumped EXCEPT ![c] = NoCall]
  /\ UNCHANGED <<log, marker, exec>>

CommitStart(c) ==
  /\ call[c].kind = "start" /\ Startable /\ StillMatches(c)
  /\ \E r \in Runs : FirstUnused(r) /\ Begin([rec EXCEPT !.run = r], r)
  /\ call' = [Bumped EXCEPT ![c] = NoCall]

\* The adapter is unavailable, unsuited, or the commit conflicts.
Refuse(c) ==
  /\ call[c].kind # "none"
  /\ call' = [call EXCEPT ![c] = NoCall]
  /\ UNCHANGED <<rec, log, marker, exec>>

\* (mutant) prepareRetry forgets the log
ReopenedNever == marker

\* (mutant) the expected terminal sequence is off by one
ReopenedOffByOne == IF marker + 1 = rec.last THEN 0 ELSE marker

\* reopenForRetry clears the marker it was told to expect.
Reopened == IF marker = rec.last THEN 0 ELSE marker

\* (mutant) any ended task may be retried
PrepareRetryOfAnyEnd ==
  /\ Ended
  /\ rec' = [rec EXCEPT !.status = "assigned", !.run = None, !.outcome = None, !.cancel = FALSE]
  /\ marker' = Reopened
  /\ call' = Bumped
  /\ UNCHANGED <<log, exec>>

\* A log that does not reopen makes prepareRetry throw, after its commit.
PrepareRetry ==
  /\ rec.status = "failed"
  /\ rec' = [rec EXCEPT !.status = "assigned", !.run = None, !.outcome = None, !.cancel = FALSE]
  /\ marker' = Reopened
  /\ call' = Bumped
  /\ UNCHANGED <<log, exec>>

-----------------------------------------------------------------------------
\* The execution coroutine of run r.

\* (mutant) leaves without an outcome
StepOnSilently(r, next) ==
  /\ exec' = IF CancelRequested(r) THEN Leave(r) ELSE [exec EXCEPT ![r].pc = next]
  /\ UNCHANGED <<rec, log, marker, call>>

\* After an await that went well: give up if cancelled meanwhile, or go on.
StepOn(r, next) ==
  IF CancelRequested(r)
  THEN ConcludeIfOpen(r, "cancelled") /\ exec' = Leave(r)
  ELSE /\ exec' = [exec EXCEPT ![r].pc = next]
       /\ UNCHANGED <<rec, log, marker, call>>

Preflight(r) == exec[r].pc = "preflight" /\ Belongs(r) /\ StepOn(r, "prepare")
Prepare(r) == exec[r].pc = "prepare" /\ StepOn(r, "launch")

\* The adapter gets the abort signal with its start; Hall Core looks no more.
Launch(r) ==
  /\ exec[r].pc = "launch"
  /\ exec' = [exec EXCEPT ![r].pc = "stream"]
  /\ UNCHANGED <<rec, log, marker, call>>

\* (mutant) execute() without failTaskOnUnhandledExecutionError
ThrowsUnhandled(r) == Live(r) /\ exec' = Leave(r) /\ UNCHANGED <<rec, log, marker, call>>

\* Something throws, the adapter is no longer available, or the stream ends
\* without a terminal event.
Throws(r) ==
  /\ Live(r)
  /\ ConcludeIfOpen(r, IF exec[r].pc = "prepare" /\ CancelRequested(r)
                       THEN "cancelled" ELSE "failed")
  /\ exec' = Leave(r)

\* The streams adapters produce: run.started first, unless the run fails or is
\* aborted at once; run.cancelled only when aborted; one terminal event, last.
Emittable(r, type) ==
  /\ type = "started" <=> (exec[r].sent = 0 /\ type \notin {"failed", "cancelled"})
  /\ type = "cancelled" => exec[r].aborted
  /\ type \notin Outcomes => exec[r].sent <= MaxEvents

Progress(type) ==
  IF type = "started" THEN [rec EXCEPT !.status = "running", !.last = Len(log) + 1]
  ELSE IF type = "other" THEN [rec EXCEPT !.last = Len(log) + 1]
  ELSE [rec EXCEPT !.status = type, !.outcome = type, !.last = Len(log) + 1]

\* (mutant) a terminal event decides the status even when the log refuses it
HandleEventUnstored(r, type) ==
  IF Belongs(r) /\ Accepts(exec[r].base + exec[r].sent, type)
  THEN Store(r, type) /\ rec' = Progress(type) /\ call' = Bumped
  ELSE IF Belongs(r) /\ type \in Outcomes
       THEN /\ rec' = [rec EXCEPT !.status = type, !.outcome = type]
            /\ call' = Bumped
            /\ UNCHANGED <<log, marker>>
       ELSE ConcludeIfOpen(r, "failed")

HandleEvent(r, type) ==
  IF Belongs(r) /\ Accepts(exec[r].base + exec[r].sent, type)
  THEN Store(r, type) /\ rec' = Progress(type) /\ call' = Bumped
  ELSE ConcludeIfOpen(r, "failed")

\* Was this the event that made Hall Core stop the adapter?
Overruns(r, type) == Belongs(r) /\ ~Ended /\ ~Accepts(exec[r].base + exec[r].sent, type)

Emit(r, type) ==
  /\ exec[r].pc = "stream"
  /\ Emittable(r, type)
  /\ HandleEvent(r, type)
  /\ exec' = [exec EXCEPT ![r].pc = IF type \in Outcomes THEN "gone" ELSE @,
                          ![r].sent = IF type \in Outcomes THEN @ ELSE @ + 1,
                          ![r].aborted = @ \/ Overruns(r, type)]

Execute(r) ==
  \/ Preflight(r)
  \/ Prepare(r)
  \/ Launch(r)
  \/ Throws(r)
  \/ \E type \in EventTypes : Emit(r, type)

Next ==
  \/ \E q \in Reqs : CreateDeferred(q)
  \/ \E a \in Adapters : CreateImmediate(a)
  \/ \E target \in Statuses : TransitionTask(target)
  \/ RequestCancellation
  \/ Shutdown
  \/ \E c \in Calls : \/ \E a \in Adapters, q \in Reqs : AskAssign(c, a, q)
                      \/ AskStart(c)
                      \/ CommitAssign(c)
                      \/ CommitStart(c)
                      \/ Refuse(c)
  \/ PrepareRetry
  \/ \E r \in Runs : Execute(r)

Spec == Init /\ [][Next]_vars

\* detect(), prepare() and the adapter's stream make progress.
FairSpec == Spec /\ \A r \in Runs : WF_vars(Execute(r))

-----------------------------------------------------------------------------
EndsLogged ==
  /\ log # <<>>
  /\ log[Len(log)] = [run |-> rec.run, type |-> rec.status]
  /\ rec.outcome = rec.status

\* The status of a task that ran is the one its log ends with, the record's
\* terminalEventType too, as long as the log has room.
OutcomeMatchesLog == (Ended /\ rec.run # None /\ Len(log) < MaxEvents) => EndsLogged

\* What the event store says its reserved slot guarantees, whatever the log's
\* length. Violated: one slot serves all runs of a task (README, 8).
OutcomeIsLogged == (Ended /\ rec.run # None) => EndsLogged

\* A task that waits for its next run has an open log.
WaitingTaskHasOpenLog == rec.run = None => marker = 0

\* The cancellation flag and the abort signal agree, also when the request
\* raced the start: an execution never runs on under a cancelled task.
CancelReachesTheRun ==
  \A r \in Runs : (Live(r) /\ CancelRequested(r)) => exec[r].aborted

\* An execution that has ended leaves its task with an outcome.
RunNeverOrphaned ==
  \A r \in Runs : (Belongs(r) /\ exec[r].pc = "gone") => Ended

\* The invariant of a task: its record, its log and its executions fit together
\* between any two turns of the event loop.
TaskInv ==
  /\ TypeOK
  /\ OutcomeMatchesLog
  /\ WaitingTaskHasOpenLog
  /\ CancelReachesTheRun
  /\ RunNeverOrphaned

SettledByItsRun ==
  (rec.run # None /\ ~Ended /\ rec'.status \in Outcomes) => exec'[rec.run] # exec[rec.run]

\* Nothing of an ended task's record changes, but that a failed one is retried.
OutcomeStands ==
  Ended => \/ rec' = rec
           \/ rec.status = "failed" /\ rec'.status = "assigned" /\ rec'.run = None

\* Only its current run brings a task to its outcome, and the first outcome
\* stands until a retry: an execution that a retry has superseded may still
\* stream and end, late events, throws, cancellations and shutdowns may follow,
\* and the task is none the wiser.
OutcomeIsItsOwn == [][SettledByItsRun /\ OutcomeStands]_vars

\* What a request commits was decided on the record as it still is: the same
\* status, assignment, requirements and cancellation that were read before
\* adapter.detect().
CommittedAsSeen ==
  [][\A c \in Calls :
       (call[c].kind # "none" /\ call'[c].kind = "none" /\ rec' # rec)
         => rec = call[c].seen]_vars

Phase ==
  IF rec.status \in Outcomes \cup {"absent"} THEN rec.status
  ELSE IF rec.run = None THEN "open" ELSE "underway"

\* The lifecycle keeps the promise a client relies on: superseded executions,
\* stale requests and refused events never show in a task's phase, a run that
\* is under way comes to an outcome, and only a failed task is opened again.
Promise == INSTANCE TaskPromise WITH
             TaskRuns <- Runs, NoRun <- None, phase <- Phase, run <- rec.run,
             begun <- {r \in Runs : exec[r].pc # "none"}

KeepsPromise == Promise!PromiseFairSpec

=============================================================================
