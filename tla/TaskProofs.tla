------------------------------ MODULE TaskProofs ------------------------------
(***************************************************************************)
(* What holds of a task for any number of runs, events, adapters and       *)
(* requests in flight: its record, log and executions fit together, its    *)
(* outcome is its current run's, stale requests commit nothing, and every  *)
(* step is one that TaskPromise allows.                                    *)
(***************************************************************************)
EXTENDS TaskLifecycle, SequenceTheorems, TLAPS

Row == [run : Runs, type : EventTypes]

\* The marker is where the record believes its last event to be.
MarkerIsLast == marker # 0 => marker = rec.last

\* While a run is under way the log is open, and it is closed or full once the
\* run has come to its outcome.
LogFollowsRun ==
  rec.run # None => /\ marker # 0 => Ended
                    /\ Ended => marker # 0 \/ Len(log) = MaxEvents

LogInv == MarkerIsLast /\ WaitingTaskHasOpenLog /\ LogFollowsRun /\ OutcomeMatchesLog

ExecInv == CancelReachesTheRun /\ RunNeverOrphaned

\* A request that finds its revision unchanged finds the record unchanged.
FreshIsCurrent ==
  \A c \in Calls : (call[c].kind # "none" /\ call[c].fresh) => call[c].seen = rec

NothingBeforeCreation ==
  rec.status = "absent" => rec.run = None /\ \A c \in Calls : call[c].kind = "none"

CallInv == FreshIsCurrent /\ NothingBeforeCreation

TaskSafe == TypeOK /\ LogInv /\ ExecInv /\ CallInv

-----------------------------------------------------------------------------
\* The log.

\* Appending a well-formed event.
LEMMA Appended ==
  ASSUME NEW seq \in Seq(Row), NEW event \in Row
  PROVE  /\ Append(seq, event) \in Seq(Row)
         /\ Len(Append(seq, event)) = Len(seq) + 1 /\ Len(seq) \in Nat
         /\ Append(seq, event)[Len(seq) + 1] = event
         /\ Append(seq, event) # <<>>
<1>1. Append(seq, event) \in Seq(Row) /\ Len(Append(seq, event)) = Len(seq) + 1 /\ Len(seq) \in Nat
      /\ Append(seq, event)[Len(seq) + 1] = event
  BY AppendProperties
<1>2. Append(seq, event) # <<>>
  BY <1>1
<1>3. QED
  BY <1>1, <1>2

\* What the types say of the log.
LEMMA LogTypes ==
  ASSUME TypeOK
  PROVE  /\ log \in Seq(Row) /\ Len(log) \in Nat /\ Len(log) <= MaxEvents
         /\ marker \in Nat /\ marker <= MaxEvents /\ rec \in TaskRecord
         /\ MaxEvents \in Nat /\ None \notin Runs
<1>1. None \notin Runs
  BY NameAssumption, LimitAssumption DEF Runs
<1>2. log \in Seq(Row) /\ Len(log) <= MaxEvents
  BY DEF TypeOK, Row
<1>3. Len(log) \in Nat
  BY <1>2, LenProperties
<1>4. QED
  BY <1>1, <1>2, <1>3, LimitAssumption DEF TypeOK

\* An event that the log accepts is stored at its end.
LEMMA StoreEvent ==
  ASSUME TypeOK, NEW r \in Runs, NEW type \in EventTypes, NEW at, Accepts(at, type), Store(r, type)
  PROVE  /\ log' \in Seq(Row) /\ Len(log') = Len(log) + 1 /\ Len(log') <= MaxEvents
         /\ log'[Len(log')] = [run |-> r, type |-> type] /\ log' # <<>>
         /\ marker = 0 /\ marker' \in 0..MaxEvents
         /\ type \in Outcomes => marker' = Len(log) + 1
         /\ type \notin Outcomes => marker' = 0 /\ Len(log') < MaxEvents
<1> DEFINE event == [run |-> r, type |-> type]
<1>1. event \in Row
  BY DEF Row
<1>2. log' = Append(log, event)
  BY DEF Store
<1> HIDE DEF event
<1>3. /\ log' \in Seq(Row) /\ Len(log') = Len(log) + 1 /\ log'[Len(log')] = event /\ log' # <<>>
      /\ Len(log) \in Nat
  BY <1>1, <1>2, LogTypes, Appended
<1>4. marker = 0 /\ Len(log) < MaxEvents /\ (type \notin Outcomes => Len(log) + 1 < MaxEvents)
  BY <1>3, LogTypes DEF Accepts, Limit
<1>5. marker' = IF type \in Outcomes THEN Len(log) + 1 ELSE marker
  BY DEF Store
<1>6. QED
  BY <1>3, <1>4, <1>5, LogTypes DEF event

\* A step that neither writes the log nor ends or replaces the run.
LEMMA LogFrame ==
  ASSUME TypeOK, LogInv, log' = log, marker' = marker, rec'.run = rec.run,
         rec'.last = rec.last, rec'.outcome = rec.outcome,
         rec'.status = rec.status \/ rec.run = None
  PROVE  LogInv'
BY DEF LogInv, MarkerIsLast, WaitingTaskHasOpenLog, LogFollowsRun, OutcomeMatchesLog, EndsLogged,
   Ended

\* A synthesized end concludes the run, in the log too as long as it has room.
LEMMA ConcludeStep ==
  ASSUME TypeOK, marker = 0, NEW r \in Runs, NEW row \in TaskRecord, row.run = r,
         NEW type \in Outcomes, Conclude(row, r, type)
  PROVE  /\ rec' \in TaskRecord /\ log' \in Seq(Row) /\ Len(log') <= MaxEvents
         /\ marker' \in 0..MaxEvents
         /\ rec'.run = r /\ rec'.status = type /\ rec'.cancel = row.cancel
         /\ LogInv'
<1>1. type \in EventTypes /\ type \in Statuses
  BY DEF EventTypes, Statuses
<1>2. CASE Accepts(Len(log), type)
  <2>1. Store(r, type) /\ rec' = [row EXCEPT !.status = type, !.outcome = type, !.last = Len(log) + 1]
    BY <1>2 DEF Conclude
  <2>2. /\ log' \in Seq(Row) /\ Len(log') = Len(log) + 1 /\ Len(log') <= MaxEvents
        /\ log'[Len(log')] = [run |-> r, type |-> type] /\ log' # <<>>
        /\ marker' \in 0..MaxEvents /\ marker' = Len(log) + 1
    BY <1>1, <1>2, <2>1, StoreEvent
  <2>3. Len(log) + 1 \in 0..MaxEvents /\ Len(log) + 1 # 0
    BY <2>2, LogTypes
  <2>4. /\ rec' \in TaskRecord /\ rec'.run = r /\ rec'.status = type /\ rec'.outcome = type
        /\ rec'.last = Len(log) + 1 /\ rec'.cancel = row.cancel
    BY <1>1, <2>1, <2>3 DEF TaskRecord
  <2>5. LogInv'
    BY <2>2, <2>3, <2>4, LogTypes DEF LogInv, MarkerIsLast, WaitingTaskHasOpenLog, LogFollowsRun,
       OutcomeMatchesLog, EndsLogged, Ended
  <2>6. QED
    BY <2>2, <2>4, <2>5
<1>3. CASE ~Accepts(Len(log), type)
  <2>1. log' = log /\ marker' = marker /\ rec' = [row EXCEPT !.status = type, !.outcome = type]
    BY <1>3 DEF Conclude
  <2>2. Len(log) = MaxEvents
    BY <1>3, LogTypes DEF Accepts, Limit
  <2>3. /\ rec' \in TaskRecord /\ rec'.run = r /\ rec'.status = type /\ rec'.cancel = row.cancel
    BY <1>1, <2>1 DEF TaskRecord
  <2>4. LogInv'
    BY <2>1, <2>2, <2>3, LogTypes DEF LogInv, MarkerIsLast, WaitingTaskHasOpenLog, LogFollowsRun,
       OutcomeMatchesLog, Ended
  <2>5. QED
    BY <2>1, <2>3, <2>4, LogTypes
<1>4. QED
  BY <1>2, <1>3

\* An end that may come too late: it concludes the run it belongs to, once.
LEMMA ConcludeIfOpenStep ==
  ASSUME TaskSafe, NEW r \in Runs, NEW type \in Outcomes, ConcludeIfOpen(r, type)
  PROVE  /\ rec' \in TaskRecord /\ log' \in Seq(Row) /\ Len(log') <= MaxEvents
         /\ marker' \in 0..MaxEvents
         /\ rec'.run = rec.run /\ rec'.cancel = rec.cancel
         /\ LogInv'
         /\ Belongs(r) => Ended'
         /\ \/ rec' = rec /\ call' = call
            \/ Belongs(r) /\ ~Ended /\ call' = Bumped /\ rec'.status \in Outcomes
<1>1. TypeOK /\ LogInv
  BY DEF TaskSafe
<1>2. CASE Belongs(r) /\ ~Ended
  <2>1. Conclude(rec, r, type) /\ call' = Bumped /\ rec \in TaskRecord /\ rec.run = r
    BY <1>1, <1>2, LogTypes DEF ConcludeIfOpen, Belongs
  <2>2. marker = 0
    BY <1>1, <1>2, <2>1, LogTypes DEF LogInv, LogFollowsRun
  <2>3. /\ rec' \in TaskRecord /\ log' \in Seq(Row) /\ Len(log') <= MaxEvents
        /\ marker' \in 0..MaxEvents
        /\ rec'.run = r /\ rec'.status = type /\ rec'.cancel = rec.cancel
        /\ LogInv'
    BY <1>1, <2>1, <2>2, ConcludeStep
  <2>4. QED
    BY <1>2, <2>1, <2>3 DEF Ended
<1>3. CASE ~(Belongs(r) /\ ~Ended)
  <2>1. rec' = rec /\ log' = log /\ marker' = marker /\ call' = call
    BY <1>3 DEF ConcludeIfOpen
  <2>2. LogInv'
    BY <1>1, <2>1, LogFrame
  <2>3. QED
    BY <1>1, <1>3, <2>1, <2>2, LogTypes DEF Ended
<1>4. QED
  BY <1>2, <1>3

\* A run begins, or is cancelled before it does.
LEMMA BeginStep ==
  ASSUME TypeOK, marker = 0, NEW r \in Runs, NEW row \in TaskRecord,
         row.run = r, row.status = "assigned", Begin(row, r), exec[r].pc = "none"
  PROVE  /\ rec' \in TaskRecord /\ log' \in Seq(Row) /\ Len(log') <= MaxEvents
         /\ marker' \in 0..MaxEvents /\ exec' \in [Runs -> Execution]
         /\ rec'.run = r /\ LogInv'
         /\ \/ exec'[r].pc = "preflight" /\ rec'.status = "assigned" /\ rec'.cancel = FALSE
            \/ exec'[r].pc = "gone" /\ rec'.status = "cancelled"
         /\ \A s \in Runs : s # r => exec'[s] = exec[s]
<1>1. exec \in [Runs -> Execution] /\ Len(log) \in 0..MaxEvents
  BY LogTypes DEF TypeOK
<1>2. CASE row.cancel
  <2>1. Conclude(row, r, "cancelled") /\ exec' = [exec EXCEPT ![r].pc = "gone", ![r].base = Len(log)]
    BY <1>2 DEF Begin
  <2>2. "cancelled" \in Outcomes
    BY DEF Outcomes
  <2>3. /\ rec' \in TaskRecord /\ log' \in Seq(Row) /\ Len(log') <= MaxEvents
        /\ marker' \in 0..MaxEvents /\ rec'.run = r /\ rec'.status = "cancelled" /\ LogInv'
    BY <2>1, <2>2, ConcludeStep
  <2>4. /\ exec' \in [Runs -> Execution] /\ exec'[r].pc = "gone"
        /\ \A s \in Runs : s # r => exec'[s] = exec[s]
    <3>1. exec' = [exec EXCEPT ![r] = [exec[r] EXCEPT !.pc = "gone", !.base = Len(log)]]
      BY <2>1
    <3>2. exec[r] \in Execution
      BY <1>1
    <3>3. /\ [exec[r] EXCEPT !.pc = "gone", !.base = Len(log)] \in Execution
          /\ [exec[r] EXCEPT !.pc = "gone", !.base = Len(log)].pc = "gone"
      BY <1>1, <3>2 DEF Execution
    <3>4. QED
      BY <1>1, <3>1, <3>3
  <2>5. QED
    BY <2>3, <2>4
<1>3. CASE ~row.cancel
  <2>1. /\ exec' = [exec EXCEPT ![r].pc = "preflight", ![r].base = Len(log)]
        /\ rec' = row /\ log' = log /\ marker' = marker
    BY <1>3 DEF Begin
  <2>2. /\ exec' \in [Runs -> Execution] /\ exec'[r].pc = "preflight"
        /\ \A s \in Runs : s # r => exec'[s] = exec[s]
    <3>1. exec' = [exec EXCEPT ![r] = [exec[r] EXCEPT !.pc = "preflight", !.base = Len(log)]]
      BY <2>1
    <3>2. exec[r] \in Execution
      BY <1>1
    <3>3. /\ [exec[r] EXCEPT !.pc = "preflight", !.base = Len(log)] \in Execution
          /\ [exec[r] EXCEPT !.pc = "preflight", !.base = Len(log)].pc = "preflight"
      BY <1>1, <3>2 DEF Execution
    <3>4. QED
      BY <1>1, <3>1, <3>3
  <2>3. row.cancel = FALSE
    BY <1>3 DEF TaskRecord
  <2>4. LogInv'
    BY <2>1, LogTypes DEF LogInv, MarkerIsLast, WaitingTaskHasOpenLog, LogFollowsRun,
       OutcomeMatchesLog, Ended, Outcomes
  <2>5. QED
    BY <2>1, <2>2, <2>3, <2>4, LogTypes
<1>4. QED
  BY <1>2, <1>3

\* An event of the adapter is stored for the run it belongs to, or fails it.
LEMMA HandleEventStep ==
  ASSUME TaskSafe, NEW r \in Runs, NEW type \in EventTypes, HandleEvent(r, type),
         exec[r].base \in Nat, exec[r].sent \in Nat
  PROVE  /\ rec' \in TaskRecord /\ log' \in Seq(Row) /\ Len(log') <= MaxEvents
         /\ marker' \in 0..MaxEvents
         /\ rec'.run = rec.run /\ rec'.cancel = rec.cancel
         /\ LogInv'
         /\ type \in Outcomes /\ Belongs(r) => Ended'
         /\ \/ rec' = rec /\ call' = call
            \/ Belongs(r) /\ ~Ended /\ call' = Bumped /\ rec'.status \in Outcomes \cup {"running", rec.status}
<1>1. TypeOK /\ LogInv
  BY DEF TaskSafe
<1>2. CASE Belongs(r) /\ Accepts(exec[r].base + exec[r].sent, type)
  <2>1. Store(r, type) /\ rec' = Progress(type) /\ call' = Bumped /\ rec.run = r
    BY <1>2 DEF HandleEvent, Belongs
  <2>2. /\ log' \in Seq(Row) /\ Len(log') = Len(log) + 1 /\ Len(log') <= MaxEvents
        /\ log'[Len(log')] = [run |-> r, type |-> type] /\ log' # <<>>
        /\ marker = 0 /\ marker' \in 0..MaxEvents
        /\ type \in Outcomes => marker' = Len(log) + 1
        /\ type \notin Outcomes => marker' = 0 /\ Len(log') < MaxEvents
    BY <1>1, <1>2, <2>1, StoreEvent
  <2>3. Len(log) + 1 \in 0..MaxEvents /\ Len(log) + 1 # 0 /\ Len(log) < MaxEvents
    BY <1>1, <2>2, LogTypes
  <2>4. ~Ended
    BY <1>1, <2>1, <2>2, <2>3, LogTypes DEF LogInv, LogFollowsRun
  <2>5. CASE type \in Outcomes
    <3>1. rec' = [rec EXCEPT !.status = type, !.outcome = type, !.last = Len(log) + 1]
      BY <2>1, <2>5 DEF Progress, Outcomes
    <3>2. /\ rec' \in TaskRecord /\ rec'.run = r /\ rec'.status = type /\ rec'.outcome = type
          /\ rec'.last = Len(log) + 1 /\ rec'.cancel = rec.cancel
      BY <1>1, <2>1, <2>3, <2>5, <3>1, LogTypes DEF TaskRecord, Statuses
    <3>3. LogInv'
      BY <1>1, <2>2, <2>3, <2>5, <3>2, LogTypes DEF LogInv, MarkerIsLast, WaitingTaskHasOpenLog,
         LogFollowsRun, OutcomeMatchesLog, EndsLogged, Ended
    <3>4. QED
      BY <1>2, <2>1, <2>2, <2>4, <2>5, <3>2, <3>3 DEF Ended
  <2>6. CASE type \notin Outcomes
    <3>1. /\ rec' \in TaskRecord /\ rec'.run = r /\ rec'.cancel = rec.cancel
          /\ rec'.status \in {"running", rec.status}
      <4>1. "running" \in Statuses
        BY DEF Statuses
      <4>2. \/ rec' = [rec EXCEPT !.status = "running", !.last = Len(log) + 1]
            \/ rec' = [rec EXCEPT !.last = Len(log) + 1]
        BY <2>1, <2>6 DEF Progress, EventTypes
      <4>3. QED
        BY <1>1, <2>1, <2>3, <4>1, <4>2, LogTypes DEF TaskRecord
    <3>2. ~Ended'
      BY <2>4, <3>1 DEF Ended, Outcomes
    <3>3. LogInv'
      BY <1>1, <2>2, <2>6, <3>1, <3>2, LogTypes DEF LogInv, MarkerIsLast, WaitingTaskHasOpenLog,
         LogFollowsRun, OutcomeMatchesLog
    <3>4. QED
      BY <1>2, <2>1, <2>2, <2>4, <2>6, <3>1, <3>3
  <2>7. QED
    BY <2>5, <2>6
<1>3. CASE ~(Belongs(r) /\ Accepts(exec[r].base + exec[r].sent, type))
  <2>1. ConcludeIfOpen(r, "failed") /\ "failed" \in Outcomes
    BY <1>3 DEF HandleEvent, Outcomes
  <2>2. QED
    BY <2>1, ConcludeIfOpenStep
<1>4. QED
  BY <1>2, <1>3

-----------------------------------------------------------------------------
\* Requests and executions.

\* The record before creation and the empty request are well-formed.
LEMMA EmptyTypes == Absent \in TaskRecord /\ NoCall \in Request /\ NoCall.kind = "none" /\ NoCall.fresh = FALSE
<1>1. Absent \in TaskRecord
  BY NameAssumption, LimitAssumption DEF Absent, TaskRecord, Statuses
<1>2. NoCall \in Request /\ NoCall.kind = "none" /\ NoCall.fresh = FALSE
  <2> HIDE DEF Absent
  <2>1. QED
    BY <1>1, NameAssumption DEF NoCall, Request
<1>3. QED
  BY <1>1, <1>2

\* Bumping the revision leaves well-formed requests, none of them fresh.
LEMMA BumpedType ==
  ASSUME call \in [Calls -> Request]
  PROVE  /\ Bumped \in [Calls -> Request]
         /\ \A c \in Calls : Bumped[c].kind = call[c].kind /\ Bumped[c].fresh = FALSE
<1>1. \A c \in Calls : /\ [call[c] EXCEPT !.fresh = FALSE] \in Request
                       /\ [call[c] EXCEPT !.fresh = FALSE].kind = call[c].kind
                       /\ [call[c] EXCEPT !.fresh = FALSE].fresh = FALSE
  <2>1. TAKE c \in Calls
  <2>2. call[c] \in Request
    OBVIOUS
  <2>3. QED
    BY <2>2 DEF Request
<1>2. QED
  BY <1>1 DEF Bumped

\* A step that changes neither the record nor a request.
LEMMA CallsStay ==
  ASSUME CallInv, rec' = rec, call' = call
  PROVE  CallInv'
BY DEF CallInv, FreshIsCurrent, NothingBeforeCreation

\* A mutation of the record makes every request stale.
LEMMA CallsBumped ==
  ASSUME call \in [Calls -> Request], rec'.status # "absent", call' = Bumped
  PROVE  CallInv' /\ call' \in [Calls -> Request]
BY BumpedType DEF CallInv, FreshIsCurrent, NothingBeforeCreation

\* ... and the one that mutated it is answered.
LEMMA CallAnswered ==
  ASSUME call \in [Calls -> Request], rec'.status # "absent", NEW c \in Calls,
         call' = [Bumped EXCEPT ![c] = NoCall]
  PROVE  CallInv' /\ call' \in [Calls -> Request]
BY BumpedType, EmptyTypes DEF CallInv, FreshIsCurrent, NothingBeforeCreation

\* A step that leaves the executions alone and the record's run as it was.
LEMMA ExecFrame ==
  ASSUME ExecInv, exec' = exec, rec'.run = rec.run, rec'.cancel = rec.cancel,
         rec.run \in Runs => (Ended => Ended')
  PROVE  ExecInv'
BY DEF ExecInv, CancelReachesTheRun, RunNeverOrphaned, CancelRequested, Belongs, Live

\* A step of one execution that forgets no abort, and leaves only with an
\* outcome.
LEMMA ExecStep ==
  ASSUME ExecInv, NEW r \in Runs, rec'.run = rec.run, rec'.cancel = rec.cancel, Ended => Ended',
         Live(r), exec[r].aborted => exec'[r].aborted,
         Belongs(r) /\ exec'[r].pc = "gone" => Ended',
         \A s \in Runs : s # r => exec'[s] = exec[s]
  PROVE  ExecInv'
<1>1. CancelReachesTheRun'
  <2>1. SUFFICES ASSUME NEW s \in Runs, Live(s)', CancelRequested(s)' PROVE exec'[s].aborted
    BY DEF CancelReachesTheRun
  <2>2. CancelRequested(s)
    BY <2>1 DEF CancelRequested, Belongs
  <2>3. Live(s)
    BY <2>1 DEF Live
  <2>4. QED
    BY <2>2, <2>3 DEF ExecInv, CancelReachesTheRun
<1>2. RunNeverOrphaned'
  BY DEF ExecInv, RunNeverOrphaned, Belongs
<1>3. QED
  BY <1>1, <1>2 DEF ExecInv

\* A run that has just begun is not cancelled, or already over.
LEMMA ExecBegins ==
  ASSUME NEW r \in Runs, rec'.run = r,
         \/ exec'[r].pc = "preflight" /\ rec'.status = "assigned" /\ rec'.cancel = FALSE
         \/ exec'[r].pc = "gone" /\ rec'.status = "cancelled"
  PROVE  ExecInv'
<1>1. "cancelled" \in Outcomes
  BY DEF Outcomes
<1>2. QED
  BY <1>1 DEF ExecInv, CancelReachesTheRun, RunNeverOrphaned, CancelRequested, Belongs, Live, Ended

\* Leaving and stepping on keep the executions typed.
LEMMA ExecMoves ==
  ASSUME exec \in [Runs -> Execution], NEW r \in Runs,
         NEW place \in {"prepare", "launch", "stream", "gone"}, exec' = [exec EXCEPT ![r].pc = place]
  PROVE  /\ exec' \in [Runs -> Execution] /\ exec'[r].pc = place
         /\ exec'[r].aborted = exec[r].aborted
         /\ \A s \in Runs : s # r => exec'[s] = exec[s]
<1>1. exec[r] \in Execution
  OBVIOUS
<1>2. /\ [exec[r] EXCEPT !.pc = place] \in Execution
      /\ [exec[r] EXCEPT !.pc = place].pc = place
      /\ [exec[r] EXCEPT !.pc = place].aborted = exec[r].aborted
  BY <1>1 DEF Execution
<1>3. exec' = [exec EXCEPT ![r] = [exec[r] EXCEPT !.pc = place]]
  OBVIOUS
<1>4. QED
  BY <1>2, <1>3

\* Aborting leaves every execution where it stands.
LEMMA AbortedType ==
  ASSUME exec \in [Runs -> Execution], NEW runs, exec' = Aborted(runs)
  PROVE  /\ exec' \in [Runs -> Execution]
         /\ \A s \in Runs : /\ exec'[s].pc = exec[s].pc
                            /\ exec[s].aborted \/ s \in runs => exec'[s].aborted
<1>1. ASSUME NEW s \in Runs
      PROVE  /\ exec'[s] \in Execution /\ exec'[s].pc = exec[s].pc
             /\ exec[s].aborted \/ s \in runs => exec'[s].aborted
  <2>1. exec[s] \in Execution
    OBVIOUS
  <2>2. exec'[s] = [exec[s] EXCEPT !.aborted = exec[s].aborted \/ s \in runs]
    BY DEF Aborted
  <2>3. QED
    BY <2>1, <2>2 DEF Execution
<1>2. QED
  BY <1>1 DEF Aborted

-----------------------------------------------------------------------------
\* The requests of a client.

\* The parts of TypeOK under the name Row.
LEMMA Typed ==
  ASSUME rec' \in TaskRecord, log' \in Seq(Row), Len(log') <= MaxEvents, marker' \in 0..MaxEvents,
         exec' \in [Runs -> Execution], call' \in [Calls -> Request]
  PROVE  TypeOK'
BY DEF TypeOK, Row

\* Creating a task to be planned.
LEMMA CreateDeferredSafe ==
  ASSUME TaskSafe, NEW q \in Reqs, CreateDeferred(q)
  PROVE  TaskSafe'
<1>1. TypeOK /\ CallInv /\ LogInv /\ rec.status = "absent"
  BY DEF TaskSafe, CreateDeferred
<1>2. rec.run = None /\ marker = 0 /\ \A c \in Calls : call[c].kind = "none"
  BY <1>1 DEF CallInv, NothingBeforeCreation, LogInv, WaitingTaskHasOpenLog
<1>3. /\ rec' \in TaskRecord /\ rec'.run = None /\ rec'.status = "backlog" /\ rec'.cancel = FALSE
      /\ log' = log /\ marker' = marker /\ exec' = exec /\ call' = call
  <2>1. rec' = [Absent EXCEPT !.status = "backlog", !.req = q] /\ "backlog" \in Statuses
    BY DEF CreateDeferred, Statuses
  <2>2. Absent.run = None /\ Absent.cancel = FALSE
    BY DEF Absent
  <2>3. QED
    BY <2>1, <2>2, EmptyTypes DEF TaskRecord, CreateDeferred
<1>4. LogInv'
  BY <1>2, <1>3 DEF LogInv, MarkerIsLast, WaitingTaskHasOpenLog, LogFollowsRun, OutcomeMatchesLog
<1>5. ExecInv'
  BY <1>1, <1>3, LogTypes DEF ExecInv, CancelReachesTheRun, RunNeverOrphaned, CancelRequested, Belongs
<1>6. CallInv'
  BY <1>2, <1>3 DEF CallInv, FreshIsCurrent, NothingBeforeCreation
<1>7. TypeOK'
  BY <1>1, <1>3 DEF TypeOK
<1>8. QED
  BY <1>4, <1>5, <1>6, <1>7 DEF TaskSafe

\* Creating a task whose first run begins at once.
LEMMA CreateImmediateSafe ==
  ASSUME TaskSafe, NEW a \in Adapters, CreateImmediate(a)
  PROVE  TaskSafe'
<1>1. TypeOK /\ CallInv /\ LogInv /\ rec.status = "absent"
  BY DEF TaskSafe, CreateImmediate
<1>2. rec.run = None /\ marker = 0 /\ \A c \in Calls : call[c].kind = "none"
  BY <1>1 DEF CallInv, NothingBeforeCreation, LogInv, WaitingTaskHasOpenLog
<1>3. PICK r \in Runs : FirstUnused(r) /\ Begin([Absent EXCEPT !.status = "assigned", !.run = r, !.adapter = a], r)
  BY DEF CreateImmediate
<1> DEFINE row == [Absent EXCEPT !.status = "assigned", !.run = r, !.adapter = a]
<1>4. row \in TaskRecord /\ row.run = r /\ row.status = "assigned"
  BY EmptyTypes DEF TaskRecord, Statuses
<1>5. Begin(row, r) /\ exec[r].pc = "none"
  BY <1>3 DEF FirstUnused
<1> HIDE DEF row
<1>6. /\ rec' \in TaskRecord /\ log' \in Seq(Row) /\ Len(log') <= MaxEvents
      /\ marker' \in 0..MaxEvents /\ exec' \in [Runs -> Execution]
      /\ rec'.run = r /\ LogInv'
      /\ \/ exec'[r].pc = "preflight" /\ rec'.status = "assigned" /\ rec'.cancel = FALSE
         \/ exec'[r].pc = "gone" /\ rec'.status = "cancelled"
  BY <1>1, <1>2, <1>4, <1>5, BeginStep
<1>7. ExecInv'
  BY <1>6, ExecBegins
<1>8. call' = call
  BY DEF CreateImmediate
<1>9. CallInv'
  BY <1>2, <1>6, <1>8 DEF CallInv, FreshIsCurrent, NothingBeforeCreation
<1>10. TypeOK'
  BY <1>1, <1>6, <1>8, Typed DEF TypeOK
<1>11. QED
  BY <1>6, <1>7, <1>9, <1>10 DEF TaskSafe

\* A planning move concerns a task without a run.
LEMMA TransitionSafe ==
  ASSUME TaskSafe, NEW target \in Statuses, TransitionTask(target)
  PROVE  TaskSafe'
<1>1. TypeOK /\ LogInv /\ ExecInv /\ rec.run = None /\ call' = Bumped /\ log' = log /\ marker' = marker
      /\ exec' = exec
  BY DEF TaskSafe, TransitionTask
<1>2. target # "absent"
  BY DEF TransitionTask, ManualTransitions
<1>3. /\ rec' \in TaskRecord /\ rec'.run = rec.run /\ rec'.status = target /\ rec'.cancel = rec.cancel
      /\ rec'.last = rec.last /\ rec'.outcome = rec.outcome
  BY <1>1, LogTypes DEF TransitionTask, TaskRecord
<1>4. LogInv'
  BY <1>1, <1>3, LogFrame
<1>5. ExecInv'
  BY <1>1, <1>3, LogTypes, ExecFrame
<1>6. CallInv' /\ call' \in [Calls -> Request]
  BY <1>1, <1>2, <1>3, CallsBumped DEF TypeOK
<1>7. TypeOK'
  BY <1>1, <1>3, <1>6 DEF TypeOK
<1>8. QED
  BY <1>4, <1>5, <1>6, <1>7 DEF TaskSafe

\* A cancellation sets the flag and aborts the run that is under way.
LEMMA CancellationSafe ==
  ASSUME TaskSafe, RequestCancellation
  PROVE  TaskSafe'
<1>1. /\ TypeOK /\ LogInv /\ ExecInv /\ rec.status # "absent" /\ call' = Bumped
      /\ log' = log /\ marker' = marker
      /\ rec' = [rec EXCEPT !.cancel = TRUE]
      /\ exec' = Aborted({r \in Runs : Live(r) /\ Belongs(r)})
  BY DEF TaskSafe, RequestCancellation
<1>2. /\ rec' \in TaskRecord /\ rec'.run = rec.run /\ rec'.status = rec.status
      /\ rec'.last = rec.last /\ rec'.outcome = rec.outcome
  BY <1>1, LogTypes DEF TaskRecord
<1>3. /\ exec' \in [Runs -> Execution]
      /\ \A s \in Runs : /\ exec'[s].pc = exec[s].pc
                         /\ Live(s) /\ Belongs(s) => exec'[s].aborted
  BY <1>1, AbortedType DEF TypeOK
<1>4. LogInv'
  BY <1>1, <1>2, LogFrame
<1>5. ExecInv'
  BY <1>1, <1>2, <1>3 DEF ExecInv, CancelReachesTheRun, RunNeverOrphaned, CancelRequested, Belongs,
     Live, Ended
<1>6. CallInv' /\ call' \in [Calls -> Request]
  BY <1>1, <1>2, CallsBumped DEF TypeOK
<1>7. TypeOK'
  BY <1>1, <1>2, <1>3, <1>6 DEF TypeOK
<1>8. QED
  BY <1>4, <1>5, <1>6, <1>7 DEF TaskSafe

\* A shutdown aborts every run and cancels the task that has one under way.
LEMMA ShutdownSafe ==
  ASSUME TaskSafe, Shutdown
  PROVE  TaskSafe'
<1> DEFINE hit == \E r \in Runs : Live(r) /\ Belongs(r) /\ ~rec.cancel /\ ~Ended
<1>1. /\ TypeOK /\ LogInv /\ ExecInv /\ CallInv /\ log' = log /\ marker' = marker
      /\ rec' = [rec EXCEPT !.cancel = rec.cancel \/ hit]
      /\ exec' = Aborted({r \in Runs : Live(r)})
      /\ call' = IF hit THEN Bumped ELSE call
  BY DEF TaskSafe, Shutdown
<1>2. /\ exec' \in [Runs -> Execution]
      /\ \A s \in Runs : /\ exec'[s].pc = exec[s].pc
                         /\ exec[s].aborted \/ Live(s) => exec'[s].aborted
  BY <1>1, AbortedType DEF TypeOK
<1>3. hit => rec.status # "absent"
  BY <1>1, LogTypes DEF CallInv, NothingBeforeCreation, Belongs
<1> HIDE DEF hit
<1>4. /\ rec' \in TaskRecord /\ rec'.run = rec.run /\ rec'.status = rec.status
      /\ rec'.last = rec.last /\ rec'.outcome = rec.outcome
  BY <1>1, LogTypes DEF TaskRecord
<1>5. LogInv'
  BY <1>1, <1>4, LogFrame
<1>6. ExecInv'
  BY <1>1, <1>2, <1>4 DEF ExecInv, CancelReachesTheRun, RunNeverOrphaned, CancelRequested, Belongs,
     Live, Ended
<1>7. CallInv' /\ call' \in [Calls -> Request]
  <2>1. CASE hit
    BY <1>1, <1>3, <1>4, <2>1, CallsBumped DEF TypeOK
  <2>2. CASE ~hit
    <3>1. rec' = rec /\ call' = call
      BY <1>1, <2>2, LogTypes DEF TaskRecord
    <3>2. QED
      BY <1>1, <3>1, CallsStay DEF TypeOK
  <2>3. QED
    BY <2>1, <2>2
<1>8. TypeOK'
  BY <1>1, <1>2, <1>4, <1>7 DEF TypeOK
<1>9. QED
  BY <1>5, <1>6, <1>7, <1>8 DEF TaskSafe

\* A request that starts waiting has read the record as it is.
LEMMA AskSafe ==
  ASSUME TaskSafe, NEW c \in Calls, NEW kind \in {"assign", "start"}, NEW a \in Adapters \cup {None},
         NEW q \in Reqs, Asked(c, kind, a, q), rec.status # "absent"
  PROVE  TaskSafe'
<1> DEFINE new == [kind |-> kind, adapter |-> a, req |-> q, seen |-> rec, fresh |-> TRUE]
<1>1. /\ TypeOK /\ LogInv /\ ExecInv /\ CallInv
      /\ log' = log /\ marker' = marker /\ rec' = rec /\ exec' = exec
      /\ call' = [call EXCEPT ![c] = new]
  BY DEF TaskSafe, Asked
<1>2. new \in Request /\ new.seen = rec
  BY <1>1, LogTypes DEF Request
<1> HIDE DEF new
<1>3. call' \in [Calls -> Request] /\ \A d \in Calls : call'[d] = IF d = c THEN new ELSE call[d]
  BY <1>1, <1>2 DEF TypeOK
<1>4. CallInv'
  BY <1>1, <1>2, <1>3 DEF CallInv, FreshIsCurrent, NothingBeforeCreation
<1>5. LogInv'
  BY <1>1, LogFrame
<1>6. ExecInv'
  BY <1>1, ExecFrame DEF Ended
<1>7. TypeOK'
  BY <1>1, <1>3 DEF TypeOK
<1>8. QED
  BY <1>4, <1>5, <1>6, <1>7 DEF TaskSafe

\* Both kinds of request are asked of a task that exists.
LEMMA AskingSafe ==
  ASSUME TaskSafe, NEW c \in Calls,
         (\E a \in Adapters, q \in Reqs : AskAssign(c, a, q)) \/ AskStart(c)
  PROVE  TaskSafe'
<1>1. ASSUME NEW a \in Adapters, NEW q \in Reqs, AskAssign(c, a, q) PROVE TaskSafe'
  BY <1>1, AskSafe DEF AskAssign, Assignable
<1>2. ASSUME AskStart(c) PROVE TaskSafe'
  <2>1. rec.adapter \in Adapters \cup {None} /\ rec.req \in Reqs
    BY LogTypes DEF TaskSafe, TaskRecord
  <2>2. Asked(c, "start", rec.adapter, rec.req) /\ rec.status # "absent"
    BY <1>2 DEF AskStart, Startable
  <2>3. PICK a \in Adapters \cup {None} : a = rec.adapter
    BY <2>1
  <2>4. PICK q \in Reqs : q = rec.req
    BY <2>1
  <2>5. QED
    BY <2>2, <2>3, <2>4, AskSafe
<1>3. QED
  BY <1>1, <1>2

\* An assignment is committed to a task without a run.
LEMMA CommitAssignSafe ==
  ASSUME TaskSafe, NEW c \in Calls, CommitAssign(c)
  PROVE  TaskSafe'
<1>1. /\ TypeOK /\ LogInv /\ ExecInv /\ CallInv /\ log' = log /\ marker' = marker /\ exec' = exec
      /\ rec' = [rec EXCEPT !.status = "assigned", !.adapter = call[c].adapter, !.req = call[c].req]
      /\ call' = [Bumped EXCEPT ![c] = NoCall]
      /\ Assignable
  BY DEF TaskSafe, CommitAssign
<1>2. call[c] \in Request
  BY <1>1 DEF TypeOK
<1>3. /\ rec' \in TaskRecord /\ rec'.run = rec.run /\ rec'.status = "assigned"
      /\ rec'.cancel = rec.cancel /\ rec'.last = rec.last /\ rec'.outcome = rec.outcome
  BY <1>1, <1>2, LogTypes DEF TaskRecord, Request, Statuses
<1>4. ~Ended
  BY <1>1 DEF Assignable, Ended, Outcomes
<1>5. ~Ended'
  BY <1>3 DEF Ended, Outcomes
<1>6. LogInv'
  <2>1. rec.run # None => marker = 0
    BY <1>1, <1>4 DEF LogInv, LogFollowsRun
  <2>2. marker = 0
    BY <1>1, <2>1 DEF LogInv, WaitingTaskHasOpenLog
  <2>3. QED
    BY <1>1, <1>3, <1>5, <2>2 DEF LogInv, MarkerIsLast, WaitingTaskHasOpenLog, LogFollowsRun, OutcomeMatchesLog
<1>7. ExecInv'
  BY <1>1, <1>3, <1>4, ExecFrame
<1>8. CallInv' /\ call' \in [Calls -> Request]
  BY <1>1, <1>3, CallAnswered DEF TypeOK
<1>9. TypeOK'
  BY <1>1, <1>3, <1>8 DEF TypeOK
<1>10. QED
  BY <1>6, <1>7, <1>8, <1>9 DEF TaskSafe

\* A start is committed to a task without a run, whose log is open.
LEMMA CommitStartSafe ==
  ASSUME TaskSafe, NEW c \in Calls, CommitStart(c)
  PROVE  TaskSafe'
<1>1. /\ TypeOK /\ LogInv /\ rec.run = None /\ rec.status = "assigned"
      /\ call' = [Bumped EXCEPT ![c] = NoCall]
  BY DEF TaskSafe, CommitStart, Startable
<1>2. marker = 0
  BY <1>1 DEF LogInv, WaitingTaskHasOpenLog
<1>3. PICK r \in Runs : FirstUnused(r) /\ Begin([rec EXCEPT !.run = r], r)
  BY DEF CommitStart
<1> DEFINE row == [rec EXCEPT !.run = r]
<1>4. row \in TaskRecord /\ row.run = r /\ row.status = "assigned"
  BY <1>1, LogTypes DEF TaskRecord
<1>5. Begin(row, r) /\ exec[r].pc = "none"
  BY <1>3 DEF FirstUnused
<1>6. PICK copy \in TaskRecord : copy = row
  BY <1>4
<1> HIDE DEF row
<1>7. Begin(copy, r) /\ copy.run = r /\ copy.status = "assigned"
  BY <1>4, <1>5, <1>6
<1>8. /\ rec' \in TaskRecord /\ log' \in Seq(Row) /\ Len(log') <= MaxEvents
      /\ marker' \in 0..MaxEvents /\ exec' \in [Runs -> Execution]
      /\ rec'.run = r /\ LogInv'
      /\ \/ exec'[r].pc = "preflight" /\ rec'.status = "assigned" /\ rec'.cancel = FALSE
         \/ exec'[r].pc = "gone" /\ rec'.status = "cancelled"
  BY <1>1, <1>2, <1>5, <1>7, BeginStep
<1>9. ExecInv'
  BY <1>8, ExecBegins
<1>10. CallInv' /\ call' \in [Calls -> Request]
  BY <1>1, <1>8, CallAnswered DEF TypeOK
<1>11. TypeOK'
  BY <1>8, <1>10, Typed
<1>12. QED
  BY <1>8, <1>9, <1>10, <1>11 DEF TaskSafe

\* A refused request leaves no trace.
LEMMA RefuseSafe ==
  ASSUME TaskSafe, NEW c \in Calls, Refuse(c)
  PROVE  TaskSafe'
<1>1. /\ TypeOK /\ LogInv /\ ExecInv /\ CallInv
      /\ log' = log /\ marker' = marker /\ rec' = rec /\ exec' = exec
      /\ call' = [call EXCEPT ![c] = NoCall]
  BY DEF TaskSafe, Refuse
<1>2. call' \in [Calls -> Request] /\ \A d \in Calls : call'[d] = IF d = c THEN NoCall ELSE call[d]
  BY <1>1, EmptyTypes DEF TypeOK
<1>3. CallInv'
  BY <1>1, <1>2, EmptyTypes DEF CallInv, FreshIsCurrent, NothingBeforeCreation
<1>4. LogInv'
  BY <1>1, LogFrame
<1>5. ExecInv'
  BY <1>1, ExecFrame DEF Ended
<1>6. TypeOK'
  BY <1>1, <1>2 DEF TypeOK
<1>7. QED
  BY <1>3, <1>4, <1>5, <1>6 DEF TaskSafe

\* A retry finds the log closed where the record says, and reopens it.
LEMMA PrepareRetrySafe ==
  ASSUME TaskSafe, PrepareRetry
  PROVE  TaskSafe'
<1>1. /\ TypeOK /\ LogInv /\ ExecInv /\ CallInv /\ log' = log /\ exec' = exec
      /\ rec' = [rec EXCEPT !.status = "assigned", !.run = None, !.outcome = None, !.cancel = FALSE]
      /\ call' = Bumped /\ marker' = Reopened
  BY DEF TaskSafe, PrepareRetry
<1>2. rec' \in TaskRecord /\ rec'.run = None /\ rec'.status = "assigned"
  BY <1>1, LogTypes DEF TaskRecord, Statuses
<1>3. marker' = 0
  BY <1>1 DEF Reopened, LogInv, MarkerIsLast
<1>4. LogInv'
  BY <1>2, <1>3 DEF LogInv, MarkerIsLast, WaitingTaskHasOpenLog, LogFollowsRun, OutcomeMatchesLog
<1>5. ExecInv'
  BY <1>1, <1>2, LogTypes DEF ExecInv, CancelReachesTheRun, RunNeverOrphaned, CancelRequested, Belongs
<1>6. CallInv' /\ call' \in [Calls -> Request]
  BY <1>1, <1>2, CallsBumped DEF TypeOK
<1>7. TypeOK'
  BY <1>1, <1>2, <1>3, <1>6, LimitAssumption DEF TypeOK
<1>8. QED
  BY <1>4, <1>5, <1>6, <1>7 DEF TaskSafe

-----------------------------------------------------------------------------
\* The executions.

\* An execution ends, and its task with it if it is still the task's.
LEMMA LeaveSafe ==
  ASSUME TaskSafe, NEW r \in Runs, NEW type \in Outcomes, Live(r),
         ConcludeIfOpen(r, type), exec' = Leave(r)
  PROVE  TaskSafe'
<1>1. TypeOK /\ LogInv /\ ExecInv /\ CallInv
  BY DEF TaskSafe
<1>2. /\ rec' \in TaskRecord /\ log' \in Seq(Row) /\ Len(log') <= MaxEvents
      /\ marker' \in 0..MaxEvents
      /\ rec'.run = rec.run /\ rec'.cancel = rec.cancel
      /\ LogInv'
      /\ Belongs(r) => Ended'
      /\ \/ rec' = rec /\ call' = call
         \/ Belongs(r) /\ ~Ended /\ call' = Bumped /\ rec'.status \in Outcomes
  BY ConcludeIfOpenStep
<1>3. /\ exec' \in [Runs -> Execution] /\ exec'[r].pc = "gone"
      /\ exec'[r].aborted = exec[r].aborted
      /\ \A s \in Runs : s # r => exec'[s] = exec[s]
  BY <1>1, ExecMoves DEF Leave, TypeOK
<1>4. Ended => Ended'
  BY <1>2 DEF Ended
<1>5. ExecInv'
  BY <1>1, <1>2, <1>3, <1>4, ExecStep
<1>6. CallInv' /\ call' \in [Calls -> Request]
  <2>1. CASE rec' = rec /\ call' = call
    BY <1>1, <2>1, CallsStay DEF TypeOK
  <2>2. CASE call' = Bumped /\ rec'.status \in Outcomes
    BY <1>1, <2>2, CallsBumped DEF TypeOK, Outcomes
  <2>3. QED
    BY <1>2, <2>1, <2>2
<1>7. TypeOK'
  BY <1>2, <1>3, <1>6, Typed
<1>8. QED
  BY <1>2, <1>5, <1>6, <1>7 DEF TaskSafe

\* An execution goes on to its next await.
LEMMA MoveSafe ==
  ASSUME TaskSafe, NEW r \in Runs, NEW place \in {"prepare", "launch", "stream"}, Live(r),
         exec' = [exec EXCEPT ![r].pc = place],
         rec' = rec, log' = log, marker' = marker, call' = call
  PROVE  TaskSafe'
<1>1. TypeOK /\ LogInv /\ ExecInv /\ CallInv
  BY DEF TaskSafe
<1>2. /\ exec' \in [Runs -> Execution] /\ exec'[r].pc = place
      /\ exec'[r].aborted = exec[r].aborted
      /\ \A s \in Runs : s # r => exec'[s] = exec[s]
  BY <1>1, ExecMoves DEF TypeOK
<1>3. ExecInv'
  BY <1>1, <1>2, ExecStep DEF Ended
<1>4. LogInv'
  BY <1>1, LogFrame
<1>5. CallInv'
  BY <1>1, CallsStay
<1>6. TypeOK'
  BY <1>1, <1>2 DEF TypeOK
<1>7. QED
  BY <1>3, <1>4, <1>5, <1>6 DEF TaskSafe

\* Stepping on is one of the two.
LEMMA StepOnSafe ==
  ASSUME TaskSafe, NEW r \in Runs, NEW next \in {"prepare", "launch"}, Live(r), StepOn(r, next)
  PROVE  TaskSafe'
<1>1. CASE CancelRequested(r)
  <2>1. ConcludeIfOpen(r, "cancelled") /\ exec' = Leave(r) /\ "cancelled" \in Outcomes
    BY <1>1 DEF StepOn, Outcomes
  <2>2. QED
    BY <2>1, LeaveSafe
<1>2. CASE ~CancelRequested(r)
  BY <1>2, MoveSafe DEF StepOn
<1>3. QED
  BY <1>1, <1>2

\* An event of the adapter's stream.
LEMMA EmitSafe ==
  ASSUME TaskSafe, NEW r \in Runs, NEW type \in EventTypes, Emit(r, type)
  PROVE  TaskSafe'
<1>1. TypeOK /\ LogInv /\ ExecInv /\ CallInv /\ exec \in [Runs -> Execution] /\ exec[r] \in Execution
  BY DEF TaskSafe, TypeOK
<1>2. exec[r].base \in Nat /\ exec[r].sent \in Nat
  BY <1>1 DEF Execution
<1>3. HandleEvent(r, type) /\ Live(r)
  BY DEF Emit, Live
<1>4. /\ rec' \in TaskRecord /\ log' \in Seq(Row) /\ Len(log') <= MaxEvents
      /\ marker' \in 0..MaxEvents
      /\ rec'.run = rec.run /\ rec'.cancel = rec.cancel
      /\ LogInv'
      /\ type \in Outcomes /\ Belongs(r) => Ended'
      /\ \/ rec' = rec /\ call' = call
         \/ Belongs(r) /\ ~Ended /\ call' = Bumped /\ rec'.status \in Outcomes \cup {"running", rec.status}
  BY <1>2, <1>3, HandleEventStep
<1>5. /\ exec' \in [Runs -> Execution]
      /\ exec'[r].pc = IF type \in Outcomes THEN "gone" ELSE "stream"
      /\ exec[r].aborted => exec'[r].aborted
      /\ \A s \in Runs : s # r => exec'[s] = exec[s]
  <2> DEFINE next == [exec[r] EXCEPT !.pc = IF type \in Outcomes THEN "gone" ELSE @,
                                     !.sent = IF type \in Outcomes THEN @ ELSE @ + 1,
                                     !.aborted = @ \/ Overruns(r, type)]
  <2>1. type \notin Outcomes => exec[r].sent + 1 \in 0..MaxEvents + 1
    BY <1>2, LimitAssumption DEF Emit, Emittable
  <2>2. /\ next \in Execution
        /\ next.pc = IF type \in Outcomes THEN "gone" ELSE exec[r].pc
        /\ exec[r].aborted => next.aborted
    BY <1>1, <2>1 DEF Execution
  <2>3. exec' = [exec EXCEPT ![r] = next]
    BY DEF Emit
  <2>4. exec[r].pc = "stream"
    BY DEF Emit
  <2> HIDE DEF next
  <2>5. QED
    BY <1>1, <2>2, <2>3, <2>4
<1>6. Ended => Ended'
  BY <1>4 DEF Ended
<1>7. ExecInv'
  BY <1>1, <1>3, <1>4, <1>5, <1>6, ExecStep
<1>8. CallInv' /\ call' \in [Calls -> Request]
  <2>1. CASE rec' = rec /\ call' = call
    BY <1>1, <2>1, CallsStay DEF TypeOK
  <2>2. CASE Belongs(r) /\ call' = Bumped /\ rec'.status \in Outcomes \cup {"running", rec.status}
    <3>1. rec.status # "absent"
      BY <1>1, <2>2, LogTypes DEF CallInv, NothingBeforeCreation, Belongs
    <3>2. rec'.status # "absent"
      BY <2>2, <3>1 DEF Outcomes
    <3>3. QED
      BY <1>1, <2>2, <3>2, CallsBumped DEF TypeOK
  <2>3. QED
    BY <1>4, <2>1, <2>2
<1>9. TypeOK'
  BY <1>4, <1>5, <1>8, Typed
<1>10. QED
  BY <1>4, <1>7, <1>8, <1>9 DEF TaskSafe

\* Every step of an execution.
LEMMA ExecuteSafe ==
  ASSUME TaskSafe, NEW r \in Runs, Execute(r)
  PROVE  TaskSafe'
<1>1. CASE Preflight(r)
  BY <1>1, StepOnSafe DEF Preflight, Live
<1>2. CASE Prepare(r)
  BY <1>2, StepOnSafe DEF Prepare, Live
<1>3. CASE Launch(r)
  BY <1>3, MoveSafe DEF Launch, Live
<1>4. CASE Throws(r)
  <2>1. PICK type \in Outcomes : ConcludeIfOpen(r, type)
    BY <1>4 DEF Throws, Outcomes
  <2>2. QED
    BY <1>4, <2>1, LeaveSafe DEF Throws
<1>5. CASE \E type \in EventTypes : Emit(r, type)
  BY <1>5, EmitSafe
<1>6. QED
  BY <1>1, <1>2, <1>3, <1>4, <1>5 DEF Execute

-----------------------------------------------------------------------------
\* The state before a task is created.
LEMMA InitSafe == Init => TaskSafe
<1> SUFFICES ASSUME Init PROVE TaskSafe
  OBVIOUS
<1>1. TypeOK
  <2>1. <<>> \in Seq([run : Runs, type : EventTypes]) /\ Len(<<>>) = 0
    OBVIOUS
  <2>2. \A r \in Runs : [pc |-> "none", aborted |-> FALSE, base |-> 0, sent |-> 0] \in Execution
    BY LimitAssumption DEF Execution
  <2>3. QED
    BY <2>1, <2>2, EmptyTypes, LimitAssumption DEF Init, TypeOK
<1>2. rec.status = "absent" /\ rec.run = None
  BY DEF Init, Absent
<1>3. LogInv
  BY <1>2 DEF Init, LogInv, MarkerIsLast, WaitingTaskHasOpenLog, LogFollowsRun, OutcomeMatchesLog
<1>4. ExecInv
  BY DEF Init, ExecInv, CancelReachesTheRun, RunNeverOrphaned, Live
<1>5. CallInv
  BY <1>2, EmptyTypes DEF Init, CallInv, FreshIsCurrent, NothingBeforeCreation
<1>6. QED
  BY <1>1, <1>3, <1>4, <1>5 DEF TaskSafe

\* Every step keeps the task safe.
LEMMA NextSafe == TaskSafe /\ [Next]_vars => TaskSafe'
<1> SUFFICES ASSUME TaskSafe, [Next]_vars PROVE TaskSafe'
  OBVIOUS
<1>1. CASE UNCHANGED vars
  <2>1. rec' = rec /\ log' = log /\ marker' = marker /\ exec' = exec /\ call' = call
    BY <1>1 DEF vars
  <2>2. LogInv' /\ ExecInv' /\ CallInv'
    BY <2>1, LogFrame, ExecFrame, CallsStay DEF TaskSafe, Ended
  <2>3. QED
    BY <2>1, <2>2 DEF TaskSafe, TypeOK
<1>2. QED
  BY <1>1, CreateDeferredSafe, CreateImmediateSafe, TransitionSafe, CancellationSafe, ShutdownSafe,
     AskingSafe, CommitAssignSafe, CommitStartSafe, RefuseSafe, PrepareRetrySafe, ExecuteSafe
  DEF Next

\* A task's record, log and executions fit together, for any number of runs,
\* events and requests in flight.
THEOREM TaskFitsTogether == Spec => []TaskInv
<1>1. TaskSafe => TaskInv
  BY DEF TaskSafe, LogInv, ExecInv, TaskInv
<1>2. QED
  BY <1>1, InitSafe, NextSafe, PTL DEF Spec

-----------------------------------------------------------------------------
\* What a step does to the run, the phase and the runs begun.

\* An execution's step never replaces the run; it settles its own or none.
LEMMA ExecuteSettles ==
  ASSUME TaskSafe, NEW r \in Runs, Execute(r)
  PROVE  /\ rec'.run = rec.run
         /\ \A s \in Runs : (exec'[s].pc # "none") <=> (exec[s].pc # "none")
         /\ \/ rec' = rec
            \/ Belongs(r) /\ ~Ended /\ exec'[r] # exec[r]
               /\ rec'.status \in Outcomes \cup {"running", rec.status}
         /\ call' = call \/ call' = Bumped
<1>1. TypeOK /\ exec \in [Runs -> Execution] /\ exec[r] \in Execution
  BY DEF TaskSafe, TypeOK
<1>2. ASSUME NEW type \in Outcomes, Live(r), ConcludeIfOpen(r, type), exec' = Leave(r)
      PROVE  /\ rec'.run = rec.run
             /\ \A s \in Runs : (exec'[s].pc # "none") <=> (exec[s].pc # "none")
             /\ \/ rec' = rec /\ call' = call
                \/ Belongs(r) /\ ~Ended /\ exec'[r] # exec[r] /\ call' = Bumped
                   /\ rec'.status \in Outcomes
  <2>1. /\ rec'.run = rec.run
        /\ \/ rec' = rec /\ call' = call
           \/ Belongs(r) /\ ~Ended /\ call' = Bumped /\ rec'.status \in Outcomes
    BY <1>2, ConcludeIfOpenStep
  <2>2. exec'[r].pc = "gone" /\ \A s \in Runs : s # r => exec'[s] = exec[s]
    BY <1>1, <1>2, ExecMoves DEF Leave
  <2>3. exec[r].pc # "gone" /\ exec[r].pc # "none"
    BY <1>2 DEF Live
  <2>4. QED
    BY <2>1, <2>2, <2>3 DEF Ended
<1>3. ASSUME NEW place \in {"prepare", "launch", "stream"}, Live(r),
             exec' = [exec EXCEPT ![r].pc = place], rec' = rec, call' = call
      PROVE  /\ rec'.run = rec.run /\ rec' = rec /\ call' = call
             /\ \A s \in Runs : (exec'[s].pc # "none") <=> (exec[s].pc # "none")
  <2>1. exec'[r].pc = place /\ \A s \in Runs : s # r => exec'[s] = exec[s]
    BY <1>1, <1>3, ExecMoves
  <2>2. QED
    BY <1>3, <2>1 DEF Live
<1>4. ASSUME NEW next \in {"prepare", "launch"}, Live(r), StepOn(r, next)
      PROVE  /\ rec'.run = rec.run
             /\ \A s \in Runs : (exec'[s].pc # "none") <=> (exec[s].pc # "none")
             /\ \/ rec' = rec /\ call' = call
                \/ Belongs(r) /\ ~Ended /\ exec'[r] # exec[r] /\ call' = Bumped
                   /\ rec'.status \in Outcomes
  <2>1. CASE CancelRequested(r)
    BY <1>2, <1>4, <2>1 DEF StepOn, Outcomes
  <2>2. CASE ~CancelRequested(r)
    BY <1>3, <1>4, <2>2 DEF StepOn
  <2>3. QED
    BY <2>1, <2>2
<1>5. CASE Preflight(r) \/ Prepare(r)
  <2>1. PICK next \in {"prepare", "launch"} : Live(r) /\ StepOn(r, next)
    BY <1>5 DEF Preflight, Prepare, Live
  <2>2. QED
    BY <1>4, <2>1
<1>6. CASE Launch(r)
  BY <1>3, <1>6 DEF Launch, Live
<1>7. CASE Throws(r)
  <2>1. PICK type \in Outcomes : ConcludeIfOpen(r, type)
    BY <1>7 DEF Throws, Outcomes
  <2>2. QED
    BY <1>2, <1>7, <2>1 DEF Throws
<1>8. ASSUME NEW type \in EventTypes, Emit(r, type)
      PROVE  /\ rec'.run = rec.run
             /\ \A s \in Runs : (exec'[s].pc # "none") <=> (exec[s].pc # "none")
             /\ \/ rec' = rec /\ call' = call
                \/ Belongs(r) /\ ~Ended /\ exec'[r] # exec[r]
                   /\ rec'.status \in Outcomes \cup {"running", rec.status}
             /\ call' = call \/ call' = Bumped
  <2>1. exec[r].base \in Nat /\ exec[r].sent \in Nat /\ exec[r].pc = "stream" /\ HandleEvent(r, type)
    BY <1>1, <1>8 DEF Execution, Emit
  <2>2. /\ rec'.run = rec.run
        /\ \/ rec' = rec /\ call' = call
           \/ Belongs(r) /\ ~Ended /\ call' = Bumped /\ rec'.status \in Outcomes \cup {"running", rec.status}
    BY <2>1, HandleEventStep
  <2> DEFINE next == [exec[r] EXCEPT !.pc = IF type \in Outcomes THEN "gone" ELSE @,
                                     !.sent = IF type \in Outcomes THEN @ ELSE @ + 1,
                                     !.aborted = @ \/ Overruns(r, type)]
  <2>3. exec' = [exec EXCEPT ![r] = next]
    BY <1>8 DEF Emit
  <2>4. /\ next.pc = IF type \in Outcomes THEN "gone" ELSE exec[r].pc
        /\ next.sent = IF type \in Outcomes THEN exec[r].sent ELSE exec[r].sent + 1
    BY <1>1 DEF Execution
  <2> HIDE DEF next
  <2>5. exec'[r] = next /\ \A s \in Runs : s # r => exec'[s] = exec[s]
    BY <1>1, <2>3
  <2>6. next # exec[r]
    BY <2>1, <2>4
  <2>7. next.pc # "none"
    BY <2>1, <2>4
  <2>8. \A s \in Runs : (exec'[s].pc # "none") <=> (exec[s].pc # "none")
    BY <2>1, <2>5, <2>7
  <2>9. QED
    BY <2>2, <2>5, <2>6, <2>8
<1>9. QED
  BY <1>5, <1>6, <1>7, <1>8 DEF Execute

\* No other step brings a task with a run to its outcome.
LEMMA OthersSettleNothing ==
  ASSUME TaskSafe, [Next]_vars, rec.run # None, ~Ended, Ended',
         \A r \in Runs : ~Execute(r)
  PROVE  FALSE
<1>1. rec \in TaskRecord
  BY LogTypes DEF TaskSafe
<1>2. rec.status # "absent"
  BY DEF TaskSafe, CallInv, NothingBeforeCreation
<1>3. ~Startable
  BY DEF Startable
<1>4. CASE RequestCancellation \/ Shutdown \/ UNCHANGED vars
  <2>1. rec'.status = rec.status
    BY <1>1, <1>4 DEF RequestCancellation, Shutdown, vars, TaskRecord
  <2>2. QED
    BY <2>1 DEF Ended
<1>5. ASSUME NEW c \in Calls,
             \/ \E a \in Adapters, q \in Reqs : AskAssign(c, a, q)
             \/ AskStart(c) \/ Refuse(c)
      PROVE  FALSE
  BY <1>5 DEF AskAssign, AskStart, Asked, Refuse, Ended
<1>6. ASSUME NEW c \in Calls, CommitAssign(c) PROVE FALSE
  <2>1. rec'.status = "assigned"
    BY <1>1, <1>6 DEF CommitAssign, TaskRecord
  <2>2. QED
    BY <2>1 DEF Ended, Outcomes
<1>7. CASE PrepareRetry
  BY <1>7 DEF PrepareRetry, Ended, Outcomes
<1>8. ASSUME NEW c \in Calls, CommitStart(c) PROVE FALSE
  BY <1>3, <1>8 DEF CommitStart
<1>9. ASSUME NEW q \in Reqs, CreateDeferred(q) PROVE FALSE
  BY <1>2, <1>9 DEF CreateDeferred
<1>10. ASSUME NEW a \in Adapters, CreateImmediate(a) PROVE FALSE
  BY <1>2, <1>10 DEF CreateImmediate
<1>11. ASSUME NEW target \in Statuses, TransitionTask(target) PROVE FALSE
  BY <1>11 DEF TransitionTask
<1>12. QED
  BY <1>4, <1>5, <1>6, <1>7, <1>8, <1>9, <1>10, <1>11 DEF Next

\* No other step than an execution's changes an ended task, but for a retry.
LEMMA OthersLeaveOutcome ==
  ASSUME TaskSafe, [Next]_vars, Ended, \A r \in Runs : ~Execute(r)
  PROVE  OutcomeStands
<1>1. rec \in TaskRecord
  BY LogTypes DEF TaskSafe
<1>2. rec.status # "absent" /\ ~Startable /\ ~Assignable /\ rec.status \notin DOMAIN ManualTransitions
  BY DEF Ended, Outcomes, Startable, Assignable, ManualTransitions
<1>3. CASE RequestCancellation \/ UNCHANGED vars
  BY <1>3 DEF RequestCancellation, vars, OutcomeStands
<1>4. CASE Shutdown
  <2>1. rec' = [rec EXCEPT !.cancel = rec.cancel]
    BY <1>1, <1>4 DEF Shutdown, TaskRecord
  <2>2. QED
    BY <1>1, <2>1 DEF TaskRecord, OutcomeStands
<1>5. ASSUME NEW c \in Calls,
             \/ \E a \in Adapters, q \in Reqs : AskAssign(c, a, q)
             \/ AskStart(c) \/ Refuse(c)
      PROVE  OutcomeStands
  BY <1>5 DEF AskAssign, AskStart, Asked, Refuse, OutcomeStands
<1>6. ASSUME NEW c \in Calls, CommitAssign(c) \/ CommitStart(c) PROVE FALSE
  BY <1>2, <1>6 DEF CommitAssign, CommitStart
<1>7. CASE PrepareRetry
  <2>1. rec'.status = "assigned" /\ rec'.run = None
    BY <1>1, <1>7 DEF PrepareRetry, TaskRecord
  <2>2. QED
    BY <1>7, <2>1 DEF PrepareRetry, OutcomeStands
<1>8. ASSUME NEW q \in Reqs, CreateDeferred(q) PROVE FALSE
  BY <1>2, <1>8 DEF CreateDeferred
<1>9. ASSUME NEW a \in Adapters, CreateImmediate(a) PROVE FALSE
  BY <1>2, <1>9 DEF CreateImmediate
<1>10. ASSUME NEW target \in Statuses, TransitionTask(target) PROVE FALSE
  BY <1>2, <1>10 DEF TransitionTask
<1>11. QED
  BY <1>3, <1>4, <1>5, <1>6, <1>7, <1>8, <1>9, <1>10 DEF Next

\* Only an execution's own step settles it, and what it settled stands.
LEMMA StepIsItsOwn ==
  TaskSafe /\ [Next]_vars => [SettledByItsRun /\ OutcomeStands]_vars
<1> SUFFICES ASSUME TaskSafe, [Next]_vars
             PROVE  SettledByItsRun /\ OutcomeStands
  OBVIOUS
<1>1. SettledByItsRun
  <2> SUFFICES ASSUME rec.run # None, ~Ended, rec'.status \in Outcomes
               PROVE  exec'[rec.run] # exec[rec.run]
    BY DEF SettledByItsRun
  <2>1. Ended'
    BY DEF Ended
  <2>2. PICK r \in Runs : Execute(r)
    BY <2>1, OthersSettleNothing
  <2>3. rec' # rec
    BY <2>1 DEF Ended
  <2>4. Belongs(r) /\ exec'[r] # exec[r]
    BY <2>2, <2>3, ExecuteSettles
  <2>5. QED
    BY <2>4 DEF Belongs
<1>2. OutcomeStands
  <2> SUFFICES ASSUME Ended PROVE OutcomeStands
    BY DEF OutcomeStands
  <2>1. CASE \E r \in Runs : Execute(r)
    <3>1. rec' = rec
      BY <2>1, ExecuteSettles
    <3>2. QED
      BY <3>1 DEF OutcomeStands
  <2>2. CASE \A r \in Runs : ~Execute(r)
    BY <2>2, OthersLeaveOutcome
  <2>3. QED
    BY <2>1, <2>2
<1>3. QED
  BY <1>1, <1>2

\* A task comes to its outcome by a step of its current run, and once it has one
\* nothing but the retry of a failed task takes it back, for any number of runs,
\* adapters and requests: a superseded execution never decides what became of
\* the next one, and no late event replaces an outcome by another.
THEOREM OutcomesAreOwn == Spec => OutcomeIsItsOwn
<1>1. QED
  BY InitSafe, NextSafe, StepIsItsOwn, PTL DEF Spec, OutcomeIsItsOwn

\* A request is answered with a change of the record only by its own commit.
LEMMA StepCommitsAsSeen ==
  TaskSafe /\ [Next]_vars =>
    [\A c \in Calls :
       (call[c].kind # "none" /\ call'[c].kind = "none" /\ rec' # rec) => rec = call[c].seen]_vars
<1> SUFFICES ASSUME TaskSafe, [Next]_vars, NEW c \in Calls,
                    call[c].kind # "none", call'[c].kind = "none", rec' # rec
             PROVE  rec = call[c].seen
  OBVIOUS
<1>1. /\ call \in [Calls -> Request]
      /\ \A d \in Calls : Bumped[d].kind = call[d].kind
      /\ call' # call /\ call' # Bumped
  BY BumpedType DEF TaskSafe, TypeOK
<1>2. ASSUME NEW d \in Calls, CommitAssign(d) \/ CommitStart(d) PROVE rec = call[c].seen
  <2>1. /\ call' = [Bumped EXCEPT ![d] = NoCall] /\ StillMatches(d) /\ call[d].kind # "none"
    BY <1>2 DEF CommitAssign, CommitStart
  <2>2. c = d
    BY <1>1, <2>1, BumpedType
  <2>3. QED
    BY <2>1, <2>2 DEF TaskSafe, CallInv, FreshIsCurrent, StillMatches
<1>3. ASSUME NEW d \in Calls,
             \/ \E a \in Adapters, q \in Reqs : AskAssign(d, a, q)
             \/ AskStart(d) \/ Refuse(d)
      PROVE  FALSE
  BY <1>3 DEF AskAssign, AskStart, Asked, Refuse
<1>4. ASSUME NEW r \in Runs, Execute(r) PROVE FALSE
  BY <1>1, <1>4, ExecuteSettles
<1>5. ASSUME NEW q \in Reqs, CreateDeferred(q) PROVE FALSE
  BY <1>1, <1>5 DEF CreateDeferred
<1>6. ASSUME NEW a \in Adapters, CreateImmediate(a) PROVE FALSE
  BY <1>1, <1>6 DEF CreateImmediate
<1>7. ASSUME NEW target \in Statuses, TransitionTask(target) PROVE FALSE
  BY <1>1, <1>7 DEF TransitionTask
<1>8. CASE RequestCancellation \/ PrepareRetry
  BY <1>1, <1>8 DEF RequestCancellation, PrepareRetry
<1>9. CASE Shutdown
  <2>1. call' = Bumped \/ call' = call
    BY <1>9 DEF Shutdown
  <2>2. QED
    BY <1>1, <2>1
<1>10. CASE UNCHANGED vars
  BY <1>10 DEF vars
<1>11. QED
  BY <1>2, <1>3, <1>4, <1>5, <1>6, <1>7, <1>8, <1>9, <1>10 DEF Next

\* What is committed after adapter.detect() was decided on the record as it
\* still is, for any number of requests in flight.
THEOREM NothingStaleIsCommitted == Spec => CommittedAsSeen
<1>1. QED
  BY InitSafe, NextSafe, StepCommitsAsSeen, PTL DEF Spec, CommittedAsSeen

-----------------------------------------------------------------------------
\* The promise.

Begun == {r \in Runs : exec[r].pc # "none"}

\* An open task is one in a planning column, without a run.
LEMMA Phases ==
  /\ rec.status = "absent" => Phase = "absent"
  /\ (rec.status \notin Outcomes \cup {"absent"} /\ rec.run = None) => Phase = "open"
  /\ (rec.status \notin Outcomes \cup {"absent"} /\ rec.run # None) => Phase = "underway"
  /\ Ended => Phase = rec.status
BY DEF Phase, Ended

\* A task before its creation promises nothing yet.
LEMMA InitKeepsPromise == Init => Promise!PromiseInit
<1> SUFFICES ASSUME Init PROVE Promise!PromiseInit
  OBVIOUS
<1>1. rec.status = "absent" /\ rec.run = None
  BY DEF Init, Absent
<1>2. {r \in Runs : exec[r].pc # "none"} = {}
  BY DEF Init
<1>3. QED
  BY <1>1, <1>2, Phases DEF Promise!PromiseInit

\* The beginning of a run is a Start.
LEMMA BeginStarts ==
  ASSUME TypeOK, Phase \in {"absent", "open"}, NEW r \in Runs, exec[r].pc = "none",
         exec' \in [Runs -> Execution], rec'.run = r,
         \/ exec'[r].pc = "preflight" /\ rec'.status = "assigned" /\ rec'.cancel = FALSE
         \/ exec'[r].pc = "gone" /\ rec'.status = "cancelled",
         \A s \in Runs : s # r => exec'[s] = exec[s]
  PROVE  Promise!Start(r)
<1>1. Phase' \in {"underway", "cancelled"}
  BY LogTypes DEF Phase, Outcomes
<1>2. {s \in Runs : exec'[s].pc # "none"} = {s \in Runs : exec[s].pc # "none"} \cup {r}
  OBVIOUS
<1>3. QED
  BY <1>1, <1>2 DEF Promise!Start

\* Every step keeps the promise, or is not seen.
LEMMA StepKeepsPromise ==
  TaskSafe /\ TaskSafe' /\ [Next]_vars => [Promise!PromiseNext]_(Promise!promise)
<1> SUFFICES ASSUME TaskSafe, [Next]_vars PROVE [Promise!PromiseNext]_(Promise!promise)
  OBVIOUS
<1>1. TypeOK /\ rec \in TaskRecord /\ None \notin Runs /\ LogInv /\ CallInv
  BY LogTypes DEF TaskSafe
<1>2. ASSUME Phase' = Phase, rec'.run = rec.run,
             \A s \in Runs : (exec'[s].pc # "none") <=> (exec[s].pc # "none")
      PROVE  UNCHANGED Promise!promise
  BY <1>2 DEF Promise!promise
<1>3. ASSUME rec'.status = rec.status, rec'.run = rec.run,
             \A s \in Runs : (exec'[s].pc # "none") <=> (exec[s].pc # "none")
      PROVE  UNCHANGED Promise!promise
  <2>1. Phase' = Phase
    BY <1>3 DEF Phase
  <2>2. QED
    BY <1>2, <1>3, <2>1
<1>4. ASSUME NEW q \in Reqs, CreateDeferred(q) PROVE Promise!Plan
  <2>1. /\ rec' = [Absent EXCEPT !.status = "backlog", !.req = q] /\ exec' = exec
        /\ rec.status = "absent"
    BY <1>4 DEF CreateDeferred
  <2>2. rec'.status = "backlog" /\ rec'.run = None
    BY <2>1 DEF Absent
  <2>3. rec.run = None
    BY <1>1, <2>1 DEF CallInv, NothingBeforeCreation
  <2>4. Phase = "absent" /\ Phase' = "open"
    BY <2>1, <2>2 DEF Phase, Outcomes
  <2>5. QED
    BY <2>1, <2>2, <2>3, <2>4 DEF Promise!Plan
<1>5. ASSUME NEW a \in Adapters, CreateImmediate(a) PROVE \E r \in Runs : Promise!Start(r)
  <2>1. rec.status = "absent" /\ marker = 0
    BY <1>1, <1>5 DEF CreateImmediate, CallInv, NothingBeforeCreation, LogInv, WaitingTaskHasOpenLog
  <2>2. PICK r \in Runs : FirstUnused(r) /\ Begin([Absent EXCEPT !.status = "assigned", !.run = r, !.adapter = a], r)
    BY <1>5 DEF CreateImmediate
  <2> DEFINE row == [Absent EXCEPT !.status = "assigned", !.run = r, !.adapter = a]
  <2>3. row \in TaskRecord /\ row.run = r /\ row.status = "assigned"
    BY EmptyTypes DEF TaskRecord, Statuses
  <2>4. Begin(row, r) /\ exec[r].pc = "none"
    BY <2>2 DEF FirstUnused
  <2> HIDE DEF row
  <2>5. Phase = "absent"
    BY <2>1, Phases
  <2>6. /\ exec' \in [Runs -> Execution] /\ rec'.run = r
        /\ \/ exec'[r].pc = "preflight" /\ rec'.status = "assigned" /\ rec'.cancel = FALSE
           \/ exec'[r].pc = "gone" /\ rec'.status = "cancelled"
        /\ \A s \in Runs : s # r => exec'[s] = exec[s]
    BY <1>1, <2>1, <2>3, <2>4, BeginStep
  <2>7. QED
    BY <1>1, <2>4, <2>5, <2>6, BeginStarts
<1>6. ASSUME NEW c \in Calls, CommitStart(c) PROVE \E r \in Runs : Promise!Start(r)
  <2>1. rec.run = None /\ rec.status = "assigned" /\ marker = 0
    BY <1>1, <1>6 DEF CommitStart, Startable, LogInv, WaitingTaskHasOpenLog
  <2>2. PICK r \in Runs : FirstUnused(r) /\ Begin([rec EXCEPT !.run = r], r)
    BY <1>6 DEF CommitStart
  <2> DEFINE row == [rec EXCEPT !.run = r]
  <2>3. row \in TaskRecord /\ row.run = r /\ row.status = "assigned"
    BY <1>1, <2>1 DEF TaskRecord
  <2>4. Begin(row, r) /\ exec[r].pc = "none"
    BY <2>2 DEF FirstUnused
  <2>5. PICK copy \in TaskRecord : copy = row
    BY <2>3
  <2> HIDE DEF row
  <2>6. Begin(copy, r) /\ copy.run = r /\ copy.status = "assigned"
    BY <2>3, <2>4, <2>5
  <2>7. Phase = "open"
    BY <2>1, Phases DEF Outcomes
  <2>8. /\ exec' \in [Runs -> Execution] /\ rec'.run = r
        /\ \/ exec'[r].pc = "preflight" /\ rec'.status = "assigned" /\ rec'.cancel = FALSE
           \/ exec'[r].pc = "gone" /\ rec'.status = "cancelled"
        /\ \A s \in Runs : s # r => exec'[s] = exec[s]
    BY <1>1, <2>1, <2>4, <2>6, BeginStep
  <2>9. QED
    BY <1>1, <2>4, <2>7, <2>8, BeginStarts
<1>7. ASSUME NEW target \in Statuses, TransitionTask(target)
      PROVE  Promise!CallOff \/ UNCHANGED Promise!promise
  <2>1. /\ rec.run = None /\ exec' = exec /\ rec.status \in {"backlog", "ready", "assigned", "blocked"}
        /\ target \in {"backlog", "ready", "blocked", "cancelled"}
    BY <1>7 DEF TransitionTask, ManualTransitions
  <2>2. rec'.status = target /\ rec'.run = None
    BY <1>1, <1>7, <2>1 DEF TransitionTask, TaskRecord
  <2>3. Phase = "open"
    BY <2>1 DEF Phase, Outcomes
  <2>4. CASE target = "cancelled"
    <3>1. Phase' = "cancelled"
      BY <2>2, <2>4 DEF Phase, Outcomes
    <3>2. QED
      BY <2>1, <2>2, <2>3, <3>1 DEF Promise!CallOff
  <2>5. CASE target # "cancelled"
    <3>1. Phase' = "open"
      BY <2>1, <2>2, <2>5 DEF Phase, Outcomes
    <3>2. QED
      BY <1>2, <2>1, <2>2, <2>3, <3>1
  <2>6. QED
    BY <2>4, <2>5
<1>8. CASE RequestCancellation
  <2>1. /\ exec' = Aborted({r \in Runs : Live(r) /\ Belongs(r)}) /\ rec' = [rec EXCEPT !.cancel = TRUE]
    BY <1>8 DEF RequestCancellation
  <2>2. \A s \in Runs : exec'[s].pc = exec[s].pc
    BY <1>1, <2>1, AbortedType DEF TypeOK
  <2>3. QED
    BY <1>1, <1>3, <2>1, <2>2 DEF TaskRecord
<1>9. CASE Shutdown
  <2>1. exec' = Aborted({r \in Runs : Live(r)})
    BY <1>9 DEF Shutdown
  <2>2. \A s \in Runs : exec'[s].pc = exec[s].pc
    BY <1>1, <2>1, AbortedType DEF TypeOK
  <2>3. rec'.status = rec.status /\ rec'.run = rec.run
    BY <1>1, <1>9 DEF Shutdown, TaskRecord
  <2>4. QED
    BY <1>3, <2>2, <2>3
<1>10. ASSUME NEW c \in Calls,
              \/ \E a \in Adapters, q \in Reqs : AskAssign(c, a, q)
              \/ AskStart(c) \/ Refuse(c)
       PROVE  UNCHANGED Promise!promise
  BY <1>3, <1>10 DEF AskAssign, AskStart, Asked, Refuse
<1>11. ASSUME NEW c \in Calls, CommitAssign(c) PROVE UNCHANGED Promise!promise
  <2>1. rec'.status = "assigned" /\ rec'.run = rec.run /\ exec' = exec /\ Assignable
    BY <1>1, <1>11 DEF CommitAssign, TaskRecord
  <2>2. Phase' = Phase
    BY <2>1 DEF Phase, Assignable, Outcomes
  <2>3. QED
    BY <1>2, <2>1, <2>2
<1>12. CASE PrepareRetry
  <2>1. /\ rec.status = "failed" /\ exec' = exec
        /\ rec' = [rec EXCEPT !.status = "assigned", !.run = None, !.outcome = None, !.cancel = FALSE]
    BY <1>12 DEF PrepareRetry
  <2>2. rec'.status = "assigned" /\ rec'.run = None
    BY <1>1, <2>1 DEF TaskRecord
  <2>3. Phase = "failed" /\ Phase' = "open"
    BY <2>1, <2>2 DEF Phase, Outcomes
  <2>4. Promise!Reopen
    BY <2>1, <2>2, <2>3 DEF Promise!Reopen
  <2>5. QED
    BY <2>4 DEF Promise!PromiseNext
<1>13. ASSUME NEW r \in Runs, Execute(r) PROVE Promise!Settle(r) \/ UNCHANGED Promise!promise
  <2>1. /\ rec'.run = rec.run
        /\ \A s \in Runs : (exec'[s].pc # "none") <=> (exec[s].pc # "none")
        /\ \/ rec' = rec
           \/ Belongs(r) /\ ~Ended /\ rec'.status \in Outcomes \cup {"running", rec.status}
    BY <1>13, ExecuteSettles
  <2>2. CASE rec' = rec
    BY <1>3, <2>1, <2>2
  <2>3. CASE Belongs(r) /\ ~Ended /\ rec'.status \in Outcomes \cup {"running", rec.status}
    <3>1. rec.run = r /\ rec.status # "absent"
      BY <1>1, <2>3 DEF Belongs, CallInv, NothingBeforeCreation
    <3>2. Phase = "underway"
      BY <1>1, <2>3, <3>1 DEF Phase, Ended
    <3>3. CASE rec'.status \in Outcomes
      <4>1. Phase' \in Promise!Results
        BY <3>3 DEF Phase, Outcomes, Promise!Results
      <4>2. {s \in Runs : exec'[s].pc # "none"} = {s \in Runs : exec[s].pc # "none"}
        BY <2>1
      <4>3. QED
        BY <2>1, <3>1, <3>2, <4>1, <4>2 DEF Promise!Settle
    <3>4. CASE rec'.status \notin Outcomes
      <4>1. Phase' = "underway"
        BY <1>1, <2>1, <2>3, <3>1, <3>4 DEF Phase
      <4>2. QED
        BY <1>2, <2>1, <3>2, <4>1
    <3>5. QED
      BY <3>3, <3>4
  <2>4. QED
    BY <2>1, <2>2, <2>3
<1>14. CASE UNCHANGED vars
  BY <1>3, <1>14 DEF vars
<1>15. QED
  BY <1>4, <1>5, <1>6, <1>7, <1>8, <1>9, <1>10, <1>11, <1>12, <1>13, <1>14
  DEF Next, Promise!PromiseNext

\* The lifecycle is one that TaskPromise allows, for any number of runs, events
\* and requests: the safety half of the refinement that the runs check.
THEOREM LifecycleKeepsPromise == Spec => Promise!PromiseSpec
<1>1. QED
  BY InitSafe, NextSafe, InitKeepsPromise, StepKeepsPromise, PTL DEF Spec, Promise!PromiseSpec
=============================================================================
