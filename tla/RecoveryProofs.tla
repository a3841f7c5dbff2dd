--------------------------- MODULE RecoveryProofs ---------------------------
(***************************************************************************)
(* What a restart preserves (RestartRecovery), for every bound on attempts,*)
(* stops and requests.                                                     *)
(*                                                                         *)
(* What a row may be depends on which transactions of the handler under way*)
(* have been committed, so IInv speaks about host.todo: its classes below  *)
(* name the handlers.  WaitInv adds why an interrupted attempt is followed *)
(* by another only for an operator: whom the resumed run and its signals   *)
(* are owed to.  For each action XMoves says what becomes of host, XKeeps  *)
(* that IInv is kept, and XWaits that WaitInv is.                          *)
(***************************************************************************)
EXTENDS RestartRecovery, SequenceTheorems, TLAPS

-----------------------------------------------------------------------------
\* What is pending, by the handler that left it.

Counting == {<<"meta">>, <<"meta", "running">>, <<"meta", "status", "outcome">>,
             <<"meta", "outcome", "status", "hook">>}
Settling == {<<"meta", "outcome", "status", "hook">>, <<"outcome", "status", "hook">>,
             <<"status", "hook">>}
Replaying == {<<"meta", "status", "outcome">>, <<"status", "outcome">>, <<"outcome">>}
Beginning == {<<"meta", "running">>, <<"running">>}
Hooked == {<<"hook">>}
Advancing == {<<"advance", "complete">>, <<"advance_for_operator", "complete">>}
Reopening == {<<"reopen", "advance", "complete">>,
              <<"reopen", "advance_for_operator", "complete">>}
Calling == {<<"launch", "complete">>, <<"launch">>}
Recording == {<<"attempt_runs", "step_runs", "complete">>}
Marking == {<<"step_runs", "complete">>}
Failing == {<<"attempt_fails", "step_waits", "pause", "complete">>}
Pausing == {<<"step_waits", "pause", "complete">>, <<"pause", "complete">>, <<"pause">>}
Continuing == {<<"continue">>}
Preparing == {<<"reopen", "enqueue">>}
Enqueueing == {<<"enqueue">>}
Free == {<<>>, <<"complete">>}

InTasks == {<<>>, <<"meta">>} \cup Replaying
BesideAgent == Free \cup Continuing \cup Marking \cup Beginning \cup Recording \cup Advancing
InService ==
  BesideAgent \cup Settling \cup Hooked \cup Reopening \cup Calling \cup Failing \cup Pausing
    \cup Preparing \cup Enqueueing

Reconciled == Serving \/ host.pc = "runs"
Events == 1..Len(log.events)

-----------------------------------------------------------------------------
\* What is pending fits the phase of the process.
PhaseInv ==
  /\ ~Serving => host.agent = 0 /\ host.ready = 0
  /\ host.pc \in {"down", "runs"} => host.todo = <<>>
  /\ host.pc = "tasks" => host.todo \in InTasks
  /\ Serving => host.todo \in InService
  /\ host.todo \in Advancing \cup Reopening => plan.status = "running"
  /\ host.todo \in Continuing => host.intent \in 1..Len(intents)

\* The log speaks of launched attempts only, and the run the task names is the
\* last one in it.
LogInv ==
  /\ launched \subseteq 1..Len(attempts)
  /\ task.run \in launched \cup {0}
  /\ \A i \in Events : log.events[i].run \in launched
  /\ OneOutcomePerRun
  /\ \A i \in Events :
       log.events[i].type \in Outcomes /\ log.events[i].run = task.run => i = Len(log.events)
  /\ \A i \in Events :
       log.events[i].type = "completed"
         => i = Len(log.events) /\ host.agent = 0 /\ task.status \in {"running", "completed"}

\* What must be true of the end of the log.
EndInv ==
  /\ log.closed => LastIsOutcome
  /\ task.status \in TaskEnds => LastIsOutcome
  /\ task.run = 0 => log.events = <<>> \/ LastIsOutcome
  /\ host.todo \in Settling \cup Replaying => LastIsOutcome
  /\ host.todo \in Hooked => task.status \in TaskEnds

CountInv ==
  /\ EventsAreCountedOnce
  /\ host.todo \in Counting => task.count < Len(log.events)

\* The execution in this process, its attempt, its task and its step.
AgentInv ==
  host.agent # 0 =>
    /\ host.agent = Len(attempts) /\ host.agent = task.run /\ host.ready = 0
    /\ task.status \in {"assigned", "running"}
    /\ ~log.closed
    /\ host.todo \in BesideAgent
    /\ attempts[Len(attempts)].status = IF host.todo \in Recording THEN "claimed" ELSE "running"
    /\ host.todo \notin Recording \cup Marking => step.status = "running"
    /\ \A i \in Events : log.events[i].run = host.agent =>
         /\ log.events[i].type \notin Outcomes
         /\ host.todo \in Beginning \/ task.status = "running"

\* Which attempt the pending transactions are about.
AttemptInv ==
  /\ \A n \in 1..Len(attempts) : attempts[n].status \in Occupied => n = Len(attempts)
  /\ host.todo \in Beginning \cup Recording \cup Marking => host.agent # 0
  /\ host.ready # 0 \/ host.todo \in Calling =>
       /\ host.agent = 0 /\ Len(attempts) # 0
       /\ attempts[Len(attempts)].status = "claimed" /\ attempts[Len(attempts)].run = 0
       /\ Len(attempts) \notin launched
  /\ host.ready # 0 => host.ready = Len(attempts) /\ host.todo = <<>>
  /\ host.todo \in Failing => Len(attempts) # 0 /\ attempts[Len(attempts)].status = "claimed"
  /\ host.todo \in Settling \cup Hooked =>
       Len(attempts) # 0 /\ attempts[Len(attempts)].status = "running" /\ step.status = "running"

\* The task between its runs.
BetweenInv ==
  /\ host.todo \in Reopening \cup Preparing => Launchable
  /\ Reconciled /\ host.todo \notin Reopening \cup Preparing /\ Launchable
       => ~log.closed
  /\ Reconciled /\ host.todo \notin Settling /\ task.run # 0 /\ task.status \notin TaskEnds
       => host.agent = task.run

\* The intents: what they retry was abandoned, one at most is still to be
\* claimed, and none leads to an attempt that was launched.
IntentInv ==
  /\ \A i \in 1..Len(intents) :
       /\ intents[i].old <= Len(attempts) /\ attempts[intents[i].old].status = "abandoned"
       /\ intents[i].new <= Len(attempts)
  /\ \A i, j \in 1..Len(intents) : intents[i].new = 0 /\ intents[j].new = 0 => i = j
  /\ \A i, j \in 1..Len(intents) :
       intents[i].new = 0 /\ intents[j].new # 0 => attempts[intents[j].new].status \notin Occupied
  /\ \A i \in 1..Len(intents) :
       Launchable /\ intents[i].new # 0 /\ attempts[intents[i].new].status = "claimed"
         => intents[i].new \notin launched

HistoryInv ==
  /\ PhaseInv /\ LogInv /\ EndInv /\ CountInv
  /\ AgentInv /\ AttemptInv /\ BetweenInv /\ IntentInv

-----------------------------------------------------------------------------
\* Why an interrupted attempt waits for an operator.

\* Nobody has acted since the pause; the run was resumed by an intent.
Resting ==
  /\ plan.status = "running" /\ ~consent
  /\ attempts # <<>> /\ attempts[Len(attempts)].status = "abandoned"

Silent == ~signals.run /\ ~signals.step.on
Unclaimed == \E i \in 1..Len(intents) : intents[i].new = 0
RetryPending == Preparing \cup Enqueueing \cup {<<"advance_for_operator", "complete">>}

\* A run that nobody resumed after the pause has an intent behind it, and a run
\* that is paused has no signal.
AskedInv ==
  /\ log.events = <<>> => intents = <<>>
  /\ ~consent /\ intents = <<>> => plan.status # "running"
  /\ plan.status \in {"paused", "awaiting_intervention"} => Silent
  /\ host.pc = "runs" /\ Launchable => log.events = <<>>
  /\ host.pc # "down" => clean = FALSE

\* A claim that follows an abandoned attempt is an operator's, or an intent's.
ClaimInv ==
  (host.ready # 0 \/ host.todo \in Calling) /\ ~consent
  /\ Len(attempts) > 1 /\ attempts[Len(attempts) - 1].status = "abandoned"
    => \E i \in 1..Len(intents) : intents[i].new = Len(attempts)

\* While the run rests, the only signals are those of its intents.
RestInv ==
  Resting =>
    /\ host.pc \in {"up", "closing"} => Silent /\ host.todo = <<>>
    /\ (host.pc = "down" /\ clean) \/ (host.pc \in {"tasks", "runs"} /\ ~host.unclean) => Silent
    /\ host.pc = "draining" =>
         /\ ~signals.step.on /\ ~Launchable
         /\ host.todo \in Free \cup {<<"advance", "complete">>}
    /\ host.pc = "intents" =>
         /\ ~signals.run /\ (signals.step.on => signals.step.manual /\ signals.step.due)
         /\ host.todo \in Free \cup {<<"pause", "complete">>} \cup Continuing \cup RetryPending
         /\ signals.step.on \/ host.todo \in RetryPending => Unclaimed

WaitInv == AskedInv /\ ClaimInv /\ RestInv

-----------------------------------------------------------------------------
IInv == TypeOK /\ HistoryInv

-----------------------------------------------------------------------------
\* The types of the rows, by name.

Tasks == [status : {"assigned", "running"} \cup TaskEnds, run : 0..MaxAttempts,
          outcome : Outcomes \cup {None}, count : Nat]
Event == [run : Number, type : Outcomes \cup {"started"}]
Logs == [events : Seq(Event), closed : BOOLEAN]
Plans == [status : {"running", "paused", "awaiting_intervention", "completed", "cancelled"},
          swept : BOOLEAN]
Steps == [status : {"ready", "claimed", "running", "retry_wait", "awaiting_intervention"}
                     \cup TaskEnds,
          waiting : BOOLEAN]
Attempt == [status : {"claimed", "running", "abandoned"} \cup TaskEnds, run : 0..MaxAttempts]
Attempts == {a \in Seq(Attempt) : Len(a) <= MaxAttempts}
Intent == [old : Number, new : 0..MaxAttempts]
Signals == [run : BOOLEAN, step : [on : BOOLEAN, manual : BOOLEAN, self : BOOLEAN, due : BOOLEAN]]
Hosts == [pc : {"down", "tasks", "runs", "draining", "intents", "up", "closing"},
          todo : Seq(Transactions), agent : 0..MaxAttempts, ready : 0..MaxAttempts,
          index : BOOLEAN, unclean : BOOLEAN, intent : Nat]

LEMMA Types ==
  TypeOK <=>
    /\ task \in Tasks /\ log \in Logs /\ plan \in Plans /\ step \in Steps
    /\ attempts \in Attempts /\ intents \in Seq(Intent) /\ signals \in Signals
    /\ clean \in BOOLEAN /\ consent \in BOOLEAN /\ host \in Hosts /\ launched \subseteq Number
  BY DEF TypeOK, Tasks, Event, Logs, Plans, Steps, Attempt, Attempts, Intent, Signals, Hosts

LEMMA TypesNext ==
  TypeOK' <=>
    /\ task' \in Tasks /\ log' \in Logs /\ plan' \in Plans /\ step' \in Steps
    /\ attempts' \in Attempts /\ intents' \in Seq(Intent) /\ signals' \in Signals
    /\ clean' \in BOOLEAN /\ consent' \in BOOLEAN /\ host' \in Hosts /\ launched' \subseteq Number
  BY DEF TypeOK, Tasks, Event, Logs, Plans, Steps, Attempt, Attempts, Intent, Signals, Hosts

\* The end of a tuple.
LEMMA TailOf1 ==
  ASSUME NEW s, NEW a, s = <<a>>
  PROVE  Tail(s) = <<>>
<1>1. Tail(s) = Tail(<<a>>)
  BY Zenon
<1> QED
  BY <1>1

LEMMA TailOf2 ==
  ASSUME NEW s, NEW a, NEW b, s = <<a, b>>
  PROVE  Tail(s) = <<b>>
<1>1. Tail(s) = Tail(<<a, b>>)
  BY Zenon
<1> QED
  BY <1>1

LEMMA TailOf3 ==
  ASSUME NEW s, NEW a, NEW b, NEW c, s = <<a, b, c>>
  PROVE  Tail(s) = <<b, c>>
<1>1. Tail(s) = Tail(<<a, b, c>>)
  BY Zenon
<1> QED
  BY <1>1

LEMMA TailOf4 ==
  ASSUME NEW s, NEW a, NEW b, NEW c, NEW d, s = <<a, b, c, d>>
  PROVE  Tail(s) = <<b, c, d>>
<1>1. Tail(s) = Tail(<<a, b, c, d>>)
  BY Zenon
<1> QED
  BY <1>1

\* What a transaction puts in front of a rest.
LEMMA Fronts ==
  ASSUME NEW a \in Transactions, NEW b \in Transactions, NEW c \in Transactions
  PROVE  /\ <<a>> \o <<>> = <<a>> /\ <<a>> \o <<b>> = <<a, b>>
         /\ <<a, b>> \o <<>> = <<a, b>> /\ <<a, b>> \o <<c>> = <<a, b, c>>
<1>1. /\ <<>> \in Seq(Transactions) /\ <<a>> \in Seq(Transactions) /\ <<b>> \in Seq(Transactions)
      /\ <<c>> \in Seq(Transactions) /\ <<a, b>> \in Seq(Transactions)
      /\ <<a, b, c>> \in Seq(Transactions)
  OBVIOUS
<1>2. <<a>> \o <<>> = <<a>> /\ <<a, b>> \o <<>> = <<a, b>>
  BY <1>1, ConcatEmptySeq
<1>3. <<a>> \o <<b>> = <<a, b>>
  <2>1. /\ <<a>> \o <<b>> \in Seq(Transactions)
        /\ Len(<<a>> \o <<b>>) = 2 /\ (<<a>> \o <<b>>)[1] = a /\ (<<a>> \o <<b>>)[2] = b
    BY <1>1, ConcatProperties
  <2>2. \A i \in 1..Len(<<a>> \o <<b>>) : (<<a>> \o <<b>>)[i] = <<a, b>>[i]
    BY <2>1
  <2> QED
    BY <1>1, <2>1, <2>2, SeqEqual
<1>4. <<a, b>> \o <<c>> = <<a, b, c>>
  <2>1. /\ <<a, b>> \o <<c>> \in Seq(Transactions)
        /\ Len(<<a, b>> \o <<c>>) = 3 /\ (<<a, b>> \o <<c>>)[1] = a
        /\ (<<a, b>> \o <<c>>)[2] = b /\ (<<a, b>> \o <<c>>)[3] = c
    BY <1>1, ConcatProperties
  <2>2. \A i \in 1..Len(<<a, b>> \o <<c>>) : (<<a, b>> \o <<c>>)[i] = <<a, b, c>>[i]
    BY <2>1
  <2> QED
    BY <1>1, <2>1, <2>2, SeqEqual
<1> QED
  BY <1>2, <1>3, <1>4

\* A transaction that is done leaves the rest, and what it adds in front of it.
LEMMA RestOf ==
  ASSUME TypeOK, NEW more \in Seq(Transactions), host.todo # <<>>, Done(more)
  PROVE  /\ host' \in Hosts
         /\ host'.todo = more \o Tail(host.todo)
         /\ more = <<>> => host'.todo = Tail(host.todo)
         /\ host'.pc = host.pc /\ host'.agent = host.agent /\ host'.ready = host.ready
         /\ host'.index = host.index /\ host'.unclean = host.unclean /\ host'.intent = host.intent
<1>1. host.todo \in Seq(Transactions)
  BY Types DEF Hosts
<1>2. Tail(host.todo) \in Seq(Transactions)
  BY <1>1, HeadTailProperties
<1>3. more \o Tail(host.todo) \in Seq(Transactions)
  BY <1>2, ConcatProperties
<1>4. <<>> \o Tail(host.todo) = Tail(host.todo)
  BY <1>2, ConcatEmptySeq
<1>5. host' = [host EXCEPT !.todo = more \o Tail(host.todo)]
  BY DEF Done
<1> QED
  BY <1>3, <1>4, <1>5, Types DEF Hosts

\* A transaction with nothing to add.
LEMMA Rest ==
  ASSUME TypeOK, host.todo # <<>>, Done(<<>>)
  PROVE  /\ host' \in Hosts
         /\ host'.todo = Tail(host.todo)
         /\ host'.pc = host.pc /\ host'.agent = host.agent /\ host'.ready = host.ready
         /\ host'.index = host.index /\ host'.unclean = host.unclean /\ host'.intent = host.intent
<1>1. <<>> \in Seq(Transactions)
  OBVIOUS
<1> QED
  BY <1>1, RestOf

LEMMA Heads ==
  ASSUME NEW a, NEW b, NEW c, NEW d
  PROVE  /\ Head(<<a>>) = a /\ Head(<<a, b>>) = a
         /\ Head(<<a, b, c>>) = a /\ Head(<<a, b, c, d>>) = a
  OBVIOUS

\* What is pending, by its first transaction.
LEMMA PendingIs ==
  ASSUME TypeOK, PhaseInv, host.todo # <<>>
  PROVE  /\ host.todo \in InTasks \cup InService
         /\ Doing("meta") =>
              host.todo \in {<<"meta">>, <<"meta", "running">>,
                            <<"meta", "status", "outcome">>,
                            <<"meta", "outcome", "status", "hook">>}
         /\ Doing("running") => host.todo \in {<<"running">>}
         /\ Doing("outcome") => host.todo \in {<<"outcome">>, <<"outcome", "status", "hook">>}
         /\ Doing("status") => host.todo \in {<<"status", "outcome">>, <<"status", "hook">>}
         /\ Doing("hook") => host.todo \in {<<"hook">>}
         /\ Doing("reopen") =>
              host.todo \in {<<"reopen", "enqueue">>, <<"reopen", "advance", "complete">>,
                            <<"reopen", "advance_for_operator", "complete">>}
         /\ Doing("advance") => host.todo \in {<<"advance", "complete">>}
         /\ Doing("advance_for_operator") => host.todo \in {<<"advance_for_operator", "complete">>}
         /\ Doing("launch") => host.todo \in {<<"launch">>, <<"launch", "complete">>}
         /\ Doing("attempt_runs") => host.todo \in {<<"attempt_runs", "step_runs", "complete">>}
         /\ Doing("step_runs") => host.todo \in {<<"step_runs", "complete">>}
         /\ Doing("attempt_fails") =>
              host.todo \in {<<"attempt_fails", "step_waits", "pause", "complete">>}
         /\ Doing("step_waits") => host.todo \in {<<"step_waits", "pause", "complete">>}
         /\ Doing("pause") => host.todo \in {<<"pause">>, <<"pause", "complete">>}
         /\ Doing("complete") => host.todo \in {<<"complete">>}
         /\ Doing("continue") => host.todo \in {<<"continue">>}
         /\ Doing("enqueue") => host.todo \in {<<"enqueue">>}
<1>1. host.todo \in InTasks \cup InService
  BY DEF PhaseInv, TypeOK, InTasks, Serving
<1> USE <1>1, Heads DEF Doing, InTasks, InService, BesideAgent, Counting, Settling, Replaying,
    Beginning, Hooked, Advancing, Reopening, Calling, Recording, Marking, Failing, Pausing,
    Continuing, Preparing, Enqueueing, Free
<1>2. Doing("meta") => host.todo \in {<<"meta">>, <<"meta", "running">>, <<"meta", "status", "outcome">>, <<"meta", "outcome", "status", "hook">>}
  OBVIOUS
<1>3. Doing("running") => host.todo \in {<<"running">>}
  OBVIOUS
<1>4. Doing("outcome") => host.todo \in {<<"outcome">>, <<"outcome", "status", "hook">>}
  OBVIOUS
<1>5. Doing("status") => host.todo \in {<<"status", "outcome">>, <<"status", "hook">>}
  OBVIOUS
<1>6. Doing("hook") => host.todo \in {<<"hook">>}
  OBVIOUS
<1>7. Doing("reopen") => host.todo \in {<<"reopen", "enqueue">>, <<"reopen", "advance", "complete">>, <<"reopen", "advance_for_operator", "complete">>}
  OBVIOUS
<1>8. Doing("advance") => host.todo \in {<<"advance", "complete">>}
  OBVIOUS
<1>9. Doing("advance_for_operator") => host.todo \in {<<"advance_for_operator", "complete">>}
  OBVIOUS
<1>10. Doing("launch") => host.todo \in {<<"launch">>, <<"launch", "complete">>}
  OBVIOUS
<1>11. Doing("attempt_runs") => host.todo \in {<<"attempt_runs", "step_runs", "complete">>}
  OBVIOUS
<1>12. Doing("step_runs") => host.todo \in {<<"step_runs", "complete">>}
  OBVIOUS
<1>13. Doing("attempt_fails") => host.todo \in {<<"attempt_fails", "step_waits", "pause", "complete">>}
  OBVIOUS
<1>14. Doing("step_waits") => host.todo \in {<<"step_waits", "pause", "complete">>}
  OBVIOUS
<1>15. Doing("pause") => host.todo \in {<<"pause">>, <<"pause", "complete">>}
  OBVIOUS
<1>16. Doing("complete") => host.todo \in {<<"complete">>}
  OBVIOUS
<1>17. Doing("continue") => host.todo \in {<<"continue">>}
  OBVIOUS
<1>18. Doing("enqueue") => host.todo \in {<<"enqueue">>}
  OBVIOUS
<1> QED
  BY <1>1, <1>2, <1>3, <1>4, <1>5, <1>6, <1>7, <1>8, <1>9, <1>10, <1>11, <1>12, <1>13, <1>14, <1>15, <1>16, <1>17, <1>18

\* What is left when the first transaction is done.
LEMMA RestIs ==
  ASSUME TypeOK, PhaseInv, host.todo # <<>>, NEW rest, rest = Tail(host.todo)
  PROVE  /\ Doing("meta") =>
              \/ host.todo = <<"meta">> /\ rest = <<>>
              \/ host.todo = <<"meta", "running">> /\ rest = <<"running">>
              \/ host.todo = <<"meta", "status", "outcome">> /\ rest = <<"status", "outcome">>
              \/ host.todo = <<"meta", "outcome", "status", "hook">> /\ rest = <<"outcome", "status", "hook">>
         /\ Doing("running") => host.todo = <<"running">> /\ rest = <<>>
         /\ Doing("outcome") =>
              \/ host.todo = <<"outcome">> /\ rest = <<>>
              \/ host.todo = <<"outcome", "status", "hook">> /\ rest = <<"status", "hook">>
         /\ Doing("status") =>
              \/ host.todo = <<"status", "outcome">> /\ rest = <<"outcome">>
              \/ host.todo = <<"status", "hook">> /\ rest = <<"hook">>
         /\ Doing("hook") => host.todo = <<"hook">> /\ rest = <<>>
         /\ Doing("reopen") =>
              \/ host.todo = <<"reopen", "enqueue">> /\ rest = <<"enqueue">>
              \/ host.todo = <<"reopen", "advance", "complete">> /\ rest = <<"advance", "complete">>
              \/ host.todo = <<"reopen", "advance_for_operator", "complete">> /\ rest = <<"advance_for_operator", "complete">>
         /\ Doing("advance") => host.todo = <<"advance", "complete">> /\ rest = <<"complete">>
         /\ Doing("advance_for_operator") => host.todo = <<"advance_for_operator", "complete">> /\ rest = <<"complete">>
         /\ Doing("launch") =>
              \/ host.todo = <<"launch">> /\ rest = <<>>
              \/ host.todo = <<"launch", "complete">> /\ rest = <<"complete">>
         /\ Doing("attempt_runs") => host.todo = <<"attempt_runs", "step_runs", "complete">> /\ rest = <<"step_runs", "complete">>
         /\ Doing("step_runs") => host.todo = <<"step_runs", "complete">> /\ rest = <<"complete">>
         /\ Doing("attempt_fails") => host.todo = <<"attempt_fails", "step_waits", "pause", "complete">> /\ rest = <<"step_waits", "pause", "complete">>
         /\ Doing("step_waits") => host.todo = <<"step_waits", "pause", "complete">> /\ rest = <<"pause", "complete">>
         /\ Doing("pause") =>
              \/ host.todo = <<"pause">> /\ rest = <<>>
              \/ host.todo = <<"pause", "complete">> /\ rest = <<"complete">>
         /\ Doing("complete") => host.todo = <<"complete">> /\ rest = <<>>
         /\ Doing("continue") => host.todo = <<"continue">> /\ rest = <<>>
         /\ Doing("enqueue") => host.todo = <<"enqueue">> /\ rest = <<>>
<1>1. Doing("meta") =>
       \/ host.todo = <<"meta">> /\ rest = <<>>
       \/ host.todo = <<"meta", "running">> /\ rest = <<"running">>
       \/ host.todo = <<"meta", "status", "outcome">> /\ rest = <<"status", "outcome">>
       \/ host.todo = <<"meta", "outcome", "status", "hook">> /\ rest = <<"outcome", "status", "hook">>
  <2>1. host.todo = <<"meta">> => rest = <<>>
    BY TailOf1
  <2>2. host.todo = <<"meta", "running">> => rest = <<"running">>
    BY TailOf2
  <2>3. host.todo = <<"meta", "status", "outcome">> => rest = <<"status", "outcome">>
    BY TailOf3
  <2>4. host.todo = <<"meta", "outcome", "status", "hook">> => rest = <<"outcome", "status", "hook">>
    BY TailOf4
  <2> QED
    BY PendingIs, <2>1, <2>2, <2>3, <2>4
<1>2. Doing("running") => host.todo = <<"running">> /\ rest = <<>>
  <2>1. host.todo = <<"running">> => rest = <<>>
    BY TailOf1
  <2> QED
    BY PendingIs, <2>1
<1>3. Doing("outcome") =>
       \/ host.todo = <<"outcome">> /\ rest = <<>>
       \/ host.todo = <<"outcome", "status", "hook">> /\ rest = <<"status", "hook">>
  <2>1. host.todo = <<"outcome">> => rest = <<>>
    BY TailOf1
  <2>2. host.todo = <<"outcome", "status", "hook">> => rest = <<"status", "hook">>
    BY TailOf3
  <2> QED
    BY PendingIs, <2>1, <2>2
<1>4. Doing("status") =>
       \/ host.todo = <<"status", "outcome">> /\ rest = <<"outcome">>
       \/ host.todo = <<"status", "hook">> /\ rest = <<"hook">>
  <2>1. host.todo = <<"status", "outcome">> => rest = <<"outcome">>
    BY TailOf2
  <2>2. host.todo = <<"status", "hook">> => rest = <<"hook">>
    BY TailOf2
  <2> QED
    BY PendingIs, <2>1, <2>2
<1>5. Doing("hook") => host.todo = <<"hook">> /\ rest = <<>>
  <2>1. host.todo = <<"hook">> => rest = <<>>
    BY TailOf1
  <2> QED
    BY PendingIs, <2>1
<1>6. Doing("reopen") =>
       \/ host.todo = <<"reopen", "enqueue">> /\ rest = <<"enqueue">>
       \/ host.todo = <<"reopen", "advance", "complete">> /\ rest = <<"advance", "complete">>
       \/ host.todo = <<"reopen", "advance_for_operator", "complete">> /\ rest = <<"advance_for_operator", "complete">>
  <2>1. host.todo = <<"reopen", "enqueue">> => rest = <<"enqueue">>
    BY TailOf2
  <2>2. host.todo = <<"reopen", "advance", "complete">> => rest = <<"advance", "complete">>
    BY TailOf3
  <2>3. host.todo = <<"reopen", "advance_for_operator", "complete">> => rest = <<"advance_for_operator", "complete">>
    BY TailOf3
  <2> QED
    BY PendingIs, <2>1, <2>2, <2>3
<1>7. Doing("advance") => host.todo = <<"advance", "complete">> /\ rest = <<"complete">>
  <2>1. host.todo = <<"advance", "complete">> => rest = <<"complete">>
    BY TailOf2
  <2> QED
    BY PendingIs, <2>1
<1>8. Doing("advance_for_operator") => host.todo = <<"advance_for_operator", "complete">> /\ rest = <<"complete">>
  <2>1. host.todo = <<"advance_for_operator", "complete">> => rest = <<"complete">>
    BY TailOf2
  <2> QED
    BY PendingIs, <2>1
<1>9. Doing("launch") =>
       \/ host.todo = <<"launch">> /\ rest = <<>>
       \/ host.todo = <<"launch", "complete">> /\ rest = <<"complete">>
  <2>1. host.todo = <<"launch">> => rest = <<>>
    BY TailOf1
  <2>2. host.todo = <<"launch", "complete">> => rest = <<"complete">>
    BY TailOf2
  <2> QED
    BY PendingIs, <2>1, <2>2
<1>10. Doing("attempt_runs") => host.todo = <<"attempt_runs", "step_runs", "complete">> /\ rest = <<"step_runs", "complete">>
  <2>1. host.todo = <<"attempt_runs", "step_runs", "complete">> => rest = <<"step_runs", "complete">>
    BY TailOf3
  <2> QED
    BY PendingIs, <2>1
<1>11. Doing("step_runs") => host.todo = <<"step_runs", "complete">> /\ rest = <<"complete">>
  <2>1. host.todo = <<"step_runs", "complete">> => rest = <<"complete">>
    BY TailOf2
  <2> QED
    BY PendingIs, <2>1
<1>12. Doing("attempt_fails") => host.todo = <<"attempt_fails", "step_waits", "pause", "complete">> /\ rest = <<"step_waits", "pause", "complete">>
  <2>1. host.todo = <<"attempt_fails", "step_waits", "pause", "complete">> => rest = <<"step_waits", "pause", "complete">>
    BY TailOf4
  <2> QED
    BY PendingIs, <2>1
<1>13. Doing("step_waits") => host.todo = <<"step_waits", "pause", "complete">> /\ rest = <<"pause", "complete">>
  <2>1. host.todo = <<"step_waits", "pause", "complete">> => rest = <<"pause", "complete">>
    BY TailOf3
  <2> QED
    BY PendingIs, <2>1
<1>14. Doing("pause") =>
       \/ host.todo = <<"pause">> /\ rest = <<>>
       \/ host.todo = <<"pause", "complete">> /\ rest = <<"complete">>
  <2>1. host.todo = <<"pause">> => rest = <<>>
    BY TailOf1
  <2>2. host.todo = <<"pause", "complete">> => rest = <<"complete">>
    BY TailOf2
  <2> QED
    BY PendingIs, <2>1, <2>2
<1>15. Doing("complete") => host.todo = <<"complete">> /\ rest = <<>>
  <2>1. host.todo = <<"complete">> => rest = <<>>
    BY TailOf1
  <2> QED
    BY PendingIs, <2>1
<1>16. Doing("continue") => host.todo = <<"continue">> /\ rest = <<>>
  <2>1. host.todo = <<"continue">> => rest = <<>>
    BY TailOf1
  <2> QED
    BY PendingIs, <2>1
<1>17. Doing("enqueue") => host.todo = <<"enqueue">> /\ rest = <<>>
  <2>1. host.todo = <<"enqueue">> => rest = <<>>
    BY TailOf1
  <2> QED
    BY PendingIs, <2>1
<1> QED
  BY <1>1, <1>2, <1>3, <1>4, <1>5, <1>6, <1>7, <1>8, <1>9, <1>10, <1>11, <1>12, <1>13, <1>14, <1>15, <1>16, <1>17

\* What a run, an event and its replay leave pending, by class.
LEMMA KindsOfRuns ==
  ASSUME NEW s
  PROVE  /\ s = <<>> =>
              s \in Free /\ s \in BesideAgent /\ s \in InTasks /\ s \in InService
              /\ s \notin Counting /\ s \notin Settling /\ s \notin Replaying /\ s \notin Beginning
              /\ s \notin Hooked /\ s \notin Advancing /\ s \notin Reopening /\ s \notin Calling
              /\ s \notin Recording /\ s \notin Marking /\ s \notin Failing /\ s \notin Continuing
              /\ s \notin Preparing
         /\ s = <<"meta">> =>
              s \in Counting /\ s \in InTasks /\ s \notin Settling /\ s \notin Replaying
              /\ s \notin Beginning /\ s \notin Hooked /\ s \notin Advancing /\ s \notin Reopening
              /\ s \notin Calling /\ s \notin Recording /\ s \notin Marking /\ s \notin Failing
              /\ s \notin Continuing /\ s \notin Preparing /\ s \notin BesideAgent
              /\ s \notin InService
         /\ s = <<"meta", "running">> =>
              s \in Counting /\ s \in Beginning /\ s \in BesideAgent /\ s \in InService
              /\ s \notin Settling /\ s \notin Replaying /\ s \notin Hooked /\ s \notin Advancing
              /\ s \notin Reopening /\ s \notin Calling /\ s \notin Recording /\ s \notin Marking
              /\ s \notin Failing /\ s \notin Continuing /\ s \notin Preparing /\ s \notin InTasks
         /\ s = <<"running">> =>
              s \in Beginning /\ s \in BesideAgent /\ s \in InService /\ s \notin Counting
              /\ s \notin Settling /\ s \notin Replaying /\ s \notin Hooked /\ s \notin Advancing
              /\ s \notin Reopening /\ s \notin Calling /\ s \notin Recording /\ s \notin Marking
              /\ s \notin Failing /\ s \notin Continuing /\ s \notin Preparing /\ s \notin InTasks
         /\ s = <<"meta", "outcome", "status", "hook">> =>
              s \in Counting /\ s \in Settling /\ s \in InService /\ s \notin Replaying
              /\ s \notin Beginning /\ s \notin Hooked /\ s \notin Advancing /\ s \notin Reopening
              /\ s \notin Calling /\ s \notin Recording /\ s \notin Marking /\ s \notin Failing
              /\ s \notin Continuing /\ s \notin Preparing /\ s \notin BesideAgent
              /\ s \notin InTasks
         /\ s = <<"outcome", "status", "hook">> =>
              s \in Settling /\ s \in InService /\ s \notin Counting /\ s \notin Replaying
              /\ s \notin Beginning /\ s \notin Hooked /\ s \notin Advancing /\ s \notin Reopening
              /\ s \notin Calling /\ s \notin Recording /\ s \notin Marking /\ s \notin Failing
              /\ s \notin Continuing /\ s \notin Preparing /\ s \notin BesideAgent
              /\ s \notin InTasks
         /\ s = <<"status", "hook">> =>
              s \in Settling /\ s \in InService /\ s \notin Counting /\ s \notin Replaying
              /\ s \notin Beginning /\ s \notin Hooked /\ s \notin Advancing /\ s \notin Reopening
              /\ s \notin Calling /\ s \notin Recording /\ s \notin Marking /\ s \notin Failing
              /\ s \notin Continuing /\ s \notin Preparing /\ s \notin BesideAgent
              /\ s \notin InTasks
         /\ s = <<"hook">> =>
              s \in Hooked /\ s \in InService /\ s \notin Counting /\ s \notin Settling
              /\ s \notin Replaying /\ s \notin Beginning /\ s \notin Advancing
              /\ s \notin Reopening /\ s \notin Calling /\ s \notin Recording /\ s \notin Marking
              /\ s \notin Failing /\ s \notin Continuing /\ s \notin Preparing
              /\ s \notin BesideAgent /\ s \notin InTasks
         /\ s = <<"pause">> =>
              s \in Pausing /\ s \in InService /\ s \notin Counting /\ s \notin Settling
              /\ s \notin Replaying /\ s \notin Beginning /\ s \notin Hooked /\ s \notin Advancing
              /\ s \notin Reopening /\ s \notin Calling /\ s \notin Recording /\ s \notin Marking
              /\ s \notin Failing /\ s \notin Continuing /\ s \notin Preparing
              /\ s \notin BesideAgent /\ s \notin InTasks
         /\ s = <<"meta", "status", "outcome">> =>
              s \in Counting /\ s \in Replaying /\ s \in InTasks /\ s \notin Settling
              /\ s \notin Beginning /\ s \notin Hooked /\ s \notin Advancing /\ s \notin Reopening
              /\ s \notin Calling /\ s \notin Recording /\ s \notin Marking /\ s \notin Failing
              /\ s \notin Continuing /\ s \notin Preparing /\ s \notin BesideAgent
              /\ s \notin InService
         /\ s = <<"status", "outcome">> =>
              s \in Replaying /\ s \in InTasks /\ s \notin Counting /\ s \notin Settling
              /\ s \notin Beginning /\ s \notin Hooked /\ s \notin Advancing /\ s \notin Reopening
              /\ s \notin Calling /\ s \notin Recording /\ s \notin Marking /\ s \notin Failing
              /\ s \notin Continuing /\ s \notin Preparing /\ s \notin BesideAgent
              /\ s \notin InService
         /\ s = <<"outcome">> =>
              s \in Replaying /\ s \in InTasks /\ s \notin Counting /\ s \notin Settling
              /\ s \notin Beginning /\ s \notin Hooked /\ s \notin Advancing /\ s \notin Reopening
              /\ s \notin Calling /\ s \notin Recording /\ s \notin Marking /\ s \notin Failing
              /\ s \notin Continuing /\ s \notin Preparing /\ s \notin BesideAgent
              /\ s \notin InService
  BY DEF Counting, Settling, Replaying, Beginning, Hooked, Advancing, Reopening, Calling, Recording,
    Marking, Failing, Pausing, Continuing, Preparing, Enqueueing, Free, BesideAgent, InTasks,
    InService

\* What a claim leaves pending.
LEMMA KindsOfClaims ==
  ASSUME NEW s
  PROVE  /\ s = <<"advance", "complete">> =>
              s \in Advancing /\ s \in BesideAgent /\ s \in InService /\ s \notin Counting
              /\ s \notin Settling /\ s \notin Replaying /\ s \notin Beginning /\ s \notin Hooked
              /\ s \notin Reopening /\ s \notin Calling /\ s \notin Recording /\ s \notin Marking
              /\ s \notin Failing /\ s \notin Continuing /\ s \notin Preparing /\ s \notin InTasks
         /\ s = <<"advance_for_operator", "complete">> =>
              s \in Advancing /\ s \in BesideAgent /\ s \in InService /\ s \notin Counting
              /\ s \notin Settling /\ s \notin Replaying /\ s \notin Beginning /\ s \notin Hooked
              /\ s \notin Reopening /\ s \notin Calling /\ s \notin Recording /\ s \notin Marking
              /\ s \notin Failing /\ s \notin Continuing /\ s \notin Preparing /\ s \notin InTasks
         /\ s = <<"reopen", "advance", "complete">> =>
              s \in Reopening /\ s \in InService /\ s \notin Counting /\ s \notin Settling
              /\ s \notin Replaying /\ s \notin Beginning /\ s \notin Hooked /\ s \notin Advancing
              /\ s \notin Calling /\ s \notin Recording /\ s \notin Marking /\ s \notin Failing
              /\ s \notin Continuing /\ s \notin Preparing /\ s \notin BesideAgent
              /\ s \notin InTasks
         /\ s = <<"reopen", "advance_for_operator", "complete">> =>
              s \in Reopening /\ s \in InService /\ s \notin Counting /\ s \notin Settling
              /\ s \notin Replaying /\ s \notin Beginning /\ s \notin Hooked /\ s \notin Advancing
              /\ s \notin Calling /\ s \notin Recording /\ s \notin Marking /\ s \notin Failing
              /\ s \notin Continuing /\ s \notin Preparing /\ s \notin BesideAgent
              /\ s \notin InTasks
         /\ s = <<"launch", "complete">> =>
              s \in Calling /\ s \in InService /\ s \notin Counting /\ s \notin Settling
              /\ s \notin Replaying /\ s \notin Beginning /\ s \notin Hooked /\ s \notin Advancing
              /\ s \notin Reopening /\ s \notin Recording /\ s \notin Marking /\ s \notin Failing
              /\ s \notin Continuing /\ s \notin Preparing /\ s \notin BesideAgent
              /\ s \notin InTasks
         /\ s = <<"pause", "complete">> =>
              s \in Pausing /\ s \in InService /\ s \notin Counting /\ s \notin Settling
              /\ s \notin Replaying /\ s \notin Beginning /\ s \notin Hooked /\ s \notin Advancing
              /\ s \notin Reopening /\ s \notin Calling /\ s \notin Recording /\ s \notin Marking
              /\ s \notin Failing /\ s \notin Continuing /\ s \notin Preparing
              /\ s \notin BesideAgent /\ s \notin InTasks
         /\ s = <<"complete">> =>
              s \in Free /\ s \in BesideAgent /\ s \in InService /\ s \notin Counting
              /\ s \notin Settling /\ s \notin Replaying /\ s \notin Beginning /\ s \notin Hooked
              /\ s \notin Advancing /\ s \notin Reopening /\ s \notin Calling /\ s \notin Recording
              /\ s \notin Marking /\ s \notin Failing /\ s \notin Continuing /\ s \notin Preparing
              /\ s \notin InTasks
         /\ s = <<"launch">> =>
              s \in Calling /\ s \in InService /\ s \notin Counting /\ s \notin Settling
              /\ s \notin Replaying /\ s \notin Beginning /\ s \notin Hooked /\ s \notin Advancing
              /\ s \notin Reopening /\ s \notin Recording /\ s \notin Marking /\ s \notin Failing
              /\ s \notin Continuing /\ s \notin Preparing /\ s \notin BesideAgent
              /\ s \notin InTasks
  BY DEF Counting, Settling, Replaying, Beginning, Hooked, Advancing, Reopening, Calling, Recording,
    Marking, Failing, Pausing, Continuing, Preparing, Enqueueing, Free, BesideAgent, InTasks,
    InService

\* What a launch and a retry leave pending.
LEMMA KindsOfCalls ==
  ASSUME NEW s
  PROVE  /\ s = <<"attempt_runs", "step_runs", "complete">> =>
              s \in Recording /\ s \in BesideAgent /\ s \in InService /\ s \notin Counting
              /\ s \notin Settling /\ s \notin Replaying /\ s \notin Beginning /\ s \notin Hooked
              /\ s \notin Advancing /\ s \notin Reopening /\ s \notin Calling /\ s \notin Marking
              /\ s \notin Failing /\ s \notin Continuing /\ s \notin Preparing /\ s \notin InTasks
         /\ s = <<"step_runs", "complete">> =>
              s \in Marking /\ s \in BesideAgent /\ s \in InService /\ s \notin Counting
              /\ s \notin Settling /\ s \notin Replaying /\ s \notin Beginning /\ s \notin Hooked
              /\ s \notin Advancing /\ s \notin Reopening /\ s \notin Calling /\ s \notin Recording
              /\ s \notin Failing /\ s \notin Continuing /\ s \notin Preparing /\ s \notin InTasks
         /\ s = <<"attempt_fails", "step_waits", "pause", "complete">> =>
              s \in Failing /\ s \in InService /\ s \notin Counting /\ s \notin Settling
              /\ s \notin Replaying /\ s \notin Beginning /\ s \notin Hooked /\ s \notin Advancing
              /\ s \notin Reopening /\ s \notin Calling /\ s \notin Recording /\ s \notin Marking
              /\ s \notin Continuing /\ s \notin Preparing /\ s \notin BesideAgent
              /\ s \notin InTasks
         /\ s = <<"step_waits", "pause", "complete">> =>
              s \in Pausing /\ s \in InService /\ s \notin Counting /\ s \notin Settling
              /\ s \notin Replaying /\ s \notin Beginning /\ s \notin Hooked /\ s \notin Advancing
              /\ s \notin Reopening /\ s \notin Calling /\ s \notin Recording /\ s \notin Marking
              /\ s \notin Failing /\ s \notin Continuing /\ s \notin Preparing
              /\ s \notin BesideAgent /\ s \notin InTasks
         /\ s = <<"continue">> =>
              s \in Continuing /\ s \in BesideAgent /\ s \in InService /\ s \notin Counting
              /\ s \notin Settling /\ s \notin Replaying /\ s \notin Beginning /\ s \notin Hooked
              /\ s \notin Advancing /\ s \notin Reopening /\ s \notin Calling /\ s \notin Recording
              /\ s \notin Marking /\ s \notin Failing /\ s \notin Preparing /\ s \notin InTasks
         /\ s = <<"reopen", "enqueue">> =>
              s \in Preparing /\ s \in InService /\ s \notin Counting /\ s \notin Settling
              /\ s \notin Replaying /\ s \notin Beginning /\ s \notin Hooked /\ s \notin Advancing
              /\ s \notin Reopening /\ s \notin Calling /\ s \notin Recording /\ s \notin Marking
              /\ s \notin Failing /\ s \notin Continuing /\ s \notin BesideAgent /\ s \notin InTasks
         /\ s = <<"enqueue">> =>
              s \in Enqueueing /\ s \in InService /\ s \notin Counting /\ s \notin Settling
              /\ s \notin Replaying /\ s \notin Beginning /\ s \notin Hooked /\ s \notin Advancing
              /\ s \notin Reopening /\ s \notin Calling /\ s \notin Recording /\ s \notin Marking
              /\ s \notin Failing /\ s \notin Continuing /\ s \notin Preparing
              /\ s \notin BesideAgent /\ s \notin InTasks
  BY DEF Counting, Settling, Replaying, Beginning, Hooked, Advancing, Reopening, Calling, Recording,
    Marking, Failing, Pausing, Continuing, Preparing, Enqueueing, Free, BesideAgent, InTasks,
    InService

\* An event that is appended.
LEMMA Grown ==
  ASSUME TypeOK, NEW run \in Number, NEW type \in Outcomes \cup {"started"},
         log' = Appended(run, type)
  PROVE  /\ log' \in Logs
         /\ Len(log.events) \in Nat
         /\ Len(log'.events) = Len(log.events) + 1
         /\ \A i \in Events : log'.events[i] = log.events[i]
         /\ log'.events[Len(log.events) + 1].run = run
         /\ log'.events[Len(log.events) + 1].type = type
         /\ type \in Outcomes => log'.closed /\ LastIsOutcome'
         /\ type \notin Outcomes => log'.closed = log.closed
<1>1. log.events \in Seq(Event) /\ log.closed \in BOOLEAN
  BY Types DEF Logs
<1> DEFINE event == [run |-> run, type |-> type]
<1>2. event \in Event
  BY DEF Event
<1>3. log' = [events |-> Append(log.events, event), closed |-> log.closed \/ type \in Outcomes]
  BY DEF Appended
<1>4. log'.events = Append(log.events, event) /\ log'.closed = (log.closed \/ type \in Outcomes)
  BY <1>3
<1>5. /\ log'.events \in Seq(Event) /\ Len(log'.events) = Len(log.events) + 1
      /\ \A i \in 1..Len(log.events) : log'.events[i] = log.events[i]
      /\ log'.events[Len(log.events) + 1] = event
  <2> HIDE DEF event
  <2> QED
    BY <1>1, <1>2, <1>4, AppendProperties
<1>6. Len(log.events) \in Nat
  BY <1>1, LenProperties
<1>7. log' \in Logs
  <2>1. PICK closed \in BOOLEAN : closed = (log.closed \/ type \in Outcomes)
    OBVIOUS
  <2>2. log' = [events |-> log'.events, closed |-> closed]
    BY <1>3, <2>1
  <2> QED
    BY <1>5, <2>2 DEF Logs
<1>8. type \in Outcomes => LastIsOutcome'
  <2>1. log'.events # <<>>
    BY <1>5, <1>6
  <2>2. Last(log'.events) = event
    BY <1>5 DEF Last
  <2> QED
    BY <2>1, <2>2 DEF LastIsOutcome, Outcomes
<1>9. \A i \in Events : log'.events[i] = log.events[i]
  BY <1>5 DEF Events
<1>10. log'.events[Len(log.events) + 1].run = run /\ log'.events[Len(log.events) + 1].type = type
  BY <1>5
<1>11. type \in Outcomes => log'.closed
  BY <1>4, Zenon
<1>12. type \notin Outcomes => log'.closed = log.closed
  BY <1>1, <1>4
<1> QED
  BY <1>5, <1>6, <1>7, <1>8, <1>9, <1>10, <1>11, <1>12

\* The rows of one attempt are rewritten.
LEMMA Rewritten ==
  ASSUME TypeOK, NEW row \in Attempt, Len(attempts) # 0,
         attempts' = [attempts EXCEPT ![Len(attempts)] = row]
  PROVE  /\ attempts' \in Attempts /\ Len(attempts') = Len(attempts)
         /\ \A n \in 1..Len(attempts) : n # Len(attempts) => attempts'[n] = attempts[n]
         /\ attempts'[Len(attempts)] = row
<1>1. attempts \in Seq(Attempt) /\ Len(attempts) <= MaxAttempts /\ Len(attempts) \in Nat
  BY Types DEF Attempts
<1>2. Len(attempts) \in 1..Len(attempts)
  BY <1>1
<1>3. /\ attempts' \in Seq(Attempt) /\ Len(attempts') = Len(attempts)
      /\ \A n \in 1..Len(attempts) : attempts'[n] = IF n = Len(attempts) THEN row ELSE attempts[n]
  BY <1>1, <1>2, ExceptSeq
<1> QED
  BY <1>1, <1>2, <1>3 DEF Attempts

\* recordEventMeta
LEMMA MetaMoves ==
  ASSUME IInv, RecordEventMeta
  PROVE  /\ host' \in Hosts /\ host'.pc = host.pc /\ host'.agent = host.agent
         /\ host'.ready = host.ready /\ host'.intent = host.intent /\ host'.unclean = host.unclean
         /\ \/ host.todo = <<"meta">> /\ host'.todo = <<>>
            \/ host.todo = <<"meta", "running">> /\ host'.todo = <<"running">>
            \/ host.todo = <<"meta", "status", "outcome">> /\ host'.todo = <<"status", "outcome">>
            \/ host.todo = <<"meta", "outcome", "status", "hook">> /\ host'.todo = <<"outcome", "status", "hook">>
<1> USE DEF IInv, HistoryInv
<1>1. host.todo # <<>> /\ Done(<<>>)
  BY DEF RecordEventMeta, Doing
<1>2. host'.todo = Tail(host.todo)
  BY <1>1, Rest
<1> QED
  BY <1>1, <1>2, Rest, RestIs DEF RecordEventMeta

LEMMA MetaKeeps ==
  ASSUME IInv, RecordEventMeta
  PROVE  IInv'
<1> USE DEF IInv, HistoryInv
<1>1. /\ host' \in Hosts /\ host'.pc = host.pc /\ host'.agent = host.agent
      /\ host'.ready = host.ready /\ host'.intent = host.intent /\ host'.unclean = host.unclean
      /\ \/ host.todo = <<"meta">> /\ host'.todo = <<>>
         \/ host.todo = <<"meta", "running">> /\ host'.todo = <<"running">>
         \/ host.todo = <<"meta", "status", "outcome">> /\ host'.todo = <<"status", "outcome">>
         \/ host.todo = <<"meta", "outcome", "status", "hook">> /\ host'.todo = <<"outcome", "status", "hook">>
  BY MetaMoves
<1>2. /\ task' \in Tasks /\ task.count \in Nat /\ task'.count = task.count + 1
      /\ Len(log.events) \in Nat
      /\ task'.status = task.status /\ task'.run = task.run
      /\ UNCHANGED <<log, plan, step, attempts, intents, signals, clean, launched, consent>>
  BY Types DEF RecordEventMeta, Tasks, Logs
<1>3. TypeOK'
  BY <1>1, <1>2, Types, TypesNext
<1>4. PhaseInv'
  BY <1>1, <1>2, KindsOfRuns DEF PhaseInv, Serving
<1>5. LogInv'
  BY <1>1, <1>2, KindsOfRuns DEF LogInv, Events, OneOutcomePerRun
<1>6. EndInv'
  BY <1>1, <1>2, KindsOfRuns DEF EndInv, LastIsOutcome
<1>7. CountInv'
  <2>1. host.todo \in Counting /\ host'.todo \notin Counting
    BY <1>1, KindsOfRuns
  <2> QED
    BY <1>2, <2>1 DEF CountInv, EventsAreCountedOnce
<1>8. AgentInv'
  BY <1>1, <1>2, KindsOfRuns DEF AgentInv, Events, Serving
<1>9. AttemptInv'
  BY <1>1, <1>2, KindsOfRuns DEF AttemptInv
<1>10. BetweenInv'
  BY <1>1, <1>2, KindsOfRuns DEF BetweenInv, Reconciled, Serving, Launchable
<1>11. IntentInv'
  BY <1>1, <1>2, KindsOfRuns DEF IntentInv, Launchable
<1> QED
  BY <1>3, <1>4, <1>5, <1>6, <1>7, <1>8, <1>9, <1>10, <1>11

\* startRunning
LEMMA RunningMoves ==
  ASSUME IInv, StartRunning
  PROVE  /\ host' \in Hosts /\ host'.pc = host.pc /\ host'.agent = host.agent
         /\ host'.ready = host.ready /\ host'.intent = host.intent /\ host'.unclean = host.unclean
         /\ host.todo = <<"running">> /\ host'.todo = <<>>
<1> USE DEF IInv, HistoryInv
<1>1. host.todo # <<>> /\ Done(<<>>)
  BY DEF StartRunning, Doing
<1>2. host'.todo = Tail(host.todo)
  BY <1>1, Rest
<1> QED
  BY <1>1, <1>2, Rest, RestIs DEF StartRunning

LEMMA RunningKeeps ==
  ASSUME IInv, StartRunning
  PROVE  IInv'
<1> USE DEF IInv, HistoryInv
<1>1. /\ host' \in Hosts /\ host'.pc = host.pc /\ host'.agent = host.agent
      /\ host'.ready = host.ready /\ host'.intent = host.intent /\ host'.unclean = host.unclean
      /\ host.todo = <<"running">> /\ host'.todo = <<>>
  BY RunningMoves
<1>2. /\ task' \in Tasks /\ task'.status = "running" /\ task'.run = task.run /\ task'.count = task.count
      /\ UNCHANGED <<log, plan, step, attempts, intents, signals, clean, launched, consent>>
  BY Types DEF StartRunning, Tasks
<1>3. TypeOK'
  BY <1>1, <1>2, Types, TypesNext
<1>4. PhaseInv'
  BY <1>1, <1>2, KindsOfRuns DEF PhaseInv, Serving, TaskEnds
<1>5. LogInv'
  BY <1>1, <1>2, KindsOfRuns DEF LogInv, Events, OneOutcomePerRun, TaskEnds
<1>6. EndInv'
  BY <1>1, <1>2, KindsOfRuns DEF EndInv, LastIsOutcome, TaskEnds
<1>7. CountInv'
  BY <1>1, <1>2, KindsOfRuns DEF CountInv, EventsAreCountedOnce, TaskEnds
<1>8. AgentInv'
  BY <1>1, <1>2, KindsOfRuns DEF AgentInv, Events, Serving, TaskEnds
<1>9. AttemptInv'
  BY <1>1, <1>2, KindsOfRuns DEF AttemptInv, TaskEnds
<1>10. BetweenInv'
  BY <1>1, <1>2, KindsOfRuns DEF BetweenInv, Reconciled, Serving, Launchable, TaskEnds, AttemptInv, AgentInv
<1>11. IntentInv'
  BY <1>1, <1>2, KindsOfRuns DEF IntentInv, Launchable, TaskEnds
<1> QED
  BY <1>3, <1>4, <1>5, <1>6, <1>7, <1>8, <1>9, <1>10, <1>11

\* setCompleted
LEMMA OutcomeMoves ==
  ASSUME IInv, SetCompleted
  PROVE  /\ host' \in Hosts /\ host'.pc = host.pc /\ host'.agent = host.agent
         /\ host'.ready = host.ready /\ host'.intent = host.intent /\ host'.unclean = host.unclean
         /\ \/ host.todo = <<"outcome">> /\ host'.todo = <<>>
            \/ host.todo = <<"outcome", "status", "hook">> /\ host'.todo = <<"status", "hook">>
<1> USE DEF IInv, HistoryInv
<1>1. host.todo # <<>> /\ Done(<<>>)
  BY DEF SetCompleted, Doing
<1>2. host'.todo = Tail(host.todo)
  BY <1>1, Rest
<1> QED
  BY <1>1, <1>2, Rest, RestIs DEF SetCompleted

LEMMA OutcomeKeeps ==
  ASSUME IInv, SetCompleted
  PROVE  IInv'
<1> USE DEF IInv, HistoryInv
<1>1. /\ host' \in Hosts /\ host'.pc = host.pc /\ host'.agent = host.agent
      /\ host'.ready = host.ready /\ host'.intent = host.intent /\ host'.unclean = host.unclean
      /\ \/ host.todo = <<"outcome">> /\ host'.todo = <<>>
         \/ host.todo = <<"outcome", "status", "hook">> /\ host'.todo = <<"status", "hook">>
  BY OutcomeMoves
<1>2. /\ task' \in Tasks /\ task'.status = task.status /\ task'.run = task.run /\ task'.count = task.count
      /\ UNCHANGED <<log, plan, step, attempts, intents, signals, clean, launched, consent>>
  <2>1. LastIsOutcome
    BY <1>1, KindsOfRuns DEF EndInv
  <2> QED
    BY <2>1, Types DEF SetCompleted, Tasks, LastIsOutcome
<1>3. TypeOK'
  BY <1>1, <1>2, Types, TypesNext
<1>4. PhaseInv'
  BY <1>1, <1>2, KindsOfRuns DEF PhaseInv, Serving
<1>5. LogInv'
  BY <1>1, <1>2, KindsOfRuns DEF LogInv, Events, OneOutcomePerRun
<1>6. EndInv'
  BY <1>1, <1>2, KindsOfRuns DEF EndInv, LastIsOutcome
<1>7. CountInv'
  BY <1>1, <1>2, KindsOfRuns DEF CountInv, EventsAreCountedOnce
<1>8. AgentInv'
  BY <1>1, <1>2, KindsOfRuns DEF AgentInv, Events, Serving
<1>9. AttemptInv'
  BY <1>1, <1>2, KindsOfRuns DEF AttemptInv
<1>10. BetweenInv'
  BY <1>1, <1>2, KindsOfRuns DEF BetweenInv, Reconciled, Serving, Launchable
<1>11. IntentInv'
  BY <1>1, <1>2, KindsOfRuns DEF IntentInv, Launchable
<1> QED
  BY <1>3, <1>4, <1>5, <1>6, <1>7, <1>8, <1>9, <1>10, <1>11

\* updateStatus
LEMMA StatusMoves ==
  ASSUME IInv, UpdateStatus
  PROVE  /\ host' \in Hosts /\ host'.pc = host.pc /\ host'.agent = host.agent
         /\ host'.ready = host.ready /\ host'.intent = host.intent /\ host'.unclean = host.unclean
         /\ \/ host.todo = <<"status", "outcome">> /\ host'.todo = <<"outcome">>
            \/ host.todo = <<"status", "hook">> /\ host'.todo = <<"hook">>
<1> USE DEF IInv, HistoryInv
<1>1. host.todo # <<>> /\ Done(<<>>)
  BY DEF UpdateStatus, Doing
<1>2. host'.todo = Tail(host.todo)
  BY <1>1, Rest
<1> QED
  BY <1>1, <1>2, Rest, RestIs DEF UpdateStatus

LEMMA StatusKeeps ==
  ASSUME IInv, UpdateStatus
  PROVE  IInv'
<1> USE DEF IInv, HistoryInv
<1>1. /\ host' \in Hosts /\ host'.pc = host.pc /\ host'.agent = host.agent
      /\ host'.ready = host.ready /\ host'.intent = host.intent /\ host'.unclean = host.unclean
      /\ \/ host.todo = <<"status", "outcome">> /\ host'.todo = <<"outcome">>
         \/ host.todo = <<"status", "hook">> /\ host'.todo = <<"hook">>
  BY StatusMoves
<1>2. /\ LastIsOutcome
      /\ task' \in Tasks /\ task'.status \in TaskEnds /\ task'.run = task.run /\ task'.count = task.count
      /\ Last(log.events).type = "completed" => task'.status = "completed"
      /\ UNCHANGED <<log, plan, step, attempts, intents, signals, clean, launched, consent>>
  <2>1. LastIsOutcome
    BY <1>1, KindsOfRuns DEF EndInv
  <2> QED
    BY <2>1, Types DEF UpdateStatus, Tasks, LastIsOutcome, StatusOf, Outcomes, TaskEnds
<1>3. TypeOK'
  BY <1>1, <1>2, Types, TypesNext
<1>4. PhaseInv'
  BY <1>1, <1>2, KindsOfRuns DEF PhaseInv, Serving
<1>5. LogInv'
  BY <1>1, <1>2, KindsOfRuns, Types DEF LogInv, Events, OneOutcomePerRun, Last, LastIsOutcome, Logs
<1>6. EndInv'
  BY <1>1, <1>2, KindsOfRuns DEF EndInv, LastIsOutcome
<1>7. CountInv'
  BY <1>1, <1>2, KindsOfRuns DEF CountInv, EventsAreCountedOnce
<1>8. AgentInv'
  BY <1>1, <1>2, KindsOfRuns DEF AgentInv, Events, Serving
<1>9. AttemptInv'
  BY <1>1, <1>2, KindsOfRuns DEF AttemptInv
<1>10. BetweenInv'
  BY <1>1, <1>2, KindsOfRuns DEF BetweenInv, Reconciled, Serving, Launchable, TaskEnds
<1>11. IntentInv'
  BY <1>1, <1>2, KindsOfRuns DEF IntentInv, Launchable, TaskEnds
<1> QED
  BY <1>3, <1>4, <1>5, <1>6, <1>7, <1>8, <1>9, <1>10, <1>11

\* upsertStepExecution
LEMMA UpsertMoves ==
  ASSUME IInv, UpsertStep
  PROVE  /\ host' \in Hosts /\ host'.pc = host.pc /\ host'.agent = host.agent
         /\ host'.ready = host.ready /\ host'.intent = host.intent /\ host'.unclean = host.unclean
         /\ \/ host.todo = <<"step_runs", "complete">> /\ host'.todo = <<"complete">>
            \/ host.todo = <<"step_waits", "pause", "complete">> /\ host'.todo = <<"pause", "complete">>
<1> USE DEF IInv, HistoryInv
<1>1. host.todo # <<>> /\ Done(<<>>)
  BY DEF UpsertStep, Doing
<1>2. host'.todo = Tail(host.todo)
  BY <1>1, Rest
<1> QED
  BY <1>1, <1>2, Rest, RestIs DEF UpsertStep

LEMMA UpsertKeeps ==
  ASSUME IInv, UpsertStep
  PROVE  IInv'
<1> USE DEF IInv, HistoryInv
<1>1. /\ host' \in Hosts /\ host'.pc = host.pc /\ host'.agent = host.agent
      /\ host'.ready = host.ready /\ host'.intent = host.intent /\ host'.unclean = host.unclean
      /\ \/ host.todo = <<"step_runs", "complete">> /\ host'.todo = <<"complete">>
         \/ host.todo = <<"step_waits", "pause", "complete">> /\ host'.todo = <<"pause", "complete">>
  BY UpsertMoves
<1>2. /\ step' \in Steps
      /\ host.todo = <<"step_runs", "complete">> => step'.status = "running"
      /\ UNCHANGED <<task, log, plan, attempts, intents, signals, clean, launched, consent>>
  <2>1. CASE Doing("step_runs") /\ step' = [status |-> "running", waiting |-> FALSE]
    <3>1. step' \in Steps /\ step'.status = "running"
      BY <2>1 DEF Steps
    <3> QED
      BY <3>1 DEF UpsertStep
  <2>2. CASE Doing("step_waits") /\ step' = [status |-> "awaiting_intervention", waiting |-> FALSE]
    <3>1. step' \in Steps
      BY <2>2 DEF Steps
    <3>2. host.todo = <<"step_waits", "pause", "complete">>
      BY <2>2, PendingIs DEF Doing
    <3>3. host.todo # <<"step_runs", "complete">>
      BY <3>2, KindsOfCalls
    <3> QED
      BY <3>1, <3>3 DEF UpsertStep
  <2> QED
    BY <2>1, <2>2 DEF UpsertStep
<1>3. TypeOK'
  BY <1>1, <1>2, Types, TypesNext
<1>4. PhaseInv'
  <2>1. /\ host.todo \notin InTasks /\ host.todo # <<>>
        /\ host'.todo \in InService /\ host'.todo \notin Advancing \cup Reopening \cup Continuing
    BY <1>1, KindsOfCalls, KindsOfClaims, KindsOfRuns
  <2>2. Serving
    BY <2>1, Types DEF PhaseInv, Serving, Hosts
  <2> QED
    BY <1>1, <1>2, <2>1, <2>2 DEF PhaseInv, Serving
<1>5. LogInv'
  BY <1>1, <1>2, KindsOfCalls, KindsOfClaims DEF LogInv, Events, OneOutcomePerRun
<1>6. EndInv'
  BY <1>1, <1>2, KindsOfCalls, KindsOfClaims DEF EndInv, LastIsOutcome
<1>7. CountInv'
  BY <1>1, <1>2, KindsOfCalls, KindsOfClaims DEF CountInv, EventsAreCountedOnce
<1>8. AgentInv'
  <2>1. CASE host.todo = <<"step_runs", "complete">>
    <3>1. /\ host.todo \in Marking /\ host.todo \notin Recording /\ host.todo \notin Beginning
          /\ host'.todo \in BesideAgent /\ host'.todo \notin Recording /\ host'.todo \notin Beginning
      BY <1>1, <2>1, KindsOfCalls, KindsOfClaims
    <3> QED
      BY <1>1, <1>2, <2>1, <3>1 DEF AgentInv, Events
  <2>2. CASE host.todo = <<"step_waits", "pause", "complete">>
    BY <1>1, <1>2, <2>2, KindsOfCalls DEF AgentInv
  <2> QED
    BY <1>1, <2>1, <2>2
<1>9. AttemptInv'
  <2>1. /\ host'.todo \notin Beginning \cup Recording \cup Marking \cup Calling
        /\ host'.todo \notin Failing \cup Settling \cup Hooked
    BY <1>1, KindsOfClaims
  <2>2. host.todo # <<>>
    BY <1>1, KindsOfCalls, KindsOfRuns
  <2> QED
    BY <1>1, <1>2, <2>1, <2>2 DEF AttemptInv
<1>10. BetweenInv'
  BY <1>1, <1>2, KindsOfCalls, KindsOfClaims DEF BetweenInv, Reconciled, Serving, Launchable
<1>11. IntentInv'
  BY <1>1, <1>2, KindsOfCalls, KindsOfClaims DEF IntentInv, Launchable
<1> QED
  BY <1>3, <1>4, <1>5, <1>6, <1>7, <1>8, <1>9, <1>10, <1>11

\* reopenForRetry
LEMMA ReopenMoves ==
  ASSUME IInv, ReopenForRetry
  PROVE  /\ host' \in Hosts /\ host'.pc = host.pc /\ host'.agent = host.agent
         /\ host'.ready = host.ready /\ host'.intent = host.intent /\ host'.unclean = host.unclean
         /\ \/ host.todo = <<"reopen", "enqueue">> /\ host'.todo \in {<<>>, <<"enqueue">>}
            \/ host.todo = <<"reopen", "advance", "complete">>
               /\ host'.todo \in {<<>>, <<"advance", "complete">>}
            \/ host.todo = <<"reopen", "advance_for_operator", "complete">>
               /\ host'.todo \in {<<>>, <<"advance_for_operator", "complete">>}
<1> USE DEF IInv, HistoryInv
<1>1. host.todo # <<>>
  BY DEF ReopenForRetry, Doing
<1>2. CASE log.closed
  <2>1. Done(<<>>)
    BY <1>2 DEF ReopenForRetry
  <2>2. host'.todo = Tail(host.todo)
    BY <1>1, <2>1, Rest
  <2> QED
    BY <1>1, <1>2, <2>1, <2>2, Rest, RestIs DEF ReopenForRetry
<1>3. CASE ~log.closed
  <2>1. host' = [host EXCEPT !.todo = <<>>]
    BY <1>3 DEF ReopenForRetry, Abandon
  <2>2. <<>> \in Seq(Transactions)
    OBVIOUS
  <2> QED
    BY <1>1, <1>3, <2>1, <2>2, Types, PendingIs DEF ReopenForRetry, Hosts
<1> QED
  BY <1>2, <1>3

LEMMA ReopenKeeps ==
  ASSUME IInv, ReopenForRetry
  PROVE  IInv'
<1> USE DEF IInv, HistoryInv
<1>1. /\ host' \in Hosts /\ host'.pc = host.pc /\ host'.agent = host.agent
      /\ host'.ready = host.ready /\ host'.intent = host.intent /\ host'.unclean = host.unclean
      /\ \/ host.todo = <<"reopen", "enqueue">> /\ host'.todo \in {<<>>, <<"enqueue">>}
         \/ host.todo = <<"reopen", "advance", "complete">>
            /\ host'.todo \in {<<>>, <<"advance", "complete">>}
         \/ host.todo = <<"reopen", "advance_for_operator", "complete">>
            /\ host'.todo \in {<<>>, <<"advance_for_operator", "complete">>}
  BY ReopenMoves
<1>2. /\ log' \in Logs /\ log'.events = log.events /\ log'.closed = FALSE
      /\ UNCHANGED <<task, plan, step, attempts, intents, signals, clean, launched, consent>>
  <2>1. CASE log.closed
    <3>1. log' = [log EXCEPT !.closed = FALSE]
      BY <2>1 DEF ReopenForRetry
    <3> QED
      BY <3>1, Types DEF ReopenForRetry, Logs
  <2>2. CASE ~log.closed
    BY <2>2, Types DEF ReopenForRetry, Logs
  <2> QED
    BY <2>1, <2>2
<1>3. TypeOK'
  BY <1>1, <1>2, Types, TypesNext
<1>4. PhaseInv'
  BY <1>1, <1>2, KindsOfRuns, KindsOfClaims, KindsOfCalls DEF PhaseInv, Serving
<1>5. LogInv'
  BY <1>1, <1>2, KindsOfRuns, KindsOfClaims, KindsOfCalls DEF LogInv, Events, OneOutcomePerRun
<1>6. EndInv'
  BY <1>1, <1>2, KindsOfRuns, KindsOfClaims, KindsOfCalls DEF EndInv, LastIsOutcome
<1>7. CountInv'
  BY <1>1, <1>2, KindsOfRuns, KindsOfClaims, KindsOfCalls DEF CountInv, EventsAreCountedOnce
<1>8. AgentInv'
  BY <1>1, <1>2, KindsOfRuns, KindsOfClaims, KindsOfCalls DEF AgentInv, Events, Serving
<1>9. AttemptInv'
  BY <1>1, <1>2, KindsOfRuns, KindsOfClaims, KindsOfCalls DEF AttemptInv
<1>10. BetweenInv'
  BY <1>1, <1>2, KindsOfRuns, KindsOfClaims, KindsOfCalls DEF BetweenInv, Reconciled, Serving, Launchable
<1>11. IntentInv'
  BY <1>1, <1>2, KindsOfRuns, KindsOfClaims, KindsOfCalls DEF IntentInv, Launchable
<1> QED
  BY <1>3, <1>4, <1>5, <1>6, <1>7, <1>8, <1>9, <1>10, <1>11

\* updateAttempt
LEMMA UpdateMoves ==
  ASSUME IInv, UpdateAttempt
  PROVE  /\ host' \in Hosts /\ host'.pc = host.pc /\ host'.agent = host.agent
         /\ host'.ready = host.ready /\ host'.intent = host.intent /\ host'.unclean = host.unclean
         /\ \/ host.todo = <<"attempt_runs", "step_runs", "complete">>
               /\ host'.todo = <<"step_runs", "complete">>
            \/ host.todo = <<"attempt_fails", "step_waits", "pause", "complete">>
               /\ host'.todo = <<"step_waits", "pause", "complete">>
<1> USE DEF IInv, HistoryInv
<1>1. host.todo # <<>> /\ Done(<<>>)
  BY DEF UpdateAttempt, Doing
<1>2. host'.todo = Tail(host.todo)
  BY <1>1, Rest
<1> QED
  BY <1>1, <1>2, Rest, RestIs DEF UpdateAttempt

LEMMA UpdateKeeps ==
  ASSUME IInv, UpdateAttempt
  PROVE  IInv'
<1> USE DEF IInv, HistoryInv
<1>1. /\ host' \in Hosts /\ host'.pc = host.pc /\ host'.agent = host.agent
      /\ host'.ready = host.ready /\ host'.intent = host.intent /\ host'.unclean = host.unclean
      /\ \/ host.todo = <<"attempt_runs", "step_runs", "complete">>
            /\ host'.todo = <<"step_runs", "complete">>
         \/ host.todo = <<"attempt_fails", "step_waits", "pause", "complete">>
            /\ host'.todo = <<"step_waits", "pause", "complete">>
  BY UpdateMoves
<1>2. /\ attempts' \in Attempts /\ Len(attempts') = Len(attempts) /\ Len(attempts) # 0
      /\ \A n \in 1..Len(attempts) : n # Len(attempts) => attempts'[n] = attempts[n]
      /\ attempts[Len(attempts)].status = "claimed"
      /\ attempts'[Len(attempts)].status =
           IF host.todo \in Recording THEN "running" ELSE "failed"
      /\ UNCHANGED <<task, log, plan, step, intents, signals, clean, launched, consent>>
  <2>1. attempts \in Seq(Attempt) /\ Len(attempts) \in 0..MaxAttempts
    BY Types, LenProperties, BoundAssumption DEF Attempts
  <2>2. UNCHANGED <<task, log, plan, step, intents, signals, clean, launched, consent>>
    BY DEF UpdateAttempt
  <2>3. CASE Doing("attempt_runs") /\ attempts' = [attempts EXCEPT ![Len(attempts)] = [status |-> "running", run |-> Len(attempts)]]
    <3>1. host.todo \in Recording
      BY <2>3, PendingIs, KindsOfCalls DEF Doing
    <3>2. Len(attempts) # 0 /\ attempts[Len(attempts)].status = "claimed"
      <4>1. host.agent # 0
        BY <3>1 DEF AttemptInv
      <4> QED
        BY <3>1, <4>1 DEF AgentInv
    <3>3. [status |-> "running", run |-> Len(attempts)] \in Attempt
      BY <2>1 DEF Attempt
    <3> HIDE DEF IInv, HistoryInv
    <3>4. TypeOK
      BY DEF IInv
    <3>5. [status |-> "running", run |-> Len(attempts)].status = "running"
      OBVIOUS
    <3> DEFINE row == [status |-> "running", run |-> Len(attempts)]
    <3>6. row.status = "running" /\ row \in Attempt /\ attempts' = [attempts EXCEPT ![Len(attempts)] = row]
      BY <2>3, <3>3, <3>5
    <3> HIDE DEF row
    <3> QED
      BY <2>2, <3>1, <3>2, <3>4, <3>6, Rewritten
  <2>4. CASE Doing("attempt_fails") /\ attempts' = [attempts EXCEPT ![Len(attempts)].status = "failed"]
    <3>1. host.todo \in Failing /\ host.todo \notin Recording
      BY <2>4, PendingIs, KindsOfCalls DEF Doing
    <3>2. Len(attempts) # 0 /\ attempts[Len(attempts)].status = "claimed"
      BY <3>1 DEF AttemptInv
    <3>3. attempts[Len(attempts)] \in Attempt
      BY <2>1, <3>2, ElementOfSeq
    <3>4. [attempts[Len(attempts)] EXCEPT !.status = "failed"] \in Attempt
      BY <3>3 DEF Attempt, TaskEnds
    <3>5. attempts' = [attempts EXCEPT ![Len(attempts)] = [attempts[Len(attempts)] EXCEPT !.status = "failed"]]
      BY <2>4
    <3>6. [attempts[Len(attempts)] EXCEPT !.status = "failed"].status = "failed"
      BY <3>3 DEF Attempt
    <3> HIDE DEF IInv, HistoryInv
    <3>7. TypeOK
      BY DEF IInv
    <3> QED
      BY <2>2, <3>1, <3>2, <3>4, <3>5, <3>6, <3>7, Rewritten
  <2> QED
    BY <2>3, <2>4 DEF UpdateAttempt
<1>3. TypeOK'
  BY <1>1, <1>2, Types, TypesNext
<1>4. PhaseInv'
  <2>1. /\ host.todo \notin InTasks /\ host.todo # <<>>
        /\ host'.todo \in InService /\ host'.todo \notin Advancing \cup Reopening \cup Continuing
    BY <1>1, KindsOfCalls, KindsOfRuns
  <2>2. Serving
    BY <2>1, Types DEF PhaseInv, Serving, Hosts
  <2> QED
    BY <1>1, <1>2, <2>1, <2>2 DEF PhaseInv, Serving
<1>5. LogInv'
  BY <1>1, <1>2, KindsOfCalls DEF LogInv, Events, OneOutcomePerRun
<1>6. EndInv'
  BY <1>1, <1>2, KindsOfCalls DEF EndInv, LastIsOutcome
<1>7. CountInv'
  BY <1>1, <1>2, KindsOfCalls DEF CountInv, EventsAreCountedOnce
<1>8. AgentInv'
  BY <1>1, <1>2, KindsOfCalls DEF AgentInv, Events, Serving
<1>9. AttemptInv'
  <2>1. CASE host.todo = <<"attempt_runs", "step_runs", "complete">>
    <3>1. /\ host.todo \in Recording /\ host'.todo \notin Calling \cup Failing \cup Settling \cup Hooked
          /\ host.todo # <<>> /\ host.todo \notin Calling
      BY <1>1, <2>1, KindsOfCalls, KindsOfRuns
    <3> QED
      BY <1>1, <1>2, <3>1 DEF AttemptInv, Occupied
  <2>2. CASE host.todo = <<"attempt_fails", "step_waits", "pause", "complete">>
    <3>1. /\ host'.todo \notin Beginning \cup Recording \cup Marking \cup Calling
          /\ host'.todo \notin Failing \cup Settling \cup Hooked
          /\ host.todo # <<>>
      BY <1>1, <2>2, KindsOfCalls, KindsOfRuns
    <3> QED
      BY <1>1, <1>2, <3>1 DEF AttemptInv, Occupied
  <2> QED
    BY <1>1, <2>1, <2>2
<1>10. BetweenInv'
  BY <1>1, <1>2, KindsOfCalls DEF BetweenInv, Reconciled, Serving, Launchable
<1>11. IntentInv'
  <2>1. attempts'[Len(attempts)].status # "claimed"
    BY <1>2
  <2>2. \A i \in 1..Len(intents) :
          /\ intents[i].old \in 1..Len(attempts) /\ intents[i].new \in 0..Len(attempts)
          /\ intents[i].old # Len(attempts)
    <3>1. TAKE i \in 1..Len(intents)
    <3>2. intents[i] \in Intent
      BY Types, ElementOfSeq
    <3>3. /\ intents[i].old <= Len(attempts) /\ attempts[intents[i].old].status = "abandoned"
          /\ intents[i].new <= Len(attempts)
      BY DEF IntentInv
    <3>4. intents[i].old # Len(attempts)
      BY <1>2, <3>3
    <3>5. Len(attempts) \in Nat
      BY Types, LenProperties DEF Attempts
    <3> QED
      BY <3>2, <3>3, <3>4, <3>5 DEF Intent, Number
  <2>3. \A i \in 1..Len(intents) :
          intents[i].new # 0 => \/ attempts'[intents[i].new] = attempts[intents[i].new]
                               \/ intents[i].new = Len(attempts)
    BY <1>2, <2>2
  <2>4. \A i, j \in 1..Len(intents) :
          intents[i].new = 0 /\ intents[j].new # 0 => intents[j].new # Len(attempts)
    BY <1>2 DEF IntentInv, Occupied
  <2>5. \A i \in 1..Len(intents) : attempts'[intents[i].old] = attempts[intents[i].old]
    BY <1>2, <2>2
  <2> QED
    BY <1>2, <2>1, <2>2, <2>3, <2>4, <2>5 DEF IntentInv, Launchable
<1> QED
  BY <1>3, <1>4, <1>5, <1>6, <1>7, <1>8, <1>9, <1>10, <1>11

\* The launch is committed.
LEMMA LaunchMoves ==
  ASSUME IInv, Launch
  PROVE  /\ host' \in Hosts /\ host'.pc = host.pc /\ host'.agent = Len(attempts)
         /\ host'.ready = 0 /\ host'.intent = host.intent /\ host'.unclean = host.unclean
         /\ Serving /\ host.ready = Len(attempts) /\ Len(attempts) # 0 /\ host.todo = <<>>
         /\ host'.todo = <<"attempt_runs", "step_runs", "complete">>
<1> USE DEF IInv, HistoryInv
<1>1. Serving /\ host.ready # 0 /\ host.todo = <<>>
  BY DEF Launch, Idle
<1>2. host.ready = Len(attempts) /\ Len(attempts) # 0
  BY <1>1 DEF AttemptInv
<1>3. <<"attempt_runs", "step_runs", "complete">> \in Seq(Transactions)
  BY DEF Transactions
<1>4. 0 \in 0..MaxAttempts
  BY BoundAssumption
<1>5. host' = [host EXCEPT !.agent = host.ready, !.ready = 0, !.todo = <<"attempt_runs", "step_runs", "complete">>]
  BY DEF Launch
<1>6. host' \in Hosts /\ host'.agent = host.ready /\ host'.ready = 0 /\ host'.todo = <<"attempt_runs", "step_runs", "complete">>
  BY <1>3, <1>4, <1>5, Types DEF Hosts
<1>7. host'.pc = host.pc /\ host'.intent = host.intent /\ host'.unclean = host.unclean
  BY <1>5, Types DEF Hosts
<1> QED
  BY <1>1, <1>2, <1>6, <1>7

LEMMA LaunchKeeps ==
  ASSUME IInv, Launch
  PROVE  IInv'
<1> USE DEF IInv, HistoryInv
<1>1. /\ host' \in Hosts /\ host'.pc = host.pc /\ host'.agent = Len(attempts)
      /\ host'.ready = 0 /\ host'.intent = host.intent /\ host'.unclean = host.unclean
      /\ Serving /\ host.ready = Len(attempts) /\ Len(attempts) # 0 /\ host.todo = <<>>
      /\ host'.todo = <<"attempt_runs", "step_runs", "complete">>
  BY LaunchMoves
<1>2. /\ Launchable /\ task' \in Tasks /\ task'.status = "assigned" /\ task'.run = Len(attempts)
      /\ task'.count = task.count
      /\ launched' = launched \cup {Len(attempts)} /\ launched' \subseteq Number
      /\ Len(attempts) \in Number /\ Len(attempts) \notin launched /\ consent' \in BOOLEAN
      /\ attempts[Len(attempts)].status = "claimed"
      /\ UNCHANGED <<log, plan, step, attempts, intents, signals, clean>>
  <2>1. Len(attempts) \in Number
    BY <1>1, Types, LenProperties DEF Attempts, Number
  <2>2. task' = [task EXCEPT !.run = Len(attempts)] /\ launched' = launched \cup {Len(attempts)}
    BY <1>1 DEF Launch
  <2>3. Len(attempts) \notin launched /\ attempts[Len(attempts)].status = "claimed"
    BY <1>1 DEF AttemptInv
  <2>4. Launchable
    BY DEF Launch
  <2>5. consent' \in BOOLEAN
    BY DEF Launch
  <2>6. task' \in Tasks /\ task'.status = task.status /\ task'.run = Len(attempts) /\ task'.count = task.count
    BY <2>1, <2>2, Types DEF Tasks, Number
  <2> QED
    BY <2>1, <2>2, <2>3, <2>4, <2>5, <2>6, Types DEF Launch, Launchable
<1>3. TypeOK'
  BY <1>1, <1>2, Types, TypesNext
<1>4. PhaseInv'
  BY <1>1, <1>2, KindsOfRuns, KindsOfCalls DEF PhaseInv, Serving
<1>5. LogInv'
  <2>1. \A i \in Events : log.events[i].run # Len(attempts)
    BY <1>2 DEF LogInv
  <2>2. \A i \in Events : log.events[i].type # "completed"
    BY <1>2 DEF LogInv, Launchable
  <2>3. Len(attempts) \in 1..Len(attempts)
    BY <1>2 DEF Number
  <2> QED
    BY <1>2, <2>1, <2>2, <2>3 DEF LogInv, Events, OneOutcomePerRun
<1>6. EndInv'
  <2>1. /\ host'.todo \notin Settling \cup Replaying \cup Hooked
    BY <1>1, KindsOfCalls
  <2> QED
    BY <1>2, <2>1 DEF EndInv, LastIsOutcome, TaskEnds, Number
<1>7. CountInv'
  BY <1>1, <1>2, KindsOfRuns, KindsOfCalls DEF CountInv, EventsAreCountedOnce
<1>8. AgentInv'
  <2>1. ~log.closed
    BY <1>1, <1>2, KindsOfRuns DEF BetweenInv, Reconciled
  <2>2. \A i \in Events : log.events[i].run # Len(attempts)
    BY <1>2 DEF LogInv
  <2> QED
    BY <1>1, <1>2, <2>1, <2>2, KindsOfCalls DEF AgentInv, Events
<1>9. AttemptInv'
  BY <1>1, <1>2, KindsOfRuns, KindsOfCalls DEF AttemptInv, Number
<1>10. BetweenInv'
  <2>1. ~Launchable'
    BY <1>1, <1>2 DEF Launchable
  <2>2. host'.agent = task'.run
    BY <1>1, <1>2
  <2>3. host'.todo \notin Reopening \cup Preparing
    BY <1>1, KindsOfCalls
  <2> QED
    BY <2>1, <2>2, <2>3 DEF BetweenInv
<1>11. IntentInv'
  <2>1. ~Launchable'
    BY <1>1, <1>2 DEF Launchable
  <2> QED
    BY <1>2, <2>1 DEF IntentInv
<1> QED
  BY <1>3, <1>4, <1>5, <1>6, <1>7, <1>8, <1>9, <1>10, <1>11

\* The run that was interrupted gets its outcome.
LEMMA InterruptedMoves ==
  ASSUME IInv, RecordInterruptedRun
  PROVE  /\ host' \in Hosts /\ host'.pc = host.pc /\ host'.agent = host.agent
         /\ host'.ready = host.ready /\ host'.intent = host.intent /\ host'.unclean = host.unclean
         /\ host.pc = "tasks" /\ ~Serving /\ host.todo = <<>>
         /\ host'.todo = <<"meta", "status", "outcome">>
<1> USE DEF IInv, HistoryInv
<1>1. <<"meta", "status", "outcome">> \in Seq(Transactions)
  BY DEF Transactions
<1> QED
  BY <1>1, Types DEF RecordInterruptedRun, Pending, Reconciling, Idle, Hosts, Serving

\* An event added for a run that has no outcome yet leaves every run with at most one.
LEMMA StillOneOutcome ==
  ASSUME OneOutcomePerRun,
         \A i \in Events' : i \in Events \/ i = Len(log.events) + 1,
         \A i \in Events : log'.events[i] = log.events[i],
         log'.events[Len(log.events) + 1].run = task.run,
         \A i \in Events : log.events[i].type \in Outcomes => log.events[i].run # task.run
  PROVE  OneOutcomePerRun'
<1>1. ASSUME NEW i \in Events', NEW j \in Events',
             log'.events[i].type \in Outcomes, log'.events[j].type \in Outcomes,
             log'.events[i].run = log'.events[j].run
      PROVE  i = j
  <2>1. CASE i \in Events /\ j \in Events
    <3>1. log.events[i].type \in Outcomes /\ log.events[j].type \in Outcomes
          /\ log.events[i].run = log.events[j].run
      BY <1>1, <2>1
    <3> QED
      BY <2>1, <3>1 DEF OneOutcomePerRun, Events
  <2>2. CASE i \in Events /\ j = Len(log.events) + 1
    BY <1>1, <2>2
  <2>3. CASE i = Len(log.events) + 1 /\ j \in Events
    BY <1>1, <2>3
  <2>4. CASE i = Len(log.events) + 1 /\ j = Len(log.events) + 1
    BY <2>4
  <2> QED
    BY <2>1, <2>2, <2>3, <2>4
<1> QED
  BY <1>1 DEF OneOutcomePerRun, Events

LEMMA InterruptedKeeps ==
  ASSUME IInv, RecordInterruptedRun
  PROVE  IInv'
<1> USE DEF IInv, HistoryInv
<1>1. /\ host' \in Hosts /\ host'.pc = host.pc /\ host'.agent = host.agent
      /\ host'.ready = host.ready /\ host'.intent = host.intent /\ host'.unclean = host.unclean
      /\ host.pc = "tasks" /\ ~Serving /\ host.todo = <<>>
      /\ host'.todo = <<"meta", "status", "outcome">>
  BY InterruptedMoves
<1>2. /\ host.agent = 0 /\ task.run # 0 /\ task.run \in launched /\ ~LastIsOutcome
      /\ log' \in Logs /\ Len(log.events) \in Nat /\ Len(log'.events) = Len(log.events) + 1
      /\ \A i \in Events : log'.events[i] = log.events[i]
      /\ log'.events[Len(log.events) + 1].run = task.run
      /\ log'.events[Len(log.events) + 1].type = "restart"
      /\ log'.closed /\ LastIsOutcome'
      /\ \A i \in Events : log.events[i].type \in Outcomes => log.events[i].run # task.run
      /\ \A i \in Events : log.events[i].type # "completed"
      /\ UNCHANGED <<task, plan, step, attempts, intents, signals, clean, launched, consent>>
  <2>1. host.agent = 0
    BY <1>1 DEF PhaseInv
  <2>2. task.run # 0 /\ ~LastIsOutcome /\ log' = Appended(task.run, "restart")
    BY DEF RecordInterruptedRun, Pending
  <2>3. task.run \in launched
    BY <2>2 DEF LogInv
  <2>4. task.run \in Number
    BY <2>3, Types
  <2>5. \A i \in Events : i = Len(log.events) => log.events[i].type \notin Outcomes
    BY <2>2 DEF LastIsOutcome, Last, Events
  <2>6. \A i \in Events : log.events[i].type \in Outcomes => log.events[i].run # task.run
    BY <2>5 DEF LogInv
  <2>7. \A i \in Events : log.events[i].type # "completed"
    BY <2>5 DEF LogInv, Outcomes
  <2>8. "restart" \in Outcomes
    BY DEF Outcomes
  <2>9. TypeOK
    OBVIOUS
  <2>10. UNCHANGED <<task, plan, step, attempts, intents, signals, clean, launched, consent>>
    BY DEF RecordInterruptedRun
  <2> HIDE DEF IInv, HistoryInv
  <2> QED
    BY <2>1, <2>2, <2>3, <2>4, <2>6, <2>7, <2>8, <2>9, <2>10, Grown
<1>3. TypeOK'
  BY <1>1, <1>2, Types, TypesNext
<1>4. PhaseInv'
  BY <1>1, <1>2, KindsOfRuns DEF PhaseInv, Serving
<1>5. LogInv'
  <2>1. \A i \in Events' : i \in Events \/ i = Len(log.events) + 1
    BY <1>2 DEF Events
  <2>2. \A i \in Events' : log'.events[i].run \in launched'
    BY <1>2, <2>1 DEF LogInv
  <2>3. OneOutcomePerRun'
    <3>1. OneOutcomePerRun
      BY DEF LogInv
    <3>2. /\ \A i \in Events : log'.events[i] = log.events[i]
          /\ log'.events[Len(log.events) + 1].run = task.run
          /\ \A i \in Events : log.events[i].type \in Outcomes => log.events[i].run # task.run
      BY <1>2
    <3> HIDE DEF IInv, HistoryInv
    <3> QED
      BY <2>1, <3>1, <3>2, StillOneOutcome
  <2>4. \A i \in Events' :
          log'.events[i].type \in Outcomes /\ log'.events[i].run = task'.run => i = Len(log'.events)
    BY <1>2, <2>1
  <2>5. \A i \in Events' :
          log'.events[i].type = "completed"
            => i = Len(log'.events) /\ host'.agent = 0 /\ task'.status \in {"running", "completed"}
    BY <1>1, <1>2, <2>1
  <2> QED
    BY <1>2, <2>2, <2>3, <2>4, <2>5 DEF LogInv
<1>6. EndInv'
  BY <1>1, <1>2, KindsOfRuns DEF EndInv, LastIsOutcome
<1>7. CountInv'
  <2>1. task.count \in Nat
    BY Types DEF Tasks
  <2> QED
    BY <1>1, <1>2, <2>1, KindsOfRuns DEF CountInv, EventsAreCountedOnce
<1>8. AgentInv'
  BY <1>1, <1>2, KindsOfRuns DEF AgentInv, Events, Serving
<1>9. AttemptInv'
  <2>1. host.ready = 0 /\ host.todo \notin Settling
    BY <1>1, KindsOfRuns DEF PhaseInv
  <2>2. /\ host'.todo \notin Beginning \cup Recording \cup Marking \cup Calling
        /\ host'.todo \notin Failing \cup Settling \cup Hooked
    BY <1>1, KindsOfRuns
  <2> QED
    BY <1>1, <1>2, <2>1, <2>2 DEF AttemptInv
<1>10. BetweenInv'
  BY <1>1, <1>2, KindsOfRuns DEF BetweenInv, Reconciled, Serving, Launchable
<1>11. IntentInv'
  BY <1>1, <1>2, KindsOfRuns DEF IntentInv, Launchable
<1> QED
  BY <1>3, <1>4, <1>5, <1>6, <1>7, <1>8, <1>9, <1>10, <1>11

\* An execution reports that it has started.
LEMMA StartedMoves ==
  ASSUME IInv, Emit("started")
  PROVE  /\ host' \in Hosts /\ host'.pc = host.pc /\ host'.agent = host.agent
         /\ host'.ready = host.ready /\ host'.intent = host.intent /\ host'.unclean = host.unclean /\ Serving /\ host.todo = <<>>
         /\ host'.todo = <<"meta", "running">>
<1> USE DEF IInv, HistoryInv
<1>1. Serving /\ host.todo = <<>> /\ host.agent # 0
  BY DEF Emit, Idle
<1>2. <<"meta", "running">> \in Seq(Transactions) /\ 0 \in 0..MaxAttempts
  BY BoundAssumption DEF Transactions
<1>3. host' = [host EXCEPT !.todo = <<"meta", "running">>]
  BY DEF Emit
<1> QED
  BY <1>1, <1>2, <1>3, Types DEF Hosts

LEMMA StartedKeeps ==
  ASSUME IInv, Emit("started")
  PROVE  IInv'
<1> USE DEF IInv, HistoryInv
<1>1. /\ host' \in Hosts /\ host'.pc = host.pc /\ host'.agent = host.agent
      /\ host'.ready = host.ready /\ host'.intent = host.intent /\ host'.unclean = host.unclean /\ Serving /\ host.todo = <<>>
      /\ host'.todo = <<"meta", "running">>
  BY StartedMoves
<1>2. /\ host.agent # 0 /\ host.agent = task.run /\ task.run \in launched /\ ~log.closed
      /\ log' \in Logs /\ Len(log.events) \in Nat /\ Len(log'.events) = Len(log.events) + 1
      /\ \A i \in Events : log'.events[i] = log.events[i]
      /\ log'.events[Len(log.events) + 1].run = task.run
      /\ log'.events[Len(log.events) + 1].type = "started"
      /\ \A i \in Events : log.events[i].type \in Outcomes => log.events[i].run # task.run
      /\ \A i \in Events : log.events[i].type # "completed"
      /\ log'.closed = log.closed
      /\ UNCHANGED <<task, plan, step, attempts, intents, signals, clean, launched, consent>>
  <2>1. host.agent # 0 /\ ~log.closed /\ log' = Appended(host.agent, "started")
    BY DEF Emit
  <2>2. host.agent = task.run /\ host.agent = Len(attempts)
    BY <2>1 DEF AgentInv
  <2>3. task.run \in launched
    BY <2>1, <2>2 DEF LogInv
  <2>4. task.run \in Number
    BY <2>3, Types
  <2>5. \A i \in Events : log.events[i].type \in Outcomes => log.events[i].run # task.run
    BY <2>1, <2>2 DEF AgentInv
  <2>6. \A i \in Events : log.events[i].type # "completed"
    BY <2>1 DEF LogInv
  <2>7. TypeOK
    OBVIOUS
  <2>8. UNCHANGED <<task, plan, step, attempts, intents, signals, clean, launched, consent>>
    BY DEF Emit
  <2>9. "started" \notin Outcomes
    BY DEF Outcomes
  <2> HIDE DEF IInv, HistoryInv
  <2> QED
    BY <2>1, <2>2, <2>3, <2>4, <2>5, <2>6, <2>7, <2>8, <2>9, Grown
<1>3. TypeOK'
  BY <1>1, <1>2, Types, TypesNext
<1>4. PhaseInv'
  BY <1>1, <1>2, KindsOfRuns DEF PhaseInv, Serving
<1>5. LogInv'
  <2>1. \A i \in Events' : i \in Events \/ i = Len(log.events) + 1
    BY <1>2 DEF Events
  <2>2. \A i \in Events' : log'.events[i].run \in launched'
    BY <1>2, <2>1 DEF LogInv
  <2>3. OneOutcomePerRun'
    <3>1. OneOutcomePerRun
      BY DEF LogInv
    <3>2. /\ \A i \in Events : log'.events[i] = log.events[i]
          /\ log'.events[Len(log.events) + 1].run = task.run
          /\ \A i \in Events : log.events[i].type \in Outcomes => log.events[i].run # task.run
      BY <1>2
    <3> HIDE DEF IInv, HistoryInv
    <3> QED
      BY <2>1, <3>1, <3>2, StillOneOutcome
  <2>4. \A i \in Events' :
          log'.events[i].type \in Outcomes /\ log'.events[i].run = task'.run => i = Len(log'.events)
    BY <1>2, <2>1
  <2>5. \A i \in Events' :
          log'.events[i].type = "completed"
            => i = Len(log'.events) /\ host'.agent = 0 /\ task'.status \in {"running", "completed"}
    BY <1>1, <1>2, <2>1
  <2> QED
    BY <1>2, <2>2, <2>3, <2>4, <2>5 DEF LogInv
<1>6. EndInv'
  <2>1. host'.todo \notin Settling \cup Replaying \cup Hooked
    BY <1>1, KindsOfRuns
  <2>2. task.status \notin TaskEnds
    BY <1>2 DEF AgentInv, TaskEnds
  <2> QED
    BY <1>1, <1>2, <2>1, <2>2 DEF EndInv
<1>7. CountInv'
  <2>1. task.count \in Nat
    BY Types DEF Tasks
  <2> QED
    BY <1>1, <1>2, <2>1, KindsOfRuns DEF CountInv, EventsAreCountedOnce
<1>8. AgentInv'
  <2>1. \A i \in Events' : i \in Events \/ i = Len(log.events) + 1
    BY <1>2 DEF Events
  <2>2. "started" \notin Outcomes
    BY DEF Outcomes
  <2>3. \A i \in Events' : log'.events[i].run = host'.agent => log'.events[i].type \notin Outcomes
    BY <1>1, <1>2, <2>1, <2>2
  <2>4. host'.todo \in Beginning /\ host'.todo \in BesideAgent
    BY <1>1, KindsOfRuns
  <2>5. /\ host'.todo \notin Recording /\ host'.todo \notin Marking
        /\ host.todo \notin Recording /\ host.todo \notin Marking
    BY <1>1, KindsOfRuns
  <2> QED
    BY <1>1, <1>2, <2>3, <2>4, <2>5 DEF AgentInv
<1>9. AttemptInv'
  BY <1>1, <1>2, KindsOfRuns DEF AttemptInv
<1>10. BetweenInv'
  BY <1>1, <1>2, KindsOfRuns DEF BetweenInv, Reconciled, Serving, Launchable
<1>11. IntentInv'
  BY <1>1, <1>2, KindsOfRuns DEF IntentInv, Launchable
<1> QED
  BY <1>3, <1>4, <1>5, <1>6, <1>7, <1>8, <1>9, <1>10, <1>11

\* An execution ends.
LEMMA EndedMoves ==
  ASSUME IInv, NEW type \in Outcomes, type # "started", Emit(type)
  PROVE  /\ host' \in Hosts /\ host'.pc = host.pc /\ host'.agent = 0
         /\ host'.ready = host.ready /\ host'.intent = host.intent /\ host'.unclean = host.unclean /\ Serving /\ host.todo = <<>>
         /\ host'.todo = <<"meta", "outcome", "status", "hook">>
<1> USE DEF IInv, HistoryInv
<1>1. Serving /\ host.todo = <<>> /\ host.agent # 0
  BY DEF Emit, Idle
<1>2. <<"meta", "outcome", "status", "hook">> \in Seq(Transactions) /\ 0 \in 0..MaxAttempts
  BY BoundAssumption DEF Transactions
<1>3. host' = [host EXCEPT !.todo = <<"meta", "outcome", "status", "hook">>, !.agent = 0]
  BY DEF Emit
<1> QED
  BY <1>1, <1>2, <1>3, Types DEF Hosts

LEMMA EndedKeeps ==
  ASSUME IInv, NEW type \in Outcomes, type # "started", Emit(type)
  PROVE  IInv'
<1> USE DEF IInv, HistoryInv
<1>1. /\ host' \in Hosts /\ host'.pc = host.pc /\ host'.agent = 0
      /\ host'.ready = host.ready /\ host'.intent = host.intent /\ host'.unclean = host.unclean /\ Serving /\ host.todo = <<>>
      /\ host'.todo = <<"meta", "outcome", "status", "hook">>
  BY EndedMoves
<1>2. /\ host.agent # 0 /\ host.agent = task.run /\ task.run \in launched /\ ~log.closed
      /\ log' \in Logs /\ Len(log.events) \in Nat /\ Len(log'.events) = Len(log.events) + 1
      /\ \A i \in Events : log'.events[i] = log.events[i]
      /\ log'.events[Len(log.events) + 1].run = task.run
      /\ log'.events[Len(log.events) + 1].type = type
      /\ \A i \in Events : log.events[i].type \in Outcomes => log.events[i].run # task.run
      /\ \A i \in Events : log.events[i].type # "completed"
      /\ log'.closed /\ LastIsOutcome' /\ task.status = "running"
      /\ host.ready = 0 /\ Len(attempts) # 0
      /\ attempts[Len(attempts)].status = "running" /\ step.status = "running"
      /\ UNCHANGED <<task, plan, step, attempts, intents, signals, clean, launched, consent>>
  <2>1. host.agent # 0 /\ ~log.closed /\ log' = Appended(host.agent, type)
    BY DEF Emit
  <2>2. host.agent = task.run /\ host.agent = Len(attempts)
    BY <2>1 DEF AgentInv
  <2>3. task.run \in launched
    BY <2>1, <2>2 DEF LogInv
  <2>4. task.run \in Number
    BY <2>3, Types
  <2>5. \A i \in Events : log.events[i].type \in Outcomes => log.events[i].run # task.run
    BY <2>1, <2>2 DEF AgentInv
  <2>6. \A i \in Events : log.events[i].type # "completed"
    BY <2>1 DEF LogInv
  <2>7. TypeOK
    OBVIOUS
  <2>8. UNCHANGED <<task, plan, step, attempts, intents, signals, clean, launched, consent>>
    BY DEF Emit
  <2>9. [run |-> host.agent, type |-> "started"] \in ToSet(log.events)
    BY DEF Emit
  <2>10. \E i \in Events : log.events[i].run = host.agent
    BY <2>9 DEF ToSet, Events
  <2>11. host.todo \notin Beginning /\ host.todo \notin Recording /\ host.todo \notin Marking
    BY <1>1, KindsOfRuns
  <2>12. task.status = "running" /\ step.status = "running" /\ host.ready = 0
    BY <2>1, <2>10, <2>11 DEF AgentInv
  <2>13. attempts[Len(attempts)].status = "running" /\ Len(attempts) # 0
    BY <2>1, <2>2, <2>11 DEF AgentInv
  <2> HIDE DEF IInv, HistoryInv
  <2> QED
    BY <2>1, <2>2, <2>3, <2>4, <2>5, <2>6, <2>7, <2>8, <2>12, <2>13, Grown
<1>3. TypeOK'
  BY <1>1, <1>2, Types, TypesNext
<1>4. PhaseInv'
  BY <1>1, <1>2, KindsOfRuns DEF PhaseInv, Serving
<1>5. LogInv'
  <2>1. \A i \in Events' : i \in Events \/ i = Len(log.events) + 1
    BY <1>2 DEF Events
  <2>2. \A i \in Events' : log'.events[i].run \in launched'
    BY <1>2, <2>1 DEF LogInv
  <2>3. OneOutcomePerRun'
    <3>1. OneOutcomePerRun
      BY DEF LogInv
    <3>2. /\ \A i \in Events : log'.events[i] = log.events[i]
          /\ log'.events[Len(log.events) + 1].run = task.run
          /\ \A i \in Events : log.events[i].type \in Outcomes => log.events[i].run # task.run
      BY <1>2
    <3> HIDE DEF IInv, HistoryInv
    <3> QED
      BY <2>1, <3>1, <3>2, StillOneOutcome
  <2>4. \A i \in Events' :
          log'.events[i].type \in Outcomes /\ log'.events[i].run = task'.run => i = Len(log'.events)
    BY <1>2, <2>1
  <2>5. \A i \in Events' :
          log'.events[i].type = "completed"
            => i = Len(log'.events) /\ host'.agent = 0 /\ task'.status \in {"running", "completed"}
    BY <1>1, <1>2, <2>1
  <2> QED
    BY <1>2, <2>2, <2>3, <2>4, <2>5 DEF LogInv
<1>6. EndInv'
  BY <1>1, <1>2, KindsOfRuns DEF EndInv, LastIsOutcome
<1>7. CountInv'
  <2>1. task.count \in Nat
    BY Types DEF Tasks
  <2> QED
    BY <1>1, <1>2, <2>1, KindsOfRuns DEF CountInv, EventsAreCountedOnce
<1>8. AgentInv'
  BY <1>1, <1>2, KindsOfRuns DEF AgentInv, Events, Serving
<1>9. AttemptInv'
  BY <1>1, <1>2, KindsOfRuns DEF AttemptInv
<1>10. BetweenInv'
  BY <1>1, <1>2, KindsOfRuns DEF BetweenInv, Reconciled, Serving, Launchable
<1>11. IntentInv'
  BY <1>1, <1>2, KindsOfRuns DEF IntentInv, Launchable
<1> QED
  BY <1>3, <1>4, <1>5, <1>6, <1>7, <1>8, <1>9, <1>10, <1>11

\* The scheduler hears of the end.
LEMMA HookMoves ==
  ASSUME IInv, Hook
  PROVE  /\ host' \in Hosts /\ host'.pc = host.pc /\ host'.agent = host.agent
         /\ host'.ready = host.ready /\ host'.intent = host.intent /\ host'.unclean = host.unclean
         /\ host.todo = <<"hook">> /\ host'.todo \in {<<>>, <<"pause">>}
<1> USE DEF IInv, HistoryInv
<1>1. host.todo = <<"hook">>
  BY PendingIs DEF Hook, Doing
<1>2. \E more \in {<<>>, <<"pause">>} : Done(more)
  BY DEF Hook
<1>3. PICK more \in {<<>>, <<"pause">>} : Done(more)
  BY <1>2
<1>4. /\ <<>> \in Seq(Transactions) /\ <<"pause">> \in Seq(Transactions)
      /\ <<"pause">> \o <<>> = <<"pause">>
  <2>1. "pause" \in Transactions
    BY DEF Transactions
  <2> QED
    BY <2>1, Fronts
<1>5. more \in Seq(Transactions)
  BY <1>4, Zenon
<1>6. Tail(host.todo) = <<>>
  BY <1>1, TailOf1
<1>7. host.todo # <<>>
  BY <1>1, KindsOfRuns
<1>8. /\ host' \in Hosts /\ host'.todo = more \o Tail(host.todo)
      /\ more = <<>> => host'.todo = Tail(host.todo)
      /\ host'.pc = host.pc /\ host'.agent = host.agent
      /\ host'.ready = host.ready /\ host'.intent = host.intent /\ host'.unclean = host.unclean
  BY <1>3, <1>5, <1>7, RestOf
<1>9. host'.todo \in {<<>>, <<"pause">>}
  BY <1>4, <1>6, <1>8, Zenon
<1> QED
  BY <1>1, <1>8, <1>9

LEMMA HookKeeps ==
  ASSUME IInv, Hook
  PROVE  IInv'
<1> USE DEF IInv, HistoryInv
<1>1. /\ host' \in Hosts /\ host'.pc = host.pc /\ host'.agent = host.agent
      /\ host'.ready = host.ready /\ host'.intent = host.intent /\ host'.unclean = host.unclean
      /\ host.todo = <<"hook">> /\ host'.todo \in {<<>>, <<"pause">>}
  BY HookMoves
<1>2. /\ step' \in Steps /\ signals' \in Signals
      /\ attempts' \in Attempts /\ Len(attempts') = Len(attempts) /\ Len(attempts) # 0
      /\ \A n \in 1..Len(attempts) : n # Len(attempts) => attempts'[n] = attempts[n]
      /\ attempts[Len(attempts)].status = "running"
      /\ attempts'[Len(attempts)].status \in TaskEnds \cup {"running"}
      /\ host.agent = 0 /\ host.ready = 0 /\ Serving
      /\ UNCHANGED <<task, log, plan, intents, clean, launched, consent>>
  <2>1. host.todo \in Hooked /\ host.todo \notin BesideAgent /\ host.todo # <<>> /\ host.todo \notin InTasks
    BY <1>1, KindsOfRuns
  <2>2. host.agent = 0 /\ host.ready = 0
    BY <2>1 DEF AgentInv, AttemptInv
  <2>3. Len(attempts) # 0 /\ attempts[Len(attempts)].status = "running" /\ task.status \in TaskEnds
    BY <2>1 DEF AttemptInv, EndInv
  <2>4. attempts \in Seq(Attempt) /\ Len(attempts) \in Nat
    BY Types, LenProperties DEF Attempts
  <2>5. attempts[Len(attempts)] \in Attempt
    BY <2>3, <2>4, ElementOfSeq
  <2>6. Serving
    BY <2>1, Types DEF PhaseInv, Serving, Hosts
  <2>7. UNCHANGED <<task, log, plan, intents, clean, launched, consent>>
    BY DEF Hook
  <2>8. CASE UNCHANGED <<step, attempts, signals>>
    BY <2>2, <2>3, <2>6, <2>7, <2>8, Types
  <2>9. CASE ~Deaf /\ ~UNCHANGED <<step, attempts, signals>>
    <3>1. attempts' = [attempts EXCEPT ![Len(attempts)].status = task.status]
      BY <2>9 DEF Hook
    <3> DEFINE row == [attempts[Len(attempts)] EXCEPT !.status = task.status]
    <3>2. row \in Attempt /\ row.status = task.status /\ attempts' = [attempts EXCEPT ![Len(attempts)] = row]
      BY <2>3, <2>5, <3>1 DEF Attempt
    <3>3. step' = [status |-> "retry_wait", waiting |-> TRUE]
            \/ step' = [status |-> task.status, waiting |-> FALSE]
      BY <2>9 DEF Hook
    <3>4. step' \in Steps
      <4>1. CASE step' = [status |-> "retry_wait", waiting |-> TRUE]
        BY <4>1 DEF Steps
      <4>2. CASE step' = [status |-> task.status, waiting |-> FALSE]
        BY <2>3, <4>2 DEF Steps
      <4> QED
        BY <3>3, <4>1, <4>2
    <3>5. \/ signals' = signals
          \/ signals' = Signalled(FALSE, TRUE, FALSE) \/ signals' = Signalled(FALSE, FALSE, TRUE)
      BY <2>9 DEF Hook
    <3>6. signals' \in Signals
      <4>1. signals \in Signals
        BY Types
      <4>2. Signalled(FALSE, TRUE, FALSE) \in Signals
        BY <4>1 DEF Signalled, Signals
      <4>3. Signalled(FALSE, FALSE, TRUE) \in Signals
        BY <4>1 DEF Signalled, Signals
      <4> QED
        BY <3>5, <4>1, <4>2, <4>3
    <3>7. TypeOK
      OBVIOUS
    <3> HIDE DEF row, IInv, HistoryInv
    <3>8. /\ attempts' \in Attempts /\ Len(attempts') = Len(attempts)
          /\ \A n \in 1..Len(attempts) : n # Len(attempts) => attempts'[n] = attempts[n]
          /\ attempts'[Len(attempts)] = row
      BY <2>3, <3>2, <3>7, Rewritten
    <3> QED
      BY <2>2, <2>3, <2>6, <2>7, <3>2, <3>4, <3>6, <3>8
  <2> QED
    BY <2>8, <2>9 DEF Hook
<1>3. TypeOK'
  BY <1>1, <1>2, Types, TypesNext
<1>4. PhaseInv'
  BY <1>1, <1>2, KindsOfRuns DEF PhaseInv, Serving
<1>5. LogInv'
  BY <1>1, <1>2, KindsOfRuns DEF LogInv, Events, OneOutcomePerRun
<1>6. EndInv'
  BY <1>1, <1>2, KindsOfRuns DEF EndInv, LastIsOutcome
<1>7. CountInv'
  BY <1>1, <1>2, KindsOfRuns DEF CountInv, EventsAreCountedOnce
<1>8. AgentInv'
  BY <1>1, <1>2, KindsOfRuns DEF AgentInv, Events, Serving
<1>9. AttemptInv'
  BY <1>1, <1>2, KindsOfRuns DEF AttemptInv
<1>10. BetweenInv'
  BY <1>1, <1>2, KindsOfRuns DEF BetweenInv, Reconciled, Serving, Launchable
<1>11. IntentInv'
  <2>1. attempts'[Len(attempts)].status # "claimed"
    BY <1>2 DEF TaskEnds
  <2>2. \A i \in 1..Len(intents) :
          /\ intents[i].old \in 1..Len(attempts) /\ intents[i].new \in 0..Len(attempts)
          /\ intents[i].old # Len(attempts)
    <3>1. TAKE i \in 1..Len(intents)
    <3>2. intents[i] \in Intent
      BY Types, ElementOfSeq
    <3>3. /\ intents[i].old <= Len(attempts) /\ attempts[intents[i].old].status = "abandoned"
          /\ intents[i].new <= Len(attempts)
      BY DEF IntentInv
    <3>4. intents[i].old # Len(attempts)
      BY <1>2, <3>3
    <3>5. Len(attempts) \in Nat
      BY Types, LenProperties DEF Attempts
    <3> QED
      BY <3>2, <3>3, <3>4, <3>5 DEF Intent, Number
  <2>3. \A i \in 1..Len(intents) :
          intents[i].new # 0 => \/ attempts'[intents[i].new] = attempts[intents[i].new]
                               \/ intents[i].new = Len(attempts)
    BY <1>2, <2>2
  <2>4. \A i, j \in 1..Len(intents) :
          intents[i].new = 0 /\ intents[j].new # 0 => intents[j].new # Len(attempts)
    BY <1>2 DEF IntentInv, Occupied
  <2>5. \A i \in 1..Len(intents) : attempts'[intents[i].old] = attempts[intents[i].old]
    BY <1>2, <2>2
  <2>6. IntentInv /\ Len(attempts') = Len(attempts) /\ intents' = intents
        /\ attempts'[Len(attempts)].status \in TaskEnds \cup {"running"}
        /\ UNCHANGED <<task, launched>>
    BY <1>2
  <2> HIDE DEF IInv, HistoryInv
  <2>8. \A i \in 1..Len(intents) :
          Launchable' /\ intents[i].new # 0 /\ attempts'[intents[i].new].status = "claimed"
            => intents[i].new \notin launched
    <3>1. Launchable' <=> Launchable
      BY <2>6 DEF Launchable
    <3> QED
      BY <2>1, <2>3, <2>6, <3>1 DEF IntentInv
  <2>9. \A i \in 1..Len(intents) :
          /\ intents[i].old <= Len(attempts) /\ attempts'[intents[i].old].status = "abandoned"
          /\ intents[i].new <= Len(attempts)
    BY <2>5, <2>6 DEF IntentInv
  <2>10. \A i, j \in 1..Len(intents) :
           intents[i].new = 0 /\ intents[j].new # 0
             => attempts'[intents[j].new].status \notin Occupied
    BY <2>3, <2>4, <2>6 DEF IntentInv
  <2> QED
    BY <2>6, <2>8, <2>9, <2>10 DEF IntentInv
<1> QED
  BY <1>3, <1>4, <1>5, <1>6, <1>7, <1>8, <1>9, <1>10, <1>11

\* What the intents name are attempts.
LEMMA IntentsName ==
  ASSUME TypeOK, IntentInv
  PROVE  /\ \A i \in 1..Len(intents) :
              /\ intents[i] \in Intent
              /\ intents[i].old \in 1..Len(attempts) /\ intents[i].new \in 0..Len(attempts)
         /\ Len(attempts) \in Nat /\ Len(intents) \in Nat
<1>1. Len(attempts) \in Nat /\ Len(intents) \in Nat
  BY Types, LenProperties DEF Attempts
<1>2. \A i \in 1..Len(intents) : intents[i] \in Intent
  BY Types, ElementOfSeq
<1>3. \A i \in 1..Len(intents) : intents[i].old <= Len(attempts) /\ intents[i].new <= Len(attempts)
  BY DEF IntentInv
<1>4. \A i \in 1..Len(intents) :
        intents[i].old \in 1..Len(attempts) /\ intents[i].new \in 0..Len(attempts)
  BY <1>1, <1>2, <1>3 DEF Intent, Number
<1> QED
  BY <1>1, <1>2, <1>4

\* An intent is carried on.
LEMMA CarryMoves ==
  ASSUME IInv, ContinueIntent
  PROVE  /\ host' \in Hosts /\ host'.pc = host.pc /\ host'.agent = host.agent
         /\ host'.ready = host.ready /\ host'.intent = host.intent /\ host'.unclean = host.unclean
         /\ host.todo = <<"continue">> /\ Serving
         /\ host'.todo \in {<<>>, <<"launch">>, <<"reopen", "enqueue">>, <<"enqueue">>}
<1> USE DEF IInv, HistoryInv
<1>1. host.todo = <<"continue">>
  BY PendingIs DEF ContinueIntent, Doing
<1>2. host.todo # <<>> /\ host.todo \notin InTasks
  BY <1>1, KindsOfCalls, KindsOfRuns
<1>3. Tail(host.todo) = <<>>
  BY <1>1, TailOf1
<1>4. Serving
  BY <1>2, Types DEF PhaseInv, Serving, Hosts
<1>5. /\ "launch" \in Transactions /\ "reopen" \in Transactions /\ "enqueue" \in Transactions
  BY DEF Transactions
<1>6. /\ <<>> \in Seq(Transactions) /\ <<"launch">> \in Seq(Transactions)
      /\ <<"reopen", "enqueue">> \in Seq(Transactions) /\ <<"enqueue">> \in Seq(Transactions)
      /\ <<"launch">> \o <<>> = <<"launch">> /\ <<"enqueue">> \o <<>> = <<"enqueue">>
      /\ <<"reopen", "enqueue">> \o <<>> = <<"reopen", "enqueue">>
  BY <1>5, Fronts
<1>7. Abandon \/ \E more \in {<<"launch">>, <<"reopen", "enqueue">>, <<"enqueue">>} : Done(more)
  BY DEF ContinueIntent
<1>8. CASE Abandon
  <2>1. host' = [host EXCEPT !.todo = <<>>]
    BY <1>8 DEF Abandon
  <2> QED
    BY <1>1, <1>4, <1>6, <2>1, Types DEF Hosts
<1>9. CASE \E more \in {<<"launch">>, <<"reopen", "enqueue">>, <<"enqueue">>} : Done(more)
  <2>1. PICK more \in {<<"launch">>, <<"reopen", "enqueue">>, <<"enqueue">>} : Done(more)
    BY <1>9
  <2>2. more \in Seq(Transactions) /\ more \o <<>> = more
    BY <1>6, Zenon
  <2>3. /\ host' \in Hosts /\ host'.todo = more \o Tail(host.todo)
        /\ host'.pc = host.pc /\ host'.agent = host.agent
        /\ host'.ready = host.ready /\ host'.intent = host.intent /\ host'.unclean = host.unclean
    BY <1>2, <2>1, <2>2, RestOf
  <2>4. host'.todo \in {<<"launch">>, <<"reopen", "enqueue">>, <<"enqueue">>}
    BY <1>3, <2>1, <2>2, <2>3, Zenon
  <2> QED
    BY <1>1, <1>4, <2>3, <2>4, Zenon
<1> QED
  BY <1>7, <1>8, <1>9

LEMMA CarryKeeps ==
  ASSUME IInv, ContinueIntent
  PROVE  IInv'
<1> USE DEF IInv, HistoryInv
<1>1. /\ host' \in Hosts /\ host'.pc = host.pc /\ host'.agent = host.agent
      /\ host'.ready = host.ready /\ host'.intent = host.intent /\ host'.unclean = host.unclean
      /\ host.todo = <<"continue">> /\ Serving
      /\ host'.todo \in {<<>>, <<"launch">>, <<"reopen", "enqueue">>, <<"enqueue">>}
  BY CarryMoves
<1>2. /\ host.intent \in 1..Len(intents)
      /\ \/ task' = task
         \/ /\ task' \in Tasks /\ task.status = "failed" /\ task'.status = "assigned"
            /\ task'.run = 0 /\ task'.count = task.count /\ intents[host.intent].new = 0
            /\ host'.todo = <<"reopen", "enqueue">>
      /\ host'.todo \in {<<"launch">>, <<"enqueue">>} => Launchable /\ task' = task
      /\ host'.todo = <<"launch">> =>
           /\ Len(attempts) # 0 /\ attempts[Len(attempts)].status = "claimed"
           /\ attempts[Len(attempts)].run = 0 /\ Len(attempts) \notin launched
      /\ host'.todo = <<"reopen", "enqueue">> => Launchable'
      /\ UNCHANGED <<log, plan, step, attempts, intents, signals, clean, launched, consent>>
  <2>1. host.todo \in Continuing
    BY <1>1, KindsOfCalls
  <2>2. host.intent \in 1..Len(intents)
    BY <2>1 DEF PhaseInv
  <2>3. UNCHANGED <<log, plan, step, attempts, intents, signals, clean, launched, consent>>
    BY DEF ContinueIntent
  <2>4. Tail(host.todo) = <<>>
    BY <1>1, TailOf1
  <2>5. /\ "launch" \in Transactions /\ "reopen" \in Transactions /\ "enqueue" \in Transactions
    BY DEF Transactions
  <2>6. /\ <<"launch">> \o <<>> = <<"launch">> /\ <<"enqueue">> \o <<>> = <<"enqueue">>
        /\ <<"reopen", "enqueue">> \o <<>> = <<"reopen", "enqueue">>
    BY <2>5, Fronts
  <2>7. \A more : Done(more) => host'.todo = more \o <<>>
    BY <2>4, Types DEF Done, Hosts
  <2>8. /\ Done(<<"launch">>) => host'.todo = <<"launch">>
        /\ Done(<<"enqueue">>) => host'.todo = <<"enqueue">>
        /\ Done(<<"reopen", "enqueue">>) => host'.todo = <<"reopen", "enqueue">>
        /\ Abandon => host'.todo = <<>>
    BY <2>6, <2>7, Types DEF Abandon, Hosts
  <2>9. /\ <<"launch">> # <<"reopen", "enqueue">> /\ <<"enqueue">> # <<"reopen", "enqueue">>
        /\ <<"launch">> # <<"enqueue">> /\ <<"launch">> # <<>> /\ <<"enqueue">> # <<>>
        /\ <<"reopen", "enqueue">> # <<>>
    OBVIOUS
  <2> DEFINE intent == intents[host.intent]
             alive == plan.status = "running" /\ host.index /\ attempts[intent.old].status = "abandoned"
             unlaunched == attempts[intent.new] = [status |-> "claimed", run |-> 0] /\ Launchable
  <2>10. CASE Abandon /\ UNCHANGED task
    BY <2>2, <2>3, <2>8, <2>9, <2>10
  <2>11. CASE alive /\ intent.new # 0 /\ unlaunched /\ Done(<<"launch">>) /\ UNCHANGED task
    <3>1. intent.new \in 1..Len(attempts) /\ attempts[intent.new].status = "claimed"
          /\ attempts[intent.new].run = 0 /\ Launchable
      BY <2>2, <2>11, IntentsName
    <3>2. intent.new = Len(attempts)
      BY <3>1 DEF AttemptInv, Occupied
    <3>3. intent.new \notin launched
      BY <2>2, <2>11, <3>1 DEF IntentInv
    <3>4. Len(attempts) # 0
      BY <3>1
    <3> HIDE DEF intent, IInv, HistoryInv
    <3> QED
      BY <2>2, <2>3, <2>8, <2>9, <2>11, <3>1, <3>2, <3>3, <3>4
  <2>12. CASE /\ alive /\ intent.new = 0 /\ task.status = "failed" /\ task.outcome = "restart"
              /\ task' = Prepared /\ Done(<<"reopen", "enqueue">>)
    <3>1. 0 \in 0..MaxAttempts
      BY BoundAssumption
    <3>2. task' = [task EXCEPT !.status = "assigned", !.run = 0, !.outcome = None]
      BY <2>12 DEF Prepared
    <3>3. task' \in Tasks /\ task'.status = "assigned" /\ task'.run = 0 /\ task'.count = task.count
      BY <3>1, <3>2, Types DEF Tasks
    <3>4. Launchable'
      BY <3>3 DEF Launchable
    <3> HIDE DEF IInv, HistoryInv
    <3> QED
      BY <2>2, <2>3, <2>8, <2>9, <2>12, <3>3, <3>4
  <2>13. CASE alive /\ intent.new = 0 /\ Launchable /\ Done(<<"enqueue">>) /\ UNCHANGED task
    BY <2>2, <2>3, <2>8, <2>9, <2>13
  <2> HIDE DEF IInv, HistoryInv
  <2> QED
    BY <2>10, <2>11, <2>12, <2>13 DEF ContinueIntent
<1>3. TypeOK'
  BY <1>1, <1>2, Types, TypesNext
<1>4. PhaseInv'
  BY <1>1, <1>2, KindsOfRuns, KindsOfClaims, KindsOfCalls DEF PhaseInv, Serving
<1>5. LogInv'
  BY <1>1, <1>2, KindsOfRuns, KindsOfClaims, KindsOfCalls DEF LogInv, Events, OneOutcomePerRun
<1>6. EndInv'
  <2>1. host'.todo \notin Settling \cup Replaying \cup Hooked
    BY <1>1, KindsOfRuns, KindsOfClaims, KindsOfCalls
  <2>2. CASE task' = task
    BY <1>2, <2>1, <2>2 DEF EndInv, LastIsOutcome
  <2>3. CASE task.status = "failed" /\ task'.status = "assigned" /\ task'.run = 0
    BY <1>2, <2>1, <2>3 DEF EndInv, LastIsOutcome, TaskEnds
  <2> QED
    BY <1>2, <2>2, <2>3
<1>7. CountInv'
  BY <1>1, <1>2, KindsOfRuns, KindsOfClaims, KindsOfCalls DEF CountInv, EventsAreCountedOnce
<1>8. AgentInv'
  <2>1. host'.todo # <<>> => host.agent = 0
    BY <1>1, <1>2 DEF AgentInv, Launchable
  <2>2. /\ <<>> \in BesideAgent /\ <<>> \notin Recording \cup Marking \cup Beginning
        /\ host.todo \notin Recording \cup Marking \cup Beginning
    BY <1>1, KindsOfRuns, KindsOfCalls
  <2>3. task'.status # task.status => host.agent = 0
    BY <1>2 DEF AgentInv
  <2>4. CASE host.agent = 0
    BY <1>1, <2>4 DEF AgentInv
  <2>5. CASE host.agent # 0
    <3>1. task' = task /\ host'.todo = <<>>
      BY <1>2, <2>1, <2>3, <2>5
    <3> QED
      BY <1>1, <1>2, <2>2, <3>1 DEF AgentInv, Events
  <2> QED
    BY <2>4, <2>5
<1>9. AttemptInv'
  <2>1. /\ host'.todo \notin Beginning \cup Recording \cup Marking \cup Failing \cup Settling \cup Hooked
        /\ host'.todo \in Calling => host'.todo = <<"launch">>
        /\ host.todo # <<>>
    BY <1>1, KindsOfRuns, KindsOfClaims, KindsOfCalls
  <2>2. host'.todo = <<"launch">> => host.agent = 0
    BY <1>1, <1>2 DEF AgentInv, Launchable
  <2>3. host.ready = 0
    BY <2>1 DEF AttemptInv
  <2> QED
    BY <1>1, <1>2, <2>1, <2>2, <2>3 DEF AttemptInv
<1>10. BetweenInv'
  BY <1>1, <1>2, KindsOfRuns, KindsOfClaims, KindsOfCalls DEF BetweenInv, Reconciled, Serving, Launchable
<1>11. IntentInv'
  <2>1. CASE task' = task
    BY <1>1, <1>2, <2>1 DEF IntentInv, Launchable
  <2>2. CASE intents[host.intent].new = 0
    <3>1. \A i \in 1..Len(intents) :
            intents[i].new # 0 => attempts[intents[i].new].status # "claimed"
      BY <1>2, <2>2 DEF IntentInv, Occupied
    <3> QED
      BY <1>1, <1>2, <3>1 DEF IntentInv
  <2> QED
    BY <1>2, <2>1, <2>2
<1> QED
  BY <1>3, <1>4, <1>5, <1>6, <1>7, <1>8, <1>9, <1>10, <1>11

\* An unclean restart pauses the run.
LEMMA SweepMoves ==
  ASSUME IInv, SweepRun
  PROVE  /\ host' \in Hosts /\ host.pc = "runs" /\ host'.pc = "intents" /\ host.agent = 0 /\ host'.agent = 0
         /\ host.ready = 0 /\ host'.ready = 0
         /\ host.todo = <<>> /\ host'.todo = <<>>
<1> USE DEF IInv, HistoryInv
<1>1. host.pc = "runs" /\ host' = [host EXCEPT !.pc = "intents"]
  BY DEF SweepRun
<1>2. host.agent = 0 /\ host.ready = 0 /\ host.todo = <<>>
  BY <1>1 DEF PhaseInv, Serving
<1>3. host' \in Hosts /\ host'.pc = "intents" /\ host'.agent = host.agent /\ host'.ready = host.ready /\ host'.todo = host.todo
  BY <1>1, Types DEF Hosts
<1> QED
  BY <1>1, <1>2, <1>3

LEMMA SweepKeeps ==
  ASSUME IInv, SweepRun
  PROVE  IInv'
<1> USE DEF IInv, HistoryInv
<1>1. /\ host' \in Hosts /\ host.pc = "runs" /\ host'.pc = "intents" /\ host.agent = 0 /\ host'.agent = 0
      /\ host.ready = 0 /\ host'.ready = 0
      /\ host.todo = <<>> /\ host'.todo = <<>>
  BY SweepMoves
<1>2. /\ step' \in Steps /\ plan' \in Plans /\ signals' \in Signals /\ consent' \in BOOLEAN
      /\ attempts' \in Attempts /\ Len(attempts') = Len(attempts)
      /\ \A n \in 1..Len(attempts) :
           \/ attempts'[n] = attempts[n]
           \/ attempts[n].status \in Occupied /\ attempts'[n].status = "abandoned"
      /\ UNCHANGED <<task, log, intents, clean, launched>>
  <2>1. attempts \in Seq(Attempt) /\ Len(attempts) \in Nat /\ Len(attempts) <= MaxAttempts
    BY Types, LenProperties DEF Attempts
  <2> DEFINE row(n) == IF n \in Swept THEN [attempts[n] EXCEPT !.status = "abandoned"] ELSE attempts[n]
  <2>2. attempts' = [n \in 1..Len(attempts) |-> row(n)]
    BY DEF SweepRun
  <2>3. \A n \in 1..Len(attempts) :
          /\ row(n) \in Attempt
          /\ \/ row(n) = attempts[n]
             \/ attempts[n].status \in Occupied /\ row(n).status = "abandoned"
    <3>1. TAKE n \in 1..Len(attempts)
    <3>2. attempts[n] \in Attempt
      BY <2>1, ElementOfSeq
    <3>3. [attempts[n] EXCEPT !.status = "abandoned"] \in Attempt
          /\ [attempts[n] EXCEPT !.status = "abandoned"].status = "abandoned"
      BY <3>2 DEF Attempt
    <3>4. n \in Swept => attempts[n].status \in Occupied
      BY DEF Swept
    <3>5. CASE n \in Swept
      <4>1. row(n) = [attempts[n] EXCEPT !.status = "abandoned"]
        BY <3>5
      <4> HIDE DEF row
      <4> QED
        BY <3>3, <3>4, <3>5, <4>1
    <3>6. CASE n \notin Swept
      <4>1. row(n) = attempts[n]
        BY <3>6
      <4> HIDE DEF row
      <4> QED
        BY <3>2, <4>1
    <3> QED
      BY <3>5, <3>6
  <2> HIDE DEF row
  <2>4. /\ attempts' \in Seq(Attempt) /\ Len(attempts') = Len(attempts)
        /\ \A n \in 1..Len(attempts) : attempts'[n] = row(n)
    <3>1. attempts' \in [1..Len(attempts) -> Attempt] /\ \A n \in 1..Len(attempts) : attempts'[n] = row(n)
      BY <2>2, <2>3
    <3>2. attempts' \in Seq(Attempt)
      BY <2>1, <3>1, SeqDef
    <3>3. DOMAIN attempts' = 1..Len(attempts)
      BY <3>1
    <3>4. Len(attempts') \in Nat /\ DOMAIN attempts' = 1..Len(attempts')
      BY <3>2, LenProperties
    <3>5. 1..Len(attempts) = 1..Len(attempts')
      BY <3>3, <3>4
    <3>6. Len(attempts') = Len(attempts)
      BY <2>1, <3>4, <3>5
    <3> QED
      BY <3>1, <3>2, <3>6
  <2>5. step' \in Steps
    <3>1. [status |-> "awaiting_intervention", waiting |-> FALSE] \in Steps
      BY DEF Steps
    <3> QED
      BY <3>1, Types DEF SweepRun
  <2>6. plan' \in Plans
    BY DEF SweepRun, Plans
  <2>7. signals' \in Signals
    BY DEF SweepRun, SignalsAfterSweep, NoSignals, NoSignal, Signals
  <2>8. consent' \in BOOLEAN /\ UNCHANGED <<task, log, intents, clean, launched>>
    BY DEF SweepRun
  <2>9. attempts' \in Attempts
    BY <2>1, <2>4 DEF Attempts
  <2> QED
    BY <2>3, <2>4, <2>5, <2>6, <2>7, <2>8, <2>9
<1>3. TypeOK'
  BY <1>1, <1>2, Types, TypesNext
<1>4. PhaseInv'
  BY <1>1, <1>2, KindsOfRuns DEF PhaseInv, Serving
<1>5. LogInv'
  BY <1>1, <1>2, KindsOfRuns DEF LogInv, Events, OneOutcomePerRun
<1>6. EndInv'
  BY <1>1, <1>2, KindsOfRuns DEF EndInv, LastIsOutcome
<1>7. CountInv'
  BY <1>1, <1>2, KindsOfRuns DEF CountInv, EventsAreCountedOnce
<1>8. AgentInv'
  BY <1>1, <1>2, KindsOfRuns DEF AgentInv, Events, Serving
<1>9. AttemptInv'
  BY <1>1, <1>2, KindsOfRuns DEF AttemptInv, Occupied
<1>10. BetweenInv'
  BY <1>1, <1>2, KindsOfRuns DEF BetweenInv, Reconciled, Serving, Launchable
<1>11. IntentInv'
  <2>1. \A n \in 1..Len(attempts) :
          /\ attempts[n].status = "abandoned" => attempts'[n].status = "abandoned"
          /\ attempts'[n].status \in Occupied => attempts[n].status \in Occupied
          /\ attempts'[n].status = "claimed" => attempts[n].status = "claimed"
    BY <1>2 DEF Occupied
  <2>2. \A i \in 1..Len(intents) :
          intents[i].old \in 1..Len(attempts) /\ intents[i].new \in 0..Len(attempts)
    BY IntentsName
  <2>3. \A i \in 1..Len(intents) : intents[i].new # 0 => intents[i].new \in 1..Len(attempts)
    BY <2>2
  <2> QED
    BY <1>2, <2>1, <2>2, <2>3 DEF IntentInv, Launchable
<1> QED
  BY <1>3, <1>4, <1>5, <1>6, <1>7, <1>8, <1>9, <1>10, <1>11

\* The operator retries an abandoned attempt.
LEMMA RetryAbandonedMoves ==
  ASSUME IInv, RetryAbandonedStep
  PROVE  /\ host' \in Hosts /\ host'.pc = host.pc /\ host'.agent = host.agent /\ host'.ready = host.ready
         /\ Serving /\ host.ready = 0 /\ host.todo = <<>> /\ host'.todo = <<"continue">>
         /\ host'.intent \in 1..Len(intents')
<1> USE DEF IInv, HistoryInv
<1>1. Serving /\ host.todo = <<>>
  BY DEF RetryAbandonedStep, RetryAsked, Asked, Serving, Idle
<1>8. host.ready = 0
  BY DEF RetryAbandonedStep, Latest, AttemptInv
<1>2. <<"continue">> \in Seq(Transactions)
  BY DEF Transactions
<1>3. \A i \in Recoverable : i \in 1..Len(intents) /\ intents[i].new = 0
  <2>1. \A n \in 1..Len(attempts) : attempts[n].status \notin Occupied
    BY DEF RetryAbandonedStep, Latest, AttemptInv, Occupied
  <2> QED
    BY <2>1, IntentsName DEF Recoverable, Occupied
<1>4. Recoverable # {} => Newest(Recoverable) \in Recoverable
  <2>1. HAVE Recoverable # {}
  <2>2. PICK i \in Recoverable : TRUE
    BY <2>1
  <2>3. \A j \in Recoverable : j <= i
    BY <1>3, <2>2 DEF IntentInv
  <2> QED
    BY <2>2, <2>3 DEF Newest
<1>5. \E k \in Nat : host' = [host EXCEPT !.intent = k, !.todo = <<"continue">>] /\ k \in 1..Len(intents')
  <2>1. CASE Recoverable # {}
    <3>1. Newest(Recoverable) \in 1..Len(intents)
      BY <1>3, <1>4, <2>1
    <3>2. host' = [host EXCEPT !.intent = Newest(Recoverable), !.todo = <<"continue">>] /\ intents' = intents
      BY <2>1 DEF RetryAbandonedStep
    <3>3. Newest(Recoverable) \in Nat /\ Newest(Recoverable) \in 1..Len(intents')
      BY <3>1, <3>2
    <3> QED
      BY <3>2, <3>3, Zenon
  <2>2. CASE Recoverable = {}
    <3>1. /\ host' = [host EXCEPT !.intent = Len(intents) + 1, !.todo = <<"continue">>]
          /\ intents' = Append(intents, [old |-> Len(attempts), new |-> 0])
      BY <2>2 DEF RetryAbandonedStep
    <3>2. Len(intents') = Len(intents) + 1 /\ Len(intents) \in Nat
      BY <3>1, LenProperties, Types
    <3>3. Len(intents) + 1 \in Nat /\ Len(intents) + 1 \in 1..Len(intents')
      BY <3>2
    <3> QED
      BY <3>1, <3>3, Zenon
  <2> QED
    BY <2>1, <2>2
<1>6. PICK k \in Nat : host' = [host EXCEPT !.intent = k, !.todo = <<"continue">>] /\ k \in 1..Len(intents')
  BY <1>5
<1> HIDE DEF IInv, HistoryInv
<1>7. host \in Hosts
  BY Types DEF IInv
<1> QED
  BY <1>8, <1>1, <1>2, <1>6, <1>7 DEF Hosts

LEMMA RetryAbandonedKeeps ==
  ASSUME IInv, RetryAbandonedStep
  PROVE  IInv'
<1> USE DEF IInv, HistoryInv
<1>1. /\ host' \in Hosts /\ host'.pc = host.pc /\ host'.agent = host.agent /\ host'.ready = host.ready
      /\ Serving /\ host.ready = 0 /\ host.todo = <<>> /\ host'.todo = <<"continue">>
      /\ host'.intent \in 1..Len(intents')
  BY RetryAbandonedMoves
<1>2. /\ intents' \in Seq(Intent) /\ consent' \in BOOLEAN
      /\ \/ intents' = intents
         \/ /\ Len(intents) \in Nat /\ Len(intents') = Len(intents) + 1
            /\ \A i \in 1..Len(intents) : intents'[i] = intents[i] /\ intents[i].new # 0
            /\ intents'[Len(intents) + 1].old = Len(attempts)
            /\ intents'[Len(intents) + 1].new = 0
            /\ attempts[Len(attempts)].status = "abandoned"
            /\ \A n \in 1..Len(attempts) : attempts[n].status \notin Occupied
      /\ UNCHANGED <<task, log, plan, step, attempts, signals, clean, launched>>
  <2>1. consent' \in BOOLEAN
    BY DEF RetryAbandonedStep, RetryAsked
  <2>2. UNCHANGED <<task, log, plan, step, attempts, signals, clean, launched>>
    BY DEF RetryAbandonedStep
  <2>3. CASE UNCHANGED intents
    BY <2>1, <2>2, <2>3, Types
  <2>4. CASE Recoverable = {} /\ intents' = Append(intents, [old |-> Len(attempts), new |-> 0])
    <3>1. /\ Len(attempts) \in Number /\ attempts[Len(attempts)].status = "abandoned"
      BY Types, LenProperties, EmptySeq DEF RetryAbandonedStep, Latest, Attempts, Number
    <3>2. \A n \in 1..Len(attempts) : attempts[n].status \notin Occupied
      BY <3>1 DEF AttemptInv, Occupied
    <3> DEFINE new == [old |-> Len(attempts), new |-> 0]
    <3>3. new \in Intent /\ new.old = Len(attempts) /\ new.new = 0
      BY <3>1, BoundAssumption DEF Intent
    <3>4. intents \in Seq(Intent) /\ Len(intents) \in Nat
      BY Types, LenProperties
    <3>5. \A i \in 1..Len(intents) : intents[i].new # 0
      BY <2>4 DEF Recoverable, IntentInv
    <3>6. intents' = Append(intents, new)
      BY <2>4
    <3> HIDE DEF new
    <3>7. /\ intents' \in Seq(Intent) /\ Len(intents') = Len(intents) + 1
          /\ \A i \in 1..Len(intents) : intents'[i] = intents[i]
          /\ intents'[Len(intents) + 1] = new
      BY <3>3, <3>4, <3>6, AppendProperties
    <3> QED
      BY <2>1, <2>2, <3>1, <3>2, <3>3, <3>4, <3>5, <3>7
  <2> QED
    BY <2>3, <2>4 DEF RetryAbandonedStep
<1>3. TypeOK'
  BY <1>1, <1>2, Types, TypesNext
<1>4. PhaseInv'
  BY <1>1, <1>2, KindsOfRuns, KindsOfCalls DEF PhaseInv, Serving
<1>5. LogInv'
  BY <1>1, <1>2, KindsOfRuns, KindsOfCalls DEF LogInv, Events, OneOutcomePerRun
<1>6. EndInv'
  BY <1>1, <1>2, KindsOfRuns, KindsOfCalls DEF EndInv, LastIsOutcome
<1>7. CountInv'
  BY <1>1, <1>2, KindsOfRuns, KindsOfCalls DEF CountInv, EventsAreCountedOnce
<1>8. AgentInv'
  BY <1>1, <1>2, KindsOfRuns, KindsOfCalls DEF AgentInv, Events, Serving
<1>9. AttemptInv'
  BY <1>1, <1>2, KindsOfRuns, KindsOfCalls DEF AttemptInv
<1>10. BetweenInv'
  BY <1>1, <1>2, KindsOfRuns, KindsOfCalls DEF BetweenInv, Reconciled, Serving, Launchable
<1>11. IntentInv'
  <2>1. CASE intents' = intents
    BY <1>2, <2>1 DEF IntentInv, Launchable
  <2>2. CASE Len(intents') = Len(intents) + 1
    <3>1. \A i \in 1..Len(intents') : i \in 1..Len(intents) \/ i = Len(intents) + 1
      BY <1>2, <2>2
    <3>2. Len(attempts) \in Nat /\ 0 <= Len(attempts) /\ Len(attempts) <= Len(attempts)
      BY IntentsName
    <3>3. \A i \in 1..Len(intents) : intents[i].new \in 1..Len(attempts)
      BY <1>2, <2>2, IntentsName
    <3>4. \A i \in 1..Len(intents') :
            /\ intents'[i].old <= Len(attempts) /\ attempts[intents'[i].old].status = "abandoned"
            /\ intents'[i].new <= Len(attempts)
      BY <1>2, <2>2, <3>1, <3>2 DEF IntentInv
    <3>5. \A i \in 1..Len(intents') : intents'[i].new = 0 => i = Len(intents) + 1
      BY <1>2, <2>2, <3>1
    <3>6. \A i \in 1..Len(intents') : intents'[i].new # 0 => attempts[intents'[i].new].status \notin Occupied
      BY <1>2, <2>2, <3>1, <3>3
    <3>7. \A i \in 1..Len(intents') :
            intents'[i].new # 0 => attempts[intents'[i].new].status # "claimed"
      BY <3>6 DEF Occupied
    <3>8. attempts' = attempts /\ launched' = launched
      BY <1>2
    <3> QED
      BY <3>4, <3>5, <3>6, <3>7, <3>8 DEF IntentInv
  <2> QED
    BY <1>2, <2>1, <2>2
<1> QED
  BY <1>3, <1>4, <1>5, <1>6, <1>7, <1>8, <1>9, <1>10, <1>11

\* The projection is brought up to its log.
LEMMA CatchUpMoves ==
  ASSUME IInv, CatchUp
  PROVE  /\ host' \in Hosts /\ host'.agent = host.agent /\ host'.ready = host.ready /\ host'.intent = host.intent /\ host'.unclean = host.unclean
         /\ host'.pc = host.pc /\ host.pc = "tasks"
         /\ host.todo = <<>> /\ host'.todo = <<"meta">>
<1> USE DEF IInv, HistoryInv
<1>1. <<"meta">> \in Seq(Transactions)
  BY DEF Transactions
<1> QED
  BY <1>1, Types DEF CatchUp, Hosts, Reconciling, Idle

LEMMA CatchUpKeeps ==
  ASSUME IInv, CatchUp
  PROVE  IInv'
<1> USE DEF IInv, HistoryInv
<1>1. /\ host' \in Hosts /\ host'.agent = host.agent /\ host'.ready = host.ready /\ host'.intent = host.intent /\ host'.unclean = host.unclean
      /\ host'.pc = host.pc /\ host.pc = "tasks"
      /\ host.todo = <<>> /\ host'.todo = <<"meta">>
  BY CatchUpMoves
<1>2. /\ UNCHANGED <<task, log, plan, step, attempts, intents, signals, clean, launched, consent>> /\ task.count < Len(log.events)
  BY DEF CatchUp, durable
<1>3. TypeOK'
  BY <1>1, <1>2, Types, TypesNext
<1>4. PhaseInv'
  BY <1>1, <1>2, KindsOfRuns DEF PhaseInv, Serving
<1>5. LogInv'
  BY <1>1, <1>2, KindsOfRuns DEF LogInv, Events, OneOutcomePerRun
<1>6. EndInv'
  BY <1>1, <1>2, KindsOfRuns DEF EndInv, LastIsOutcome
<1>7. CountInv'
  BY <1>1, <1>2, KindsOfRuns DEF CountInv, EventsAreCountedOnce
<1>8. AgentInv'
  BY <1>1, <1>2, KindsOfRuns DEF AgentInv, Events, Serving, PhaseInv
<1>9. AttemptInv'
  BY <1>1, <1>2, KindsOfRuns DEF AttemptInv, PhaseInv, Serving
<1>10. BetweenInv'
  BY <1>1, <1>2, KindsOfRuns DEF BetweenInv, Reconciled, Serving, Launchable
<1>11. IntentInv'
  BY <1>1, <1>2, KindsOfRuns DEF IntentInv, Launchable
<1> QED
  BY <1>3, <1>4, <1>5, <1>6, <1>7, <1>8, <1>9, <1>10, <1>11

\* The outcome at the end of the log is replayed.
LEMMA ReplayMoves ==
  ASSUME IInv, ReplayOutcome
  PROVE  /\ host' \in Hosts /\ host'.agent = host.agent /\ host'.ready = host.ready /\ host'.intent = host.intent /\ host'.unclean = host.unclean
         /\ host'.pc = host.pc /\ host.pc = "tasks"
         /\ host.todo = <<>> /\ host'.todo = <<"status", "outcome">>
<1> USE DEF IInv, HistoryInv
<1>1. <<"status", "outcome">> \in Seq(Transactions)
  BY DEF Transactions
<1> QED
  BY <1>1, Types DEF ReplayOutcome, Hosts, Pending, Reconciling, Idle

LEMMA ReplayKeeps ==
  ASSUME IInv, ReplayOutcome
  PROVE  IInv'
<1> USE DEF IInv, HistoryInv
<1>1. /\ host' \in Hosts /\ host'.agent = host.agent /\ host'.ready = host.ready /\ host'.intent = host.intent /\ host'.unclean = host.unclean
      /\ host'.pc = host.pc /\ host.pc = "tasks"
      /\ host.todo = <<>> /\ host'.todo = <<"status", "outcome">>
  BY ReplayMoves
<1>2. /\ UNCHANGED <<task, log, plan, step, attempts, intents, signals, clean, launched, consent>> /\ LastIsOutcome
  BY DEF ReplayOutcome, durable
<1>3. TypeOK'
  BY <1>1, <1>2, Types, TypesNext
<1>4. PhaseInv'
  BY <1>1, <1>2, KindsOfRuns DEF PhaseInv, Serving
<1>5. LogInv'
  BY <1>1, <1>2, KindsOfRuns DEF LogInv, Events, OneOutcomePerRun
<1>6. EndInv'
  BY <1>1, <1>2, KindsOfRuns DEF EndInv, LastIsOutcome
<1>7. CountInv'
  BY <1>1, <1>2, KindsOfRuns DEF CountInv, EventsAreCountedOnce
<1>8. AgentInv'
  BY <1>1, <1>2, KindsOfRuns DEF AgentInv, Events, Serving, PhaseInv
<1>9. AttemptInv'
  BY <1>1, <1>2, KindsOfRuns DEF AttemptInv, PhaseInv, Serving
<1>10. BetweenInv'
  BY <1>1, <1>2, KindsOfRuns DEF BetweenInv, Reconciled, Serving, Launchable
<1>11. IntentInv'
  BY <1>1, <1>2, KindsOfRuns DEF IntentInv, Launchable
<1> QED
  BY <1>3, <1>4, <1>5, <1>6, <1>7, <1>8, <1>9, <1>10, <1>11

\* The tasks are reconciled.
LEMMA ReconciledMoves ==
  ASSUME IInv, TasksReconciled
  PROVE  /\ host' \in Hosts /\ host'.agent = host.agent /\ host'.ready = host.ready /\ host'.intent = host.intent /\ host'.unclean = host.unclean
         /\ host.pc = "tasks" /\ host'.pc = "runs"
         /\ host.todo = <<>> /\ host'.todo = <<>>
<1> USE DEF IInv, HistoryInv
<1> QED
  BY Types DEF TasksReconciled, Hosts, Transactions, Reconciling, Idle

LEMMA ReconciledKeeps ==
  ASSUME IInv, TasksReconciled
  PROVE  IInv'
<1> USE DEF IInv, HistoryInv
<1>1. /\ host' \in Hosts /\ host'.agent = host.agent /\ host'.ready = host.ready /\ host'.intent = host.intent /\ host'.unclean = host.unclean
      /\ host.pc = "tasks" /\ host'.pc = "runs"
      /\ host.todo = <<>> /\ host'.todo = <<>>
  BY ReconciledMoves
<1>2. /\ UNCHANGED <<task, log, plan, step, attempts, intents, signals, clean, launched, consent>>
      /\ task.status \in TaskEnds \/ (task.run = 0 /\ ~LastIsOutcome)
  BY DEF TasksReconciled, NothingInterrupted, durable
<1>3. TypeOK'
  BY <1>1, <1>2, Types, TypesNext
<1>4. PhaseInv'
  BY <1>1, <1>2, KindsOfRuns DEF PhaseInv, Serving
<1>5. LogInv'
  BY <1>1, <1>2, KindsOfRuns DEF LogInv, Events, OneOutcomePerRun
<1>6. EndInv'
  BY <1>1, <1>2, KindsOfRuns DEF EndInv, LastIsOutcome
<1>7. CountInv'
  BY <1>1, <1>2, KindsOfRuns DEF CountInv, EventsAreCountedOnce
<1>8. AgentInv'
  BY <1>1, <1>2, KindsOfRuns DEF AgentInv, Events, Serving
<1>9. AttemptInv'
  BY <1>1, <1>2, KindsOfRuns DEF AttemptInv
<1>10. BetweenInv'
  BY <1>1, <1>2, KindsOfRuns DEF BetweenInv, Reconciled, Serving, Launchable, EndInv, TaskEnds
<1>11. IntentInv'
  BY <1>1, <1>2, KindsOfRuns DEF IntentInv, Launchable
<1> QED
  BY <1>3, <1>4, <1>5, <1>6, <1>7, <1>8, <1>9, <1>10, <1>11

\* The runs are recovered.
LEMMA RecoveredMoves ==
  ASSUME IInv, RunsRecovered
  PROVE  /\ host' \in Hosts /\ host'.agent = host.agent /\ host'.ready = host.ready /\ host'.intent = host.intent /\ host'.unclean = host.unclean
         /\ host.pc \in {"runs", "draining"} /\ host'.pc = "intents"
         /\ host.todo = <<>> /\ host'.todo = <<>>
<1> USE DEF IInv, HistoryInv
<1> QED
  BY Types DEF RunsRecovered, Hosts, Idle, PhaseInv

LEMMA RecoveredKeeps ==
  ASSUME IInv, RunsRecovered
  PROVE  IInv'
<1> USE DEF IInv, HistoryInv
<1>1. /\ host' \in Hosts /\ host'.agent = host.agent /\ host'.ready = host.ready /\ host'.intent = host.intent /\ host'.unclean = host.unclean
      /\ host.pc \in {"runs", "draining"} /\ host'.pc = "intents"
      /\ host.todo = <<>> /\ host'.todo = <<>>
  BY RecoveredMoves
<1>2. /\ UNCHANGED <<task, log, plan, step, attempts, intents, signals, clean, launched, consent>>
  BY DEF RunsRecovered, durable
<1>3. TypeOK'
  BY <1>1, <1>2, Types, TypesNext
<1>4. PhaseInv'
  BY <1>1, <1>2, KindsOfRuns DEF PhaseInv, Serving
<1>5. LogInv'
  BY <1>1, <1>2, KindsOfRuns DEF LogInv, Events, OneOutcomePerRun
<1>6. EndInv'
  BY <1>1, <1>2, KindsOfRuns DEF EndInv, LastIsOutcome
<1>7. CountInv'
  BY <1>1, <1>2, KindsOfRuns DEF CountInv, EventsAreCountedOnce
<1>8. AgentInv'
  BY <1>1, <1>2, KindsOfRuns DEF AgentInv, Events, Serving
<1>9. AttemptInv'
  BY <1>1, <1>2, KindsOfRuns DEF AttemptInv
<1>10. BetweenInv'
  BY <1>1, <1>2, KindsOfRuns DEF BetweenInv, Reconciled, Serving, Launchable
<1>11. IntentInv'
  BY <1>1, <1>2, KindsOfRuns DEF IntentInv, Launchable
<1> QED
  BY <1>3, <1>4, <1>5, <1>6, <1>7, <1>8, <1>9, <1>10, <1>11

\* The bridge is armed.
LEMMA ArmMoves ==
  ASSUME IInv, Arm
  PROVE  /\ host' \in Hosts /\ host'.agent = host.agent /\ host'.ready = host.ready /\ host'.intent = host.intent /\ host'.unclean = host.unclean
         /\ host.pc = "intents" /\ host'.pc = "up"
         /\ host.todo = <<>> /\ host'.todo = <<>>
<1> USE DEF IInv, HistoryInv
<1> QED
  BY Types DEF Arm, Hosts, Transactions, IntentsTurn, Idle

LEMMA ArmKeeps ==
  ASSUME IInv, Arm
  PROVE  IInv'
<1> USE DEF IInv, HistoryInv
<1>1. /\ host' \in Hosts /\ host'.agent = host.agent /\ host'.ready = host.ready /\ host'.intent = host.intent /\ host'.unclean = host.unclean
      /\ host.pc = "intents" /\ host'.pc = "up"
      /\ host.todo = <<>> /\ host'.todo = <<>>
  BY ArmMoves
<1>2. /\ UNCHANGED <<task, log, plan, step, attempts, intents, signals, clean, launched, consent>>
  BY DEF Arm, durable
<1>3. TypeOK'
  BY <1>1, <1>2, Types, TypesNext
<1>4. PhaseInv'
  BY <1>1, <1>2, KindsOfRuns DEF PhaseInv, Serving
<1>5. LogInv'
  BY <1>1, <1>2, KindsOfRuns DEF LogInv, Events, OneOutcomePerRun
<1>6. EndInv'
  BY <1>1, <1>2, KindsOfRuns DEF EndInv, LastIsOutcome
<1>7. CountInv'
  BY <1>1, <1>2, KindsOfRuns DEF CountInv, EventsAreCountedOnce
<1>8. AgentInv'
  BY <1>1, <1>2, KindsOfRuns DEF AgentInv, Events, Serving
<1>9. AttemptInv'
  BY <1>1, <1>2, KindsOfRuns DEF AttemptInv
<1>10. BetweenInv'
  BY <1>1, <1>2, KindsOfRuns DEF BetweenInv, Reconciled, Serving, Launchable
<1>11. IntentInv'
  BY <1>1, <1>2, KindsOfRuns DEF IntentInv, Launchable
<1> QED
  BY <1>3, <1>4, <1>5, <1>6, <1>7, <1>8, <1>9, <1>10, <1>11

\* The process is killed.
LEMMA CrashMoves ==
  ASSUME IInv, Crash
  PROVE  /\ host' \in Hosts /\ host'.agent = 0 /\ host'.ready = 0 /\ host'.intent = 0
         /\ host'.pc = "down" /\ host'.todo = <<>>
<1> USE DEF IInv, HistoryInv
<1> QED
  BY Types, BoundAssumption DEF Crash, Off, Hosts

LEMMA CrashKeeps ==
  ASSUME IInv, Crash
  PROVE  IInv'
<1> USE DEF IInv, HistoryInv
<1>1. /\ host' \in Hosts /\ host'.agent = 0 /\ host'.ready = 0 /\ host'.intent = 0
      /\ host'.pc = "down" /\ host'.todo = <<>>
  BY CrashMoves
<1>2. /\ UNCHANGED <<task, log, plan, step, attempts, intents, signals, clean, launched, consent>>
  BY DEF Crash, durable
<1>3. TypeOK'
  BY <1>1, <1>2, Types, TypesNext
<1>4. PhaseInv'
  BY <1>1, <1>2, KindsOfRuns DEF PhaseInv, Serving
<1>5. LogInv'
  BY <1>1, <1>2, KindsOfRuns DEF LogInv, Events, OneOutcomePerRun
<1>6. EndInv'
  BY <1>1, <1>2, KindsOfRuns DEF EndInv, LastIsOutcome
<1>7. CountInv'
  BY <1>1, <1>2, KindsOfRuns DEF CountInv, EventsAreCountedOnce
<1>8. AgentInv'
  BY <1>1, <1>2, KindsOfRuns DEF AgentInv, Events, Serving
<1>9. AttemptInv'
  BY <1>1, <1>2, KindsOfRuns DEF AttemptInv
<1>10. BetweenInv'
  BY <1>1, <1>2, KindsOfRuns DEF BetweenInv, Reconciled, Serving, Launchable
<1>11. IntentInv'
  BY <1>1, <1>2, KindsOfRuns DEF IntentInv, Launchable
<1> QED
  BY <1>3, <1>4, <1>5, <1>6, <1>7, <1>8, <1>9, <1>10, <1>11

\* A shutdown begins.
LEMMA BeginMoves ==
  ASSUME IInv, BeginShutdown
  PROVE  /\ host' \in Hosts /\ host'.agent = host.agent /\ host'.ready = host.ready /\ host'.intent = host.intent /\ host'.unclean = host.unclean
         /\ host.pc = "up" /\ host'.pc = "closing"
         /\ host.todo = <<>> /\ host'.todo = <<>>
<1> USE DEF IInv, HistoryInv
<1> QED
  BY Types DEF BeginShutdown, Hosts, Transactions, Idle

LEMMA BeginKeeps ==
  ASSUME IInv, BeginShutdown
  PROVE  IInv'
<1> USE DEF IInv, HistoryInv
<1>1. /\ host' \in Hosts /\ host'.agent = host.agent /\ host'.ready = host.ready /\ host'.intent = host.intent /\ host'.unclean = host.unclean
      /\ host.pc = "up" /\ host'.pc = "closing"
      /\ host.todo = <<>> /\ host'.todo = <<>>
  BY BeginMoves
<1>2. /\ UNCHANGED <<task, log, plan, step, attempts, intents, signals, clean, launched, consent>>
  BY DEF BeginShutdown, durable
<1>3. TypeOK'
  BY <1>1, <1>2, Types, TypesNext
<1>4. PhaseInv'
  BY <1>1, <1>2, KindsOfRuns DEF PhaseInv, Serving
<1>5. LogInv'
  BY <1>1, <1>2, KindsOfRuns DEF LogInv, Events, OneOutcomePerRun
<1>6. EndInv'
  BY <1>1, <1>2, KindsOfRuns DEF EndInv, LastIsOutcome
<1>7. CountInv'
  BY <1>1, <1>2, KindsOfRuns DEF CountInv, EventsAreCountedOnce
<1>8. AgentInv'
  BY <1>1, <1>2, KindsOfRuns DEF AgentInv, Events, Serving
<1>9. AttemptInv'
  BY <1>1, <1>2, KindsOfRuns DEF AttemptInv
<1>10. BetweenInv'
  BY <1>1, <1>2, KindsOfRuns DEF BetweenInv, Reconciled, Serving, Launchable
<1>11. IntentInv'
  BY <1>1, <1>2, KindsOfRuns DEF IntentInv, Launchable
<1> QED
  BY <1>3, <1>4, <1>5, <1>6, <1>7, <1>8, <1>9, <1>10, <1>11

\* A shutdown ends.
LEMMA FinishMoves ==
  ASSUME IInv, FinishShutdown
  PROVE  /\ host' \in Hosts /\ host'.agent = 0 /\ host'.ready = 0 /\ host'.intent = 0
         /\ host'.pc = "down" /\ host'.todo = <<>>
<1> USE DEF IInv, HistoryInv
<1> QED
  BY Types, BoundAssumption DEF FinishShutdown, Off, Hosts

LEMMA FinishKeeps ==
  ASSUME IInv, FinishShutdown
  PROVE  IInv'
<1> USE DEF IInv, HistoryInv
<1>1. /\ host' \in Hosts /\ host'.agent = 0 /\ host'.ready = 0 /\ host'.intent = 0
      /\ host'.pc = "down" /\ host'.todo = <<>>
  BY FinishMoves
<1>2. /\ clean' \in BOOLEAN
      /\ UNCHANGED <<task, log, plan, step, attempts, intents, signals, launched, consent>>
  BY DEF FinishShutdown
<1>3. TypeOK'
  BY <1>1, <1>2, Types, TypesNext
<1>4. PhaseInv'
  BY <1>1, <1>2, KindsOfRuns DEF PhaseInv, Serving
<1>5. LogInv'
  BY <1>1, <1>2, KindsOfRuns DEF LogInv, Events, OneOutcomePerRun
<1>6. EndInv'
  BY <1>1, <1>2, KindsOfRuns DEF EndInv, LastIsOutcome
<1>7. CountInv'
  BY <1>1, <1>2, KindsOfRuns DEF CountInv, EventsAreCountedOnce
<1>8. AgentInv'
  BY <1>1, <1>2, KindsOfRuns DEF AgentInv, Events, Serving
<1>9. AttemptInv'
  BY <1>1, <1>2, KindsOfRuns DEF AttemptInv
<1>10. BetweenInv'
  BY <1>1, <1>2, KindsOfRuns DEF BetweenInv, Reconciled, Serving, Launchable
<1>11. IntentInv'
  BY <1>1, <1>2, KindsOfRuns DEF IntentInv, Launchable
<1> QED
  BY <1>3, <1>4, <1>5, <1>6, <1>7, <1>8, <1>9, <1>10, <1>11

\* A process starts.
LEMMA BootMoves ==
  ASSUME IInv, Boot
  PROVE  /\ host' \in Hosts /\ host'.agent = 0 /\ host'.ready = 0 /\ host'.intent = 0
         /\ host.pc = "down" /\ host'.pc = "tasks" /\ host'.todo = <<>>
<1> USE DEF IInv, HistoryInv
<1>1. (~clean) \in BOOLEAN /\ host.pc = "down"
  BY Zenon DEF Boot
<1>2. PICK u \in BOOLEAN : host' = [Off EXCEPT !.pc = "tasks", !.unclean = u]
  BY <1>1, Zenon DEF Boot
<1>3. <<>> \in Seq(Transactions) /\ 0 \in 0..MaxAttempts
  BY BoundAssumption
<1> QED
  BY <1>1, <1>2, <1>3 DEF Off, Hosts

LEMMA BootKeeps ==
  ASSUME IInv, Boot
  PROVE  IInv'
<1> USE DEF IInv, HistoryInv
<1>1. /\ host' \in Hosts /\ host'.agent = 0 /\ host'.ready = 0 /\ host'.intent = 0
      /\ host.pc = "down" /\ host'.pc = "tasks" /\ host'.todo = <<>>
  BY BootMoves
<1>2. /\ clean' \in BOOLEAN
      /\ UNCHANGED <<task, log, plan, step, attempts, intents, signals, launched, consent>>
  BY DEF Boot
<1>3. TypeOK'
  BY <1>1, <1>2, Types, TypesNext
<1>4. PhaseInv'
  BY <1>1, <1>2, KindsOfRuns DEF PhaseInv, Serving
<1>5. LogInv'
  BY <1>1, <1>2, KindsOfRuns DEF LogInv, Events, OneOutcomePerRun
<1>6. EndInv'
  BY <1>1, <1>2, KindsOfRuns DEF EndInv, LastIsOutcome
<1>7. CountInv'
  BY <1>1, <1>2, KindsOfRuns DEF CountInv, EventsAreCountedOnce
<1>8. AgentInv'
  BY <1>1, <1>2, KindsOfRuns DEF AgentInv, Events, Serving
<1>9. AttemptInv'
  BY <1>1, <1>2, KindsOfRuns DEF AttemptInv
<1>10. BetweenInv'
  BY <1>1, <1>2, KindsOfRuns DEF BetweenInv, Reconciled, Serving, Launchable
<1>11. IntentInv'
  BY <1>1, <1>2, KindsOfRuns DEF IntentInv, Launchable
<1> QED
  BY <1>3, <1>4, <1>5, <1>6, <1>7, <1>8, <1>9, <1>10, <1>11

\* A clean restart revalidates the run.
LEMMA ContinueMoves ==
  ASSUME IInv, ContinueRun
  PROVE  /\ host' \in Hosts /\ host'.agent = host.agent /\ host'.ready = host.ready /\ host'.intent = host.intent /\ host'.unclean = host.unclean
         /\ host.pc = "runs" /\ host'.pc = "draining"
         /\ host.todo = <<>> /\ host'.todo = <<>>
<1> USE DEF IInv, HistoryInv
<1> QED
  BY Types DEF ContinueRun, Hosts, PhaseInv

LEMMA ContinueKeeps ==
  ASSUME IInv, ContinueRun
  PROVE  IInv'
<1> USE DEF IInv, HistoryInv
<1>1. /\ host' \in Hosts /\ host'.agent = host.agent /\ host'.ready = host.ready /\ host'.intent = host.intent /\ host'.unclean = host.unclean
      /\ host.pc = "runs" /\ host'.pc = "draining"
      /\ host.todo = <<>> /\ host'.todo = <<>>
  BY ContinueMoves
<1>2. /\ signals' \in Signals
      /\ UNCHANGED <<task, log, plan, step, attempts, intents, clean, launched, consent>>
  BY Types DEF ContinueRun, Signals
<1>3. TypeOK'
  BY <1>1, <1>2, Types, TypesNext
<1>4. PhaseInv'
  BY <1>1, <1>2, KindsOfRuns DEF PhaseInv, Serving
<1>5. LogInv'
  BY <1>1, <1>2, KindsOfRuns DEF LogInv, Events, OneOutcomePerRun
<1>6. EndInv'
  BY <1>1, <1>2, KindsOfRuns DEF EndInv, LastIsOutcome
<1>7. CountInv'
  BY <1>1, <1>2, KindsOfRuns DEF CountInv, EventsAreCountedOnce
<1>8. AgentInv'
  BY <1>1, <1>2, KindsOfRuns DEF AgentInv, Events, Serving
<1>9. AttemptInv'
  BY <1>1, <1>2, KindsOfRuns DEF AttemptInv
<1>10. BetweenInv'
  BY <1>1, <1>2, KindsOfRuns DEF BetweenInv, Reconciled, Serving, Launchable
<1>11. IntentInv'
  BY <1>1, <1>2, KindsOfRuns DEF IntentInv, Launchable
<1> QED
  BY <1>3, <1>4, <1>5, <1>6, <1>7, <1>8, <1>9, <1>10, <1>11

\* startTask is called.
LEMMA CallMoves ==
  ASSUME IInv, CallStartTask
  PROVE  /\ host' \in Hosts /\ host'.pc = host.pc /\ host'.agent = host.agent
         /\ host'.ready = Len(attempts) /\ host'.intent = host.intent /\ host'.unclean = host.unclean
         /\ host.todo = <<"launch">> \/ host.todo = <<"launch", "complete">>
         /\ host'.todo = <<>> /\ host.ready = 0
<1> USE DEF IInv, HistoryInv
<1>1. host.todo = <<"launch">> \/ host.todo = <<"launch", "complete">>
  BY PendingIs DEF CallStartTask, Doing
<1>2. host.ready = 0
  BY <1>1 DEF AttemptInv
<1>3. Len(attempts) \in 0..MaxAttempts
  BY Types, BoundAssumption DEF Attempts
<1>4. <<>> \in Seq(Transactions)
  OBVIOUS
<1> QED
  BY <1>1, <1>2, <1>3, <1>4, Types DEF CallStartTask, Hosts

LEMMA CallKeeps ==
  ASSUME IInv, CallStartTask
  PROVE  IInv'
<1> USE DEF IInv, HistoryInv
<1>1. /\ host' \in Hosts /\ host'.pc = host.pc /\ host'.agent = host.agent
      /\ host'.ready = Len(attempts) /\ host'.intent = host.intent /\ host'.unclean = host.unclean
      /\ host.todo = <<"launch">> \/ host.todo = <<"launch", "complete">>
      /\ host'.todo = <<>> /\ host.ready = 0
  BY CallMoves
<1>2. /\ UNCHANGED <<task, log, plan, step, attempts, intents, signals, clean, launched, consent>>
  BY DEF CallStartTask, durable
<1>3. TypeOK'
  BY <1>1, <1>2, Types, TypesNext
<1>4. PhaseInv'
  <2>1. host.todo \notin InTasks /\ host.todo # <<>>
    BY <1>1, KindsOfClaims DEF CallStartTask, Doing
  <2>2. Serving
    BY <2>1, Types DEF PhaseInv, Serving, Hosts
  <2> QED
    BY <1>1, <1>2, <2>2, KindsOfRuns DEF PhaseInv, Serving
<1>5. LogInv'
  BY <1>1, <1>2, KindsOfRuns, KindsOfClaims DEF LogInv, Events, OneOutcomePerRun
<1>6. EndInv'
  BY <1>1, <1>2, KindsOfRuns, KindsOfClaims DEF EndInv, LastIsOutcome
<1>7. CountInv'
  BY <1>1, <1>2, KindsOfRuns, KindsOfClaims DEF CountInv, EventsAreCountedOnce
<1>8. AgentInv'
  BY <1>1, <1>2, KindsOfRuns, KindsOfClaims DEF AgentInv, Events, Serving
<1>9. AttemptInv'
  <2>1. /\ host'.todo \notin Beginning \cup Recording \cup Marking \cup Calling
        /\ host'.todo \notin Failing \cup Settling \cup Hooked
    BY <1>1, KindsOfRuns
  <2>2. host.todo \in Calling
    BY <1>1, KindsOfClaims
  <2> QED
    BY <1>1, <1>2, <2>1, <2>2 DEF AttemptInv
<1>10. BetweenInv'
  BY <1>1, <1>2, KindsOfRuns, KindsOfClaims DEF BetweenInv, Reconciled, Serving, Launchable
<1>11. IntentInv'
  BY <1>1, <1>2, KindsOfRuns, KindsOfClaims DEF IntentInv, Launchable
<1> QED
  BY <1>3, <1>4, <1>5, <1>6, <1>7, <1>8, <1>9, <1>10, <1>11

\* tryAdvanceStep
LEMMA AdvanceMoves ==
  ASSUME IInv, NEW name \in {"advance", "advance_for_operator"}, AdvanceFor(name)
  PROVE  /\ host' \in Hosts /\ host'.pc = host.pc /\ host'.agent = host.agent
         /\ host'.ready = host.ready /\ host'.intent = host.intent /\ host'.unclean = host.unclean
         /\ host.todo = <<name, "complete">> /\ host.todo \in Advancing /\ Serving /\ host.ready = 0
         /\ host'.todo \in {<<"complete">>, <<"reopen", name, "complete">>, <<"pause", "complete">>,
                             <<"launch", "complete">>}
<1> USE DEF IInv, HistoryInv
<1>1. host.todo = <<name, "complete">>
  BY PendingIs DEF AdvanceFor, Doing
<1>2. host.todo # <<>> /\ host.todo \notin InTasks /\ host.todo \in Advancing
  BY <1>1, KindsOfClaims, KindsOfRuns
<1>3. Tail(host.todo) = <<"complete">>
  BY <1>1, TailOf2
<1>4. Serving
  BY <1>2, Types DEF PhaseInv, Serving, Hosts
<1>5. host.ready = 0
  BY <1>2 DEF AttemptInv
<1>6. /\ "launch" \in Transactions /\ "reopen" \in Transactions /\ "pause" \in Transactions
      /\ "complete" \in Transactions /\ name \in Transactions
  BY DEF Transactions
<1>7. /\ <<"launch">> \o <<"complete">> = <<"launch", "complete">>
      /\ <<"pause">> \o <<"complete">> = <<"pause", "complete">>
      /\ <<"reopen", name>> \o <<"complete">> = <<"reopen", name, "complete">>
  BY <1>6, Fronts
<1>8. /\ <<>> \in Seq(Transactions) /\ <<"launch">> \in Seq(Transactions)
      /\ <<"pause">> \in Seq(Transactions) /\ <<"reopen", name>> \in Seq(Transactions)
      /\ <<"complete">> \in Seq(Transactions)
  BY <1>6
<1>9. <<>> \o <<"complete">> = <<"complete">>
  BY <1>8, ConcatEmptySeq
<1>10. \E more \in {<<>>, <<"reopen", name>>, <<"pause">>, <<"launch">>} : Done(more)
  BY DEF AdvanceFor
<1>11. PICK more \in {<<>>, <<"reopen", name>>, <<"pause">>, <<"launch">>} : Done(more)
  BY <1>10
<1>12. more \in Seq(Transactions)
  BY <1>8, <1>11, Zenon
<1>13. /\ host' \in Hosts /\ host'.todo = more \o Tail(host.todo)
       /\ host'.pc = host.pc /\ host'.agent = host.agent
       /\ host'.ready = host.ready /\ host'.intent = host.intent /\ host'.unclean = host.unclean
  BY <1>2, <1>11, <1>12, RestOf
<1>14. host'.todo \in {<<"complete">>, <<"reopen", name, "complete">>, <<"pause", "complete">>,
                        <<"launch", "complete">>}
  BY <1>3, <1>7, <1>9, <1>11, <1>13, Zenon
<1> QED
  BY <1>1, <1>2, <1>4, <1>5, <1>13, <1>14

\* What becomes of the rows, by what is left pending.
LEMMA AdvanceChanges ==
  ASSUME IInv, NEW name \in {"advance", "advance_for_operator"}, AdvanceFor(name)
  PROVE  \/ /\ host'.todo = <<"complete">>
            /\ UNCHANGED <<task, log, plan, step, attempts, intents, signals, clean, launched, consent>>
         \/ /\ host'.todo = <<"reopen", name, "complete">>
            /\ task' \in Tasks /\ task.status = "failed" /\ task'.status = "assigned"
            /\ task'.run = 0 /\ task'.count = task.count /\ Launchable'
            /\ Latest.status = "failed"
            /\ UNCHANGED <<log, plan, step, attempts, intents, signals, clean, launched, consent>>
         \/ /\ host'.todo = <<"pause", "complete">> /\ Launchable /\ step' \in Steps
            /\ UNCHANGED <<task, log, plan, attempts, intents, signals, clean, launched, consent>>
         \/ /\ host'.todo = <<"launch", "complete">> /\ Launchable /\ step' \in Steps
            /\ attempts' \in Attempts /\ intents' \in Seq(Intent)
            /\ Len(attempts) \in Nat /\ Len(attempts') = Len(attempts) + 1
            /\ \A n \in 1..Len(attempts) :
                 attempts'[n] = attempts[n] /\ attempts[n].status \notin Occupied
            /\ attempts'[Len(attempts) + 1].status = "claimed" /\ attempts'[Len(attempts) + 1].run = 0
            /\ Len(intents') = Len(intents)
            /\ \A i \in 1..Len(intents) :
                 \/ intents'[i] = intents[i]
                 \/ /\ intents[i].new = 0 /\ intents'[i].old = intents[i].old
                    /\ intents'[i].new = Len(attempts) + 1
            /\ UNCHANGED <<task, log, plan, signals, clean, launched, consent>>
<1> USE DEF IInv, HistoryInv
<1>1. /\ host' \in Hosts /\ host'.pc = host.pc /\ host'.agent = host.agent
      /\ host'.ready = host.ready /\ host'.intent = host.intent /\ host'.unclean = host.unclean
      /\ host.todo = <<name, "complete">> /\ host.todo \in Advancing /\ Serving /\ host.ready = 0
      /\ host'.todo \in {<<"complete">>, <<"reopen", name, "complete">>, <<"pause", "complete">>,
                          <<"launch", "complete">>}
  BY AdvanceMoves
<1> QED
  <2>1. Tail(host.todo) = <<"complete">>
    BY <1>1, TailOf2
  <2>2. /\ "launch" \in Transactions /\ "reopen" \in Transactions /\ "pause" \in Transactions
        /\ "complete" \in Transactions /\ name \in Transactions
    BY DEF Transactions
  <2>3. /\ <<"launch">> \o <<"complete">> = <<"launch", "complete">>
        /\ <<"pause">> \o <<"complete">> = <<"pause", "complete">>
        /\ <<"reopen", name>> \o <<"complete">> = <<"reopen", name, "complete">>
    BY <2>2, Fronts
  <2>4. <<>> \o <<"complete">> = <<"complete">>
    <3>1. <<"complete">> \in Seq(Transactions)
      BY <2>2
    <3> QED
      BY <3>1, ConcatEmptySeq
  <2>5. \A more : Done(more) => host'.todo = more \o <<"complete">>
    BY <2>1, Types DEF Done, Hosts
  <2>6. /\ Done(<<>>) => host'.todo = <<"complete">>
        /\ Done(<<"reopen", name>>) => host'.todo = <<"reopen", name, "complete">>
        /\ Done(<<"pause">>) => host'.todo = <<"pause", "complete">>
        /\ Done(<<"launch">>) => host'.todo = <<"launch", "complete">>
    BY <2>3, <2>4, <2>5
  <2>7. UNCHANGED <<log, plan, signals, clean, launched, consent>>
    BY DEF AdvanceFor
  <2>8. CASE Done(<<>>) /\ UNCHANGED <<task, step, attempts, intents>>
    BY <2>6, <2>7, <2>8
  <2>9. CASE Preparable /\ task' = Prepared /\ Done(<<"reopen", name>>) /\ UNCHANGED <<step, attempts, intents>>
    <3>1. 0 \in 0..MaxAttempts
      BY BoundAssumption
    <3>2. task' = [task EXCEPT !.status = "assigned", !.run = 0, !.outcome = None]
      BY <2>9 DEF Prepared
    <3>3. task' \in Tasks /\ task'.status = "assigned" /\ task'.run = 0 /\ task'.count = task.count
      BY <3>1, <3>2, Types DEF Tasks
    <3>4. Launchable'
      BY <3>3 DEF Launchable
    <3>5. task.status = "failed" /\ Latest.status = "failed"
      BY <2>9 DEF Preparable
    <3> HIDE DEF IInv, HistoryInv
    <3> QED
      BY <2>6, <2>7, <2>9, <3>3, <3>4, <3>5
  <2>10. CASE /\ Launchable /\ step' = [status |-> "awaiting_intervention", waiting |-> FALSE]
              /\ Done(<<"pause">>) /\ UNCHANGED <<task, attempts, intents>>
    <3>1. step' \in Steps
      BY <2>10 DEF Steps
    <3> HIDE DEF IInv, HistoryInv
    <3> QED
      BY <2>6, <2>7, <2>10, <3>1
  <2>11. CASE /\ ~PassedOver /\ Launchable /\ Len(attempts) < MaxAttempts
              /\ attempts' = Append(attempts, [status |-> "claimed", run |-> 0])
              /\ step' = [status |-> "claimed", waiting |-> FALSE]
              /\ intents' = IF name = "advance_for_operator" /\ Recoverable # {}
                            THEN [intents EXCEPT ![Newest(Recoverable)].new =
                                    IF @ = 0 THEN Len(attempts) + 1 ELSE @]
                            ELSE intents
              /\ Done(<<"launch">>) /\ UNCHANGED task
    <3>1. step' \in Steps
      BY <2>11 DEF Steps
    <3>2. \A n \in 1..Len(attempts) : attempts[n].status \notin Occupied
      BY <2>11 DEF PassedOver
    <3> DEFINE row == [status |-> "claimed", run |-> 0]
    <3>3. row \in Attempt /\ row.status = "claimed" /\ row.run = 0
      BY BoundAssumption DEF Attempt
    <3>4. attempts \in Seq(Attempt) /\ Len(attempts) \in Nat /\ attempts' = Append(attempts, row)
      BY <2>11, Types, LenProperties DEF Attempts
    <3> HIDE DEF row
    <3>5. /\ attempts' \in Seq(Attempt) /\ Len(attempts') = Len(attempts) + 1
          /\ \A n \in 1..Len(attempts) : attempts'[n] = attempts[n]
          /\ attempts'[Len(attempts) + 1] = row
      BY <3>3, <3>4, AppendProperties
    <3>6. attempts' \in Attempts
      BY <2>11, <3>4, <3>5, BoundAssumption DEF Attempts
    <3>7. /\ intents' \in Seq(Intent) /\ Len(intents') = Len(intents)
          /\ \A i \in 1..Len(intents) :
               \/ intents'[i] = intents[i]
               \/ /\ intents[i].new = 0 /\ intents'[i].old = intents[i].old
                  /\ intents'[i].new = Len(attempts) + 1
      <4>1. intents \in Seq(Intent)
        BY Types
      <4>2. CASE intents' = intents
        BY <4>1, <4>2
      <4>3. CASE intents' = [intents EXCEPT ![Newest(Recoverable)].new = IF @ = 0 THEN Len(attempts) + 1 ELSE @]
        <5> DEFINE k == Newest(Recoverable)
        <5>1. CASE k \notin 1..Len(intents)
          <6>1. intents' = intents
            BY <4>1, <4>3, <5>1, LenProperties
          <6> QED
            BY <4>1, <6>1
        <5>2. CASE k \in 1..Len(intents)
          <6> DEFINE new == [intents[k] EXCEPT !.new = IF @ = 0 THEN Len(attempts) + 1 ELSE @]
          <6>1. intents[k] \in Intent
            BY <4>1, <5>2, ElementOfSeq
          <6>2. Len(attempts) + 1 \in 0..MaxAttempts
            BY <2>11, <3>4, BoundAssumption
          <6>3. new \in Intent /\ new.old = intents[k].old
                /\ \/ new = intents[k]
                   \/ intents[k].new = 0 /\ new.new = Len(attempts) + 1
            <7>1. CASE intents[k].new = 0
              <8>1. new = [intents[k] EXCEPT !.new = Len(attempts) + 1]
                BY <7>1
              <8>2. new \in Intent
                BY <6>1, <6>2, <8>1 DEF Intent
              <8>3. new.old = intents[k].old /\ new.new = Len(attempts) + 1
                BY <6>1, <8>1 DEF Intent
              <8> HIDE DEF new
              <8> QED
                BY <7>1, <8>2, <8>3
            <7>2. CASE intents[k].new # 0
              <8>1. new = intents[k]
                BY <6>1, <7>2 DEF Intent
              <8> HIDE DEF new
              <8> QED
                BY <6>1, <8>1
            <7> QED
              BY <7>1, <7>2
          <6>4. intents' = [intents EXCEPT ![k] = new]
            BY <4>3
          <6> HIDE DEF new, k
          <6> QED
            BY <4>1, <5>2, <6>3, <6>4, ExceptSeq
        <5> QED
          BY <5>1, <5>2
      <4> QED
        BY <2>11, <4>2, <4>3
    <3> HIDE DEF IInv, HistoryInv
    <3> QED
      BY <2>6, <2>7, <2>11, <3>1, <3>2, <3>3, <3>4, <3>5, <3>6, <3>7
  <2> HIDE DEF IInv, HistoryInv
  <2> QED
    BY <2>8, <2>9, <2>10, <2>11 DEF AdvanceFor

LEMMA AdvanceKeeps ==
  ASSUME IInv, NEW name \in {"advance", "advance_for_operator"}, AdvanceFor(name)
  PROVE  IInv'
<1> USE DEF IInv, HistoryInv
<1>1. /\ host' \in Hosts /\ host'.pc = host.pc /\ host'.agent = host.agent
      /\ host'.ready = host.ready /\ host'.intent = host.intent /\ host'.unclean = host.unclean
      /\ host.todo = <<name, "complete">> /\ host.todo \in Advancing /\ Serving /\ host.ready = 0
      /\ host'.todo \in {<<"complete">>, <<"reopen", name, "complete">>, <<"pause", "complete">>,
                          <<"launch", "complete">>}
  BY AdvanceMoves
<1>2. \/ /\ host'.todo = <<"complete">>
         /\ UNCHANGED <<task, log, plan, step, attempts, intents, signals, clean, launched, consent>>
      \/ /\ host'.todo = <<"reopen", name, "complete">>
         /\ task' \in Tasks /\ task.status = "failed" /\ task'.status = "assigned"
         /\ task'.run = 0 /\ task'.count = task.count /\ Launchable'
         /\ Latest.status = "failed"
         /\ UNCHANGED <<log, plan, step, attempts, intents, signals, clean, launched, consent>>
      \/ /\ host'.todo = <<"pause", "complete">> /\ Launchable /\ step' \in Steps
         /\ UNCHANGED <<task, log, plan, attempts, intents, signals, clean, launched, consent>>
      \/ /\ host'.todo = <<"launch", "complete">> /\ Launchable /\ step' \in Steps
         /\ attempts' \in Attempts /\ intents' \in Seq(Intent)
         /\ Len(attempts) \in Nat /\ Len(attempts') = Len(attempts) + 1
         /\ \A n \in 1..Len(attempts) :
              attempts'[n] = attempts[n] /\ attempts[n].status \notin Occupied
         /\ attempts'[Len(attempts) + 1].status = "claimed" /\ attempts'[Len(attempts) + 1].run = 0
         /\ Len(intents') = Len(intents)
         /\ \A i \in 1..Len(intents) :
              \/ intents'[i] = intents[i]
              \/ /\ intents[i].new = 0 /\ intents'[i].old = intents[i].old
                 /\ intents'[i].new = Len(attempts) + 1
         /\ UNCHANGED <<task, log, plan, signals, clean, launched, consent>>
  BY AdvanceChanges
<1>3. TypeOK'
  BY <1>1, <1>2, Types, TypesNext
<1>4. PhaseInv'
  <2>1. /\ host'.todo \in InService /\ host'.todo \notin Continuing
        /\ host'.todo \in Advancing \cup Reopening => host.todo \in Advancing
    BY <1>1, KindsOfClaims
  <2> QED
    BY <1>1, <1>2, <2>1 DEF PhaseInv, Serving
<1>5. LogInv'
  <2>1. \A i \in Events : log.events[i].run # 0
    BY Types DEF LogInv, Number
  <2>2. task.status = "failed" => \A i \in Events : log.events[i].type # "completed"
    BY DEF LogInv
  <2>3. \/ task' = task
        \/ task.status = "failed" /\ task'.run = 0
    BY <1>2
  <2>4. log' = log /\ launched' = launched /\ host'.agent = host.agent
    BY <1>1, <1>2
  <2>5. launched' \subseteq 1..Len(attempts')
    <3>1. Len(attempts') = Len(attempts) \/ Len(attempts') = Len(attempts) + 1
      BY <1>2
    <3>2. 1..Len(attempts) \subseteq 1..Len(attempts')
      BY <3>1, IntentsName
    <3> QED
      BY <2>4, <3>2 DEF LogInv
  <2>6. OneOutcomePerRun'
    BY <2>4 DEF LogInv, OneOutcomePerRun
  <2> QED
    BY <2>1, <2>2, <2>3, <2>4, <2>5, <2>6 DEF LogInv, Events
<1>6. EndInv'
  <2>1. host'.todo \notin Settling \cup Replaying \cup Hooked
    BY <1>1, KindsOfClaims
  <2>2. task.status = "failed" => LastIsOutcome
    BY DEF EndInv, TaskEnds
  <2>3. (task'.status = "assigned" /\ task.status = "failed") \/ task' = task
    BY <1>2
  <2> QED
    BY <1>2, <2>1, <2>2, <2>3 DEF EndInv, LastIsOutcome, TaskEnds
<1>7. CountInv'
  <2>1. host'.todo \notin Counting
    BY <1>1, KindsOfClaims
  <2> QED
    BY <1>2, <2>1 DEF CountInv, EventsAreCountedOnce
<1>8. AgentInv'
  <2>1. CASE host'.todo = <<"complete">> /\ UNCHANGED <<task, log, step, attempts>>
    <3>1. /\ host'.todo \in BesideAgent
          /\ host.todo \notin Recording \cup Marking \cup Beginning
          /\ host'.todo \notin Recording \cup Marking \cup Beginning
      BY <1>1, <2>1, KindsOfClaims
    <3> QED
      BY <1>1, <2>1, <3>1 DEF AgentInv, Events
  <2>2. CASE Launchable \/ task.status = "failed"
    <3>1. host.agent = 0
      BY <2>2 DEF AgentInv, Launchable
    <3> QED
      BY <1>1, <3>1 DEF AgentInv
  <2> QED
    BY <1>2, <2>1, <2>2
<1>9. AttemptInv'
  <2>1. host'.todo \notin Beginning \cup Recording \cup Marking \cup Failing \cup Settling \cup Hooked
    BY <1>1, KindsOfClaims
  <2>2. CASE attempts' = attempts /\ host'.todo # <<"launch", "complete">>
    <3>1. host'.todo \notin Calling
      BY <1>1, <2>2, KindsOfClaims
    <3> QED
      BY <1>1, <2>1, <2>2, <3>1 DEF AttemptInv
  <2>3. CASE Launchable /\ Len(attempts') = Len(attempts) + 1
    <3>1. host.agent = 0
      BY <2>3 DEF AgentInv, Launchable
    <3>2. /\ Len(attempts) \in Nat /\ launched' = launched
          /\ \A n \in 1..Len(attempts) : attempts'[n].status \notin Occupied
          /\ attempts'[Len(attempts')].status = "claimed" /\ attempts'[Len(attempts')].run = 0
      BY <1>2, <2>3, IntentsName
    <3>3. Len(attempts) + 1 \notin launched
      BY <3>2 DEF LogInv
    <3>4. \A n \in 1..Len(attempts') : n \in 1..Len(attempts) \/ n = Len(attempts')
      BY <2>3, <3>2
    <3>5. \A n \in 1..Len(attempts') : attempts'[n].status \in Occupied => n = Len(attempts')
      BY <3>2, <3>4
    <3>6. Len(attempts') # 0 /\ Len(attempts') \notin launched' /\ host'.agent = 0 /\ host'.ready = 0
      BY <1>1, <2>3, <3>1, <3>2, <3>3
    <3> QED
      BY <2>1, <3>2, <3>5, <3>6 DEF AttemptInv
  <2> QED
    BY <1>1, <1>2, <2>2, <2>3, IntentsName, KindsOfClaims
<1>10. BetweenInv'
  <2>1. host.todo \notin Reopening \cup Preparing \cup Settling
    BY <1>1, KindsOfClaims
  <2>2. host'.todo \notin Preparing \cup Settling
    BY <1>1, KindsOfClaims
  <2>3. CASE task' = task /\ host'.todo \in {<<"complete">>, <<"pause", "complete">>, <<"launch", "complete">>}
    <3>1. host'.todo \notin Reopening
      BY <2>3, KindsOfClaims
    <3> QED
      BY <1>1, <1>2, <2>1, <2>2, <2>3, <3>1 DEF BetweenInv, Reconciled, Serving, Launchable
  <2>4. CASE host'.todo = <<"reopen", name, "complete">> /\ Launchable'
    <3>1. host'.todo \in Reopening
      BY <2>4, KindsOfClaims
    <3> QED
      BY <2>4, <3>1 DEF BetweenInv, Launchable
  <2> QED
    BY <1>2, <2>3, <2>4
<1>11. IntentInv'
  <2>1. CASE UNCHANGED <<task, attempts, intents, launched>>
    BY <2>1 DEF IntentInv, Launchable
  <2>2. CASE UNCHANGED <<attempts, intents, launched>> /\ Latest.status = "failed"
    <3>1. \A n \in 1..Len(attempts) : attempts[n].status # "claimed"
      BY <2>2 DEF Latest, AttemptInv, Occupied
    <3>2. \A i \in 1..Len(intents) : intents[i].new # 0 => intents[i].new \in 1..Len(attempts)
      BY IntentsName
    <3> QED
      BY <2>2, <3>1, <3>2 DEF IntentInv
  <2>3. CASE Len(attempts') = Len(attempts) + 1 /\ host'.todo = <<"launch", "complete">>
    <3>1. /\ Len(attempts) \in Nat /\ launched' = launched /\ Len(intents') = Len(intents)
          /\ \A n \in 1..Len(attempts) :
               attempts'[n] = attempts[n] /\ attempts[n].status \notin Occupied
          /\ \A i \in 1..Len(intents) :
               \/ intents'[i] = intents[i]
               \/ /\ intents[i].new = 0 /\ intents'[i].old = intents[i].old
                  /\ intents'[i].new = Len(attempts) + 1
      BY <1>2, <2>3, IntentsName
    <3>2. \A i \in 1..Len(intents) :
            /\ intents[i].old \in 1..Len(attempts) /\ attempts[intents[i].old].status = "abandoned"
            /\ intents[i].new \in 0..Len(attempts)
      BY IntentsName DEF IntentInv
    <3>3. \A i \in 1..Len(intents') :
            /\ intents'[i].old <= Len(attempts') /\ attempts'[intents'[i].old].status = "abandoned"
            /\ intents'[i].new <= Len(attempts')
      BY <2>3, <3>1, <3>2
    <3>4. \A i \in 1..Len(intents') : intents'[i].new = 0 => intents[i].new = 0 /\ i \in 1..Len(intents)
      BY <3>1
    <3>5. \A i, j \in 1..Len(intents') : intents'[i].new = 0 /\ intents'[j].new = 0 => i = j
      BY <3>4 DEF IntentInv
    <3>6. \A i \in 1..Len(intents') : intents'[i].new # 0 =>
            \/ attempts'[intents'[i].new].status \notin Occupied /\ intents[i].new # 0
            \/ intents'[i].new = Len(attempts) + 1 /\ intents[i].new = 0
      BY <3>1, <3>2
    <3>7. \A i, j \in 1..Len(intents') :
            intents'[i].new = 0 /\ intents'[j].new # 0 => attempts'[intents'[j].new].status \notin Occupied
      <4>1. TAKE i, j \in 1..Len(intents')
      <4>2. HAVE intents'[i].new = 0 /\ intents'[j].new # 0
      <4>3. i \in 1..Len(intents) /\ j \in 1..Len(intents) /\ intents[i].new = 0
        BY <3>1, <3>4, <4>2
      <4>4. intents[j].new = 0 => i = j
        BY <4>3 DEF IntentInv
      <4> QED
        BY <3>6, <4>2, <4>4
    <3>8. Len(attempts) + 1 \notin launched
      BY <3>1 DEF LogInv
    <3>9. \A i \in 1..Len(intents') :
            intents'[i].new # 0 /\ attempts'[intents'[i].new].status = "claimed"
              => intents'[i].new \notin launched'
      BY <3>1, <3>6, <3>8 DEF Occupied
    <3> QED
      BY <3>3, <3>5, <3>7, <3>9 DEF IntentInv
  <2> QED
    BY <1>2, <2>1, <2>2, <2>3
<1> QED
  BY <1>3, <1>4, <1>5, <1>6, <1>7, <1>8, <1>9, <1>10, <1>11

\* A signal is taken.
LEMMA TakeMoves ==
  ASSUME IInv, TakeSignal
  PROVE  /\ host' \in Hosts /\ host'.pc = host.pc /\ host'.agent = host.agent
         /\ host'.ready = host.ready /\ host'.intent = host.intent /\ host'.unclean = host.unclean
         /\ Serving /\ host.ready = 0 /\ host.todo = <<>>
         /\ host'.todo \in {<<"advance", "complete">>, <<"advance_for_operator", "complete">>, <<"complete">>}
<1> USE DEF IInv, HistoryInv
<1>1. /\ <<"advance">> \o <<"complete">> = <<"advance", "complete">>
      /\ <<"advance_for_operator">> \o <<"complete">> = <<"advance_for_operator", "complete">>
  BY Fronts DEF Transactions
<1>2. <<"complete">> \in Seq(Transactions)
  BY DEF Transactions
<1>3. <<>> \o <<"complete">> = <<"complete">>
  BY <1>2, ConcatEmptySeq
<1>4. /\ <<"advance", "complete">> \in Seq(Transactions)
      /\ <<"advance_for_operator", "complete">> \in Seq(Transactions)
  BY DEF Transactions
<1>5. \E todo \in {<<"advance", "complete">>, <<"advance_for_operator", "complete">>, <<"complete">>} :
        host' = [host EXCEPT !.todo = todo]
  BY <1>1, <1>3 DEF TakeSignal
<1>6. PICK todo \in {<<"advance", "complete">>, <<"advance_for_operator", "complete">>, <<"complete">>} :
        host' = [host EXCEPT !.todo = todo]
  BY <1>5
<1>7. todo \in Seq(Transactions)
  BY <1>2, <1>4
<1>8. host' \in Hosts /\ host'.todo = todo
  BY <1>6, <1>7, Types DEF Hosts
<1>9. /\ host'.pc = host.pc /\ host'.agent = host.agent
      /\ host'.ready = host.ready /\ host'.intent = host.intent /\ host'.unclean = host.unclean
  BY <1>6, Types DEF Hosts
<1>10. Serving /\ host.ready = 0 /\ host.todo = <<>>
  BY DEF TakeSignal, Idle
<1> QED
  BY <1>8, <1>9, <1>10, Zenon

LEMMA TakeKeeps ==
  ASSUME IInv, TakeSignal
  PROVE  IInv'
<1> USE DEF IInv, HistoryInv
<1>1. /\ host' \in Hosts /\ host'.pc = host.pc /\ host'.agent = host.agent
      /\ host'.ready = host.ready /\ host'.intent = host.intent /\ host'.unclean = host.unclean
      /\ Serving /\ host.ready = 0 /\ host.todo = <<>>
      /\ host'.todo \in {<<"advance", "complete">>, <<"advance_for_operator", "complete">>, <<"complete">>}
  BY TakeMoves
<1>2. /\ plan.status = "running" /\ signals' \in Signals
      /\ UNCHANGED <<task, log, plan, step, attempts, intents, clean, launched, consent>>
  <2>1. signals' = [signals EXCEPT !.run = FALSE] \/ signals' = [signals EXCEPT !.step = NoSignal]
    BY DEF TakeSignal
  <2>2. signals' \in Signals
    <3>1. signals = [run |-> signals.run, step |-> signals.step]
      BY Types DEF Signals
    <3>2. \/ signals' = [run |-> FALSE, step |-> signals.step]
          \/ signals' = [run |-> signals.run, step |-> NoSignal]
      BY <2>1, <3>1
    <3>3. /\ NoSignal \in [on : BOOLEAN, manual : BOOLEAN, self : BOOLEAN, due : BOOLEAN]
          /\ signals.step \in [on : BOOLEAN, manual : BOOLEAN, self : BOOLEAN, due : BOOLEAN]
          /\ signals.run \in BOOLEAN /\ FALSE \in BOOLEAN
      BY Types DEF Signals, NoSignal
    <3>4. \A r \in BOOLEAN, s \in [on : BOOLEAN, manual : BOOLEAN, self : BOOLEAN, due : BOOLEAN] :
            [run |-> r, step |-> s] \in Signals
      BY DEF Signals
    <3> QED
      BY <3>2, <3>3, <3>4, Zenon
  <2> QED
    BY <2>2 DEF TakeSignal
<1>3. TypeOK'
  BY <1>1, <1>2, Types, TypesNext
<1>4. PhaseInv'
  BY <1>1, <1>2, KindsOfRuns, KindsOfClaims DEF PhaseInv, Serving
<1>5. LogInv'
  BY <1>1, <1>2, KindsOfRuns, KindsOfClaims DEF LogInv, Events, OneOutcomePerRun
<1>6. EndInv'
  BY <1>1, <1>2, KindsOfRuns, KindsOfClaims DEF EndInv, LastIsOutcome
<1>7. CountInv'
  BY <1>1, <1>2, KindsOfRuns, KindsOfClaims DEF CountInv, EventsAreCountedOnce
<1>8. AgentInv'
  BY <1>1, <1>2, KindsOfRuns, KindsOfClaims DEF AgentInv, Events, Serving
<1>9. AttemptInv'
  BY <1>1, <1>2, KindsOfRuns, KindsOfClaims DEF AttemptInv
<1>10. BetweenInv'
  BY <1>1, <1>2, KindsOfRuns, KindsOfClaims DEF BetweenInv, Reconciled, Serving, Launchable
<1>11. IntentInv'
  BY <1>1, <1>2, KindsOfRuns, KindsOfClaims DEF IntentInv, Launchable
<1> QED
  BY <1>3, <1>4, <1>5, <1>6, <1>7, <1>8, <1>9, <1>10, <1>11

\* A launch is rejected.
LEMMA FailsMoves ==
  ASSUME IInv, LaunchFails
  PROVE  /\ host' \in Hosts /\ host'.pc = host.pc /\ host'.agent = host.agent
         /\ host'.ready = 0 /\ host'.intent = host.intent /\ host'.unclean = host.unclean
         /\ Serving /\ host.ready # 0 /\ host.todo = <<>>
         /\ host'.todo = <<"attempt_fails", "step_waits", "pause", "complete">>
<1> USE DEF IInv, HistoryInv
<1>1. <<"attempt_fails", "step_waits", "pause", "complete">> \in Seq(Transactions)
  BY DEF Transactions
<1>2. 0 \in 0..MaxAttempts
  BY BoundAssumption
<1>3. host' = [host EXCEPT !.ready = 0, !.todo = <<"attempt_fails", "step_waits", "pause", "complete">>]
  BY DEF LaunchFails
<1>4. /\ host' \in Hosts /\ host'.ready = 0
      /\ host'.todo = <<"attempt_fails", "step_waits", "pause", "complete">>
  BY <1>1, <1>2, <1>3, Types DEF Hosts
<1>5. host'.pc = host.pc /\ host'.agent = host.agent /\ host'.intent = host.intent /\ host'.unclean = host.unclean
  BY <1>3, Types DEF Hosts
<1> QED
  BY <1>4, <1>5 DEF LaunchFails, Idle

LEMMA FailsKeeps ==
  ASSUME IInv, LaunchFails
  PROVE  IInv'
<1> USE DEF IInv, HistoryInv
<1>1. /\ host' \in Hosts /\ host'.pc = host.pc /\ host'.agent = host.agent
      /\ host'.ready = 0 /\ host'.intent = host.intent /\ host'.unclean = host.unclean
      /\ Serving /\ host.ready # 0 /\ host.todo = <<>>
      /\ host'.todo = <<"attempt_fails", "step_waits", "pause", "complete">>
  BY FailsMoves
<1>2. /\ signals' \in Signals
      /\ UNCHANGED <<task, log, plan, step, attempts, intents, clean, launched, consent>>
  BY Types DEF LaunchFails, Signals, NoSignal
<1>3. TypeOK'
  BY <1>1, <1>2, Types, TypesNext
<1>4. PhaseInv'
  BY <1>1, <1>2, KindsOfRuns, KindsOfCalls DEF PhaseInv, Serving
<1>5. LogInv'
  BY <1>1, <1>2, KindsOfRuns, KindsOfCalls DEF LogInv, Events, OneOutcomePerRun
<1>6. EndInv'
  BY <1>1, <1>2, KindsOfRuns, KindsOfCalls DEF EndInv, LastIsOutcome
<1>7. CountInv'
  BY <1>1, <1>2, KindsOfRuns, KindsOfCalls DEF CountInv, EventsAreCountedOnce
<1>8. AgentInv'
  BY <1>1, <1>2, KindsOfRuns, KindsOfCalls DEF AgentInv, Events, Serving
<1>9. AttemptInv'
  BY <1>1, <1>2, KindsOfRuns, KindsOfCalls DEF AttemptInv
<1>10. BetweenInv'
  BY <1>1, <1>2, KindsOfRuns, KindsOfCalls DEF BetweenInv, Reconciled, Serving, Launchable
<1>11. IntentInv'
  BY <1>1, <1>2, KindsOfRuns, KindsOfCalls DEF IntentInv, Launchable
<1> QED
  BY <1>3, <1>4, <1>5, <1>6, <1>7, <1>8, <1>9, <1>10, <1>11

\* The operator's signal is enqueued.
LEMMA EnqueueMoves ==
  ASSUME IInv, EnqueueManualRetry
  PROVE  /\ host' \in Hosts /\ host'.pc = host.pc /\ host'.agent = host.agent
         /\ host'.ready = host.ready /\ host'.intent = host.intent /\ host'.unclean = host.unclean
         /\ host.todo = <<"enqueue">> /\ host'.todo = <<>>
<1> USE DEF IInv, HistoryInv
<1>1. host.todo # <<>> /\ Done(<<>>)
  BY DEF EnqueueManualRetry, Doing
<1>2. host'.todo = Tail(host.todo)
  BY <1>1, Rest
<1> QED
  BY <1>1, <1>2, Rest, RestIs DEF EnqueueManualRetry

LEMMA EnqueueKeeps ==
  ASSUME IInv, EnqueueManualRetry
  PROVE  IInv'
<1> USE DEF IInv, HistoryInv
<1>1. /\ host' \in Hosts /\ host'.pc = host.pc /\ host'.agent = host.agent
      /\ host'.ready = host.ready /\ host'.intent = host.intent /\ host'.unclean = host.unclean
      /\ host.todo = <<"enqueue">> /\ host'.todo = <<>>
  BY EnqueueMoves
<1>2. /\ signals' \in Signals
      /\ UNCHANGED <<task, log, plan, step, attempts, intents, clean, launched, consent>>
  BY Types DEF EnqueueManualRetry, Signalled, Signals
<1>3. TypeOK'
  BY <1>1, <1>2, Types, TypesNext
<1>4. PhaseInv'
  BY <1>1, <1>2, KindsOfRuns, KindsOfCalls DEF PhaseInv, Serving
<1>5. LogInv'
  BY <1>1, <1>2, KindsOfRuns, KindsOfCalls DEF LogInv, Events, OneOutcomePerRun
<1>6. EndInv'
  BY <1>1, <1>2, KindsOfRuns, KindsOfCalls DEF EndInv, LastIsOutcome
<1>7. CountInv'
  BY <1>1, <1>2, KindsOfRuns, KindsOfCalls DEF CountInv, EventsAreCountedOnce
<1>8. AgentInv'
  BY <1>1, <1>2, KindsOfRuns, KindsOfCalls DEF AgentInv, Events, Serving
<1>9. AttemptInv'
  BY <1>1, <1>2, KindsOfRuns, KindsOfCalls DEF AttemptInv
<1>10. BetweenInv'
  BY <1>1, <1>2, KindsOfRuns, KindsOfCalls DEF BetweenInv, Reconciled, Serving, Launchable
<1>11. IntentInv'
  BY <1>1, <1>2, KindsOfRuns, KindsOfCalls DEF IntentInv, Launchable
<1> QED
  BY <1>3, <1>4, <1>5, <1>6, <1>7, <1>8, <1>9, <1>10, <1>11

\* The operator resumes the run.
LEMMA ResumeMoves ==
  ASSUME IInv, Resume
  PROVE  /\ host' \in Hosts /\ host'.pc = host.pc /\ host'.agent = host.agent
         /\ host'.ready = host.ready /\ host'.intent = host.intent /\ host'.unclean = host.unclean
         /\ host.todo = <<>> /\ host'.todo = <<>>
<1> USE DEF IInv, HistoryInv
<1> QED
  BY Types DEF Resume, Asked, Idle, Hosts

LEMMA ResumeKeeps ==
  ASSUME IInv, Resume
  PROVE  IInv'
<1> USE DEF IInv, HistoryInv
<1>1. /\ host' \in Hosts /\ host'.pc = host.pc /\ host'.agent = host.agent
      /\ host'.ready = host.ready /\ host'.intent = host.intent /\ host'.unclean = host.unclean
      /\ host.todo = <<>> /\ host'.todo = <<>>
  BY ResumeMoves
<1>2. /\ plan' \in Plans /\ signals' \in Signals /\ consent' \in BOOLEAN
      /\ UNCHANGED <<task, log, step, attempts, intents, clean, launched>>
  BY Types DEF Resume, Plans, Signals, NoSignal
<1>3. TypeOK'
  BY <1>1, <1>2, Types, TypesNext
<1>4. PhaseInv'
  BY <1>1, <1>2, KindsOfRuns DEF PhaseInv, Serving
<1>5. LogInv'
  BY <1>1, <1>2, KindsOfRuns DEF LogInv, Events, OneOutcomePerRun
<1>6. EndInv'
  BY <1>1, <1>2, KindsOfRuns DEF EndInv, LastIsOutcome
<1>7. CountInv'
  BY <1>1, <1>2, KindsOfRuns DEF CountInv, EventsAreCountedOnce
<1>8. AgentInv'
  BY <1>1, <1>2, KindsOfRuns DEF AgentInv, Events, Serving
<1>9. AttemptInv'
  BY <1>1, <1>2, KindsOfRuns DEF AttemptInv
<1>10. BetweenInv'
  BY <1>1, <1>2, KindsOfRuns DEF BetweenInv, Reconciled, Serving, Launchable
<1>11. IntentInv'
  BY <1>1, <1>2, KindsOfRuns DEF IntentInv, Launchable
<1> QED
  BY <1>3, <1>4, <1>5, <1>6, <1>7, <1>8, <1>9, <1>10, <1>11

\* The operator pauses the run.
LEMMA PauseMoves ==
  ASSUME IInv, Pause
  PROVE  /\ host' \in Hosts /\ host'.pc = host.pc /\ host'.agent = host.agent
         /\ host'.ready = host.ready /\ host'.intent = host.intent /\ host'.unclean = host.unclean
         /\ host.todo = <<>> /\ host'.todo = <<>>
<1> USE DEF IInv, HistoryInv
<1> QED
  BY Types DEF Pause, Asked, Idle, Hosts

LEMMA PauseKeeps ==
  ASSUME IInv, Pause
  PROVE  IInv'
<1> USE DEF IInv, HistoryInv
<1>1. /\ host' \in Hosts /\ host'.pc = host.pc /\ host'.agent = host.agent
      /\ host'.ready = host.ready /\ host'.intent = host.intent /\ host'.unclean = host.unclean
      /\ host.todo = <<>> /\ host'.todo = <<>>
  BY PauseMoves
<1>2. /\ plan' \in Plans /\ signals' \in Signals
      /\ UNCHANGED <<task, log, step, attempts, intents, clean, launched, consent>>
  BY Types DEF Pause, Plans, Signals, NoSignal, NoSignals
<1>3. TypeOK'
  BY <1>1, <1>2, Types, TypesNext
<1>4. PhaseInv'
  BY <1>1, <1>2, KindsOfRuns DEF PhaseInv, Serving
<1>5. LogInv'
  BY <1>1, <1>2, KindsOfRuns DEF LogInv, Events, OneOutcomePerRun
<1>6. EndInv'
  BY <1>1, <1>2, KindsOfRuns DEF EndInv, LastIsOutcome
<1>7. CountInv'
  BY <1>1, <1>2, KindsOfRuns DEF CountInv, EventsAreCountedOnce
<1>8. AgentInv'
  BY <1>1, <1>2, KindsOfRuns DEF AgentInv, Events, Serving
<1>9. AttemptInv'
  BY <1>1, <1>2, KindsOfRuns DEF AttemptInv
<1>10. BetweenInv'
  BY <1>1, <1>2, KindsOfRuns DEF BetweenInv, Reconciled, Serving, Launchable
<1>11. IntentInv'
  BY <1>1, <1>2, KindsOfRuns DEF IntentInv, Launchable
<1> QED
  BY <1>3, <1>4, <1>5, <1>6, <1>7, <1>8, <1>9, <1>10, <1>11

\* The operator cancels the run.
LEMMA CancelMoves ==
  ASSUME IInv, CancelRun
  PROVE  /\ host' \in Hosts /\ host'.pc = host.pc /\ host'.agent = host.agent
         /\ host'.ready = host.ready /\ host'.intent = host.intent /\ host'.unclean = host.unclean
         /\ host.todo = <<>> /\ host'.todo = <<>>
<1> USE DEF IInv, HistoryInv
<1> QED
  BY Types DEF CancelRun, Asked, Idle, Hosts

LEMMA CancelKeeps ==
  ASSUME IInv, CancelRun
  PROVE  IInv'
<1> USE DEF IInv, HistoryInv
<1>1. /\ host' \in Hosts /\ host'.pc = host.pc /\ host'.agent = host.agent
      /\ host'.ready = host.ready /\ host'.intent = host.intent /\ host'.unclean = host.unclean
      /\ host.todo = <<>> /\ host'.todo = <<>>
  BY CancelMoves
<1>2. /\ plan' \in Plans /\ signals' \in Signals
      /\ UNCHANGED <<task, log, step, attempts, intents, clean, launched, consent>>
  BY Types DEF CancelRun, Plans, Signals, NoSignal, NoSignals
<1>3. TypeOK'
  BY <1>1, <1>2, Types, TypesNext
<1>4. PhaseInv'
  BY <1>1, <1>2, KindsOfRuns DEF PhaseInv, Serving
<1>5. LogInv'
  BY <1>1, <1>2, KindsOfRuns DEF LogInv, Events, OneOutcomePerRun
<1>6. EndInv'
  BY <1>1, <1>2, KindsOfRuns DEF EndInv, LastIsOutcome
<1>7. CountInv'
  BY <1>1, <1>2, KindsOfRuns DEF CountInv, EventsAreCountedOnce
<1>8. AgentInv'
  BY <1>1, <1>2, KindsOfRuns DEF AgentInv, Events, Serving
<1>9. AttemptInv'
  BY <1>1, <1>2, KindsOfRuns DEF AttemptInv
<1>10. BetweenInv'
  BY <1>1, <1>2, KindsOfRuns DEF BetweenInv, Reconciled, Serving, Launchable
<1>11. IntentInv'
  BY <1>1, <1>2, KindsOfRuns DEF IntentInv, Launchable
<1> QED
  BY <1>3, <1>4, <1>5, <1>6, <1>7, <1>8, <1>9, <1>10, <1>11

\* The operator retries the step.
LEMMA RetryMoves ==
  ASSUME IInv, RetryStep
  PROVE  /\ host' \in Hosts /\ host'.pc = host.pc /\ host'.agent = host.agent
         /\ host'.ready = host.ready /\ host'.intent = host.intent /\ host'.unclean = host.unclean
         /\ host.todo = <<>> /\ host'.todo = <<>>
<1> USE DEF IInv, HistoryInv
<1> QED
  BY Types DEF RetryStep, RetryAsked, Asked, Idle, Hosts

LEMMA RetryKeeps ==
  ASSUME IInv, RetryStep
  PROVE  IInv'
<1> USE DEF IInv, HistoryInv
<1>1. /\ host' \in Hosts /\ host'.pc = host.pc /\ host'.agent = host.agent
      /\ host'.ready = host.ready /\ host'.intent = host.intent /\ host'.unclean = host.unclean
      /\ host.todo = <<>> /\ host'.todo = <<>>
  BY RetryMoves
<1>2. /\ signals' \in Signals /\ consent' \in BOOLEAN
      /\ UNCHANGED <<task, log, plan, step, attempts, intents, clean, launched>>
  BY Types DEF RetryStep, RetryAsked, Signalled, Signals
<1>3. TypeOK'
  BY <1>1, <1>2, Types, TypesNext
<1>4. PhaseInv'
  BY <1>1, <1>2, KindsOfRuns DEF PhaseInv, Serving
<1>5. LogInv'
  BY <1>1, <1>2, KindsOfRuns DEF LogInv, Events, OneOutcomePerRun
<1>6. EndInv'
  BY <1>1, <1>2, KindsOfRuns DEF EndInv, LastIsOutcome
<1>7. CountInv'
  BY <1>1, <1>2, KindsOfRuns DEF CountInv, EventsAreCountedOnce
<1>8. AgentInv'
  BY <1>1, <1>2, KindsOfRuns DEF AgentInv, Events, Serving
<1>9. AttemptInv'
  BY <1>1, <1>2, KindsOfRuns DEF AttemptInv
<1>10. BetweenInv'
  BY <1>1, <1>2, KindsOfRuns DEF BetweenInv, Reconciled, Serving, Launchable
<1>11. IntentInv'
  BY <1>1, <1>2, KindsOfRuns DEF IntentInv, Launchable
<1> QED
  BY <1>3, <1>4, <1>5, <1>6, <1>7, <1>8, <1>9, <1>10, <1>11

\* A backoff elapses.
LEMMA BackoffMoves ==
  ASSUME IInv, BackoffElapses
  PROVE  /\ host' = host /\ host' \in Hosts
<1> USE DEF IInv, HistoryInv
<1> QED
  BY Types DEF BackoffElapses

LEMMA BackoffKeeps ==
  ASSUME IInv, BackoffElapses
  PROVE  IInv'
<1> USE DEF IInv, HistoryInv
<1>1. /\ host' = host /\ host' \in Hosts
  BY BackoffMoves
<1>2. /\ step' \in Steps /\ step'.status = step.status /\ signals' \in Signals
      /\ UNCHANGED <<task, log, plan, attempts, intents, clean, launched, consent>>
  BY Types DEF BackoffElapses, Steps, Signals
<1>3. TypeOK'
  BY <1>1, <1>2, Types, TypesNext
<1>4. PhaseInv'
  BY <1>1, <1>2 DEF PhaseInv, Serving
<1>5. LogInv'
  BY <1>1, <1>2 DEF LogInv, Events, OneOutcomePerRun
<1>6. EndInv'
  BY <1>1, <1>2 DEF EndInv, LastIsOutcome
<1>7. CountInv'
  BY <1>1, <1>2 DEF CountInv, EventsAreCountedOnce
<1>8. AgentInv'
  BY <1>1, <1>2 DEF AgentInv, Events, Serving
<1>9. AttemptInv'
  BY <1>1, <1>2 DEF AttemptInv
<1>10. BetweenInv'
  BY <1>1, <1>2 DEF BetweenInv, Reconciled, Serving, Launchable
<1>11. IntentInv'
  BY <1>1, <1>2 DEF IntentInv, Launchable
<1> QED
  BY <1>3, <1>4, <1>5, <1>6, <1>7, <1>8, <1>9, <1>10, <1>11

\* maybeCompleteRun
LEMMA CompleteMoves ==
  ASSUME IInv, MaybeCompleteRun
  PROVE  /\ host' \in Hosts /\ host'.pc = host.pc /\ host'.agent = host.agent
         /\ host'.ready = host.ready /\ host'.intent = host.intent /\ host'.unclean = host.unclean
         /\ host.todo = <<"complete">> /\ host'.todo = <<>>
<1> USE DEF IInv, HistoryInv
<1>1. host.todo # <<>> /\ Done(<<>>)
  BY DEF MaybeCompleteRun, Doing
<1>2. host'.todo = Tail(host.todo)
  BY <1>1, Rest
<1> QED
  BY <1>1, <1>2, Rest, RestIs DEF MaybeCompleteRun

LEMMA CompleteKeeps ==
  ASSUME IInv, MaybeCompleteRun
  PROVE  IInv'
<1> USE DEF IInv, HistoryInv
<1>1. /\ host' \in Hosts /\ host'.pc = host.pc /\ host'.agent = host.agent
      /\ host'.ready = host.ready /\ host'.intent = host.intent /\ host'.unclean = host.unclean
      /\ host.todo = <<"complete">> /\ host'.todo = <<>>
  BY CompleteMoves
<1>2. /\ plan' \in Plans
      /\ UNCHANGED <<task, log, step, attempts, intents, signals, clean, launched, consent>>
  BY Types DEF MaybeCompleteRun, Plans
<1>3. TypeOK'
  BY <1>1, <1>2, Types, TypesNext
<1>4. PhaseInv'
  BY <1>1, <1>2, KindsOfRuns, KindsOfClaims DEF PhaseInv, Serving
<1>5. LogInv'
  BY <1>1, <1>2, KindsOfRuns, KindsOfClaims DEF LogInv, Events, OneOutcomePerRun
<1>6. EndInv'
  BY <1>1, <1>2, KindsOfRuns, KindsOfClaims DEF EndInv, LastIsOutcome
<1>7. CountInv'
  BY <1>1, <1>2, KindsOfRuns, KindsOfClaims DEF CountInv, EventsAreCountedOnce
<1>8. AgentInv'
  BY <1>1, <1>2, KindsOfRuns, KindsOfClaims DEF AgentInv, Events, Serving
<1>9. AttemptInv'
  BY <1>1, <1>2, KindsOfRuns, KindsOfClaims DEF AttemptInv
<1>10. BetweenInv'
  BY <1>1, <1>2, KindsOfRuns, KindsOfClaims DEF BetweenInv, Reconciled, Serving, Launchable
<1>11. IntentInv'
  BY <1>1, <1>2, KindsOfRuns, KindsOfClaims DEF IntentInv, Launchable
<1> QED
  BY <1>3, <1>4, <1>5, <1>6, <1>7, <1>8, <1>9, <1>10, <1>11

\* pauseForIntervention
LEMMA InterveneMoves ==
  ASSUME IInv, PauseForIntervention
  PROVE  /\ host' \in Hosts /\ host'.pc = host.pc /\ host'.agent = host.agent
         /\ host'.ready = host.ready /\ host'.intent = host.intent /\ host'.unclean = host.unclean
         /\ \/ host.todo = <<"pause">> /\ host'.todo = <<>>
            \/ host.todo = <<"pause", "complete">> /\ host'.todo = <<"complete">>
<1> USE DEF IInv, HistoryInv
<1>1. host.todo # <<>> /\ Done(<<>>)
  BY DEF PauseForIntervention, Doing
<1>2. host'.todo = Tail(host.todo)
  BY <1>1, Rest
<1> QED
  BY <1>1, <1>2, Rest, RestIs DEF PauseForIntervention

LEMMA InterveneKeeps ==
  ASSUME IInv, PauseForIntervention
  PROVE  IInv'
<1> USE DEF IInv, HistoryInv
<1>1. /\ host' \in Hosts /\ host'.pc = host.pc /\ host'.agent = host.agent
      /\ host'.ready = host.ready /\ host'.intent = host.intent /\ host'.unclean = host.unclean
      /\ \/ host.todo = <<"pause">> /\ host'.todo = <<>>
         \/ host.todo = <<"pause", "complete">> /\ host'.todo = <<"complete">>
  BY InterveneMoves
<1>2. /\ plan' \in Plans /\ signals' \in Signals
      /\ UNCHANGED <<task, log, step, attempts, intents, clean, launched, consent>>
  <2>1. CASE plan.status = "running"
    <3>1. plan' = [status |-> "awaiting_intervention", swept |-> FALSE] /\ signals' = NoSignals
      BY <2>1 DEF PauseForIntervention
    <3>2. plan' \in Plans /\ signals' \in Signals
      BY <3>1 DEF Plans, Signals, NoSignal, NoSignals
    <3> QED
      BY <3>2 DEF PauseForIntervention
  <2>2. CASE plan.status # "running"
    BY <2>2, Types DEF PauseForIntervention
  <2> QED
    BY <2>1, <2>2
<1>3. TypeOK'
  BY <1>1, <1>2, Types, TypesNext
<1>4. PhaseInv'
  BY <1>1, <1>2, KindsOfRuns, KindsOfClaims DEF PhaseInv, Serving
<1>5. LogInv'
  BY <1>1, <1>2, KindsOfRuns, KindsOfClaims DEF LogInv, Events, OneOutcomePerRun
<1>6. EndInv'
  BY <1>1, <1>2, KindsOfRuns, KindsOfClaims DEF EndInv, LastIsOutcome
<1>7. CountInv'
  BY <1>1, <1>2, KindsOfRuns, KindsOfClaims DEF CountInv, EventsAreCountedOnce
<1>8. AgentInv'
  BY <1>1, <1>2, KindsOfRuns, KindsOfClaims DEF AgentInv, Events, Serving
<1>9. AttemptInv'
  BY <1>1, <1>2, KindsOfRuns, KindsOfClaims DEF AttemptInv
<1>10. BetweenInv'
  BY <1>1, <1>2, KindsOfRuns, KindsOfClaims DEF BetweenInv, Reconciled, Serving, Launchable
<1>11. IntentInv'
  BY <1>1, <1>2, KindsOfRuns, KindsOfClaims DEF IntentInv, Launchable
<1> QED
  BY <1>3, <1>4, <1>5, <1>6, <1>7, <1>8, <1>9, <1>10, <1>11

\* The next intent's turn.
LEMMA IntentMoves ==
  ASSUME IInv, NextIntent
  PROVE  /\ host' \in Hosts /\ host.pc = "intents" /\ host'.pc = "intents" /\ host'.agent = host.agent
         /\ host.ready = 0 /\ host'.ready = 0
         /\ host'.intent \in 1..Len(intents)
         /\ host.todo = <<>> /\ host'.todo \in {<<>>, <<"continue">>}
<1> USE DEF IInv, HistoryInv
<1>1. <<"continue">> \in Seq(Transactions)
  BY DEF Transactions
<1>2. host.intent + 1 \in 1..Len(intents)
  BY Types DEF NextIntent, Hosts
<1>3. \E todo \in {<<>>, <<"continue">>}, index \in BOOLEAN :
        host' = [host EXCEPT !.intent = @ + 1, !.index = index, !.todo = todo]
  <2>1. CASE plan.status = "running" \/ (plan.status = "awaiting_intervention" /\ plan.swept)
    BY <2>1 DEF NextIntent
  <2>2. CASE ~(plan.status = "running" \/ (plan.status = "awaiting_intervention" /\ plan.swept))
    <3>1. host' = [host EXCEPT !.intent = @ + 1, !.index = @ \/ plan.status = "awaiting_intervention"]
      BY <2>2 DEF NextIntent
    <3>2. PICK index \in BOOLEAN : index = (host.index \/ plan.status = "awaiting_intervention")
      OBVIOUS
    <3>3. host.todo = <<>>
      BY DEF NextIntent, IntentsTurn, Idle
    <3>4. host' = [host EXCEPT !.intent = @ + 1, !.index = index, !.todo = <<>>]
      BY <3>1, <3>2, <3>3, Types DEF Hosts
    <3> QED
      BY <3>4
  <2> QED
    BY <2>1, <2>2
<1>4. PICK todo \in {<<>>, <<"continue">>}, index \in BOOLEAN :
        host' = [host EXCEPT !.intent = @ + 1, !.index = index, !.todo = todo]
  BY <1>3
<1>5. todo \in Seq(Transactions)
  <2>1. <<>> \in Seq(Transactions)
    OBVIOUS
  <2> QED
    BY <1>1, <2>1, Zenon
<1>6. host' \in Hosts /\ host'.todo = todo /\ host'.intent = host.intent + 1
  <2>1. host.intent + 1 \in Nat
    BY Types DEF Hosts
  <2> HIDE DEF HistoryInv
  <2>2. host' = [host EXCEPT !.intent = host.intent + 1, !.index = index, !.todo = todo]
    BY <1>4
  <2>3. host \in Hosts
    BY Types
  <2> QED
    BY <1>5, <2>1, <2>2, <2>3 DEF Hosts
<1>7. host'.pc = host.pc /\ host'.agent = host.agent /\ host'.ready = host.ready
  BY <1>4, Types DEF Hosts
<1>8. host.pc = "intents" /\ host.ready = 0 /\ host.todo = <<>>
  BY DEF NextIntent, IntentsTurn, Idle
<1> QED
  BY <1>2, <1>6, <1>7, <1>8

LEMMA IntentKeeps ==
  ASSUME IInv, NextIntent
  PROVE  IInv'
<1> USE DEF IInv, HistoryInv
<1>1. /\ host' \in Hosts /\ host.pc = "intents" /\ host'.pc = "intents" /\ host'.agent = host.agent
      /\ host.ready = 0 /\ host'.ready = 0
      /\ host'.intent \in 1..Len(intents)
      /\ host.todo = <<>> /\ host'.todo \in {<<>>, <<"continue">>}
  BY IntentMoves
<1>2. /\ plan' \in Plans
      /\ UNCHANGED <<task, log, step, attempts, intents, signals, clean, launched, consent>>
  BY Types DEF NextIntent, Plans
<1>3. TypeOK'
  BY <1>1, <1>2, Types, TypesNext
<1>4. PhaseInv'
  BY <1>1, <1>2, KindsOfRuns, KindsOfCalls DEF PhaseInv, Serving
<1>5. LogInv'
  BY <1>1, <1>2, KindsOfRuns, KindsOfCalls DEF LogInv, Events, OneOutcomePerRun
<1>6. EndInv'
  BY <1>1, <1>2, KindsOfRuns, KindsOfCalls DEF EndInv, LastIsOutcome
<1>7. CountInv'
  BY <1>1, <1>2, KindsOfRuns, KindsOfCalls DEF CountInv, EventsAreCountedOnce
<1>8. AgentInv'
  BY <1>1, <1>2, KindsOfRuns, KindsOfCalls DEF AgentInv, Events, Serving
<1>9. AttemptInv'
  BY <1>1, <1>2, KindsOfRuns, KindsOfCalls DEF AttemptInv
<1>10. BetweenInv'
  BY <1>1, <1>2, KindsOfRuns, KindsOfCalls DEF BetweenInv, Reconciled, Serving, Launchable
<1>11. IntentInv'
  BY <1>1, <1>2, KindsOfRuns, KindsOfCalls DEF IntentInv, Launchable
<1> QED
  BY <1>3, <1>4, <1>5, <1>6, <1>7, <1>8, <1>9, <1>10, <1>11

\* The run has just started.
LEMMA BeginsRight == Init => IInv
<1> SUFFICES ASSUME Init PROVE IInv
  OBVIOUS
<1>1. /\ host \in Hosts /\ host.pc = "up" /\ host.todo = <<>> /\ host.agent = 0 /\ host.ready = 0
      /\ host.intent = 0
  <2>1. <<>> \in Seq(Transactions) /\ 0 \in 0..MaxAttempts
    BY BoundAssumption
  <2>2. host = [pc |-> "up", todo |-> <<>>, agent |-> 0, ready |-> 0, index |-> TRUE,
                unclean |-> FALSE, intent |-> 0]
    BY DEF Init, Off
  <2> QED
    BY <2>1, <2>2 DEF Hosts
<1>2. /\ task \in Tasks /\ task.status = "assigned" /\ task.run = 0 /\ task.count = 0
  BY BoundAssumption DEF Init, Tasks
<1>3. /\ log \in Logs /\ log.events = <<>> /\ log.closed = FALSE
      /\ attempts \in Attempts /\ attempts = <<>> /\ intents \in Seq(Intent) /\ intents = <<>>
      /\ launched = {}
  BY BoundAssumption DEF Init, Logs, Attempts
<1>4. /\ plan \in Plans /\ step \in Steps /\ clean \in BOOLEAN /\ consent \in BOOLEAN
  BY DEF Init, Plans, Steps
<1>5. signals \in Signals
  BY DEF Init, Signals, NoSignal
<1>6. TypeOK
  BY <1>1, <1>2, <1>3, <1>4, <1>5, Types
<1>7. Len(log.events) = 0 /\ Len(attempts) = 0 /\ Len(intents) = 0 /\ Events = {}
  BY <1>3 DEF Events
<1>8. PhaseInv
  BY <1>1, KindsOfRuns DEF PhaseInv, Serving
<1>9. LogInv
  BY <1>1, <1>2, <1>3, <1>7 DEF LogInv, OneOutcomePerRun
<1>10. EndInv
  BY <1>1, <1>2, <1>3, KindsOfRuns DEF EndInv, TaskEnds
<1>11. CountInv
  BY <1>1, <1>2, <1>7, KindsOfRuns DEF CountInv, EventsAreCountedOnce
<1>12. AgentInv
  BY <1>1 DEF AgentInv
<1>13. AttemptInv
  BY <1>1, <1>7, KindsOfRuns DEF AttemptInv
<1>14. BetweenInv
  BY <1>1, <1>2, <1>3, KindsOfRuns DEF BetweenInv
<1>15. IntentInv
  BY <1>7 DEF IntentInv
<1> QED
  BY <1>6, <1>8, <1>9, <1>10, <1>11, <1>12, <1>13, <1>14, <1>15 DEF IInv, HistoryInv

\* Every transaction, crash and request keeps it.
LEMMA StepKeeps == IInv /\ [Next]_vars => IInv'
<1> SUFFICES ASSUME IInv, [Next]_vars PROVE IInv'
  OBVIOUS
<1>1. CASE RecordEventMeta
  BY <1>1, MetaKeeps
<1>2. CASE StartRunning
  BY <1>2, RunningKeeps
<1>3. CASE SetCompleted
  BY <1>3, OutcomeKeeps
<1>4. CASE UpdateStatus
  BY <1>4, StatusKeeps
<1>5. CASE ReopenForRetry
  BY <1>5, ReopenKeeps
<1>6. CASE Advance
  <2>1. CASE AdvanceFor("advance")
    BY <2>1, AdvanceKeeps
  <2>2. CASE AdvanceFor("advance_for_operator")
    BY <2>2, AdvanceKeeps
  <2> QED
    BY <1>6, <2>1, <2>2 DEF Advance
<1>7. CASE CallStartTask
  BY <1>7, CallKeeps
<1>8. CASE UpdateAttempt
  BY <1>8, UpdateKeeps
<1>9. CASE UpsertStep
  BY <1>9, UpsertKeeps
<1>10. CASE MaybeCompleteRun
  BY <1>10, CompleteKeeps
<1>11. CASE PauseForIntervention
  BY <1>11, InterveneKeeps
<1>12. CASE Hook
  BY <1>12, HookKeeps
<1>13. CASE ContinueIntent
  BY <1>13, CarryKeeps
<1>14. CASE EnqueueManualRetry
  BY <1>14, EnqueueKeeps
<1>15. CASE Boot
  BY <1>15, BootKeeps
<1>16. CASE CatchUp
  BY <1>16, CatchUpKeeps
<1>17. CASE ReplayOutcome
  BY <1>17, ReplayKeeps
<1>18. CASE RecordInterruptedRun
  BY <1>18, InterruptedKeeps
<1>19. CASE TasksReconciled
  BY <1>19, ReconciledKeeps
<1>20. CASE SweepRun
  BY <1>20, SweepKeeps
<1>21. CASE ContinueRun
  BY <1>21, ContinueKeeps
<1>22. CASE RunsRecovered
  BY <1>22, RecoveredKeeps
<1>23. CASE NextIntent
  BY <1>23, IntentKeeps
<1>24. CASE Arm
  BY <1>24, ArmKeeps
<1>25. CASE Ending
  <2>1. PICK type \in Outcomes \ {"restart"} : Emit(type)
    BY <1>25 DEF Ending
  <2>2. type \in Outcomes /\ type # "started"
    BY DEF Outcomes
  <2> QED
    BY <2>1, <2>2, EndedKeeps
<1>26. CASE Emit("started")
  BY <1>26, StartedKeeps
<1>27. CASE TakeSignal
  BY <1>27, TakeKeeps
<1>28. CASE Launch
  BY <1>28, LaunchKeeps
<1>29. CASE LaunchFails
  BY <1>29, FailsKeeps
<1>30. CASE BackoffElapses
  BY <1>30, BackoffKeeps
<1>31. CASE Resume
  BY <1>31, ResumeKeeps
<1>32. CASE Pause
  BY <1>32, PauseKeeps
<1>33. CASE CancelRun
  BY <1>33, CancelKeeps
<1>34. CASE RetryStep
  BY <1>34, RetryKeeps
<1>35. CASE RetryAbandonedStep
  BY <1>35, RetryAbandonedKeeps
<1>36. CASE Crash
  BY <1>36, CrashKeeps
<1>37. CASE BeginShutdown
  BY <1>37, BeginKeeps
<1>38. CASE FinishShutdown
  BY <1>38, FinishKeeps
<1>39. CASE UNCHANGED vars
  <2>1. /\ task' = task /\ log' = log /\ plan' = plan /\ step' = step /\ attempts' = attempts
        /\ intents' = intents /\ signals' = signals /\ clean' = clean /\ host' = host
        /\ launched' = launched /\ consent' = consent
    BY <1>39 DEF vars
  <2>2. TypeOK'
    BY <2>1, Types, TypesNext DEF IInv
  <2>3. PhaseInv' /\ LogInv' /\ EndInv'
    BY <2>1 DEF IInv, HistoryInv, PhaseInv, LogInv, EndInv, Serving, Events, OneOutcomePerRun, LastIsOutcome
  <2>4. CountInv' /\ AgentInv' /\ AttemptInv'
    BY <2>1 DEF IInv, HistoryInv, CountInv, AgentInv, AttemptInv, EventsAreCountedOnce, Events
  <2>5. BetweenInv' /\ IntentInv'
    BY <2>1 DEF IInv, HistoryInv, BetweenInv, IntentInv, Reconciled, Serving, Launchable
  <2> QED
    BY <2>2, <2>3, <2>4, <2>5 DEF IInv, HistoryInv
<1> QED
  BY <1>1, <1>2, <1>3, <1>4, <1>5, <1>6, <1>7, <1>8, <1>9, <1>10, <1>11, <1>12, <1>13, <1>14, <1>15, <1>16, <1>17, <1>18, <1>19, <1>20, <1>21, <1>22, <1>23, <1>24, <1>25, <1>26, <1>27, <1>28, <1>29, <1>30, <1>31, <1>32, <1>33, <1>34, <1>35, <1>36, <1>37, <1>38, <1>39 DEF Next, Commit, Recover

\* What the invariant says is what the runs check.
LEMMA HistoryHolds == IInv => RecoveryInv
<1> SUFFICES ASSUME IInv PROVE RecoveryInv
  OBVIOUS
<1> USE DEF IInv, HistoryInv
<1>1. OneOutcomePerRun
  BY DEF LogInv
<1>2. SuccessIsKept
  <2>1. SUFFICES ASSUME NEW i \in 1..Len(log.events), log.events[i].type = "completed"
                 PROVE  \/ task.status = "completed"
                        \/ task.status = "running" /\ Last(log.events).type = "completed"
    BY DEF SuccessIsKept
  <2>2. i = Len(log.events) /\ task.status \in {"running", "completed"}
    BY <2>1 DEF LogInv, Events
  <2> QED
    BY <2>1, <2>2 DEF Last
<1>3. ActiveTaskIsExecuting
  <2>1. SUFFICES ASSUME Serving, host.todo = <<>>, task.run # 0, task.status \notin TaskEnds
                 PROVE  host.agent = task.run
    BY DEF ActiveTaskIsExecuting, Idle
  <2>2. host.todo \notin Settling
    BY <2>1, KindsOfRuns
  <2> QED
    BY <2>1, <2>2 DEF BetweenInv, Reconciled
<1>4. ExecutionHasOpenLog
  BY DEF ExecutionHasOpenLog, AgentInv
<1>5. AttemptLaunchesOnce
  BY DEF AttemptLaunchesOnce, AttemptInv
<1>6. EventsAreCountedOnce
  BY DEF CountInv
<1> QED
  BY <1>1, <1>2, <1>3, <1>4, <1>5, <1>6 DEF RecoveryInv

\* Whatever a restart finds, the rows still tell what happened: one outcome for a
\* run, no success undone, nothing taken for alive that is dead, no attempt twice.
THEOREM HistoryIsKept == Spec => []RecoveryInv
<1>1. Init => IInv
  BY BeginsRight
<1>2. IInv /\ [Next]_vars => IInv'
  BY StepKeeps
<1>3. IInv => RecoveryInv
  BY HistoryHolds
<1> QED
  BY <1>1, <1>2, <1>3, PTL DEF Spec

-----------------------------------------------------------------------------
\* The history of attempts.

FinalStays ==
  \A n \in 1..Len(attempts) : attempts[n].status \notin Occupied => attempts'[n] = attempts[n]

\* No transaction rewrites an attempt that has ended.
LEMMA EndedAttemptStays == IInv /\ [Next]_vars => FinalStays
<1> SUFFICES ASSUME IInv, [Next]_vars PROVE FinalStays
  OBVIOUS
<1>1. attempts \in Seq(Attempt) /\ Len(attempts) \in Nat
  BY Types, LenProperties DEF IInv, Attempts
<1>2. CASE UNCHANGED attempts
  BY <1>2 DEF FinalStays
<1>3. CASE \E row : attempts' = Append(attempts, row)
  BY <1>1, <1>3, AppendProperties DEF FinalStays
<1>4. ASSUME NEW name \in {"advance", "advance_for_operator"}, AdvanceFor(name)
      PROVE  FinalStays
  BY <1>2, <1>3, <1>4 DEF AdvanceFor
<1>5. ASSUME attempts[Len(attempts)].status \in Occupied,
             NEW row, attempts' = [attempts EXCEPT ![Len(attempts)] = row]
      PROVE  FinalStays
  BY <1>1, <1>5 DEF FinalStays
<1>6. CASE UpdateAttempt
  <2>1. host.todo \in Recording \/ host.todo \in Failing
    BY <1>6, PendingIs, KindsOfCalls DEF UpdateAttempt, Doing, IInv, HistoryInv
  <2>2. attempts[Len(attempts)].status \in Occupied
    <3>1. CASE host.todo \in Recording
      BY <3>1 DEF IInv, HistoryInv, AttemptInv, AgentInv, Occupied
    <3>2. CASE host.todo \in Failing
      BY <3>2 DEF IInv, HistoryInv, AttemptInv, Occupied
    <3> QED
      BY <2>1, <3>1, <3>2
  <2>3. \E row : attempts' = [attempts EXCEPT ![Len(attempts)] = row]
    BY <1>6 DEF UpdateAttempt
  <2> QED
    BY <1>5, <2>2, <2>3
<1>7. CASE Hook
  <2>1. host.todo \in Hooked
    BY <1>7, PendingIs, KindsOfRuns DEF Hook, Doing, IInv, HistoryInv
  <2>2. attempts[Len(attempts)].status \in Occupied
    BY <2>1 DEF IInv, HistoryInv, AttemptInv, Occupied
  <2>3. attempts' = attempts \/ \E row : attempts' = [attempts EXCEPT ![Len(attempts)] = row]
    BY <1>7 DEF Hook
  <2> QED
    BY <1>2, <1>5, <2>2, <2>3
<1>8. CASE SweepRun
  BY <1>8 DEF SweepRun, Swept, FinalStays
<1>9. UNCHANGED attempts \/ Advance \/ UpdateAttempt \/ Hook \/ SweepRun
  <2>1. CASE Commit
    BY <2>1 DEF Commit, RecordEventMeta, StartRunning, SetCompleted, UpdateStatus, ReopenForRetry,
      CallStartTask, durable, UpsertStep, MaybeCompleteRun, PauseForIntervention, ContinueIntent,
      EnqueueManualRetry
  <2>2. CASE Recover
    BY <2>2 DEF Recover, Boot, CatchUp, ReplayOutcome, RecordInterruptedRun, TasksReconciled,
      ContinueRun, RunsRecovered, NextIntent, Arm, durable
  <2>3. CASE Ending \/ Emit("started") \/ TakeSignal \/ Launch \/ LaunchFails \/ BackoffElapses
    BY <2>3 DEF Ending, Emit, TakeSignal, Launch, LaunchFails, BackoffElapses
  <2>4. CASE Resume \/ Pause \/ CancelRun \/ RetryStep \/ RetryAbandonedStep
             \/ Crash \/ BeginShutdown \/ FinishShutdown
    BY <2>4 DEF Resume, Pause, CancelRun, RetryStep, RetryAbandonedStep, Crash, BeginShutdown,
      FinishShutdown, durable
  <2>5. CASE UNCHANGED vars
    BY <2>5 DEF vars
  <2> QED
    BY <2>1, <2>2, <2>3, <2>4, <2>5 DEF Next
<1> QED
  BY <1>2, <1>4, <1>6, <1>7, <1>8, <1>9 DEF Advance

\* An attempt that has ended keeps its ending across stops before any transaction,
\* shutdowns, the next boot's reconciliation, sweep and recovery, launches, ends and
\* timers, and the operator's requests about the run.  Board requests for the child task
\* during a launch are not among the steps of this module (PlanScheduler has them).
THEOREM AttemptsAreFinal == Spec => AttemptHistoryIsFinal
<1>1. Init => IInv
  BY BeginsRight
<1>2. IInv /\ [Next]_vars => IInv'
  BY StepKeeps
<1>3. IInv /\ [Next]_vars
        => [\A n \in 1..Len(attempts) :
              attempts[n].status \notin Occupied => attempts'[n] = attempts[n]]_vars
  BY EndedAttemptStays DEF FinalStays
<1> QED
  BY <1>1, <1>2, <1>3, PTL DEF Spec, AttemptHistoryIsFinal

-----------------------------------------------------------------------------
\* Why an interrupted attempt waits.

\* After an abandoned attempt nothing is in execution, and nothing is about to be.
LEMMA AbandonedIsIdle ==
  ASSUME IInv, attempts # <<>>, attempts[Len(attempts)].status = "abandoned"
  PROVE  /\ host.agent = 0 /\ host.ready = 0
         /\ host.todo \notin Calling \cup Failing \cup Settling \cup Hooked
         /\ host.todo \notin Beginning \cup Recording \cup Marking
         /\ \A n \in 1..Len(attempts) : attempts[n].status \notin Occupied
<1> USE DEF IInv, HistoryInv
<1>1. Len(attempts) \in Nat /\ Len(attempts) # 0
  BY Types, LenProperties, EmptySeq DEF Attempts
<1>2. host.agent = 0
  BY DEF AgentInv
<1>3. host.ready = 0 /\ host.todo \notin Calling \cup Failing \cup Settling \cup Hooked
  BY DEF AttemptInv
<1>4. host.todo \notin Beginning \cup Recording \cup Marking
  BY <1>2 DEF AttemptInv
<1>5. \A n \in 1..Len(attempts) : attempts[n].status \notin Occupied
  BY <1>1 DEF AttemptInv, Occupied
<1> QED
  BY <1>2, <1>3, <1>4, <1>5

\* What a resting run may have pending.
LEMMA RestingPends ==
  ASSUME IInv, RestInv, Resting, Serving
  PROVE  /\ host.todo \in {<<>>, <<"complete">>, <<"advance", "complete">>,
                           <<"advance_for_operator", "complete">>, <<"pause", "complete">>,
                           <<"continue">>, <<"reopen", "enqueue">>, <<"enqueue">>}
         /\ ~Doing("meta") /\ ~Doing("running") /\ ~Doing("outcome") /\ ~Doing("status")
         /\ ~Doing("hook") /\ ~Doing("launch") /\ ~Doing("attempt_runs") /\ ~Doing("step_runs")
         /\ ~Doing("attempt_fails") /\ ~Doing("step_waits")
<1>1. host.todo \in {<<>>, <<"complete">>, <<"advance", "complete">>,
                     <<"advance_for_operator", "complete">>, <<"pause", "complete">>,
                     <<"continue">>, <<"reopen", "enqueue">>, <<"enqueue">>}
  BY DEF RestInv, Serving, Free, Continuing, RetryPending, Preparing, Enqueueing
<1> QED
  BY <1>1, Heads DEF Doing

\* A step that leaves the plan, its attempts and its signals alone.
LEMMA QuietStep ==
  ASSUME IInv, WaitInv, UNCHANGED <<plan, attempts, intents, signals, clean>>,
         consent => consent', consent' \in BOOLEAN,
         host'.pc = host.pc, host'.unclean = host.unclean,
         log'.events = <<>> => log.events = <<>>,
         host.pc = "runs" => task' = task /\ log' = log,
         host'.ready # 0 \/ host'.todo \in Calling => host.ready # 0 \/ host.todo \in Calling,
         Resting => ~Serving
  PROVE  WaitInv'
<1>1. AskedInv'
  BY DEF WaitInv, AskedInv, Silent, Launchable
<1>2. ClaimInv'
  BY DEF WaitInv, ClaimInv
<1>3. RestInv'
  <2>1. Resting' => Resting
    BY DEF Resting
  <2>2. Resting => host.pc \notin {"draining", "intents", "up", "closing"}
    BY DEF Serving
  <2> QED
    BY <2>1, <2>2 DEF WaitInv, RestInv, Silent
<1> QED
  BY <1>1, <1>2, <1>3 DEF WaitInv

LEMMA MetaWaits ==
  ASSUME IInv, WaitInv, RecordEventMeta
  PROVE  WaitInv'
<1>1. Resting => ~Serving
  BY RestingPends DEF WaitInv, RecordEventMeta
<1>2. /\ host'.pc = host.pc /\ host'.unclean = host.unclean
      /\ host'.ready # 0 \/ host'.todo \in Calling => host.ready # 0 \/ host.todo \in Calling
      /\ host.pc # "runs"
  <2>1. host.pc # "runs"
    BY MetaMoves, KindsOfRuns, KindsOfClaims, KindsOfCalls DEF IInv, HistoryInv, PhaseInv, Serving
  <2> QED
    BY <2>1, MetaMoves, KindsOfRuns, KindsOfClaims, KindsOfCalls
<1>3. /\ UNCHANGED <<plan, attempts, intents, signals, clean>>
      /\ consent' \in BOOLEAN
      /\ consent => consent'
      /\ log'.events = <<>> => log.events = <<>>
  BY Types DEF RecordEventMeta, durable, IInv
<1> QED
  BY <1>1, <1>2, <1>3, QuietStep

LEMMA RunningWaits ==
  ASSUME IInv, WaitInv, StartRunning
  PROVE  WaitInv'
<1>1. Resting => ~Serving
  BY RestingPends DEF WaitInv, StartRunning
<1>2. /\ host'.pc = host.pc /\ host'.unclean = host.unclean
      /\ host'.ready # 0 \/ host'.todo \in Calling => host.ready # 0 \/ host.todo \in Calling
      /\ host.pc # "runs"
  <2>1. host.pc # "runs"
    BY RunningMoves, KindsOfRuns, KindsOfClaims, KindsOfCalls DEF IInv, HistoryInv, PhaseInv, Serving
  <2> QED
    BY <2>1, RunningMoves, KindsOfRuns, KindsOfClaims, KindsOfCalls
<1>3. /\ UNCHANGED <<plan, attempts, intents, signals, clean>>
      /\ consent' \in BOOLEAN
      /\ consent => consent'
      /\ log'.events = <<>> => log.events = <<>>
  BY Types DEF StartRunning, durable, IInv
<1> QED
  BY <1>1, <1>2, <1>3, QuietStep

LEMMA OutcomeWaits ==
  ASSUME IInv, WaitInv, SetCompleted
  PROVE  WaitInv'
<1>1. Resting => ~Serving
  BY RestingPends DEF WaitInv, SetCompleted
<1>2. /\ host'.pc = host.pc /\ host'.unclean = host.unclean
      /\ host'.ready # 0 \/ host'.todo \in Calling => host.ready # 0 \/ host.todo \in Calling
      /\ host.pc # "runs"
  <2>1. host.pc # "runs"
    BY OutcomeMoves, KindsOfRuns, KindsOfClaims, KindsOfCalls DEF IInv, HistoryInv, PhaseInv, Serving
  <2> QED
    BY <2>1, OutcomeMoves, KindsOfRuns, KindsOfClaims, KindsOfCalls
<1>3. /\ UNCHANGED <<plan, attempts, intents, signals, clean>>
      /\ consent' \in BOOLEAN
      /\ consent => consent'
      /\ log'.events = <<>> => log.events = <<>>
  BY Types DEF SetCompleted, durable, IInv
<1> QED
  BY <1>1, <1>2, <1>3, QuietStep

LEMMA StatusWaits ==
  ASSUME IInv, WaitInv, UpdateStatus
  PROVE  WaitInv'
<1>1. Resting => ~Serving
  BY RestingPends DEF WaitInv, UpdateStatus
<1>2. /\ host'.pc = host.pc /\ host'.unclean = host.unclean
      /\ host'.ready # 0 \/ host'.todo \in Calling => host.ready # 0 \/ host.todo \in Calling
      /\ host.pc # "runs"
  <2>1. host.pc # "runs"
    BY StatusMoves, KindsOfRuns, KindsOfClaims, KindsOfCalls DEF IInv, HistoryInv, PhaseInv, Serving
  <2> QED
    BY <2>1, StatusMoves, KindsOfRuns, KindsOfClaims, KindsOfCalls
<1>3. /\ UNCHANGED <<plan, attempts, intents, signals, clean>>
      /\ consent' \in BOOLEAN
      /\ consent => consent'
      /\ log'.events = <<>> => log.events = <<>>
  BY Types DEF UpdateStatus, durable, IInv
<1> QED
  BY <1>1, <1>2, <1>3, QuietStep

LEMMA UpsertWaits ==
  ASSUME IInv, WaitInv, UpsertStep
  PROVE  WaitInv'
<1>1. Resting => ~Serving
  BY RestingPends DEF WaitInv, UpsertStep
<1>2. /\ host'.pc = host.pc /\ host'.unclean = host.unclean
      /\ host'.ready # 0 \/ host'.todo \in Calling => host.ready # 0 \/ host.todo \in Calling
      /\ host.pc # "runs"
  <2>1. host.pc # "runs"
    BY UpsertMoves, KindsOfRuns, KindsOfClaims, KindsOfCalls DEF IInv, HistoryInv, PhaseInv, Serving
  <2> QED
    BY <2>1, UpsertMoves, KindsOfRuns, KindsOfClaims, KindsOfCalls
<1>3. /\ UNCHANGED <<plan, attempts, intents, signals, clean>>
      /\ consent' \in BOOLEAN
      /\ consent => consent'
      /\ log'.events = <<>> => log.events = <<>>
  BY Types DEF UpsertStep, durable, IInv
<1> QED
  BY <1>1, <1>2, <1>3, QuietStep

LEMMA CallWaits ==
  ASSUME IInv, WaitInv, CallStartTask
  PROVE  WaitInv'
<1>1. Resting => ~Serving
  BY RestingPends DEF WaitInv, CallStartTask
<1>2. /\ host'.pc = host.pc /\ host'.unclean = host.unclean
      /\ host'.ready # 0 \/ host'.todo \in Calling => host.ready # 0 \/ host.todo \in Calling
      /\ host.pc # "runs"
  <2>1. host.pc # "runs"
    BY CallMoves, KindsOfRuns, KindsOfClaims, KindsOfCalls DEF IInv, HistoryInv, PhaseInv, Serving
  <2> QED
    BY <2>1, CallMoves, KindsOfRuns, KindsOfClaims, KindsOfCalls
<1>3. /\ UNCHANGED <<plan, attempts, intents, signals, clean>>
      /\ consent' \in BOOLEAN
      /\ consent => consent'
      /\ log'.events = <<>> => log.events = <<>>
  BY Types DEF CallStartTask, durable, IInv
<1> QED
  BY <1>1, <1>2, <1>3, QuietStep

LEMMA CatchUpWaits ==
  ASSUME IInv, WaitInv, CatchUp
  PROVE  WaitInv'
<1>1. Resting => ~Serving
  BY DEF CatchUp, Pending, Reconciling, Serving
<1>2. /\ host'.pc = host.pc /\ host'.unclean = host.unclean
      /\ host'.ready # 0 \/ host'.todo \in Calling => host.ready # 0 \/ host.todo \in Calling
      /\ host.pc # "runs"
  <2>1. host.pc # "runs"
    BY CatchUpMoves, KindsOfRuns, KindsOfClaims, KindsOfCalls DEF IInv, HistoryInv, PhaseInv, Serving
  <2> QED
    BY <2>1, CatchUpMoves, KindsOfRuns, KindsOfClaims, KindsOfCalls
<1>3. /\ UNCHANGED <<plan, attempts, intents, signals, clean>>
      /\ consent' \in BOOLEAN
      /\ consent => consent'
      /\ log'.events = <<>> => log.events = <<>>
  BY Types DEF CatchUp, durable, IInv
<1> QED
  BY <1>1, <1>2, <1>3, QuietStep

LEMMA ReplayWaits ==
  ASSUME IInv, WaitInv, ReplayOutcome
  PROVE  WaitInv'
<1>1. Resting => ~Serving
  BY DEF ReplayOutcome, Pending, Reconciling, Serving
<1>2. /\ host'.pc = host.pc /\ host'.unclean = host.unclean
      /\ host'.ready # 0 \/ host'.todo \in Calling => host.ready # 0 \/ host.todo \in Calling
      /\ host.pc # "runs"
  <2>1. host.pc # "runs"
    BY ReplayMoves, KindsOfRuns, KindsOfClaims, KindsOfCalls DEF IInv, HistoryInv, PhaseInv, Serving
  <2> QED
    BY <2>1, ReplayMoves, KindsOfRuns, KindsOfClaims, KindsOfCalls
<1>3. /\ UNCHANGED <<plan, attempts, intents, signals, clean>>
      /\ consent' \in BOOLEAN
      /\ consent => consent'
      /\ log'.events = <<>> => log.events = <<>>
  BY Types DEF ReplayOutcome, durable, IInv
<1> QED
  BY <1>1, <1>2, <1>3, QuietStep

LEMMA InterruptedWaits ==
  ASSUME IInv, WaitInv, RecordInterruptedRun
  PROVE  WaitInv'
<1>1. Resting => ~Serving
  BY DEF RecordInterruptedRun, Pending, Reconciling, Serving
<1>2. /\ host'.pc = host.pc /\ host'.unclean = host.unclean
      /\ host'.ready # 0 \/ host'.todo \in Calling => host.ready # 0 \/ host.todo \in Calling
      /\ host.pc # "runs"
  <2>1. host.pc # "runs"
    BY InterruptedMoves, KindsOfRuns, KindsOfClaims, KindsOfCalls DEF IInv, HistoryInv, PhaseInv, Serving
  <2> QED
    BY <2>1, InterruptedMoves, KindsOfRuns, KindsOfClaims, KindsOfCalls
<1>3. /\ UNCHANGED <<plan, attempts, intents, signals, clean>>
      /\ consent' \in BOOLEAN
      /\ consent => consent'
      /\ log'.events = <<>> => log.events = <<>>
  <2>1. log'.events # <<>>
    <3>1. task.run \in Number /\ "restart" \in Outcomes /\ log' = Appended(task.run, "restart")
      BY Types DEF RecordInterruptedRun, Pending, Outcomes, IInv, Tasks, Number
    <3>2. Len(log'.events) = Len(log.events) + 1 /\ Len(log.events) \in Nat
      BY <3>1, Grown DEF IInv
    <3> QED
      BY <3>2
  <2> QED
    BY <2>1, Types DEF RecordInterruptedRun, IInv
<1> QED
  BY <1>1, <1>2, <1>3, QuietStep

LEMMA StartedWaits ==
  ASSUME IInv, WaitInv, Emit("started")
  PROVE  WaitInv'
<1>1. Resting => ~Serving
  BY AbandonedIsIdle DEF Resting, Emit
<1>2. /\ host'.pc = host.pc /\ host'.unclean = host.unclean
      /\ host'.ready # 0 \/ host'.todo \in Calling => host.ready # 0 \/ host.todo \in Calling
      /\ host.pc # "runs"
  <2>1. host.pc # "runs"
    BY StartedMoves, KindsOfRuns, KindsOfClaims, KindsOfCalls DEF IInv, HistoryInv, PhaseInv, Serving
  <2> QED
    BY <2>1, StartedMoves, KindsOfRuns, KindsOfClaims, KindsOfCalls
<1>3. /\ UNCHANGED <<plan, attempts, intents, signals, clean>>
      /\ consent' \in BOOLEAN
      /\ consent => consent'
      /\ log'.events = <<>> => log.events = <<>>
  <2>1. log'.events # <<>>
    <3>1. host.agent \in Number /\ "started" \in Outcomes \cup {"started"} /\ log' = Appended(host.agent, "started")
      BY Types DEF Emit, IInv, Hosts, Number
    <3>2. Len(log'.events) = Len(log.events) + 1 /\ Len(log.events) \in Nat
      BY <3>1, Grown DEF IInv
    <3> QED
      BY <3>2
  <2> QED
    BY <2>1, Types DEF Emit, IInv
<1> QED
  BY <1>1, <1>2, <1>3, QuietStep

LEMMA EndedWaits ==
  ASSUME IInv, WaitInv, NEW type \in Outcomes, type # "started", Emit(type)
  PROVE  WaitInv'
<1>1. Resting => ~Serving
  BY AbandonedIsIdle DEF Resting, Emit
<1>2. /\ host'.pc = host.pc /\ host'.unclean = host.unclean
      /\ host'.ready # 0 \/ host'.todo \in Calling => host.ready # 0 \/ host.todo \in Calling
      /\ host.pc # "runs"
  <2>1. host.pc # "runs"
    BY EndedMoves, KindsOfRuns, KindsOfClaims, KindsOfCalls DEF IInv, HistoryInv, PhaseInv, Serving
  <2> QED
    BY <2>1, EndedMoves, KindsOfRuns, KindsOfClaims, KindsOfCalls
<1>3. /\ UNCHANGED <<plan, attempts, intents, signals, clean>>
      /\ consent' \in BOOLEAN
      /\ consent => consent'
      /\ log'.events = <<>> => log.events = <<>>
  <2>1. log'.events # <<>>
    <3>1. host.agent \in Number /\ type \in Outcomes \cup {"started"} /\ log' = Appended(host.agent, type)
      BY Types DEF Emit, IInv, Hosts, Number
    <3>2. Len(log'.events) = Len(log.events) + 1 /\ Len(log.events) \in Nat
      BY <3>1, Grown DEF IInv
    <3> QED
      BY <3>2
  <2> QED
    BY <2>1, Types DEF Emit, IInv
<1> QED
  BY <1>1, <1>2, <1>3, QuietStep

LEMMA LaunchWaits ==
  ASSUME IInv, WaitInv, Launch
  PROVE  WaitInv'
<1>1. Resting => ~Serving
  BY AbandonedIsIdle DEF Resting, Launch
<1>2. /\ host'.pc = host.pc /\ host'.unclean = host.unclean
      /\ host'.ready # 0 \/ host'.todo \in Calling => host.ready # 0 \/ host.todo \in Calling
      /\ host.pc # "runs"
  <2>1. host.pc # "runs"
    BY LaunchMoves, KindsOfRuns, KindsOfClaims, KindsOfCalls DEF IInv, HistoryInv, PhaseInv, Serving
  <2> QED
    BY <2>1, LaunchMoves, KindsOfRuns, KindsOfClaims, KindsOfCalls
<1>3. /\ UNCHANGED <<plan, attempts, intents, signals, clean>>
      /\ consent' \in BOOLEAN
      /\ consent => consent'
      /\ log'.events = <<>> => log.events = <<>>
  BY Types DEF Launch, durable, IInv
<1> QED
  BY <1>1, <1>2, <1>3, QuietStep

LEMMA ReopenWaits ==
  ASSUME IInv, WaitInv, ReopenForRetry
  PROVE  WaitInv'
<1> USE DEF WaitInv
<1>1. /\ UNCHANGED <<task, plan, attempts, intents, signals, clean, consent>>
      /\ log'.events = log.events /\ host.pc # "runs" /\ host'.todo \notin Calling /\ host.ready = 0
  <2>1. log'.events = log.events
    BY Types DEF ReopenForRetry, Logs, IInv
  <2>2. host'.todo \notin Calling /\ host.todo # <<>>
    BY ReopenMoves, KindsOfRuns, KindsOfClaims, KindsOfCalls
  <2>3. host.pc # "runs" /\ host.ready = 0
    BY <2>2 DEF IInv, HistoryInv, PhaseInv, AttemptInv
  <2> QED
    BY <2>1, <2>2, <2>3 DEF ReopenForRetry
<1>2. AskedInv'
  BY ReopenMoves, <1>1 DEF AskedInv, Silent, Launchable
<1>3. ClaimInv'
  BY ReopenMoves, <1>1 DEF ClaimInv
<1>4. RestInv'
  <2>1. SUFFICES ASSUME Resting
                 PROVE  RestInv'
    BY <1>1 DEF RestInv, Resting
  <2>2. Serving
    BY ReopenMoves, KindsOfRuns, KindsOfClaims, KindsOfCalls, Types DEF IInv, HistoryInv, PhaseInv, Serving, Hosts
  <2>3. host.todo = <<"reopen", "enqueue">> /\ host'.todo \in {<<>>, <<"enqueue">>}
    <3>1. host.todo \in {<<>>, <<"complete">>, <<"advance", "complete">>,
                         <<"advance_for_operator", "complete">>, <<"pause", "complete">>,
                         <<"continue">>, <<"reopen", "enqueue">>, <<"enqueue">>}
      BY <2>1, <2>2, RestingPends
    <3>2. \/ host.todo = <<"reopen", "enqueue">> /\ host'.todo \in {<<>>, <<"enqueue">>}
          \/ host.todo = <<"reopen", "advance", "complete">>
          \/ host.todo = <<"reopen", "advance_for_operator", "complete">>
      BY ReopenMoves
    <3> QED
      BY <3>1, <3>2
  <2>4. host.pc = "intents"
    <3>1. host.todo # <<>> /\ host.todo \notin Free \cup {<<"advance", "complete">>}
      BY <2>3 DEF Free
    <3> QED
      BY <2>1, <2>2, <3>1 DEF RestInv, Serving
  <2>5. Unclaimed /\ host'.pc = "intents"
    BY <2>1, <2>3, <2>4, ReopenMoves DEF RestInv, RetryPending, Preparing
  <2> QED
    BY <1>1, <2>1, <2>3, <2>4, <2>5 DEF RestInv, Resting, Silent, Unclaimed, RetryPending, Preparing, Enqueueing, Free, Continuing
<1> QED
  BY <1>2, <1>3, <1>4

LEMMA UpdateWaits ==
  ASSUME IInv, WaitInv, UpdateAttempt
  PROVE  WaitInv'
<1> USE DEF WaitInv
<1>1. /\ UNCHANGED <<task, log, plan, intents, signals, clean, consent>> /\ host.pc # "runs"
      /\ attempts' # <<>> => attempts'[Len(attempts')].status \in {"running", "failed"}
      /\ host'.todo \notin Calling /\ host.ready = 0
  <2>1. host'.todo \notin Calling /\ host.todo # <<>>
    BY UpdateMoves, KindsOfRuns, KindsOfClaims, KindsOfCalls
  <2>2. host.pc # "runs" /\ host.ready = 0
    BY <2>1 DEF IInv, HistoryInv, PhaseInv, AttemptInv
  <2>3. attempts \in Seq(Attempt)
    BY Types DEF IInv, Attempts
  <2>4. \/ attempts' = [attempts EXCEPT ![Len(attempts)] = [status |-> "running", run |-> Len(attempts)]]
        \/ attempts' = [attempts EXCEPT ![Len(attempts)].status = "failed"]
    BY DEF UpdateAttempt
  <2>5. attempts' # <<>> => attempts'[Len(attempts')].status \in {"running", "failed"}
    <3>1. HAVE attempts' # <<>>
    <3>2. attempts # <<>>
      BY <2>4, <3>1, EmptySeq
    <3>3. Len(attempts) \in 1..Len(attempts)
      BY <2>3, <3>2, LenProperties, EmptySeq
    <3>4. attempts[Len(attempts)] \in Attempt
      BY <2>3, <3>3, ElementOfSeq
    <3>5. Len(attempts') = Len(attempts)
      BY <2>3, <2>4
    <3>6. CASE attempts' = [attempts EXCEPT ![Len(attempts)] = [status |-> "running", run |-> Len(attempts)]]
      BY <2>3, <3>3, <3>5, <3>6
    <3>7. CASE attempts' = [attempts EXCEPT ![Len(attempts)].status = "failed"]
      BY <2>3, <3>3, <3>4, <3>5, <3>7 DEF Attempt
    <3> QED
      BY <2>4, <3>6, <3>7
  <2> QED
    BY <2>1, <2>2, <2>5 DEF UpdateAttempt
<1>2. AskedInv'
  BY UpdateMoves, <1>1 DEF AskedInv, Silent, Launchable
<1>3. ClaimInv'
  BY UpdateMoves, <1>1 DEF ClaimInv
<1>4. RestInv'
  BY <1>1 DEF RestInv, Resting
<1> QED
  BY <1>2, <1>3, <1>4

LEMMA HookWaits ==
  ASSUME IInv, WaitInv, Hook
  PROVE  WaitInv'
<1> USE DEF WaitInv
<1>1. /\ UNCHANGED <<task, log, plan, intents, clean, consent>> /\ host.pc # "runs"
      /\ signals' = signals \/ plan.status = "running"
      /\ ~Resting' /\ host'.todo \notin Calling /\ host.ready = 0
  <2>1. host'.todo \notin Calling /\ host.todo \in Hooked /\ host.todo # <<>>
    BY HookMoves, KindsOfRuns, KindsOfClaims, KindsOfCalls
  <2>2. host.pc # "runs" /\ host.ready = 0
    BY <2>1 DEF IInv, HistoryInv, PhaseInv, AttemptInv
  <2>3. /\ Len(attempts) # 0 /\ attempts[Len(attempts)].status = "running"
        /\ task.status \in TaskEnds
    BY <2>1 DEF IInv, HistoryInv, AttemptInv, EndInv
  <2>4. attempts \in Seq(Attempt) /\ Len(attempts) \in 1..Len(attempts)
    BY <2>3, Types, LenProperties DEF IInv, Attempts
  <2>5. attempts[Len(attempts)] \in Attempt
    BY <2>4, ElementOfSeq
  <2>6. attempts' = attempts \/ attempts' = [attempts EXCEPT ![Len(attempts)].status = task.status]
    BY DEF Hook
  <2>7. Len(attempts') = Len(attempts) /\ attempts'[Len(attempts)].status \in TaskEnds \cup {"running"}
    BY <2>3, <2>4, <2>5, <2>6 DEF Attempt
  <2>8. ~Resting'
    BY <2>7 DEF Resting, TaskEnds
  <2>9. signals' = signals \/ plan.status = "running"
    BY DEF Hook, Signalled
  <2> QED
    BY <2>1, <2>2, <2>8, <2>9 DEF Hook
<1>2. AskedInv'
  <2>1. CASE signals' = signals
    BY HookMoves, <1>1, <2>1 DEF AskedInv, Silent, Launchable
  <2>2. CASE plan.status = "running"
    BY HookMoves, <1>1, <2>2 DEF AskedInv, Silent, Launchable
  <2> QED
    BY <1>1, <2>1, <2>2
<1>3. ClaimInv'
  BY HookMoves, <1>1 DEF ClaimInv
<1>4. RestInv'
  BY <1>1 DEF RestInv
<1> QED
  BY <1>2, <1>3, <1>4

LEMMA CompleteWaits ==
  ASSUME IInv, WaitInv, MaybeCompleteRun
  PROVE  WaitInv'
<1> USE DEF WaitInv
<1>1. /\ UNCHANGED <<task, log, attempts, intents, signals, clean, consent>> /\ host.pc # "runs"
      /\ plan' = plan \/ plan'.status = "completed"
      /\ host'.todo \notin Calling /\ host.ready = 0
  <2>1. host'.todo \notin Calling /\ host.todo # <<>>
    BY CompleteMoves, KindsOfRuns, KindsOfClaims, KindsOfCalls
  <2>2. host.pc # "runs" /\ host.ready = 0
    BY <2>1 DEF IInv, HistoryInv, PhaseInv, AttemptInv
  <2>3. plan' = plan \/ plan'.status = "completed"
    BY Types DEF MaybeCompleteRun, IInv, Plans
  <2> QED
    BY <2>1, <2>2, <2>3 DEF MaybeCompleteRun
<1>2. AskedInv'
  <2>1. CASE plan' = plan
    BY CompleteMoves, <1>1, <2>1 DEF AskedInv, Silent, Launchable
  <2>2. CASE plan'.status = "completed"
    BY CompleteMoves, <1>1, <2>2 DEF AskedInv, Silent, Launchable
  <2> QED
    BY <1>1, <2>1, <2>2
<1>3. ClaimInv'
  BY CompleteMoves, <1>1 DEF ClaimInv
<1>4. RestInv'
  <2>1. Resting' => Resting
    BY <1>1 DEF Resting
  <2>2. host.pc # "down" /\ host.pc # "tasks"
    BY CompleteMoves, KindsOfRuns, KindsOfClaims, KindsOfCalls DEF IInv, HistoryInv, PhaseInv
  <2>3. host'.pc = host.pc /\ host.todo = <<"complete">> /\ host'.todo = <<>>
    BY CompleteMoves
  <2>4. host'.pc \in {"up", "closing"} => ~Resting
    BY <2>3 DEF RestInv
  <2>5. host'.todo \in Free /\ host'.todo \notin RetryPending
    BY <2>3 DEF Free, RetryPending, Preparing, Enqueueing
  <2>6. host.pc # "runs" /\ UNCHANGED <<task, signals, intents>>
    BY <1>1
  <2>7. UNCHANGED <<Silent, Unclaimed, Launchable>>
    BY <2>6 DEF Silent, Unclaimed, Launchable
  <2>8. host.pc \notin {"down", "tasks", "runs", "up", "closing"} \/ ~Resting
    BY <2>2, <2>3, <2>4, <2>6
  <2> QED
    BY <2>1, <2>3, <2>5, <2>6, <2>7, <2>8 DEF RestInv
<1> QED
  BY <1>2, <1>3, <1>4

LEMMA InterveneWaits ==
  ASSUME IInv, WaitInv, PauseForIntervention
  PROVE  WaitInv'
<1> USE DEF WaitInv
<1>1. /\ UNCHANGED <<task, log, attempts, intents, clean, consent>> /\ host.pc # "runs"
      /\ \/ UNCHANGED <<plan, signals>> /\ plan.status # "running"
         \/ plan'.status = "awaiting_intervention" /\ Silent'
      /\ host'.todo \notin Calling /\ host.ready = 0
  <2>1. host'.todo \notin Calling /\ host.todo # <<>>
    BY InterveneMoves, KindsOfRuns, KindsOfClaims, KindsOfCalls
  <2>2. host.pc # "runs" /\ host.ready = 0
    BY <2>1 DEF IInv, HistoryInv, PhaseInv, AttemptInv
  <2>3. CASE plan.status = "running"
    BY <2>1, <2>2, <2>3 DEF PauseForIntervention, NoSignals, NoSignal, Silent
  <2>4. CASE plan.status # "running"
    BY <2>1, <2>2, <2>4 DEF PauseForIntervention
  <2> QED
    BY <2>3, <2>4
<1>2. AskedInv'
  <2>1. CASE UNCHANGED <<plan, signals>>
    BY InterveneMoves, <1>1, <2>1 DEF AskedInv, Silent, Launchable
  <2>2. CASE plan'.status = "awaiting_intervention" /\ Silent'
    BY InterveneMoves, <1>1, <2>2 DEF AskedInv, Launchable
  <2> QED
    BY <1>1, <2>1, <2>2
<1>3. ClaimInv'
  BY InterveneMoves, <1>1 DEF ClaimInv
<1>4. RestInv'
  BY <1>1 DEF RestInv, Resting
<1> QED
  BY <1>2, <1>3, <1>4

LEMMA ResumeWaits ==
  ASSUME IInv, WaitInv, Resume
  PROVE  WaitInv'
<1> USE DEF WaitInv
<1>1. /\ UNCHANGED <<task, log, intents, clean>> /\ consent' = TRUE
      /\ plan'.status = "running" \/ UNCHANGED <<plan, signals>>
  BY Types DEF Resume, RetryAsked, Signalled, IInv, Plans
<1>2. AskedInv'
  <2>1. CASE plan'.status = "running"
    BY ResumeMoves, <1>1, <2>1 DEF AskedInv, Launchable
  <2>2. CASE UNCHANGED <<plan, signals>>
    BY ResumeMoves, <1>1, <2>2 DEF AskedInv, Silent, Launchable
  <2> QED
    BY <1>1, <2>1, <2>2
<1>3. ClaimInv'
  BY <1>1 DEF ClaimInv
<1>4. RestInv'
  BY <1>1 DEF RestInv, Resting
<1> QED
  BY <1>2, <1>3, <1>4

LEMMA RetryWaits ==
  ASSUME IInv, WaitInv, RetryStep
  PROVE  WaitInv'
<1> USE DEF WaitInv
<1>1. /\ UNCHANGED <<task, log, intents, clean>> /\ consent' = TRUE
      /\ plan'.status = "running" \/ UNCHANGED <<plan, signals>>
  BY Types DEF RetryStep, RetryAsked, Signalled, IInv, Plans
<1>2. AskedInv'
  <2>1. CASE plan'.status = "running"
    BY RetryMoves, <1>1, <2>1 DEF AskedInv, Launchable
  <2>2. CASE UNCHANGED <<plan, signals>>
    BY RetryMoves, <1>1, <2>2 DEF AskedInv, Silent, Launchable
  <2> QED
    BY <1>1, <2>1, <2>2
<1>3. ClaimInv'
  BY <1>1 DEF ClaimInv
<1>4. RestInv'
  BY <1>1 DEF RestInv, Resting
<1> QED
  BY <1>2, <1>3, <1>4

LEMMA PauseWaits ==
  ASSUME IInv, WaitInv, Pause
  PROVE  WaitInv'
<1> USE DEF WaitInv
<1>1. /\ UNCHANGED <<task, log, attempts, intents, clean, consent>>
      /\ plan'.status # "running" /\ Silent'
  BY Types DEF Pause, NoSignals, NoSignal, Silent, IInv, Plans
<1>2. AskedInv'
  BY PauseMoves, <1>1 DEF AskedInv, Launchable
<1>3. ClaimInv'
  BY PauseMoves, <1>1 DEF ClaimInv
<1>4. RestInv'
  BY <1>1 DEF RestInv, Resting
<1> QED
  BY <1>2, <1>3, <1>4

LEMMA CancelWaits ==
  ASSUME IInv, WaitInv, CancelRun
  PROVE  WaitInv'
<1> USE DEF WaitInv
<1>1. /\ UNCHANGED <<task, log, attempts, intents, clean, consent>>
      /\ plan'.status # "running" /\ Silent'
  BY Types DEF CancelRun, NoSignals, NoSignal, Silent, IInv, Plans
<1>2. AskedInv'
  BY CancelMoves, <1>1 DEF AskedInv, Launchable
<1>3. ClaimInv'
  BY CancelMoves, <1>1 DEF ClaimInv
<1>4. RestInv'
  BY <1>1 DEF RestInv, Resting
<1> QED
  BY <1>2, <1>3, <1>4

LEMMA RetryAbandonedWaits ==
  ASSUME IInv, WaitInv, RetryAbandonedStep
  PROVE  WaitInv'
<1> USE DEF WaitInv
<1>1. /\ UNCHANGED <<task, log, plan, signals, clean>> /\ consent' = TRUE
      /\ intents' = intents \/ log.events # <<>>
  <2>1. intents' = intents \/ log.events # <<>>
    BY DEF RetryAbandonedStep, IInv, HistoryInv, EndInv, TaskEnds, LastIsOutcome
  <2> QED
    BY <2>1 DEF RetryAbandonedStep, RetryAsked
<1>2. AskedInv'
  BY RetryAbandonedMoves, <1>1 DEF AskedInv, Silent, Launchable
<1>3. ClaimInv'
  BY <1>1 DEF ClaimInv
<1>4. RestInv'
  BY <1>1 DEF RestInv, Resting
<1> QED
  BY <1>2, <1>3, <1>4

LEMMA BackoffWaits ==
  ASSUME IInv, WaitInv, BackoffElapses
  PROVE  WaitInv'
<1> USE DEF WaitInv
<1>1. /\ UNCHANGED <<task, log, plan, attempts, intents, clean, consent, host>>
      /\ signals'.run = signals.run /\ signals'.step.on = signals.step.on
      /\ signals'.step.manual = signals.step.manual /\ signals'.step.due = signals.step.on
  <2>1. signals' = [signals EXCEPT !.step.due = signals.step.on]
    BY DEF BackoffElapses
  <2>2. signals'.run = signals.run /\ signals'.step = [signals.step EXCEPT !.due = signals.step.on]
    BY <2>1, Types DEF IInv, Signals
  <2>3. signals.step \in [on : BOOLEAN, manual : BOOLEAN, self : BOOLEAN, due : BOOLEAN]
    BY Types DEF IInv, Signals
  <2>4. /\ signals'.step.on = signals.step.on /\ signals'.step.manual = signals.step.manual
        /\ signals'.step.due = signals.step.on
    BY <2>2, <2>3
  <2> QED
    BY <2>2, <2>4 DEF BackoffElapses
<1>2. AskedInv'
  BY <1>1 DEF AskedInv, Silent, Launchable
<1>3. ClaimInv'
  BY <1>1 DEF ClaimInv
<1>4. RestInv'
  BY <1>1 DEF RestInv, Resting, Silent, Unclaimed, Launchable
<1> QED
  BY <1>2, <1>3, <1>4

LEMMA CrashWaits ==
  ASSUME IInv, WaitInv, Crash
  PROVE  WaitInv'
<1> USE DEF WaitInv
<1>1. /\ UNCHANGED <<task, log, plan, attempts, intents, signals, clean, consent>> /\ host.pc # "down"
      /\ host'.pc = "down" /\ host'.ready = 0 /\ host'.todo \notin Calling
  BY CrashMoves, KindsOfRuns DEF Crash, durable
<1>2. AskedInv'
  BY <1>1 DEF AskedInv, Silent
<1>3. ClaimInv'
  BY <1>1 DEF ClaimInv
<1>4. RestInv'
  BY <1>1 DEF RestInv, AskedInv
<1> QED
  BY <1>2, <1>3, <1>4

LEMMA BeginWaits ==
  ASSUME IInv, WaitInv, BeginShutdown
  PROVE  WaitInv'
<1> USE DEF WaitInv
<1>1. /\ UNCHANGED <<task, log, plan, attempts, intents, signals, clean, consent>> /\ host.pc = "up" /\ host'.pc = "closing"
      /\ host'.ready = host.ready /\ host'.todo = host.todo
  BY BeginMoves DEF BeginShutdown, durable
<1>2. AskedInv'
  BY <1>1 DEF AskedInv, Silent
<1>3. ClaimInv'
  BY <1>1 DEF ClaimInv
<1>4. RestInv'
  BY <1>1 DEF RestInv, Resting, Silent
<1> QED
  BY <1>2, <1>3, <1>4

LEMMA FinishWaits ==
  ASSUME IInv, WaitInv, FinishShutdown
  PROVE  WaitInv'
<1> USE DEF WaitInv
<1>1. /\ UNCHANGED <<task, log, plan, attempts, intents, signals, consent>> /\ host.pc = "closing" /\ host'.pc = "down"
      /\ host'.ready = 0 /\ host'.todo \notin Calling
  BY FinishMoves, KindsOfRuns DEF FinishShutdown
<1>2. AskedInv'
  BY <1>1 DEF AskedInv, Silent
<1>3. ClaimInv'
  BY <1>1 DEF ClaimInv
<1>4. RestInv'
  BY <1>1 DEF RestInv, Resting, Silent
<1> QED
  BY <1>2, <1>3, <1>4

LEMMA BootWaits ==
  ASSUME IInv, WaitInv, Boot
  PROVE  WaitInv'
<1> USE DEF WaitInv
<1>1. /\ UNCHANGED <<task, log, plan, attempts, intents, signals, consent>> /\ clean' = FALSE /\ host.pc = "down" /\ host'.pc = "tasks"
      /\ host'.unclean = ~clean /\ host'.ready = 0 /\ host'.todo \notin Calling
  <2>1. host' = [Off EXCEPT !.pc = "tasks", !.unclean = ~clean]
    BY DEF Boot
  <2>2. host'.unclean = ~clean
    BY <2>1, Zenon DEF Off
  <2> QED
    BY <2>2, BootMoves, KindsOfRuns DEF Boot
<1>2. AskedInv'
  BY <1>1 DEF AskedInv, Silent
<1>3. ClaimInv'
  BY <1>1 DEF ClaimInv
<1>4. RestInv'
  <2>1. Resting' => Resting
    BY <1>1 DEF Resting
  <2>2. CASE clean
    BY <1>1, <2>1, <2>2 DEF RestInv, Silent
  <2>3. CASE ~clean
    BY <1>1, <2>1, <2>3 DEF RestInv
  <2> QED
    BY <2>2, <2>3
<1> QED
  BY <1>2, <1>3, <1>4

LEMMA ReconciledWaits ==
  ASSUME IInv, WaitInv, TasksReconciled
  PROVE  WaitInv'
<1> USE DEF WaitInv
<1>1. /\ UNCHANGED <<task, log, plan, attempts, intents, signals, clean, consent>> /\ host.pc = "tasks" /\ host'.pc = "runs"
      /\ host'.unclean = host.unclean /\ host'.ready = 0 /\ host'.todo \notin Calling
      /\ Launchable => log.events = <<>>
  <2>1. host.ready = 0
    BY ReconciledMoves DEF IInv, HistoryInv, PhaseInv, Serving
  <2>2. Launchable => log.events = <<>>
    BY DEF TasksReconciled, NothingInterrupted, Launchable, TaskEnds, IInv, HistoryInv, EndInv
  <2> QED
    BY <2>1, <2>2, ReconciledMoves, KindsOfRuns DEF TasksReconciled, durable
<1>2. AskedInv'
  BY <1>1 DEF AskedInv, Silent, Launchable
<1>3. ClaimInv'
  BY <1>1 DEF ClaimInv
<1>4. RestInv'
  BY <1>1 DEF RestInv, Resting, Silent
<1> QED
  BY <1>2, <1>3, <1>4

LEMMA SweepWaits ==
  ASSUME IInv, WaitInv, SweepRun
  PROVE  WaitInv'
<1> USE DEF WaitInv
<1>1. /\ UNCHANGED <<task, log, intents, clean>> /\ plan'.status = "awaiting_intervention" /\ Silent'
      /\ host.pc = "runs" /\ host'.pc = "intents" /\ host'.ready = 0 /\ host'.todo \notin Calling
  BY SweepMoves, KindsOfRuns DEF SweepRun, SignalsAfterSweep, NoSignals, NoSignal, Silent
<1>2. AskedInv'
  BY <1>1 DEF AskedInv
<1>3. ClaimInv'
  BY <1>1 DEF ClaimInv
<1>4. RestInv'
  BY <1>1 DEF RestInv, Resting
<1> QED
  BY <1>2, <1>3, <1>4

LEMMA ContinueWaits ==
  ASSUME IInv, WaitInv, ContinueRun
  PROVE  WaitInv'
<1> USE DEF WaitInv
<1>1. /\ UNCHANGED <<task, log, plan, attempts, intents, clean, consent>>
      /\ signals'.run = TRUE /\ signals'.step = signals.step /\ plan.status = "running"
      /\ host.pc = "runs" /\ ~host.unclean /\ host'.pc = "draining"
      /\ host'.ready = 0 /\ host'.todo = <<>>
  <2>1. host.ready = 0
    BY DEF ContinueRun, IInv, HistoryInv, PhaseInv, Serving
  <2>2. signals'.run = TRUE /\ signals'.step = signals.step
    BY Types DEF ContinueRun, IInv, Signals
  <2> QED
    BY <2>1, <2>2, ContinueMoves DEF ContinueRun
<1>2. AskedInv'
  BY <1>1 DEF AskedInv
<1>3. ClaimInv'
  BY <1>1, KindsOfRuns DEF ClaimInv
<1>4. RestInv'
  <2>1. Resting' => Resting
    BY <1>1 DEF Resting
  <2>2. Resting => Silent /\ ~consent
    BY <1>1 DEF RestInv, Resting
  <2>3. Resting => ~Launchable
    BY <1>1, <2>2 DEF AskedInv
  <2>4. <<>> \in Free
    BY DEF Free
  <2> QED
    BY <1>1, <2>1, <2>2, <2>3, <2>4 DEF RestInv, Silent, Launchable
<1> QED
  BY <1>2, <1>3, <1>4

LEMMA RecoveredWaits ==
  ASSUME IInv, WaitInv, RunsRecovered
  PROVE  WaitInv'
<1> USE DEF WaitInv
<1>1. /\ UNCHANGED <<task, log, plan, attempts, intents, signals, clean, consent>> /\ host.pc \in {"runs", "draining"} /\ host'.pc = "intents"
      /\ host'.ready = 0 /\ host'.todo = <<>>
      /\ Resting => host.pc = "draining" /\ ~signals.run
  <2>1. host.ready = 0
    BY DEF RunsRecovered, IInv, HistoryInv, PhaseInv, Serving
  <2>2. Resting => host.pc = "draining" /\ ~signals.run
    BY DEF RunsRecovered, Resting, Quiescent
  <2> QED
    BY <2>1, <2>2, RecoveredMoves DEF RunsRecovered, durable
<1>2. AskedInv'
  BY <1>1 DEF AskedInv, Silent
<1>3. ClaimInv'
  BY <1>1, KindsOfRuns DEF ClaimInv
<1>4. RestInv'
  <2>1. <<>> \in Free /\ <<>> \notin RetryPending
    BY DEF Free, RetryPending, Preparing, Enqueueing
  <2>2. Resting' => Resting
    BY <1>1 DEF Resting
  <2>3. Resting => ~signals.run /\ ~signals.step.on
    BY <1>1 DEF RestInv
  <2> QED
    BY <1>1, <2>1, <2>2, <2>3 DEF RestInv
<1> QED
  BY <1>2, <1>3, <1>4

LEMMA ArmWaits ==
  ASSUME IInv, WaitInv, Arm
  PROVE  WaitInv'
<1> USE DEF WaitInv
<1>1. /\ UNCHANGED <<task, log, plan, attempts, intents, signals, clean, consent>> /\ host.pc = "intents" /\ host'.pc = "up"
      /\ host'.ready = 0 /\ host'.todo = <<>>
      /\ Resting => Silent
  <2>1. Resting => Quiescent
    BY DEF Arm, IntentsTurn, Resting
  <2>2. Resting => Silent
    BY <2>1, ArmMoves DEF Quiescent, RestInv, Silent
  <2> QED
    BY <2>2, ArmMoves DEF Arm, IntentsTurn, durable
<1>2. AskedInv'
  BY <1>1 DEF AskedInv, Silent
<1>3. ClaimInv'
  BY <1>1, KindsOfRuns DEF ClaimInv
<1>4. RestInv'
  BY <1>1 DEF RestInv, Resting, Silent
<1> QED
  BY <1>2, <1>3, <1>4

LEMMA IntentWaits ==
  ASSUME IInv, WaitInv, NextIntent
  PROVE  WaitInv'
<1> USE DEF WaitInv
<1>1. /\ UNCHANGED <<task, log, attempts, intents, signals, clean, consent>>
      /\ host.pc = "intents" /\ host'.pc = "intents" /\ host'.ready = 0
      /\ host'.todo \in {<<>>, <<"continue">>} /\ intents # <<>>
      /\ Resting' => Silent /\ host'.todo \in {<<>>, <<"continue">>}
      /\ plan' = plan \/ plan'.status = "running"
  <2>1. intents # <<>>
    BY IntentMoves
  <2>2. plan' = plan \/ plan'.status = "running"
    BY Types DEF NextIntent, IInv, Plans
  <2>3. CASE plan.status = "running"
    <3>1. Resting' => Resting
      BY <2>3 DEF NextIntent, Resting
    <3>2. Quiescent
      BY <2>3 DEF NextIntent, IntentsTurn
    <3>3. Resting => Silent
      BY <3>2, IntentMoves DEF Quiescent, RestInv, Silent
    <3> QED
      BY <2>1, <2>2, <3>1, <3>3, IntentMoves DEF NextIntent
  <2>4. CASE plan.status # "running"
    <3>1. Resting' => plan.status = "awaiting_intervention"
      BY <2>4 DEF NextIntent, Resting
    <3>2. Resting' => Silent
      BY <3>1 DEF AskedInv
    <3> QED
      BY <2>1, <2>2, <3>2, IntentMoves DEF NextIntent
  <2> QED
    BY <2>3, <2>4
<1>2. AskedInv'
  <2>1. CASE plan' = plan
    BY <1>1, <2>1 DEF AskedInv, Silent
  <2>2. CASE plan'.status = "running"
    BY <1>1, <2>2 DEF AskedInv
  <2> QED
    BY <1>1, <2>1, <2>2
<1>3. ClaimInv'
  <2>1. host'.todo \notin Calling
    BY <1>1, KindsOfRuns, KindsOfClaims, KindsOfCalls
  <2> QED
    BY <1>1, <2>1 DEF ClaimInv
<1>4. RestInv'
  <2>1. /\ host'.todo \in Free \cup Continuing /\ host'.todo \notin RetryPending
    BY <1>1 DEF Free, Continuing, RetryPending, Preparing, Enqueueing
  <2>2. Resting' => ~signals'.run /\ ~signals'.step.on
    BY <1>1 DEF Silent
  <2> QED
    BY <1>1, <2>1, <2>2 DEF RestInv
<1> QED
  BY <1>2, <1>3, <1>4

LEMMA FailsWaits ==
  ASSUME IInv, WaitInv, LaunchFails
  PROVE  WaitInv'
<1> USE DEF WaitInv
<1>1. /\ UNCHANGED <<task, log, plan, attempts, intents, clean, consent>> /\ ~Resting
      /\ signals'.run = signals.run /\ signals'.step.on = FALSE /\ host.pc # "runs"
  <2>1. ~Resting
    BY AbandonedIsIdle DEF Resting, LaunchFails
  <2>2. signals'.run = signals.run /\ signals'.step = NoSignal
    BY Types DEF LaunchFails, IInv, Signals
  <2> QED
    BY <2>1, <2>2 DEF LaunchFails, NoSignal, Serving
<1>2. AskedInv'
  BY FailsMoves, <1>1 DEF AskedInv, Silent, Launchable
<1>3. ClaimInv'
  <2>1. host'.todo \notin Calling /\ host'.ready = 0
    BY FailsMoves, KindsOfCalls
  <2> QED
    BY <2>1 DEF ClaimInv
<1>4. RestInv'
  BY <1>1 DEF RestInv, Resting
<1> QED
  BY <1>2, <1>3, <1>4

LEMMA TakeWaits ==
  ASSUME IInv, WaitInv, TakeSignal
  PROVE  WaitInv'
<1> USE DEF WaitInv
<1>1. /\ UNCHANGED <<task, log, plan, attempts, intents, clean, consent>>
      /\ plan.status = "running" /\ Serving /\ host'.pc = host.pc
      /\ host'.ready = 0 /\ host'.todo \notin Calling
  BY TakeMoves, KindsOfClaims, KindsOfRuns DEF TakeSignal
<1>2. AskedInv'
  BY <1>1 DEF AskedInv, Serving
<1>3. ClaimInv'
  BY <1>1 DEF ClaimInv
<1>4. RestInv'
  <2>1. SUFFICES ASSUME Resting
                 PROVE  RestInv'
    BY <1>1 DEF RestInv, Resting
  <2>2. host.pc \notin {"up", "closing"}
    BY <2>1 DEF RestInv, Silent, TakeSignal
  <2>3. CASE host.pc = "draining"
    <3>1. signals.run /\ signals' = [signals EXCEPT !.run = FALSE] /\ ~signals.step.on
      BY <2>1, <2>3 DEF RestInv, TakeSignal
    <3>2. signals'.step = signals.step
      BY <3>1, Types DEF IInv, Signals
    <3>3. host'.todo = <<"advance", "complete">>
      <4>1. host' = [host EXCEPT !.todo = <<"advance", "complete">>]
        BY <3>1 DEF TakeSignal
      <4> QED
        BY <4>1, Types DEF IInv, Hosts
    <3>4. ~Launchable'
      BY <2>1, <2>3, <1>1 DEF RestInv, Launchable
    <3> QED
      BY <1>1, <2>3, <3>1, <3>2, <3>3, <3>4 DEF RestInv
  <2>4. CASE host.pc = "intents"
    <3>1. /\ ~signals.run /\ signals.step.on /\ signals.step.manual
          /\ signals' = [signals EXCEPT !.step = NoSignal]
      BY <2>1, <2>4 DEF RestInv, TakeSignal
    <3>2. ~signals'.run /\ signals'.step = NoSignal
      BY <3>1, Types DEF IInv, Signals
    <3>3. ~signals'.step.on
      BY <3>2 DEF NoSignal
    <3>4. Unclaimed'
      BY <2>1, <2>4, <3>1, <1>1 DEF RestInv, Unclaimed
    <3>5. host'.todo \in {<<"complete">>, <<"advance_for_operator", "complete">>}
      <4>1. /\ <<"advance_for_operator">> \o <<"complete">> = <<"advance_for_operator", "complete">>
            /\ <<"complete">> \in Seq(Transactions)
        <5>1. "advance_for_operator" \in Transactions /\ "complete" \in Transactions
          BY DEF Transactions
        <5>2. <<"complete">> \in Seq(Transactions)
          BY <5>1
        <5>3. <<"advance_for_operator">> \o <<"complete">> = <<"advance_for_operator", "complete">>
          BY <5>1, Fronts
        <5> QED
          BY <5>2, <5>3
      <4>2. <<>> \o <<"complete">> = <<"complete">>
        BY <4>1, ConcatEmptySeq
      <4>3. \E todo \in {<<"complete">>, <<"advance_for_operator", "complete">>} :
              host' = [host EXCEPT !.todo = todo]
        BY <3>1, <4>1, <4>2 DEF TakeSignal
      <4> QED
        BY <4>3, Types DEF IInv, Hosts
    <3>6. host'.todo \in Free \cup RetryPending
      BY <3>5 DEF Free, RetryPending
    <3> QED
      BY <1>1, <2>4, <3>2, <3>3, <3>4, <3>6 DEF RestInv
  <2> QED
    BY <1>1, <2>2, <2>3, <2>4 DEF Serving
<1> QED
  BY <1>2, <1>3, <1>4

LEMMA EnqueueWaits ==
  ASSUME IInv, WaitInv, EnqueueManualRetry
  PROVE  WaitInv'
<1> USE DEF WaitInv
<1>1. /\ UNCHANGED <<task, log, plan, attempts, intents, clean, consent>> /\ host.pc # "runs"
      /\ host'.pc = host.pc /\ host'.todo = <<>> /\ host.todo = <<"enqueue">>
      /\ host'.todo \notin Calling /\ host.ready = host'.ready
      /\ plan.status = "running" \/ signals' = signals
  <2>1. host.pc # "runs"
    BY EnqueueMoves, KindsOfCalls, KindsOfRuns DEF IInv, HistoryInv, PhaseInv
  <2> QED
    BY <2>1, EnqueueMoves, KindsOfRuns DEF EnqueueManualRetry, Signalled
<1>2. AskedInv'
  <2>1. CASE signals' = signals
    BY <1>1, <2>1 DEF AskedInv, Silent
  <2>2. CASE plan.status = "running"
    BY <1>1, <2>2 DEF AskedInv
  <2> QED
    BY <1>1, <2>1, <2>2
<1>3. ClaimInv'
  BY <1>1 DEF ClaimInv
<1>4. RestInv'
  <2>1. SUFFICES ASSUME Resting
                 PROVE  RestInv'
    BY <1>1 DEF RestInv, Resting
  <2>2. Serving
    BY <1>1, KindsOfCalls, Types DEF IInv, HistoryInv, PhaseInv, Serving, Hosts
  <2>3. host.todo \in RetryPending
    BY <1>1 DEF RetryPending, Enqueueing
  <2>4. host.todo # <<>> /\ host.todo \notin Free \cup {<<"advance", "complete">>}
    BY <1>1 DEF Free
  <2>5. host.pc = "intents" /\ Unclaimed /\ ~signals.run
        /\ (signals.step.on => signals.step.manual)
    BY <2>1, <2>2, <2>3, <2>4 DEF RestInv, Serving
  <2>6. signals.step \in [on : BOOLEAN, manual : BOOLEAN, self : BOOLEAN, due : BOOLEAN]
    BY Types DEF IInv, Signals
  <2>7. signals' = [signals EXCEPT !.step =
                      [on |-> TRUE, manual |-> IF signals.step.on THEN signals.step.manual ELSE TRUE,
                       self |-> TRUE, due |-> TRUE]]
    BY <2>1, <2>6, Types DEF EnqueueManualRetry, Signalled, Resting, IInv, Signals
  <2>8. ~signals'.run /\ signals'.step.manual /\ signals'.step.due
    BY <2>5, <2>7, Types DEF IInv, Signals
  <2>9. Unclaimed' /\ host'.todo \in Free
    BY <1>1, <2>5 DEF Unclaimed, Free
  <2> QED
    BY <1>1, <2>5, <2>8, <2>9 DEF RestInv
<1> QED
  BY <1>2, <1>3, <1>4

\* The intent that is carried on, when it leads to a launch.
LEMMA CarriesTheLatest ==
  ASSUME IInv, ContinueIntent, host'.todo \in Calling
  PROVE  /\ ~Resting
         /\ \E i \in 1..Len(intents) : intents[i].new = Len(attempts)
<1> USE DEF IInv, HistoryInv
<1> DEFINE intent == intents[host.intent]
<1>1. host.intent \in 1..Len(intents) /\ host.todo # <<>>
  BY CarryMoves, KindsOfCalls, KindsOfRuns DEF PhaseInv
<1>2. /\ intent.new # 0 /\ attempts[intent.new] = [status |-> "claimed", run |-> 0]
  <2>1. \/ Abandon
        \/ intent.new # 0 /\ attempts[intent.new] = [status |-> "claimed", run |-> 0]
        \/ Done(<<"reopen", "enqueue">>) \/ Done(<<"enqueue">>)
    BY DEF ContinueIntent
  <2>2. CASE Abandon
    <3>1. host'.todo = <<>>
      BY <2>2, Types DEF Abandon, Hosts
    <3> QED
      BY <3>1, KindsOfRuns
  <2>3. CASE Done(<<"reopen", "enqueue">>)
    <3>1. <<"reopen", "enqueue">> \in Seq(Transactions) /\ <<"reopen", "enqueue">> \o <<>> = <<"reopen", "enqueue">>
      <4>1. "reopen" \in Transactions /\ "enqueue" \in Transactions
        BY DEF Transactions
      <4> QED
        BY <4>1, Fronts
    <3>2. host'.todo = <<"reopen", "enqueue">>
      BY <1>1, <2>3, <3>1, RestOf, CarryMoves, TailOf1
    <3> QED
      BY <3>2, KindsOfCalls
  <2>4. CASE Done(<<"enqueue">>)
    <3>1. <<"enqueue">> \in Seq(Transactions) /\ <<"enqueue">> \o <<>> = <<"enqueue">>
      <4>1. "enqueue" \in Transactions
        BY DEF Transactions
      <4> QED
        BY <4>1, Fronts
    <3>2. host'.todo = <<"enqueue">>
      BY <1>1, <2>4, <3>1, RestOf, CarryMoves, TailOf1
    <3> QED
      BY <3>2, KindsOfCalls
  <2> QED
    BY <2>1, <2>2, <2>3, <2>4
<1>3. intent.new \in 1..Len(attempts)
  BY <1>1, <1>2, IntentsName
<1>4. attempts[intent.new].status \in Occupied
  BY <1>2 DEF Occupied
<1>5. intent.new = Len(attempts)
  BY <1>3, <1>4 DEF AttemptInv
<1>6. ~Resting
  BY <1>3, <1>4, AbandonedIsIdle DEF Resting
<1> QED
  BY <1>1, <1>5, <1>6

LEMMA CarryWaits ==
  ASSUME IInv, WaitInv, ContinueIntent
  PROVE  WaitInv'
<1> USE DEF WaitInv
<1>1. /\ UNCHANGED <<log, plan, attempts, intents, signals, clean, consent>> /\ host.pc # "runs"
      /\ host'.pc = host.pc /\ host.todo = <<"continue">> /\ host'.ready = host.ready
      /\ host.todo \notin Calling
  <2>1. host.pc # "runs"
    BY CarryMoves DEF Serving
  <2> QED
    BY <2>1, CarryMoves, KindsOfCalls DEF ContinueIntent
<1>2. AskedInv'
  BY <1>1, CarryMoves DEF AskedInv, Silent
<1>3. ClaimInv'
  <2>1. CASE host'.todo \in Calling
    BY <1>1, <2>1, CarriesTheLatest DEF ClaimInv
  <2>2. CASE host'.todo \notin Calling
    BY <1>1, <2>2 DEF ClaimInv
  <2> QED
    BY <2>1, <2>2
<1>4. RestInv'
  <2>1. SUFFICES ASSUME Resting
                 PROVE  RestInv'
    BY <1>1 DEF RestInv, Resting
  <2>2. host.todo \notin Free \cup {<<"advance", "complete">>} /\ host.todo # <<>>
    BY <1>1 DEF Free
  <2>3. host.pc = "intents" /\ ~signals.run
    BY <2>1, <2>2, CarryMoves DEF RestInv, Serving
  <2>4. host'.todo \in {<<>>, <<"reopen", "enqueue">>, <<"enqueue">>}
    <3>1. host'.todo \notin Calling
      BY <2>1, CarriesTheLatest
    <3>2. <<"launch">> \in Calling
      BY DEF Calling
    <3> QED
      BY <3>1, <3>2, CarryMoves
  <2>5. host'.todo # <<>> => Unclaimed
    <3>1. HAVE host'.todo # <<>>
    <3>2. host.intent \in 1..Len(intents)
      BY CarryMoves, KindsOfCalls DEF IInv, HistoryInv, PhaseInv
    <3>3. intents[host.intent].new = 0
      <4>1. CASE Abandon
        <5>1. host'.todo = <<>>
          BY <4>1, Types DEF IInv, Abandon, Hosts
        <5> QED
          BY <3>1, <5>1
      <4>2. CASE Done(<<"launch">>)
        <5>1. <<"launch">> \in Seq(Transactions) /\ <<"launch">> \o <<>> = <<"launch">>
          <6>1. "launch" \in Transactions
            BY DEF Transactions
          <6> QED
            BY <6>1, Fronts
        <5>2. host'.todo = <<"launch">>
          BY <4>2, <5>1, RestOf, CarryMoves, TailOf1, <2>2 DEF IInv
        <5> QED
          BY <5>2, <2>4
      <4> QED
        BY <4>1, <4>2 DEF ContinueIntent
    <3> QED
      BY <3>2, <3>3 DEF Unclaimed
  <2>6. host'.todo \in Free \cup RetryPending
    BY <2>4 DEF Free, RetryPending, Preparing, Enqueueing
  <2>7. signals.step.on \/ host'.todo \in RetryPending => Unclaimed
    <3>1. <<>> \notin RetryPending
      BY DEF RetryPending, Preparing, Enqueueing
    <3> QED
      BY <2>1, <2>3, <2>5, <3>1 DEF RestInv
  <2> HIDE DEF Resting
  <2> QED
    BY <1>1, <2>1, <2>3, <2>6, <2>7 DEF RestInv, Unclaimed
<1> QED
  BY <1>2, <1>3, <1>4

\* The operator's claim takes the intent that is still to be claimed.
LEMMA OperatorClaims ==
  ASSUME IInv, AdvanceFor("advance_for_operator"), Launchable, Unclaimed,
         Len(attempts') = Len(attempts) + 1,
         \A n \in 1..Len(attempts) : attempts[n].status \notin Occupied
  PROVE  \E i \in 1..Len(intents') : intents'[i].new = Len(attempts')
<1> USE DEF IInv, HistoryInv
<1>1. PICK k \in 1..Len(intents) : intents[k].new = 0
  BY DEF Unclaimed
<1>2. \A i \in Recoverable : i \in 1..Len(intents) /\ intents[i].new = 0
  BY IntentsName DEF Recoverable, Occupied
<1>3. k \in Recoverable
  BY <1>1 DEF Recoverable, IntentInv
<1>4. \A i \in Recoverable : i = k
  BY <1>1, <1>2 DEF IntentInv
<1>5. Newest(Recoverable) = k
  <2>1. k \in Nat /\ k <= k
    BY IntentsName
  <2>2. Newest(Recoverable) \in Recoverable
    BY <1>3, <1>4, <2>1 DEF Newest
  <2> QED
    BY <1>4, <2>2
<1>6. attempts' # attempts
  BY IntentsName
<1>7. intents' = [intents EXCEPT ![k].new = IF @ = 0 THEN Len(attempts) + 1 ELSE @]
  BY <1>3, <1>5, <1>6 DEF AdvanceFor
<1>8. intents[k] \in Intent /\ intents \in Seq(Intent)
  BY <1>1, Types, ElementOfSeq
<1>9. intents'[k].new = Len(attempts) + 1 /\ Len(intents') = Len(intents)
  BY <1>1, <1>7, <1>8 DEF Intent
<1> QED
  BY <1>1, <1>9

\* A step of a run that is resting is advanced for its operator, or not at all.
LEMMA RestingAdvances ==
  ASSUME IInv, RestInv, Resting, NEW name \in {"advance", "advance_for_operator"}, AdvanceFor(name)
  PROVE  \/ host.pc = "draining" /\ ~Launchable
         \/ host.pc = "intents" /\ name = "advance_for_operator" /\ Unclaimed
<1>1. host.todo = <<name, "complete">> /\ Serving
  BY AdvanceMoves
<1>2. host.todo # <<>>
  BY <1>1
<1>3. host.pc \in {"draining", "intents"}
  BY <1>1, <1>2 DEF RestInv, Serving
<1>4. host.pc = "intents" => name = "advance_for_operator" /\ Unclaimed
  <2>1. HAVE host.pc = "intents"
  <2>2. host.todo \in Free \cup {<<"pause", "complete">>} \cup Continuing \cup RetryPending
    BY <2>1 DEF RestInv
  <2>3. host.todo \in RetryPending
    BY <1>1, <2>2 DEF Free, Continuing
  <2>4. name = "advance_for_operator"
    BY <1>1, <2>3 DEF RetryPending, Preparing, Enqueueing
  <2> QED
    BY <2>1, <2>3, <2>4 DEF RestInv
<1> QED
  BY <1>3, <1>4 DEF RestInv

LEMMA AdvanceWaits ==
  ASSUME IInv, WaitInv, NEW name \in {"advance", "advance_for_operator"}, AdvanceFor(name)
  PROVE  WaitInv'
<1> USE DEF WaitInv
<1>1. /\ UNCHANGED <<log, plan, signals, clean, consent>> /\ host'.pc = host.pc /\ Serving
      /\ plan.status = "running" /\ host'.ready = 0 /\ Len(intents') = Len(intents)
  <2>1. Len(intents') = Len(intents)
    BY AdvanceChanges
  <2> QED
    BY <2>1, AdvanceMoves DEF AdvanceFor, IInv, HistoryInv, PhaseInv
<1>2. AskedInv'
  <2>1. intents' = <<>> <=> intents = <<>>
    <3>1. intents \in Seq(Intent) /\ intents' \in Seq(Intent)
      <4>1. IInv'
        BY AdvanceKeeps
      <4> QED
        BY <4>1, Types, TypesNext DEF IInv
    <3> QED
      BY <1>1, <3>1, EmptySeq
  <2> QED
    BY <1>1, <2>1 DEF AskedInv, Serving
<1>3. CASE UNCHANGED attempts /\ host'.todo = <<"complete">> /\ UNCHANGED <<task, intents>>
  <2>1. host'.todo \notin Calling /\ host'.todo \in Free /\ host'.todo \notin RetryPending
    BY <1>3, KindsOfClaims DEF RetryPending, Preparing, Enqueueing, Free
  <2>2. Resting' => Resting
    BY <1>1, <1>3 DEF Resting
  <2>3. Resting => host.pc \in {"draining", "intents"}
    BY RestingAdvances
  <2>4. UNCHANGED <<Launchable, Unclaimed>>
    BY <1>3 DEF Launchable, Unclaimed
  <2>5. ClaimInv'
    BY <1>1, <2>1 DEF ClaimInv
  <2>6. RestInv'
    BY <1>1, <2>1, <2>2, <2>3, <2>4 DEF RestInv
  <2> QED
    BY <1>2, <2>5, <2>6
<1>4. CASE Latest.status = "failed" /\ UNCHANGED attempts /\ host'.todo = <<"reopen", name, "complete">>
  <2>1. host'.todo \notin Calling
    BY <1>4, KindsOfClaims
  <2>2. ~Resting'
    BY <1>4 DEF Resting, Latest
  <2> QED
    BY <1>1, <1>2, <2>1, <2>2 DEF ClaimInv, RestInv
<1>5. CASE Launchable /\ UNCHANGED <<attempts, intents>> /\ host'.todo = <<"pause", "complete">>
  <2>1. host'.todo \notin Calling /\ host'.todo \notin RetryPending
    BY <1>5, KindsOfClaims DEF RetryPending, Preparing, Enqueueing
  <2>2. Resting' => Resting
    BY <1>1, <1>5 DEF Resting
  <2>3. Resting => host.pc = "intents"
    BY <1>5, RestingAdvances
  <2>4. UNCHANGED Unclaimed
    BY <1>5 DEF Unclaimed
  <2>5. ClaimInv'
    BY <1>1, <2>1 DEF ClaimInv
  <2>6. RestInv'
    BY <1>1, <1>5, <2>1, <2>2, <2>3, <2>4 DEF RestInv
  <2> QED
    BY <1>2, <2>5, <2>6
<1>6. CASE /\ Launchable /\ Len(attempts) \in Nat /\ Len(attempts') = Len(attempts) + 1
           /\ \A n \in 1..Len(attempts) :
                attempts'[n] = attempts[n] /\ attempts[n].status \notin Occupied
           /\ attempts'[Len(attempts) + 1].status = "claimed"
  <2>1. ~Resting'
    BY <1>6 DEF Resting
  <2>2. ClaimInv'
    <3>1. SUFFICES ASSUME ~consent, Len(attempts) # 0, attempts[Len(attempts)].status = "abandoned"
                   PROVE  \E i \in 1..Len(intents') : intents'[i].new = Len(attempts')
      BY <1>1, <1>6 DEF ClaimInv
    <3>2. attempts # <<>>
      BY <3>1
    <3>3. Resting
      BY <1>1, <3>1, <3>2 DEF Resting
    <3>4. name = "advance_for_operator" /\ Unclaimed
      BY <1>6, <3>3, RestingAdvances
    <3> QED
      BY <1>6, <3>4, OperatorClaims
  <2> QED
    BY <1>2, <2>1, <2>2 DEF RestInv
<1> QED
  BY <1>3, <1>4, <1>5, <1>6, AdvanceChanges

\* The run has just been started, by its operator.
LEMMA BeginsAsked == Init => WaitInv
<1> SUFFICES ASSUME Init PROVE WaitInv
  OBVIOUS
<1>1. /\ host.pc = "up" /\ host.todo = <<>> /\ host.ready = 0 /\ intents = <<>>
      /\ plan.status = "running" /\ clean = FALSE /\ consent = TRUE
  BY DEF Init, Off
<1>2. host.todo \notin Calling
  BY <1>1, KindsOfRuns
<1> QED
  BY <1>1, <1>2 DEF WaitInv, AskedInv, ClaimInv, RestInv, Resting

\* Every transaction, crash and request keeps it.
LEMMA StepWaits == IInv /\ WaitInv /\ [Next]_vars => WaitInv'
<1> SUFFICES ASSUME IInv, WaitInv, [Next]_vars PROVE WaitInv'
  OBVIOUS
<1>1. CASE RecordEventMeta
  BY <1>1, MetaWaits
<1>2. CASE StartRunning
  BY <1>2, RunningWaits
<1>3. CASE SetCompleted
  BY <1>3, OutcomeWaits
<1>4. CASE UpdateStatus
  BY <1>4, StatusWaits
<1>5. CASE ReopenForRetry
  BY <1>5, ReopenWaits
<1>6. CASE Advance
  <2>1. CASE AdvanceFor("advance")
    BY <2>1, AdvanceWaits
  <2>2. CASE AdvanceFor("advance_for_operator")
    BY <2>2, AdvanceWaits
  <2> QED
    BY <1>6, <2>1, <2>2 DEF Advance
<1>7. CASE CallStartTask
  BY <1>7, CallWaits
<1>8. CASE UpdateAttempt
  BY <1>8, UpdateWaits
<1>9. CASE UpsertStep
  BY <1>9, UpsertWaits
<1>10. CASE MaybeCompleteRun
  BY <1>10, CompleteWaits
<1>11. CASE PauseForIntervention
  BY <1>11, InterveneWaits
<1>12. CASE Hook
  BY <1>12, HookWaits
<1>13. CASE ContinueIntent
  BY <1>13, CarryWaits
<1>14. CASE EnqueueManualRetry
  BY <1>14, EnqueueWaits
<1>15. CASE Boot
  BY <1>15, BootWaits
<1>16. CASE CatchUp
  BY <1>16, CatchUpWaits
<1>17. CASE ReplayOutcome
  BY <1>17, ReplayWaits
<1>18. CASE RecordInterruptedRun
  BY <1>18, InterruptedWaits
<1>19. CASE TasksReconciled
  BY <1>19, ReconciledWaits
<1>20. CASE SweepRun
  BY <1>20, SweepWaits
<1>21. CASE ContinueRun
  BY <1>21, ContinueWaits
<1>22. CASE RunsRecovered
  BY <1>22, RecoveredWaits
<1>23. CASE NextIntent
  BY <1>23, IntentWaits
<1>24. CASE Arm
  BY <1>24, ArmWaits
<1>25. CASE Ending
  <2>1. PICK type \in Outcomes \ {"restart"} : Emit(type)
    BY <1>25 DEF Ending
  <2>2. type \in Outcomes /\ type # "started"
    BY DEF Outcomes
  <2> QED
    BY <2>1, <2>2, EndedWaits
<1>26. CASE Emit("started")
  BY <1>26, StartedWaits
<1>27. CASE TakeSignal
  BY <1>27, TakeWaits
<1>28. CASE Launch
  BY <1>28, LaunchWaits
<1>29. CASE LaunchFails
  BY <1>29, FailsWaits
<1>30. CASE BackoffElapses
  BY <1>30, BackoffWaits
<1>31. CASE Resume
  BY <1>31, ResumeWaits
<1>32. CASE Pause
  BY <1>32, PauseWaits
<1>33. CASE CancelRun
  BY <1>33, CancelWaits
<1>34. CASE RetryStep
  BY <1>34, RetryWaits
<1>35. CASE RetryAbandonedStep
  BY <1>35, RetryAbandonedWaits
<1>36. CASE Crash
  BY <1>36, CrashWaits
<1>37. CASE BeginShutdown
  BY <1>37, BeginWaits
<1>38. CASE FinishShutdown
  BY <1>38, FinishWaits
<1>39. CASE UNCHANGED vars
  <2>1. /\ task' = task /\ log' = log /\ plan' = plan /\ attempts' = attempts
        /\ intents' = intents /\ signals' = signals /\ clean' = clean /\ host' = host
        /\ consent' = consent
    BY <1>39 DEF vars
  <2>2. UNCHANGED <<Resting, Silent, Unclaimed, Launchable>>
    BY <2>1 DEF Resting, Silent, Unclaimed, Launchable
  <2> QED
    BY <2>1, <2>2 DEF WaitInv, AskedInv, ClaimInv, RestInv
<1> QED
  BY <1>1, <1>2, <1>3, <1>4, <1>5, <1>6, <1>7, <1>8, <1>9, <1>10, <1>11, <1>12, <1>13, <1>14, <1>15, <1>16, <1>17, <1>18, <1>19, <1>20, <1>21, <1>22, <1>23, <1>24, <1>25, <1>26, <1>27, <1>28, <1>29, <1>30, <1>31, <1>32, <1>33, <1>34, <1>35, <1>36, <1>37, <1>38, <1>39 DEF Next, Commit, Recover

\* Only a launch brings an execution into the process.
LEMMA OnlyLaunchLaunches == IInv /\ [Next]_vars /\ Launches => Launch
<1> SUFFICES ASSUME IInv, [Next]_vars PROVE Launch \/ host'.agent \in {0, host.agent}
  BY DEF Launches
<1>1. CASE RecordEventMeta
  BY <1>1, MetaMoves
<1>2. CASE StartRunning
  BY <1>2, RunningMoves
<1>3. CASE SetCompleted
  BY <1>3, OutcomeMoves
<1>4. CASE UpdateStatus
  BY <1>4, StatusMoves
<1>5. CASE ReopenForRetry
  BY <1>5, ReopenMoves
<1>6. CASE Advance
  <2>1. CASE AdvanceFor("advance")
    BY <2>1, AdvanceMoves
  <2>2. CASE AdvanceFor("advance_for_operator")
    BY <2>2, AdvanceMoves
  <2> QED
    BY <1>6, <2>1, <2>2 DEF Advance
<1>7. CASE CallStartTask
  BY <1>7, CallMoves
<1>8. CASE UpdateAttempt
  BY <1>8, UpdateMoves
<1>9. CASE UpsertStep
  BY <1>9, UpsertMoves
<1>10. CASE MaybeCompleteRun
  BY <1>10, CompleteMoves
<1>11. CASE PauseForIntervention
  BY <1>11, InterveneMoves
<1>12. CASE Hook
  BY <1>12, HookMoves
<1>13. CASE ContinueIntent
  BY <1>13, CarryMoves
<1>14. CASE EnqueueManualRetry
  BY <1>14, EnqueueMoves
<1>15. CASE Boot
  BY <1>15, BootMoves
<1>16. CASE CatchUp
  BY <1>16, CatchUpMoves
<1>17. CASE ReplayOutcome
  BY <1>17, ReplayMoves
<1>18. CASE RecordInterruptedRun
  BY <1>18, InterruptedMoves
<1>19. CASE TasksReconciled
  BY <1>19, ReconciledMoves
<1>20. CASE SweepRun
  BY <1>20, SweepMoves
<1>21. CASE ContinueRun
  BY <1>21, ContinueMoves
<1>22. CASE RunsRecovered
  BY <1>22, RecoveredMoves
<1>23. CASE NextIntent
  BY <1>23, IntentMoves
<1>24. CASE Arm
  BY <1>24, ArmMoves
<1>25. CASE Ending
  <2>1. PICK type \in Outcomes \ {"restart"} : Emit(type)
    BY <1>25 DEF Ending
  <2>2. type \in Outcomes /\ type # "started"
    BY DEF Outcomes
  <2> QED
    BY <2>1, <2>2, EndedMoves
<1>26. CASE Emit("started")
  BY <1>26, StartedMoves
<1>27. CASE TakeSignal
  BY <1>27, TakeMoves
<1>28. CASE Launch
  BY <1>28
<1>29. CASE LaunchFails
  BY <1>29, FailsMoves
<1>30. CASE BackoffElapses
  BY <1>30, BackoffMoves
<1>31. CASE Resume
  BY <1>31, ResumeMoves
<1>32. CASE Pause
  BY <1>32, PauseMoves
<1>33. CASE CancelRun
  BY <1>33, CancelMoves
<1>34. CASE RetryStep
  BY <1>34, RetryMoves
<1>35. CASE RetryAbandonedStep
  BY <1>35, RetryAbandonedMoves
<1>36. CASE Crash
  BY <1>36, CrashMoves
<1>37. CASE BeginShutdown
  BY <1>37, BeginMoves
<1>38. CASE FinishShutdown
  BY <1>38, FinishMoves
<1>39. CASE UNCHANGED vars
  BY <1>39 DEF vars
<1> QED
  BY <1>1, <1>2, <1>3, <1>4, <1>5, <1>6, <1>7, <1>8, <1>9, <1>10, <1>11, <1>12, <1>13, <1>14, <1>15, <1>16, <1>17, <1>18, <1>19, <1>20, <1>21, <1>22, <1>23, <1>24, <1>25, <1>26, <1>27, <1>28, <1>29, <1>30, <1>31, <1>32, <1>33, <1>34, <1>35, <1>36, <1>37, <1>38, <1>39 DEF Next, Commit, Recover

\* An interrupted attempt is launched again only for an operator.
LEMMA LaunchIsAskedFor ==
  ASSUME IInv, WaitInv, Launch
  PROVE  \/ host'.agent = 1 \/ attempts[host'.agent - 1].status # "abandoned" \/ consent'
<1>1. host'.agent = host.ready /\ host.ready # 0
  BY Types DEF IInv, Hosts, Launch
<1>2. host.ready = Len(attempts) /\ Len(attempts) \in Nat
  BY <1>1, Types, LenProperties DEF IInv, HistoryInv, AttemptInv, Attempts
<1>3. SUFFICES ASSUME Len(attempts) # 1, attempts[Len(attempts) - 1].status = "abandoned"
               PROVE  consent'
  BY <1>1, <1>2
<1>4. consent' = (consent \/ \E i \in 1..Len(intents) : intents[i].new = host.ready)
  BY DEF Launch
<1>5. Len(attempts) > 1
  <2>1. Len(attempts) \in Nat /\ Len(attempts) # 0 /\ Len(attempts) # 1
    BY <1>1, <1>2, <1>3
  <2>2. \A n \in Nat : n # 0 /\ n # 1 => n > 1
    OBVIOUS
  <2> QED
    BY <2>1, <2>2
<1>6. ~consent => \E i \in 1..Len(intents) : intents[i].new = host.ready
  BY <1>1, <1>2, <1>3, <1>5 DEF WaitInv, ClaimInv
<1> QED
  BY <1>4, <1>6, Zenon

\* No restart starts an interrupted attempt over by itself.
THEOREM InterruptedRunsWait == Spec => InterruptedRunWaits
<1>1. Init => IInv /\ WaitInv
  BY BeginsRight, BeginsAsked
<1>2. IInv /\ WaitInv /\ [Next]_vars => IInv' /\ WaitInv'
  BY StepKeeps, StepWaits
<1>3. IInv /\ WaitInv /\ [Next]_vars
        => [Launches => \/ host'.agent = 1
                        \/ attempts[host'.agent - 1].status # "abandoned"
                        \/ consent']_vars
  BY OnlyLaunchLaunches, LaunchIsAskedFor
<1> QED
  BY <1>1, <1>2, <1>3, PTL DEF Spec, InterruptedRunWaits

=============================================================================
