----------------------------- MODULE TaskPromise -----------------------------
(***************************************************************************)
(* What Hall Core promises about a task, seen from a client that reads its *)
(* status: it is planned, a run is under way, and every run comes to one   *)
(* outcome; completed and cancelled tasks stay so, a failed one may be     *)
(* prepared for another run, and no run id is ever used twice.             *)
(* TaskLifecycle implements this module.                                   *)
(***************************************************************************)
CONSTANTS TaskRuns, NoRun

VARIABLES
  phase,  \* of the task
  run,    \* its current run, or its last one once it has ended
  begun   \* the runs there have been

promise == <<phase, run, begun>>

Results == {"completed", "failed", "cancelled"}

PromiseInit == phase = "absent" /\ run = NoRun /\ begun = {}

Plan == phase = "absent" /\ phase' = "open" /\ UNCHANGED <<run, begun>>

\* A run begins, to be under way or, when it was cancelled before, to end at once.
Start(r) ==
  /\ phase \in {"absent", "open"}
  /\ r \in TaskRuns \ begun
  /\ phase' \in {"underway", "cancelled"}
  /\ run' = r
  /\ begun' = begun \cup {r}

Settle(r) ==
  /\ phase = "underway" /\ run = r
  /\ phase' \in Results
  /\ UNCHANGED <<run, begun>>

\* A planned task is cancelled without ever running.
CallOff == phase = "open" /\ phase' = "cancelled" /\ UNCHANGED <<run, begun>>

Reopen == phase = "failed" /\ phase' = "open" /\ run' = NoRun /\ UNCHANGED begun

PromiseNext ==
  \/ Plan
  \/ \E r \in TaskRuns : Start(r) \/ Settle(r)
  \/ CallOff
  \/ Reopen

PromiseSpec == PromiseInit /\ [][PromiseNext]_promise

PromiseFairSpec == PromiseSpec /\ \A r \in TaskRuns : WF_promise(Settle(r))
=============================================================================
