----------------------------- MODULE Comparison -----------------------------
(***************************************************************************)
(* One agent comparison (apps/server/src/comparisons): two candidates run  *)
(* one after the other, each in a git worktree of its own, cut at one      *)
(* commit.  The record and its candidates, the recorded paths and the      *)
(* candidates' event logs are rows of the database                         *)
(* (sqlite-comparison-store.ts); requests, runs, result captures and the   *)
(* timers of a cleanup live in the process and die with it, and            *)
(* recovery/reconcile-comparisons.ts repairs the rows at the next start.   *)
(*                                                                         *)
(* The process is one event loop: between two awaits a handler is not      *)
(* interrupted, except by the death of the process between two of its      *)
(* transactions.  `doing` is the handler that has more transactions to     *)
(* commit before it yields.                                                *)
(***************************************************************************)
EXTENDS Naturals, FiniteSets

CONSTANTS
  First, Second, \* the candidates, in the order their worktrees are cut
  Commits,       \* commits HEAD of the source repository goes through: 1..Commits
  MaxCleanups,   \* DELETE requests that are taken up
  MaxCrashes     \* deaths of the process

ASSUME CandidateAssumption == First # Second
ASSUME BoundAssumption == Commits \in Nat \ {0} /\ MaxCleanups \in Nat /\ MaxCrashes \in Nat

Candidates == {First, Second}

VARIABLES
  status,    \* comparisons.status
  cleanup,   \* comparisons.cleanup_status
  base,      \* comparisons.base_commit, 0 before
  cand,      \* the rows of comparison_candidates
  paths,     \* candidates with a row in comparison_candidate_worktrees
  log,       \* per candidate, "open" or the terminal event it ends with
  behind,    \* candidates with a stored event that is not counted in their row
  tree,      \* per candidate, the commit its worktree on disk is cut at, 0 if none
  mode,      \* "up" or "recovering"
  doing,     \* the handler in progress, and its candidate
  prep,      \* prepareComparison between two awaits, and HEAD meanwhile
  starting,  \* candidates whose startCandidate awaits adapter.detect()
  exec,      \* per candidate, its runTask()
  aborted,   \* candidates whose live AbortController has fired
  capturing, \* candidates whose captureResultEvidence is under way
  clean,     \* cleanupComparison between two awaits
  cleanups,
  crashes

rows == <<status, cleanup, base, cand, paths, log, behind>>
runs == <<starting, exec, aborted, capturing>>
comparisonVars == <<rows, tree, mode, doing, prep, runs, clean, cleanups, crashes>>

Endings == {"completed", "failed", "cancelled"}
Reclaimed == {"cancelled", "cleaning", "cleaned"}
ComparisonStatus == {"draft", "preparing", "ready", "running", "partially_completed",
                     "completed", "failed"} \cup Reclaimed
CandidateStatus == {"pending", "prepared", "running"} \cup Endings

ComparisonTypeOK ==
  /\ status \in ComparisonStatus
  /\ cleanup \in {"not_started", "in_progress", "completed", "failed"}
  /\ base \in 0..Commits
  /\ cand \in [Candidates -> [status : CandidateStatus, run : BOOLEAN, cancel : BOOLEAN,
                              core : BOOLEAN]]
  /\ paths \subseteq Candidates
  /\ log \in [Candidates -> Endings \cup {"open"}]
  /\ behind \subseteq Candidates
  /\ tree \in [Candidates -> 0..Commits]
  /\ mode \in {"up", "recovering"}
  /\ doing \in [what : {"none", "ready", "cleanup", "project", "report", "giveup", "complete"}, who : Candidates]
  /\ prep \in [at : {"none", "inspect", "add", "check", "rollback"}, who : Candidates, base : 0..Commits, head : 1..Commits]
  /\ starting \subseteq Candidates
  /\ exec \in [Candidates -> {"none", "detecting", "streaming", "ended"}]
  /\ aborted \subseteq Candidates
  /\ capturing \subseteq Candidates
  /\ clean \in [at : {"none", "executions", "finalizations", "remove", "forget"}, wait : SUBSET Candidates,
                todo : SUBSET Candidates, failed : SUBSET Candidates, ran : SUBSET Candidates, late : BOOLEAN]
  /\ cleanups \in 0..MaxCleanups
  /\ crashes \in 0..MaxCrashes

NoPrep == [at |-> "none", who |-> First, base |-> 0, head |-> 1]
Handler(what, c) == [what |-> what, who |-> c]
Nothing == Handler("none", First)
NoClean == [at |-> "none", wait |-> {}, todo |-> {}, failed |-> {}, ran |-> {}, late |-> FALSE]

\* createComparison: a draft, no filesystem or git work.
ComparisonInit ==
  /\ status = "draft" /\ cleanup = "not_started" /\ base = 0
  /\ cand = [c \in Candidates |-> [status |-> "pending", run |-> FALSE, cancel |-> FALSE,
                                   core |-> FALSE]]
  /\ paths = {}
  /\ log = [c \in Candidates |-> "open"]
  /\ behind = {}
  /\ tree = [c \in Candidates |-> 0]
  /\ mode = "up" /\ doing = Nothing /\ prep = NoPrep
  /\ starting = {} /\ exec = [c \in Candidates |-> "none"] /\ aborted = {} /\ capturing = {}
  /\ clean = NoClean
  /\ cleanups = 0
  /\ crashes = 0

Idle == mode = "up" /\ doing.what = "none"
Other(c) == IF c = First THEN Second ELSE First
Ended(c) == cand[c].status \in Endings
\* Its agent or its git capture may be using the worktree.
Busy(c) == exec[c] \in {"detecting", "streaming"} \/ c \in capturing

-----------------------------------------------------------------------------
\* The comparison store

\* deriveComparisonStatus: only ready and running are ever recomputed.
DerivedAlways(s, cs) ==
  IF \A c \in Candidates : cs[c].status \in Endings
  THEN IF \A c \in Candidates : cs[c].status = "completed" THEN "completed" ELSE "partially_completed"
  ELSE IF \E c \in Candidates : cs[c].status \in Endings \cup {"running"} THEN "running" ELSE "ready"

Derived(s, cs) == IF s \in {"ready", "running"} THEN DerivedAlways(s, cs) ELSE s

\* A candidate row is rewritten and the comparison's status recomputed.
Rewrite(c, row) ==
  /\ cand' = [cand EXCEPT ![c] = row]
  /\ status' = Derived(status, cand')

\* The cancellation flag of an ended candidate is never read again.
SetCandidateCompleted(c, ending, core) ==
  Rewrite(c, [cand[c] EXCEPT !.status = ending, !.core = core, !.cancel = FALSE])

\* The cancellation flag stays.
ClearCandidateStart(c) == Rewrite(c, [cand[c] EXCEPT !.status = "prepared", !.run = FALSE])

RecordEventMeta(c) == behind' = behind \ {c}

AppendEvent(c, end) ==
  /\ log' = [log EXCEPT ![c] = end]
  /\ behind' = behind \cup {c}

-----------------------------------------------------------------------------
\* prepareComparison

ClaimPreparing ==
  /\ Idle /\ status = "draft"
  /\ status' = "preparing"
  /\ prep' = [NoPrep EXCEPT !.at = "inspect"]
  /\ UNCHANGED <<cleanup, base, cand, paths, log, behind, tree, mode, doing, runs, clean, cleanups, crashes>>

SetPreparePending ==
  /\ status' = "pending"
  /\ prep' = NoPrep
SetPrepareFailed ==
  /\ status' = "failed"
  /\ prep' = NoPrep

\* The source is no repository, is dirty, or its HEAD cannot be resolved.
InspectFails ==
  /\ Idle /\ prep.at = "inspect"
  /\ SetPrepareFailed
  /\ UNCHANGED <<cleanup, base, cand, paths, log, behind, tree, mode, doing, runs, clean, cleanups, crashes>>

\* The commit is resolved once, for both candidates.
ResolveBase ==
  /\ Idle /\ prep.at = "inspect"
  /\ prep' = [prep EXCEPT !.at = "add", !.base = prep.head]
  /\ UNCHANGED <<rows, tree, mode, doing, runs, clean, cleanups, crashes>>

CutAtHead(c) == tree' = [tree EXCEPT ![c] = prep.head]
\* git worktree add --detach
Cut(c) == tree' = [tree EXCEPT ![c] = prep.base]

AddWorktree ==
  /\ Idle /\ prep.at = "add"
  /\ Cut(prep.who)
  /\ prep' = [prep EXCEPT !.at = "check"]
  /\ UNCHANGED <<rows, mode, doing, runs, clean, cleanups, crashes>>

\* A verified worktree is recorded; after the second one setReady follows.
RecordWorktree ==
  /\ Idle /\ prep.at = "check"
  /\ paths' = paths \cup {prep.who}
  /\ IF prep.who = First
     THEN prep' = [prep EXCEPT !.at = "add", !.who = Second] /\ UNCHANGED doing
     ELSE doing' = Handler("ready", First) /\ UNCHANGED prep
  /\ UNCHANGED <<status, cleanup, base, cand, log, behind, tree, mode, runs, clean, cleanups, crashes>>

SetReady ==
  /\ mode = "up" /\ doing.what = "ready"
  /\ status' = "ready" /\ base' = prep.base
  /\ cand' = [c \in Candidates |-> [cand[c] EXCEPT !.status = "prepared"]]
  /\ doing' = Nothing /\ prep' = NoPrep
  /\ UNCHANGED <<cleanup, paths, log, behind, tree, mode, runs, clean, cleanups, crashes>>

\* What was created before the failure is forgotten, then removed.
RollBack ==
  IF First \in paths
  THEN paths' = paths \ {First} /\ prep' = [prep EXCEPT !.at = "rollback"] /\ UNCHANGED status
  ELSE SetPrepareFailed /\ UNCHANGED paths

AddFails ==
  /\ Idle /\ prep.at = "add"
  /\ RollBack
  /\ UNCHANGED <<cleanup, base, cand, log, behind, tree, mode, doing, runs, clean, cleanups, crashes>>

\* The new worktree fails its check; removing it is best effort.
CheckFails ==
  /\ Idle /\ prep.at = "check"
  /\ tree' \in {tree, [tree EXCEPT ![prep.who] = 0]}
  /\ RollBack
  /\ UNCHANGED <<cleanup, base, cand, log, behind, mode, doing, runs, clean, cleanups, crashes>>

RolledBack ==
  /\ Idle /\ prep.at = "rollback"
  /\ tree' \in {tree, [tree EXCEPT ![First] = 0]}
  /\ SetPrepareFailed
  /\ UNCHANGED <<cleanup, base, cand, paths, log, behind, mode, doing, runs, clean, cleanups, crashes>>

\* Somebody commits to the source repository meanwhile.
CommitToSource ==
  /\ prep.at \in {"add", "check"} /\ prep.head < Commits
  /\ prep' = [prep EXCEPT !.head = @ + 1]
  /\ UNCHANGED <<rows, tree, mode, doing, runs, clean, cleanups, crashes>>

-----------------------------------------------------------------------------
\* startCandidate and requestCandidateCancellation

StartableAnyTime(c) == cand[c].status = "prepared"
Startable(c) == cand[c].status = "prepared" /\ cand[Other(c)].status # "running"

ClaimCandidateStart(c) ==
  /\ Idle /\ status \in {"ready", "running"} /\ Startable(c)
  /\ cand' = [cand EXCEPT ![c].status = "running", ![c].run = TRUE]
  /\ status' = "running"
  /\ starting' = starting \cup {c}
  /\ UNCHANGED <<cleanup, base, paths, log, behind, tree, mode, doing, prep, exec, aborted, capturing, clean, cleanups, crashes>>

\* Not eligible any more, or no worktree is recorded for it.
RefuseStart(c) ==
  /\ Idle /\ c \in starting
  /\ starting' = starting \ {c}
  /\ ClearCandidateStart(c)
  /\ UNCHANGED <<cleanup, base, paths, log, behind, tree, mode, doing, prep, exec, aborted, capturing, clean, cleanups, crashes>>

\* A cancellation or a cleanup that came meanwhile is not looked at.
BeginExecution(c) ==
  /\ Idle /\ c \in starting /\ c \in paths
  /\ starting' = starting \ {c}
  /\ exec' = [exec EXCEPT ![c] = "detecting"]
  /\ aborted' = aborted \ {c}
  /\ UNCHANGED <<rows, tree, mode, doing, prep, capturing, clean, cleanups, crashes>>

CancelUnstartedCandidate(c) ==
  /\ Idle /\ cand[c].status \in {"pending", "prepared"}
  /\ Rewrite(c, [cand[c] EXCEPT !.status = "cancelled"])
  /\ UNCHANGED <<cleanup, base, paths, log, behind, tree, mode, doing, prep, runs, clean, cleanups, crashes>>

RequestCancellation(c) ==
  /\ Idle /\ cand[c].status = "running" /\ ~cand[c].cancel
  /\ cand' = [cand EXCEPT ![c].cancel = TRUE]
  /\ aborted' = IF exec[c] # "none" THEN aborted \cup {c} ELSE aborted
  /\ UNCHANGED <<status, cleanup, base, paths, log, behind, tree, mode, doing, prep, starting, exec, capturing, clean, cleanups, crashes>>

-----------------------------------------------------------------------------
\* runTask() and the events it delivers

\* The execution's promise settles and its controller is dropped.
Settle(c) ==
  /\ exec' = [exec EXCEPT ![c] = "none"]
  /\ aborted' = aborted \ {c}

\* runTask asks the adapter again; its refusal is a result nobody reads.
TurnedAway(c) ==
  /\ Idle /\ exec[c] = "detecting"
  /\ Settle(c)
  /\ UNCHANGED <<rows, tree, mode, doing, prep, starting, capturing, clean, cleanups, crashes>>

AgentStarts(c) ==
  /\ Idle /\ exec[c] = "detecting"
  /\ exec' = [exec EXCEPT ![c] = "streaming"]
  /\ UNCHANGED <<rows, tree, mode, doing, prep, starting, aborted, capturing, clean, cleanups, crashes>>

\* Only the terminal event is modelled: the others are stored and counted in
\* the same way.  An agent ends as cancelled only when it was told to stop.
StoreTerminalEvent(c) ==
  /\ Idle /\ exec[c] = "streaming" /\ log[c] \notin Endings
  /\ \E ending \in Endings : (ending = "cancelled" => c \in aborted) /\ AppendEvent(c, ending)
  /\ exec' = [exec EXCEPT ![c] = "ended"]
  /\ doing' = Handler("project", c)
  /\ UNCHANGED <<status, cleanup, base, cand, paths, tree, mode, prep, starting, aborted, capturing, clean, cleanups, crashes>>

\* The log is closed already: the event is refused and nothing else happens.
TerminalEventRefused(c) ==
  /\ Idle /\ exec[c] = "streaming" /\ log[c] \in Endings
  /\ exec' = [exec EXCEPT ![c] = "ended"]
  /\ UNCHANGED <<rows, tree, mode, doing, prep, starting, aborted, capturing, clean, cleanups, crashes>>

\* recordCandidateEventMeta; the finalization then starts, and waits for git
\* only if a worktree is recorded.
Project(c) ==
  /\ mode = "up" /\ doing = Handler("project", c)
  /\ RecordEventMeta(c)
  /\ IF c \in paths THEN doing' = Nothing /\ capturing' = capturing \cup {c}
     ELSE doing' = Handler("complete", c) /\ UNCHANGED capturing
  /\ UNCHANGED <<status, cleanup, base, cand, paths, log, tree, mode, prep, starting, exec, aborted, clean, cleanups, crashes>>

FinalizeWithoutEvidence(c) ==
  /\ mode = "up" /\ doing = Handler("complete", c)
  /\ SetCandidateCompleted(c, log[c], FALSE)
  /\ doing' = Nothing
  /\ UNCHANGED <<cleanup, base, paths, log, behind, tree, mode, prep, runs, clean, cleanups, crashes>>

\* The capture has ended, with evidence or without.
FinalizeCandidate(c) ==
  /\ Idle /\ c \in capturing
  /\ SetCandidateCompleted(c, log[c], FALSE)
  /\ capturing' = capturing \ {c}
  /\ UNCHANGED <<cleanup, base, paths, log, behind, tree, mode, doing, prep, starting, exec, aborted, clean, cleanups, crashes>>

FailUnlogged(c) == doing' = Handler("giveup", c) /\ UNCHANGED <<log, behind>>
\* #failCandidateWithInfrastructureFailure: abort, log a failure if the log
\* still takes one, count it, give the candidate up.
InfrastructureFailure(c) ==
  IF log[c] \notin Endings
  THEN AppendEvent(c, "failed") /\ doing' = Handler("report", c)
  ELSE doing' = Handler("giveup", c) /\ UNCHANGED <<log, behind>>

\* The event store refuses an event (capacity, sequence, identity).
EventStoreFailure(c) ==
  /\ Idle /\ exec[c] = "streaming" /\ cand[c].status = "running"
  /\ InfrastructureFailure(c)
  /\ aborted' = aborted \cup {c}
  /\ UNCHANGED <<status, cleanup, base, cand, paths, tree, mode, prep, starting, exec, capturing, clean, cleanups, crashes>>

Report(c) ==
  /\ mode = "up" /\ doing = Handler("report", c)
  /\ RecordEventMeta(c)
  /\ doing' = Handler("giveup", c)
  /\ UNCHANGED <<status, cleanup, base, cand, paths, log, tree, mode, prep, runs, clean, cleanups, crashes>>

GiveUp(c) ==
  /\ mode = "up" /\ doing = Handler("giveup", c)
  /\ SetCandidateCompleted(c, "failed", TRUE)
  /\ doing' = Nothing
  /\ UNCHANGED <<cleanup, base, paths, log, behind, tree, mode, prep, runs, clean, cleanups, crashes>>

StreamEnds(c) ==
  /\ Idle /\ exec[c] = "ended"
  /\ Settle(c)
  /\ UNCHANGED <<rows, tree, mode, doing, prep, starting, capturing, clean, cleanups, crashes>>

\* The stream throws or ends without a terminal event: the candidate is given
\* up if it still runs, whether or not its outcome is being captured.
ThrowHandled(c) ==
  IF cand[c].status = "running" THEN InfrastructureFailure(c) ELSE UNCHANGED <<log, behind, doing>>

StreamThrows(c) ==
  /\ Idle /\ exec[c] # "none"
  /\ Settle(c)
  /\ ThrowHandled(c)
  /\ UNCHANGED <<status, cleanup, base, cand, paths, tree, mode, prep, starting, capturing, clean, cleanups, crashes>>

-----------------------------------------------------------------------------
\* cleanupComparison

CleanupTurn == mode = "up" /\ doing.what \in {"none", "cleanup"}
Waiting(set) == doing' = IF set = {} THEN Handler("cleanup", First) ELSE Nothing

ClaimCleanup ==
  /\ Idle /\ status # "preparing" /\ cleanup \notin {"in_progress", "completed"}
  /\ cleanups < MaxCleanups
  /\ cleanups' = cleanups + 1
  /\ LET running == {c \in Candidates : exec[c] # "none"} IN
       /\ aborted' = aborted \cup {c \in running : cand[c].status = "running"}
       /\ clean' = [NoClean EXCEPT !.at = "executions", !.wait = running, !.ran = running \cup capturing]
       /\ Waiting(running)
  /\ cleanup' = "in_progress"
  /\ status' = IF status \in {"draft", "ready", "running"} THEN "cancelled" ELSE status
  /\ UNCHANGED <<base, cand, paths, log, behind, tree, mode, prep, starting, exec, capturing, crashes>>

NoFinalizations(late) ==
  /\ clean' = [clean EXCEPT !.at = "finalizations", !.wait = {}, !.late = late]
  /\ Waiting({})
\* The finalizations are read only once the executions have settled.
ToFinalizations(late) ==
  /\ clean' = [clean EXCEPT !.at = "finalizations", !.wait = capturing, !.late = late]
  /\ Waiting(capturing)

ExecutionsSettled ==
  /\ CleanupTurn /\ clean.at = "executions" /\ \A c \in clean.wait : exec[c] = "none"
  /\ ToFinalizations(clean.late)
  /\ UNCHANGED <<rows, tree, mode, prep, runs, cleanups, crashes>>

\* cleanupGraceTimeoutMs has passed.
ExecutionsTimeout ==
  /\ Idle /\ clean.at = "executions" /\ \E c \in clean.wait : exec[c] # "none"
  /\ ToFinalizations(TRUE)
  /\ UNCHANGED <<rows, tree, mode, prep, runs, cleanups, crashes>>

\* markCleaning, then the recorded worktrees one by one.
ToRemoval(late) ==
  /\ status' = "cleaning"
  /\ clean' = [clean EXCEPT !.at = "remove", !.wait = {}, !.todo = paths, !.late = late]
  /\ Waiting(paths)

FinalizationsSettled ==
  /\ CleanupTurn /\ clean.at = "finalizations" /\ clean.wait \cap capturing = {}
  /\ ToRemoval(clean.late)
  /\ UNCHANGED <<cleanup, base, cand, paths, log, behind, tree, mode, prep, runs, cleanups, crashes>>

FinalizationsTimeout ==
  /\ Idle /\ clean.at = "finalizations" /\ clean.wait \cap capturing # {}
  /\ ToRemoval(TRUE)
  /\ UNCHANGED <<cleanup, base, cand, paths, log, behind, tree, mode, prep, runs, cleanups, crashes>>

NextWorktree == IF First \in clean.todo THEN First ELSE Second

\* git worktree remove --force; it fails when the worktree is gone already.
RemoveWorktree ==
  /\ Idle /\ clean.at = "remove" /\ clean.todo # {} /\ tree[NextWorktree] # 0
  /\ tree' = [tree EXCEPT ![NextWorktree] = 0]
  /\ clean' = [clean EXCEPT !.at = "forget"]
  /\ UNCHANGED <<rows, mode, doing, prep, runs, cleanups, crashes>>

\* The next iteration of the loop, or its end.
AfterRemoval(failed) ==
  /\ clean' = [clean EXCEPT !.at = "remove", !.todo = @ \ {NextWorktree}, !.failed = failed]
  /\ Waiting(clean.todo \ {NextWorktree})

ForgetWorktree ==
  /\ Idle /\ clean.at = "forget"
  /\ paths' = paths \ {NextWorktree}
  /\ AfterRemoval(clean.failed)
  /\ UNCHANGED <<status, cleanup, base, cand, log, behind, tree, mode, prep, runs, cleanups, crashes>>

RemoveFails ==
  /\ Idle /\ clean.at = "remove" /\ clean.todo # {}
  /\ AfterRemoval(clean.failed \cup {NextWorktree})
  /\ UNCHANGED <<rows, tree, mode, prep, runs, cleanups, crashes>>

SetCleanupDone(failed) == cleanup' = "completed" /\ status' = "cleaned"
SetCleanup(failed) ==
  IF failed # {} THEN cleanup' = "failed" /\ UNCHANGED status
                 ELSE cleanup' = "completed" /\ status' = "cleaned"

EndCleanup ==
  /\ mode = "up" /\ doing.what = "cleanup" /\ clean.at = "remove" /\ clean.todo = {}
  /\ SetCleanup(clean.failed)
  /\ doing' = Nothing /\ clean' = NoClean
  /\ UNCHANGED <<base, cand, paths, log, behind, tree, mode, prep, runs, cleanups, crashes>>

-----------------------------------------------------------------------------
\* Shutdown, death and recovery

\* shutdown(): every run is aborted; worktrees and rows stay as they are.
ShutDown ==
  /\ Idle /\ {c \in Candidates : exec[c] # "none"} \ aborted # {}
  /\ aborted' = aborted \cup {c \in Candidates : exec[c] # "none"}
  /\ UNCHANGED <<rows, tree, mode, doing, prep, starting, exec, capturing, clean, cleanups, crashes>>

\* A kill, or the end of a shutdown: git stops where it is, the rows stay.
Crash ==
  /\ crashes < MaxCrashes
  /\ crashes' = crashes + 1
  /\ mode' = "recovering" /\ doing' = Nothing /\ prep' = NoPrep /\ clean' = NoClean
  /\ starting' = {} /\ exec' = [c \in Candidates |-> "none"] /\ aborted' = {} /\ capturing' = {}
  /\ UNCHANGED <<rows, tree, cleanups>>

FailInterruptedPreparation ==
  /\ mode = "recovering" /\ status = "preparing"
  /\ status' = "failed"
  /\ UNCHANGED <<cleanup, base, cand, paths, log, behind, tree, mode, doing, prep, runs, clean, cleanups, crashes>>

FailInterruptedCleanup ==
  /\ mode = "recovering" /\ status # "preparing" /\ cleanup = "in_progress"
  /\ cleanup' = "failed"
  /\ UNCHANGED <<status, base, cand, paths, log, behind, tree, mode, doing, prep, runs, clean, cleanups, crashes>>

Interrupted(c) == c \in behind \/ cand[c].status = "running"
\* Recovery has come to this candidate.
Reached(c) ==
  /\ mode = "recovering" /\ status # "preparing" /\ cleanup # "in_progress"
  /\ c = Second => ~Interrupted(First)

CountMissedEvents(c) ==
  /\ Reached(c) /\ c \in behind
  /\ RecordEventMeta(c)
  /\ UNCHANGED <<status, cleanup, base, cand, paths, log, tree, mode, doing, prep, runs, clean, cleanups, crashes>>

\* A terminal event that was logged decides the outcome.
ReplayOutcome(c) ==
  /\ Reached(c) /\ c \notin behind /\ cand[c].status = "running" /\ log[c] \in Endings
  /\ SetCandidateCompleted(c, log[c], FALSE)
  /\ UNCHANGED <<cleanup, base, paths, log, behind, tree, mode, doing, prep, runs, clean, cleanups, crashes>>

\* recordInterruptedCandidateRun: its event first, then ReplayOutcome's writes.
RecordInterruptedRun(c) ==
  /\ Reached(c) /\ c \notin behind /\ cand[c].status = "running" /\ log[c] \notin Endings
  /\ AppendEvent(c, "failed")
  /\ UNCHANGED <<status, cleanup, base, cand, paths, tree, mode, doing, prep, runs, clean, cleanups, crashes>>

NoRunInterrupted == status # "preparing" /\ \A c \in Candidates : ~Interrupted(c)
NoCleanupInterrupted == status # "preparing" /\ cleanup # "in_progress"
NothingInterrupted == status # "preparing" /\ cleanup # "in_progress" /\ \A c \in Candidates : ~Interrupted(c)

Recovered ==
  /\ mode = "recovering" /\ NothingInterrupted
  /\ mode' = "up"
  /\ UNCHANGED <<rows, tree, doing, prep, runs, clean, cleanups, crashes>>

-----------------------------------------------------------------------------
Preparing == InspectFails \/ ResolveBase \/ AddWorktree \/ RecordWorktree \/ AddFails \/ CheckFails \/ RolledBack
Starting(c) == RefuseStart(c) \/ BeginExecution(c)
Running(c) == \/ TurnedAway(c) \/ AgentStarts(c) \/ StoreTerminalEvent(c)
              \/ TerminalEventRefused(c) \/ StreamEnds(c) \/ StreamThrows(c)
Handling == \/ SetReady \/ EndCleanup
            \/ \E c \in Candidates : Project(c) \/ FinalizeWithoutEvidence(c) \/ Report(c) \/ GiveUp(c)
Cleaning == \/ ExecutionsSettled \/ ExecutionsTimeout \/ FinalizationsSettled \/ FinalizationsTimeout
            \/ RemoveWorktree \/ ForgetWorktree \/ RemoveFails
Recovering == \/ FailInterruptedPreparation \/ FailInterruptedCleanup \/ Recovered
              \/ \E c \in Candidates : CountMissedEvents(c) \/ ReplayOutcome(c) \/ RecordInterruptedRun(c)
Request == \/ ClaimPreparing \/ ClaimCleanup
           \/ \E c \in Candidates : ClaimCandidateStart(c) \/ CancelUnstartedCandidate(c) \/ RequestCancellation(c)

ComparisonNext ==
  \/ Request \/ Preparing \/ Handling \/ Cleaning \/ Recovering \/ CommitToSource \/ ShutDown \/ Crash
  \/ \E c \in Candidates : Starting(c) \/ Running(c) \/ EventStoreFailure(c) \/ FinalizeCandidate(c)

ComparisonSpec == ComparisonInit /\ [][ComparisonNext]_comparisonVars

\* The event loop serves every promise that has settled; git, the agents and
\* their streams end.
Fairness ==
  /\ WF_comparisonVars(Handling) /\ WF_comparisonVars(Recovering) /\ WF_comparisonVars(Preparing) /\ WF_comparisonVars(Cleaning)
  /\ \A c \in Candidates : WF_comparisonVars(Running(c)) /\ WF_comparisonVars(FinalizeCandidate(c))

FairComparisonSpec == ComparisonSpec /\ Fairness

-----------------------------------------------------------------------------
\* Properties

\* Candidates run, and capture their results, one at a time: two are never busy
\* in the shared repository at once, unless Hall Core gave one of them up.
OneAtATime ==
  \A c \in Candidates : Busy(c) /\ Busy(Other(c)) => \E d \in Candidates : cand[d].core

\* Between two handlers an ended run has its end in its log, the same one
\* unless Hall Core gave the candidate up, and a logged end is recorded or its
\* evidence still being captured.
OutcomeMatchesLog ==
  mode = "up" /\ doing.what = "none" =>
    \A c \in Candidates :
      /\ cand[c].run /\ Ended(c) =>
           \/ cand[c].status = log[c]
           \/ cand[c].status = "failed" /\ cand[c].core /\ log[c] \in Endings
      /\ log[c] \in Endings => Ended(c) \/ c \in capturing

\* A comparison that may start its candidates has both worktrees, recorded,
\* on disk, and cut at the one commit the record names.
WorktreesShareTheBase ==
  status \in {"ready", "running"} => paths = Candidates /\ \A c \in Candidates : tree[c] = base

\* No worktree of a prepared comparison survives a cleanup that says it is
\* complete, and nothing it promised is left recorded.
CompletedCleanupIsComplete ==
  cleanup = "completed" => paths = {} /\ (base # 0 => \A c \in Candidates : tree[c] = 0)

\* The invariant of a comparison between two turns of the event loop: one
\* candidate at a time, from one base commit, with the outcome its log tells,
\* and nothing left behind by a cleanup that says it is complete.
ComparisonInv ==
  /\ ComparisonTypeOK
  /\ OneAtATime
  /\ OutcomeMatchesLog
  /\ WorktreesShareTheBase
  /\ CompletedCleanupIsComplete

\* A comparison that was torn down stays torn down: the late end of a run
\* never gives it an outcome status again.
TornDownForGood ==
  [][/\ status \in Reclaimed => status' \in Reclaimed
     /\ cleanup = "completed" => cleanup' = "completed"]_comparisonVars

\* A worktree that was in use when its cleanup began is removed only after its
\* run and its capture have ended, or after the grace time.
RemovalWaitsForGit ==
  [][\A c \in clean.ran : tree[c] # 0 /\ tree'[c] = 0 =>
        (exec[c] = "none" /\ c \notin capturing) \/ clean.late]_comparisonVars

\* A cleanup ends although runs, captures and git may hang or die under it.
CleanupEnds == (cleanup = "in_progress") ~> (cleanup # "in_progress")

\* A candidate whose agent has started gets an outcome, across deaths too.
StartedCandidateEnds ==
  \A c \in Candidates : exec[c] = "streaming" ~> Ended(c)

\* What was begun comes to an end, across hangs and deaths of the process.
ComparisonSettles == CleanupEnds /\ StartedCandidateEnds

\* A cancelled candidate stays cancelled. Violated by a cancellation during the
\* preparation (README, 8).
CancelledStaysCancelled ==
  [][\A c \in Candidates : cand[c].status = "cancelled" => cand'[c].status = "cancelled"]_comparisonVars
=============================================================================
