----------------------------- MODULE AgentWorktree -----------------------------
(***************************************************************************)
(* The isolated executions of one task: every run gets a Git worktree of   *)
(* its own (agent-worktrees/agent-worktree-manager.ts), the agent works in *)
(* it, the run's artifact is collected from it                             *)
(* (agent-execution/agent-execution-artifact-terminalizer.ts), and only    *)
(* then is it removed.  A retry may start while the run it replaces still  *)
(* streams, collects or cleans up.  A crash may fall between any two       *)
(* steps; the next boot reconciles what it finds                           *)
(* (recovery/reconcile-agent-worktrees.ts) before it serves a request.     *)
(*                                                                         *)
(* Git and the file system are external: every command may fail, and one   *)
(* that fails or is interrupted may have done any part of its work.        *)
(***************************************************************************)
EXTENDS Naturals

CONSTANTS
  MaxRuns,    \* bound on the runs of the task, which are 1..MaxRuns
  MaxCrashes, \* bound on the ends of the process
  None

ASSUME BoundAssumption == MaxRuns \in Nat \ {0} /\ MaxCrashes \in Nat

VARIABLES
  phase,   \* of the process: down, recovering, up
  crashes,
  swept,   \* the records this boot's reconciliation has visited
  cur,     \* the task's current run, 0 before the first
  cancel,  \* its cancellationRequested
  run,     \* per run, the outcome in the task record and in the event log
  exec,    \* per run, what the process is doing about it
  wt,      \* per run, the durable worktree record's status
  path,    \* per run, the directory of its worktree
  reg,     \* per run, whether Git has the worktree registered
  work,    \* per run, whether the agent has changed anything in it
  art      \* per run, its durable artifact

vars == <<phase, crashes, swept, cur, cancel, run, exec, wt, path, reg, work, art>>
disk == <<path, reg>>
process == <<phase, crashes, swept>>

Runs == 1..MaxRuns
Outcomes == {"completed", "failed", "cancelled"}
WorktreeStatuses ==
  {"creating", "ready", "creation_failed", "cleanup_pending", "cleaned", "cleanup_failed"}
PathStates == {"absent", "empty", "content"}

\* The terminal snapshot an execution carries: worktree says that it names the
\* worktree, exit that Hall Runner's result has lent it an exit code.
Snapshot == [type : Outcomes, worktree : BOOLEAN, exit : BOOLEAN]

\* pc names the await: the adapter's detect(), the checks of the source, git
\* worktree add, git checkout, the agent's stream, the evidence, the start of
\* the cleanup, git worktree remove, what is left of the directory.
Execution ==
  [pc : {"idle", "preflight", "prepare", "add", "checkout", "stream", "collect", "cleanup",
         "remove", "residue"},
   snapshot : Snapshot \cup {None}]

Artifact == [outcome : Outcomes, tree : {"none", "base", "changed"}, exit : BOOLEAN]

ASSUME NoneAssumption == None \notin Outcomes \cup WorktreeStatuses \cup Snapshot \cup Artifact

TypeOK ==
  /\ phase \in {"down", "recovering", "up"}
  /\ crashes \in 0..MaxCrashes /\ swept \in 0..MaxRuns
  /\ cur \in 0..MaxRuns /\ cancel \in BOOLEAN
  /\ run \in [Runs -> [status : {"none", "open"} \cup Outcomes, logged : Outcomes \cup {None}]]
  /\ exec \in [Runs -> Execution]
  /\ wt \in [Runs -> WorktreeStatuses \cup {None}]
  /\ path \in [Runs -> PathStates] /\ reg \in [Runs -> BOOLEAN]
  /\ work \in [Runs -> BOOLEAN]
  /\ art \in [Runs -> Artifact \cup {None}]

Idle == [pc |-> "idle", snapshot |-> None]

Init ==
  /\ phase = "up" /\ crashes = 0 /\ swept = 0
  /\ cur = 0 /\ cancel = FALSE
  /\ run = [r \in Runs |-> [status |-> "none", logged |-> None]]
  /\ exec = [r \in Runs |-> Idle]
  /\ wt = [r \in Runs |-> None]
  /\ path = [r \in Runs |-> "absent"] /\ reg = [r \in Runs |-> FALSE]
  /\ work = [r \in Runs |-> FALSE]
  /\ art = [r \in Runs |-> None]

Step(r, pc) == exec' = [exec EXCEPT ![r].pc = pc]
Rest(r) == exec' = [exec EXCEPT ![r] = Idle]
Become(r, status) == wt' = [wt EXCEPT ![r] = status]
CancelRequested(r) == cur = r /\ cancel

-----------------------------------------------------------------------------
\* The task: runs begin, are cancelled and end.

\* The first run, or a retry of a failed one, whose execution need not be over.
Begin(r) ==
  /\ phase = "up" /\ r = cur + 1
  /\ cur # 0 => run[cur].status = "failed"
  /\ cur' = r /\ cancel' = FALSE
  /\ run' = [run EXCEPT ![r].status = "open"]
  /\ Step(r, "preflight")
  /\ UNCHANGED <<process, wt, disk, work, art>>

RequestCancellation ==
  /\ phase = "up" /\ cur # 0 /\ run[cur].status = "open" /\ ~cancel
  /\ cancel' = TRUE
  /\ UNCHANGED <<process, cur, run, exec, wt, disk, work, art>>

\* (mutant) an outcome the task store does not know
ConcludeAbandoned(r, type) ==
  run' = [run EXCEPT ![r] = [status |-> "abandoned", logged |-> None]]

\* The outcome goes to the event log and to the task record; the log of a task
\* that has been retried may have no room left for an event of Hall Core's own.
Conclude(r, type) ==
  \E stored \in BOOLEAN :
    /\ stored \/ r > 1
    /\ run' = [run EXCEPT ![r] = [status |-> type, logged |-> IF stored THEN type ELSE None]]

ConcludeAndCollect(r, type, worktree, exit) ==
  /\ Conclude(r, type)
  /\ exec' = [exec EXCEPT ![r] = [pc |-> "collect",
       snapshot |-> [type |-> type, worktree |-> worktree, exit |-> exit]]]

\* cancelTaskBeforeAdapterRun, or go on.
StepUnlessCancelled(r, pc, worktree) ==
  IF CancelRequested(r)
  THEN ConcludeAndCollect(r, "cancelled", worktree, FALSE)
  ELSE Step(r, pc) /\ UNCHANGED run

Preflight(r) ==
  /\ exec[r].pc = "preflight"
  /\ StepUnlessCancelled(r, "prepare", FALSE)
  /\ UNCHANGED <<process, cur, cancel, wt, disk, work, art>>

PreflightThrows(r) ==
  /\ exec[r].pc = "preflight"
  /\ ConcludeAndCollect(r, "failed", FALSE, FALSE)
  /\ UNCHANGED <<process, cur, cancel, wt, disk, work, art>>

-----------------------------------------------------------------------------
\* createWorktree.

\* Preparation that throws ends the run without naming a worktree.
PreparationThrows(r) ==
  ConcludeAndCollect(r, IF CancelRequested(r) THEN "cancelled" ELSE "failed", FALSE, FALSE)

\* The source is clean, its HEAD resolved: the record comes before the worktree.
RecordCreation(r) ==
  /\ exec[r].pc = "prepare"
  /\ Step(r, "add") /\ Become(r, "creating")
  /\ UNCHANGED <<process, cur, cancel, run, disk, work, art>>

SourceRefused(r) ==
  /\ exec[r].pc = "prepare"
  /\ PreparationThrows(r)
  /\ UNCHANGED <<process, cur, cancel, wt, disk, work, art>>

GitAdds(r) ==
  /\ exec[r].pc = "add"
  /\ path' = [path EXCEPT ![r] = "content"] /\ reg' = [reg EXCEPT ![r] = TRUE]
  /\ Step(r, "checkout")
  /\ UNCHANGED <<process, cur, cancel, run, wt, work, art>>

\* (mutant) createWorktree without its catch
CreationFailsUnmarked(r) ==
  /\ exec[r].pc \in {"add", "checkout"}
  /\ PreparationThrows(r)
  /\ UNCHANGED <<process, cur, cancel, wt, disk, work, art>>

\* git worktree add may leave anything behind; nobody cleans up before the
\* next boot.
CreationFails(r) ==
  /\ exec[r].pc \in {"add", "checkout"}
  /\ IF exec[r].pc = "add"
     THEN \E p \in PathStates, g \in BOOLEAN :
            path' = [path EXCEPT ![r] = p] /\ reg' = [reg EXCEPT ![r] = g]
     ELSE UNCHANGED disk
  /\ Become(r, "creation_failed")
  /\ PreparationThrows(r)
  /\ UNCHANGED <<process, cur, cancel, work, art>>

\* (mutant) the worktree is used before the record says that it is ready
StartUnmarked(r) ==
  /\ exec[r].pc = "checkout"
  /\ StepUnlessCancelled(r, "stream", TRUE)
  /\ UNCHANGED <<process, cur, cancel, wt, disk, work, art>>

\* The checkout stands at the base commit: ready, and the agent starts.
MarkReady(r) ==
  /\ exec[r].pc = "checkout"
  /\ Become(r, "ready")
  /\ StepUnlessCancelled(r, "stream", TRUE)
  /\ UNCHANGED <<process, cur, cancel, disk, work, art>>

-----------------------------------------------------------------------------
\* The agent in its worktree.

AgentWrites(r) ==
  /\ exec[r].pc = "stream"
  /\ work' = [work EXCEPT ![r] = TRUE]
  /\ UNCHANGED <<process, cur, cancel, run, exec, wt, disk, art>>

\* The adapter's terminal event, its last.  The stream may still throw, and
\* then there is no result with an exit code.
AgentEnds(r, type) ==
  /\ exec[r].pc = "stream" /\ exec[r].snapshot = None
  /\ type = "cancelled" => CancelRequested(r)
  /\ \E exit \in BOOLEAN :
       exec' = [exec EXCEPT ![r] = [pc |-> "collect",
         snapshot |-> [type |-> type, worktree |-> TRUE, exit |-> exit]]]
  /\ run' = [run EXCEPT ![r] = [status |-> type, logged |-> type]]
  /\ UNCHANGED <<process, cur, cancel, wt, disk, work, art>>

\* Attachments, the runner's own detect(), startTask() or the stream fail.
AgentThrows(r) ==
  /\ exec[r].pc = "stream" /\ exec[r].snapshot = None
  /\ \E exit \in BOOLEAN : ConcludeAndCollect(r, "failed", TRUE, exit)
  /\ UNCHANGED <<process, cur, cancel, wt, disk, work, art>>

\* An event the store refuses fails the task; the agent is told to stop, and
\* streams on until it does.
LogOverflows(r) ==
  /\ exec[r].pc = "stream" /\ exec[r].snapshot = None
  /\ Conclude(r, "failed")
  /\ exec' = [exec EXCEPT ![r].snapshot = [type |-> "failed", worktree |-> TRUE, exit |-> FALSE]]
  /\ UNCHANGED <<process, cur, cancel, wt, disk, work, art>>

StreamEnds(r) ==
  /\ exec[r].pc = "stream" /\ exec[r].snapshot # None
  /\ \E exit \in BOOLEAN :
       exec' = [exec EXCEPT ![r].pc = "collect", ![r].snapshot.exit = exit]
  /\ UNCHANGED <<process, cur, cancel, run, wt, disk, work, art>>

-----------------------------------------------------------------------------
\* terminalize: one artifact per run.

Tree(r) == IF ~exec[r].snapshot.worktree THEN "none" ELSE IF work[r] THEN "changed" ELSE "base"

Collected(r) ==
  [outcome |-> exec[r].snapshot.type, tree |-> Tree(r), exit |-> exec[r].snapshot.exit]

\* semanticallyEquivalent: everything but the artifact's own id and date, the
\* evidence taken from the stored one.
Matches(r) == art[r].outcome = exec[r].snapshot.type /\ art[r].exit = exec[r].snapshot.exit

ThenClean(r) == IF exec[r].snapshot.worktree THEN Step(r, "cleanup") ELSE Rest(r)

CreateArtifact(r) ==
  /\ exec[r].pc = "collect" /\ art[r] = None
  /\ art' = [art EXCEPT ![r] = Collected(r)]
  /\ ThenClean(r)
  /\ UNCHANGED <<process, cur, cancel, run, wt, disk, work>>

\* (mutant) the last attempt to write wins
OverwriteArtifact(r) ==
  /\ exec[r].pc = "collect" /\ art[r] # None
  /\ art' = [art EXCEPT ![r] = Collected(r)]
  /\ ThenClean(r)
  /\ UNCHANGED <<process, cur, cancel, run, wt, disk, work>>

ConfirmArtifact(r) ==
  /\ exec[r].pc = "collect" /\ art[r] # None
  /\ IF Matches(r) THEN ThenClean(r) ELSE Rest(r)
  /\ UNCHANGED <<process, cur, cancel, run, wt, disk, work, art>>

\* (mutant) a failure of the terminalizer is logged, and the cleanup goes on
CollectFailsCleansAnyway(r) ==
  /\ exec[r].pc = "collect" /\ art[r] = None
  /\ ThenClean(r)
  /\ UNCHANGED <<process, cur, cancel, run, wt, disk, work, art>>

\* No evidence, no artifact, no cleanup.
CollectFails(r) ==
  /\ exec[r].pc = "collect" /\ art[r] = None
  /\ Rest(r)
  /\ UNCHANGED <<process, cur, cancel, run, wt, disk, work, art>>

-----------------------------------------------------------------------------
\* cleanupWorktree, of a run's end or of a boot.

RequestCleanup(r) ==
  /\ exec[r].pc = "cleanup"
  /\ Become(r, "cleanup_pending") /\ Step(r, "remove")
  /\ UNCHANGED <<process, cur, cancel, run, disk, work, art>>

\* The owned root or the path is not as recorded.
CleanupRefused(r) ==
  /\ exec[r].pc = "cleanup"
  /\ Rest(r)
  /\ UNCHANGED <<process, cur, cancel, run, wt, disk, work, art>>

\* What a removal may leave of a directory.
Remains(p) == IF p = "content" THEN PathStates ELSE {p, "absent"}

\* Git has removed the worktree, or does not know it.
GitRemoves(r) ==
  /\ exec[r].pc = "remove"
  /\ IF reg[r]
     THEN \E p \in {"absent", "empty"} :
            path' = [path EXCEPT ![r] = p] /\ reg' = [reg EXCEPT ![r] = FALSE]
     ELSE UNCHANGED disk
  /\ Step(r, "residue")
  /\ UNCHANGED <<process, cur, cancel, run, wt, work, art>>

RemovalFails(r) ==
  /\ exec[r].pc = "remove"
  /\ IF reg[r]
     THEN \E p \in Remains(path[r]), g \in BOOLEAN :
            path' = [path EXCEPT ![r] = p] /\ reg' = [reg EXCEPT ![r] = g]
     ELSE UNCHANGED disk
  /\ Become(r, "cleanup_failed") /\ Rest(r)
  /\ UNCHANGED <<process, cur, cancel, run, work, art>>

\* (mutant) an unregistered directory counts as removed whatever it holds
MarkCleanedRegardless(r) ==
  /\ exec[r].pc = "residue"
  /\ Become(r, "cleaned") /\ Rest(r)
  /\ UNCHANGED <<process, cur, cancel, run, disk, work, art>>

\* Nothing is left, or an empty directory that rmdir takes.
MarkCleaned(r) ==
  /\ exec[r].pc = "residue" /\ path[r] # "content"
  /\ path' = [path EXCEPT ![r] = "absent"]
  /\ Become(r, "cleaned") /\ Rest(r)
  /\ UNCHANGED <<process, cur, cancel, run, reg, work, art>>

\* Never a recursive deletion.
ResidueFails(r) ==
  /\ exec[r].pc = "residue" /\ path[r] # "absent"
  /\ Become(r, "cleanup_failed") /\ Rest(r)
  /\ UNCHANGED <<process, cur, cancel, run, disk, work, art>>

-----------------------------------------------------------------------------
\* The end of the process, and the next boot.

\* What an interrupted Git command may leave.
Interrupted(r) ==
  IF exec[r].pc = "add" THEN PathStates \X BOOLEAN
  ELSE IF exec[r].pc = "remove" /\ reg[r] THEN Remains(path[r]) \X BOOLEAN
  ELSE {<<path[r], reg[r]>>}

Crash ==
  /\ phase # "down" /\ crashes < MaxCrashes
  /\ phase' = "down" /\ crashes' = crashes + 1
  /\ path' \in [Runs -> PathStates] /\ reg' \in [Runs -> BOOLEAN]
  /\ \A r \in Runs : <<path'[r], reg'[r]>> \in Interrupted(r)
  /\ exec' = [r \in Runs |-> Idle]
  /\ UNCHANGED <<swept, cur, cancel, run, wt, work, art>>

\* reconcileTasks gives the run that was interrupted its outcome.
Boot ==
  /\ phase = "down"
  /\ phase' = "recovering" /\ swept' = 0
  /\ IF cur # 0 /\ run[cur].status = "open" THEN Conclude(cur, "failed") ELSE UNCHANGED run
  /\ UNCHANGED <<crashes, cur, cancel, exec, wt, disk, work, art>>

Quiet == \A r \in Runs : exec[r].pc = "idle"

VisitCreation(r) ==
  /\ wt[r] = "creating"
  /\ Become(r, "creation_failed") /\ Step(r, "cleanup")

VisitLeftover(r) ==
  /\ wt[r] \in {"creation_failed", "cleanup_pending", "cleanup_failed"}
  /\ Step(r, "cleanup")
  /\ UNCHANGED wt

\* (mutant) the last outcome of the task, whichever run's
VisitReadyByTask(r) ==
  /\ wt[r] = "ready"
  /\ IF run[cur].logged = None
     THEN UNCHANGED exec
     ELSE exec' = [exec EXCEPT ![r] = [pc |-> "collect",
            snapshot |-> [type |-> run[cur].logged, worktree |-> TRUE, exit |-> FALSE]]]
  /\ UNCHANGED wt

\* (mutant) a run without a terminal event ends the boot
VisitReadyOrBrick(r) ==
  /\ wt[r] = "ready" /\ run[r].logged # None
  /\ exec' = [exec EXCEPT ![r] = [pc |-> "collect",
       snapshot |-> [type |-> run[r].logged, worktree |-> TRUE, exit |-> FALSE]]]
  /\ UNCHANGED wt

\* A ready worktree goes through its run's own terminal event.
VisitReady(r) ==
  /\ wt[r] = "ready"
  /\ IF run[r].logged = None
     THEN UNCHANGED exec
     ELSE exec' = [exec EXCEPT ![r] = [pc |-> "collect",
            snapshot |-> [type |-> run[r].logged, worktree |-> TRUE, exit |-> FALSE]]]
  /\ UNCHANGED wt

VisitNothing(r) == wt[r] \in {None, "cleaned"} /\ UNCHANGED <<exec, wt>>

\* One record after the other, oldest first.
Reconcile(r) ==
  /\ phase = "recovering" /\ Quiet /\ r = swept + 1
  /\ swept' = r
  /\ VisitCreation(r) \/ VisitLeftover(r) \/ VisitReady(r) \/ VisitNothing(r)
  /\ UNCHANGED <<phase, crashes, cur, cancel, run, disk, work, art>>

Serve ==
  /\ phase = "recovering" /\ Quiet /\ swept = MaxRuns
  /\ phase' = "up" /\ swept' = 0
  /\ UNCHANGED <<crashes, cur, cancel, run, exec, wt, disk, work, art>>

Prepare(r) ==
  \/ Preflight(r) \/ PreflightThrows(r) \/ RecordCreation(r) \/ SourceRefused(r)
  \/ GitAdds(r) \/ CreationFails(r) \/ MarkReady(r)

EndAgent(r) ==
  \/ \E type \in Outcomes : AgentEnds(r, type)
  \/ AgentThrows(r) \/ StreamEnds(r)

Settle(r) ==
  \/ CreateArtifact(r) \/ ConfirmArtifact(r) \/ CollectFails(r)
  \/ RequestCleanup(r) \/ CleanupRefused(r) \/ GitRemoves(r) \/ RemovalFails(r)
  \/ MarkCleaned(r) \/ ResidueFails(r)

Next ==
  \/ \E r \in Runs : \/ Begin(r) \/ Prepare(r)
                     \/ AgentWrites(r) \/ LogOverflows(r) \/ EndAgent(r)
                     \/ Settle(r) \/ Reconcile(r)
  \/ RequestCancellation
  \/ Crash \/ Boot \/ Serve

Spec == Init /\ [][Next]_vars

\* Detection, Git and the agent's stream come to an end, well or badly, and a
\* process that is down is started again.
FairSpec ==
  /\ Spec
  /\ \A r \in Runs : WF_vars(Prepare(r)) /\ WF_vars(EndAgent(r)) /\ WF_vars(Settle(r))
  /\ \A r \in Runs : WF_vars(Reconcile(r))
  /\ WF_vars(Boot) /\ WF_vars(Serve)

-----------------------------------------------------------------------------
\* What the agent did is in the durable artifact before any part of its
\* worktree may go: across retries, failed collections, crashes and boots.
WorkIsKept ==
  \A r \in Runs :
    work[r] => \/ wt[r] = "ready" /\ path[r] = "content" /\ reg[r]
               \/ art[r] # None /\ art[r].tree = "changed"

\* An agent only works in a worktree that is ready and whose evidence nobody
\* has taken yet.
AgentHasItsWorktree ==
  \A r \in Runs :
    exec[r].pc = "stream" => wt[r] = "ready" /\ path[r] = "content" /\ reg[r] /\ art[r] = None

\* The artifact and the task never tell of different outcomes of one run.
ArtifactTellsTheOutcome ==
  \A r \in Runs :
    art[r] # None => /\ art[r].outcome = run[r].status
                     /\ run[r].logged \in {None, art[r].outcome}

\* Behind a record that says cleaned there is nothing, on disk or in Git.
CleanedMeansGone ==
  \A r \in Runs : wt[r] = "cleaned" => path[r] = "absent" /\ ~reg[r]

\* While requests are served, a record that says creating has its creation under
\* way: one that a crash or a failing command cut short never passes for that.
NoCreationIsForgotten ==
  phase = "up" => \A r \in Runs : wt[r] = "creating" => exec[r].pc \in {"add", "checkout"}

\* The invariant of the worktrees, through failing Git commands, crashes and
\* boots: the agent's work is kept, one artifact tells its outcome, and a record
\* says what is on the disk.
WorktreeInv ==
  /\ TypeOK
  /\ WorkIsKept
  /\ AgentHasItsWorktree
  /\ ArtifactTellsTheOutcome
  /\ CleanedMeansGone
  /\ NoCreationIsForgotten

\* The first artifact of a run is the only one.
ArtifactIsImmutable == [][\A r \in Runs : art[r] # None => art'[r] = art[r]]_vars

\* However Git fails, executions end and boots get to serve.
EverythingSettles == (phase # "up" \/ ~Quiet) ~> (phase = "up" /\ Quiet)

\* Reconciliation gives up on a worktree whose artifact exists only over an
\* artifact that contradicts the run's terminal event. Violated: the two sides
\* of a boot know the exit code differently (README, 8).
BlockedByMismatchOnly ==
  [][\A r \in Runs :
       (phase = "recovering" /\ phase' = "recovering" /\ exec[r].pc = "collect"
          /\ exec'[r].pc = "idle" /\ art[r] # None)
         => art[r].outcome # run[r].logged]_vars
=============================================================================
