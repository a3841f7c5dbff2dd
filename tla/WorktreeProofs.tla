---------------------------- MODULE WorktreeProofs ----------------------------
(***************************************************************************)
(* What holds of the isolated executions of a task for any number of runs  *)
(* and crashes: the agent's work is kept, one artifact tells its outcome,  *)
(* and a worktree record says what is on the disk.                         *)
(***************************************************************************)
EXTENDS AgentWorktree, TLAPS

\* What the process is doing about run r fits its records and its directory.
Fits(r) ==
  /\ r > cur => run[r].status = "none" /\ exec[r].pc = "idle"
  /\ run[r].status = "none" => wt[r] = None /\ art[r] = None
  /\ run[r].logged \in {None, run[r].status}
  /\ run[r].status = "open" => r = cur
  /\ exec[r].pc \in {"preflight", "prepare", "add", "checkout"} =>
       phase = "up" /\ run[r].status = "open" /\ art[r] = None /\ exec[r].snapshot = None /\ ~work[r]
  /\ exec[r].pc \in {"preflight", "prepare"} => wt[r] = None
  /\ exec[r].pc \in {"add", "checkout"} => wt[r] = "creating"
  /\ exec[r].pc = "checkout" => path[r] = "content" /\ reg[r]
  /\ exec[r].pc = "stream" =>
       /\ phase = "up" /\ wt[r] = "ready" /\ art[r] = None
       /\ exec[r].snapshot = None => run[r].status = "open"
       /\ exec[r].snapshot # None =>
            exec[r].snapshot.type = run[r].status /\ exec[r].snapshot.worktree
  /\ exec[r].pc = "collect" =>
       /\ exec[r].snapshot \in Snapshot /\ exec[r].snapshot.type = run[r].status
       /\ IF exec[r].snapshot.worktree THEN wt[r] = "ready" ELSE ~work[r]
  /\ exec[r].pc = "cleanup" =>
       /\ wt[r] \notin {None, "creating", "cleaned"}
       /\ wt[r] = "ready" => art[r] # None
  /\ exec[r].pc \in {"remove", "residue"} => wt[r] = "cleanup_pending"
  /\ exec[r].pc = "residue" => ~reg[r]
  /\ wt[r] = "ready" => path[r] = "content" /\ reg[r]
  /\ wt[r] = "cleaned" => path[r] = "absent" /\ ~reg[r] /\ exec[r].pc = "idle"
  /\ wt[r] \in {None, "creating", "creation_failed"} => ~work[r]
  /\ wt[r] \in {"cleanup_pending", "cleanup_failed", "cleaned"} /\ work[r] => art[r] # None
  /\ art[r] # None => /\ art[r].outcome = run[r].status
                      /\ work[r] => art[r].tree = "changed"
  /\ wt[r] = "creating" => /\ phase = "up" => exec[r].pc \in {"add", "checkout"}
                           /\ phase = "recovering" => swept < r
  /\ phase = "down" => exec[r].pc = "idle"
  /\ exec[r].pc = "idle" => exec[r].snapshot = None

Kept == TypeOK /\ \A r \in Runs : Fits(r)

-----------------------------------------------------------------------------
\* The types of one run's state.
LEMMA RunTypes ==
  ASSUME TypeOK, NEW r \in Runs
  PROVE  /\ r \in Nat /\ r # 0 /\ cur \in Nat /\ swept \in Nat
         /\ exec[r] \in Execution /\ exec[r].snapshot \in Snapshot \cup {None}
         /\ run[r].status \in {"none", "open"} \cup Outcomes /\ run[r].logged \in Outcomes \cup {None}
         /\ wt[r] \in WorktreeStatuses \cup {None} /\ path[r] \in PathStates /\ reg[r] \in BOOLEAN
         /\ work[r] \in BOOLEAN /\ art[r] \in Artifact \cup {None}
<1>1. /\ r \in Nat /\ r # 0 /\ cur \in Nat /\ swept \in Nat
      /\ wt[r] \in WorktreeStatuses \cup {None} /\ path[r] \in PathStates /\ reg[r] \in BOOLEAN
      /\ work[r] \in BOOLEAN /\ art[r] \in Artifact \cup {None} /\ exec[r] \in Execution
  BY BoundAssumption DEF TypeOK, Runs
<1>2. exec[r].snapshot \in Snapshot \cup {None}
  BY <1>1 DEF Execution
<1>3. run[r] \in [status : {"none", "open"} \cup Outcomes, logged : Outcomes \cup {None}]
  BY DEF TypeOK
<1>4. QED
  BY <1>1, <1>2, <1>3

\* None is no status of a worktree record, no outcome and no artifact.
LEMMA NoneDiffers ==
  /\ None # "creating" /\ None # "ready" /\ None # "creation_failed"
  /\ None # "cleanup_pending" /\ None # "cleaned" /\ None # "cleanup_failed"
  /\ None \notin Outcomes /\ None \notin Snapshot /\ None \notin Artifact
BY NoneAssumption DEF WorktreeStatuses

\* The execution of one run goes to another await.
LEMMA StepMoves ==
  ASSUME exec \in [Runs -> Execution], NEW r \in Runs,
         NEW place \in {"preflight", "prepare", "add", "checkout", "stream", "cleanup", "remove", "residue"},
         Step(r, place)
  PROVE  /\ exec' \in [Runs -> Execution] /\ exec'[r].pc = place
         /\ exec'[r].snapshot = exec[r].snapshot
         /\ \A s \in Runs : s # r => exec'[s] = exec[s]
<1>1. exec[r] \in Execution /\ exec' = [exec EXCEPT ![r] = [exec[r] EXCEPT !.pc = place]]
  BY DEF Step
<1>2. /\ [exec[r] EXCEPT !.pc = place] \in Execution
      /\ [exec[r] EXCEPT !.pc = place].pc = place
      /\ [exec[r] EXCEPT !.pc = place].snapshot = exec[r].snapshot
  BY <1>1 DEF Execution
<1>3. QED
  BY <1>1, <1>2

\* The execution of one run is over.
LEMMA RestMoves ==
  ASSUME exec \in [Runs -> Execution], NEW r \in Runs, Rest(r)
  PROVE  /\ exec' \in [Runs -> Execution] /\ exec'[r].pc = "idle" /\ exec'[r].snapshot = None
         /\ \A s \in Runs : s # r => exec'[s] = exec[s]
<1>1. Idle \in Execution /\ Idle.pc = "idle" /\ Idle.snapshot = None
  BY DEF Idle, Execution
<1>2. QED
  BY <1>1 DEF Rest

\* The evidence of one run is to be collected for a snapshot.
LEMMA CollectMoves ==
  ASSUME exec \in [Runs -> Execution], NEW r \in Runs, NEW type \in Outcomes,
         NEW worktree \in BOOLEAN, NEW exit \in BOOLEAN,
         exec' = [exec EXCEPT ![r] = [pc |-> "collect",
           snapshot |-> [type |-> type, worktree |-> worktree, exit |-> exit]]]
  PROVE  /\ exec' \in [Runs -> Execution] /\ exec'[r].pc = "collect"
         /\ exec'[r].snapshot \in Snapshot
         /\ exec'[r].snapshot.type = type /\ exec'[r].snapshot.worktree = worktree
         /\ \A s \in Runs : s # r => exec'[s] = exec[s]
<1> DEFINE shot == [type |-> type, worktree |-> worktree, exit |-> exit]
<1>1. shot \in Snapshot /\ shot.type = type /\ shot.worktree = worktree
  BY DEF Snapshot
<1> HIDE DEF shot
<1>2. [pc |-> "collect", snapshot |-> shot] \in Execution
  BY <1>1 DEF Execution
<1>3. exec' = [exec EXCEPT ![r] = [pc |-> "collect", snapshot |-> shot]]
  BY DEF shot
<1>4. QED
  BY <1>1, <1>2, <1>3

\* A concluded run has its outcome in its record, and no other in its log.
LEMMA Concludes ==
  ASSUME TypeOK, NEW r \in Runs, NEW type \in Outcomes, Conclude(r, type)
  PROVE  /\ run' \in [Runs -> [status : {"none", "open"} \cup Outcomes, logged : Outcomes \cup {None}]]
         /\ run'[r].status = type /\ run'[r].logged \in {None, type}
         /\ \A s \in Runs : s # r => run'[s] = run[s]
<1>1. PICK last \in {None, type} : run' = [run EXCEPT ![r] = [status |-> type, logged |-> last]]
  BY DEF Conclude
<1>2. run \in [Runs -> [status : {"none", "open"} \cup Outcomes, logged : Outcomes \cup {None}]]
  BY DEF TypeOK
<1>3. QED
  BY <1>1, <1>2

\* ... and its evidence is to be collected.
LEMMA ConcludesAndCollects ==
  ASSUME TypeOK, NEW r \in Runs, NEW type \in Outcomes, NEW worktree \in BOOLEAN, NEW exit \in BOOLEAN,
         ConcludeAndCollect(r, type, worktree, exit)
  PROVE  /\ run' \in [Runs -> [status : {"none", "open"} \cup Outcomes, logged : Outcomes \cup {None}]]
         /\ run'[r].status = type /\ run'[r].logged \in {None, type}
         /\ \A s \in Runs : s # r => run'[s] = run[s]
         /\ exec' \in [Runs -> Execution] /\ exec'[r].pc = "collect"
         /\ exec'[r].snapshot \in Snapshot
         /\ exec'[r].snapshot.type = type /\ exec'[r].snapshot.worktree = worktree
         /\ \A s \in Runs : s # r => exec'[s] = exec[s]
BY Concludes, CollectMoves DEF ConcludeAndCollect, TypeOK

\* What fits run s still does when a step leaves it alone.
LEMMA Untouched ==
  ASSUME NEW s \in Runs, Fits(s), UNCHANGED <<phase, swept, cur>>,
         exec'[s] = exec[s], run'[s] = run[s], wt'[s] = wt[s], path'[s] = path[s],
         reg'[s] = reg[s], work'[s] = work[s], art'[s] = art[s]
  PROVE  Fits(s)'
BY DEF Fits

\* A step of run r keeps everything kept when it keeps r's part.
LEMMA OneRun ==
  ASSUME Kept, NEW r \in Runs, UNCHANGED <<process, cur>>, cancel' \in BOOLEAN,
         exec' \in [Runs -> Execution], \A s \in Runs : s # r => exec'[s] = exec[s],
         run' \in [Runs -> [status : {"none", "open"} \cup Outcomes, logged : Outcomes \cup {None}]],
         \A s \in Runs : s # r => run'[s] = run[s],
         wt' \in [Runs -> WorktreeStatuses \cup {None}], \A s \in Runs : s # r => wt'[s] = wt[s],
         path' \in [Runs -> PathStates], \A s \in Runs : s # r => path'[s] = path[s],
         reg' \in [Runs -> BOOLEAN], \A s \in Runs : s # r => reg'[s] = reg[s],
         work' \in [Runs -> BOOLEAN], \A s \in Runs : s # r => work'[s] = work[s],
         art' \in [Runs -> Artifact \cup {None}], \A s \in Runs : s # r => art'[s] = art[s],
         Fits(r)'
  PROVE  Kept'
<1>1. TypeOK'
  BY DEF Kept, TypeOK, process
<1>2. ASSUME NEW s \in Runs, s # r PROVE Fits(s)'
  BY <1>2, Untouched DEF Kept, process
<1>3. QED
  BY <1>1, <1>2 DEF Kept

-----------------------------------------------------------------------------
\* The steps of a run.

\* Detection answers.
LEMMA PreflightKept ==
  ASSUME Kept, NEW r \in Runs, Preflight(r)
  PROVE  Kept'
<1>1. TypeOK /\ Fits(r)
  BY DEF Kept
<1>2. /\ UNCHANGED <<process, cur>> /\ cancel' \in BOOLEAN /\ exec[r].pc = "preflight"
      /\ wt' = wt /\ path' = path /\ reg' = reg /\ work' = work /\ art' = art
  BY <1>1 DEF Preflight, TypeOK, process, disk
<1>3. CASE CancelRequested(r)
  <2>1. ConcludeAndCollect(r, "cancelled", FALSE, FALSE) /\ "cancelled" \in Outcomes
    BY <1>3 DEF Preflight, StepUnlessCancelled, Outcomes
  <2>2. /\ run' \in [Runs -> [status : {"none", "open"} \cup Outcomes, logged : Outcomes \cup {None}]]
        /\ run'[r].status \in Outcomes /\ run'[r].logged \in {None, run'[r].status}
        /\ \A s \in Runs : s # r => run'[s] = run[s]
        /\ exec' \in [Runs -> Execution] /\ exec'[r].pc = "collect"
        /\ exec'[r].snapshot \in Snapshot
        /\ exec'[r].snapshot.type = run'[r].status /\ exec'[r].snapshot.worktree = FALSE
        /\ \A s \in Runs : s # r => exec'[s] = exec[s]
    BY <1>1, <2>1, ConcludesAndCollects
  <2>3. Fits(r)'
    BY <1>1, <1>2, <2>2, RunTypes, NoneDiffers DEF Fits, process, Outcomes
  <2>4. QED
    BY <1>1, <1>2, <2>2, <2>3, OneRun DEF TypeOK, Kept
<1>4. CASE ~CancelRequested(r)
  <2>1. Step(r, "prepare") /\ run' = run
    BY <1>4 DEF Preflight, StepUnlessCancelled
  <2>2. /\ exec' \in [Runs -> Execution] /\ exec'[r].pc = "prepare"
        /\ exec'[r].snapshot = exec[r].snapshot
        /\ \A s \in Runs : s # r => exec'[s] = exec[s]
    BY <1>1, <2>1, StepMoves DEF TypeOK
  <2>3. Fits(r)'
    BY <1>1, <1>2, <2>1, <2>2, RunTypes, NoneDiffers DEF Fits, process
  <2>4. QED
    BY <1>1, <1>2, <2>1, <2>2, <2>3, OneRun DEF TypeOK, Kept
<1>5. QED
  BY <1>3, <1>4

\* Detection throws.
LEMMA PreflightThrowsKept ==
  ASSUME Kept, NEW r \in Runs, PreflightThrows(r)
  PROVE  Kept'
<1>1. TypeOK /\ Fits(r)
  BY DEF Kept
<1>2. /\ UNCHANGED <<process, cur>> /\ cancel' \in BOOLEAN
      /\ wt' = wt /\ path' = path /\ reg' = reg /\ work' = work /\ art' = art
  BY <1>1 DEF PreflightThrows, TypeOK, process, disk
<1>3. exec[r].pc = "preflight"
  BY DEF PreflightThrows
<1>4. /\ run' \in [Runs -> [status : {"none", "open"} \cup Outcomes, logged : Outcomes \cup {None}]]
      /\ run'[r].status \in Outcomes /\ run'[r].logged \in {None, run'[r].status}
      /\ \A s \in Runs : s # r => run'[s] = run[s]
      /\ exec' \in [Runs -> Execution] /\ exec'[r].pc = "collect"
      /\ exec'[r].snapshot \in Snapshot
      /\ exec'[r].snapshot.type = run'[r].status /\ exec'[r].snapshot.worktree = FALSE
      /\ \A s \in Runs : s # r => exec'[s] = exec[s]
  <2>1. PICK type \in Outcomes : ConcludeAndCollect(r, type, FALSE, FALSE)
    BY DEF PreflightThrows, PreparationThrows, Outcomes
  <2>2. QED
    BY <1>1, <2>1, ConcludesAndCollects
<1>5. Fits(r)'
  BY <1>1, <1>2, <1>3, <1>4, RunTypes, NoneDiffers DEF Fits, process, Outcomes
<1>6. QED
  BY <1>1, <1>2, <1>3, <1>4, <1>5, OneRun DEF TypeOK, Kept

\* The source repository is not fit for a worktree.
LEMMA SourceRefusedKept ==
  ASSUME Kept, NEW r \in Runs, SourceRefused(r)
  PROVE  Kept'
<1>1. TypeOK /\ Fits(r)
  BY DEF Kept
<1>2. /\ UNCHANGED <<process, cur>> /\ cancel' \in BOOLEAN
      /\ wt' = wt /\ path' = path /\ reg' = reg /\ work' = work /\ art' = art
  BY <1>1 DEF SourceRefused, TypeOK, process, disk
<1>3. exec[r].pc = "prepare"
  BY DEF SourceRefused
<1>4. /\ run' \in [Runs -> [status : {"none", "open"} \cup Outcomes, logged : Outcomes \cup {None}]]
      /\ run'[r].status \in Outcomes /\ run'[r].logged \in {None, run'[r].status}
      /\ \A s \in Runs : s # r => run'[s] = run[s]
      /\ exec' \in [Runs -> Execution] /\ exec'[r].pc = "collect"
      /\ exec'[r].snapshot \in Snapshot
      /\ exec'[r].snapshot.type = run'[r].status /\ exec'[r].snapshot.worktree = FALSE
      /\ \A s \in Runs : s # r => exec'[s] = exec[s]
  <2>1. PICK type \in Outcomes : ConcludeAndCollect(r, type, FALSE, FALSE)
    BY DEF SourceRefused, PreparationThrows, Outcomes
  <2>2. QED
    BY <1>1, <2>1, ConcludesAndCollects
<1>5. Fits(r)'
  BY <1>1, <1>2, <1>3, <1>4, RunTypes, NoneDiffers DEF Fits, process, Outcomes
<1>6. QED
  BY <1>1, <1>2, <1>3, <1>4, <1>5, OneRun DEF TypeOK, Kept

\* The record comes before the worktree.
LEMMA RecordCreationKept ==
  ASSUME Kept, NEW r \in Runs, RecordCreation(r)
  PROVE  Kept'
<1>1. TypeOK /\ Fits(r)
  BY DEF Kept
<1>2. /\ UNCHANGED <<process, cur>> /\ cancel' \in BOOLEAN
      /\ run' = run /\ path' = path /\ reg' = reg /\ work' = work /\ art' = art
  BY <1>1 DEF RecordCreation, TypeOK, process, disk
<1>3. exec[r].pc = "prepare"
  BY DEF RecordCreation
<1>4. /\ exec' \in [Runs -> Execution] /\ exec'[r].pc = "add"
      /\ exec'[r].snapshot = exec[r].snapshot
      /\ \A s \in Runs : s # r => exec'[s] = exec[s]
  BY <1>1, StepMoves DEF RecordCreation, TypeOK
<1>5. wt' \in [Runs -> WorktreeStatuses \cup {None}] /\ wt'[r] = "creating"
      /\ \A s \in Runs : s # r => wt'[s] = wt[s]
  BY <1>1 DEF RecordCreation, Become, TypeOK, WorktreeStatuses
<1>6. Fits(r)'
  BY <1>1, <1>2, <1>3, <1>4, <1>5, RunTypes, NoneDiffers DEF Fits, process
<1>7. QED
  BY <1>1, <1>2, <1>3, <1>4, <1>5, <1>6, OneRun DEF TypeOK, Kept

\* Git adds the worktree.
LEMMA GitAddsKept ==
  ASSUME Kept, NEW r \in Runs, GitAdds(r)
  PROVE  Kept'
<1>1. TypeOK /\ Fits(r)
  BY DEF Kept
<1>2. /\ UNCHANGED <<process, cur>> /\ cancel' \in BOOLEAN
      /\ run' = run /\ wt' = wt /\ work' = work /\ art' = art
  BY <1>1 DEF GitAdds, TypeOK, process, disk
<1>3. exec[r].pc = "add"
  BY DEF GitAdds
<1>4. /\ exec' \in [Runs -> Execution] /\ exec'[r].pc = "checkout"
      /\ exec'[r].snapshot = exec[r].snapshot
      /\ \A s \in Runs : s # r => exec'[s] = exec[s]
  BY <1>1, StepMoves DEF GitAdds, TypeOK
<1>5. /\ path' \in [Runs -> PathStates] /\ path'[r] = "content" /\ \A s \in Runs : s # r => path'[s] = path[s]
      /\ reg' \in [Runs -> BOOLEAN] /\ reg'[r] = TRUE /\ \A s \in Runs : s # r => reg'[s] = reg[s]
  BY <1>1 DEF GitAdds, TypeOK, PathStates
<1>6. Fits(r)'
  BY <1>1, <1>2, <1>3, <1>4, <1>5, RunTypes, NoneDiffers DEF Fits, process
<1>7. QED
  BY <1>1, <1>2, <1>3, <1>4, <1>5, <1>6, OneRun DEF TypeOK, Kept

\* A worktree that could not be made.
LEMMA CreationFailsKept ==
  ASSUME Kept, NEW r \in Runs, CreationFails(r)
  PROVE  Kept'
<1>1. TypeOK /\ Fits(r)
  BY DEF Kept
<1>2. /\ UNCHANGED <<process, cur>> /\ cancel' \in BOOLEAN
      /\ work' = work /\ art' = art
  BY <1>1 DEF CreationFails, TypeOK, process, disk
<1>3. exec[r].pc \in {"add", "checkout"}
  BY DEF CreationFails
<1>4. wt' \in [Runs -> WorktreeStatuses \cup {None}] /\ wt'[r] = "creation_failed"
      /\ \A s \in Runs : s # r => wt'[s] = wt[s]
  BY <1>1 DEF CreationFails, Become, TypeOK, WorktreeStatuses
<1>5. /\ path' \in [Runs -> PathStates] /\ \A s \in Runs : s # r => path'[s] = path[s]
      /\ reg' \in [Runs -> BOOLEAN] /\ \A s \in Runs : s # r => reg'[s] = reg[s]
  BY <1>1 DEF CreationFails, TypeOK, disk
<1>6. /\ run' \in [Runs -> [status : {"none", "open"} \cup Outcomes, logged : Outcomes \cup {None}]]
      /\ run'[r].status \in Outcomes /\ run'[r].logged \in {None, run'[r].status}
      /\ \A s \in Runs : s # r => run'[s] = run[s]
      /\ exec' \in [Runs -> Execution] /\ exec'[r].pc = "collect"
      /\ exec'[r].snapshot \in Snapshot
      /\ exec'[r].snapshot.type = run'[r].status /\ exec'[r].snapshot.worktree = FALSE
      /\ \A s \in Runs : s # r => exec'[s] = exec[s]
  <2>1. PICK type \in Outcomes : ConcludeAndCollect(r, type, FALSE, FALSE)
    BY DEF CreationFails, PreparationThrows, Outcomes
  <2>2. QED
    BY <1>1, <2>1, ConcludesAndCollects
<1>7. Fits(r)'
  BY <1>1, <1>2, <1>3, <1>4, <1>5, <1>6, RunTypes, NoneDiffers DEF Fits, process, Outcomes
<1>8. QED
  BY <1>1, <1>2, <1>3, <1>4, <1>5, <1>6, <1>7, OneRun DEF TypeOK, Kept

\* The worktree is ready, and the agent starts.
LEMMA MarkReadyKept ==
  ASSUME Kept, NEW r \in Runs, MarkReady(r)
  PROVE  Kept'
<1>1. TypeOK /\ Fits(r)
  BY DEF Kept
<1>2. /\ UNCHANGED <<process, cur>> /\ cancel' \in BOOLEAN /\ exec[r].pc = "checkout"
      /\ path' = path /\ reg' = reg /\ work' = work /\ art' = art
  BY <1>1 DEF MarkReady, TypeOK, process, disk
<1>3. wt' \in [Runs -> WorktreeStatuses \cup {None}] /\ wt'[r] = "ready"
      /\ \A s \in Runs : s # r => wt'[s] = wt[s]
  BY <1>1 DEF MarkReady, Become, TypeOK, WorktreeStatuses
<1>4. CASE CancelRequested(r)
  <2>1. ConcludeAndCollect(r, "cancelled", TRUE, FALSE) /\ "cancelled" \in Outcomes
    BY <1>4 DEF MarkReady, StepUnlessCancelled, Outcomes
  <2>2. /\ run' \in [Runs -> [status : {"none", "open"} \cup Outcomes, logged : Outcomes \cup {None}]]
        /\ run'[r].status \in Outcomes /\ run'[r].logged \in {None, run'[r].status}
        /\ \A s \in Runs : s # r => run'[s] = run[s]
        /\ exec' \in [Runs -> Execution] /\ exec'[r].pc = "collect"
        /\ exec'[r].snapshot \in Snapshot
        /\ exec'[r].snapshot.type = run'[r].status /\ exec'[r].snapshot.worktree = TRUE
        /\ \A s \in Runs : s # r => exec'[s] = exec[s]
    BY <1>1, <2>1, ConcludesAndCollects
  <2>3. Fits(r)'
    BY <1>1, <1>2, <1>3, <2>2, RunTypes, NoneDiffers DEF Fits, process, Outcomes
  <2>4. QED
    BY <1>1, <1>2, <1>3, <2>2, <2>3, OneRun DEF TypeOK, Kept
<1>5. CASE ~CancelRequested(r)
  <2>1. Step(r, "stream") /\ run' = run
    BY <1>5 DEF MarkReady, StepUnlessCancelled
  <2>2. /\ exec' \in [Runs -> Execution] /\ exec'[r].pc = "stream"
        /\ exec'[r].snapshot = exec[r].snapshot
        /\ \A s \in Runs : s # r => exec'[s] = exec[s]
    BY <1>1, <2>1, StepMoves DEF TypeOK
  <2>3. Fits(r)'
    BY <1>1, <1>2, <1>3, <2>1, <2>2, RunTypes, NoneDiffers DEF Fits, process
  <2>4. QED
    BY <1>1, <1>2, <1>3, <2>1, <2>2, <2>3, OneRun DEF TypeOK, Kept
<1>6. QED
  BY <1>4, <1>5

\* The agent changes a file.
LEMMA AgentWritesKept ==
  ASSUME Kept, NEW r \in Runs, AgentWrites(r)
  PROVE  Kept'
<1>1. TypeOK /\ Fits(r)
  BY DEF Kept
<1>2. /\ UNCHANGED <<process, cur>> /\ cancel' \in BOOLEAN
      /\ exec' = exec /\ run' = run /\ wt' = wt /\ path' = path /\ reg' = reg /\ art' = art
  BY <1>1 DEF AgentWrites, TypeOK, process, disk
<1>3. exec[r].pc = "stream"
  BY DEF AgentWrites
<1>4. work' \in [Runs -> BOOLEAN] /\ work'[r] = TRUE /\ \A s \in Runs : s # r => work'[s] = work[s]
  BY <1>1 DEF AgentWrites, TypeOK
<1>5. Fits(r)'
  BY <1>1, <1>2, <1>3, <1>4, RunTypes, NoneDiffers DEF Fits, process
<1>6. QED
  BY <1>1, <1>2, <1>3, <1>4, <1>5, OneRun DEF TypeOK, Kept

\* The agent's terminal event decides the run.
LEMMA AgentEndsKept ==
  ASSUME Kept, NEW r \in Runs, NEW type \in Outcomes, AgentEnds(r, type)
  PROVE  Kept'
<1>1. TypeOK /\ Fits(r)
  BY DEF Kept
<1>2. /\ UNCHANGED <<process, cur>> /\ cancel' \in BOOLEAN
      /\ wt' = wt /\ path' = path /\ reg' = reg /\ work' = work /\ art' = art
  BY <1>1 DEF AgentEnds, TypeOK, process, disk
<1>3. exec[r].pc = "stream" /\ exec[r].snapshot = None
  BY DEF AgentEnds
<1>4. /\ exec' \in [Runs -> Execution] /\ exec'[r].pc = "collect"
      /\ exec'[r].snapshot \in Snapshot
      /\ exec'[r].snapshot.type = type /\ exec'[r].snapshot.worktree = TRUE
      /\ \A s \in Runs : s # r => exec'[s] = exec[s]
  BY <1>1, CollectMoves DEF AgentEnds, TypeOK
<1>5. /\ run' \in [Runs -> [status : {"none", "open"} \cup Outcomes, logged : Outcomes \cup {None}]]
      /\ run'[r].status = type /\ run'[r].logged = type
      /\ \A s \in Runs : s # r => run'[s] = run[s]
  BY <1>1 DEF AgentEnds, TypeOK
<1>6. Fits(r)'
  BY <1>1, <1>2, <1>3, <1>4, <1>5, RunTypes, NoneDiffers DEF Fits, process, Outcomes
<1>7. QED
  BY <1>1, <1>2, <1>3, <1>4, <1>5, <1>6, OneRun DEF TypeOK, Kept

\* The stream fails.
LEMMA AgentThrowsKept ==
  ASSUME Kept, NEW r \in Runs, AgentThrows(r)
  PROVE  Kept'
<1>1. TypeOK /\ Fits(r)
  BY DEF Kept
<1>2. /\ UNCHANGED <<process, cur>> /\ cancel' \in BOOLEAN
      /\ wt' = wt /\ path' = path /\ reg' = reg /\ work' = work /\ art' = art
  BY <1>1 DEF AgentThrows, TypeOK, process, disk
<1>3. exec[r].pc = "stream" /\ exec[r].snapshot = None
  BY DEF AgentThrows
<1>4. /\ run' \in [Runs -> [status : {"none", "open"} \cup Outcomes, logged : Outcomes \cup {None}]]
      /\ run'[r].status \in Outcomes /\ run'[r].logged \in {None, run'[r].status}
      /\ \A s \in Runs : s # r => run'[s] = run[s]
      /\ exec' \in [Runs -> Execution] /\ exec'[r].pc = "collect"
      /\ exec'[r].snapshot \in Snapshot
      /\ exec'[r].snapshot.type = run'[r].status /\ exec'[r].snapshot.worktree = TRUE
      /\ \A s \in Runs : s # r => exec'[s] = exec[s]
  <2>1. PICK type \in Outcomes, exit \in BOOLEAN : ConcludeAndCollect(r, type, TRUE, exit)
    BY DEF AgentThrows, Outcomes
  <2>2. /\ run' \in [Runs -> [status : {"none", "open"} \cup Outcomes, logged : Outcomes \cup {None}]]
        /\ run'[r].status = type /\ run'[r].logged \in {None, type}
        /\ \A s \in Runs : s # r => run'[s] = run[s]
    BY <1>1, <2>1, Concludes DEF ConcludeAndCollect
  <2>3. exec' = [exec EXCEPT ![r] = [pc |-> "collect",
           snapshot |-> [type |-> type, worktree |-> TRUE, exit |-> exit]]]
    BY <2>1 DEF ConcludeAndCollect
  <2>4. /\ exec' \in [Runs -> Execution] /\ exec'[r].pc = "collect"
        /\ exec'[r].snapshot \in Snapshot
        /\ exec'[r].snapshot.type = type /\ exec'[r].snapshot.worktree = TRUE
        /\ \A s \in Runs : s # r => exec'[s] = exec[s]
    BY <1>1, <2>3, CollectMoves DEF TypeOK
  <2>5. QED
    BY <2>2, <2>4
<1>5. Fits(r)'
  BY <1>1, <1>2, <1>3, <1>4, RunTypes, NoneDiffers DEF Fits, process, Outcomes
<1>6. QED
  BY <1>1, <1>2, <1>3, <1>4, <1>5, OneRun DEF TypeOK, Kept

\* The log refuses an event, and the stream goes on.
LEMMA LogOverflowsKept ==
  ASSUME Kept, NEW r \in Runs, LogOverflows(r)
  PROVE  Kept'
<1>1. TypeOK /\ Fits(r)
  BY DEF Kept
<1>2. /\ UNCHANGED <<process, cur>> /\ cancel' \in BOOLEAN
      /\ wt' = wt /\ path' = path /\ reg' = reg /\ work' = work /\ art' = art
  BY <1>1 DEF LogOverflows, TypeOK, process, disk
<1>3. exec[r].pc = "stream" /\ exec[r].snapshot = None
  BY DEF LogOverflows
<1>4. /\ exec' \in [Runs -> Execution] /\ exec'[r].pc = "stream"
      /\ exec'[r].snapshot \in Snapshot
      /\ exec'[r].snapshot.type = "failed" /\ exec'[r].snapshot.worktree = TRUE
      /\ \A s \in Runs : s # r => exec'[s] = exec[s]
  <2> DEFINE shot == [type |-> "failed", worktree |-> TRUE, exit |-> FALSE]
  <2>1. shot \in Snapshot /\ shot.type = "failed" /\ shot.worktree = TRUE
    BY DEF Snapshot, Outcomes
  <2> HIDE DEF shot
  <2>2. /\ [exec[r] EXCEPT !.snapshot = shot] \in Execution
        /\ [exec[r] EXCEPT !.snapshot = shot].pc = exec[r].pc
        /\ [exec[r] EXCEPT !.snapshot = shot].snapshot = shot
    BY <1>1, <2>1, RunTypes DEF Execution
  <2>3. exec' = [exec EXCEPT ![r] = [exec[r] EXCEPT !.snapshot = shot]]
    BY DEF LogOverflows, shot
  <2>4. QED
    BY <1>1, <1>3, <2>1, <2>2, <2>3 DEF TypeOK
<1>5. /\ run' \in [Runs -> [status : {"none", "open"} \cup Outcomes, logged : Outcomes \cup {None}]]
      /\ run'[r].status = "failed" /\ run'[r].logged \in {None, "failed"}
      /\ \A s \in Runs : s # r => run'[s] = run[s]
  BY <1>1, Concludes DEF LogOverflows, Outcomes
<1>6. Fits(r)'
  BY <1>1, <1>2, <1>3, <1>4, <1>5, RunTypes, NoneDiffers DEF Fits, process, Outcomes
<1>7. QED
  BY <1>1, <1>2, <1>3, <1>4, <1>5, <1>6, OneRun DEF TypeOK, Kept

\* The overrun stream ends.
LEMMA StreamEndsKept ==
  ASSUME Kept, NEW r \in Runs, StreamEnds(r)
  PROVE  Kept'
<1>1. TypeOK /\ Fits(r)
  BY DEF Kept
<1>2. /\ UNCHANGED <<process, cur>> /\ cancel' \in BOOLEAN
      /\ run' = run /\ wt' = wt /\ path' = path /\ reg' = reg /\ work' = work /\ art' = art
  BY <1>1 DEF StreamEnds, TypeOK, process, disk
<1>3. exec[r].pc = "stream" /\ exec[r].snapshot # None
  BY DEF StreamEnds
<1>4. /\ exec' \in [Runs -> Execution] /\ exec'[r].pc = "collect"
      /\ exec'[r].snapshot \in Snapshot
      /\ exec'[r].snapshot.type = exec[r].snapshot.type
      /\ exec'[r].snapshot.worktree = exec[r].snapshot.worktree
      /\ \A s \in Runs : s # r => exec'[s] = exec[s]
  <2>1. PICK exit \in BOOLEAN : exec' = [exec EXCEPT ![r].pc = "collect", ![r].snapshot.exit = exit]
    BY DEF StreamEnds
  <2> DEFINE shot == [exec[r].snapshot EXCEPT !.exit = exit]
  <2>2. exec[r].snapshot \in Snapshot
    BY <1>1, <1>3, RunTypes
  <2>3. /\ shot \in Snapshot /\ shot.type = exec[r].snapshot.type
        /\ shot.worktree = exec[r].snapshot.worktree
    BY <2>2 DEF Snapshot
  <2>4. exec' = [exec EXCEPT ![r] = [exec[r] EXCEPT !.pc = "collect", !.snapshot = shot]]
    BY <2>1
  <2> HIDE DEF shot
  <2>5. /\ [exec[r] EXCEPT !.pc = "collect", !.snapshot = shot] \in Execution
        /\ [exec[r] EXCEPT !.pc = "collect", !.snapshot = shot].pc = "collect"
        /\ [exec[r] EXCEPT !.pc = "collect", !.snapshot = shot].snapshot = shot
    BY <1>1, <2>3, RunTypes DEF Execution
  <2>6. QED
    BY <1>1, <2>3, <2>4, <2>5 DEF TypeOK
<1>5. Fits(r)'
  BY <1>1, <1>2, <1>3, <1>4, RunTypes, NoneDiffers DEF Fits, process
<1>6. QED
  BY <1>1, <1>2, <1>3, <1>4, <1>5, OneRun DEF TypeOK, Kept

\* The artifact is written once.
LEMMA CreateArtifactKept ==
  ASSUME Kept, NEW r \in Runs, CreateArtifact(r)
  PROVE  Kept'
<1>1. TypeOK /\ Fits(r)
  BY DEF Kept
<1>2. /\ UNCHANGED <<process, cur>> /\ cancel' \in BOOLEAN
      /\ run' = run /\ wt' = wt /\ path' = path /\ reg' = reg /\ work' = work
  BY <1>1 DEF CreateArtifact, TypeOK, process, disk
<1>3. exec[r].pc = "collect" /\ art[r] = None
  BY DEF CreateArtifact
<1>4. exec[r].snapshot \in Snapshot
  BY <1>1, <1>3 DEF Fits
<1>5. /\ art' \in [Runs -> Artifact \cup {None}] /\ art'[r] \in Artifact
      /\ art'[r].outcome = exec[r].snapshot.type
      /\ exec[r].snapshot.worktree /\ work[r] => art'[r].tree = "changed"
      /\ \A s \in Runs : s # r => art'[s] = art[s]
  <2>1. /\ Collected(r) \in Artifact /\ Collected(r).outcome = exec[r].snapshot.type
        /\ exec[r].snapshot.worktree /\ work[r] => Collected(r).tree = "changed"
    BY <1>4 DEF Collected, Tree, Artifact, Snapshot
  <2>2. art' = [art EXCEPT ![r] = Collected(r)]
    BY DEF CreateArtifact
  <2>3. QED
    BY <1>1, <2>1, <2>2 DEF TypeOK
<1>6. /\ art'[r].outcome = run[r].status /\ (work[r] => art'[r].tree = "changed")
      /\ art'[r] # None /\ (exec[r].snapshot.worktree => wt[r] = "ready")
      /\ (~exec[r].snapshot.worktree => ~work[r]) /\ run[r].status # "none" 
  BY <1>1, <1>2, <1>3, <1>4, <1>5, RunTypes, NoneDiffers DEF Fits, Snapshot, Outcomes
<1>7. /\ exec' \in [Runs -> Execution]
      /\ \/ exec'[r].pc = "cleanup" /\ exec[r].snapshot.worktree
         \/ exec'[r].pc = "idle" /\ exec'[r].snapshot = None
      /\ \A s \in Runs : s # r => exec'[s] = exec[s]
  BY <1>1, StepMoves, RestMoves DEF CreateArtifact, ThenClean, TypeOK
<1>8. Fits(r)'
  <2>1. CASE exec'[r].pc = "cleanup" /\ exec[r].snapshot.worktree
    BY <1>1, <1>2, <1>3, <1>6, <2>1, RunTypes, NoneDiffers DEF Fits, process
  <2>2. CASE exec'[r].pc = "idle" /\ exec'[r].snapshot = None
    BY <1>1, <1>2, <1>3, <1>6, <2>2, RunTypes, NoneDiffers DEF Fits, process
  <2>3. QED
    BY <1>7, <2>1, <2>2
<1>9. QED
  BY <1>1, <1>2, <1>3, <1>4, <1>5, <1>6, <1>7, <1>8, OneRun DEF TypeOK, Kept

\* An artifact that is there stays.
LEMMA ConfirmArtifactKept ==
  ASSUME Kept, NEW r \in Runs, ConfirmArtifact(r)
  PROVE  Kept'
<1>1. TypeOK /\ Fits(r)
  BY DEF Kept
<1>2. /\ UNCHANGED <<process, cur>> /\ cancel' \in BOOLEAN
      /\ run' = run /\ wt' = wt /\ path' = path /\ reg' = reg /\ work' = work /\ art' = art
  BY <1>1 DEF ConfirmArtifact, TypeOK, process, disk
<1>3. exec[r].pc = "collect" /\ art[r] # None
  BY DEF ConfirmArtifact
<1>4. exec[r].snapshot \in Snapshot
  BY <1>1, <1>3 DEF Fits
<1>5. /\ exec' \in [Runs -> Execution]
      /\ \/ exec'[r].pc = "cleanup" /\ exec[r].snapshot.worktree
         \/ exec'[r].pc = "idle" /\ exec'[r].snapshot = None
      /\ \A s \in Runs : s # r => exec'[s] = exec[s]
  BY <1>1, StepMoves, RestMoves DEF ConfirmArtifact, ThenClean, TypeOK
<1>6. Fits(r)'
  <2>1. CASE exec'[r].pc = "cleanup" /\ exec[r].snapshot.worktree
    BY <1>1, <1>2, <1>3, <1>4, <2>1, RunTypes, NoneDiffers DEF Fits, process
  <2>2. CASE exec'[r].pc = "idle" /\ exec'[r].snapshot = None
    BY <1>1, <1>2, <1>3, <1>4, <2>2, RunTypes, NoneDiffers DEF Fits, process
  <2>3. QED
    BY <1>5, <2>1, <2>2
<1>7. QED
  BY <1>1, <1>2, <1>3, <1>4, <1>5, <1>6, OneRun DEF TypeOK, Kept

\* No artifact, no cleanup.
LEMMA CollectFailsKept ==
  ASSUME Kept, NEW r \in Runs, CollectFails(r)
  PROVE  Kept'
<1>1. TypeOK /\ Fits(r)
  BY DEF Kept
<1>2. /\ UNCHANGED <<process, cur>> /\ cancel' \in BOOLEAN
      /\ run' = run /\ wt' = wt /\ path' = path /\ reg' = reg /\ work' = work /\ art' = art
  BY <1>1 DEF CollectFails, TypeOK, process, disk
<1>3. exec[r].pc = "collect"
  BY DEF CollectFails
<1>4. /\ exec' \in [Runs -> Execution] /\ exec'[r].pc = "idle" /\ exec'[r].snapshot = None
      /\ \A s \in Runs : s # r => exec'[s] = exec[s]
  BY <1>1, RestMoves DEF CollectFails, TypeOK
<1>5. Fits(r)'
  BY <1>1, <1>2, <1>3, <1>4, RunTypes, NoneDiffers DEF Fits, process
<1>6. QED
  BY <1>1, <1>2, <1>3, <1>4, <1>5, OneRun DEF TypeOK, Kept

\* The record asks for the removal first.
LEMMA RequestCleanupKept ==
  ASSUME Kept, NEW r \in Runs, RequestCleanup(r)
  PROVE  Kept'
<1>1. TypeOK /\ Fits(r)
  BY DEF Kept
<1>2. /\ UNCHANGED <<process, cur>> /\ cancel' \in BOOLEAN
      /\ run' = run /\ path' = path /\ reg' = reg /\ work' = work /\ art' = art
  BY <1>1 DEF RequestCleanup, TypeOK, process, disk
<1>3. exec[r].pc = "cleanup"
  BY DEF RequestCleanup
<1>4. /\ exec' \in [Runs -> Execution] /\ exec'[r].pc = "remove"
      /\ exec'[r].snapshot = exec[r].snapshot
      /\ \A s \in Runs : s # r => exec'[s] = exec[s]
  BY <1>1, StepMoves DEF RequestCleanup, TypeOK
<1>5. wt' \in [Runs -> WorktreeStatuses \cup {None}] /\ wt'[r] = "cleanup_pending"
      /\ \A s \in Runs : s # r => wt'[s] = wt[s]
  BY <1>1 DEF RequestCleanup, Become, TypeOK, WorktreeStatuses
<1>6. Fits(r)'
  BY <1>1, <1>2, <1>3, <1>4, <1>5, RunTypes, NoneDiffers DEF Fits, process, WorktreeStatuses
<1>7. QED
  BY <1>1, <1>2, <1>3, <1>4, <1>5, <1>6, OneRun DEF TypeOK, Kept

\* The cleanup does not start.
LEMMA CleanupRefusedKept ==
  ASSUME Kept, NEW r \in Runs, CleanupRefused(r)
  PROVE  Kept'
<1>1. TypeOK /\ Fits(r)
  BY DEF Kept
<1>2. /\ UNCHANGED <<process, cur>> /\ cancel' \in BOOLEAN
      /\ run' = run /\ wt' = wt /\ path' = path /\ reg' = reg /\ work' = work /\ art' = art
  BY <1>1 DEF CleanupRefused, TypeOK, process, disk
<1>3. exec[r].pc = "cleanup"
  BY DEF CleanupRefused
<1>4. /\ exec' \in [Runs -> Execution] /\ exec'[r].pc = "idle" /\ exec'[r].snapshot = None
      /\ \A s \in Runs : s # r => exec'[s] = exec[s]
  BY <1>1, RestMoves DEF CleanupRefused, TypeOK
<1>5. Fits(r)'
  BY <1>1, <1>2, <1>3, <1>4, RunTypes, NoneDiffers DEF Fits, process
<1>6. QED
  BY <1>1, <1>2, <1>3, <1>4, <1>5, OneRun DEF TypeOK, Kept

\* Git removes the worktree.
LEMMA GitRemovesKept ==
  ASSUME Kept, NEW r \in Runs, GitRemoves(r)
  PROVE  Kept'
<1>1. TypeOK /\ Fits(r)
  BY DEF Kept
<1>2. /\ UNCHANGED <<process, cur>> /\ cancel' \in BOOLEAN
      /\ run' = run /\ wt' = wt /\ work' = work /\ art' = art
  BY <1>1 DEF GitRemoves, TypeOK, process, disk
<1>3. exec[r].pc = "remove"
  BY DEF GitRemoves
<1>4. /\ exec' \in [Runs -> Execution] /\ exec'[r].pc = "residue"
      /\ exec'[r].snapshot = exec[r].snapshot
      /\ \A s \in Runs : s # r => exec'[s] = exec[s]
  BY <1>1, StepMoves DEF GitRemoves, TypeOK
<1>5. /\ path' \in [Runs -> PathStates] /\ \A s \in Runs : s # r => path'[s] = path[s]
      /\ reg' \in [Runs -> BOOLEAN] /\ \A s \in Runs : s # r => reg'[s] = reg[s]
      /\ reg'[r] = FALSE
  BY <1>1 DEF GitRemoves, TypeOK, PathStates, disk
<1>6. Fits(r)'
  BY <1>1, <1>2, <1>3, <1>4, <1>5, RunTypes, NoneDiffers DEF Fits, process
<1>7. QED
  BY <1>1, <1>2, <1>3, <1>4, <1>5, <1>6, OneRun DEF TypeOK, Kept

\* The removal fails.
LEMMA RemovalFailsKept ==
  ASSUME Kept, NEW r \in Runs, RemovalFails(r)
  PROVE  Kept'
<1>1. TypeOK /\ Fits(r)
  BY DEF Kept
<1>2. /\ UNCHANGED <<process, cur>> /\ cancel' \in BOOLEAN
      /\ run' = run /\ work' = work /\ art' = art
  BY <1>1 DEF RemovalFails, TypeOK, process, disk
<1>3. exec[r].pc = "remove"
  BY DEF RemovalFails
<1>4. /\ exec' \in [Runs -> Execution] /\ exec'[r].pc = "idle" /\ exec'[r].snapshot = None
      /\ \A s \in Runs : s # r => exec'[s] = exec[s]
  BY <1>1, RestMoves DEF RemovalFails, TypeOK
<1>5. wt' \in [Runs -> WorktreeStatuses \cup {None}] /\ wt'[r] = "cleanup_failed"
      /\ \A s \in Runs : s # r => wt'[s] = wt[s]
  BY <1>1 DEF RemovalFails, Become, TypeOK, WorktreeStatuses
<1>6. /\ path' \in [Runs -> PathStates] /\ \A s \in Runs : s # r => path'[s] = path[s]
      /\ reg' \in [Runs -> BOOLEAN] /\ \A s \in Runs : s # r => reg'[s] = reg[s]
  <2>1. Remains(path[r]) \subseteq PathStates
    BY <1>1, RunTypes DEF Remains, PathStates
  <2>2. QED
    BY <1>1, <2>1 DEF RemovalFails, TypeOK, disk
<1>7. Fits(r)'
  BY <1>1, <1>2, <1>3, <1>4, <1>5, <1>6, RunTypes, NoneDiffers DEF Fits, process
<1>8. QED
  BY <1>1, <1>2, <1>3, <1>4, <1>5, <1>6, <1>7, OneRun DEF TypeOK, Kept

\* Nothing is left.
LEMMA MarkCleanedKept ==
  ASSUME Kept, NEW r \in Runs, MarkCleaned(r)
  PROVE  Kept'
<1>1. TypeOK /\ Fits(r)
  BY DEF Kept
<1>2. /\ UNCHANGED <<process, cur>> /\ cancel' \in BOOLEAN
      /\ run' = run /\ reg' = reg /\ work' = work /\ art' = art
  BY <1>1 DEF MarkCleaned, TypeOK, process, disk
<1>3. exec[r].pc = "residue"
  BY DEF MarkCleaned
<1>4. /\ exec' \in [Runs -> Execution] /\ exec'[r].pc = "idle" /\ exec'[r].snapshot = None
      /\ \A s \in Runs : s # r => exec'[s] = exec[s]
  BY <1>1, RestMoves DEF MarkCleaned, TypeOK
<1>5. wt' \in [Runs -> WorktreeStatuses \cup {None}] /\ wt'[r] = "cleaned"
      /\ \A s \in Runs : s # r => wt'[s] = wt[s]
  BY <1>1 DEF MarkCleaned, Become, TypeOK, WorktreeStatuses
<1>6. path' \in [Runs -> PathStates] /\ path'[r] = "absent" /\ \A s \in Runs : s # r => path'[s] = path[s]
  BY <1>1 DEF MarkCleaned, TypeOK, PathStates
<1>7. Fits(r)'
  BY <1>1, <1>2, <1>3, <1>4, <1>5, <1>6, RunTypes, NoneDiffers DEF Fits, process
<1>8. QED
  BY <1>1, <1>2, <1>3, <1>4, <1>5, <1>6, <1>7, OneRun DEF TypeOK, Kept

\* Something is left.
LEMMA ResidueFailsKept ==
  ASSUME Kept, NEW r \in Runs, ResidueFails(r)
  PROVE  Kept'
<1>1. TypeOK /\ Fits(r)
  BY DEF Kept
<1>2. /\ UNCHANGED <<process, cur>> /\ cancel' \in BOOLEAN
      /\ run' = run /\ path' = path /\ reg' = reg /\ work' = work /\ art' = art
  BY <1>1 DEF ResidueFails, TypeOK, process, disk
<1>3. exec[r].pc = "residue"
  BY DEF ResidueFails
<1>4. /\ exec' \in [Runs -> Execution] /\ exec'[r].pc = "idle" /\ exec'[r].snapshot = None
      /\ \A s \in Runs : s # r => exec'[s] = exec[s]
  BY <1>1, RestMoves DEF ResidueFails, TypeOK
<1>5. wt' \in [Runs -> WorktreeStatuses \cup {None}] /\ wt'[r] = "cleanup_failed"
      /\ \A s \in Runs : s # r => wt'[s] = wt[s]
  BY <1>1 DEF ResidueFails, Become, TypeOK, WorktreeStatuses
<1>6. Fits(r)'
  BY <1>1, <1>2, <1>3, <1>4, <1>5, RunTypes, NoneDiffers DEF Fits, process
<1>7. QED
  BY <1>1, <1>2, <1>3, <1>4, <1>5, <1>6, OneRun DEF TypeOK, Kept

-----------------------------------------------------------------------------
\* The process and the task.

\* A run begins that nothing is known of yet.
LEMMA BeginKept ==
  ASSUME Kept, NEW r \in Runs, Begin(r)
  PROVE  Kept'
<1>1. TypeOK /\ Fits(r)
  BY DEF Kept
<1>2. /\ phase' = phase /\ phase = "up" /\ crashes' = crashes /\ swept' = swept /\ cur' = r /\ cancel' = FALSE
      /\ r = cur + 1 /\ (cur # 0 => run[cur].status = "failed")
      /\ wt' = wt /\ path' = path /\ reg' = reg /\ work' = work /\ art' = art
  BY DEF Begin, process, disk
<1>3. /\ exec' \in [Runs -> Execution] /\ exec'[r].pc = "preflight"
      /\ exec'[r].snapshot = exec[r].snapshot
      /\ \A s \in Runs : s # r => exec'[s] = exec[s]
  BY <1>1, StepMoves DEF Begin, TypeOK
<1>4. /\ run' \in [Runs -> [status : {"none", "open"} \cup Outcomes, logged : Outcomes \cup {None}]]
      /\ run'[r].status = "open" /\ run'[r].logged = run[r].logged
      /\ \A s \in Runs : s # r => run'[s] = run[s]
  <2>1. run \in [Runs -> [status : {"none", "open"} \cup Outcomes, logged : Outcomes \cup {None}]]
    BY <1>1 DEF TypeOK
  <2>2. run' = [run EXCEPT ![r].status = "open"]
    BY DEF Begin
  <2>3. QED
    BY <2>1, <2>2
<1>5. run[r].status = "none" /\ exec[r].pc = "idle" /\ r > cur
  BY <1>1, <1>2, RunTypes DEF Fits
<1>6. run[r].logged = None /\ exec[r].snapshot = None /\ ~work[r] /\ wt[r] = None /\ art[r] = None
  BY <1>1, <1>5, RunTypes, NoneDiffers DEF Fits, Outcomes
<1>7. Fits(r)'
  BY <1>1, <1>2, <1>3, <1>4, <1>5, <1>6, RunTypes, NoneDiffers DEF Fits
<1>8. ASSUME NEW s \in Runs, s # r PROVE Fits(s)'
  <2>1. Fits(s) /\ s \in Nat /\ s # 0 /\ cur \in Nat
    BY <1>1, RunTypes DEF Kept
  <2>2. run[s].status # "open"
    BY <1>2, <2>1 DEF Fits
  <2>3. s > r => s > cur
    BY <1>2, <2>1
  <2>4. QED
    BY <1>2, <1>3, <1>4, <1>8, <2>1, <2>2, <2>3 DEF Fits
<1>9. TypeOK'
  <2>1. r \in 0..MaxRuns
    BY BoundAssumption DEF Runs
  <2>2. QED
    BY <1>1, <1>2, <1>3, <1>4, <2>1 DEF TypeOK
<1>10. QED
  BY <1>7, <1>8, <1>9 DEF Kept

\* A cancellation is a flag.
LEMMA CancellationKept ==
  ASSUME Kept, RequestCancellation
  PROVE  Kept'
<1>1. /\ UNCHANGED <<phase, swept, cur>> /\ crashes' = crashes /\ cancel' = TRUE /\ exec' = exec
      /\ run' = run /\ wt' = wt /\ path' = path /\ reg' = reg /\ work' = work /\ art' = art
  BY DEF RequestCancellation, process, disk
<1>2. \A s \in Runs : Fits(s)'
  BY <1>1, Untouched DEF Kept
<1>3. TypeOK'
  BY <1>1 DEF Kept, TypeOK
<1>4. QED
  BY <1>2, <1>3 DEF Kept

\* A crash forgets what was going on, and may cut one Git command short.
LEMMA CrashKept ==
  ASSUME Kept, Crash
  PROVE  Kept'
<1>1. /\ TypeOK /\ phase' = "down" /\ crashes' \in 0..MaxCrashes
      /\ path' \in [Runs -> PathStates] /\ reg' \in [Runs -> BOOLEAN]
      /\ exec' = [r \in Runs |-> Idle]
      /\ swept' = swept /\ cur' = cur /\ cancel' = cancel /\ run' = run /\ wt' = wt /\ work' = work
      /\ art' = art
  BY BoundAssumption DEF Kept, Crash, TypeOK
<1>2. Idle \in Execution /\ Idle.pc = "idle" /\ Idle.snapshot = None
  BY DEF Idle, Execution
<1>3. ASSUME NEW s \in Runs PROVE Fits(s)'
  <2>1. Fits(s) /\ exec'[s].pc = "idle" /\ exec'[s].snapshot = None
    BY <1>1, <1>2 DEF Kept
  <2>2. wt[s] \in {"ready", "cleaned"} => path'[s] = path[s] /\ reg'[s] = reg[s]
    <3>1. wt[s] \in {"ready", "cleaned"} => exec[s].pc \notin {"add", "remove"}
      BY <2>1 DEF Fits
    <3>2. <<path'[s], reg'[s]>> \in Interrupted(s)
      BY DEF Crash
    <3>3. QED
      BY <3>1, <3>2 DEF Interrupted
  <2>3. QED
    BY <1>1, <2>1, <2>2, RunTypes, NoneDiffers DEF Fits
<1>4. TypeOK'
  BY <1>1, <1>2 DEF TypeOK
<1>5. QED
  BY <1>3, <1>4 DEF Kept

\* The next boot gives the interrupted run its outcome.
LEMMA BootKept ==
  ASSUME Kept, Boot
  PROVE  Kept'
<1>1. /\ TypeOK /\ phase = "down" /\ phase' = "recovering" /\ swept' = 0 /\ crashes' = crashes
      /\ cur' = cur /\ cancel' = cancel /\ exec' = exec /\ wt' = wt /\ path' = path /\ reg' = reg
      /\ work' = work /\ art' = art
  BY DEF Kept, Boot, disk
<1>2. \/ run' = run
      \/ /\ cur \in Runs /\ run[cur].status = "open" /\ Conclude(cur, "failed")
  BY <1>1, BoundAssumption DEF Boot, TypeOK, Runs
<1>3. /\ run' \in [Runs -> [status : {"none", "open"} \cup Outcomes, logged : Outcomes \cup {None}]]
      /\ \A s \in Runs : \/ run'[s] = run[s]
                         \/ /\ run[s].status = "open" /\ run'[s].status = "failed"
                            /\ run'[s].logged \in {None, "failed"}
  <2>1. CASE run' = run
    BY <1>1, <2>1 DEF TypeOK
  <2>2. CASE cur \in Runs /\ run[cur].status = "open" /\ Conclude(cur, "failed")
    <3>1. "failed" \in Outcomes
      BY DEF Outcomes
    <3>2. PICK c \in Runs : c = cur
      BY <2>2
    <3>3. /\ run' \in [Runs -> [status : {"none", "open"} \cup Outcomes, logged : Outcomes \cup {None}]]
          /\ run'[c].status = "failed" /\ run'[c].logged \in {None, "failed"}
          /\ \A s \in Runs : s # c => run'[s] = run[s]
      BY <1>1, <2>2, <3>1, <3>2, Concludes
    <3>4. QED
      BY <2>2, <3>2, <3>3
  <2>3. QED
    BY <1>2, <2>1, <2>2
<1>4. ASSUME NEW s \in Runs PROVE Fits(s)'
  <2>1. Fits(s) /\ exec[s].pc = "idle" /\ s \in Nat /\ s # 0
    BY <1>1, RunTypes DEF Kept, Fits
  <2>2. CASE run'[s] = run[s]
    BY <1>1, <2>1, <2>2, RunTypes DEF Fits
  <2>3. CASE run[s].status = "open" /\ run'[s].status = "failed" /\ run'[s].logged \in {None, "failed"}
    <3>1. art[s] = None
      <4>1. art[s] # None => art[s].outcome \in Outcomes
        BY <1>1, RunTypes DEF Artifact
      <4>2. QED
        BY <2>1, <2>3, <4>1 DEF Fits, Outcomes
    <3>2. cur = s
      BY <2>1, <2>3 DEF Fits
    <3>3. QED
      BY <1>1, <2>1, <2>3, <3>1, <3>2 DEF Fits
  <2>4. QED
    BY <1>3, <2>2, <2>3
<1>5. TypeOK'
  BY <1>1, <1>3, BoundAssumption DEF TypeOK
<1>6. QED
  BY <1>4, <1>5 DEF Kept

\* The boot looks at one record.
LEMMA ReconcileKept ==
  ASSUME Kept, NEW r \in Runs, Reconcile(r)
  PROVE  Kept'
<1>1. /\ TypeOK /\ Fits(r) /\ phase = "recovering" /\ phase' = phase /\ crashes' = crashes
      /\ swept' = r /\ r = swept + 1 /\ swept \in Nat
      /\ cur' = cur /\ cancel' = cancel /\ run' = run /\ path' = path /\ reg' = reg
      /\ work' = work /\ art' = art
      /\ exec[r].pc = "idle"
  BY RunTypes DEF Kept, Reconcile, Quiet, disk
<1>2. /\ exec' \in [Runs -> Execution] /\ \A s \in Runs : s # r => exec'[s] = exec[s]
      /\ wt' \in [Runs -> WorktreeStatuses \cup {None}] /\ \A s \in Runs : s # r => wt'[s] = wt[s]
      /\ Fits(r)'
  <2>1. CASE VisitCreation(r)
    <3>1. wt'[r] = "creation_failed" /\ wt[r] = "creating" /\ wt' \in [Runs -> WorktreeStatuses \cup {None}]
          /\ \A s \in Runs : s # r => wt'[s] = wt[s]
      BY <1>1, <2>1 DEF VisitCreation, Become, TypeOK, WorktreeStatuses
    <3>2. /\ exec' \in [Runs -> Execution] /\ exec'[r].pc = "cleanup"
          /\ \A s \in Runs : s # r => exec'[s] = exec[s]
      BY <1>1, <2>1, StepMoves DEF VisitCreation, TypeOK
    <3>3. r <= cur
      BY <1>1, <3>1, RunTypes, NoneDiffers DEF Fits
    <3>4. QED
      BY <1>1, <3>1, <3>2, <3>3, RunTypes, NoneDiffers DEF Fits
  <2>2. CASE VisitLeftover(r)
    <3>1. wt[r] \in {"creation_failed", "cleanup_pending", "cleanup_failed"} /\ wt' = wt
      BY <2>2 DEF VisitLeftover
    <3>2. /\ exec' \in [Runs -> Execution] /\ exec'[r].pc = "cleanup"
          /\ \A s \in Runs : s # r => exec'[s] = exec[s]
      BY <1>1, <2>2, StepMoves DEF VisitLeftover, TypeOK
    <3>3. r <= cur
      BY <1>1, <3>1, RunTypes, NoneDiffers DEF Fits
    <3>4. Fits(r)'
      BY <1>1, <3>1, <3>2, <3>3, RunTypes, NoneDiffers DEF Fits
    <3>5. QED
      BY <1>1, <3>1, <3>2, <3>4 DEF TypeOK
  <2>3. CASE VisitReady(r) /\ run[r].logged = None
    <3>1. wt[r] = "ready" /\ wt' = wt /\ exec' = exec
      BY <2>3 DEF VisitReady
    <3>2. Fits(r)'
      BY <1>1, <3>1, RunTypes DEF Fits
    <3>3. QED
      BY <1>1, <3>1, <3>2 DEF TypeOK
  <2>4. CASE VisitReady(r) /\ run[r].logged # None
    <3>1. wt[r] = "ready" /\ wt' = wt
      BY <2>4 DEF VisitReady
    <3>2. PICK type \in Outcomes : type = run[r].logged
      BY <1>1, <2>4, RunTypes
    <3>3. exec' = [exec EXCEPT ![r] = [pc |-> "collect",
            snapshot |-> [type |-> type, worktree |-> TRUE, exit |-> FALSE]]]
      BY <2>4, <3>2 DEF VisitReady
    <3>4. /\ exec' \in [Runs -> Execution] /\ exec'[r].pc = "collect"
          /\ exec'[r].snapshot \in Snapshot
          /\ exec'[r].snapshot.type = type /\ exec'[r].snapshot.worktree = TRUE
          /\ \A s \in Runs : s # r => exec'[s] = exec[s]
      BY <1>1, <3>3, CollectMoves DEF TypeOK
    <3>5. run[r].status = type /\ r <= cur
      BY <1>1, <2>4, <3>1, <3>2, RunTypes, NoneDiffers DEF Fits
    <3>6. Fits(r)'
      BY <1>1, <3>1, <3>4, <3>5, RunTypes, NoneDiffers DEF Fits
    <3>7. QED
      BY <1>1, <3>1, <3>4, <3>6 DEF TypeOK
  <2>5. CASE VisitNothing(r)
    <3>1. wt[r] \in {None, "cleaned"} /\ wt' = wt /\ exec' = exec
      BY <2>5 DEF VisitNothing
    <3>2. Fits(r)'
      BY <1>1, <3>1, RunTypes, NoneDiffers DEF Fits
    <3>3. QED
      BY <1>1, <3>1, <3>2 DEF TypeOK
  <2>6. QED
    BY <2>1, <2>2, <2>3, <2>4, <2>5 DEF Reconcile
<1>3. ASSUME NEW s \in Runs, s # r PROVE Fits(s)'
  <2>1. Fits(s) /\ s \in Nat
    BY <1>1, RunTypes DEF Kept
  <2>2. swept < s => swept' < s
    BY <1>1, <1>3, <2>1
  <2>3. QED
    BY <1>1, <1>2, <1>3, <2>1, <2>2 DEF Fits
<1>4. TypeOK'
  <2>1. r \in 0..MaxRuns
    BY BoundAssumption DEF Runs
  <2>2. QED
    BY <1>1, <1>2, <2>1 DEF TypeOK
<1>5. QED
  BY <1>2, <1>3, <1>4 DEF Kept

\* The boot has looked at every record.
LEMMA ServeKept ==
  ASSUME Kept, Serve
  PROVE  Kept'
<1>1. /\ TypeOK /\ phase = "recovering" /\ phase' = "up" /\ swept = MaxRuns /\ swept' = 0
      /\ crashes' = crashes /\ cur' = cur /\ cancel' = cancel /\ run' = run /\ exec' = exec
      /\ wt' = wt /\ path' = path /\ reg' = reg /\ work' = work /\ art' = art
  BY DEF Kept, Serve, disk
<1>2. ASSUME NEW s \in Runs PROVE Fits(s)'
  <2>1. Fits(s) /\ exec[s].pc = "idle" /\ ~(swept < s)
    BY <1>1, BoundAssumption DEF Kept, Serve, Quiet, Runs
  <2>2. wt[s] # "creating"
    BY <1>1, <2>1 DEF Fits
  <2>3. QED
    BY <1>1, <2>1, <2>2 DEF Fits
<1>3. TypeOK'
  BY <1>1, BoundAssumption DEF TypeOK
<1>4. QED
  BY <1>2, <1>3 DEF Kept

-----------------------------------------------------------------------------
\* Before the first run.
LEMMA InitKept == Init => Kept
<1> SUFFICES ASSUME Init PROVE Kept
  OBVIOUS
<1>1. Idle \in Execution /\ Idle.pc = "idle" /\ Idle.snapshot = None
  BY DEF Idle, Execution
<1>2. TypeOK
  <2>1. [status |-> "none", logged |-> None] \in
          [status : {"none", "open"} \cup Outcomes, logged : Outcomes \cup {None}]
    OBVIOUS
  <2>2. run \in [Runs -> [status : {"none", "open"} \cup Outcomes, logged : Outcomes \cup {None}]]
    BY <2>1 DEF Init
  <2>3. exec \in [Runs -> Execution]
    BY <1>1 DEF Init
  <2>4. path \in [Runs -> PathStates]
    BY DEF Init, PathStates
  <2>5. 0 \in 0..MaxRuns /\ 0 \in 0..MaxCrashes
    BY BoundAssumption
  <2>6. QED
    BY <2>2, <2>3, <2>4, <2>5 DEF Init, TypeOK
<1>3. ASSUME NEW r \in Runs PROVE Fits(r)
  <2>1. /\ run[r].status = "none" /\ run[r].logged = None /\ exec[r].pc = "idle"
        /\ exec[r].snapshot = None /\ wt[r] = None /\ art[r] = None /\ work[r] = FALSE /\ phase = "up"
    BY <1>1 DEF Init
  <2>2. QED
    BY <2>1, NoneDiffers DEF Fits
<1>4. QED
  BY <1>2, <1>3 DEF Kept

\* Every step keeps what is kept.
LEMMA NextKept == Kept /\ [Next]_vars => Kept'
<1> SUFFICES ASSUME Kept, [Next]_vars PROVE Kept'
  OBVIOUS
<1>1. ASSUME NEW r \in Runs, Prepare(r) PROVE Kept'
  BY <1>1, PreflightKept, PreflightThrowsKept, RecordCreationKept, SourceRefusedKept, GitAddsKept,
     CreationFailsKept, MarkReadyKept DEF Prepare
<1>2. ASSUME NEW r \in Runs, EndAgent(r) PROVE Kept'
  BY <1>2, AgentEndsKept, AgentThrowsKept, StreamEndsKept DEF EndAgent
<1>3. ASSUME NEW r \in Runs, Settle(r) PROVE Kept'
  BY <1>3, CreateArtifactKept, ConfirmArtifactKept, CollectFailsKept, RequestCleanupKept,
     CleanupRefusedKept, GitRemovesKept, RemovalFailsKept, MarkCleanedKept, ResidueFailsKept DEF Settle
<1>4. CASE UNCHANGED vars
  <2>1. /\ UNCHANGED <<phase, swept, cur>> /\ crashes' = crashes /\ cancel' = cancel /\ exec' = exec
        /\ run' = run /\ wt' = wt /\ path' = path /\ reg' = reg /\ work' = work /\ art' = art
    BY <1>4 DEF vars
  <2>2. \A s \in Runs : Fits(s)'
    BY <2>1, Untouched DEF Kept
  <2>3. TypeOK'
    BY <2>1 DEF Kept, TypeOK
  <2>4. QED
    BY <2>2, <2>3 DEF Kept
<1>5. QED
  BY <1>1, <1>2, <1>3, <1>4, BeginKept, AgentWritesKept, LogOverflowsKept, ReconcileKept,
     CancellationKept, CrashKept, BootKept, ServeKept DEF Next

\* What is kept is what the runs check.
LEMMA KeptIsEnough == Kept => WorktreeInv
<1> SUFFICES ASSUME Kept PROVE WorktreeInv
  OBVIOUS
<1>1. WorkIsKept
  <2>1. ASSUME NEW r \in Runs, work[r]
        PROVE  \/ wt[r] = "ready" /\ path[r] = "content" /\ reg[r]
               \/ art[r] # None /\ art[r].tree = "changed"
    BY <2>1, RunTypes, NoneDiffers DEF Kept, Fits, WorktreeStatuses
  <2>2. QED
    BY <2>1 DEF WorkIsKept
<1>2. AgentHasItsWorktree
  BY DEF Kept, Fits, AgentHasItsWorktree
<1>3. ArtifactTellsTheOutcome
  BY DEF Kept, Fits, ArtifactTellsTheOutcome
<1>4. CleanedMeansGone
  BY DEF Kept, Fits, CleanedMeansGone
<1>5. NoCreationIsForgotten
  BY DEF Kept, Fits, NoCreationIsForgotten
<1>6. QED
  BY <1>1, <1>2, <1>3, <1>4, <1>5 DEF Kept, WorktreeInv

\* The agent's work, the artifact and the worktree's record agree, for any
\* number of runs and crashes and whatever Git does.
THEOREM WorkSurvives == Spec => []WorktreeInv
<1>1. QED
  BY InitKept, NextKept, KeptIsEnough, PTL DEF Spec

\* An artifact is written where there is none.
LEMMA StepWritesOnce == Kept /\ [Next]_vars => [\A r \in Runs : art[r] # None => art'[r] = art[r]]_vars
<1> SUFFICES ASSUME Kept, [Next]_vars, NEW s \in Runs, art[s] # None PROVE art'[s] = art[s]
  OBVIOUS
<1>1. ASSUME NEW r \in Runs, CreateArtifact(r) PROVE art'[s] = art[s]
  <2>1. art[r] = None /\ art' = [art EXCEPT ![r] = Collected(r)] /\ r # s
    BY <1>1 DEF CreateArtifact
  <2>2. QED
    BY <2>1 DEF Kept, TypeOK
<1>2. ASSUME art' = art PROVE art'[s] = art[s]
  BY <1>2
<1>3. ASSUME NEW r \in Runs, Prepare(r) \/ EndAgent(r) PROVE art' = art
  BY <1>3 DEF Prepare, Preflight, PreflightThrows, RecordCreation, SourceRefused, GitAdds,
     CreationFails, MarkReady, EndAgent, AgentEnds, AgentThrows, StreamEnds
<1>4. ASSUME NEW r \in Runs, Settle(r), ~CreateArtifact(r) PROVE art' = art
  BY <1>4 DEF Settle, ConfirmArtifact, CollectFails, RequestCleanup, CleanupRefused, GitRemoves,
     RemovalFails, MarkCleaned, ResidueFails
<1>5. ASSUME NEW r \in Runs, Begin(r) \/ AgentWrites(r) \/ LogOverflows(r) \/ Reconcile(r)
      PROVE  art' = art
  BY <1>5 DEF Begin, AgentWrites, LogOverflows, Reconcile
<1>6. CASE RequestCancellation \/ Crash \/ Boot \/ Serve \/ UNCHANGED vars
  BY <1>6 DEF RequestCancellation, Crash, Boot, Serve, vars
<1>7. QED
  BY <1>1, <1>2, <1>3, <1>4, <1>5, <1>6 DEF Next

\* The first artifact of a run is the only one, for any number of runs.
THEOREM ArtifactsStay == Spec => ArtifactIsImmutable
<1>1. QED
  BY InitKept, NextKept, StepWritesOnce, PTL DEF Spec, ArtifactIsImmutable

=============================================================================
