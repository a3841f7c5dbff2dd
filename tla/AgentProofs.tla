---------------------------- MODULE AgentProofs ----------------------------
(***************************************************************************)
(* What holds of the two places where agents run.                          *)
(*                                                                         *)
(* A comparison of two agents, for any commits of the source repository    *)
(* and any number of cleanups and deaths of the process: its candidates    *)
(* run one at a time from one commit, their outcomes are what their logs   *)
(* tell, and a cleanup waits for git, is complete when it says so, and is  *)
(* final.                                                                  *)
(*                                                                         *)
(* A task's run over any of the three adapters, for every number of lines  *)
(* and every tolerance: the outcome its reader is told is borne out by     *)
(* what the agent wrote and how it ended, a run that is over sends no      *)
(* signal, and a cancellation before the launch is in time.                *)
(*                                                                         *)
(* The invariant of a run has three parts, in this order.  Of AgentRun:    *)
(* what every method of the run object keeps of its fields (Sound), and    *)
(* what the run knows of its process (Matched).  Of HermesRun: what the    *)
(* transport, its parser and its reader keep (HSound), what the pipe holds *)
(* of what was written (Piped), what is known of the process (Followed)    *)
(* and which lines a run that may still be believed has read (Borne).  Of  *)
(* AdapterRun: that the machine which is not running, or not running yet,  *)
(* rests in its initial state, and the run of an early cancellation is     *)
(* either untouched but for the recorded cancellation or answered with it. *)
(*                                                                         *)
(* A chunk of lines is read by a recursive function on its length.  What   *)
(* it computes is shown by induction over the lines, which takes the       *)
(* least counterexample in the well-founded order of the naturals          *)
(* (SetInduction), after the function that the definition names is shown   *)
(* to exist (ChunkIsRead, ChunkIsParsed).                                  *)
(***************************************************************************)
EXTENDS Comparison, AdapterRun, SequenceTheorems, WellFoundedInduction, TLAPS

-----------------------------------------------------------------------------
(* Comparisons. *)

\* A process that recovers has none of the work of the one that died.
QuietRecovery ==
  mode = "recovering" =>
    /\ starting = {} /\ capturing = {} /\ doing.what = "none"
    /\ prep.at = "none" /\ clean.at = "none" /\ \A c \in Candidates : exec[c] = "none"

\* A preparation under way has recorded what it has cut, at its own commit.
Prepares ==
  /\ prep.at # "none" => status = "preparing" /\ mode = "up"
  /\ prep.at \in {"inspect", "rollback"} => paths = {}
  /\ prep.at = "inspect" => prep.who = First
  /\ prep.at \in {"add", "check"} =>
       IF prep.who = First THEN paths = {}
       ELSE (paths = {First} \/ doing.what = "ready") /\ tree[First] = prep.base
  /\ prep.at = "check" => tree[prep.who] = prep.base
  /\ doing.what = "ready" => prep.at = "check" /\ prep.who = Second /\ paths = Candidates
  /\ status \in {"draft", "preparing"} => base = 0 /\ \A c \in Candidates : ~cand[c].run
  /\ status = "draft" => paths = {}

\* The row of candidate c, its log, and what the process does for it.
Fits(c) ==
  LET s == cand[c].status ended == log[c] \in Endings IN
  /\ ~cand[c].run => log[c] = "open" /\ exec[c] = "none" /\ c \notin starting \cup capturing /\ s # "running"
  /\ cand[c].run => s \in Endings \cup {"running"}
  /\ Ended(c) /\ cand[c].run => s = log[c] \/ (s = "failed" /\ cand[c].core /\ ended)
  /\ ended => \/ Ended(c) \/ c \in capturing \/ mode = "recovering"
              \/ doing.what \in {"project", "report", "giveup", "complete"} /\ doing.who = c
  /\ c \in starting => s = "running" /\ ~ended /\ exec[c] = "none" /\ c \notin capturing
  /\ c \in capturing => ended /\ exec[c] \in {"ended", "none"}
  /\ exec[c] = "detecting" => s = "running" /\ ~ended
  /\ exec[c] = "streaming" =>
       /\ ~ended => s = "running"
       /\ ended => cand[c].core \/ (doing.what \in {"report", "giveup"} /\ doing.who = c)
  /\ Busy(c) /\ ~cand[c].core => s = "running"
  /\ s = "running" => cand[Other(c)].status # "running"
  /\ doing.who = c =>
       /\ doing.what \in {"project", "report", "giveup"} => ended /\ s = "running"
       /\ doing.what = "complete" => ended
       /\ doing.what \in {"project", "complete"} => exec[c] = "ended" /\ c \notin capturing

\* The worktrees on disk, the recorded ones and the record of the comparison.
Stands ==
  /\ base # 0 => \A c \in Candidates : tree[c] # 0 => c \in paths
  /\ WorktreesShareTheBase
  /\ cleanup = "completed" => status = "cleaned" /\ paths = {}

\* A cleanup under way.
Cleans ==
  /\ clean.at = "none" => clean.ran = {}
  /\ clean.at # "none" =>
       /\ cleanup = "in_progress" /\ status \notin {"draft", "preparing", "ready", "running"}
       /\ clean.ran \cap starting = {}
  /\ clean.at \in {"executions", "finalizations"} => clean.failed = {}
  /\ clean.at = "executions" => \A c \in clean.ran : c \in clean.wait \/ exec[c] = "none"
  /\ clean.at \in {"finalizations", "remove", "forget"} /\ ~clean.late =>
       \A c \in clean.ran : exec[c] = "none" /\ (c \in capturing => clean.at = "finalizations" /\ c \in clean.wait)
  /\ clean.at \in {"remove", "forget"} =>
       status = "cleaning" /\ paths = clean.todo \cup clean.failed /\ clean.todo \cap clean.failed = {}
  /\ clean.at = "forget" => NextWorktree \in clean.todo /\ tree[NextWorktree] = 0

ComparisonSound ==
  /\ ComparisonTypeOK /\ QuietRecovery /\ Prepares /\ Stands /\ Cleans
  /\ \A c \in Candidates : Fits(c)

-----------------------------------------------------------------------------
Row == [status : CandidateStatus, run : BOOLEAN, cancel : BOOLEAN, core : BOOLEAN]
Preparation == [at : {"none", "inspect", "add", "check", "rollback"}, who : Candidates,
                base : 0..Commits, head : 1..Commits]
CleanupRecord == [at : {"none", "executions", "finalizations", "remove", "forget"}, wait : SUBSET Candidates,
            todo : SUBSET Candidates, failed : SUBSET Candidates, ran : SUBSET Candidates, late : BOOLEAN]
Doing == [what : {"none", "ready", "cleanup", "project", "report", "giveup", "complete"}, who : Candidates]

\* The types of the state, part by part.
LEMMA Types ==
  ASSUME ComparisonTypeOK
  PROVE  /\ cand \in [Candidates -> Row] /\ log \in [Candidates -> Endings \cup {"open"}]
         /\ tree \in [Candidates -> 0..Commits]
         /\ exec \in [Candidates -> {"none", "detecting", "streaming", "ended"}]
         /\ prep \in Preparation /\ clean \in CleanupRecord /\ doing \in Doing
         /\ prep.at \in {"none", "inspect", "add", "check", "rollback"} /\ prep.who \in Candidates
         /\ prep.base \in 0..Commits /\ prep.head \in 1..Commits
         /\ clean.at \in {"none", "executions", "finalizations", "remove", "forget"}
         /\ clean.wait \subseteq Candidates /\ clean.todo \subseteq Candidates
         /\ clean.failed \subseteq Candidates /\ clean.ran \subseteq Candidates /\ clean.late \in BOOLEAN
         /\ doing.who \in Candidates
<1>1. /\ cand \in [Candidates -> Row] /\ log \in [Candidates -> Endings \cup {"open"}]
      /\ tree \in [Candidates -> 0..Commits]
      /\ exec \in [Candidates -> {"none", "detecting", "streaming", "ended"}]
      /\ prep \in Preparation /\ clean \in CleanupRecord /\ doing \in Doing
  BY DEF ComparisonTypeOK, Row, Preparation, CleanupRecord, Doing
<1>2. /\ prep.at \in {"none", "inspect", "add", "check", "rollback"} /\ prep.who \in Candidates
      /\ prep.base \in 0..Commits /\ prep.head \in 1..Commits
  BY <1>1 DEF Preparation
<1>3. /\ clean.at \in {"none", "executions", "finalizations", "remove", "forget"}
      /\ clean.wait \subseteq Candidates /\ clean.todo \subseteq Candidates
      /\ clean.failed \subseteq Candidates /\ clean.ran \subseteq Candidates /\ clean.late \in BOOLEAN
  BY <1>1 DEF CleanupRecord
<1>4. doing.who \in Candidates
  BY <1>1 DEF Doing
<1>5. QED
  BY <1>1, <1>2, <1>3, <1>4

\* The state is of its type when its parts are.
LEMMA TypesSuffice ==
  ASSUME /\ cand' \in [Candidates -> Row] /\ log' \in [Candidates -> Endings \cup {"open"}]
         /\ tree' \in [Candidates -> 0..Commits]
         /\ exec' \in [Candidates -> {"none", "detecting", "streaming", "ended"}]
         /\ prep' \in Preparation /\ clean' \in CleanupRecord /\ doing' \in Doing
         /\ status' \in ComparisonStatus /\ cleanup' \in {"not_started", "in_progress", "completed", "failed"}
         /\ base' \in 0..Commits /\ paths' \subseteq Candidates /\ behind' \subseteq Candidates
         /\ mode' \in {"up", "recovering"} /\ starting' \subseteq Candidates
         /\ aborted' \subseteq Candidates /\ capturing' \subseteq Candidates
         /\ cleanups' \in 0..MaxCleanups /\ crashes' \in 0..MaxCrashes
  PROVE  ComparisonTypeOK'
BY DEF ComparisonTypeOK, Row, Preparation, CleanupRecord, Doing

\* There are two candidates.
LEMMA Others ==
  ASSUME NEW c \in Candidates
  PROVE  /\ Other(c) \in Candidates /\ Other(c) # c /\ Other(Other(c)) = c
         /\ \A d \in Candidates : d = c \/ d = Other(c)
BY CandidateAssumption DEF Candidates, Other

\* The fields of a candidate's row.
LEMMA RowTypes ==
  ASSUME cand \in [Candidates -> Row], NEW c \in Candidates
  PROVE  /\ cand[c] \in Row /\ cand[c].status \in CandidateStatus /\ cand[c].run \in BOOLEAN
         /\ cand[c].cancel \in BOOLEAN /\ cand[c].core \in BOOLEAN
BY DEF Row

\* A handler, its name and its candidate.
LEMMA Handlers ==
  ASSUME NEW what \in {"none", "ready", "cleanup", "project", "report", "giveup", "complete"},
         NEW c \in Candidates
  PROVE  /\ Handler(what, c) \in Doing /\ Handler(what, c).what = what /\ Handler(what, c).who = c
         /\ Nothing \in Doing /\ Nothing.what = "none" /\ Nothing.who = First
BY DEF Handler, Nothing, Doing, Candidates

\* No preparation and no cleanup.
LEMMA Nones ==
  /\ NoPrep \in Preparation /\ NoPrep.at = "none"
  /\ NoClean \in CleanupRecord /\ NoClean.at = "none" /\ NoClean.ran = {}
BY BoundAssumption DEF NoPrep, NoClean, Preparation, CleanupRecord, Candidates

\* A comparison's status, recomputed, is still of its kind.
LEMMA DerivedKinds ==
  ASSUME NEW s, NEW cs
  PROVE  /\ s \notin {"ready", "running"} => Derived(s, cs) = s
         /\ s \in {"ready", "running"} =>
              Derived(s, cs) \in {"ready", "running", "completed", "partially_completed"}
BY DEF Derived, DerivedAlways

\* A rewritten row.
LEMMA Rewritten ==
  ASSUME cand \in [Candidates -> Row], NEW c \in Candidates, NEW row \in Row, status \in ComparisonStatus,
         Rewrite(c, row)
  PROVE  /\ cand' \in [Candidates -> Row] /\ cand'[c] = row
         /\ \A d \in Candidates : d # c => cand'[d] = cand[d]
         /\ status' \in ComparisonStatus
         /\ status \notin {"ready", "running"} => status' = status
         /\ status \in {"ready", "running"} => status' \in {"ready", "running", "completed", "partially_completed"}
<1>1. cand' = [cand EXCEPT ![c] = row] /\ status' = Derived(status, cand')
  BY DEF Rewrite
<1>2. /\ cand' \in [Candidates -> Row] /\ cand'[c] = row
      /\ \A d \in Candidates : d # c => cand'[d] = cand[d]
  BY <1>1
<1>3. QED
  BY <1>1, <1>2, DerivedKinds DEF ComparisonStatus

\* A candidate's outcome is recorded.
LEMMA Completes ==
  ASSUME ComparisonTypeOK, NEW c \in Candidates, NEW ending \in Endings, NEW core \in BOOLEAN,
         SetCandidateCompleted(c, ending, core)
  PROVE  /\ cand' \in [Candidates -> Row] /\ cand'[c].status = ending /\ cand'[c].run = cand[c].run
         /\ cand'[c].core = core /\ \A d \in Candidates : d # c => cand'[d] = cand[d]
         /\ status' \in ComparisonStatus
         /\ status \notin {"ready", "running"} => status' = status
         /\ status \in {"ready", "running"} => status' \in {"ready", "running", "completed", "partially_completed"}
<1> DEFINE row == [cand[c] EXCEPT !.status = ending, !.core = core, !.cancel = FALSE]
<1>1. cand \in [Candidates -> Row] /\ cand[c] \in Row /\ status \in ComparisonStatus
  BY Types, RowTypes DEF ComparisonTypeOK
<1>2. row \in Row /\ row.status = ending /\ row.run = cand[c].run /\ row.core = core
  BY <1>1 DEF Row, CandidateStatus
<1>3. Rewrite(c, row)
  BY DEF SetCandidateCompleted
<1> HIDE DEF row
<1>4. QED
  BY <1>1, <1>2, <1>3, Rewritten

\* An ending, logged.
LEMMA Appends ==
  ASSUME ComparisonTypeOK, NEW c \in Candidates, NEW ending \in Endings, AppendEvent(c, ending)
  PROVE  /\ log' \in [Candidates -> Endings \cup {"open"}] /\ log'[c] = ending
         /\ \A d \in Candidates : d # c => log'[d] = log[d]
         /\ behind' \subseteq Candidates
BY Types DEF AppendEvent, ComparisonTypeOK

\* An execution, settled.
LEMMA Settles ==
  ASSUME ComparisonTypeOK, NEW c \in Candidates, Settle(c)
  PROVE  /\ exec' \in [Candidates -> {"none", "detecting", "streaming", "ended"}] /\ exec'[c] = "none"
         /\ \A d \in Candidates : d # c => exec'[d] = exec[d]
         /\ aborted' \subseteq Candidates
BY Types DEF Settle, ComparisonTypeOK

-----------------------------------------------------------------------------
\* Preparation

\* A preparation is claimed.
LEMMA ClaimPreparingKept ==
  ASSUME ComparisonSound, ClaimPreparing
  PROVE  ComparisonSound'
<1>1. ComparisonTypeOK /\ QuietRecovery /\ Prepares /\ Stands /\ Cleans /\ \A d \in Candidates : Fits(d)
  BY DEF ComparisonSound
<1>2. UNCHANGED <<cleanup, base, cand, paths, log, behind, tree, mode, doing, starting,
                  exec, aborted, capturing, clean, cleanups, crashes>>
  BY DEF ClaimPreparing, Idle, rows, runs
<1>3. mode = "up" /\ doing.what = "none" /\ status = "draft" /\ status' = "preparing" /\ status' \in ComparisonStatus
  BY DEF ClaimPreparing, ComparisonStatus, Idle
<1>4. prep' \in Preparation /\ prep'.at = "inspect" /\ prep'.who = First
  BY BoundAssumption DEF ClaimPreparing, NoPrep, Preparation, Candidates
<1>5. ComparisonTypeOK'
  BY <1>1, <1>2, <1>3, <1>4, Types, TypesSuffice DEF ComparisonTypeOK
<1>6. QuietRecovery'
  BY <1>1, <1>2, <1>3, <1>4, Types DEF QuietRecovery
<1>7. Prepares'
  BY <1>1, <1>2, <1>3, <1>4, Types DEF Prepares, Candidates
<1>8. Stands'
  BY <1>1, <1>2, <1>3, <1>4, Types DEF Stands, WorktreesShareTheBase, Prepares, Candidates
<1>9. Cleans'
  BY <1>1, <1>2, <1>3, <1>4, Types DEF Cleans, NextWorktree, Prepares
<1>10. \A d \in Candidates : Fits(d)'
  BY <1>1, <1>2 DEF Fits, Ended, Busy, Endings, Prepares
<1>11. QED
  BY <1>5, <1>6, <1>7, <1>8, <1>9, <1>10 DEF ComparisonSound

\* The source is not fit.
LEMMA InspectFailsKept ==
  ASSUME ComparisonSound, InspectFails
  PROVE  ComparisonSound'
<1>1. ComparisonTypeOK /\ QuietRecovery /\ Prepares /\ Stands /\ Cleans /\ \A d \in Candidates : Fits(d)
  BY DEF ComparisonSound
<1>2. UNCHANGED <<cleanup, base, cand, paths, log, behind, tree, mode, doing, starting,
                  exec, aborted, capturing, clean, cleanups, crashes>>
  BY DEF InspectFails, SetPrepareFailed, rows, runs
<1>3. mode = "up" /\ doing.what = "none" /\ prep.at = "inspect" /\ status' = "failed" /\ status' \in ComparisonStatus
  BY DEF InspectFails, SetPrepareFailed, ComparisonStatus, Idle
<1>4. prep' \in Preparation /\ prep'.at = "none"
  BY Nones DEF InspectFails, SetPrepareFailed
<1>5. ComparisonTypeOK'
  BY <1>1, <1>2, <1>3, <1>4, Types, TypesSuffice DEF ComparisonTypeOK
<1>6. QuietRecovery'
  BY <1>1, <1>2, <1>3, <1>4, Types DEF QuietRecovery
<1>7. Prepares'
  BY <1>1, <1>2, <1>3, <1>4, Types DEF Prepares, Candidates
<1>8. Stands'
  BY <1>1, <1>2, <1>3, <1>4, Types DEF Stands, WorktreesShareTheBase, Prepares, Candidates
<1>9. Cleans'
  BY <1>1, <1>2, <1>3, <1>4, Types DEF Cleans, NextWorktree, Prepares
<1>10. \A d \in Candidates : Fits(d)'
  BY <1>1, <1>2 DEF Fits, Ended, Busy, Endings, Prepares
<1>11. QED
  BY <1>5, <1>6, <1>7, <1>8, <1>9, <1>10 DEF ComparisonSound

\* The commit is resolved.
LEMMA ResolveBaseKept ==
  ASSUME ComparisonSound, ResolveBase
  PROVE  ComparisonSound'
<1>1. ComparisonTypeOK /\ QuietRecovery /\ Prepares /\ Stands /\ Cleans /\ \A d \in Candidates : Fits(d)
  BY DEF ComparisonSound
<1>2. UNCHANGED <<status, cleanup, base, cand, paths, log, behind, tree, mode, doing,
                  starting, exec, aborted, capturing, clean, cleanups, crashes>>
  BY DEF ResolveBase, rows, runs
<1>3. mode = "up" /\ doing.what = "none" /\ prep.at = "inspect"
  BY DEF ResolveBase, Idle
<1>4. prep' \in Preparation /\ prep'.at = "add" /\ prep'.who = prep.who /\ prep'.base = prep.head
  <2>1. prep \in Preparation /\ prep' = [prep EXCEPT !.at = "add", !.base = prep.head]
    BY <1>1, Types DEF ResolveBase
  <2>2. prep.head \in 0..Commits
    BY <1>1, Types, BoundAssumption
  <2>3. QED
    BY <2>1, <2>2 DEF Preparation
<1>5. ComparisonTypeOK'
  BY <1>1, <1>2, <1>3, <1>4, Types, TypesSuffice DEF ComparisonTypeOK
<1>6. QuietRecovery'
  BY <1>1, <1>2, <1>3, <1>4, Types DEF QuietRecovery
<1>7. Prepares'
  BY <1>1, <1>2, <1>3, <1>4, Types DEF Prepares, Candidates
<1>8. Stands'
  BY <1>1, <1>2 DEF Stands, WorktreesShareTheBase
<1>9. Cleans'
  BY <1>1, <1>2 DEF Cleans, NextWorktree
<1>10. \A d \in Candidates : Fits(d)'
  BY <1>1, <1>2 DEF Fits, Ended, Busy, Endings, Prepares
<1>11. QED
  BY <1>5, <1>6, <1>7, <1>8, <1>9, <1>10 DEF ComparisonSound

\* A worktree is cut.
LEMMA AddWorktreeKept ==
  ASSUME ComparisonSound, AddWorktree
  PROVE  ComparisonSound'
<1>1. ComparisonTypeOK /\ QuietRecovery /\ Prepares /\ Stands /\ Cleans /\ \A d \in Candidates : Fits(d)
  BY DEF ComparisonSound
<1>2. UNCHANGED <<status, cleanup, base, cand, paths, log, behind, mode, doing, starting,
                  exec, aborted, capturing, clean, cleanups, crashes>>
  BY DEF AddWorktree, Cut, rows, runs
<1>3. mode = "up" /\ doing.what = "none" /\ prep.at = "add"
  BY DEF AddWorktree, Idle
<1>4. prep' \in Preparation /\ prep'.at = "check" /\ prep'.who = prep.who /\ prep'.base = prep.base
  BY <1>1, Types DEF AddWorktree, Preparation
<1>5. /\ tree' \in [Candidates -> 0..Commits] /\ tree'[prep.who] = prep.base
      /\ \A d \in Candidates : d # prep.who => tree'[d] = tree[d]
  BY <1>1, Types DEF AddWorktree, Cut
<1>6. ComparisonTypeOK'
  BY <1>1, <1>2, <1>3, <1>4, <1>5, Types, TypesSuffice DEF ComparisonTypeOK
<1>7. QuietRecovery'
  BY <1>1, <1>2, <1>3, <1>4, <1>5, Types DEF QuietRecovery
<1>8. Prepares'
  BY <1>1, <1>2, <1>3, <1>4, <1>5, Types DEF Prepares, Candidates
<1>9. Stands'
  BY <1>1, <1>2, <1>3, <1>4, <1>5, Types DEF Stands, WorktreesShareTheBase, Prepares, Candidates
<1>10. Cleans'
  BY <1>1, <1>2, <1>3, <1>4, <1>5, Types DEF Cleans, NextWorktree, Prepares
<1>11. \A d \in Candidates : Fits(d)'
  BY <1>1, <1>2 DEF Fits, Ended, Busy, Endings, Prepares
<1>12. QED
  BY <1>6, <1>7, <1>8, <1>9, <1>10, <1>11 DEF ComparisonSound

\* A worktree is recorded.
LEMMA RecordWorktreeKept ==
  ASSUME ComparisonSound, RecordWorktree
  PROVE  ComparisonSound'
<1>1. ComparisonTypeOK /\ QuietRecovery /\ Prepares /\ Stands /\ Cleans /\ \A d \in Candidates : Fits(d)
  BY DEF ComparisonSound
<1>2. UNCHANGED <<status, cleanup, base, cand, log, behind, tree, mode, starting, exec,
                  aborted, capturing, clean, cleanups, crashes>>
  BY DEF RecordWorktree, rows, runs
<1>3. mode = "up" /\ doing.what = "none" /\ prep.at = "check" /\ paths' = paths \cup {prep.who} /\ paths' \subseteq Candidates
  BY <1>1, Types DEF RecordWorktree, ComparisonTypeOK, Idle
<1>4. prep.who = First => /\ prep' \in Preparation /\ prep'.at = "add" /\ prep'.who = Second /\ prep'.base = prep.base
                          /\ doing' = doing
  BY <1>1, Types DEF RecordWorktree, Preparation, Candidates
<1>5. prep.who # First => prep' = prep /\ doing' \in Doing /\ doing'.what = "ready"
  BY Handlers DEF RecordWorktree, Candidates
<1>6. ComparisonTypeOK'
  BY <1>1, <1>2, <1>3, <1>4, <1>5, Types, TypesSuffice DEF ComparisonTypeOK
<1>7. QuietRecovery'
  BY <1>1, <1>2, <1>3, <1>4, <1>5, Types DEF QuietRecovery
<1>8. Prepares'
  <2>1. CASE prep.who = First
    BY <1>1, <1>2, <1>3, <1>4, <1>5, <2>1, Types, CandidateAssumption DEF Prepares
  <2>2. CASE prep.who # First
    <3>1. prep.who = Second /\ paths = {First} /\ paths' = Candidates /\ tree[First] = prep.base
      BY <1>1, <1>2, <1>3, <1>4, <1>5, <2>2, Types DEF Prepares, Candidates
    <3>2. QED
      BY <1>1, <1>2, <1>3, <1>4, <1>5, <2>2, <3>1, CandidateAssumption DEF Prepares
  <2>3. QED
    BY <2>1, <2>2
<1>9. Stands'
  BY <1>1, <1>2, <1>3, <1>4, <1>5, Types DEF Stands, WorktreesShareTheBase, Prepares, Candidates
<1>10. Cleans'
  BY <1>1, <1>2, <1>3, <1>4, <1>5, Types DEF Cleans, NextWorktree, Prepares
<1>11. \A d \in Candidates : Fits(d)'
  BY <1>1, <1>2, <1>3, <1>4, <1>5, Types DEF Fits, Ended, Busy, Endings, Prepares
<1>12. QED
  BY <1>6, <1>7, <1>8, <1>9, <1>10, <1>11 DEF ComparisonSound

\* The comparison is ready.
LEMMA SetReadyKept ==
  ASSUME ComparisonSound, SetReady
  PROVE  ComparisonSound'
<1>1. ComparisonTypeOK /\ QuietRecovery /\ Prepares /\ Stands /\ Cleans /\ \A d \in Candidates : Fits(d)
  BY DEF ComparisonSound
<1>2. UNCHANGED <<cleanup, paths, log, behind, tree, mode, starting, exec, aborted,
                  capturing, clean, cleanups, crashes>>
  BY DEF SetReady, rows, runs
<1>3. mode = "up" /\ doing.what = "ready" /\ status' = "ready" /\ base' = prep.base /\ status' \in ComparisonStatus /\ base' \in 0..Commits
  BY <1>1, Types DEF SetReady, ComparisonStatus
<1>4. doing' \in Doing /\ doing'.what = "none" /\ prep' \in Preparation /\ prep'.at = "none"
  BY Handlers, Nones DEF SetReady, Candidates
<1>5. /\ cand' \in [Candidates -> Row]
      /\ \A d \in Candidates : cand'[d].status = "prepared" /\ cand'[d].run = cand[d].run /\ cand'[d].core = cand[d].core
  <2>1. cand' = [d \in Candidates |-> [cand[d] EXCEPT !.status = "prepared"]]
    BY DEF SetReady
  <2>2. \A d \in Candidates : cand[d] \in Row
    BY <1>1, Types
  <2>3. ASSUME NEW d \in Candidates
        PROVE  /\ [cand[d] EXCEPT !.status = "prepared"] \in Row
               /\ [cand[d] EXCEPT !.status = "prepared"].status = "prepared"
               /\ [cand[d] EXCEPT !.status = "prepared"].run = cand[d].run
               /\ [cand[d] EXCEPT !.status = "prepared"].core = cand[d].core
    BY <2>2 DEF Row, CandidateStatus
  <2>4. QED
    BY <2>1, <2>3
<1>6. ComparisonTypeOK'
  BY <1>1, <1>2, <1>3, <1>4, <1>5, Types, TypesSuffice DEF ComparisonTypeOK
<1>7. QuietRecovery'
  BY <1>1, <1>2, <1>3, <1>4, <1>5, Types DEF QuietRecovery
<1>8. Prepares'
  BY <1>1, <1>2, <1>3, <1>4, <1>5, Types DEF Prepares, Candidates
<1>9. Stands'
  BY <1>1, <1>2, <1>3, <1>4, <1>5, Types DEF Stands, WorktreesShareTheBase, Prepares, Candidates
<1>10. Cleans'
  BY <1>1, <1>2, <1>3, <1>4, <1>5, Types DEF Cleans, NextWorktree, Prepares
<1>11. \A d \in Candidates : Fits(d)'
  BY <1>1, <1>2, <1>3, <1>4, <1>5, Types DEF Fits, Ended, Busy, Endings, Prepares
<1>12. QED
  BY <1>6, <1>7, <1>8, <1>9, <1>10, <1>11 DEF ComparisonSound

\* Git refuses to cut a worktree.
LEMMA AddFailsKept ==
  ASSUME ComparisonSound, AddFails
  PROVE  ComparisonSound'
<1>1. ComparisonTypeOK /\ QuietRecovery /\ Prepares /\ Stands /\ Cleans /\ \A d \in Candidates : Fits(d)
  BY DEF ComparisonSound
<1>2. UNCHANGED <<cleanup, base, cand, log, behind, tree, mode, doing, starting, exec,
                  aborted, capturing, clean, cleanups, crashes>>
  BY DEF AddFails, rows, runs
<1>3. mode = "up" /\ doing.what = "none" /\ prep.at = "add"
  BY DEF AddFails, Idle
<1>4. /\ First \in paths => paths' = paths \ {First} /\ prep' \in Preparation /\ prep'.at = "rollback" /\ status' = status
      /\ First \notin paths => paths' = paths /\ prep' \in Preparation /\ prep'.at = "none" /\ status' = "failed"
      /\ status' \in ComparisonStatus /\ paths' \subseteq Candidates
  BY <1>1, Types, Nones DEF AddFails, RollBack, SetPrepareFailed, Preparation, ComparisonTypeOK, ComparisonStatus
<1>5. ComparisonTypeOK'
  BY <1>1, <1>2, <1>3, <1>4, Types, TypesSuffice DEF ComparisonTypeOK
<1>6. QuietRecovery'
  BY <1>1, <1>2, <1>3, <1>4, Types DEF QuietRecovery
<1>7. Prepares'
  BY <1>1, <1>2, <1>3, <1>4, Types DEF Prepares, Candidates
<1>8. Stands'
  BY <1>1, <1>2, <1>3, <1>4, Types DEF Stands, WorktreesShareTheBase, Prepares, Candidates
<1>9. Cleans'
  BY <1>1, <1>2, <1>3, <1>4, Types DEF Cleans, NextWorktree, Prepares
<1>10. \A d \in Candidates : Fits(d)'
  BY <1>1, <1>2 DEF Fits, Ended, Busy, Endings, Prepares
<1>11. QED
  BY <1>5, <1>6, <1>7, <1>8, <1>9, <1>10 DEF ComparisonSound

\* A new worktree is not fit.
LEMMA CheckFailsKept ==
  ASSUME ComparisonSound, CheckFails
  PROVE  ComparisonSound'
<1>1. ComparisonTypeOK /\ QuietRecovery /\ Prepares /\ Stands /\ Cleans /\ \A d \in Candidates : Fits(d)
  BY DEF ComparisonSound
<1>2. UNCHANGED <<cleanup, base, cand, log, behind, mode, doing, starting, exec, aborted,
                  capturing, clean, cleanups, crashes>>
  BY DEF CheckFails, rows, runs
<1>3. mode = "up" /\ doing.what = "none" /\ prep.at = "check"
  BY DEF CheckFails, Idle
<1>4. /\ First \in paths => paths' = paths \ {First} /\ prep' \in Preparation /\ prep'.at = "rollback" /\ status' = status
      /\ First \notin paths => paths' = paths /\ prep' \in Preparation /\ prep'.at = "none" /\ status' = "failed"
      /\ status' \in ComparisonStatus /\ paths' \subseteq Candidates
  BY <1>1, Types, Nones DEF CheckFails, RollBack, SetPrepareFailed, Preparation, ComparisonTypeOK, ComparisonStatus
<1>5. tree' \in [Candidates -> 0..Commits]
  BY <1>1, Types, BoundAssumption DEF CheckFails
<1>6. ComparisonTypeOK'
  BY <1>1, <1>2, <1>3, <1>4, <1>5, Types, TypesSuffice DEF ComparisonTypeOK
<1>7. QuietRecovery'
  BY <1>1, <1>2, <1>3, <1>4, <1>5, Types DEF QuietRecovery
<1>8. Prepares'
  BY <1>1, <1>2, <1>3, <1>4, <1>5, Types DEF Prepares, Candidates
<1>9. Stands'
  BY <1>1, <1>2, <1>3, <1>4, <1>5, Types DEF Stands, WorktreesShareTheBase, Prepares, Candidates
<1>10. Cleans'
  BY <1>1, <1>2, <1>3, <1>4, <1>5, Types DEF Cleans, NextWorktree, Prepares
<1>11. \A d \in Candidates : Fits(d)'
  BY <1>1, <1>2 DEF Fits, Ended, Busy, Endings, Prepares
<1>12. QED
  BY <1>6, <1>7, <1>8, <1>9, <1>10, <1>11 DEF ComparisonSound

\* What was cut is removed.
LEMMA RolledBackKept ==
  ASSUME ComparisonSound, RolledBack
  PROVE  ComparisonSound'
<1>1. ComparisonTypeOK /\ QuietRecovery /\ Prepares /\ Stands /\ Cleans /\ \A d \in Candidates : Fits(d)
  BY DEF ComparisonSound
<1>2. UNCHANGED <<cleanup, base, cand, paths, log, behind, mode, doing, starting, exec,
                  aborted, capturing, clean, cleanups, crashes>>
  BY DEF RolledBack, SetPrepareFailed, rows, runs
<1>3. mode = "up" /\ doing.what = "none" /\ prep.at = "rollback" /\ status' = "failed" /\ status' \in ComparisonStatus
  BY DEF RolledBack, SetPrepareFailed, ComparisonStatus, Idle
<1>4. prep' \in Preparation /\ prep'.at = "none"
  BY Nones DEF RolledBack, SetPrepareFailed
<1>5. tree' \in [Candidates -> 0..Commits]
  BY <1>1, Types, BoundAssumption DEF RolledBack
<1>6. ComparisonTypeOK'
  BY <1>1, <1>2, <1>3, <1>4, <1>5, Types, TypesSuffice DEF ComparisonTypeOK
<1>7. QuietRecovery'
  BY <1>1, <1>2, <1>3, <1>4, <1>5, Types DEF QuietRecovery
<1>8. Prepares'
  BY <1>1, <1>2, <1>3, <1>4, <1>5, Types DEF Prepares, Candidates
<1>9. Stands'
  BY <1>1, <1>2, <1>3, <1>4, <1>5, Types DEF Stands, WorktreesShareTheBase, Prepares, Candidates
<1>10. Cleans'
  BY <1>1, <1>2, <1>3, <1>4, <1>5, Types DEF Cleans, NextWorktree, Prepares
<1>11. \A d \in Candidates : Fits(d)'
  BY <1>1, <1>2 DEF Fits, Ended, Busy, Endings, Prepares
<1>12. QED
  BY <1>6, <1>7, <1>8, <1>9, <1>10, <1>11 DEF ComparisonSound

\* Somebody commits to the source.
LEMMA CommitToSourceKept ==
  ASSUME ComparisonSound, CommitToSource
  PROVE  ComparisonSound'
<1>1. ComparisonTypeOK /\ QuietRecovery /\ Prepares /\ Stands /\ Cleans /\ \A d \in Candidates : Fits(d)
  BY DEF ComparisonSound
<1>2. UNCHANGED <<status, cleanup, base, cand, paths, log, behind, tree, mode, doing,
                  starting, exec, aborted, capturing, clean, cleanups, crashes>>
  BY DEF CommitToSource, rows, runs
<1>3. /\ prep' \in Preparation /\ prep'.at = prep.at /\ prep'.who = prep.who /\ prep'.base = prep.base
  BY <1>1, Types, BoundAssumption DEF CommitToSource, Preparation
<1>4. ComparisonTypeOK'
  BY <1>1, <1>2, <1>3, Types, TypesSuffice DEF ComparisonTypeOK
<1>5. QuietRecovery'
  BY <1>1, <1>2, <1>3, Types DEF QuietRecovery
<1>6. Prepares'
  BY <1>1, <1>2, <1>3, Types DEF Prepares, Candidates
<1>7. Stands'
  BY <1>1, <1>2 DEF Stands, WorktreesShareTheBase
<1>8. Cleans'
  BY <1>1, <1>2 DEF Cleans, NextWorktree
<1>9. \A d \in Candidates : Fits(d)'
  BY <1>1, <1>2 DEF Fits, Ended, Busy, Endings, Prepares
<1>10. QED
  BY <1>4, <1>5, <1>6, <1>7, <1>8, <1>9 DEF ComparisonSound

-----------------------------------------------------------------------------
\* Starts and cancellations

\* A start is claimed.
LEMMA ClaimCandidateStartKept ==
  ASSUME ComparisonSound, NEW c \in Candidates, ClaimCandidateStart(c)
  PROVE  ComparisonSound'
<1>1. ComparisonTypeOK /\ QuietRecovery /\ Prepares /\ Stands /\ Cleans /\ \A d \in Candidates : Fits(d)
  BY DEF ComparisonSound
<1>2. UNCHANGED <<cleanup, base, paths, log, behind, tree, mode, doing, prep, exec,
                  aborted, capturing, clean, cleanups, crashes>>
  BY DEF ClaimCandidateStart, rows, runs
<1>3. /\ mode = "up" /\ doing.what = "none" /\ status \in {"ready", "running"} /\ cand[c].status = "prepared" /\ cand[Other(c)].status # "running"
      /\ status' = "running" /\ status' \in ComparisonStatus /\ starting' = starting \cup {c} /\ starting' \subseteq Candidates
  BY <1>1 DEF ClaimCandidateStart, Startable, ComparisonStatus, ComparisonTypeOK, Idle
<1>4. /\ cand' \in [Candidates -> Row] /\ cand'[c].status = "running" /\ cand'[c].run = TRUE
      /\ cand'[c].core = cand[c].core
      /\ \A d \in Candidates : d # c => cand'[d] = cand[d]
  <2> DEFINE row == [cand[c] EXCEPT !.status = "running", !.run = TRUE]
  <2>1. cand \in [Candidates -> Row] /\ cand[c] \in Row
    BY <1>1, Types
  <2>2. row \in Row /\ row.status = "running" /\ row.run = TRUE /\ row.core = cand[c].core
    BY <2>1 DEF Row, CandidateStatus
  <2>3. cand' = [cand EXCEPT ![c] = row]
    BY <2>1 DEF ClaimCandidateStart
  <2> HIDE DEF row
  <2>4. QED
    BY <2>1, <2>2, <2>3
<1>5. ComparisonTypeOK'
  BY <1>1, <1>2, <1>3, <1>4, Types, TypesSuffice DEF ComparisonTypeOK
<1>6. QuietRecovery'
  BY <1>1, <1>2, <1>3, <1>4, Types DEF QuietRecovery
<1>7. Prepares'
  BY <1>1, <1>2, <1>3, <1>4, Types DEF Prepares, Candidates
<1>8. Stands'
  BY <1>1, <1>2, <1>3, <1>4, Types DEF Stands, WorktreesShareTheBase
<1>9. Cleans'
  BY <1>1, <1>2, <1>3, <1>4, Types DEF Cleans, NextWorktree
<1>10. \A d \in Candidates : Fits(d)'
  <2>1. Fits(c)'
    BY <1>1, <1>2, <1>3, <1>4, Types, Others DEF Fits, Ended, Busy, Endings
  <2>2. PICK o \in Candidates : o = Other(c)
    BY Others
  <2>3. o # c /\ Other(o) = c /\ Fits(o) /\ \A d \in Candidates : d = c \/ d = o
    BY <1>1, <2>2, Others
  <2>4. Fits(o)'
    BY <1>1, <1>2, <1>3, <1>4, <2>2, <2>3, Types DEF Fits, Ended, Busy, Endings
  <2>5. QED
    BY <2>1, <2>3, <2>4
<1>11. QED
  BY <1>5, <1>6, <1>7, <1>8, <1>9, <1>10 DEF ComparisonSound

\* A start is refused.
LEMMA RefuseStartKept ==
  ASSUME ComparisonSound, NEW c \in Candidates, RefuseStart(c)
  PROVE  ComparisonSound'
<1>1. ComparisonTypeOK /\ QuietRecovery /\ Prepares /\ Stands /\ Cleans /\ \A d \in Candidates : Fits(d)
  BY DEF ComparisonSound
<1>2. UNCHANGED <<cleanup, base, paths, log, behind, tree, mode, doing, prep, exec,
                  aborted, capturing, clean, cleanups, crashes>>
  BY DEF RefuseStart, ClearCandidateStart, Rewrite, rows, runs
<1>3. mode = "up" /\ doing.what = "none" /\ c \in starting /\ starting' = starting \ {c} /\ starting' \subseteq Candidates
  BY <1>1 DEF RefuseStart, ComparisonTypeOK, Idle
<1>4. /\ cand' \in [Candidates -> Row] /\ cand'[c].status = "prepared" /\ cand'[c].run = FALSE
      /\ cand'[c].core = cand[c].core
      /\ \A d \in Candidates : d # c => cand'[d] = cand[d]
      /\ status' \in ComparisonStatus
      /\ status \notin {"ready", "running"} => status' = status
      /\ status \in {"ready", "running"} => status' \in {"ready", "running", "completed", "partially_completed"}
  <2> DEFINE row == [cand[c] EXCEPT !.status = "prepared", !.run = FALSE]
  <2>1. cand \in [Candidates -> Row] /\ cand[c] \in Row /\ status \in ComparisonStatus
    BY <1>1, Types DEF ComparisonTypeOK
  <2>2. row \in Row /\ row.status = "prepared" /\ row.run = FALSE /\ row.core = cand[c].core
    BY <2>1 DEF Row, CandidateStatus, Endings
  <2>3. Rewrite(c, row)
    BY DEF RefuseStart, ClearCandidateStart
  <2> HIDE DEF row
  <2>4. QED
    BY <2>1, <2>2, <2>3, Rewritten
<1>5. ComparisonTypeOK'
  BY <1>1, <1>2, <1>3, <1>4, Types, TypesSuffice DEF ComparisonTypeOK
<1>6. QuietRecovery'
  BY <1>1, <1>2, <1>3, <1>4, Types DEF QuietRecovery
<1>7. Prepares'
  BY <1>1, <1>2, <1>3, <1>4, Types DEF Prepares, Candidates
<1>8. Stands'
  BY <1>1, <1>2, <1>3, <1>4, Types DEF Stands, WorktreesShareTheBase
<1>9. Cleans'
  BY <1>1, <1>2, <1>3, <1>4, Types DEF Cleans, NextWorktree
<1>10. \A d \in Candidates : Fits(d)'
  <2>1. Fits(c)'
    BY <1>1, <1>2, <1>3, <1>4, Types, Others DEF Fits, Ended, Busy, Endings
  <2>2. PICK o \in Candidates : o = Other(c)
    BY Others
  <2>3. o # c /\ Other(o) = c /\ Fits(o) /\ \A d \in Candidates : d = c \/ d = o
    BY <1>1, <2>2, Others
  <2>4. Fits(o)'
    BY <1>1, <1>2, <1>3, <1>4, <2>2, <2>3, Types DEF Fits, Ended, Busy, Endings
  <2>5. QED
    BY <2>1, <2>3, <2>4
<1>11. QED
  BY <1>5, <1>6, <1>7, <1>8, <1>9, <1>10 DEF ComparisonSound

\* The execution begins.
LEMMA BeginExecutionKept ==
  ASSUME ComparisonSound, NEW c \in Candidates, BeginExecution(c)
  PROVE  ComparisonSound'
<1>1. ComparisonTypeOK /\ QuietRecovery /\ Prepares /\ Stands /\ Cleans /\ \A d \in Candidates : Fits(d)
  BY DEF ComparisonSound
<1>2. UNCHANGED <<status, cleanup, base, cand, paths, log, behind, tree, mode, doing, prep,
                  capturing, clean, cleanups, crashes>>
  BY DEF BeginExecution, rows, runs
<1>3. mode = "up" /\ doing.what = "none" /\ c \in starting /\ starting' = starting \ {c} /\ starting' \subseteq Candidates /\ aborted' \subseteq Candidates
  BY <1>1 DEF BeginExecution, ComparisonTypeOK, Idle
<1>4. /\ exec' \in [Candidates -> {"none", "detecting", "streaming", "ended"}] /\ exec'[c] = "detecting"
      /\ \A d \in Candidates : d # c => exec'[d] = exec[d]
  BY <1>1, Types DEF BeginExecution
<1>5. ComparisonTypeOK'
  BY <1>1, <1>2, <1>3, <1>4, Types, TypesSuffice DEF ComparisonTypeOK
<1>6. QuietRecovery'
  BY <1>1, <1>2, <1>3, <1>4, Types DEF QuietRecovery
<1>7. Prepares'
  BY <1>1, <1>2 DEF Prepares
<1>8. Stands'
  BY <1>1, <1>2 DEF Stands, WorktreesShareTheBase
<1>9. Cleans'
  BY <1>1, <1>2, <1>3, <1>4, Types DEF Cleans, NextWorktree
<1>10. \A d \in Candidates : Fits(d)'
  <2>1. Fits(c)'
    BY <1>1, <1>2, <1>3, <1>4, Types, Others DEF Fits, Ended, Busy, Endings
  <2>2. PICK o \in Candidates : o = Other(c)
    BY Others
  <2>3. o # c /\ Other(o) = c /\ Fits(o) /\ \A d \in Candidates : d = c \/ d = o
    BY <1>1, <2>2, Others
  <2>4. Fits(o)'
    BY <1>1, <1>2, <1>3, <1>4, <2>2, <2>3, Types DEF Fits, Ended, Busy, Endings
  <2>5. QED
    BY <2>1, <2>3, <2>4
<1>11. QED
  BY <1>5, <1>6, <1>7, <1>8, <1>9, <1>10 DEF ComparisonSound

\* A candidate that has not started is cancelled.
LEMMA CancelUnstartedCandidateKept ==
  ASSUME ComparisonSound, NEW c \in Candidates, CancelUnstartedCandidate(c)
  PROVE  ComparisonSound'
<1>1. ComparisonTypeOK /\ QuietRecovery /\ Prepares /\ Stands /\ Cleans /\ \A d \in Candidates : Fits(d)
  BY DEF ComparisonSound
<1>2. UNCHANGED <<cleanup, base, paths, log, behind, tree, mode, doing, prep, starting,
                  exec, aborted, capturing, clean, cleanups, crashes>>
  BY DEF CancelUnstartedCandidate, Rewrite, rows, runs
<1>3. mode = "up" /\ doing.what = "none" /\ cand[c].status \in {"pending", "prepared"}
  BY DEF CancelUnstartedCandidate, Idle
<1>4. /\ cand' \in [Candidates -> Row] /\ cand'[c].status = "cancelled" /\ cand'[c].run = cand[c].run
      /\ cand'[c].core = cand[c].core
      /\ \A d \in Candidates : d # c => cand'[d] = cand[d]
      /\ status' \in ComparisonStatus
      /\ status \notin {"ready", "running"} => status' = status
      /\ status \in {"ready", "running"} => status' \in {"ready", "running", "completed", "partially_completed"}
  <2> DEFINE row == [cand[c] EXCEPT !.status = "cancelled"]
  <2>1. cand \in [Candidates -> Row] /\ cand[c] \in Row /\ status \in ComparisonStatus
    BY <1>1, Types DEF ComparisonTypeOK
  <2>2. row \in Row /\ row.status = "cancelled" /\ row.run = cand[c].run /\ row.core = cand[c].core
    BY <2>1 DEF Row, CandidateStatus, Endings
  <2>3. Rewrite(c, row)
    BY DEF CancelUnstartedCandidate
  <2> HIDE DEF row
  <2>4. QED
    BY <2>1, <2>2, <2>3, Rewritten
<1>5. ComparisonTypeOK'
  BY <1>1, <1>2, <1>3, <1>4, Types, TypesSuffice DEF ComparisonTypeOK
<1>6. QuietRecovery'
  BY <1>1, <1>2 DEF QuietRecovery
<1>7. Prepares'
  BY <1>1, <1>2, <1>3, <1>4, Types DEF Prepares, Candidates
<1>8. Stands'
  BY <1>1, <1>2, <1>3, <1>4, Types DEF Stands, WorktreesShareTheBase
<1>9. Cleans'
  BY <1>1, <1>2, <1>3, <1>4, Types DEF Cleans, NextWorktree
<1>10. \A d \in Candidates : Fits(d)'
  <2>1. Fits(c)'
    BY <1>1, <1>2, <1>3, <1>4, Types, Others DEF Fits, Ended, Busy, Endings
  <2>2. PICK o \in Candidates : o = Other(c)
    BY Others
  <2>3. o # c /\ Other(o) = c /\ Fits(o) /\ \A d \in Candidates : d = c \/ d = o
    BY <1>1, <2>2, Others
  <2>4. Fits(o)'
    BY <1>1, <1>2, <1>3, <1>4, <2>2, <2>3, Types DEF Fits, Ended, Busy, Endings
  <2>5. QED
    BY <2>1, <2>3, <2>4
<1>11. QED
  BY <1>5, <1>6, <1>7, <1>8, <1>9, <1>10 DEF ComparisonSound

\* A running candidate is told to stop.
LEMMA RequestCancellationKept ==
  ASSUME ComparisonSound, NEW c \in Candidates, RequestCancellation(c)
  PROVE  ComparisonSound'
<1>1. ComparisonTypeOK /\ QuietRecovery /\ Prepares /\ Stands /\ Cleans /\ \A d \in Candidates : Fits(d)
  BY DEF ComparisonSound
<1>2. UNCHANGED <<status, cleanup, base, paths, log, behind, tree, mode, doing, prep,
                  starting, exec, capturing, clean, cleanups, crashes>>
  BY DEF RequestCancellation, rows, runs
<1>3. mode = "up" /\ doing.what = "none" /\ aborted' \subseteq Candidates
  BY <1>1 DEF RequestCancellation, ComparisonTypeOK, Idle
<1>4. /\ cand' \in [Candidates -> Row] /\ cand'[c].status = cand[c].status /\ cand'[c].run = cand[c].run
      /\ cand'[c].core = cand[c].core
      /\ \A d \in Candidates : d # c => cand'[d] = cand[d]
  <2> DEFINE row == [cand[c] EXCEPT !.cancel = TRUE]
  <2>1. cand \in [Candidates -> Row] /\ cand[c] \in Row
    BY <1>1, Types
  <2>2. row \in Row /\ row.status = cand[c].status /\ row.run = cand[c].run /\ row.core = cand[c].core
    BY <2>1 DEF Row
  <2>3. cand' = [cand EXCEPT ![c] = row]
    BY <2>1 DEF RequestCancellation
  <2> HIDE DEF row
  <2>4. QED
    BY <2>1, <2>2, <2>3
<1>5. ComparisonTypeOK'
  BY <1>1, <1>2, <1>3, <1>4, Types, TypesSuffice DEF ComparisonTypeOK
<1>6. QuietRecovery'
  BY <1>1, <1>2 DEF QuietRecovery
<1>7. Prepares'
  BY <1>1, <1>2, <1>3, <1>4, Types DEF Prepares, Candidates
<1>8. Stands'
  BY <1>1, <1>2 DEF Stands, WorktreesShareTheBase
<1>9. Cleans'
  BY <1>1, <1>2 DEF Cleans, NextWorktree
<1>10. \A d \in Candidates : Fits(d)'
  <2>1. Fits(c)'
    BY <1>1, <1>2, <1>3, <1>4, Types, Others DEF Fits, Ended, Busy, Endings
  <2>2. PICK o \in Candidates : o = Other(c)
    BY Others
  <2>3. o # c /\ Other(o) = c /\ Fits(o) /\ \A d \in Candidates : d = c \/ d = o
    BY <1>1, <2>2, Others
  <2>4. Fits(o)'
    BY <1>1, <1>2, <1>3, <1>4, <2>2, <2>3, Types DEF Fits, Ended, Busy, Endings
  <2>5. QED
    BY <2>1, <2>3, <2>4
<1>11. QED
  BY <1>5, <1>6, <1>7, <1>8, <1>9, <1>10 DEF ComparisonSound

-----------------------------------------------------------------------------
\* Executions and their events

\* The adapter refuses.
LEMMA TurnedAwayKept ==
  ASSUME ComparisonSound, NEW c \in Candidates, TurnedAway(c)
  PROVE  ComparisonSound'
<1>1. ComparisonTypeOK /\ QuietRecovery /\ Prepares /\ Stands /\ Cleans /\ \A d \in Candidates : Fits(d)
  BY DEF ComparisonSound
<1>2. UNCHANGED <<status, cleanup, base, cand, paths, log, behind, tree, mode, doing, prep,
                  starting, capturing, clean, cleanups, crashes>>
  BY DEF TurnedAway, rows, runs
<1>3. mode = "up" /\ doing.what = "none" /\ exec[c] = "detecting"
  BY DEF TurnedAway, Idle
<1>4. /\ exec' \in [Candidates -> {"none", "detecting", "streaming", "ended"}] /\ exec'[c] = "none"
      /\ \A d \in Candidates : d # c => exec'[d] = exec[d]
      /\ aborted' \subseteq Candidates
  BY <1>1, Settles DEF TurnedAway
<1>5. ComparisonTypeOK'
  BY <1>1, <1>2, <1>3, <1>4, Types, TypesSuffice DEF ComparisonTypeOK
<1>6. QuietRecovery'
  BY <1>1, <1>2, <1>3, <1>4, Types DEF QuietRecovery
<1>7. Prepares'
  BY <1>1, <1>2 DEF Prepares
<1>8. Stands'
  BY <1>1, <1>2 DEF Stands, WorktreesShareTheBase
<1>9. Cleans'
  BY <1>1, <1>2, <1>3, <1>4, Types DEF Cleans, NextWorktree
<1>10. \A d \in Candidates : Fits(d)'
  <2>1. Fits(c)'
    BY <1>1, <1>2, <1>3, <1>4, Types, Others DEF Fits, Ended, Busy, Endings
  <2>2. PICK o \in Candidates : o = Other(c)
    BY Others
  <2>3. o # c /\ Other(o) = c /\ Fits(o) /\ \A d \in Candidates : d = c \/ d = o
    BY <1>1, <2>2, Others
  <2>4. Fits(o)'
    BY <1>1, <1>2, <1>3, <1>4, <2>2, <2>3, Types DEF Fits, Ended, Busy, Endings
  <2>5. QED
    BY <2>1, <2>3, <2>4
<1>11. QED
  BY <1>5, <1>6, <1>7, <1>8, <1>9, <1>10 DEF ComparisonSound

\* The agent starts.
LEMMA AgentStartsKept ==
  ASSUME ComparisonSound, NEW c \in Candidates, AgentStarts(c)
  PROVE  ComparisonSound'
<1>1. ComparisonTypeOK /\ QuietRecovery /\ Prepares /\ Stands /\ Cleans /\ \A d \in Candidates : Fits(d)
  BY DEF ComparisonSound
<1>2. UNCHANGED <<status, cleanup, base, cand, paths, log, behind, tree, mode, doing, prep,
                  starting, aborted, capturing, clean, cleanups, crashes>>
  BY DEF AgentStarts, rows, runs
<1>3. mode = "up" /\ doing.what = "none" /\ exec[c] = "detecting"
  BY DEF AgentStarts, Idle
<1>4. /\ exec' \in [Candidates -> {"none", "detecting", "streaming", "ended"}] /\ exec'[c] = "streaming"
      /\ \A d \in Candidates : d # c => exec'[d] = exec[d]
  BY <1>1, Types DEF AgentStarts
<1>5. ComparisonTypeOK'
  BY <1>1, <1>2, <1>3, <1>4, Types, TypesSuffice DEF ComparisonTypeOK
<1>6. QuietRecovery'
  BY <1>1, <1>2, <1>3, <1>4, Types DEF QuietRecovery
<1>7. Prepares'
  BY <1>1, <1>2 DEF Prepares
<1>8. Stands'
  BY <1>1, <1>2 DEF Stands, WorktreesShareTheBase
<1>9. Cleans'
  BY <1>1, <1>2, <1>3, <1>4, Types DEF Cleans, NextWorktree
<1>10. \A d \in Candidates : Fits(d)'
  <2>1. Fits(c)'
    BY <1>1, <1>2, <1>3, <1>4, Types, Others DEF Fits, Ended, Busy, Endings
  <2>2. PICK o \in Candidates : o = Other(c)
    BY Others
  <2>3. o # c /\ Other(o) = c /\ Fits(o) /\ \A d \in Candidates : d = c \/ d = o
    BY <1>1, <2>2, Others
  <2>4. Fits(o)'
    BY <1>1, <1>2, <1>3, <1>4, <2>2, <2>3, Types DEF Fits, Ended, Busy, Endings
  <2>5. QED
    BY <2>1, <2>3, <2>4
<1>11. QED
  BY <1>5, <1>6, <1>7, <1>8, <1>9, <1>10 DEF ComparisonSound

\* A terminal event is logged.
LEMMA StoreTerminalEventKept ==
  ASSUME ComparisonSound, NEW c \in Candidates, StoreTerminalEvent(c)
  PROVE  ComparisonSound'
<1>1. ComparisonTypeOK /\ QuietRecovery /\ Prepares /\ Stands /\ Cleans /\ \A d \in Candidates : Fits(d)
  BY DEF ComparisonSound
<1>2. UNCHANGED <<status, cleanup, base, cand, paths, tree, mode, prep, starting, aborted,
                  capturing, clean, cleanups, crashes>>
  BY DEF StoreTerminalEvent, rows, runs
<1>3. mode = "up" /\ doing.what = "none" /\ exec[c] = "streaming" /\ log[c] \notin Endings
  BY DEF StoreTerminalEvent, Idle
<1>4. /\ log' \in [Candidates -> Endings \cup {"open"}] /\ log'[c] \in Endings
      /\ \A d \in Candidates : d # c => log'[d] = log[d]
      /\ behind' \subseteq Candidates
  <2>1. PICK ending \in Endings : AppendEvent(c, ending)
    BY DEF StoreTerminalEvent
  <2>2. QED
    BY <1>1, <2>1, Appends
<1>5. /\ exec' \in [Candidates -> {"none", "detecting", "streaming", "ended"}] /\ exec'[c] = "ended"
      /\ \A d \in Candidates : d # c => exec'[d] = exec[d]
  BY <1>1, Types DEF StoreTerminalEvent
<1>6. doing' \in Doing /\ doing'.what = "project" /\ doing'.who = c
  BY Handlers DEF StoreTerminalEvent
<1>7. ComparisonTypeOK'
  BY <1>1, <1>2, <1>3, <1>4, <1>5, <1>6, Types, TypesSuffice DEF ComparisonTypeOK
<1>8. QuietRecovery'
  BY <1>1, <1>2, <1>3, <1>4, <1>5, <1>6, Types DEF QuietRecovery
<1>9. Prepares'
  BY <1>1, <1>2, <1>3, <1>4, <1>5, <1>6, Types DEF Prepares, Candidates
<1>10. Stands'
  BY <1>1, <1>2 DEF Stands, WorktreesShareTheBase
<1>11. Cleans'
  BY <1>1, <1>2, <1>3, <1>4, <1>5, <1>6, Types DEF Cleans, NextWorktree
<1>12. \A d \in Candidates : Fits(d)'
  <2>1. Fits(c)'
    BY <1>1, <1>2, <1>3, <1>4, <1>5, <1>6, Types, Others DEF Fits, Ended, Busy, Endings
  <2>2. PICK o \in Candidates : o = Other(c)
    BY Others
  <2>3. o # c /\ Other(o) = c /\ Fits(o) /\ \A d \in Candidates : d = c \/ d = o
    BY <1>1, <2>2, Others
  <2>4. Fits(o)'
    BY <1>1, <1>2, <1>3, <1>4, <1>5, <1>6, <2>2, <2>3, Types DEF Fits, Ended, Busy, Endings
  <2>5. QED
    BY <2>1, <2>3, <2>4
<1>13. QED
  BY <1>7, <1>8, <1>9, <1>10, <1>11, <1>12 DEF ComparisonSound

\* The log is closed already.
LEMMA TerminalEventRefusedKept ==
  ASSUME ComparisonSound, NEW c \in Candidates, TerminalEventRefused(c)
  PROVE  ComparisonSound'
<1>1. ComparisonTypeOK /\ QuietRecovery /\ Prepares /\ Stands /\ Cleans /\ \A d \in Candidates : Fits(d)
  BY DEF ComparisonSound
<1>2. UNCHANGED <<status, cleanup, base, cand, paths, log, behind, tree, mode, doing, prep,
                  starting, aborted, capturing, clean, cleanups, crashes>>
  BY DEF TerminalEventRefused, rows, runs
<1>3. mode = "up" /\ doing.what = "none" /\ exec[c] = "streaming" /\ log[c] \in Endings
  BY DEF TerminalEventRefused, Idle
<1>4. /\ exec' \in [Candidates -> {"none", "detecting", "streaming", "ended"}] /\ exec'[c] = "ended"
      /\ \A d \in Candidates : d # c => exec'[d] = exec[d]
  BY <1>1, Types DEF TerminalEventRefused
<1>5. ComparisonTypeOK'
  BY <1>1, <1>2, <1>3, <1>4, Types, TypesSuffice DEF ComparisonTypeOK
<1>6. QuietRecovery'
  BY <1>1, <1>2, <1>3, <1>4, Types DEF QuietRecovery
<1>7. Prepares'
  BY <1>1, <1>2 DEF Prepares
<1>8. Stands'
  BY <1>1, <1>2 DEF Stands, WorktreesShareTheBase
<1>9. Cleans'
  BY <1>1, <1>2, <1>3, <1>4, Types DEF Cleans, NextWorktree
<1>10. \A d \in Candidates : Fits(d)'
  <2>1. Fits(c)'
    BY <1>1, <1>2, <1>3, <1>4, Types, Others DEF Fits, Ended, Busy, Endings
  <2>2. PICK o \in Candidates : o = Other(c)
    BY Others
  <2>3. o # c /\ Other(o) = c /\ Fits(o) /\ \A d \in Candidates : d = c \/ d = o
    BY <1>1, <2>2, Others
  <2>4. Fits(o)'
    BY <1>1, <1>2, <1>3, <1>4, <2>2, <2>3, Types DEF Fits, Ended, Busy, Endings
  <2>5. QED
    BY <2>1, <2>3, <2>4
<1>11. QED
  BY <1>5, <1>6, <1>7, <1>8, <1>9, <1>10 DEF ComparisonSound

\* The event is counted.
LEMMA ProjectKept ==
  ASSUME ComparisonSound, NEW c \in Candidates, Project(c)
  PROVE  ComparisonSound'
<1>1. ComparisonTypeOK /\ QuietRecovery /\ Prepares /\ Stands /\ Cleans /\ \A d \in Candidates : Fits(d)
  BY DEF ComparisonSound
<1>2. UNCHANGED <<status, cleanup, base, cand, paths, log, tree, mode, prep, starting,
                  exec, aborted, clean, cleanups, crashes>>
  BY DEF Project, RecordEventMeta, rows, runs
<1>3. mode = "up" /\ doing.what = "project" /\ doing.who = c /\ behind' \subseteq Candidates
  BY <1>1, Handlers DEF Project, RecordEventMeta, ComparisonTypeOK
<1>4. c \in paths => doing' \in Doing /\ doing'.what = "none" /\ capturing' = capturing \cup {c}
  BY Handlers DEF Project
<1>5. c \notin paths => doing' \in Doing /\ doing'.what = "complete" /\ doing'.who = c /\ capturing' = capturing
  BY Handlers DEF Project
<1>6. capturing' \subseteq Candidates
  BY <1>1, <1>4, <1>5 DEF ComparisonTypeOK
<1>7. ComparisonTypeOK'
  BY <1>1, <1>2, <1>3, <1>4, <1>5, <1>6, Types, TypesSuffice DEF ComparisonTypeOK
<1>8. QuietRecovery'
  BY <1>1, <1>2, <1>3, <1>4, <1>5, <1>6, Types DEF QuietRecovery
<1>9. Prepares'
  BY <1>1, <1>2, <1>3, <1>4, <1>5, <1>6, Types DEF Prepares, Candidates
<1>10. Stands'
  BY <1>1, <1>2 DEF Stands, WorktreesShareTheBase
<1>11. Cleans'
  BY <1>1, <1>2, <1>3, <1>4, <1>5, <1>6, Types DEF Cleans, NextWorktree, Fits
<1>12. \A d \in Candidates : Fits(d)'
  <2>1. Fits(c)'
    BY <1>1, <1>2, <1>3, <1>4, <1>5, <1>6, Types, Others DEF Fits, Ended, Busy, Endings
  <2>2. PICK o \in Candidates : o = Other(c)
    BY Others
  <2>3. o # c /\ Other(o) = c /\ Fits(o) /\ \A d \in Candidates : d = c \/ d = o
    BY <1>1, <2>2, Others
  <2>4. Fits(o)'
    BY <1>1, <1>2, <1>3, <1>4, <1>5, <1>6, <2>2, <2>3, Types DEF Fits, Ended, Busy, Endings
  <2>5. QED
    BY <2>1, <2>3, <2>4
<1>13. QED
  BY <1>7, <1>8, <1>9, <1>10, <1>11, <1>12 DEF ComparisonSound

\* An outcome is recorded without evidence.
LEMMA FinalizeWithoutEvidenceKept ==
  ASSUME ComparisonSound, NEW c \in Candidates, FinalizeWithoutEvidence(c)
  PROVE  ComparisonSound'
<1>1. ComparisonTypeOK /\ QuietRecovery /\ Prepares /\ Stands /\ Cleans /\ \A d \in Candidates : Fits(d)
  BY DEF ComparisonSound
<1>2. UNCHANGED <<cleanup, base, paths, log, behind, tree, mode, prep, starting, exec,
                  aborted, capturing, clean, cleanups, crashes>>
  BY DEF FinalizeWithoutEvidence, SetCandidateCompleted, Rewrite, rows, runs
<1>3. mode = "up" /\ doing.what = "complete" /\ doing.who = c /\ log[c] \in Endings
  BY <1>1, Handlers DEF FinalizeWithoutEvidence, Fits
<1>4. /\ cand' \in [Candidates -> Row] /\ cand'[c].status = log[c] /\ cand'[c].run = cand[c].run
      /\ cand'[c].core = FALSE
      /\ \A d \in Candidates : d # c => cand'[d] = cand[d]
      /\ status' \in ComparisonStatus
      /\ status \notin {"ready", "running"} => status' = status
      /\ status \in {"ready", "running"} => status' \in {"ready", "running", "completed", "partially_completed"}
  BY <1>1, <1>3, Completes DEF FinalizeWithoutEvidence, Endings
<1>5. doing' \in Doing /\ doing'.what = "none"
  BY Handlers DEF FinalizeWithoutEvidence
<1>6. ComparisonTypeOK'
  BY <1>1, <1>2, <1>3, <1>4, <1>5, Types, TypesSuffice DEF ComparisonTypeOK
<1>7. QuietRecovery'
  BY <1>1, <1>2, <1>3, <1>4, <1>5, Types DEF QuietRecovery
<1>8. Prepares'
  BY <1>1, <1>2, <1>3, <1>4, <1>5, Types DEF Prepares, Candidates
<1>9. Stands'
  BY <1>1, <1>2, <1>3, <1>4, <1>5, Types DEF Stands, WorktreesShareTheBase
<1>10. Cleans'
  BY <1>1, <1>2, <1>3, <1>4, <1>5, Types DEF Cleans, NextWorktree
<1>11. \A d \in Candidates : Fits(d)'
  <2>1. Fits(c)'
    BY <1>1, <1>2, <1>3, <1>4, <1>5, Types, Others DEF Fits, Ended, Busy, Endings
  <2>2. PICK o \in Candidates : o = Other(c)
    BY Others
  <2>3. o # c /\ Other(o) = c /\ Fits(o) /\ \A d \in Candidates : d = c \/ d = o
    BY <1>1, <2>2, Others
  <2>4. Fits(o)'
    BY <1>1, <1>2, <1>3, <1>4, <1>5, <2>2, <2>3, Types DEF Fits, Ended, Busy, Endings
  <2>5. QED
    BY <2>1, <2>3, <2>4
<1>12. QED
  BY <1>6, <1>7, <1>8, <1>9, <1>10, <1>11 DEF ComparisonSound

\* A capture has ended.
LEMMA FinalizeCandidateKept ==
  ASSUME ComparisonSound, NEW c \in Candidates, FinalizeCandidate(c)
  PROVE  ComparisonSound'
<1>1. ComparisonTypeOK /\ QuietRecovery /\ Prepares /\ Stands /\ Cleans /\ \A d \in Candidates : Fits(d)
  BY DEF ComparisonSound
<1>2. UNCHANGED <<cleanup, base, paths, log, behind, tree, mode, doing, prep, starting,
                  exec, aborted, clean, cleanups, crashes>>
  BY DEF FinalizeCandidate, SetCandidateCompleted, Rewrite, rows, runs
<1>3. mode = "up" /\ doing.what = "none" /\ c \in capturing /\ capturing' = capturing \ {c} /\ capturing' \subseteq Candidates /\ log[c] \in Endings
  BY <1>1 DEF FinalizeCandidate, Fits, ComparisonTypeOK, Idle
<1>4. /\ cand' \in [Candidates -> Row] /\ cand'[c].status = log[c] /\ cand'[c].run = cand[c].run
      /\ cand'[c].core = FALSE
      /\ \A d \in Candidates : d # c => cand'[d] = cand[d]
      /\ status' \in ComparisonStatus
      /\ status \notin {"ready", "running"} => status' = status
      /\ status \in {"ready", "running"} => status' \in {"ready", "running", "completed", "partially_completed"}
  BY <1>1, <1>3, Completes DEF FinalizeCandidate, Endings
<1>5. ComparisonTypeOK'
  BY <1>1, <1>2, <1>3, <1>4, Types, TypesSuffice DEF ComparisonTypeOK
<1>6. QuietRecovery'
  BY <1>1, <1>2, <1>3, <1>4, Types DEF QuietRecovery
<1>7. Prepares'
  BY <1>1, <1>2, <1>3, <1>4, Types DEF Prepares, Candidates
<1>8. Stands'
  BY <1>1, <1>2, <1>3, <1>4, Types DEF Stands, WorktreesShareTheBase
<1>9. Cleans'
  BY <1>1, <1>2, <1>3, <1>4, Types DEF Cleans, NextWorktree
<1>10. \A d \in Candidates : Fits(d)'
  <2>1. Fits(c)'
    BY <1>1, <1>2, <1>3, <1>4, Types, Others DEF Fits, Ended, Busy, Endings
  <2>2. PICK o \in Candidates : o = Other(c)
    BY Others
  <2>3. o # c /\ Other(o) = c /\ Fits(o) /\ \A d \in Candidates : d = c \/ d = o
    BY <1>1, <2>2, Others
  <2>4. Fits(o)'
    BY <1>1, <1>2, <1>3, <1>4, <2>2, <2>3, Types DEF Fits, Ended, Busy, Endings
  <2>5. QED
    BY <2>1, <2>3, <2>4
<1>11. QED
  BY <1>5, <1>6, <1>7, <1>8, <1>9, <1>10 DEF ComparisonSound

\* Hall Core gives a candidate up: its log has an end, and more is to be done.
LEMMA Failing ==
  ASSUME ComparisonTypeOK, NEW c \in Candidates, InfrastructureFailure(c)
  PROVE  /\ doing' \in Doing /\ doing'.who = c /\ doing'.what \in {"report", "giveup"} /\ log'[c] \in Endings
         /\ log' \in [Candidates -> Endings \cup {"open"}] /\ behind' \subseteq Candidates
         /\ \A d \in Candidates : d # c => log'[d] = log[d]
<1>1. CASE log[c] \notin Endings
  <2>1. AppendEvent(c, "failed") /\ doing' = Handler("report", c) /\ "failed" \in Endings
    BY <1>1 DEF InfrastructureFailure, Endings
  <2>2. QED
    BY <2>1, Appends, Handlers
<1>2. CASE log[c] \in Endings
  BY <1>2, Types, Handlers DEF InfrastructureFailure, ComparisonTypeOK
<1>3. QED
  BY <1>1, <1>2

\* The log refuses an event.
LEMMA EventStoreFailureKept ==
  ASSUME ComparisonSound, NEW c \in Candidates, EventStoreFailure(c)
  PROVE  ComparisonSound'
<1>1. ComparisonTypeOK /\ QuietRecovery /\ Prepares /\ Stands /\ Cleans /\ \A d \in Candidates : Fits(d)
  BY DEF ComparisonSound
<1>2. UNCHANGED <<status, cleanup, base, cand, paths, tree, mode, prep, starting, exec,
                  capturing, clean, cleanups, crashes>>
  BY DEF EventStoreFailure, InfrastructureFailure, AppendEvent, rows, runs
<1>3. mode = "up" /\ doing.what = "none" /\ exec[c] = "streaming" /\ cand[c].status = "running" /\ aborted' \subseteq Candidates
  BY <1>1 DEF EventStoreFailure, ComparisonTypeOK, Idle
<1>4. /\ doing' \in Doing /\ doing'.who = c /\ doing'.what \in {"report", "giveup"} /\ log'[c] \in Endings
      /\ log' \in [Candidates -> Endings \cup {"open"}] /\ behind' \subseteq Candidates
      /\ \A d \in Candidates : d # c => log'[d] = log[d]
  BY <1>1, Failing DEF EventStoreFailure
<1>5. ComparisonTypeOK'
  BY <1>1, <1>2, <1>3, <1>4, Types, TypesSuffice DEF ComparisonTypeOK
<1>6. QuietRecovery'
  BY <1>1, <1>2, <1>3, <1>4, Types DEF QuietRecovery
<1>7. Prepares'
  BY <1>1, <1>2, <1>3, <1>4, Types DEF Prepares, Candidates
<1>8. Stands'
  BY <1>1, <1>2 DEF Stands, WorktreesShareTheBase
<1>9. Cleans'
  BY <1>1, <1>2 DEF Cleans, NextWorktree
<1>10. \A d \in Candidates : Fits(d)'
  <2>1. Fits(c)'
    BY <1>1, <1>2, <1>3, <1>4, Types, Others DEF Fits, Ended, Busy, Endings
  <2>2. PICK o \in Candidates : o = Other(c)
    BY Others
  <2>3. o # c /\ Other(o) = c /\ Fits(o) /\ \A d \in Candidates : d = c \/ d = o
    BY <1>1, <2>2, Others
  <2>4. Fits(o)'
    BY <1>1, <1>2, <1>3, <1>4, <2>2, <2>3, Types DEF Fits, Ended, Busy, Endings
  <2>5. QED
    BY <2>1, <2>3, <2>4
<1>11. QED
  BY <1>5, <1>6, <1>7, <1>8, <1>9, <1>10 DEF ComparisonSound

\* The failure is counted.
LEMMA ReportKept ==
  ASSUME ComparisonSound, NEW c \in Candidates, Report(c)
  PROVE  ComparisonSound'
<1>1. ComparisonTypeOK /\ QuietRecovery /\ Prepares /\ Stands /\ Cleans /\ \A d \in Candidates : Fits(d)
  BY DEF ComparisonSound
<1>2. UNCHANGED <<status, cleanup, base, cand, paths, log, tree, mode, prep, starting,
                  exec, aborted, capturing, clean, cleanups, crashes>>
  BY DEF Report, RecordEventMeta, rows, runs
<1>3. mode = "up" /\ doing.what = "report" /\ doing.who = c /\ behind' \subseteq Candidates
  BY <1>1, Handlers DEF Report, RecordEventMeta, ComparisonTypeOK
<1>4. doing' \in Doing /\ doing'.what = "giveup" /\ doing'.who = c
  BY Handlers DEF Report
<1>5. ComparisonTypeOK'
  BY <1>1, <1>2, <1>3, <1>4, Types, TypesSuffice DEF ComparisonTypeOK
<1>6. QuietRecovery'
  BY <1>1, <1>2, <1>3, <1>4, Types DEF QuietRecovery
<1>7. Prepares'
  BY <1>1, <1>2, <1>3, <1>4, Types DEF Prepares, Candidates
<1>8. Stands'
  BY <1>1, <1>2 DEF Stands, WorktreesShareTheBase
<1>9. Cleans'
  BY <1>1, <1>2 DEF Cleans, NextWorktree
<1>10. \A d \in Candidates : Fits(d)'
  <2>1. Fits(c)'
    BY <1>1, <1>2, <1>3, <1>4, Types, Others DEF Fits, Ended, Busy, Endings
  <2>2. PICK o \in Candidates : o = Other(c)
    BY Others
  <2>3. o # c /\ Other(o) = c /\ Fits(o) /\ \A d \in Candidates : d = c \/ d = o
    BY <1>1, <2>2, Others
  <2>4. Fits(o)'
    BY <1>1, <1>2, <1>3, <1>4, <2>2, <2>3, Types DEF Fits, Ended, Busy, Endings
  <2>5. QED
    BY <2>1, <2>3, <2>4
<1>11. QED
  BY <1>5, <1>6, <1>7, <1>8, <1>9, <1>10 DEF ComparisonSound

\* The candidate is given up.
LEMMA GiveUpKept ==
  ASSUME ComparisonSound, NEW c \in Candidates, GiveUp(c)
  PROVE  ComparisonSound'
<1>1. ComparisonTypeOK /\ QuietRecovery /\ Prepares /\ Stands /\ Cleans /\ \A d \in Candidates : Fits(d)
  BY DEF ComparisonSound
<1>2. UNCHANGED <<cleanup, base, paths, log, behind, tree, mode, prep, starting, exec,
                  aborted, capturing, clean, cleanups, crashes>>
  BY DEF GiveUp, SetCandidateCompleted, Rewrite, rows, runs
<1>3. mode = "up" /\ doing.what = "giveup" /\ doing.who = c /\ "failed" \in Endings
  BY <1>1, Handlers DEF GiveUp, Endings
<1>4. /\ cand' \in [Candidates -> Row] /\ cand'[c].status = "failed" /\ cand'[c].run = cand[c].run
      /\ cand'[c].core = TRUE
      /\ \A d \in Candidates : d # c => cand'[d] = cand[d]
      /\ status' \in ComparisonStatus
      /\ status \notin {"ready", "running"} => status' = status
      /\ status \in {"ready", "running"} => status' \in {"ready", "running", "completed", "partially_completed"}
  BY <1>1, <1>3, Completes DEF GiveUp, Endings
<1>5. doing' \in Doing /\ doing'.what = "none"
  BY Handlers DEF GiveUp
<1>6. ComparisonTypeOK'
  BY <1>1, <1>2, <1>3, <1>4, <1>5, Types, TypesSuffice DEF ComparisonTypeOK
<1>7. QuietRecovery'
  BY <1>1, <1>2, <1>3, <1>4, <1>5, Types DEF QuietRecovery
<1>8. Prepares'
  BY <1>1, <1>2, <1>3, <1>4, <1>5, Types DEF Prepares, Candidates
<1>9. Stands'
  BY <1>1, <1>2, <1>3, <1>4, <1>5, Types DEF Stands, WorktreesShareTheBase
<1>10. Cleans'
  BY <1>1, <1>2, <1>3, <1>4, <1>5, Types DEF Cleans, NextWorktree
<1>11. \A d \in Candidates : Fits(d)'
  <2>1. Fits(c)'
    BY <1>1, <1>2, <1>3, <1>4, <1>5, Types, Others DEF Fits, Ended, Busy, Endings
  <2>2. PICK o \in Candidates : o = Other(c)
    BY Others
  <2>3. o # c /\ Other(o) = c /\ Fits(o) /\ \A d \in Candidates : d = c \/ d = o
    BY <1>1, <2>2, Others
  <2>4. Fits(o)'
    BY <1>1, <1>2, <1>3, <1>4, <1>5, <2>2, <2>3, Types DEF Fits, Ended, Busy, Endings
  <2>5. QED
    BY <2>1, <2>3, <2>4
<1>12. QED
  BY <1>6, <1>7, <1>8, <1>9, <1>10, <1>11 DEF ComparisonSound

\* The stream ends.
LEMMA StreamEndsKept ==
  ASSUME ComparisonSound, NEW c \in Candidates, StreamEnds(c)
  PROVE  ComparisonSound'
<1>1. ComparisonTypeOK /\ QuietRecovery /\ Prepares /\ Stands /\ Cleans /\ \A d \in Candidates : Fits(d)
  BY DEF ComparisonSound
<1>2. UNCHANGED <<status, cleanup, base, cand, paths, log, behind, tree, mode, doing, prep,
                  starting, capturing, clean, cleanups, crashes>>
  BY DEF StreamEnds, rows, runs
<1>3. mode = "up" /\ doing.what = "none" /\ exec[c] = "ended"
  BY DEF StreamEnds, Idle
<1>4. /\ exec' \in [Candidates -> {"none", "detecting", "streaming", "ended"}] /\ exec'[c] = "none"
      /\ \A d \in Candidates : d # c => exec'[d] = exec[d]
      /\ aborted' \subseteq Candidates
  BY <1>1, Settles DEF StreamEnds
<1>5. ComparisonTypeOK'
  BY <1>1, <1>2, <1>3, <1>4, Types, TypesSuffice DEF ComparisonTypeOK
<1>6. QuietRecovery'
  BY <1>1, <1>2, <1>3, <1>4, Types DEF QuietRecovery
<1>7. Prepares'
  BY <1>1, <1>2 DEF Prepares
<1>8. Stands'
  BY <1>1, <1>2 DEF Stands, WorktreesShareTheBase
<1>9. Cleans'
  BY <1>1, <1>2, <1>3, <1>4, Types DEF Cleans, NextWorktree
<1>10. \A d \in Candidates : Fits(d)'
  <2>1. Fits(c)'
    BY <1>1, <1>2, <1>3, <1>4, Types, Others DEF Fits, Ended, Busy, Endings
  <2>2. PICK o \in Candidates : o = Other(c)
    BY Others
  <2>3. o # c /\ Other(o) = c /\ Fits(o) /\ \A d \in Candidates : d = c \/ d = o
    BY <1>1, <2>2, Others
  <2>4. Fits(o)'
    BY <1>1, <1>2, <1>3, <1>4, <2>2, <2>3, Types DEF Fits, Ended, Busy, Endings
  <2>5. QED
    BY <2>1, <2>3, <2>4
<1>11. QED
  BY <1>5, <1>6, <1>7, <1>8, <1>9, <1>10 DEF ComparisonSound

\* The stream throws.
LEMMA StreamThrowsKept ==
  ASSUME ComparisonSound, NEW c \in Candidates, StreamThrows(c)
  PROVE  ComparisonSound'
<1>1. ComparisonTypeOK /\ QuietRecovery /\ Prepares /\ Stands /\ Cleans /\ \A d \in Candidates : Fits(d)
  BY DEF ComparisonSound
<1>2. UNCHANGED <<status, cleanup, base, cand, paths, tree, mode, prep, starting,
                  capturing, clean, cleanups, crashes>>
  BY DEF StreamThrows, ThrowHandled, InfrastructureFailure, AppendEvent, Settle, rows, runs
<1>3. mode = "up" /\ doing.what = "none" /\ exec[c] # "none"
  BY DEF StreamThrows, Idle
<1>4. /\ exec' \in [Candidates -> {"none", "detecting", "streaming", "ended"}] /\ exec'[c] = "none"
      /\ \A d \in Candidates : d # c => exec'[d] = exec[d]
      /\ aborted' \subseteq Candidates
  BY <1>1, Settles DEF StreamThrows
<1>5. cand[c].status = "running" => /\ doing' \in Doing /\ doing'.who = c /\ doing'.what \in {"report", "giveup"} /\ log'[c] \in Endings
        /\ log' \in [Candidates -> Endings \cup {"open"}] /\ behind' \subseteq Candidates
        /\ \A d \in Candidates : d # c => log'[d] = log[d]
  BY <1>1, Failing DEF StreamThrows, ThrowHandled
<1>6. cand[c].status # "running" => UNCHANGED <<log, behind, doing>>
  BY DEF StreamThrows, ThrowHandled
<1>7. ComparisonTypeOK'
  BY <1>1, <1>2, <1>3, <1>4, <1>5, <1>6, Types, TypesSuffice DEF ComparisonTypeOK
<1>8. QuietRecovery'
  BY <1>1, <1>2, <1>3, <1>4, <1>5, <1>6, Types DEF QuietRecovery
<1>9. Prepares'
  BY <1>1, <1>2, <1>3, <1>4, <1>5, <1>6, Types DEF Prepares, Candidates
<1>10. Stands'
  BY <1>1, <1>2 DEF Stands, WorktreesShareTheBase
<1>11. Cleans'
  BY <1>1, <1>2, <1>3, <1>4, <1>5, <1>6, Types DEF Cleans, NextWorktree
<1>12. \A d \in Candidates : Fits(d)'
  <2>1. Fits(c)'
    BY <1>1, <1>2, <1>3, <1>4, <1>5, <1>6, Types, Others DEF Fits, Ended, Busy, Endings
  <2>2. PICK o \in Candidates : o = Other(c)
    BY Others
  <2>3. o # c /\ Other(o) = c /\ Fits(o) /\ \A d \in Candidates : d = c \/ d = o
    BY <1>1, <2>2, Others
  <2>4. Fits(o)'
    BY <1>1, <1>2, <1>3, <1>4, <1>5, <1>6, <2>2, <2>3, Types DEF Fits, Ended, Busy, Endings
  <2>5. QED
    BY <2>1, <2>3, <2>4
<1>13. QED
  BY <1>7, <1>8, <1>9, <1>10, <1>11, <1>12 DEF ComparisonSound

-----------------------------------------------------------------------------
\* CleanupRecord

\* A cleanup is claimed.
LEMMA ClaimCleanupKept ==
  ASSUME ComparisonSound, ClaimCleanup
  PROVE  ComparisonSound'
<1>1. ComparisonTypeOK /\ QuietRecovery /\ Prepares /\ Stands /\ Cleans /\ \A d \in Candidates : Fits(d)
  BY DEF ComparisonSound
<1>2. UNCHANGED <<base, cand, paths, log, behind, tree, mode, prep, starting, exec,
                  capturing, crashes>>
  BY DEF ClaimCleanup, Waiting, rows, runs
<1>3. /\ mode = "up" /\ doing.what = "none" /\ status # "preparing" /\ cleanup \notin {"in_progress", "completed"} /\ cleanup' = "in_progress"
      /\ status' = (IF status \in {"draft", "ready", "running"} THEN "cancelled" ELSE status)
      /\ status' \in ComparisonStatus /\ aborted' \subseteq Candidates /\ cleanups' \in 0..MaxCleanups
  BY <1>1, BoundAssumption DEF ClaimCleanup, ComparisonStatus, Reclaimed, ComparisonTypeOK, Idle
<1>4. doing' \in Doing /\ doing'.what \in {"none", "cleanup"}
  BY Handlers DEF ClaimCleanup, Waiting, Candidates
<1>5. /\ clean' \in CleanupRecord /\ clean'.at = "executions" /\ clean'.failed = {}
      /\ clean'.wait = {c \in Candidates : exec[c] # "none"} /\ clean'.ran = clean'.wait \cup capturing
  <2> DEFINE running == {c \in Candidates : exec[c] # "none"}
  <2>1. /\ clean' = [NoClean EXCEPT !.at = "executions", !.wait = running, !.ran = running \cup capturing]
        /\ running \subseteq Candidates /\ capturing \subseteq Candidates
    BY <1>1 DEF ClaimCleanup, ComparisonTypeOK
  <2> DEFINE busy == running \cup capturing
  <2> HIDE DEF running, busy
  <2>2. clean' = [at |-> "executions", wait |-> running, todo |-> {}, failed |-> {}, ran |-> busy, late |-> FALSE]
    BY <2>1 DEF NoClean, busy
  <2>3. busy \in SUBSET Candidates /\ running \in SUBSET Candidates /\ {} \in SUBSET Candidates
    BY <2>1 DEF busy
  <2>4. clean' \in CleanupRecord /\ clean'.at = "executions" /\ clean'.failed = {} /\ clean'.wait = running /\ clean'.ran = busy
    BY <2>2, <2>3 DEF CleanupRecord
  <2>5. QED
    BY <2>4 DEF running, busy
<1>6. ComparisonTypeOK'
  BY <1>1, <1>2, <1>3, <1>4, <1>5, Types, TypesSuffice DEF ComparisonTypeOK
<1>7. QuietRecovery'
  BY <1>1, <1>2, <1>3, <1>4, <1>5, Types DEF QuietRecovery
<1>8. Prepares'
  BY <1>1, <1>2, <1>3, <1>4, <1>5, Types DEF Prepares, Candidates
<1>9. Stands'
  BY <1>1, <1>2, <1>3, <1>4, <1>5, Types DEF Stands, WorktreesShareTheBase
<1>10. Cleans'
  <2>1. \A d \in Candidates : d \in clean'.ran => d \notin starting
    BY <1>1, <1>2, <1>3, <1>4, <1>5 DEF Fits
  <2>2. clean'.ran \cap starting = {} /\ starting' = starting
    BY <1>1, <1>2, <1>3, <1>4, <1>5, <2>1 DEF ComparisonTypeOK
  <2>3. \A d \in clean'.ran : d \in clean'.wait \/ exec'[d] = "none"
    BY <1>1, <1>2, <1>3, <1>4, <1>5 DEF ComparisonTypeOK
  <2>4. status' \notin {"draft", "preparing", "ready", "running"}
    BY <1>3
  <2>5. QED
    BY <1>1, <1>2, <1>3, <1>4, <1>5, <2>2, <2>3, <2>4 DEF Cleans
<1>11. \A d \in Candidates : Fits(d)'
  BY <1>1, <1>2, <1>3, <1>4, <1>5, Types DEF Fits, Ended, Busy, Endings
<1>12. QED
  BY <1>6, <1>7, <1>8, <1>9, <1>10, <1>11 DEF ComparisonSound

\* The executions have settled.
LEMMA ExecutionsSettledKept ==
  ASSUME ComparisonSound, ExecutionsSettled
  PROVE  ComparisonSound'
<1>1. ComparisonTypeOK /\ QuietRecovery /\ Prepares /\ Stands /\ Cleans /\ \A d \in Candidates : Fits(d)
  BY DEF ComparisonSound
<1>2. UNCHANGED <<status, cleanup, base, cand, paths, log, behind, tree, mode, prep,
                  starting, exec, aborted, capturing, cleanups, crashes>>
  BY DEF ExecutionsSettled, ToFinalizations, Waiting, rows, runs
<1>3. mode = "up" /\ doing.what \in {"none", "cleanup"} /\ clean.at = "executions" /\ \A c \in clean.wait : exec[c] = "none"
  BY DEF ExecutionsSettled, CleanupTurn
<1>4. doing' \in Doing /\ doing'.what \in {"none", "cleanup"}
  BY Handlers DEF ExecutionsSettled, ToFinalizations, Waiting, Candidates
<1>5. /\ clean' \in CleanupRecord /\ clean'.at = "finalizations" /\ clean'.wait = capturing /\ clean'.late = clean.late
      /\ clean'.failed = clean.failed /\ clean'.ran = clean.ran
  <2>1. /\ clean \in CleanupRecord /\ capturing \subseteq Candidates /\ clean.late \in BOOLEAN
        /\ clean' = [clean EXCEPT !.at = "finalizations", !.wait = capturing, !.late = clean.late]
    BY <1>1, Types DEF ExecutionsSettled, ToFinalizations, ComparisonTypeOK
  <2>2. QED
    BY <2>1 DEF CleanupRecord
<1>6. ComparisonTypeOK'
  BY <1>1, <1>2, <1>3, <1>4, <1>5, Types, TypesSuffice DEF ComparisonTypeOK
<1>7. QuietRecovery'
  BY <1>1, <1>2, <1>3, <1>4, <1>5, Types DEF QuietRecovery
<1>8. Prepares'
  BY <1>1, <1>2, <1>3, <1>4, <1>5, Types DEF Prepares, Candidates, Cleans
<1>9. Stands'
  BY <1>1, <1>2 DEF Stands, WorktreesShareTheBase
<1>10. Cleans'
  BY <1>1, <1>2, <1>3, <1>4, <1>5, Types DEF Cleans, NextWorktree
<1>11. \A d \in Candidates : Fits(d)'
  BY <1>1, <1>2, <1>3, <1>4, <1>5, Types DEF Fits, Ended, Busy, Endings
<1>12. QED
  BY <1>6, <1>7, <1>8, <1>9, <1>10, <1>11 DEF ComparisonSound

\* The grace time is over.
LEMMA ExecutionsTimeoutKept ==
  ASSUME ComparisonSound, ExecutionsTimeout
  PROVE  ComparisonSound'
<1>1. ComparisonTypeOK /\ QuietRecovery /\ Prepares /\ Stands /\ Cleans /\ \A d \in Candidates : Fits(d)
  BY DEF ComparisonSound
<1>2. UNCHANGED <<status, cleanup, base, cand, paths, log, behind, tree, mode, prep,
                  starting, exec, aborted, capturing, cleanups, crashes>>
  BY DEF ExecutionsTimeout, ToFinalizations, Waiting, rows, runs
<1>3. mode = "up" /\ doing.what = "none" /\ clean.at = "executions"
  BY DEF ExecutionsTimeout, Idle
<1>4. doing' \in Doing /\ doing'.what \in {"none", "cleanup"}
  BY Handlers DEF ExecutionsTimeout, ToFinalizations, Waiting, Candidates
<1>5. /\ clean' \in CleanupRecord /\ clean'.at = "finalizations" /\ clean'.wait = capturing /\ clean'.late = TRUE
      /\ clean'.failed = clean.failed /\ clean'.ran = clean.ran
  <2>1. /\ clean \in CleanupRecord /\ capturing \subseteq Candidates /\ clean.late \in BOOLEAN
        /\ clean' = [clean EXCEPT !.at = "finalizations", !.wait = capturing, !.late = TRUE]
    BY <1>1, Types DEF ExecutionsTimeout, ToFinalizations, ComparisonTypeOK
  <2>2. QED
    BY <2>1 DEF CleanupRecord
<1>6. ComparisonTypeOK'
  BY <1>1, <1>2, <1>3, <1>4, <1>5, Types, TypesSuffice DEF ComparisonTypeOK
<1>7. QuietRecovery'
  BY <1>1, <1>2, <1>3, <1>4, <1>5, Types DEF QuietRecovery
<1>8. Prepares'
  BY <1>1, <1>2, <1>3, <1>4, <1>5, Types DEF Prepares, Candidates, Cleans
<1>9. Stands'
  BY <1>1, <1>2 DEF Stands, WorktreesShareTheBase
<1>10. Cleans'
  BY <1>1, <1>2, <1>3, <1>4, <1>5, Types DEF Cleans, NextWorktree
<1>11. \A d \in Candidates : Fits(d)'
  BY <1>1, <1>2, <1>3, <1>4, <1>5, Types DEF Fits, Ended, Busy, Endings
<1>12. QED
  BY <1>6, <1>7, <1>8, <1>9, <1>10, <1>11 DEF ComparisonSound

\* The captures have ended.
LEMMA FinalizationsSettledKept ==
  ASSUME ComparisonSound, FinalizationsSettled
  PROVE  ComparisonSound'
<1>1. ComparisonTypeOK /\ QuietRecovery /\ Prepares /\ Stands /\ Cleans /\ \A d \in Candidates : Fits(d)
  BY DEF ComparisonSound
<1>2. UNCHANGED <<cleanup, base, cand, paths, log, behind, tree, mode, prep, starting,
                  exec, aborted, capturing, cleanups, crashes>>
  BY DEF FinalizationsSettled, ToRemoval, Waiting, rows, runs
<1>3. mode = "up" /\ doing.what \in {"none", "cleanup"} /\ clean.at = "finalizations" /\ clean.wait \cap capturing = {} /\ status' = "cleaning" /\ status' \in ComparisonStatus
  BY DEF FinalizationsSettled, CleanupTurn, ToRemoval, ComparisonStatus, Reclaimed
<1>4. doing' \in Doing /\ doing'.what \in {"none", "cleanup"}
  BY Handlers DEF FinalizationsSettled, ToRemoval, Waiting, Candidates
<1>5. /\ clean' \in CleanupRecord /\ clean'.at = "remove" /\ clean'.todo = paths /\ clean'.late = clean.late
      /\ clean'.failed = clean.failed /\ clean'.ran = clean.ran
  <2>1. /\ clean \in CleanupRecord /\ paths \subseteq Candidates /\ clean.late \in BOOLEAN
        /\ clean' = [clean EXCEPT !.at = "remove", !.wait = {}, !.todo = paths, !.late = clean.late]
    BY <1>1, Types DEF FinalizationsSettled, ToRemoval, ComparisonTypeOK
  <2>2. QED
    BY <2>1 DEF CleanupRecord
<1>6. ComparisonTypeOK'
  BY <1>1, <1>2, <1>3, <1>4, <1>5, Types, TypesSuffice DEF ComparisonTypeOK
<1>7. QuietRecovery'
  BY <1>1, <1>2, <1>3, <1>4, <1>5, Types DEF QuietRecovery
<1>8. Prepares'
  BY <1>1, <1>2, <1>3, <1>4, <1>5, Types DEF Prepares, Candidates, Cleans
<1>9. Stands'
  BY <1>1, <1>2, <1>3, <1>4, <1>5, Types DEF Stands, WorktreesShareTheBase, Cleans
<1>10. Cleans'
  BY <1>1, <1>2, <1>3, <1>4, <1>5, Types DEF Cleans, NextWorktree
<1>11. \A d \in Candidates : Fits(d)'
  BY <1>1, <1>2, <1>3, <1>4, <1>5, Types DEF Fits, Ended, Busy, Endings
<1>12. QED
  BY <1>6, <1>7, <1>8, <1>9, <1>10, <1>11 DEF ComparisonSound

\* The grace time is over for the captures.
LEMMA FinalizationsTimeoutKept ==
  ASSUME ComparisonSound, FinalizationsTimeout
  PROVE  ComparisonSound'
<1>1. ComparisonTypeOK /\ QuietRecovery /\ Prepares /\ Stands /\ Cleans /\ \A d \in Candidates : Fits(d)
  BY DEF ComparisonSound
<1>2. UNCHANGED <<cleanup, base, cand, paths, log, behind, tree, mode, prep, starting,
                  exec, aborted, capturing, cleanups, crashes>>
  BY DEF FinalizationsTimeout, ToRemoval, Waiting, rows, runs
<1>3. mode = "up" /\ doing.what = "none" /\ clean.at = "finalizations" /\ status' = "cleaning" /\ status' \in ComparisonStatus
  BY DEF FinalizationsTimeout, ToRemoval, ComparisonStatus, Reclaimed, Idle
<1>4. doing' \in Doing /\ doing'.what \in {"none", "cleanup"}
  BY Handlers DEF FinalizationsTimeout, ToRemoval, Waiting, Candidates
<1>5. /\ clean' \in CleanupRecord /\ clean'.at = "remove" /\ clean'.todo = paths /\ clean'.late = TRUE
      /\ clean'.failed = clean.failed /\ clean'.ran = clean.ran
  <2>1. /\ clean \in CleanupRecord /\ paths \subseteq Candidates /\ clean.late \in BOOLEAN
        /\ clean' = [clean EXCEPT !.at = "remove", !.wait = {}, !.todo = paths, !.late = TRUE]
    BY <1>1, Types DEF FinalizationsTimeout, ToRemoval, ComparisonTypeOK
  <2>2. QED
    BY <2>1 DEF CleanupRecord
<1>6. ComparisonTypeOK'
  BY <1>1, <1>2, <1>3, <1>4, <1>5, Types, TypesSuffice DEF ComparisonTypeOK
<1>7. QuietRecovery'
  BY <1>1, <1>2, <1>3, <1>4, <1>5, Types DEF QuietRecovery
<1>8. Prepares'
  BY <1>1, <1>2, <1>3, <1>4, <1>5, Types DEF Prepares, Candidates, Cleans
<1>9. Stands'
  BY <1>1, <1>2, <1>3, <1>4, <1>5, Types DEF Stands, WorktreesShareTheBase, Cleans
<1>10. Cleans'
  BY <1>1, <1>2, <1>3, <1>4, <1>5, Types DEF Cleans, NextWorktree
<1>11. \A d \in Candidates : Fits(d)'
  BY <1>1, <1>2, <1>3, <1>4, <1>5, Types DEF Fits, Ended, Busy, Endings
<1>12. QED
  BY <1>6, <1>7, <1>8, <1>9, <1>10, <1>11 DEF ComparisonSound

\* Git removes a worktree.
LEMMA RemoveWorktreeKept ==
  ASSUME ComparisonSound, RemoveWorktree
  PROVE  ComparisonSound'
<1>1. ComparisonTypeOK /\ QuietRecovery /\ Prepares /\ Stands /\ Cleans /\ \A d \in Candidates : Fits(d)
  BY DEF ComparisonSound
<1>2. UNCHANGED <<status, cleanup, base, cand, paths, log, behind, mode, doing, prep,
                  starting, exec, aborted, capturing, cleanups, crashes>>
  BY DEF RemoveWorktree, rows, runs
<1>3. mode = "up" /\ doing.what = "none" /\ clean.at = "remove" /\ clean.todo # {}
  BY DEF RemoveWorktree, Idle
<1>4. NextWorktree \in clean.todo /\ NextWorktree \in Candidates
  BY <1>1, Types, <1>3 DEF NextWorktree, Candidates
<1>5. /\ tree' \in [Candidates -> 0..Commits] /\ tree'[NextWorktree] = 0
      /\ \A d \in Candidates : tree'[d] # 0 => tree'[d] = tree[d]
  BY <1>1, <1>4, Types, BoundAssumption DEF RemoveWorktree
<1>6. /\ clean' \in CleanupRecord /\ clean'.at = "forget" /\ clean'.todo = clean.todo /\ clean'.late = clean.late
      /\ clean'.failed = clean.failed /\ clean'.ran = clean.ran
  BY <1>1, Types DEF RemoveWorktree, CleanupRecord
<1>7. NextWorktree' = NextWorktree
  BY <1>6 DEF NextWorktree
<1>8. ComparisonTypeOK'
  BY <1>1, <1>2, <1>3, <1>4, <1>5, <1>6, <1>7, Types, TypesSuffice DEF ComparisonTypeOK
<1>9. QuietRecovery'
  BY <1>1, <1>2, <1>3, <1>4, <1>5, <1>6, <1>7, Types DEF QuietRecovery
<1>10. Prepares'
  BY <1>1, <1>2, <1>3, <1>4, <1>5, <1>6, <1>7, Types DEF Prepares, Candidates, Cleans
<1>11. Stands'
  BY <1>1, <1>2, <1>3, <1>4, <1>5, <1>6, <1>7, Types DEF Stands, WorktreesShareTheBase, Cleans
<1>12. Cleans'
  BY <1>1, <1>2, <1>3, <1>4, <1>5, <1>6, <1>7, Types DEF Cleans, NextWorktree
<1>13. \A d \in Candidates : Fits(d)'
  BY <1>1, <1>2 DEF Fits, Ended, Busy, Endings
<1>14. QED
  BY <1>8, <1>9, <1>10, <1>11, <1>12, <1>13 DEF ComparisonSound

\* A removed worktree is forgotten.
LEMMA ForgetWorktreeKept ==
  ASSUME ComparisonSound, ForgetWorktree
  PROVE  ComparisonSound'
<1>1. ComparisonTypeOK /\ QuietRecovery /\ Prepares /\ Stands /\ Cleans /\ \A d \in Candidates : Fits(d)
  BY DEF ComparisonSound
<1>2. UNCHANGED <<status, cleanup, base, cand, log, behind, tree, mode, prep, starting,
                  exec, aborted, capturing, cleanups, crashes>>
  BY DEF ForgetWorktree, AfterRemoval, Waiting, rows, runs
<1>3. mode = "up" /\ doing.what = "none" /\ clean.at = "forget" /\ paths' = paths \ {NextWorktree} /\ paths' \subseteq Candidates
  BY <1>1 DEF ForgetWorktree, ComparisonTypeOK, Idle
<1>4. NextWorktree \in clean.todo /\ NextWorktree \in Candidates /\ tree[NextWorktree] = 0
  BY <1>1, <1>3, Types DEF Cleans
<1>5. doing' \in Doing /\ doing'.what \in {"none", "cleanup"}
  BY Handlers DEF ForgetWorktree, AfterRemoval, Waiting, Candidates
<1>6. /\ clean' \in CleanupRecord /\ clean'.at = "remove" /\ clean'.todo = clean.todo \ {NextWorktree} /\ clean'.late = clean.late
      /\ clean'.failed = clean.failed /\ clean'.ran = clean.ran
  <2> DEFINE failed == clean.failed
  <2>1. /\ clean \in CleanupRecord /\ failed \subseteq Candidates
        /\ clean' = [clean EXCEPT !.at = "remove", !.todo = @ \ {NextWorktree}, !.failed = failed]
    BY <1>1, <1>4, Types DEF ForgetWorktree, AfterRemoval
  <2> HIDE DEF failed
  <2>2. /\ clean' \in CleanupRecord /\ clean'.at = "remove" /\ clean'.todo = clean.todo \ {NextWorktree} /\ clean'.late = clean.late
        /\ clean'.failed = failed /\ clean'.ran = clean.ran
    BY <2>1 DEF CleanupRecord
  <2>3. QED
    BY <2>2 DEF failed
<1>7. ComparisonTypeOK'
  BY <1>1, <1>2, <1>3, <1>4, <1>5, <1>6, Types, TypesSuffice DEF ComparisonTypeOK
<1>8. QuietRecovery'
  BY <1>1, <1>2, <1>3, <1>4, <1>5, <1>6, Types DEF QuietRecovery
<1>9. Prepares'
  BY <1>1, <1>2, <1>3, <1>4, <1>5, <1>6, Types DEF Prepares, Candidates, Cleans
<1>10. Stands'
  BY <1>1, <1>2, <1>3, <1>4, <1>5, <1>6, Types DEF Stands, WorktreesShareTheBase, Cleans
<1>11. Cleans'
  BY <1>1, <1>2, <1>3, <1>4, <1>5, <1>6, Types DEF Cleans, NextWorktree
<1>12. \A d \in Candidates : Fits(d)'
  BY <1>1, <1>2, <1>3, <1>4, <1>5, <1>6, Types DEF Fits, Ended, Busy, Endings
<1>13. QED
  BY <1>7, <1>8, <1>9, <1>10, <1>11, <1>12 DEF ComparisonSound

\* Git fails to remove a worktree.
LEMMA RemoveFailsKept ==
  ASSUME ComparisonSound, RemoveFails
  PROVE  ComparisonSound'
<1>1. ComparisonTypeOK /\ QuietRecovery /\ Prepares /\ Stands /\ Cleans /\ \A d \in Candidates : Fits(d)
  BY DEF ComparisonSound
<1>2. UNCHANGED <<status, cleanup, base, cand, paths, log, behind, tree, mode, prep,
                  starting, exec, aborted, capturing, cleanups, crashes>>
  BY DEF RemoveFails, AfterRemoval, Waiting, rows, runs
<1>3. mode = "up" /\ doing.what = "none" /\ clean.at = "remove" /\ clean.todo # {}
  BY DEF RemoveFails, Idle
<1>4. NextWorktree \in clean.todo /\ NextWorktree \in Candidates
  BY <1>1, Types, <1>3 DEF NextWorktree, Candidates
<1>5. doing' \in Doing /\ doing'.what \in {"none", "cleanup"}
  BY Handlers DEF RemoveFails, AfterRemoval, Waiting, Candidates
<1>6. /\ clean' \in CleanupRecord /\ clean'.at = "remove" /\ clean'.todo = clean.todo \ {NextWorktree} /\ clean'.late = clean.late
      /\ clean'.failed = clean.failed \cup {NextWorktree} /\ clean'.ran = clean.ran
  <2> DEFINE failed == clean.failed \cup {NextWorktree}
  <2>1. /\ clean \in CleanupRecord /\ failed \subseteq Candidates
        /\ clean' = [clean EXCEPT !.at = "remove", !.todo = @ \ {NextWorktree}, !.failed = failed]
    BY <1>1, <1>4, Types DEF RemoveFails, AfterRemoval
  <2> HIDE DEF failed
  <2>2. /\ clean' \in CleanupRecord /\ clean'.at = "remove" /\ clean'.todo = clean.todo \ {NextWorktree} /\ clean'.late = clean.late
        /\ clean'.failed = failed /\ clean'.ran = clean.ran
    BY <2>1 DEF CleanupRecord
  <2>3. QED
    BY <2>2 DEF failed
<1>7. ComparisonTypeOK'
  BY <1>1, <1>2, <1>3, <1>4, <1>5, <1>6, Types, TypesSuffice DEF ComparisonTypeOK
<1>8. QuietRecovery'
  BY <1>1, <1>2, <1>3, <1>4, <1>5, <1>6, Types DEF QuietRecovery
<1>9. Prepares'
  BY <1>1, <1>2, <1>3, <1>4, <1>5, <1>6, Types DEF Prepares, Candidates, Cleans
<1>10. Stands'
  BY <1>1, <1>2 DEF Stands, WorktreesShareTheBase
<1>11. Cleans'
  BY <1>1, <1>2, <1>3, <1>4, <1>5, <1>6, Types DEF Cleans, NextWorktree
<1>12. \A d \in Candidates : Fits(d)'
  BY <1>1, <1>2, <1>3, <1>4, <1>5, <1>6, Types DEF Fits, Ended, Busy, Endings
<1>13. QED
  BY <1>7, <1>8, <1>9, <1>10, <1>11, <1>12 DEF ComparisonSound

\* The cleanup ends.
LEMMA EndCleanupKept ==
  ASSUME ComparisonSound, EndCleanup
  PROVE  ComparisonSound'
<1>1. ComparisonTypeOK /\ QuietRecovery /\ Prepares /\ Stands /\ Cleans /\ \A d \in Candidates : Fits(d)
  BY DEF ComparisonSound
<1>2. UNCHANGED <<base, cand, paths, log, behind, tree, mode, prep, starting, exec,
                  aborted, capturing, cleanups, crashes>>
  BY DEF EndCleanup, rows, runs
<1>3. /\ mode = "up" /\ doing.what = "cleanup" /\ clean.at = "remove" /\ clean.todo = {}
      /\ clean.failed # {} => cleanup' = "failed" /\ status' = status
      /\ clean.failed = {} => cleanup' = "completed" /\ status' = "cleaned"
      /\ cleanup' \in {"not_started", "in_progress", "completed", "failed"} /\ status' \in ComparisonStatus
  BY <1>1 DEF EndCleanup, SetCleanup, ComparisonTypeOK, ComparisonStatus, Reclaimed
<1>4. doing' \in Doing /\ doing'.what = "none" /\ clean' \in CleanupRecord /\ clean'.at = "none" /\ clean'.ran = {}
  BY Handlers, Nones DEF EndCleanup, Candidates
<1>5. ComparisonTypeOK'
  BY <1>1, <1>2, <1>3, <1>4, Types, TypesSuffice DEF ComparisonTypeOK
<1>6. QuietRecovery'
  BY <1>1, <1>2, <1>3, <1>4, Types DEF QuietRecovery
<1>7. Prepares'
  BY <1>1, <1>2, <1>3, <1>4, Types DEF Prepares, Candidates, Cleans
<1>8. Stands'
  BY <1>1, <1>2, <1>3, <1>4, Types DEF Stands, WorktreesShareTheBase, Cleans
<1>9. Cleans'
  BY <1>1, <1>2, <1>3, <1>4, Types DEF Cleans, NextWorktree
<1>10. \A d \in Candidates : Fits(d)'
  BY <1>1, <1>2, <1>3, <1>4, Types DEF Fits, Ended, Busy, Endings
<1>11. QED
  BY <1>5, <1>6, <1>7, <1>8, <1>9, <1>10 DEF ComparisonSound

-----------------------------------------------------------------------------
\* Shutdown, death and recovery

\* Every run is told to stop.
LEMMA ShutDownKept ==
  ASSUME ComparisonSound, ShutDown
  PROVE  ComparisonSound'
<1>1. ComparisonTypeOK /\ QuietRecovery /\ Prepares /\ Stands /\ Cleans /\ \A d \in Candidates : Fits(d)
  BY DEF ComparisonSound
<1>2. UNCHANGED <<status, cleanup, base, cand, paths, log, behind, tree, mode, doing, prep,
                  starting, exec, capturing, clean, cleanups, crashes>>
  BY DEF ShutDown, rows, runs
<1>3. aborted' \subseteq Candidates
  BY <1>1 DEF ShutDown, ComparisonTypeOK
<1>4. ComparisonTypeOK'
  BY <1>1, <1>2, <1>3, Types, TypesSuffice DEF ComparisonTypeOK
<1>5. QuietRecovery'
  BY <1>1, <1>2 DEF QuietRecovery
<1>6. Prepares'
  BY <1>1, <1>2 DEF Prepares
<1>7. Stands'
  BY <1>1, <1>2 DEF Stands, WorktreesShareTheBase
<1>8. Cleans'
  BY <1>1, <1>2 DEF Cleans, NextWorktree
<1>9. \A d \in Candidates : Fits(d)'
  BY <1>1, <1>2 DEF Fits, Ended, Busy, Endings
<1>10. QED
  BY <1>4, <1>5, <1>6, <1>7, <1>8, <1>9 DEF ComparisonSound

\* The process dies.
LEMMA CrashKept ==
  ASSUME ComparisonSound, Crash
  PROVE  ComparisonSound'
<1>1. ComparisonTypeOK /\ QuietRecovery /\ Prepares /\ Stands /\ Cleans /\ \A d \in Candidates : Fits(d)
  BY DEF ComparisonSound
<1>2. UNCHANGED <<status, cleanup, base, cand, paths, log, behind, tree, cleanups>>
  BY DEF Crash, rows, runs
<1>3. /\ mode' = "recovering" /\ starting' = {} /\ capturing' = {} /\ aborted' = {} /\ crashes' \in 0..MaxCrashes
      /\ exec' \in [Candidates -> {"none", "detecting", "streaming", "ended"}] /\ \A c \in Candidates : exec'[c] = "none"
  BY <1>1, BoundAssumption DEF Crash, ComparisonTypeOK
<1>4. /\ doing' \in Doing /\ doing'.what = "none" /\ prep' \in Preparation /\ prep'.at = "none"
      /\ clean' \in CleanupRecord /\ clean'.at = "none" /\ clean'.ran = {}
  BY Handlers, Nones DEF Crash, Candidates
<1>5. ComparisonTypeOK'
  BY <1>1, <1>2, <1>3, <1>4, Types, TypesSuffice DEF ComparisonTypeOK
<1>6. QuietRecovery'
  BY <1>1, <1>2, <1>3, <1>4, Types DEF QuietRecovery
<1>7. Prepares'
  BY <1>1, <1>2, <1>3, <1>4, Types DEF Prepares, Candidates
<1>8. Stands'
  BY <1>1, <1>2 DEF Stands, WorktreesShareTheBase
<1>9. Cleans'
  BY <1>1, <1>2, <1>3, <1>4, Types DEF Cleans, NextWorktree
<1>10. \A d \in Candidates : Fits(d)'
  BY <1>1, <1>2, <1>3, <1>4, Types DEF Fits, Ended, Busy, Endings
<1>11. QED
  BY <1>5, <1>6, <1>7, <1>8, <1>9, <1>10 DEF ComparisonSound

\* An interrupted preparation has failed.
LEMMA FailInterruptedPreparationKept ==
  ASSUME ComparisonSound, FailInterruptedPreparation
  PROVE  ComparisonSound'
<1>1. ComparisonTypeOK /\ QuietRecovery /\ Prepares /\ Stands /\ Cleans /\ \A d \in Candidates : Fits(d)
  BY DEF ComparisonSound
<1>2. UNCHANGED <<cleanup, base, cand, paths, log, behind, tree, mode, doing, prep,
                  starting, exec, aborted, capturing, clean, cleanups, crashes>>
  BY DEF FailInterruptedPreparation, rows, runs
<1>3. mode = "recovering" /\ status = "preparing" /\ status' = "failed" /\ status' \in ComparisonStatus
  BY DEF FailInterruptedPreparation, ComparisonStatus
<1>4. ComparisonTypeOK'
  BY <1>1, <1>2, <1>3, Types, TypesSuffice DEF ComparisonTypeOK
<1>5. QuietRecovery'
  BY <1>1, <1>2 DEF QuietRecovery
<1>6. Prepares'
  BY <1>1, <1>2, <1>3, Types DEF Prepares, Candidates
<1>7. Stands'
  BY <1>1, <1>2, <1>3, Types DEF Stands, WorktreesShareTheBase
<1>8. Cleans'
  BY <1>1, <1>2, <1>3, Types DEF Cleans, NextWorktree
<1>9. \A d \in Candidates : Fits(d)'
  BY <1>1, <1>2 DEF Fits, Ended, Busy, Endings
<1>10. QED
  BY <1>4, <1>5, <1>6, <1>7, <1>8, <1>9 DEF ComparisonSound

\* An interrupted cleanup has failed.
LEMMA FailInterruptedCleanupKept ==
  ASSUME ComparisonSound, FailInterruptedCleanup
  PROVE  ComparisonSound'
<1>1. ComparisonTypeOK /\ QuietRecovery /\ Prepares /\ Stands /\ Cleans /\ \A d \in Candidates : Fits(d)
  BY DEF ComparisonSound
<1>2. UNCHANGED <<status, base, cand, paths, log, behind, tree, mode, doing, prep,
                  starting, exec, aborted, capturing, clean, cleanups, crashes>>
  BY DEF FailInterruptedCleanup, rows, runs
<1>3. mode = "recovering" /\ cleanup = "in_progress" /\ cleanup' = "failed"
  BY DEF FailInterruptedCleanup
<1>4. ComparisonTypeOK'
  BY <1>1, <1>2, <1>3, Types, TypesSuffice DEF ComparisonTypeOK
<1>5. QuietRecovery'
  BY <1>1, <1>2 DEF QuietRecovery
<1>6. Prepares'
  BY <1>1, <1>2 DEF Prepares
<1>7. Stands'
  BY <1>1, <1>2, <1>3, Types DEF Stands, WorktreesShareTheBase
<1>8. Cleans'
  BY <1>1, <1>2, <1>3, Types DEF Cleans, NextWorktree, QuietRecovery
<1>9. \A d \in Candidates : Fits(d)'
  BY <1>1, <1>2 DEF Fits, Ended, Busy, Endings
<1>10. QED
  BY <1>4, <1>5, <1>6, <1>7, <1>8, <1>9 DEF ComparisonSound

\* A missed event is counted.
LEMMA CountMissedEventsKept ==
  ASSUME ComparisonSound, NEW c \in Candidates, CountMissedEvents(c)
  PROVE  ComparisonSound'
<1>1. ComparisonTypeOK /\ QuietRecovery /\ Prepares /\ Stands /\ Cleans /\ \A d \in Candidates : Fits(d)
  BY DEF ComparisonSound
<1>2. UNCHANGED <<status, cleanup, base, cand, paths, log, tree, mode, doing, prep,
                  starting, exec, aborted, capturing, clean, cleanups, crashes>>
  BY DEF CountMissedEvents, RecordEventMeta, rows, runs
<1>3. behind' \subseteq Candidates
  BY <1>1 DEF CountMissedEvents, RecordEventMeta, ComparisonTypeOK
<1>4. ComparisonTypeOK'
  BY <1>1, <1>2, <1>3, Types, TypesSuffice DEF ComparisonTypeOK
<1>5. QuietRecovery'
  BY <1>1, <1>2 DEF QuietRecovery
<1>6. Prepares'
  BY <1>1, <1>2 DEF Prepares
<1>7. Stands'
  BY <1>1, <1>2 DEF Stands, WorktreesShareTheBase
<1>8. Cleans'
  BY <1>1, <1>2 DEF Cleans, NextWorktree
<1>9. \A d \in Candidates : Fits(d)'
  BY <1>1, <1>2 DEF Fits, Ended, Busy, Endings
<1>10. QED
  BY <1>4, <1>5, <1>6, <1>7, <1>8, <1>9 DEF ComparisonSound

\* The logged end decides.
LEMMA ReplayOutcomeKept ==
  ASSUME ComparisonSound, NEW c \in Candidates, ReplayOutcome(c)
  PROVE  ComparisonSound'
<1>1. ComparisonTypeOK /\ QuietRecovery /\ Prepares /\ Stands /\ Cleans /\ \A d \in Candidates : Fits(d)
  BY DEF ComparisonSound
<1>2. UNCHANGED <<cleanup, base, paths, log, behind, tree, mode, doing, prep, starting,
                  exec, aborted, capturing, clean, cleanups, crashes>>
  BY DEF ReplayOutcome, SetCandidateCompleted, Rewrite, rows, runs
<1>3. mode = "recovering" /\ log[c] \in Endings /\ cand[c].status = "running"
  BY DEF ReplayOutcome, Reached
<1>4. /\ cand' \in [Candidates -> Row] /\ cand'[c].status = log[c] /\ cand'[c].run = cand[c].run
      /\ cand'[c].core = FALSE
      /\ \A d \in Candidates : d # c => cand'[d] = cand[d]
      /\ status' \in ComparisonStatus
      /\ status \notin {"ready", "running"} => status' = status
      /\ status \in {"ready", "running"} => status' \in {"ready", "running", "completed", "partially_completed"}
  BY <1>1, <1>3, Completes DEF ReplayOutcome, Endings
<1>5. ComparisonTypeOK'
  BY <1>1, <1>2, <1>3, <1>4, Types, TypesSuffice DEF ComparisonTypeOK
<1>6. QuietRecovery'
  BY <1>1, <1>2 DEF QuietRecovery
<1>7. Prepares'
  BY <1>1, <1>2, <1>3, <1>4, Types DEF Prepares, Candidates
<1>8. Stands'
  BY <1>1, <1>2, <1>3, <1>4, Types DEF Stands, WorktreesShareTheBase
<1>9. Cleans'
  BY <1>1, <1>2, <1>3, <1>4, Types DEF Cleans, NextWorktree
<1>10. \A d \in Candidates : Fits(d)'
  <2>1. Fits(c)'
    BY <1>1, <1>2, <1>3, <1>4, Types, Others DEF Fits, Ended, Busy, Endings, QuietRecovery
  <2>2. PICK o \in Candidates : o = Other(c)
    BY Others
  <2>3. o # c /\ Other(o) = c /\ Fits(o) /\ \A d \in Candidates : d = c \/ d = o
    BY <1>1, <2>2, Others
  <2>4. Fits(o)'
    BY <1>1, <1>2, <1>3, <1>4, <2>2, <2>3, Types DEF Fits, Ended, Busy, Endings, QuietRecovery
  <2>5. QED
    BY <2>1, <2>3, <2>4
<1>11. QED
  BY <1>5, <1>6, <1>7, <1>8, <1>9, <1>10 DEF ComparisonSound

\* An interrupted run has failed.
LEMMA RecordInterruptedRunKept ==
  ASSUME ComparisonSound, NEW c \in Candidates, RecordInterruptedRun(c)
  PROVE  ComparisonSound'
<1>1. ComparisonTypeOK /\ QuietRecovery /\ Prepares /\ Stands /\ Cleans /\ \A d \in Candidates : Fits(d)
  BY DEF ComparisonSound
<1>2. UNCHANGED <<status, cleanup, base, cand, paths, tree, mode, doing, prep, starting,
                  exec, aborted, capturing, clean, cleanups, crashes>>
  BY DEF RecordInterruptedRun, AppendEvent, rows, runs
<1>3. mode = "recovering" /\ cand[c].status = "running" /\ log[c] \notin Endings /\ "failed" \in Endings
  BY DEF RecordInterruptedRun, Reached, Endings
<1>4. /\ log' \in [Candidates -> Endings \cup {"open"}] /\ log'[c] \in Endings
      /\ \A d \in Candidates : d # c => log'[d] = log[d]
      /\ behind' \subseteq Candidates
  BY <1>1, <1>3, Appends DEF RecordInterruptedRun
<1>5. ComparisonTypeOK'
  BY <1>1, <1>2, <1>3, <1>4, Types, TypesSuffice DEF ComparisonTypeOK
<1>6. QuietRecovery'
  BY <1>1, <1>2 DEF QuietRecovery
<1>7. Prepares'
  BY <1>1, <1>2 DEF Prepares
<1>8. Stands'
  BY <1>1, <1>2 DEF Stands, WorktreesShareTheBase
<1>9. Cleans'
  BY <1>1, <1>2 DEF Cleans, NextWorktree
<1>10. \A d \in Candidates : Fits(d)'
  <2>1. Fits(c)'
    BY <1>1, <1>2, <1>3, <1>4, Types, Others DEF Fits, Ended, Busy, Endings, QuietRecovery
  <2>2. PICK o \in Candidates : o = Other(c)
    BY Others
  <2>3. o # c /\ Other(o) = c /\ Fits(o) /\ \A d \in Candidates : d = c \/ d = o
    BY <1>1, <2>2, Others
  <2>4. Fits(o)'
    BY <1>1, <1>2, <1>3, <1>4, <2>2, <2>3, Types DEF Fits, Ended, Busy, Endings, QuietRecovery
  <2>5. QED
    BY <2>1, <2>3, <2>4
<1>11. QED
  BY <1>5, <1>6, <1>7, <1>8, <1>9, <1>10 DEF ComparisonSound

\* The process is up.
LEMMA RecoveredKept ==
  ASSUME ComparisonSound, Recovered
  PROVE  ComparisonSound'
<1>1. ComparisonTypeOK /\ QuietRecovery /\ Prepares /\ Stands /\ Cleans /\ \A d \in Candidates : Fits(d)
  BY DEF ComparisonSound
<1>2. UNCHANGED <<status, cleanup, base, cand, paths, log, behind, tree, doing, prep,
                  starting, exec, aborted, capturing, clean, cleanups, crashes>>
  BY DEF Recovered, rows, runs
<1>3. /\ mode = "recovering" /\ mode' = "up" /\ status # "preparing"
      /\ \A c \in Candidates : cand[c].status # "running"
  BY DEF Recovered, NothingInterrupted, Interrupted
<1>4. ComparisonTypeOK'
  BY <1>1, <1>2, <1>3, Types, TypesSuffice DEF ComparisonTypeOK
<1>5. QuietRecovery'
  BY <1>1, <1>2, <1>3, Types DEF QuietRecovery
<1>6. Prepares'
  BY <1>1, <1>2, <1>3, Types DEF Prepares, Candidates
<1>7. Stands'
  BY <1>1, <1>2 DEF Stands, WorktreesShareTheBase
<1>8. Cleans'
  BY <1>1, <1>2 DEF Cleans, NextWorktree
<1>9. \A d \in Candidates : Fits(d)'
  BY <1>1, <1>2, <1>3, Types DEF Fits, Ended, Busy, Endings
<1>10. QED
  BY <1>4, <1>5, <1>6, <1>7, <1>8, <1>9 DEF ComparisonSound

-----------------------------------------------------------------------------
\* Every step keeps the state sound.
LEMMA NextKept ==
  ASSUME ComparisonSound, [ComparisonNext]_comparisonVars
  PROVE  ComparisonSound'
<1>1. CASE Request
  BY <1>1, ClaimPreparingKept, ClaimCleanupKept, ClaimCandidateStartKept, CancelUnstartedCandidateKept,
     RequestCancellationKept DEF Request
<1>2. CASE Preparing
  BY <1>2, InspectFailsKept, ResolveBaseKept, AddWorktreeKept, RecordWorktreeKept, AddFailsKept,
     CheckFailsKept, RolledBackKept DEF Preparing
<1>3. CASE Handling
  BY <1>3, SetReadyKept, EndCleanupKept, ProjectKept, FinalizeWithoutEvidenceKept, ReportKept, GiveUpKept
     DEF Handling
<1>4. CASE Cleaning
  BY <1>4, ExecutionsSettledKept, ExecutionsTimeoutKept, FinalizationsSettledKept, FinalizationsTimeoutKept,
     RemoveWorktreeKept, ForgetWorktreeKept, RemoveFailsKept DEF Cleaning
<1>5. CASE Recovering
  BY <1>5, FailInterruptedPreparationKept, FailInterruptedCleanupKept, RecoveredKept, CountMissedEventsKept,
     ReplayOutcomeKept, RecordInterruptedRunKept DEF Recovering
<1>6. CASE \E c \in Candidates : Starting(c) \/ Running(c) \/ EventStoreFailure(c) \/ FinalizeCandidate(c)
  <2>1. PICK c \in Candidates : Starting(c) \/ Running(c) \/ EventStoreFailure(c) \/ FinalizeCandidate(c)
    BY <1>6
  <2>2. CASE Starting(c)
    BY <2>2, RefuseStartKept, BeginExecutionKept DEF Starting
  <2>3. CASE Running(c)
    BY <2>3, TurnedAwayKept, AgentStartsKept, StoreTerminalEventKept, TerminalEventRefusedKept,
       StreamEndsKept, StreamThrowsKept DEF Running
  <2>4. QED
    BY <2>1, <2>2, <2>3, EventStoreFailureKept, FinalizeCandidateKept
<1>7. CASE UNCHANGED comparisonVars
  <2>1. ComparisonTypeOK' /\ QuietRecovery' /\ Prepares' /\ Stands' /\ Cleans'
    BY <1>7 DEF ComparisonSound, comparisonVars, rows, runs, ComparisonTypeOK, QuietRecovery, Prepares, Stands, WorktreesShareTheBase, Cleans, NextWorktree
  <2>2. \A c \in Candidates : Fits(c)'
    BY <1>7 DEF ComparisonSound, comparisonVars, rows, runs, Fits, Ended, Busy
  <2>3. QED
    BY <2>1, <2>2 DEF ComparisonSound
<1>8. QED
  BY <1>1, <1>2, <1>3, <1>4, <1>5, <1>6, <1>7, CommitToSourceKept, ShutDownKept, CrashKept DEF ComparisonNext

\* A draft is sound.
LEMMA InitSound ==
  ASSUME ComparisonInit
  PROVE  ComparisonSound
<1>1. ComparisonTypeOK
  <2>1. NoPrep \in Preparation /\ NoClean \in CleanupRecord /\ Nothing \in Doing
    BY Nones, Handlers DEF Candidates
  <2>2. \A c \in Candidates : cand[c] = [status |-> "pending", run |-> FALSE, cancel |-> FALSE, core |-> FALSE]
    BY DEF ComparisonInit
  <2>3. cand \in [Candidates -> Row]
    <3>1. [status |-> "pending", run |-> FALSE, cancel |-> FALSE, core |-> FALSE] \in Row
      BY DEF Row, CandidateStatus
    <3>2. QED
      BY <3>1 DEF ComparisonInit
  <2>4. QED
    BY <2>1, <2>3, BoundAssumption DEF ComparisonInit, ComparisonTypeOK, Row, Preparation, CleanupRecord, Doing, ComparisonStatus
<1>2. \A c \in Candidates : ~cand[c].run /\ cand[c].status = "pending"
  BY DEF ComparisonInit
<1>3. /\ doing.what = "none" /\ prep.at = "none" /\ clean.at = "none" /\ clean.ran = {}
      /\ mode = "up" /\ status = "draft" /\ cleanup = "not_started" /\ base = 0 /\ paths = {}
  BY Handlers, Nones DEF ComparisonInit, Candidates
<1>4. \A c \in Candidates : log[c] = "open" /\ exec[c] = "none" /\ c \notin starting /\ c \notin capturing
  BY DEF ComparisonInit
<1>5. QuietRecovery /\ Prepares /\ Stands /\ Cleans
  BY <1>2, <1>3 DEF QuietRecovery, Prepares, Stands, Cleans, WorktreesShareTheBase
<1>6. \A c \in Candidates : Fits(c)
  BY <1>2, <1>3, <1>4 DEF Fits, Ended, Busy, Endings
<1>7. QED
  BY <1>1, <1>5, <1>6 DEF ComparisonSound

\* Candidates have their own rows, logs and worktrees at every moment.
LEMMA AlwaysSound == ComparisonSpec => []ComparisonSound
<1>1. ComparisonInit => ComparisonSound
  BY InitSound
<1>2. ComparisonSound /\ [ComparisonNext]_comparisonVars => ComparisonSound'
  BY NextKept
<1>3. QED
  BY <1>1, <1>2, PTL DEF ComparisonSpec

\* One candidate runs at a time.
LEMMA SoundIsOneAtATime ==
  ASSUME ComparisonSound
  PROVE  OneAtATime
<1>1. SUFFICES ASSUME NEW c \in Candidates, Busy(c), Busy(Other(c)), \A d \in Candidates : ~cand[d].core
               PROVE  FALSE
  BY DEF OneAtATime
<1>2. Other(c) \in Candidates /\ Fits(c) /\ Fits(Other(c))
  BY Others DEF ComparisonSound
<1>3. cand[c].status = "running" /\ cand[Other(c)].status = "running"
  BY <1>1, <1>2 DEF Fits
<1>4. QED
  BY <1>2, <1>3 DEF Fits

\* A comparison's candidates run one at a time from one base commit, their
\* outcomes are what their logs tell, and a cleanup that says it is complete
\* has left nothing behind.
THEOREM ComparisonIsSound == ComparisonSpec => []ComparisonInv
<1>1. ComparisonSound => ComparisonInv
  <2>1. SUFFICES ASSUME ComparisonSound PROVE ComparisonInv
    OBVIOUS
  <2>2. ComparisonTypeOK /\ OneAtATime
    BY <2>1, SoundIsOneAtATime DEF ComparisonSound
  <2>3. OutcomeMatchesLog
    BY <2>1 DEF ComparisonSound, OutcomeMatchesLog, Fits
  <2>4. WorktreesShareTheBase /\ CompletedCleanupIsComplete
    BY <2>1 DEF ComparisonSound, Stands, CompletedCleanupIsComplete
  <2>5. QED
    BY <2>2, <2>3, <2>4 DEF ComparisonInv
<1>2. QED
  BY <1>1, AlwaysSound, PTL

\* A recomputed status of a comparison that is being torn down is the same.
LEMMA RewriteKeepsReclaimed ==
  ASSUME NEW c, NEW row, Rewrite(c, row), status \in Reclaimed
  PROVE  status' \in Reclaimed
BY DerivedKinds DEF Rewrite, Reclaimed

\* No step takes a comparison that is torn down, or one whose cleanup is
\* complete, back.
LEMMA StepKeepsTornDown ==
  ASSUME ComparisonSound, [ComparisonNext]_comparisonVars
  PROVE  /\ status \in Reclaimed => status' \in Reclaimed
         /\ cleanup = "completed" => cleanup' = "completed"
<1> DEFINE Kept == /\ status \in Reclaimed => status' \in Reclaimed
                   /\ cleanup = "completed" => cleanup' = "completed"
<1> USE DEF Kept
<1>1. ASSUME UNCHANGED <<status, cleanup>> PROVE Kept
  BY <1>1
<1>2. CASE Request
  <2>1. CASE ClaimPreparing
    BY <2>1 DEF ClaimPreparing, Reclaimed
  <2>2. CASE ClaimCleanup
    BY <2>2 DEF ClaimCleanup, Reclaimed
  <2>3. ASSUME NEW c \in Candidates, ClaimCandidateStart(c) PROVE Kept
    BY <2>3 DEF ClaimCandidateStart, Reclaimed
  <2>4. ASSUME NEW c \in Candidates, CancelUnstartedCandidate(c) PROVE Kept
    BY <2>4, RewriteKeepsReclaimed DEF CancelUnstartedCandidate
  <2>5. ASSUME NEW c \in Candidates, RequestCancellation(c) PROVE Kept
    BY <2>5 DEF RequestCancellation
  <2>6. QED
    BY <1>2, <2>1, <2>2, <2>3, <2>4, <2>5 DEF Request
<1>3. CASE Preparing
  <2>1. prep.at # "none" /\ cleanup' = cleanup
    BY <1>3 DEF Preparing, InspectFails, ResolveBase, AddWorktree, RecordWorktree, AddFails, CheckFails,
                RolledBack, rows
  <2>2. status = "preparing"
    BY <2>1 DEF ComparisonSound, Prepares
  <2>3. QED
    BY <2>1, <2>2 DEF Reclaimed
<1>4. CASE Handling
  <2>1. CASE SetReady
    BY <2>1 DEF SetReady, ComparisonSound, Prepares, Reclaimed
  <2>2. CASE EndCleanup
    BY <2>2 DEF EndCleanup, SetCleanup, ComparisonSound, Cleans, Reclaimed
  <2>3. ASSUME NEW c \in Candidates, Project(c) \/ Report(c) PROVE Kept
    BY <2>3 DEF Project, Report
  <2>4. ASSUME NEW c \in Candidates, FinalizeWithoutEvidence(c) \/ GiveUp(c) PROVE Kept
    BY <2>4, RewriteKeepsReclaimed DEF FinalizeWithoutEvidence, GiveUp, SetCandidateCompleted
  <2>5. QED
    BY <1>4, <2>1, <2>2, <2>3, <2>4 DEF Handling
<1>5. CASE Cleaning
  <2>1. CASE ExecutionsSettled \/ ExecutionsTimeout \/ RemoveWorktree \/ ForgetWorktree \/ RemoveFails
    BY <2>1 DEF ExecutionsSettled, ExecutionsTimeout, RemoveWorktree, ForgetWorktree, RemoveFails, rows
  <2>2. CASE FinalizationsSettled \/ FinalizationsTimeout
    BY <2>2 DEF FinalizationsSettled, FinalizationsTimeout, ToRemoval, Reclaimed
  <2>3. QED
    BY <1>5, <2>1, <2>2 DEF Cleaning
<1>6. CASE Recovering
  <2>1. CASE FailInterruptedPreparation \/ FailInterruptedCleanup \/ Recovered
    BY <2>1 DEF FailInterruptedPreparation, FailInterruptedCleanup, Recovered, Reclaimed, rows
  <2>2. ASSUME NEW c \in Candidates, CountMissedEvents(c) \/ RecordInterruptedRun(c) PROVE Kept
    BY <2>2 DEF CountMissedEvents, RecordInterruptedRun
  <2>3. ASSUME NEW c \in Candidates, ReplayOutcome(c) PROVE Kept
    BY <2>3, RewriteKeepsReclaimed DEF ReplayOutcome, SetCandidateCompleted
  <2>4. QED
    BY <1>6, <2>1, <2>2, <2>3 DEF Recovering
<1>7. CASE CommitToSource \/ ShutDown \/ Crash \/ UNCHANGED comparisonVars
  BY <1>7 DEF CommitToSource, ShutDown, Crash, comparisonVars, rows
<1>8. ASSUME NEW c \in Candidates, Starting(c) \/ Running(c) \/ EventStoreFailure(c) \/ FinalizeCandidate(c)
      PROVE Kept
  <2>1. CASE RefuseStart(c)
    BY <2>1, RewriteKeepsReclaimed DEF RefuseStart, ClearCandidateStart
  <2>2. CASE FinalizeCandidate(c)
    BY <2>2, RewriteKeepsReclaimed DEF FinalizeCandidate, SetCandidateCompleted
  <2>3. CASE BeginExecution(c) \/ Running(c) \/ EventStoreFailure(c)
    BY <2>3 DEF BeginExecution, Running, TurnedAway, AgentStarts, StoreTerminalEvent, TerminalEventRefused,
                StreamEnds, StreamThrows, EventStoreFailure, rows
  <2>4. QED
    BY <1>8, <2>1, <2>2, <2>3 DEF Starting
<1>9. QED
  BY <1>2, <1>3, <1>4, <1>5, <1>6, <1>7, <1>8 DEF ComparisonNext

\* A comparison that was torn down stays torn down, whatever its runs still do.
THEOREM TornDownStays == ComparisonSpec => TornDownForGood
<1>1. ComparisonSound /\ [ComparisonNext]_comparisonVars =>
        [/\ status \in Reclaimed => status' \in Reclaimed
         /\ cleanup = "completed" => cleanup' = "completed"]_comparisonVars
  BY StepKeepsTornDown
<1>2. QED
  BY <1>1, AlwaysSound, PTL DEF ComparisonSpec, TornDownForGood

\* Only a cleanup takes a worktree of a run that was going on, and it waits.
LEMMA StepWaitsForGit ==
  ASSUME ComparisonSound, [ComparisonNext]_comparisonVars, NEW c \in clean.ran, tree[c] # 0, tree'[c] = 0
  PROVE  (exec[c] = "none" /\ c \notin capturing) \/ clean.late
<1>1. c \in Candidates /\ clean.at # "none"
  BY Types DEF ComparisonSound, Cleans
<1>2. status # "preparing"
  BY <1>1 DEF ComparisonSound, Cleans
<1>3. prep.at = "none"
  BY <1>2 DEF ComparisonSound, Prepares
<1>4. CASE RemoveWorktree
  BY <1>4, Types DEF RemoveWorktree, ComparisonSound, Cleans
<1>5. CASE tree' = tree
  BY <1>5
<1>6. CASE Preparing
  BY <1>3, <1>6 DEF Preparing, InspectFails, ResolveBase, AddWorktree, RecordWorktree, AddFails, CheckFails,
                     RolledBack
<1>7. ComparisonNext \/ UNCHANGED comparisonVars => RemoveWorktree \/ tree' = tree \/ Preparing
  <2>1. CASE Request
    BY <2>1 DEF Request, ClaimPreparing, ClaimCleanup, ClaimCandidateStart, CancelUnstartedCandidate,
                RequestCancellation
  <2>2. CASE Handling
    BY <2>2 DEF Handling, SetReady, EndCleanup, Project, FinalizeWithoutEvidence, Report, GiveUp
  <2>3. CASE Cleaning
    BY <2>3 DEF Cleaning, ExecutionsSettled, ExecutionsTimeout, FinalizationsSettled, FinalizationsTimeout,
                ForgetWorktree, RemoveFails
  <2>4. CASE Recovering
    BY <2>4 DEF Recovering, FailInterruptedPreparation, FailInterruptedCleanup, Recovered, CountMissedEvents,
                ReplayOutcome, RecordInterruptedRun
  <2>5. CASE CommitToSource \/ ShutDown \/ Crash \/ UNCHANGED comparisonVars
    BY <2>5 DEF CommitToSource, ShutDown, Crash, comparisonVars
  <2>6. ASSUME NEW d \in Candidates, Starting(d) \/ Running(d) \/ EventStoreFailure(d) \/ FinalizeCandidate(d)
        PROVE  tree' = tree
    BY <2>6 DEF Starting, RefuseStart, BeginExecution, Running, TurnedAway, AgentStarts, StoreTerminalEvent,
                TerminalEventRefused, StreamEnds, StreamThrows, EventStoreFailure, FinalizeCandidate
  <2>7. QED
    BY <2>1, <2>2, <2>3, <2>4, <2>5, <2>6 DEF ComparisonNext
<1>8. QED
  BY <1>4, <1>5, <1>6, <1>7

\* A worktree in use when its cleanup began goes only after its run and its
\* capture have ended, or after the grace time.
THEOREM RemovalWaits == ComparisonSpec => RemovalWaitsForGit
<1>1. ComparisonSound /\ [ComparisonNext]_comparisonVars =>
        [\A c \in clean.ran : tree[c] # 0 /\ tree'[c] = 0 =>
           (exec[c] = "none" /\ c \notin capturing) \/ clean.late]_comparisonVars
  BY StepWaitsForGit
<1>2. QED
  BY <1>1, AlwaysSound, PTL DEF ComparisonSpec, RemovalWaitsForGit

-----------------------------------------------------------------------------
(* One run over an adapter, first that of a command line agent.            *)

Exits == {"missing", "exited"}

(* The stream closes with the one outcome the guard recorded, its last.    *)
ToldOnce(r) ==
  /\ r.closed <=> Terminated(r)
  /\ \A i \in 1..Len(r.out) : r.out[i] \in Outcomes => i = Len(r.out) /\ Terminated(r)
  /\ Terminated(r) => r.out # <<>> /\ r.out[Len(r.out)] = r.terminal

(* What there is before the process, and without it.                       *)
Placed(r) ==
  /\ r.phase # "spawned" => ~r.pid
  /\ ~r.pid => r.exit = None
  /\ r.phase \in {"idle", "gate"} =>
       ~Terminated(r) /\ r.timers = {} /\ ~r.clean /\ ~r.ended

(* What is armed, and what a clean-up leaves.                              *)
Armed(r) ==
  /\ r.clean => Terminated(r) /\ r.timers = {} /\ (r.exit # None \/ ~r.pid)
  /\ "drain" \in r.timers => r.exit # None
  /\ Codex => ~r.stray /\ ("grace" \in r.timers => r.terminating)

(* Which conclusions wait for the exit.                                    *)
Judged(r) ==
  /\ r.cause \in Exits => r.exit # None
  /\ r.terminal = "cancelled" => r.exit # None \/ ~r.pid

Sound(r) == r \in Run /\ ToldOnce(r) /\ Placed(r) /\ Armed(r) /\ Judged(r)

Tolerant(r) == r.malformed > MaxTolerated => Terminated(r)

(* What the methods that work on the output leave alone.                   *)
Kept(r, s) ==
  /\ s.phase = r.phase /\ s.pid = r.pid /\ s.exit = r.exit
  /\ s.ended = r.ended /\ s.clean = r.clean
  /\ Terminated(r) => Terminated(s)
  /\ s.cause \in Exits => r.cause = s.cause

(* An event appended to the ones the reader has.                           *)
LEMMA Appending ==
  ASSUME NEW S, NEW out \in Seq(S), NEW event \in S
  PROVE  /\ Append(out, event) \in Seq(S) /\ Append(out, event) # <<>>
         /\ Len(Append(out, event)) = Len(out) + 1 /\ Len(out) \in Nat
         /\ Append(out, event)[Len(out) + 1] = event
         /\ \A i \in 1..Len(out) : Append(out, event)[i] = out[i]
BY SMT

LEMMA PushKeeps ==
  ASSUME NEW r, Sound(r), ~Terminated(r)
  PROVE  /\ Sound(Push(r, "content")) /\ Kept(r, Push(r, "content"))
         /\ Push(r, "content").malformed = r.malformed
<1> DEFINE s == Push(r, "content")
<1>1. r \in Run /\ ~r.closed /\ r.out \in Seq(Outcomes \cup {"started", "content"})
  BY DEF Sound, ToldOnce, Run
<1>2. s = [r EXCEPT !.out = Append(@, "content")]
  BY <1>1 DEF Push
<1>3. /\ s \in Run /\ s.out = Append(r.out, "content") /\ s.terminal = r.terminal /\ s.closed = r.closed
      /\ s.phase = r.phase /\ s.pid = r.pid /\ s.exit = r.exit /\ s.ended = r.ended
      /\ s.clean = r.clean /\ s.malformed = r.malformed /\ s.cause = r.cause
      /\ s.timers = r.timers /\ s.stray = r.stray /\ s.terminating = r.terminating
  <2>1. Append(r.out, "content") \in Seq(Outcomes \cup {"started", "content"})
    BY <1>1
  <2> QED
    BY <1>1, <1>2, <2>1 DEF Run
<1> HIDE DEF s
<1>4. ToldOnce(s)
  <2>1. "content" \notin Outcomes
    BY DEF Outcomes
  <2>2. \A i \in 1..Len(r.out) : r.out[i] \notin Outcomes
    BY DEF Sound, ToldOnce
  <2> DEFINE t == Append(r.out, "content")
  <2>3. /\ Len(t) = Len(r.out) + 1 /\ Len(r.out) \in Nat /\ t[Len(r.out) + 1] = "content"
        /\ \A i \in 1..Len(r.out) : t[i] = r.out[i]
    BY <1>1, Appending
  <2> HIDE DEF t
  <2>4. \A i \in 1..Len(t) : t[i] \notin Outcomes
    BY <2>1, <2>2, <2>3
  <2>5. ~Terminated(s) /\ s.out = t /\ ~s.closed
    BY <1>1, <1>3 DEF Terminated, t
  <2> QED
    BY <2>4, <2>5 DEF ToldOnce
<1>5. Placed(s) /\ Armed(s) /\ Judged(s) /\ Kept(r, s)
  BY <1>3 DEF Sound, Placed, Armed, Judged, Kept, Terminated
<1> QED
  BY <1>3, <1>4, <1>5 DEF Sound, s

(* guardEvent, push and close.                                             *)
LEMMA FinishIs ==
  ASSUME NEW r, r \in Run, ToldOnce(r), NEW outcome \in Outcomes, NEW why \in Causes
  PROVE  LET s == Finish(r, outcome, why) IN
         /\ s \in Run /\ ToldOnce(s) /\ Terminated(s)
         /\ s.phase = r.phase /\ s.pid = r.pid /\ s.exit = r.exit /\ s.ended = r.ended
         /\ s.clean = r.clean /\ s.malformed = r.malformed /\ s.requested = r.requested
         /\ s.timers = r.timers /\ s.stray = r.stray /\ s.terminating = r.terminating
         /\ s.sent = r.sent
         /\ IF Terminated(r) THEN s.terminal = r.terminal /\ s.cause = r.cause
            ELSE s.terminal = outcome /\ s.cause = why
<1> DEFINE s == Finish(r, outcome, why)
<1>1. None \notin Outcomes
  BY DEF Outcomes, None
<1>2. CASE Terminated(r)
  <2>1. s = [r EXCEPT !.closed = TRUE]
    BY <1>2 DEF Finish
  <2>2. r.closed
    BY <1>2 DEF ToldOnce
  <2>3. /\ s \in Run /\ s.out = r.out /\ s.closed /\ s.terminal = r.terminal /\ s.cause = r.cause
        /\ s.phase = r.phase /\ s.pid = r.pid /\ s.exit = r.exit /\ s.ended = r.ended
        /\ s.clean = r.clean /\ s.malformed = r.malformed /\ s.requested = r.requested
        /\ s.timers = r.timers /\ s.stray = r.stray /\ s.terminating = r.terminating
        /\ s.sent = r.sent
    BY <2>1 DEF Run
  <2> HIDE DEF s
  <2>4. Terminated(s) /\ ToldOnce(s)
    BY <1>2, <2>2, <2>3 DEF ToldOnce, Terminated
  <2> QED
    BY <1>2, <2>3, <2>4 DEF s
<1>3. CASE ~Terminated(r)
  <2>1. ~r.closed /\ r.out \in Seq(Outcomes \cup {"started", "content"})
    BY <1>3 DEF ToldOnce, Run
  <2>2. s = [r EXCEPT !.out = Append(@, outcome), !.terminal = outcome, !.cause = why, !.closed = TRUE]
    BY <1>3, <2>1 DEF Finish, Push
  <2> DEFINE t == Append(r.out, outcome)
  <2>3. /\ t \in Seq(Outcomes \cup {"started", "content"}) /\ t # <<>>
        /\ Len(t) = Len(r.out) + 1 /\ Len(r.out) \in Nat /\ t[Len(r.out) + 1] = outcome
        /\ \A i \in 1..Len(r.out) : t[i] = r.out[i]
    BY <2>1, Appending
  <2> HIDE DEF t
  <2>4. /\ s \in Run /\ s.out = t /\ s.closed /\ s.terminal = outcome /\ s.cause = why
        /\ s.phase = r.phase /\ s.pid = r.pid /\ s.exit = r.exit /\ s.ended = r.ended
        /\ s.clean = r.clean /\ s.malformed = r.malformed /\ s.requested = r.requested
        /\ s.timers = r.timers /\ s.stray = r.stray /\ s.terminating = r.terminating
        /\ s.sent = r.sent
    <3>1. s = [r EXCEPT !.out = t, !.terminal = outcome, !.cause = why, !.closed = TRUE]
      BY <2>2 DEF t
    <3>2. outcome \in Outcomes \cup {None}
      OBVIOUS
    <3> HIDE DEF s
    <3>3. s \in Run
      BY <2>3, <3>1, <3>2 DEF Run
    <3>4. /\ s.out = t /\ s.closed /\ s.terminal = outcome /\ s.cause = why
          /\ s.phase = r.phase /\ s.pid = r.pid /\ s.exit = r.exit /\ s.ended = r.ended
          /\ s.clean = r.clean /\ s.malformed = r.malformed /\ s.requested = r.requested
          /\ s.timers = r.timers /\ s.stray = r.stray /\ s.terminating = r.terminating
          /\ s.sent = r.sent
      BY <3>1 DEF Run
    <3> QED
      BY <3>3, <3>4
  <2> HIDE DEF s
  <2>5. Terminated(s)
    BY <1>1, <2>4 DEF Terminated
  <2>6. \A i \in 1..Len(t) : t[i] \in Outcomes => i = Len(t)
    <3>1. \A i \in 1..Len(r.out) : r.out[i] \notin Outcomes
      BY <1>3 DEF ToldOnce
    <3> QED
      BY <2>3, <3>1
  <2>7. ToldOnce(s)
    BY <2>3, <2>4, <2>5, <2>6 DEF ToldOnce
  <2> QED
    BY <1>3, <2>4, <2>5, <2>7 DEF s
<1> QED
  BY <1>2, <1>3

(* A failure is reported as any other outcome; it says nothing of the exit. *)
LEMMA FinishKeeps ==
  ASSUME NEW r, Sound(r), ~r.clean, r.phase \notin {"idle", "gate"},
         NEW outcome \in {"completed", "failed"}, NEW why \in Causes \ Exits
  PROVE  /\ Sound(Finish(r, outcome, why)) /\ Kept(r, Finish(r, outcome, why))
         /\ Terminated(Finish(r, outcome, why)) /\ Finish(r, outcome, why).malformed = r.malformed
<1> DEFINE s == Finish(r, outcome, why)
<1>1. r \in Run /\ ToldOnce(r) /\ outcome \in Outcomes /\ why \in Causes /\ why \notin Exits
  BY DEF Sound, Outcomes
<1>2. /\ s \in Run /\ ToldOnce(s) /\ Terminated(s)
      /\ s.phase = r.phase /\ s.pid = r.pid /\ s.exit = r.exit /\ s.ended = r.ended
      /\ s.clean = r.clean /\ s.malformed = r.malformed
      /\ s.timers = r.timers /\ s.stray = r.stray /\ s.terminating = r.terminating
      /\ IF Terminated(r) THEN s.terminal = r.terminal /\ s.cause = r.cause
         ELSE s.terminal = outcome /\ s.cause = why
  BY <1>1, FinishIs
<1> HIDE DEF s
<1>3. Placed(s) /\ Armed(s)
  BY <1>2 DEF Sound, Placed, Armed
<1>4. Judged(s) /\ Kept(r, s)
  BY <1>1, <1>2 DEF Sound, Judged, Kept
<1> QED
  BY <1>2, <1>3, <1>4 DEF Sound, s

(* The graceful phase arms the forced one, once in a Codex run.            *)
LEMMA TerminateIs ==
  ASSUME NEW r, r \in Run, Codex => ~r.stray /\ ("grace" \in r.timers => r.terminating)
  PROVE  LET s == TerminateProcess(r) IN
         /\ s \in Run
         /\ s.phase = r.phase /\ s.pid = r.pid /\ s.exit = r.exit /\ s.ended = r.ended
         /\ s.clean = r.clean /\ s.malformed = r.malformed /\ s.requested = r.requested
         /\ s.closed = r.closed /\ s.out = r.out /\ s.terminal = r.terminal /\ s.cause = r.cause
         /\ s.timers \ {"grace"} = r.timers \ {"grace"} /\ (~r.pid => s.timers = r.timers)
         /\ Codex => ~s.stray /\ ("grace" \in s.timers => s.terminating)
<1> DEFINE s == TerminateProcess(r)
           first == IF setup.platform = "posix" THEN "TERM" ELSE "STOP"
<1>1. Codex \in BOOLEAN
  BY DEF Codex
<1>2. "grace" \in Timers
  BY DEF Timers
<1>3. CASE r.terminating
  <2>1. s = r
    BY <1>3 DEF TerminateProcess
  <2> QED
    BY <1>3, <2>1
<1>4. CASE ~r.terminating /\ ~r.pid
  <2>1. s = [r EXCEPT !.terminating = Codex]
    BY <1>4 DEF TerminateProcess
  <2> HIDE DEF s
  <2>2. s \in Run
    BY <1>1, <2>1 DEF Run
  <2>3. /\ s.phase = r.phase /\ s.pid = r.pid /\ s.exit = r.exit /\ s.ended = r.ended
        /\ s.clean = r.clean /\ s.malformed = r.malformed /\ s.requested = r.requested
        /\ s.closed = r.closed /\ s.out = r.out /\ s.terminal = r.terminal /\ s.cause = r.cause
        /\ s.timers = r.timers /\ s.stray = r.stray /\ s.terminating = Codex
    BY <2>1 DEF Run
  <2> QED
    BY <1>4, <2>2, <2>3 DEF s
<1>5. CASE ~r.terminating /\ r.pid
  <2>1. s = [r EXCEPT !.terminating = Codex, !.sent = @ \cup {first},
                      !.stray = @ \/ "grace" \in r.timers, !.timers = @ \cup {"grace"}]
    BY <1>5 DEF TerminateProcess
  <2>2. first \in {"TERM", "STOP", "KILL"}
    OBVIOUS
  <2> DEFINE late == r.stray \/ "grace" \in r.timers
             signals == r.sent \cup {first}
             armed == r.timers \cup {"grace"}
  <2>3. late \in BOOLEAN
    OBVIOUS
  <2>4. signals \in SUBSET {"TERM", "STOP", "KILL"} /\ armed \in SUBSET Timers
    BY <1>2, <2>2 DEF Run
  <2>5. s = [r EXCEPT !.terminating = Codex, !.sent = signals, !.stray = late, !.timers = armed]
    BY <2>1
  <2>6. armed \ {"grace"} = r.timers \ {"grace"}
    OBVIOUS
  <2>7. Codex => ~late
    BY <1>5
  <2> HIDE DEF s, late, signals, armed, first
  <2>8. s \in Run
    BY <1>1, <2>3, <2>4, <2>5 DEF Run
  <2>9. /\ s.phase = r.phase /\ s.pid = r.pid /\ s.exit = r.exit /\ s.ended = r.ended
        /\ s.clean = r.clean /\ s.malformed = r.malformed /\ s.requested = r.requested
        /\ s.closed = r.closed /\ s.out = r.out /\ s.terminal = r.terminal /\ s.cause = r.cause
        /\ s.timers = armed /\ s.stray = late /\ s.terminating = Codex
    BY <2>5 DEF Run
  <2> QED
    BY <1>5, <2>6, <2>7, <2>8, <2>9 DEF s
<1> QED
  BY <1>3, <1>4, <1>5

LEMMA TerminateKeeps ==
  ASSUME NEW r, Sound(r), ~r.clean
  PROVE  /\ Sound(TerminateProcess(r)) /\ Kept(r, TerminateProcess(r))
         /\ TerminateProcess(r).terminal = r.terminal
         /\ TerminateProcess(r).malformed = r.malformed
<1> DEFINE s == TerminateProcess(r)
<1>1. r \in Run /\ (Codex => ~r.stray /\ ("grace" \in r.timers => r.terminating))
  BY DEF Sound, Armed
<1>2. /\ s \in Run
      /\ s.phase = r.phase /\ s.pid = r.pid /\ s.exit = r.exit /\ s.ended = r.ended
      /\ s.clean = r.clean /\ s.malformed = r.malformed
      /\ s.closed = r.closed /\ s.out = r.out /\ s.terminal = r.terminal /\ s.cause = r.cause
      /\ s.timers \ {"grace"} = r.timers \ {"grace"} /\ (~r.pid => s.timers = r.timers)
      /\ Codex => ~s.stray /\ ("grace" \in s.timers => s.terminating)
  BY <1>1, TerminateIs
<1>3. "drain" \in s.timers => "drain" \in r.timers
  BY <1>2
<1> HIDE DEF s
<1>4. ToldOnce(s) /\ Judged(s) /\ Kept(r, s)
  BY <1>2 DEF Sound, ToldOnce, Judged, Kept, Terminated
<1>5. Placed(s)
  BY <1>2 DEF Sound, Placed, Terminated
<1>6. Armed(s)
  BY <1>2, <1>3 DEF Sound, Armed, Terminated
<1> QED
  BY <1>2, <1>4, <1>5, <1>6 DEF Sound, s

LEMMA FailKeeps ==
  ASSUME NEW r, Sound(r), ~r.clean, r.phase \notin {"idle", "gate"}, NEW why \in Causes \ Exits
  PROVE  /\ Sound(FailAndTerminateProcess(r, why)) /\ Kept(r, FailAndTerminateProcess(r, why))
         /\ Terminated(FailAndTerminateProcess(r, why))
         /\ FailAndTerminateProcess(r, why).malformed = r.malformed
<1> DEFINE f == FinishFailed(r, why)
           s == TerminateProcess(f)
<1>1. Sound(f) /\ Kept(r, f) /\ Terminated(f) /\ f.malformed = r.malformed
  BY FinishKeeps DEF FinishFailed
<1> HIDE DEF f
<1>2. ~f.clean
  BY <1>1 DEF Kept
<1>3. Sound(s) /\ Kept(f, s) /\ s.terminal = f.terminal /\ s.malformed = f.malformed
  BY <1>1, <1>2, TerminateKeeps
<1>4. FailAndTerminateProcess(r, why) = s
  BY DEF FailAndTerminateProcess, f
<1> HIDE DEF s
<1>5. Kept(r, s) /\ Terminated(s)
  BY <1>1, <1>3 DEF Kept, Terminated
<1> QED
  BY <1>1, <1>3, <1>4, <1>5

(* A field that no promise is about.                                       *)
LEMMA ElsewhereKeeps ==
  ASSUME NEW r, NEW s, Sound(r), s \in Run,
         s.closed = r.closed, s.out = r.out, s.terminal = r.terminal, s.cause = r.cause,
         s.phase = r.phase, s.pid = r.pid, s.exit = r.exit, s.ended = r.ended,
         s.clean = r.clean, s.timers = r.timers, s.stray = r.stray,
         s.terminating = r.terminating
  PROVE  Sound(s) /\ Kept(r, s)
<1>1. ToldOnce(s)
  BY DEF Sound, ToldOnce, Terminated
<1>2. Placed(s) /\ Armed(s) /\ Judged(s)
  BY DEF Sound, Placed, Armed, Judged, Terminated
<1>3. Kept(r, s)
  BY DEF Kept, Terminated
<1> QED
  BY <1>1, <1>2, <1>3 DEF Sound

LEMMA ClearKeeps ==
  ASSUME NEW r, Sound(r), NEW timer
  PROVE  LET s == ClearTimer(r, timer) IN
         /\ Sound(s) /\ Kept(r, s) /\ s.terminal = r.terminal /\ s.malformed = r.malformed
         /\ s.timers = r.timers \ {timer} /\ s.partial = r.partial /\ s.requested = r.requested
<1> DEFINE s == ClearTimer(r, timer)
           left == r.timers \ {timer}
<1>1. s = [r EXCEPT !.timers = left] /\ r \in Run
  BY DEF ClearTimer, Sound
<1>2. left \in SUBSET Timers
  BY <1>1 DEF Run
<1>3. /\ "drain" \in left => "drain" \in r.timers
      /\ "grace" \in left => "grace" \in r.timers
      /\ r.timers = {} => left = {}
  OBVIOUS
<1> HIDE DEF s, left
<1>4. s \in Run
  BY <1>1, <1>2 DEF Run
<1>5. /\ s.closed = r.closed /\ s.out = r.out /\ s.terminal = r.terminal /\ s.cause = r.cause
      /\ s.phase = r.phase /\ s.pid = r.pid /\ s.exit = r.exit /\ s.ended = r.ended
      /\ s.clean = r.clean /\ s.timers = left /\ s.stray = r.stray
      /\ s.terminating = r.terminating /\ s.malformed = r.malformed
      /\ s.partial = r.partial /\ s.requested = r.requested
  BY <1>1 DEF Run
<1>6. ToldOnce(s) /\ Judged(s) /\ Kept(r, s)
  BY <1>5 DEF Sound, ToldOnce, Judged, Kept, Terminated
<1>7. Placed(s)
  BY <1>3, <1>5 DEF Sound, Placed, Terminated
<1>8. Armed(s)
  BY <1>3, <1>5 DEF Sound, Armed, Terminated
<1> QED
  BY <1>4, <1>5, <1>6, <1>7, <1>8 DEF Sound, s, left

LEMMA ArmKeeps ==
  ASSUME NEW r, Sound(r), ~r.clean, r.phase \notin {"idle", "gate"}
  PROVE  LET s == ArmInactivityTimer(r) IN
         /\ Sound(s) /\ Kept(r, s) /\ s.terminal = r.terminal /\ s.malformed = r.malformed
<1> DEFINE s == ArmInactivityTimer(r)
           armed == r.timers \cup {"inactivity"}
<1>1. CASE ~(Codex /\ ~Terminated(r))
  <2>1. s = r
    BY <1>1 DEF ArmInactivityTimer
  <2> QED
    BY <2>1 DEF Kept
<1>2. CASE Codex /\ ~Terminated(r)
  <2>1. s = [r EXCEPT !.timers = armed] /\ r \in Run
    BY <1>2 DEF ArmInactivityTimer, Sound
  <2>2. armed \in SUBSET Timers
    BY <2>1 DEF Run, Timers
  <2>3. ("drain" \in armed => "drain" \in r.timers) /\ ("grace" \in armed => "grace" \in r.timers)
    OBVIOUS
  <2> HIDE DEF s, armed
  <2>4. s \in Run
    BY <2>1, <2>2 DEF Run
  <2>5. /\ s.closed = r.closed /\ s.out = r.out /\ s.terminal = r.terminal /\ s.cause = r.cause
        /\ s.phase = r.phase /\ s.pid = r.pid /\ s.exit = r.exit /\ s.ended = r.ended
        /\ s.clean = r.clean /\ s.timers = armed /\ s.stray = r.stray
        /\ s.terminating = r.terminating /\ s.malformed = r.malformed
    BY <2>1 DEF Run
  <2>6. ToldOnce(s) /\ Judged(s) /\ Kept(r, s)
    BY <2>5 DEF Sound, ToldOnce, Judged, Kept, Terminated
  <2>7. Placed(s)
    BY <2>5 DEF Sound, Placed, Terminated
  <2>8. Armed(s)
    BY <2>3, <2>5 DEF Sound, Armed, Terminated
  <2> QED
    BY <2>4, <2>5, <2>6, <2>7, <2>8 DEF Sound, s
<1> QED
  BY <1>1, <1>2

(* One line of the output, for a run that is being read.                   *)
LEMMA ParserKeeps ==
  ASSUME NEW r, Sound(r), Tolerant(r), ~r.clean, r.phase \notin {"idle", "gate"},
         NEW line \in Lines \cup {"part"}
  PROVE  LET s == HandleParserOutcome(r, line) IN
         /\ Sound(s) /\ Tolerant(s) /\ Kept(r, s)
         /\ line = "result" => Terminated(s)
<1> DEFINE s == HandleParserOutcome(r, line)
<1>0. r \in Run /\ Kept(r, r) /\ MaxTolerated \in Nat
  BY BoundsAssumption DEF Sound, Kept
<1>1. CASE line = "text"
  <2>1. s = IF Terminated(r) THEN r ELSE Push(r, "content")
    BY <1>1 DEF HandleParserOutcome
  <2>2. CASE Terminated(r)
    BY <1>0, <1>1, <2>1, <2>2
  <2>3. CASE ~Terminated(r)
    <3>1. Sound(s) /\ Kept(r, s) /\ s.malformed = r.malformed
      BY <2>1, <2>3, PushKeeps
    <3> HIDE DEF s
    <3>2. Tolerant(s)
      BY <2>3, <3>1 DEF Tolerant
    <3> QED
      BY <1>1, <3>1, <3>2 DEF s
  <2> QED
    BY <2>2, <2>3
<1>2. CASE line \in {"result", "error"}
  <2> DEFINE outcome == IF line = "result" THEN "completed" ELSE "failed"
             f == Finish(r, outcome, "agent")
  <2>1. s = IF Terminated(r) THEN r ELSE ClearTimer(f, "inactivity")
    BY <1>2 DEF HandleParserOutcome
  <2>2. CASE Terminated(r)
    BY <1>0, <2>1, <2>2
  <2>3. CASE ~Terminated(r)
    <3>1. "agent" \in Causes \ Exits /\ outcome \in {"completed", "failed"}
      BY DEF Causes, Exits
    <3>2. Sound(f) /\ Kept(r, f) /\ Terminated(f)
      BY <3>1, FinishKeeps
    <3> HIDE DEF f
    <3>3. Sound(s) /\ Kept(f, s) /\ s.terminal = f.terminal
      BY <2>1, <2>3, <3>2, ClearKeeps
    <3> HIDE DEF s
    <3>4. Kept(r, s) /\ Terminated(s) /\ Tolerant(s)
      BY <3>2, <3>3 DEF Kept, Terminated, Tolerant
    <3> QED
      BY <3>3, <3>4 DEF s
  <2> QED
    BY <2>2, <2>3
<1>3. CASE line = "malformed" /\ r.malformed >= MaxTolerated
  <2> DEFINE c == [r EXCEPT !.malformed = MaxTolerated + 1]
  <2>1. s = FailAndTerminateProcess(c, "stream")
    BY <1>3 DEF HandleParserOutcome
  <2>2. MaxTolerated + 1 \in 0..(MaxTolerated + 1)
    BY <1>0
  <2>3. /\ c \in Run
        /\ c.closed = r.closed /\ c.out = r.out /\ c.terminal = r.terminal /\ c.cause = r.cause
        /\ c.phase = r.phase /\ c.pid = r.pid /\ c.exit = r.exit /\ c.ended = r.ended
        /\ c.clean = r.clean /\ c.timers = r.timers /\ c.stray = r.stray
        /\ c.terminating = r.terminating
    BY <1>0, <2>2 DEF Run
  <2> HIDE DEF c
  <2>4. Sound(c) /\ Kept(r, c)
    BY <2>3, ElsewhereKeeps
  <2>5. "stream" \in Causes \ Exits
    BY DEF Causes, Exits
  <2>6. Sound(s) /\ Kept(c, s) /\ Terminated(s)
    BY <2>1, <2>3, <2>4, <2>5, FailKeeps
  <2> HIDE DEF s
  <2>7. Kept(r, s) /\ Tolerant(s)
    BY <2>4, <2>6 DEF Kept, Tolerant
  <2> QED
    BY <2>6, <2>7 DEF s
<1>4. CASE line = "malformed" /\ ~(r.malformed >= MaxTolerated)
  <2>1. s = [r EXCEPT !.malformed = @ + 1]
    BY <1>4 DEF HandleParserOutcome
  <2>2. r.malformed \in 0..(MaxTolerated + 1)
    BY <1>0 DEF Run
  <2>3. r.malformed + 1 \in 0..(MaxTolerated + 1) /\ r.malformed + 1 <= MaxTolerated
    BY <1>0, <1>4, <2>2
  <2> HIDE DEF s
  <2>4. s \in Run
    BY <1>0, <2>1, <2>3 DEF Run
  <2>5. /\ s.closed = r.closed /\ s.out = r.out /\ s.terminal = r.terminal /\ s.cause = r.cause
        /\ s.phase = r.phase /\ s.pid = r.pid /\ s.exit = r.exit /\ s.ended = r.ended
        /\ s.clean = r.clean /\ s.timers = r.timers /\ s.stray = r.stray
        /\ s.terminating = r.terminating /\ s.malformed = r.malformed + 1
    BY <1>0, <2>1 DEF Run
  <2>6. Sound(s) /\ Kept(r, s)
    BY <2>4, <2>5, ElsewhereKeeps
  <2>7. Tolerant(s)
    BY <1>0, <2>2, <2>3, <2>5 DEF Tolerant
  <2> QED
    BY <1>4, <2>6, <2>7 DEF s
<1>5. CASE line = "oversized"
  <2>1. s = FailAndTerminateProcess(r, "stream")
    BY <1>5 DEF HandleParserOutcome
  <2>2. "stream" \in Causes \ Exits
    BY DEF Causes, Exits
  <2>3. Sound(s) /\ Kept(r, s) /\ Terminated(s)
    BY <2>1, <2>2, FailKeeps
  <2> HIDE DEF s
  <2> QED
    BY <1>5, <2>3 DEF Tolerant, s
<1>6. CASE line = "part"
  <2>1. s = [r EXCEPT !.partial = TRUE]
    BY <1>6 DEF HandleParserOutcome
  <2> HIDE DEF s
  <2>2. s \in Run
    BY <1>0, <2>1 DEF Run
  <2>3. /\ s.closed = r.closed /\ s.out = r.out /\ s.terminal = r.terminal /\ s.cause = r.cause
        /\ s.phase = r.phase /\ s.pid = r.pid /\ s.exit = r.exit /\ s.ended = r.ended
        /\ s.clean = r.clean /\ s.timers = r.timers /\ s.stray = r.stray
        /\ s.terminating = r.terminating /\ s.malformed = r.malformed
    BY <1>0, <2>1 DEF Run
  <2>4. Sound(s) /\ Kept(r, s)
    BY <2>2, <2>3, ElsewhereKeeps
  <2> QED
    BY <1>6, <2>3, <2>4 DEF Tolerant, Terminated, s
<1> QED
  BY <1>1, <1>2, <1>3, <1>4, <1>5, <1>6 DEF Lines

LEMMA SetInduction ==
  ASSUME NEW T, 0 \in T, \A n \in Nat : n \in T => n + 1 \in T
  PROVE  Nat \subseteq T
<1> DEFINE Left == Nat \ T
<1>1. SUFFICES ASSUME Left # {} PROVE FALSE
  OBVIOUS
<1>2. PICK x \in Left : \A y \in Left : ~(<<y, x>> \in OpToRel(<, Nat))
  BY <1>1, WFMin, NatLessThanWellFounded
<1>3. x \in Nat /\ x # 0
  OBVIOUS
<1>4. x - 1 \in Nat /\ x - 1 < x /\ (x - 1) + 1 = x
  BY <1>3, SMT
<1>5. x - 1 \in Left
  BY <1>2, <1>4
<1>6. <<x - 1, x>> \in OpToRel(<, Nat)
  BY <1>3, <1>4, SMT DEF OpToRel
<1> QED
  BY <1>2, <1>5, <1>6

Reads(f, r, lines) ==
  f = [n \in 0..Len(lines) |-> IF n = 0 THEN r ELSE HandleParserOutcome(f[n - 1], lines[n])]

(* There is a function that reads the lines of a chunk one after another.  *)
LEMMA ChunkIsRead ==
  ASSUME NEW r, NEW lines, Len(lines) \in Nat
  PROVE  \E f : Reads(f, r, lines)
<1> DEFINE T == {m \in Nat : \E f : f = [n \in 0..m |->
                       IF n = 0 THEN r ELSE HandleParserOutcome(f[n - 1], lines[n])]}
<1>1. 0 \in T
  <2> DEFINE f == [n \in 0..0 |-> r]
  <2>1. f = [n \in 0..0 |-> IF n = 0 THEN r ELSE HandleParserOutcome(f[n - 1], lines[n])]
    OBVIOUS
  <2> HIDE DEF f
  <2> QED
    BY <2>1
<1>2. ASSUME NEW m \in Nat, m \in T
      PROVE  m + 1 \in T
  <2>1. PICK f : f = [n \in 0..m |-> IF n = 0 THEN r ELSE HandleParserOutcome(f[n - 1], lines[n])]
    BY <1>2
  <2> DEFINE g == [n \in 0..(m + 1) |->
                     IF n = m + 1 THEN HandleParserOutcome(f[m], lines[m + 1]) ELSE f[n]]
             h1 == [n \in 0..(m + 1) |->
                     IF n = 0 THEN r ELSE HandleParserOutcome(g[n - 1], lines[n])]
  <2>2. ASSUME NEW n \in 0..(m + 1)
        PROVE  g[n] = IF n = 0 THEN r ELSE HandleParserOutcome(g[n - 1], lines[n])
    <3>1. CASE n = m + 1
      <4>1. n # 0 /\ m \in 0..(m + 1) /\ m # m + 1 /\ n - 1 = m
        BY <3>1
      <4>2. g[m] = f[m]
        BY <4>1
      <4>3. g[n] = HandleParserOutcome(f[m], lines[m + 1])
        BY <3>1
      <4> HIDE DEF g
      <4> QED
        BY <3>1, <4>1, <4>2, <4>3
    <3>2. CASE n # m + 1 /\ n = 0
      <4>1. g[n] = f[n] /\ n \in 0..m
        BY <3>2
      <4>2. f[n] = r
        BY <2>1, <3>2, <4>1
      <4> QED
        BY <3>2, <4>1, <4>2
    <3>3. CASE n # m + 1 /\ n # 0
      <4>1. n \in 0..m /\ n - 1 \in 0..m /\ n - 1 \in 0..(m + 1) /\ n - 1 # m + 1
        BY <3>3
      <4>2. g[n] = f[n] /\ g[n - 1] = f[n - 1]
        BY <3>3, <4>1
      <4>3. f[n] = HandleParserOutcome(f[n - 1], lines[n])
        BY <2>1, <3>3, <4>1
      <4> HIDE DEF g
      <4> QED
        BY <3>3, <4>2, <4>3
    <3> QED
      BY <3>1, <3>2, <3>3
  <2>3. g = h1
    <3> HIDE DEF g
    <3>1. \A n \in 0..(m + 1) : g[n] = h1[n]
      BY <2>2
    <3>2. g = [n \in 0..(m + 1) |-> g[n]]
      BY DEF g
    <3> QED
      BY <2>2, <3>2
  <2>4. m + 1 \in Nat
    OBVIOUS
  <2> HIDE DEF g
  <2> QED
    BY <2>3, <2>4
<1> HIDE DEF T
<1>3. Nat \subseteq T
  BY <1>1, <1>2, SetInduction
<1> QED
  BY <1>3 DEF T, Reads

(* A chunk, line by line; a result in it ends the run.                     *)
LEMMA ChunkKeeps ==
  ASSUME NEW r, Sound(r), Tolerant(r), ~r.clean, r.phase \notin {"idle", "gate"},
         NEW lines \in Seq(Lines \cup {"part"})
  PROVE  LET s == HandleStdoutChunk(r, lines) IN
         /\ Sound(s) /\ Tolerant(s) /\ Kept(r, s)
         /\ \A i \in 1..Len(lines) : lines[i] = "result" => Terminated(s)
<1> DEFINE s == HandleStdoutChunk(r, lines)
<1>1. CASE Terminated(r)
  <2>1. s = r
    BY <1>1 DEF HandleStdoutChunk
  <2> QED
    BY <1>1, <2>1 DEF Kept
<1>2. CASE ~Terminated(r)
  <2>2. Len(lines) \in Nat
    OBVIOUS
  <2>3. \E f : Reads(f, r, lines)
    BY <2>2, ChunkIsRead
  <2> DEFINE after == CHOOSE f : Reads(f, r, lines)
  <2>1. s = after[Len(lines)]
    BY <1>2, Zenon DEF HandleStdoutChunk, Reads
  <2>4. Reads(after, r, lines)
    BY <2>3, Zenon
  <2> HIDE DEF after
  <2>5. after[0] = r
    BY <2>2, <2>4 DEF Reads
  <2>6. \A n \in 1..Len(lines) : after[n] = HandleParserOutcome(after[n - 1], lines[n])
    <3>1. TAKE n \in 1..Len(lines)
    <3>2. n \in 0..Len(lines) /\ n # 0
      BY <2>2
    <3> QED
      BY <2>4, <3>2 DEF Reads
  <2> DEFINE Read(n) == /\ Sound(after[n]) /\ Tolerant(after[n]) /\ Kept(r, after[n])
                        /\ \A i \in 1..n : lines[i] = "result" => Terminated(after[n])
             T == {n \in Nat : n <= Len(lines) => Read(n)}
  <2>7. 0 \in T
    <3>1. Kept(r, r)
      BY DEF Kept
    <3> QED
      BY <2>5, <3>1
  <2>8. ASSUME NEW n \in Nat, n \in T PROVE n + 1 \in T
    <3>1. SUFFICES ASSUME n + 1 <= Len(lines) PROVE Read(n + 1)
      BY <2>2
    <3>2. n <= Len(lines) /\ n + 1 \in 1..Len(lines) /\ (n + 1) - 1 = n
      BY <2>2, <3>1
    <3>3. Read(n)
      BY <2>8, <3>2
    <3> DEFINE a == after[n]  b == after[n + 1]
    <3>4. b = HandleParserOutcome(a, lines[n + 1])
      BY <2>6, <3>2
    <3>5. lines[n + 1] \in Lines \cup {"part"}
      BY <3>2
    <3>6. Sound(a) /\ Tolerant(a) /\ ~a.clean /\ a.phase \notin {"idle", "gate"} /\ Kept(r, a)
      BY <3>3 DEF Kept
    <3>7. /\ Sound(b) /\ Tolerant(b) /\ Kept(a, b)
          /\ lines[n + 1] = "result" => Terminated(b)
      BY <3>4, <3>5, <3>6, ParserKeeps
    <3>8. \A i \in 1..n : lines[i] = "result" => Terminated(a)
      BY <3>3
    <3> HIDE DEF a, b
    <3>9. Kept(r, b) /\ (Terminated(a) => Terminated(b))
      BY <3>6, <3>7 DEF Kept
    <3>10. \A i \in 1..(n + 1) : i \in 1..n \/ i = n + 1
      OBVIOUS
    <3>11. \A i \in 1..(n + 1) : lines[i] = "result" => Terminated(b)
      BY <3>7, <3>8, <3>9, <3>10
    <3> QED
      BY <3>7, <3>9, <3>11 DEF b
  <2> HIDE DEF T
  <2>9. Nat \subseteq T
    BY <2>7, <2>8, SetInduction
  <2>10. Read(Len(lines))
    BY <2>2, <2>9 DEF T
  <2> QED
    BY <2>1, <2>10
<1> QED
  BY <1>1, <1>2

LEMMA KeptOn ==
  ASSUME NEW r, NEW s, NEW t, Kept(r, s), Kept(s, t)
  PROVE  Kept(r, t)
BY DEF Kept

(* The clean-up of a run that has its outcome.                             *)
LEMMA CleanupKeeps ==
  ASSUME NEW r, r \in Run, ToldOnce(r), Placed(r), Judged(r), Terminated(r),
         r.exit # None \/ ~r.pid, Codex => ~r.stray
  PROVE  LET s == Cleanup(r) IN
         /\ Sound(s) /\ Tolerant(s) /\ Terminated(s)
         /\ s.phase = r.phase /\ s.pid = r.pid /\ s.exit = r.exit /\ s.ended = r.ended
         /\ s.terminal = r.terminal /\ s.cause = r.cause
<1> DEFINE s == Cleanup(r)
<1>1. s = [r EXCEPT !.timers = {}, !.clean = TRUE]
  BY DEF Cleanup
<1> HIDE DEF s
<1>2. s \in Run
  BY <1>1 DEF Run
<1>3. /\ s.closed = r.closed /\ s.out = r.out /\ s.terminal = r.terminal /\ s.cause = r.cause
      /\ s.phase = r.phase /\ s.pid = r.pid /\ s.exit = r.exit /\ s.ended = r.ended
      /\ s.clean = TRUE /\ s.timers = {} /\ s.stray = r.stray
  BY <1>1 DEF Run
<1>4. Terminated(s) /\ Tolerant(s) /\ ToldOnce(s) /\ Judged(s)
  BY <1>3 DEF Terminated, Tolerant, ToldOnce, Judged
<1>5. Placed(s)
  BY <1>3 DEF Placed, Terminated
<1>6. Armed(s)
  BY <1>3, <1>4 DEF Armed
<1> QED
  BY <1>2, <1>3, <1>4, <1>5, <1>6 DEF Sound, s

(* The last outcome there can be, before the clean-up.                     *)
LEMMA LastOutcome ==
  ASSUME NEW r, Sound(r), r.phase \notin {"idle", "gate"}, r.exit # None \/ ~r.pid,
         NEW outcome \in Outcomes, NEW why \in Causes, why \in Exits => r.exit # None
  PROVE  LET s == Cleanup(Finish(r, outcome, why)) IN
         /\ Sound(s) /\ Tolerant(s) /\ Terminated(s)
         /\ s.phase = r.phase /\ s.pid = r.pid /\ s.exit = r.exit /\ s.ended = r.ended
         /\ Terminated(r) => s.cause = r.cause
<1> DEFINE f == Finish(r, outcome, why)
<1>1. r \in Run /\ ToldOnce(r)
  BY DEF Sound
<1>2. /\ f \in Run /\ ToldOnce(f) /\ Terminated(f)
      /\ f.phase = r.phase /\ f.pid = r.pid /\ f.exit = r.exit /\ f.ended = r.ended
      /\ f.stray = r.stray
      /\ IF Terminated(r) THEN f.terminal = r.terminal /\ f.cause = r.cause
         ELSE f.terminal = outcome /\ f.cause = why
  BY <1>1, FinishIs
<1> HIDE DEF f
<1>3. Placed(f)
  BY <1>2 DEF Sound, Placed
<1>4. Judged(f)
  BY <1>2 DEF Sound, Judged
<1>5. Codex => ~f.stray
  BY <1>2 DEF Sound, Armed
<1>6. f.exit # None \/ ~f.pid
  BY <1>2
<1> DEFINE s == Cleanup(f)
<1>7. /\ Sound(s) /\ Tolerant(s) /\ Terminated(s)
      /\ s.phase = f.phase /\ s.pid = f.pid /\ s.exit = f.exit /\ s.ended = f.ended
      /\ s.cause = f.cause
  BY <1>2, <1>3, <1>4, <1>5, <1>6, CleanupKeeps
<1> HIDE DEF s
<1>8. /\ s.phase = r.phase /\ s.pid = r.pid /\ s.exit = r.exit /\ s.ended = r.ended
      /\ Terminated(r) => s.cause = r.cause
  BY <1>2, <1>7
<1> QED
  BY <1>7, <1>8 DEF s, f

(* What is concluded once the process has exited and stdout has ended.     *)
LEMMA FinalizeKeeps ==
  ASSUME NEW r, Sound(r), Tolerant(r), ~r.clean, r.phase \notin {"idle", "gate"}
  PROVE  LET s == TryFinalizeAfterExit(r) IN
         /\ Sound(s) /\ Tolerant(s)
         /\ s.phase = r.phase /\ s.pid = r.pid /\ s.exit = r.exit /\ s.ended = r.ended
         /\ Terminated(r) => Terminated(s)
         /\ s.cause \in Exits => s.cause = r.cause \/ (~Terminated(r) /\ r.exit # None /\ r.ended)
<1> DEFINE s == TryFinalizeAfterExit(r)
           p == [r EXCEPT !.partial = FALSE]
           f == IF ~Terminated(r) /\ r.partial THEN FailAndTerminateProcess(p, "truncated") ELSE r
<1>1. CASE r.exit = None \/ ~r.ended
  <2>1. s = r
    BY <1>1 DEF TryFinalizeAfterExit
  <2> HIDE DEF s
  <2> QED
    BY <2>1 DEF s
<1>2. CASE r.exit # None /\ r.ended
  <2>1. s = IF Terminated(f) THEN Cleanup(f)
            ELSE IF f.requested THEN FinishCancelled(f)
            ELSE Cleanup(FinishFailed(f, IF r.exit = "zero" THEN "missing" ELSE "exited"))
    BY <1>2 DEF TryFinalizeAfterExit
  <2>2. Sound(f) /\ Kept(r, f)
    <3>1. CASE ~(~Terminated(r) /\ r.partial)
      BY <3>1 DEF Kept
    <3>2. CASE ~Terminated(r) /\ r.partial
      <4>1. r \in Run
        BY DEF Sound
      <4>2. p \in Run
        BY <4>1 DEF Run
      <4>3. /\ p.closed = r.closed /\ p.out = r.out /\ p.terminal = r.terminal /\ p.cause = r.cause
            /\ p.phase = r.phase /\ p.pid = r.pid /\ p.exit = r.exit /\ p.ended = r.ended
            /\ p.clean = r.clean /\ p.timers = r.timers /\ p.stray = r.stray
            /\ p.terminating = r.terminating
        BY <4>1 DEF Run
      <4>4. f = FailAndTerminateProcess(p, "truncated")
        BY <3>2
      <4> HIDE DEF p, f
      <4>5. Sound(p) /\ Kept(r, p)
        BY <4>2, <4>3, ElsewhereKeeps
      <4>6. "truncated" \in Causes \ Exits
        BY DEF Causes, Exits
      <4>7. Sound(f) /\ Kept(p, f)
        BY <4>3, <4>4, <4>5, <4>6, FailKeeps
      <4> QED
        BY <4>5, <4>7, KeptOn
    <3> QED
      BY <3>1, <3>2
  <2> HIDE DEF f
  <2>3. /\ f.phase = r.phase /\ f.pid = r.pid /\ f.exit = r.exit /\ f.ended = r.ended
        /\ (Terminated(r) => Terminated(f)) /\ (f.cause \in Exits => r.cause = f.cause)
    BY <2>2 DEF Kept
  <2>4. f.exit # None /\ f.phase \notin {"idle", "gate"}
    BY <1>2, <2>3
  <2>5. \/ s = Cleanup(f) /\ Terminated(f)
        \/ ~Terminated(f) /\ \E outcome \in Outcomes, why \in Causes : s = Cleanup(Finish(f, outcome, why))
    <3>1. "cancelled" \in Outcomes /\ "failed" \in Outcomes
      BY DEF Outcomes
    <3>2. "cancelled" \in Causes /\ "missing" \in Causes /\ "exited" \in Causes
      BY DEF Causes
    <3> HIDE DEF s
    <3>3. CASE Terminated(f)
      BY <2>1, <3>3
    <3>4. CASE ~Terminated(f) /\ f.requested
      BY <2>1, <3>1, <3>2, <3>4 DEF FinishCancelled
    <3>5. CASE ~Terminated(f) /\ ~f.requested /\ r.exit = "zero"
      <4>1. s = Cleanup(Finish(f, "failed", "missing"))
        BY <2>1, <3>5 DEF FinishFailed
      <4> QED
        BY <3>1, <3>2, <3>5, <4>1
    <3>6. CASE ~Terminated(f) /\ ~f.requested /\ r.exit # "zero"
      <4>1. s = Cleanup(Finish(f, "failed", "exited"))
        BY <2>1, <3>6 DEF FinishFailed
      <4> QED
        BY <3>1, <3>2, <3>6, <4>1
    <3> QED
      BY <3>3, <3>4, <3>5, <3>6
  <2>6. CASE s = Cleanup(f) /\ Terminated(f)
    <3>1. f \in Run /\ ToldOnce(f) /\ Placed(f) /\ Judged(f) /\ (Codex => ~f.stray)
      BY <2>2 DEF Sound, Armed
    <3> HIDE DEF s
    <3>2. /\ Sound(s) /\ Tolerant(s) /\ Terminated(s)
          /\ s.phase = f.phase /\ s.pid = f.pid /\ s.exit = f.exit /\ s.ended = f.ended
          /\ s.cause = f.cause
      BY <2>4, <2>6, <3>1, CleanupKeeps
    <3> QED
      BY <2>3, <3>2 DEF s
  <2>7. CASE ~Terminated(f) /\ \E outcome \in Outcomes, why \in Causes : s = Cleanup(Finish(f, outcome, why))
    <3> HIDE DEF s
    <3>1. PICK outcome \in Outcomes, why \in Causes : s = Cleanup(Finish(f, outcome, why))
      BY <2>7
    <3>2. /\ Sound(s) /\ Tolerant(s) /\ Terminated(s)
          /\ s.phase = f.phase /\ s.pid = f.pid /\ s.exit = f.exit /\ s.ended = f.ended
      BY <2>2, <2>4, <3>1, LastOutcome
    <3> QED
      BY <1>2, <2>3, <2>7, <3>2 DEF s
  <2> QED
    BY <2>5, <2>6, <2>7
<1> QED
  BY <1>1, <1>2

Processes ==
  [main : {None, "alive", "exited"}, stdout : {"open", "closed"},
   child : {None, "quiet", "holding"}, forked : BOOLEAN,
   pipe : Seq(Lines \cup {"part"}), wrote : 0..MaxLines, result : BOOLEAN]

(* What a run knows of its process.                                        *)
Matched(r, o) ==
  /\ o \in Processes
  /\ r.pid <=> o.main # None
  /\ r.exit # None <=> o.main = "exited"
  /\ o.main = None => o.pipe = <<>>
  /\ r.ended => o.pipe = <<>> /\ (o.stdout = "closed" \/ o.main = "exited")
  /\ o.result => Terminated(r) \/ \E i \in 1..Len(o.pipe) : o.pipe[i] = "result"
  /\ o.result => r.cause \notin Exits

CliInv ==
  /\ setup \in Setups
  /\ Sound(run) /\ Tolerant(run)
  /\ Matched(run, os)

LEMMA SoundNext ==
  ASSUME setup' = setup, Sound(run'), Tolerant(run'), Matched(run', os'), setup \in Setups
  PROVE  CliInv'
<1>1. Codex' = Codex
  BY DEF Codex
<1>2. Sound(run)'
  BY <1>1 DEF Sound, ToldOnce, Placed, Armed, Judged, Terminated
<1>3. Tolerant(run)' /\ Matched(run, os)'
  BY DEF Tolerant, Matched, Terminated
<1> QED
  BY <1>2, <1>3 DEF CliInv

LEMMA KeptMatches ==
  ASSUME NEW r, NEW s, NEW o, Matched(r, o), Kept(r, s)
  PROVE  Matched(s, o)
<1>1. s.pid = r.pid /\ s.exit = r.exit /\ s.ended = r.ended
  BY DEF Kept
<1>2. (Terminated(r) => Terminated(s)) /\ (s.cause \in Exits => r.cause = s.cause)
  BY DEF Kept
<1> QED
  BY <1>1, <1>2 DEF Matched

(* A conclusion is drawn of what the process did.                          *)
LEMMA FinalizeMatches ==
  ASSUME NEW r, NEW o, Sound(r), Tolerant(r), Matched(r, o), ~r.clean,
         r.phase \notin {"idle", "gate"}
  PROVE  /\ Sound(TryFinalizeAfterExit(r)) /\ Tolerant(TryFinalizeAfterExit(r))
         /\ Matched(TryFinalizeAfterExit(r), o)
<1> DEFINE s == TryFinalizeAfterExit(r)
<1>1. /\ Sound(s) /\ Tolerant(s)
      /\ s.phase = r.phase /\ s.pid = r.pid /\ s.exit = r.exit /\ s.ended = r.ended
      /\ Terminated(r) => Terminated(s)
      /\ s.cause \in Exits => s.cause = r.cause \/ (~Terminated(r) /\ r.exit # None /\ r.ended)
  BY FinalizeKeeps
<1> HIDE DEF s
<1>2. o.result => s.cause \notin Exits
  <2>1. SUFFICES ASSUME o.result, s.cause \in Exits PROVE FALSE
    OBVIOUS
  <2>2. r.cause \notin Exits
    BY <2>1 DEF Matched
  <2>3. ~Terminated(r) /\ r.ended
    BY <1>1, <2>1, <2>2
  <2>4. Len(o.pipe) = 0
    BY <2>3 DEF Matched
  <2> QED
    BY <2>1, <2>3, <2>4 DEF Matched
<1>3. Matched(s, o)
  BY <1>1, <1>2 DEF Matched
<1> QED
  BY <1>1, <1>3 DEF s

-----------------------------------------------------------------------------
LEMMA SpawnKeeps ==
  ASSUME CliInv, Spawn(run), run.phase \in {"idle", "gate"}
  PROVE  Sound(run') /\ Tolerant(run') /\ Matched(run', os')
<1> DEFINE timed == [run EXCEPT !.timers = @ \cup {"maxDuration"}]
           early1 == [timed EXCEPT !.phase = "unspawned"]
           pushed == Push(timed, "started")
           armed == ArmInactivityTimer(pushed)
           handled == [armed EXCEPT !.phase = "spawned", !.timers = @ \cup {"startup"}]
<1>1. /\ run \in Run /\ ToldOnce(run) /\ ~Terminated(run) /\ ~run.closed /\ ~run.clean /\ ~run.ended
      /\ run.timers = {} /\ ~run.pid /\ run.exit = None
      /\ Codex => ~run.stray
  BY DEF CliInv, Sound, ToldOnce, Placed, Armed
<1>2. /\ os \in Processes /\ os.main = None /\ os.pipe = <<>> /\ Len(os.pipe) = 0
      /\ ~os.result
  <2>1. os \in Processes /\ os.main = None /\ os.pipe = <<>>
    BY <1>1 DEF CliInv, Matched
  <2> QED
    BY <1>1, <2>1 DEF CliInv, Matched
<1>3. run.cause \notin Exits
  BY <1>1 DEF CliInv, Sound, Judged
<1>4. /\ \/ run' = Finish(early1, "failed", "start") /\ os' = os
         \/ run' = [handled EXCEPT !.pid = TRUE] /\ os' = [os EXCEPT !.main = "alive"]
         \/ run' = handled /\ os' = os
  BY DEF Spawn, FinishFailed
<1>5. {"maxDuration"} \in SUBSET Timers /\ timed = [run EXCEPT !.timers = {"maxDuration"}]
  BY <1>1 DEF Timers
<1>6. CASE run' = Finish(early1, "failed", "start") /\ os' = os
  <2>1. early1 = [run EXCEPT !.timers = {"maxDuration"}, !.phase = "unspawned"]
    BY <1>1, <1>5
  <2> HIDE DEF early1
  <2>2. early1 \in Run
    BY <1>1, <1>5, <2>1 DEF Run
  <2>3. /\ early1.closed = run.closed /\ early1.out = run.out /\ early1.terminal = run.terminal
        /\ early1.cause = run.cause /\ early1.phase = "unspawned" /\ early1.pid = run.pid
        /\ early1.exit = run.exit /\ early1.ended = run.ended /\ early1.clean = run.clean
        /\ early1.timers = {"maxDuration"} /\ early1.stray = run.stray
        /\ early1.terminating = run.terminating /\ early1.malformed = run.malformed
    BY <1>1, <2>1 DEF Run
  <2>4. ToldOnce(early1) /\ Judged(early1)
    BY <2>3 DEF CliInv, Sound, ToldOnce, Judged, Terminated
  <2>5. Placed(early1) /\ Armed(early1)
    BY <1>1, <2>3 DEF CliInv, Sound, Placed, Armed, Terminated
  <2>6. Sound(early1)
    BY <2>2, <2>4, <2>5 DEF Sound
  <2>7. "failed" \in {"completed", "failed"} /\ "start" \in Causes \ Exits
    BY DEF Causes, Exits
  <2>8. Sound(run') /\ Kept(early1, run') /\ Terminated(run')
    BY <1>1, <1>6, <2>3, <2>6, <2>7, FinishKeeps
  <2>9. Matched(early1, os')
    BY <1>6, <2>3 DEF CliInv, Matched, Terminated
  <2> QED
    BY <2>8, <2>9, KeptMatches DEF Tolerant
<1>7. CASE run' = [handled EXCEPT !.pid = TRUE] \/ run' = handled
  <2> DEFINE t == Append(run.out, "started")
             timers == (IF Codex THEN {"maxDuration", "inactivity"} ELSE {"maxDuration"}) \cup {"startup"}
  <2>1. /\ t \in Seq(Outcomes \cup {"started", "content"}) /\ t # <<>>
        /\ Len(t) = Len(run.out) + 1 /\ Len(run.out) \in Nat /\ t[Len(run.out) + 1] = "started"
        /\ \A i \in 1..Len(run.out) : t[i] = run.out[i]
    <3>1. run.out \in Seq(Outcomes \cup {"started", "content"})
      BY <1>1 DEF Run
    <3> QED
      BY <3>1, Appending
  <2>2. timers \in SUBSET Timers /\ "drain" \notin timers /\ "grace" \notin timers
    BY DEF Timers
  <2>3. timed.closed = FALSE /\ timed.terminal = run.terminal /\ timed.out = run.out
    BY <1>1, <1>5 DEF Run
  <2>4. pushed = [run EXCEPT !.timers = {"maxDuration"}, !.out = t]
    BY <1>1, <1>5, <2>3 DEF Push
  <2>5. pushed.terminal = run.terminal
    BY <1>1, <2>4 DEF Run
  <2>6. armed = [run EXCEPT !.timers = IF Codex THEN {"maxDuration", "inactivity"} ELSE {"maxDuration"},
                            !.out = t]
    <3>1. ~Terminated(pushed)
      BY <1>1, <2>5 DEF Terminated
    <3>2. armed = IF Codex THEN [pushed EXCEPT !.timers = @ \cup {"inactivity"}] ELSE pushed
      BY <3>1 DEF ArmInactivityTimer
    <3>3. {"maxDuration"} \cup {"inactivity"} = {"maxDuration", "inactivity"}
      OBVIOUS
    <3> HIDE DEF armed, pushed, t
    <3>4. CASE Codex
      BY <1>1, <2>4, <3>2, <3>3, <3>4 DEF Run
    <3>5. CASE ~Codex
      BY <1>1, <2>4, <3>2, <3>5 DEF Run
    <3> QED
      BY <3>4, <3>5
  <2>7. handled = [run EXCEPT !.timers = timers, !.out = t, !.phase = "spawned"]
    <3> HIDE DEF armed, t
    <3> QED
      BY <1>1, <2>6 DEF Run
  <2> HIDE DEF handled, t, timers
  <2>8. /\ run' \in Run
        /\ run'.closed = run.closed /\ run'.out = t /\ run'.terminal = run.terminal
        /\ run'.cause = run.cause /\ run'.phase = "spawned" /\ run'.exit = run.exit
        /\ run'.ended = run.ended /\ run'.clean = run.clean /\ run'.timers = timers
        /\ run'.stray = run.stray /\ run'.malformed = run.malformed
    <3>1. CASE run' = handled
      BY <1>1, <2>1, <2>2, <2>7, <3>1 DEF Run
    <3>2. CASE run' = [handled EXCEPT !.pid = TRUE]
      BY <1>1, <2>1, <2>2, <2>7, <3>2 DEF Run
    <3> QED
      BY <1>7, <3>1, <3>2
  <2>9. /\ os' \in Processes /\ os'.pipe = os.pipe /\ os'.main \in {None, "alive"}
        /\ os'.result = os.result /\ (run'.pid <=> os'.main # None)
    <3>1. CASE run' = handled /\ os' = os
      <4>1. run'.pid = run.pid
        BY <1>1, <2>7, <3>1 DEF Run
      <4> QED
        BY <1>1, <1>2, <3>1, <4>1
    <3>2. CASE run' = [handled EXCEPT !.pid = TRUE] /\ os' = [os EXCEPT !.main = "alive"]
      <4>1. run'.pid = TRUE
        BY <1>1, <2>7, <3>2 DEF Run
      <4>2. os' \in Processes /\ os'.pipe = os.pipe /\ os'.main = "alive" /\ os'.result = os.result
        BY <1>2, <3>2 DEF Processes
      <4> QED
        BY <4>1, <4>2 DEF None
    <3>3. CASE run' = Finish(early1, "failed", "start") /\ os' = os
      <4>1. /\ early1.pid = run.pid /\ early1 \in Run /\ early1.closed = run.closed
            /\ early1.terminal = run.terminal /\ early1.out = run.out
        BY <1>1, <1>5 DEF Run
      <4>2. ToldOnce(early1)
        BY <1>1, <4>1 DEF ToldOnce, Terminated
      <4>3. "failed" \in Outcomes /\ "start" \in Causes
        BY DEF Outcomes, Causes
      <4> HIDE DEF early1
      <4>4. run'.pid = early1.pid
        BY <3>3, <4>1, <4>2, <4>3, FinishIs
      <4> QED
        BY <1>1, <1>2, <3>3, <4>1, <4>4
    <3> QED
      BY <1>4, <3>1, <3>2, <3>3
  <2>10. ~Terminated(run')
    BY <1>1, <2>8 DEF Terminated
  <2>11. ToldOnce(run')
    <3>1. "started" \notin Outcomes
      BY DEF Outcomes
    <3>2. \A i \in 1..Len(run.out) : run.out[i] \notin Outcomes
      BY <1>1 DEF ToldOnce
    <3>3. \A i \in 1..Len(t) : t[i] \notin Outcomes
      BY <2>1, <3>1, <3>2
    <3> QED
      BY <1>1, <2>8, <2>10, <3>3 DEF ToldOnce
  <2>12. Placed(run')
    BY <1>1, <2>8 DEF Placed
  <2>13. Armed(run') /\ Judged(run')
    BY <1>1, <1>3, <2>2, <2>8, <2>10 DEF Armed, Judged, Terminated, None
  <2>14. Tolerant(run')
    BY <1>1, <2>8, <2>10 DEF CliInv, Tolerant
  <2>15. Matched(run', os')
    BY <1>1, <1>2, <2>8, <2>9 DEF Matched, None
  <2> QED
    BY <2>8, <2>11, <2>12, <2>13, <2>14, <2>15 DEF Sound
<1> QED
  BY <1>4, <1>6, <1>7

(* Before the process, a run that is cancelled or refused is answered.     *)
LEMMA UnspawnedKeeps ==
  ASSUME CliInv, run.phase \in {"idle", "gate"}, os' = os,
         NEW early1, early1 = [run EXCEPT !.phase = "unspawned"],
         \/ run' = FinishCancelled(early1)
         \/ run' = FinishFailed(early1, "start")
  PROVE  Sound(run') /\ Tolerant(run') /\ Matched(run', os')
<1>1. /\ run \in Run /\ ~Terminated(run) /\ ~run.pid /\ run.exit = None
  BY DEF CliInv, Sound, Placed
<1>2. early1 \in Run
  BY <1>1 DEF Run
<1>3. /\ early1.closed = run.closed /\ early1.out = run.out /\ early1.terminal = run.terminal
      /\ early1.cause = run.cause /\ early1.phase = "unspawned" /\ early1.pid = run.pid
      /\ early1.exit = run.exit /\ early1.ended = run.ended /\ early1.clean = run.clean
      /\ early1.timers = run.timers /\ early1.stray = run.stray
      /\ early1.terminating = run.terminating /\ early1.malformed = run.malformed
  BY <1>1 DEF Run
<1>4. Sound(early1)
  <2>1. ToldOnce(early1) /\ Judged(early1)
    BY <1>3 DEF CliInv, Sound, ToldOnce, Judged, Terminated
  <2>2. Placed(early1) /\ Armed(early1)
    BY <1>3 DEF CliInv, Sound, Placed, Armed, Terminated
  <2> QED
    BY <1>2, <2>1, <2>2 DEF Sound
<1>5. Matched(early1, os')
  BY <1>3 DEF CliInv, Matched, Terminated
<1>6. os.main = None /\ os'.result = FALSE
  <2>1. os.main = None /\ os.pipe = <<>>
    BY <1>1 DEF CliInv, Matched
  <2>2. Len(os.pipe) = 0
    BY <2>1
  <2> QED
    BY <1>1, <2>1, <2>2 DEF CliInv, Matched, Processes
<1>7. CASE run' = FinishCancelled(early1)
  <2>1. "cancelled" \in Outcomes /\ "cancelled" \in Causes /\ "cancelled" \notin Exits
    BY DEF Outcomes, Causes, Exits
  <2>2. run' = Cleanup(Finish(early1, "cancelled", "cancelled"))
    BY <1>7 DEF FinishCancelled
  <2>3. /\ Sound(run') /\ Tolerant(run') /\ Terminated(run')
        /\ run'.phase = early1.phase /\ run'.pid = early1.pid /\ run'.exit = early1.exit
        /\ run'.ended = early1.ended
    BY <1>1, <1>3, <1>4, <2>1, <2>2, LastOutcome
  <2>4. Matched(run', os')
    BY <1>5, <1>6, <2>3 DEF Matched
  <2> QED
    BY <2>3, <2>4
<1>8. CASE run' = FinishFailed(early1, "start")
  <2>1. "failed" \in {"completed", "failed"} /\ "start" \in Causes \ Exits
    BY DEF Causes, Exits
  <2>2. ~early1.clean
    BY <1>1, <1>3 DEF CliInv, Sound, Placed
  <2>3. Sound(run') /\ Kept(early1, run') /\ Terminated(run')
    BY <1>3, <1>4, <1>8, <2>1, <2>2, FinishKeeps DEF FinishFailed
  <2> QED
    BY <1>5, <2>3, KeptMatches DEF Tolerant
<1> QED
  BY <1>7, <1>8

LEMMA StartKeeps ==
  ASSUME CliInv, Start
  PROVE  CliInv'
<1> DEFINE early1 == [run EXCEPT !.phase = "unspawned"]
<1>1. run.phase = "idle" /\ setup' = setup /\ setup \in Setups
  BY DEF Start, CliInv
<1>2. CASE run' = FinishCancelled(early1) /\ os' = os
  <2>1. Sound(run') /\ Tolerant(run') /\ Matched(run', os')
    BY <1>1, <1>2, UnspawnedKeeps
  <2> QED
    BY <1>1, <2>1, SoundNext
<1>3. CASE run' = [run EXCEPT !.phase = "gate"] /\ os' = os
  <2>1. run \in Run
    BY DEF CliInv, Sound
  <2>2. run' \in Run
    BY <1>3, <2>1 DEF Run
  <2>3. /\ run'.closed = run.closed /\ run'.out = run.out /\ run'.terminal = run.terminal
        /\ run'.cause = run.cause /\ run'.phase = "gate" /\ run'.pid = run.pid
        /\ run'.exit = run.exit /\ run'.ended = run.ended /\ run'.clean = run.clean
        /\ run'.timers = run.timers /\ run'.stray = run.stray
        /\ run'.terminating = run.terminating /\ run'.malformed = run.malformed
    BY <1>3, <2>1 DEF Run
  <2>4. ToldOnce(run') /\ Judged(run') /\ Armed(run') /\ Tolerant(run')
    BY <2>3 DEF CliInv, Sound, ToldOnce, Judged, Armed, Tolerant, Terminated
  <2>5. Placed(run')
    BY <1>1, <2>3 DEF CliInv, Sound, Placed, Terminated
  <2>6. Matched(run', os')
    BY <1>3, <2>3 DEF CliInv, Matched, Terminated
  <2> QED
    BY <1>1, <2>2, <2>4, <2>5, <2>6, SoundNext DEF Sound
<1>4. CASE Spawn(run)
  <2>1. Sound(run') /\ Tolerant(run') /\ Matched(run', os')
    BY <1>1, <1>4, SpawnKeeps
  <2> QED
    BY <1>1, <2>1, SoundNext
<1> QED
  BY <1>2, <1>3, <1>4 DEF Start

LEMMA GateAnswersKeeps ==
  ASSUME CliInv, GateAnswers
  PROVE  CliInv'
<1> DEFINE early1 == [run EXCEPT !.phase = "unspawned"]
<1>1. run.phase = "gate" /\ setup' = setup /\ setup \in Setups
  BY DEF GateAnswers, CliInv
<1>2. CASE (run' = FinishCancelled(early1) \/ run' = FinishFailed(early1, "start")) /\ os' = os
  <2>1. Sound(run') /\ Tolerant(run') /\ Matched(run', os')
    BY <1>1, <1>2, UnspawnedKeeps
  <2> QED
    BY <1>1, <2>1, SoundNext
<1>3. CASE Spawn(run)
  <2>1. Sound(run') /\ Tolerant(run') /\ Matched(run', os')
    BY <1>1, <1>3, SpawnKeeps
  <2> QED
    BY <1>1, <2>1, SoundNext
<1> QED
  BY <1>2, <1>3 DEF GateAnswers

LEMMA CancelKeeps ==
  ASSUME CliInv, Cancel
  PROVE  CliInv'
<1> DEFINE a == [run EXCEPT !.aborted = TRUE]
           q == [a EXCEPT !.requested = TRUE]
<1>1. run \in Run /\ setup' = setup /\ os' = os /\ setup \in Setups
  BY DEF Cancel, CliInv, Sound
<1>2. /\ a \in Run
      /\ a.closed = run.closed /\ a.out = run.out /\ a.terminal = run.terminal
      /\ a.cause = run.cause /\ a.phase = run.phase /\ a.pid = run.pid
      /\ a.exit = run.exit /\ a.ended = run.ended /\ a.clean = run.clean
      /\ a.timers = run.timers /\ a.stray = run.stray
      /\ a.terminating = run.terminating /\ a.malformed = run.malformed
  BY <1>1 DEF Run
<1>3. run' = IF run.phase = "idle" THEN a
             ELSE IF Terminated(a) THEN a ELSE TerminateProcess(q)
  BY DEF Cancel, BeginCancellationSequence
<1> HIDE DEF a
<1>4. Sound(a) /\ Kept(run, a)
  BY <1>2, ElsewhereKeeps DEF CliInv
<1>5. Tolerant(a)
  BY <1>2 DEF CliInv, Tolerant, Terminated
<1>6. CASE run' = a
  BY <1>1, <1>4, <1>5, <1>6, KeptMatches, SoundNext DEF CliInv
<1>7. CASE ~Terminated(a) /\ run' = TerminateProcess(q)
  <2>1. /\ q \in Run
        /\ q.closed = a.closed /\ q.out = a.out /\ q.terminal = a.terminal
        /\ q.cause = a.cause /\ q.phase = a.phase /\ q.pid = a.pid
        /\ q.exit = a.exit /\ q.ended = a.ended /\ q.clean = a.clean
        /\ q.timers = a.timers /\ q.stray = a.stray
        /\ q.terminating = a.terminating /\ q.malformed = a.malformed
    BY <1>2 DEF Run
  <2> HIDE DEF q
  <2>2. Sound(q) /\ Kept(a, q)
    BY <1>4, <2>1, ElsewhereKeeps
  <2>3. ~q.clean
    BY <1>4, <1>7, <2>1 DEF Sound, Armed
  <2>4. /\ Sound(run') /\ Kept(q, run') /\ run'.terminal = q.terminal
        /\ run'.malformed = q.malformed
    BY <1>7, <2>2, <2>3, TerminateKeeps
  <2>5. Tolerant(run')
    BY <1>5, <2>1, <2>4 DEF Tolerant, Terminated
  <2>6. Kept(run, run')
    BY <1>4, <2>2, <2>4, KeptOn
  <2> QED
    BY <1>1, <2>4, <2>5, <2>6, KeptMatches, SoundNext DEF CliInv
<1> QED
  BY <1>3, <1>6, <1>7

-----------------------------------------------------------------------------
(* What the operating system does.                                         *)
LEMMA RunUntouched ==
  ASSUME CliInv, run' = run, setup' = setup, Matched(run, os')
  PROVE  CliInv'
BY SoundNext DEF CliInv

LEMMA WriteKeeps ==
  ASSUME CliInv, NEW line \in Lines, Write(line)
  PROVE  CliInv'
<1> DEFINE t == Append(os.pipe, line)
<1>1. /\ os \in Processes /\ os.main = "alive" /\ os.stdout = "open" /\ os.wrote < MaxLines
      /\ os' = [os EXCEPT !.pipe = t, !.wrote = @ + 1, !.result = @ \/ line = "result"]
      /\ run' = run /\ setup' = setup
  BY DEF CliInv, Matched, Write
<1>2. os.pipe \in Seq(Lines \cup {"part"}) /\ os.wrote \in 0..MaxLines
  BY <1>1 DEF Processes
<1>3. /\ t \in Seq(Lines \cup {"part"}) /\ Len(t) = Len(os.pipe) + 1 /\ Len(os.pipe) \in Nat
      /\ t[Len(os.pipe) + 1] = line /\ \A i \in 1..Len(os.pipe) : t[i] = os.pipe[i]
  <2>1. line \in Lines \cup {"part"}
    OBVIOUS
  <2> QED
    BY <1>2, <2>1, Appending
<1> HIDE DEF t
<1>4. os.wrote + 1 \in 0..MaxLines
  BY <1>1, <1>2, BoundsAssumption
<1>5. /\ os' \in Processes /\ os'.main = "alive" /\ os'.pipe = t /\ os'.stdout = "open"
      /\ os'.result = (os.result \/ line = "result")
  BY <1>1, <1>3, <1>4 DEF Processes
<1>6. run.exit = None /\ run.pid /\ ~run.ended
  BY <1>1 DEF CliInv, Matched, None
<1>7. run.cause \notin Exits
  BY <1>6 DEF CliInv, Sound, Judged
<1>8. os'.result => Terminated(run) \/ \E i \in 1..Len(t) : t[i] = "result"
  <2>1. CASE line = "result"
    BY <1>3, <2>1
  <2>2. CASE os.result
    <3>1. CASE Terminated(run)
      BY <3>1
    <3>2. CASE ~Terminated(run)
      <4>1. PICK i \in 1..Len(os.pipe) : os.pipe[i] = "result"
        BY <2>2, <3>2 DEF CliInv, Matched
      <4> QED
        BY <1>3, <4>1
    <3> QED
      BY <3>1, <3>2
  <2> QED
    BY <1>5, <2>1, <2>2
<1>9. Matched(run, os')
  BY <1>5, <1>6, <1>7, <1>8 DEF Matched, None
<1> QED
  BY <1>1, <1>9, RunUntouched

LEMMA OutsideKeeps ==
  ASSUME CliInv, CloseStdout \/ (\E kind \in {"quiet", "holding"} : Fork(kind)) \/ ChildDies
  PROVE  CliInv'
<1>1. run' = run /\ setup' = setup /\ os \in Processes
  BY DEF CliInv, Matched, CloseStdout, Fork, ChildDies
<1>2. /\ os' \in Processes /\ os'.main = os.main /\ os'.pipe = os.pipe /\ os'.result = os.result
      /\ os'.stdout = os.stdout \/ os'.stdout = "closed"
  <2>1. CASE CloseStdout
    <3>1. os' = [os EXCEPT !.stdout = "closed"]
      BY <2>1 DEF CloseStdout
    <3> QED
      BY <1>1, <3>1 DEF Processes
  <2>2. ASSUME NEW kind \in {"quiet", "holding"}, Fork(kind)
        PROVE  os' \in Processes /\ os'.main = os.main /\ os'.pipe = os.pipe
               /\ os'.result = os.result /\ os'.stdout = os.stdout
    <3>1. os' = [os EXCEPT !.child = kind, !.forked = TRUE]
      BY <2>2 DEF Fork
    <3> QED
      BY <1>1, <3>1 DEF Processes
  <2>3. CASE ChildDies
    <3>1. os' = [os EXCEPT !.child = None]
      BY <2>3 DEF ChildDies
    <3> QED
      BY <1>1, <3>1 DEF Processes
  <2> QED
    BY <2>1, <2>2, <2>3
<1>3. Matched(run, os')
  BY <1>1, <1>2 DEF CliInv, Matched
<1> QED
  BY <1>1, <1>3, RunUntouched

LEMMA ExitKeeps ==
  ASSUME CliInv, NEW code \in {"zero", "nonzero"}, NEW cut \in BOOLEAN, Exit(code, cut)
  PROVE  CliInv'
<1> DEFINE cleared == ClearTimer(run, "startup")
           timers == IF run.ended THEN cleared.timers ELSE cleared.timers \cup {"drain"}
           exited == [cleared EXCEPT !.exit = code, !.timers = timers]
           t == IF cut THEN Append(os.pipe, "part") ELSE os.pipe
<1>1. /\ setup' = setup /\ os.main = "alive" /\ (cut => os.stdout = "open")
      /\ os' = [os EXCEPT !.main = "exited", !.pipe = t]
      /\ run' = TryFinalizeAfterExit(exited)
  BY DEF Exit
<1>2. /\ run \in Run /\ os \in Processes /\ run.pid /\ run.exit = None /\ ~run.clean
      /\ run.phase = "spawned"
  <2>1. run.pid /\ run.exit = None
    BY <1>1 DEF CliInv, Matched, None
  <2> QED
    BY <2>1 DEF CliInv, Matched, Sound, Armed, Placed, Run
<1>3. /\ Sound(cleared) /\ Kept(run, cleared) /\ cleared.terminal = run.terminal
      /\ cleared.malformed = run.malformed
  BY ClearKeeps DEF CliInv
<1> HIDE DEF cleared
<1>4. timers \in SUBSET Timers /\ ("grace" \in timers => "grace" \in cleared.timers)
  <2>1. cleared.timers \in SUBSET Timers
    BY <1>3 DEF Sound, Run
  <2> QED
    BY <2>1 DEF Timers
<1> HIDE DEF timers
<1>5. /\ cleared \in Run /\ exited \in Run
      /\ exited.closed = cleared.closed /\ exited.out = cleared.out
      /\ exited.terminal = cleared.terminal
      /\ exited.cause = cleared.cause /\ exited.phase = cleared.phase /\ exited.pid = cleared.pid
      /\ exited.exit = code /\ exited.ended = cleared.ended /\ exited.clean = cleared.clean
      /\ exited.timers = timers /\ exited.stray = cleared.stray
      /\ exited.terminating = cleared.terminating /\ exited.malformed = cleared.malformed
  <2>1. cleared \in Run
    BY <1>3 DEF Sound
  <2> QED
    BY <1>4, <2>1 DEF Run
<1> HIDE DEF exited, t
<1>6. /\ exited.pid /\ exited.phase = "spawned" /\ ~exited.clean /\ exited.exit # None
      /\ exited.ended = run.ended
  BY <1>2, <1>3, <1>5 DEF Kept, None
<1>7. Sound(exited) /\ Tolerant(exited)
  <2>1. ToldOnce(exited)
    BY <1>3, <1>5 DEF Sound, ToldOnce, Terminated
  <2>2. Placed(exited) /\ Judged(exited)
    BY <1>5, <1>6 DEF Placed, Judged
  <2>3. Armed(exited)
    BY <1>3, <1>4, <1>5, <1>6 DEF Sound, Armed
  <2>4. Tolerant(exited)
    BY <1>3, <1>5 DEF CliInv, Tolerant, Terminated
  <2> QED
    BY <1>5, <2>1, <2>2, <2>3, <2>4 DEF Sound
<1>8. /\ t \in Seq(Lines \cup {"part"}) /\ Len(os.pipe) \in Nat
      /\ \A i \in 1..Len(os.pipe) : i \in 1..Len(t) /\ t[i] = os.pipe[i]
      /\ run.ended => t = <<>>
  <2>1. os.pipe \in Seq(Lines \cup {"part"})
    BY <1>2 DEF Processes
  <2>2. CASE ~cut
    <3>1. t = os.pipe
      BY <2>2 DEF t
    <3>2. run.ended => os.pipe = <<>>
      BY DEF CliInv, Matched
    <3> QED
      BY <2>1, <3>1, <3>2
  <2>3. CASE cut
    <3>1. t = Append(os.pipe, "part") /\ "part" \in Lines \cup {"part"}
      BY <2>3 DEF t
    <3>2. /\ t \in Seq(Lines \cup {"part"}) /\ Len(t) = Len(os.pipe) + 1 /\ Len(os.pipe) \in Nat
          /\ \A i \in 1..Len(os.pipe) : t[i] = os.pipe[i]
      BY <2>1, <3>1, Appending
    <3>3. ~run.ended
      BY <1>1, <2>3 DEF CliInv, Matched
    <3> QED
      BY <3>2, <3>3
  <2> QED
    BY <2>2, <2>3
<1>9. /\ os' \in Processes /\ os'.main = "exited" /\ os'.pipe = t /\ os'.result = os.result
      /\ os'.stdout = os.stdout
  BY <1>1, <1>2, <1>8 DEF Processes
<1>10. Matched(exited, os')
  <2>1. (Terminated(run) => Terminated(exited)) /\ (exited.cause \in Exits => run.cause \in Exits)
    BY <1>3, <1>5 DEF Kept, Terminated
  <2>2. os'.result => Terminated(exited) \/ \E i \in 1..Len(t) : t[i] = "result"
    <3>1. SUFFICES ASSUME os.result, ~Terminated(run)
                   PROVE  \E i \in 1..Len(t) : t[i] = "result"
      BY <1>9, <2>1
    <3>2. PICK i \in 1..Len(os.pipe) : os.pipe[i] = "result"
      BY <3>1 DEF CliInv, Matched
    <3> QED
      BY <1>8, <3>2
  <2>3. os'.result => exited.cause \notin Exits
    BY <1>9, <2>1 DEF CliInv, Matched
  <2>4. "exited" # None
    BY DEF None
  <2> QED
    BY <1>6, <1>8, <1>9, <2>2, <2>3, <2>4 DEF Matched
<1>11. Sound(run') /\ Tolerant(run') /\ Matched(run', os')
  BY <1>1, <1>6, <1>7, <1>10, FinalizeMatches
<1> QED
  BY <1>1, <1>11, SoundNext DEF CliInv

(* A callback that leaves the process alone.                               *)
LEMMA CallbackKeeps ==
  ASSUME CliInv, setup' = setup, os' = os, Sound(run'), Tolerant(run'), Kept(run, run')
  PROVE  CliInv'
BY KeptMatches, SoundNext DEF CliInv

LEMMA ErrorsKeep ==
  ASSUME CliInv, SpawnError \/ StdinError
  PROVE  CliInv'
<1> DEFINE c == ClearTimer(run, "startup")
<1>1. /\ setup' = setup /\ os' = os /\ run.phase = "spawned" /\ Sound(run) /\ Tolerant(run)
  BY DEF SpawnError, StdinError, CliInv
<1>2. "start" \in Causes \ Exits /\ "failed" \in {"completed", "failed"}
  BY DEF Causes, Exits
<1>3. ~run.clean
  BY <1>1 DEF SpawnError, StdinError, Sound, Armed
<1>4. CASE SpawnError
  <2>1. Sound(c) /\ Kept(run, c) /\ c.malformed = run.malformed
    BY <1>1, ClearKeeps
  <2>2. run' = Finish(c, "failed", "start")
    BY <1>4 DEF SpawnError, FinishFailed
  <2> HIDE DEF c
  <2>3. Sound(run') /\ Kept(c, run') /\ Terminated(run')
    BY <1>1, <1>2, <1>3, <2>1, <2>2, FinishKeeps DEF Kept
  <2>4. Kept(run, run')
    BY <2>1, <2>3, KeptOn
  <2> QED
    BY <1>1, <2>3, <2>4, CallbackKeeps DEF Tolerant
<1>5. CASE StdinError
  <2>1. run' = FailAndTerminateProcess(run, "start")
    BY <1>5 DEF StdinError
  <2>2. Sound(run') /\ Kept(run, run') /\ Terminated(run')
    BY <1>1, <1>2, <1>3, <2>1, FailKeeps
  <2> QED
    BY <1>1, <2>2, CallbackKeeps DEF Tolerant
<1> QED
  BY <1>4, <1>5

LEMMA StderrDataKeeps ==
  ASSUME CliInv, StderrData
  PROVE  CliInv'
<1>1. /\ setup' = setup /\ os' = os /\ Sound(run) /\ Tolerant(run) /\ ~run.clean
      /\ os.main = "alive" /\ run' = ArmInactivityTimer(run)
  BY DEF StderrData, CliInv
<1>2. run.phase \notin {"idle", "gate"}
  BY <1>1 DEF CliInv, Matched, Sound, Placed, None
<1>3. Sound(run') /\ Kept(run, run') /\ run'.terminal = run.terminal /\ run'.malformed = run.malformed
  BY <1>1, <1>2, ArmKeeps
<1>4. Tolerant(run')
  BY <1>1, <1>3 DEF Tolerant, Terminated
<1> QED
  BY <1>1, <1>3, <1>4, CallbackKeeps

LEMMA TimeOutKeeps ==
  ASSUME CliInv, NEW timer, TimeOut(timer)
  PROVE  CliInv'
<1> DEFINE fired == ClearTimer(run, timer)
<1>1. /\ setup' = setup /\ os' = os /\ Sound(run) /\ Tolerant(run) /\ timer \in run.timers
      /\ run' = fired \/ run' = FailAndTerminateProcess(fired, "timeout")
  BY DEF TimeOut, CliInv
<1>2. ~run.clean /\ run.phase \notin {"idle", "gate"}
  BY <1>1 DEF Sound, Armed, Placed
<1>3. /\ Sound(fired) /\ Kept(run, fired) /\ fired.terminal = run.terminal
      /\ fired.malformed = run.malformed
  BY <1>1, ClearKeeps
<1> HIDE DEF fired
<1>4. Tolerant(fired)
  BY <1>1, <1>3 DEF Tolerant, Terminated
<1>5. CASE run' = fired
  BY <1>1, <1>3, <1>4, <1>5, CallbackKeeps
<1>6. CASE run' = FailAndTerminateProcess(fired, "timeout")
  <2>1. "timeout" \in Causes \ Exits
    BY DEF Causes, Exits
  <2>2. Sound(run') /\ Kept(fired, run') /\ Terminated(run')
    BY <1>2, <1>3, <1>6, <2>1, FailKeeps DEF Kept
  <2>3. Kept(run, run') /\ Tolerant(run')
    BY <1>3, <2>2, KeptOn DEF Tolerant
  <2> QED
    BY <1>1, <2>2, <2>3, CallbackKeeps
<1> QED
  BY <1>1, <1>5, <1>6

LEMMA ForceKeeps ==
  ASSUME CliInv, ForceTerminateProcessTree
  PROVE  CliInv'
<1> DEFINE cleared == ClearTimer(run, "grace")
<1>1. /\ setup' = setup /\ os' = os /\ Sound(run) /\ Tolerant(run) /\ run \in Run
      /\ \/ run' = [cleared EXCEPT !.sent = @ \cup {"KILL"}]
         \/ run.stray /\ run' = [run EXCEPT !.stray = FALSE, !.sent = @ \cup {"KILL"}]
  BY DEF ForceTerminateProcessTree, CliInv, Sound
<1>2. CASE run' = [cleared EXCEPT !.sent = @ \cup {"KILL"}]
  <2>1. /\ Sound(cleared) /\ Kept(run, cleared) /\ cleared.terminal = run.terminal
        /\ cleared.malformed = run.malformed
    BY <1>1, ClearKeeps
  <2> HIDE DEF cleared
  <2>2. cleared \in Run
    BY <2>1 DEF Sound
  <2> DEFINE sent == cleared.sent \cup {"KILL"}
  <2>3. sent \in SUBSET {"TERM", "STOP", "KILL"}
    BY <2>2 DEF Run
  <2>4. run' = [cleared EXCEPT !.sent = sent]
    BY <1>2
  <2> HIDE DEF sent
  <2>5. /\ run' \in Run
        /\ run'.closed = cleared.closed /\ run'.out = cleared.out /\ run'.terminal = cleared.terminal
        /\ run'.cause = cleared.cause /\ run'.phase = cleared.phase /\ run'.pid = cleared.pid
        /\ run'.exit = cleared.exit /\ run'.ended = cleared.ended /\ run'.clean = cleared.clean
        /\ run'.timers = cleared.timers /\ run'.stray = cleared.stray
        /\ run'.terminating = cleared.terminating /\ run'.malformed = cleared.malformed
    BY <2>2, <2>3, <2>4 DEF Run
  <2>6. Sound(run') /\ Kept(cleared, run')
    BY <2>1, <2>5, ElsewhereKeeps
  <2>7. Kept(run, run') /\ Tolerant(run')
    BY <1>1, <2>1, <2>5, <2>6, KeptOn DEF Tolerant, Terminated
  <2> QED
    BY <1>1, <2>6, <2>7, CallbackKeeps
<1>3. CASE run.stray /\ run' = [run EXCEPT !.stray = FALSE, !.sent = @ \cup {"KILL"}]
  <2> DEFINE sent == run.sent \cup {"KILL"}
  <2>1. sent \in SUBSET {"TERM", "STOP", "KILL"}
    BY <1>1 DEF Run
  <2>2. run' = [run EXCEPT !.stray = FALSE, !.sent = sent]
    BY <1>3
  <2> HIDE DEF sent
  <2>3. /\ run' \in Run
        /\ run'.closed = run.closed /\ run'.out = run.out /\ run'.terminal = run.terminal
        /\ run'.cause = run.cause /\ run'.phase = run.phase /\ run'.pid = run.pid
        /\ run'.exit = run.exit /\ run'.ended = run.ended /\ run'.clean = run.clean
        /\ run'.timers = run.timers /\ run'.stray = FALSE
        /\ run'.terminating = run.terminating /\ run'.malformed = run.malformed
    BY <1>1, <2>1, <2>2 DEF Run
  <2>4. ToldOnce(run') /\ Judged(run') /\ Tolerant(run') /\ Kept(run, run')
    BY <1>1, <2>3 DEF Sound, ToldOnce, Judged, Tolerant, Kept, Terminated
  <2>5. Placed(run') /\ Armed(run')
    BY <1>1, <2>3 DEF Sound, Placed, Armed, Terminated
  <2> QED
    BY <1>1, <2>3, <2>4, <2>5, CallbackKeeps DEF Sound
<1> QED
  BY <1>1, <1>2, <1>3

(* The first n elements of a sequence, and the rest.                       *)
LEMMA Split ==
  ASSUME NEW S, NEW t \in Seq(S), NEW n \in 1..Len(t)
  PROVE  /\ SubSeq(t, 1, n) \in Seq(S) /\ SubSeq(t, n + 1, Len(t)) \in Seq(S)
         /\ Len(SubSeq(t, 1, n)) = n /\ Len(SubSeq(t, n + 1, Len(t))) = Len(t) - n
         /\ \A i \in 1..n : SubSeq(t, 1, n)[i] = t[i]
         /\ \A i \in 1..(Len(t) - n) : SubSeq(t, n + 1, Len(t))[i] = t[n + i]
<1>1. Len(t) \in Nat /\ n \in Nat /\ n <= Len(t)
  OBVIOUS
<1>2. \A i \in 1..n : t[i] \in S
  BY <1>1
<1>3. SubSeq(t, 1, n) \in Seq(S) /\ Len(SubSeq(t, 1, n)) = n
      /\ \A i \in 1..n : SubSeq(t, 1, n)[i] = t[i]
  BY <1>1, <1>2, SubSeqProperties
<1>4. SubSeq(t, n + 1, Len(t)) \in Seq(S) /\ Len(SubSeq(t, n + 1, Len(t))) = Len(t) - n
      /\ \A i \in 1..(Len(t) - n) : SubSeq(t, n + 1, Len(t))[i] = t[n + i]
  BY <1>1, SMT
<1> QED
  BY <1>3, <1>4

LEMMA StdoutDataKeeps ==
  ASSUME CliInv, NEW n, StdoutData(n)
  PROVE  CliInv'
<1> DEFINE cleared == ClearTimer(run, "startup")
           armed == ArmInactivityTimer(cleared)
           lines == SubSeq(os.pipe, 1, n)
           left == SubSeq(os.pipe, n + 1, Len(os.pipe))
<1>1. /\ setup' = setup /\ ~run.clean /\ ~run.ended /\ n \in 1..Len(os.pipe)
      /\ run' = HandleStdoutChunk(armed, lines)
      /\ os' = [os EXCEPT !.pipe = left]
  BY DEF StdoutData
<1>2. /\ Sound(run) /\ Tolerant(run) /\ os \in Processes
      /\ os.pipe \in Seq(Lines \cup {"part"})
  BY DEF CliInv, Matched, Processes
<1>3. run.phase \notin {"idle", "gate"}
  <2>1. os.pipe # <<>>
    BY <1>1, <1>2
  <2>2. run.pid
    BY <2>1 DEF CliInv, Matched
  <2> QED
    BY <1>2, <2>2 DEF Sound, Placed
<1>4. /\ lines \in Seq(Lines \cup {"part"}) /\ left \in Seq(Lines \cup {"part"})
      /\ Len(lines) = n /\ Len(left) = Len(os.pipe) - n
      /\ \A i \in 1..n : lines[i] = os.pipe[i]
      /\ \A i \in 1..(Len(os.pipe) - n) : left[i] = os.pipe[n + i]
  BY <1>1, <1>2, Split
<1>5. /\ Sound(cleared) /\ Kept(run, cleared) /\ cleared.terminal = run.terminal
      /\ cleared.malformed = run.malformed
  BY <1>2, ClearKeeps
<1> HIDE DEF cleared, lines, left
<1>6. /\ Sound(armed) /\ Kept(cleared, armed) /\ armed.terminal = cleared.terminal
      /\ armed.malformed = cleared.malformed
  BY <1>1, <1>3, <1>5, ArmKeeps DEF Kept
<1> HIDE DEF armed
<1>7. Kept(run, armed) /\ Tolerant(armed)
  BY <1>2, <1>5, <1>6, KeptOn DEF Tolerant, Terminated
<1>8. /\ Sound(run') /\ Tolerant(run') /\ Kept(armed, run')
      /\ \A i \in 1..Len(lines) : lines[i] = "result" => Terminated(run')
  BY <1>1, <1>3, <1>4, <1>6, <1>7, ChunkKeeps DEF Kept
<1>9. Kept(run, run')
  BY <1>7, <1>8, KeptOn
<1>10. /\ os' \in Processes /\ os'.pipe = left /\ os'.main = os.main /\ os'.stdout = os.stdout
       /\ os'.result = os.result
  BY <1>1, <1>2, <1>4 DEF Processes
<1>11. os.result => Terminated(run') \/ \E i \in 1..Len(left) : left[i] = "result"
  <2>1. SUFFICES ASSUME os.result, ~Terminated(run')
                 PROVE  \E i \in 1..Len(left) : left[i] = "result"
    OBVIOUS
  <2>2. ~Terminated(run)
    BY <1>9, <2>1 DEF Kept
  <2>3. PICK i \in 1..Len(os.pipe) : os.pipe[i] = "result"
    BY <2>1, <2>2 DEF CliInv, Matched
  <2>4. Len(os.pipe) \in Nat /\ n \in Nat
    BY <1>1, <1>2
  <2>5. i \notin 1..n
    BY <1>4, <1>8, <2>1, <2>3
  <2>6. i - n \in 1..Len(left) /\ n + (i - n) = i
    BY <1>1, <1>4, <2>3, <2>4, <2>5
  <2>7. left[i - n] = os.pipe[n + (i - n)]
    BY <1>4, <2>6
  <2> QED
    BY <2>3, <2>6, <2>7
<1>12. os.main # None
  BY <1>1, <1>2 DEF CliInv, Matched
<1>13. Matched(run', os')
  <2>1. /\ run'.pid = run.pid /\ run'.exit = run.exit /\ ~run'.ended
        /\ (run'.cause \in Exits => run.cause \in Exits)
    BY <1>1, <1>9 DEF Kept
  <2>2. /\ (run.pid <=> os.main # None) /\ (run.exit # None <=> os.main = "exited")
        /\ os.result => run.cause \notin Exits
    BY DEF CliInv, Matched
  <2> QED
    BY <1>10, <1>11, <1>12, <2>1, <2>2 DEF Matched
<1> QED
  BY <1>1, <1>8, <1>13, SoundNext DEF CliInv

(* Stdout ends, or is no longer waited for.                                *)
LEMMA EndKeeps ==
  ASSUME CliInv, ~run.clean, run.pid, os.pipe = <<>>,
         os.stdout = "closed" \/ os.main = "exited",
         setup' = setup, os' = os,
         run' = TryFinalizeAfterExit(ClearTimer([run EXCEPT !.ended = TRUE], "drain"))
  PROVE  CliInv'
<1> DEFINE e == [run EXCEPT !.ended = TRUE]
           c == ClearTimer(e, "drain")
<1>1. Sound(run) /\ Tolerant(run) /\ run \in Run /\ run.phase = "spawned"
  BY DEF CliInv, Sound, Placed
<1>2. /\ e \in Run
      /\ e.closed = run.closed /\ e.out = run.out /\ e.terminal = run.terminal
      /\ e.cause = run.cause /\ e.phase = run.phase /\ e.pid = run.pid
      /\ e.exit = run.exit /\ e.ended = TRUE /\ e.clean = run.clean
      /\ e.timers = run.timers /\ e.stray = run.stray
      /\ e.terminating = run.terminating /\ e.malformed = run.malformed
  BY <1>1 DEF Run
<1>3. run' = TryFinalizeAfterExit(c)
  OBVIOUS
<1> HIDE DEF e
<1>4. ToldOnce(e) /\ Judged(e) /\ Armed(e) /\ Tolerant(e)
  BY <1>1, <1>2 DEF Sound, ToldOnce, Judged, Armed, Tolerant, Terminated
<1>5. Placed(e)
  BY <1>1, <1>2 DEF Sound, Placed
<1>6. Sound(e)
  BY <1>2, <1>4, <1>5 DEF Sound
<1>7. Matched(e, os)
  BY <1>2 DEF CliInv, Matched, Terminated
<1>8. Sound(c) /\ Kept(e, c) /\ c.terminal = e.terminal /\ c.malformed = e.malformed
  BY <1>6, ClearKeeps
<1> HIDE DEF c
<1>9. Tolerant(c) /\ Matched(c, os) /\ ~c.clean /\ c.phase \notin {"idle", "gate"}
  BY <1>1, <1>2, <1>4, <1>7, <1>8, KeptMatches DEF Tolerant, Terminated, Kept
<1>10. Sound(run') /\ Tolerant(run') /\ Matched(run', os')
  BY <1>3, <1>8, <1>9, FinalizeMatches
<1> QED
  BY <1>10, SoundNext DEF CliInv

LEMMA EndsKeep ==
  ASSUME CliInv, StdoutEnd \/ DrainExpires
  PROVE  CliInv'
<1>1. CASE StdoutEnd
  BY <1>1, EndKeeps DEF StdoutEnd
<1>2. CASE DrainExpires
  <2>1. run.exit # None /\ ~run.clean
    BY <1>2 DEF DrainExpires, CliInv, Sound, Armed
  <2>2. run.pid /\ os.main = "exited"
    BY <2>1 DEF CliInv, Sound, Placed, Matched
  <2> QED
    BY <1>2, <2>1, <2>2, EndKeeps DEF DrainExpires
<1> QED
  BY <1>1, <1>2

LEMMA CliKeeps ==
  ASSUME CliInv, Next
  PROVE  CliInv'
<1>1. CASE Start
  BY <1>1, StartKeeps
<1>2. CASE Cancel
  BY <1>2, CancelKeeps
<1>3. CASE \E line \in Lines : Write(line)
  BY <1>3, WriteKeeps
<1>4. CASE CloseStdout \/ (\E kind \in {"quiet", "holding"} : Fork(kind)) \/ ChildDies
  BY <1>4, OutsideKeeps
<1>5. CASE \E code \in {"zero", "nonzero"}, cut \in BOOLEAN : Exit(code, cut)
  BY <1>5, ExitKeeps
<1>6. CASE SpawnError \/ StdinError
  BY <1>6, ErrorsKeep
<1>7. CASE StderrData
  BY <1>7, StderrDataKeeps
<1>8. CASE GateAnswers
  BY <1>8, GateAnswersKeeps
<1>9. CASE \E n \in 1..MaxLines + 1 : StdoutData(n)
  BY <1>9, StdoutDataKeeps
<1>10. CASE StdoutEnd \/ DrainExpires
  BY <1>10, EndsKeep
<1>11. CASE \E timer \in Timers : TimeOut(timer)
  BY <1>11, TimeOutKeeps
<1>12. CASE ForceTerminateProcessTree
  BY <1>12, ForceKeeps
<1>13. CASE Stopped /\ \E cut \in BOOLEAN : Exit("nonzero", cut)
  BY <1>13, ExitKeeps
<1> QED
  BY <1>1, <1>2, <1>3, <1>4, <1>5, <1>6, <1>7, <1>8, <1>9, <1>10, <1>11, <1>12, <1>13
  DEF Next, Turn

(* What the reader is told follows.                                        *)
LEMMA CliInvTells ==
  ASSUME CliInv
  PROVE  RunInv
<1>1. TypeOK
  BY DEF CliInv, Sound, Tolerant, Matched, Processes, TypeOK, Terminated
<1>2. MissingResultIsMissing
  BY DEF CliInv, Matched, MissingResultIsMissing, Exits
<1>3. CancelledMeansGone
  <2>1. run.terminal = "cancelled" => run.exit # None \/ ~run.pid
    BY DEF CliInv, Sound, Judged
  <2>2. (run.pid <=> os.main # None) /\ (run.exit # None <=> os.main = "exited")
    BY DEF CliInv, Matched
  <2> QED
    BY <2>1, <2>2 DEF CancelledMeansGone, None
<1>4. ReaderIsToldOneOutcome
  <2>1. ToldOnce(run) /\ run \in Run
    BY DEF CliInv, Sound
  <2>2. Len(run.out) \in Nat
    BY <2>1 DEF Run
  <2>3. \A i \in 1..Len(run.out) : run.out[i] \in Outcomes => i = Len(run.out)
    BY <2>1 DEF ToldOnce
  <2>4. ~(\E i \in {i \in 1..Len(run.out) : run.out[i] \in Outcomes} : i < Len(run.out))
    BY <2>2, <2>3
  <2>5. run.closed => {i \in 1..Len(run.out) : run.out[i] \in Outcomes} # {}
                      /\ run.out[Len(run.out)] = run.terminal
    <3>1. SUFFICES ASSUME run.closed
                   PROVE  {i \in 1..Len(run.out) : run.out[i] \in Outcomes} # {}
                          /\ run.out[Len(run.out)] = run.terminal
      OBVIOUS
    <3>2. /\ run.out # <<>> /\ run.out[Len(run.out)] = run.terminal
          /\ run.terminal # None /\ run.out \in Seq(Outcomes \cup {"started", "content"})
          /\ run.terminal \in Outcomes \cup {None}
      BY <2>1, <3>1 DEF ToldOnce, Terminated, Run
    <3>3. Len(run.out) \in 1..Len(run.out)
      BY <2>2, <3>2
    <3>4. run.out[Len(run.out)] \in Outcomes
      BY <3>2
    <3> QED
      BY <3>2, <3>3, <3>4
  <2>6. RunTask = IF ~run.closed THEN "reading" ELSE run.out[Len(run.out)]
    BY <2>4, <2>5 DEF RunTask
  <2>7. RunTask \in {"reading", run.terminal}
    BY <2>5, <2>6
  <2> QED
    BY <2>1, <2>7 DEF ToldOnce, ReaderIsToldOneOutcome
<1> QED
  BY <1>1, <1>2, <1>3, <1>4 DEF RunInv

(* A Codex run that has cleaned up has nothing left to signal with.        *)
LEMMA CleanIsSilent ==
  ASSUME CliInv, Next, Codex, run.clean
  PROVE  run'.sent = run.sent
<1>1. /\ run \in Run /\ Terminated(run) /\ run.timers = {} /\ ~run.stray
      /\ run.phase \notin {"idle", "gate"} /\ os.main # "alive"
  <2>1. /\ run \in Run /\ Terminated(run) /\ run.timers = {} /\ ~run.stray
        /\ run.phase \notin {"idle", "gate"} /\ (run.exit # None \/ ~run.pid)
    BY DEF CliInv, Sound, Armed, Placed
  <2> QED
    BY <2>1 DEF CliInv, Matched, None
<1>2. CASE Cancel
  <2>1. run' = [run EXCEPT !.aborted = TRUE]
    <3> DEFINE a == [run EXCEPT !.aborted = TRUE]
    <3>1. a.terminal = run.terminal
      BY <1>1 DEF Run
    <3>2. Terminated(a)
      BY <1>1, <3>1 DEF Terminated
    <3>3. run' = BeginCancellationSequence(a)
      BY <1>1, <1>2 DEF Cancel
    <3> HIDE DEF a
    <3>4. run' = a
      BY <3>2, <3>3 DEF BeginCancellationSequence
    <3> QED
      BY <3>4 DEF a
  <2> QED
    BY <1>1, <2>1 DEF Run
<1>3. ~Start /\ ~GateAnswers /\ ~SpawnError /\ ~StdinError /\ ~StderrData /\ ~StdoutEnd
  BY <1>1 DEF Start, GateAnswers, SpawnError, StdinError, StderrData, StdoutEnd
<1>4. /\ \A code, cut : ~Exit(code, cut)
      /\ \A n : ~StdoutData(n)
      /\ \A timer : ~TimeOut(timer)
      /\ ~DrainExpires /\ ~ForceTerminateProcessTree
  BY <1>1 DEF Exit, StdoutData, TimeOut, DrainExpires, ForceTerminateProcessTree
<1>5. ~Turn
  BY <1>3, <1>4 DEF Turn
<1>6. CASE run' = run
  BY <1>6
<1> QED
  BY <1>2, <1>3, <1>4, <1>5, <1>6 DEF Next, Write, CloseStdout, Fork, ChildDies

-----------------------------------------------------------------------------
(* One run of Hermes.                                                      *)

(* Of a Hermes run: nothing has happened before the first pull.            *)
Unread(t) ==
  t.reader = "idle" =>
    /\ t.outcome = Hermes!None /\ ~t.seen /\ ~t.started /\ ~t.pid /\ ~t.asked /\ ~t.told
    /\ ~t.failure /\ t.exit = Hermes!None /\ ~t.ended /\ ~Hermes!Settled(t) /\ ~t.closed
    /\ t.terminal = Hermes!None /\ ~t.error /\ ~t.partial /\ t.timers = {} /\ ~t.stray

(* The queue is closed by whatever decides the run, and by nothing else.   *)
Closing(t) ==
  /\ t.closed <=> t.failure \/ t.terminal # Hermes!None
  /\ Hermes!Settled(t) \/ t.seen => t.closed

(* Who signals, what is armed, and what a settled transport leaves.        *)
Signalling(t) ==
  /\ Hermes!Settled(t) =>
       /\ t.timers = {}
       /\ t.exit # Hermes!None \/ ~t.pid \/ "KILL" \in t.sent
  /\ t.stray => t.failure /\ t.asked
  /\ t.told => t.failure \/ t.asked
  /\ "cleanup" \in t.timers => t.told
  /\ "force" \in t.timers => ~t.pid \/ "KILL" \in t.sent
  /\ "drain" \in t.timers => t.exit # Hermes!None
  /\ t.pid => t.started
  /\ t.exit # Hermes!None => t.pid

(* An answer was earned, and the process was dealt with before it.         *)
Answered(t) ==
  /\ t.outcome # Hermes!None <=> t.reader = "done"
  /\ t.outcome = "completed" => t.settled = "resolved" /\ t.terminal = "completed"
  /\ t.outcome = "cancelled" =>
       \/ t.requested /\ ~t.seen
       \/ t.terminal = "cancelled" /\ t.exit = "zero"
  /\ t.outcome # Hermes!None =>
       \/ t.exit # Hermes!None \/ ~t.pid \/ "KILL" \in t.sent
       \/ t.outcome = "cancelled" /\ t.told

(* While the reader reads, a cancellation has reached the process.         *)
Reading(t) ==
  /\ t.reader = "awaiting" => t.closed
  /\ t.reader = "reading" =>
       /\ t.started \/ t.closed
       /\ t.asked => t.requested
       /\ t.requested => t.told \/ t.exit # Hermes!None

(* An error of the parser, or an output that ends too early, is a failure. *)
Faulted(t) ==
  /\ t.error => t.failure
  /\ t.ended => t.failure \/ Hermes!Complete(t)
  /\ t.settled = "resolved" => t.ended /\ Hermes!ValidExit(t) /\ Hermes!Complete(t) /\ ~t.failure

Settling(t) ==
  t \in Hermes!Transport /\ Unread(t) /\ Closing(t) /\ Signalling(t) /\ Answered(t) /\ Reading(t)

HSound(t) == Settling(t) /\ Faulted(t)

(* What the transport's reactions leave alone.                             *)
Steady(t, s) ==
  /\ s.reader = t.reader /\ s.outcome = t.outcome /\ s.requested = t.requested
  /\ s.seen = t.seen /\ s.started = t.started /\ s.pid = t.pid /\ s.exit = t.exit
  /\ s.ended = t.ended /\ s.terminal = t.terminal /\ s.partial = t.partial
  /\ t.error => s.error
  /\ t.failure => s.failure
  /\ t.told => s.told
  /\ t.sent \subseteq s.sent
  /\ t.settled # Hermes!None => s.settled = t.settled
  /\ t.closed => s.closed

LEMMA SteadyOn ==
  ASSUME NEW r, NEW s, NEW t, Steady(r, s), Steady(s, t)
  PROVE  Steady(r, t)
<1>1. t.settled = r.settled \/ r.settled = Hermes!None
  BY DEF Steady
<1>2. r.sent \subseteq t.sent
  BY DEF Steady
<1> QED
  BY <1>1, <1>2 DEF Steady

(* The signal of a termination, and its timer.                             *)
LEMMA TerminateFields ==
  ASSUME NEW t, t \in Hermes!Transport
  PROVE  LET s == Hermes!Terminate(t) IN
         /\ s \in Hermes!Transport /\ s.told /\ s.timers = t.timers \cup {"cleanup"}
         /\ s.stray = (t.stray \/ "cleanup" \in t.timers)
         /\ t.sent \subseteq s.sent
         /\ s.reader = t.reader /\ s.outcome = t.outcome /\ s.requested = t.requested
         /\ s.seen = t.seen /\ s.started = t.started /\ s.pid = t.pid /\ s.asked = t.asked
         /\ s.failure = t.failure /\ s.exit = t.exit /\ s.ended = t.ended
         /\ s.settled = t.settled /\ s.closed = t.closed /\ s.terminal = t.terminal
         /\ s.error = t.error /\ s.partial = t.partial
<1> DEFINE s == Hermes!Terminate(t)
           first == IF platform = "posix" THEN "TERM" ELSE "STOP"
           late == t.stray \/ "cleanup" \in t.timers
           armed == t.timers \cup {"cleanup"}
           signals == IF t.pid THEN t.sent \cup {first} ELSE t.sent
<1>1. s = [t EXCEPT !.told = TRUE, !.stray = late, !.timers = armed, !.sent = signals]
  BY DEF Hermes!Terminate
<1>2. armed \in SUBSET Hermes!Timers
  BY DEF Hermes!Transport, Hermes!Timers
<1>3. signals \in SUBSET {"TERM", "STOP", "KILL"} /\ t.sent \subseteq signals
  BY DEF Hermes!Transport
<1>4. late \in BOOLEAN
  OBVIOUS
<1>5. armed = t.timers \cup {"cleanup"} /\ late = (t.stray \/ "cleanup" \in t.timers)
  OBVIOUS
<1> HIDE DEF s, late, armed, signals, first
<1>6. s \in Hermes!Transport
  BY <1>1, <1>2, <1>3, <1>4 DEF Hermes!Transport
<1>7. /\ s.told /\ s.timers = armed /\ s.stray = late /\ s.sent = signals
      /\ s.reader = t.reader /\ s.outcome = t.outcome /\ s.requested = t.requested
      /\ s.seen = t.seen /\ s.started = t.started /\ s.pid = t.pid /\ s.asked = t.asked
      /\ s.failure = t.failure /\ s.exit = t.exit /\ s.ended = t.ended
      /\ s.settled = t.settled /\ s.closed = t.closed /\ s.terminal = t.terminal
      /\ s.error = t.error /\ s.partial = t.partial
  BY <1>1 DEF Hermes!Transport
<1> QED
  BY <1>3, <1>5, <1>6, <1>7 DEF s

(* A failure settles the transport.                                        *)
LEMMA SettleFields ==
  ASSUME NEW t, t \in Hermes!Transport, ~Hermes!Settled(t)
  PROVE  LET s == Hermes!SettleFailure(t) IN
         /\ s \in Hermes!Transport /\ s.settled = "rejected" /\ s.closed /\ s.timers = {}
         /\ s.reader = t.reader /\ s.outcome = t.outcome /\ s.requested = t.requested
         /\ s.seen = t.seen /\ s.started = t.started /\ s.pid = t.pid /\ s.asked = t.asked
         /\ s.failure = t.failure /\ s.exit = t.exit /\ s.ended = t.ended
         /\ s.told = t.told /\ s.stray = t.stray /\ s.sent = t.sent /\ s.terminal = t.terminal
         /\ s.error = t.error /\ s.partial = t.partial
<1> DEFINE s == Hermes!SettleFailure(t)
<1>1. s = [t EXCEPT !.settled = "rejected", !.closed = TRUE, !.timers = {}]
  BY DEF Hermes!SettleFailure
<1> HIDE DEF s
<1>2. s \in Hermes!Transport
  BY <1>1 DEF Hermes!Transport
<1>3. /\ s.settled = "rejected" /\ s.closed /\ s.timers = {}
      /\ s.reader = t.reader /\ s.outcome = t.outcome /\ s.requested = t.requested
      /\ s.seen = t.seen /\ s.started = t.started /\ s.pid = t.pid /\ s.asked = t.asked
      /\ s.failure = t.failure /\ s.exit = t.exit /\ s.ended = t.ended
      /\ s.told = t.told /\ s.stray = t.stray /\ s.sent = t.sent /\ s.terminal = t.terminal
      /\ s.error = t.error /\ s.partial = t.partial
  BY <1>1 DEF Hermes!Transport
<1> QED
  BY <1>2, <1>3 DEF s

LEMMA SettleKeeps ==
  ASSUME NEW t, Settling(t), ~Hermes!Settled(t), t.failure, t.reader # "idle",
         t.exit # Hermes!None \/ ~t.pid \/ "KILL" \in t.sent
  PROVE  LET s == Hermes!SettleFailure(t) IN HSound(s) /\ Steady(t, s)
<1> DEFINE s == Hermes!SettleFailure(t)
<1>1. /\ s \in Hermes!Transport /\ s.settled = "rejected" /\ s.closed /\ s.timers = {}
      /\ s.reader = t.reader /\ s.outcome = t.outcome /\ s.requested = t.requested
      /\ s.seen = t.seen /\ s.started = t.started /\ s.pid = t.pid /\ s.asked = t.asked
      /\ s.failure = t.failure /\ s.exit = t.exit /\ s.ended = t.ended
      /\ s.told = t.told /\ s.stray = t.stray /\ s.sent = t.sent /\ s.terminal = t.terminal
      /\ s.error = t.error /\ s.partial = t.partial
  BY SettleFields DEF Settling
<1> HIDE DEF s
<1>2. Unread(s) /\ Closing(s)
  BY <1>1 DEF Unread, Closing
<1>3. Signalling(s)
  BY <1>1 DEF Settling, Signalling, Hermes!Settled
<1>4. Answered(s)
  BY <1>1 DEF Settling, Answered, Hermes!Settled, Hermes!None
<1>5. Reading(s)
  BY <1>1 DEF Settling, Reading
<1>6. Faulted(s)
  BY <1>1 DEF Faulted
<1>7. Steady(t, s)
  BY <1>1 DEF Steady, Hermes!Settled
<1> QED
  BY <1>1, <1>2, <1>3, <1>4, <1>5, <1>6, <1>7 DEF HSound, Settling, s

(* A failure begins: it settles at once, waits for the process or stops it.*)
LEMMA FailureKeeps ==
  ASSUME NEW t, Settling(t), ~Hermes!Settled(t), t.reader # "idle"
  PROVE  LET s == Hermes!BeginFailure(t) IN HSound(s) /\ Steady(t, s) /\ s.failure
<1> DEFINE s == Hermes!BeginFailure(t)
           left == t.timers \ {"run", "drain"}
           f == [t EXCEPT !.failure = TRUE, !.closed = TRUE, !.timers = left]
<1>1. t \in Hermes!Transport
  BY DEF Settling
<1>2. CASE t.failure
  <2>1. s = t
    BY <1>2 DEF Hermes!BeginFailure
  <2>2. Faulted(t)
    BY <1>2 DEF Faulted, Hermes!Settled, Hermes!None
  <2>3. Steady(t, t)
    BY DEF Steady
  <2> QED
    BY <1>2, <2>1, <2>2, <2>3 DEF HSound
<1>3. CASE ~t.failure
  <2>1. Hermes!Clear([t EXCEPT !.failure = TRUE, !.closed = TRUE], {"run", "drain"}) = f
    BY <1>1 DEF Hermes!Clear, Hermes!Transport
  <2>2. s = IF ~t.started \/ t.exit # Hermes!None THEN Hermes!SettleFailure(f)
            ELSE IF t.told THEN f ELSE Hermes!Terminate(f)
    BY <1>3, <2>1 DEF Hermes!BeginFailure
  <2>3. left \in SUBSET Hermes!Timers
    BY <1>1 DEF Hermes!Transport
  <2>4. /\ "cleanup" \in left => "cleanup" \in t.timers
        /\ "force" \in left => "force" \in t.timers
        /\ "drain" \notin left
    OBVIOUS
  <2> HIDE DEF left
  <2>5. f \in Hermes!Transport
    BY <1>1, <2>3 DEF Hermes!Transport
  <2>6. /\ f.settled = t.settled /\ f.closed /\ f.timers = left
        /\ f.reader = t.reader /\ f.outcome = t.outcome /\ f.requested = t.requested
        /\ f.seen = t.seen /\ f.started = t.started /\ f.pid = t.pid /\ f.asked = t.asked
        /\ f.failure /\ f.exit = t.exit /\ f.ended = t.ended
        /\ f.told = t.told /\ f.stray = t.stray /\ f.sent = t.sent /\ f.terminal = t.terminal
        /\ f.error = t.error /\ f.partial = t.partial
    BY <1>1 DEF Hermes!Transport
  <2> HIDE DEF f
  <2>7. ~Hermes!Settled(f) /\ f.reader # "idle"
    BY <2>6 DEF Hermes!Settled
  <2>8. Unread(f) /\ Closing(f) /\ Reading(f)
    BY <2>6 DEF Settling, Unread, Closing, Reading
  <2>9. Signalling(f)
    BY <2>4, <2>6, <2>7 DEF Settling, Signalling
  <2>10. Answered(f)
    BY <2>6 DEF Settling, Answered
  <2>11. Settling(f) /\ Steady(t, f)
    BY <2>5, <2>6, <2>8, <2>9, <2>10 DEF Settling, Steady
  <2>12. Faulted(f)
    BY <2>6, <2>7 DEF Faulted, Hermes!Settled, Hermes!None
  <2>13. CASE ~t.started \/ t.exit # Hermes!None
    <3>1. s = Hermes!SettleFailure(f)
      BY <2>2, <2>13
    <3>2. f.exit # Hermes!None \/ ~f.pid
      BY <2>6, <2>9, <2>13 DEF Signalling
    <3> HIDE DEF s
    <3>3. HSound(s) /\ Steady(f, s)
      BY <2>6, <2>7, <2>11, <3>1, <3>2, SettleKeeps
    <3>4. Steady(t, s) /\ s.failure
      BY <2>6, <2>11, <3>3, SteadyOn DEF Steady
    <3> QED
      BY <3>3, <3>4 DEF s
  <2>14. CASE ~(~t.started \/ t.exit # Hermes!None) /\ t.told
    <3>1. s = f
      BY <2>2, <2>14
    <3> QED
      BY <2>6, <2>11, <2>12, <3>1 DEF HSound
  <2>15. CASE ~(~t.started \/ t.exit # Hermes!None) /\ ~t.told
    <3>1. s = Hermes!Terminate(f)
      BY <2>2, <2>15
    <3> HIDE DEF s
    <3>2. /\ s \in Hermes!Transport /\ s.told /\ s.timers = f.timers \cup {"cleanup"}
          /\ s.stray = (f.stray \/ "cleanup" \in f.timers)
          /\ f.sent \subseteq s.sent
          /\ s.reader = f.reader /\ s.outcome = f.outcome /\ s.requested = f.requested
          /\ s.seen = f.seen /\ s.started = f.started /\ s.pid = f.pid /\ s.asked = f.asked
          /\ s.failure = f.failure /\ s.exit = f.exit /\ s.ended = f.ended
          /\ s.settled = f.settled /\ s.closed = f.closed /\ s.terminal = f.terminal
          /\ s.error = f.error /\ s.partial = f.partial
      BY <2>5, <3>1, TerminateFields
    <3>3. s.stray = f.stray
      <4>1. "cleanup" \notin f.timers
        BY <2>6, <2>9, <2>15 DEF Signalling
      <4>2. f.stray \in BOOLEAN
        BY <2>5 DEF Hermes!Transport
      <4> QED
        BY <3>2, <4>1, <4>2
    <3>4. /\ "force" \in s.timers => "force" \in f.timers
          /\ "drain" \in s.timers => "drain" \in f.timers
          /\ "KILL" \in f.sent => "KILL" \in s.sent
      BY <3>2
    <3>5. Unread(s) /\ Closing(s) /\ Reading(s)
      BY <2>6, <2>8, <3>2 DEF Unread, Closing, Reading
    <3>6. Signalling(s)
      BY <2>6, <2>7, <2>9, <3>2, <3>3, <3>4 DEF Signalling, Hermes!Settled
    <3>7. Answered(s)
      BY <2>10, <3>2, <3>4 DEF Answered
    <3>8. Settling(s) /\ Steady(f, s)
      BY <3>2, <3>5, <3>6, <3>7 DEF Settling, Steady
    <3>9. Faulted(s)
      BY <2>6, <2>7, <3>2 DEF Faulted, Hermes!Settled, Hermes!None
    <3>10. Steady(t, s) /\ s.failure
      BY <2>6, <2>11, <3>2, <3>8, SteadyOn
    <3> QED
      BY <3>8, <3>9, <3>10 DEF HSound, s
  <2> QED
    BY <2>13, <2>14, <2>15
<1> QED
  BY <1>2, <1>3

(* A cancellation reaches the transport.                                   *)
LEMMA TransportCancelled ==
  ASSUME NEW t, t \in Hermes!Transport, Closing(t), Signalling(t), Answered(t), Faulted(t)
  PROVE  LET s == Hermes!CancelTransport(t) IN
         /\ s \in Hermes!Transport /\ Closing(s) /\ Signalling(s) /\ Answered(s) /\ Faulted(s)
         /\ Steady(t, s) /\ s.error = t.error /\ s.settled = t.settled /\ s.closed = t.closed
         /\ ~Hermes!Settled(t) /\ t.terminal = Hermes!None /\ ~t.asked
              => s.told \/ s.exit # Hermes!None \/ ~s.started
<1> DEFINE s == Hermes!CancelTransport(t)
           a == [t EXCEPT !.asked = TRUE]
<1>1. CASE Hermes!Settled(t) \/ t.asked \/ t.terminal # Hermes!None
  <2>1. s = t
    BY <1>1 DEF Hermes!CancelTransport
  <2>2. Steady(t, t)
    BY DEF Steady
  <2> QED
    BY <1>1, <2>1, <2>2
<1>2. CASE ~(Hermes!Settled(t) \/ t.asked \/ t.terminal # Hermes!None)
  <2>1. s = IF ~t.started \/ t.exit # Hermes!None THEN a ELSE Hermes!Terminate(a)
    BY <1>2 DEF Hermes!CancelTransport
  <2>2. a \in Hermes!Transport
    BY DEF Hermes!Transport
  <2>3. /\ a.settled = t.settled /\ a.closed = t.closed /\ a.timers = t.timers
        /\ a.reader = t.reader /\ a.outcome = t.outcome /\ a.requested = t.requested
        /\ a.seen = t.seen /\ a.started = t.started /\ a.pid = t.pid /\ a.asked
        /\ a.failure = t.failure /\ a.exit = t.exit /\ a.ended = t.ended
        /\ a.told = t.told /\ a.stray = t.stray /\ a.sent = t.sent /\ a.terminal = t.terminal
        /\ a.error = t.error /\ a.partial = t.partial
    BY DEF Hermes!Transport
  <2> HIDE DEF a
  <2>4. ~Hermes!Settled(a) /\ Closing(a) /\ Answered(a)
    BY <1>2, <2>3 DEF Closing, Answered, Hermes!Settled
  <2>5. Signalling(a)
    BY <1>2, <2>3 DEF Signalling, Hermes!Settled
  <2>6. Faulted(a) /\ Steady(t, a)
    BY <2>3 DEF Faulted, Steady, Hermes!Complete, Hermes!ValidExit
  <2>7. CASE ~t.started \/ t.exit # Hermes!None
    <3>1. s = a
      BY <2>1, <2>7
    <3> HIDE DEF s
    <3>2. s.told \/ s.exit # Hermes!None \/ ~s.started
      BY <2>3, <2>7, <3>1
    <3> QED
      BY <2>2, <2>3, <2>4, <2>5, <2>6, <3>1, <3>2 DEF s
  <2>8. CASE ~(~t.started \/ t.exit # Hermes!None)
    <3>1. s = Hermes!Terminate(a)
      BY <2>1, <2>8
    <3> HIDE DEF s
    <3>2. /\ s \in Hermes!Transport /\ s.told /\ s.timers = a.timers \cup {"cleanup"}
          /\ s.stray = (a.stray \/ "cleanup" \in a.timers)
          /\ a.sent \subseteq s.sent
          /\ s.reader = a.reader /\ s.outcome = a.outcome /\ s.requested = a.requested
          /\ s.seen = a.seen /\ s.started = a.started /\ s.pid = a.pid /\ s.asked = a.asked
          /\ s.failure = a.failure /\ s.exit = a.exit /\ s.ended = a.ended
          /\ s.settled = a.settled /\ s.closed = a.closed /\ s.terminal = a.terminal
          /\ s.error = a.error /\ s.partial = a.partial
      BY <2>2, <3>1, TerminateFields
    <3>3. /\ "force" \in s.timers => "force" \in a.timers
          /\ "drain" \in s.timers => "drain" \in a.timers
          /\ "KILL" \in a.sent => "KILL" \in s.sent
      BY <3>2
    <3>4. s.stray => s.failure
      <4>1. "cleanup" \in t.timers => t.failure
        BY <1>2 DEF Signalling
      <4>2. a.stray => a.failure
        BY <2>5 DEF Signalling
      <4> QED
        BY <2>3, <3>2, <4>1, <4>2
    <3>5. Signalling(s)
      BY <2>3, <2>4, <2>5, <3>2, <3>3, <3>4 DEF Signalling, Hermes!Settled
    <3>6. Closing(s) /\ Answered(s)
      BY <2>4, <3>2, <3>3 DEF Closing, Answered, Hermes!Settled
    <3>7. Faulted(s) /\ Steady(a, s)
      BY <2>6, <3>2 DEF Faulted, Steady, Hermes!Complete, Hermes!ValidExit
    <3>8. Steady(t, s)
      BY <2>6, <3>7, SteadyOn
    <3> QED
      BY <2>3, <3>2, <3>5, <3>6, <3>7, <3>8 DEF s
  <2> QED
    BY <2>7, <2>8
<1> QED
  BY <1>1, <1>2

(* The output has ended and the process has exited: the two must agree.    *)
LEMMA CompleteKeeps ==
  ASSUME NEW t, HSound(t), ~Hermes!Settled(t), t.reader # "idle"
  PROVE  LET s == Hermes!MaybeComplete(t) IN HSound(s) /\ Steady(t, s)
<1> DEFINE s == Hermes!MaybeComplete(t)
           d == [t EXCEPT !.settled = "resolved", !.closed = TRUE, !.timers = {}]
<1>1. t \in Hermes!Transport /\ Settling(t) /\ Faulted(t)
  BY DEF HSound, Settling
<1>2. CASE t.failure \/ ~t.ended \/ t.exit = Hermes!None
  <2>1. s = t
    BY <1>2 DEF Hermes!MaybeComplete
  <2>2. Steady(t, t)
    BY DEF Steady
  <2> HIDE DEF s
  <2> QED
    BY <2>1, <2>2 DEF s
<1>3. CASE ~(t.failure \/ ~t.ended \/ t.exit = Hermes!None) /\ ~Hermes!ValidExit(t)
  <2>1. s = Hermes!BeginFailure(t)
    BY <1>3 DEF Hermes!MaybeComplete
  <2> HIDE DEF s
  <2>2. HSound(s) /\ Steady(t, s)
    BY <1>1, <2>1, FailureKeeps
  <2> QED
    BY <2>2 DEF s
<1>4. CASE ~(t.failure \/ ~t.ended \/ t.exit = Hermes!None) /\ Hermes!ValidExit(t)
  <2>1. s = d
    BY <1>4 DEF Hermes!MaybeComplete
  <2>2. d \in Hermes!Transport
    BY <1>1 DEF Hermes!Transport
  <2>3. /\ d.settled = "resolved" /\ d.closed /\ d.timers = {}
        /\ d.reader = t.reader /\ d.outcome = t.outcome /\ d.requested = t.requested
        /\ d.seen = t.seen /\ d.started = t.started /\ d.pid = t.pid /\ d.asked = t.asked
        /\ d.failure = t.failure /\ d.exit = t.exit /\ d.ended = t.ended
        /\ d.told = t.told /\ d.stray = t.stray /\ d.sent = t.sent /\ d.terminal = t.terminal
        /\ d.error = t.error /\ d.partial = t.partial
    BY <1>1 DEF Hermes!Transport
  <2> HIDE DEF d
  <2>4. Unread(d) /\ Closing(d) /\ Reading(d)
    BY <1>1, <1>4, <2>3 DEF Settling, Unread, Closing, Reading, Hermes!ValidExit
  <2>5. Signalling(d)
    BY <1>1, <1>4, <2>3 DEF Settling, Signalling
  <2>6. Answered(d)
    BY <1>1, <2>3 DEF Settling, Answered, Hermes!Settled, Hermes!None
  <2>7. Faulted(d)
    <3>1. Hermes!Complete(t)
      BY <1>1, <1>4 DEF Faulted
    <3> QED
      BY <1>1, <1>4, <2>3, <3>1 DEF Faulted, Hermes!Complete, Hermes!ValidExit
  <2>8. Steady(t, d)
    BY <2>3 DEF Steady, Hermes!Settled
  <2> QED
    BY <2>1, <2>2, <2>4, <2>5, <2>6, <2>7, <2>8 DEF HSound, Settling
<1> QED
  BY <1>2, <1>3, <1>4

(* What is left alone while the output decides nothing new.                *)
Calm(t, s) ==
  /\ s.pid = t.pid /\ s.terminal = t.terminal /\ s.partial = t.partial
  /\ t.error => s.error
  /\ t.failure => s.failure
  /\ s.reader \in {"reading", "awaiting"} => t.reader \in {"reading", "awaiting"}
  /\ s.outcome = "completed" => t.outcome = "completed" \/ t.reader \in {"reading", "awaiting"}

LEMMA SteadyIsCalm ==
  ASSUME NEW t, NEW s, Steady(t, s)
  PROVE  Calm(t, s)
BY DEF Steady, Calm

LEMMA CalmOn ==
  ASSUME NEW r, NEW s, NEW t, Calm(r, s), Calm(s, t)
  PROVE  Calm(r, t)
BY DEF Calm

(* Stdout has ended, or is no longer waited for.                           *)
LEMMA FinishedKeeps ==
  ASSUME NEW t, HSound(t), ~Hermes!Settled(t), t.reader # "idle"
  PROVE  LET s == Hermes!Finish(t) IN
         /\ HSound(s) /\ Calm(t, s)
         /\ s.reader = t.reader /\ s.exit = t.exit /\ s.ended /\ s.outcome = t.outcome
<1> DEFINE s == Hermes!Finish(t)
           left == t.timers \ {"drain"}
           e == [t EXCEPT !.ended = TRUE, !.timers = left]
           b == [e EXCEPT !.error = TRUE]
<1>1. t \in Hermes!Transport /\ Settling(t) /\ Faulted(t)
  BY DEF HSound, Settling
<1>2. Hermes!Clear([t EXCEPT !.ended = TRUE], {"drain"}) = e
  BY <1>1 DEF Hermes!Clear, Hermes!Transport
<1>3. s = IF Hermes!Complete(t) THEN Hermes!MaybeComplete(e) ELSE Hermes!BeginFailure(b)
  BY <1>2 DEF Hermes!Finish
<1>4. left \in SUBSET Hermes!Timers
  BY <1>1 DEF Hermes!Transport
<1>5. /\ "cleanup" \in left => "cleanup" \in t.timers
      /\ "force" \in left => "force" \in t.timers
      /\ "drain" \notin left
  OBVIOUS
<1> HIDE DEF left
<1>6. e \in Hermes!Transport /\ b \in Hermes!Transport
  BY <1>1, <1>4 DEF Hermes!Transport
<1>7. ASSUME NEW x \in {e, b}
      PROVE  /\ x.settled = t.settled /\ x.closed = t.closed /\ x.timers = left
             /\ x.reader = t.reader /\ x.outcome = t.outcome /\ x.requested = t.requested
             /\ x.seen = t.seen /\ x.started = t.started /\ x.pid = t.pid /\ x.asked = t.asked
             /\ x.failure = t.failure /\ x.exit = t.exit /\ x.ended = TRUE
             /\ x.told = t.told /\ x.stray = t.stray /\ x.sent = t.sent
             /\ x.terminal = t.terminal /\ x.partial = t.partial
  <2>1. CASE x = e
    BY <1>1, <2>1 DEF Hermes!Transport
  <2>2. CASE x = b
    BY <1>1, <2>2 DEF Hermes!Transport
  <2> QED
    BY <2>1, <2>2
<1>8. e.error = t.error /\ b.error = TRUE
  BY <1>1 DEF Hermes!Transport
<1> HIDE DEF e, b
<1>9. ASSUME NEW x \in {e, b}
      PROVE  Settling(x) /\ ~Hermes!Settled(x) /\ x.reader # "idle"
  <2>1. /\ x.settled = t.settled /\ x.closed = t.closed /\ x.timers = left
        /\ x.reader = t.reader /\ x.outcome = t.outcome /\ x.requested = t.requested
        /\ x.seen = t.seen /\ x.started = t.started /\ x.pid = t.pid /\ x.asked = t.asked
        /\ x.failure = t.failure /\ x.exit = t.exit /\ x.ended = TRUE
        /\ x.told = t.told /\ x.stray = t.stray /\ x.sent = t.sent
        /\ x.terminal = t.terminal /\ x.partial = t.partial
    BY <1>7
  <2>2. x \in Hermes!Transport
    BY <1>6
  <2>3. Unread(x) /\ Closing(x) /\ Reading(x)
    BY <1>1, <2>1 DEF Settling, Unread, Closing, Reading, Hermes!Settled
  <2>4. Signalling(x)
    BY <1>1, <1>5, <2>1 DEF Settling, Signalling, Hermes!Settled
  <2>5. Answered(x)
    BY <1>1, <2>1 DEF Settling, Answered
  <2> QED
    BY <2>1, <2>2, <2>3, <2>4, <2>5 DEF Settling, Hermes!Settled
<1>10. ASSUME NEW x \in {e, b}, t.error => x.error, HSound(s), Steady(x, s)
       PROVE  /\ HSound(s) /\ Calm(t, s)
              /\ s.reader = t.reader /\ s.exit = t.exit /\ s.ended /\ s.outcome = t.outcome
  <2>1. /\ x.reader = t.reader /\ x.outcome = t.outcome /\ x.pid = t.pid /\ x.exit = t.exit
        /\ x.failure = t.failure /\ x.ended = TRUE
        /\ x.terminal = t.terminal /\ x.partial = t.partial
    BY <1>7
  <2> HIDE DEF s
  <2> QED
    BY <1>10, <2>1 DEF Steady, Calm
<1>11. CASE Hermes!Complete(t)
  <2>1. s = Hermes!MaybeComplete(e)
    BY <1>3, <1>11
  <2>2. e \in {e, b}
    OBVIOUS
  <2>3. Settling(e) /\ ~Hermes!Settled(e) /\ e.reader # "idle"
    BY <1>9, <2>2
  <2>4. /\ e.failure = t.failure /\ e.terminal = t.terminal /\ e.partial = t.partial
    BY <1>7, <2>2
  <2>5. Faulted(e)
    BY <1>1, <1>8, <1>11, <2>3, <2>4 DEF Faulted, Hermes!Complete, Hermes!Settled, Hermes!None
  <2>6. HSound(s) /\ Steady(e, s)
    BY <2>1, <2>3, <2>5, CompleteKeeps DEF HSound
  <2> QED
    BY <1>8, <1>10, <2>2, <2>6
<1>12. CASE ~Hermes!Complete(t)
  <2>1. s = Hermes!BeginFailure(b)
    BY <1>3, <1>12
  <2>2. b \in {e, b}
    OBVIOUS
  <2>3. Settling(b) /\ ~Hermes!Settled(b) /\ b.reader # "idle"
    BY <1>9, <2>2
  <2>4. HSound(s) /\ Steady(b, s)
    BY <2>1, <2>3, FailureKeeps
  <2> QED
    BY <1>8, <1>10, <2>2, <2>4
<1> QED
  BY <1>11, <1>12

(* The fields of a failure that is settled at once.                        *)
LEMMA FailKeepsAtOnce ==
  ASSUME NEW t, HSound(t), ~Hermes!Settled(t), t.reader # "idle",
         t.exit # Hermes!None \/ ~t.pid \/ "KILL" \in t.sent
  PROVE  LET s == Hermes!FailImmediately(t) IN HSound(s) /\ Steady(t, s) /\ s.failure
<1> DEFINE s == Hermes!FailImmediately(t)
           f == [t EXCEPT !.failure = TRUE, !.closed = TRUE]
<1>1. t \in Hermes!Transport
  BY DEF HSound, Settling
<1>2. s = [t EXCEPT !.failure = TRUE, !.settled = "rejected", !.closed = TRUE, !.timers = {}]
  BY <1>1 DEF Hermes!FailImmediately, Hermes!SettleFailure, Hermes!Settled, Hermes!Transport
<1>3. Hermes!SettleFailure(f)
        = [t EXCEPT !.failure = TRUE, !.settled = "rejected", !.closed = TRUE, !.timers = {}]
  BY <1>1 DEF Hermes!SettleFailure, Hermes!Settled, Hermes!Transport
<1>4. s = Hermes!SettleFailure(f)
  BY <1>2, <1>3
<1>5. /\ f \in Hermes!Transport
      /\ f.settled = t.settled /\ f.closed /\ f.timers = t.timers
      /\ f.reader = t.reader /\ f.outcome = t.outcome /\ f.requested = t.requested
      /\ f.seen = t.seen /\ f.started = t.started /\ f.pid = t.pid /\ f.asked = t.asked
      /\ f.failure /\ f.exit = t.exit /\ f.ended = t.ended
      /\ f.told = t.told /\ f.stray = t.stray /\ f.sent = t.sent /\ f.terminal = t.terminal
      /\ f.error = t.error /\ f.partial = t.partial
  BY <1>1 DEF Hermes!Transport
<1> HIDE DEF f, s
<1>6. Unread(f) /\ Closing(f) /\ Reading(f) /\ ~Hermes!Settled(f)
  BY <1>5 DEF HSound, Settling, Unread, Closing, Reading, Hermes!Settled
<1>7. Signalling(f) /\ Answered(f)
  BY <1>5 DEF HSound, Settling, Signalling, Answered, Hermes!Settled
<1>8. Settling(f) /\ Steady(t, f)
  BY <1>5, <1>6, <1>7 DEF Settling, Steady
<1>9. HSound(s) /\ Steady(f, s)
  BY <1>4, <1>5, <1>6, <1>8, SettleKeeps
<1>10. Steady(t, s) /\ s.failure
  BY <1>5, <1>8, <1>9, SteadyOn DEF Steady
<1> QED
  BY <1>9, <1>10 DEF s

(* Timers that are cleared.                                                *)
LEMMA ClearedKeeps ==
  ASSUME NEW t, HSound(t), ~Hermes!Settled(t), NEW timers
  PROVE  LET s == Hermes!Clear(t, timers) IN
         HSound(s) /\ Steady(t, s) /\ ~Hermes!Settled(s) /\ s.failure = t.failure
<1> DEFINE s == Hermes!Clear(t, timers)
           left == t.timers \ timers
<1>1. t \in Hermes!Transport
  BY DEF HSound, Settling
<1>2. s = [t EXCEPT !.timers = left]
  BY DEF Hermes!Clear
<1>3. left \in SUBSET Hermes!Timers
  BY <1>1 DEF Hermes!Transport
<1>4. \A x : x \in left => x \in t.timers
  OBVIOUS
<1> HIDE DEF left, s
<1>5. s \in Hermes!Transport
  BY <1>1, <1>2, <1>3 DEF Hermes!Transport
<1>6. /\ s.settled = t.settled /\ s.closed = t.closed /\ s.timers = left
      /\ s.reader = t.reader /\ s.outcome = t.outcome /\ s.requested = t.requested
      /\ s.seen = t.seen /\ s.started = t.started /\ s.pid = t.pid /\ s.asked = t.asked
      /\ s.failure = t.failure /\ s.exit = t.exit /\ s.ended = t.ended
      /\ s.told = t.told /\ s.stray = t.stray /\ s.sent = t.sent /\ s.terminal = t.terminal
      /\ s.error = t.error /\ s.partial = t.partial
  BY <1>1, <1>2 DEF Hermes!Transport
<1>7. Unread(s)
  <2>1. t.timers = {} => left = {}
    BY <1>4
  <2> QED
    BY <1>6, <2>1 DEF HSound, Settling, Unread, Hermes!Settled
<1>8. Closing(s) /\ Reading(s) /\ ~Hermes!Settled(s)
  BY <1>6 DEF HSound, Settling, Closing, Reading, Hermes!Settled
<1>9. Signalling(s)
  BY <1>4, <1>6 DEF HSound, Settling, Signalling, Hermes!Settled
<1>10. Answered(s)
  BY <1>6 DEF HSound, Settling, Answered
<1>11. Faulted(s) /\ Steady(t, s)
  BY <1>6 DEF HSound, Faulted, Steady, Hermes!Complete, Hermes!ValidExit
<1> QED
  BY <1>5, <1>6, <1>7, <1>8, <1>9, <1>10, <1>11 DEF HSound, Settling, s

(* The process has exited.                                                 *)
LEMMA HandledExitKeeps ==
  ASSUME NEW t, HSound(t), t.pid, t.exit = Hermes!None,
         NEW code \in {"zero", "nonzero", "signal"}
  PROVE  LET s == Hermes!HandleExit(t, code) IN
         /\ HSound(s) /\ Calm(t, s) /\ s.reader = t.reader /\ s.ended = t.ended
         /\ IF Hermes!Settled(t) THEN s = t ELSE s.exit = code
<1> DEFINE s == Hermes!HandleExit(t, code)
           e == [t EXCEPT !.exit = code]
           x == Hermes!Clear(e, {"run"})
<1>1. t \in Hermes!Transport /\ Settling(t) /\ Faulted(t) /\ t.reader # "idle"
  BY DEF HSound, Settling, Unread
<1>2. CASE Hermes!Settled(t)
  <2>1. s = t
    BY <1>2 DEF Hermes!HandleExit
  <2> QED
    BY <1>2, <2>1 DEF Calm
<1>3. CASE ~Hermes!Settled(t)
  <2>1. e \in Hermes!Transport
    BY <1>1 DEF Hermes!Transport
  <2>2. /\ e.settled = t.settled /\ e.closed = t.closed /\ e.timers = t.timers
        /\ e.reader = t.reader /\ e.outcome = t.outcome /\ e.requested = t.requested
        /\ e.seen = t.seen /\ e.started = t.started /\ e.pid = t.pid /\ e.asked = t.asked
        /\ e.failure = t.failure /\ e.exit = code /\ e.ended = t.ended
        /\ e.told = t.told /\ e.stray = t.stray /\ e.sent = t.sent /\ e.terminal = t.terminal
        /\ e.error = t.error /\ e.partial = t.partial
    BY <1>1 DEF Hermes!Transport
  <2>3. code # Hermes!None
    BY DEF Hermes!None
  <2>4. s = IF t.failure THEN Hermes!SettleFailure(x)
            ELSE IF t.ended THEN Hermes!MaybeComplete(x)
            ELSE [x EXCEPT !.timers = @ \cup {"drain"}]
    BY <1>3 DEF Hermes!HandleExit
  <2> HIDE DEF e
  <2>5. Unread(e) /\ Closing(e) /\ Reading(e) /\ ~Hermes!Settled(e)
    BY <1>1, <1>3, <2>2, <2>3 DEF Settling, Unread, Closing, Reading, Hermes!Settled
  <2>6. Signalling(e)
    BY <1>1, <1>3, <2>2, <2>3 DEF Settling, Signalling, Hermes!Settled
  <2>7. Answered(e)
    BY <1>1, <2>2, <2>3 DEF Settling, Answered, Hermes!None
  <2>8. Faulted(e)
    BY <1>1, <1>3, <2>2 DEF Faulted, Hermes!Complete, Hermes!Settled, Hermes!None
  <2>9. HSound(e)
    BY <2>1, <2>5, <2>6, <2>7, <2>8 DEF HSound, Settling
  <2>10. /\ HSound(x) /\ Steady(e, x) /\ ~Hermes!Settled(x) /\ x.failure = e.failure
    BY <2>5, <2>9, ClearedKeeps
  <2> HIDE DEF x
  <2>11. Calm(t, e) /\ Calm(e, x)
    BY <2>2, <2>10, SteadyIsCalm DEF Calm
  <2>12. /\ x.exit = code /\ x.reader = t.reader /\ x.ended = t.ended
         /\ x.failure = t.failure /\ Calm(t, x) /\ x.reader # "idle" /\ x.exit # Hermes!None
    BY <1>1, <2>2, <2>3, <2>10, <2>11, CalmOn DEF Steady
  <2>13. ASSUME HSound(s), Steady(x, s)
         PROVE  /\ HSound(s) /\ Calm(t, s) /\ s.reader = t.reader /\ s.ended = t.ended
                /\ s.exit = code
    <3> HIDE DEF s
    <3>1. Calm(x, s)
      BY <2>13, SteadyIsCalm
    <3>2. Calm(t, s)
      BY <2>12, <3>1, CalmOn
    <3> QED
      BY <2>12, <2>13, <3>2 DEF Steady
  <2>14. CASE t.failure
    <3>1. Settling(x) /\ x.failure
      BY <2>10, <2>12, <2>14 DEF HSound
    <3>2. s = Hermes!SettleFailure(x)
      BY <2>4, <2>14
    <3>3. HSound(s) /\ Steady(x, s)
      BY <2>10, <2>12, <3>1, <3>2, SettleKeeps
    <3> QED
      BY <1>3, <2>13, <3>3
  <2>15. CASE ~t.failure /\ t.ended
    <3>1. s = Hermes!MaybeComplete(x)
      BY <2>4, <2>15
    <3>2. HSound(s) /\ Steady(x, s)
      BY <2>10, <2>12, <3>1, CompleteKeeps
    <3> QED
      BY <1>3, <2>13, <3>2
  <2>16. CASE ~t.failure /\ ~t.ended
    <3> DEFINE armed == x.timers \cup {"drain"}
    <3>1. s = [x EXCEPT !.timers = armed]
      BY <2>4, <2>16
    <3>2. x \in Hermes!Transport
      BY <2>10 DEF HSound, Settling
    <3>3. armed \in SUBSET Hermes!Timers
      BY <3>2 DEF Hermes!Transport, Hermes!Timers
    <3>4. /\ "cleanup" \in armed => "cleanup" \in x.timers
          /\ "force" \in armed => "force" \in x.timers
      OBVIOUS
    <3> HIDE DEF armed, s
    <3>5. s \in Hermes!Transport
      BY <3>1, <3>2, <3>3 DEF Hermes!Transport
    <3>6. /\ s.settled = x.settled /\ s.closed = x.closed /\ s.timers = armed
          /\ s.reader = x.reader /\ s.outcome = x.outcome /\ s.requested = x.requested
          /\ s.seen = x.seen /\ s.started = x.started /\ s.pid = x.pid /\ s.asked = x.asked
          /\ s.failure = x.failure /\ s.exit = x.exit /\ s.ended = x.ended
          /\ s.told = x.told /\ s.stray = x.stray /\ s.sent = x.sent /\ s.terminal = x.terminal
          /\ s.error = x.error /\ s.partial = x.partial
      BY <3>1, <3>2 DEF Hermes!Transport
    <3>7. Unread(s) /\ Closing(s) /\ Reading(s)
      BY <2>10, <2>12, <3>6 DEF HSound, Settling, Unread, Closing, Reading, Hermes!Settled
    <3>8. Signalling(s)
      BY <2>10, <2>12, <3>4, <3>6 DEF HSound, Settling, Signalling, Hermes!Settled
    <3>9. Answered(s)
      BY <2>10, <3>6 DEF HSound, Settling, Answered
    <3>10. Faulted(s)
      BY <2>10, <3>6 DEF HSound, Faulted, Hermes!Complete, Hermes!ValidExit
    <3>11. Steady(x, s)
      BY <3>6 DEF Steady
    <3>12. HSound(s)
      BY <3>5, <3>7, <3>8, <3>9, <3>10 DEF HSound, Settling
    <3> QED
      BY <1>3, <2>13, <3>11, <3>12 DEF s
  <2> QED
    BY <2>14, <2>15, <2>16
<1> QED
  BY <1>2, <1>3

(* The reader answers what it has earned.                                  *)
LEMMA AnswerKeeps ==
  ASSUME NEW t, t \in Hermes!Transport, Closing(t), Signalling(t), Faulted(t),
         NEW outcome \in Hermes!Outcomes,
         outcome = "completed" =>
           t.settled = "resolved" /\ t.terminal = "completed" /\ t.reader = "awaiting",
         outcome = "cancelled" =>
           \/ t.requested /\ ~t.seen
           \/ t.terminal = "cancelled" /\ t.exit = "zero",
         \/ t.exit # Hermes!None \/ ~t.pid \/ "KILL" \in t.sent
         \/ outcome = "cancelled" /\ t.told
  PROVE  LET s == Hermes!Answer(t, outcome) IN
         /\ HSound(s) /\ Calm(t, s) /\ s.reader = "done"
         /\ s.exit = t.exit /\ s.ended = t.ended /\ s.settled = t.settled
         /\ s.closed = t.closed
<1> DEFINE s == Hermes!Answer(t, outcome)
<1>1. s = [t EXCEPT !.reader = "done", !.outcome = outcome]
  BY DEF Hermes!Answer
<1>2. outcome # Hermes!None
  BY DEF Hermes!Outcomes, Hermes!None
<1> HIDE DEF s
<1>3. s \in Hermes!Transport
  BY <1>1 DEF Hermes!Transport
<1>4. /\ s.settled = t.settled /\ s.closed = t.closed /\ s.timers = t.timers
      /\ s.reader = "done" /\ s.outcome = outcome /\ s.requested = t.requested
      /\ s.seen = t.seen /\ s.started = t.started /\ s.pid = t.pid /\ s.asked = t.asked
      /\ s.failure = t.failure /\ s.exit = t.exit /\ s.ended = t.ended
      /\ s.told = t.told /\ s.stray = t.stray /\ s.sent = t.sent /\ s.terminal = t.terminal
      /\ s.error = t.error /\ s.partial = t.partial
  BY <1>1 DEF Hermes!Transport
<1>5. Unread(s) /\ Reading(s) /\ Closing(s)
  BY <1>4 DEF Unread, Reading, Closing, Hermes!Settled
<1>6. Signalling(s)
  BY <1>4 DEF Signalling, Hermes!Settled
<1>7. Answered(s)
  BY <1>2, <1>4 DEF Answered
<1>8. Faulted(s)
  BY <1>4 DEF Faulted, Hermes!Complete, Hermes!ValidExit
<1>9. Calm(t, s)
  BY <1>4 DEF Calm
<1> QED
  BY <1>3, <1>4, <1>5, <1>6, <1>7, <1>8, <1>9 DEF HSound, Settling, s

(* The reader waits for the transport's completion.                        *)
LEMMA AwaitedKeeps ==
  ASSUME NEW t, HSound(t)
  PROVE  LET s == Hermes!AwaitCompletion(t) IN
         /\ HSound(s) /\ Calm(t, s)
         /\ s.exit = t.exit /\ s.ended = t.ended /\ s.settled = t.settled
         /\ s.closed = t.closed /\ s.reader \in {t.reader, "done"}
<1> DEFINE s == Hermes!AwaitCompletion(t)
<1>1. /\ t \in Hermes!Transport /\ Closing(t) /\ Signalling(t) /\ Faulted(t)
  BY DEF HSound, Settling
<1>2. CASE s = t
  <2>1. Calm(t, t)
    BY DEF Calm
  <2> HIDE DEF s
  <2> QED
    BY <1>2, <2>1 DEF s
<1>3. ASSUME NEW outcome \in Hermes!Outcomes, s = Hermes!Answer(t, outcome),
             Hermes!Settled(t), t.reader \in {"invalid", "awaiting"},
             outcome = "completed" =>
               t.settled = "resolved" /\ t.terminal = "completed" /\ t.reader = "awaiting",
             outcome = "cancelled" =>
               \/ t.requested /\ ~t.seen
               \/ t.terminal = "cancelled" /\ t.exit = "zero"
      PROVE  /\ HSound(s) /\ Calm(t, s)
             /\ s.exit = t.exit /\ s.ended = t.ended /\ s.settled = t.settled
             /\ s.closed = t.closed /\ s.reader \in {t.reader, "done"}
  <2>1. t.exit # Hermes!None \/ ~t.pid \/ "KILL" \in t.sent
    BY <1>1, <1>3 DEF Signalling
  <2> HIDE DEF s
  <2> QED
    BY <1>1, <1>3, <2>1, AnswerKeeps
<1>4. CASE ~Hermes!Settled(t)
  <2>1. s = t
    BY <1>4 DEF Hermes!AwaitCompletion
  <2> QED
    BY <1>2, <2>1
<1>5. CASE Hermes!Settled(t) /\ t.reader = "invalid"
  <2>1. s = Hermes!Answer(t, "failed")
    BY <1>5 DEF Hermes!AwaitCompletion
  <2>2. "failed" \in Hermes!Outcomes
    BY DEF Hermes!Outcomes
  <2> HIDE DEF s
  <2>3. /\ HSound(s) /\ Calm(t, s)
        /\ s.exit = t.exit /\ s.ended = t.ended /\ s.settled = t.settled
        /\ s.closed = t.closed /\ s.reader \in {t.reader, "done"}
    BY <1>3, <1>5, <2>1, <2>2
  <2> QED
    BY <2>3 DEF s
<1>6. CASE Hermes!Settled(t) /\ t.reader = "awaiting"
  <2>1. s = IF t.settled = "resolved" /\ t.terminal \in Hermes!Outcomes
              THEN Hermes!Answer(t, t.terminal)
            ELSE IF t.settled = "rejected" /\ t.requested /\ ~t.seen
              THEN Hermes!Answer(t, "cancelled")
            ELSE Hermes!Answer(t, "failed")
    BY <1>6 DEF Hermes!AwaitCompletion
  <2>2. "failed" \in Hermes!Outcomes /\ "cancelled" \in Hermes!Outcomes
    BY DEF Hermes!Outcomes
  <2>3. t.settled = "resolved" /\ t.terminal = "cancelled" => t.exit = "zero"
    BY <1>1 DEF Faulted, Hermes!ValidExit
  <2> HIDE DEF s
  <2>4. CASE t.settled = "resolved" /\ t.terminal \in Hermes!Outcomes
    <3>1. s = Hermes!Answer(t, t.terminal)
      BY <2>1, <2>4
    <3>2. /\ HSound(s) /\ Calm(t, s)
          /\ s.exit = t.exit /\ s.ended = t.ended /\ s.settled = t.settled
          /\ s.closed = t.closed /\ s.reader \in {t.reader, "done"}
      BY <1>3, <1>6, <2>3, <2>4, <3>1
    <3> QED
      BY <3>2 DEF s
  <2>5. CASE ~(t.settled = "resolved" /\ t.terminal \in Hermes!Outcomes)
             /\ t.settled = "rejected" /\ t.requested /\ ~t.seen
    <3>1. s = Hermes!Answer(t, "cancelled")
      BY <2>1, <2>5
    <3>2. /\ HSound(s) /\ Calm(t, s)
          /\ s.exit = t.exit /\ s.ended = t.ended /\ s.settled = t.settled
          /\ s.closed = t.closed /\ s.reader \in {t.reader, "done"}
      BY <1>3, <1>6, <2>2, <2>5, <3>1
    <3> QED
      BY <3>2 DEF s
  <2>6. CASE /\ ~(t.settled = "resolved" /\ t.terminal \in Hermes!Outcomes)
             /\ ~(t.settled = "rejected" /\ t.requested /\ ~t.seen)
    <3>1. s = Hermes!Answer(t, "failed")
      BY <2>1, <2>6
    <3>2. /\ HSound(s) /\ Calm(t, s)
          /\ s.exit = t.exit /\ s.ended = t.ended /\ s.settled = t.settled
          /\ s.closed = t.closed /\ s.reader \in {t.reader, "done"}
      BY <1>3, <1>6, <2>2, <3>1
    <3> QED
      BY <3>2 DEF s
  <2> QED
    BY <2>4, <2>5, <2>6
<1>7. CASE Hermes!Settled(t) /\ t.reader \notin {"invalid", "awaiting"}
  <2>1. s = t
    BY <1>7 DEF Hermes!AwaitCompletion
  <2> QED
    BY <1>2, <2>1
<1> QED
  BY <1>4, <1>5, <1>6, <1>7

(* The reader reads to its next wait.                                      *)
LEMMA IterateKeeps ==
  ASSUME NEW t, HSound(t)
  PROVE  LET s == Hermes!Iterate(t) IN
         /\ HSound(s) /\ Calm(t, s)
         /\ s.exit = t.exit /\ s.ended = t.ended /\ s.settled = t.settled
         /\ s.reader = "reading" => ~s.closed
<1> DEFINE s == Hermes!Iterate(t)
           r == IF t.reader = "reading" /\ t.closed THEN [t EXCEPT !.reader = "awaiting"] ELSE t
<1>1. s = Hermes!AwaitCompletion(r)
  BY DEF Hermes!Iterate
<1>2. t \in Hermes!Transport
  BY DEF HSound, Settling
<1>3. /\ HSound(r) /\ Calm(t, r) /\ r.exit = t.exit /\ r.ended = t.ended
      /\ r.settled = t.settled /\ (r.reader = "reading" => ~r.closed)
  <2>1. CASE t.reader = "reading" /\ t.closed
    <3>1. r = [t EXCEPT !.reader = "awaiting"]
      BY <2>1
    <3> HIDE DEF r
    <3>2. r \in Hermes!Transport
      BY <1>2, <3>1 DEF Hermes!Transport
    <3>3. /\ r.settled = t.settled /\ r.closed = t.closed /\ r.timers = t.timers
          /\ r.reader = "awaiting" /\ r.outcome = t.outcome /\ r.requested = t.requested
          /\ r.seen = t.seen /\ r.started = t.started /\ r.pid = t.pid /\ r.asked = t.asked
          /\ r.failure = t.failure /\ r.exit = t.exit /\ r.ended = t.ended
          /\ r.told = t.told /\ r.stray = t.stray /\ r.sent = t.sent /\ r.terminal = t.terminal
          /\ r.error = t.error /\ r.partial = t.partial
      BY <1>2, <3>1 DEF Hermes!Transport
    <3>4. Unread(r) /\ Reading(r) /\ Closing(r)
      BY <2>1, <3>3 DEF HSound, Settling, Unread, Reading, Closing, Hermes!Settled
    <3>5. Signalling(r) /\ Answered(r)
      BY <2>1, <3>3 DEF HSound, Settling, Signalling, Answered, Hermes!Settled
    <3>6. Faulted(r) /\ Calm(t, r)
      BY <2>1, <3>3 DEF HSound, Faulted, Calm, Hermes!Complete, Hermes!ValidExit
    <3> QED
      BY <3>2, <3>3, <3>4, <3>5, <3>6 DEF HSound, Settling
  <2>2. CASE ~(t.reader = "reading" /\ t.closed)
    <3>1. r = t
      BY <2>2
    <3> HIDE DEF r
    <3> QED
      BY <2>2, <3>1 DEF Calm
  <2> QED
    BY <2>1, <2>2
<1> HIDE DEF r, s
<1>4. /\ HSound(s) /\ Calm(r, s)
      /\ s.exit = r.exit /\ s.ended = r.ended /\ s.settled = r.settled
      /\ s.closed = r.closed /\ s.reader \in {r.reader, "done"}
  BY <1>1, <1>3, AwaitedKeeps
<1>5. Calm(t, s)
  BY <1>3, <1>4, CalmOn
<1> QED
  BY <1>3, <1>4, <1>5 DEF s

(* The forced signal.                                                      *)
LEMMA ForcedKeeps ==
  ASSUME NEW t, HSound(t), NEW s,
         \/ "cleanup" \in t.timers /\ s = Hermes!ForceTerminate(Hermes!Clear(t, {"cleanup"}))
         \/ t.stray /\ s = Hermes!ForceTerminate([t EXCEPT !.stray = FALSE])
  PROVE  /\ HSound(s) /\ Calm(t, s) /\ s.reader = t.reader /\ s.closed = t.closed
         /\ s.exit = t.exit /\ s.ended = t.ended /\ s.settled = t.settled
<1> DEFINE killed == IF t.pid THEN t.sent \cup {"KILL"} ELSE t.sent
           cleared == t.timers \ {"cleanup"}
<1>1. t \in Hermes!Transport
  BY DEF HSound, Settling
<1>2. killed \in SUBSET {"TERM", "STOP", "KILL"} /\ (t.pid => "KILL" \in killed)
      /\ ("KILL" \in t.sent => "KILL" \in killed)
  BY <1>1 DEF Hermes!Transport
<1>3. \E timers, stray :
        /\ s = [t EXCEPT !.timers = timers, !.sent = killed, !.stray = stray]
        /\ timers \in SUBSET Hermes!Timers /\ stray \in BOOLEAN
        /\ (stray => t.stray)
        /\ (Hermes!Settled(t) => timers = t.timers)
        /\ "cleanup" \in timers => "cleanup" \in t.timers
        /\ "drain" \in timers => "drain" \in t.timers
        /\ timers # {} => t.timers # {} \/ t.stray
  <2>1. CASE "cleanup" \in t.timers /\ s = Hermes!ForceTerminate(Hermes!Clear(t, {"cleanup"}))
    <3> DEFINE timers == cleared \cup {"force"}
    <3>1. ~Hermes!Settled(t)
      BY <2>1 DEF HSound, Settling, Signalling
    <3>2. Hermes!Clear(t, {"cleanup"}) = [t EXCEPT !.timers = cleared]
      BY DEF Hermes!Clear
    <3>3. timers \in SUBSET Hermes!Timers
      BY <1>1 DEF Hermes!Transport, Hermes!Timers
    <3>4. "cleanup" \notin timers /\ ("drain" \in timers => "drain" \in t.timers)
      OBVIOUS
    <3>5. s = [t EXCEPT !.timers = timers, !.sent = killed, !.stray = t.stray]
      <4> DEFINE c == [t EXCEPT !.timers = cleared]
      <4>1. /\ c.pid = t.pid /\ c.sent = t.sent /\ c.timers = cleared /\ c.settled = t.settled
        BY <1>1 DEF Hermes!Transport
      <4>2. s = [c EXCEPT !.sent = killed, !.timers = timers]
        <5> HIDE DEF c, killed, timers, cleared
        <5>1. s = Hermes!ForceTerminate(c)
          BY <2>1, <3>2 DEF c
        <5>2. s = [c EXCEPT !.sent = IF c.pid THEN c.sent \cup {"KILL"} ELSE c.sent,
                            !.timers = IF Hermes!Settled(c) THEN c.timers ELSE c.timers \cup {"force"}]
          BY <5>1 DEF Hermes!ForceTerminate
        <5>3. ~Hermes!Settled(c)
          BY <3>1, <4>1 DEF Hermes!Settled
        <5> QED
          BY <4>1, <5>2, <5>3 DEF killed, timers
      <4> HIDE DEF killed, timers, cleared
      <4> QED
        BY <1>1, <4>2 DEF Hermes!Transport
    <3> HIDE DEF timers, killed
    <3>6. t.stray \in BOOLEAN /\ t.timers # {}
      BY <1>1, <2>1 DEF Hermes!Transport
    <3> QED
      BY <3>1, <3>3, <3>4, <3>5, <3>6
  <2>2. CASE t.stray /\ s = Hermes!ForceTerminate([t EXCEPT !.stray = FALSE])
    <3> DEFINE timers == IF Hermes!Settled(t) THEN t.timers ELSE t.timers \cup {"force"}
               c == [t EXCEPT !.stray = FALSE]
    <3>1. timers \in SUBSET Hermes!Timers
      BY <1>1 DEF Hermes!Transport, Hermes!Timers
    <3>2. /\ "cleanup" \in timers => "cleanup" \in t.timers
          /\ "drain" \in timers => "drain" \in t.timers
          /\ Hermes!Settled(t) => timers = t.timers
      OBVIOUS
    <3>3. /\ c.pid = t.pid /\ c.sent = t.sent /\ c.timers = t.timers /\ c.settled = t.settled
      BY <1>1 DEF Hermes!Transport
    <3>4. s = [c EXCEPT !.sent = killed, !.timers = timers]
      <4> HIDE DEF c
      <4>1. s = Hermes!ForceTerminate(c)
        BY <2>2 DEF c
      <4>2. s = [c EXCEPT !.sent = IF c.pid THEN c.sent \cup {"KILL"} ELSE c.sent,
                          !.timers = IF Hermes!Settled(c) THEN c.timers ELSE c.timers \cup {"force"}]
        BY <4>1 DEF Hermes!ForceTerminate
      <4> QED
        BY <3>3, <4>2 DEF Hermes!Settled
    <3> HIDE DEF timers, killed
    <3>5. s = [t EXCEPT !.timers = timers, !.sent = killed, !.stray = FALSE]
      BY <1>1, <3>4 DEF Hermes!Transport
    <3> QED
      BY <2>2, <3>1, <3>2, <3>5
  <2> QED
    BY <2>1, <2>2
<1>4. PICK timers, stray :
        /\ s = [t EXCEPT !.timers = timers, !.sent = killed, !.stray = stray]
        /\ timers \in SUBSET Hermes!Timers /\ stray \in BOOLEAN
        /\ (stray => t.stray)
        /\ (Hermes!Settled(t) => timers = t.timers)
        /\ "cleanup" \in timers => "cleanup" \in t.timers
        /\ "drain" \in timers => "drain" \in t.timers
        /\ timers # {} => t.timers # {} \/ t.stray
  BY <1>3
<1> HIDE DEF killed
<1>5. s \in Hermes!Transport
  BY <1>1, <1>2, <1>4 DEF Hermes!Transport
<1>6. /\ s.settled = t.settled /\ s.closed = t.closed /\ s.timers = timers
      /\ s.reader = t.reader /\ s.outcome = t.outcome /\ s.requested = t.requested
      /\ s.seen = t.seen /\ s.started = t.started /\ s.pid = t.pid /\ s.asked = t.asked
      /\ s.failure = t.failure /\ s.exit = t.exit /\ s.ended = t.ended
      /\ s.told = t.told /\ s.stray = stray /\ s.sent = killed /\ s.terminal = t.terminal
      /\ s.error = t.error /\ s.partial = t.partial
  BY <1>1, <1>4 DEF Hermes!Transport
<1>7. Unread(s) /\ Reading(s) /\ Closing(s)
  BY <1>4, <1>6 DEF HSound, Settling, Unread, Reading, Closing, Hermes!Settled
<1>8. Signalling(s)
  BY <1>2, <1>4, <1>6 DEF HSound, Settling, Signalling, Hermes!Settled
<1>9. Answered(s)
  BY <1>2, <1>6 DEF HSound, Settling, Answered
<1>10. Faulted(s) /\ Calm(t, s)
  BY <1>6 DEF HSound, Faulted, Calm, Hermes!Complete, Hermes!ValidExit
<1> QED
  BY <1>5, <1>6, <1>7, <1>8, <1>9, <1>10 DEF HSound, Settling

(* What parsing leaves alone.                                              *)
Parsing(t, p) ==
  /\ t \in Hermes!Transport /\ p \in Hermes!Transport
  /\ p.reader = t.reader /\ p.outcome = t.outcome /\ p.requested = t.requested
  /\ p.seen = t.seen /\ p.started = t.started /\ p.pid = t.pid /\ p.asked = t.asked
  /\ p.told = t.told /\ p.failure = t.failure /\ p.exit = t.exit /\ p.ended = t.ended
  /\ p.settled = t.settled /\ p.closed = t.closed /\ p.timers = t.timers
  /\ p.stray = t.stray /\ p.sent = t.sent
  /\ t.error => p.error
  /\ t.partial => p.partial
  /\ t.terminal # Hermes!None => p.terminal = t.terminal

LEMMA ParseLineIs ==
  ASSUME NEW t \in Hermes!Transport, NEW line \in Hermes!Lines \cup {"part"}
  PROVE  LET p == Hermes!ParseLine(t, line) IN
         /\ Parsing(t, p)
         /\ \/ t.error /\ p = t
            \/ line = "part" /\ p.partial /\ ~p.error /\ p.terminal = t.terminal
            \/ line # "part" /\ (line = "malformed" \/ t.terminal # Hermes!None)
               /\ p.error /\ p.terminal = t.terminal
            \/ ~t.error /\ line \in Hermes!Ends /\ t.terminal = Hermes!None
               /\ p.terminal = line /\ ~p.error /\ p.partial = t.partial
            \/ ~t.error /\ line \in {"text", "bad"} /\ t.terminal = Hermes!None /\ p = t
<1> DEFINE p == Hermes!ParseLine(t, line)
<1>1. "part" \notin Hermes!Ends /\ "malformed" \notin Hermes!Ends
  BY DEF Hermes!Ends, Hermes!Outcomes
<1>2. CASE t.error
  <2>1. p = t
    BY <1>2 DEF Hermes!ParseLine
  <2> QED
    BY <1>2, <2>1 DEF Parsing
<1>3. CASE ~t.error /\ line = "part"
  <2>1. p = [t EXCEPT !.partial = TRUE]
    BY <1>1, <1>3 DEF Hermes!ParseLine
  <2> HIDE DEF p
  <2>2. p \in Hermes!Transport
    BY <2>1 DEF Hermes!Transport
  <2>3. p.partial /\ p.error = t.error /\ p.terminal = t.terminal
    BY <2>1 DEF Hermes!Transport
  <2>4. Parsing(t, p)
    BY <2>1, <2>2 DEF Parsing, Hermes!Transport
  <2> QED
    BY <1>3, <2>3, <2>4 DEF p
<1>4. CASE ~t.error /\ line # "part" /\ (line = "malformed" \/ t.terminal # Hermes!None)
  <2>1. p = [t EXCEPT !.error = TRUE]
    BY <1>1, <1>4 DEF Hermes!ParseLine
  <2> HIDE DEF p
  <2>2. p \in Hermes!Transport
    BY <2>1 DEF Hermes!Transport
  <2>3. p.error /\ p.terminal = t.terminal
    BY <2>1 DEF Hermes!Transport
  <2>4. Parsing(t, p)
    BY <2>1, <2>2 DEF Parsing, Hermes!Transport
  <2> QED
    BY <1>4, <2>3, <2>4 DEF p
<1>5. CASE ~t.error /\ line \in Hermes!Ends /\ t.terminal = Hermes!None
  <2>1. p = [t EXCEPT !.terminal = line]
    BY <1>1, <1>5 DEF Hermes!ParseLine
  <2> HIDE DEF p
  <2>2. p \in Hermes!Transport
    BY <1>5, <2>1 DEF Hermes!Transport
  <2>3. p.terminal = line /\ p.error = t.error /\ p.partial = t.partial
    BY <2>1 DEF Hermes!Transport
  <2>4. Parsing(t, p)
    BY <1>5, <2>1, <2>2 DEF Parsing, Hermes!Transport
  <2> QED
    BY <1>5, <2>3, <2>4 DEF p
<1>6. CASE ~t.error /\ line \in {"text", "bad"} /\ t.terminal = Hermes!None
  <2>1. line # "part" /\ line # "malformed" /\ line \notin Hermes!Ends
    BY <1>6 DEF Hermes!Ends, Hermes!Outcomes
  <2>2. p = t
    BY <1>6, <2>1 DEF Hermes!ParseLine
  <2> QED
    BY <1>6, <2>2 DEF Parsing
<1>7. line \in {"part", "malformed", "text", "bad"} \cup Hermes!Ends
  BY DEF Hermes!Lines
<1> QED
  BY <1>2, <1>3, <1>4, <1>5, <1>6, <1>7

Parses(f, t, lines) ==
  f = [n \in 0..Len(lines) |->
         IF n = 0 THEN t ELSE Hermes!ParseLine(f[n - 1], lines[n])]

(* There is a function that parses the lines of a chunk one after another. *)
LEMMA ChunkIsParsed ==
  ASSUME NEW t, NEW lines, Len(lines) \in Nat
  PROVE  \E f : Parses(f, t, lines)
<1> DEFINE T == {m \in Nat : \E f : f = [n \in 0..m |->
                       IF n = 0 THEN t ELSE Hermes!ParseLine(f[n - 1], lines[n])]}
<1>1. 0 \in T
  <2> DEFINE f == [n \in 0..0 |-> t]
  <2>1. f = [n \in 0..0 |-> IF n = 0 THEN t ELSE Hermes!ParseLine(f[n - 1], lines[n])]
    OBVIOUS
  <2> HIDE DEF f
  <2> QED
    BY <2>1
<1>2. ASSUME NEW m \in Nat, m \in T
      PROVE  m + 1 \in T
  <2>1. PICK f : f = [n \in 0..m |-> IF n = 0 THEN t ELSE Hermes!ParseLine(f[n - 1], lines[n])]
    BY <1>2
  <2> DEFINE g == [n \in 0..(m + 1) |->
                     IF n = m + 1 THEN Hermes!ParseLine(f[m], lines[m + 1]) ELSE f[n]]
             g1 == [n \in 0..(m + 1) |->
                     IF n = 0 THEN t ELSE Hermes!ParseLine(g[n - 1], lines[n])]
  <2>2. ASSUME NEW n \in 0..(m + 1)
        PROVE  g[n] = IF n = 0 THEN t ELSE Hermes!ParseLine(g[n - 1], lines[n])
    <3>1. CASE n = m + 1
      <4>1. n # 0 /\ m \in 0..(m + 1) /\ m # m + 1 /\ n - 1 = m
        BY <3>1
      <4>2. g[m] = f[m]
        BY <4>1
      <4>3. g[n] = Hermes!ParseLine(f[m], lines[m + 1])
        BY <3>1
      <4> HIDE DEF g
      <4> QED
        BY <3>1, <4>1, <4>2, <4>3
    <3>2. CASE n # m + 1 /\ n = 0
      <4>1. g[n] = f[n] /\ n \in 0..m
        BY <3>2
      <4>2. f[n] = t
        BY <2>1, <3>2, <4>1
      <4> QED
        BY <3>2, <4>1, <4>2
    <3>3. CASE n # m + 1 /\ n # 0
      <4>1. n \in 0..m /\ n - 1 \in 0..m /\ n - 1 \in 0..(m + 1) /\ n - 1 # m + 1
        BY <3>3
      <4>2. g[n] = f[n] /\ g[n - 1] = f[n - 1]
        BY <3>3, <4>1
      <4>3. f[n] = Hermes!ParseLine(f[n - 1], lines[n])
        BY <2>1, <3>3, <4>1
      <4> HIDE DEF g
      <4> QED
        BY <3>3, <4>2, <4>3
    <3> QED
      BY <3>1, <3>2, <3>3
  <2>3. g = g1
    <3>1. g = [n \in 0..(m + 1) |-> g[n]]
      OBVIOUS
    <3> HIDE DEF g
    <3> QED
      BY <2>2, <3>1
  <2>4. m + 1 \in Nat
    OBVIOUS
  <2> HIDE DEF g
  <2> QED
    BY <2>3, <2>4
<1> HIDE DEF T
<1>3. Nat \subseteq T
  BY <1>1, <1>2, SetInduction
<1> QED
  BY <1>3 DEF T, Parses

(* What the parser makes of the first n lines of a chunk.                  *)
ParsedTo(t, parsed, lines, n) ==
  LET p == parsed[n] IN
  /\ Parsing(t, p)
  /\ ~p.error /\ ~p.partial =>
       IF t.terminal # Hermes!None THEN n = 0
       ELSE IF p.terminal = Hermes!None THEN \A i \in 1..n : lines[i] \in {"text", "bad"}
       ELSE /\ n >= 1 /\ lines[n] = p.terminal
            /\ \A i \in 1..(n - 1) : lines[i] \in {"text", "bad"}
  /\ t.terminal = Hermes!None /\ p.terminal # Hermes!None =>
       \E i \in 1..n : lines[i] \in Hermes!Ends /\ ~parsed[i].error
  /\ \A i \in 1..n : /\ parsed[i].error => p.error
                     /\ lines[i] \in Hermes!Ends /\ ~parsed[i].error => p.terminal # Hermes!None

LEMMA ParsedOn ==
  ASSUME NEW t \in Hermes!Transport, NEW lines \in Seq(Hermes!Lines \cup {"part"}),
         NEW parsed, NEW n \in Nat, n + 1 <= Len(lines), ParsedTo(t, parsed, lines, n),
         parsed[n + 1] = Hermes!ParseLine(parsed[n], lines[n + 1])
  PROVE  ParsedTo(t, parsed, lines, n + 1)
<1> DEFINE a == parsed[n]
           b == parsed[n + 1]
           line == lines[n + 1]
<1>1. Parsing(t, a) /\ a \in Hermes!Transport
  BY DEF ParsedTo, Parsing
<1>2. line \in Hermes!Lines \cup {"part"}
  BY Z3
<1>3. /\ Parsing(a, b)
      /\ \/ a.error /\ b = a
         \/ line = "part" /\ b.partial /\ ~b.error /\ b.terminal = a.terminal
         \/ line # "part" /\ (line = "malformed" \/ a.terminal # Hermes!None)
            /\ b.error /\ b.terminal = a.terminal
         \/ ~a.error /\ line \in Hermes!Ends /\ a.terminal = Hermes!None
            /\ b.terminal = line /\ ~b.error /\ b.partial = a.partial
         \/ ~a.error /\ line \in {"text", "bad"} /\ a.terminal = Hermes!None /\ b = a
  BY <1>1, <1>2, ParseLineIs
<1>4. Hermes!None \notin Hermes!Ends /\ "part" \notin Hermes!Ends
      /\ "malformed" \notin Hermes!Ends /\ "text" \notin Hermes!Ends /\ "bad" \notin Hermes!Ends
  BY DEF Hermes!None, Hermes!Ends, Hermes!Outcomes
<1>5. \A i \in 1..(n + 1) : i \in 1..n \/ i = n + 1
  OBVIOUS
<1>6. n + 1 >= 1 /\ (n + 1) - 1 = n /\ n + 1 # 0 /\ n + 1 \in 1..(n + 1)
      /\ \A i \in 1..n : i \in 1..(n + 1)
  OBVIOUS
<1>7. /\ ~a.error /\ ~a.partial =>
           IF t.terminal # Hermes!None THEN n = 0
           ELSE IF a.terminal = Hermes!None THEN \A i \in 1..n : lines[i] \in {"text", "bad"}
           ELSE /\ n >= 1 /\ lines[n] = a.terminal
                /\ \A i \in 1..(n - 1) : lines[i] \in {"text", "bad"}
      /\ t.terminal = Hermes!None /\ a.terminal # Hermes!None =>
           \E i \in 1..n : lines[i] \in Hermes!Ends /\ ~parsed[i].error
      /\ \A i \in 1..n : /\ parsed[i].error => a.error
                         /\ lines[i] \in Hermes!Ends /\ ~parsed[i].error => a.terminal # Hermes!None
  BY DEF ParsedTo
<1> HIDE DEF a, b, line
<1>8. Parsing(t, b)
  BY <1>1, <1>3 DEF Parsing
<1>9. ~b.error /\ ~b.partial =>
        IF t.terminal # Hermes!None THEN FALSE
        ELSE IF b.terminal = Hermes!None THEN \A i \in 1..(n + 1) : lines[i] \in {"text", "bad"}
        ELSE /\ lines[n + 1] = b.terminal
             /\ \A i \in 1..n : lines[i] \in {"text", "bad"}
  <2>1. SUFFICES ASSUME ~b.error, ~b.partial
                 PROVE IF t.terminal # Hermes!None THEN FALSE
                       ELSE IF b.terminal = Hermes!None THEN \A i \in 1..(n + 1) : lines[i] \in {"text", "bad"}
                       ELSE /\ lines[n + 1] = b.terminal
                            /\ \A i \in 1..n : lines[i] \in {"text", "bad"}
    OBVIOUS
  <2>2. ~a.error /\ ~a.partial
    BY <1>3, <2>1 DEF Parsing
  <2>3. CASE line \in Hermes!Ends /\ a.terminal = Hermes!None /\ b.terminal = line
    <3>1. t.terminal = Hermes!None
      BY <1>1, <2>3 DEF Parsing
    <3>2. b.terminal # Hermes!None
      BY <1>4, <2>3
    <3>3. \A i \in 1..n : lines[i] \in {"text", "bad"}
      BY <1>7, <2>2, <2>3, <3>1
    <3> QED
      BY <2>3, <3>1, <3>2, <3>3 DEF line
  <2>4. CASE line \in {"text", "bad"} /\ a.terminal = Hermes!None /\ b = a
    <3>1. t.terminal = Hermes!None
      BY <1>1, <2>4 DEF Parsing
    <3>2. \A i \in 1..n : lines[i] \in {"text", "bad"}
      BY <1>7, <2>2, <2>4, <3>1
    <3> QED
      BY <1>5, <2>4, <3>1, <3>2 DEF line
  <2> QED
    BY <1>3, <2>1, <2>2, <2>3, <2>4
<1>10. t.terminal = Hermes!None /\ b.terminal # Hermes!None =>
         \E i \in 1..(n + 1) : lines[i] \in Hermes!Ends /\ ~parsed[i].error
  <2>1. CASE line \in Hermes!Ends /\ ~b.error
    BY <1>6, <2>1 DEF line, b
  <2>2. CASE b.terminal = a.terminal
    BY <1>6, <1>7, <2>2
  <2> QED
    BY <1>3, <2>1, <2>2
<1>11. \A i \in 1..(n + 1) : /\ parsed[i].error => b.error
                             /\ lines[i] \in Hermes!Ends /\ ~parsed[i].error => b.terminal # Hermes!None
  <2>1. ASSUME NEW i \in 1..n
        PROVE  /\ parsed[i].error => b.error
               /\ lines[i] \in Hermes!Ends /\ ~parsed[i].error => b.terminal # Hermes!None
    BY <1>3, <1>7 DEF Parsing
  <2>2. line \in Hermes!Ends /\ ~b.error => b.terminal # Hermes!None
    BY <1>3, <1>4
  <2> QED
    BY <1>5, <2>1, <2>2 DEF b, line
<1> QED
  BY <1>6, <1>8, <1>9, <1>10, <1>11 DEF ParsedTo, b

(* A chunk, line by line.                                                  *)
LEMMA ChunkParses ==
  ASSUME NEW t \in Hermes!Transport, NEW lines \in Seq(Hermes!Lines \cup {"part"})
  PROVE  \A n \in 0..Len(lines) : ParsedTo(t, Hermes!Push(t, lines), lines, n)
<1>1. Len(lines) \in Nat
  OBVIOUS
<1>2. \E f : Parses(f, t, lines)
  BY <1>1, ChunkIsParsed
<1> DEFINE parsed == CHOOSE f : Parses(f, t, lines)
<1>3. Hermes!Push(t, lines) = parsed
  BY Zenon DEF Hermes!Push, Parses
<1>4. Parses(parsed, t, lines)
  BY <1>2, Zenon
<1> HIDE DEF parsed
<1>5. parsed[0] = t
  BY <1>1, <1>4 DEF Parses
<1>6. \A n \in 1..Len(lines) : parsed[n] = Hermes!ParseLine(parsed[n - 1], lines[n])
  <2>1. TAKE n \in 1..Len(lines)
  <2>2. n \in 0..Len(lines) /\ n # 0
    BY <1>1
  <2> QED
    BY <1>4, <2>2 DEF Parses
<1> DEFINE T == {n \in Nat : n <= Len(lines) => ParsedTo(t, parsed, lines, n)}
<1>7. 0 \in T
  <2>1. Parsing(t, t)
    BY DEF Parsing
  <2>2. ParsedTo(t, parsed, lines, 0)
    BY <1>5, <2>1 DEF ParsedTo
  <2> QED
    BY <2>2
<1>8. ASSUME NEW n \in Nat, n \in T PROVE n + 1 \in T
  <2>1. SUFFICES ASSUME n + 1 <= Len(lines) PROVE ParsedTo(t, parsed, lines, n + 1)
    BY <1>1
  <2>2. n <= Len(lines) /\ n + 1 \in 1..Len(lines) /\ (n + 1) - 1 = n
    BY <1>1, <2>1
  <2>3. ParsedTo(t, parsed, lines, n)
    BY <1>8, <2>2
  <2>4. parsed[n + 1] = Hermes!ParseLine(parsed[n], lines[n + 1])
    BY <1>6, <2>2
  <2> QED
    BY <2>1, <2>3, <2>4, ParsedOn
<1> HIDE DEF T
<1>9. Nat \subseteq T
  BY <1>7, <1>8, SetInduction
<1>10. \A n \in 0..Len(lines) : ParsedTo(t, parsed, lines, n)
  BY <1>1, <1>9 DEF T
<1> QED
  BY <1>3, <1>10

(* An invalid payload: the reader stops listening.                         *)
LEMMA InvalidKeeps ==
  ASSUME NEW t, HSound(t), t.reader = "reading"
  PROVE  LET s == Hermes!InvalidEvent(t) IN
         /\ HSound(s) /\ s.reader \in {"invalid", "done"} /\ s.outcome # "completed"
         /\ s.pid = t.pid /\ s.exit = t.exit /\ s.ended = t.ended
<1> DEFINE s == Hermes!InvalidEvent(t)
           c == Hermes!CancelTransport(t)
<1>1. t \in Hermes!Transport /\ Closing(t) /\ Signalling(t) /\ Answered(t) /\ Faulted(t)
      /\ Reading(t) /\ t.outcome = Hermes!None
  BY DEF HSound, Settling, Answered
<1>2. CASE t.requested /\ ~t.seen
  <2>1. s = Hermes!Answer(t, "cancelled")
    BY <1>2 DEF Hermes!InvalidEvent
  <2>2. t.told \/ t.exit # Hermes!None
    BY <1>1, <1>2 DEF Reading
  <2>3. "cancelled" \in Hermes!Outcomes /\ "cancelled" # "completed"
    BY DEF Hermes!Outcomes
  <2> HIDE DEF s
  <2>4. /\ HSound(s) /\ Calm(t, s) /\ s.reader = "done"
        /\ s.exit = t.exit /\ s.ended = t.ended
    BY <1>1, <1>2, <2>1, <2>2, <2>3, AnswerKeeps
  <2>5. s.outcome = "cancelled" /\ s.pid = t.pid
    BY <1>1, <2>1 DEF Hermes!Answer, Hermes!Transport
  <2> QED
    BY <2>4, <2>5 DEF s
<1>3. CASE ~(t.requested /\ ~t.seen)
  <2>1. s = [c EXCEPT !.reader = "invalid"]
    BY <1>3 DEF Hermes!InvalidEvent
  <2>2. /\ c \in Hermes!Transport /\ Closing(c) /\ Signalling(c) /\ Answered(c) /\ Faulted(c)
        /\ Steady(t, c)
    BY <1>1, TransportCancelled
  <2> HIDE DEF c, s
  <2>3. s \in Hermes!Transport
    BY <2>1, <2>2 DEF Hermes!Transport
  <2>4. /\ s.settled = c.settled /\ s.closed = c.closed /\ s.timers = c.timers
        /\ s.reader = "invalid" /\ s.outcome = c.outcome /\ s.requested = c.requested
        /\ s.seen = c.seen /\ s.started = c.started /\ s.pid = c.pid /\ s.asked = c.asked
        /\ s.failure = c.failure /\ s.exit = c.exit /\ s.ended = c.ended
        /\ s.told = c.told /\ s.stray = c.stray /\ s.sent = c.sent /\ s.terminal = c.terminal
        /\ s.error = c.error /\ s.partial = c.partial
    BY <2>1, <2>2 DEF Hermes!Transport
  <2>5. c.outcome = Hermes!None /\ c.pid = t.pid /\ c.exit = t.exit /\ c.ended = t.ended
        /\ c.reader = "reading"
    BY <1>1, <2>2 DEF Steady
  <2>6. Unread(s) /\ Reading(s) /\ Closing(s)
    BY <2>2, <2>4 DEF Unread, Reading, Closing, Hermes!Settled
  <2>7. Signalling(s)
    BY <2>2, <2>4 DEF Signalling, Hermes!Settled
  <2>8. Answered(s)
    BY <2>4, <2>5 DEF Answered, Hermes!None
  <2>9. Faulted(s)
    BY <2>2, <2>4 DEF Faulted, Hermes!Complete, Hermes!ValidExit
  <2>10. s.outcome # "completed"
    BY <2>4, <2>5 DEF Hermes!None
  <2> QED
    BY <2>3, <2>4, <2>5, <2>6, <2>7, <2>8, <2>9, <2>10 DEF HSound, Settling, s
<1> QED
  BY <1>2, <1>3

(* What a chunk leaves of a run that may still be believed.                *)
Believed(t, s, lines) ==
  /\ s.reader \in {"reading", "awaiting"} \/ s.outcome = "completed"
  /\ ~s.error /\ ~s.failure /\ ~s.partial
  => /\ t.reader \in {"reading", "awaiting"}
     /\ ~t.error /\ ~t.failure /\ ~t.partial /\ t.terminal = Hermes!None
     /\ IF s.terminal = Hermes!None THEN \A i \in 1..Len(lines) : lines[i] = "text"
        ELSE /\ lines[Len(lines)] = s.terminal
             /\ \A i \in 1..(Len(lines) - 1) : lines[i] = "text"

LEMMA ChunkIsHandled ==
  ASSUME NEW t, HSound(t), ~Hermes!Settled(t), t.reader # "idle", ~t.ended,
         t.reader = "reading" => ~t.closed,
         NEW lines \in Seq(Hermes!Lines \cup {"part"}), Len(lines) >= 1
  PROVE  LET s == Hermes!OnStdoutData(t, lines) IN
         /\ HSound(s) /\ Believed(t, s, lines)
         /\ s.reader = "reading" => ~s.closed
         /\ s.pid = t.pid /\ s.exit = t.exit /\ s.ended = t.ended
<1> DEFINE N == Len(lines)
           parsed == Hermes!Push(t, lines)
           p == parsed[N]
           yielded == Hermes!Yielded(t, lines, parsed)
           ending == \E n \in yielded : lines[n] \in Hermes!Ends
           shut == t.closed \/ ending
           queued == [p EXCEPT !.closed = shut]
           acted == IF p.error THEN Hermes!BeginFailure(queued) ELSE queued
           invalid == {n \in yielded : lines[n] = "bad"}
           s == Hermes!OnStdoutData(t, lines)
<1>1. t \in Hermes!Transport /\ Settling(t) /\ Faulted(t)
  BY DEF HSound, Settling
<1>2. N \in Nat /\ N >= 1 /\ N \in 0..N
  BY SMT
<1>3. ParsedTo(t, parsed, lines, N)
  BY <1>1, <1>2, ChunkParses
<1>4. /\ Parsing(t, p)
      /\ ~p.error /\ ~p.partial =>
           IF t.terminal # Hermes!None THEN N = 0
           ELSE IF p.terminal = Hermes!None THEN \A i \in 1..N : lines[i] \in {"text", "bad"}
           ELSE /\ N >= 1 /\ lines[N] = p.terminal
                /\ \A i \in 1..(N - 1) : lines[i] \in {"text", "bad"}
      /\ t.terminal = Hermes!None /\ p.terminal # Hermes!None =>
           \E i \in 1..N : lines[i] \in Hermes!Ends /\ ~parsed[i].error
      /\ \A i \in 1..N : /\ parsed[i].error => p.error
                         /\ lines[i] \in Hermes!Ends /\ ~parsed[i].error => p.terminal # Hermes!None
  BY <1>3 DEF ParsedTo
<1>5. \A n : n \in yielded <=> n \in 1..N /\ ~t.closed /\ ~parsed[n].error /\ lines[n] # "part"
  BY DEF Hermes!Yielded
<1>6. s = IF t.reader # "reading" THEN Hermes!Iterate(acted)
          ELSE IF invalid # {} THEN Hermes!Iterate(Hermes!InvalidEvent(acted))
          ELSE Hermes!Iterate([acted EXCEPT !.seen = ending])
  <2>1. p \in Hermes!Transport /\ p.closed = t.closed
    BY <1>4 DEF Parsing
  <2>2. [p EXCEPT !.closed = @ \/ ending] = queued
    BY <2>1 DEF Hermes!Transport
  <2> QED
    BY <2>2 DEF Hermes!OnStdoutData
<1>7. "part" \notin Hermes!Ends
  BY DEF Hermes!Ends, Hermes!Outcomes
<1>8. ending = \E n \in yielded : lines[n] \in Hermes!Ends
  OBVIOUS
<1>9. ending \in BOOLEAN /\ shut \in BOOLEAN
  BY <1>1 DEF Hermes!Transport
<1>10. shut = (t.closed \/ ending) /\ \A n : n \in invalid <=> n \in yielded /\ lines[n] = "bad"
  OBVIOUS
<1>11. acted = IF p.error THEN Hermes!BeginFailure(queued) ELSE queued
  OBVIOUS
<1>12. queued = [p EXCEPT !.closed = shut]
  OBVIOUS
<1> HIDE DEF yielded, ending, shut, queued, acted, invalid, p, parsed, N, s
<1>13. shut <=> t.failure \/ p.terminal # Hermes!None
  <2>1. t.closed <=> t.failure \/ t.terminal # Hermes!None
    BY <1>1 DEF Settling, Closing
  <2>2. t.terminal # Hermes!None => p.terminal # Hermes!None
    BY <1>4 DEF Parsing
  <2>3. CASE t.closed
    BY <1>10, <2>1, <2>2, <2>3
  <2>4. CASE ~t.closed
    <3>1. ending => p.terminal # Hermes!None
      BY <1>4, <1>5, <1>8
    <3>2. p.terminal # Hermes!None => ending
      <4>1. SUFFICES ASSUME p.terminal # Hermes!None PROVE ending
        OBVIOUS
      <4>2. PICK i \in 1..N : lines[i] \in Hermes!Ends /\ ~parsed[i].error
        BY <1>4, <2>1, <2>4, <4>1
      <4>3. i \in yielded
        BY <1>5, <1>7, <2>4, <4>2
      <4> QED
        BY <1>8, <4>2, <4>3
    <3> QED
      BY <1>10, <2>1, <2>4, <3>1, <3>2
  <2> QED
    BY <2>3, <2>4
<1>14. p \in Hermes!Transport
  BY <1>4 DEF Parsing
<1>15. queued \in Hermes!Transport
  BY <1>9, <1>12, <1>14 DEF Hermes!Transport
<1>16. /\ queued.settled = t.settled /\ queued.closed = shut /\ queued.timers = t.timers
       /\ queued.reader = t.reader /\ queued.outcome = t.outcome
       /\ queued.requested = t.requested /\ queued.seen = t.seen
       /\ queued.started = t.started /\ queued.pid = t.pid /\ queued.asked = t.asked
       /\ queued.failure = t.failure /\ queued.exit = t.exit /\ queued.ended = t.ended
       /\ queued.told = t.told /\ queued.stray = t.stray /\ queued.sent = t.sent
       /\ queued.terminal = p.terminal /\ queued.error = p.error /\ queued.partial = p.partial
  <2>1. /\ queued.settled = p.settled /\ queued.closed = shut /\ queued.timers = p.timers
        /\ queued.reader = p.reader /\ queued.outcome = p.outcome
        /\ queued.requested = p.requested /\ queued.seen = p.seen
        /\ queued.started = p.started /\ queued.pid = p.pid /\ queued.asked = p.asked
        /\ queued.failure = p.failure /\ queued.exit = p.exit /\ queued.ended = p.ended
        /\ queued.told = p.told /\ queued.stray = p.stray /\ queued.sent = p.sent
        /\ queued.terminal = p.terminal /\ queued.error = p.error /\ queued.partial = p.partial
    BY <1>12, <1>14 DEF Hermes!Transport
  <2> QED
    BY <1>4, <2>1 DEF Parsing
<1>17. Settling(queued) /\ ~Hermes!Settled(queued) /\ queued.reader # "idle"
  <2>1. ~Hermes!Settled(queued) /\ queued.reader # "idle" /\ Unread(queued)
    BY <1>16 DEF Hermes!Settled, Unread
  <2>2. Closing(queued)
    BY <1>1, <1>10, <1>13, <1>16, <2>1 DEF Settling, Closing
  <2>3. Signalling(queued)
    BY <1>1, <1>16, <2>1 DEF Settling, Signalling
  <2>4. Answered(queued)
    <3>1. t.outcome # "completed"
      BY <1>1 DEF Settling, Answered, Hermes!Settled, Hermes!None
    <3>2. t.terminal = "cancelled" => p.terminal = "cancelled"
      BY <1>4 DEF Parsing, Hermes!None
    <3> QED
      BY <1>1, <1>16, <3>1, <3>2 DEF Settling, Answered
  <2>5. Reading(queued)
    BY <1>1, <1>10, <1>16 DEF Settling, Reading
  <2> QED
    BY <1>15, <2>1, <2>2, <2>3, <2>4, <2>5 DEF Settling
<1>18. HSound(acted) /\ Steady(queued, acted) /\ (p.error => acted.failure)
  <2>1. CASE p.error
    <3>1. acted = Hermes!BeginFailure(queued)
      BY <1>11, <2>1
    <3> QED
      BY <1>17, <3>1, FailureKeeps
  <2>2. CASE ~p.error
    <3>1. acted = queued
      BY <1>11, <2>2
    <3>2. Faulted(queued)
      BY <1>16, <1>17, <2>2 DEF Faulted, Hermes!Settled, Hermes!None
    <3>3. Steady(queued, queued)
      BY DEF Steady
    <3> QED
      BY <1>17, <2>2, <3>1, <3>2, <3>3 DEF HSound
  <2> QED
    BY <2>1, <2>2
<1>19. /\ acted \in Hermes!Transport
       /\ acted.reader = t.reader /\ acted.outcome = t.outcome /\ acted.pid = t.pid
       /\ acted.exit = t.exit /\ acted.ended = t.ended /\ acted.terminal = p.terminal
       /\ acted.partial = p.partial /\ (p.error => acted.error)
       /\ (t.failure => acted.failure) /\ (shut => acted.closed)
  BY <1>16, <1>18 DEF Steady, HSound, Settling
<1>20. t.outcome # "completed" /\ (t.outcome # Hermes!None <=> t.reader = "done")
  BY <1>1 DEF Settling, Answered, Hermes!Settled, Hermes!None
(* A believed run has only read lines of text, and perhaps its last event. *)
<1>21. ASSUME NEW u, u \in Hermes!Transport, s = Hermes!Iterate(u), HSound(u),
              u.pid = t.pid, u.exit = t.exit, u.ended = t.ended, u.outcome # "completed",
              u.reader \in {"reading", "awaiting"} =>
                /\ u.reader = t.reader /\ u.terminal = p.terminal /\ u.partial = p.partial
                /\ (p.error => u.error) /\ (t.failure => u.failure)
                /\ u.reader = "reading" => invalid = {}
       PROVE  /\ HSound(s) /\ Believed(t, s, lines)
              /\ s.reader = "reading" => ~s.closed
              /\ s.pid = t.pid /\ s.exit = t.exit /\ s.ended = t.ended
  <2>1. /\ HSound(s) /\ Calm(u, s) /\ s.exit = u.exit /\ s.ended = u.ended
        /\ s.reader = "reading" => ~s.closed
    BY <1>21, IterateKeeps
  <2>2. s.pid = t.pid /\ s.exit = t.exit /\ s.ended = t.ended
    BY <1>21, <2>1 DEF Calm
  <2>3. ASSUME s.reader \in {"reading", "awaiting"} \/ s.outcome = "completed",
               ~s.error, ~s.failure, ~s.partial
        PROVE  /\ t.reader \in {"reading", "awaiting"}
               /\ ~t.error /\ ~t.failure /\ ~t.partial /\ t.terminal = Hermes!None
               /\ IF s.terminal = Hermes!None THEN \A i \in 1..N : lines[i] = "text"
                  ELSE /\ lines[N] = s.terminal
                       /\ \A i \in 1..(N - 1) : lines[i] = "text"
    <3>1. /\ u.reader \in {"reading", "awaiting"}
          /\ ~u.error /\ ~u.failure /\ ~u.partial /\ s.terminal = u.terminal
      BY <1>21, <2>1, <2>3 DEF Calm
    <3>2. /\ u.reader = t.reader /\ u.terminal = p.terminal /\ u.partial = p.partial
          /\ (p.error => u.error) /\ (t.failure => u.failure)
          /\ u.reader = "reading" => invalid = {}
      BY <1>21, <3>1
    <3>3. ~p.error /\ ~p.partial /\ ~t.failure /\ s.terminal = p.terminal
      BY <3>1, <3>2
    <3>4. ~t.error /\ ~t.partial
      BY <1>4, <3>3 DEF Parsing
    <3>5. t.terminal = Hermes!None
      BY <1>2, <1>4, <3>3
    <3>6. t.reader = "reading" /\ ~t.closed
      <4>1. ~t.closed
        BY <1>1, <3>3, <3>5 DEF Settling, Closing
      <4>2. t.reader # "awaiting"
        BY <1>1, <4>1 DEF Settling, Reading
      <4> QED
        BY <3>1, <3>2, <4>1, <4>2
    <3>7. invalid = {}
      BY <3>2, <3>6
    <3>8. \A i \in 1..N : lines[i] \in {"text", "bad"} => lines[i] = "text"
      <4>1. SUFFICES ASSUME NEW i \in 1..N, lines[i] = "bad" PROVE FALSE
        OBVIOUS
      <4>2. ~parsed[i].error
        BY <1>4, <3>3
      <4>3. i \in yielded
        BY <1>5, <3>6, <4>1, <4>2
      <4> QED
        BY <1>10, <3>7, <4>1, <4>3
    <3>9. \A i \in 1..(N - 1) : i \in 1..N
      BY <1>2
    <3>10. CASE p.terminal = Hermes!None
      BY <1>4, <3>3, <3>4, <3>5, <3>6, <3>8, <3>10
    <3>11. CASE p.terminal # Hermes!None
      BY <1>4, <3>3, <3>4, <3>5, <3>6, <3>8, <3>9, <3>11
    <3> QED
      BY <3>10, <3>11
  <2>4. Believed(t, s, lines)
    BY <2>3 DEF Believed, N
  <2> QED
    BY <2>1, <2>2, <2>4
<1>22. CASE t.reader # "reading"
  <2>1. s = Hermes!Iterate(acted)
    BY <1>6, <1>22
  <2>2. acted.reader # "reading"
    BY <1>19, <1>22
  <2>3. /\ HSound(s) /\ Believed(t, s, lines)
        /\ s.reader = "reading" => ~s.closed
        /\ s.pid = t.pid /\ s.exit = t.exit /\ s.ended = t.ended
    BY <1>18, <1>19, <1>20, <1>21, <2>1, <2>2
  <2> QED
    BY <2>3 DEF s
<1>23. CASE t.reader = "reading" /\ invalid # {}
  <2> DEFINE v == Hermes!InvalidEvent(acted)
  <2>1. s = Hermes!Iterate(v)
    BY <1>6, <1>23
  <2>2. /\ HSound(v) /\ v.reader \in {"invalid", "done"} /\ v.outcome # "completed"
        /\ v.pid = acted.pid /\ v.exit = acted.exit /\ v.ended = acted.ended
    BY <1>18, <1>19, <1>23, InvalidKeeps
  <2> HIDE DEF v
  <2>3. v \in Hermes!Transport
    BY <2>2 DEF HSound, Settling
  <2>4. /\ HSound(s) /\ Believed(t, s, lines)
        /\ s.reader = "reading" => ~s.closed
        /\ s.pid = t.pid /\ s.exit = t.exit /\ s.ended = t.ended
    BY <1>19, <1>21, <2>1, <2>2, <2>3
  <2> QED
    BY <2>4 DEF s
<1>24. CASE t.reader = "reading" /\ invalid = {}
  <2> DEFINE u == [acted EXCEPT !.seen = ending]
  <2>1. s = Hermes!Iterate(u)
    BY <1>6, <1>24
  <2>2. u \in Hermes!Transport
    BY <1>9, <1>19 DEF Hermes!Transport
  <2>3. /\ u.settled = acted.settled /\ u.closed = acted.closed /\ u.timers = acted.timers
        /\ u.reader = acted.reader /\ u.outcome = acted.outcome /\ u.requested = acted.requested
        /\ u.seen = ending /\ u.started = acted.started /\ u.pid = acted.pid
        /\ u.asked = acted.asked /\ u.failure = acted.failure /\ u.exit = acted.exit
        /\ u.ended = acted.ended /\ u.told = acted.told /\ u.stray = acted.stray
        /\ u.sent = acted.sent /\ u.terminal = acted.terminal
        /\ u.error = acted.error /\ u.partial = acted.partial
    BY <1>19 DEF Hermes!Transport
  <2> HIDE DEF u
  <2>4. Unread(u) /\ Reading(u) /\ u.outcome = Hermes!None
    BY <1>18, <1>19, <1>20, <1>24, <2>3 DEF HSound, Settling, Unread, Reading
  <2>5. Closing(u)
    BY <1>10, <1>18, <1>19, <2>3 DEF HSound, Settling, Closing, Hermes!Settled
  <2>6. Signalling(u)
    BY <1>18, <2>3 DEF HSound, Settling, Signalling, Hermes!Settled
  <2>7. Answered(u)
    BY <1>19, <1>24, <2>3, <2>4 DEF Answered, Hermes!None
  <2>8. Faulted(u)
    BY <1>18, <2>3 DEF HSound, Faulted, Hermes!Complete, Hermes!ValidExit
  <2>9. HSound(u)
    BY <2>2, <2>4, <2>5, <2>6, <2>7, <2>8 DEF HSound, Settling
  <2>10. /\ HSound(s) /\ Believed(t, s, lines)
         /\ s.reader = "reading" => ~s.closed
         /\ s.pid = t.pid /\ s.exit = t.exit /\ s.ended = t.ended
    BY <1>19, <1>20, <1>21, <1>24, <2>1, <2>2, <2>3, <2>9
  <2> QED
    BY <2>10 DEF s
<1> QED
  BY <1>22, <1>23, <1>24

HermesProcesses ==
  [main : {Hermes!None, "alive", "exited"}, stdout : {"open", "closed"}, holder : BOOLEAN,
   pipe : Seq(Hermes!Lines \cup {"part"}), wrote : Seq(Hermes!Lines \cup {"part"})]

(* The pipe holds the end of what was written.                             *)
Piped(p) ==
  /\ p \in HermesProcesses
  /\ Len(p.pipe) <= Len(p.wrote)
  /\ \A i \in 1..Len(p.pipe) : p.pipe[i] = p.wrote[Len(p.wrote) - Len(p.pipe) + i]

(* What a run knows of its process.                                        *)
Followed(t, p) ==
  /\ Len(p.wrote) <= MaxLines + 1
  /\ p.main = "alive" => Len(p.wrote) <= MaxLines
  /\ t.pid <=> p.main # Hermes!None
  /\ t.exit # Hermes!None => p.main = "exited"
  /\ p.main = "exited" => t.exit # Hermes!None \/ Hermes!Settled(t)
  /\ t.ended => p.pipe = <<>> /\ (p.stdout = "closed" \/ p.main = "exited")
  /\ p.main = Hermes!None => p.pipe = <<>> /\ p.wrote = <<>>

(* While the run may still be believed, the lines that were read are text, *)
(* and the last of them is the last event if there was one.                *)
Borne(t, p) ==
  LET k == Len(p.wrote) - Len(p.pipe) IN
  /\ t.reader \in {"reading", "awaiting"} \/ t.outcome = "completed"
  /\ ~t.error /\ ~t.failure /\ ~t.partial
  => IF t.terminal = Hermes!None THEN \A i \in 1..k : p.wrote[i] = "text"
     ELSE /\ k >= 1 /\ p.wrote[k] = t.terminal
          /\ \A i \in 1..(k - 1) : p.wrote[i] = "text"

HInv ==
  /\ platform \in {"posix", "win32"}
  /\ HSound(h)
  /\ h.reader = "reading" => ~h.closed
  /\ Piped(proc) /\ Followed(h, proc)
  /\ Borne(h, proc)

LEMMA CalmBorne ==
  ASSUME NEW t, NEW s, NEW p, Borne(t, p), Calm(t, s)
  PROVE  Borne(s, p)
BY DEF Borne, Calm

(* A line is written.                                                      *)
LEMMA WrittenIsPiped ==
  ASSUME NEW p, Piped(p), NEW line \in Hermes!Lines \cup {"part"}, NEW q,
         q \in HermesProcesses,
         q.pipe = Append(p.pipe, line), q.wrote = Append(p.wrote, line), NEW t, Borne(t, p)
  PROVE  Piped(q) /\ Len(q.wrote) = Len(p.wrote) + 1 /\ Borne(t, q)
<1> DEFINE L == Hermes!Lines \cup {"part"}
<1>1. p.pipe \in Seq(L) /\ p.wrote \in Seq(L)
  BY DEF Piped, HermesProcesses
<1>2. /\ Len(q.pipe) = Len(p.pipe) + 1 /\ Len(p.pipe) \in Nat
      /\ q.pipe[Len(p.pipe) + 1] = line
      /\ \A i \in 1..Len(p.pipe) : q.pipe[i] = p.pipe[i]
  BY <1>1, Appending
<1>3. /\ Len(q.wrote) = Len(p.wrote) + 1 /\ Len(p.wrote) \in Nat
      /\ q.wrote[Len(p.wrote) + 1] = line
      /\ \A i \in 1..Len(p.wrote) : q.wrote[i] = p.wrote[i]
  BY <1>1, Appending
<1> DEFINE a == Len(p.pipe)
           b == Len(p.wrote)
<1>4. a \in Nat /\ b \in Nat /\ a <= b
  BY <1>2, <1>3 DEF Piped
<1>5. \A i \in 1..a : p.pipe[i] = p.wrote[b - a + i]
  BY DEF Piped
<1>6. \A i \in 1..(a + 1) : q.pipe[i] = q.wrote[(b + 1) - (a + 1) + i]
  <2>1. TAKE i \in 1..(a + 1)
  <2> HIDE DEF a, b
  <2>2. (b + 1) - (a + 1) + i = b - a + i
    BY <1>4
  <2>3. CASE i = a + 1
    <3>1. b - a + i = b + 1
      BY <1>4, <2>3
    <3> QED
      BY <1>2, <1>3, <2>2, <2>3, <3>1 DEF a, b
  <2>4. CASE i # a + 1
    <3>1. i \in 1..a /\ b - a + i \in 1..b
      BY <1>4, <2>4
    <3> QED
      BY <1>2, <1>3, <1>5, <2>2, <3>1 DEF a, b
  <2> QED
    BY <2>3, <2>4
<1>7. Len(q.wrote) - Len(q.pipe) = b - a /\ \A i \in 1..(b - a) : q.wrote[i] = p.wrote[i]
  <2>1. \A i \in 1..(b - a) : i \in 1..b
    <3> HIDE DEF a, b
    <3> QED
      BY <1>4
  <2> QED
    BY <1>2, <1>3, <2>1
<1>8. Borne(t, q)
  <2> DEFINE k == b - a
  <2>1. k \in Nat /\ (k >= 1 => k \in 1..k) /\ \A i \in 1..(k - 1) : i \in 1..k
    <3> HIDE DEF a, b
    <3> QED
      BY <1>4
  <2>2. /\ t.reader \in {"reading", "awaiting"} \/ t.outcome = "completed"
        /\ ~t.error /\ ~t.failure /\ ~t.partial
        => IF t.terminal = Hermes!None THEN \A i \in 1..k : p.wrote[i] = "text"
           ELSE /\ k >= 1 /\ p.wrote[k] = t.terminal
                /\ \A i \in 1..(k - 1) : p.wrote[i] = "text"
    BY DEF Borne
  <2>3. Len(q.wrote) - Len(q.pipe) = k /\ \A i \in 1..k : q.wrote[i] = p.wrote[i]
    BY <1>7
  <2> HIDE DEF k
  <2>4. /\ t.reader \in {"reading", "awaiting"} \/ t.outcome = "completed"
        /\ ~t.error /\ ~t.failure /\ ~t.partial
        => IF t.terminal = Hermes!None THEN \A i \in 1..k : q.wrote[i] = "text"
           ELSE /\ k >= 1 /\ q.wrote[k] = t.terminal
                /\ \A i \in 1..(k - 1) : q.wrote[i] = "text"
    BY <2>1, <2>2, <2>3
  <2> QED
    BY <2>3, <2>4 DEF Borne
<1>9. Len(q.pipe) <= Len(q.wrote)
  BY <1>2, <1>3, <1>4
<1>10. \A i \in 1..Len(q.pipe) : q.pipe[i] = q.wrote[Len(q.wrote) - Len(q.pipe) + i]
  BY <1>2, <1>3, <1>6
<1> QED
  BY <1>3, <1>8, <1>9, <1>10 DEF Piped

(* Lines are read.                                                         *)
LEMMA ReadIsPiped ==
  ASSUME NEW p, Piped(p), NEW n \in 1..Len(p.pipe), NEW q, q \in HermesProcesses,
         q.pipe = SubSeq(p.pipe, n + 1, Len(p.pipe)), q.wrote = p.wrote,
         NEW t, NEW s, Borne(t, p), Believed(t, s, SubSeq(p.pipe, 1, n))
  PROVE  Piped(q) /\ Borne(s, q)
<1> DEFINE L == Hermes!Lines \cup {"part"}
           lines == SubSeq(p.pipe, 1, n)
           a == Len(p.pipe)
           b == Len(p.wrote)
<1>0. Believed(t, s, lines)
  OBVIOUS
<1>1. p.pipe \in Seq(L) /\ p.wrote \in Seq(L)
  BY DEF Piped, HermesProcesses
<1>2. /\ Len(lines) = n /\ Len(q.pipe) = a - n
      /\ \A i \in 1..n : lines[i] = p.pipe[i]
      /\ \A i \in 1..(a - n) : q.pipe[i] = p.pipe[n + i]
  BY <1>1, Split
<1>3. a \in Nat /\ b \in Nat /\ a <= b /\ n \in 1..a
  BY <1>1 DEF Piped
<1>4. \A i \in 1..a : p.pipe[i] = p.wrote[b - a + i]
  BY DEF Piped
<1>5. q.wrote = p.wrote /\ Len(q.wrote) = b
  OBVIOUS
<1> HIDE DEF a, b, lines
<1>6. \A i \in 1..(a - n) : q.pipe[i] = q.wrote[b - (a - n) + i]
  <2>1. TAKE i \in 1..(a - n)
  <2>2. n + i \in 1..a /\ b - a + (n + i) = b - (a - n) + i
    BY <1>3
  <2>3. q.pipe[i] = p.pipe[n + i] /\ p.pipe[n + i] = p.wrote[b - a + (n + i)]
    BY <1>2, <1>4, <2>2
  <2> QED
    BY <1>5, <2>2, <2>3
<1>7. Piped(q)
  <2>1. a - n <= b
    BY <1>3
  <2> QED
    BY <1>2, <1>5, <1>6, <2>1 DEF Piped
<1>8. Borne(s, q)
  <2> DEFINE k == b - a
             j == b - (a - n)
  <2>1. /\ k \in Nat /\ j \in Nat /\ j = k + n /\ j >= 1 /\ n \in Nat
        /\ \A i \in 1..j : i \in 1..k \/ (i - k \in 1..n /\ b - a + (i - k) = i)
        /\ \A i \in 1..(j - 1) : i \in 1..k \/ (i - k \in 1..(n - 1) /\ b - a + (i - k) = i)
        /\ b - a + n = j
    <3>1. k \in Nat /\ n \in Nat /\ n >= 1 /\ j = k + n /\ b - a = k
      BY <1>3
    <3> HIDE DEF k, j
    <3>2. j \in Nat /\ j >= 1 /\ b - a + n = j
      BY <3>1
    <3>3. ASSUME NEW i \in 1..j
          PROVE  i \in 1..k \/ (i - k \in 1..n /\ k + (i - k) = i)
      BY <3>1
    <3>4. ASSUME NEW i \in 1..(j - 1)
          PROVE  i \in 1..k \/ (i - k \in 1..(n - 1) /\ k + (i - k) = i)
      BY <3>1
    <3> QED
      BY <3>1, <3>2, <3>3, <3>4
  <2>2. \A i \in 1..n : lines[i] = p.wrote[b - a + i]
    <3>1. \A i \in 1..n : i \in 1..a
      BY <1>3
    <3> QED
      BY <1>2, <1>4, <3>1
  <2>3. n \in 1..n /\ \A i \in 1..(n - 1) : i \in 1..n
    BY <1>3
  <2>4. Len(q.wrote) - Len(q.pipe) = j
    BY <1>2, <1>5
  <2>5. Len(p.wrote) - Len(p.pipe) = k
    BY DEF a, b
  <2> HIDE DEF k, j
  <2>6. ASSUME s.reader \in {"reading", "awaiting"} \/ s.outcome = "completed",
               ~s.error, ~s.failure, ~s.partial
        PROVE  IF s.terminal = Hermes!None THEN \A i \in 1..j : q.wrote[i] = "text"
               ELSE /\ j >= 1 /\ q.wrote[j] = s.terminal
                    /\ \A i \in 1..(j - 1) : q.wrote[i] = "text"
    <3>1. /\ t.reader \in {"reading", "awaiting"}
          /\ ~t.error /\ ~t.failure /\ ~t.partial /\ t.terminal = Hermes!None
          /\ IF s.terminal = Hermes!None THEN \A i \in 1..n : lines[i] = "text"
             ELSE /\ lines[n] = s.terminal
                  /\ \A i \in 1..(n - 1) : lines[i] = "text"
      BY <1>0, <1>2, <2>6 DEF Believed
    <3>2. \A i \in 1..k : p.wrote[i] = "text"
      BY <2>5, <3>1 DEF Borne
    <3>3. CASE s.terminal = Hermes!None
      <4>1. \A i \in 1..n : p.wrote[b - a + i] = "text"
        BY <2>2, <3>1, <3>3
      <4>2. ASSUME NEW i \in 1..j PROVE p.wrote[i] = "text"
        BY <2>1, <3>2, <4>1
      <4> QED
        BY <1>5, <3>3, <4>2
    <3>4. CASE s.terminal # Hermes!None
      <4>1. \A i \in 1..(n - 1) : p.wrote[b - a + i] = "text"
        BY <2>2, <2>3, <3>1, <3>4
      <4>2. ASSUME NEW i \in 1..(j - 1) PROVE p.wrote[i] = "text"
        BY <2>1, <3>2, <4>1
      <4>3. p.wrote[j] = s.terminal
        BY <2>1, <2>2, <2>3, <3>1, <3>4
      <4> QED
        BY <1>5, <2>1, <3>4, <4>2, <4>3
    <3> QED
      BY <3>3, <3>4
  <2> QED
    BY <2>4, <2>6 DEF Borne
<1> QED
  BY <1>7, <1>8

LEMMA HInvNext ==
  ASSUME platform \in {"posix", "win32"}, platform' = platform, HSound(h'),
         h'.reader = "reading" => ~h'.closed, Piped(proc'), Followed(h', proc'),
         Borne(h', proc')
  PROVE  HInv'
<1>1. HSound(h)'
  BY DEF HSound, Settling, Unread, Closing, Signalling, Answered, Reading, Faulted,
         Hermes!Settled, Hermes!Complete, Hermes!ValidExit
<1>2. Piped(proc)' /\ Followed(h, proc)' /\ Borne(h, proc)'
  BY DEF Piped, Followed, Borne, Hermes!Settled
<1> QED
  BY <1>1, <1>2 DEF HInv

LEMMA FollowedOn ==
  ASSUME NEW t, NEW s, NEW p, Followed(t, p), s.pid = t.pid, s.exit = t.exit,
         s.ended = t.ended, Hermes!Settled(t) => Hermes!Settled(s)
  PROVE  Followed(s, p)
BY DEF Followed

(* The reader iterates after what the transport did.                       *)
LEMMA ReactionKeeps ==
  ASSUME HInv, platform' = platform, NEW u, HSound(u), Piped(proc'), Followed(u, proc'),
         Borne(u, proc'), h' = Hermes!Iterate(u)
  PROVE  HInv'
<1>1. /\ HSound(h') /\ Calm(u, h')
      /\ h'.exit = u.exit /\ h'.ended = u.ended /\ h'.settled = u.settled
      /\ h'.reader = "reading" => ~h'.closed
  BY IterateKeeps
<1>2. Borne(h', proc')
  BY <1>1, CalmBorne
<1>3. h'.pid = u.pid /\ (Hermes!Settled(u) => Hermes!Settled(h'))
  BY <1>1 DEF Calm, Hermes!Settled
<1>4. Followed(h', proc')
  BY <1>1, <1>3, FollowedOn
<1> QED
  BY <1>1, <1>2, <1>4, HInvNext DEF HInv

(* The same, when the process did nothing.                                 *)
LEMMA SteadyReaction ==
  ASSUME HInv, UNCHANGED <<platform, proc>>, NEW u, HSound(u), Steady(h, u),
         h' = Hermes!Iterate(u)
  PROVE  HInv'
<1>1. Borne(u, proc')
  BY SteadyIsCalm, CalmBorne DEF HInv
<1>2. u.pid = h.pid /\ u.exit = h.exit /\ u.ended = h.ended
      /\ (Hermes!Settled(h) => Hermes!Settled(u))
  BY DEF Steady, Hermes!Settled
<1>3. Followed(u, proc')
  BY <1>2, FollowedOn DEF HInv
<1>4. Piped(proc') /\ platform' = platform
  BY DEF HInv
<1> QED
  BY <1>1, <1>3, <1>4, ReactionKeeps

(* The first pull.                                                         *)
LEMMA HermesStartKeeps ==
  ASSUME HInv, Hermes!Start
  PROVE  HInv'
<1> DEFINE pulled == [h EXCEPT !.reader = "reading"]
           spawned == [pulled EXCEPT !.started = TRUE, !.timers = {"run"}]
<1>1. /\ h \in Hermes!Transport /\ platform' = platform /\ h.reader = "idle"
      /\ h.outcome = Hermes!None /\ ~h.seen /\ ~h.started /\ ~h.pid /\ ~h.asked /\ ~h.told
      /\ ~h.failure /\ h.exit = Hermes!None /\ ~h.ended /\ h.settled = Hermes!None /\ ~h.closed
      /\ h.terminal = Hermes!None /\ ~h.error /\ ~h.partial /\ h.timers = {} /\ ~h.stray
  BY DEF HInv, HSound, Settling, Unread, Hermes!Start, Hermes!Settled
<1>2. /\ proc.main = Hermes!None /\ proc.pipe = <<>> /\ proc.wrote = <<>>
      /\ proc \in HermesProcesses /\ Piped(proc)
  BY <1>1 DEF HInv, Followed, Piped
<1>3. Len(proc.wrote) = 0 /\ Len(proc.pipe) = 0 /\ MaxLines \in Nat
  BY <1>2, BoundsAssumption
<1>4. ASSUME NEW t, NEW p, t.terminal = Hermes!None, p.pipe = <<>>, p.wrote = <<>>
      PROVE  Borne(t, p)
  <2>1. Len(p.wrote) - Len(p.pipe) = 0
    BY <1>4
  <2> QED
    BY <1>4, <2>1 DEF Borne
<1>5. CASE h.requested /\ h' = Hermes!Answer(h, "cancelled") /\ proc' = proc
  <2>1. /\ Closing(h) /\ Signalling(h) /\ Faulted(h)
    BY DEF HInv, HSound, Settling
  <2>2. "cancelled" \in Hermes!Outcomes /\ "cancelled" # "completed"
    BY DEF Hermes!Outcomes
  <2>3. /\ HSound(h') /\ Calm(h, h') /\ h'.reader = "done"
        /\ h'.exit = h.exit /\ h'.ended = h.ended /\ h'.settled = h.settled
    BY <1>1, <1>5, <2>1, <2>2, AnswerKeeps
  <2>4. h'.pid = h.pid /\ (Hermes!Settled(h) => Hermes!Settled(h'))
    BY <2>3 DEF Calm, Hermes!Settled
  <2>5. Borne(h', proc') /\ Followed(h', proc') /\ Piped(proc')
    BY <1>5, <2>3, <2>4, CalmBorne, FollowedOn DEF HInv
  <2> QED
    BY <1>1, <2>3, <2>5, HInvNext DEF HInv
<1>6. CASE ~h.requested /\ h' = Hermes!Iterate(Hermes!FailImmediately(pulled)) /\ proc' = proc
  <2> DEFINE u == Hermes!FailImmediately(pulled)
  <2>1. u = [h EXCEPT !.reader = "reading", !.failure = TRUE, !.settled = "rejected",
                      !.closed = TRUE, !.timers = {}]
    BY <1>1 DEF Hermes!FailImmediately, Hermes!SettleFailure, Hermes!Settled, Hermes!Transport
  <2> HIDE DEF u
  <2>2. u \in Hermes!Transport
    BY <1>1, <2>1 DEF Hermes!Transport
  <2>3. /\ u.settled = "rejected" /\ u.closed /\ u.timers = {}
        /\ u.reader = "reading" /\ u.outcome = h.outcome /\ u.requested = h.requested
        /\ u.seen = h.seen /\ u.started = h.started /\ u.pid = h.pid /\ u.asked = h.asked
        /\ u.failure /\ u.exit = h.exit /\ u.ended = h.ended
        /\ u.told = h.told /\ u.stray = h.stray /\ u.terminal = h.terminal
        /\ u.error = h.error /\ u.partial = h.partial
    BY <1>1, <2>1 DEF Hermes!Transport
  <2>4. Unread(u) /\ Closing(u) /\ Signalling(u)
    BY <1>1, <2>3 DEF Unread, Closing, Signalling
  <2>5. Answered(u) /\ Faulted(u)
    BY <1>1, <2>3 DEF Answered, Faulted, Hermes!None
  <2>6. Reading(u)
    BY <1>1, <1>6, <2>3 DEF Reading
  <2>7. HSound(u)
    BY <2>2, <2>4, <2>5, <2>6 DEF HSound, Settling
  <2>8. Followed(u, proc') /\ Borne(u, proc') /\ Piped(proc')
    BY <1>1, <1>2, <1>4, <1>6, <2>3 DEF HInv, Followed, Hermes!Settled
  <2> QED
    BY <1>1, <1>6, <2>7, <2>8, ReactionKeeps DEF u
<1>7. CASE /\ ~h.requested
           /\ \/ h' = [spawned EXCEPT !.pid = TRUE] /\ proc' = [proc EXCEPT !.main = "alive"]
              \/ h' = spawned /\ proc' = proc
  <2>1. h' \in Hermes!Transport
    <3>1. PICK b \in BOOLEAN :
            h' = [h EXCEPT !.reader = "reading", !.started = TRUE, !.timers = {"run"}, !.pid = b]
      <4>1. spawned = [h EXCEPT !.reader = "reading", !.started = TRUE, !.timers = {"run"},
                                !.pid = h.pid]
        BY <1>1 DEF Hermes!Transport
      <4>2. h.pid \in BOOLEAN
        BY <1>1 DEF Hermes!Transport
      <4> QED
        BY <1>7, <4>1, <4>2
    <3>2. {"run"} \in SUBSET Hermes!Timers
      BY DEF Hermes!Timers
    <3> QED
      BY <1>1, <3>1, <3>2 DEF Hermes!Transport
  <2>2. /\ h'.settled = h.settled /\ h'.closed = h.closed /\ h'.timers = {"run"}
        /\ h'.reader = "reading" /\ h'.outcome = h.outcome /\ h'.requested = h.requested
        /\ h'.seen = h.seen /\ h'.started /\ h'.asked = h.asked
        /\ h'.failure = h.failure /\ h'.exit = h.exit /\ h'.ended = h.ended
        /\ h'.told = h.told /\ h'.stray = h.stray /\ h'.terminal = h.terminal
        /\ h'.error = h.error /\ h'.partial = h.partial
    BY <1>1, <1>7 DEF Hermes!Transport
  <2>3. /\ proc' \in HermesProcesses /\ proc'.pipe = <<>> /\ proc'.wrote = <<>>
        /\ proc'.main # "exited" /\ (h'.pid <=> proc'.main # Hermes!None)
    <3>1. CASE h' = [spawned EXCEPT !.pid = TRUE] /\ proc' = [proc EXCEPT !.main = "alive"]
      <4>1. proc' \in HermesProcesses /\ proc'.pipe = <<>> /\ proc'.wrote = <<>> /\ proc'.main = "alive"
        BY <1>2, <3>1 DEF HermesProcesses
      <4>2. h'.pid = TRUE
        BY <1>1, <3>1 DEF Hermes!Transport
      <4> QED
        BY <4>1, <4>2 DEF Hermes!None
    <3>2. CASE h' = spawned /\ proc' = proc
      <4>1. h'.pid = h.pid
        BY <1>1, <3>2 DEF Hermes!Transport
      <4> QED
        BY <1>1, <1>2, <3>2, <4>1 DEF Hermes!None
    <3> QED
      BY <1>7, <3>1, <3>2
  <2>4. Unread(h') /\ Closing(h') /\ Signalling(h')
    BY <1>1, <2>2 DEF Unread, Closing, Signalling, Hermes!Settled
  <2>5. Answered(h') /\ Faulted(h') /\ Reading(h')
    BY <1>1, <1>7, <2>2 DEF Answered, Faulted, Reading, Hermes!None
  <2>6. HSound(h')
    BY <2>1, <2>4, <2>5 DEF HSound, Settling
  <2>7. Len(proc'.wrote) = 0 /\ Len(proc'.pipe) = 0
    BY <2>3
  <2>8. Piped(proc') /\ Followed(h', proc')
    BY <1>1, <1>3, <2>2, <2>3, <2>7 DEF Piped, Followed
  <2>9. Borne(h', proc')
    BY <1>1, <1>4, <2>2, <2>3
  <2> QED
    BY <1>1, <2>2, <2>6, <2>8, <2>9, HInvNext DEF HInv
<1> QED
  BY <1>5, <1>6, <1>7 DEF Hermes!Start

(* cancel(), or the caller's signal.                                       *)
LEMMA HermesCancelKeeps ==
  ASSUME HInv, Hermes!Cancel
  PROVE  HInv'
<1> DEFINE r == [h EXCEPT !.requested = TRUE]
<1>1. /\ h \in Hermes!Transport /\ platform' = platform /\ proc' = proc /\ HSound(h)
      /\ ~h.requested /\ ~h.seen /\ h.reader \notin {"invalid", "done"}
      /\ h' = IF h.reader = "idle" THEN r ELSE Hermes!CancelTransport(r)
  BY DEF HInv, HSound, Settling, Hermes!Cancel
<1>2. r \in Hermes!Transport
  BY <1>1 DEF Hermes!Transport
<1>3. /\ r.settled = h.settled /\ r.closed = h.closed /\ r.timers = h.timers
      /\ r.reader = h.reader /\ r.outcome = h.outcome /\ r.requested
      /\ r.seen = h.seen /\ r.started = h.started /\ r.pid = h.pid /\ r.asked = h.asked
      /\ r.failure = h.failure /\ r.exit = h.exit /\ r.ended = h.ended
      /\ r.told = h.told /\ r.stray = h.stray /\ r.sent = h.sent /\ r.terminal = h.terminal
      /\ r.error = h.error /\ r.partial = h.partial
  BY <1>1 DEF Hermes!Transport
<1> HIDE DEF r
<1>4. Unread(r) /\ Closing(r) /\ Signalling(r)
  BY <1>1, <1>3 DEF HSound, Settling, Unread, Closing, Signalling, Hermes!Settled
<1>5. Answered(r) /\ Faulted(r)
  BY <1>1, <1>3 DEF HSound, Settling, Answered, Faulted, Hermes!Complete, Hermes!ValidExit
<1>6. Calm(h, r) /\ Borne(r, proc) /\ Followed(r, proc)
  <2>1. Calm(h, r)
    BY <1>3 DEF Calm
  <2>2. Hermes!Settled(h) => Hermes!Settled(r)
    BY <1>3 DEF Hermes!Settled
  <2> QED
    BY <1>3, <2>1, <2>2, CalmBorne, FollowedOn DEF HInv
<1>7. CASE h.reader = "idle"
  <2>1. Reading(r)
    BY <1>3, <1>7 DEF Reading
  <2>2. HSound(h') /\ h' = r
    BY <1>1, <1>2, <1>4, <1>5, <1>7, <2>1 DEF HSound, Settling
  <2> QED
    BY <1>1, <1>3, <1>6, <1>7, <2>2, HInvNext DEF HInv
<1>8. CASE h.reader # "idle"
  <2>1. h' = Hermes!CancelTransport(r)
    BY <1>1, <1>8
  <2>2. /\ h' \in Hermes!Transport /\ Closing(h') /\ Signalling(h') /\ Answered(h') /\ Faulted(h')
        /\ Steady(r, h') /\ h'.settled = r.settled /\ h'.closed = r.closed
        /\ ~Hermes!Settled(r) /\ r.terminal = Hermes!None /\ ~r.asked
             => h'.told \/ h'.exit # Hermes!None \/ ~h'.started
    BY <1>2, <1>4, <1>5, <2>1, TransportCancelled
  <2>3. h'.reader = h.reader /\ h'.pid = r.pid /\ h'.exit = r.exit /\ h'.ended = r.ended
        /\ h'.requested /\ h'.started = h.started
    BY <1>3, <2>2 DEF Steady
  <2>4. h.reader = "reading" => ~h.closed
    BY DEF HInv
  <2>5. Reading(h') /\ Unread(h')
    <3>1. h'.reader = "awaiting" => h'.closed
      BY <1>1, <1>3, <2>2, <2>3 DEF HSound, Settling, Reading
    <3>2. h.reader = "reading" =>
            h.started /\ ~h.asked /\ ~Hermes!Settled(h) /\ h.terminal = Hermes!None
      BY <1>1, <2>4 DEF HSound, Settling, Reading, Closing
    <3>3. h.reader = "reading" => h'.started /\ (h'.told \/ h'.exit # Hermes!None)
      BY <1>3, <2>2, <2>3, <3>2 DEF Hermes!Settled
    <3> QED
      BY <1>8, <2>3, <3>1, <3>3 DEF Reading, Unread
  <2>6. HSound(h')
    BY <2>2, <2>5 DEF HSound, Settling
  <2>7. Borne(h', proc)
    BY <1>6, <2>2, SteadyIsCalm, CalmBorne
  <2>8. Hermes!Settled(r) => Hermes!Settled(h')
    BY <2>2 DEF Hermes!Settled
  <2>9. Followed(h', proc)
    BY <1>6, <2>3, <2>8, FollowedOn
  <2> QED
    BY <1>1, <1>3, <2>2, <2>3, <2>4, <2>6, <2>7, <2>9, HInvNext DEF HInv
<1> QED
  BY <1>7, <1>8

LEMMA HermesWriteKeeps ==
  ASSUME HInv, NEW line \in Hermes!Lines, Hermes!Write(line)
  PROVE  HInv'
<1>1. /\ platform' = platform /\ h' = h /\ HSound(h) /\ Piped(proc)
      /\ Followed(h, proc) /\ Borne(h, proc) /\ proc \in HermesProcesses
      /\ proc.main = "alive" /\ proc.stdout = "open" /\ Len(proc.wrote) < MaxLines
      /\ proc' = [proc EXCEPT !.pipe = Append(@, line), !.wrote = Append(@, line)]
  BY DEF HInv, Piped, Hermes!Write
<1>2. proc.pipe \in Seq(Hermes!Lines \cup {"part"}) /\ proc.wrote \in Seq(Hermes!Lines \cup {"part"})
  BY <1>1 DEF HermesProcesses
<1>3. /\ Append(proc.pipe, line) \in Seq(Hermes!Lines \cup {"part"})
      /\ Append(proc.wrote, line) \in Seq(Hermes!Lines \cup {"part"})
  BY <1>2
<1>4. /\ proc' \in HermesProcesses /\ proc'.pipe = Append(proc.pipe, line)
      /\ proc'.wrote = Append(proc.wrote, line)
      /\ proc'.main = proc.main /\ proc'.stdout = proc.stdout
  BY <1>1, <1>3 DEF HermesProcesses
<1>5. /\ Piped(proc') /\ Len(proc'.wrote) = Len(proc.wrote) + 1 /\ Borne(h, proc')
  <2>1. Piped(proc) /\ Borne(h, proc) /\ line \in Hermes!Lines \cup {"part"}
    BY <1>1
  <2> QED
    BY <1>4, <2>1, WrittenIsPiped
<1>6. Len(proc.wrote) \in Nat /\ MaxLines \in Nat
  BY <1>2, BoundsAssumption
<1>7. Len(proc'.wrote) <= MaxLines
  BY <1>1, <1>5, <1>6
<1>8. ~h.ended
  BY <1>1 DEF Followed
<1>9. Followed(h, proc')
  <2>1. Len(proc'.wrote) <= MaxLines + 1
    BY <1>5, <1>6, <1>7
  <2> QED
    BY <1>1, <1>4, <1>7, <1>8, <2>1 DEF Followed, Hermes!None
<1> QED
  BY <1>1, <1>5, <1>9, HInvNext DEF HInv

LEMMA HermesOutsideKeeps ==
  ASSUME HInv, Hermes!CloseStdout \/ Hermes!Fork
  PROVE  HInv'
<1>1. /\ platform' = platform /\ h' = h /\ HSound(h) /\ Piped(proc) /\ Followed(h, proc)
      /\ Borne(h, proc) /\ proc \in HermesProcesses /\ proc.main = "alive" /\ proc.stdout = "open"
      /\ \/ proc' = [proc EXCEPT !.stdout = "closed"]
         \/ proc' = [proc EXCEPT !.holder = TRUE]
  BY DEF HInv, Piped, Hermes!CloseStdout, Hermes!Fork
<1>2. /\ proc' \in HermesProcesses /\ proc'.pipe = proc.pipe /\ proc'.wrote = proc.wrote
      /\ proc'.main = proc.main
  BY <1>1 DEF HermesProcesses
<1>3. ~h.ended
  BY <1>1 DEF Followed
<1>4. Piped(proc')
  BY <1>1, <1>2 DEF Piped
<1>5. Followed(h, proc')
  BY <1>1, <1>2, <1>3 DEF Followed
<1>6. Borne(h, proc')
  <2>1. Borne(h, proc)
    BY <1>1
  <2> QED
    BY <1>2, <2>1 DEF Borne
<1> QED
  BY <1>1, <1>4, <1>5, <1>6, HInvNext DEF HInv

(* The process exits, perhaps in the middle of a line.                     *)
LEMMA HermesExitKeeps ==
  ASSUME HInv, NEW code \in {"zero", "nonzero", "signal"}, NEW cut \in BOOLEAN,
         Hermes!Exit(code, cut)
  PROVE  HInv'
<1> DEFINE u == Hermes!HandleExit(h, code)
           q == [proc EXCEPT !.pipe = IF cut THEN Append(@, "part") ELSE @,
                             !.wrote = IF cut THEN Append(@, "part") ELSE @]
<1>1. /\ platform' = platform /\ h' = Hermes!Iterate(u) /\ HSound(h) /\ Piped(proc)
      /\ Followed(h, proc) /\ Borne(h, proc) /\ proc \in HermesProcesses
      /\ proc.main = "alive" /\ (cut => proc.stdout = "open")
      /\ proc' = [proc EXCEPT !.main = "exited",
                              !.pipe = IF cut THEN Append(@, "part") ELSE @,
                              !.wrote = IF cut THEN Append(@, "part") ELSE @]
  BY DEF HInv, Piped, Hermes!Exit
<1>2. h.pid /\ h.exit = Hermes!None /\ (h.ended => ~cut) /\ Len(proc.wrote) <= MaxLines
  <2>1. "alive" # "exited" /\ "alive" # Hermes!None /\ "open" # "closed"
    BY DEF Hermes!None
  <2> QED
    BY <1>1, <2>1 DEF Followed
<1>3. /\ HSound(u) /\ Calm(h, u) /\ u.reader = h.reader /\ u.ended = h.ended
      /\ IF Hermes!Settled(h) THEN u = h ELSE u.exit = code
  BY <1>1, <1>2, HandledExitKeeps
<1> HIDE DEF u
<1>4. proc.pipe \in Seq(Hermes!Lines \cup {"part"}) /\ proc.wrote \in Seq(Hermes!Lines \cup {"part"})
  BY <1>1 DEF HermesProcesses
<1>5. /\ Append(proc.pipe, "part") \in Seq(Hermes!Lines \cup {"part"})
      /\ Append(proc.wrote, "part") \in Seq(Hermes!Lines \cup {"part"})
  BY <1>4
<1>6. Len(proc.wrote) \in Nat /\ MaxLines \in Nat
  BY <1>4, BoundsAssumption
<1>7. /\ Piped(proc') /\ Borne(h, proc') /\ proc'.main = "exited" /\ proc'.stdout = proc.stdout
      /\ Len(proc'.wrote) <= MaxLines + 1 /\ (h.ended => proc'.pipe = proc.pipe)
  <2>1. CASE cut
    <3>1. /\ proc' \in HermesProcesses /\ proc'.pipe = Append(proc.pipe, "part")
          /\ proc'.wrote = Append(proc.wrote, "part")
          /\ proc'.main = "exited" /\ proc'.stdout = proc.stdout
      BY <1>1, <1>5, <2>1 DEF HermesProcesses
    <3>2. Piped(proc') /\ Len(proc'.wrote) = Len(proc.wrote) + 1 /\ Borne(h, proc')
      <4>1. Piped(proc) /\ Borne(h, proc) /\ "part" \in Hermes!Lines \cup {"part"}
        BY <1>1
      <4> QED
        BY <3>1, <4>1, WrittenIsPiped
    <3>3. Len(proc'.wrote) <= MaxLines + 1
      BY <1>2, <1>6, <3>2
    <3> QED
      BY <1>2, <2>1, <3>1, <3>2, <3>3
  <2>2. CASE ~cut
    <3>1. /\ proc' \in HermesProcesses /\ proc'.pipe = proc.pipe /\ proc'.wrote = proc.wrote
          /\ proc'.main = "exited" /\ proc'.stdout = proc.stdout
      BY <1>1, <2>2 DEF HermesProcesses
    <3>2. Piped(proc') /\ Borne(h, proc')
      BY <1>1, <3>1 DEF Piped, Borne
    <3>3. Len(proc'.wrote) <= MaxLines + 1
      BY <1>2, <1>6, <3>1
    <3> QED
      BY <3>1, <3>2, <3>3
  <2> QED
    BY <2>1, <2>2
<1>8. Borne(u, proc')
  BY <1>3, <1>7, CalmBorne
<1>9. Followed(u, proc')
  <2>1. u.pid = h.pid /\ (u.exit # Hermes!None \/ Hermes!Settled(u))
    BY <1>2, <1>3 DEF Calm, Hermes!None
  <2>2. u.ended => proc'.pipe = <<>>
    BY <1>1, <1>3, <1>7 DEF Followed
  <2> QED
    BY <1>2, <1>7, <2>1, <2>2 DEF Followed, Hermes!None
<1> QED
  BY <1>1, <1>3, <1>7, <1>8, <1>9, ReactionKeeps

(* The errors of the process and of its stdin, and the timers of the run   *)
(* and of the forced end.                                                  *)
LEMMA HermesFailuresKeep ==
  ASSUME HInv,
         Hermes!SpawnError \/ Hermes!StdinError \/ Hermes!RunExpires \/ Hermes!ForceExpires
  PROVE  HInv'
<1>1. HSound(h) /\ Settling(h) /\ h \in Hermes!Transport
  BY DEF HInv, HSound, Settling
<1>2. ASSUME ~Hermes!Settled(h), h.reader # "idle",
             h.exit # Hermes!None \/ ~h.pid \/ "KILL" \in h.sent,
             h' = Hermes!Iterate(Hermes!FailImmediately(h)), UNCHANGED <<platform, proc>>
      PROVE  HInv'
  <2> DEFINE u == Hermes!FailImmediately(h)
  <2>1. HSound(u) /\ Steady(h, u)
    BY <1>1, <1>2, FailKeepsAtOnce
  <2> HIDE DEF u
  <2>2. h' = Hermes!Iterate(u)
    BY <1>2 DEF u
  <2> QED
    BY <1>2, <2>1, <2>2, SteadyReaction
<1>3. ASSUME NEW t, HSound(t), Steady(h, t), ~Hermes!Settled(t), t.reader # "idle",
             h' = Hermes!Iterate(Hermes!BeginFailure(t)), UNCHANGED <<platform, proc>>
      PROVE  HInv'
  <2> DEFINE u == Hermes!BeginFailure(t)
  <2>1. HSound(u) /\ Steady(t, u)
    BY <1>3, FailureKeeps DEF HSound
  <2> HIDE DEF u
  <2>2. h' = Hermes!Iterate(u) /\ Steady(h, u)
    BY <1>3, <2>1, SteadyOn DEF u
  <2> QED
    BY <1>3, <2>1, <2>2, SteadyReaction
<1>4. Steady(h, h)
  BY DEF Steady
<1>5. h.reader = "idle" => ~h.started /\ h.timers = {}
  BY <1>1 DEF Settling, Unread
<1>6. CASE Hermes!SpawnError
  BY <1>2, <1>5, <1>6 DEF Hermes!SpawnError
<1>7. CASE Hermes!StdinError
  BY <1>1, <1>3, <1>4, <1>5, <1>7 DEF Hermes!StdinError
<1>8. CASE Hermes!RunExpires
  <2> DEFINE t == Hermes!Clear(h, {"run"})
  <2>1. "run" \in h.timers /\ h' = Hermes!Iterate(Hermes!BeginFailure(t))
        /\ UNCHANGED <<platform, proc>>
    BY <1>8 DEF Hermes!RunExpires
  <2>2. ~Hermes!Settled(h) /\ h.reader # "idle"
    BY <1>1, <1>5, <2>1 DEF Settling, Signalling
  <2>3. HSound(t) /\ Steady(h, t) /\ ~Hermes!Settled(t)
    BY <1>1, <2>2, ClearedKeeps
  <2> HIDE DEF t
  <2>4. t.reader # "idle"
    BY <2>2, <2>3 DEF Steady
  <2> QED
    BY <1>3, <2>1, <2>3, <2>4
<1>9. CASE Hermes!ForceExpires
  <2>1. "force" \in h.timers /\ UNCHANGED <<platform, proc>>
        /\ h' = Hermes!Iterate(Hermes!SettleFailure([h EXCEPT !.failure = TRUE]))
    BY <1>9 DEF Hermes!ForceExpires
  <2>2. ~Hermes!Settled(h) /\ h.reader # "idle" /\ (~h.pid \/ "KILL" \in h.sent)
    BY <1>1, <1>5, <2>1 DEF Settling, Signalling
  <2>3. h' = Hermes!Iterate(Hermes!FailImmediately(h))
    BY <2>1 DEF Hermes!FailImmediately
  <2> QED
    BY <1>2, <2>1, <2>2, <2>3
<1> QED
  BY <1>6, <1>7, <1>8, <1>9

(* Lines arrive.                                                           *)
LEMMA HermesDataKeeps ==
  ASSUME HInv, NEW n, Hermes!StdoutData(n)
  PROVE  HInv'
<1> DEFINE lines == SubSeq(proc.pipe, 1, n)
           left == SubSeq(proc.pipe, n + 1, Len(proc.pipe))
<1>1. /\ platform' = platform /\ HSound(h) /\ Piped(proc) /\ Followed(h, proc)
      /\ Borne(h, proc) /\ proc \in HermesProcesses /\ (h.reader = "reading" => ~h.closed)
      /\ h.started /\ ~Hermes!Settled(h) /\ n \in 1..Len(proc.pipe)
      /\ h' = Hermes!OnStdoutData(h, lines)
      /\ proc' = [proc EXCEPT !.pipe = left]
  BY DEF HInv, Piped, Hermes!StdoutData
<1>2. proc.pipe \in Seq(Hermes!Lines \cup {"part"})
  BY <1>1 DEF HermesProcesses
<1>3. /\ lines \in Seq(Hermes!Lines \cup {"part"}) /\ left \in Seq(Hermes!Lines \cup {"part"})
      /\ Len(lines) = n
  BY <1>1, <1>2, Split
<1>4. Len(lines) >= 1 /\ proc.pipe # <<>>
  BY <1>1, <1>2, <1>3
<1>5. ~h.ended /\ h.reader # "idle"
  BY <1>1, <1>4 DEF Followed, HSound, Settling, Unread
<1>6. /\ proc' \in HermesProcesses /\ proc'.pipe = left /\ proc'.wrote = proc.wrote
      /\ proc'.main = proc.main /\ proc'.stdout = proc.stdout
  <2> HIDE DEF left, lines
  <2> QED
    BY <1>1, <1>3 DEF HermesProcesses
<1>7. /\ HSound(h') /\ Believed(h, h', lines)
      /\ h'.reader = "reading" => ~h'.closed
      /\ h'.pid = h.pid /\ h'.exit = h.exit /\ h'.ended = h.ended
  <2> HIDE DEF left, lines
  <2> QED
    BY <1>1, <1>3, <1>4, <1>5, ChunkIsHandled
<1>8. Piped(proc') /\ Borne(h', proc')
  <2>1. Piped(proc) /\ Borne(h, proc) /\ n \in 1..Len(proc.pipe)
    BY <1>1
  <2> QED
    BY <1>6, <1>7, <2>1, ReadIsPiped
<1>9. Followed(h', proc')
  <2> HIDE DEF left, lines
  <2> QED
    BY <1>1, <1>4, <1>5, <1>6, <1>7 DEF Followed
<1> QED
  BY <1>1, <1>7, <1>8, <1>9, HInvNext DEF HInv

(* The output has ended, or is no longer waited for.                       *)
LEMMA HermesEndsKeep ==
  ASSUME HInv, Hermes!StdoutEnd \/ Hermes!DrainExpires
  PROVE  HInv'
<1> DEFINE u == Hermes!Finish(h)
<1>1. /\ platform' = platform /\ proc' = proc /\ HSound(h) /\ Piped(proc)
      /\ Followed(h, proc) /\ Borne(h, proc) /\ proc.pipe = <<>> /\ h' = Hermes!Iterate(u)
  BY DEF HInv, Hermes!StdoutEnd, Hermes!DrainExpires
<1>2. ~Hermes!Settled(h) /\ h.reader # "idle"
      /\ (proc.main = "exited" \/ proc.stdout = "closed")
  <2>1. CASE Hermes!StdoutEnd
    BY <1>1, <2>1 DEF Hermes!StdoutEnd, HSound, Settling, Unread
  <2>2. CASE Hermes!DrainExpires
    <3>1. "drain" \in h.timers
      BY <2>2 DEF Hermes!DrainExpires
    <3>2. h.exit # Hermes!None /\ ~Hermes!Settled(h) /\ h.reader # "idle"
      BY <1>1, <3>1 DEF HSound, Settling, Signalling, Unread
    <3> QED
      BY <1>1, <3>2 DEF Followed
  <2> QED
    BY <2>1, <2>2
<1>3. /\ HSound(u) /\ Calm(h, u)
      /\ u.reader = h.reader /\ u.exit = h.exit /\ u.ended /\ u.outcome = h.outcome
  BY <1>1, <1>2, FinishedKeeps
<1> HIDE DEF u
<1>4. Borne(u, proc')
  BY <1>1, <1>3, CalmBorne
<1>5. Followed(u, proc')
  BY <1>1, <1>2, <1>3 DEF Followed, Calm
<1> QED
  BY <1>1, <1>3, <1>4, <1>5, ReactionKeeps

LEMMA HermesCleanupKeeps ==
  ASSUME HInv, Hermes!CleanupExpires
  PROVE  HInv'
<1>1. /\ UNCHANGED <<platform, proc>> /\ HSound(h) /\ Piped(proc)
      /\ Followed(h, proc) /\ Borne(h, proc) /\ (h.reader = "reading" => ~h.closed)
      /\ \/ /\ "cleanup" \in h.timers
            /\ h' = Hermes!ForceTerminate(Hermes!Clear(h, {"cleanup"}))
         \/ h.stray /\ h' = Hermes!ForceTerminate([h EXCEPT !.stray = FALSE])
  BY DEF HInv, Hermes!CleanupExpires
<1>2. /\ HSound(h') /\ Calm(h, h') /\ h'.reader = h.reader /\ h'.closed = h.closed
      /\ h'.exit = h.exit /\ h'.ended = h.ended /\ h'.settled = h.settled
  BY <1>1, ForcedKeeps
<1>3. h'.pid = h.pid /\ (Hermes!Settled(h) => Hermes!Settled(h'))
  BY <1>2 DEF Calm, Hermes!Settled
<1>4. Borne(h', proc) /\ Followed(h', proc)
  BY <1>1, <1>2, <1>3, CalmBorne, FollowedOn
<1> QED
  BY <1>1, <1>2, <1>4, HInvNext DEF HInv

LEMMA HermesKeeps ==
  ASSUME HInv, Hermes!Next
  PROVE  HInv'
<1>1. CASE Hermes!Start
  BY <1>1, HermesStartKeeps
<1>2. CASE Hermes!Cancel
  BY <1>2, HermesCancelKeeps
<1>3. CASE \E line \in Hermes!Lines : Hermes!Write(line)
  BY <1>3, HermesWriteKeeps
<1>4. CASE Hermes!CloseStdout \/ Hermes!Fork
  BY <1>4, HermesOutsideKeeps
<1>5. CASE \E code \in {"zero", "nonzero", "signal"}, cut \in BOOLEAN : Hermes!Exit(code, cut)
  BY <1>5, HermesExitKeeps
<1>6. CASE Hermes!SpawnError \/ Hermes!StdinError \/ Hermes!RunExpires \/ Hermes!ForceExpires
  BY <1>6, HermesFailuresKeep
<1>7. CASE \E n \in 1..MaxLines + 1 : Hermes!StdoutData(n)
  BY <1>7, HermesDataKeeps
<1>8. CASE Hermes!StdoutEnd \/ Hermes!DrainExpires
  BY <1>8, HermesEndsKeep
<1>9. CASE Hermes!CleanupExpires
  BY <1>9, HermesCleanupKeeps
<1>10. CASE Hermes!Stopped /\ \E cut \in BOOLEAN : Hermes!Exit("signal", cut)
  BY <1>10, HermesExitKeeps
<1> QED
  BY <1>1, <1>2, <1>3, <1>4, <1>5, <1>6, <1>7, <1>8, <1>9, <1>10
  DEF Hermes!Next, Hermes!Turn

(* What the reader of a Hermes run is told follows.                        *)
LEMMA HInvTells ==
  ASSUME HInv
  PROVE  Hermes!HermesInv
<1>1. /\ platform \in {"posix", "win32"} /\ h \in Hermes!Transport /\ proc \in HermesProcesses
      /\ Answered(h) /\ Faulted(h) /\ Piped(proc) /\ Followed(h, proc) /\ Borne(h, proc)
  BY DEF HInv, HSound, Settling, Piped
<1>2. Hermes!TypeOK
  BY <1>1 DEF Hermes!TypeOK, HermesProcesses, Followed
<1>3. Hermes!CompletedIsBorneOut
  <2>1. SUFFICES ASSUME h.outcome = "completed"
                 PROVE  /\ h.exit = "zero"
                        /\ proc.wrote # <<>> /\ proc.wrote[Len(proc.wrote)] = "completed"
                        /\ \A i \in 1..Len(proc.wrote) - 1 : proc.wrote[i] = "text"
    BY DEF Hermes!CompletedIsBorneOut
  <2>2. h.settled = "resolved" /\ h.terminal = "completed"
    BY <1>1, <2>1 DEF Answered
  <2>3. h.ended /\ Hermes!ValidExit(h) /\ Hermes!Complete(h) /\ ~h.failure
    BY <1>1, <2>2 DEF Faulted
  <2>4. h.exit = "zero" /\ ~h.error /\ ~h.partial /\ h.terminal # Hermes!None
    BY <2>2, <2>3 DEF Hermes!ValidExit, Hermes!Complete
  <2>5. Len(proc.pipe) = 0 /\ Len(proc.wrote) \in Nat
    BY <1>1, <2>3 DEF Followed, HermesProcesses
  <2>6. Len(proc.wrote) - Len(proc.pipe) = Len(proc.wrote)
    BY <2>5
  <2>7. /\ Len(proc.wrote) >= 1 /\ proc.wrote[Len(proc.wrote)] = "completed"
        /\ \A i \in 1..(Len(proc.wrote) - 1) : proc.wrote[i] = "text"
    BY <1>1, <2>1, <2>2, <2>3, <2>4, <2>6 DEF Borne
  <2>8. proc.wrote # <<>>
    BY <2>7
  <2> QED
    BY <2>4, <2>7, <2>8
<1>4. Hermes!AnsweredMeansStopped
  <2>1. h.outcome # Hermes!None => \/ h.exit # Hermes!None \/ ~h.pid \/ "KILL" \in h.sent
                                   \/ h.outcome = "cancelled" /\ h.told
    BY <1>1 DEF Answered
  <2>2. (h.pid <=> proc.main # Hermes!None) /\ (h.exit # Hermes!None => proc.main = "exited")
    BY <1>1 DEF Followed
  <2> QED
    BY <2>1, <2>2 DEF Hermes!AnsweredMeansStopped, Hermes!None
<1>5. Hermes!CancelledWasAsked
  BY <1>1 DEF Answered, Hermes!CancelledWasAsked
<1> QED
  BY <1>2, <1>3, <1>4, <1>5 DEF Hermes!HermesInv

(* The reader sends nothing.                                               *)
LEMMA IterateSends ==
  ASSUME NEW t, t \in Hermes!Transport
  PROVE  Hermes!Iterate(t).sent = t.sent
<1> DEFINE r == IF t.reader = "reading" /\ t.closed THEN [t EXCEPT !.reader = "awaiting"] ELSE t
<1>1. r \in Hermes!Transport /\ r.sent = t.sent
  BY DEF Hermes!Transport
<1>2. Hermes!Iterate(t) = Hermes!AwaitCompletion(r)
  BY DEF Hermes!Iterate
<1> HIDE DEF r
<1>3. \A outcome : Hermes!Answer(r, outcome).sent = r.sent
  BY <1>1 DEF Hermes!Answer, Hermes!Transport
<1>4. CASE ~Hermes!Settled(r)
  BY <1>1, <1>2, <1>4 DEF Hermes!AwaitCompletion
<1>5. CASE Hermes!Settled(r) /\ r.reader = "invalid"
  BY <1>1, <1>2, <1>3, <1>5 DEF Hermes!AwaitCompletion
<1>6. CASE Hermes!Settled(r) /\ r.reader = "awaiting"
  BY <1>1, <1>2, <1>3, <1>6 DEF Hermes!AwaitCompletion
<1>7. CASE Hermes!Settled(r) /\ r.reader \notin {"invalid", "awaiting"}
  BY <1>1, <1>2, <1>7 DEF Hermes!AwaitCompletion
<1> QED
  BY <1>4, <1>5, <1>6, <1>7

(* A settled transport has one timer left, if any, to signal with.         *)
LEMMA SettledIsSilent ==
  ASSUME HInv, Hermes!Next, Hermes!Settled(h), h'.sent # h.sent
  PROVE  h.stray /\ h.failure /\ h.asked
<1>1. /\ h \in Hermes!Transport /\ h.reader # "idle" /\ h.timers = {}
      /\ (h.stray => h.failure /\ h.asked)
  BY DEF HInv, HSound, Settling, Unread, Signalling
<1>2. ~Hermes!Start
  BY <1>1 DEF Hermes!Start
<1>3. ~Hermes!Cancel
  <2> DEFINE r == [h EXCEPT !.requested = TRUE]
  <2>1. SUFFICES ASSUME Hermes!Cancel PROVE FALSE
    OBVIOUS
  <2>2. h' = Hermes!CancelTransport(r)
    BY <1>1, <2>1 DEF Hermes!Cancel
  <2>3. r.settled = h.settled /\ r.sent = h.sent
    BY <1>1 DEF Hermes!Transport
  <2> HIDE DEF r
  <2>4. h' = r
    BY <2>2, <2>3 DEF Hermes!CancelTransport, Hermes!Settled
  <2> QED
    BY <2>3, <2>4
<1>4. ~Hermes!CloseStdout /\ ~Hermes!Fork /\ \A line : ~Hermes!Write(line)
  BY DEF Hermes!CloseStdout, Hermes!Fork, Hermes!Write
<1>5. \A code, cut : ~Hermes!Exit(code, cut)
  <2>1. SUFFICES ASSUME NEW code, NEW cut, Hermes!Exit(code, cut) PROVE FALSE
    OBVIOUS
  <2>2. h' = Hermes!Iterate(h)
    BY <2>1 DEF Hermes!Exit, Hermes!HandleExit
  <2> QED
    BY <1>1, <2>2, IterateSends
<1>6. ~Hermes!SpawnError /\ ~Hermes!StdinError /\ ~Hermes!StdoutEnd
      /\ \A n : ~Hermes!StdoutData(n)
  BY DEF Hermes!SpawnError, Hermes!StdinError, Hermes!StdoutEnd, Hermes!StdoutData
<1>7. ~Hermes!RunExpires /\ ~Hermes!DrainExpires /\ ~Hermes!ForceExpires
  BY <1>1 DEF Hermes!RunExpires, Hermes!DrainExpires, Hermes!ForceExpires
<1>8. Hermes!CleanupExpires
  BY <1>2, <1>3, <1>4, <1>5, <1>6, <1>7 DEF Hermes!Next, Hermes!Turn
<1>9. h.stray
  BY <1>1, <1>8 DEF Hermes!CleanupExpires
<1> QED
  BY <1>1, <1>9

-----------------------------------------------------------------------------
(* An early cancellation.                                                  *)

RestRun ==
  [phase |-> "idle", pid |-> FALSE, aborted |-> FALSE, requested |-> FALSE,
   terminating |-> FALSE, terminal |-> None, cause |-> None, out |-> <<>>,
   closed |-> FALSE, malformed |-> 0, partial |-> FALSE, timers |-> {},
   stray |-> FALSE, sent |-> {}, exit |-> None, ended |-> FALSE, clean |-> FALSE]

RestOs ==
  [main |-> None, stdout |-> "open", child |-> None, forked |-> FALSE,
   pipe |-> <<>>, wrote |-> 0, result |-> FALSE]

RestH ==
  [reader |-> "idle", outcome |-> None, requested |-> FALSE, seen |-> FALSE,
   started |-> FALSE, pid |-> FALSE, asked |-> FALSE, told |-> FALSE,
   failure |-> FALSE, exit |-> None, ended |-> FALSE, settled |-> None,
   closed |-> FALSE, terminal |-> None, error |-> FALSE, partial |-> FALSE,
   timers |-> {}, stray |-> FALSE, sent |-> {}]

RestProc ==
  [main |-> None, stdout |-> "open", holder |-> FALSE, pipe |-> <<>>,
   wrote |-> <<>>]

RecordedRun == [RestRun EXCEPT !.aborted = TRUE]

(* The fields of an answered run that keep every action from it.           *)
AnsweredRun(r) ==
  /\ r.phase = "unspawned" /\ r.aborted /\ ~r.pid
  /\ r.timers = {} /\ ~r.stray

RecordedH == [RestH EXCEPT !.requested = TRUE]
AnsweredH == [RecordedH EXCEPT !.reader = "done", !.outcome = "cancelled"]

CliRests == ~CliRuns => run = RestRun /\ os = RestOs
HermesRests == ~HermesRuns => h = RestH /\ proc = RestProc
CliStaysQuiet ==
  CliRuns /\ early => os = RestOs /\ (run = RecordedRun \/ AnsweredRun(run))
HermesStaysQuiet ==
  HermesRuns /\ early => proc = RestProc /\ h \in {RecordedH, AnsweredH}

EarlyInv ==
  /\ early \in BOOLEAN
  /\ CliRests
  /\ HermesRests
  /\ CliStaysQuiet
  /\ HermesStaysQuiet

(* A recorded cancellation is answered without a process.                  *)
LEMMA RecordedRunIsAnswered ==
  AnsweredRun(FinishCancelled([RecordedRun EXCEPT !.phase = "unspawned"]))
BY DEF AnsweredRun, FinishCancelled, Cleanup, Finish, Push, Terminated,
       RecordedRun, RestRun, None, Outcomes

(* From a recorded cancellation only the reader's first pull leads on.     *)
LEMMA QuietCliStep ==
  ASSUME os = RestOs, run = RecordedRun \/ AnsweredRun(run), Next
  PROVE  os' = RestOs /\ (run' = RecordedRun \/ AnsweredRun(run'))
<1>1. /\ os.main = None /\ os.pipe = <<>> /\ os.child = None
      /\ ~run.pid /\ run.aborted /\ run.timers = {} /\ ~run.stray
      /\ run.phase \in {"idle", "unspawned"}
      /\ run.phase = "idle" => run = RecordedRun
  BY DEF RestOs, RecordedRun, RestRun, AnsweredRun
<1>2. None # "alive" /\ Len(os.pipe) = 0
  BY <1>1 DEF None
<1>3. CASE Start
  <2>1. run = RecordedRun
    BY <1>1, <1>3 DEF Start
  <2>2. run' = FinishCancelled([RecordedRun EXCEPT !.phase = "unspawned"]) /\ os' = os
    BY <1>1, <1>3, <2>1 DEF Start
  <2> QED
    BY <2>2, RecordedRunIsAnswered
<1>4. CASE ~Start
  <2>1. ~Cancel /\ ~GateAnswers /\ ~StdinError /\ ~SpawnError
    BY <1>1 DEF Cancel, GateAnswers, StdinError, SpawnError
  <2>2. \A line : ~Write(line)
    BY <1>1, <1>2 DEF Write
  <2>3. ~CloseStdout /\ (\A kind : ~Fork(kind)) /\ ~StderrData
    BY <1>1, <1>2 DEF CloseStdout, Fork, StderrData
  <2>4. ~ChildDies /\ ~StdoutEnd
    BY <1>1 DEF ChildDies, ChildAlive, StdoutEnd
  <2>5. \A code, cut : ~Exit(code, cut)
    BY <1>1, <1>2 DEF Exit
  <2>6. \A n : ~StdoutData(n)
    BY <1>2 DEF StdoutData
  <2>7. (\A timer : ~TimeOut(timer)) /\ ~DrainExpires /\ ~ForceTerminateProcessTree
    BY <1>1 DEF TimeOut, DrainExpires, ForceTerminateProcessTree
  <2>8. ~Turn
    BY <2>1, <2>4, <2>5, <2>6, <2>7 DEF Turn
  <2> QED
    BY <1>4, <2>1, <2>2, <2>3, <2>4, <2>5, <2>8 DEF Next
<1> QED
  BY <1>3, <1>4

(* The same of a Hermes run.                                               *)
LEMMA QuietHermesStep ==
  ASSUME proc = RestProc, h \in {RecordedH, AnsweredH}, Hermes!Next
  PROVE  proc' = RestProc /\ h' \in {RecordedH, AnsweredH}
<1>1. /\ proc.main = None /\ proc.pipe = <<>>
      /\ ~h.started /\ ~h.pid /\ h.requested /\ h.timers = {} /\ ~h.stray
      /\ h.reader \in {"idle", "done"}
      /\ h.reader = "idle" => h = RecordedH
  <2>1. proc.main = None /\ proc.pipe = <<>>
    BY DEF RestProc
  <2>2. CASE h = RecordedH
    <3>1. ~h.started /\ ~h.pid /\ h.requested /\ h.timers = {} /\ ~h.stray /\ h.reader = "idle"
      BY <2>2 DEF RecordedH, RestH
    <3> QED
      BY <2>1, <2>2, <3>1
  <2>3. CASE h = AnsweredH
    <3>1. ~h.started /\ ~h.pid /\ h.requested /\ h.timers = {} /\ ~h.stray /\ h.reader = "done"
      BY <2>3 DEF AnsweredH, RecordedH, RestH
    <3> QED
      BY <2>1, <3>1
  <2> QED
    BY <2>2, <2>3
<1>2. None # "alive" /\ Len(proc.pipe) = 0
  BY <1>1 DEF None
<1>3. CASE Hermes!Start
  <2>1. h = RecordedH
    BY <1>1, <1>3 DEF Hermes!Start
  <2>2. h' = Hermes!Answer(RecordedH, "cancelled") /\ proc' = proc
    BY <1>1, <1>3, <2>1 DEF Hermes!Start
  <2> QED
    BY <2>2 DEF Hermes!Answer, AnsweredH
<1>4. CASE ~Hermes!Start
  <2>1. ~Hermes!Cancel /\ ~Hermes!StdinError /\ ~Hermes!SpawnError
    BY <1>1 DEF Hermes!Cancel, Hermes!StdinError, Hermes!SpawnError
  <2>2. \A line : ~Hermes!Write(line)
    BY <1>1, <1>2 DEF Hermes!Write
  <2>3. ~Hermes!CloseStdout /\ ~Hermes!Fork
    BY <1>1, <1>2 DEF Hermes!CloseStdout, Hermes!Fork
  <2>4. \A code, cut : ~Hermes!Exit(code, cut)
    BY <1>1, <1>2 DEF Hermes!Exit
  <2>5. ~Hermes!StdoutEnd /\ (\A n : ~Hermes!StdoutData(n))
    BY <1>1 DEF Hermes!StdoutEnd, Hermes!StdoutData
  <2>6. ~Hermes!RunExpires /\ ~Hermes!DrainExpires
    BY <1>1 DEF Hermes!RunExpires, Hermes!DrainExpires
  <2>7. ~Hermes!CleanupExpires /\ ~Hermes!ForceExpires
    BY <1>1 DEF Hermes!CleanupExpires, Hermes!ForceExpires
  <2>8. ~Hermes!Turn
    BY <2>1, <2>4, <2>5, <2>6, <2>7 DEF Hermes!Turn
  <2> QED
    BY <1>4, <2>1, <2>2, <2>3, <2>4, <2>8 DEF Hermes!Next
<1> QED
  BY <1>3, <1>4

LEMMA EarlyInvInit == AdapterInit => EarlyInv
<1> SUFFICES ASSUME AdapterInit PROVE EarlyInv
  OBVIOUS
<1>1. run = RestRun /\ os = RestOs
  BY DEF AdapterInit, Init, RestRun, RestOs
<1>2. h = RestH /\ proc = RestProc
  BY DEF AdapterInit, Hermes!Init, RestH, RestProc, None, Hermes!None
<1>3. early = FALSE
  BY DEF AdapterInit
<1> QED
  BY <1>1, <1>2, <1>3 DEF EarlyInv, CliRests, HermesRests, CliStaysQuiet, HermesStaysQuiet

(* A run is only made of resting machines: an early cancellation is        *)
(* recorded in it.                                                         *)
LEMMA ConstructedIsQuiet ==
  ASSUME run = RestRun, os = RestOs, h = RestH, proc = RestProc,
         early \in BOOLEAN, Construct,
         UNCHANGED <<chosen, early, setup, os, platform, proc>>
  PROVE  CliRests' /\ HermesRests' /\ CliStaysQuiet' /\ HermesStaysQuiet'
<1>1. /\ stage' = "running" /\ chosen' = chosen /\ early' = early
      /\ os' = RestOs /\ proc' = RestProc
  BY DEF Construct
<1>2. CASE chosen = "hermes-router"
  <2>1. run' = RestRun
    BY <1>2 DEF Construct
  <2>2. early => h' = RecordedH
    BY <1>2 DEF Construct, RecordedH
  <2> QED
    BY <1>1, <1>2, <2>1, <2>2
    DEF CliRests, HermesRests, CliStaysQuiet, HermesStaysQuiet, CliRuns, HermesRuns
<1>3. CASE chosen # "hermes-router"
  <2>1. h' = RestH
    BY <1>3 DEF Construct
  <2>2. early => run' = RecordedRun
    BY <1>3 DEF Construct, RecordedRun
  <2> QED
    BY <1>1, <1>3, <2>1, <2>2
    DEF CliRests, HermesRests, CliStaysQuiet, HermesStaysQuiet, CliRuns, HermesRuns
<1> QED
  BY <1>2, <1>3

(* A step of startTask either makes a run or leaves both machines at rest. *)
LEMMA StartTaskIsQuiet ==
  ASSUME EarlyInv, stage # "running",
         UNCHANGED <<chosen, early, setup, os, platform, proc>>,
         \/ Construct
         \/ stage' # "running" /\ UNCHANGED <<run, h>>
  PROVE  EarlyInv'
<1>1. /\ early \in BOOLEAN /\ early' = early
      /\ run = RestRun /\ os = RestOs /\ h = RestH /\ proc = RestProc
  BY DEF EarlyInv, CliRests, HermesRests, CliRuns, HermesRuns
<1>2. CASE Construct
  BY <1>1, <1>2, ConstructedIsQuiet DEF EarlyInv
<1>3. CASE stage' # "running" /\ UNCHANGED <<run, h>>
  <2>1. run' = RestRun /\ os' = RestOs /\ h' = RestH /\ proc' = RestProc
    BY <1>1, <1>3
  <2> QED
    BY <1>1, <1>3, <2>1
    DEF EarlyInv, CliRests, HermesRests, CliStaysQuiet, HermesStaysQuiet, CliRuns, HermesRuns
<1> QED
  BY <1>2, <1>3

LEMMA EarlyInvStep == EarlyInv /\ [AdapterNext]_allVars => EarlyInv'
<1> SUFFICES ASSUME EarlyInv, [AdapterNext]_allVars PROVE EarlyInv'
  OBVIOUS
<1>1. CASE Detected
  <2>1. stage # "running" /\ UNCHANGED <<chosen, early, setup, os, platform, proc>>
    BY <1>1 DEF Detected
  <2>2. CASE chosen = "codex" /\ early
    BY <1>1, <2>1, <2>2, StartTaskIsQuiet DEF Detected, Proceed, RefuseCancelled, Refuse
  <2>3. CASE ~(chosen = "codex" /\ early)
    BY <1>1, <2>1, <2>3, StartTaskIsQuiet DEF Detected, Proceed, RefuseCancelled, Refuse
  <2> QED
    BY <2>2, <2>3
<1>2. CASE Verified
  <2>1. stage # "running" /\ UNCHANGED <<chosen, early, setup, os, platform, proc>>
    BY <1>2 DEF Verified
  <2>2. CASE chosen = "codex" /\ early
    BY <1>2, <2>1, <2>2, StartTaskIsQuiet DEF Verified, Proceed, RefuseCancelled, Refuse
  <2>3. CASE ~(chosen = "codex" /\ early)
    BY <1>2, <2>1, <2>3, StartTaskIsQuiet DEF Verified, Proceed, RefuseCancelled, Refuse
  <2> QED
    BY <2>2, <2>3
<1>3. CASE WorktreeValidated
  <2>1. stage # "running" /\ UNCHANGED <<chosen, early, setup, os, platform, proc>>
    BY <1>3 DEF WorktreeValidated
  <2>2. CASE chosen = "codex" /\ early
    BY <1>3, <2>1, <2>2, StartTaskIsQuiet DEF WorktreeValidated, RefuseCancelled, Refuse
  <2>3. CASE ~(chosen = "codex" /\ early)
    BY <1>3, <2>1, <2>3, StartTaskIsQuiet DEF WorktreeValidated, RefuseCancelled, Refuse
  <2> QED
    BY <2>2, <2>3
<1>4. CASE AbortEarly
  <2>1. stage # "running" /\ stage' = stage /\ chosen' = chosen /\ early' = TRUE
    BY <1>4 DEF AbortEarly
  <2>2. UNCHANGED <<run, os, h, proc>>
    BY <1>4 DEF AbortEarly, cliVars, hermesVars
  <2> QED
    BY <2>1, <2>2
    DEF EarlyInv, CliRests, HermesRests, CliStaysQuiet, HermesStaysQuiet, CliRuns, HermesRuns
<1>5. CASE CliStep
  <2>1. /\ CliRuns /\ Next
        /\ UNCHANGED <<chosen, stage, early, h, proc>>
    BY <1>5 DEF CliStep, taskVars, hermesVars
  <2>2. CliRuns' /\ ~HermesRuns /\ ~HermesRuns'
    BY <2>1 DEF CliRuns, HermesRuns
  <2>3. early => os = RestOs /\ (run = RecordedRun \/ AnsweredRun(run))
    BY <2>1 DEF EarlyInv, CliStaysQuiet
  <2>4. early => os' = RestOs /\ (run' = RecordedRun \/ AnsweredRun(run'))
    BY <2>1, <2>3, QuietCliStep
  <2>5. CliStaysQuiet'
    BY <2>1, <2>4 DEF CliStaysQuiet, AnsweredRun
  <2> QED
    BY <2>1, <2>2, <2>5 DEF EarlyInv, CliRests, HermesRests, HermesStaysQuiet
<1>6. CASE HermesStep
  <2>1. /\ HermesRuns /\ Hermes!Next
        /\ UNCHANGED <<chosen, stage, early, run, os>>
    BY <1>6 DEF HermesStep, taskVars, cliVars
  <2>2. HermesRuns' /\ ~CliRuns /\ ~CliRuns'
    BY <2>1 DEF CliRuns, HermesRuns
  <2>3. early => proc' = RestProc /\ h' \in {RecordedH, AnsweredH}
    BY <2>1, QuietHermesStep DEF EarlyInv, HermesStaysQuiet
  <2> QED
    BY <2>1, <2>2, <2>3 DEF EarlyInv, CliRests, HermesRests, CliStaysQuiet, HermesStaysQuiet
<1>7. CASE UNCHANGED allVars
  <2>1. UNCHANGED <<chosen, stage, early, run, os, h, proc>>
    BY <1>7 DEF allVars, taskVars, cliVars, hermesVars
  <2> QED
    BY <2>1 DEF EarlyInv, CliRests, HermesRests, CliStaysQuiet, HermesStaysQuiet,
                CliRuns, HermesRuns, AnsweredRun
<1> QED
  BY <1>1, <1>2, <1>3, <1>4, <1>5, <1>6, <1>7 DEF AdapterNext

(* No machine that rests, or was cancelled before its start, has a process. *)
LEMMA EarlyInvTells == EarlyInv => NothingStartsAfterEarlyCancel
<1>1. RestOs.main = None /\ RestProc.main = None
  BY DEF RestOs, RestProc
<1>2. CASE CliRuns
  BY <1>1, <1>2 DEF EarlyInv, CliStaysQuiet, HermesRests, NothingStartsAfterEarlyCancel,
                    CliRuns, HermesRuns
<1>3. CASE ~CliRuns
  BY <1>1, <1>3 DEF EarlyInv, CliRests, HermesStaysQuiet, HermesRests,
                    NothingStartsAfterEarlyCancel
<1> QED
  BY <1>2, <1>3

(* A cancellation that arrives while runTask is still detecting, verifying *)
(* or validating starts no agent, whichever adapter it reaches.            *)
THEOREM EarlyCancelStartsNothing == AdapterSpec => []NothingStartsAfterEarlyCancel
BY EarlyInvTells, EarlyInvInit, EarlyInvStep, PTL DEF AdapterSpec

-----------------------------------------------------------------------------
(* The task.                                                               *)

(* Before the first step, and before there is a run.                       *)
LEMMA CliInvInit == AdapterInit => CliInv
<1> SUFFICES ASSUME AdapterInit PROVE CliInv
  OBVIOUS
<1>1. run = RestRun /\ os = RestOs /\ setup \in Setups
  BY DEF AdapterInit, Init, RestRun, RestOs
<1>2. MaxLines \in Nat /\ MaxTolerated \in Nat
  BY BoundsAssumption
<1>3. 0 \in 0..(MaxTolerated + 1) /\ 0 \in 0..MaxLines /\ ~(0 > MaxTolerated)
  BY <1>2
<1>4. <<>> \in Seq(Outcomes \cup {"started", "content"}) /\ <<>> \in Seq(Lines \cup {"part"})
  OBVIOUS
<1>5. RestRun \in Run
  BY <1>3, <1>4 DEF RestRun, Run, Causes
<1>6. RestOs \in Processes
  BY <1>3, <1>4 DEF RestOs, Processes
<1>7. Sound(RestRun)
  <2>1. ToldOnce(RestRun)
    BY DEF RestRun, ToldOnce, Terminated
  <2>2. Placed(RestRun) /\ Armed(RestRun)
    BY DEF RestRun, Placed, Armed, Terminated
  <2>3. Judged(RestRun)
    BY DEF RestRun, Judged, Exits, None
  <2> QED
    BY <1>5, <2>1, <2>2, <2>3 DEF Sound
<1>8. Tolerant(RestRun)
  BY <1>3 DEF RestRun, Tolerant
<1>9. Matched(RestRun, RestOs)
  BY <1>6 DEF RestRun, RestOs, Matched, None
<1> QED
  BY <1>1, <1>7, <1>8, <1>9 DEF CliInv

LEMMA HInvInit == AdapterInit => HInv
<1> SUFFICES ASSUME AdapterInit PROVE HInv
  OBVIOUS
<1>1. h = RestH /\ proc = RestProc /\ platform \in {"posix", "win32"}
  BY DEF AdapterInit, Hermes!Init, RestH, RestProc, None, Hermes!None
<1>2. MaxLines \in Nat
  BY BoundsAssumption
<1>3. RestH \in Hermes!Transport
  BY DEF RestH, Hermes!Transport, None, Hermes!None
<1>4. RestProc \in HermesProcesses
  BY DEF RestProc, HermesProcesses, None, Hermes!None
<1>5. Unread(RestH) /\ Closing(RestH) /\ Signalling(RestH)
  BY DEF RestH, Unread, Closing, Signalling, None, Hermes!None, Hermes!Settled
<1>6. Answered(RestH) /\ Reading(RestH) /\ Faulted(RestH)
  BY DEF RestH, Answered, Reading, Faulted, None, Hermes!None
<1>7. HSound(RestH)
  BY <1>3, <1>5, <1>6 DEF HSound, Settling
<1>8. RestProc.pipe = <<>> /\ RestProc.wrote = <<>> /\ RestProc.main = None
  BY DEF RestProc
<1>9. Len(<<>>) = 0
  OBVIOUS
<1>10. Piped(RestProc)
  BY <1>4, <1>8, <1>9 DEF Piped
<1>11. Followed(RestH, RestProc)
  <2>1. Len(RestProc.wrote) <= MaxLines + 1 /\ Len(RestProc.wrote) <= MaxLines
    BY <1>2, <1>8, <1>9
  <2>2. ~RestH.pid /\ RestH.exit = None /\ ~RestH.ended
    BY DEF RestH
  <2> QED
    BY <1>8, <2>1, <2>2 DEF Followed, None, Hermes!None
<1>12. Borne(RestH, RestProc)
  <2>1. RestH.terminal = None
    BY DEF RestH
  <2>2. Len(RestProc.wrote) - Len(RestProc.pipe) = 0
    BY <1>8, <1>9
  <2> QED
    BY <2>1, <2>2 DEF Borne, None, Hermes!None
<1>13. RestH.reader # "reading"
  BY DEF RestH
<1> QED
  BY <1>1, <1>7, <1>10, <1>11, <1>12, <1>13 DEF HInv

(* The cancellation that came first is recorded in the run.                *)
LEMMA RecordingKeeps ==
  ASSUME CliInv, early \in BOOLEAN, setup' = setup, os' = os,
         run' = [run EXCEPT !.aborted = early]
  PROVE  CliInv'
<1>1. run \in Run /\ setup \in Setups
  BY DEF CliInv, Sound
<1>2. /\ run' \in Run
      /\ run'.closed = run.closed /\ run'.out = run.out /\ run'.terminal = run.terminal
      /\ run'.cause = run.cause /\ run'.phase = run.phase /\ run'.pid = run.pid
      /\ run'.exit = run.exit /\ run'.ended = run.ended /\ run'.clean = run.clean
      /\ run'.timers = run.timers /\ run'.stray = run.stray
      /\ run'.terminating = run.terminating /\ run'.malformed = run.malformed
  BY <1>1 DEF Run
<1>3. Sound(run') /\ Kept(run, run')
  BY <1>2, ElsewhereKeeps DEF CliInv
<1>4. Tolerant(run')
  BY <1>2 DEF CliInv, Tolerant, Terminated
<1> QED
  BY <1>1, <1>3, <1>4, KeptMatches, SoundNext DEF CliInv

LEMMA HermesRecordingKeeps ==
  ASSUME HInv, h.reader = "idle", early \in BOOLEAN, UNCHANGED <<platform, proc>>,
         h' = [h EXCEPT !.requested = early]
  PROVE  HInv'
<1>1. h \in Hermes!Transport /\ HSound(h)
  BY DEF HInv, HSound, Settling
<1>2. h' \in Hermes!Transport
  BY <1>1 DEF Hermes!Transport
<1>3. /\ h'.settled = h.settled /\ h'.closed = h.closed /\ h'.timers = h.timers
      /\ h'.reader = h.reader /\ h'.outcome = h.outcome
      /\ h'.seen = h.seen /\ h'.started = h.started /\ h'.pid = h.pid /\ h'.asked = h.asked
      /\ h'.failure = h.failure /\ h'.exit = h.exit /\ h'.ended = h.ended
      /\ h'.told = h.told /\ h'.stray = h.stray /\ h'.sent = h.sent /\ h'.terminal = h.terminal
      /\ h'.error = h.error /\ h'.partial = h.partial
  BY <1>1 DEF Hermes!Transport
<1>4. Unread(h') /\ Closing(h') /\ Signalling(h')
  BY <1>1, <1>3 DEF HSound, Settling, Unread, Closing, Signalling, Hermes!Settled
<1>5. h.outcome = Hermes!None
  BY <1>1 DEF HSound, Settling, Unread
<1>6. Answered(h') /\ Faulted(h')
  BY <1>1, <1>3, <1>5
  DEF HSound, Settling, Answered, Faulted, Hermes!Complete, Hermes!ValidExit, Hermes!None
<1>7. Reading(h')
  BY <1>3 DEF Reading
<1>8. HSound(h')
  BY <1>2, <1>4, <1>6, <1>7 DEF HSound, Settling
<1>9. Calm(h, h') /\ (Hermes!Settled(h) => Hermes!Settled(h'))
  BY <1>3 DEF Calm, Hermes!Settled
<1>10. Borne(h', proc) /\ Followed(h', proc)
  BY <1>3, <1>9, CalmBorne, FollowedOn DEF HInv
<1> QED
  BY <1>3, <1>8, <1>10, HInvNext DEF HInv

LEMMA CliInvStays ==
  ASSUME CliInv, UNCHANGED cliVars
  PROVE  CliInv'
<1>1. Matched(run, os')
  BY DEF CliInv, cliVars
<1> QED
  BY <1>1, RunUntouched DEF cliVars

LEMMA HInvStays ==
  ASSUME HInv, UNCHANGED hermesVars
  PROVE  HInv'
BY HInvNext DEF HInv, hermesVars

(* The whole: the stages of startTask, and the two machines.               *)
WholeInv ==
  /\ StageTypeOK
  /\ EarlyInv
  /\ CliInv
  /\ HInv

LEMMA WholeInvInit == AdapterInit => WholeInv
<1> SUFFICES ASSUME AdapterInit PROVE StageTypeOK
  BY EarlyInvInit, CliInvInit, HInvInit DEF WholeInv
<1>1. setup.adapter \in {"codex", "claude-code"}
  BY DEF AdapterInit, Init, Setups
<1> QED
  BY <1>1 DEF AdapterInit, StageTypeOK, Stages

(* A step of startTask answers, goes on, or makes the run.                 *)
LEMMA StartTaskStep ==
  ASSUME Detected \/ Verified \/ WorktreeValidated
  PROVE  /\ stage # "running"
         /\ UNCHANGED <<chosen, early, setup, os, platform, proc>>
         /\ \/ Construct
            \/ \E outcome \in {"failed", "cancelled"} : Refuse(outcome)
            \/ \E next \in {"verifying", "validating", "unavailable", "threw"} : Proceed(next)
<1>1. CASE Detected
  <2>1. stage # "running" /\ UNCHANGED <<chosen, early, setup, os, platform, proc>>
    BY <1>1 DEF Detected
  <2>2. CASE chosen = "codex" /\ early
    BY <1>1, <2>1, <2>2 DEF Detected, RefuseCancelled
  <2>3. CASE ~(chosen = "codex" /\ early)
    BY <1>1, <2>1, <2>3 DEF Detected, RefuseCancelled
  <2> QED
    BY <2>2, <2>3
<1>2. CASE Verified
  <2>1. stage # "running" /\ UNCHANGED <<chosen, early, setup, os, platform, proc>>
    BY <1>2 DEF Verified
  <2>2. CASE chosen = "codex" /\ early
    BY <1>2, <2>1, <2>2 DEF Verified, RefuseCancelled
  <2>3. CASE ~(chosen = "codex" /\ early)
    BY <1>2, <2>1, <2>3 DEF Verified, RefuseCancelled
  <2> QED
    BY <2>2, <2>3
<1>3. CASE WorktreeValidated
  <2>1. stage # "running" /\ UNCHANGED <<chosen, early, setup, os, platform, proc>>
    BY <1>3 DEF WorktreeValidated
  <2>2. CASE chosen = "codex" /\ early
    BY <1>3, <2>1, <2>2 DEF WorktreeValidated, RefuseCancelled
  <2>3. CASE ~(chosen = "codex" /\ early)
    BY <1>3, <2>1, <2>3 DEF WorktreeValidated, RefuseCancelled
  <2> QED
    BY <2>2, <2>3
<1> QED
  BY <1>1, <1>2, <1>3

LEMMA StartTaskKeeps ==
  ASSUME WholeInv, Detected \/ Verified \/ WorktreeValidated
  PROVE  StageTypeOK' /\ CliInv' /\ HInv'
<1>1. /\ stage # "running" /\ early \in BOOLEAN
      /\ UNCHANGED <<chosen, early, setup, os, platform, proc>>
  BY StartTaskStep DEF WholeInv, EarlyInv
<1>2. StageTypeOK /\ EarlyInv /\ CliInv /\ HInv
  BY DEF WholeInv
<1>3. preflight = None
  <2>1. stage # "refused"
    BY DEF Detected, Verified, WorktreeValidated
  <2> QED
    BY <1>2, <2>1 DEF StageTypeOK
<1>4. h.reader = "idle"
  <2>1. h = RestH
    BY <1>1, <1>2 DEF EarlyInv, HermesRests, HermesRuns
  <2> QED
    BY <2>1 DEF RestH
<1>5. CASE Construct
  <2>1. StageTypeOK'
    BY <1>1, <1>2, <1>3, <1>5 DEF Construct, StageTypeOK, Stages
  <2>2. CASE h' = [h EXCEPT !.requested = early] /\ UNCHANGED run
    BY <1>1, <1>2, <1>4, <2>1, <2>2, HermesRecordingKeeps, CliInvStays DEF cliVars
  <2>3. CASE run' = [run EXCEPT !.aborted = early] /\ UNCHANGED h
    BY <1>1, <1>2, <2>1, <2>3, RecordingKeeps, HInvStays DEF hermesVars
  <2> QED
    BY <1>5, <2>2, <2>3 DEF Construct
<1>6. CASE \E outcome \in {"failed", "cancelled"} : Refuse(outcome)
  <2>1. StageTypeOK'
    BY <1>1, <1>2, <1>6 DEF Refuse, StageTypeOK, Stages, None
  <2>2. UNCHANGED cliVars /\ UNCHANGED hermesVars
    BY <1>1, <1>6 DEF Refuse, cliVars, hermesVars
  <2> QED
    BY <1>2, <2>1, <2>2, CliInvStays, HInvStays
<1>7. CASE \E next \in {"verifying", "validating", "unavailable", "threw"} : Proceed(next)
  <2>1. StageTypeOK'
    BY <1>1, <1>2, <1>3, <1>7 DEF Proceed, StageTypeOK, Stages
  <2>2. UNCHANGED cliVars /\ UNCHANGED hermesVars
    BY <1>1, <1>7 DEF Proceed, cliVars, hermesVars
  <2> QED
    BY <1>2, <2>1, <2>2, CliInvStays, HInvStays
<1> QED
  BY <1>5, <1>6, <1>7, StartTaskStep

LEMMA WholeInvStep == WholeInv /\ [AdapterNext]_allVars => WholeInv'
<1> SUFFICES ASSUME WholeInv, [AdapterNext]_allVars
             PROVE  StageTypeOK' /\ CliInv' /\ HInv'
  BY EarlyInvStep DEF WholeInv
<1>1. StageTypeOK /\ CliInv /\ HInv
  BY DEF WholeInv
<1>2. CASE Detected \/ Verified \/ WorktreeValidated
  BY <1>2, StartTaskKeeps
<1>3. CASE AbortEarly
  <2>1. UNCHANGED cliVars /\ UNCHANGED hermesVars
    BY <1>3 DEF AbortEarly
  <2>2. StageTypeOK'
    BY <1>1, <1>3 DEF AbortEarly, StageTypeOK
  <2> QED
    BY <1>1, <2>1, <2>2, CliInvStays, HInvStays
<1>4. CASE CliStep
  <2>1. Next /\ UNCHANGED hermesVars /\ UNCHANGED taskVars
    BY <1>4 DEF CliStep
  <2>2. StageTypeOK'
    BY <1>1, <2>1 DEF taskVars, StageTypeOK
  <2> QED
    BY <1>1, <2>1, <2>2, CliKeeps, HInvStays
<1>5. CASE HermesStep
  <2>1. Hermes!Next /\ UNCHANGED cliVars /\ UNCHANGED taskVars
    BY <1>5 DEF HermesStep
  <2>2. StageTypeOK'
    BY <1>1, <2>1 DEF taskVars, StageTypeOK
  <2> QED
    BY <1>1, <2>1, <2>2, HermesKeeps, CliInvStays
<1>6. CASE UNCHANGED allVars
  <2>1. UNCHANGED cliVars /\ UNCHANGED hermesVars /\ UNCHANGED taskVars
    BY <1>6 DEF allVars
  <2>2. StageTypeOK'
    BY <1>1, <2>1 DEF taskVars, StageTypeOK
  <2> QED
    BY <1>1, <2>1, <2>2, CliInvStays, HInvStays
<1> QED
  BY <1>2, <1>3, <1>4, <1>5, <1>6 DEF AdapterNext

LEMMA WholeInvHolds == AdapterSpec => []WholeInv
BY WholeInvInit, WholeInvStep, PTL DEF AdapterSpec

(* What the reader of a run is told is borne out, whichever the adapter.   *)
THEOREM RunsAreBorneOut == AdapterSpec => []AdapterRunInv
<1>1. WholeInv => AdapterRunInv
  BY EarlyInvTells, CliInvTells, HInvTells DEF WholeInv, AdapterRunInv
<1> QED
  BY <1>1, WholeInvHolds, PTL

(* Silence.                                                                *)
LEMMA WholeIsSilent ==
  ASSUME WholeInv, [AdapterNext]_allVars
  PROVE  /\ Codex /\ run.clean => run'.sent = run.sent
         /\ Hermes!Settled(h) /\ h'.sent # h.sent => h.stray /\ h.failure /\ h.asked
<1>1. CliInv /\ HInv
  BY DEF WholeInv
<1>2. CASE Detected \/ Verified \/ WorktreeValidated
  <2>1. run' = run \/ run' = [run EXCEPT !.aborted = early]
    BY <1>2, StartTaskStep DEF Construct, Refuse, Proceed
  <2>2. h' = h \/ h' = [h EXCEPT !.requested = early]
    BY <1>2, StartTaskStep DEF Construct, Refuse, Proceed
  <2>3. run \in Run /\ h \in Hermes!Transport
    BY <1>1 DEF CliInv, Sound, HInv, HSound, Settling
  <2>4. run'.sent = run.sent
    BY <2>1, <2>3 DEF Run
  <2>5. h'.sent = h.sent
    BY <2>2, <2>3 DEF Hermes!Transport
  <2> QED
    BY <2>4, <2>5
<1>3. CASE AbortEarly \/ UNCHANGED allVars
  BY <1>3 DEF AbortEarly, allVars, cliVars, hermesVars
<1>4. CASE CliStep
  <2>1. Next /\ h' = h
    BY <1>4 DEF CliStep, hermesVars
  <2> QED
    BY <1>1, <2>1, CleanIsSilent
<1>5. CASE HermesStep
  <2>1. Hermes!Next /\ run' = run
    BY <1>5 DEF HermesStep, cliVars
  <2> QED
    BY <1>1, <2>1, SettledIsSilent
<1> QED
  BY <1>2, <1>3, <1>4, <1>5 DEF AdapterNext

(* No signal is sent by a run that is over.                                *)
THEOREM OverRunsAreSilent == AdapterSpec => NoSignalAfterAnyRun
<1>1. WholeInv /\ [AdapterNext]_allVars => [Codex /\ run.clean => run'.sent = run.sent]_vars
  BY WholeIsSilent
<1>2. WholeInv /\ [AdapterNext]_allVars =>
        [Hermes!Settled(h) /\ h'.sent # h.sent => h.stray /\ h.failure /\ h.asked]_(Hermes!vars)
  BY WholeIsSilent
<1> QED
  BY <1>1, <1>2, WholeInvHolds, PTL
  DEF AdapterSpec, NoSignalAfterAnyRun, NoSignalAfterTheRun, Hermes!NoSignalAfterTheRun
=============================================================================
