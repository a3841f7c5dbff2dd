------------------------------ MODULE AgentRun ------------------------------
(***************************************************************************)
(* One run of a command line agent, from the first pull of its event       *)
(* stream to the death of its process: CodexRun and ClaudeCodeRun, the     *)
(* AsyncQueue between the process's callbacks and the reader, the          *)
(* TerminalEventGuard, the two phases of process-tree termination, and     *)
(* runTask, which reads the stream.                                        *)
(*                                                                         *)
(* The two classes are one machine with a few differences (Codex): only    *)
(* Codex has a pre-spawn gate (in strict mode), an inactivity timer, a     *)
(* prompt written to stdin and a once-only guard on termination.  On       *)
(* POSIX the tree is a process group told SIGTERM and then SIGKILL; on     *)
(* Windows the graceful phase kills the direct child outright and the      *)
(* forced one is taskkill on the tree.                                     *)
(*                                                                         *)
(* Time is abstracted: an armed timer may fire at any moment, except that   *)
(* the drain timer is long against the delivery of what already is in the  *)
(* pipe.  A line of stdout is the outcome its parser gives it; a chunk is  *)
(* one or more lines.  The agent's descendants are one process that may    *)
(* hold stdout open.                                                       *)
(***************************************************************************)
EXTENDS Naturals, Sequences

CONSTANTS
  MaxLines,       \* bound: lines an agent writes in one run
  MaxTolerated    \* MAX_TOLERATED_MALFORMED_LINES

ASSUME BoundsAssumption == MaxLines \in Nat /\ MaxTolerated \in Nat

VARIABLES
  setup,    \* what the run was constructed with: adapter, gate, platform
  run,      \* the fields of the run object and of its queue
  os        \* the process, its descendant and the stdout pipe

vars == <<setup, run, os>>

Outcomes == {"completed", "failed", "cancelled"}
None == "none"
Timers == {"startup", "inactivity", "maxDuration", "drain", "grace"}
Lines == {"text", "result", "error", "malformed", "oversized"}
Causes == {None, "agent", "stream", "truncated", "timeout", "start",
           "missing", "exited", "cancelled"}

Setups == {s \in [adapter : {"codex", "claude-code"}, gated : BOOLEAN,
                  platform : {"posix", "win32"}] :
             s.gated => s.adapter = "codex"}

Codex == setup.adapter = "codex"

Run == [phase : {"idle", "gate", "unspawned", "spawned"}, pid : BOOLEAN,
        aborted : BOOLEAN, requested : BOOLEAN, terminating : BOOLEAN,
        terminal : Outcomes \cup {None}, cause : Causes,
        out : Seq(Outcomes \cup {"started", "content"}), closed : BOOLEAN,
        malformed : 0..(MaxTolerated + 1), partial : BOOLEAN,
        timers : SUBSET Timers, stray : BOOLEAN,
        sent : SUBSET {"TERM", "STOP", "KILL"},
        exit : {None, "zero", "nonzero"}, ended : BOOLEAN, clean : BOOLEAN]

TypeOK ==
  /\ setup \in Setups
  /\ run \in Run
  /\ run.malformed > MaxTolerated => run.terminal # None
  /\ os \in [main : {None, "alive", "exited"}, stdout : {"open", "closed"},
             child : {None, "quiet", "holding"}, forked : BOOLEAN,
             pipe : Seq(Lines \cup {"part"}), wrote : 0..MaxLines,
             result : BOOLEAN]

Init ==
  /\ setup \in Setups
  /\ run = [phase |-> "idle", pid |-> FALSE, aborted |-> FALSE, requested |-> FALSE,
            terminating |-> FALSE, terminal |-> None, cause |-> None, out |-> <<>>,
            closed |-> FALSE, malformed |-> 0, partial |-> FALSE, timers |-> {},
            stray |-> FALSE, sent |-> {}, exit |-> None, ended |-> FALSE,
            clean |-> FALSE]
  /\ os = [main |-> None, stdout |-> "open", child |-> None, forked |-> FALSE,
           pipe |-> <<>>, wrote |-> 0, result |-> FALSE]

-----------------------------------------------------------------------------
(* The methods of a run object, as functions of its fields.                *)

Terminated(r) == r.terminal # None

Push(r, event) == IF r.closed THEN r ELSE [r EXCEPT !.out = Append(@, event)]

\* Mutant: the queue is closed before the event is pushed.
FinishClosedFirst(r, outcome, why) ==
  IF Terminated(r) THEN [r EXCEPT !.closed = TRUE]
  ELSE [r EXCEPT !.closed = TRUE, !.terminal = outcome, !.cause = why]

(* guardEvent, push and close: a second terminal event is swallowed.       *)
Finish(r, outcome, why) ==
  LET ended == [Push(r, outcome) EXCEPT !.terminal = outcome, !.cause = why]
  IN  [(IF Terminated(r) THEN r ELSE ended) EXCEPT !.closed = TRUE]

FinishFailed(r, why) == Finish(r, "failed", why)

(* Only the grace timer the field still names is cleared; the listeners on *)
(* the process's streams are removed.                                      *)
Cleanup(r) == [r EXCEPT !.timers = {}, !.clean = TRUE]

FinishCancelled(r) == Cleanup(Finish(r, "cancelled", "cancelled"))

\* Mutant: Codex terminates as often as it is asked to.
TerminateProcessAgain(r) ==
  IF ~r.pid THEN r
  ELSE [r EXCEPT !.sent = @ \cup {IF setup.platform = "posix" THEN "TERM" ELSE "STOP"},
                 !.stray = @ \/ "grace" \in r.timers,
                 !.timers = @ \cup {"grace"}]

\* Mutant: the second phase is never scheduled.
TerminateProcessGracefully(r) ==
  IF ~r.pid THEN r
  ELSE [r EXCEPT !.sent = @ \cup {IF setup.platform = "posix" THEN "TERM" ELSE "STOP"}]

(* The graceful phase, and the timer of the forced one.  ClaudeCodeRun has *)
(* no guard: a second call overwrites the field and the first timer stays  *)
(* armed with nothing left to clear it (stray).                            *)
TerminateProcess(r) ==
  LET told  == [r EXCEPT !.terminating = Codex]
      first == IF setup.platform = "posix" THEN "TERM" ELSE "STOP"
  IN  IF r.terminating THEN r
      ELSE IF ~r.pid THEN told
      ELSE [told EXCEPT !.sent = @ \cup {first},
                        !.stray = @ \/ "grace" \in r.timers,
                        !.timers = @ \cup {"grace"}]

FailAndTerminateProcess(r, why) == TerminateProcess(FinishFailed(r, why))

ArmInactivityTimer(r) ==
  IF Codex /\ ~Terminated(r) THEN [r EXCEPT !.timers = @ \cup {"inactivity"}] ELSE r

ClearTimer(r, timer) == [r EXCEPT !.timers = @ \ {timer}]

\* Mutant: the malformed lines are compared before the new one is counted.
HandleParserOutcomeOffByOne(r, line) ==
  CASE line = "text" -> IF Terminated(r) THEN r ELSE Push(r, "content")
    [] line \in {"result", "error"} ->
         IF Terminated(r) THEN r
         ELSE ClearTimer(Finish(r, IF line = "result" THEN "completed" ELSE "failed", "agent"),
                         "inactivity")
    [] line = "malformed" ->
         IF r.malformed > MaxTolerated
           THEN FailAndTerminateProcess(r, "stream")
           ELSE [r EXCEPT !.malformed = @ + 1]
    [] line = "oversized" -> FailAndTerminateProcess(r, "stream")
    [] line = "part" -> [r EXCEPT !.partial = TRUE]

(* One parser outcome.  Messages after a terminal event are dropped; a bad *)
(* line of the same chunk is still acted upon.                             *)
HandleParserOutcome(r, line) ==
  CASE line = "text" -> IF Terminated(r) THEN r ELSE Push(r, "content")
    [] line \in {"result", "error"} ->
         IF Terminated(r) THEN r
         ELSE ClearTimer(Finish(r, IF line = "result" THEN "completed" ELSE "failed", "agent"),
                         "inactivity")
    [] line = "malformed" ->
         IF r.malformed >= MaxTolerated
           THEN FailAndTerminateProcess([r EXCEPT !.malformed = MaxTolerated + 1], "stream")
           ELSE [r EXCEPT !.malformed = @ + 1]
    [] line = "oversized" -> FailAndTerminateProcess(r, "stream")
    [] line = "part" -> [r EXCEPT !.partial = TRUE]

HandleStdoutChunk(r, lines) ==
  LET after[n \in 0..Len(lines)] ==
        IF n = 0 THEN r ELSE HandleParserOutcome(after[n - 1], lines[n])
  IN  IF Terminated(r) THEN r ELSE after[Len(lines)]

\* Mutant: the exit alone decides.
TryFinalizeOnExitAlone(r) ==
  IF r.exit = None THEN r
  ELSE IF Terminated(r) THEN Cleanup(r)
  ELSE IF r.requested THEN FinishCancelled(r)
  ELSE Cleanup(FinishFailed(r, IF r.exit = "zero" THEN "missing" ELSE "exited"))

(* Nothing is concluded from the exit before stdout has ended as well; a   *)
(* partial last line is a failure of its own, found before the             *)
(* cancellation is looked at.                                              *)
TryFinalizeAfterExit(r) ==
  LET flushed == IF ~Terminated(r) /\ r.partial
                   THEN FailAndTerminateProcess([r EXCEPT !.partial = FALSE], "truncated")
                   ELSE r
  IN  IF r.exit = None \/ ~r.ended THEN r
      ELSE IF Terminated(flushed) THEN Cleanup(flushed)
      ELSE IF flushed.requested THEN FinishCancelled(flushed)
      ELSE Cleanup(FinishFailed(flushed, IF r.exit = "zero" THEN "missing" ELSE "exited"))

\* Mutant: the cancellation is reported when it is requested.
BeginCancellationAtOnce(r) ==
  IF Terminated(r) THEN r
  ELSE TerminateProcess(Finish([r EXCEPT !.requested = TRUE], "cancelled", "cancelled"))

BeginCancellationSequence(r) ==
  IF Terminated(r) THEN r ELSE TerminateProcess([r EXCEPT !.requested = TRUE])

-----------------------------------------------------------------------------
(* Starting and cancelling the run.                                        *)

\* Mutant: the maximum-duration timer is not armed.
SpawnUntimed(r) ==
  LET handled == [ArmInactivityTimer(Push(r, "started")) EXCEPT
                    !.phase = "spawned", !.timers = @ \cup {"startup"}]
  IN  \/ /\ run' = FinishFailed([r EXCEPT !.phase = "unspawned"], "start")
         /\ UNCHANGED os
      \/ /\ run' = [handled EXCEPT !.pid = TRUE]
         /\ os' = [os EXCEPT !.main = "alive"]
      \/ /\ run' = handled
         /\ UNCHANGED os

(* spawn() throws, yields a process, or yields a handle without a pid whose *)
(* "error" event follows.  The maximum-duration timer is armed before.      *)
Spawn(r) ==
  LET timed   == [r EXCEPT !.timers = @ \cup {"maxDuration"}]
      handled == [ArmInactivityTimer(Push(timed, "started")) EXCEPT
                    !.phase = "spawned", !.timers = @ \cup {"startup"}]
  IN  \/ /\ run' = FinishFailed([timed EXCEPT !.phase = "unspawned"], "start")
         /\ UNCHANGED os
      \/ /\ run' = [handled EXCEPT !.pid = TRUE]
         /\ os' = [os EXCEPT !.main = "alive"]
      \/ /\ run' = handled
         /\ UNCHANGED os

(* The reader's first pull: nothing is emitted before it.                  *)
Start ==
  /\ run.phase = "idle"
  /\ \/ /\ run.aborted
        /\ run' = FinishCancelled([run EXCEPT !.phase = "unspawned"])
        /\ UNCHANGED os
     \/ /\ ~run.aborted /\ setup.gated
        /\ run' = [run EXCEPT !.phase = "gate"]
        /\ UNCHANGED os
     \/ /\ ~run.aborted /\ ~setup.gated
        /\ Spawn(run)
  /\ UNCHANGED setup

(* The worktree is validated once more; a cancellation that came during    *)
(* the wait decides before the answer does.                                *)
GateAnswers ==
  /\ run.phase = "gate"
  /\ \/ /\ run.aborted
        /\ run' = FinishCancelled([run EXCEPT !.phase = "unspawned"])
        /\ UNCHANGED os
     \/ /\ ~run.aborted
        /\ run' = FinishFailed([run EXCEPT !.phase = "unspawned"], "start")
        /\ UNCHANGED os
     \/ /\ ~run.aborted
        /\ Spawn(run)
  /\ UNCHANGED setup

(* cancel(), or the caller's signal: the first one counts.                 *)
Cancel ==
  /\ ~run.aborted
  /\ LET recorded == [run EXCEPT !.aborted = TRUE]
     IN  run' = IF run.phase = "idle" THEN recorded
                ELSE BeginCancellationSequence(recorded)
  /\ UNCHANGED <<setup, os>>

-----------------------------------------------------------------------------
(* What the operating system does with the agent.                          *)

Stopped == "KILL" \in run.sent \/ "STOP" \in run.sent

Write(line) ==
  /\ os.main = "alive" /\ ~Stopped
  /\ os.stdout = "open" /\ os.wrote < MaxLines
  /\ os' = [os EXCEPT !.pipe = Append(@, line), !.wrote = @ + 1,
                      !.result = @ \/ line = "result"]
  /\ UNCHANGED <<setup, run>>

CloseStdout ==
  /\ os.main = "alive" /\ ~Stopped /\ os.stdout = "open"
  /\ os' = [os EXCEPT !.stdout = "closed"]
  /\ UNCHANGED <<setup, run>>

Fork(kind) ==
  /\ os.main = "alive" /\ ~Stopped /\ ~os.forked
  /\ kind = "holding" => os.stdout = "open"
  /\ os' = [os EXCEPT !.child = kind, !.forked = TRUE]
  /\ UNCHANGED <<setup, run>>

(* The forced phase reaches the whole tree; otherwise the descendant dies   *)
(* when it likes.                                                           *)
ChildAlive == os.child # None /\ "KILL" \notin run.sent

ChildDies ==
  /\ ChildAlive
  /\ os' = [os EXCEPT !.child = None]
  /\ UNCHANGED <<setup, run>>

(* The process exits on its own or on a signal, perhaps in the middle of a *)
(* line, and its "exit" event is handled.                                  *)
Exit(code, cut) ==
  /\ os.main = "alive"
  /\ Stopped => code = "nonzero"
  /\ cut => os.stdout = "open"
  /\ os' = [os EXCEPT !.main = "exited",
                      !.pipe = IF cut THEN Append(@, "part") ELSE @]
  /\ LET exited == [ClearTimer(run, "startup") EXCEPT
                      !.exit = code,
                      !.timers = IF run.ended THEN @ ELSE @ \cup {"drain"}]
     IN  run' = TryFinalizeAfterExit(exited)
  /\ UNCHANGED setup

SpawnError ==
  /\ run.phase = "spawned" /\ ~run.pid
  /\ ~Terminated(run) \/ "startup" \in run.timers
  /\ run' = FinishFailed(ClearTimer(run, "startup"), "start")
  /\ UNCHANGED <<setup, os>>

(* Codex's prompt does not reach the process's stdin.                      *)
StdinError ==
  /\ Codex /\ run.phase = "spawned" /\ ~run.clean
  /\ ~Terminated(run)
  /\ run' = FailAndTerminateProcess(run, "start")
  /\ UNCHANGED <<setup, os>>

StdoutData(n) ==
  /\ ~run.clean /\ ~run.ended
  /\ n \in 1..Len(os.pipe)
  /\ run' = HandleStdoutChunk(ArmInactivityTimer(ClearTimer(run, "startup")),
                              SubSeq(os.pipe, 1, n))
  /\ os' = [os EXCEPT !.pipe = SubSeq(@, n + 1, Len(@))]
  /\ UNCHANGED setup

StdoutEnd ==
  /\ ~run.clean /\ ~run.ended /\ run.pid
  /\ os.pipe = <<>>
  /\ os.main = "exited" \/ os.stdout = "closed"
  /\ ~(ChildAlive /\ os.child = "holding")
  /\ run' = TryFinalizeAfterExit(ClearTimer([run EXCEPT !.ended = TRUE], "drain"))
  /\ UNCHANGED <<setup, os>>

StderrData ==
  /\ Codex /\ os.main = "alive" /\ ~Stopped /\ ~run.clean
  /\ run' = ArmInactivityTimer(run)
  /\ UNCHANGED <<setup, os>>

-----------------------------------------------------------------------------
(* The timers.                                                             *)

TimeOut(timer) ==
  /\ timer \in run.timers \cap {"startup", "inactivity", "maxDuration"}
  /\ LET fired == ClearTimer(run, timer)
     IN  run' = IF timer = "inactivity" /\ Terminated(run) THEN fired
                ELSE FailAndTerminateProcess(fired, "timeout")
  /\ UNCHANGED <<setup, os>>

DrainExpires ==
  /\ "drain" \in run.timers /\ os.pipe = <<>>
  /\ run' = TryFinalizeAfterExit(ClearTimer([run EXCEPT !.ended = TRUE], "drain"))
  /\ UNCHANGED <<setup, os>>

ForceTerminateProcessTree ==
  /\ \/ /\ "grace" \in run.timers
        /\ run' = [ClearTimer(run, "grace") EXCEPT !.sent = @ \cup {"KILL"}]
     \/ /\ run.stray
        /\ run' = [run EXCEPT !.stray = FALSE, !.sent = @ \cup {"KILL"}]
  /\ UNCHANGED <<setup, os>>

-----------------------------------------------------------------------------
(* runTask's loop over the events.  It runs between two callbacks of the   *)
(* process, so after each of them it has read all there is.                *)
RunTask ==
  LET terminal == {i \in 1..Len(run.out) : run.out[i] \in Outcomes}
  IN  IF \E i \in terminal : i < Len(run.out) THEN "UnexpectedRunnerState"
      ELSE IF ~run.closed THEN "reading"
      ELSE IF terminal = {} THEN "NoTerminalEvent"
      ELSE run.out[Len(run.out)]

-----------------------------------------------------------------------------

(* What the host owes the run: awaited calls answer, timers fire, events   *)
(* of the process are delivered, and a process that was killed dies.       *)
Turn ==
  \/ GateAnswers
  \/ SpawnError
  \/ \E n \in 1..MaxLines + 1 : StdoutData(n)
  \/ StdoutEnd
  \/ Stopped /\ \E cut \in BOOLEAN : Exit("nonzero", cut)
  \/ \E timer \in Timers : TimeOut(timer)
  \/ DrainExpires
  \/ ForceTerminateProcessTree

Next ==
  \/ Start
  \/ Cancel
  \/ \E line \in Lines : Write(line)
  \/ CloseStdout
  \/ \E kind \in {"quiet", "holding"} : Fork(kind)
  \/ ChildDies
  \/ \E code \in {"zero", "nonzero"}, cut \in BOOLEAN : Exit(code, cut)
  \/ StdinError
  \/ StderrData
  \/ Turn

Spec == Init /\ [][Next]_vars /\ WF_vars(Turn)

-----------------------------------------------------------------------------
(* Properties.                                                             *)

(* However exits, timers, bad lines and cancellations race, the reader of  *)
(* a run is told exactly one outcome, the one the guard recorded first,    *)
(* and never sees a stream that closes without one.                        *)
ReaderIsToldOneOutcome ==
  /\ run.closed <=> Terminated(run)
  /\ run.closed => run.out # <<>> /\ run.out[Len(run.out)] = run.terminal
  /\ RunTask \in {"reading", run.terminal}

(* "Exited without reporting a final result" is concluded only when there  *)
(* was none: a result the agent wrote before exiting is read first, in     *)
(* whatever order its exit and its output arrive.                          *)
MissingResultIsMissing == os.result => run.cause \notin {"missing", "exited"}

(* run.cancelled is a promise that the agent no longer touches the working *)
(* directory: its process has exited or was never started.                 *)
CancelledMeansGone == run.terminal = "cancelled" => os.main # "alive"

(* The invariant of a run, through every order of exits, drained output,   *)
(* timers, bad lines and cancellations: one outcome reaches the reader, a  *)
(* result that was written is not missed, and run.cancelled means that the *)
(* agent is gone.                                                          *)
RunInv ==
  /\ TypeOK
  /\ ReaderIsToldOneOutcome
  /\ MissingResultIsMissing
  /\ CancelledMeansGone

(* When a Codex run has cleaned up, no signal follows: a process group     *)
(* number that may belong to someone else by then is left alone.           *)
NoSignalAfterTheRun ==
  [][Codex /\ run.clean => run'.sent = run.sent]_vars

(* What docs/architecture/0008 says of a cancellation: an exit that Hall's *)
(* own cancellation caused is never reported as run.failed. Violated      *)
(* (README, 8).                                                            *)
CancelledExitIsNotFailure ==
  run.requested => run.cause \notin {"missing", "exited", "truncated"}

(* What process-tree.ts says of its second phase: once the grace period is *)
(* over the whole tree is gone, descendants included. Violated (README, 8).*)
TreeIsTerminated ==
  run.sent # {} /\ run.clean => ~ChildAlive
=============================================================================
