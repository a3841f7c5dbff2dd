------------------------------ MODULE HermesRun ------------------------------
(***************************************************************************)
(* One run of the Hermes adapter: HermesRun, the generator its reader      *)
(* pulls, on top of HermesExecutionRun, the transport that starts Hermes,  *)
(* validates its JSONL output and stops it.                                *)
(*                                                                         *)
(* Unlike the other adapters' runs (AgentRun) an outcome is not read off   *)
(* the output alone: the last event only counts when the output has ended  *)
(* after it and the process has exited with the code that goes with it,    *)
(* and the reader waits for that.                                          *)
(*                                                                         *)
(* The reader runs to its next wait between two callbacks, so each action  *)
(* is a callback of the transport followed by what the reader makes of it. *)
(* Time is abstracted as in AgentRun.  A line is what the parser and the   *)
(* event mapper make of it: "bad" is a valid record with a payload the     *)
(* mapper rejects and "badEnd" a run.completed with such a payload;        *)
(* every record the parser rejects by itself is "malformed".               *)
(***************************************************************************)
EXTENDS Naturals, Sequences

CONSTANT MaxLines    \* bound, a natural number: lines Hermes writes in one run

VARIABLES
  platform,    \* of the transport's process
  h,           \* the fields of the run, of its transport, parser and queue
  proc         \* the Hermes process, a descendant of it and the stdout pipe

vars == <<platform, h, proc>>

None == "none"
Outcomes == {"completed", "failed", "cancelled"}
Ends == Outcomes \cup {"badEnd"}
Lines == Ends \cup {"text", "bad", "malformed"}
Timers == {"run", "cleanup", "force", "drain"}

Transport ==
  [reader : {"idle", "reading", "awaiting", "invalid", "done"},
   outcome : Outcomes \cup {None}, requested : BOOLEAN, seen : BOOLEAN,
   started : BOOLEAN, pid : BOOLEAN, asked : BOOLEAN, told : BOOLEAN,
   failure : BOOLEAN, exit : {None, "zero", "nonzero", "signal"},
   ended : BOOLEAN, settled : {None, "resolved", "rejected"},
   closed : BOOLEAN, terminal : Ends \cup {None}, error : BOOLEAN,
   partial : BOOLEAN, timers : SUBSET Timers, stray : BOOLEAN,
   sent : SUBSET {"TERM", "STOP", "KILL"}]

TypeOK ==
  /\ platform \in {"posix", "win32"}
  /\ h \in Transport
  /\ proc \in [main : {None, "alive", "exited"}, stdout : {"open", "closed"},
               holder : BOOLEAN, pipe : Seq(Lines \cup {"part"}),
               wrote : Seq(Lines \cup {"part"})]
  /\ Len(proc.wrote) <= MaxLines + 1

Init ==
  /\ platform \in {"posix", "win32"}
  /\ h = [reader |-> "idle", outcome |-> None, requested |-> FALSE, seen |-> FALSE,
          started |-> FALSE, pid |-> FALSE, asked |-> FALSE, told |-> FALSE,
          failure |-> FALSE, exit |-> None, ended |-> FALSE, settled |-> None,
          closed |-> FALSE, terminal |-> None, error |-> FALSE, partial |-> FALSE,
          timers |-> {}, stray |-> FALSE, sent |-> {}]
  /\ proc = [main |-> None, stdout |-> "open", holder |-> FALSE, pipe |-> <<>>,
             wrote |-> <<>>]

-----------------------------------------------------------------------------
(* The transport.                                                          *)

Settled(t) == t.settled # None

Clear(t, timers) == [t EXCEPT !.timers = @ \ timers]

\* Mutant: the timers are left armed.
SettleFailureArmed(t) ==
  IF Settled(t) THEN t ELSE [t EXCEPT !.settled = "rejected", !.closed = TRUE]

SettleFailure(t) ==
  IF Settled(t) THEN t
  ELSE [t EXCEPT !.settled = "rejected", !.closed = TRUE, !.timers = {}]

(* The graceful signal and the timer of the forced one.  A second call     *)
(* overwrites the field: the first timer stays armed with nothing left to  *)
(* clear it (stray).                                                       *)
Terminate(t) ==
  LET first == IF platform = "posix" THEN "TERM" ELSE "STOP"
  IN  [t EXCEPT !.told = TRUE, !.stray = @ \/ "cleanup" \in t.timers,
                !.timers = @ \cup {"cleanup"},
                !.sent = IF t.pid THEN @ \cup {first} ELSE @]

BeginFailure(t) ==
  LET failed == Clear([t EXCEPT !.failure = TRUE, !.closed = TRUE], {"run", "drain"})
  IN  IF Settled(t) \/ t.failure THEN t
      ELSE IF ~t.started \/ t.exit # None THEN SettleFailure(failed)
      ELSE IF t.told THEN failed
      ELSE Terminate(failed)

FailImmediately(t) == SettleFailure([t EXCEPT !.failure = TRUE])

CancelTransport(t) ==
  LET asked == [t EXCEPT !.asked = TRUE]
  IN  IF Settled(t) \/ t.asked \/ t.terminal # None THEN t
      ELSE IF ~t.started \/ t.exit # None THEN asked
      ELSE Terminate(asked)

(* The exit code has to go with the last event.                            *)
ValidExit(t) ==
  /\ t.terminal # None
  /\ t.exit = IF t.terminal = "failed" THEN "nonzero" ELSE "zero"

\* Mutant: the exit code is not compared with the last event.
MaybeCompleteAnyExit(t) ==
  IF Settled(t) \/ t.failure \/ ~t.ended \/ t.exit = None THEN t
  ELSE IF t.terminal = None THEN BeginFailure(t)
  ELSE [t EXCEPT !.settled = "resolved", !.closed = TRUE, !.timers = {}]

MaybeComplete(t) ==
  IF Settled(t) \/ t.failure \/ ~t.ended \/ t.exit = None THEN t
  ELSE IF ~ValidExit(t) THEN BeginFailure(t)
  ELSE [t EXCEPT !.settled = "resolved", !.closed = TRUE, !.timers = {}]

(* HermesJsonlParser.push over the lines of a chunk: the first bad record  *)
(* is an error for good, and after the last event every record is one.     *)
ParseLine(t, line) ==
  IF t.error THEN t
  ELSE CASE line = "part" -> [t EXCEPT !.partial = TRUE]
         [] line = "malformed" \/ (line # "part" /\ t.terminal # None) ->
              [t EXCEPT !.error = TRUE]
         [] line \in Ends /\ t.terminal = None -> [t EXCEPT !.terminal = line]
         [] OTHER -> t

Push(t, lines) ==
  LET after[n \in 0..Len(lines)] ==
        IF n = 0 THEN t ELSE ParseLine(after[n - 1], lines[n])
  IN  after

(* HermesJsonlParser.finish found nothing wrong.                           *)
Complete(t) == ~t.error /\ ~t.partial /\ t.terminal # None

(* The end of stdout, or the end of waiting for it.                        *)
Finish(t) ==
  LET ended == Clear([t EXCEPT !.ended = TRUE], {"drain"})
  IN  IF Complete(t) THEN MaybeComplete(ended)
      ELSE BeginFailure([ended EXCEPT !.error = TRUE])

-----------------------------------------------------------------------------
(* The reader's generator.                                                 *)

Answer(t, outcome) == [t EXCEPT !.reader = "done", !.outcome = outcome]

\* Mutant: an invalid payload is reported before the process was stopped.
InvalidEventAtOnce(t) ==
  IF t.requested /\ ~t.seen THEN Answer(t, "cancelled")
  ELSE Answer(CancelTransport(t), "failed")

(* The catch of a mapping error: the transport is cancelled and awaited,   *)
(* unless the run was being cancelled anyway.                              *)
InvalidEvent(t) ==
  IF t.requested /\ ~t.seen THEN Answer(t, "cancelled")
  ELSE [CancelTransport(t) EXCEPT !.reader = "invalid"]

\* Mutant: the generator does not wait for the transport's completion.
AwaitCompletionNever(t) ==
  IF t.reader = "awaiting" /\ t.seen /\ t.terminal \in Outcomes
    THEN Answer(t, t.terminal)
  ELSE t

(* What is decided once the events have ended: by the transport's          *)
(* completion, which resolves or rejects.                                  *)
AwaitCompletion(t) ==
  CASE ~Settled(t) -> t
    [] Settled(t) /\ t.reader = "invalid" -> Answer(t, "failed")
    [] Settled(t) /\ t.reader = "awaiting" ->
         IF t.settled = "resolved" /\ t.terminal \in Outcomes THEN Answer(t, t.terminal)
         ELSE IF t.settled = "rejected" /\ t.requested /\ ~t.seen THEN Answer(t, "cancelled")
         ELSE Answer(t, "failed")
    [] OTHER -> t

(* The for-await loop, up to its next wait: a closed queue ends it.        *)
Iterate(t) ==
  AwaitCompletion(IF t.reader = "reading" /\ t.closed
                    THEN [t EXCEPT !.reader = "awaiting"] ELSE t)

(* The events a chunk yields and the reader sees: those the parser accepts *)
(* before its error, while the queue is open.                              *)
Yielded(t, lines, parsed) ==
  {n \in 1..Len(lines) : /\ ~t.closed
                         /\ ~parsed[n].error /\ lines[n] # "part"}

(* One chunk of stdout: the parser takes all of it, the last event closes  *)
(* the queue, an error begins the failure; then the reader reads.          *)
OnStdoutData(t, lines) ==
  LET parsed == Push(t, lines)
      p == parsed[Len(lines)]
      yielded == Yielded(t, lines, parsed)
      queued == [p EXCEPT !.closed = @ \/ \E n \in yielded : lines[n] \in Ends]
      acted == IF p.error THEN BeginFailure(queued) ELSE queued
      invalid == {n \in yielded : lines[n] = "bad"}
      seen == \E n \in yielded : lines[n] \in Ends
  IN  IF t.reader # "reading" THEN Iterate(acted)
      ELSE IF invalid # {} THEN Iterate(InvalidEvent(acted))
      ELSE Iterate([acted EXCEPT !.seen = seen])

-----------------------------------------------------------------------------
(* Starting and cancelling the run.                                        *)

(* The first pull: a run cancelled before it starts no transport.  The     *)
(* transport may refuse its input or fail to spawn, get a process, or a    *)
(* handle without a pid whose "error" event follows.                       *)
Start ==
  /\ h.reader = "idle"
  /\ LET pulled == [h EXCEPT !.reader = "reading"]
         spawned == [pulled EXCEPT !.started = TRUE, !.timers = {"run"}]
     IN  \/ /\ h.requested
            /\ h' = Answer(h, "cancelled")
            /\ UNCHANGED proc
         \/ /\ ~h.requested
            /\ h' = Iterate(FailImmediately(pulled))
            /\ UNCHANGED proc
         \/ /\ ~h.requested
            /\ h' = [spawned EXCEPT !.pid = TRUE]
            /\ proc' = [proc EXCEPT !.main = "alive"]
         \/ /\ ~h.requested
            /\ h' = spawned
            /\ UNCHANGED proc
  /\ UNCHANGED platform

(* cancel(), or the caller's signal: it counts once, and not after the     *)
(* reader has seen the last event or recorded an outcome.                  *)
Cancel ==
  /\ ~h.requested /\ ~h.seen
  /\ h.reader \notin {"invalid", "done"}
  /\ LET recorded == [h EXCEPT !.requested = TRUE]
     IN  h' = IF h.reader = "idle" THEN recorded ELSE CancelTransport(recorded)
  /\ UNCHANGED <<platform, proc>>

-----------------------------------------------------------------------------
(* What the operating system does with Hermes.                             *)

Stopped == "KILL" \in h.sent \/ "STOP" \in h.sent

Write(line) ==
  /\ proc.main = "alive" /\ ~Stopped
  /\ proc.stdout = "open" /\ Len(proc.wrote) < MaxLines
  /\ proc' = [proc EXCEPT !.pipe = Append(@, line), !.wrote = Append(@, line)]
  /\ UNCHANGED <<platform, h>>

CloseStdout ==
  /\ proc.main = "alive" /\ ~Stopped /\ proc.stdout = "open"
  /\ proc' = [proc EXCEPT !.stdout = "closed"]
  /\ UNCHANGED <<platform, h>>

(* A descendant that keeps stdout open; the forced signal reaches it too.  *)
Fork ==
  /\ proc.main = "alive" /\ ~Stopped
  /\ proc.stdout = "open" /\ ~proc.holder
  /\ proc' = [proc EXCEPT !.holder = TRUE]
  /\ UNCHANGED <<platform, h>>

HeldOpen == proc.holder /\ "KILL" \notin h.sent

\* Mutant: the wait for the end of the output has no limit.
HandleExitUndrained(t, code) ==
  LET exited == Clear([t EXCEPT !.exit = code], {"run"})
  IN  IF Settled(t) THEN t
      ELSE IF t.failure THEN SettleFailure(exited)
      ELSE IF t.ended THEN MaybeComplete(exited)
      ELSE exited

(* An exit before the end of the output limits the wait for that end.      *)
HandleExit(t, code) ==
  LET exited == Clear([t EXCEPT !.exit = code], {"run"})
  IN  IF Settled(t) THEN t
      ELSE IF t.failure THEN SettleFailure(exited)
      ELSE IF t.ended THEN MaybeComplete(exited)
      ELSE [exited EXCEPT !.timers = @ \cup {"drain"}]

(* Hermes exits on its own or on a signal, perhaps in the middle of a      *)
(* line, and its "exit" event is handled.                                  *)
Exit(code, cut) ==
  /\ proc.main = "alive"
  /\ Stopped => code = "signal"
  /\ cut => proc.stdout = "open"
  /\ proc' = [proc EXCEPT !.main = "exited",
                          !.pipe = IF cut THEN Append(@, "part") ELSE @,
                          !.wrote = IF cut THEN Append(@, "part") ELSE @]
  /\ h' = Iterate(HandleExit(h, code))
  /\ UNCHANGED platform

SpawnError ==
  /\ h.started /\ ~h.pid /\ ~Settled(h)
  /\ h' = Iterate(FailImmediately(h))
  /\ UNCHANGED <<platform, proc>>

StdinError ==
  /\ h.started /\ ~Settled(h) /\ ~h.failure
  /\ h' = Iterate(BeginFailure(h))
  /\ UNCHANGED <<platform, proc>>

StdoutData(n) ==
  /\ h.started /\ ~Settled(h)
  /\ n \in 1..Len(proc.pipe)
  /\ h' = OnStdoutData(h, SubSeq(proc.pipe, 1, n))
  /\ proc' = [proc EXCEPT !.pipe = SubSeq(@, n + 1, Len(@))]
  /\ UNCHANGED platform

StdoutEnd ==
  /\ h.pid /\ ~h.ended /\ ~Settled(h)
  /\ proc.pipe = <<>>
  /\ proc.main = "exited" \/ proc.stdout = "closed"
  /\ ~HeldOpen
  /\ h' = Iterate(Finish(h))
  /\ UNCHANGED <<platform, proc>>

-----------------------------------------------------------------------------
(* The timers.                                                             *)

RunExpires ==
  /\ "run" \in h.timers
  /\ h' = Iterate(BeginFailure(Clear(h, {"run"})))
  /\ UNCHANGED <<platform, proc>>

DrainExpires ==
  /\ "drain" \in h.timers /\ proc.pipe = <<>>
  /\ h' = Iterate(Finish(h))
  /\ UNCHANGED <<platform, proc>>

(* The forced signal, and the timer that ends the wait for the exit.       *)
ForceTerminate(t) ==
  [t EXCEPT !.sent = IF t.pid THEN @ \cup {"KILL"} ELSE @,
            !.timers = IF Settled(t) THEN @ ELSE @ \cup {"force"}]

CleanupExpires ==
  /\ \/ /\ "cleanup" \in h.timers
        /\ h' = ForceTerminate(Clear(h, {"cleanup"}))
     \/ /\ h.stray
        /\ h' = ForceTerminate([h EXCEPT !.stray = FALSE])
  /\ UNCHANGED <<platform, proc>>

ForceExpires ==
  /\ "force" \in h.timers
  /\ h' = Iterate(SettleFailure([h EXCEPT !.failure = TRUE]))
  /\ UNCHANGED <<platform, proc>>

-----------------------------------------------------------------------------

(* What the host owes the run: timers fire, events of the process are      *)
(* delivered, and a process that was killed dies.                          *)
Turn ==
  \/ SpawnError
  \/ \E n \in 1..MaxLines + 1 : StdoutData(n)
  \/ StdoutEnd
  \/ Stopped /\ \E cut \in BOOLEAN : Exit("signal", cut)
  \/ RunExpires
  \/ DrainExpires
  \/ CleanupExpires
  \/ ForceExpires

Next ==
  \/ Start
  \/ Cancel
  \/ \E line \in Lines : Write(line)
  \/ CloseStdout
  \/ Fork
  \/ \E code \in {"zero", "nonzero", "signal"}, cut \in BOOLEAN : Exit(code, cut)
  \/ StdinError
  \/ Turn

Spec == Init /\ [][Next]_vars /\ WF_vars(Turn)

-----------------------------------------------------------------------------
(* Properties.                                                             *)

(* Of a Hermes run only an outcome that the whole output and the exit bear *)
(* out is believed: a run.completed is the last thing Hermes wrote, once,  *)
(* with nothing rejected before it, and it exited with zero after it.      *)
CompletedIsBorneOut ==
  h.outcome = "completed" =>
    /\ h.exit = "zero"
    /\ proc.wrote # <<>> /\ proc.wrote[Len(proc.wrote)] = "completed"
    /\ \A i \in 1..Len(proc.wrote) - 1 : proc.wrote[i] = "text"

(* Unless the run was being cancelled when an invalid payload arrived, an  *)
(* outcome is not reported while Hermes may still work in the task's       *)
(* directory: it has exited, never ran, or was told to die and given time. *)
AnsweredMeansStopped ==
  h.outcome # None => \/ proc.main # "alive" \/ "KILL" \in h.sent
                      \/ h.outcome = "cancelled" /\ h.told

(* A cancellation that comes after the reader has seen the last event does *)
(* not replace it, and no cancellation is reported that nobody asked for.  *)
CancelledWasAsked ==
  h.outcome = "cancelled" =>
    \/ h.requested /\ ~h.seen
    \/ h.terminal = "cancelled" /\ h.exit = "zero"

(* The invariant of a Hermes run: what its reader is told is borne out by  *)
(* what Hermes wrote and how it ended.                                     *)
HermesInv ==
  /\ TypeOK
  /\ CompletedIsBorneOut
  /\ AnsweredMeansStopped
  /\ CancelledWasAsked

(* When the transport has settled, no signal follows, except from the one  *)
(* timer nothing clears: that of a termination begun for a failure and     *)
(* begun again by a cancellation.                                          *)
NoSignalAfterTheRun ==
  [][Settled(h) /\ h'.sent # h.sent => h.stray /\ h.failure /\ h.asked]_vars
=============================================================================
