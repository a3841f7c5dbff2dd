------------------------------ MODULE AdapterRun ------------------------------
(***************************************************************************)
(* runTask, from the adapter's detection to the last event, with the       *)
(* adapter it was given: what startTask of Codex, Claude Code and Hermes   *)
(* verifies before it makes a run, and that run, AgentRun or HermesRun.    *)
(*                                                                         *)
(* The caller's signal may abort at any moment.  Until there is a run, it  *)
(* is looked at where the code looks at it; then it is the run's Cancel.   *)
(***************************************************************************)
EXTENDS AgentRun

VARIABLES
  chosen,      \* the adapter
  stage,       \* how far runTask has come
  preflight,   \* the one event of a run that startTask refused, or None
  early,       \* the signal aborted before there was a run
  platform, h, proc

Hermes == INSTANCE HermesRun

cliVars == <<setup, run, os>>
hermesVars == <<platform, h, proc>>
taskVars == <<chosen, stage, preflight, early>>
allVars == <<taskVars, cliVars, hermesVars>>

Stages == {"detecting", "verifying", "validating", "running",
           "refused", "unavailable", "threw"}

StageTypeOK ==
  /\ chosen \in {"codex", "claude-code", "hermes-router"}
  /\ stage \in Stages
  /\ preflight \in {None, "failed", "cancelled"}
  /\ early \in BOOLEAN
  /\ preflight # None <=> stage = "refused"

(* The machine of the adapters that were not chosen rests in one state.    *)
AdapterInit ==
  /\ Init /\ Hermes!Init
  /\ setup.platform = platform
  /\ \/ chosen = setup.adapter
     \/ chosen = "hermes-router" /\ setup.adapter = "claude-code"
  /\ stage = "detecting"
  /\ preflight = None
  /\ early = FALSE

-----------------------------------------------------------------------------
(* startTask.                                                              *)

Refuse(outcome) ==
  /\ stage' = "refused"
  /\ preflight' = outcome
  /\ UNCHANGED <<run, h>>

\* Mutant: the constructor only listens for an abort that is still to come.
ConstructListening ==
  /\ stage' = "running"
  /\ UNCHANGED <<run, h, preflight>>

(* The run is constructed with the signal; one that has aborted already is *)
(* recorded.                                                               *)
Construct ==
  /\ stage' = "running"
  /\ \/ /\ chosen = "hermes-router"
        /\ h' = [h EXCEPT !.requested = early]
        /\ UNCHANGED run
     \/ /\ chosen # "hermes-router"
        /\ run' = [run EXCEPT !.aborted = early]
        /\ UNCHANGED h
  /\ UNCHANGED preflight

Proceed(next) == stage' = next /\ UNCHANGED <<preflight, run, h>>

(* Codex looks at the signal after every wait.                             *)
RefuseCancelled(answer) ==
  IF chosen = "codex" /\ early THEN Refuse("cancelled") ELSE answer

(* runTask's detection answers; startTask is called, which may throw (a    *)
(* session to resume, Hermes disabled).  Hermes verifies nothing more.     *)
Detected ==
  /\ stage = "detecting"
  /\ \/ Proceed("unavailable")
     \/ Proceed("threw")
     \/ /\ chosen = "hermes-router"
        /\ Construct
     \/ /\ chosen # "hermes-router"
        /\ RefuseCancelled(Proceed("verifying"))
  /\ UNCHANGED <<chosen, early, setup, os, platform, proc>>

(* startTask's own detection answers: the login is verified again, the     *)
(* executable resolved and, for Codex, the repository looked for.  Strict  *)
(* Codex goes on to validate the worktree, trusted-local Codex has looked  *)
(* whether the directory is writable.                                      *)
Verified ==
  /\ stage = "verifying"
  /\ RefuseCancelled(\/ Refuse("failed")
                     \/ ~setup.gated /\ Construct
                     \/ setup.gated /\ Proceed("validating"))
  /\ UNCHANGED <<chosen, early, setup, os, platform, proc>>

WorktreeValidated ==
  /\ stage = "validating"
  /\ RefuseCancelled(Refuse("failed") \/ Construct)
  /\ UNCHANGED <<chosen, early, setup, os, platform, proc>>

(* The signal aborts before there is a run to cancel.                      *)
AbortEarly ==
  /\ stage \in {"detecting", "verifying", "validating"}
  /\ early' = TRUE
  /\ UNCHANGED <<chosen, stage, preflight, cliVars, hermesVars>>

-----------------------------------------------------------------------------
(* The run.                                                                *)

CliRuns == stage = "running" /\ chosen # "hermes-router"
HermesRuns == stage = "running" /\ chosen = "hermes-router"

CliStep == CliRuns /\ Next /\ UNCHANGED <<taskVars, hermesVars>>
HermesStep == HermesRuns /\ Hermes!Next /\ UNCHANGED <<taskVars, cliVars>>

(* What runTask returns, "reading" while it does not.                      *)
TaskResult ==
  CASE stage \in {"detecting", "verifying", "validating"} -> "reading"
    [] stage = "refused" -> preflight
    [] stage = "unavailable" -> "failed"
    [] stage = "threw" -> "threw"
    [] CliRuns -> RunTask
    [] HermesRuns /\ h.reader = "done" -> h.outcome
    [] HermesRuns /\ h.reader # "done" -> "reading"

AdapterNext ==
  \/ Detected
  \/ Verified
  \/ WorktreeValidated
  \/ AbortEarly
  \/ CliStep
  \/ HermesStep

(* Detections and validations answer or time out, runTask pulls the first  *)
(* event of the run it was given, and the host does its part in the run.   *)
RunnerTurn ==
  \/ Detected
  \/ Verified
  \/ WorktreeValidated
  \/ CliRuns /\ (Start \/ Turn) /\ UNCHANGED <<taskVars, hermesVars>>
  \/ HermesRuns /\ (Hermes!Start \/ Hermes!Turn) /\ UNCHANGED <<taskVars, cliVars>>

AdapterSpec == AdapterInit /\ [][AdapterNext]_allVars /\ WF_allVars(RunnerTurn)

-----------------------------------------------------------------------------
(* Properties.                                                             *)

(* A cancellation that comes during detection or preflight starts no       *)
(* agent, whichever adapter it reaches before its run exists.              *)
NothingStartsAfterEarlyCancel ==
  early => os.main = None /\ proc.main = None

(* The invariant of a task's run over any adapter: a cancellation before   *)
(* the launch is in time, and what the reader is told of a run is borne    *)
(* out by what the agent wrote and how it ended.                           *)
AdapterRunInv ==
  /\ StageTypeOK
  /\ NothingStartsAfterEarlyCancel
  /\ RunInv
  /\ Hermes!HermesInv

(* No signal is sent by a Codex run that has cleaned up, nor by a settled  *)
(* Hermes transport but from the one timer that nothing clears.            *)
NoSignalAfterAnyRun ==
  /\ NoSignalAfterTheRun
  /\ Hermes!NoSignalAfterTheRun

(* runTask returns, also when the agent hangs, ignores its signals or      *)
(* leaves a descendant on its stdout.                                      *)
TaskIsAnswered == <>(TaskResult # "reading")

(* The agent does not outlive its run for good, also when the run ended    *)
(* before its process did.                                                 *)
AgentIsGone ==
  (TaskResult # "reading") ~> (os.main # "alive" /\ proc.main # "alive")
=============================================================================
