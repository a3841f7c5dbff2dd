------------------------------ MODULE CeoPlan ------------------------------
(***************************************************************************)
(* One CEO plan: apps/server/src/ceo-plans.  Clients edit it, submit it,   *)
(* decide on it, delegate it, cancel it and delete it, each with the       *)
(* mutation token of the revision it last read; editing and delegating     *)
(* detect the adapters first, so that other requests run between what they *)
(* read and what they write.  A delegated plan's children are tasks that   *)
(* run on their own; the task-mutation hook copies their progress into the *)
(* plan, and the pass at boot copies what the hook missed.                 *)
(***************************************************************************)
EXTENDS Integers, Sequences, FiniteSets, SequencesExt, FiniteSetsExt

CONSTANTS
  Clients,        \* browsers, each with at most one token or request
  Contents,       \* the plan contents a client may write; one hash each
  Draft,          \* the content the planner generates for the parent
  Steps,          \* step ids
  StepsOf,        \* the steps of each content
  DependsOn,      \* the steps each step depends on
  None,           \* no request, no content, no fingerprint
  MaxTasks,       \* limits.maxTasks
  MaxVersions,    \* bound: versions of the plan
  MaxMissed,      \* bound: hook calls whose listener throws
  MaxRetries,     \* bound: retries of a failed child
  MaxCrashes      \* bound: crashes

(* What the schema of a version demands of its steps: they are finitely    *)
(* many, depend on each other only, and in no circle.                      *)
ValidSteps(c) ==
  /\ IsFiniteSet(StepsOf[c])
  /\ \A s \in StepsOf[c] : DependsOn[s] \subseteq StepsOf[c]
  /\ \A T \in SUBSET StepsOf[c] : T # {} => \E s \in T : DependsOn[s] \cap T = {}

ASSUME PlanContents ==
  /\ Draft \in Contents
  /\ StepsOf \in [Contents -> SUBSET Steps]
  /\ DependsOn \in [Steps -> SUBSET Steps]
  /\ \A c \in Contents : ValidSteps(c)

ASSUME PlanBounds ==
  MaxTasks \in Nat \ {0} /\ {MaxVersions, MaxMissed, MaxRetries, MaxCrashes} \subseteq Nat

VARIABLES
  plan,       \* the row of ceo_plans
  versions,   \* ceo_plan_versions: contents, with the revision their author saw
  approvals,  \* ceo_approvals
  links,      \* ceo_delegation_links
  log,        \* ceo_plan_events: the types, in order
  tasks,      \* the statuses of the children's tasks
  others,     \* how many other tasks the store holds, the parent among them
  call,       \* what each client has read, or the request it has under way
  up,         \* "down", "recovering" or "serving"
  boot,       \* which process it is: the secret of its tokens
  missed,     \* how many hook calls were lost, and whether one still matters
  retries     \* how many children were retried

store == <<plan, versions, approvals, links, log>>
vars == <<store, tasks, others, call, up, boot, missed, retries>>

Undelegated == {"draft", "awaiting_approval", "approved", "rejected"}
PlanStatus == Undelegated \cup {"delegated", "cancelled", "completed", "failed", "deleted"}
TaskStatus == {"waiting", "running", "completed", "failed", "cancelled"}
StepProgress == (TaskStatus \ {"waiting"}) \cup {"ready_to_start", "waiting_for_dependencies", "blocked"}
EventType ==
  {"created", "version_created", "submitted", "approved", "rejected", "cancelled",
   "delegated", "progress_changed", "completed", "failed"}

Active == versions[plan.active].content
Fingerprint == UNION {[StepsOf[c] -> StepProgress] : c \in Contents}
Plan ==
  [status : PlanStatus, active : Nat, revision : Nat, shown : Fingerprint \cup {None}]
Child == [step : Steps, at : Nat]
Call ==
  [op : {"read", "edit", "delegate"}, boot : Nat, revision : Nat, seen : Nat,
   content : Contents \cup {None}]

ASSUME NoneIsNothing == None \notin Contents \cup Call \cup Fingerprint

Init ==
  /\ plan = [status |-> "draft", active |-> 1, revision |-> 0, shown |-> None]
  /\ versions = <<[content |-> Draft, seen |-> 0]>>
  /\ approvals = <<>>
  /\ links = {}
  /\ log = <<"created">>
  /\ tasks = <<>>
  /\ others = 1
  /\ call = [b \in Clients |-> None]
  /\ up = "serving"
  /\ boot = 0
  /\ missed = [count |-> 0, stale |-> FALSE]
  /\ retries = 0

-----------------------------------------------------------------------------
(* Requests. *)

Exists == plan.status # "deleted"

Holds(b, op) == up = "serving" /\ call[b] # None /\ call[b].op = op

(* #verifyMutationToken, read in the transaction that writes *)
Verified(b) == Exists /\ call[b].boot = boot /\ call[b].revision = plan.revision

(* Every write to the row bumps its revision and appends its event. *)
Write(status, active, shown, event) ==
  /\ plan' = [status |-> status, active |-> active, revision |-> plan.revision + 1, shown |-> shown]
  /\ log' = Append(log, event)

(* GET /ceo-plans/:planId, the only place that gives a token; bound: a plan *)
(* that completed or failed takes no request, so its token is not read.    *)
Look(b) ==
  /\ up = "serving" /\ plan.status \in Undelegated \cup {"delegated", "cancelled"}
  /\ call[b] = None
  /\ call' = [call EXCEPT ![b] =
       [op |-> "read", boot |-> boot, revision |-> plan.revision, seen |-> plan.active,
        content |-> None]]
  /\ UNCHANGED <<store, tasks, others, up, boot, missed, retries>>

Answer(b) ==
  /\ call' = [call EXCEPT ![b] = None]
  /\ UNCHANGED <<others, up, boot, missed, retries>>

Mutates(b) == Holds(b, "read") /\ Verified(b) /\ Answer(b) /\ UNCHANGED <<versions, tasks>>

Submit(b) ==
  /\ Mutates(b)
  /\ plan.status = "draft"
  /\ Write("awaiting_approval", plan.active, plan.shown, "submitted")
  /\ UNCHANGED <<approvals, links>>

Decide(b, decision) ==
  /\ Mutates(b)
  /\ plan.status = "awaiting_approval"
  /\ call[b].seen = plan.active
  /\ Write(decision, plan.active, plan.shown, decision)
  /\ approvals' = Append(approvals, [version |-> plan.active, content |-> Active, decision |-> decision])
  /\ UNCHANGED links

Cancel(b) ==
  /\ Mutates(b)
  /\ plan.status \in Undelegated \cup {"delegated"}
  /\ Write("cancelled", plan.active, plan.shown, "cancelled")
  /\ UNCHANGED <<approvals, links>>

(* The versions and approvals go with the plan's row, its events stay. *)
Delete(b) ==
  /\ Mutates(b)
  /\ plan.status = "cancelled"
  /\ links = {}
  /\ plan' = [plan EXCEPT !.status = "deleted"]
  /\ UNCHANGED <<approvals, links, log>>

Send(b, op, content) ==
  /\ Holds(b, "read") /\ Exists
  /\ call' = [call EXCEPT ![b].op = op, ![b].content = content, ![b].seen = plan.active]
  /\ UNCHANGED <<store, tasks, others, up, boot, missed, retries>>

(* createVersion up to the detection it awaits *)
BeginEdit(b, content) == Len(versions) < MaxVersions /\ Send(b, "edit", content)

(* What if the row of the version were inserted after the commit? *)
StoreVersionLater(b) ==
  /\ Write("draft", plan.active + 1, plan.shown, "version_created")
  /\ UNCHANGED <<versions, approvals, links, tasks>>
  /\ Answer(b)

StoreVersion(b) ==
  /\ Len(versions) < MaxVersions
  /\ Write("draft", plan.active + 1, plan.shown, "version_created")
  /\ versions' = Append(versions, [content |-> call[b].content, seen |-> call[b].revision])
  /\ UNCHANGED <<approvals, links, tasks>>
  /\ Answer(b)

(* What if the token had been verified before the detection only? *)
FinishEditUnverified(b) ==
  /\ Holds(b, "edit")
  /\ plan.status \in Undelegated
  /\ StoreVersion(b)

FinishEdit(b) ==
  /\ Holds(b, "edit")
  /\ Verified(b)
  /\ plan.status \in Undelegated
  /\ StoreVersion(b)

Fits(n) == others + Cardinality(DOMAIN tasks) + n <= MaxTasks

(* delegate up to the detection it awaits *)
BeginDelegate(b) ==
  /\ plan.status = "approved"
  /\ Fits(Cardinality(StepsOf[Active]))
  /\ Send(b, "delegate", Active)

(* What if an error on the way left the children that were already stored? *)
StoreDelegationInParts(b, steps) ==
  /\ tasks' = [k \in DOMAIN tasks \cup {[step |-> s, at |-> plan.revision] : s \in steps} |->
                 IF k \in DOMAIN tasks THEN tasks[k] ELSE "waiting"]
  /\ UNCHANGED store
  /\ Answer(b)

(* The children, the links, the status and the event in one transaction. *)
StoreDelegation(b, steps) ==
  LET child(s) == [step |-> s, at |-> plan.revision]
      children == {child(s) : s \in steps}
  IN /\ tasks' = [k \in DOMAIN tasks \cup children |-> IF k \in children THEN "waiting" ELSE tasks[k]]
     /\ links' = links \cup {[version |-> plan.active, step |-> s, child |-> child(s)] : s \in steps}
     /\ Write("delegated", plan.active, plan.shown, "delegated")
     /\ UNCHANGED <<versions, approvals>>
     /\ Answer(b)

(* What if delegate trusted what it read before the detection? *)
FinishDelegateAsRead(b) ==
  /\ Holds(b, "delegate")
  /\ plan.status \in Undelegated \cup {"delegated"}
  /\ Fits(Cardinality(StepsOf[call[b].content]))
  /\ StoreDelegation(b, StepsOf[call[b].content])

(* What if only the first check of the capacity were left? *)
FinishDelegateOverCapacity(b) ==
  /\ Holds(b, "delegate")
  /\ plan.status = "approved" /\ plan.active = call[b].seen
  /\ Verified(b)
  /\ StoreDelegation(b, StepsOf[Active])

FinishDelegate(b) ==
  /\ Holds(b, "delegate")
  /\ plan.status = "approved" /\ plan.active = call[b].seen
  /\ Active = call[b].content
  /\ Verified(b)
  /\ Fits(Cardinality(StepsOf[Active]))
  /\ StoreDelegation(b, StepsOf[Active])

(* A stale token, an adapter that is not eligible, a cancelled parent: the *)
(* request is answered with an error and changes nothing.                  *)
Refuse(b) ==
  /\ up = "serving" /\ call[b] # None
  /\ UNCHANGED <<store, tasks>>
  /\ Answer(b)

-----------------------------------------------------------------------------
(* Progress. *)

ChildOf(s) == CHOOSE k \in DOMAIN tasks : \E l \in links : l.step = s /\ l.child = k

(* deriveCeoPlanProgress, of the tasks' statuses as they are in ts *)
Progress(ts) ==
  LET progress[s \in StepsOf[Active]] ==
        LET before == {progress[d] : d \in DependsOn[s]}
        IN IF ts[ChildOf(s)] # "waiting" THEN ts[ChildOf(s)]
           ELSE IF before \cap {"failed", "cancelled", "blocked"} # {} THEN "blocked"
           ELSE IF before \subseteq {"completed"} THEN "ready_to_start"
           ELSE "waiting_for_dependencies"
  IN progress

(* What if a plan completed once no step is left to run? *)
OutcomeOfEnded(progress) ==
  LET seen == {progress[s] : s \in DOMAIN progress}
  IN IF seen \subseteq {"completed", "cancelled"} THEN "completed"
     ELSE IF seen \cap {"failed", "blocked"} # {} THEN "failed"
     ELSE "delegated"

(* derivePlanTerminalOutcome *)
Outcome(progress) ==
  LET seen == {progress[s] : s \in DOMAIN progress}
  IN IF seen = {"completed"} THEN "completed"
     ELSE IF seen \cap {"failed", "cancelled", "blocked"} # {} THEN "failed"
     ELSE "delegated"

EventOf(status) == IF status = "delegated" THEN "progress_changed" ELSE status

(* What if a plan were synchronized whatever its status? *)
SynchronizeAnyPlan(ts) ==
  LET progress == Progress(ts)
      status == Outcome(progress)
  IN IF links # {} /\ progress # plan.shown
     THEN Write(status, plan.active, progress, EventOf(status))
     ELSE UNCHANGED <<plan, log>>

(* synchronizePlanProgress, after the tasks became ts *)
Synchronize(ts) ==
  LET progress == Progress(ts)
      status == Outcome(progress)
  IN IF plan.status = "delegated" /\ progress # plan.shown
     THEN Write(status, plan.active, progress, EventOf(status))
     ELSE UNCHANGED <<plan, log>>

(* The listener may throw: the hook swallows it and the plan is not told. *)
Notify(ts) ==
  \/ /\ Synchronize(ts)
     /\ missed' = [missed EXCEPT !.stale = FALSE]
  \/ /\ missed.count < MaxMissed
     /\ missed' = [count |-> missed.count + 1, stale |-> TRUE]
     /\ UNCHANGED <<plan, log>>

Moves(k, status) ==
  /\ tasks' = [tasks EXCEPT ![k] = status]
  /\ Notify(tasks')
  /\ UNCHANGED <<versions, approvals, links, others, call, up, boot>>

StartChild(k) == up = "serving" /\ tasks[k] = "waiting" /\ Moves(k, "running") /\ UNCHANGED retries
(* The agent may end any way it likes; a child that has not begun to run   *)
(* may still fail or be cancelled.                                         *)
EndChild(k, status) ==
  /\ up = "serving"
  /\ tasks[k] \in (IF status = "completed" THEN {"running"} ELSE {"waiting", "running"})
  /\ Moves(k, status)
  /\ UNCHANGED retries

RetryChild(k) ==
  /\ up = "serving" /\ tasks[k] = "failed" /\ retries < MaxRetries
  /\ retries' = retries + 1
  /\ Moves(k, "waiting")

-----------------------------------------------------------------------------
(* The rest of the server. *)

OtherTask ==
  /\ up = "serving" /\ Fits(1)
  /\ others' = others + 1
  /\ UNCHANGED <<store, tasks, call, up, boot, missed, retries>>

Crash ==
  /\ up # "down" /\ boot < MaxCrashes
  /\ up' = "down"
  /\ boot' = boot + 1
  /\ call' = [b \in Clients |->
       IF call[b] # None /\ call[b].op # "read" THEN None ELSE call[b]]
  /\ UNCHANGED <<store, tasks, others, missed, retries>>

Restart ==
  /\ up = "down"
  /\ up' = "recovering"
  /\ UNCHANGED <<store, tasks, others, call, boot, missed, retries>>

(* reconcileTasks ends a child its process left running, the way its log   *)
(* says or as failed, through the same hook.                               *)
RecoverChild(k, status) ==
  up = "recovering" /\ tasks[k] = "running" /\ Moves(k, status) /\ UNCHANGED retries

Recovered == up = "recovering" /\ \A k \in DOMAIN tasks : tasks[k] # "running"

(* What if the boot left the missed progress to the next task mutation? *)
ReconcileNothing ==
  /\ Recovered
  /\ missed' = [missed EXCEPT !.stale = FALSE]
  /\ up' = "serving"
  /\ UNCHANGED <<store, tasks, others, call, boot, retries>>

(* reconcileAllPlanProgress, then the server listens. *)
Reconcile ==
  /\ Recovered
  /\ Synchronize(tasks)
  /\ missed' = [missed EXCEPT !.stale = FALSE]
  /\ up' = "serving"
  /\ UNCHANGED <<versions, approvals, links, tasks, others, call, boot, retries>>

Request(b) ==
  \/ Look(b) \/ Submit(b) \/ Cancel(b) \/ Delete(b) \/ BeginDelegate(b)
  \/ FinishEdit(b) \/ FinishDelegate(b) \/ Refuse(b)
  \/ \E decision \in {"approved", "rejected"} : Decide(b, decision)
  \/ \E content \in Contents : BeginEdit(b, content)

ChildStep(k) ==
  \/ StartChild(k) \/ RetryChild(k)
  \/ \E status \in {"completed", "failed", "cancelled"} :
       EndChild(k, status) \/ RecoverChild(k, status)

Next ==
  \/ \E b \in Clients : Request(b)
  \/ \E k \in DOMAIN tasks : ChildStep(k)
  \/ OtherTask \/ Crash \/ Restart \/ Reconcile

Spec == Init /\ [][Next]_vars

-----------------------------------------------------------------------------
(* Every variable has its type. *)
TypeOK ==
  /\ plan \in Plan /\ plan.active \in 1..Len(versions)
  /\ plan.shown # None => plan.shown \in [StepsOf[Active] -> StepProgress]
  /\ versions \in Seq([content : Contents, seen : Nat])
  /\ approvals \in Seq([version : Nat, content : Contents, decision : {"approved", "rejected"}])
  /\ links \subseteq [version : Nat, step : Steps, child : Child]
  /\ log \in Seq(EventType)
  /\ DOMAIN tasks \subseteq Child /\ tasks \in [DOMAIN tasks -> TaskStatus]
  /\ others \in 1..MaxTasks
  /\ call \in [Clients -> Call \cup {None}]
  /\ up \in {"down", "recovering", "serving"}
  /\ boot \in 0..MaxCrashes /\ retries \in 0..MaxRetries
  /\ missed \in [count : 0..MaxMissed, stale : BOOLEAN]

(* What was delegated is what was approved: however the edits, decisions   *)
(* and delegations of the clients interleave with the detection, the       *)
(* children are one each for the steps of the active version, and the last *)
(* decision on the plan approved that version with that content            *)
(* (CeoPlanOrchestrator.delegate re-reads all of it in its transaction).   *)
OnlyTheApprovedIsDelegated ==
  links # {} =>
    /\ Last(approvals) = [version |-> plan.active, content |-> Active, decision |-> "approved"]
    /\ {l.step : l \in links} = StepsOf[Active]
    /\ \A l \in links : l.version = plan.active

(* A delegation is all or nothing and happens once: every child task has   *)
(* its link, and no step has two children.                                 *)
OneChildPerStep ==
  /\ DOMAIN tasks = {l.child : l \in links}
  /\ \A l, m \in links : l.step = m.step => l = m

(* No edit undoes what its author has not seen: the event of every version *)
(* comes right after the events its author had read, so another edit, a    *)
(* submission or a decision that arrived during the detection refuses it   *)
(* (the token is verified after the detection, where the version is        *)
(* written).                                                               *)
NoEditIsLost ==
  \A n \in 2..Len(versions) :
    LET at == versions[n].seen + 2
        edits == {i \in 1..at : log[i] = "version_created"}
    IN at <= Len(log) /\ at \in edits /\ Cardinality(edits) = n - 1

(* The tasks stay within limits.maxTasks, whatever was created while a     *)
(* delegation that had counted them awaited the detection.                 *)
WithinCapacity == others + Cardinality(DOMAIN tasks) <= MaxTasks

(* Unless a hook call was lost since, the fingerprint a delegated plan     *)
(* stores is its children's progress now and that progress is not yet an   *)
(* outcome; a boot restores this whatever was lost before it, crashes in   *)
(* the middle of the recovery included.                                    *)
ProgressIsCurrent ==
  (plan.status = "delegated" /\ up = "serving" /\ ~missed.stale) =>
    LET progress == Progress(tasks)
    IN /\ Outcome(progress) = "delegated"
       /\ IF plan.shown = None THEN \A k \in DOMAIN tasks : tasks[k] = "waiting"
          ELSE plan.shown = progress

(* An outcome is earned and lasts: a completed plan's children have all    *)
(* completed and stay so; a failed plan recorded a step that cannot        *)
(* complete, even when that child is retried later.                        *)
OutcomeIsEarned ==
  /\ plan.status = "completed" => \A k \in DOMAIN tasks : tasks[k] = "completed"
  /\ plan.status = "failed" => Outcome(plan.shown) = "failed"

StatusOf(event) ==
  CASE event \in {"created", "version_created"} -> "draft"
    [] event = "submitted" -> "awaiting_approval"
    [] event = "progress_changed" -> "delegated"
    [] OTHER -> event

(* The event log tells the whole story: its last event gives the plan's    *)
(* status, and no event follows one that ended the plan.                   *)
LogTellsTheStatus ==
  /\ Exists => StatusOf(Last(log)) = plan.status
  /\ \A i \in 1..(Len(log) - 1) : log[i] \notin {"cancelled", "completed", "failed"}

(* The invariant of a plan, whatever arrives while a request awaits the    *)
(* detection of the adapters: what is delegated was approved, once per     *)
(* step and within the task limit, no edit is lost, and the stored status, *)
(* progress and log are those of the plan's children.                      *)
CeoPlanInv ==
  /\ TypeOK
  /\ OnlyTheApprovedIsDelegated
  /\ OneChildPerStep
  /\ NoEditIsLost
  /\ WithinCapacity
  /\ ProgressIsCurrent
  /\ OutcomeIsEarned
  /\ LogTellsTheStatus
=============================================================================
