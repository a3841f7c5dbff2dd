--------------------------- MODULE CeoPlanProofs ---------------------------
(***************************************************************************)
(* What holds of a CEO plan for any clients, any contents whose steps do   *)
(* not depend on each other in a circle, and any number of versions,       *)
(* missed hook calls, retries and crashes: CeoPlanInv.                     *)
(*                                                                         *)
(* First the progress a plan stores.  Its definition is recursive over the *)
(* steps; that there is such a function at all is shown by induction over  *)
(* how many steps have been derived (DerivationExists), since as long as a *)
(* step is left one is whose dependencies are not.  Then the inductive     *)
(* invariant IInv, the steps that leave the plan alone, those that write   *)
(* it, the delegation, and the children that move.                         *)
(***************************************************************************)
EXTENDS CeoPlan, FiniteSetTheorems, SequenceTheorems, WellFoundedInduction, TLAPS

-----------------------------------------------------------------------------
(* Progress. *)

(* Induction over the natural numbers, as a fact about sets.               *)
LEMMA SetInduction ==
  ASSUME NEW T, 0 \in T, \A n \in Nat : n \in T => n + 1 \in T
  PROVE  Nat \subseteq T
<1> DEFINE Leftover == Nat \ T
<1>1. SUFFICES ASSUME Leftover # {} PROVE FALSE
  OBVIOUS
<1>2. PICK x \in Leftover : \A y \in Leftover : ~(<<y, x>> \in OpToRel(<, Nat))
  BY <1>1, WFMin, NatLessThanWellFounded
<1>3. x \in Nat /\ x # 0
  OBVIOUS
<1>4. x - 1 \in Nat /\ x - 1 < x /\ (x - 1) + 1 = x
  BY <1>3, SMT
<1>5. x - 1 \in Leftover
  BY <1>2, <1>4
<1>6. <<x - 1, x>> \in OpToRel(<, Nat)
  BY <1>3, <1>4, SMT DEF OpToRel
<1> QED
  BY <1>2, <1>5, <1>6

(* What deriveCeoPlanProgress says of a step whose task has the status     *)
(* own[s], given what it says (f) of the steps it depends on.              *)
Derived(f, own, s) ==
  LET before == {f[d] : d \in DependsOn[s]}
  IN IF own[s] # "waiting" THEN own[s]
     ELSE IF before \cap {"failed", "cancelled", "blocked"} # {} THEN "blocked"
     ELSE IF before \subseteq {"completed"} THEN "ready_to_start"
     ELSE "waiting_for_dependencies"

(* f derives the progress of the steps in X from the statuses in own.      *)
Derives(f, X, own) == f = [s \in X |-> Derived(f, own, s)]

Closed(X) == \A s \in X : DependsOn[s] \subseteq X

(* A step says the same under two functions that agree on what it needs.   *)
LEMMA DerivedAgrees ==
  ASSUME NEW f, NEW g, NEW own, NEW s, \A d \in DependsOn[s] : f[d] = g[d]
  PROVE  Derived(f, own, s) = Derived(g, own, s)
<1>1. {f[d] : d \in DependsOn[s]} = {g[d] : d \in DependsOn[s]}
  OBVIOUS
<1> QED
  BY <1>1 DEF Derived

(* One more step whose dependencies have all been derived.                 *)
LEMMA OneMoreDerived ==
  ASSUME NEW X, Closed(X), NEW own, NEW f, Derives(f, X, own),
         NEW x, x \notin X, DependsOn[x] \subseteq X
  PROVE  \E g : Derives(g, X \cup {x}, own)
<1> DEFINE Y == X \cup {x}
           last == Derived(f, own, x)
           g == [s \in Y |-> IF s = x THEN last ELSE f[s]]
           h == [s \in Y |-> Derived(g, own, s)]
<1>1. \A s \in X : g[s] = f[s]
  OBVIOUS
<1>2. ASSUME NEW s \in Y
      PROVE  g[s] = Derived(g, own, s)
  <2>1. DependsOn[s] \subseteq X
    BY DEF Closed
  <2>2. Derived(f, own, s) = Derived(g, own, s)
    <3> HIDE DEF g
    <3> QED
      BY <1>1, <2>1, DerivedAgrees
  <2>3. CASE s = x
    BY <2>2, <2>3
  <2>4. CASE s # x
    <3>1. s \in X /\ g[s] = f[s]
      BY <2>4
    <3>2. f[s] = Derived(f, own, s)
      BY <3>1 DEF Derives
    <3> QED
      BY <2>2, <3>1, <3>2
  <2> QED
    BY <2>3, <2>4
<1>3. g = h
  <2>1. g = [s \in Y |-> g[s]]
    OBVIOUS
  <2> HIDE DEF g
  <2> QED
    BY <1>2, <2>1
<1> HIDE DEF g
<1> QED
  BY <1>3 DEF Derives

(* No circle, hence a function that derives the progress of all steps:     *)
(* as long as a step is left, one is whose dependencies are not.           *)
LEMMA DerivationExists ==
  ASSUME NEW c \in Contents, NEW own
  PROVE  \E f : Derives(f, StepsOf[c], own)
<1> DEFINE S == StepsOf[c]
           Done(n) == \E X \in SUBSET S :
                        Closed(X) /\ Cardinality(X) = n /\ \E f : Derives(f, X, own)
           T == {n \in Nat : n <= Cardinality(S) => Done(n)}
<1>1. IsFiniteSet(S) /\ Cardinality(S) \in Nat
  BY PlanContents, FS_CardinalityType DEF ValidSteps
<1>2. 0 \in T
  <2>1. Closed({}) /\ Cardinality({}) = 0
    BY FS_EmptySet DEF Closed
  <2>2. Derives([s \in {} |-> "waiting"], {}, own)
    BY DEF Derives
  <2> QED
    BY <2>1, <2>2
<1>3. ASSUME NEW n \in Nat, n \in T
      PROVE  n + 1 \in T
  <2>1. SUFFICES ASSUME n + 1 <= Cardinality(S) PROVE Done(n + 1)
    OBVIOUS
  <2>2. n <= Cardinality(S)
    BY <1>1, <2>1
  <2>3. PICK X \in SUBSET S : Closed(X) /\ Cardinality(X) = n /\ \E f : Derives(f, X, own)
    BY <1>3, <2>2
  <2>4. PICK f : Derives(f, X, own)
    BY <2>3
  <2>5. S \ X # {}
    <3>1. S = X => n = Cardinality(S)
      BY <2>3
    <3>2. n # Cardinality(S)
      BY <1>1, <2>1
    <3> QED
      BY <3>1, <3>2
  <2>6. PICK x \in S \ X : DependsOn[x] \cap (S \ X) = {}
    <3>1. S \ X \in SUBSET S
      OBVIOUS
    <3> HIDE DEF S
    <3> QED
      BY <2>5, <3>1, PlanContents DEF S, ValidSteps
  <2>7. DependsOn[x] \subseteq X
    <3>1. DependsOn[x] \subseteq S
      BY PlanContents DEF ValidSteps
    <3> QED
      BY <2>6, <3>1
  <2>8. Closed(X \cup {x}) /\ X \cup {x} \in SUBSET S
    BY <2>3, <2>7 DEF Closed
  <2>9. IsFiniteSet(X)
    BY <1>1, FS_Subset
  <2>10. Cardinality(X \cup {x}) = n + 1
    BY <2>3, <2>9, FS_AddElement
  <2>11. \E g : Derives(g, X \cup {x}, own)
    BY <2>3, <2>4, <2>7, OneMoreDerived
  <2> QED
    BY <2>8, <2>10, <2>11
<1> HIDE DEF T
<1>4. Nat \subseteq T
  BY <1>2, <1>3, SetInduction
<1>5. Done(Cardinality(S))
  BY <1>1, <1>4 DEF T
<1>6. PICK X \in SUBSET S : Cardinality(X) = Cardinality(S) /\ \E f : Derives(f, X, own)
  BY <1>5
<1>7. X = S
  BY <1>1, <1>6, FS_Subset
<1> QED
  BY <1>6, <1>7

(* The statuses of the children of the active version's steps.             *)
Own(ts) == [s \in StepsOf[Active] |-> ts[ChildOf(s)]]

(* The progress a plan stores is what its definition asks for.             *)
LEMMA ProgressIsDerived ==
  ASSUME Active \in Contents, NEW ts
  PROVE  Derives(Progress(ts), StepsOf[Active], Own(ts))
<1> DEFINE S == StepsOf[Active]
           Body(f, s) ==
             LET before == {f[d] : d \in DependsOn[s]}
             IN IF ts[ChildOf(s)] # "waiting" THEN ts[ChildOf(s)]
                ELSE IF before \cap {"failed", "cancelled", "blocked"} # {} THEN "blocked"
                ELSE IF before \subseteq {"completed"} THEN "ready_to_start"
                ELSE "waiting_for_dependencies"
           g == CHOOSE f : f = [s \in S |-> Body(f, s)]
<1>1. Progress(ts) = g
  BY DEF Progress
<1>2. \A f : \A s \in S : Body(f, s) = Derived(f, Own(ts), s)
  <2>1. \A s \in S : Own(ts)[s] = ts[ChildOf(s)]
    BY DEF Own
  <2> HIDE DEF S
  <2> QED
    BY <2>1 DEF Derived
<1> HIDE DEF Body
<1>3. PICK f : f = [s \in S |-> Derived(f, Own(ts), s)]
  BY DerivationExists DEF Derives
<1>4. f = [s \in S |-> Body(f, s)]
  BY <1>2, <1>3
<1>5. g = [s \in S |-> Body(g, s)]
  BY <1>4
<1>6. g = [s \in S |-> Derived(g, Own(ts), s)]
  <2> HIDE DEF g
  <2> QED
    BY <1>2, <1>5
<1> QED
  BY <1>1, <1>6 DEF Derives

(* f tells of each step in S what its task and its dependencies say.       *)
Tells(f, S, own) == f \in [S -> StepProgress] /\ \A s \in S : f[s] = Derived(f, own, s)

(* Every child has a status, so every step has a progress.                 *)
LEMMA ProgressType ==
  ASSUME NEW S, NEW own, \A s \in S : own[s] \in TaskStatus, NEW f, Derives(f, S, own)
  PROVE  Tells(f, S, own)
<1>1. \A s \in S : Derived(f, own, s) \in StepProgress
  BY DEF Derived, StepProgress, TaskStatus
<1>2. f = [s \in S |-> Derived(f, own, s)]
  BY DEF Derives
<1>3. \A s \in S : f[s] = Derived(f, own, s)
  BY <1>2
<1> QED
  BY <1>1, <1>2, <1>3 DEF Tells

(* As long as no child has begun, nothing is blocked: the first step in    *)
(* dependency order that was would depend on one that is.                  *)
LEMMA NothingBegun ==
  ASSUME NEW c \in Contents, NEW own, \A s \in StepsOf[c] : own[s] = "waiting",
         NEW f, Derives(f, StepsOf[c], own)
  PROVE  Outcome(f) = "delegated"
<1> DEFINE S == StepsOf[c]
           Calm == {"ready_to_start", "waiting_for_dependencies"}
           T == {s \in S : f[s] \notin Calm}
<1>1. f = [s \in S |-> Derived(f, own, s)]
  BY DEF Derives
<1>2. \A s \in S : f[s] = Derived(f, own, s)
  BY <1>1
<1>3. ASSUME T # {} PROVE FALSE
  <2>1. PICK s \in T : DependsOn[s] \cap T = {}
    <3>1. T \in SUBSET S
      OBVIOUS
    <3> HIDE DEF T
    <3> QED
      BY <1>3, <3>1, PlanContents DEF ValidSteps
  <2>2. \A d \in DependsOn[s] : f[d] \in Calm
    BY <2>1, PlanContents DEF ValidSteps
  <2>3. Derived(f, own, s) \in Calm
    BY <2>2 DEF Derived
  <2> QED
    BY <1>2, <2>3
<1>4. \A s \in S : f[s] \in Calm
  BY <1>3
<1>5. DOMAIN f = S
  BY <1>1
<1> DEFINE seen == {f[s] : s \in DOMAIN f}
<1>6. seen # {"completed"} /\ seen \cap {"failed", "cancelled", "blocked"} = {}
  <2>1. \A x \in seen : x \in Calm
    BY <1>4, <1>5
  <2> HIDE DEF seen
  <2> QED
    BY <2>1
<1> HIDE DEF seen
<1> QED
  BY <1>6 DEF Outcome, seen

(* A plan completes when all its children have.                            *)
LEMMA CompletedTogether ==
  ASSUME NEW S, NEW own, \A s \in S : own[s] \in TaskStatus, NEW f, Derives(f, S, own),
         Outcome(f) = "completed"
  PROVE  \A s \in S : own[s] = "completed"
<1>1. f \in [S -> StepProgress] /\ \A s \in S : f[s] = Derived(f, own, s)
  <2>1. Tells(f, S, own)
    BY ProgressType
  <2> QED
    BY <2>1 DEF Tells
<1>2. {f[s] : s \in DOMAIN f} = {"completed"}
  BY DEF Outcome
<1>3. \A s \in S : f[s] = "completed"
  BY <1>1, <1>2
<1>4. \A s \in S : Derived(f, own, s) = "completed" => own[s] = "completed"
  BY DEF Derived
<1> QED
  BY <1>1, <1>3, <1>4

(* The status a plan takes from its progress.                              *)
LEMMA OutcomeType ==
  ASSUME NEW f
  PROVE  /\ Outcome(f) \in {"completed", "failed", "delegated"}
         /\ EventOf(Outcome(f)) \in EventType
         /\ StatusOf(EventOf(Outcome(f))) = Outcome(f)
         /\ EventOf(Outcome(f)) # "version_created"
<1>1. Outcome(f) \in {"completed", "failed", "delegated"}
  BY DEF Outcome
<1> QED
  BY <1>1 DEF EventOf, EventType, StatusOf

-----------------------------------------------------------------------------
(* The inductive invariant. *)

Decided ==
  /\ approvals # <<>>
  /\ Last(approvals) = [version |-> plan.active, content |-> Active, decision |-> "approved"]

(* Before the delegation the plan has no children and no progress; an      *)
(* approved plan's last decision approved what it says now; a delegated    *)
(* plan has a child for each of its steps.                                 *)
Decisions ==
  /\ OnlyTheApprovedIsDelegated
  /\ plan.status = "approved" => Decided
  /\ plan.status \in Undelegated => links = {} /\ plan.shown = None
  /\ plan.status = "delegated" => {l.step : l \in links} = StepsOf[Active]

Edited(l, n) == {i \in 1..n : l[i] = "version_created"}

(* One event per revision, and one of them per version after the first.    *)
Versions ==
  /\ plan.active = Len(versions)
  /\ Len(log) = plan.revision + 1
  /\ Cardinality(Edited(log, Len(log))) = Len(versions) - 1
  /\ NoEditIsLost

Asked ==
  \A b \in Clients : (call[b] # None /\ call[b].op = "edit") => call[b].content \in Contents

Children == OneChildPerStep /\ IsFiniteSet(DOMAIN tasks)

(* What ProgressIsCurrent says, whoever serves and whatever was missed.    *)
Current ==
  plan.status = "delegated" =>
    LET progress == Progress(tasks)
    IN /\ Outcome(progress) = "delegated"
       /\ IF plan.shown = None THEN \A k \in DOMAIN tasks : tasks[k] = "waiting"
          ELSE plan.shown = progress

Outcomes ==
  /\ OutcomeIsEarned
  /\ (plan.status = "delegated" /\ plan.shown # None) => Outcome(plan.shown) = "delegated"

(* What the plan, its rows and its children's tasks satisfy together.      *)
Stored ==
  /\ Decisions
  /\ Versions
  /\ Children
  /\ Outcomes
  /\ LogTellsTheStatus

IInv ==
  /\ TypeOK
  /\ Stored
  /\ Asked
  /\ WithinCapacity
  /\ ProgressIsCurrent

(* What is inductive says all that is claimed.                             *)
LEMMA InvariantImplies == IInv => CeoPlanInv
BY DEF IInv, Stored, Decisions, Versions, Children, Outcomes, CeoPlanInv

(* A new plan.                                                             *)
LEMMA InitInvariant == Init => IInv
<1> SUFFICES ASSUME Init PROVE IInv
  OBVIOUS
<1> USE DEF Init
<1>1. StepsOf[Draft] \subseteq Steps /\ Active = Draft /\ Draft \in Contents
  BY PlanContents DEF Active, ValidSteps
<1>2. TypeOK
  <2>1. plan \in Plan
    BY DEF Plan, PlanStatus, Undelegated
  <2>2. versions \in Seq([content : Contents, seen : Nat]) /\ Len(versions) = 1
    BY <1>1
  <2>3. log \in Seq(EventType)
    BY DEF EventType
  <2>4. DOMAIN tasks = {} /\ tasks \in [DOMAIN tasks -> TaskStatus]
    OBVIOUS
  <2>5. others \in 1..MaxTasks /\ boot \in 0..MaxCrashes /\ retries \in 0..MaxRetries
        /\ missed \in [count : 0..MaxMissed, stale : BOOLEAN]
    BY PlanBounds
  <2> QED
    BY <2>1, <2>2, <2>3, <2>4, <2>5 DEF TypeOK
<1>3. Decisions
  BY DEF Decisions, OnlyTheApprovedIsDelegated, Undelegated
<1>4. Versions
  <2>1. Len(log) = 1 /\ Len(versions) = 1
    OBVIOUS
  <2>2. Edited(log, Len(log)) = {}
    BY DEF Edited
  <2>3. Cardinality({}) = 0
    BY FS_EmptySet
  <2>4. Cardinality(Edited(log, Len(log))) = Len(versions) - 1
    <3>1. Cardinality(Edited(log, Len(log))) = 0
      BY <2>2, <2>3
    <3> HIDE DEF Init
    <3> QED
      BY <2>1, <3>1
  <2>5. NoEditIsLost
    BY <2>1 DEF NoEditIsLost
  <2> QED
    BY <2>1, <2>4, <2>5 DEF Versions
<1>5. Children /\ Cardinality(DOMAIN tasks) = 0
  <2>1. DOMAIN tasks = {}
    OBVIOUS
  <2> QED
    BY <2>1, FS_EmptySet DEF Children, OneChildPerStep
<1>6. Outcomes
  BY DEF Outcomes, OutcomeIsEarned
<1>7. LogTellsTheStatus
  BY DEF LogTellsTheStatus, StatusOf, Last
<1>8. Asked /\ ProgressIsCurrent
  BY DEF Asked, ProgressIsCurrent
<1>9. WithinCapacity
  BY <1>5, PlanBounds DEF WithinCapacity
<1> QED
  BY <1>2, <1>3, <1>4, <1>5, <1>6, <1>7, <1>8, <1>9 DEF IInv, Stored

-----------------------------------------------------------------------------
(* Steps that leave the plan and its children alone. *)

(* What does not touch them keeps them as they are.                        *)
LEMMA StoredKept ==
  ASSUME Stored, UNCHANGED <<store, tasks>>
  PROVE  Stored'
<1>1. plan' = plan /\ versions' = versions /\ approvals' = approvals /\ links' = links
      /\ log' = log /\ tasks' = tasks
  BY DEF store
<1>2. Decisions'
  BY <1>1 DEF Stored, Decisions, OnlyTheApprovedIsDelegated, Decided, Active
<1>3. Versions'
  BY <1>1 DEF Stored, Versions, NoEditIsLost, Edited
<1>4. Children'
  BY <1>1 DEF Stored, Children, OneChildPerStep
<1>5. Outcomes'
  BY <1>1 DEF Stored, Outcomes, OutcomeIsEarned
<1>6. LogTellsTheStatus'
  BY <1>1 DEF Stored, LogTellsTheStatus, Exists
<1> QED
  BY <1>2, <1>3, <1>4, <1>5, <1>6 DEF Stored

(* The children run where the links say, under whatever name a state has   *)
(* for the tasks.                                                          *)
LEMMA SameProgress ==
  ASSUME DOMAIN tasks' = DOMAIN tasks, links' = links, StepsOf[Active]' = StepsOf[Active]
  PROVE  Progress(tasks)' = Progress(tasks')
BY DEF Progress, ChildOf

(* A crash, a restart or a request leaves the progress as current as it    *)
(* was.                                                                    *)
LEMMA CurrentKept ==
  ASSUME ProgressIsCurrent, UNCHANGED <<store, tasks>>,
         up' = "serving" => (up = "serving" /\ missed' = missed)
  PROVE  ProgressIsCurrent'
<1>1. plan' = plan /\ versions' = versions /\ links' = links /\ tasks' = tasks
  BY DEF store
<1>2. Progress(tasks)' = Progress(tasks)
  BY <1>1, SameProgress DEF Active
<1> QED
  BY <1>1, <1>2 DEF ProgressIsCurrent

(* Reading, sending and dropping a request, and the rest of the server.    *)
Elsewhere ==
  /\ UNCHANGED <<store, tasks>>
  /\ call' \in [Clients -> Call \cup {None}]
  /\ up' \in {"down", "recovering", "serving"}
  /\ up' = "serving" => up = "serving"
  /\ boot' \in 0..MaxCrashes
  /\ missed' = missed /\ retries' = retries

(* None of these steps can break the invariant.                            *)
LEMMA ElsewhereInvariant ==
  ASSUME IInv, Elsewhere, Asked', others' \in 1..MaxTasks, WithinCapacity'
  PROVE  IInv'
<1>1. plan' = plan /\ versions' = versions /\ approvals' = approvals /\ links' = links
      /\ log' = log /\ tasks' = tasks
  BY DEF Elsewhere, store
<1>2. TypeOK'
  BY <1>1 DEF IInv, TypeOK, Elsewhere, Active
<1>3. Stored'
  BY StoredKept DEF IInv, Elsewhere
<1>4. ProgressIsCurrent'
  BY CurrentKept DEF IInv, Elsewhere
<1> QED
  BY <1>2, <1>3, <1>4 DEF IInv

(* One client's request or answer.                                         *)
Calls == call \in [Clients -> Call \cup {None}] /\ Asked

AskedOf(r) == (r # None /\ r.op = "edit") => r.content \in Contents

(* A client's new request asks for contents there are.                     *)
LEMMA OneCall ==
  ASSUME Calls, NEW b \in Clients, NEW r \in Call \cup {None}, AskedOf(r),
         call' = [call EXCEPT ![b] = r]
  PROVE  Calls'
<1>1. call' \in [Clients -> Call \cup {None}]
  BY DEF Calls
<1>2. ASSUME NEW c \in Clients, call'[c] # None, call'[c].op = "edit"
      PROVE  call'[c].content \in Contents
  <2>1. CASE c = b
    <3>1. call'[c] = r
      BY <2>1 DEF Calls
    <3> QED
      BY <1>2, <3>1 DEF AskedOf
  <2>2. CASE c # b
    <3>1. call'[c] = call[c]
      BY <2>2 DEF Calls
    <3> QED
      BY <1>2, <3>1 DEF Calls, Asked
  <2> QED
    BY <2>1, <2>2
<1> QED
  BY <1>1, <1>2 DEF Calls, Asked

(* The invariant types the calls.                                          *)
LEMMA CallsOfInvariant == ASSUME IInv PROVE Calls
BY DEF IInv, TypeOK, Calls

(* An answered client holds nothing.                                       *)
LEMMA AnswerCalls ==
  ASSUME IInv, NEW b \in Clients, Answer(b)
  PROVE  Calls'
<1>1. AskedOf(None)
  BY DEF AskedOf
<1>2. call' = [call EXCEPT ![b] = None]
  BY DEF Answer
<1> QED
  BY <1>1, <1>2, CallsOfInvariant, OneCall

(* A request, or the rest of a server that serves on.                      *)
LEMMA RequestInvariant ==
  ASSUME IInv, UNCHANGED <<store, tasks, others, up, boot, missed, retries>>, Calls'
  PROVE  IInv'
<1>1. up \in {"down", "recovering", "serving"} /\ boot \in 0..MaxCrashes
      /\ others \in 1..MaxTasks
  BY DEF IInv, TypeOK
<1>2. Elsewhere
  BY <1>1 DEF Elsewhere, Calls
<1>3. WithinCapacity'
  BY DEF IInv, WithinCapacity
<1> QED
  BY <1>1, <1>2, <1>3, ElsewhereInvariant DEF Calls

(* A client reads the plan and takes a token.                              *)
LEMMA LookInvariant ==
  ASSUME IInv, NEW b \in Clients, Look(b)
  PROVE  IInv'
<1> DEFINE r == [op |-> "read", boot |-> boot, revision |-> plan.revision,
                 seen |-> plan.active, content |-> None]
<1>1. r \in Call
  BY DEF IInv, TypeOK, Plan, Call
<1>2. AskedOf(r)
  BY DEF AskedOf
<1>3. call' = [call EXCEPT ![b] = r]
  BY DEF Look
<1> HIDE DEF r
<1>4. Calls'
  BY <1>1, <1>2, <1>3, CallsOfInvariant, OneCall
<1> QED
  BY <1>4, RequestInvariant DEF Look

(* A request that begins awaits the detection; it has written nothing.     *)
LEMMA SendInvariant ==
  ASSUME IInv, NEW b \in Clients, NEW op \in {"edit", "delegate"}, NEW content \in Contents,
         Send(b, op, content)
  PROVE  IInv'
<1> DEFINE r == [call[b] EXCEPT !.op = op, !.content = content, !.seen = plan.active]
<1>1. call[b] \in Call /\ call \in [Clients -> Call \cup {None}]
  BY DEF IInv, TypeOK, Send, Holds
<1>2. plan.active \in Nat
  BY DEF IInv, TypeOK, Plan
<1>3. r \in Call
  BY <1>1, <1>2 DEF Call
<1>4. r.content \in Contents
  BY <1>1 DEF Call
<1>5. call' = [call EXCEPT ![b] = r]
  BY <1>1 DEF Send
<1> HIDE DEF r
<1>6. Calls'
  BY <1>3, <1>4, <1>5, CallsOfInvariant, OneCall DEF AskedOf
<1> QED
  BY <1>6, RequestInvariant DEF Send

(* The active version has a content, with finitely many known steps.       *)
LEMMA ActiveType ==
  ASSUME TypeOK
  PROVE  /\ Active \in Contents
         /\ StepsOf[Active] \subseteq Steps
         /\ IsFiniteSet(StepsOf[Active])
<1>1. versions \in Seq([content : Contents, seen : Nat]) /\ plan.active \in 1..Len(versions)
  BY DEF TypeOK
<1>2. versions[plan.active] \in [content : Contents, seen : Nat]
  BY <1>1, ElementOfSeq
<1>3. Active \in Contents
  BY <1>2 DEF Active
<1> QED
  BY <1>3, PlanContents DEF ValidSteps

(* createVersion and delegate, up to the detection.                        *)
LEMMA BeginInvariant ==
  ASSUME IInv, NEW b \in Clients,
         BeginDelegate(b) \/ \E content \in Contents : BeginEdit(b, content)
  PROVE  IInv'
<1>1. CASE BeginDelegate(b)
  <2>1. Active \in Contents
    BY ActiveType DEF IInv
  <2>2. Send(b, "delegate", Active)
    BY <1>1 DEF BeginDelegate
  <2> QED
    BY <2>1, <2>2, SendInvariant
<1>2. CASE \E content \in Contents : BeginEdit(b, content)
  <2>1. PICK content \in Contents : Send(b, "edit", content)
    BY <1>2 DEF BeginEdit
  <2> QED
    BY <2>1, SendInvariant
<1> QED
  BY <1>1, <1>2

(* A refused request changes nothing.                                      *)
LEMMA RefuseInvariant ==
  ASSUME IInv, NEW b \in Clients, Refuse(b)
  PROVE  IInv'
<1>1. Calls'
  BY AnswerCalls DEF Refuse
<1> QED
  BY <1>1, RequestInvariant DEF Refuse, Answer

(* Another task is stored only where it fits.                              *)
LEMMA OtherTaskInvariant ==
  ASSUME IInv, OtherTask
  PROVE  IInv'
<1>1. others \in 1..MaxTasks /\ MaxTasks \in Nat /\ Cardinality(DOMAIN tasks) \in Nat
  BY FS_CardinalityType, PlanBounds DEF IInv, TypeOK, Stored, Children
<1>2. others' = others + 1 /\ tasks' = tasks /\ others + Cardinality(DOMAIN tasks) + 1 <= MaxTasks
  BY DEF OtherTask, Fits
<1>3. others' \in 1..MaxTasks /\ others' + Cardinality(DOMAIN tasks) <= MaxTasks
  BY <1>1, <1>2
<1>4. WithinCapacity'
  BY <1>2, <1>3 DEF WithinCapacity
<1>5. Elsewhere
  BY DEF IInv, TypeOK, OtherTask, Elsewhere
<1>6. Asked'
  BY DEF IInv, Asked, OtherTask
<1> QED
  BY <1>3, <1>4, <1>5, <1>6, ElsewhereInvariant

(* A crash drops the requests under way, and nothing else.                 *)
LEMMA CrashInvariant ==
  ASSUME IInv, Crash
  PROVE  IInv'
<1>1. call \in [Clients -> Call \cup {None}] /\ Asked
  BY DEF IInv, TypeOK
<1>2. call' \in [Clients -> Call \cup {None}] /\ \A b \in Clients : call'[b] \in {None, call[b]}
  <2> DEFINE kept(b) == IF call[b] # None /\ call[b].op # "read" THEN None ELSE call[b]
  <2>1. call' = [b \in Clients |-> kept(b)]
    BY DEF Crash
  <2>2. \A b \in Clients : kept(b) \in {None, call[b]} /\ kept(b) \in Call \cup {None}
    BY <1>1
  <2> HIDE DEF kept
  <2> QED
    BY <2>1, <2>2
<1>3. Asked'
  BY <1>1, <1>2 DEF Asked
<1>4. boot' \in 0..MaxCrashes
  <2>1. boot \in 0..MaxCrashes /\ MaxCrashes \in Nat
    BY PlanBounds DEF IInv, TypeOK
  <2>2. boot < MaxCrashes /\ boot' = boot + 1
    BY DEF Crash
  <2> QED
    BY <2>1, <2>2
<1>5. Elsewhere
  BY <1>2, <1>4 DEF Crash, Elsewhere
<1>6. others' \in 1..MaxTasks /\ WithinCapacity'
  BY DEF IInv, TypeOK, Crash, WithinCapacity
<1> QED
  BY <1>3, <1>5, <1>6, ElsewhereInvariant

(* A restart serves nobody yet.                                            *)
LEMMA RestartInvariant ==
  ASSUME IInv, Restart
  PROVE  IInv'
<1>1. Elsewhere
  BY DEF IInv, TypeOK, Restart, Elsewhere
<1>2. Asked'
  BY DEF IInv, Asked, Restart
<1>3. others' \in 1..MaxTasks /\ WithinCapacity'
  BY DEF IInv, TypeOK, Restart, WithinCapacity
<1> QED
  BY <1>1, <1>2, <1>3, ElsewhereInvariant

-----------------------------------------------------------------------------
(* Writes to the plan. *)

(* What Write leaves in the row and the log.                               *)
LEMMA Written ==
  ASSUME TypeOK, NEW status \in PlanStatus, NEW active \in Nat,
         NEW shown \in Fingerprint \cup {None}, NEW event \in EventType,
         Write(status, active, shown, event)
  PROVE  /\ plan' \in Plan
         /\ plan'.status = status /\ plan'.active = active
         /\ plan'.revision = plan.revision + 1 /\ plan'.shown = shown
         /\ log' = Append(log, event) /\ log' \in Seq(EventType)
<1>1. plan.revision \in Nat /\ log \in Seq(EventType)
  BY DEF TypeOK, Plan
<1>2. plan' = [status |-> status, active |-> active, revision |-> plan.revision + 1,
               shown |-> shown]
      /\ log' = Append(log, event)
  BY DEF Write
<1>3. plan' \in Plan
  BY <1>1, <1>2 DEF Plan
<1> QED
  BY <1>1, <1>2, <1>3

(* A plan that is written has not ended, and neither has its log.          *)
LEMMA LogWritten ==
  ASSUME LogTellsTheStatus, log \in Seq(EventType), Len(log) > 0,
         plan.status \in Undelegated \cup {"delegated"},
         NEW event \in EventType, log' = Append(log, event), StatusOf(event) = plan'.status
  PROVE  LogTellsTheStatus'
<1>1. /\ Len(log') = Len(log) + 1
      /\ \A i \in 1..Len(log) : log'[i] = log[i]
      /\ log'[Len(log')] = event
  BY DEF EventType
<1>2. StatusOf(Last(log')) = plan'.status
  BY <1>1 DEF Last
<1>3. plan.status \notin {"deleted", "cancelled", "completed", "failed"}
  BY DEF Undelegated
<1>4. log[Len(log)] \notin {"cancelled", "completed", "failed"}
  BY <1>3 DEF LogTellsTheStatus, Exists, Last, StatusOf
<1>5. ASSUME NEW i \in 1..(Len(log') - 1)
      PROVE  log'[i] \notin {"cancelled", "completed", "failed"}
  <2>1. i \in 1..Len(log) /\ Len(log) \in Nat
    BY <1>1
  <2>2. CASE i = Len(log)
    BY <1>1, <1>4, <2>1, <2>2
  <2>3. CASE i # Len(log)
    <3>1. i \in 1..(Len(log) - 1)
      BY <2>1, <2>3
    <3> QED
      BY <1>1, <2>1, <3>1 DEF LogTellsTheStatus
  <2> QED
    BY <2>2, <2>3
<1> QED
  BY <1>2, <1>5 DEF LogTellsTheStatus

(* The events a log had stay where they were.                              *)
LEMMA EditedKept ==
  ASSUME NEW l \in Seq(EventType), NEW event \in EventType, NEW n \in 0..Len(l)
  PROVE  Edited(Append(l, event), n) = Edited(l, n)
<1>1. \A i \in 1..n : Append(l, event)[i] = l[i]
  OBVIOUS
<1> QED
  BY <1>1 DEF Edited

(* A new event counts where it is appended, if it is a version's.          *)
LEMMA EditedGrows ==
  ASSUME NEW l \in Seq(EventType), NEW event \in EventType
  PROVE  Edited(Append(l, event), Len(l) + 1)
           = Edited(l, Len(l)) \cup (IF event = "version_created" THEN {Len(l) + 1} ELSE {})
<1>1. /\ \A i \in 1..Len(l) : Append(l, event)[i] = l[i]
      /\ Append(l, event)[Len(l) + 1] = event
      /\ Len(l) \in Nat
  OBVIOUS
<1>2. 1..(Len(l) + 1) = (1..Len(l)) \cup {Len(l) + 1}
  BY <1>1
<1> DEFINE m == Append(l, event)
<1> HIDE DEF m
<1>3. \A i : i \in Edited(m, Len(l) + 1) <=>
              \/ i \in 1..Len(l) /\ l[i] = "version_created"
              \/ i = Len(l) + 1 /\ event = "version_created"
  BY <1>1, <1>2 DEF Edited, m
<1> QED
  BY <1>3 DEF Edited, m

(* There are finitely many events.                                         *)
LEMMA EditedFinite ==
  ASSUME NEW l, NEW n \in Nat
  PROVE  IsFiniteSet(Edited(l, n))
<1>1. IsFiniteSet(1..n) /\ Edited(l, n) \subseteq 1..n
  BY FS_Interval DEF Edited
<1> QED
  BY <1>1, FS_Subset

(* The version n is where its author thought the next one would go.        *)
InPlace(n, vs, l) ==
  LET at == vs[n].seen + 2
  IN at <= Len(l) /\ at \in Edited(l, at) /\ Cardinality(Edited(l, at)) = n - 1

(* No later event moves it.                                                *)
LEMMA InPlaceKept ==
  ASSUME TypeOK, NEW n \in 2..Len(versions), InPlace(n, versions, log), NEW event \in EventType
  PROVE  InPlace(n, versions, Append(log, event))
<1>1. log \in Seq(EventType) /\ versions \in Seq([content : Contents, seen : Nat])
  BY DEF TypeOK
<1>2. versions[n] \in [content : Contents, seen : Nat]
  <2>1. n \in 1..Len(versions)
    BY <1>1
  <2> QED
    BY <1>1, <2>1, ElementOfSeq
<1> DEFINE at == versions[n].seen + 2
<1>3. at \in Nat /\ at <= Len(log) /\ Len(log) \in Nat
  BY <1>1, <1>2 DEF InPlace
<1>4. Len(Append(log, event)) = Len(log) + 1
  BY <1>1
<1>5. at \in 0..Len(log)
  BY <1>3
<1> HIDE DEF at
<1>6. Edited(Append(log, event), at) = Edited(log, at)
  BY <1>1, <1>5, EditedKept
<1>7. at <= Len(Append(log, event))
  BY <1>3, <1>4
<1> QED
  BY <1>6, <1>7 DEF InPlace, at

(* NoEditIsLost, version by version.                                       *)
LEMMA EditsInPlace ==
  NoEditIsLost <=> \A n \in 2..Len(versions) : InPlace(n, versions, log)
BY DEF NoEditIsLost, InPlace, Edited

(* A write that is no edit.                                                *)
LEMMA VersionsWritten ==
  ASSUME TypeOK, Versions, NEW event \in EventType \ {"version_created"},
         log' = Append(log, event), versions' = versions, plan'.active = plan.active,
         plan'.revision = plan.revision + 1
  PROVE  Versions'
<1>1. log \in Seq(EventType) /\ plan.revision \in Nat
  BY DEF TypeOK, Plan
<1>2. Len(log') = Len(log) + 1 /\ Len(log) = plan.revision + 1
  BY <1>1 DEF Versions
<1>3. Edited(log', Len(log')) = Edited(log, Len(log))
  <2>1. Edited(log', Len(log) + 1) = Edited(log, Len(log)) \cup {}
    BY <1>1, EditedGrows
  <2> QED
    BY <1>2, <2>1
<1>4. \A n \in 2..Len(versions) : InPlace(n, versions, log')
  BY InPlaceKept, EditsInPlace DEF Versions
<1>5. NoEditIsLost'
  BY <1>4 DEF NoEditIsLost, InPlace, Edited
<1>6. Len(log') = plan'.revision + 1
  BY <1>1, <1>2
<1>7. Cardinality(Edited(log', Len(log'))) = Len(versions') - 1
  BY <1>3 DEF Versions
<1>8. plan'.active = Len(versions')
  BY DEF Versions
<1> QED
  BY <1>5, <1>6, <1>7, <1>8 DEF Versions

(* A new version.                                                          *)
LEMMA VersionAdded ==
  ASSUME TypeOK, Versions, log' = Append(log, "version_created"),
         NEW v \in [content : Contents, seen : Nat], v.seen = plan.revision,
         versions' = Append(versions, v), plan'.active = plan.active + 1,
         plan'.revision = plan.revision + 1
  PROVE  Versions'
<1>1. log \in Seq(EventType) /\ plan.revision \in Nat
      /\ versions \in Seq([content : Contents, seen : Nat])
  BY DEF TypeOK, Plan
<1> DEFINE N == Len(versions)
           L == Len(log)
<1>2. N \in Nat /\ L \in Nat /\ L = plan.revision + 1 /\ N >= 1
  BY <1>1 DEF Versions, TypeOK
<1>3. Len(log') = L + 1 /\ Len(versions') = N + 1 /\ versions'[N + 1] = v
      /\ \A n \in 1..N : versions'[n] = versions[n]
  <2> DEFINE V == [content : Contents, seen : Nat]
  <2> HIDE DEF V
  <2> QED
    BY <1>1 DEF V
<1>4. Edited(log', L + 1) = Edited(log, L) \cup {L + 1}
  <2>1. "version_created" \in EventType
    BY DEF EventType
  <2> QED
    BY <1>1, <2>1, EditedGrows
<1>5. Cardinality(Edited(log', L + 1)) = N
  <2>1. IsFiniteSet(Edited(log, L)) /\ L + 1 \notin Edited(log, L)
    <3>1. IsFiniteSet(Edited(log, L))
      BY <1>2, EditedFinite
    <3>2. L + 1 \notin 1..L
      BY <1>2
    <3> QED
      BY <3>1, <3>2 DEF Edited
  <2>2. Cardinality(Edited(log, L)) = N - 1
    BY DEF Versions
  <2>3. Cardinality(Edited(log, L) \cup {L + 1}) = Cardinality(Edited(log, L)) + 1
    BY <2>1, FS_AddElement
  <2>4. Cardinality(Edited(log', L + 1)) = Cardinality(Edited(log, L)) + 1
    BY <1>4, <2>3
  <2> HIDE DEF N, L
  <2> QED
    BY <1>2, <2>2, <2>4 DEF N, L
<1>6. ASSUME NEW n \in 2..Len(versions')
      PROVE  InPlace(n, versions', log')
  <2>1. CASE n = N + 1
    <3>1. versions'[n].seen + 2 = L + 1
      BY <1>2, <1>3, <2>1
    <3>2. L + 1 <= Len(log') /\ L + 1 \in Edited(log', L + 1)
      BY <1>2, <1>3, <1>4
    <3>3. N = n - 1
      BY <1>2, <2>1
    <3> QED
      BY <1>5, <3>1, <3>2, <3>3 DEF InPlace
  <2>2. CASE n # N + 1
    <3>1. n \in 2..N /\ n \in 1..N
      BY <1>2, <1>3, <2>2
    <3>2. InPlace(n, versions, log)
      BY <3>1, EditsInPlace DEF Versions
    <3>3. InPlace(n, versions, log')
      BY <3>1, <3>2, InPlaceKept DEF EventType
    <3>4. versions'[n] = versions[n]
      BY <1>3, <3>1
    <3> QED
      BY <3>3, <3>4 DEF InPlace
  <2> QED
    BY <2>1, <2>2
<1>7. NoEditIsLost'
  BY <1>6 DEF NoEditIsLost, InPlace, Edited
<1>8. plan'.active = Len(versions') /\ Len(log') = plan'.revision + 1
  BY <1>2, <1>3 DEF Versions
<1>9. Cardinality(Edited(log', Len(log'))) = Len(versions') - 1
  BY <1>2, <1>3, <1>5
<1> QED
  BY <1>7, <1>8, <1>9 DEF Versions

Approval == [version : Nat, content : Contents, decision : {"approved", "rejected"}]

(* What a decision, a submission, a cancellation share: the plan takes a   *)
(* status that is neither delegated nor an outcome and keeps its version,  *)
(* its links and its children.                                             *)
LEMMA StatusWritten ==
  ASSUME IInv, NEW b \in Clients, Answer(b),
         plan.status \in Undelegated \cup {"delegated"},
         NEW status \in {"awaiting_approval", "approved", "rejected", "cancelled"},
         NEW event \in EventType \ {"version_created"}, StatusOf(event) = status,
         Write(status, plan.active, plan.shown, event),
         versions' = versions, tasks' = tasks, links' = links,
         approvals' \in Seq(Approval), Decisions'
  PROVE  IInv'
<1>1. /\ TypeOK /\ Stored /\ Decisions /\ Versions /\ Children /\ LogTellsTheStatus
      /\ WithinCapacity
  BY DEF IInv, Stored
<1>2. /\ plan' \in Plan
      /\ plan'.status = status /\ plan'.active = plan.active
      /\ plan'.revision = plan.revision + 1 /\ plan'.shown = plan.shown
      /\ log' = Append(log, event) /\ log' \in Seq(EventType)
  <2>1. status \in PlanStatus
    BY DEF PlanStatus, Undelegated
  <2>2. plan.active \in Nat /\ plan.shown \in Fingerprint \cup {None}
    BY <1>1 DEF TypeOK, Plan
  <2> QED
    BY <1>1, <2>1, <2>2, Written
<1>3. Calls'
  BY AnswerCalls
<1>4. others' = others /\ up' = up /\ boot' = boot /\ missed' = missed /\ retries' = retries
  BY DEF Answer
<1>5. Active' = Active
  BY <1>2 DEF Active
<1>6. TypeOK'
  BY <1>1, <1>2, <1>3, <1>4, <1>5 DEF TypeOK, Calls, Approval
<1>7. Versions'
  BY <1>1, <1>2, VersionsWritten
<1>8. Children'
  BY <1>1 DEF Children, OneChildPerStep
<1>9. Outcomes'
  BY <1>2 DEF Outcomes, OutcomeIsEarned
<1>10. LogTellsTheStatus'
  <2>1. log \in Seq(EventType) /\ Len(log) > 0
    BY <1>1 DEF TypeOK, Plan, Versions
  <2> QED
    BY <1>1, <1>2, <2>1, LogWritten
<1>11. WithinCapacity'
  BY <1>1, <1>4 DEF WithinCapacity
<1>12. ProgressIsCurrent'
  BY <1>2 DEF ProgressIsCurrent
<1> QED
  BY <1>3, <1>6, <1>7, <1>8, <1>9, <1>10, <1>11, <1>12 DEF IInv, Stored, Calls

(* submit: a draft awaits its approval.                                    *)
LEMMA SubmitInvariant ==
  ASSUME IInv, NEW b \in Clients, Submit(b)
  PROVE  IInv'
<1>1. /\ Answer(b) /\ plan.status = "draft"
      /\ Write("awaiting_approval", plan.active, plan.shown, "submitted")
      /\ versions' = versions /\ tasks' = tasks /\ links' = links /\ approvals' = approvals
  BY DEF Submit, Mutates
<1>2. plan'.status = "awaiting_approval" /\ plan'.active = plan.active /\ plan'.shown = plan.shown
  BY <1>1 DEF Write
<1>3. links = {} /\ plan.shown = None
  BY <1>1 DEF IInv, Stored, Decisions, Undelegated
<1>4. Decisions'
  BY <1>1, <1>2, <1>3 DEF Decisions, OnlyTheApprovedIsDelegated
<1>5. approvals' \in Seq(Approval)
  BY <1>1 DEF IInv, TypeOK, Approval
<1>6. "submitted" \in EventType \ {"version_created"} /\ StatusOf("submitted") = "awaiting_approval"
      /\ plan.status \in Undelegated
  BY <1>1 DEF EventType, StatusOf, Undelegated
<1> QED
  BY <1>1, <1>4, <1>5, <1>6, StatusWritten

(* decideApproval: the decision is on the version that is active.          *)
LEMMA DecideInvariant ==
  ASSUME IInv, NEW b \in Clients, NEW decision \in {"approved", "rejected"}, Decide(b, decision)
  PROVE  IInv'
<1> DEFINE a == [version |-> plan.active, content |-> Active, decision |-> decision]
<1>1. /\ Answer(b) /\ plan.status = "awaiting_approval"
      /\ Write(decision, plan.active, plan.shown, decision)
      /\ versions' = versions /\ tasks' = tasks /\ links' = links
      /\ approvals' = Append(approvals, a)
  BY DEF Decide, Mutates
<1>2. plan'.status = decision /\ plan'.active = plan.active /\ plan'.shown = plan.shown
  BY <1>1 DEF Write
<1>3. links = {} /\ plan.shown = None
  BY <1>1 DEF IInv, Stored, Decisions, Undelegated
<1>4. a \in Approval /\ approvals \in Seq(Approval)
  BY ActiveType DEF IInv, TypeOK, Plan, Approval
<1>5. approvals' \in Seq(Approval) /\ approvals' # <<>> /\ Last(approvals') = a
  <2> HIDE DEF a
  <2>1. Append(approvals, a) \in Seq(Approval)
        /\ Len(Append(approvals, a)) = Len(approvals) + 1
        /\ Append(approvals, a)[Len(approvals) + 1] = a
    BY <1>4
  <2>2. Append(approvals, a) # <<>>
    BY <1>4, <2>1, EmptySeq, AppendProperties
  <2> QED
    BY <1>1, <2>1, <2>2 DEF Last
<1>6. Active' = Active
  BY <1>1, <1>2 DEF Active
<1>7. plan'.status = "approved" => Decided'
  BY <1>2, <1>5, <1>6 DEF Decided
<1>8. Decisions'
  BY <1>1, <1>2, <1>3, <1>7 DEF Decisions, OnlyTheApprovedIsDelegated
<1>9. decision \in EventType \ {"version_created"} /\ StatusOf(decision) = decision
      /\ plan.status \in Undelegated
      /\ decision \in {"awaiting_approval", "approved", "rejected", "cancelled"}
  BY <1>1 DEF EventType, StatusOf, Undelegated
<1> QED
  BY <1>1, <1>5, <1>8, <1>9, StatusWritten

(* cancel: a plan that was delegated keeps its children.                   *)
LEMMA CancelInvariant ==
  ASSUME IInv, NEW b \in Clients, Cancel(b)
  PROVE  IInv'
<1>1. /\ Answer(b) /\ plan.status \in Undelegated \cup {"delegated"}
      /\ Write("cancelled", plan.active, plan.shown, "cancelled")
      /\ versions' = versions /\ tasks' = tasks /\ links' = links /\ approvals' = approvals
  BY DEF Cancel, Mutates
<1>2. plan'.status = "cancelled" /\ plan'.active = plan.active
  BY <1>1 DEF Write
<1>3. Active' = Active
  BY <1>1, <1>2 DEF Active
<1>4. OnlyTheApprovedIsDelegated'
  BY <1>1, <1>2, <1>3 DEF IInv, Stored, Decisions, OnlyTheApprovedIsDelegated
<1>5. Decisions'
  BY <1>2, <1>4 DEF Decisions, Undelegated
<1>6. approvals' \in Seq(Approval)
  BY <1>1 DEF IInv, TypeOK, Approval
<1>7. "cancelled" \in EventType \ {"version_created"} /\ StatusOf("cancelled") = "cancelled"
  BY DEF EventType, StatusOf
<1> QED
  BY <1>1, <1>5, <1>6, <1>7, StatusWritten

(* deletePlan: only a plan without children goes.                          *)
LEMMA DeleteInvariant ==
  ASSUME IInv, NEW b \in Clients, Delete(b)
  PROVE  IInv'
<1>1. /\ Answer(b) /\ plan.status = "cancelled" /\ links = {}
      /\ plan' = [plan EXCEPT !.status = "deleted"]
      /\ versions' = versions /\ tasks' = tasks /\ links' = links /\ approvals' = approvals
      /\ log' = log
  BY DEF Delete, Mutates
<1>2. /\ TypeOK /\ Stored /\ Decisions /\ Versions /\ Children /\ LogTellsTheStatus
      /\ WithinCapacity
  BY DEF IInv, Stored
<1>3. plan \in Plan
  BY <1>2 DEF TypeOK
<1>4. plan' \in Plan
  BY <1>1, <1>3 DEF Plan, PlanStatus
<1>5. plan'.status = "deleted" /\ plan'.active = plan.active /\ plan'.shown = plan.shown
      /\ plan'.revision = plan.revision
  BY <1>1, <1>3 DEF Plan
<1>6. Calls'
  BY <1>1, AnswerCalls
<1>7. others' = others /\ up' = up /\ boot' = boot /\ missed' = missed /\ retries' = retries
  BY <1>1 DEF Answer
<1>8. Active' = Active
  BY <1>1, <1>5 DEF Active
<1> HIDE <1>1
<1>9. links' = {} /\ versions' = versions /\ tasks' = tasks /\ approvals' = approvals
      /\ log' = log /\ links' = links
  BY <1>1
<1>10. TypeOK'
  BY <1>2, <1>4, <1>5, <1>6, <1>7, <1>8, <1>9 DEF TypeOK, Calls
<1>11. Decisions'
  BY <1>5, <1>9 DEF Decisions, OnlyTheApprovedIsDelegated, Undelegated
<1>12. Versions'
  BY <1>2, <1>5, <1>9 DEF Versions, NoEditIsLost, Edited
<1>13. Children'
  BY <1>2, <1>9 DEF Children, OneChildPerStep
<1>14. Outcomes'
  BY <1>5 DEF Outcomes, OutcomeIsEarned
<1>15. LogTellsTheStatus'
  BY <1>2, <1>5, <1>9 DEF LogTellsTheStatus, Exists
<1>16. WithinCapacity'
  BY <1>2, <1>7, <1>9 DEF WithinCapacity
<1>17. ProgressIsCurrent'
  BY <1>5 DEF ProgressIsCurrent
<1> QED
  BY <1>6, <1>10, <1>11, <1>12, <1>13, <1>14, <1>15, <1>16, <1>17 DEF IInv, Stored, Calls

(* createVersion after the detection: the token was verified for this      *)
(* revision, so the event of the version is the one after those its author *)
(* had read.                                                               *)
LEMMA FinishEditInvariant ==
  ASSUME IInv, NEW b \in Clients, FinishEdit(b)
  PROVE  IInv'
<1> DEFINE v == [content |-> call[b].content, seen |-> call[b].revision]
           Version == [content : Contents, seen : Nat]
<1>1. /\ Answer(b) /\ plan.status \in Undelegated
      /\ Write("draft", plan.active + 1, plan.shown, "version_created")
      /\ versions' = Append(versions, v)
      /\ approvals' = approvals /\ links' = links /\ tasks' = tasks
      /\ call[b] # None /\ call[b].op = "edit" /\ call[b].revision = plan.revision
  BY DEF FinishEdit, StoreVersion, Holds, Verified
<1>2. /\ TypeOK /\ Stored /\ Decisions /\ Versions /\ Children /\ LogTellsTheStatus
      /\ WithinCapacity /\ Asked
  BY DEF IInv, Stored
<1>3. plan.active \in Nat /\ plan.shown = None /\ plan.revision \in Nat /\ links = {}
  BY <1>1, <1>2 DEF TypeOK, Plan, Decisions
<1>4. /\ plan' \in Plan
      /\ plan'.status = "draft" /\ plan'.active = plan.active + 1
      /\ plan'.revision = plan.revision + 1 /\ plan'.shown = None
      /\ log' = Append(log, "version_created") /\ log' \in Seq(EventType)
  <2>1. "draft" \in PlanStatus /\ "version_created" \in EventType /\ plan.active + 1 \in Nat
    BY <1>3 DEF PlanStatus, Undelegated, EventType
  <2> QED
    BY <1>1, <1>2, <1>3, <2>1, Written
<1>5. v \in Version /\ v.seen = plan.revision
  BY <1>1, <1>2, <1>3 DEF Asked
<1> HIDE DEF v
<1>6. Versions'
  BY <1>1, <1>2, <1>4, <1>5, VersionAdded
<1>7. versions' \in Seq(Version) /\ Len(versions') = Len(versions) + 1
  <2>1. versions \in Seq(Version)
    BY <1>2 DEF TypeOK
  <2> HIDE DEF Version
  <2> QED
    BY <1>1, <1>5, <2>1
<1>8. plan'.active \in 1..Len(versions')
  BY <1>2, <1>3, <1>4, <1>7 DEF Versions
<1>9. Calls'
  BY <1>1, AnswerCalls
<1>10. others' = others /\ up' = up /\ boot' = boot /\ missed' = missed /\ retries' = retries
  BY <1>1 DEF Answer
<1>11. TypeOK'
  BY <1>1, <1>2, <1>4, <1>7, <1>8, <1>9, <1>10 DEF TypeOK, Calls
<1>12. Decisions'
  BY <1>1, <1>3, <1>4 DEF Decisions, OnlyTheApprovedIsDelegated
<1>13. Children'
  BY <1>1, <1>2 DEF Children, OneChildPerStep
<1>14. Outcomes'
  BY <1>4 DEF Outcomes, OutcomeIsEarned
<1>15. LogTellsTheStatus'
  <2>1. log \in Seq(EventType) /\ Len(log) > 0
    BY <1>2 DEF TypeOK, Plan, Versions
  <2>2. "version_created" \in EventType /\ StatusOf("version_created") = "draft"
    BY DEF EventType, StatusOf
  <2> QED
    BY <1>1, <1>2, <1>4, <2>1, <2>2, LogWritten
<1>16. WithinCapacity'
  BY <1>1, <1>2, <1>10 DEF WithinCapacity
<1>17. ProgressIsCurrent'
  BY <1>4 DEF ProgressIsCurrent
<1> QED
  BY <1>6, <1>9, <1>11, <1>12, <1>13, <1>14, <1>15, <1>16, <1>17 DEF IInv, Stored, Calls

-----------------------------------------------------------------------------
(* Delegation. *)

(* Each step has one child, and ChildOf finds it.                          *)
LEMMA ChildIsLinked ==
  ASSUME NEW links_, NEW children, children = {l.child : l \in links_},
         \A l, m \in links_ : l.step = m.step => l = m,
         NEW l \in links_
  PROVE  (CHOOSE k \in children : \E m \in links_ : m.step = l.step /\ m.child = k) = l.child
<1>1. l.child \in children /\ \E m \in links_ : m.step = l.step /\ m.child = l.child
  OBVIOUS
<1>2. \A k \in children : (\E m \in links_ : m.step = l.step /\ m.child = k) => k = l.child
  OBVIOUS
<1> QED
  BY <1>1, <1>2

(* What ProgressIsDerived says, as a predicate of a state.                 *)
ProgressDerives == \A ts : Active \in Contents => Derives(Progress(ts), StepsOf[Active], Own(ts))

(* It holds of the state at hand ...                                       *)
LEMMA ProgressDerivesNow == ProgressDerives
BY ProgressIsDerived DEF ProgressDerives

(* ... and so of the next one.                                             *)
LEMMA ProgressDerivesNext == ProgressDerives'
BY ProgressDerivesNow, PTL

(* delegate after the detection: all the children at once, one per step of *)
(* the version that was approved, within the task limit, and none of them  *)
(* blocked.                                                                *)
LEMMA FinishDelegateInvariant ==
  ASSUME IInv, NEW b \in Clients, FinishDelegate(b)
  PROVE  IInv'
<1> DEFINE S == StepsOf[Active]
           at == plan.revision
           child(s) == [step |-> s, at |-> at]
           children == {child(s) : s \in S}
           link(s) == [version |-> plan.active, step |-> s, child |-> child(s)]
<1>1. /\ Answer(b) /\ plan.status = "approved"
      /\ Fits(Cardinality(S))
      /\ Write("delegated", plan.active, plan.shown, "delegated")
      /\ versions' = versions /\ approvals' = approvals
      /\ links' = links \cup {link(s) : s \in S}
      /\ tasks' = [k \in DOMAIN tasks \cup children |->
                     IF k \in children THEN "waiting" ELSE tasks[k]]
  BY DEF FinishDelegate, StoreDelegation
<1>2. /\ TypeOK /\ Stored /\ Decisions /\ Versions /\ Children /\ LogTellsTheStatus
      /\ WithinCapacity
  BY DEF IInv, Stored
<1>3. plan.active \in Nat /\ plan.revision \in Nat /\ plan.shown = None /\ links = {}
  BY <1>1, <1>2 DEF TypeOK, Plan, Decisions, Undelegated
<1>4. /\ plan' \in Plan
      /\ plan'.status = "delegated" /\ plan'.active = plan.active
      /\ plan'.revision = plan.revision + 1 /\ plan'.shown = None
      /\ log' = Append(log, "delegated") /\ log' \in Seq(EventType)
  <2>1. "delegated" \in PlanStatus /\ "delegated" \in EventType
    BY DEF PlanStatus, EventType
  <2> QED
    BY <1>1, <1>2, <1>3, <2>1, Written
<1>5. Active' = Active /\ Active \in Contents /\ S \subseteq Steps /\ IsFiniteSet(S)
  BY <1>1, <1>2, <1>4, ActiveType DEF Active
<1>6. DOMAIN tasks = {}
  BY <1>2, <1>3 DEF Children, OneChildPerStep
<1>7. tasks' = [k \in children |-> "waiting"] /\ links' = {link(s) : s \in S}
  <2> HIDE DEF children, link
  <2> QED
    BY <1>1, <1>3, <1>6
<1>21. /\ \A s \in S : link(s) \in links' /\ link(s).step = s /\ link(s).child = child(s)
       /\ \A l \in links' : l.step \in S /\ l = link(l.step)
  BY <1>7
<1>8. Calls'
  BY <1>1, AnswerCalls
<1>9. others' = others /\ up' = up /\ boot' = boot /\ missed' = missed /\ retries' = retries
  BY <1>1 DEF Answer
<1>10. TypeOK'
  <2>1. children \subseteq Child /\ links' \subseteq [version : Nat, step : Steps, child : Child]
    BY <1>3, <1>5, <1>7 DEF Child
  <2>2. DOMAIN tasks' \subseteq Child /\ tasks' \in [DOMAIN tasks' -> TaskStatus]
    <3> HIDE DEF children
    <3> QED
      BY <1>7, <2>1 DEF TaskStatus
  <2>3. plan'.active \in 1..Len(versions')
    BY <1>1, <1>2, <1>4 DEF TypeOK
  <2> HIDE DEF children, link
  <2> HIDE <1>1, <1>7
  <2>4. versions' = versions /\ approvals' = approvals
    BY <1>1
  <2>5. log' \in Seq(EventType) /\ plan' \in Plan
    BY <1>4
  <2>6. call' \in [Clients -> Call \cup {None}] /\ plan'.shown = None
    BY <1>4, <1>8 DEF Calls
  <2>7. /\ others' \in 1..MaxTasks /\ up' \in {"down", "recovering", "serving"}
        /\ boot' \in 0..MaxCrashes /\ retries' \in 0..MaxRetries
        /\ missed' \in [count : 0..MaxMissed, stale : BOOLEAN]
    BY <1>2, <1>9 DEF TypeOK
  <2>8. /\ versions' \in Seq([content : Contents, seen : Nat])
        /\ approvals' \in
             Seq([version : Nat, content : Contents, decision : {"approved", "rejected"}])
    BY <1>2, <2>4 DEF TypeOK
  <2> HIDE <1>2, <2>4
  <2> QED
    BY <2>1, <2>2, <2>3, <2>5, <2>6, <2>7, <2>8 DEF TypeOK
<1>11. Decisions'
  <2>1. \A l \in links' : l.version = plan.active /\ l.step \in S
    BY <1>7
  <2>2. {l.step : l \in links'} = S
    <3> HIDE DEF link, children
    <3> HIDE DEF S
    <3>1. \A l \in links' : l.step \in S
      BY <1>21
    <3>2. \A s \in S : \E l \in links' : l.step = s
      BY <1>21
    <3> QED
      BY <3>1, <3>2
  <2>3. Decided
    BY <1>1, <1>2 DEF Decisions
  <2> HIDE DEF children, link
  <2>4. Decided'
    BY <1>1, <1>4, <1>5, <2>3 DEF Decided
  <2> QED
    BY <1>4, <1>5, <2>1, <2>2, <2>4
    DEF Decisions, OnlyTheApprovedIsDelegated, Undelegated, Decided
<1>12. Versions'
  <2>1. "delegated" \in EventType \ {"version_created"}
    BY DEF EventType
  <2> QED
    BY <1>1, <1>2, <1>4, <2>1, VersionsWritten
<1>13. /\ DOMAIN tasks' = {l.child : l \in links'}
       /\ \A l, m \in links' : l.step = m.step => l = m
  <2>1. \A l, m \in links' : l.step = m.step => l = m
    <3> HIDE DEF link, children
    <3> QED
      BY <1>21
  <2>2. DOMAIN tasks' = children
    BY <1>7
  <2>3. children = {l.child : l \in links'}
    <3>1. \A l \in links' : l.step \in S /\ l.child = child(l.step)
      <4> HIDE DEF link, child
      <4> QED
        BY <1>21
    <3> HIDE DEF link, child
    <3>2. \A s \in S : child(s) \in {l.child : l \in links'}
      BY <1>21
    <3>3. \A l \in links' : l.child \in children
      BY <3>1
    <3> QED
      BY <3>2, <3>3
  <2> QED
    BY <2>1, <2>2, <2>3
<1>14. IsFiniteSet(children) /\ Cardinality(children) <= Cardinality(S)
  <2> DEFINE f == [s \in S |-> child(s)]
  <2>1. f \in Surjection(S, children)
    BY DEF Surjection
  <2> HIDE DEF f, children
  <2> QED
    BY <1>5, <2>1, FS_Surjection
<1>15. Children'
  BY <1>7, <1>13, <1>14 DEF Children, OneChildPerStep
<1>16. WithinCapacity'
  <2>1. DOMAIN tasks' = children /\ Cardinality(DOMAIN tasks) = 0
    BY <1>6, <1>7, FS_EmptySet
  <2>2. others + Cardinality(S) <= MaxTasks
    <3>1. others + Cardinality(DOMAIN tasks) + Cardinality(S) <= MaxTasks
      BY <1>1 DEF Fits
    <3>2. others \in Nat /\ Cardinality(S) \in Nat /\ MaxTasks \in Nat
      BY <1>2, <1>5, FS_CardinalityType, PlanBounds DEF TypeOK
    <3> QED
      BY <2>1, <3>1, <3>2
  <2>3. others + Cardinality(children) <= MaxTasks
    <3>1. others \in Nat /\ Cardinality(S) \in Nat /\ MaxTasks \in Nat
          /\ Cardinality(children) \in Nat
      BY <1>2, <1>5, <1>14, FS_CardinalityType, PlanBounds DEF TypeOK
    <3> HIDE DEF children, S
    <3> QED
      BY <1>14, <2>2, <3>1
  <2> QED
    BY <1>9, <2>1, <2>3 DEF WithinCapacity
<1>17. \A k \in DOMAIN tasks' : tasks'[k] = "waiting"
  BY <1>7
<1>18. ProgressIsCurrent'
  <2>1. Derives(Progress(tasks)', S, Own(tasks)')
    BY <1>4, <1>5, ProgressDerivesNext DEF ProgressDerives
  <2>2. \A s \in S : Own(tasks)'[s] = "waiting"
    <3>1. TAKE s \in S
    <3>2. link(s) \in links' /\ link(s).step = s
      BY <1>7
    <3> HIDE DEF link, children
    <3>3. (CHOOSE k \in DOMAIN tasks' : \E m \in links' : m.step = link(s).step /\ m.child = k)
            = link(s).child
      BY <1>13, <3>2, ChildIsLinked
    <3>4. ChildOf(s)' \in DOMAIN tasks'
      BY <1>13, <3>2, <3>3 DEF ChildOf
    <3>5. Own(tasks)'[s] = tasks'[ChildOf(s)']
      BY <1>4, <1>5 DEF Own
    <3> QED
      BY <1>17, <3>4, <3>5
  <2>3. Outcome(Progress(tasks)') = "delegated"
    BY <1>5, <2>1, <2>2, NothingBegun
  <2> HIDE DEF children, link
  <2> QED
    BY <1>4, <1>17, <2>3 DEF ProgressIsCurrent, Outcome
<1>19. Outcomes'
  BY <1>4 DEF Outcomes, OutcomeIsEarned
<1>20. LogTellsTheStatus'
  <2>1. log \in Seq(EventType) /\ Len(log) > 0
    BY <1>2 DEF TypeOK, Plan, Versions
  <2>2. "delegated" \in EventType /\ StatusOf("delegated") = "delegated"
        /\ plan.status \in Undelegated
    BY <1>1 DEF EventType, StatusOf, Undelegated
  <2> QED
    BY <1>1, <1>2, <1>4, <2>1, <2>2, LogWritten
<1> QED
  BY <1>8, <1>10, <1>11, <1>12, <1>15, <1>16, <1>18, <1>19, <1>20 DEF IInv, Stored, Calls

-----------------------------------------------------------------------------
(* Children that move, and the plan that is told. *)

(* A delegated plan's steps all have a child, and every child is a step's. *)
LEMMA StepsHaveChildren ==
  ASSUME Decisions, Children, plan.status = "delegated"
  PROVE  /\ \A s \in StepsOf[Active] : ChildOf(s) \in DOMAIN tasks
         /\ \A k \in DOMAIN tasks : \E s \in StepsOf[Active] : k = ChildOf(s)
<1>1. /\ DOMAIN tasks = {l.child : l \in links}
      /\ \A l, m \in links : l.step = m.step => l = m
      /\ {l.step : l \in links} = StepsOf[Active]
  BY DEF Decisions, Children, OneChildPerStep
<1>2. ASSUME NEW l \in links
      PROVE  ChildOf(l.step) = l.child /\ l.child \in DOMAIN tasks /\ l.step \in StepsOf[Active]
  <2>1. (CHOOSE k \in DOMAIN tasks : \E m \in links : m.step = l.step /\ m.child = k) = l.child
    BY <1>1, ChildIsLinked
  <2>2. ChildOf(l.step) = l.child
    BY <2>1 DEF ChildOf
  <2> QED
    BY <1>1, <2>2
<1>3. ASSUME NEW s \in StepsOf[Active]
      PROVE  ChildOf(s) \in DOMAIN tasks
  <2>1. PICK l \in links : l.step = s
    BY <1>1
  <2> QED
    BY <1>2, <2>1
<1>4. ASSUME NEW k \in DOMAIN tasks
      PROVE  \E s \in StepsOf[Active] : k = ChildOf(s)
  <2>1. PICK l \in links : l.child = k
    BY <1>1
  <2> QED
    BY <1>2, <2>1
<1> QED
  BY <1>3, <1>4

(* What a step that moves children leaves alone, and how they move: a      *)
(* child that has completed does not.                                      *)
Moved ==
  /\ versions' = versions /\ approvals' = approvals /\ links' = links
  /\ DOMAIN tasks' = DOMAIN tasks
  /\ tasks' \in [DOMAIN tasks' -> TaskStatus]
  /\ \A k \in DOMAIN tasks : tasks[k] = "completed" => tasks'[k] = "completed"

(* The plan's row as it is typed, before and after.                        *)
PlanTyped ==
  /\ plan \in Plan /\ plan.active \in 1..Len(versions)
  /\ plan.shown # None => plan.shown \in [StepsOf[Active] -> StepProgress]
  /\ log \in Seq(EventType)

(* The plan is not told, or has nothing new to say.                        *)
LEMMA MovedQuietly ==
  ASSUME TypeOK, Stored, Moved, plan' = plan, log' = log
  PROVE  PlanTyped' /\ Stored'
<1>1. versions' = versions /\ approvals' = approvals /\ links' = links
      /\ DOMAIN tasks' = DOMAIN tasks
  BY DEF Moved
<1>2. PlanTyped'
  BY <1>1 DEF TypeOK, PlanTyped, Active
<1>3. Decisions'
  BY <1>1 DEF Stored, Decisions, OnlyTheApprovedIsDelegated, Decided, Active
<1>4. Versions'
  BY <1>1 DEF Stored, Versions, NoEditIsLost, Edited
<1>5. Children'
  BY <1>1 DEF Stored, Children, OneChildPerStep
<1>6. Outcomes'
  BY DEF Stored, Moved, Outcomes, OutcomeIsEarned
<1>7. LogTellsTheStatus'
  BY DEF Stored, LogTellsTheStatus, Exists
<1> QED
  BY <1>2, <1>3, <1>4, <1>5, <1>6, <1>7 DEF Stored

(* The progress of the children as they are after the step.                *)
LEMMA ProgressOfMoved ==
  ASSUME TypeOK, Stored, Moved, plan.status = "delegated"
  PROVE  /\ Derives(Progress(tasks'), StepsOf[Active], Own(tasks'))
         /\ \A s \in StepsOf[Active] : Own(tasks')[s] \in TaskStatus
         /\ \A k \in DOMAIN tasks : \E s \in StepsOf[Active] : tasks'[k] = Own(tasks')[s]
         /\ Progress(tasks') \in [StepsOf[Active] -> StepProgress]
         /\ Progress(tasks') \in Fingerprint
         /\ Progress(tasks') # None
<1>1. Active \in Contents
  BY ActiveType
<1>2. Derives(Progress(tasks'), StepsOf[Active], Own(tasks'))
  BY <1>1, ProgressIsDerived
<1>3. /\ \A s \in StepsOf[Active] : ChildOf(s) \in DOMAIN tasks
      /\ \A k \in DOMAIN tasks : \E s \in StepsOf[Active] : k = ChildOf(s)
  BY StepsHaveChildren DEF Stored
<1>4. \A s \in StepsOf[Active] : Own(tasks')[s] = tasks'[ChildOf(s)]
  BY DEF Own
<1>5. \A k \in DOMAIN tasks : tasks'[k] \in TaskStatus
  BY DEF Moved
<1>6. \A s \in StepsOf[Active] : Own(tasks')[s] \in TaskStatus
  BY <1>3, <1>4, <1>5
<1>7. \A k \in DOMAIN tasks : \E s \in StepsOf[Active] : tasks'[k] = Own(tasks')[s]
  BY <1>3, <1>4
<1>8. Progress(tasks') \in [StepsOf[Active] -> StepProgress]
  <2>1. Tells(Progress(tasks'), StepsOf[Active], Own(tasks'))
    BY <1>2, <1>6, ProgressType
  <2> QED
    BY <2>1 DEF Tells
<1>9. Progress(tasks') \in Fingerprint
  BY <1>1, <1>8 DEF Fingerprint
<1>10. Progress(tasks') # None
  BY <1>9, NoneIsNothing
<1> QED
  BY <1>2, <1>6, <1>7, <1>8, <1>9, <1>10

(* synchronizePlanProgress has the plan say what its children do.          *)
LEMMA SynchronizeStored ==
  ASSUME TypeOK, Stored, Moved, Synchronize(tasks')
  PROVE  PlanTyped' /\ Stored' /\ Current'
<1> DEFINE progress == Progress(tasks')
           status == Outcome(progress)
           event == EventOf(status)
<1>1. CASE plan.status # "delegated"
  <2>1. plan' = plan /\ log' = log
    BY <1>1 DEF Synchronize
  <2> QED
    BY <1>1, <2>1, MovedQuietly DEF Current
<1>2. CASE plan.status = "delegated" /\ progress = plan.shown
  <2>1. plan' = plan /\ log' = log
    BY <1>2 DEF Synchronize
  <2>2. PlanTyped' /\ Stored'
    BY <2>1, MovedQuietly
  <2>3. progress # None
    BY <1>2, ProgressOfMoved
  <2>4. Outcome(progress) = "delegated"
    BY <1>2, <2>3 DEF Stored, Outcomes
  <2>5. Progress(tasks)' = progress
    BY <2>1, SameProgress DEF Moved, Active
  <2> HIDE DEF progress
  <2> QED
    BY <1>2, <2>1, <2>2, <2>3, <2>4, <2>5 DEF Current
<1>3. CASE plan.status = "delegated" /\ progress # plan.shown
  <2>1. Write(status, plan.active, progress, event)
    BY <1>3 DEF Synchronize
  <2>2. /\ Derives(progress, StepsOf[Active], Own(tasks'))
        /\ \A s \in StepsOf[Active] : Own(tasks')[s] \in TaskStatus
        /\ \A k \in DOMAIN tasks : \E s \in StepsOf[Active] : tasks'[k] = Own(tasks')[s]
        /\ progress \in [StepsOf[Active] -> StepProgress]
        /\ progress \in Fingerprint
        /\ progress # None
    BY <1>3, ProgressOfMoved
  <2>3. /\ status \in {"completed", "failed", "delegated"}
        /\ event \in EventType \ {"version_created"}
        /\ StatusOf(event) = status
    <3> HIDE DEF progress
    <3>1. /\ status \in {"completed", "failed", "delegated"}
          /\ event \in EventType
          /\ StatusOf(event) = status
          /\ event # "version_created"
      BY OutcomeType
    <3> QED
      BY <3>1
  <2>4. status = "completed" => \A s \in StepsOf[Active] : Own(tasks')[s] = "completed"
    <3> HIDE DEF progress
    <3> QED
      BY <2>2, CompletedTogether
  <2>5. Active' = Active /\ Progress(tasks)' = progress
    <3>1. plan'.active = plan.active
      BY <2>1 DEF Write
    <3>2. versions' = versions /\ DOMAIN tasks' = DOMAIN tasks /\ links' = links
      BY DEF Moved
    <3>3. Active' = Active
      BY <3>1, <3>2 DEF Active
    <3> QED
      BY <3>2, <3>3, SameProgress
  <2> HIDE DEF progress
  <2>6. status = Outcome(progress)
    OBVIOUS
  <2> HIDE DEF status, event
  <2>7. /\ plan' \in Plan
        /\ plan'.status = status /\ plan'.active = plan.active
        /\ plan'.revision = plan.revision + 1 /\ plan'.shown = progress
        /\ log' = Append(log, event) /\ log' \in Seq(EventType)
    <3>1. status \in PlanStatus /\ plan.active \in Nat
      BY <2>3 DEF PlanStatus, TypeOK, Plan
    <3> QED
      BY <2>1, <2>2, <2>3, <3>1, Written
  <2>8. versions' = versions /\ approvals' = approvals /\ links' = links
        /\ DOMAIN tasks' = DOMAIN tasks
    BY DEF Moved
  <2>9. PlanTyped'
    BY <2>2, <2>5, <2>7, <2>8 DEF PlanTyped, TypeOK
  <2>10. Decisions'
    <3>1. OnlyTheApprovedIsDelegated'
      BY <2>5, <2>7, <2>8 DEF Stored, Decisions, OnlyTheApprovedIsDelegated
    <3>2. {l.step : l \in links'} = StepsOf[Active']
      BY <1>3, <2>5, <2>8 DEF Stored, Decisions
    <3> QED
      BY <2>3, <2>7, <3>1, <3>2 DEF Decisions, Undelegated
  <2>11. Versions'
    BY <2>3, <2>7, <2>8, VersionsWritten DEF Stored
  <2>12. Children'
    BY <2>8 DEF Stored, Children, OneChildPerStep
  <2>13. Outcomes'
    <3>1. status = "completed" => \A k \in DOMAIN tasks' : tasks'[k] = "completed"
      BY <2>2, <2>4, <2>8
    <3> QED
      BY <2>6, <2>7, <3>1 DEF Outcomes, OutcomeIsEarned
  <2>14. LogTellsTheStatus'
    <3>1. log \in Seq(EventType) /\ Len(log) > 0
      BY DEF TypeOK, Plan, Stored, Versions
    <3> QED
      BY <1>3, <2>3, <2>7, <3>1, LogWritten DEF Stored
  <2>15. Current'
    BY <2>2, <2>5, <2>6, <2>7 DEF Current
  <2> QED
    BY <2>9, <2>10, <2>11, <2>12, <2>13, <2>14, <2>15 DEF Stored
<1> QED
  BY <1>1, <1>2, <1>3

(* The whole invariant after such a step.                                  *)
LEMMA MovedInvariant ==
  ASSUME IInv, Moved, PlanTyped', Stored', ProgressIsCurrent',
         UNCHANGED <<others, call, boot>>,
         up' \in {"down", "recovering", "serving"}, retries' \in 0..MaxRetries,
         missed' \in [count : 0..MaxMissed, stale : BOOLEAN]
  PROVE  IInv'
<1>1. TypeOK'
  BY DEF IInv, TypeOK, Moved, PlanTyped
<1>2. Asked' /\ WithinCapacity'
  BY DEF IInv, Asked, WithinCapacity, Moved
<1> QED
  BY <1>1, <1>2 DEF IInv

(* A child moves, and the hook tells the plan or is lost.                  *)
LEMMA MovesInvariant ==
  ASSUME IInv, NEW k \in DOMAIN tasks, NEW status \in TaskStatus, tasks[k] # "completed",
         Moves(k, status), retries' \in 0..MaxRetries
  PROVE  IInv'
<1>1. /\ tasks' = [tasks EXCEPT ![k] = status]
      /\ Notify(tasks')
      /\ UNCHANGED <<versions, approvals, links, others, call, up, boot>>
  BY DEF Moves
<1>2. Moved
  <2>1. tasks \in [DOMAIN tasks -> TaskStatus]
    BY DEF IInv, TypeOK
  <2> QED
    BY <1>1, <2>1 DEF Moved
<1>3. missed \in [count : 0..MaxMissed, stale : BOOLEAN] /\ up \in {"down", "recovering", "serving"}
  BY DEF IInv, TypeOK
<1>4. CASE Synchronize(tasks') /\ missed' = [missed EXCEPT !.stale = FALSE]
  <2>1. PlanTyped' /\ Stored' /\ Current'
    BY <1>2, <1>4, SynchronizeStored DEF IInv
  <2>2. ProgressIsCurrent'
    BY <2>1 DEF Current, ProgressIsCurrent
  <2>3. missed' \in [count : 0..MaxMissed, stale : BOOLEAN]
    BY <1>3, <1>4
  <2> QED
    BY <1>1, <1>2, <1>3, <2>1, <2>2, <2>3, MovedInvariant
<1>5. CASE /\ missed.count < MaxMissed
           /\ missed' = [count |-> missed.count + 1, stale |-> TRUE]
           /\ UNCHANGED <<plan, log>>
  <2>1. PlanTyped' /\ Stored'
    BY <1>2, <1>5, MovedQuietly DEF IInv
  <2>2. ProgressIsCurrent'
    BY <1>5 DEF ProgressIsCurrent
  <2>3. missed' \in [count : 0..MaxMissed, stale : BOOLEAN]
    BY <1>3, <1>5, PlanBounds
  <2> QED
    BY <1>1, <1>2, <1>3, <2>1, <2>2, <2>3, MovedInvariant
<1> QED
  BY <1>1, <1>4, <1>5 DEF Notify

(* The children start, end, are retried and are recovered; none of this    *)
(* moves a completed child.                                                *)
LEMMA ChildStepInvariant ==
  ASSUME IInv, NEW k \in DOMAIN tasks, ChildStep(k)
  PROVE  IInv'
<1>1. retries \in 0..MaxRetries /\ MaxRetries \in Nat
  BY PlanBounds DEF IInv, TypeOK
<1>2. CASE StartChild(k)
  <2>1. "running" \in TaskStatus
    BY DEF TaskStatus
  <2> QED
    BY <1>1, <1>2, <2>1, MovesInvariant DEF StartChild
<1>3. CASE RetryChild(k)
  <2>1. "waiting" \in TaskStatus /\ retries' \in 0..MaxRetries
    BY <1>1, <1>3 DEF TaskStatus, RetryChild
  <2> QED
    BY <1>3, <2>1, MovesInvariant DEF RetryChild
<1>4. ASSUME NEW status \in {"completed", "failed", "cancelled"},
             EndChild(k, status) \/ RecoverChild(k, status)
      PROVE  IInv'
  <2>1. status \in TaskStatus
    BY DEF TaskStatus
  <2>2. tasks[k] # "completed" /\ Moves(k, status) /\ retries' \in 0..MaxRetries
    BY <1>1, <1>4 DEF EndChild, RecoverChild
  <2> QED
    BY <2>1, <2>2, MovesInvariant
<1> QED
  BY <1>2, <1>3, <1>4 DEF ChildStep

(* reconcileAllPlanProgress: what was missed is told before the server     *)
(* serves.                                                                 *)
LEMMA ReconcileInvariant ==
  ASSUME IInv, Reconcile
  PROVE  IInv'
<1>1. tasks' = tasks /\ UNCHANGED <<versions, approvals, links, others, call, boot, retries>>
      /\ up' = "serving" /\ missed' = [missed EXCEPT !.stale = FALSE]
  BY DEF Reconcile
<1>2. Moved
  BY <1>1 DEF IInv, TypeOK, Moved
<1>3. Synchronize(tasks')
  BY <1>1 DEF Reconcile
<1>4. PlanTyped' /\ Stored' /\ Current'
  BY <1>2, <1>3, SynchronizeStored DEF IInv
<1>5. ProgressIsCurrent'
  BY <1>4 DEF Current, ProgressIsCurrent
<1>6. missed' \in [count : 0..MaxMissed, stale : BOOLEAN] /\ retries' \in 0..MaxRetries
  BY <1>1 DEF IInv, TypeOK
<1> QED
  BY <1>1, <1>2, <1>4, <1>5, <1>6, MovedInvariant

-----------------------------------------------------------------------------
(* Every step keeps the invariant.                                         *)
LEMMA NextInvariant ==
  ASSUME IInv, [Next]_vars
  PROVE  IInv'
<1>1. ASSUME NEW b \in Clients, Request(b)
      PROVE  IInv'
  <2>1. CASE Look(b)
    BY <2>1, LookInvariant
  <2>2. CASE Submit(b)
    BY <2>2, SubmitInvariant
  <2>3. CASE Cancel(b)
    BY <2>3, CancelInvariant
  <2>4. CASE Delete(b)
    BY <2>4, DeleteInvariant
  <2>5. CASE BeginDelegate(b) \/ \E content \in Contents : BeginEdit(b, content)
    BY <2>5, BeginInvariant
  <2>6. CASE FinishEdit(b)
    BY <2>6, FinishEditInvariant
  <2>7. CASE FinishDelegate(b)
    BY <2>7, FinishDelegateInvariant
  <2>8. CASE Refuse(b)
    BY <2>8, RefuseInvariant
  <2>9. CASE \E decision \in {"approved", "rejected"} : Decide(b, decision)
    BY <2>9, DecideInvariant
  <2> QED
    BY <1>1, <2>1, <2>2, <2>3, <2>4, <2>5, <2>6, <2>7, <2>8, <2>9 DEF Request
<1>2. CASE UNCHANGED vars
  <2>1. UNCHANGED <<store, tasks, others, up, boot, missed, retries>> /\ call' = call
    BY <1>2 DEF vars
  <2>2. Calls'
    BY <2>1, CallsOfInvariant DEF Calls, Asked
  <2> QED
    BY <2>1, <2>2, RequestInvariant
<1>3. ASSUME NEW k \in DOMAIN tasks, ChildStep(k)
      PROVE  IInv'
  BY <1>3, ChildStepInvariant
<1> QED
  BY <1>1, <1>2, <1>3, OtherTaskInvariant, CrashInvariant, RestartInvariant,
     ReconcileInvariant DEF Next

(* Whatever arrives while requests await the detection, and whatever the   *)
(* hook misses or a crash interrupts: only what was approved is delegated, *)
(* once per step and within the task limit, no edit is lost, and the       *)
(* plan's status, progress and log are those of its children               *)
(* (CeoPlanOrchestrator, synchronizePlanProgress,                          *)
(* reconcileAllPlanProgress).                                              *)
THEOREM PlansAreFollowed == Spec => []CeoPlanInv
<1>1. Init => IInv
  BY InitInvariant
<1>2. IInv /\ [Next]_vars => IInv'
  BY NextInvariant
<1>3. IInv => CeoPlanInv
  BY InvariantImplies
<1> QED
  BY <1>1, <1>2, <1>3, PTL DEF Spec
=============================================================================
