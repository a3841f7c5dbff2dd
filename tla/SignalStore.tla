----------------------------- MODULE SignalStore -----------------------------
(***************************************************************************)
(* The durable, coalescing execution-signal queue of the CEO scheduler     *)
(* (apps/server/src/ceo-execution/{in-memory,sqlite}-execution-signal-     *)
(* store.ts).  A signal asks the scheduler to look at a run, or at one     *)
(* step of a run.  Claimants are the drain coroutines that take a signal,  *)
(* work on it across awaits, and then finish it under their lease.         *)
(*                                                                         *)
(* The lease of a row (a fresh UUID per claim) is the name of the claimant *)
(* that took it: a claimant works on one signal at a time, so the pair     *)
(* (row, claimant) identifies the claim.  Times are countdowns: `wait` is  *)
(* what is left until availableAt, `left` what is left of the lease.       *)
(***************************************************************************)
EXTENDS Naturals, Sequences, FiniteSets

CONSTANTS
  SignalIds,   \* ids handed out by randomUUID()
  Runs,        \* plan runs
  Steps,       \* plan steps
  NoStep,      \* the step of a plan-level signal
  Gens,        \* activeGeneration values
  Reasons,     \* trigger reasons
  Claimants,   \* drain coroutines
  None,        \* no claimant, no signal
  MaxReasons,  \* MAX_SIGNAL_REASONS
  MaxDelay,    \* bound on delaySeconds
  LeaseTime,   \* leaseSeconds
  Durable      \* TRUE: the SQLite twin, whose partial unique index may refuse

ASSUME NoneAssumption == None \notin Claimants /\ None \notin SignalIds
ASSUME TimeAssumption == MaxDelay \in Nat /\ LeaseTime \in Nat
ASSUME KeyAssumption == Runs # {} /\ Gens # {} /\ NoStep \notin Steps
ASSUME ReasonAssumption == MaxReasons \in Nat \ {0}

VARIABLES
  sig,     \* the rows of ceo_plan_execution_signals
  held,    \* per claimant, the signal its coroutine is working on
  issued   \* number of rows ever created, the order of createdAt

vars == <<sig, held, issued>>

States == {"absent", "pending", "claimed", "processed", "cancelled"}

SignalRow ==
  [state : States, run : Runs, step : Steps \cup {NoStep}, gen : Gens,
   reasons : Seq(Reasons), high : BOOLEAN, wait : 0..MaxDelay,
   born : Nat, owner : Claimants \cup {None}, left : 0..LeaseTime]

TypeOK ==
  /\ sig \in [SignalIds -> SignalRow]
  /\ held \in [Claimants -> SignalIds \cup {None}]
  /\ issued \in Nat

EmptyRow ==
  [state |-> "absent", run |-> CHOOSE r \in Runs : TRUE, step |-> NoStep,
   gen |-> CHOOSE g \in Gens : TRUE, reasons |-> <<>>, high |-> FALSE,
   wait |-> 0, born |-> 0, owner |-> None, left |-> 0]

Init ==
  /\ sig = [i \in SignalIds |-> EmptyRow]
  /\ held = [c \in Claimants |-> None]
  /\ issued = 0

-----------------------------------------------------------------------------
\* The coalescing key (run, step or plan level, generation).
SameKey(a, b) == a.run = b.run /\ a.step = b.step /\ a.gen = b.gen

Lesser(a, b) == IF a < b THEN a ELSE b

\* What the partial unique index WHERE state = 'pending' demands of a table.
PendingKeysUnique(table) ==
  \A i, j \in SignalIds :
    (i # j /\ table[i].state = "pending" /\ table[j].state = "pending")
      => ~SameKey(table[i], table[j])

\* A durable transaction that would break the index throws and rolls back.
Commits(table) == Durable => PendingKeysUnique(table)

WithLease(row, state, owner, left) ==
  [row EXCEPT !.state = state, !.owner = owner, !.left = left]

Unlease(row, state) == WithLease(row, state, None, 0)

AddReason(reasons, reason) ==
  IF reason \in {reasons[n] : n \in 1..Len(reasons)} \/ Len(reasons) >= MaxReasons
  THEN reasons
  ELSE Append(reasons, reason)

\* (mutant) the newer request replaces the waiting one
CoalesceReplacing(row, reason, high, delay) ==
  [row EXCEPT !.reasons = <<reason>>, !.high = high, !.wait = delay]

\* enqueue() meets a pending signal of the same key: reasons combine, the
\* priority may only rise, the earlier availableAt wins.
Coalesce(row, reason, high, delay) ==
  [row EXCEPT !.reasons = AddReason(row.reasons, reason),
              !.high = row.high \/ high,
              !.wait = Lesser(row.wait, delay)]

PendingFor(run, step, gen) ==
  {i \in SignalIds : sig[i].state = "pending" /\ sig[i].run = run
                       /\ sig[i].step = step /\ sig[i].gen = gen}

EnqueueMerge(run, step, gen, reason, high, delay) ==
  /\ \E i \in PendingFor(run, step, gen) :
       sig' = [sig EXCEPT ![i] = Coalesce(sig[i], reason, high, delay)]
  /\ UNCHANGED <<held, issued>>

EnqueueNew(run, step, gen, reason, high, delay) ==
  /\ PendingFor(run, step, gen) = {}
  /\ \E i \in SignalIds :
       /\ sig[i].state = "absent"
       /\ sig' = [sig EXCEPT ![i] =
                    [state |-> "pending", run |-> run, step |-> step, gen |-> gen,
                     reasons |-> <<reason>>, high |-> high, wait |-> delay,
                     born |-> issued + 1, owner |-> None, left |-> 0]]
  /\ issued' = issued + 1
  /\ UNCHANGED held

-----------------------------------------------------------------------------
\* (mutant) takes every claim for expired
ExpiredAlways(row) == row.state = "claimed"

Expired(row) == row.state = "claimed" /\ row.left = 0

AfterExpiry ==
  [i \in SignalIds |-> IF Expired(sig[i]) THEN Unlease(sig[i], "pending") ELSE sig[i]]

ReleaseExpiredClaims ==
  /\ \E i \in SignalIds : Expired(sig[i])
  /\ Commits(AfterExpiry)
  /\ sig' = AfterExpiry
  /\ UNCHANGED <<held, issued>>

Claimable(table, eligible) ==
  {i \in SignalIds : table[i].state = "pending" /\ table[i].run \in eligible
                       /\ table[i].wait = 0}

\* High priority first, then the oldest createdAt.
Precedes(a, b) ==
  \/ a.high /\ ~b.high
  \/ a.high = b.high /\ a.born <= b.born

\* claimNext(): expired leases are released first, in the same transaction.
ClaimNext(c, eligible) ==
  /\ held[c] = None
  /\ Commits(AfterExpiry)
  /\ \E i \in Claimable(AfterExpiry, eligible) :
       /\ \A j \in Claimable(AfterExpiry, eligible) : Precedes(AfterExpiry[i], AfterExpiry[j])
       /\ sig' = [AfterExpiry EXCEPT ![i] =
                    WithLease(AfterExpiry[i], "claimed", c, LeaseTime)]
       /\ held' = [held EXCEPT ![c] = i]
  /\ UNCHANGED issued

\* (mutant) looks at the row's state, not at whose lease it is
LeaseValidByState(c) == held[c] # None /\ sig[held[c]].state = "claimed"

\* (mutant) trusts that the row is still the claimant's
LeaseValidAssumed(c) == held[c] # None

\* Is the lease c was given still the one on the row?
LeaseValid(c) == held[c] # None /\ sig[held[c]].owner = c

Finished(c, state) ==
  IF LeaseValid(c)
  THEN [sig EXCEPT ![held[c]] = Unlease(sig[held[c]], state)]
  ELSE sig

MarkProcessed(c) ==
  /\ held[c] # None
  /\ sig' = Finished(c, "processed")
  /\ held' = [held EXCEPT ![c] = None]
  /\ UNCHANGED issued

ReleaseClaim(c) ==
  /\ held[c] # None
  /\ Commits(Finished(c, "pending"))
  /\ sig' = Finished(c, "pending")
  /\ held' = [held EXCEPT ![c] = None]
  /\ UNCHANGED issued

\* The process dies, or its shutdown ends, with signals claimed: the rows stay.
ClaimantsLost ==
  /\ \E c \in Claimants : held[c] # None
  /\ held' = [c \in Claimants |-> None]
  /\ UNCHANGED <<sig, issued>>

\* (mutant) leaves the lease on a cancelled row
CancelRowsLeased(rows) ==
  [i \in SignalIds |-> IF i \in rows THEN [sig[i] EXCEPT !.state = "cancelled"] ELSE sig[i]]

CancelRows(rows) ==
  [i \in SignalIds |-> IF i \in rows THEN Unlease(sig[i], "cancelled") ELSE sig[i]]

Live(row) == row.state \in {"pending", "claimed"}

CancelSignalsForRun(run) ==
  LET rows == {i \in SignalIds : sig[i].run = run /\ Live(sig[i])}
  IN /\ rows # {}
     /\ sig' = CancelRows(rows)
     /\ UNCHANGED <<held, issued>>

CancelSignalsForStep(run, step) ==
  LET rows == {i \in SignalIds : sig[i].run = run /\ sig[i].step = step /\ Live(sig[i])}
  IN /\ rows # {}
     /\ sig' = CancelRows(rows)
     /\ UNCHANGED <<held, issued>>

\* (mutant) counts below zero
ElapseUnguarded(n) == n - 1

Elapse(n) == IF n = 0 THEN 0 ELSE n - 1

Tick ==
  /\ \E i \in SignalIds : Live(sig[i]) /\ (sig[i].wait > 0 \/ sig[i].left > 0)
  /\ sig' = [i \in SignalIds |->
               IF Live(sig[i])
               THEN [sig[i] EXCEPT !.wait = Elapse(@), !.left = Elapse(@)]
               ELSE sig[i]]
  /\ UNCHANGED <<held, issued>>

Enqueue ==
  \E run \in Runs, step \in Steps \cup {NoStep}, gen \in Gens, reason \in Reasons,
     high \in BOOLEAN, delay \in 0..MaxDelay :
       \/ EnqueueMerge(run, step, gen, reason, high, delay)
       \/ EnqueueNew(run, step, gen, reason, high, delay)

Claim == \E c \in Claimants, eligible \in SUBSET Runs : ClaimNext(c, eligible)

Cancel ==
  \/ \E run \in Runs : CancelSignalsForRun(run)
  \/ \E run \in Runs, step \in Steps : CancelSignalsForStep(run, step)

Next ==
  \/ Enqueue
  \/ Claim
  \/ ReleaseExpiredClaims
  \/ \E c \in Claimants : MarkProcessed(c)
  \/ \E c \in Claimants : ReleaseClaim(c)
  \/ ClaimantsLost
  \/ Cancel
  \/ Tick

Spec == Init /\ [][Next]_vars

\* Time passes, a coroutine that is not lost finishes its signal, and drains that
\* ask for every running run keep happening.  Nothing in the code schedules the
\* last: the wake timer looks at pending rows only.  Used for NoClaimStarves alone.
Fairness ==
  /\ WF_vars(Tick)
  /\ \A c \in Claimants : WF_vars(MarkProcessed(c))
  /\ WF_vars(\E c \in Claimants : ClaimNext(c, Runs))

FairSpec == Spec /\ Fairness

-----------------------------------------------------------------------------
\* A row carries a lease exactly while it is claimed; otherwise a coroutine
\* that comes back late could finish a signal that was cancelled under it.
LeaseOnlyWhileClaimed ==
  \A i \in SignalIds : (sig[i].owner # None) <=> (sig[i].state = "claimed")

\* The invariant of the table: every row is well-formed and carries a lease
\* exactly while it is claimed, in both stores and through every late return.
StoreInv == TypeOK /\ LeaseOnlyWhileClaimed

\* A lease is respected: while it runs no second claimant gets the row, and when
\* a row is marked processed that is done by the coroutine that holds its lease,
\* never by an earlier claimant that comes back late (markProcessed returns false
\* for it).
LeaseIsRespected ==
  [][\A i \in SignalIds :
       /\ (sig[i].owner # None /\ sig[i].left > 0) => sig'[i].owner \in {sig[i].owner, None}
       /\ (sig'[i].state = "processed" /\ sig[i].state # "processed")
            => /\ sig[i].state = "claimed"
               /\ held[sig[i].owner] = i
               /\ held'[sig[i].owner] = None]_vars

\* While a signal waits, merging and time only make it sooner, more urgent and
\* better justified; its first reason, which becomes the attempt's trigger,
\* never changes.
WaitingOnlyStrengthens ==
  [][\A i \in SignalIds :
       (sig[i].state = "pending" /\ sig'[i].state = "pending")
         => /\ sig'[i].wait <= sig[i].wait
            /\ sig[i].high => sig'[i].high
            /\ sig'[i].born = sig[i].born
            /\ Len(sig'[i].reasons) <= MaxReasons
            /\ \E n \in 0..1 :
                 /\ Len(sig'[i].reasons) = Len(sig[i].reasons) + n
                 /\ SubSeq(sig'[i].reasons, 1, Len(sig[i].reasons)) = sig[i].reasons]_vars

\* The store keeps the queue's promise: whatever the clocks, keys and late
\* coroutines do, a signal has one holder at a time, only that holder finishes
\* it, and a finished or cancelled one stays so.
Queue == INSTANCE SignalQueue WITH
           duty <- [i \in SignalIds |-> sig[i].state],
           holder <- [i \in SignalIds |-> sig[i].owner]

KeepsPromise == Queue!QueueSpec

\* An abandoned claim is handed on, finished or cancelled, provided that drains
\* keep coming: what the port says of claimNext. Violated by the SQLite twin even
\* then (MCSignalStoreDurable.cfg; README, 8).
NoClaimStarves ==
  \A i \in SignalIds : (sig[i].state = "claimed" /\ held[sig[i].owner] # i)
                          ~> (sig[i].state # "claimed" \/ held[sig[i].owner] = i)
=============================================================================
