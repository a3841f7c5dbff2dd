--------------------------- MODULE PersistenceProofs ---------------------------
(***************************************************************************)
(* What holds of the two parts of the persistence that several processes   *)
(* or coroutines contend for.                                              *)
(*                                                                         *)
(* The signal queue, for any number of rows, runs, steps and coroutines,   *)
(* in both of its implementations: its invariant, what a step may do to a  *)
(* row, and that it implements SignalQueue.                                *)
(*                                                                         *)
(* The data directory, for any number of instances: each boot judges       *)
(* rightly how the one before it ended, and durable writes are committed   *)
(* in the order of the epochs.                                             *)
(***************************************************************************)
EXTENDS SignalStore, InstanceOwnership, SequenceTheorems, TLAPS

-----------------------------------------------------------------------------
(* The signal queue. *)

\* Merging a reason leaves a sequence of reasons.
LEMMA AddReasonType ==
  ASSUME NEW reasons \in Seq(Reasons), NEW reason \in Reasons
  PROVE  AddReason(reasons, reason) \in Seq(Reasons)
BY DEF AddReason

\* Writing the three lease fields of a row keeps it a row.
LEMMA WithLeaseType ==
  ASSUME NEW row \in SignalRow, NEW state \in States,
         NEW owner \in Claimants \cup {None}, NEW left \in 0..LeaseTime
  PROVE  /\ WithLease(row, state, owner, left) \in SignalRow
         /\ WithLease(row, state, owner, left).owner = owner
         /\ WithLease(row, state, owner, left).state = state
<1> DEFINE times == 0..LeaseTime
           owners == Claimants \cup {None}
           delays == 0..MaxDelay
           reasons == Seq(Reasons)
           steps == Steps \cup {NoStep}
<1>1. SignalRow = [state : States, run : Runs, step : steps, gen : Gens, reasons : reasons,
                   high : BOOLEAN, wait : delays, born : Nat, owner : owners, left : times]
  BY DEF SignalRow
<1>2. left \in times /\ owner \in owners
  OBVIOUS
<1> HIDE DEF times, owners, delays, reasons, steps
<1>3. QED
  BY <1>1, <1>2 DEF WithLease

\* Taking the lease off a row keeps it a row.
LEMMA UnleaseType ==
  ASSUME NEW row \in SignalRow, NEW state \in States
  PROVE  /\ Unlease(row, state) \in SignalRow
         /\ Unlease(row, state).owner = None
         /\ Unlease(row, state).state = state
<1>1. 0 \in 0..LeaseTime /\ None \in Claimants \cup {None}
  BY TimeAssumption
<1>2. QED
  BY <1>1, WithLeaseType DEF Unlease

\* Releasing the expired leases keeps the table safe.
LEMMA ExpirySafe ==
  ASSUME StoreInv
  PROVE  /\ AfterExpiry \in [SignalIds -> SignalRow]
         /\ \A i \in SignalIds :
              (AfterExpiry[i].owner # None) <=> (AfterExpiry[i].state = "claimed")
<1>1. ASSUME NEW i \in SignalIds
      PROVE  /\ AfterExpiry[i] \in SignalRow
             /\ (AfterExpiry[i].owner # None) <=> (AfterExpiry[i].state = "claimed")
  <2>1. "pending" \in States
    BY DEF States
  <2>2. sig[i] \in SignalRow
    BY DEF StoreInv, TypeOK
  <2>3. CASE Expired(sig[i])
    <3>1. AfterExpiry[i] = Unlease(sig[i], "pending")
      BY <2>3 DEF AfterExpiry
    <3>2. QED
      BY <2>1, <2>2, <3>1, UnleaseType
  <2>4. CASE ~Expired(sig[i])
    <3>1. AfterExpiry[i] = sig[i]
      BY <2>4 DEF AfterExpiry
    <3>2. QED
      BY <2>2, <3>1 DEF StoreInv, LeaseOnlyWhileClaimed
  <2>5. QED
    BY <2>3, <2>4
<1>2. QED
  BY <1>1 DEF AfterExpiry

\* Cancelling rows keeps the table safe.
LEMMA CancelSafe ==
  ASSUME StoreInv, NEW rows
  PROVE  /\ CancelRows(rows) \in [SignalIds -> SignalRow]
         /\ \A i \in SignalIds :
              (CancelRows(rows)[i].owner # None) <=> (CancelRows(rows)[i].state = "claimed")
<1>1. ASSUME NEW i \in SignalIds
      PROVE  /\ CancelRows(rows)[i] \in SignalRow
             /\ (CancelRows(rows)[i].owner # None) <=> (CancelRows(rows)[i].state = "claimed")
  <2>1. "cancelled" \in States
    BY DEF States
  <2>2. sig[i] \in SignalRow
    BY DEF StoreInv, TypeOK
  <2>3. CASE i \in rows
    <3>1. CancelRows(rows)[i] = Unlease(sig[i], "cancelled")
      BY <2>3 DEF CancelRows
    <3>2. QED
      BY <2>1, <2>2, <3>1, UnleaseType
  <2>4. CASE i \notin rows
    <3>1. CancelRows(rows)[i] = sig[i]
      BY <2>4 DEF CancelRows
    <3>2. QED
      BY <2>2, <3>1 DEF StoreInv, LeaseOnlyWhileClaimed
  <2>5. QED
    BY <2>3, <2>4
<1>2. QED
  BY <1>1 DEF CancelRows

\* Finishing under a lease keeps the table safe.
LEMMA FinishSafe ==
  ASSUME StoreInv, NEW c \in Claimants, NEW state \in {"processed", "pending"}
  PROVE  /\ Finished(c, state) \in [SignalIds -> SignalRow]
         /\ \A i \in SignalIds :
              (Finished(c, state)[i].owner # None) <=> (Finished(c, state)[i].state = "claimed")
<1>1. CASE LeaseValid(c)
  <2>1. state \in States /\ state # "claimed"
    BY DEF States
  <2>2. held[c] \in SignalIds
    BY <1>1 DEF LeaseValid, StoreInv, TypeOK
  <2>3. sig[held[c]] \in SignalRow
    BY <2>2 DEF StoreInv, TypeOK
  <2>4. Finished(c, state) = [sig EXCEPT ![held[c]] = Unlease(sig[held[c]], state)]
    BY <1>1 DEF Finished
  <2>5. QED
    BY <2>1, <2>2, <2>3, <2>4, UnleaseType DEF StoreInv, TypeOK, LeaseOnlyWhileClaimed
<1>2. CASE ~LeaseValid(c)
  BY <1>2 DEF Finished, StoreInv, TypeOK, LeaseOnlyWhileClaimed
<1>3. QED
  BY <1>1, <1>2

LEMMA InitSafe ==
  ASSUME Init
  PROVE  StoreInv
<1>1. EmptyRow \in SignalRow /\ EmptyRow.owner = None /\ EmptyRow.state = "absent"
  <2>1. (CHOOSE r \in Runs : TRUE) \in Runs /\ (CHOOSE g \in Gens : TRUE) \in Gens
    BY KeyAssumption
  <2>2. <<>> \in Seq(Reasons)
    OBVIOUS
  <2>3. QED
    BY <2>1, <2>2, TimeAssumption DEF EmptyRow, SignalRow, States
<1>2. QED
  BY <1>1 DEF Init, StoreInv, TypeOK, LeaseOnlyWhileClaimed

LEMMA NextSafe ==
  ASSUME StoreInv, [Next]_vars
  PROVE  StoreInv'
<1> USE DEF StoreInv
<1>1. ASSUME NEW run \in Runs, NEW step \in Steps \cup {NoStep}, NEW gen \in Gens,
             NEW reason \in Reasons, NEW high \in BOOLEAN, NEW delay \in 0..MaxDelay,
             EnqueueMerge(run, step, gen, reason, high, delay)
      PROVE  StoreInv'
  <2>1. PICK i \in PendingFor(run, step, gen) :
          sig' = [sig EXCEPT ![i] = Coalesce(sig[i], reason, high, delay)]
    BY <1>1 DEF EnqueueMerge
  <2>2. i \in SignalIds /\ sig[i] \in SignalRow
    BY <2>1 DEF PendingFor, TypeOK
  <2>3. AddReason(sig[i].reasons, reason) \in Seq(Reasons)
    BY <2>2, AddReasonType DEF SignalRow
  <2>4. Lesser(sig[i].wait, delay) \in 0..MaxDelay
    BY <2>2 DEF Lesser, SignalRow
  <2>5. Coalesce(sig[i], reason, high, delay) \in SignalRow
    BY <2>2, <2>3, <2>4 DEF Coalesce, SignalRow
  <2>6. /\ Coalesce(sig[i], reason, high, delay).owner = sig[i].owner
        /\ Coalesce(sig[i], reason, high, delay).state = sig[i].state
    BY <2>2 DEF Coalesce, SignalRow
  <2>7. UNCHANGED <<held, issued>>
    BY <1>1 DEF EnqueueMerge
  <2>8. QED
    BY <2>1, <2>2, <2>5, <2>6, <2>7 DEF TypeOK, LeaseOnlyWhileClaimed
<1>2. ASSUME NEW run \in Runs, NEW step \in Steps \cup {NoStep}, NEW gen \in Gens,
             NEW reason \in Reasons, NEW high \in BOOLEAN, NEW delay \in 0..MaxDelay,
             EnqueueNew(run, step, gen, reason, high, delay)
      PROVE  StoreInv'
  <2> DEFINE row == [state |-> "pending", run |-> run, step |-> step, gen |-> gen,
                     reasons |-> <<reason>>, high |-> high, wait |-> delay,
                     born |-> issued + 1, owner |-> None, left |-> 0]
  <2>1. row \in SignalRow
    BY TimeAssumption DEF SignalRow, States, TypeOK
  <2>2. PICK i \in SignalIds : sig' = [sig EXCEPT ![i] = row]
    BY <1>2 DEF EnqueueNew
  <2>3. issued' = issued + 1 /\ held' = held
    BY <1>2 DEF EnqueueNew
  <2>4. row.owner = None /\ row.state = "pending"
    OBVIOUS
  <2> HIDE DEF row
  <2>5. QED
    BY <2>1, <2>2, <2>3, <2>4 DEF TypeOK, LeaseOnlyWhileClaimed
<1>3. ASSUME NEW c \in Claimants, NEW eligible \in SUBSET Runs, ClaimNext(c, eligible)
      PROVE  StoreInv'
  <2>1. PICK i \in Claimable(AfterExpiry, eligible) :
          /\ sig' = [AfterExpiry EXCEPT ![i] =
                       WithLease(AfterExpiry[i], "claimed", c, LeaseTime)]
          /\ held' = [held EXCEPT ![c] = i]
    BY <1>3 DEF ClaimNext
  <2> DEFINE row == WithLease(AfterExpiry[i], "claimed", c, LeaseTime)
  <2>2. i \in SignalIds
    BY <2>1 DEF Claimable
  <2>3. AfterExpiry[i] \in SignalRow
    BY <2>2, ExpirySafe
  <2>4. row \in SignalRow /\ row.owner = c /\ row.state = "claimed"
    <3>1. LeaseTime \in 0..LeaseTime /\ "claimed" \in States
      BY TimeAssumption DEF States
    <3>2. QED
      BY <2>3, <3>1, WithLeaseType
  <2>5. c # None
    BY NoneAssumption
  <2> HIDE DEF row
  <2>6. sig' = [AfterExpiry EXCEPT ![i] = row]
    BY <2>1 DEF row
  <2>7. sig' \in [SignalIds -> SignalRow] /\ LeaseOnlyWhileClaimed'
    BY <2>2, <2>4, <2>5, <2>6, ExpirySafe DEF LeaseOnlyWhileClaimed
  <2>8. QED
    BY <1>3, <2>1, <2>2, <2>7 DEF TypeOK, ClaimNext
<1>4. CASE ReleaseExpiredClaims
  BY <1>4, ExpirySafe DEF ReleaseExpiredClaims, TypeOK, LeaseOnlyWhileClaimed
<1>5. ASSUME NEW c \in Claimants, MarkProcessed(c)
      PROVE  StoreInv'
  <2>1. sig' = Finished(c, "processed") /\ held' = [held EXCEPT ![c] = None]
          /\ issued' = issued
    BY <1>5 DEF MarkProcessed
  <2>2. QED
    BY <2>1, FinishSafe DEF TypeOK, LeaseOnlyWhileClaimed
<1>6. ASSUME NEW c \in Claimants, ReleaseClaim(c)
      PROVE  StoreInv'
  <2>1. sig' = Finished(c, "pending") /\ held' = [held EXCEPT ![c] = None]
          /\ issued' = issued
    BY <1>6 DEF ReleaseClaim
  <2>2. QED
    BY <2>1, FinishSafe DEF TypeOK, LeaseOnlyWhileClaimed
<1>7. CASE ClaimantsLost
  BY <1>7 DEF ClaimantsLost, TypeOK, LeaseOnlyWhileClaimed
<1>8. CASE Cancel
  <2>1. PICK rows : sig' = CancelRows(rows) /\ UNCHANGED <<held, issued>>
    BY <1>8 DEF Cancel, CancelSignalsForRun, CancelSignalsForStep
  <2>2. QED
    BY <2>1, CancelSafe DEF TypeOK, LeaseOnlyWhileClaimed
<1>9. CASE Tick
  <2>1. ASSUME NEW i \in SignalIds
        PROVE  /\ sig'[i] \in SignalRow
               /\ sig'[i].owner = sig[i].owner
               /\ sig'[i].state = sig[i].state
    <3>1. sig[i] \in SignalRow
      BY DEF TypeOK
    <3>2. Elapse(sig[i].wait) \in 0..MaxDelay /\ Elapse(sig[i].left) \in 0..LeaseTime
      BY <3>1, TimeAssumption DEF Elapse, SignalRow
    <3>3. sig'[i] = IF Live(sig[i])
                    THEN [sig[i] EXCEPT !.wait = Elapse(@), !.left = Elapse(@)]
                    ELSE sig[i]
      BY <1>9 DEF Tick
    <3>4. QED
      BY <3>1, <3>2, <3>3 DEF SignalRow
  <2>2. sig' \in [SignalIds -> SignalRow]
    BY <1>9, <2>1 DEF Tick
  <2>3. QED
    BY <1>9, <2>1, <2>2 DEF Tick, TypeOK, LeaseOnlyWhileClaimed
<1>10. CASE UNCHANGED vars
  BY <1>10 DEF vars, TypeOK, LeaseOnlyWhileClaimed
<1>11. QED
  BY <1>1, <1>2, <1>3, <1>4, <1>5, <1>6, <1>7, <1>8, <1>9, <1>10 DEF Next, Enqueue, Claim

\* A lease sits on a row exactly while it is claimed, so a coroutine that
\* returns after its signal was cancelled or handed on can change nothing.
THEOREM LeaseFencing == Spec => []StoreInv
<1>1. Init => StoreInv
  BY InitSafe
<1>2. StoreInv /\ [Next]_vars => StoreInv'
  BY NextSafe
<1>3. QED
  BY <1>1, <1>2, PTL DEF Spec

-----------------------------------------------------------------------------
\* The store implements SignalQueue: the state and the lease of each row are the
\* duty and its holder.

\* A lease that runs out gives its signal back, and changes no other row.
LEMMA ExpiryGivesBack ==
  ASSUME StoreInv, NEW i \in SignalIds
  PROVE  /\ AfterExpiry[i].state = IF Expired(sig[i]) THEN "pending" ELSE sig[i].state
         /\ AfterExpiry[i].owner = IF Expired(sig[i]) THEN None ELSE sig[i].owner
<1>1. sig[i] \in SignalRow
  BY DEF StoreInv, TypeOK
<1>2. "pending" \in States
  BY DEF States
<1>3. QED
  BY <1>1, <1>2, UnleaseType DEF AfterExpiry

\* Signals whose lease ran out wait again.
LEMMA ReleaseIsBack ==
  ASSUME StoreInv, ReleaseExpiredClaims
  PROVE  \E lapsed \in SUBSET SignalIds : Queue!Back(lapsed)
<1>0. PICK lapsed \in SUBSET SignalIds : lapsed = {i \in SignalIds : Expired(sig[i])}
  OBVIOUS
<1> DEFINE states == [i \in SignalIds |-> IF i \in lapsed THEN "pending" ELSE sig[i].state]
           owners == [i \in SignalIds |-> IF i \in lapsed THEN None ELSE sig[i].owner]
<1>1. \A i \in SignalIds : sig'[i].state = states[i] /\ sig'[i].owner = owners[i]
  BY <1>0, ExpiryGivesBack DEF ReleaseExpiredClaims
<1>2. \A i \in lapsed : sig[i].state = "claimed"
  BY <1>0 DEF Expired
<1>3. Queue!Back(lapsed)
  BY <1>1, <1>2 DEF Queue!Back
<1>4. QED
  BY <1>3

\* A claim takes one waiting signal, expired leases having been released.
LEMMA ClaimIsTake ==
  ASSUME StoreInv, NEW c \in Claimants, NEW eligible \in SUBSET Runs, ClaimNext(c, eligible)
  PROVE  \E i \in SignalIds, lapsed \in SUBSET SignalIds : Queue!Take(c, i, lapsed)
<1>1. PICK i \in Claimable(AfterExpiry, eligible) :
        sig' = [AfterExpiry EXCEPT ![i] = WithLease(AfterExpiry[i], "claimed", c, LeaseTime)]
  BY DEF ClaimNext
<1>0. PICK lapsed \in SUBSET SignalIds : lapsed = {j \in SignalIds : Expired(sig[j])}
  OBVIOUS
<1> DEFINE row == WithLease(AfterExpiry[i], "claimed", c, LeaseTime)
<1>2. i \in SignalIds /\ AfterExpiry[i].state = "pending"
  BY <1>1 DEF Claimable
<1>3. row.state = "claimed" /\ row.owner = c
  <2>1. AfterExpiry[i] \in SignalRow
    BY <1>2, ExpirySafe
  <2>2. LeaseTime \in 0..LeaseTime /\ "claimed" \in States
    BY TimeAssumption DEF States
  <2>3. QED
    BY <2>1, <2>2, WithLeaseType
<1>4. sig[i].state = "pending" \/ i \in lapsed
  BY <1>0, <1>2, ExpiryGivesBack
<1>5. \A j \in lapsed : sig[j].state = "claimed"
  BY <1>0 DEF Expired
<1> HIDE DEF row
<1>6. sig' = [AfterExpiry EXCEPT ![i] = row]
  BY <1>1 DEF row
<1>7. \A j \in SignalIds : sig'[j] = IF j = i THEN row ELSE AfterExpiry[j]
  BY <1>6, <1>2, ExpirySafe
<1>8. \A j \in SignalIds :
        /\ sig'[j].state = IF j = i THEN "claimed"
                           ELSE IF j \in lapsed THEN "pending" ELSE sig[j].state
        /\ sig'[j].owner = IF j = i THEN c
                           ELSE IF j \in lapsed THEN None ELSE sig[j].owner
  BY <1>0, <1>3, <1>7, ExpiryGivesBack
<1>9. Queue!Take(c, i, lapsed)
  BY <1>2, <1>4, <1>5, <1>8 DEF Queue!Take
<1>10. QED
  BY <1>2, <1>9

\* Finishing a signal is its holder's step, or nothing at all for a coroutine
\* whose lease is gone.
LEMMA FinishIsFinish ==
  ASSUME StoreInv, NEW c \in Claimants, NEW state \in {"processed", "pending"},
         sig' = Finished(c, state)
  PROVE  \/ \E i \in SignalIds : Queue!Finish(c, i)
         \/ sig' = sig
<1>1. CASE LeaseValid(c)
  <2>0. PICK i \in SignalIds : i = held[c]
    BY <1>1 DEF LeaseValid, StoreInv, TypeOK
  <2> DEFINE row == Unlease(sig[i], state)
  <2>1. sig[i].owner = c
    BY <1>1, <2>0 DEF LeaseValid
  <2>2. sig[i].state = "claimed"
    BY <2>1, NoneAssumption DEF StoreInv, LeaseOnlyWhileClaimed
  <2>3. row.state = state /\ row.owner = None
    <3>1. sig[i] \in SignalRow /\ state \in States
      BY DEF StoreInv, TypeOK, States
    <3>2. QED
      BY <3>1, UnleaseType
  <2> HIDE DEF row
  <2>4. sig' = [sig EXCEPT ![i] = row]
    BY <1>1, <2>0 DEF Finished, row
  <2>5. \A j \in SignalIds : sig'[j] = IF j = i THEN row ELSE sig[j]
    BY <2>4 DEF StoreInv, TypeOK
  <2>6. Queue!Finish(c, i)
    BY <2>1, <2>2, <2>3, <2>5 DEF Queue!Finish
  <2>7. QED
    BY <2>6
<1>2. CASE ~LeaseValid(c)
  BY <1>2 DEF Finished
<1>3. QED
  BY <1>1, <1>2

\* Cancelling drops signals that wait or are claimed.
LEMMA CancelIsDrop ==
  ASSUME StoreInv, NEW rows \in SUBSET SignalIds, \A i \in rows : Live(sig[i]),
         sig' = CancelRows(rows)
  PROVE  \E gone \in SUBSET SignalIds : Queue!Drop(gone)
<1>1. ASSUME NEW i \in SignalIds
      PROVE  /\ sig'[i].state = IF i \in rows THEN "cancelled" ELSE sig[i].state
             /\ sig'[i].owner = IF i \in rows THEN None ELSE sig[i].owner
  <2>1. sig[i] \in SignalRow /\ "cancelled" \in States
    BY DEF StoreInv, TypeOK, States
  <2>2. QED
    BY <2>1, UnleaseType DEF CancelRows
<1>2. \A i \in rows : sig[i].state \in {"pending", "claimed"}
  BY DEF Live
<1>3. Queue!Drop(rows)
  BY <1>1, <1>2 DEF Queue!Drop
<1>4. QED
  BY <1>3

\* A request is a new signal, or is merged into one that waits and stays where
\* it was.
LEMMA EnqueueIsAsk ==
  ASSUME StoreInv, Enqueue
  PROVE  (\E i \in SignalIds : Queue!Ask(i)) \/ UNCHANGED Queue!queue
<1>1. PICK run \in Runs, step \in Steps \cup {NoStep}, gen \in Gens, reason \in Reasons,
           high \in BOOLEAN, delay \in 0..MaxDelay :
        \/ EnqueueMerge(run, step, gen, reason, high, delay)
        \/ EnqueueNew(run, step, gen, reason, high, delay)
  BY DEF Enqueue
<1>2. CASE EnqueueMerge(run, step, gen, reason, high, delay)
  <2>1. PICK i \in PendingFor(run, step, gen) :
          sig' = [sig EXCEPT ![i] = Coalesce(sig[i], reason, high, delay)]
    BY <1>2 DEF EnqueueMerge
  <2>2. i \in SignalIds /\ sig[i] \in SignalRow
    BY <2>1 DEF PendingFor, StoreInv, TypeOK
  <2>3. /\ Coalesce(sig[i], reason, high, delay).owner = sig[i].owner
        /\ Coalesce(sig[i], reason, high, delay).state = sig[i].state
    BY <2>2 DEF Coalesce, SignalRow
  <2>4. \A j \in SignalIds : sig'[j].state = sig[j].state /\ sig'[j].owner = sig[j].owner
    BY <2>1, <2>2, <2>3 DEF StoreInv, TypeOK
  <2>5. QED
    BY <2>4 DEF Queue!queue
<1>3. CASE EnqueueNew(run, step, gen, reason, high, delay)
  <2> DEFINE row == [state |-> "pending", run |-> run, step |-> step, gen |-> gen,
                     reasons |-> <<reason>>, high |-> high, wait |-> delay,
                     born |-> issued + 1, owner |-> None, left |-> 0]
  <2>1. PICK i \in SignalIds : sig[i].state = "absent" /\ sig' = [sig EXCEPT ![i] = row]
    BY <1>3 DEF EnqueueNew
  <2>2. row.state = "pending" /\ row.owner = None
    OBVIOUS
  <2>3. sig[i].owner = None
    BY <2>1, NoneAssumption DEF StoreInv, LeaseOnlyWhileClaimed
  <2> HIDE DEF row
  <2>4. \A j \in SignalIds : sig'[j] = IF j = i THEN row ELSE sig[j]
    BY <2>1 DEF StoreInv, TypeOK
  <2>5. Queue!Ask(i)
    <3>1. \A j \in SignalIds : sig'[j].state = IF j = i THEN "pending" ELSE sig[j].state
      BY <2>2, <2>4
    <3>2. \A j \in SignalIds : sig'[j].owner = sig[j].owner
      BY <2>2, <2>3, <2>4
    <3>3. QED
      BY <2>1, <3>1, <3>2 DEF Queue!Ask
  <2>6. QED
    BY <2>5
<1>4. QED
  BY <1>1, <1>2, <1>3

\* Every step of the store is a step of the queue or leaves it as it is.
LEMMA StepKeepsPromise ==
  ASSUME StoreInv, [Next]_vars
  PROVE  [Queue!QueueNext]_(Queue!queue)
<1>1. ASSUME sig' = sig PROVE UNCHANGED Queue!queue
  BY <1>1 DEF Queue!queue
<1>2. CASE Enqueue
  BY <1>2, EnqueueIsAsk DEF Queue!QueueNext
<1>3. CASE Claim
  BY <1>3, ClaimIsTake DEF Claim, Queue!QueueNext
<1>4. CASE ReleaseExpiredClaims
  BY <1>4, ReleaseIsBack DEF Queue!QueueNext
<1>5. ASSUME NEW c \in Claimants, MarkProcessed(c) \/ ReleaseClaim(c)
      PROVE  Queue!QueueNext \/ UNCHANGED Queue!queue
  <2>1. sig' = Finished(c, "processed") \/ sig' = Finished(c, "pending")
    BY <1>5 DEF MarkProcessed, ReleaseClaim
  <2>2. QED
    BY <1>1, <2>1, FinishIsFinish DEF Queue!QueueNext
<1>6. CASE ClaimantsLost \/ UNCHANGED vars
  BY <1>1, <1>6 DEF ClaimantsLost, vars
<1>7. CASE Cancel
  <2>1. PICK rows \in SUBSET SignalIds : (\A i \in rows : Live(sig[i])) /\ sig' = CancelRows(rows)
    BY <1>7 DEF Cancel, CancelSignalsForRun, CancelSignalsForStep
  <2>2. QED
    BY <2>1, CancelIsDrop DEF Queue!QueueNext
<1>8. CASE Tick
  <2>1. ASSUME NEW i \in SignalIds
        PROVE  sig'[i].state = sig[i].state /\ sig'[i].owner = sig[i].owner
    BY <1>8 DEF Tick, StoreInv, TypeOK, SignalRow
  <2>2. QED
    BY <2>1 DEF Queue!queue
<1>9. QED
  BY <1>2, <1>3, <1>4, <1>5, <1>6, <1>7, <1>8 DEF Next

\* The store implements the queue: for any number of rows, claimants, keys and
\* delays, in memory and in SQLite, a signal is taken by one claimant at a time,
\* finished by its holder only, and done or dropped once and for all.
THEOREM StoreKeepsPromise == Spec => KeepsPromise
<1>1. Init => Queue!QueueInit
  BY DEF Init, Queue!QueueInit, EmptyRow
<1>2. StoreInv /\ [Next]_vars => [Queue!QueueNext]_(Queue!queue)
  BY StepKeepsPromise
<1>3. Spec => []StoreInv
  BY LeaseFencing
<1>4. QED
  BY <1>1, <1>2, <1>3, PTL DEF Spec, KeepsPromise, Queue!QueueSpec

-----------------------------------------------------------------------------
\* What a step may do to a row: the two action properties.

\* No signal keeps more reasons than the store retains.
ReasonsBounded == \A i \in SignalIds : Len(sig[i].reasons) <= MaxReasons

\* The eight things that can happen to a row in one step.
Merged(row, new) ==
  \E reason \in Reasons, high \in BOOLEAN, delay \in 0..MaxDelay :
    row.state = "pending" /\ new = Coalesce(row, reason, high, delay)

Created(row, new) ==
  row.state = "absent" /\ new.state = "pending" /\ Len(new.reasons) = 1

Lapsed(row, new) == Expired(row) /\ new = Unlease(row, "pending")

Taken(row, new) ==
  /\ row.state = "pending" \/ Expired(row)
  /\ \E c \in Claimants :
       \/ new = WithLease(row, "claimed", c, LeaseTime)
       \/ new = WithLease(Unlease(row, "pending"), "claimed", c, LeaseTime)

Ended(i, row, new) ==
  \E c \in Claimants, state \in {"processed", "pending"} :
    /\ held[c] = i /\ row.owner = c /\ held'[c] = None
    /\ new = Unlease(row, state)

Aged(row, new) ==
  Live(row) /\ new = [row EXCEPT !.wait = Elapse(@), !.left = Elapse(@)]

RowSteps(i, row, new) ==
  \/ new = row
  \/ Merged(row, new)
  \/ Created(row, new)
  \/ Lapsed(row, new)
  \/ Taken(row, new)
  \/ Ended(i, row, new)
  \/ Live(row) /\ new = Unlease(row, "cancelled")
  \/ Aged(row, new)

\* Every step does one of these to each row.
LEMMA StepOfRow ==
  ASSUME StoreInv, [Next]_vars, NEW i \in SignalIds
  PROVE  RowSteps(i, sig[i], sig'[i])
<1>0. sig \in [SignalIds -> SignalRow] /\ held \in [Claimants -> SignalIds \cup {None}]
  BY DEF StoreInv, TypeOK
<1> USE DEF RowSteps
<1>1. ASSUME NEW run \in Runs, NEW step \in Steps \cup {NoStep}, NEW gen \in Gens,
             NEW reason \in Reasons, NEW high \in BOOLEAN, NEW delay \in 0..MaxDelay,
             EnqueueMerge(run, step, gen, reason, high, delay)
      PROVE  RowSteps(i, sig[i], sig'[i])
  <2>1. PICK j \in PendingFor(run, step, gen) :
          sig' = [sig EXCEPT ![j] = Coalesce(sig[j], reason, high, delay)]
    BY <1>1 DEF EnqueueMerge
  <2>2. j \in SignalIds /\ sig[j].state = "pending"
    BY <2>1 DEF PendingFor
  <2>3. sig'[i] = IF i = j THEN Coalesce(sig[j], reason, high, delay) ELSE sig[i]
    BY <1>0, <2>1, <2>2
  <2>4. QED
    BY <2>2, <2>3 DEF Merged
<1>2. ASSUME NEW run \in Runs, NEW step \in Steps \cup {NoStep}, NEW gen \in Gens,
             NEW reason \in Reasons, NEW high \in BOOLEAN, NEW delay \in 0..MaxDelay,
             EnqueueNew(run, step, gen, reason, high, delay)
      PROVE  RowSteps(i, sig[i], sig'[i])
  <2> DEFINE row == [state |-> "pending", run |-> run, step |-> step, gen |-> gen,
                     reasons |-> <<reason>>, high |-> high, wait |-> delay,
                     born |-> issued + 1, owner |-> None, left |-> 0]
  <2>1. PICK j \in SignalIds : sig[j].state = "absent" /\ sig' = [sig EXCEPT ![j] = row]
    BY <1>2 DEF EnqueueNew
  <2>2. row.state = "pending" /\ Len(row.reasons) = 1
    OBVIOUS
  <2> HIDE DEF row
  <2>3. sig'[i] = IF i = j THEN row ELSE sig[i]
    BY <1>0, <2>1
  <2>4. QED
    BY <2>1, <2>2, <2>3 DEF Created
<1>3. ASSUME NEW c \in Claimants, NEW eligible \in SUBSET Runs, ClaimNext(c, eligible)
      PROVE  RowSteps(i, sig[i], sig'[i])
  <2>1. PICK j \in Claimable(AfterExpiry, eligible) :
          sig' = [AfterExpiry EXCEPT ![j] = WithLease(AfterExpiry[j], "claimed", c, LeaseTime)]
    BY <1>3 DEF ClaimNext
  <2>2. j \in SignalIds /\ AfterExpiry[j].state = "pending"
    BY <2>1 DEF Claimable
  <2>3. sig'[i] = IF i = j THEN WithLease(AfterExpiry[i], "claimed", c, LeaseTime)
                           ELSE AfterExpiry[i]
    BY <2>1, <2>2, ExpirySafe
  <2>4. AfterExpiry[i] = IF Expired(sig[i]) THEN Unlease(sig[i], "pending") ELSE sig[i]
    BY DEF AfterExpiry
  <2>5. CASE i = j
    BY <2>2, <2>3, <2>4, <2>5 DEF Taken
  <2>6. CASE i # j
    BY <2>3, <2>4, <2>6 DEF Lapsed
  <2>7. QED
    BY <2>5, <2>6
<1>4. CASE ReleaseExpiredClaims
  BY <1>4 DEF ReleaseExpiredClaims, AfterExpiry, Lapsed
<1>5. ASSUME NEW c \in Claimants, NEW state \in {"processed", "pending"},
             held[c] # None, sig' = Finished(c, state), held' = [held EXCEPT ![c] = None]
      PROVE  RowSteps(i, sig[i], sig'[i])
  <2>1. CASE LeaseValid(c) /\ held[c] = i
    <3>1. sig' = [sig EXCEPT ![i] = Unlease(sig[i], state)]
      BY <1>5, <2>1 DEF Finished
    <3>2. sig'[i] = Unlease(sig[i], state)
      BY <1>0, <3>1
    <3>3. sig[i].owner = c /\ held'[c] = None
      BY <1>0, <1>5, <2>1 DEF LeaseValid
    <3>4. QED
      BY <2>1, <3>2, <3>3 DEF Ended
  <2>2. CASE ~(LeaseValid(c) /\ held[c] = i)
    BY <1>0, <1>5, <2>2 DEF Finished
  <2>3. QED
    BY <2>1, <2>2
<1>6. CASE \E c \in Claimants : MarkProcessed(c)
  BY <1>5, <1>6 DEF MarkProcessed
<1>7. CASE \E c \in Claimants : ReleaseClaim(c)
  BY <1>5, <1>7 DEF ReleaseClaim
<1>8. CASE Cancel
  <2>1. PICK rows : (\A j \in rows : Live(sig[j])) /\ sig' = CancelRows(rows)
    BY <1>8 DEF Cancel, CancelSignalsForRun, CancelSignalsForStep
  <2>2. QED
    BY <2>1 DEF CancelRows
<1>9. CASE Tick
  BY <1>9 DEF Tick, Aged
<1>10. CASE ClaimantsLost \/ UNCHANGED vars
  BY <1>10 DEF ClaimantsLost, vars
<1>11. QED
  BY <1>1, <1>2, <1>3, <1>4, <1>6, <1>7, <1>8, <1>9, <1>10 DEF Next, Enqueue, Claim

\* Merging adds at most the new reason, behind the ones that are there, and
\* never beyond what the store retains.
LEMMA AddReasonExtends ==
  ASSUME NEW reasons \in Seq(Reasons), NEW reason \in Reasons, Len(reasons) <= MaxReasons
  PROVE  /\ Len(AddReason(reasons, reason)) <= MaxReasons
         /\ \E n \in 0..1 : Len(AddReason(reasons, reason)) = Len(reasons) + n
         /\ SubSeq(AddReason(reasons, reason), 1, Len(reasons)) = reasons
<1>1. Len(reasons) \in Nat /\ SubSeq(reasons, 1, Len(reasons)) = reasons
  BY SubSeqFull
<1>2. CASE AddReason(reasons, reason) = reasons
  BY <1>1, <1>2
<1>3. CASE AddReason(reasons, reason) # reasons
  <2> DEFINE longer == Append(reasons, reason)
  <2>1. AddReason(reasons, reason) = longer /\ Len(reasons) < MaxReasons
    <3>1. ~(reason \in {reasons[n] : n \in 1..Len(reasons)} \/ Len(reasons) >= MaxReasons)
      BY <1>3, Zenon DEF AddReason
    <3>2. AddReason(reasons, reason) = longer
      BY <3>1, Zenon DEF AddReason
    <3>3. QED
      BY <1>1, <3>1, <3>2, ReasonAssumption
  <2>2. /\ longer \in Seq(Reasons) /\ Len(longer) = Len(reasons) + 1
        /\ \A n \in 1..Len(reasons) : longer[n] = reasons[n]
    BY AppendProperties
  <2> HIDE DEF longer
  <2>3. /\ SubSeq(longer, 1, Len(reasons)) \in Seq(Reasons)
        /\ Len(SubSeq(longer, 1, Len(reasons))) = Len(reasons)
        /\ \A n \in 1..Len(reasons) : SubSeq(longer, 1, Len(reasons))[n] = longer[n]
    <3>1. \A n \in 1..Len(reasons) : longer[n] \in Reasons
      BY <2>2, ElementOfSeq
    <3>2. /\ SubSeq(longer, 1, Len(reasons)) \in Seq(Reasons)
          /\ Len(SubSeq(longer, 1, Len(reasons)))
               = IF 1 <= Len(reasons) THEN Len(reasons) - 1 + 1 ELSE 0
          /\ \A n \in 1..(Len(reasons) - 1 + 1) :
               SubSeq(longer, 1, Len(reasons))[n] = longer[1 + n - 1]
      BY <1>1, <3>1, SubSeqProperties
    <3>3. QED
      BY <1>1, <3>2
  <2>4. SubSeq(longer, 1, Len(reasons)) = reasons
    BY <2>2, <2>3, SeqEqual
  <2>5. QED
    BY <1>1, <2>1, <2>2, <2>4, ReasonAssumption
<1>4. QED
  BY <1>2, <1>3

\* Writing the lease fields leaves the request itself alone.
LEMMA LeaseKeepsRequest ==
  ASSUME NEW row \in SignalRow, NEW state \in States,
         NEW owner \in Claimants \cup {None}, NEW left \in 0..LeaseTime
  PROVE  /\ WithLease(row, state, owner, left).reasons = row.reasons
         /\ WithLease(row, state, owner, left).wait = row.wait
         /\ WithLease(row, state, owner, left).high = row.high
         /\ WithLease(row, state, owner, left).born = row.born
         /\ WithLease(row, state, owner, left).left = left
BY DEF WithLease, SignalRow

\* What a merge leaves of a waiting request.
LEMMA CoalesceStrengthens ==
  ASSUME NEW row \in SignalRow, Len(row.reasons) <= MaxReasons,
         NEW reason \in Reasons, NEW high \in BOOLEAN, NEW delay \in 0..MaxDelay
  PROVE  /\ Coalesce(row, reason, high, delay).reasons = AddReason(row.reasons, reason)
         /\ Coalesce(row, reason, high, delay).wait <= row.wait
         /\ row.high => Coalesce(row, reason, high, delay).high
         /\ Coalesce(row, reason, high, delay).born = row.born
         /\ Coalesce(row, reason, high, delay).owner = row.owner
         /\ Coalesce(row, reason, high, delay).state = row.state
<1> DEFINE merged == Coalesce(row, reason, high, delay)
<1>1. /\ merged.reasons = AddReason(row.reasons, reason)
      /\ merged.wait = Lesser(row.wait, delay)
      /\ merged.high = (row.high \/ high)
      /\ merged.born = row.born
      /\ merged.owner = row.owner
      /\ merged.state = row.state
  BY DEF Coalesce, SignalRow
<1>2. Lesser(row.wait, delay) <= row.wait
  BY TimeAssumption DEF Lesser, SignalRow
<1>3. QED
  BY <1>1, <1>2

\* A row in the five steps that keep its request, and in the one that ages it.
LEMMA RowKept ==
  ASSUME StoreInv, NEW i \in SignalIds, RowSteps(i, sig[i], sig'[i]),
         sig[i].state # "absent", ~Merged(sig[i], sig'[i])
  PROVE  /\ sig'[i].reasons = sig[i].reasons
         /\ sig'[i].high = sig[i].high
         /\ sig'[i].born = sig[i].born
         /\ sig'[i].wait <= sig[i].wait
<1>0. sig[i] \in SignalRow
  BY DEF StoreInv, TypeOK
<1>1. sig[i].wait \in Nat /\ 0 \in 0..LeaseTime /\ LeaseTime \in 0..LeaseTime
      /\ {"pending", "claimed", "processed", "cancelled"} \subseteq States
  BY <1>0, TimeAssumption DEF SignalRow, States
<1> DEFINE Same(new) == /\ new.reasons = sig[i].reasons
                        /\ new.high = sig[i].high
                        /\ new.born = sig[i].born
                        /\ new.wait = sig[i].wait
<1>2. ASSUME NEW state \in {"pending", "claimed", "processed", "cancelled"}
      PROVE  Same(Unlease(sig[i], state))
  BY <1>0, <1>1, LeaseKeepsRequest DEF Unlease
<1>3. CASE Lapsed(sig[i], sig'[i])
  BY <1>1, <1>2, <1>3 DEF Lapsed
<1>4. CASE Taken(sig[i], sig'[i])
  <2>1. PICK c \in Claimants :
          \/ sig'[i] = WithLease(sig[i], "claimed", c, LeaseTime)
          \/ sig'[i] = WithLease(Unlease(sig[i], "pending"), "claimed", c, LeaseTime)
    BY <1>4 DEF Taken
  <2>2. Unlease(sig[i], "pending") \in SignalRow /\ Same(Unlease(sig[i], "pending"))
    BY <1>0, <1>1, <1>2, UnleaseType
  <2>3. CASE sig'[i] = WithLease(sig[i], "claimed", c, LeaseTime)
    BY <1>0, <1>1, <2>3, LeaseKeepsRequest
  <2>4. CASE sig'[i] = WithLease(Unlease(sig[i], "pending"), "claimed", c, LeaseTime)
    BY <1>1, <2>2, <2>4, LeaseKeepsRequest
  <2>5. QED
    BY <2>1, <2>3, <2>4
<1>5. CASE Ended(i, sig[i], sig'[i])
  BY <1>1, <1>2, <1>5 DEF Ended
<1>6. CASE Live(sig[i]) /\ sig'[i] = Unlease(sig[i], "cancelled")
  BY <1>1, <1>2, <1>6
<1>7. CASE Aged(sig[i], sig'[i])
  BY <1>0, <1>7 DEF Aged, Elapse, SignalRow
<1>8. CASE sig'[i] = sig[i]
  BY <1>1, <1>8
<1>9. QED
  BY <1>3, <1>4, <1>5, <1>6, <1>7, <1>8 DEF RowSteps, Created

\* No step keeps more reasons than the store retains.
LEMMA ReasonsStayBounded ==
  ASSUME StoreInv, ReasonsBounded, [Next]_vars
  PROVE  ReasonsBounded'
<1> SUFFICES ASSUME NEW i \in SignalIds
             PROVE  Len(sig'[i].reasons) <= MaxReasons
  BY DEF ReasonsBounded
<1>1. sig[i] \in SignalRow /\ Len(sig[i].reasons) <= MaxReasons
  BY DEF StoreInv, TypeOK, ReasonsBounded
<1>2. RowSteps(i, sig[i], sig'[i])
  BY StepOfRow
<1>3. CASE Merged(sig[i], sig'[i])
  <2>1. PICK reason \in Reasons, high \in BOOLEAN, delay \in 0..MaxDelay :
          sig'[i] = Coalesce(sig[i], reason, high, delay)
    BY <1>3 DEF Merged
  <2>2. sig'[i].reasons = AddReason(sig[i].reasons, reason)
    BY <1>1, <2>1, CoalesceStrengthens
  <2>3. sig[i].reasons \in Seq(Reasons)
    BY <1>1 DEF SignalRow
  <2>4. QED
    BY <1>1, <2>2, <2>3, AddReasonExtends
<1>4. CASE sig[i].state = "absent" /\ ~Merged(sig[i], sig'[i])
  <2>1. CASE Created(sig[i], sig'[i])
    BY <2>1, ReasonAssumption DEF Created
  <2>2. CASE sig'[i] = sig[i]
    BY <1>1, <2>2
  <2>3. CASE Ended(i, sig[i], sig'[i])
    BY <1>4, <2>3, NoneAssumption DEF Ended, StoreInv, LeaseOnlyWhileClaimed
  <2>4. QED
    BY <1>2, <1>4, <2>1, <2>2, <2>3 DEF RowSteps, Lapsed, Taken, Aged, Expired, Live
<1>5. CASE sig[i].state # "absent" /\ ~Merged(sig[i], sig'[i])
  BY <1>1, <1>2, <1>5, RowKept
<1>6. QED
  BY <1>3, <1>4, <1>5

LEMMA ReasonsAreBounded == Spec => []ReasonsBounded
<1>1. Init => ReasonsBounded
  <2>1. Len(EmptyRow.reasons) = 0
    BY DEF EmptyRow
  <2>2. QED
    BY <2>1, ReasonAssumption DEF Init, ReasonsBounded
<1>2. StoreInv /\ ReasonsBounded /\ [Next]_vars => ReasonsBounded'
  BY ReasonsStayBounded
<1>3. QED
  BY <1>1, <1>2, LeaseFencing, PTL DEF Spec

LEMMA StepStrengthens ==
  ASSUME StoreInv, ReasonsBounded, [Next]_vars, NEW i \in SignalIds,
         sig[i].state = "pending", sig'[i].state = "pending"
  PROVE  /\ sig'[i].wait <= sig[i].wait
         /\ sig[i].high => sig'[i].high
         /\ sig'[i].born = sig[i].born
         /\ Len(sig'[i].reasons) <= MaxReasons
         /\ \E n \in 0..1 :
              /\ Len(sig'[i].reasons) = Len(sig[i].reasons) + n
              /\ SubSeq(sig'[i].reasons, 1, Len(sig[i].reasons)) = sig[i].reasons
<1>1. sig[i] \in SignalRow /\ Len(sig[i].reasons) <= MaxReasons
  BY DEF StoreInv, TypeOK, ReasonsBounded
<1>2. sig[i].reasons \in Seq(Reasons)
  BY <1>1 DEF SignalRow
<1>3. RowSteps(i, sig[i], sig'[i])
  BY StepOfRow
<1>4. CASE Merged(sig[i], sig'[i])
  <2>1. PICK reason \in Reasons, high \in BOOLEAN, delay \in 0..MaxDelay :
          sig'[i] = Coalesce(sig[i], reason, high, delay)
    BY <1>4 DEF Merged
  <2>2. /\ sig'[i].reasons = AddReason(sig[i].reasons, reason)
        /\ sig'[i].wait <= sig[i].wait
        /\ sig[i].high => sig'[i].high
        /\ sig'[i].born = sig[i].born
    BY <1>1, <2>1, CoalesceStrengthens
  <2>3. QED
    BY <1>1, <1>2, <2>2, AddReasonExtends
<1>5. CASE ~Merged(sig[i], sig'[i])
  <2>1. /\ sig'[i].reasons = sig[i].reasons
        /\ sig'[i].high = sig[i].high
        /\ sig'[i].born = sig[i].born
        /\ sig'[i].wait <= sig[i].wait
    BY <1>3, <1>5, RowKept
  <2>2. Len(sig[i].reasons) \in Nat /\ SubSeq(sig[i].reasons, 1, Len(sig[i].reasons)) = sig[i].reasons
    BY <1>2, SubSeqFull
  <2>3. Len(sig'[i].reasons) = Len(sig[i].reasons) + 0
    BY <2>1, <2>2
  <2>4. QED
    BY <1>1, <2>1, <2>2, <2>3
<1>6. QED
  BY <1>4, <1>5

\* While a signal waits it only becomes sooner, more urgent and better justified:
\* neither a merge nor the clock nor a lease that comes and goes takes anything
\* from it, and the reason it was first asked for stays the first.
THEOREM WaitingStrengthens == Spec => WaitingOnlyStrengthens
<1>1. StoreInv /\ ReasonsBounded /\ [Next]_vars =>
        [\A i \in SignalIds :
           (sig[i].state = "pending" /\ sig'[i].state = "pending")
             => /\ sig'[i].wait <= sig[i].wait
                /\ sig[i].high => sig'[i].high
                /\ sig'[i].born = sig[i].born
                /\ Len(sig'[i].reasons) <= MaxReasons
                /\ \E n \in 0..1 :
                     /\ Len(sig'[i].reasons) = Len(sig[i].reasons) + n
                     /\ SubSeq(sig'[i].reasons, 1, Len(sig[i].reasons)) = sig[i].reasons]_vars
  BY StepStrengthens
<1>2. QED
  BY <1>1, LeaseFencing, ReasonsAreBounded, PTL DEF Spec, WaitingOnlyStrengthens

LEMMA StepRespectsLease ==
  ASSUME StoreInv, [Next]_vars, NEW i \in SignalIds
  PROVE  /\ (sig[i].owner # None /\ sig[i].left > 0) => sig'[i].owner \in {sig[i].owner, None}
         /\ (sig'[i].state = "processed" /\ sig[i].state # "processed")
              => /\ sig[i].state = "claimed"
                 /\ held[sig[i].owner] = i
                 /\ held'[sig[i].owner] = None
<1>0. /\ sig[i] \in SignalRow
      /\ (sig[i].owner # None) <=> (sig[i].state = "claimed")
  BY DEF StoreInv, TypeOK, LeaseOnlyWhileClaimed
<1>1. /\ 0 \in 0..LeaseTime /\ LeaseTime \in 0..LeaseTime
      /\ {"pending", "claimed", "processed", "cancelled"} \subseteq States
      /\ sig[i].left \in Nat
  BY <1>0, TimeAssumption DEF SignalRow, States
<1>2. RowSteps(i, sig[i], sig'[i])
  BY StepOfRow
<1>3. CASE Lapsed(sig[i], sig'[i])
  <2>1. "pending" \in States
    BY <1>1
  <2>2. sig'[i].owner = None /\ sig'[i].state = "pending"
    BY <1>0, <1>3, <2>1, UnleaseType DEF Lapsed
  <2> QED
    BY <2>2
<1>4. CASE Taken(sig[i], sig'[i])
  <2>1. PICK c \in Claimants :
          \/ sig'[i] = WithLease(sig[i], "claimed", c, LeaseTime)
          \/ sig'[i] = WithLease(Unlease(sig[i], "pending"), "claimed", c, LeaseTime)
    BY <1>4 DEF Taken
  <2>2. Unlease(sig[i], "pending") \in SignalRow
    BY <1>0, <1>1, UnleaseType
  <2>3. sig'[i].state = "claimed"
    BY <1>0, <1>1, <2>1, <2>2, WithLeaseType
  <2>4. sig[i].owner = None \/ sig[i].left = 0
    BY <1>0, <1>4 DEF Taken, Expired
  <2>5. QED
    BY <1>1, <2>3, <2>4
<1>5. CASE Ended(i, sig[i], sig'[i])
  <2>1. PICK c \in Claimants, state \in {"processed", "pending"} :
          /\ held[c] = i /\ sig[i].owner = c /\ held'[c] = None
          /\ sig'[i] = Unlease(sig[i], state)
    BY <1>5 DEF Ended
  <2>2. state \in States
    BY <1>1
  <2>3. sig'[i].owner = None
    BY <1>0, <2>1, <2>2, UnleaseType
  <2>4. sig[i].owner # None
    BY <2>1, NoneAssumption
  <2>5. sig[i].state = "claimed"
    BY <1>0, <2>4
  <2> QED
    BY <2>1, <2>3, <2>5
<1>6. CASE Live(sig[i]) /\ sig'[i] = Unlease(sig[i], "cancelled")
  <2>1. "cancelled" \in States
    BY <1>1
  <2>2. sig'[i].owner = None /\ sig'[i].state = "cancelled"
    BY <1>0, <1>6, <2>1, UnleaseType
  <2> QED
    BY <2>2
<1>7. CASE Aged(sig[i], sig'[i]) \/ sig'[i] = sig[i]
  BY <1>0, <1>7 DEF Aged, SignalRow
<1>8. CASE Merged(sig[i], sig'[i])
  <2>1. PICK reason \in Reasons, high \in BOOLEAN, delay \in 0..MaxDelay :
          sig[i].state = "pending" /\ sig'[i] = Coalesce(sig[i], reason, high, delay)
    BY <1>8 DEF Merged
  <2>2. sig'[i].owner = sig[i].owner /\ sig'[i].state = sig[i].state
    BY <1>0, <2>1 DEF Coalesce, SignalRow
  <2>3. QED
    BY <2>1, <2>2
<1>9. CASE Created(sig[i], sig'[i])
  BY <1>0, <1>9 DEF Created
<1>10. QED
  BY <1>2, <1>3, <1>4, <1>5, <1>6, <1>7, <1>8, <1>9 DEF RowSteps

\* A lease that still runs is never taken over, and only the coroutine that holds
\* it marks the signal processed: one that comes back late changes nothing.
THEOREM LeasesAreRespected == Spec => LeaseIsRespected
<1>1. StoreInv /\ [Next]_vars =>
        [\A i \in SignalIds :
           /\ (sig[i].owner # None /\ sig[i].left > 0) => sig'[i].owner \in {sig[i].owner, None}
           /\ (sig'[i].state = "processed" /\ sig[i].state # "processed")
                => /\ sig[i].state = "claimed"
                   /\ held[sig[i].owner] = i
                   /\ held'[sig[i].owner] = None]_vars
  BY StepRespectsLease
<1>2. QED
  BY <1>1, LeaseFencing, PTL DEF Spec, LeaseIsRespected

-----------------------------------------------------------------------------
(* The data directory. *)

\* Until it has recorded its boot, an instance is in one of these places.
Early == {"off", "exists", "stale", "staged", "verify", "locked"}
Unbooted == Early \cup {"fenced", "recovering"}

\* No timer runs before the epoch is taken, and a rename that is about to
\* happen has a file to put in place.
FilesAreStaged ==
  \A i \in Instances :
    /\ pc[i] \in Early => beat[i] = "off"
    /\ pc[i] = "staged" => tmp[i] \in Age
    /\ beat[i] = "staged" => tmp[i] \in Age

\* No fence and no write is ahead of the database.
FencesInOrder == last <= db.epoch /\ \A i \in Instances : fence[i] <= db.epoch

\* A boot row is written once, after the previous boot was read.
BootedOnce == \A k \in DOMAIN boots : pc[boots[k].inst] \notin Unbooted

\* Only the row of the last boot can still change.
HolderIsLast == \A k \in DOMAIN boots : Holds(boots[k].inst) => k = Len(boots)

\* What an instance that still holds the database has read of the previous
\* boot is still so: nobody else can write in between.
ReadIsCurrent == \A i \in Instances : (pc[i] = "recovering" /\ Holds(i)) => prev[i] = Ending

OrderInv == FencesInOrder /\ BootedOnce /\ HolderIsLast /\ ReadIsCurrent /\ BootsJudgeTheirPredecessor

TypedInv == OwnershipTypeOK /\ FilesAreStaged

-----------------------------------------------------------------------------
\* How the last boot ended is one of the endings there are.
LEMMA EndingType ==
  ASSUME NEW rows \in Seq([inst : Instances, clean : BOOLEAN]), boots = rows
  PROVE  Ending \in Endings
BY DEF Ending, Endings

\* Every boot row names an instance.
LEMMA BootersAreInstances ==
  ASSUME TypedInv
  PROVE  \A k \in DOMAIN boots : boots[k].inst \in Instances
<1> DEFINE Row == [inst : Instances, clean : BOOLEAN]
<1>1. boots \in Seq(Row) /\ \A row \in Row : row.inst \in Instances
  BY DEF TypedInv, OwnershipTypeOK
<1> HIDE DEF Row
<1>2. \A k \in 1..Len(boots) : boots[k] \in Row
  BY <1>1, ElementOfSeq
<1>3. DOMAIN boots = 1..Len(boots)
  BY <1>1
<1>4. QED
  BY <1>1, <1>2, <1>3

\* Marking an instance's rows clean changes no other row.
LEMMA CleanedType ==
  ASSUME NEW rows \in Seq([inst : Instances, clean : BOOLEAN]), NEW i \in Instances, NEW rows2,
         rows2 = [k \in DOMAIN rows |->
                    IF rows[k].inst = i THEN [rows[k] EXCEPT !.clean = TRUE] ELSE rows[k]]
  PROVE  /\ rows2 \in Seq([inst : Instances, clean : BOOLEAN])
         /\ Len(rows2) = Len(rows) /\ DOMAIN rows2 = DOMAIN rows
         /\ \A k \in DOMAIN rows :
              /\ rows2[k].inst = rows[k].inst
              /\ rows[k].inst # i => rows2[k] = rows[k]
<1>1. DOMAIN rows = 1..Len(rows) /\ Len(rows) \in Nat
  OBVIOUS
<1>2. \A k \in 1..Len(rows) : rows2[k] \in [inst : Instances, clean : BOOLEAN]
  <2>1. TAKE k \in 1..Len(rows)
  <2>2. rows[k] \in [inst : Instances, clean : BOOLEAN]
    BY ElementOfSeq
  <2>3. [rows[k] EXCEPT !.clean = TRUE] \in [inst : Instances, clean : BOOLEAN]
    BY <2>2
  <2>4. QED
    BY <1>1, <2>2, <2>3
<1>3. \A k \in 1..Len(rows) : rows2[k].inst = rows[k].inst /\ (rows[k].inst # i => rows2[k] = rows[k])
  <2>1. TAKE k \in 1..Len(rows)
  <2>2. rows[k] \in [inst : Instances, clean : BOOLEAN]
    BY ElementOfSeq
  <2>3. [rows[k] EXCEPT !.clean = TRUE].inst = rows[k].inst
    BY <2>2
  <2>4. QED
    BY <1>1, <2>3
<1>4. rows2 \in [1..Len(rows) -> [inst : Instances, clean : BOOLEAN]]
  BY <1>1, <1>2
<1>5. rows2 \in Seq([inst : Instances, clean : BOOLEAN]) /\ Len(rows2) = Len(rows)
  BY <1>1, <1>4
<1>6. QED
  BY <1>1, <1>3, <1>5

\* A recorded boot becomes the last row.
LEMMA Appended ==
  ASSUME NEW rows \in Seq([inst : Instances, clean : BOOLEAN]), NEW i \in Instances
  PROVE  LET rows2 == Append(rows, [inst |-> i, clean |-> FALSE])
         IN  /\ rows2 \in Seq([inst : Instances, clean : BOOLEAN])
             /\ Len(rows2) = Len(rows) + 1
             /\ DOMAIN rows2 = 1..(Len(rows) + 1) /\ DOMAIN rows = 1..Len(rows)
             /\ rows2[Len(rows) + 1].inst = i
             /\ \A k \in DOMAIN rows : rows2[k] = rows[k]
<1> DEFINE row == [inst |-> i, clean |-> FALSE]
<1>1. row \in [inst : Instances, clean : BOOLEAN] /\ row.inst = i
  OBVIOUS
<1> HIDE DEF row
<1>2. QED
  BY <1>1, AppendProperties

-----------------------------------------------------------------------------
\* The first state is well-formed.
LEMMA InitTyped == OwnershipInit => TypedInv
<1> SUFFICES ASSUME OwnershipInit PROVE TypedInv
  OBVIOUS
<1>1. 0 \in Age /\ NoFile \in Age \cup {NoFile}
  BY StaleAssumption DEF Age, NoFile
<1>2. boots \in Seq([inst : Instances, clean : BOOLEAN])
  <2>1. [inst |-> Predecessor, clean |-> FALSE] \in [inst : Instances, clean : BOOLEAN]
    BY PredecessorAssumption
  <2>2. <<[inst |-> Predecessor, clean |-> FALSE]>> \in Seq([inst : Instances, clean : BOOLEAN])
    BY <2>1
  <2>3. <<>> \in Seq([inst : Instances, clean : BOOLEAN])
    OBVIOUS
  <2>4. QED
    BY <2>2, <2>3 DEF OwnershipInit
<1>3. OwnershipTypeOK
  BY <1>1, <1>2, PredecessorAssumption, StaleAssumption DEF OwnershipInit, OwnershipTypeOK, Places, Endings
<1>4. FilesAreStaged
  BY DEF OwnershipInit, FilesAreStaged, Early
<1>5. QED
  BY <1>3, <1>4 DEF TypedInv

\* Every step keeps the state well-formed.
LEMMA StepTyped == TypedInv /\ [OwnershipNext]_ownershipVars => TypedInv'
<1> SUFFICES ASSUME TypedInv, [OwnershipNext]_ownershipVars PROVE TypedInv'
  OBVIOUS
<1> USE StaleAssumption
<1>a. 0 \in Age /\ NoFile \notin Age /\ StaleAfter \in Nat
  BY DEF Age, NoFile
<1>1. ASSUME NEW i \in Instances, CreateLock(i) PROVE TypedInv'
  <2>2. OwnershipTypeOK'
    BY <1>a, <1>1 DEF CreateLock, Goto, TypedInv, OwnershipTypeOK, FilesAreStaged, Places
  <2>3. FilesAreStaged'
    BY <1>a, <1>1 DEF CreateLock, Goto, TypedInv, OwnershipTypeOK, FilesAreStaged, Early, Idle
  <2>4. QED
    BY <2>2, <2>3 DEF TypedInv
<1>2. ASSUME NEW i \in Instances, TearLock(i) PROVE TypedInv'
  <2>2. OwnershipTypeOK'
    BY <1>a, <1>2 DEF TearLock, Goto, TypedInv, OwnershipTypeOK, FilesAreStaged, Places
  <2>3. FilesAreStaged'
    BY <1>a, <1>2 DEF TearLock, Goto, TypedInv, OwnershipTypeOK, FilesAreStaged, Early, Idle
  <2>4. QED
    BY <2>2, <2>3 DEF TypedInv
<1>3. ASSUME NEW i \in Instances, LockExists(i) PROVE TypedInv'
  <2>2. OwnershipTypeOK'
    BY <1>a, <1>3 DEF LockExists, Goto, TypedInv, OwnershipTypeOK, FilesAreStaged, Places
  <2>3. FilesAreStaged'
    BY <1>a, <1>3 DEF LockExists, Goto, TypedInv, OwnershipTypeOK, FilesAreStaged, Early, Idle
  <2>4. QED
    BY <2>2, <2>3 DEF TypedInv
<1>4. ASSUME NEW i \in Instances, ReadLock(i) PROVE TypedInv'
  <2>2. OwnershipTypeOK'
    BY <1>a, <1>4 DEF ReadLock, Goto, TypedInv, OwnershipTypeOK, FilesAreStaged, Places
  <2>3. FilesAreStaged'
    BY <1>a, <1>4 DEF ReadLock, Goto, TypedInv, OwnershipTypeOK, FilesAreStaged, Early, Idle
  <2>4. QED
    BY <2>2, <2>3 DEF TypedInv
<1>5. ASSUME NEW i \in Instances, StageTakeover(i) PROVE TypedInv'
  <2>2. OwnershipTypeOK'
    BY <1>a, <1>5 DEF StageTakeover, Goto, TypedInv, OwnershipTypeOK, FilesAreStaged, Places
  <2>3. FilesAreStaged'
    BY <1>a, <1>5 DEF StageTakeover, Goto, TypedInv, OwnershipTypeOK, FilesAreStaged, Early, Idle
  <2>4. QED
    BY <2>2, <2>3 DEF TypedInv
<1>6. ASSUME NEW i \in Instances, TakeOver(i) PROVE TypedInv'
  <2>2. OwnershipTypeOK'
    BY <1>a, <1>6 DEF TakeOver, Rename, Goto, TypedInv, OwnershipTypeOK, FilesAreStaged, Places
  <2>3. FilesAreStaged'
    BY <1>a, <1>6 DEF TakeOver, Rename, Goto, TypedInv, OwnershipTypeOK, FilesAreStaged, Early, Idle
  <2>4. QED
    BY <2>2, <2>3 DEF TypedInv
<1>7. ASSUME NEW i \in Instances, TakeOverFails(i) PROVE TypedInv'
  <2>2. OwnershipTypeOK'
    BY <1>a, <1>7 DEF TakeOverFails, Goto, TypedInv, OwnershipTypeOK, FilesAreStaged, Places
  <2>3. FilesAreStaged'
    BY <1>a, <1>7 DEF TakeOverFails, Goto, TypedInv, OwnershipTypeOK, FilesAreStaged, Early, Idle
  <2>4. QED
    BY <2>2, <2>3 DEF TypedInv
<1>8. ASSUME NEW i \in Instances, VerifyTakeover(i) PROVE TypedInv'
  <2>2. OwnershipTypeOK'
    BY <1>a, <1>8 DEF VerifyTakeover, Goto, TypedInv, OwnershipTypeOK, FilesAreStaged, Places
  <2>3. FilesAreStaged'
    BY <1>a, <1>8 DEF VerifyTakeover, Goto, TypedInv, OwnershipTypeOK, FilesAreStaged, Early, Idle
  <2>4. QED
    BY <2>2, <2>3 DEF TypedInv
<1>9. ASSUME NEW i \in Instances, TakeEpoch(i) PROVE TypedInv'
  <2>2. OwnershipTypeOK'
    BY <1>a, <1>9 DEF TakeEpoch, Goto, TypedInv, OwnershipTypeOK, FilesAreStaged, Places
  <2>3. FilesAreStaged'
    BY <1>a, <1>9 DEF TakeEpoch, Goto, TypedInv, OwnershipTypeOK, FilesAreStaged, Early, Idle
  <2>4. QED
    BY <2>2, <2>3 DEF TypedInv
<1>10. ASSUME NEW i \in Instances, StorageFails(i) PROVE TypedInv'
  <2>2. OwnershipTypeOK'
    BY <1>a, <1>10 DEF StorageFails, Goto, TypedInv, OwnershipTypeOK, FilesAreStaged, Places
  <2>3. FilesAreStaged'
    BY <1>a, <1>10 DEF StorageFails, Goto, TypedInv, OwnershipTypeOK, FilesAreStaged, Early, Idle
  <2>4. QED
    BY <2>2, <2>3 DEF TypedInv
<1>11. ASSUME NEW i \in Instances, ReadPreviousBoot(i) PROVE TypedInv'
  <2>1. Ending \in Endings
    BY <1>11, EndingType DEF TypedInv, OwnershipTypeOK
  <2>2. OwnershipTypeOK'
    BY <1>a, <1>11, <2>1 DEF ReadPreviousBoot, Goto, TypedInv, OwnershipTypeOK, Places
  <2>3. FilesAreStaged'
    BY <1>a, <1>11 DEF ReadPreviousBoot, Goto, TypedInv, OwnershipTypeOK, FilesAreStaged, Early, Idle
  <2>4. QED
    BY <2>2, <2>3 DEF TypedInv
<1>12. ASSUME NEW i \in Instances, RecordBoot(i) PROVE TypedInv'
  <2>1. boots' \in Seq([inst : Instances, clean : BOOLEAN])
    <3>0. boots \in Seq([inst : Instances, clean : BOOLEAN])
      BY DEF TypedInv, OwnershipTypeOK
    <3>1. CASE Holds(i)
      <4>1. boots' = Append(boots, [inst |-> i, clean |-> FALSE])
        BY <1>12, <3>1 DEF RecordBoot
      <4>2. QED
        BY <3>0, <4>1, Appended
    <3>2. CASE ~Holds(i)
      BY <1>12, <3>2 DEF RecordBoot, TypedInv, OwnershipTypeOK
    <3>3. QED
      BY <3>1, <3>2
  <2>2. last' \in Nat /\ pc' \in [Instances -> Places]
    <3>1. /\ last \in Nat /\ fence[i] \in Nat /\ pc \in [Instances -> Places]
          /\ "starting" \in Places /\ "leaving" \in Places
      BY DEF TypedInv, OwnershipTypeOK, Places
    <3>2. QED
      BY <1>12, <3>1 DEF RecordBoot, Commit, Goto
  <2>3. OwnershipTypeOK'
    BY <1>12, <2>1, <2>2 DEF RecordBoot, TypedInv, OwnershipTypeOK
  <2>4. FilesAreStaged'
    BY <1>12 DEF RecordBoot, Goto, TypedInv, OwnershipTypeOK, FilesAreStaged, Early, Idle
  <2>5. QED
    BY <2>3, <2>4 DEF TypedInv
<1>13. ASSUME NEW i \in Instances, Write(i) PROVE TypedInv'
  <2>2. OwnershipTypeOK'
    BY <1>a, <1>13 DEF Write, Commit, Goto, TypedInv, OwnershipTypeOK, FilesAreStaged, Places
  <2>3. FilesAreStaged'
    BY <1>a, <1>13 DEF Write, Commit, Goto, TypedInv, OwnershipTypeOK, FilesAreStaged, Early, Idle
  <2>4. QED
    BY <2>2, <2>3 DEF TypedInv
<1>14. ASSUME NEW i \in Instances, Listen(i) PROVE TypedInv'
  <2>2. OwnershipTypeOK'
    BY <1>a, <1>14 DEF Listen, Goto, TypedInv, OwnershipTypeOK, FilesAreStaged, Places
  <2>3. FilesAreStaged'
    BY <1>a, <1>14 DEF Listen, Goto, TypedInv, OwnershipTypeOK, FilesAreStaged, Early, Idle
  <2>4. QED
    BY <2>2, <2>3 DEF TypedInv
<1>15. ASSUME NEW i \in Instances, BeatStage(i) PROVE TypedInv'
  <2>1. tmp' \in [Instances -> Age \cup {NoFile}] /\ beat' \in [Instances -> {"off", "idle", "staged"}]
    <3>1. tmp \in [Instances -> Age \cup {NoFile}] /\ beat \in [Instances -> {"off", "idle", "staged"}]
      BY DEF TypedInv, OwnershipTypeOK
    <3>2. QED
      BY <1>a, <1>15, <3>1 DEF BeatStage
  <2>2. OwnershipTypeOK'
    BY <1>15, <2>1 DEF BeatStage, TypedInv, OwnershipTypeOK
  <2>3. FilesAreStaged'
    BY <1>a, <1>15 DEF BeatStage, TypedInv, OwnershipTypeOK, FilesAreStaged, Early
  <2>4. QED
    BY <2>2, <2>3 DEF TypedInv
<1>16. ASSUME NEW i \in Instances, BeatRename(i) PROVE TypedInv'
  <2>2. OwnershipTypeOK'
    BY <1>a, <1>16 DEF BeatRename, Rename, Goto, TypedInv, OwnershipTypeOK, FilesAreStaged, Places
  <2>3. FilesAreStaged'
    BY <1>a, <1>16 DEF BeatRename, Rename, Goto, TypedInv, OwnershipTypeOK, FilesAreStaged, Early, Idle
  <2>4. QED
    BY <2>2, <2>3 DEF TypedInv
<1>17. ASSUME NEW i \in Instances, BeatRenameFails(i) PROVE TypedInv'
  <2>2. OwnershipTypeOK'
    BY <1>a, <1>17 DEF BeatRenameFails, Goto, TypedInv, OwnershipTypeOK, FilesAreStaged, Places
  <2>3. FilesAreStaged'
    BY <1>a, <1>17 DEF BeatRenameFails, Goto, TypedInv, OwnershipTypeOK, FilesAreStaged, Early, Idle
  <2>4. QED
    BY <2>2, <2>3 DEF TypedInv
<1>18. ASSUME NEW i \in Instances, MonitorTick(i) PROVE TypedInv'
  <2>2. OwnershipTypeOK'
    BY <1>a, <1>18 DEF MonitorTick, Goto, TypedInv, OwnershipTypeOK, FilesAreStaged, Places
  <2>3. FilesAreStaged'
    BY <1>a, <1>18 DEF MonitorTick, Goto, TypedInv, OwnershipTypeOK, FilesAreStaged, Early, Idle
  <2>4. QED
    BY <2>2, <2>3 DEF TypedInv
<1>19. ASSUME NEW i \in Instances, Shutdown(i) PROVE TypedInv'
  <2>2. OwnershipTypeOK'
    BY <1>a, <1>19 DEF Shutdown, Goto, TypedInv, OwnershipTypeOK, FilesAreStaged, Places
  <2>3. FilesAreStaged'
    BY <1>a, <1>19 DEF Shutdown, Goto, TypedInv, OwnershipTypeOK, FilesAreStaged, Early, Idle
  <2>4. QED
    BY <2>2, <2>3 DEF TypedInv
<1>20. ASSUME NEW i \in Instances, RecordClean(i) PROVE TypedInv'
  <2>1. boots' \in Seq([inst : Instances, clean : BOOLEAN])
    BY <1>20, CleanedType DEF RecordClean, TypedInv, OwnershipTypeOK
  <2>2. OwnershipTypeOK'
    BY <1>a, <1>20, <2>1 DEF RecordClean, Commit, Goto, TypedInv, OwnershipTypeOK, Places
  <2>3. FilesAreStaged'
    <3>1. pc' = [pc EXCEPT ![i] = "leaving"] /\ tmp' = tmp /\ beat' = beat
      BY <1>20 DEF RecordClean, Goto
    <3>2. pc \in [Instances -> Places] /\ FilesAreStaged
      BY DEF TypedInv, OwnershipTypeOK
    <3>3. \A j \in Instances : pc'[j] = pc[j] \/ pc'[j] = "leaving"
      BY <3>1, <3>2
    <3> QED
      BY <3>1, <3>2, <3>3 DEF FilesAreStaged, Early
  <2>4. QED
    BY <2>2, <2>3 DEF TypedInv
<1>21. ASSUME NEW i \in Instances, ReleaseRead(i) PROVE TypedInv'
  <2>2. OwnershipTypeOK'
    BY <1>a, <1>21 DEF ReleaseRead, Goto, TypedInv, OwnershipTypeOK, FilesAreStaged, Places
  <2>3. FilesAreStaged'
    BY <1>a, <1>21 DEF ReleaseRead, Goto, TypedInv, OwnershipTypeOK, FilesAreStaged, Early, Idle
  <2>4. QED
    BY <2>2, <2>3 DEF TypedInv
<1>22. ASSUME NEW i \in Instances, ReleaseRemove(i) PROVE TypedInv'
  <2>2. OwnershipTypeOK'
    BY <1>a, <1>22 DEF ReleaseRemove, Goto, TypedInv, OwnershipTypeOK, FilesAreStaged, Places
  <2>3. FilesAreStaged'
    BY <1>a, <1>22 DEF ReleaseRemove, Goto, TypedInv, OwnershipTypeOK, FilesAreStaged, Early, Idle
  <2>4. QED
    BY <2>2, <2>3 DEF TypedInv
<1>23. ASSUME NEW i \in Instances, Crash(i) PROVE TypedInv'
  <2>2. OwnershipTypeOK'
    BY <1>a, <1>23 DEF Crash, Goto, TypedInv, OwnershipTypeOK, FilesAreStaged, Places
  <2>3. FilesAreStaged'
    BY <1>a, <1>23 DEF Crash, Goto, TypedInv, OwnershipTypeOK, FilesAreStaged, Early, Idle
  <2>4. QED
    BY <2>2, <2>3 DEF TypedInv
<1>24. ASSUME LockAges PROVE TypedInv'
  <2>1. \A age \in Age : Older(age) \in Age
    BY DEF Age, Older
  <2>2. Older(NoFile) = NoFile
    BY DEF Older, NoFile
  <2>3. OwnershipTypeOK'
    BY <1>24, <2>1, <2>2 DEF LockAges, TypedInv, OwnershipTypeOK
  <2>4. FilesAreStaged'
    BY <1>24, <2>1, <2>2 DEF LockAges, TypedInv, OwnershipTypeOK, FilesAreStaged
  <2>5. QED
    BY <2>3, <2>4 DEF TypedInv
<1>25. ASSUME UNCHANGED ownershipVars PROVE TypedInv'
  BY <1>25 DEF ownershipVars, TypedInv, OwnershipTypeOK, FilesAreStaged
<1>26. QED
  BY <1>1, <1>2, <1>3, <1>4, <1>5, <1>6, <1>7, <1>8, <1>9, <1>10, <1>11, <1>12, <1>13,
     <1>14, <1>15, <1>16, <1>17, <1>18, <1>19, <1>20, <1>21, <1>22, <1>23, <1>24, <1>25
     DEF OwnershipNext, Acquire, Serve, Heartbeat, Leave

\* Every variable keeps its type, for any number of instances.
THEOREM OwnershipTypes == OwnershipSpec => []TypedInv
<1>1. QED
  BY InitTyped, StepTyped, PTL DEF OwnershipSpec

-----------------------------------------------------------------------------
\* A step that leaves the database, the boots and what was read of them alone,
\* and takes nobody back to its start, keeps the order.
LEMMA OrderFrame ==
  ASSUME TypedInv, OrderInv, UNCHANGED <<db, fence, boots, prev>>,
         last' \in Nat, last' <= db.epoch,
         \A i \in Instances : /\ pc'[i] \in Unbooted => pc[i] \in Unbooted
                              /\ pc'[i] = "recovering" => pc[i] = "recovering"
  PROVE  OrderInv'
<1>1. FencesInOrder'
  BY DEF OrderInv, FencesInOrder
<1>2. BootedOnce'
  <2>1. QED
    BY BootersAreInstances DEF OrderInv, BootedOnce
<1>3. HolderIsLast'
  BY DEF OrderInv, HolderIsLast, Holds
<1>4. ReadIsCurrent'
  BY DEF OrderInv, ReadIsCurrent, Holds, Ending
<1>5. BootsJudgeTheirPredecessor'
  BY DEF OrderInv, BootsJudgeTheirPredecessor
<1>6. QED
  BY <1>1, <1>2, <1>3, <1>4, <1>5 DEF OrderInv

\* An instance that takes the next epoch has no boot row yet.
LEMMA TakeEpochOrder ==
  ASSUME TypedInv, OrderInv, NEW i \in Instances, TakeEpoch(i)
  PROVE  OrderInv'
<1>1. /\ db'.owner = i /\ db'.epoch = db.epoch + 1 /\ db.epoch \in Nat /\ last \in Nat
      /\ fence' = [fence EXCEPT ![i] = db.epoch + 1] /\ fence \in [Instances -> Nat]
      /\ pc' = [pc EXCEPT ![i] = "fenced"] /\ pc[i] = "locked" /\ pc \in [Instances -> Places]
      /\ boots' = boots /\ prev' = prev /\ last' = last
  BY DEF TakeEpoch, Goto, TypedInv, OwnershipTypeOK
<1>2. \A k \in DOMAIN boots : boots[k].inst \in Instances /\ boots[k].inst # i
  <2>1. pc[i] \in Unbooted
    BY <1>1 DEF Unbooted, Early
  <2>2. QED
    BY <2>1, BootersAreInstances DEF OrderInv, BootedOnce
<1>3. FencesInOrder'
  BY <1>1 DEF OrderInv, FencesInOrder
<1>4. BootedOnce'
  BY <1>1, <1>2 DEF OrderInv, BootedOnce
<1>5. \A j \in Instances : Holds(j)' => j = i
  BY <1>1 DEF Holds
<1>6. HolderIsLast'
  BY <1>1, <1>2, <1>5 DEF HolderIsLast
<1>7. ReadIsCurrent'
  BY <1>1, <1>5 DEF ReadIsCurrent
<1>8. BootsJudgeTheirPredecessor'
  BY <1>1 DEF OrderInv, BootsJudgeTheirPredecessor
<1>9. QED
  BY <1>3, <1>4, <1>6, <1>7, <1>8 DEF OrderInv

\* What an instance reads of the previous boot is what the table says.
LEMMA ReadOrder ==
  ASSUME TypedInv, OrderInv, NEW i \in Instances, ReadPreviousBoot(i)
  PROVE  OrderInv'
<1>1. /\ db' = db /\ last' = last /\ fence' = fence /\ boots' = boots
      /\ prev' = [prev EXCEPT ![i] = Ending] /\ prev \in [Instances -> Endings]
      /\ pc' = [pc EXCEPT ![i] = "recovering"] /\ pc[i] = "fenced" /\ pc \in [Instances -> Places]
  BY DEF ReadPreviousBoot, Goto, TypedInv, OwnershipTypeOK
<1>2. \A k \in DOMAIN boots : boots[k].inst \in Instances /\ boots[k].inst # i
  <2>1. pc[i] \in Unbooted
    BY <1>1 DEF Unbooted, Early
  <2>2. QED
    BY <2>1, BootersAreInstances DEF OrderInv, BootedOnce
<1>3. FencesInOrder' /\ HolderIsLast'
  BY <1>1 DEF OrderInv, FencesInOrder, HolderIsLast, Holds
<1>4. BootedOnce'
  BY <1>1, <1>2 DEF OrderInv, BootedOnce
<1>5. ReadIsCurrent'
  <2>1. Ending' = Ending /\ \A j \in Instances : Holds(j)' = Holds(j)
    BY <1>1 DEF Ending, Holds
  <2>2. QED
    BY <1>1, <2>1 DEF OrderInv, ReadIsCurrent
<1>6. BootsJudgeTheirPredecessor'
  BY <1>1, <1>2 DEF OrderInv, BootsJudgeTheirPredecessor
<1>7. QED
  BY <1>3, <1>4, <1>5, <1>6 DEF OrderInv

\* A boot is recorded by the holder, on what it read.
LEMMA RecordBootOrder ==
  ASSUME TypedInv, OrderInv, NEW i \in Instances, RecordBoot(i), Holds(i)
  PROVE  OrderInv'
<1> DEFINE n == Len(boots)
<1>1. /\ db' = db /\ fence' = fence /\ prev' = prev /\ last' = fence[i]
      /\ boots' = Append(boots, [inst |-> i, clean |-> FALSE])
      /\ pc' = [pc EXCEPT ![i] = "starting"] /\ pc[i] = "recovering" /\ pc \in [Instances -> Places]
      /\ boots \in Seq([inst : Instances, clean : BOOLEAN])
  BY DEF RecordBoot, Commit, Goto, TypedInv, OwnershipTypeOK
<1>2. /\ Len(boots') = n + 1 /\ n \in Nat
      /\ DOMAIN boots' = 1..(n + 1) /\ DOMAIN boots = 1..n
      /\ boots'[n + 1].inst = i
      /\ \A k \in 1..n : boots'[k] = boots[k] /\ boots[k].inst \in Instances
  BY <1>1, Appended, BootersAreInstances
<1>3. \A k \in 1..n : boots[k].inst # i
  <2>1. pc[i] \in Unbooted
    BY <1>1 DEF Unbooted
  <2>2. QED
    BY <2>1, <1>2 DEF OrderInv, BootedOnce
<1>4. \A j \in Instances : Holds(j)' => j = i
  BY <1>1 DEF Holds
<1> HIDE DEF n
<1>5. FencesInOrder'
  BY <1>1 DEF OrderInv, FencesInOrder
<1>6. BootedOnce'
  <2>1. "starting" \notin Unbooted
    BY DEF Unbooted, Early
  <2>2. QED
    BY <1>1, <1>2, <1>3, <2>1 DEF OrderInv, BootedOnce
<1>7. HolderIsLast'
  BY <1>2, <1>3, <1>4 DEF HolderIsLast
<1>8. ReadIsCurrent'
  BY <1>1, <1>4 DEF ReadIsCurrent
<1>9. BootsJudgeTheirPredecessor'
  <2>1. prev[i] = Ending
    BY <1>1 DEF OrderInv, ReadIsCurrent
  <2>2. Ending = IF n + 1 = 1 THEN "first_start" ELSE IF boots[n].clean THEN "clean" ELSE "unclean"
    BY <1>1, <1>2 DEF Ending, n
  <2>3. \A k \in 1..n : prev[boots[k].inst] = IF k = 1 THEN "first_start"
                          ELSE IF boots[k - 1].clean THEN "clean" ELSE "unclean"
    BY <1>2 DEF OrderInv, BootsJudgeTheirPredecessor
  <2>4. SUFFICES ASSUME NEW k \in 1..(n + 1)
                 PROVE  prev[boots'[k].inst] = IF k = 1 THEN "first_start"
                          ELSE IF boots'[k - 1].clean THEN "clean" ELSE "unclean"
    BY <1>1, <1>2 DEF BootsJudgeTheirPredecessor
  <2>5. k # 1 => k - 1 \in 1..n
    BY <1>2
  <2>6. CASE k = n + 1
    BY <1>2, <2>1, <2>2, <2>5, <2>6
  <2>7. CASE k \in 1..n
    BY <1>2, <2>3, <2>5, <2>7
  <2>8. QED
    BY <1>2, <2>6, <2>7
<1>10. QED
  BY <1>5, <1>6, <1>7, <1>8, <1>9 DEF OrderInv

\* A clean end is recorded by the holder, and so in the last row.
LEMMA RecordCleanOrder ==
  ASSUME TypedInv, OrderInv, NEW i \in Instances, RecordClean(i), Holds(i)
  PROVE  OrderInv'
<1>1. /\ db' = db /\ fence' = fence /\ prev' = prev /\ last' = fence[i]
      /\ boots' = [k \in DOMAIN boots |->
                     IF boots[k].inst = i THEN [boots[k] EXCEPT !.clean = TRUE] ELSE boots[k]]
      /\ pc' = [pc EXCEPT ![i] = "leaving"] /\ pc[i] = "closing" /\ pc \in [Instances -> Places]
      /\ boots \in Seq([inst : Instances, clean : BOOLEAN])
  BY DEF RecordClean, Commit, Goto, TypedInv, OwnershipTypeOK
<1>2. /\ Len(boots') = Len(boots) /\ DOMAIN boots' = DOMAIN boots /\ DOMAIN boots = 1..Len(boots)
      /\ \A k \in DOMAIN boots : /\ boots'[k].inst = boots[k].inst /\ boots[k].inst \in Instances
                                 /\ boots[k].inst # i => boots'[k] = boots[k]
  <2>1. DOMAIN boots = 1..Len(boots)
    BY <1>1
  <2>2. QED
    BY <1>1, <2>1, CleanedType, BootersAreInstances
<1>3. \A j \in Instances : (Holds(j)' <=> Holds(j)) /\ (Holds(j) => j = i)
  BY <1>1 DEF Holds
<1>4. FencesInOrder'
  BY <1>1 DEF OrderInv, FencesInOrder
<1>5. BootedOnce'
  <2>1. "leaving" \notin Unbooted
    BY DEF Unbooted, Early
  <2>2. QED
    BY <1>1, <1>2, <2>1 DEF OrderInv, BootedOnce
<1>6. HolderIsLast'
  BY <1>2, <1>3 DEF OrderInv, HolderIsLast
<1>7. ReadIsCurrent'
  <2>1. pc'[i] # "recovering"
    BY <1>1
  <2>2. QED
    BY <1>3, <2>1 DEF ReadIsCurrent
<1>8. BootsJudgeTheirPredecessor'
  <2>1. \A k \in DOMAIN boots : k # Len(boots) => boots'[k] = boots[k]
    BY <1>2 DEF OrderInv, HolderIsLast
  <2>2. \A k \in DOMAIN boots : k # 1 => k - 1 \in DOMAIN boots /\ k - 1 # Len(boots)
    BY <1>1, <1>2
  <2>3. \A k \in DOMAIN boots : k # 1 => boots'[k - 1] = boots[k - 1]
    BY <2>1, <2>2
  <2>4. \A k \in DOMAIN boots' :
          /\ k \in DOMAIN boots /\ prev'[boots'[k].inst] = prev[boots[k].inst]
          /\ k # 1 => boots'[k - 1].clean = boots[k - 1].clean
    BY <1>1, <1>2, <2>3
  <2>5. BootsJudgeTheirPredecessor
    BY DEF OrderInv
  <2>6. QED
    BY <2>4, <2>5 DEF BootsJudgeTheirPredecessor
<1>9. QED
  BY <1>4, <1>5, <1>6, <1>7, <1>8 DEF OrderInv

\* What a dead predecessor left is in order.
LEMMA InitOrder == OwnershipInit => OrderInv
<1> SUFFICES ASSUME OwnershipInit PROVE OrderInv
  OBVIOUS
<1>1. FencesInOrder
  BY DEF OwnershipInit, FencesInOrder
<1>2. \A k \in DOMAIN boots : k = 1 /\ Len(boots) = 1 /\ boots[k].inst = Predecessor
  BY DEF OwnershipInit
<1>3. BootedOnce
  BY <1>2, PredecessorAssumption DEF OwnershipInit, BootedOnce, Unbooted, Early
<1>4. HolderIsLast
  BY <1>2 DEF HolderIsLast
<1>5. ReadIsCurrent
  BY DEF OwnershipInit, ReadIsCurrent
<1>6. BootsJudgeTheirPredecessor
  <2>1. boots # <<>> => prev[Predecessor] = "first_start"
    BY PredecessorAssumption DEF OwnershipInit
  <2>2. QED
    BY <1>2, <2>1 DEF BootsJudgeTheirPredecessor
<1>7. QED
  BY <1>1, <1>3, <1>4, <1>5, <1>6 DEF OrderInv

\* Every step keeps the order.
LEMMA StepOrder == TypedInv /\ TypedInv' /\ OrderInv /\ [OwnershipNext]_ownershipVars => OrderInv'
<1> SUFFICES ASSUME TypedInv, TypedInv', OrderInv, [OwnershipNext]_ownershipVars PROVE OrderInv'
  OBVIOUS
<1>a. last' \in Nat /\ last \in Nat /\ last <= db.epoch
      /\ \A i \in Instances : fence[i] <= db.epoch
  BY DEF TypedInv, OwnershipTypeOK, OrderInv, FencesInOrder
<1>b. pc \in [Instances -> Places]
  BY DEF TypedInv, OwnershipTypeOK
<1>1. ASSUME NEW i \in Instances, CreateLock(i) PROVE OrderInv'
  BY <1>a, <1>b, <1>1, OrderFrame DEF CreateLock, Goto, Unbooted, Early
<1>2. ASSUME NEW i \in Instances, TearLock(i) PROVE OrderInv'
  BY <1>a, <1>b, <1>2, OrderFrame DEF TearLock, Goto, Unbooted, Early
<1>3. ASSUME NEW i \in Instances, LockExists(i) PROVE OrderInv'
  BY <1>a, <1>b, <1>3, OrderFrame DEF LockExists, Goto, Unbooted, Early
<1>4. ASSUME NEW i \in Instances, ReadLock(i) PROVE OrderInv'
  BY <1>a, <1>b, <1>4, OrderFrame DEF ReadLock, Goto, Unbooted, Early
<1>5. ASSUME NEW i \in Instances, StageTakeover(i) PROVE OrderInv'
  BY <1>a, <1>b, <1>5, OrderFrame DEF StageTakeover, Goto, Unbooted, Early
<1>6. ASSUME NEW i \in Instances, TakeOver(i) PROVE OrderInv'
  BY <1>a, <1>b, <1>6, OrderFrame DEF TakeOver, Rename, Goto, Unbooted, Early
<1>7. ASSUME NEW i \in Instances, TakeOverFails(i) PROVE OrderInv'
  BY <1>a, <1>b, <1>7, OrderFrame DEF TakeOverFails, Goto, Unbooted, Early
<1>8. ASSUME NEW i \in Instances, VerifyTakeover(i) PROVE OrderInv'
  BY <1>a, <1>b, <1>8, OrderFrame DEF VerifyTakeover, Goto, Unbooted, Early
<1>9. ASSUME NEW i \in Instances, TakeEpoch(i) PROVE OrderInv'
  BY <1>9, TakeEpochOrder
<1>10. ASSUME NEW i \in Instances, StorageFails(i) PROVE OrderInv'
  BY <1>a, <1>b, <1>10, OrderFrame DEF StorageFails, Goto, Unbooted, Early
<1>11. ASSUME NEW i \in Instances, ReadPreviousBoot(i) PROVE OrderInv'
  BY <1>11, ReadOrder
<1>12. ASSUME NEW i \in Instances, RecordBoot(i) PROVE OrderInv'
  <2>1. CASE Holds(i)
    BY <1>12, <2>1, RecordBootOrder
  <2>2. CASE ~Holds(i)
    BY <1>a, <1>b, <1>12, <2>2, OrderFrame DEF RecordBoot, Goto, Unbooted, Early
  <2>3. QED
    BY <2>1, <2>2
<1>13. ASSUME NEW i \in Instances, Write(i) PROVE OrderInv'
  BY <1>a, <1>b, <1>13, OrderFrame DEF Write, Commit, Goto, Unbooted, Early
<1>14. ASSUME NEW i \in Instances, Listen(i) PROVE OrderInv'
  BY <1>a, <1>b, <1>14, OrderFrame DEF Listen, Goto, Unbooted, Early
<1>15. ASSUME NEW i \in Instances, BeatStage(i) PROVE OrderInv'
  BY <1>a, <1>b, <1>15, OrderFrame DEF BeatStage, Goto, Unbooted, Early
<1>16. ASSUME NEW i \in Instances, BeatRename(i) PROVE OrderInv'
  BY <1>a, <1>b, <1>16, OrderFrame DEF BeatRename, Rename, Goto, Unbooted, Early
<1>17. ASSUME NEW i \in Instances, BeatRenameFails(i) PROVE OrderInv'
  BY <1>a, <1>b, <1>17, OrderFrame DEF BeatRenameFails, Goto, Unbooted, Early
<1>18. ASSUME NEW i \in Instances, MonitorTick(i) PROVE OrderInv'
  BY <1>a, <1>b, <1>18, OrderFrame DEF MonitorTick, Goto, Unbooted, Early
<1>19. ASSUME NEW i \in Instances, Shutdown(i) PROVE OrderInv'
  BY <1>a, <1>b, <1>19, OrderFrame DEF Shutdown, Goto, Unbooted, Early
<1>20. ASSUME NEW i \in Instances, RecordClean(i) PROVE OrderInv'
  <2>1. CASE Holds(i)
    BY <1>20, <2>1, RecordCleanOrder
  <2>2. CASE ~Holds(i)
    BY <1>a, <1>b, <1>20, <2>2, OrderFrame DEF RecordClean, Goto, Unbooted, Early
  <2>3. QED
    BY <2>1, <2>2
<1>21. ASSUME NEW i \in Instances, ReleaseRead(i) PROVE OrderInv'
  BY <1>a, <1>b, <1>21, OrderFrame DEF ReleaseRead, Goto, Unbooted, Early
<1>22. ASSUME NEW i \in Instances, ReleaseRemove(i) PROVE OrderInv'
  BY <1>a, <1>b, <1>22, OrderFrame DEF ReleaseRemove, Goto, Unbooted, Early
<1>23. ASSUME NEW i \in Instances, Crash(i) PROVE OrderInv'
  BY <1>a, <1>b, <1>23, OrderFrame DEF Crash, Goto, Unbooted, Early
<1>24. ASSUME LockAges PROVE OrderInv'
  BY <1>a, <1>24, OrderFrame DEF LockAges
<1>25. ASSUME UNCHANGED ownershipVars PROVE OrderInv'
  BY <1>a, <1>25, OrderFrame DEF ownershipVars
<1>26. QED
  BY <1>1, <1>2, <1>3, <1>4, <1>5, <1>6, <1>7, <1>8, <1>9, <1>10, <1>11, <1>12, <1>13,
     <1>14, <1>15, <1>16, <1>17, <1>18, <1>19, <1>20, <1>21, <1>22, <1>23, <1>24, <1>25
     DEF OwnershipNext, Acquire, Serve, Heartbeat, Leave

\* The data directory's invariant, for any number of instances: each boot
\* acted on how the boot just before it really ended.
THEOREM DirectoryInvariant == OwnershipSpec => []OwnershipInv
<1>1. TypedInv /\ OrderInv => OwnershipInv
  BY DEF TypedInv, OrderInv, OwnershipInv
<1>2. QED
  BY <1>1, InitTyped, StepTyped, InitOrder, StepOrder, PTL DEF OwnershipSpec

\* A step that commits is a step of the instance whose fence is the newest.
LEMMA StepWrites == TypedInv /\ OrderInv /\ [OwnershipNext]_ownershipVars => [last' >= last]_ownershipVars
<1> SUFFICES ASSUME TypedInv, OrderInv, [OwnershipNext]_ownershipVars PROVE last' >= last
  OBVIOUS
<1>1. last \in Nat /\ last <= db.epoch
  BY DEF TypedInv, OwnershipTypeOK, OrderInv, FencesInOrder
<1>2. ASSUME NEW i \in Instances, Holds(i), last' = fence[i] PROVE last' >= last
  BY <1>1, <1>2 DEF Holds, TypedInv, OwnershipTypeOK
<1>3. ASSUME last' = last PROVE last' >= last
  BY <1>1, <1>3
<1>4. ASSUME NEW i \in Instances, RecordBoot(i) PROVE last' >= last
  BY <1>2, <1>3, <1>4 DEF RecordBoot, Commit
<1>5. ASSUME NEW i \in Instances, Write(i) PROVE last' >= last
  BY <1>2, <1>3, <1>5 DEF Write, Commit
<1>6. ASSUME NEW i \in Instances, RecordClean(i) PROVE last' >= last
  BY <1>2, <1>3, <1>6 DEF RecordClean, Commit
<1>7. ASSUME NEW i \in Instances, Acquire(i) PROVE last' >= last
  BY <1>3, <1>7 DEF Acquire, CreateLock, TearLock, LockExists, ReadLock, StageTakeover, TakeOver,
     TakeOverFails, VerifyTakeover
<1>8. ASSUME NEW i \in Instances,
             TakeEpoch(i) \/ StorageFails(i) \/ ReadPreviousBoot(i) \/ Listen(i)
      PROVE  last' >= last
  BY <1>3, <1>8 DEF TakeEpoch, StorageFails, ReadPreviousBoot, Listen
<1>9. ASSUME NEW i \in Instances,
             \/ Heartbeat(i) \/ BeatRenameFails(i) \/ MonitorTick(i) \/ Shutdown(i)
             \/ ReleaseRead(i) \/ ReleaseRemove(i) \/ Crash(i)
      PROVE  last' >= last
  BY <1>3, <1>9 DEF Heartbeat, BeatStage, BeatRename, BeatRenameFails, MonitorTick, Shutdown,
     ReleaseRead, ReleaseRemove, Crash
<1>10. ASSUME LockAges PROVE last' >= last
  BY <1>3, <1>10 DEF LockAges
<1>11. ASSUME UNCHANGED ownershipVars PROVE last' >= last
  BY <1>3, <1>11 DEF ownershipVars
<1>12. QED
  BY <1>4, <1>5, <1>6, <1>7, <1>8, <1>9, <1>10, <1>11 DEF OwnershipNext, Serve, Leave

\* Durable writes are committed in the order of the epochs, for any number of
\* instances: a displaced instance never writes after its successor has.
THEOREM WritesInEpochOrder == OwnershipSpec => WritesFollowEpochs
<1>1. QED
  BY InitTyped, StepTyped, InitOrder, StepOrder, StepWrites, PTL DEF OwnershipSpec, WritesFollowEpochs
=============================================================================
