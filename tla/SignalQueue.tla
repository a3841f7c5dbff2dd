----------------------------- MODULE SignalQueue -----------------------------
(***************************************************************************)
(* What the execution-signal store promises the scheduler                  *)
(* (ceo-execution/execution-signal-store-port.ts): every signal is a duty  *)
(* that waits, is taken by one claimant under a lease, and is done or      *)
(* dropped once and for all.  Keys, priorities, delays and clocks are the  *)
(* store's own business.  SignalStore implements this module.              *)
(***************************************************************************)
CONSTANTS SignalIds, Claimants, None

VARIABLES
  duty,   \* per signal, where it is
  holder  \* per signal, the claimant whose lease is on it

queue == <<duty, holder>>

Duties == {"absent", "pending", "claimed", "processed", "cancelled"}

QueueInit ==
  /\ duty = [i \in SignalIds |-> "absent"]
  /\ holder = [i \in SignalIds |-> None]

Ask(i) ==
  /\ duty[i] = "absent"
  /\ duty' = [duty EXCEPT ![i] = "pending"]
  /\ UNCHANGED holder

\* Leases that ran out: their signals wait again.
Back(lapsed) ==
  /\ lapsed \subseteq {i \in SignalIds : duty[i] = "claimed"}
  /\ duty' = [i \in SignalIds |-> IF i \in lapsed THEN "pending" ELSE duty[i]]
  /\ holder' = [i \in SignalIds |-> IF i \in lapsed THEN None ELSE holder[i]]

\* A claimant takes one signal, one that waited or one whose lease ran out.
Take(c, i, lapsed) ==
  /\ lapsed \subseteq {j \in SignalIds : duty[j] = "claimed"}
  /\ duty[i] = "pending" \/ i \in lapsed
  /\ duty' = [j \in SignalIds |-> IF j = i THEN "claimed"
                                  ELSE IF j \in lapsed THEN "pending" ELSE duty[j]]
  /\ holder' = [j \in SignalIds |-> IF j = i THEN c
                                    ELSE IF j \in lapsed THEN None ELSE holder[j]]

\* Only its holder finishes a signal or puts it back.
Finish(c, i) ==
  /\ duty[i] = "claimed" /\ holder[i] = c
  /\ \E d \in {"processed", "pending"} : duty' = [duty EXCEPT ![i] = d]
  /\ holder' = [holder EXCEPT ![i] = None]

Drop(gone) ==
  /\ gone \subseteq {i \in SignalIds : duty[i] \in {"pending", "claimed"}}
  /\ duty' = [i \in SignalIds |-> IF i \in gone THEN "cancelled" ELSE duty[i]]
  /\ holder' = [i \in SignalIds |-> IF i \in gone THEN None ELSE holder[i]]

QueueNext ==
  \/ \E i \in SignalIds : Ask(i)
  \/ \E lapsed \in SUBSET SignalIds : Back(lapsed)
  \/ \E c \in Claimants, i \in SignalIds, lapsed \in SUBSET SignalIds : Take(c, i, lapsed)
  \/ \E c \in Claimants, i \in SignalIds : Finish(c, i)
  \/ \E gone \in SUBSET SignalIds : Drop(gone)

QueueSpec == QueueInit /\ [][QueueNext]_queue
=============================================================================
