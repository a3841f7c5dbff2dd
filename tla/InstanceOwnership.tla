-------------------------- MODULE InstanceOwnership --------------------------
(***************************************************************************)
(* Who may write to a data directory (apps/server/src/persistence).  An    *)
(* instance is one process lifetime of Hall Core in durable mode.  It      *)
(* first takes the lock file (instance-ownership.ts), then the next        *)
(* database epoch (database-ownership-fence.ts), which fences off every    *)
(* earlier instance's transactions (transaction.ts), records its boot      *)
(* (boot-repository.ts), and serves until an operator or its fence monitor *)
(* shuts it down (server.ts).                                              *)
(*                                                                         *)
(* The file system and the database order the steps of the instances; a    *)
(* process may be frozen between any two of its own.  Inside one process   *)
(* acquisition, a heartbeat and release() run without interruption.        *)
(***************************************************************************)
EXTENDS Naturals, Sequences

CONSTANTS
  Instances,
  Predecessor, \* one of them, dead before the history begins
  NoOne,       \* no lock file, no epoch taken
  Torn,        \* a lock file whose creator died before its content was written
  StaleAfter,  \* staleAfterMs, in ticks
  MaxFaults    \* bound on renames that fail

ASSUME PredecessorAssumption == Predecessor \in Instances
ASSUME OwnerAssumption == NoOne \notin Instances /\ Torn \notin Instances /\ Torn # NoOne
ASSUME StaleAssumption == StaleAfter \in Nat \ {0} /\ MaxFaults \in Nat

VARIABLES
  lock,    \* hall-core.lock: its owner and the age of its heartbeatAt
  tmp,     \* per instance, the age of what it wrote to its temp file, or NoFile
  pc,      \* per instance, where its start, service or shutdown stands
  beat,    \* per instance, its heartbeat timer
  seen,    \* per instance, the stale owner it decided to replace
  db,      \* durable_ownership: the last owner and its epoch
  fence,   \* per instance, the epoch it took, 0 before
  boots,   \* the rows of `boots`, in rowid order
  prev,    \* per instance, how it found the previous boot to have ended
  last,    \* epoch under which the last durable write was committed
  faults   \* renames that have failed

ownershipVars == <<lock, tmp, pc, beat, seen, db, fence, boots, prev, last, faults>>

Age == 0..StaleAfter
NoFile == StaleAfter + 1
Places == {"off", "exists", "stale", "staged", "verify", "locked", "fenced", "recovering",
           "starting", "ready", "closing", "leaving", "removing", "gone"}
Endings == {"unread", "first_start", "clean", "unclean"}

OwnershipTypeOK ==
  /\ lock \in [owner : Instances \cup {NoOne, Torn}, age : Age]
  /\ tmp \in [Instances -> Age \cup {NoFile}]
  /\ pc \in [Instances -> Places]
  /\ beat \in [Instances -> {"off", "idle", "staged"}]
  /\ seen \in [Instances -> Instances \cup {NoOne}]
  /\ db \in [owner : Instances \cup {NoOne}, epoch : Nat]
  /\ fence \in [Instances -> Nat]
  /\ boots \in Seq([inst : Instances, clean : BOOLEAN])
  /\ prev \in [Instances -> Endings]
  /\ last \in Nat
  /\ faults \in 0..MaxFaults

\* What a dead predecessor left: nothing, or its lock, epoch and boot.
OwnershipInit ==
  /\ \E ran \in BOOLEAN, age \in Age :
       /\ lock = IF ran THEN [owner |-> Predecessor, age |-> age] ELSE [owner |-> NoOne, age |-> 0]
       /\ db = IF ran THEN [owner |-> Predecessor, epoch |-> 1] ELSE [owner |-> NoOne, epoch |-> 0]
       /\ fence = [i \in Instances |-> IF ran /\ i = Predecessor THEN 1 ELSE 0]
       /\ boots = IF ran THEN <<[inst |-> Predecessor, clean |-> FALSE]>> ELSE <<>>
       /\ prev = [i \in Instances |-> IF ran /\ i = Predecessor THEN "first_start" ELSE "unread"]
       /\ last = IF ran THEN 1 ELSE 0
  /\ tmp = [i \in Instances |-> NoFile]
  /\ pc = [i \in Instances |-> IF i = Predecessor THEN "gone" ELSE "off"]
  /\ beat = [i \in Instances |-> "off"]
  /\ seen = [i \in Instances |-> NoOne]
  /\ faults = 0

Goto(i, place) == pc' = [pc EXCEPT ![i] = place]
Fresh == lock.age < StaleAfter

\* The process is not inside a heartbeat callback.
Idle(i) == beat[i] \in {"off", "idle"}

-----------------------------------------------------------------------------
\* acquireInstanceOwnership

CreateLock(i) ==
  /\ pc[i] = "off" /\ lock.owner = NoOne
  /\ lock' = [owner |-> i, age |-> 0]
  /\ Goto(i, "locked")
  /\ UNCHANGED <<tmp, beat, seen, db, fence, boots, prev, last, faults>>

\* The process dies between creating the file and writing its content.
TearLock(i) ==
  /\ pc[i] = "off" /\ lock.owner = NoOne
  /\ lock' = [owner |-> Torn, age |-> 0]
  /\ Goto(i, "gone")
  /\ UNCHANGED <<tmp, beat, seen, db, fence, boots, prev, last, faults>>

LockExists(i) ==
  /\ pc[i] = "off" /\ lock.owner # NoOne
  /\ Goto(i, "exists")
  /\ UNCHANGED <<lock, tmp, beat, seen, db, fence, boots, prev, last, faults>>

\* An unreadable record or a recent heartbeat is a conflict.
ReadLock(i) ==
  /\ pc[i] = "exists"
  /\ IF lock.owner \in Instances /\ ~Fresh
     THEN Goto(i, "stale") /\ seen' = [seen EXCEPT ![i] = lock.owner]
     ELSE Goto(i, "gone") /\ UNCHANGED seen
  /\ UNCHANGED <<lock, tmp, beat, db, fence, boots, prev, last, faults>>

StageTakeover(i) ==
  /\ pc[i] = "stale"
  /\ tmp' = [tmp EXCEPT ![i] = 0]
  /\ Goto(i, "staged")
  /\ UNCHANGED <<lock, beat, seen, db, fence, boots, prev, last, faults>>

\* renameOverwrite: what was staged replaces the lock, whoever holds it now.
Rename(i) ==
  /\ lock' = [owner |-> i, age |-> tmp[i]]
  /\ tmp' = [tmp EXCEPT ![i] = NoFile]

TakeOver(i) ==
  /\ pc[i] = "staged"
  /\ Rename(i)
  /\ Goto(i, "verify")
  /\ UNCHANGED <<beat, seen, db, fence, boots, prev, last, faults>>

TakeOverFails(i) ==
  /\ pc[i] = "staged" /\ faults < MaxFaults
  /\ faults' = faults + 1
  /\ Goto(i, "gone")
  /\ UNCHANGED <<lock, tmp, beat, seen, db, fence, boots, prev, last>>

VerifyTakeover(i) ==
  /\ pc[i] = "verify"
  /\ Goto(i, IF lock.owner = i THEN "locked" ELSE "gone")
  /\ UNCHANGED <<lock, tmp, beat, seen, db, fence, boots, prev, last, faults>>

-----------------------------------------------------------------------------
\* openDurableStorage and the recovery that precedes the first request.

TakeEpoch(i) ==
  /\ pc[i] = "locked"
  /\ db' = [owner |-> i, epoch |-> db.epoch + 1]
  /\ fence' = [fence EXCEPT ![i] = db.epoch + 1]
  /\ beat' = [beat EXCEPT ![i] = "idle"]
  /\ Goto(i, "fenced")
  /\ UNCHANGED <<lock, tmp, seen, boots, prev, last, faults>>

\* The database does not open, migrate or answer: clean up and give up.
StorageFails(i) ==
  /\ pc[i] = "locked"
  /\ Goto(i, "leaving")
  /\ UNCHANGED <<lock, tmp, beat, seen, db, fence, boots, prev, last, faults>>

\* (mutant) withTransaction without its look at durable_ownership
HoldsAlways(i) == fence[i] > 0

\* (mutant) withTransaction compares the fence with the lock file
HoldsByLock(i) == lock.owner = i

\* The check inside every BEGIN IMMEDIATE.
Holds(i) == db.owner = i /\ db.epoch = fence[i]

Ending ==
  IF boots = <<>> THEN "first_start"
  ELSE IF boots[Len(boots)].clean THEN "clean" ELSE "unclean"

\* getPreviousBoot is a plain read, outside any transaction.
ReadPreviousBoot(i) ==
  /\ pc[i] = "fenced" /\ Idle(i)
  /\ prev' = [prev EXCEPT ![i] = Ending]
  /\ Goto(i, "recovering")
  /\ UNCHANGED <<lock, tmp, beat, seen, db, fence, boots, last, faults>>

Commit(i) == last' = fence[i]

\* recordBootStarted, or OwnershipLostError and the end of the start.
RecordBoot(i) ==
  /\ pc[i] = "recovering" /\ Idle(i)
  /\ IF Holds(i)
     THEN /\ boots' = Append(boots, [inst |-> i, clean |-> FALSE])
          /\ Commit(i)
          /\ Goto(i, "starting")
     ELSE Goto(i, "leaving") /\ UNCHANGED <<boots, last>>
  /\ UNCHANGED <<lock, tmp, beat, seen, db, fence, prev, faults>>

\* Any other durable write: of the recovery, of a request, of an execution.
Write(i) ==
  /\ pc[i] \in {"starting", "ready", "closing"} /\ Idle(i)
  /\ IF Holds(i)
     THEN Commit(i) /\ UNCHANGED pc
     ELSE /\ pc[i] = "starting" /\ Goto(i, "leaving")
          /\ UNCHANGED last
  /\ UNCHANGED <<lock, tmp, beat, seen, db, fence, boots, prev, faults>>

\* The fence monitor starts when the server listens.
Listen(i) ==
  /\ pc[i] = "starting" /\ Idle(i)
  /\ \E place \in {"ready", "leaving"} : Goto(i, place)
  /\ UNCHANGED <<lock, tmp, beat, seen, db, fence, boots, prev, last, faults>>

-----------------------------------------------------------------------------
\* The heartbeat of the lock file.

\* The callback reads the lock; another owner's record ends the timer, an
\* unreadable one does not.  Then it writes its temp file, which fails when an
\* earlier beat left one behind.
BeatStage(i) ==
  /\ pc[i] \in {"fenced", "recovering", "starting", "ready", "closing"} /\ beat[i] = "idle"
  /\ IF lock.owner \in Instances \ {i}
     THEN beat' = [beat EXCEPT ![i] = "off"] /\ UNCHANGED tmp
     ELSE /\ tmp[i] = NoFile
          /\ tmp' = [tmp EXCEPT ![i] = 0]
          /\ beat' = [beat EXCEPT ![i] = "staged"]
  /\ UNCHANGED <<lock, pc, seen, db, fence, boots, prev, last, faults>>

BeatRename(i) ==
  /\ beat[i] = "staged"
  /\ Rename(i)
  /\ beat' = [beat EXCEPT ![i] = "idle"]
  /\ UNCHANGED <<pc, seen, db, fence, boots, prev, last, faults>>

BeatRenameFails(i) ==
  /\ beat[i] = "staged" /\ faults < MaxFaults
  /\ faults' = faults + 1
  /\ beat' = [beat EXCEPT ![i] = "idle"]
  /\ UNCHANGED <<lock, tmp, pc, seen, db, fence, boots, prev, last>>

-----------------------------------------------------------------------------
\* runControlledShutdown and release().

\* (mutant) watches the lock file instead of the database
MonitorTickByLock(i) ==
  /\ pc[i] = "ready" /\ Idle(i)
  /\ lock.owner # i
  /\ Goto(i, "closing")
  /\ UNCHANGED <<lock, tmp, beat, seen, db, fence, boots, prev, last, faults>>

MonitorTick(i) ==
  /\ pc[i] = "ready" /\ Idle(i)
  /\ ~Holds(i)
  /\ Goto(i, "closing")
  /\ UNCHANGED <<lock, tmp, beat, seen, db, fence, boots, prev, last, faults>>

Shutdown(i) ==
  /\ pc[i] = "ready" /\ Idle(i)
  /\ Goto(i, "closing")
  /\ UNCHANGED <<lock, tmp, beat, seen, db, fence, boots, prev, last, faults>>

\* recordCleanShutdown, whose failure is logged; then the database is closed.
RecordClean(i) ==
  /\ pc[i] = "closing" /\ Idle(i)
  /\ IF Holds(i)
     THEN /\ boots' = [k \in DOMAIN boots |->
                         IF boots[k].inst = i THEN [boots[k] EXCEPT !.clean = TRUE] ELSE boots[k]]
          /\ Commit(i)
     ELSE UNCHANGED <<boots, last>>
  /\ Goto(i, "leaving")
  /\ UNCHANGED <<lock, tmp, beat, seen, db, fence, prev, faults>>

ReleaseRead(i) ==
  /\ pc[i] = "leaving" /\ Idle(i)
  /\ beat' = [beat EXCEPT ![i] = "off"]
  /\ Goto(i, IF lock.owner = i THEN "removing" ELSE "gone")
  /\ UNCHANGED <<lock, tmp, seen, db, fence, boots, prev, last, faults>>

ReleaseRemove(i) ==
  /\ pc[i] = "removing"
  /\ lock' = [owner |-> NoOne, age |-> 0]
  /\ Goto(i, "gone")
  /\ UNCHANGED <<tmp, beat, seen, db, fence, boots, prev, last, faults>>

Crash(i) ==
  /\ pc[i] \notin {"off", "gone"}
  /\ Goto(i, "gone")
  /\ beat' = [beat EXCEPT ![i] = "off"]
  /\ UNCHANGED <<lock, tmp, seen, db, fence, boots, prev, last, faults>>

\* (mutant) an age that nothing bounds
OlderUnbounded(age) == age + 1

Older(age) == IF age < StaleAfter THEN age + 1 ELSE age

LockAges ==
  /\ lock.owner \in Instances /\ Fresh
  /\ lock' = [lock EXCEPT !.age = Older(@)]
  /\ tmp' = [i \in Instances |-> Older(tmp[i])]
  /\ UNCHANGED <<pc, beat, seen, db, fence, boots, prev, last, faults>>

Acquire(i) ==
  \/ CreateLock(i)
  \/ TearLock(i)
  \/ LockExists(i)
  \/ ReadLock(i)
  \/ StageTakeover(i)
  \/ TakeOver(i)
  \/ TakeOverFails(i)
  \/ VerifyTakeover(i)

Serve(i) ==
  \/ TakeEpoch(i)
  \/ StorageFails(i)
  \/ ReadPreviousBoot(i)
  \/ RecordBoot(i)
  \/ Write(i)
  \/ Listen(i)

Heartbeat(i) == BeatStage(i) \/ BeatRename(i)

Leave(i) == RecordClean(i) \/ ReleaseRead(i) \/ ReleaseRemove(i)

OwnershipNext ==
  \/ \E i \in Instances : \/ Acquire(i)
                          \/ Serve(i)
                          \/ Heartbeat(i)
                          \/ BeatRenameFails(i)
                          \/ MonitorTick(i)
                          \/ Shutdown(i)
                          \/ Leave(i)
                          \/ Crash(i)
  \/ LockAges

OwnershipSpec == OwnershipInit /\ [][OwnershipNext]_ownershipVars

\* The event loop of a process that is not dead serves all its timers, and its
\* shutdown sequence, whose waits are all bounded, between them: strong fairness
\* because a heartbeat keeps the loop busy for a moment.
FairOwnershipSpec ==
  /\ OwnershipSpec
  /\ \A i \in Instances : /\ WF_ownershipVars(Heartbeat(i))
                           /\ SF_ownershipVars(MonitorTick(i))
                           /\ SF_ownershipVars(Leave(i))

-----------------------------------------------------------------------------
\* Durable writes are committed in the order of the epochs: once a later
\* instance has written, no earlier one ever writes again, frozen or not.
WritesFollowEpochs == [][last' >= last]_ownershipVars

\* Every boot acted on how the boot just before it really ended, although it
\* read that outside the transaction that records its own boot, and although
\* the earlier instance may still have been shutting down.
BootsJudgeTheirPredecessor ==
  \A k \in DOMAIN boots :
    prev[boots[k].inst] = IF k = 1 THEN "first_start"
                          ELSE IF boots[k - 1].clean THEN "clean" ELSE "unclean"

\* A displaced instance notices and stops, whatever became of the lock file.
DisplacedInstanceStops ==
  \A i \in Instances : (pc[i] = "ready" /\ ~Holds(i)) ~> pc[i] = "gone"

\* The invariant of a data directory: locks, epochs and boot rows are
\* well-formed, and each boot judged rightly how the one before it ended.
OwnershipInv == OwnershipTypeOK /\ BootsJudgeTheirPredecessor
=============================================================================
