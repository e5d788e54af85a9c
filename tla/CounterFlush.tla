---------------------------- MODULE CounterFlush ----------------------------
(***************************************************************************)
(* The nightly job that moves Redis counter deltas into MySQL              *)
(* (service/cron_service/enter.go).  Handlers add deltas to an "active"    *)
(* hash; the job takes a Redis lock, renames the active hash to a          *)
(* "syncing" hash, reads it, applies each field to its database row, and   *)
(* deletes the syncing hash.  Every metric (article digg / favorite / view *)
(* / comment, comment digg / reply, tag article count) runs this same      *)
(* code, so the module is stated for one metric over a set of counted ids. *)
(*                                                                         *)
(* A hash is a total function: a field that is absent and a field that     *)
(* holds 0 read the same (HGET of no field is 0, enter.go:110 skips 0), so *)
(* a hash "exists" when some field is not 0.                               *)
(*                                                                         *)
(* The module has no specification of its own: DiggCounter, ViewCounter    *)
(* extend it with the handlers that produce the deltas.                    *)
(***************************************************************************)
EXTENDS Integers

CONSTANTS
  Ids,        \* the counted rows (articles, comments or tags)
  Syncers,    \* concurrent executions of the job: one per server instance
  NoSyncer,   \* the lock key does not exist
  Faults,     \* which faults may happen in this model, see FaultKinds
  MaxFaults   \* bound: how many faults happen in a behaviour

\* "db": an UPDATE fails; "skip": Redis fails where the round just ends;
\* "redis": a DEL or a read of a mark fails; "lose": an HINCRBY fails and its
\* delta is gone; "crash": a server dies; "expiry": the lock's TTL runs out
\* under a live execution.
FaultKinds == {"db", "skip", "redis", "lose", "crash", "expiry"}

ASSUME FlushAssumption ==
  /\ NoSyncer \notin Syncers
  /\ Faults \subseteq FaultKinds
  /\ MaxFaults \in Nat

VARIABLES
  active,   \* the hash the handlers add to (config.activeKey)
  syncing,  \* the hash being moved to the database (config.syncKey)
  stored,   \* the counter column of each row
  lock,     \* the value of the lock key: whose token it holds
  phase,    \* where each execution of the job is
  todo,     \* the deltaMap each execution still has to apply
  faults    \* how many faults happened so far, and of which kinds

flushVars == <<active, syncing, stored, lock, phase, todo, faults>>

Phases == {"idle", "prepare", "read", "apply", "drop", "unlock"}

FlushTypeOK ==
  /\ active \in [Ids -> Int]
  /\ syncing \in [Ids -> Int]
  /\ stored \in [Ids -> Nat]
  /\ lock \in Syncers \cup {NoSyncer}
  /\ phase \in [Syncers -> Phases]
  /\ todo \in [Syncers -> [Ids -> Int]]
  /\ faults \in [count : 0..MaxFaults, kinds : SUBSET FaultKinds]

EmptyHash == [i \in Ids |-> 0]

Exists(hash) == \E i \in Ids : hash[i] # 0

FlushInit ==
  /\ active = EmptyHash
  /\ syncing = EmptyHash
  /\ stored = [i \in Ids |-> 0]
  /\ lock = NoSyncer
  /\ phase = [s \in Syncers |-> "idle"]
  /\ todo = [s \in Syncers |-> EmptyHash]
  /\ faults = [count |-> 0, kinds |-> {}]

-----------------------------------------------------------------------------
(* What handlers do to the active hash. *)

HIncrBy(i, d) == active' = [active EXCEPT ![i] = @ + d]

\* Two defects the runs must catch: no clamp, and the wrong sign.
Unclamped(count, d) == count + d

WrongSign(count, d) == count - d

\* The stored column after a delta: applyDelta never lets it go below zero.
Clamped(count, d) == IF count + d < 0 THEN 0 ELSE count + d

Goto(s, from, to) ==
  /\ phase[s] = from
  /\ phase' = [phase EXCEPT ![s] = to]

Fault(kind) ==
  /\ kind \in Faults
  /\ faults.count < MaxFaults
  /\ faults' = [count |-> faults.count + 1, kinds |-> faults.kinds \cup {kind}]

-----------------------------------------------------------------------------
(* One execution of the job. *)

\* A defect: SET without NX.
LockWithoutNX(s) ==
  /\ Goto(s, "idle", "prepare")
  /\ lock' = s
  /\ UNCHANGED <<active, syncing, stored, todo, faults>>

\* SETNX lockKey token: an execution that finds the key set skips the round.
LockArticleSync(s) ==
  /\ lock = NoSyncer
  /\ Goto(s, "idle", "prepare")
  /\ lock' = s
  /\ UNCHANGED <<active, syncing, stored, todo, faults>>

\* A defect: RENAME without looking for a syncing hash that was left over.
RenameOverSyncing(s) ==
  /\ \/ /\ ~Exists(active)
        /\ Goto(s, "prepare", "unlock")
        /\ UNCHANGED <<active, syncing>>
     \/ /\ Exists(active)
        /\ Goto(s, "prepare", "read")
        /\ syncing' = active
        /\ active' = EmptyHash
  /\ UNCHANGED <<stored, lock, todo, faults>>

\* The Lua script: a syncing hash left by an earlier round is taken up again,
\* otherwise the active hash is renamed; with neither there is nothing to do.
PrepareSyncBucket(s) ==
  /\ \/ /\ Exists(syncing)
        /\ Goto(s, "prepare", "read")
        /\ UNCHANGED <<active, syncing>>
     \/ /\ ~Exists(syncing) /\ ~Exists(active)
        /\ Goto(s, "prepare", "unlock")
        /\ UNCHANGED <<active, syncing>>
     \/ /\ ~Exists(syncing) /\ Exists(active)
        /\ Goto(s, "prepare", "read")
        /\ syncing' = active
        /\ active' = EmptyHash
  /\ UNCHANGED <<stored, lock, todo, faults>>

\* HGETALL of the syncing hash into deltaMap.
ReadSyncBucket(s) ==
  /\ Goto(s, "read", IF Exists(syncing) THEN "apply" ELSE "drop")
  /\ todo' = [todo EXCEPT ![s] = syncing]
  /\ UNCHANGED <<active, syncing, stored, lock, faults>>

\* Leave the loop over deltaMap with its last entry.
Applied(s, i) ==
  /\ todo[s][i] # 0
  /\ todo' = [todo EXCEPT ![s][i] = 0]
  /\ Goto(s, "apply", IF \E j \in Ids \ {i} : todo[s][j] # 0 THEN "apply" ELSE "drop")

ApplyDelta(s, i) ==
  /\ Applied(s, i)
  /\ stored' = [stored EXCEPT ![i] = Clamped(@, todo[s][i])]
  /\ UNCHANGED <<active, syncing, lock, faults>>

\* A defect: the delta of a failed UPDATE is only logged.
FailedDeltaLost(s, i) ==
  /\ Fault("db")
  /\ Applied(s, i)
  /\ UNCHANGED <<active, syncing, stored, lock>>

\* The UPDATE fails: the delta is put back into the active hash.
ApplyFails(s, i) ==
  /\ Fault("db")
  /\ Applied(s, i)
  /\ HIncrBy(i, todo[s][i])
  /\ UNCHANGED <<syncing, stored, lock>>

\* A defect: the syncing hash is not deleted.
DropForgotten(s) ==
  /\ Goto(s, "drop", "unlock")
  /\ UNCHANGED <<active, syncing, stored, lock, todo, faults>>

DropSyncBucket(s) ==
  /\ Goto(s, "drop", "unlock")
  /\ syncing' = EmptyHash
  /\ UNCHANGED <<active, stored, lock, todo, faults>>

ReleaseLock(s) ==
  /\ Goto(s, "unlock", "idle")
  /\ lock' = IF lock = s THEN NoSyncer ELSE lock
  /\ UNCHANGED <<active, syncing, stored, todo, faults>>

\* A defect: a lock without a TTL.
LockWithoutTTL == FALSE /\ UNCHANGED flushVars

\* The TTL removes a lock whose execution never got to release it.
OrphanLockExpires ==
  /\ lock # NoSyncer
  /\ phase[lock] = "idle"
  /\ lock' = NoSyncer
  /\ UNCHANGED <<active, syncing, stored, phase, todo, faults>>

-----------------------------------------------------------------------------
(* Faults.  A Redis error ends the round with the lock released; a crash   *)
(* of the server loses deltaMap and leaves the lock; the TTL (30 minutes)  *)
(* may also run out under an execution that is merely slow.                *)

SkipRound(s) ==
  /\ Fault("skip")
  /\ phase[s] \in {"prepare", "read"}
  /\ phase' = [phase EXCEPT ![s] = "unlock"]
  /\ UNCHANGED <<active, syncing, stored, lock, todo>>

DropFails(s) ==
  /\ Fault("redis")
  /\ Goto(s, "drop", "unlock")
  /\ UNCHANGED <<active, syncing, stored, lock, todo>>

RequeueFails(s, i) ==
  /\ Fault("lose")
  /\ Applied(s, i)
  /\ UNCHANGED <<active, syncing, stored, lock>>

ReleaseFails(s) ==
  /\ Fault("skip")
  /\ Goto(s, "unlock", "idle")
  /\ UNCHANGED <<active, syncing, stored, lock, todo>>

SyncerCrashes(s) ==
  /\ Fault("crash")
  /\ phase[s] # "idle"
  /\ phase' = [phase EXCEPT ![s] = "idle"]
  /\ todo' = [todo EXCEPT ![s] = EmptyHash]
  /\ UNCHANGED <<active, syncing, stored, lock>>

LiveLockExpires ==
  /\ Fault("expiry")
  /\ lock # NoSyncer
  /\ phase[lock] # "idle"
  /\ lock' = NoSyncer
  /\ UNCHANGED <<active, syncing, stored, phase, todo>>

-----------------------------------------------------------------------------
SyncStep(s) ==
  \/ LockArticleSync(s)
  \/ PrepareSyncBucket(s)
  \/ ReadSyncBucket(s)
  \/ \E i \in Ids : ApplyDelta(s, i)
  \/ DropSyncBucket(s)
  \/ ReleaseLock(s)

SyncFault(s) ==
  \/ \E i \in Ids : ApplyFails(s, i) \/ RequeueFails(s, i)
  \/ SkipRound(s)
  \/ DropFails(s)
  \/ ReleaseFails(s)
  \/ SyncerCrashes(s)

FlushNext ==
  \/ \E s \in Syncers : SyncStep(s) \/ SyncFault(s)
  \/ OrphanLockExpires
  \/ LiveLockExpires

-----------------------------------------------------------------------------
(* At most one execution is between taking and releasing the lock, and it  *)
(* is the one whose token the lock holds: design note "a distributed lock  *)
(* guarantees that one instance synchronises at a time".  The promise ends *)
(* when an execution outlives the lock's TTL.                              *)
Exclusive == \A s \in Syncers : phase[s] # "idle" => lock = s

SingleSyncer == "expiry" \notin faults.kinds => Exclusive

(* What the job still owes the database for a row: the rest of deltaMap     *)
(* while the lock holder applies it, nothing once it is about to delete    *)
(* the hash, the whole syncing hash otherwise.                             *)
InBucket(i) ==
  IF lock # NoSyncer /\ phase[lock] \in {"apply", "drop"}
  THEN todo[lock][i]
  ELSE syncing[i]

Owed(i) == active[i] + InBucket(i)
=============================================================================
