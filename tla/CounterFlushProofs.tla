------------------------- MODULE CounterFlushProofs -------------------------
(***************************************************************************)
(* What the job promises to every counter: lemmas about CounterFlush that  *)
(* the proofs of the counters built on it cite.                            *)
(***************************************************************************)
EXTENDS CounterFlush, TLAPS

USE FlushAssumption DEF FlushAssumption

-----------------------------------------------------------------------------
(* Typing and mutual exclusion.                                            *)

LEMMA FlushTyped == FlushTypeOK /\ [FlushNext]_flushVars => FlushTypeOK'
<1> SUFFICES ASSUME FlushTypeOK, [FlushNext]_flushVars
             PROVE  FlushTypeOK'
  OBVIOUS
<1> USE DEF FlushTypeOK, Phases, Goto, Fault, EmptyHash
<1>1. ASSUME NEW s \in Syncers, LockArticleSync(s)
      PROVE  FlushTypeOK'
  BY <1>1, SMT DEF LockArticleSync
<1>2. ASSUME NEW s \in Syncers, PrepareSyncBucket(s)
      PROVE  FlushTypeOK'
  BY <1>2, SMT DEF PrepareSyncBucket
<1>3. ASSUME NEW s \in Syncers, ReadSyncBucket(s)
      PROVE  FlushTypeOK'
  BY <1>3, SMT DEF ReadSyncBucket
<1>4. ASSUME NEW s \in Syncers, NEW i \in Ids, ApplyDelta(s, i)
      PROVE  FlushTypeOK'
  BY <1>4, SMT DEF ApplyDelta, Applied, Clamped
<1>5. ASSUME NEW s \in Syncers, NEW i \in Ids, ApplyFails(s, i)
      PROVE  FlushTypeOK'
  BY <1>5, SMT DEF ApplyFails, Applied, HIncrBy
<1>6. ASSUME NEW s \in Syncers, NEW i \in Ids, RequeueFails(s, i)
      PROVE  FlushTypeOK'
  BY <1>6, SMT DEF RequeueFails, Applied
<1>7. ASSUME NEW s \in Syncers, DropSyncBucket(s) \/ DropFails(s)
      PROVE  FlushTypeOK'
  BY <1>7, SMT DEF DropSyncBucket, DropFails
<1>13. ASSUME NEW s \in Syncers, SkipRound(s)
      PROVE  FlushTypeOK'
  BY <1>13, SMT DEF SkipRound
<1>8. ASSUME NEW s \in Syncers, ReleaseLock(s)
      PROVE  FlushTypeOK'
  BY <1>8, SMT DEF ReleaseLock
<1>12. ASSUME NEW s \in Syncers, ReleaseFails(s)
      PROVE  FlushTypeOK'
  BY <1>12, SMT DEF ReleaseFails
<1>11. ASSUME NEW s \in Syncers, SyncerCrashes(s)
      PROVE  FlushTypeOK'
  <2>1. EmptyHash \in [Ids -> Int]
    BY SMT
  <2> HIDE DEF EmptyHash
  <2> QED
    BY <1>11, <2>1, SMT DEF SyncerCrashes
<1>9. CASE OrphanLockExpires \/ LiveLockExpires
  BY <1>9, SMT DEF OrphanLockExpires, LiveLockExpires
<1>10. CASE UNCHANGED flushVars
  BY <1>10, SMT DEF flushVars
<1> QED
  BY <1>1, <1>2, <1>3, <1>4, <1>5, <1>6, <1>7, <1>8, <1>9, <1>10, <1>11, <1>12, <1>13
     DEF FlushNext, SyncStep, SyncFault

LEMMA FaultSeen == \A kind : Fault(kind) => kind \in faults'.kinds
  BY DEF Fault

(* The kinds of fault that have happened are never forgotten.              *)
LEMMA FlushRemembers == [FlushNext]_flushVars => faults.kinds \subseteq faults'.kinds
<1> SUFFICES ASSUME [FlushNext]_flushVars PROVE faults.kinds \subseteq faults'.kinds
  OBVIOUS
<1>1. faults' = faults \/ \E kind : Fault(kind)
  BY DEF flushVars, FlushNext, SyncStep, SyncFault,
         LockArticleSync, PrepareSyncBucket, ReadSyncBucket, ApplyDelta, ApplyFails,
         RequeueFails, DropSyncBucket, DropFails, SkipRound, ReleaseLock, ReleaseFails,
         SyncerCrashes, OrphanLockExpires, LiveLockExpires
<1> QED
  BY <1>1 DEF Fault

LEMMA FlushExclusive ==
  ASSUME FlushTypeOK, Exclusive, [FlushNext]_flushVars, "expiry" \notin faults'.kinds
  PROVE  Exclusive'
<1> USE DEF Exclusive, FlushTypeOK, Goto
<1>1. ASSUME NEW s \in Syncers, LockArticleSync(s)
      PROVE  Exclusive'
  BY <1>1, SMT DEF LockArticleSync
<1>2. ASSUME NEW s \in Syncers,
             lock' = lock, phase[s] # "idle", \E p : phase' = [phase EXCEPT ![s] = p]
      PROVE  Exclusive'
  BY <1>2, SMT
<1>3. ASSUME NEW s \in Syncers, ReleaseLock(s)
      PROVE  Exclusive'
  BY <1>3, SMT DEF ReleaseLock
<1>4. ASSUME NEW s \in Syncers, SyncStep(s) \/ SyncFault(s)
      PROVE  Exclusive'
  BY <1>1, <1>2, <1>3, <1>4, SMT
     DEF SyncStep, SyncFault, PrepareSyncBucket, ReadSyncBucket, ApplyDelta, ApplyFails,
         RequeueFails, Applied, DropSyncBucket, DropFails, SkipRound, ReleaseFails, SyncerCrashes
<1>5. CASE OrphanLockExpires
  BY <1>5, SMT DEF OrphanLockExpires
<1>6. CASE LiveLockExpires
  BY <1>6 DEF LiveLockExpires, Fault
<1>7. CASE UNCHANGED flushVars
  BY <1>7 DEF flushVars
<1> QED
  BY <1>4, <1>5, <1>6, <1>7 DEF FlushNext

-----------------------------------------------------------------------------
(* What one step of the job does to the stored and the owed part.          *)

\* An execution about to delete the syncing hash has applied all of it.
Drained == \A s \in Syncers : phase[s] = "drop" => \A i \in Ids : todo[s][i] = 0

LEMMA OwedTyped == ASSUME FlushTypeOK, NEW i \in Ids PROVE Owed(i) \in Int
  BY SMT DEF FlushTypeOK, Owed, InBucket

\* The two things a step of the job may do to what is owed.
Same == stored' = stored /\ \A i \in Ids : Owed(i)' = Owed(i)

Settles(i, d) ==
  /\ stored' = [stored EXCEPT ![i] = Clamped(@, d)]
  /\ \A j \in Ids : Owed(j)' = Owed(j) - (IF j = i THEN d ELSE 0)

(* A step of the job moves nothing, or moves part of what is owed for one  *)
(* row into its stored count, unless the syncing hash outlives its round:  *)
(* renaming, reading, putting a failed delta back and deleting the drained *)
(* hash are invisible from outside.                                        *)
LEMMA JobSettles ==
  ASSUME FlushTypeOK, Exclusive, Drained, FlushNext, ~Fault("lose"), ~Fault("expiry")
  PROVE  \/ Same
         \/ \E i \in Ids : Settles(i, InBucket(i))
         \/ \E s \in Syncers : DropFails(s) \/ SyncerCrashes(s)
<1> USE DEF FlushTypeOK, Owed, InBucket, Goto, EmptyHash
<1>0. \A s \in Syncers : phase[s] # "idle" => lock = s /\ lock # NoSyncer
  BY DEF Exclusive
<1>1. ASSUME NEW s \in Syncers, LockArticleSync(s) PROVE Same
  BY <1>1, SMT DEF LockArticleSync, Same
<1>2. ASSUME NEW s \in Syncers, PrepareSyncBucket(s) PROVE Same
  <2>1. lock = s /\ lock' = s /\ phase[s] = "prepare" /\ phase'[s] \in {"read", "unlock"}
    BY <1>0, <1>2, SMT DEF PrepareSyncBucket
  <2>2. \A i \in Ids : Owed(i) = active[i] + syncing[i] /\ Owed(i)' = active'[i] + syncing'[i]
    BY <1>0, <2>1, SMT
  <2>3. CASE active' = active /\ syncing' = syncing
    BY <1>2, <2>2, <2>3 DEF PrepareSyncBucket, Same
  <2>4. CASE ~Exists(syncing) /\ syncing' = active /\ active' = EmptyHash
    <3>1. ASSUME NEW i \in Ids PROVE active'[i] + syncing'[i] = active[i] + syncing[i]
      BY <2>4, SMT DEF Exists
    <3> QED
      BY <1>2, <2>2, <3>1 DEF PrepareSyncBucket, Same
  <2> QED
    BY <1>2, <2>3, <2>4 DEF PrepareSyncBucket
<1>3. ASSUME NEW s \in Syncers, ReadSyncBucket(s) PROVE Same
  <2>1. lock = s /\ lock' = s /\ phase[s] = "read" /\ phase'[s] \in {"apply", "drop"}
    BY <1>0, <1>3, SMT DEF ReadSyncBucket
  <2>2. todo'[s] = syncing
    BY <1>3, SMT DEF ReadSyncBucket
  <2>3. ASSUME NEW i \in Ids PROVE Owed(i)' = Owed(i)
    BY <1>0, <1>3, <2>1, <2>2, SMT DEF ReadSyncBucket
  <2> QED
    BY <1>3, <2>3 DEF ReadSyncBucket, Same
<1>4. ASSUME NEW s \in Syncers, NEW i \in Ids, ApplyDelta(s, i) PROVE Settles(i, InBucket(i))
  <2>1. lock = s /\ lock' = s /\ phase[s] = "apply" /\ phase'[s] \in {"apply", "drop"}
    BY <1>0, <1>4, SMT DEF ApplyDelta, Applied
  <2>2. \A j \in Ids : todo'[s][j] = IF j = i THEN 0 ELSE todo[s][j]
    BY <1>4, SMT DEF ApplyDelta, Applied
  <2>3. ASSUME NEW j \in Ids PROVE Owed(j)' = Owed(j) - (IF j = i THEN todo[s][i] ELSE 0)
    BY <1>0, <1>4, <2>1, <2>2, SMT DEF ApplyDelta
  <2>4. InBucket(i) = todo[s][i]
    BY <1>0, <2>1
  <2> QED
    BY <1>4, <2>3, <2>4 DEF ApplyDelta, Settles
<1>5. ASSUME NEW s \in Syncers, NEW i \in Ids, ApplyFails(s, i) PROVE Same
  <2>1. lock = s /\ lock' = s /\ phase[s] = "apply" /\ phase'[s] \in {"apply", "drop"}
    BY <1>0, <1>5, SMT DEF ApplyFails, Applied
  <2>2. \A j \in Ids : /\ todo'[s][j] = IF j = i THEN 0 ELSE todo[s][j]
                       /\ active'[j] = IF j = i THEN active[j] + todo[s][j] ELSE active[j]
    BY <1>5, SMT DEF ApplyFails, Applied, HIncrBy
  <2>3. ASSUME NEW j \in Ids PROVE Owed(j)' = Owed(j)
    BY <1>0, <1>5, <2>1, <2>2, SMT
  <2> QED
    BY <1>5, <2>3 DEF ApplyFails, Same
<1>6. ASSUME NEW s \in Syncers, DropSyncBucket(s) PROVE Same
  <2>1. lock = s /\ lock' = s /\ phase[s] = "drop" /\ phase'[s] = "unlock"
    BY <1>0, <1>6, SMT DEF DropSyncBucket
  <2>2. ASSUME NEW j \in Ids PROVE Owed(j)' = Owed(j)
    BY <1>0, <1>6, <2>1, SMT DEF DropSyncBucket, Drained
  <2> QED
    BY <1>6, <2>2 DEF DropSyncBucket, Same
<1>7. ASSUME NEW s \in Syncers, ReleaseLock(s) \/ ReleaseFails(s) \/ SkipRound(s) PROVE Same
  <2>1. /\ lock = s /\ lock' \in {s, NoSyncer} /\ phase[s] \in {"prepare", "read", "unlock"}
        /\ phase'[s] \in {"idle", "unlock"}
    BY <1>0, <1>7, SMT DEF ReleaseLock, ReleaseFails, SkipRound
  <2>2. UNCHANGED <<active, syncing, stored, todo>>
    BY <1>7 DEF ReleaseLock, ReleaseFails, SkipRound
  <2>3. ASSUME NEW j \in Ids PROVE Owed(j)' = Owed(j)
    BY <1>0, <2>1, <2>2, SMT
  <2> QED
    BY <2>2, <2>3 DEF Same
<1>8. CASE OrphanLockExpires
  BY <1>8, SMT DEF OrphanLockExpires, Same
<1> QED
  BY <1>1, <1>2, <1>3, <1>4, <1>5, <1>6, <1>7, <1>8
     DEF FlushNext, SyncStep, SyncFault, RequeueFails, LiveLockExpires

(* What is in the bucket for a row stays, is applied or put back, or comes *)
(* whole from the active hash by the renaming of an empty bucket.          *)
LEMMA BucketMoves ==
  ASSUME FlushTypeOK, Exclusive, Drained, FlushNext, NEW i \in Ids,
         ~Fault("redis"), ~Fault("lose"), ~Fault("crash"), ~Fault("expiry")
  PROVE  \/ InBucket(i)' = 0
         \/ stored'[i] = stored[i] /\ InBucket(i)' = InBucket(i)
         \/ stored'[i] = stored[i] /\ InBucket(i) = 0 /\ InBucket(i)' = active[i]
<1> USE DEF FlushTypeOK, InBucket, Goto, EmptyHash
<1> DEFINE Goal == \/ InBucket(i)' = 0
                   \/ stored'[i] = stored[i] /\ InBucket(i)' = InBucket(i)
                   \/ stored'[i] = stored[i] /\ InBucket(i) = 0 /\ InBucket(i)' = active[i]
<1>0. \A s \in Syncers : phase[s] # "idle" => lock = s /\ lock # NoSyncer
  BY DEF Exclusive
<1>1. ASSUME NEW s \in Syncers, LockArticleSync(s) PROVE Goal
  BY <1>1, SMT DEF LockArticleSync
<1>2. ASSUME NEW s \in Syncers, PrepareSyncBucket(s) PROVE Goal
  <2>1. lock = s /\ lock' = s /\ phase[s] = "prepare" /\ phase'[s] \in {"read", "unlock"}
    BY <1>0, <1>2, SMT DEF PrepareSyncBucket
  <2>2. InBucket(i) = syncing[i] /\ InBucket(i)' = syncing'[i]
    BY <1>0, <2>1, SMT
  <2> QED
    BY <1>2, <2>2 DEF PrepareSyncBucket, Exists
<1>3. ASSUME NEW s \in Syncers, ReadSyncBucket(s) PROVE Goal
  <2>1. lock = s /\ lock' = s /\ phase[s] = "read" /\ phase'[s] \in {"apply", "drop"}
    BY <1>0, <1>3, SMT DEF ReadSyncBucket
  <2>2. todo'[s] = syncing
    BY <1>3, SMT DEF ReadSyncBucket
  <2> QED
    BY <1>0, <1>3, <2>1, <2>2 DEF ReadSyncBucket
<1>4. ASSUME NEW s \in Syncers, NEW j \in Ids, ApplyDelta(s, j) \/ ApplyFails(s, j) PROVE Goal
  <2>1. lock = s /\ lock' = s /\ phase[s] = "apply" /\ phase'[s] \in {"apply", "drop"}
    BY <1>0, <1>4, SMT DEF ApplyDelta, ApplyFails, Applied
  <2>2. /\ todo'[s][i] = IF i = j THEN 0 ELSE todo[s][i]
        /\ i # j => stored'[i] = stored[i]
    BY <1>4, SMT DEF ApplyDelta, ApplyFails, Applied
  <2> QED
    BY <1>0, <2>1, <2>2
<1>5. ASSUME NEW s \in Syncers, DropSyncBucket(s) PROVE Goal
  <2>1. lock = s /\ lock' = s /\ phase[s] = "drop" /\ phase'[s] = "unlock"
    BY <1>0, <1>5, SMT DEF DropSyncBucket
  <2> QED
    BY <1>0, <1>5, <2>1 DEF DropSyncBucket
<1>6. ASSUME NEW s \in Syncers, ReleaseLock(s) \/ ReleaseFails(s) \/ SkipRound(s) PROVE Goal
  <2>1. /\ lock = s /\ lock' \in {s, NoSyncer} /\ phase[s] \in {"prepare", "read", "unlock"}
        /\ phase'[s] \in {"idle", "unlock"}
    BY <1>0, <1>6, SMT DEF ReleaseLock, ReleaseFails, SkipRound
  <2>2. UNCHANGED <<syncing, stored, todo>>
    BY <1>6 DEF ReleaseLock, ReleaseFails, SkipRound
  <2> QED
    BY <1>0, <2>1, <2>2
<1>7. OrphanLockExpires => Goal
  BY SMT DEF OrphanLockExpires
<1> QED
  BY <1>1, <1>2, <1>3, <1>4, <1>5, <1>6, <1>7
     DEF FlushNext, SyncStep, SyncFault, RequeueFails, DropFails, SyncerCrashes, LiveLockExpires

LEMMA FlushDrained ==
  ASSUME FlushTypeOK, Drained, [FlushNext]_flushVars
  PROVE  Drained'
<1> USE DEF FlushTypeOK, Drained, Goto
<1>1. ASSUME NEW s \in Syncers, LockArticleSync(s) \/ PrepareSyncBucket(s)
      PROVE  Drained'
  BY <1>1, SMT DEF LockArticleSync, PrepareSyncBucket
<1>2. ASSUME NEW s \in Syncers, ReadSyncBucket(s)
      PROVE  Drained'
  BY <1>2, SMT DEF ReadSyncBucket, Exists
<1>3. ASSUME NEW s \in Syncers, NEW i \in Ids, Applied(s, i)
      PROVE  Drained'
  BY <1>3, SMT DEF Applied
<1>4. ASSUME NEW s \in Syncers,
             \/ DropSyncBucket(s) \/ DropFails(s) \/ ReleaseLock(s) \/ ReleaseFails(s)
             \/ SkipRound(s) \/ SyncerCrashes(s)
      PROVE  Drained'
  BY <1>4, SMT DEF DropSyncBucket, DropFails, ReleaseLock, ReleaseFails, SkipRound, SyncerCrashes
<1>5. CASE OrphanLockExpires \/ LiveLockExpires \/ UNCHANGED flushVars
  BY <1>5, SMT DEF OrphanLockExpires, LiveLockExpires, flushVars
<1> QED
  BY <1>1, <1>2, <1>3, <1>4, <1>5
     DEF FlushNext, SyncStep, SyncFault, ApplyDelta, ApplyFails, RequeueFails

-----------------------------------------------------------------------------
(* Counters that only grow: no hash holds a negative delta, the clamp of   *)
(* applyDelta never fires, and a syncing hash that outlives its round      *)
(* repeats deltas but loses none.                                          *)

Growing ==
  /\ active \in [Ids -> Nat]
  /\ syncing \in [Ids -> Nat]
  /\ todo \in [Syncers -> [Ids -> Nat]]

\* What is still to be applied is in the syncing hash as well.
Covered == \A s \in Syncers : phase[s] = "apply" => \A i \in Ids : todo[s][i] <= syncing[i]

LEMMA FlushGrowing ==
  ASSUME FlushTypeOK, Growing, [FlushNext]_flushVars
  PROVE  Growing'
<1> USE DEF Growing
<1>0. EmptyHash \in [Ids -> Nat]
  BY SMT DEF EmptyHash
<1>1. ASSUME NEW s \in Syncers, PrepareSyncBucket(s) PROVE Growing'
  BY <1>0, <1>1 DEF PrepareSyncBucket
<1>2. ASSUME NEW s \in Syncers, ReadSyncBucket(s) PROVE Growing'
  BY <1>2, SMT DEF ReadSyncBucket
<1>3. ASSUME NEW s \in Syncers, NEW i \in Ids, ApplyDelta(s, i) \/ RequeueFails(s, i)
      PROVE  Growing'
  BY <1>3, SMT DEF ApplyDelta, RequeueFails, Applied
<1>4. ASSUME NEW s \in Syncers, NEW i \in Ids, ApplyFails(s, i) PROVE Growing'
  BY <1>4, SMT DEF ApplyFails, Applied, HIncrBy
<1>5. ASSUME NEW s \in Syncers, DropSyncBucket(s) PROVE Growing'
  BY <1>0, <1>5 DEF DropSyncBucket
<1>6. ASSUME NEW s \in Syncers, SyncerCrashes(s) PROVE Growing'
  BY <1>0, <1>6, SMT DEF SyncerCrashes
<1>7. CASE UNCHANGED <<active, syncing, todo>>
  BY <1>7
<1> QED
  BY <1>1, <1>2, <1>3, <1>4, <1>5, <1>6, <1>7
     DEF FlushNext, SyncStep, SyncFault, LockArticleSync, ReleaseLock, SkipRound, DropFails,
         ReleaseFails, OrphanLockExpires, LiveLockExpires, flushVars

LEMMA FlushCovered ==
  ASSUME FlushTypeOK, Growing, Exclusive, Covered, [FlushNext]_flushVars
  PROVE  Covered'
<1> USE DEF Covered, FlushTypeOK, Goto
<1>0. \A s, t \in Syncers : phase[s] # "idle" /\ phase[t] # "idle" => s = t
  BY DEF Exclusive
<1>1. ASSUME NEW s \in Syncers, LockArticleSync(s) \/ ReleaseLock(s) \/ ReleaseFails(s) \/ SkipRound(s)
      PROVE  Covered'
  BY <1>1, SMT DEF LockArticleSync, ReleaseLock, ReleaseFails, SkipRound
<1>2. ASSUME NEW s \in Syncers, PrepareSyncBucket(s) \/ DropSyncBucket(s) \/ DropFails(s)
      PROVE  Covered'
  <2>1. \A t \in Syncers : phase'[t] # "apply"
    BY <1>0, <1>2, SMT DEF PrepareSyncBucket, DropSyncBucket, DropFails
  <2> QED
    BY <2>1
<1>3. ASSUME NEW s \in Syncers, ReadSyncBucket(s) PROVE Covered'
  <2>1. todo'[s] = syncing /\ \A t \in Syncers \ {s} : todo'[t] = todo[t] /\ phase'[t] = phase[t]
    BY <1>3, SMT DEF ReadSyncBucket
  <2>2. syncing' = syncing
    BY <1>3 DEF ReadSyncBucket
  <2> QED
    BY <2>1, <2>2, SMT
<1>4. ASSUME NEW s \in Syncers, NEW i \in Ids, Applied(s, i), syncing' = syncing
      PROVE  Covered'
  <2>1. phase[s] = "apply" /\ \A t \in Syncers \ {s} : todo'[t] = todo[t] /\ phase'[t] = phase[t]
    BY <1>4, SMT DEF Applied
  <2>2. \A j \in Ids : todo'[s][j] = IF j = i THEN 0 ELSE todo[s][j]
    BY <1>4, SMT DEF Applied
  <2>3. \A j \in Ids : syncing[j] \in Nat
    BY DEF Growing
  <2> QED
    BY <1>4, <2>1, <2>2, <2>3, SMT
<1>5. ASSUME NEW s \in Syncers, SyncerCrashes(s) PROVE Covered'
  <2>1. /\ phase'[s] = "idle" /\ syncing' = syncing
        /\ \A t \in Syncers \ {s} : todo'[t] = todo[t] /\ phase'[t] = phase[t]
    BY <1>5, SMT DEF SyncerCrashes
  <2> QED
    BY <2>1, SMT
<1>6. CASE OrphanLockExpires \/ LiveLockExpires \/ UNCHANGED flushVars
  BY <1>6 DEF OrphanLockExpires, LiveLockExpires, flushVars
<1> QED
  BY <1>1, <1>2, <1>3, <1>4, <1>5, <1>6
     DEF FlushNext, SyncStep, SyncFault, ApplyDelta, ApplyFails, RequeueFails

(* A step of the job never lowers what is stored and owed together, and    *)
(* raises it only where the syncing hash outlives its round.               *)
LEMMA FlushOwes ==
  ASSUME FlushTypeOK, Growing, Exclusive, Drained, Covered, FlushNext,
         ~Fault("lose"), ~Fault("expiry"), NEW i \in Ids
  PROVE  /\ stored'[i] + Owed(i)' >= stored[i] + Owed(i)
         /\ ~Fault("redis") /\ ~Fault("crash") => stored'[i] + Owed(i)' = stored[i] + Owed(i)
<1>0. Owed(i) \in Int /\ stored \in [Ids -> Nat] /\ stored[i] \in Nat
  BY OwedTyped DEF FlushTypeOK
<1>1. CASE Same
  BY <1>0, <1>1 DEF Same
<1>2. ASSUME NEW j \in Ids, Settles(j, InBucket(j))
      PROVE  stored'[i] + Owed(i)' = stored[i] + Owed(i)
  <2>1. InBucket(j) \in Nat
    BY SMT DEF Growing, InBucket, FlushTypeOK
  <2>2. stored'[i] = IF i = j THEN stored[i] + InBucket(j) ELSE stored[i]
    BY <1>0, <1>2, <2>1 DEF Settles, Clamped
  <2>3. Owed(i)' = Owed(i) - (IF i = j THEN InBucket(j) ELSE 0)
    BY <1>2 DEF Settles
  <2> QED
    BY <1>0, <2>1, <2>2, <2>3
<1>3. ASSUME NEW s \in Syncers, DropFails(s) \/ SyncerCrashes(s)
      PROVE  stored'[i] + Owed(i)' >= stored[i] + Owed(i)
  <2>1. phase[s] # "idle" /\ lock = s /\ s # NoSyncer
    BY <1>3 DEF DropFails, SyncerCrashes, Goto, Exclusive
  <2>2. UNCHANGED <<active, syncing, stored, lock>>
    BY <1>3 DEF DropFails, SyncerCrashes
  <2>3. phase'[s] \in {"idle", "unlock"}
    BY <1>3, SMT DEF DropFails, SyncerCrashes, Goto, FlushTypeOK
  <2>4. InBucket(i)' = syncing[i]
    BY <2>1, <2>2, <2>3 DEF InBucket
  <2>5. InBucket(i) <= syncing[i] /\ InBucket(i) \in Nat
    <3>1. syncing[i] \in Nat /\ todo[s][i] \in Nat
      BY SMT DEF Growing
    <3>2. phase[s] = "apply" => todo[s][i] <= syncing[i]
      BY DEF Covered
    <3>3. phase[s] = "drop" => todo[s][i] = 0
      BY DEF Drained
    <3> QED
      BY <2>1, <3>1, <3>2, <3>3 DEF InBucket
  <2>6. active[i] \in Nat /\ syncing[i] \in Nat
    BY SMT DEF Growing
  <2> QED
    BY <1>0, <2>2, <2>4, <2>5, <2>6 DEF Owed
<1>4. \A s \in Syncers : (DropFails(s) \/ SyncerCrashes(s)) => Fault("redis") \/ Fault("crash")
  BY DEF DropFails, SyncerCrashes
<1>5. stored'[i] + Owed(i)' = stored[i] + Owed(i) => stored'[i] + Owed(i)' >= stored[i] + Owed(i)
  BY <1>0
<1> QED
  BY <1>1, <1>2, <1>3, <1>4, <1>5, JobSettles DEF Same
=============================================================================
