-------------------------- MODULE DiggCounterProofs --------------------------
(***************************************************************************)
(* Proofs about DiggCounter: typing, mutual exclusion of the job, and the  *)
(* implementation of CounterLedger, from which NothingUndercounted follows.*)
(***************************************************************************)
EXTENDS DiggCounter, CounterFlushProofs, FiniteSetTheorems

USE FlushAssumption DEF FlushAssumption

-----------------------------------------------------------------------------
(* Typing, for every choice of faults. *)

LEMMA InitTyped == Init => TypeOK
<1> SUFFICES ASSUME Init PROVE TypeOK
  OBVIOUS
<1>1. FlushTypeOK
  BY SMT DEF Init, FlushInit, FlushTypeOK, EmptyHash, Phases
<1>2. row \in [Users -> [Ids -> RowStates]]
  BY DEF Init, RowStates
<1>3. [pc : {"idle"}, user : Users, item : Ids] \subseteq Requests
  BY DEF Requests
<1>4. req \in [Reqs -> Requests]
  BY <1>3 DEF Init
<1> QED
  BY <1>1, <1>2, <1>4 DEF TypeOK

LEMMA Answering ==
  ASSUME TypeOK, NEW r \in Reqs, NEW from, NEW to, Answer(r, from, to),
         to \in {"idle"} \cup Busy \cup Ended
  PROVE  /\ req' \in [Reqs -> Requests]
         /\ req[r].pc = from
         /\ req'[r].pc = to
         /\ \A q \in Reqs : req'[q].user = req[q].user /\ req'[q].item = req[q].item
         /\ \A q \in Reqs \ {r} : req'[q].pc = req[q].pc
<1> DEFINE PCs == {"idle"} \cup Busy \cup Ended
<1>1. req \in [Reqs -> [pc : PCs, user : Users, item : Ids]] /\ to \in PCs
  BY DEF TypeOK, Requests
<1> HIDE DEF PCs
<1>2. req' = [req EXCEPT ![r].pc = to] /\ req[r].pc = from
  BY DEF Answer
<1>3. req' \in [Reqs -> [pc : PCs, user : Users, item : Ids]]
  BY <1>1, <1>2, SMT
<1>4. \A q \in Reqs : req'[q].user = req[q].user /\ req'[q].item = req[q].item
  BY <1>1, <1>2, SMT
<1>5. req'[r].pc = to /\ \A q \in Reqs \ {r} : req'[q].pc = req[q].pc
  BY <1>1, <1>2, SMT
<1> QED
  BY <1>2, <1>3, <1>4, <1>5 DEF Requests, PCs

LEMMA RowWriting ==
  ASSUME TypeOK, NEW r \in Reqs, NEW state \in RowStates, SetRow(r, state)
  PROVE  row' \in [Users -> [Ids -> RowStates]]
<1>1. req[r].user \in Users /\ req[r].item \in Ids
  BY SMT DEF TypeOK, Requests
<1> QED
  BY <1>1, SMT DEF TypeOK, SetRow

LEMMA ReqTyped ==
  ASSUME TypeOK, NEW r \in Reqs, ReqStep(r) \/ SetCacheDiggLost(r) \/ RequestCrashes(r)
  PROVE  TypeOK'
<1>1. req' \in [Reqs -> Requests]
  <2>1. PICK from, to : Answer(r, from, to) /\ to \in Busy \cup Ended
    BY DEF ReqStep, TakeDigg, DeleteDigg, RestoreDigg, CreateDigg, SetCacheDigg,
           SetCacheDiggLost, RequestCrashes, Answer, Busy, Ended
  <2> QED
    BY <2>1, Answering
<1>2. row' \in [Users -> [Ids -> RowStates]]
  <2>1. row' = row \/ \E state \in RowStates : SetRow(r, state)
    BY DEF ReqStep, TakeDigg, DeleteDigg, RestoreDigg, CreateDigg, SetCacheDigg,
           SetCacheDiggLost, RequestCrashes, RowStates
  <2> QED
    BY <2>1, RowWriting DEF TypeOK
<1>3. FlushTypeOK'
  <2>1. active' = active \/ \E i \in Ids, d \in {1, -1} : HIncrBy(i, d)
    <3>1. req[r].item \in Ids
      BY SMT DEF TypeOK, Requests
    <3> QED
      BY <3>1 DEF ReqStep, TakeDigg, DeleteDigg, RestoreDigg, CreateDigg, SetCacheDigg,
                  SetCacheDiggLost, RequestCrashes, flushVars
  <2>2. active' \in [Ids -> Int]
    BY <2>1, SMT DEF TypeOK, FlushTypeOK, HIncrBy
  <2>3. UNCHANGED <<syncing, stored, lock, phase, todo>>
    BY DEF ReqStep, TakeDigg, DeleteDigg, RestoreDigg, CreateDigg, SetCacheDigg,
           SetCacheDiggLost, RequestCrashes, flushVars
  <2>4. faults' = faults \/ Fault("lose") \/ Fault("crash")
    BY DEF ReqStep, TakeDigg, DeleteDigg, RestoreDigg, CreateDigg, SetCacheDigg,
           SetCacheDiggLost, RequestCrashes, flushVars
  <2>5. faults' \in [count : 0..MaxFaults, kinds : SUBSET FaultKinds]
    BY <2>4, SMT DEF TypeOK, FlushTypeOK, Fault
  <2> QED
    BY <2>2, <2>3, <2>5 DEF TypeOK, FlushTypeOK
<1> QED
  BY <1>1, <1>2, <1>3 DEF TypeOK

LEMMA NextTyped == TypeOK /\ [Next]_vars => TypeOK'
<1> SUFFICES ASSUME TypeOK, [Next]_vars PROVE TypeOK'
  OBVIOUS
<1>1. CASE \E r \in Reqs : ReqStep(r) \/ SetCacheDiggLost(r) \/ RequestCrashes(r)
  BY <1>1, ReqTyped
<1>2. CASE (FlushNext /\ UNCHANGED <<row, req>>) \/ UNCHANGED vars
  <2>1. FlushTypeOK'
    BY <1>2, FlushTyped DEF TypeOK, vars
  <2> QED
    BY <1>2, <2>1 DEF TypeOK, vars
<1> QED
  BY <1>1, <1>2 DEF Next

(* Every reachable state is typed, in particular no stored count is ever   *)
(* negative, for any number of users, requests and job executions and any  *)
(* faults.                                                                 *)
THEOREM TypeCorrect == Spec => []TypeOK
  BY InitTyped, NextTyped, PTL DEF Spec

-----------------------------------------------------------------------------
(* One execution at a time.  While no lock has expired under its holder    *)
(* the invariant is inductive by itself: a free lock means every execution *)
(* is idle.                                                                *)

(* As long as the ledger is sound, no other kind of fault is happening.    *)
LEMMA OnlyTolerated ==
  ASSUME Sound'
  PROVE  ~Fault("redis") /\ ~Fault("lose") /\ ~Fault("crash") /\ ~Fault("expiry")
<1>1. faults'.kinds \subseteq {"db", "skip"}
  BY DEF Sound, Tolerated
<1>2. "redis" \notin faults'.kinds /\ "lose" \notin faults'.kinds
  BY <1>1
<1>3. "crash" \notin faults'.kinds /\ "expiry" \notin faults'.kinds
  BY <1>1
<1> QED
  BY <1>2, <1>3, FaultSeen

(* The kinds of fault that have happened are never forgotten.              *)
LEMMA FaultsRemembered == [Next]_vars => faults.kinds \subseteq faults'.kinds
<1> SUFFICES ASSUME [Next]_vars PROVE faults.kinds \subseteq faults'.kinds
  OBVIOUS
<1>1. faults' = faults \/ \E kind : Fault(kind)
  BY DEF Next, vars, flushVars, ReqStep, TakeDigg, DeleteDigg, RestoreDigg, CreateDigg,
         SetCacheDigg, SetCacheDiggLost, RequestCrashes, FlushNext, SyncStep, SyncFault,
         LockArticleSync, PrepareSyncBucket, ReadSyncBucket, ApplyDelta, ApplyFails,
         RequeueFails, DropSyncBucket, DropFails, SkipRound, ReleaseLock, ReleaseFails,
         SyncerCrashes, OrphanLockExpires, LiveLockExpires
<1> QED
  BY <1>1 DEF Fault


LEMMA NextExclusive ==
  ASSUME TypeOK, Exclusive, [Next]_vars, "expiry" \notin faults'.kinds
  PROVE  Exclusive'
<1>1. CASE \E r \in Reqs : ReqStep(r) \/ SetCacheDiggLost(r) \/ RequestCrashes(r)
  BY <1>1 DEF Exclusive, ReqStep, TakeDigg, DeleteDigg, RestoreDigg, CreateDigg,
              SetCacheDigg, SetCacheDiggLost, RequestCrashes, flushVars
<1>2. CASE FlushNext \/ UNCHANGED vars
  BY <1>2, FlushExclusive DEF TypeOK, vars
<1> QED
  BY <1>1, <1>2 DEF Next

(* The job is mutually exclusive over any number of server instances, also *)
(* when servers crash and Redis or MySQL fail, as long as no execution     *)
(* outlives the lock's TTL.                                                *)
THEOREM MutualExclusion == Spec => []SingleSyncer
<1>1. Init => SingleSyncer
  BY DEF Init, FlushInit, SingleSyncer, Exclusive
<1>2. TypeOK /\ SingleSyncer /\ [Next]_vars => SingleSyncer'
  BY NextExclusive, FaultsRemembered DEF SingleSyncer
<1> QED
  BY <1>1, <1>2, TypeCorrect, PTL DEF Spec

-----------------------------------------------------------------------------
(* What one step does to the ledger's three quantities.                    *)

\* The invariant that holds as long as the faults are tolerated.
Good == TypeOK /\ Exclusive /\ Drained

Book(i) == Owed(i) + Pending(i)

\* How much an answer moves in or out of a kind of waiting requests.
Move(kind, from, to) == IF kind = to THEN 1 ELSE IF kind = from THEN -1 ELSE 0

LEMMA WaitingFinite ==
  ASSUME NEW i, NEW kind
  PROVE  IsFiniteSet(Waiting(i, kind)) /\ Cardinality(Waiting(i, kind)) \in Nat
<1>1. Waiting(i, kind) \subseteq Reqs
  BY DEF Waiting
<1>2. IsFiniteSet(Reqs)
  BY DiggAssumption DEF DiggAssumption
<1> QED
  BY <1>1, <1>2, FS_Subset, FS_CardinalityType

LEMMA WaitingMoves ==
  ASSUME TypeOK, NEW r \in Reqs, NEW from, NEW to, Answer(r, from, to), from # to,
         to \in Busy \cup Ended, NEW i, NEW kind
  PROVE  Cardinality(Waiting(i, kind))' =
           Cardinality(Waiting(i, kind)) + (IF req[r].item = i THEN Move(kind, from, to) ELSE 0)
<1>1. /\ req[r].pc = from
      /\ req'[r].pc = to
      /\ \A q \in Reqs : req'[q].item = req[q].item
      /\ \A q \in Reqs \ {r} : req'[q].pc = req[q].pc
  BY Answering
<1> DEFINE W == Waiting(i, kind)
<1>2. CASE req[r].item = i /\ kind = to
  <2>1. W' = W \cup {r} /\ r \notin W
    BY <1>1, <1>2 DEF Waiting
  <2> QED
    BY <1>2, <2>1, WaitingFinite, FS_AddElement DEF Move
<1>3. CASE req[r].item = i /\ kind = from
  <2>1. W' = W \ {r} /\ r \in W
    BY <1>1, <1>3 DEF Waiting
  <2>2. Cardinality(W') = Cardinality(W) - 1
    BY <2>1, WaitingFinite, FS_RemoveElement
  <2> QED
    BY <1>3, <2>2, WaitingFinite DEF Move
<1>4. CASE req[r].item # i \/ (kind # from /\ kind # to)
  <2>1. W' = W
    BY <1>1, <1>4 DEF Waiting
  <2> QED
    BY <1>4, <2>1, WaitingFinite DEF Move
<1> QED
  BY <1>2, <1>3, <1>4

LEMMA PendingMoves ==
  ASSUME TypeOK, NEW r \in Reqs, NEW from, NEW to, Answer(r, from, to), from # to,
         to \in Busy \cup Ended, NEW i
  PROVE  /\ Pending(i) \in Int
         /\ Pending(i)' = Pending(i) +
              (IF req[r].item = i THEN Move("incr", from, to) - Move("decr", from, to) ELSE 0)
<1> DEFINE up == Cardinality(Waiting(i, "incr"))
           down == Cardinality(Waiting(i, "decr"))
<1>1. up \in Nat /\ down \in Nat
  BY WaitingFinite
<1>2. up' = up + (IF req[r].item = i THEN Move("incr", from, to) ELSE 0)
  BY WaitingMoves
<1>3. down' = down + (IF req[r].item = i THEN Move("decr", from, to) ELSE 0)
  BY WaitingMoves
<1>4. Move("incr", from, to) \in Int /\ Move("decr", from, to) \in Int
  BY DEF Move
<1>5. Pending(i) = up - down /\ Pending(i)' = up' - down'
  BY DEF Pending
<1> HIDE DEF up, down
<1> QED
  BY <1>1, <1>2, <1>3, <1>4, <1>5

\* The three things a step may do to relation rows and booked changes.
Quiet == row' = row /\ \A j \in Ids : Book(j)' = Book(j)

Books(u, i, state, d) ==
  /\ row' = [row EXCEPT ![u][i] = state]
  /\ \A j \in Ids : Book(j)' = Book(j) + (IF j = i THEN d ELSE 0)

LEMMA BookTyped == ASSUME TypeOK, NEW i \in Ids PROVE Book(i) \in Int
<1>1. Pending(i) \in Int
  BY WaitingFinite DEF Pending
<1> QED
  BY <1>1, OwedTyped DEF Book, TypeOK

(* A request either changes nothing the ledger sees, or books exactly the  *)
(* one relation change it made.                                            *)
LEMMA RequestBooks ==
  ASSUME TypeOK, NEW r \in Reqs, ReqStep(r)
  PROVE  /\ stored' = stored
         /\ \/ Quiet
            \/ Row(r) # "live" /\ Books(req[r].user, req[r].item, "live", 1)
            \/ Row(r) = "live" /\ Books(req[r].user, req[r].item, "deleted", -1)
<1> DEFINE i == req[r].item
<1> USE DEF Busy, Ended
<1>0. stored' = stored
  BY DEF ReqStep, TakeDigg, DeleteDigg, RestoreDigg, CreateDigg, SetCacheDigg, flushVars
<1>1. ASSUME UNCHANGED flushVars, NEW from, NEW to, Answer(r, from, to),
             to \in Busy \cup Ended, from # to, NEW j \in Ids
      PROVE  Book(j)' = Book(j) + (IF j = i THEN Move("incr", from, to) - Move("decr", from, to) ELSE 0)
  <2>1. Move("incr", from, to) \in Int /\ Move("decr", from, to) \in Int
    BY DEF Move
  <2>2. Owed(j)' = Owed(j) /\ Owed(j) \in Int
    BY <1>1, OwedTyped DEF Owed, InBucket, flushVars, TypeOK
  <2> QED
    BY <1>1, <2>1, <2>2, PendingMoves DEF Book
<1>2. ASSUME UNCHANGED <<row, flushVars>>, NEW from \in {"idle", "remove", "restore", "create"},
             NEW to \in {"remove", "restore", "create", "refused"}, Answer(r, from, to), from # to
      PROVE  Quiet
  <2>1. ASSUME NEW j \in Ids PROVE Book(j)' = Book(j)
    BY <1>1, <1>2, BookTyped DEF Move
  <2> QED
    BY <1>2, <2>1 DEF Quiet
<1>3. ASSUME UNCHANGED flushVars, NEW from \in {"restore", "create"}, Answer(r, from, "incr"),
             SetRow(r, "live")
      PROVE  Books(req[r].user, req[r].item, "live", 1)
  <2>1. ASSUME NEW j \in Ids PROVE Book(j)' = Book(j) + (IF j = i THEN 1 ELSE 0)
    BY <1>1, <1>3 DEF Move
  <2> QED
    BY <1>3, <2>1 DEF Books, SetRow
<1>4. ASSUME UNCHANGED flushVars, Answer(r, "remove", "decr"), SetRow(r, "deleted")
      PROVE  Books(req[r].user, req[r].item, "deleted", -1)
  <2>1. ASSUME NEW j \in Ids PROVE Book(j)' = Book(j) + (IF j = i THEN -1 ELSE 0)
    BY <1>1, <1>4 DEF Move
  <2> QED
    BY <1>4, <2>1 DEF Books, SetRow
<1>5. CASE TakeDigg(r)
  <2>1. PICK to \in {"remove", "restore"} : Answer(r, "idle", to)
    BY <1>5 DEF TakeDigg
  <2> QED
    BY <1>0, <1>2, <1>5, <2>1 DEF TakeDigg
<1>6. CASE DeleteDigg(r)
  BY <1>0, <1>2, <1>4, <1>6 DEF DeleteDigg
<1>7. CASE RestoreDigg(r)
  BY <1>0, <1>2, <1>3, <1>7 DEF RestoreDigg
<1>8. CASE CreateDigg(r)
  <2>1. CASE Row(r) = "none"
    BY <1>0, <1>3, <1>8, <2>1 DEF CreateDigg
  <2>2. CASE Row(r) # "none"
    BY <1>0, <1>2, <1>8, <2>2 DEF CreateDigg
  <2> QED
    BY <2>1, <2>2
<1>9. CASE SetCacheDigg(r)
  <2>1. PICK d \in {1, -1}, to \in {"liked", "unliked"} :
          /\ Answer(r, IF d = 1 THEN "incr" ELSE "decr", to)
          /\ HIncrBy(i, d)
    BY <1>9 DEF SetCacheDigg
  <2>2. ASSUME NEW j \in Ids PROVE Book(j)' = Book(j)
    <3>1. Owed(j)' = Owed(j) + (IF j = i THEN d ELSE 0) /\ Owed(j) \in Int
      BY <1>9, <2>1, OwedTyped, SMT DEF SetCacheDigg, HIncrBy, Owed, InBucket, TypeOK, FlushTypeOK
    <3>2. Pending(j)' = Pending(j) - (IF j = i THEN d ELSE 0) /\ Pending(j) \in Int
      <4>1. CASE d = 1
        BY <2>1, <4>1, PendingMoves DEF Move
      <4>2. CASE d = -1
        BY <2>1, <4>2, PendingMoves DEF Move
      <4> QED
        BY <4>1, <4>2
    <3> QED
      BY <3>1, <3>2 DEF Book
  <2> QED
    BY <1>0, <1>9, <2>2 DEF SetCacheDigg, Quiet
<1> QED
  BY <1>5, <1>6, <1>7, <1>8, <1>9 DEF ReqStep

-----------------------------------------------------------------------------
(* The inductive invariant, and what every step does to the ledger.        *)

LEMMA GoodStep ==
  ASSUME Good, [Next]_vars, Sound'
  PROVE  Good'
<1>1. TypeOK'
  BY NextTyped DEF Good
<1>2. Exclusive'
  BY NextExclusive DEF Good, Sound, Tolerated
<1>3. Drained'
  <2>1. CASE \E r \in Reqs : ReqStep(r) \/ SetCacheDiggLost(r) \/ RequestCrashes(r)
    BY <2>1 DEF Good, Drained, ReqStep, TakeDigg, DeleteDigg, RestoreDigg, CreateDigg,
                SetCacheDigg, SetCacheDiggLost, RequestCrashes, flushVars
  <2>2. CASE FlushNext \/ UNCHANGED vars
    BY <2>2, FlushDrained DEF Good, TypeOK, vars
  <2> QED
    BY <2>1, <2>2 DEF Next
<1> QED
  BY <1>1, <1>2, <1>3 DEF Good

LEMMA GoodInit == Init => Good
<1>1. Init => Exclusive /\ Drained
  BY DEF Init, FlushInit, Exclusive, Drained
<1> QED
  BY <1>1, InitTyped DEF Good

\* Part of an item's booked changes moves to its stored count.
BookSettles(i, d) ==
  /\ row' = row
  /\ stored' = [stored EXCEPT ![i] = Clamped(@, d)]
  /\ \A j \in Ids : Book(j)' = Book(j) - (IF j = i THEN d ELSE 0)

LEMMA StepBooks ==
  ASSUME Good, [Next]_vars, Sound'
  PROVE  \/ Quiet /\ stored' = stored
         \/ \E r \in Reqs :
              /\ stored' = stored
              /\ \/ Row(r) # "live" /\ Books(req[r].user, req[r].item, "live", 1)
                 \/ Row(r) = "live" /\ Books(req[r].user, req[r].item, "deleted", -1)
         \/ \E i \in Ids, d \in Int : d = InBucket(i) /\ BookSettles(i, d)
<1>1. CASE \E r \in Reqs : ReqStep(r) \/ SetCacheDiggLost(r) \/ RequestCrashes(r)
  <2>1. \A r \in Reqs : ~SetCacheDiggLost(r) /\ ~RequestCrashes(r)
    BY DEF SetCacheDiggLost, RequestCrashes, Fault, Sound, Tolerated
  <2> QED
    BY <1>1, <2>1, RequestBooks DEF Good
<1>2. CASE FlushNext /\ UNCHANGED <<row, req>>
  <2>1. \A j \in Ids : Pending(j)' = Pending(j) /\ Pending(j) \in Int
    <3> SUFFICES ASSUME NEW j \in Ids
                 PROVE  Pending(j)' = Pending(j) /\ Pending(j) \in Int
      OBVIOUS
    <3>1. Pending(j)' = Pending(j)
      BY <1>2 DEF Pending, Waiting
    <3>2. Pending(j) \in Int
      BY WaitingFinite DEF Pending
    <3> QED
      BY <3>1, <3>2
  <2>2. \A j \in Ids : Owed(j) \in Int
    BY OwedTyped DEF Good, TypeOK
  <2>3. CASE Same
    BY <1>2, <2>1, <2>3 DEF Same, Quiet, Book
  <2>4. ASSUME NEW i \in Ids, NEW d \in Int, Settles(i, d) PROVE BookSettles(i, d)
    <3>1. ASSUME NEW j \in Ids PROVE Book(j)' = Book(j) - (IF j = i THEN d ELSE 0)
      BY <2>1, <2>2, <2>4 DEF Settles, Book
    <3> QED
      BY <1>2, <2>4, <3>1 DEF BookSettles, Settles
  <2>5. ~Fault("redis") /\ ~Fault("lose") /\ ~Fault("crash") /\ ~Fault("expiry")
    BY OnlyTolerated
  <2>6. \A s \in Syncers : ~DropFails(s) /\ ~SyncerCrashes(s)
    BY <2>5 DEF DropFails, SyncerCrashes
  <2>7. \A i \in Ids : InBucket(i) \in Int
    BY SMT DEF Good, TypeOK, FlushTypeOK, InBucket
  <2>8. Same \/ \E i \in Ids : Settles(i, InBucket(i))
    BY <1>2, <2>5, <2>6, JobSettles DEF Good, TypeOK
  <2> QED
    BY <2>3, <2>4, <2>7, <2>8
<1>3. CASE UNCHANGED vars
  <2>1. ASSUME NEW j \in Ids PROVE Book(j)' = Book(j)
    BY <1>3 DEF vars, flushVars, Book, Owed, InBucket, Pending, Waiting
  <2> QED
    BY <1>3, <2>1 DEF Quiet, vars, flushVars
<1> QED
  BY <1>1, <1>2, <1>3 DEF Next

-----------------------------------------------------------------------------
LEMMA LikersFinite ==
  ASSUME NEW i
  PROVE  IsFiniteSet(Likers(i)) /\ Cardinality(Likers(i)) \in Nat
<1>1. Likers(i) \subseteq Users /\ IsFiniteSet(Users)
  BY DiggAssumption DEF Likers, DiggAssumption
<1> QED
  BY <1>1, FS_Subset, FS_CardinalityType

LEMMA LikersChange ==
  ASSUME TypeOK, NEW r \in Reqs, NEW state \in {"live", "deleted"}, NEW j \in Ids,
         (Row(r) = "live") # (state = "live"),
         row' = [row EXCEPT ![req[r].user][req[r].item] = state]
  PROVE  Cardinality(Likers(j))' =
           Cardinality(Likers(j)) + (IF j # req[r].item THEN 0 ELSE IF state = "live" THEN 1 ELSE -1)
<1> DEFINE u == req[r].user
           i == req[r].item
<1>1. u \in Users /\ i \in Ids
  BY SMT DEF TypeOK, Requests
<1>2. \A v \in Users : row'[v][j] = IF v = u /\ j = i THEN state ELSE row[v][j]
  BY <1>1, SMT DEF TypeOK
<1>3. CASE j # i
  <2>1. Likers(j)' = Likers(j)
    BY <1>2, <1>3 DEF Likers
  <2> QED
    BY <1>3, <2>1, LikersFinite
<1>4. CASE j = i /\ state = "live"
  <2>1. Likers(j)' = Likers(j) \cup {u} /\ u \notin Likers(j)
    BY <1>1, <1>2, <1>4 DEF Likers, Row
  <2> QED
    BY <1>4, <2>1, LikersFinite, FS_AddElement
<1>5. CASE j = i /\ state = "deleted"
  <2> DEFINE L == Likers(j)
  <2>1. L' = L \ {u} /\ u \in L
    BY <1>1, <1>2, <1>5 DEF Likers, Row
  <2>2. IsFiniteSet(L) /\ Cardinality(L) \in Nat
    BY LikersFinite
  <2> HIDE DEF L
  <2>3. Cardinality(L') = Cardinality(L) - 1
    BY <2>1, <2>2, FS_RemoveElement
  <2> QED
    BY <1>5, <2>3 DEF L
<1> QED
  BY <1>3, <1>4, <1>5

EnoughBooked == \A i \in Ids : stored[i] + Book(i) >= Cardinality(Likers(i))

LEMMA EnoughInit == Init => EnoughBooked
<1> SUFFICES ASSUME Init, NEW i \in Ids
             PROVE  stored[i] + Book(i) >= Cardinality(Likers(i))
  BY DEF EnoughBooked
<1>1. stored[i] = 0 /\ Owed(i) = 0
  BY SMT DEF Init, FlushInit, Owed, InBucket, EmptyHash
<1>2. Waiting(i, "incr") = {} /\ Waiting(i, "decr") = {} /\ Likers(i) = {}
  BY SMT DEF Init, Waiting, Likers
<1> QED
  BY <1>1, <1>2, FS_EmptySet DEF Book, Pending

LEMMA EnoughStep ==
  ASSUME Good, EnoughBooked, [Next]_vars, Sound'
  PROVE  EnoughBooked'
<1> SUFFICES ASSUME NEW j \in Ids
             PROVE  stored'[j] + Book(j)' >= Cardinality(Likers(j))'
  BY DEF EnoughBooked
<1>0. /\ stored \in [Ids -> Nat] /\ Book(j) \in Int /\ Cardinality(Likers(j)) \in Nat
      /\ stored[j] + Book(j) >= Cardinality(Likers(j))
  BY BookTyped, LikersFinite DEF Good, TypeOK, FlushTypeOK, EnoughBooked
<1>1. CASE Quiet /\ stored' = stored
  <2>1. Likers(j)' = Likers(j)
    BY <1>1 DEF Quiet, Likers
  <2> QED
    BY <1>0, <1>1, <2>1 DEF Quiet
<1>2. ASSUME NEW r \in Reqs, stored' = stored, Row(r) # "live",
             Books(req[r].user, req[r].item, "live", 1)
      PROVE  stored'[j] + Book(j)' >= Cardinality(Likers(j))'
  <2>1. Cardinality(Likers(j))' = Cardinality(Likers(j)) + (IF j = req[r].item THEN 1 ELSE 0)
    BY <1>2, LikersChange DEF Books, Good
  <2> QED
    BY <1>0, <1>2, <2>1 DEF Books
<1>3. ASSUME NEW r \in Reqs, stored' = stored, Row(r) = "live",
             Books(req[r].user, req[r].item, "deleted", -1)
      PROVE  stored'[j] + Book(j)' >= Cardinality(Likers(j))'
  <2>1. Cardinality(Likers(j))' = Cardinality(Likers(j)) + (IF j = req[r].item THEN -1 ELSE 0)
    BY <1>3, LikersChange DEF Books, Good
  <2> QED
    BY <1>0, <1>3, <2>1 DEF Books
<1>4. ASSUME NEW i \in Ids, NEW d \in Int, BookSettles(i, d)
      PROVE  stored'[j] + Book(j)' >= Cardinality(Likers(j))'
  <2>1. Likers(j)' = Likers(j)
    BY <1>4 DEF BookSettles, Likers
  <2>2. stored'[j] = IF j = i THEN Clamped(stored[j], d) ELSE stored[j]
    BY <1>0, <1>4 DEF BookSettles
  <2>3. Clamped(stored[j], d) >= stored[j] + d /\ Clamped(stored[j], d) \in Int
    BY <1>0 DEF Clamped
  <2>4. Book(j)' = Book(j) - (IF j = i THEN d ELSE 0)
    BY <1>4 DEF BookSettles
  <2> QED
    BY <1>0, <2>1, <2>2, <2>3, <2>4
<1> QED
  BY <1>1, <1>2, <1>3, <1>4, StepBooks

(* The inductive invariant: intolerable faults end the ledger's part of it *)
(* and leave the typing.                                                   *)
IInv == TypeOK /\ (Sound => Good /\ EnoughBooked)

LEMMA StillSound == [Next]_vars /\ Sound' => Sound
  BY FaultsRemembered DEF Sound

LEMMA IInvHolds == Spec => []IInv
<1>1. Init => IInv
  BY InitTyped, GoodInit, EnoughInit DEF IInv
<1>2. IInv /\ [Next]_vars => IInv'
  BY NextTyped, GoodStep, EnoughStep, StillSound DEF IInv
<1> QED
  BY <1>1, <1>2, PTL DEF Spec

(* No like is ever lost on its way to the database, for any number of      *)
(* users, articles, overlapping requests and instances of the job, under   *)
(* failed UPDATEs and skipped rounds: the stored count plus what is on its *)
(* way is at least the number of live relations.                           *)
THEOREM NeverUndercounted == Spec => []NothingUndercounted
<1>1. IInv => NothingUndercounted
  <2> SUFFICES ASSUME Good, EnoughBooked, NEW i \in Ids
               PROVE  stored[i] + Owed(i) + Pending(i) >= Cardinality(Likers(i))
    BY DEF NothingUndercounted, IInv
  <2>1. stored[i] \in Int /\ Owed(i) \in Int
    BY OwedTyped DEF Good, TypeOK, FlushTypeOK
  <2>2. Pending(i) \in Int
    BY WaitingFinite DEF Pending
  <2>3. stored[i] + Book(i) >= Cardinality(Likers(i))
    BY DEF EnoughBooked
  <2>4. Cardinality(Likers(i)) \in Nat
    BY LikersFinite
  <2> QED
    BY <2>1, <2>2, <2>3, <2>4 DEF Book
<1> QED
  BY <1>1, IInvHolds, PTL

-----------------------------------------------------------------------------
(* The count is exact while no two toggles of one user and article         *)
(* overlap: then a request about to add a like still finds its row live,   *)
(* so what has reached the hashes is never more unlikes than likes, and a  *)
(* bucket never takes a stored count below zero.                           *)

Alone ==
  \A r, q \in Reqs :
    r # q /\ SamePair(r, q) => ~(req[r].pc \in Busy /\ req[q].pc \in Busy)

AddsLive == \A r \in Reqs : req[r].pc = "incr" => Row(r) = "live"

Solvent == \A i \in Ids : stored[i] + InBucket(i) >= 0

ExactlyBooked == \A i \in Ids : stored[i] + Book(i) = Cardinality(Likers(i))

LEMMA AloneStep ==
  ASSUME TypeOK, Alone, AddsLive, ~Overlap, [Next]_vars
  PROVE  Alone' /\ AddsLive'
<1> USE DEF Busy, Ended
<1>1. ASSUME NEW r \in Reqs, NEW from, NEW to, Answer(r, from, to), to \in Busy \cup Ended,
             \/ from \in Busy
             \/ to \notin Busy
             \/ \A q \in Reqs : SamePair(r, q) => req[q].pc \notin Busy,
             \/ row' = row /\ (to = "incr" => from = "incr")
             \/ to = "decr" /\ from \in Busy /\ SetRow(r, "deleted")
             \/ to = "incr" /\ from \in Busy /\ SetRow(r, "live")
      PROVE  Alone' /\ AddsLive'
  <2>1. /\ req[r].pc = from
        /\ req'[r].pc = to
        /\ \A q \in Reqs : req'[q].user = req[q].user /\ req'[q].item = req[q].item
        /\ \A q \in Reqs \ {r} : req'[q].pc = req[q].pc
    BY <1>1, Answering
  <2>2. Alone'
    BY <1>1, <2>1 DEF Alone, SamePair
  <2>3. ASSUME NEW q \in Reqs, req'[q].pc = "incr"
        PROVE  row'[req[q].user][req[q].item] = "live"
    <3>0. \A p \in Reqs : req[p].user \in Users /\ req[p].item \in Ids
      BY SMT DEF TypeOK, Requests
    <3>1. CASE row' = row /\ (to = "incr" => from = "incr")
      BY <2>1, <2>3, <3>1 DEF AddsLive, Row
    <3>2. CASE from \in Busy /\ to = "decr" /\ SetRow(r, "deleted")
      <4>1. q # r /\ req[q].pc = "incr" /\ ~SamePair(r, q)
        BY <2>1, <2>3, <3>2 DEF Alone
      <4>2. row'[req[q].user][req[q].item] = row[req[q].user][req[q].item]
        BY <3>0, <3>2, <4>1, SMT DEF SetRow, SamePair, TypeOK
      <4> QED
        BY <4>1, <4>2 DEF AddsLive, Row
    <3>3. CASE from \in Busy /\ to = "incr" /\ SetRow(r, "live")
      <4>1. CASE q = r
        BY <3>0, <3>3, <4>1 DEF SetRow, TypeOK
      <4>2. CASE q # r
        <5>1. req[q].pc = "incr" /\ ~SamePair(r, q)
          BY <2>1, <2>3, <3>3, <4>2 DEF Alone
        <5>2. row'[req[q].user][req[q].item] = row[req[q].user][req[q].item]
          BY <3>0, <3>3, <5>1, SMT DEF SetRow, SamePair, TypeOK
        <5> QED
          BY <5>1, <5>2 DEF AddsLive, Row
      <4> QED
        BY <4>1, <4>2
    <3> QED
      BY <1>1, <3>1, <3>2, <3>3
  <2>4. AddsLive'
    BY <2>1, <2>3 DEF AddsLive, Row
  <2> QED
    BY <2>2, <2>4
<1>2. ASSUME NEW r \in Reqs, TakeDigg(r) PROVE Alone' /\ AddsLive'
  <2>1. PICK to \in {"remove", "restore"} : Answer(r, "idle", to)
    BY <1>2 DEF TakeDigg
  <2> QED
    BY <1>1, <1>2, <2>1 DEF TakeDigg
<1>3. ASSUME NEW r \in Reqs, DeleteDigg(r) PROVE Alone' /\ AddsLive'
  BY <1>1, <1>3 DEF DeleteDigg
<1>4. ASSUME NEW r \in Reqs, RestoreDigg(r) PROVE Alone' /\ AddsLive'
  BY <1>1, <1>4 DEF RestoreDigg
<1>5. ASSUME NEW r \in Reqs, CreateDigg(r) PROVE Alone' /\ AddsLive'
  BY <1>1, <1>5 DEF CreateDigg
<1>6. ASSUME NEW r \in Reqs, SetCacheDigg(r) \/ SetCacheDiggLost(r) PROVE Alone' /\ AddsLive'
  BY <1>1, <1>6 DEF SetCacheDigg, SetCacheDiggLost
<1>7. ASSUME NEW r \in Reqs, RequestCrashes(r) PROVE Alone' /\ AddsLive'
  <2>1. Answer(r, req[r].pc, "dead") /\ row' = row
    BY <1>7 DEF RequestCrashes, Answer
  <2> QED
    BY <1>1, <2>1
<1>8. UNCHANGED <<row, req>> => Alone' /\ AddsLive'
  BY DEF Alone, AddsLive, SamePair, Row
<1> QED
  BY <1>2, <1>3, <1>4, <1>5, <1>6, <1>7, <1>8 DEF Next, ReqStep, vars

\* Each request about to add a like has a liker of its own.
LEMMA AddersAreLikers ==
  ASSUME TypeOK, Alone, AddsLive, NEW i \in Ids
  PROVE  Cardinality(Waiting(i, "incr")) <= Cardinality(Likers(i))
<1> DEFINE S == Waiting(i, "incr")
           f == [r \in S |-> req[r].user]
<1>1. \A r \in S : r \in Reqs /\ req[r].item = i /\ req[r].pc = "incr"
  BY DEF Waiting
<1>2. \A r \in S : req[r].user \in Likers(i)
  <2>1. \A r \in Reqs : req[r].user \in Users
    BY SMT DEF TypeOK, Requests
  <2> QED
    BY <1>1, <2>1 DEF Likers, AddsLive, Row
<1>3. \A r, q \in S : req[r].user = req[q].user => r = q
  BY <1>1 DEF Alone, SamePair, Busy
<1> HIDE DEF S
<1>4. f \in Injection(S, Likers(i))
  BY <1>2, <1>3 DEF Injection, IsInjective
<1> HIDE DEF f
<1>5. Cardinality(S) <= Cardinality(Likers(i))
  BY <1>4, LikersFinite, FS_Injection
<1> QED
  BY <1>5 DEF S

LEMMA SolventStep ==
  ASSUME Good, Alone, AddsLive, Solvent, ExactlyBooked, [Next]_vars, Sound'
  PROVE  Solvent'
<1> SUFFICES ASSUME NEW i \in Ids PROVE stored'[i] + InBucket(i)' >= 0
  BY DEF Solvent
<1>0. /\ stored[i] \in Nat /\ InBucket(i) \in Int /\ active[i] \in Int
      /\ stored[i] + InBucket(i) >= 0
  BY SMT DEF Good, TypeOK, FlushTypeOK, InBucket, Solvent
<1>1. stored'[i] \in Nat
  BY NextTyped DEF Good, TypeOK, FlushTypeOK
<1>2. CASE \E r \in Reqs : ReqStep(r) \/ SetCacheDiggLost(r) \/ RequestCrashes(r)
  <2>1. UNCHANGED <<syncing, stored, lock, phase, todo>>
    BY <1>2 DEF ReqStep, TakeDigg, DeleteDigg, RestoreDigg, CreateDigg, SetCacheDigg,
                SetCacheDiggLost, RequestCrashes, flushVars
  <2> QED
    BY <1>0, <2>1 DEF InBucket
<1>3. CASE FlushNext
  <2>1. ~Fault("redis") /\ ~Fault("lose") /\ ~Fault("crash") /\ ~Fault("expiry")
    BY OnlyTolerated
  <2>2. \/ InBucket(i)' = 0
        \/ stored'[i] = stored[i] /\ InBucket(i)' = InBucket(i)
        \/ stored'[i] = stored[i] /\ InBucket(i) = 0 /\ InBucket(i)' = active[i]
    BY <1>3, <2>1, BucketMoves DEF Good, TypeOK
  <2>3. InBucket(i) = 0 => stored[i] + active[i] >= 0
    <3>1. stored[i] + (active[i] + InBucket(i)) + Pending(i) = Cardinality(Likers(i))
      BY <1>0, WaitingFinite DEF ExactlyBooked, Book, Owed, Pending
    <3>2. /\ Cardinality(Waiting(i, "incr")) <= Cardinality(Likers(i))
          /\ Cardinality(Waiting(i, "incr")) \in Nat /\ Cardinality(Waiting(i, "decr")) \in Nat
          /\ Cardinality(Likers(i)) \in Nat
      BY AddersAreLikers, WaitingFinite, LikersFinite DEF Good
    <3> QED
      BY <1>0, <3>1, <3>2 DEF Pending
  <2> QED
    BY <1>0, <1>1, <2>2, <2>3
<1>4. CASE UNCHANGED vars
  BY <1>0, <1>4 DEF vars, flushVars, InBucket
<1> QED
  BY <1>2, <1>3, <1>4 DEF Next

LEMMA ExactStep ==
  ASSUME Good, Solvent, ExactlyBooked, [Next]_vars, Sound'
  PROVE  ExactlyBooked'
<1> SUFFICES ASSUME NEW j \in Ids
             PROVE  stored'[j] + Book(j)' = Cardinality(Likers(j))'
  BY DEF ExactlyBooked
<1>0. /\ stored \in [Ids -> Nat] /\ stored[j] \in Nat /\ Book(j) \in Int
      /\ Cardinality(Likers(j)) \in Nat
      /\ stored[j] + Book(j) = Cardinality(Likers(j))
  BY BookTyped, LikersFinite DEF Good, TypeOK, FlushTypeOK, ExactlyBooked
<1>1. CASE Quiet /\ stored' = stored
  <2>1. Likers(j)' = Likers(j)
    BY <1>1 DEF Quiet, Likers
  <2> QED
    BY <1>0, <1>1, <2>1 DEF Quiet
<1>2. ASSUME NEW r \in Reqs, stored' = stored, Row(r) # "live",
             Books(req[r].user, req[r].item, "live", 1)
      PROVE  stored'[j] + Book(j)' = Cardinality(Likers(j))'
  <2>1. Cardinality(Likers(j))' = Cardinality(Likers(j)) + (IF j = req[r].item THEN 1 ELSE 0)
    BY <1>2, LikersChange DEF Books, Good
  <2> QED
    BY <1>0, <1>2, <2>1 DEF Books
<1>3. ASSUME NEW r \in Reqs, stored' = stored, Row(r) = "live",
             Books(req[r].user, req[r].item, "deleted", -1)
      PROVE  stored'[j] + Book(j)' = Cardinality(Likers(j))'
  <2>1. Cardinality(Likers(j))' = Cardinality(Likers(j)) + (IF j = req[r].item THEN -1 ELSE 0)
    BY <1>3, LikersChange DEF Books, Good
  <2> QED
    BY <1>0, <1>3, <2>1 DEF Books
<1>4. ASSUME NEW i \in Ids, NEW d \in Int, d = InBucket(i), BookSettles(i, d)
      PROVE  stored'[j] + Book(j)' = Cardinality(Likers(j))'
  <2>1. Likers(j)' = Likers(j)
    BY <1>4 DEF BookSettles, Likers
  <2>2. stored'[j] = IF j = i THEN Clamped(stored[j], d) ELSE stored[j]
    BY <1>0, <1>4 DEF BookSettles
  <2>3. j = i => Clamped(stored[j], d) = stored[j] + d
    BY <1>0, <1>4 DEF Clamped, Solvent
  <2>4. Book(j)' = Book(j) - (IF j = i THEN d ELSE 0)
    BY <1>4 DEF BookSettles
  <2> QED
    BY <1>0, <2>1, <2>2, <2>3, <2>4
<1> QED
  BY <1>1, <1>2, <1>3, <1>4, StepBooks

(* While every user waits for the answer to a toggle before the next of    *)
(* the same article, the stored count and what is on its way to it are     *)
(* exactly the live relations, for any number of users, articles, requests *)
(* and instances of the job, under failed UPDATEs and skipped rounds: the  *)
(* clamp of applyDelta never throws an unlike away.                        *)
THEOREM CountIsExact == ~Overlap => (Spec => []ExactCount)
<1> SUFFICES ASSUME ~Overlap PROVE Spec => []ExactCount
  OBVIOUS
<1> DEFINE EInv == TypeOK /\ Alone /\ AddsLive /\ (Sound => Good /\ Solvent /\ ExactlyBooked)
<1>1. Init => EInv
  <2> SUFFICES ASSUME Init PROVE EInv
    OBVIOUS
  <2>1. \A r \in Reqs : req[r].pc = "idle"
    BY SMT DEF Init
  <2>2. Alone /\ AddsLive
    BY <2>1 DEF Alone, AddsLive, Busy
  <2>3. ASSUME NEW i \in Ids
        PROVE  stored[i] + InBucket(i) >= 0 /\ stored[i] + Book(i) = Cardinality(Likers(i))
    <3>1. stored[i] = 0 /\ InBucket(i) = 0 /\ Owed(i) = 0
      BY SMT DEF Init, FlushInit, Owed, InBucket, EmptyHash
    <3>2. Waiting(i, "incr") = {} /\ Waiting(i, "decr") = {} /\ Likers(i) = {}
      BY SMT DEF Init, Waiting, Likers
    <3> QED
      BY <3>1, <3>2, FS_EmptySet DEF Book, Pending
  <2> QED
    BY <2>2, <2>3, GoodInit DEF Solvent, ExactlyBooked, Good
<1>2. EInv /\ [Next]_vars => EInv'
  <2> SUFFICES ASSUME EInv, [Next]_vars PROVE EInv'
    OBVIOUS
  <2>1. TypeOK' /\ Alone' /\ AddsLive'
    BY NextTyped, AloneStep
  <2>2. Sound' => Good' /\ Solvent' /\ ExactlyBooked'
    BY StillSound, GoodStep, SolventStep, ExactStep
  <2> QED
    BY <2>1, <2>2
<1>3. EInv => ExactCount
  <2> SUFFICES ASSUME Good, ExactlyBooked, NEW i \in Ids
               PROVE  stored[i] + Owed(i) + Pending(i) = Cardinality(Likers(i))
    BY DEF ExactCount
  <2>1. stored[i] \in Int /\ Owed(i) \in Int /\ Pending(i) \in Int
    BY OwedTyped, WaitingFinite DEF Good, TypeOK, FlushTypeOK, Pending
  <2> QED
    BY <2>1 DEF ExactlyBooked, Book
<1> HIDE DEF EInv
<1> QED
  BY <1>1, <1>2, <1>3, PTL DEF Spec

-----------------------------------------------------------------------------
(* The pipeline implements the ledger: every step is one relation change   *)
(* booked once, a settlement, or invisible.                                *)

Pairs == {p \in Users \X Ids : row[p[1]][p[2]] = "live"}
BookOf == [i \in Ids |-> Owed(i) + Pending(i)]

LEMMA PairsChange ==
  ASSUME TypeOK, NEW r \in Reqs, NEW state \in {"live", "deleted"},
         row' = [row EXCEPT ![req[r].user][req[r].item] = state]
  PROVE  LET p == <<req[r].user, req[r].item>>
         IN  /\ p \in Pairs <=> Row(r) = "live"
             /\ Pairs' = IF state = "live" THEN Pairs \cup {p} ELSE Pairs \ {p}
<1>1. req[r].user \in Users /\ req[r].item \in Ids
  BY SMT DEF TypeOK, Requests
<1>2. \A v \in Users, j \in Ids :
        row'[v][j] = IF v = req[r].user /\ j = req[r].item THEN state ELSE row[v][j]
  BY <1>1, SMT DEF TypeOK
<1> QED
  BY <1>1, <1>2 DEF Pairs, Row

(* Every step of the detailed specification is a step of the ledger or     *)
(* invisible to it, until an intolerable fault breaks the promise.         *)
THEOREM ImplementsLedger == Spec => LedgerSpec
<1>1. Init => Ledger!Init
  <2> SUFFICES ASSUME Init PROVE Ledger!Init
    OBVIOUS
  <2>1. Pairs = {}
    BY DEF Init, Pairs
  <2>2. ASSUME NEW i \in Ids PROVE Owed(i) + Pending(i) = 0
    <3>1. Owed(i) = 0
      BY SMT DEF Init, FlushInit, Owed, InBucket, EmptyHash
    <3>2. Waiting(i, "incr") = {} /\ Waiting(i, "decr") = {}
      BY SMT DEF Init, Waiting
    <3> QED
      BY <3>1, <3>2, FS_EmptySet DEF Pending
  <2>3. Sound
    BY DEF Init, FlushInit, Sound
  <2> QED
    BY <2>1, <2>2, <2>3 DEF Ledger!Init, Pairs, Init, FlushInit
<1>2. ASSUME IInv, [Next]_vars, ~Sound' PROVE Ledger!Next
  BY <1>2 DEF Ledger!Next, Ledger!Break
<1>3. ASSUME IInv, [Next]_vars, Sound' PROVE [Ledger!Next]_(Ledger!vars)
  <2> USE <1>3
  <2>s. Sound /\ Good
    BY StillSound DEF IInv
  <2>0. /\ BookOf \in [Ids -> Int] /\ stored \in [Ids -> Nat]
        /\ \A j \in Ids : BookOf[j] = Book(j) /\ BookOf'[j] = Book(j)'
    BY <2>s, BookTyped DEF BookOf, Book, Good, TypeOK, FlushTypeOK
  <2>1. CASE Quiet /\ stored' = stored
    <3>1. Pairs' = Pairs
      BY <2>1 DEF Quiet, Pairs
    <3>2. BookOf' = BookOf
      BY <2>0, <2>1 DEF Quiet, BookOf
    <3> QED
      BY <2>1, <2>s, <3>1, <3>2 DEF Ledger!vars, Pairs, BookOf
  <2>2. ASSUME NEW r \in Reqs, stored' = stored, Row(r) # "live",
               Books(req[r].user, req[r].item, "live", 1)
        PROVE  \E u \in Users, i \in Ids : Ledger!Like(u, i)
    <3>1. req[r].user \in Users /\ req[r].item \in Ids
      BY <2>s, SMT DEF Good, TypeOK, Requests
    <3>2. BookOf' = [BookOf EXCEPT ![req[r].item] = @ + 1]
      BY <2>0, <2>2, <3>1 DEF Books, BookOf
    <3>3. /\ <<req[r].user, req[r].item>> \notin Pairs
          /\ Pairs' = Pairs \cup {<<req[r].user, req[r].item>>}
      BY <2>2, <2>s, PairsChange DEF Books, Good
    <3> QED
      BY <2>2, <2>s, <3>1, <3>2, <3>3 DEF Ledger!Like, Pairs, BookOf
  <2>3. ASSUME NEW r \in Reqs, stored' = stored, Row(r) = "live",
               Books(req[r].user, req[r].item, "deleted", -1)
        PROVE  \E u \in Users, i \in Ids : Ledger!Unlike(u, i)
    <3>1. req[r].user \in Users /\ req[r].item \in Ids
      BY <2>s, SMT DEF Good, TypeOK, Requests
    <3>2. BookOf' = [BookOf EXCEPT ![req[r].item] = @ - 1]
      BY <2>0, <2>3, <3>1 DEF Books, BookOf
    <3>3. /\ <<req[r].user, req[r].item>> \in Pairs
          /\ Pairs' = Pairs \ {<<req[r].user, req[r].item>>}
      BY <2>3, <2>s, PairsChange DEF Books, Good
    <3> QED
      BY <2>3, <2>s, <3>1, <3>2, <3>3 DEF Ledger!Unlike, Pairs, BookOf
  <2>4. ASSUME NEW i \in Ids, NEW d \in Int, BookSettles(i, d)
        PROVE  Ledger!Settle(i)
    <3>1. Pairs' = Pairs
      BY <2>4 DEF BookSettles, Pairs
    <3>2. BookOf' = [BookOf EXCEPT ![i] = BookOf'[i]] /\ BookOf'[i] = BookOf[i] - d
      <4>1. ASSUME NEW j \in Ids PROVE BookOf'[j] = BookOf[j] - (IF j = i THEN d ELSE 0)
        BY <2>0, <2>4 DEF BookSettles
      <4>2. ASSUME NEW j \in Ids \ {i} PROVE BookOf'[j] = BookOf[j]
        BY <2>0, <4>1
      <4>3. BookOf' = [j \in Ids |-> BookOf'[j]]
        BY DEF BookOf
      <4> QED
        BY <2>0, <4>1, <4>2, <4>3
    <3>3. BookOf[i] \in Int /\ BookOf'[i] \in Int /\ BookOf[i] - BookOf'[i] = d
      BY <2>0, <3>2
    <3>4. stored' = [stored EXCEPT ![i] = IF @ + d < 0 THEN 0 ELSE @ + d]
      BY <2>4 DEF BookSettles, Clamped
    <3> HIDE DEF BookOf
    <3> QED
      BY <2>s, <3>1, <3>2, <3>3, <3>4 DEF Ledger!Settle, Pairs, BookOf
  <2> QED
    BY <2>1, <2>2, <2>3, <2>4, <2>s, StepBooks DEF Ledger!Next
<1> QED
  BY <1>1, <1>2, <1>3, IInvHolds, PTL DEF Spec, LedgerSpec, Ledger!Spec

-----------------------------------------------------------------------------
(* Likes and unlikes alternate.  NoDoubleSuccess is inductive once typing  *)
(* is known: only the statement that changes a relation row sends a        *)
(* request to "incr" or "decr", and only the answer takes it from there.   *)

Did(u, i, kinds) ==
  {r \in Reqs : req[r].user = u /\ req[r].item = i /\ req[r].pc \in kinds}

Liking   == {"incr", "liked"}
Unliking == {"decr", "unliked"}

\* The like toggles of a user and item that worked, less the unlike toggles.
Lead(u, i) == Cardinality(Did(u, i, Liking)) - Cardinality(Did(u, i, Unliking))

LikesOf(state) == IF state = "live" THEN 1 ELSE 0

Alternating == \A u \in Users, i \in Ids : Lead(u, i) = LikesOf(row[u][i])

\* 1 or 0, as the state belongs to the kinds or not.
In(pc, kinds) == IF pc \in kinds THEN 1 ELSE 0

LEMMA DidFinite ==
  ASSUME NEW u, NEW i, NEW kinds
  PROVE  IsFiniteSet(Did(u, i, kinds)) /\ Cardinality(Did(u, i, kinds)) \in Nat
<1>1. Did(u, i, kinds) \subseteq Reqs
  BY DEF Did
<1>2. IsFiniteSet(Reqs)
  BY DiggAssumption DEF DiggAssumption
<1> QED
  BY <1>1, <1>2, FS_Subset, FS_CardinalityType

LEMMA DidMoves ==
  ASSUME TypeOK, NEW r \in Reqs, NEW from, NEW to, Answer(r, from, to),
         to \in Busy \cup Ended, NEW u, NEW i, NEW kinds
  PROVE  Cardinality(Did(u, i, kinds))' =
           Cardinality(Did(u, i, kinds)) +
             (IF req[r].user = u /\ req[r].item = i THEN In(to, kinds) - In(from, kinds) ELSE 0)
<1>1. /\ req[r].pc = from
      /\ req'[r].pc = to
      /\ \A q \in Reqs : req'[q].user = req[q].user /\ req'[q].item = req[q].item
      /\ \A q \in Reqs \ {r} : req'[q].pc = req[q].pc
  BY Answering
<1> DEFINE D == Did(u, i, kinds)
           own == req[r].user = u /\ req[r].item = i
<1>2. CASE own /\ to \in kinds /\ from \notin kinds
  <2>1. D' = D \cup {r} /\ r \notin D
    BY <1>1, <1>2 DEF Did
  <2>2. Cardinality(D') = Cardinality(D) + 1
    BY <2>1, DidFinite, FS_AddElement
  <2> QED
    BY <1>2, <2>2, DidFinite DEF In
<1>3. CASE own /\ to \notin kinds /\ from \in kinds
  <2>1. D' = D \ {r} /\ r \in D
    BY <1>1, <1>3 DEF Did
  <2>2. Cardinality(D') = Cardinality(D) - 1
    BY <2>1, DidFinite, FS_RemoveElement
  <2> QED
    BY <1>3, <2>2, DidFinite DEF In
<1>4. CASE ~own \/ (to \in kinds <=> from \in kinds)
  <2>1. D' = D
    BY <1>1, <1>4 DEF Did
  <2> QED
    BY <1>4, <2>1, DidFinite DEF In
<1> QED
  BY <1>2, <1>3, <1>4

(* What an answer does to the lead of every user and item.                 *)
LEMMA LeadMoves ==
  ASSUME TypeOK, NEW r \in Reqs, NEW from, NEW to, Answer(r, from, to),
         to \in Busy \cup Ended, NEW u, NEW i, NEW d \in Int,
         d = (In(to, Liking) - In(from, Liking)) - (In(to, Unliking) - In(from, Unliking))
  PROVE  /\ Lead(u, i) \in Int
         /\ Lead(u, i)' = Lead(u, i) + (IF req[r].user = u /\ req[r].item = i THEN d ELSE 0)
<1> DEFINE up == Cardinality(Did(u, i, Liking))
           down == Cardinality(Did(u, i, Unliking))
<1>1. up \in Nat /\ down \in Nat
  BY DidFinite
<1>2. up' = up + (IF req[r].user = u /\ req[r].item = i THEN In(to, Liking) - In(from, Liking) ELSE 0)
  BY DidMoves DEF Liking
<1>3. down' = down + (IF req[r].user = u /\ req[r].item = i THEN In(to, Unliking) - In(from, Unliking) ELSE 0)
  BY DidMoves DEF Unliking
<1>4. \A pc, kinds : In(pc, kinds) \in Int
  BY DEF In
<1>5. Lead(u, i) = up - down /\ Lead(u, i)' = up' - down'
  BY DEF Lead, Liking, Unliking
<1> HIDE DEF up, down
<1> QED
  BY <1>1, <1>2, <1>3, <1>4, <1>5

\* A toggle that leaves every relation row and every lead alone.
LEMMA RowsKept ==
  ASSUME TypeOK, Alternating, NEW r \in Reqs, NEW from, NEW to, Answer(r, from, to),
         to \in Busy \cup Ended, row' = row,
         In(to, Liking) = In(from, Liking), In(to, Unliking) = In(from, Unliking)
  PROVE  Alternating'
<1>1. \A pc, kinds : In(pc, kinds) \in Int
  BY DEF In
<1>2. (In(to, Liking) - In(from, Liking)) - (In(to, Unliking) - In(from, Unliking)) = 0
  BY <1>1
<1>3. ASSUME NEW u \in Users, NEW i \in Ids PROVE Lead(u, i)' = Lead(u, i)
  BY <1>2, LeadMoves
<1> QED
  BY <1>3 DEF Alternating

\* A toggle that changes the relation row of its own user and item.
LEMMA RowChanged ==
  ASSUME TypeOK, Alternating, NEW r \in Reqs, NEW from, NEW to, Answer(r, from, to),
         to \in Busy \cup Ended, NEW state \in RowStates, SetRow(r, state),
         LikesOf(state) - LikesOf(Row(r)) =
           (In(to, Liking) - In(from, Liking)) - (In(to, Unliking) - In(from, Unliking))
  PROVE  Alternating'
<1> DEFINE d == LikesOf(state) - LikesOf(Row(r))
           a == req[r].user
           b == req[r].item
<1>1. a \in Users /\ b \in Ids
  BY SMT DEF TypeOK, Requests
<1>2. d \in Int /\ \A s : LikesOf(s) \in Int
  BY DEF LikesOf
<1>3. /\ row'[a][b] = state
      /\ \A u \in Users, i \in Ids : ~(u = a /\ i = b) => row'[u][i] = row[u][i]
  BY <1>1, SMT DEF SetRow, TypeOK
<1>4. ASSUME NEW u \in Users, NEW i \in Ids
      PROVE  Lead(u, i)' = LikesOf(row'[u][i])
  <2>1. Lead(u, i)' = Lead(u, i) + (IF a = u /\ b = i THEN d ELSE 0) /\ Lead(u, i) \in Int
    BY <1>2, LeadMoves
  <2>2. Lead(u, i) = LikesOf(row[u][i])
    BY DEF Alternating
  <2>3. CASE a = u /\ b = i
    <3>1. Row(r) = row[u][i] /\ row'[u][i] = state
      BY <1>3, <2>3 DEF Row
    <3> QED
      BY <1>2, <2>1, <2>2, <2>3, <3>1
  <2>4. CASE ~(a = u /\ b = i)
    BY <1>3, <2>1, <2>2, <2>4
  <2> QED
    BY <2>3, <2>4
<1>5. Alternating' <=> \A u \in Users, i \in Ids : Lead(u, i)' = LikesOf(row'[u][i])
  BY DEF Alternating, LikesOf
<1> QED
  BY <1>4, <1>5

LEMMA ReqAlternates ==
  ASSUME TypeOK, Alternating, NEW r \in Reqs, ReqStep(r) \/ SetCacheDiggLost(r)
  PROVE  Alternating'
<1> USE DEF Busy, Ended
<1>1. ASSUME row' = row,
             NEW from \in {"idle", "remove", "restore", "create"},
             NEW to \in {"remove", "restore", "create", "refused"}, Answer(r, from, to)
      PROVE  Alternating'
  <2>1. In(to, Liking) = In(from, Liking) /\ In(to, Unliking) = In(from, Unliking)
    BY DEF In, Liking, Unliking
  <2> QED
    BY <1>1, <2>1, RowsKept
<1>2. ASSUME Row(r) # "live", SetRow(r, "live"), NEW from \in {"restore", "create"},
             Answer(r, from, "incr")
      PROVE  Alternating'
  <2>1. LikesOf("live") - LikesOf(Row(r)) =
          (In("incr", Liking) - In(from, Liking)) - (In("incr", Unliking) - In(from, Unliking))
    BY <1>2 DEF In, Liking, Unliking, LikesOf
  <2> QED
    BY <1>2, <2>1, RowChanged DEF RowStates
<1>3. ASSUME Row(r) = "live", SetRow(r, "deleted"), Answer(r, "remove", "decr")
      PROVE  Alternating'
  <2>1. LikesOf("deleted") - LikesOf(Row(r)) =
          (In("decr", Liking) - In("remove", Liking)) - (In("decr", Unliking) - In("remove", Unliking))
    BY <1>3 DEF In, Liking, Unliking, LikesOf
  <2> QED
    BY <1>3, <2>1, RowChanged DEF RowStates
<1>4. ASSUME row' = row, Answer(r, "incr", "liked") \/ Answer(r, "decr", "unliked")
      PROVE  Alternating'
  <2>1. /\ In("liked", Liking) = In("incr", Liking) /\ In("liked", Unliking) = In("incr", Unliking)
        /\ In("unliked", Liking) = In("decr", Liking) /\ In("unliked", Unliking) = In("decr", Unliking)
    BY DEF In, Liking, Unliking
  <2> QED
    BY <1>4, <2>1, RowsKept
<1>5. CASE TakeDigg(r)
  BY <1>1, <1>5 DEF TakeDigg
<1>6. CASE DeleteDigg(r)
  BY <1>1, <1>3, <1>6 DEF DeleteDigg
<1>7. CASE RestoreDigg(r)
  BY <1>1, <1>2, <1>7 DEF RestoreDigg
<1>8. CASE CreateDigg(r)
  BY <1>1, <1>2, <1>8 DEF CreateDigg
<1>9. CASE SetCacheDigg(r) \/ SetCacheDiggLost(r)
  BY <1>4, <1>9 DEF SetCacheDigg, SetCacheDiggLost
<1> QED
  BY <1>5, <1>6, <1>7, <1>8, <1>9 DEF ReqStep

LEMMA NextAlternates ==
  ASSUME TypeOK, Alternating, [Next]_vars, "crash" \notin faults'.kinds
  PROVE  Alternating'
<1>1. ASSUME NEW r \in Reqs, ReqStep(r) \/ SetCacheDiggLost(r) PROVE Alternating'
  BY <1>1, ReqAlternates
<1>2. ASSUME NEW r \in Reqs PROVE ~RequestCrashes(r)
  BY FaultSeen DEF RequestCrashes
<1>3. CASE UNCHANGED <<row, req>>
  <2>1. row' = row /\ req' = req
    BY <1>3
  <2>2. \A u, i : Lead(u, i)' = Lead(u, i)
    BY <2>1 DEF Lead, Did
  <2> QED
    BY <2>1, <2>2 DEF Alternating
<1> QED
  BY <1>1, <1>2, <1>3 DEF Next, vars

(* Among the toggles of one user and item that were answered with success, *)
(* likes and unlikes alternate, for any number of users and of overlapping *)
(* requests and under every fault but a server crash: no two requests both *)
(* count the same change of a relation row.                                *)
THEOREM NoDoubleChange == Spec => []NoDoubleSuccess
<1> DEFINE Told == "crash" \notin faults.kinds => Alternating
<1>1. Init => Told
  <2> SUFFICES ASSUME Init PROVE Alternating
    OBVIOUS
  <2>1. ASSUME NEW u \in Users, NEW i \in Ids PROVE Lead(u, i) = LikesOf(row[u][i])
    <3>1. Did(u, i, Liking) = {} /\ Did(u, i, Unliking) = {}
      BY DEF Did, Init, Liking, Unliking
    <3>2. Lead(u, i) = 0
      BY <3>1, FS_EmptySet DEF Lead
    <3> QED
      BY <3>2 DEF LikesOf, Init
  <2> QED
    BY <2>1 DEF Alternating
<1>2. TypeOK /\ Told /\ [Next]_vars => Told'
  BY NextAlternates, FaultsRemembered
<1>3. Told => NoDoubleSuccess
  BY DEF NoDoubleSuccess, Alternating, Lead, Did, Liking, Unliking, LikesOf
<1> HIDE DEF Told
<1> QED
  BY <1>1, <1>2, <1>3, TypeCorrect, PTL DEF Spec
=============================================================================
