-------------------------- MODULE ViewCounterProofs --------------------------
(***************************************************************************)
(* Proofs about the counts of an article.  Of ViewCounter: typing, that no *)
(* counted visit is lost or counted twice on its way to the database, that *)
(* a viewer is counted once per article and day, and that marks expire.    *)
(* Of Favorites and Comments, as MCViewCounter sets them side by side:     *)
(* that the counts are those of the relations and of the comments.         *)
(***************************************************************************)
EXTENDS MCViewCounter, CounterFlushProofs, FiniteSetTheorems, Sequences

USE FlushAssumption DEF FlushAssumption

PCs == {"idle"} \cup Busy \cup Ended

\* What a step of request r does to the requests.
Moves(r, from, to, d) ==
  /\ req[r].pc = from
  /\ req'[r].pc = to /\ req'[r].day = d
  /\ req'[r].viewer = req[r].viewer /\ req'[r].item = req[r].item
  /\ \A q \in Reqs \ {r} : req'[q] = req[q]

ReqTyped == req \in [Reqs -> [pc : PCs, viewer : Viewers, item : Ids, day : 0..MaxDay]]

LEMMA Naming ==
  ASSUME TypeOK, NEW r \in Reqs
  PROVE  req[r].viewer \in Viewers /\ req[r].item \in Ids /\ req[r].day \in 0..MaxDay
  BY SMT DEF TypeOK

LEMMA ReqIsTyped == TypeOK => ReqTyped
  BY DEF TypeOK, ReqTyped, PCs

LEMMA Stepping ==
  ASSUME ReqTyped, NEW r \in Reqs, NEW from, NEW to \in PCs, Step(r, from, to)
  PROVE  ReqTyped' /\ Moves(r, from, to, req[r].day)
<1>1. ReqTyped'
  BY SMT DEF ReqTyped, Step
<1>2. Moves(r, from, to, req[r].day)
  BY SMT DEF ReqTyped, Step, Moves
<1> QED
  BY <1>1, <1>2

LEMMA Marking ==
  ASSUME ReqTyped, NEW r \in Reqs, day \in 0..MaxDay, NEW to \in PCs,
         req[r].pc = "mark", req' = [req EXCEPT ![r].pc = to, ![r].day = day]
  PROVE  ReqTyped' /\ Moves(r, "mark", to, day)
<1>1. req' = [req EXCEPT ![r].pc = to, ![r].day = day] /\ req[r].pc = "mark"
  OBVIOUS
<1>2. ReqTyped'
  <2> DEFINE Rec == [pc : PCs, viewer : Viewers, item : Ids, day : 0..MaxDay]
             new == [req[r] EXCEPT !.pc = to, !.day = day]
  <2>1. req[r] \in Rec
    BY DEF ReqTyped
  <2>2. new \in Rec
    BY <2>1, Zenon
  <2>3. req' = [req EXCEPT ![r] = new]
    BY <1>1 DEF ReqTyped
  <2> HIDE DEF new, Rec
  <2>4. req' \in [Reqs -> Rec]
    BY <2>2, <2>3 DEF ReqTyped, Rec
  <2> QED
    BY <2>4 DEF ReqTyped, Rec
<1>3. Moves(r, "mark", to, day)
  BY <1>1, SMT DEF ReqTyped, Moves
<1> QED
  BY <1>2, <1>3

\* Every step of a request moves it, from one of these to one of those.
LEMMA ReqMoves ==
  ASSUME TypeOK, NEW r \in Reqs, ReqStep(r) \/ ReqFault(r)
  PROVE  ReqTyped' /\ \E from \in PCs, to \in PCs, d \in 0..MaxDay : Moves(r, from, to, d)
<1>0. ReqTyped /\ day \in 0..MaxDay /\ req[r].pc \in PCs /\ req[r].day \in 0..MaxDay
  BY ReqIsTyped, Naming, SMT DEF TypeOK, ReqTyped
<1>1. CASE MarkHistory(r) \/ MarkHistoryFails(r)
  BY <1>0, <1>1, Marking DEF MarkHistory, MarkHistoryFails, PCs, Busy
<1>2. CASE ~(MarkHistory(r) \/ MarkHistoryFails(r))
  <2>1. PICK from, to : Step(r, from, to) /\ to \in PCs
    <3>1. CASE CheckHistory(r) \/ CheckHistoryFails(r)
      BY <3>1 DEF CheckHistory, CheckHistoryFails, AfterCheck, PCs, Busy, Ended
    <3>2. CASE SaveHistory(r) \/ ExpireHistory(r) \/ CountView(r) \/ RequestCrashes(r)
      BY <3>2 DEF SaveHistory, ExpireHistory, CountView, RequestCrashes, Step, PCs, Busy, Ended
    <3>3. CASE ExpireHistoryFails(r) \/ CountViewFails(r)
      BY <3>3 DEF ExpireHistoryFails, CountViewFails, PCs, Busy, Ended
    <3> QED
      BY <1>2, <3>1, <3>2, <3>3 DEF ReqStep, ReqFault
  <2> QED
    BY <1>0, <2>1, Stepping DEF Step
<1> QED
  BY <1>1, <1>2

-----------------------------------------------------------------------------
(* Typing.                                                                 *)

LEMMA InitTyped == Init => TypeOK
<1> SUFFICES ASSUME Init PROVE TypeOK
  OBVIOUS
<1>1. FlushTypeOK
  BY SMT DEF Init, FlushInit, FlushTypeOK, EmptyHash, Phases
<1>2. 0 \in 0..MaxDay /\ Never \in 0..Never /\ MaxDay \in Nat
  BY ViewAssumption DEF ViewAssumption, Never
<1>3. [pc : {"idle"}, viewer : Viewers, item : Ids, day : {0}]
        \subseteq [pc : PCs, viewer : Viewers, item : Ids, day : 0..MaxDay]
  BY <1>2, SMT DEF PCs
<1>4. ReqTyped
  BY <1>3 DEF Init, ReqTyped
<1>5. marked \in [Viewers -> SUBSET Ids] /\ ttl \in [Viewers -> 0..Never]
  BY <1>2 DEF Init
<1> QED
  BY <1>1, <1>2, <1>4, <1>5 DEF Init, TypeOK, ReqTyped, PCs

LEMMA ViewTyped ==
  ASSUME TypeOK, NEW r \in Reqs, ReqStep(r) \/ ReqFault(r)
  PROVE  TypeOK'
<1>0. MaxDay \in Nat
  BY ViewAssumption DEF ViewAssumption
<1>1. ReqTyped'
  BY ReqMoves
<1>2. day' = day
  BY DEF ReqStep, CheckHistory, SaveHistory, MarkHistory, ExpireHistory, CountView, ReqFault,
         CheckHistoryFails, MarkHistoryFails, ExpireHistoryFails, CountViewFails, RequestCrashes, viewVars
<1>3. marked' \in [Viewers -> SUBSET Ids]
  <2>1. CASE MarkHistory(r)
    BY <2>1, Naming, SMT DEF TypeOK, MarkHistory
  <2>2. CASE ExpireHistory(r)
    BY <2>2, SMT DEF TypeOK, ExpireHistory
  <2>3. CASE marked' = marked
    BY <2>3 DEF TypeOK
  <2> QED
    BY <2>1, <2>2, <2>3 DEF ReqStep, CheckHistory, SaveHistory, CountView, ReqFault,
          CheckHistoryFails, MarkHistoryFails, ExpireHistoryFails, CountViewFails, RequestCrashes, viewVars
<1>4. ttl' \in [Viewers -> 0..Never]
  <2>1. CASE ExpireHistory(r)
    <3>1. day + 1 \in 0..Never /\ Never \in 0..Never
      BY <1>0, SMT DEF TypeOK, Never
    <3> QED
      BY <2>1, <3>1, SMT DEF TypeOK, ExpireHistory
  <2>2. CASE ttl' = ttl
    BY <2>2 DEF TypeOK
  <2> QED
    BY <2>1, <2>2 DEF ReqStep, CheckHistory, SaveHistory, MarkHistory, CountView, ReqFault,
          CheckHistoryFails, MarkHistoryFails, ExpireHistoryFails, CountViewFails, RequestCrashes, viewVars
<1>5. history' \subseteq Viewers \X Ids
  <2>1. history' = history \/ history' = history \cup {<<req[r].viewer, req[r].item>>}
    BY DEF ReqStep, CheckHistory, SaveHistory, MarkHistory, ExpireHistory, CountView, ReqFault,
           CheckHistoryFails, MarkHistoryFails, ExpireHistoryFails, CountViewFails, RequestCrashes, viewVars
  <2> QED
    BY <2>1, Naming DEF TypeOK
<1>6. FlushTypeOK'
  <2>1. active' = active \/ HIncrBy(req[r].item, 1)
    BY DEF ReqStep, CheckHistory, SaveHistory, MarkHistory, ExpireHistory, CountView, ReqFault,
           CheckHistoryFails, MarkHistoryFails, ExpireHistoryFails, CountViewFails, RequestCrashes, flushVars
  <2>2. active' \in [Ids -> Int]
    BY <2>1, SMT DEF TypeOK, FlushTypeOK, HIncrBy
  <2>3. UNCHANGED <<syncing, stored, lock, phase, todo>>
    BY DEF ReqStep, CheckHistory, SaveHistory, MarkHistory, ExpireHistory, CountView, ReqFault,
           CheckHistoryFails, MarkHistoryFails, ExpireHistoryFails, CountViewFails, RequestCrashes, flushVars
  <2>4. faults' = faults \/ Fault("redis") \/ Fault("crash")
    BY DEF ReqStep, CheckHistory, SaveHistory, MarkHistory, ExpireHistory, CountView, ReqFault,
           CheckHistoryFails, MarkHistoryFails, ExpireHistoryFails, CountViewFails, RequestCrashes, flushVars
  <2>5. faults' \in [count : 0..MaxFaults, kinds : SUBSET FaultKinds]
    BY <2>4, SMT DEF TypeOK, FlushTypeOK, Fault
  <2> QED
    BY <2>2, <2>3, <2>5 DEF TypeOK, FlushTypeOK
<1>7. unset' \subseteq Viewers
  <2>1. unset' \subseteq unset \cup {req[r].viewer}
    BY DEF ReqStep, CheckHistory, SaveHistory, MarkHistory, ExpireHistory, CountView, ReqFault, LeftUnset,
           CheckHistoryFails, MarkHistoryFails, ExpireHistoryFails, CountViewFails, RequestCrashes, viewVars
  <2> QED
    BY <2>1, Naming DEF TypeOK
<1> QED
  BY <1>1, <1>2, <1>3, <1>4, <1>5, <1>6, <1>7 DEF TypeOK, ReqTyped, PCs

LEMMA MidnightTyped == ASSUME TypeOK, Midnight PROVE TypeOK'
<1>0. MaxDay \in Nat
  BY ViewAssumption DEF ViewAssumption
<1>1. day' \in 0..MaxDay
  BY <1>0, SMT DEF TypeOK, Midnight
<1>2. marked' \in [Viewers -> SUBSET Ids]
  BY SMT DEF TypeOK, Midnight
<1>3. ttl' \in [Viewers -> 0..Never]
  <2>1. Never \in 0..Never
    BY <1>0, SMT DEF Never
  <2> HIDE DEF Never
  <2> QED
    BY <2>1, SMT DEF TypeOK, Midnight
<1>4. FlushTypeOK'
  BY DEF TypeOK, FlushTypeOK, Midnight, flushVars
<1> QED
  BY <1>1, <1>2, <1>3, <1>4 DEF TypeOK, Midnight

LEMMA NextTyped == TypeOK /\ [Next]_vars => TypeOK'
<1> SUFFICES ASSUME TypeOK, [Next]_vars PROVE TypeOK'
  OBVIOUS
<1>1. CASE (FlushNext /\ UNCHANGED <<viewVars, req>>) \/ UNCHANGED vars
  <2>1. FlushTypeOK'
    BY <1>1, FlushTyped DEF TypeOK, vars
  <2> QED
    BY <1>1, <2>1 DEF TypeOK, vars, viewVars
<1> QED
  BY <1>1, ViewTyped, MidnightTyped DEF Next

(* Every reachable state is typed, whatever faults happen and however      *)
(* visits overlap.                                                         *)
THEOREM TypeCorrect == Spec => []TypeOK
  BY InitTyped, NextTyped, PTL DEF Spec

(* The kinds of fault that have happened are never forgotten.              *)
LEMMA FaultsRemembered == [Next]_vars => faults.kinds \subseteq faults'.kinds
<1> SUFFICES ASSUME [Next]_vars PROVE faults.kinds \subseteq faults'.kinds
  OBVIOUS
<1>1. CASE (\E r \in Reqs : ReqStep(r) \/ ReqFault(r)) \/ Midnight
  <2>1. faults' = faults \/ \E kind : Fault(kind)
    BY <1>1 DEF ReqStep, CheckHistory, SaveHistory, MarkHistory, ExpireHistory, CountView, ReqFault,
                CheckHistoryFails, MarkHistoryFails, ExpireHistoryFails, CountViewFails, RequestCrashes,
                Midnight, flushVars
  <2> QED
    BY <2>1 DEF Fault
<1>2. CASE FlushNext \/ UNCHANGED vars
  BY <1>2, FlushRemembers DEF vars
<1> QED
  BY <1>1, <1>2 DEF Next

-----------------------------------------------------------------------------
(* The counts.  The invariant carries the job's own, Covered and Drained,  *)
(* and their end when an execution outlives its lock; the three faults of  *)
(* NoViewLost that ViewsExact does not allow only ever repeat deltas.      *)

Enough == \A i \in Ids : stored[i] + Owed(i) >= Cardinality(Visits(i))

Exact == \A i \in Ids : stored[i] + Owed(i) = Cardinality(Visits(i))

CountInv ==
  /\ TypeOK
  /\ Growing
  /\ Drained
  /\ "expiry" \notin faults.kinds => Exclusive /\ Covered
  /\ faults.kinds \subseteq AtLeastOnceFaults => Enough
  /\ faults.kinds \subseteq {"db", "skip"} => Exact

LEMMA VisitsFinite ==
  ASSUME NEW i
  PROVE  IsFiniteSet(Visits(i)) /\ Cardinality(Visits(i)) \in Nat
<1>1. Visits(i) \subseteq Reqs /\ IsFiniteSet(Reqs)
  BY ViewAssumption DEF Visits, ViewAssumption
<1> QED
  BY <1>1, FS_Subset, FS_CardinalityType

LEMMA VisitsKept ==
  ASSUME NEW r \in Reqs, NEW from, NEW to, NEW d, Moves(r, from, to, d),
         from # "counted", to # "counted", NEW i
  PROVE  Visits(i)' = Visits(i)
  BY DEF Moves, Visits

LEMMA VisitAdded ==
  ASSUME NEW r \in Reqs, NEW d, Moves(r, "incr", "counted", d), NEW i
  PROVE  Cardinality(Visits(i))' = Cardinality(Visits(i)) + (IF i = req[r].item THEN 1 ELSE 0)
<1> DEFINE V == Visits(i)
<1>0. IsFiniteSet(V) /\ Cardinality(V) \in Nat
  BY VisitsFinite
<1>1. CASE i = req[r].item
  <2>1. V' = V \cup {r} /\ r \notin V
    BY <1>1 DEF Moves, Visits
  <2> HIDE DEF V
  <2>2. Cardinality(V') = Cardinality(V) + 1
    BY <1>0, <2>1, FS_AddElement
  <2> QED
    BY <1>1, <2>2 DEF V
<1>2. CASE i # req[r].item
  <2>1. V' = V
    BY <1>2 DEF Moves, Visits
  <2> QED
    BY <1>0, <1>2, <2>1
<1> QED
  BY <1>1, <1>2

\* The job and its hashes, without the record of the faults.
jobVars == <<active, syncing, stored, lock, phase, todo>>

LEMMA QuietCounts ==
  ASSUME CountInv, TypeOK', UNCHANGED jobVars, faults.kinds \subseteq faults'.kinds,
         \A i \in Ids : Visits(i)' = Visits(i)
  PROVE  CountInv'
<1>1. UNCHANGED <<active, syncing, stored>> /\ UNCHANGED <<lock, phase, todo>>
  BY DEF jobVars
<1>2. Growing' /\ Drained'
  BY <1>1 DEF CountInv, Growing, Drained
<1>3. "expiry" \notin faults'.kinds => Exclusive' /\ Covered'
  BY <1>1 DEF CountInv, Exclusive, Covered
<1>4. \A i \in Ids : /\ stored'[i] = stored[i] /\ Owed(i)' = Owed(i)
                     /\ Cardinality(Visits(i))' = Cardinality(Visits(i))
  BY <1>1 DEF Owed, InBucket
<1>5. faults'.kinds \subseteq AtLeastOnceFaults => Enough'
  BY <1>4 DEF CountInv, Enough, AtLeastOnceFaults
<1>6. faults'.kinds \subseteq {"db", "skip"} => Exact'
  BY <1>4 DEF CountInv, Exact
<1> QED
  BY <1>2, <1>3, <1>5, <1>6 DEF CountInv, AtLeastOnceFaults

LEMMA CountViewCounts ==
  ASSUME CountInv, TypeOK', NEW r \in Reqs, CountView(r)
  PROVE  CountInv'
<1>0. TypeOK /\ FlushTypeOK /\ req[r].item \in Ids
  BY Naming DEF CountInv, TypeOK
<1>1. /\ active' = [active EXCEPT ![req[r].item] = @ + 1]
      /\ UNCHANGED <<syncing, stored>> /\ UNCHANGED <<lock, phase, todo>>
      /\ faults' = faults
  BY DEF CountView, HIncrBy
<1>2. Moves(r, "incr", "counted", req[r].day)
  BY <1>0, ReqIsTyped, Stepping DEF CountView, PCs, Ended
<1>3. Growing'
  BY <1>0, <1>1, SMT DEF CountInv, Growing
<1>4. Drained' /\ ("expiry" \notin faults'.kinds => Exclusive' /\ Covered')
  BY <1>1 DEF CountInv, Drained, Exclusive, Covered
<1>5. ASSUME NEW i \in Ids
      PROVE  /\ stored'[i] = stored[i] /\ stored[i] \in Int
             /\ Owed(i) \in Int /\ Cardinality(Visits(i)) \in Int
             /\ Owed(i)' = Owed(i) + (IF i = req[r].item THEN 1 ELSE 0)
             /\ Cardinality(Visits(i))' = Cardinality(Visits(i)) + (IF i = req[r].item THEN 1 ELSE 0)
  <2>1. active'[i] = active[i] + (IF i = req[r].item THEN 1 ELSE 0) /\ active[i] \in Int
    BY <1>0, <1>1, SMT DEF FlushTypeOK
  <2>2. InBucket(i)' = InBucket(i)
    BY <1>1 DEF InBucket
  <2>3. InBucket(i) \in Int
    BY <1>0, SMT DEF InBucket, FlushTypeOK
  <2>4. stored[i] \in Int
    BY <1>0, SMT DEF FlushTypeOK
  <2> QED
    BY <1>0, <1>1, <1>2, <2>1, <2>2, <2>3, <2>4, OwedTyped, VisitAdded, VisitsFinite DEF Owed
<1>6. faults'.kinds \subseteq AtLeastOnceFaults => Enough'
  <2>1. ASSUME Enough, NEW i \in Ids PROVE stored'[i] + Owed(i)' >= Cardinality(Visits(i))'
    BY <1>5, <2>1 DEF Enough
  <2> QED
    BY <1>1, <2>1 DEF CountInv, Enough, AtLeastOnceFaults
<1>7. faults'.kinds \subseteq {"db", "skip"} => Exact'
  <2>1. ASSUME Exact, NEW i \in Ids PROVE stored'[i] + Owed(i)' = Cardinality(Visits(i))'
    BY <1>5, <2>1 DEF Exact
  <2> QED
    BY <1>1, <2>1 DEF CountInv, Exact
<1> QED
  BY <1>3, <1>4, <1>6, <1>7 DEF CountInv, AtLeastOnceFaults

LEMMA FlushCounts ==
  ASSUME CountInv, TypeOK', FlushNext, UNCHANGED <<viewVars, req>>
  PROVE  CountInv'
<1>0. FlushTypeOK /\ Growing /\ Drained
  BY DEF CountInv, TypeOK
<1>1. faults.kinds \subseteq faults'.kinds
  BY FlushRemembers
<1>2. Growing' /\ Drained'
  BY <1>0, FlushGrowing, FlushDrained
<1>3. "expiry" \notin faults'.kinds => Exclusive' /\ Covered'
  BY <1>0, <1>1, FlushExclusive, FlushCovered DEF CountInv
<1>4. ASSUME NEW i \in Ids
      PROVE  /\ Cardinality(Visits(i))' = Cardinality(Visits(i))
             /\ Cardinality(Visits(i)) \in Int
             /\ stored[i] + Owed(i) \in Int /\ stored'[i] + Owed(i)' \in Int
  <2>1. Visits(i)' = Visits(i)
    BY DEF Visits
  <2>2. stored[i] \in Int /\ Owed(i) \in Int
    BY <1>0, OwedTyped, SMT DEF FlushTypeOK
  <2>3. FlushTypeOK'
    BY DEF TypeOK
  <2>4. stored'[i] \in Int /\ Owed(i)' \in Int
    <3>1. stored'[i] \in Int
      BY <2>3, SMT DEF FlushTypeOK
    <3>2. Owed(i)' \in Int
      BY <2>3, SMT DEF FlushTypeOK, Owed, InBucket
    <3> QED
      BY <3>1, <3>2
  <2> QED
    BY <2>1, <2>2, <2>4, VisitsFinite
<1>5. faults'.kinds \subseteq AtLeastOnceFaults => Enough'
  <2> SUFFICES ASSUME faults'.kinds \subseteq AtLeastOnceFaults, NEW i \in Ids
               PROVE  stored'[i] + Owed(i)' >= Cardinality(Visits(i))'
    BY DEF Enough, AtLeastOnceFaults
  <2>1. "lose" \notin faults'.kinds /\ "expiry" \notin faults'.kinds
    BY DEF AtLeastOnceFaults
  <2>2. ~Fault("lose") /\ ~Fault("expiry")
    BY <2>1, FaultSeen
  <2>3. Enough /\ Exclusive /\ Covered
    BY <1>1, <2>1 DEF CountInv
  <2>4. stored'[i] + Owed(i)' >= stored[i] + Owed(i)
    BY <1>0, <2>2, <2>3, FlushOwes
  <2>5. stored[i] + Owed(i) >= Cardinality(Visits(i))
    BY <2>3 DEF Enough
  <2> QED
    BY <1>4, <2>4, <2>5
<1>6. faults'.kinds \subseteq {"db", "skip"} => Exact'
  <2> SUFFICES ASSUME faults'.kinds \subseteq {"db", "skip"}, NEW i \in Ids
               PROVE  stored'[i] + Owed(i)' = Cardinality(Visits(i))'
    BY DEF Exact
  <2>1. \A kind \in {"lose", "expiry", "redis", "crash"} : kind \notin faults'.kinds
    OBVIOUS
  <2>2. ~Fault("lose") /\ ~Fault("expiry") /\ ~Fault("redis") /\ ~Fault("crash")
    BY <2>1, FaultSeen
  <2>3. Exact /\ Exclusive /\ Covered
    BY <1>1, <2>1 DEF CountInv
  <2>4. stored'[i] + Owed(i)' = stored[i] + Owed(i)
    BY <1>0, <2>2, <2>3, FlushOwes
  <2> QED
    BY <1>4, <2>3, <2>4 DEF Exact
<1> QED
  BY <1>2, <1>3, <1>5, <1>6 DEF CountInv, AtLeastOnceFaults

LEMMA CountStep == CountInv /\ [Next]_vars => CountInv'
<1> SUFFICES ASSUME CountInv, [Next]_vars PROVE CountInv'
  OBVIOUS
<1>0. TypeOK /\ TypeOK' /\ ReqTyped
  BY NextTyped, ReqIsTyped DEF CountInv
<1>1. faults.kinds \subseteq faults'.kinds
  BY FaultsRemembered
<1>2. ASSUME NEW r \in Reqs, ReqStep(r) \/ ReqFault(r),
             ~CountView(r)
      PROVE  CountInv'
  <2>1. UNCHANGED jobVars
    BY <1>2 DEF ReqStep, CheckHistory, SaveHistory, MarkHistory, ExpireHistory, ReqFault,
                CheckHistoryFails, MarkHistoryFails, ExpireHistoryFails, CountViewFails, RequestCrashes,
                flushVars, jobVars
  <2>2. \E from, to, d : Moves(r, from, to, d) /\ from # "counted" /\ to # "counted"
    <3>1. CASE MarkHistory(r) \/ MarkHistoryFails(r)
      BY <1>0, <3>1, Marking DEF MarkHistory, MarkHistoryFails, TypeOK, PCs, Busy
    <3>2. CASE CheckHistory(r) \/ CheckHistoryFails(r)
      <4>1. PICK to \in {"seen", "mark", "verify"} : Step(r, "idle", to)
        BY <3>2 DEF CheckHistory, CheckHistoryFails, AfterCheck
      <4> QED
        BY <1>0, <4>1, Stepping DEF PCs, Busy, Ended
    <3>3. CASE SaveHistory(r) \/ ExpireHistory(r) \/ ExpireHistoryFails(r) \/ CountViewFails(r)
      <4>1. PICK from \in {"verify", "expire", "incr"}, to \in {"mark", "incr", "uncounted"} : Step(r, from, to)
        BY <3>3 DEF SaveHistory, ExpireHistory, ExpireHistoryFails, CountViewFails
      <4> QED
        BY <1>0, <4>1, Stepping DEF PCs, Busy, Ended
    <3>4. CASE RequestCrashes(r)
      <4>1. PICK from \in Busy : Step(r, from, "dead")
        BY <3>4 DEF RequestCrashes, Step
      <4> QED
        BY <1>0, <4>1, Stepping DEF PCs, Busy, Ended
    <3> QED
      BY <1>2, <3>1, <3>2, <3>3, <3>4 DEF ReqStep, ReqFault
  <2>3. \A i \in Ids : Visits(i)' = Visits(i)
    BY <2>2, VisitsKept
  <2> QED
    BY <1>0, <1>1, <2>1, <2>3, QuietCounts
<1>3. CASE Midnight \/ UNCHANGED vars
  <2>1. UNCHANGED jobVars /\ req' = req
    BY <1>3 DEF Midnight, vars, flushVars, jobVars
  <2>2. \A i \in Ids : Visits(i)' = Visits(i)
    BY <2>1 DEF Visits
  <2> QED
    BY <1>0, <1>1, <2>1, <2>2, QuietCounts
<1> QED
  BY <1>0, <1>2, <1>3, CountViewCounts, FlushCounts DEF Next

LEMMA ViewsInit == Init => CountInv
<1> SUFFICES ASSUME Init PROVE CountInv
  OBVIOUS
<1>1. Growing /\ Drained /\ Exclusive /\ Covered
  BY SMT DEF Init, FlushInit, Growing, Drained, Exclusive, Covered, EmptyHash
<1>2. ASSUME NEW i \in Ids PROVE stored[i] + Owed(i) = 0 /\ Cardinality(Visits(i)) = 0
  <2>1. stored[i] = 0 /\ Owed(i) = 0
    BY SMT DEF Init, FlushInit, Owed, InBucket, EmptyHash
  <2>2. Visits(i) = {}
    BY SMT DEF Init, Visits
  <2> QED
    BY <2>1, <2>2, FS_EmptySet
<1>3. Enough /\ Exact
  BY <1>2 DEF Enough, Exact
<1> QED
  BY <1>1, <1>3, InitTyped DEF CountInv

(* No counted visit is lost on its way to the database when servers crash  *)
(* and MySQL or Redis fail, in the job or in the requests, and none is     *)
(* counted twice when only UPDATEs fail and rounds are skipped; for any    *)
(* number of viewers, visits and instances of the job.                     *)
THEOREM NoVisitLost == Spec => []ViewsCounted
<1>1. CountInv => ViewsCounted
  BY DEF CountInv, Enough, Exact, ViewsCounted, NoViewLost, ViewsExact
<1> QED
  BY <1>1, ViewsInit, CountStep, PTL DEF Spec

-----------------------------------------------------------------------------
(* Once per day.  What CheckHistory learns from the mark must stay true    *)
(* until the request sets its own.                                         *)

Unmarked == {"verify", "mark"}
Marked   == {"expire", "incr", "counted"}

\* A request that has set its mark carries a day that is not in the future,
\* and today's while it has not given the mark its expiry.
DaysKnown ==
  \A r \in Reqs :
    /\ req[r].pc \in Marked => req[r].day <= day
    /\ req[r].pc = "expire" => req[r].day = day

\* Who was counted today is marked.
MarkedToday ==
  \A r \in Reqs :
    req[r].pc \in Marked /\ req[r].day = day => req[r].item \in marked[req[r].viewer]

\* Of the visits of one viewer and article one is on its way at a time, and
\* it found that none before it was counted today.
OneAtATime ==
  \A r, q \in Reqs :
    r # q /\ SamePair(r, q) =>
      /\ ~(req[r].pc \in Busy /\ req[q].pc \in Busy)
      /\ req[r].pc \in Unmarked /\ req[q].pc \in Marked => req[q].day # day
      /\ req[r].pc \in Marked /\ req[q].pc \in Marked => req[r].day # req[q].day

DayInv == TypeOK /\ ("redis" \notin faults.kinds => DaysKnown /\ MarkedToday /\ OneAtATime)

LEMMA PairsStay ==
  ASSUME NEW r \in Reqs, NEW from, NEW to, NEW d, Moves(r, from, to, d), NEW p \in Reqs, NEW q \in Reqs
  PROVE  SamePair(p, q)' <=> SamePair(p, q)
  BY DEF Moves, SamePair

\* A request that neither starts nor sets its mark: pc goes on among those
\* that are marked, or from "verify" to "mark", or out of the way.
Onward(from, to) ==
  \/ from \in Unmarked /\ to = "mark"
  \/ from = "expire" /\ to = "incr"
  \/ from = "incr" /\ to = "counted"
  \/ to \in {"seen", "dead"}

LEMMA OnwardKeeps ==
  ASSUME TypeOK, DaysKnown, MarkedToday, NEW r \in Reqs, NEW from, NEW to,
         Moves(r, from, to, req[r].day), Onward(from, to), day' = day, marked' = marked
  PROVE  DaysKnown' /\ MarkedToday' /\ (OneAtATime => OneAtATime')
<1> USE DEF Unmarked, Marked, Busy, Onward
<1>1. DaysKnown'
  BY DEF DaysKnown, Moves
<1>2. MarkedToday'
  BY DEF MarkedToday, Moves
<1>3. ASSUME OneAtATime, NEW p \in Reqs, NEW q \in Reqs, p # q, SamePair(p, q)'
      PROVE  /\ ~(req'[p].pc \in Busy /\ req'[q].pc \in Busy)
             /\ req'[p].pc \in Unmarked /\ req'[q].pc \in Marked => req'[q].day # day
             /\ req'[p].pc \in Marked /\ req'[q].pc \in Marked => req'[p].day # req'[q].day
  <2>1. SamePair(p, q)
    BY <1>3, PairsStay
  <2>2. /\ ~(req[p].pc \in Busy /\ req[q].pc \in Busy)
        /\ req[p].pc \in Unmarked /\ req[q].pc \in Marked => req[q].day # day
        /\ req[p].pc \in Marked /\ req[q].pc \in Marked => req[p].day # req[q].day
    BY <1>3, <2>1 DEF OneAtATime
  <2>3. CASE p # r /\ q # r
    BY <2>2, <2>3 DEF Moves
  <2>4. CASE p = r /\ q # r
    BY <2>2, <2>4 DEF Moves
  <2>5. CASE p # r /\ q = r
    BY <2>2, <2>5 DEF Moves
  <2> QED
    BY <1>3, <2>3, <2>4, <2>5
<1>4. OneAtATime => OneAtATime'
  BY <1>3 DEF OneAtATime
<1> QED
  BY <1>1, <1>2, <1>4

\* A visit starts where no other of its pair is on its way and no mark is.
LEMMA CheckKeeps ==
  ASSUME TypeOK, DaysKnown, MarkedToday, NEW r \in Reqs, ~Overlap, CheckHistory(r)
  PROVE  DaysKnown' /\ MarkedToday' /\ (OneAtATime => OneAtATime')
<1>0. ReqTyped /\ day' = day /\ marked' = marked
  BY ReqIsTyped DEF CheckHistory, viewVars
<1>1. CASE Step(r, "idle", "seen")
  BY <1>0, <1>1, Stepping, OnwardKeeps DEF Onward, PCs, Ended
<1>2. CASE req[r].item \notin marked[req[r].viewer] /\ Step(r, "idle", AfterCheck(r))
  <2>0. PICK to \in Unmarked : Moves(r, "idle", to, req[r].day)
    BY <1>0, <1>2, Stepping DEF AfterCheck, Unmarked, PCs, Busy
  <2>1. \A q \in Reqs : SamePair(r, q) => req[q].pc \notin Busy
    BY DEF CheckHistory
  <2>2. \A q \in Reqs : SamePair(r, q) /\ req[q].pc \in Marked => req[q].day # day
    BY <1>2 DEF MarkedToday, SamePair
  <2> USE DEF Unmarked, Marked, Busy
  <2>3. DaysKnown'
    BY <1>0, <2>0 DEF DaysKnown, Moves
  <2>4. MarkedToday'
    BY <1>0, <2>0 DEF MarkedToday, Moves
  <2>5. ASSUME OneAtATime, NEW p \in Reqs, NEW q \in Reqs, p # q, SamePair(p, q)'
        PROVE  /\ ~(req'[p].pc \in Busy /\ req'[q].pc \in Busy)
               /\ req'[p].pc \in Unmarked /\ req'[q].pc \in Marked => req'[q].day # day
               /\ req'[p].pc \in Marked /\ req'[q].pc \in Marked => req'[p].day # req'[q].day
    <3>1. SamePair(p, q) /\ SamePair(q, p)
      BY <2>0, <2>5, PairsStay DEF SamePair
    <3>2. /\ ~(req[p].pc \in Busy /\ req[q].pc \in Busy)
          /\ req[p].pc \in Unmarked /\ req[q].pc \in Marked => req[q].day # day
          /\ req[p].pc \in Marked /\ req[q].pc \in Marked => req[p].day # req[q].day
      BY <2>5, <3>1 DEF OneAtATime
    <3>3. CASE p # r /\ q # r
      BY <2>0, <3>2, <3>3 DEF Moves
    <3>4. CASE p = r /\ q # r
      <4>1. req'[q] = req[q] /\ req'[p].pc \in Unmarked /\ req[q].pc \notin Busy
        BY <2>0, <2>1, <3>1, <3>4 DEF Moves
      <4> QED
        BY <2>2, <3>1, <3>4, <4>1
    <3>5. CASE p # r /\ q = r
      <4>1. req'[p] = req[p] /\ req'[q].pc \in Unmarked /\ req[p].pc \notin Busy
        BY <2>0, <2>1, <3>1, <3>5 DEF Moves
      <4> QED
        BY <4>1
    <3> QED
      BY <2>5, <3>3, <3>4, <3>5
  <2>6. OneAtATime => OneAtATime'
    BY <1>0, <2>5 DEF OneAtATime
  <2> QED
    BY <2>3, <2>4, <2>6
<1> QED
  BY <1>1, <1>2 DEF CheckHistory

LEMMA MarkKeeps ==
  ASSUME TypeOK, DaysKnown, MarkedToday, NEW r \in Reqs, MarkHistory(r)
  PROVE  DaysKnown' /\ MarkedToday' /\ (OneAtATime => OneAtATime')
<1>0. ReqTyped /\ day' = day /\ day \in 0..MaxDay /\ req[r].viewer \in Viewers
  BY ReqIsTyped, Naming DEF MarkHistory, TypeOK
<1>1. Moves(r, "mark", "expire", day)
  BY <1>0, Marking DEF MarkHistory, PCs, Busy
<1> USE DEF Unmarked, Marked, Busy
<1>2. DaysKnown'
  <2>1. day <= day
    BY <1>0
  <2> QED
    BY <1>0, <1>1, <2>1 DEF DaysKnown, Moves
<1>3. MarkedToday'
  <2>1. /\ \A v \in Viewers : marked[v] \subseteq marked'[v]
        /\ req[r].item \in marked'[req[r].viewer]
    BY <1>0, SMT DEF TypeOK, MarkHistory
  <2>2. \A q \in Reqs : req[q].viewer \in Viewers
    BY Naming
  <2> QED
    BY <1>0, <1>1, <2>1, <2>2 DEF MarkedToday, Moves
<1>4. ASSUME OneAtATime, NEW p \in Reqs, NEW q \in Reqs, p # q, SamePair(p, q)'
      PROVE  /\ ~(req'[p].pc \in Busy /\ req'[q].pc \in Busy)
             /\ req'[p].pc \in Unmarked /\ req'[q].pc \in Marked => req'[q].day # day
             /\ req'[p].pc \in Marked /\ req'[q].pc \in Marked => req'[p].day # req'[q].day
  <2>1. SamePair(p, q) /\ SamePair(q, p)
    BY <1>1, <1>4, PairsStay DEF SamePair
  <2>2. /\ ~(req[p].pc \in Busy /\ req[q].pc \in Busy)
        /\ req[p].pc \in Unmarked /\ req[q].pc \in Marked => req[q].day # day
        /\ req[q].pc \in Unmarked /\ req[p].pc \in Marked => req[p].day # day
        /\ req[p].pc \in Marked /\ req[q].pc \in Marked => req[p].day # req[q].day
    BY <1>4, <2>1 DEF OneAtATime
  <2>3. CASE p # r /\ q # r
    BY <1>1, <2>2, <2>3 DEF Moves
  <2>4. CASE p = r /\ q # r
    BY <1>1, <2>2, <2>4 DEF Moves
  <2>5. CASE p # r /\ q = r
    BY <1>1, <2>2, <2>5 DEF Moves
  <2> QED
    BY <1>4, <2>3, <2>4, <2>5
<1>5. OneAtATime => OneAtATime'
  BY <1>0, <1>4 DEF OneAtATime
<1> QED
  BY <1>2, <1>3, <1>5

LEMMA MidnightKeeps ==
  ASSUME TypeOK, DaysKnown, ~Straddle, Midnight
  PROVE  DaysKnown' /\ MarkedToday' /\ (OneAtATime => OneAtATime')
<1>0. day' = day + 1 /\ day \in Nat /\ req' = req
  BY DEF Midnight, TypeOK
<1>1. \A r \in Reqs : req[r].day \in Nat /\ (req[r].pc \in Marked => req[r].day <= day)
  BY Naming DEF DaysKnown
<1>2. \A r \in Reqs : req[r].pc # "expire"
  BY DEF Midnight
<1>3. DaysKnown'
  BY <1>0, <1>1, <1>2 DEF DaysKnown
<1>4. \A r \in Reqs : req[r].pc \in Marked => req[r].day # day'
  BY <1>0, <1>1
<1>5. MarkedToday'
  BY <1>0, <1>4 DEF MarkedToday
<1>6. OneAtATime => OneAtATime'
  BY <1>0, <1>4 DEF OneAtATime, SamePair
<1> QED
  BY <1>3, <1>5, <1>6

LEMMA DayStep == ~Overlap /\ ~Straddle /\ DayInv /\ [Next]_vars => DayInv'
<1> SUFFICES ASSUME ~Overlap, ~Straddle, DayInv, [Next]_vars PROVE DayInv'
  OBVIOUS
<1>0. TypeOK /\ TypeOK' /\ ReqTyped /\ faults.kinds \subseteq faults'.kinds
  BY NextTyped, ReqIsTyped, FaultsRemembered DEF DayInv
<1> DEFINE Goal == DaysKnown' /\ MarkedToday' /\ OneAtATime'
<1> SUFFICES ASSUME "redis" \notin faults'.kinds PROVE Goal
  BY <1>0 DEF DayInv
<1>1. DaysKnown /\ MarkedToday /\ OneAtATime /\ ~Fault("redis")
  BY <1>0, FaultSeen DEF DayInv
<1>2. ASSUME NEW r \in Reqs, CheckHistory(r) \/ MarkHistory(r) PROVE Goal
  BY <1>0, <1>1, <1>2, CheckKeeps, MarkKeeps
<1>3. ASSUME NEW r \in Reqs, ReqFault(r) PROVE RequestCrashes(r)
  BY <1>1, <1>3 DEF ReqFault, CheckHistoryFails, MarkHistoryFails, ExpireHistoryFails, CountViewFails
<1>4. ASSUME NEW r \in Reqs, SaveHistory(r) \/ CountView(r) \/ RequestCrashes(r) PROVE Goal
  <2>1. day' = day /\ marked' = marked
    BY <1>4 DEF SaveHistory, CountView, RequestCrashes, viewVars
  <2>2. PICK from, to \in PCs : Step(r, from, to) /\ Onward(from, to)
    BY <1>4 DEF SaveHistory, CountView, RequestCrashes, Step, Onward, Unmarked, PCs, Busy, Ended
  <2> QED
    BY <1>0, <1>1, <2>1, <2>2, Stepping, OnwardKeeps
<1>5. ASSUME NEW r \in Reqs, ExpireHistory(r) PROVE Goal
  <2>1. req[r].day = day
    BY <1>1, <1>5 DEF DaysKnown, ExpireHistory, Step
  <2>2. marked' = marked /\ day' = day
    BY <1>0, <1>5, <2>1 DEF ExpireHistory, TypeOK
  <2>3. Moves(r, "expire", "incr", req[r].day)
    BY <1>0, <1>5, Stepping DEF ExpireHistory, PCs, Busy
  <2> QED
    BY <1>0, <1>1, <2>2, <2>3, OnwardKeeps DEF Onward
<1>6. CASE Midnight
  BY <1>0, <1>1, <1>6, MidnightKeeps
<1>7. CASE (FlushNext /\ UNCHANGED <<viewVars, req>>) \/ UNCHANGED vars
  <2>1. req' = req /\ day' = day /\ marked' = marked
    BY <1>7 DEF vars, viewVars
  <2> QED
    BY <1>1, <2>1 DEF DaysKnown, MarkedToday, OneAtATime, SamePair
<1> HIDE DEF Goal
<1> QED
  BY <1>2, <1>3, <1>4, <1>5, <1>6, <1>7 DEF Next, ReqStep

LEMMA DayInit == Init => DayInv
<1> SUFFICES ASSUME Init PROVE DayInv
  OBVIOUS
<1>1. \A r \in Reqs : req[r].pc = "idle"
  BY SMT DEF Init
<1>2. DaysKnown /\ MarkedToday /\ OneAtATime
  BY <1>1 DEF DaysKnown, MarkedToday, OneAtATime, Unmarked, Marked, Busy
<1> QED
  BY <1>2, InitTyped DEF DayInv

(* A viewer is counted once per article and calendar day, for any number   *)
(* of visits and days and through crashes of servers, when the visits of   *)
(* one viewer to one article do not overlap, midnight does not pass        *)
(* between a mark and its expiry, and Redis answers.  Both hypotheses are  *)
(* the model's own switches: with either on the property fails.            *)
THEOREM CountedOncePerDay == ~Overlap /\ ~Straddle => (Spec => []OncePerDay)
<1> SUFFICES ASSUME ~Overlap, ~Straddle PROVE Spec => []OncePerDay
  OBVIOUS
<1>1. DayInv => OncePerDay
  BY DEF DayInv, OneAtATime, OncePerDay, Marked
<1>2. DayInv /\ [Next]_vars => DayInv'
  BY DayStep
<1> QED
  BY <1>1, <1>2, DayInit, PTL DEF Spec

-----------------------------------------------------------------------------
(* Marks expire.                                                           *)

LEMMA MarksStep == TypeOK /\ MarksExpire /\ [Next]_vars => MarksExpire'
<1> SUFFICES ASSUME TypeOK, MarksExpire, [Next]_vars,
                    NEW v \in Viewers, v \notin unset', marked'[v] # {}
             PROVE  \/ ttl'[v] = day' + 1
                    \/ \E r \in Reqs : req'[r].viewer = v /\ req'[r].pc = "expire"
  BY DEF MarksExpire
<1> DEFINE Goal == \/ ttl'[v] = day' + 1
                   \/ \E r \in Reqs : req'[r].viewer = v /\ req'[r].pc = "expire"
<1>0. ReqTyped /\ day \in 0..MaxDay /\ \A r \in Reqs : req[r].viewer \in Viewers
  BY ReqIsTyped, Naming DEF TypeOK
<1>1. ASSUME v \notin unset, marked[v] # {}
      PROVE  ttl[v] = day + 1 \/ \E r \in Reqs : req[r].viewer = v /\ req[r].pc = "expire"
  BY <1>1 DEF MarksExpire
<1>2. ASSUME NEW r \in Reqs, MarkHistory(r) PROVE Goal
  <2>1. Moves(r, "mark", "expire", day)
    BY <1>0, <1>2, Marking DEF MarkHistory, PCs, Busy
  <2>2. CASE req[r].viewer = v
    BY <2>1, <2>2 DEF Moves
  <2>3. CASE req[r].viewer # v
    <3>1. marked'[v] = marked[v] /\ ttl' = ttl /\ day' = day /\ unset' = unset
      BY <1>2, <2>3 DEF MarkHistory, TypeOK
    <3>2. \A q \in Reqs : req[q].viewer = v => req'[q] = req[q]
      BY <2>1, <2>3 DEF Moves
    <3> QED
      BY <1>1, <3>1, <3>2
  <2> QED
    BY <2>2, <2>3
<1>3. ASSUME NEW r \in Reqs, ExpireHistory(r) PROVE Goal
  <2>1. Moves(r, "expire", "incr", req[r].day)
    BY <1>0, <1>3, Stepping DEF ExpireHistory, PCs, Busy
  <2>2. CASE req[r].viewer = v
    <3>1. CASE marked' = [marked EXCEPT ![req[r].viewer] = {}]
      BY <2>2, <3>1 DEF TypeOK
    <3>2. CASE /\ ttl' = [ttl EXCEPT ![req[r].viewer] =
                            IF marked[req[r].viewer] = {} THEN Never ELSE day + 1]
               /\ UNCHANGED marked
      BY <1>3, <2>2, <3>2 DEF TypeOK, ExpireHistory
    <3> QED
      BY <1>3, <3>1, <3>2 DEF ExpireHistory
  <2>3. CASE req[r].viewer # v
    <3>1. marked'[v] = marked[v] /\ ttl'[v] = ttl[v] /\ day' = day /\ v \notin unset
      BY <1>3, <2>3 DEF ExpireHistory, TypeOK
    <3>2. \A q \in Reqs : req[q].viewer = v => req'[q] = req[q]
      BY <2>1, <2>3 DEF Moves
    <3> QED
      BY <1>1, <3>1, <3>2
  <2> QED
    BY <2>2, <2>3
<1>4. ASSUME NEW r \in Reqs, NEW from, NEW to \in PCs, NEW d, Moves(r, from, to, d),
             marked' = marked, ttl' = ttl, day' = day,
             \/ from # "expire" /\ unset' = unset
             \/ LeftUnset(req[r].viewer)
      PROVE  Goal
  <2>1. v \notin unset
    BY <1>4 DEF LeftUnset
  <2>2. \A q \in Reqs \ {r} : req'[q] = req[q]
    BY <1>4 DEF Moves
  <2>3. CASE req[r].pc = "expire" /\ req[r].viewer = v
    BY <1>4, <2>3 DEF LeftUnset, Moves
  <2>4. CASE ~(req[r].pc = "expire" /\ req[r].viewer = v)
    BY <1>1, <1>4, <2>1, <2>2, <2>4
  <2> QED
    BY <2>3, <2>4
<1>5. ASSUME NEW r \in Reqs,
             CheckHistory(r) \/ SaveHistory(r) \/ CountView(r) \/ ReqFault(r)
      PROVE  Goal
  <2>1. marked' = marked /\ ttl' = ttl /\ day' = day
    BY <1>5 DEF CheckHistory, SaveHistory, CountView, ReqFault, CheckHistoryFails, MarkHistoryFails,
                ExpireHistoryFails, CountViewFails, RequestCrashes, viewVars
  <2>2. CASE MarkHistoryFails(r)
    <3>1. Moves(r, "mark", "incr", day)
      BY <1>0, <2>2, Marking DEF MarkHistoryFails, PCs, Busy
    <3> QED
      <4>1. unset' = unset /\ "incr" \in PCs
        BY <2>2 DEF MarkHistoryFails, viewVars, PCs, Busy
      <4> QED
        BY <1>4, <2>1, <3>1, <4>1
  <2>3. CASE CheckHistory(r) \/ CheckHistoryFails(r) \/ SaveHistory(r) \/ CountView(r) \/ CountViewFails(r)
    <3>1. unset' = unset
      BY <2>3 DEF CheckHistory, CheckHistoryFails, SaveHistory, CountView, CountViewFails, viewVars
    <3>2. PICK from, to \in PCs : Step(r, from, to) /\ from # "expire"
      BY <2>3 DEF CheckHistory, CheckHistoryFails, AfterCheck, SaveHistory, CountView, CountViewFails,
                  PCs, Busy, Ended
    <3> QED
      BY <1>0, <1>4, <2>1, <3>1, <3>2, Stepping
  <2>4. CASE ExpireHistoryFails(r)
    <3>1. Moves(r, "expire", "incr", req[r].day)
      BY <1>0, <2>4, Stepping DEF ExpireHistoryFails, PCs, Busy
    <3> QED
      BY <1>4, <2>1, <2>4, <3>1 DEF ExpireHistoryFails, PCs, Busy
  <2>5. CASE RequestCrashes(r)
    <3>1. Step(r, req[r].pc, "dead") /\ "dead" \in PCs
      BY <2>5 DEF RequestCrashes, Step, PCs, Ended
    <3>2. Moves(r, req[r].pc, "dead", req[r].day)
      BY <1>0, <3>1, Stepping
    <3> QED
      BY <1>4, <2>1, <2>5, <3>1, <3>2 DEF RequestCrashes
  <2> QED
    BY <1>5, <2>2, <2>3, <2>4, <2>5 DEF ReqFault
<1>6. CASE Midnight
  <2>1. /\ marked'[v] = IF ttl[v] <= day + 1 THEN {} ELSE marked[v]
        /\ req' = req /\ unset' = unset
    BY <1>6 DEF Midnight
  <2>2. day \in Nat /\ ttl[v] # day + 1
    BY <2>1 DEF TypeOK
  <2> QED
    BY <1>1, <2>1, <2>2
<1>7. CASE (FlushNext /\ UNCHANGED <<viewVars, req>>) \/ UNCHANGED vars
  <2>1. req' = req /\ day' = day /\ marked' = marked /\ ttl' = ttl /\ unset' = unset
    BY <1>7 DEF vars, viewVars
  <2> QED
    BY <1>1, <2>1
<1>8. (Midnight \/ (FlushNext /\ UNCHANGED <<viewVars, req>>) \/ UNCHANGED vars) => Goal
  BY <1>6, <1>7
<1> HIDE DEF Goal
<1>9. Goal
  BY <1>2, <1>3, <1>4, <1>5, <1>8 DEF Next, ReqStep
<1> QED
  BY <1>9 DEF Goal

(* Every mark is gone after the next midnight, or the request that set it  *)
(* is still about to give it its expiry, whatever overlaps and whichever   *)
(* faults happen: nobody is shut out of the count for good but those whose *)
(* hash got no expiry as that very call failed or its request died before  *)
(* it, and only until a later visit of theirs gives the hash one.          *)
THEOREM NoMarkIsForever == Spec => []MarksExpire
<1>1. Init => MarksExpire
  BY DEF Init, MarksExpire
<1> QED
  BY <1>1, MarksStep, TypeCorrect, PTL DEF Spec

-----------------------------------------------------------------------------
\* Pairs of which those of r are the product with X.
LEMMA Slice ==
  ASSUME NEW C, NEW r, NEW X, IsFiniteSet(C), IsFiniteSet(X), \A x \in C : x[1] # r
  PROVE  /\ IsFiniteSet(C \cup ({r} \X X))
         /\ Cardinality(C \cup ({r} \X X)) = Cardinality(C) + Cardinality(X)
         /\ Cardinality(C) \in Nat /\ Cardinality(X) \in Nat
<1>1. PICK P : P = {r} \X X
  OBVIOUS
<1>2. IsFiniteSet({r}) /\ Cardinality({r}) = 1
  BY FS_Singleton
<1>3. IsFiniteSet(P) /\ Cardinality(P) = 1 * Cardinality(X)
  BY <1>1, <1>2, FS_Product
<1>4. Cardinality(C) \in Nat /\ Cardinality(X) \in Nat
  BY FS_CardinalityType
<1>5. C \cap P = {}
  BY <1>1
<1>6. Cardinality(C \cap P) = 0
  BY <1>5, FS_EmptySet
<1>7. IsFiniteSet(C \cup P) /\ Cardinality(C \cup P) = Cardinality(C) + Cardinality(P) - 0
  BY <1>3, <1>6, FS_Union
<1> QED
  BY <1>1, <1>3, <1>4, <1>7

\* What the requests of R hold, each apart.
Gathered(R, S) == UNION {{q} \X S[q] : q \in R}

\* One of them holds something else.
LEMMA Regathered ==
  ASSUME NEW R, NEW r \in R, NEW S, NEW T, \A q \in R \ {r} : T[q] = S[q],
         IsFiniteSet(Gathered(R, S)), IsFiniteSet(S[r]), IsFiniteSet(T[r])
  PROVE  /\ IsFiniteSet(Gathered(R, T))
         /\ Cardinality(Gathered(R, S)) \in Nat /\ Cardinality(Gathered(R, T)) \in Nat
         /\ Cardinality(S[r]) \in Nat /\ Cardinality(T[r]) \in Nat
         /\ Cardinality(Gathered(R, T)) + Cardinality(S[r]) = Cardinality(Gathered(R, S)) + Cardinality(T[r])
<1>1. PICK C, X, Y, A, B : /\ C = Gathered(R, S) \ ({r} \X S[r]) /\ X = S[r] /\ Y = T[r]
                           /\ A = Gathered(R, S) /\ B = Gathered(R, T)
  OBVIOUS
<1>2. \A q, x : <<q, x>> \in A <=> q \in R /\ x \in S[q]
  BY <1>1 DEF Gathered
<1>3. \A q, x : <<q, x>> \in B <=> q \in R /\ x \in T[q]
  BY <1>1 DEF Gathered
<1>4. \A p \in A \cup B : p = <<p[1], p[2]>>
  BY <1>1 DEF Gathered
<1>5. \A q, x : <<q, x>> \in C <=> q \in R \ {r} /\ x \in S[q]
  BY <1>1, <1>2
<1>6. \A p \in C : p = <<p[1], p[2]>> /\ p[1] # r
  BY <1>1, <1>4, <1>5
<1>7. A = C \cup ({r} \X X)
  <2>1. \A p \in A : p \in C \cup ({r} \X X)
    BY <1>1
  <2>2. \A p \in {r} \X X : p \in A
    BY <1>1, <1>2
  <2> QED
    BY <1>1, <2>1, <2>2
<1>8. B = C \cup ({r} \X Y)
  <2>1. \A q, x : <<q, x>> \in B <=> (<<q, x>> \in C \/ (q = r /\ x \in Y))
    BY <1>1, <1>3, <1>5
  <2>2. \A p \in B : p \in C \cup ({r} \X Y)
    BY <1>4, <2>1
  <2>3. \A p \in C : p \in B
    BY <1>6, <2>1
  <2>4. \A p \in {r} \X Y : p \in B
    BY <2>1
  <2> QED
    BY <2>2, <2>3, <2>4
<1>9. IsFiniteSet(C) /\ IsFiniteSet(A) /\ IsFiniteSet(Y)
  BY <1>1, FS_Subset
<1>10. IsFiniteSet(X)
  BY <1>1
<1>11. /\ IsFiniteSet(C \cup ({r} \X X))
       /\ Cardinality(C \cup ({r} \X X)) = Cardinality(C) + Cardinality(X)
       /\ Cardinality(C) \in Nat /\ Cardinality(X) \in Nat
  <2>1. \A p \in C : p[1] # r
    BY <1>6
  <2> QED
    BY <1>9, <1>10, <2>1, Slice
<1>12. /\ IsFiniteSet(C \cup ({r} \X Y))
       /\ Cardinality(C \cup ({r} \X Y)) = Cardinality(C) + Cardinality(Y)
       /\ Cardinality(C) \in Nat /\ Cardinality(Y) \in Nat
  <2>1. \A p \in C : p[1] # r
    BY <1>6
  <2> QED
    BY <1>9, <2>1, Slice
<1>13. PICK c, x, y : c = Cardinality(C) /\ x = Cardinality(X) /\ y = Cardinality(Y)
  OBVIOUS
<1>14. c \in Nat /\ x \in Nat /\ y \in Nat /\ Cardinality(A) = c + x /\ Cardinality(B) = c + y
  BY <1>7, <1>8, <1>11, <1>12, <1>13
<1>15. (c + y) + x = (c + x) + y
  BY <1>14
<1>16. Cardinality(B) + Cardinality(X) = Cardinality(A) + Cardinality(Y) /\ IsFiniteSet(B)
       /\ Cardinality(A) \in Nat /\ Cardinality(B) \in Nat
  BY <1>8, <1>12, <1>13, <1>14, <1>15
<1> QED
  BY <1>1, <1>11, <1>12, <1>16

\* What is counted and what is yet to be counted balance what is there and what
\* is yet to be taken off, when one request does its part.
Balance(R, n, gains, m, losses) ==
  n + Cardinality(Gathered(R, gains)) = m + Cardinality(Gathered(R, losses))

Exchange(u, v, i, j, g, h, l, m) ==
  v + Cardinality(h) + i + Cardinality(l) = u + Cardinality(g) + j + Cardinality(m)

LEMMA Rebalanced ==
  ASSUME NEW R, NEW r \in R, NEW G, NEW H, NEW L, NEW M,
         NEW u \in Int, NEW v \in Int, NEW i \in Int, NEW j \in Int,
         \A q \in R \ {r} : H[q] = G[q] /\ M[q] = L[q],
         IsFiniteSet(Gathered(R, G)), IsFiniteSet(Gathered(R, L)),
         IsFiniteSet(G[r]), IsFiniteSet(H[r]), IsFiniteSet(L[r]), IsFiniteSet(M[r])
  PROVE  /\ IsFiniteSet(Gathered(R, H)) /\ IsFiniteSet(Gathered(R, M))
         /\ Balance(R, u, G, i, L) /\ Exchange(u, v, i, j, G[r], H[r], L[r], M[r]) => Balance(R, v, H, j, M)
<1>1. /\ IsFiniteSet(Gathered(R, H))
      /\ Cardinality(Gathered(R, G)) \in Nat /\ Cardinality(Gathered(R, H)) \in Nat
      /\ Cardinality(G[r]) \in Nat /\ Cardinality(H[r]) \in Nat
      /\ Cardinality(Gathered(R, H)) + Cardinality(G[r]) = Cardinality(Gathered(R, G)) + Cardinality(H[r])
  BY Regathered
<1>2. /\ IsFiniteSet(Gathered(R, M))
      /\ Cardinality(Gathered(R, L)) \in Nat /\ Cardinality(Gathered(R, M)) \in Nat
      /\ Cardinality(L[r]) \in Nat /\ Cardinality(M[r]) \in Nat
      /\ Cardinality(Gathered(R, M)) + Cardinality(L[r]) = Cardinality(Gathered(R, L)) + Cardinality(M[r])
  BY Regathered
<1>3. ASSUME u + Cardinality(Gathered(R, G)) = i + Cardinality(Gathered(R, L)),
             v + Cardinality(H[r]) + i + Cardinality(L[r]) = u + Cardinality(G[r]) + j + Cardinality(M[r])
      PROVE  v + Cardinality(Gathered(R, H)) = j + Cardinality(Gathered(R, M))
  <2>1. PICK g, h, l, w, x, y, o, p :
          /\ g = Cardinality(Gathered(R, G)) /\ h = Cardinality(Gathered(R, H))
          /\ l = Cardinality(Gathered(R, L)) /\ w = Cardinality(Gathered(R, M))
          /\ x = Cardinality(G[r]) /\ y = Cardinality(H[r])
          /\ o = Cardinality(L[r]) /\ p = Cardinality(M[r])
    OBVIOUS
  <2>2. g \in Int /\ h \in Int /\ l \in Int /\ w \in Int /\ x \in Int /\ y \in Int /\ o \in Int /\ p \in Int
    BY <1>1, <1>2, <2>1
  <2>3. u + g = i + l
    BY <1>3, <2>1
  <2>4. h + x = g + y
    BY <1>1, <2>1
  <2>5. w + o = l + p
    BY <1>2, <2>1
  <2>6. v + y + i + o = u + x + j + p
    BY <1>3, <2>1
  <2>7. v + y = u + x + j + p - i - o
    BY <2>2, <2>6
  <2>8. h = g + y - x
    BY <2>2, <2>4
  <2>9. v + h = u + g + j + p - i - o
    BY <2>2, <2>7, <2>8
  <2>10. u + g - i = l
    BY <2>2, <2>3
  <2>11. w = l + p - o
    BY <2>2, <2>5
  <2>12. v + h = j + w
    BY <2>2, <2>9, <2>10, <2>11
  <2> QED
    BY <2>1, <2>12
<1> QED
  BY <1>1, <1>2, <1>3 DEF Balance, Exchange

-----------------------------------------------------------------------------
(* Favourites.  What a request still owes an article: a change that it has  *)
(* made and not counted, or removals that it has counted and not made.      *)

Of(a, found) == {x \in found : x[1] = a}

Gains(state, a) ==
  CASE state.pc = "count" /\ state.article = a /\ state.by = 1 -> {a}
    [] state.pc = "commit" -> Of(a, state.found)
    [] OTHER -> {}

Losses(state, a) ==
  CASE state.pc = "count" /\ state.article = a /\ state.by = -1 -> {a}
    [] state.pc = "lower" -> Of(a, state.found)
    [] OTHER -> {}

\* The favourites an article shows, with those that Redis refused to count.
Accounted == [a \in Ids |-> favors[a] + favMissed[a]]

GainsOf(a)  == [q \in FavReqs |-> Gains(favReq[q], a)]
LossesOf(a) == [q \in FavReqs |-> Losses(favReq[q], a)]

FolderRow == [title : Titles \cup {Default}, isDefault : BOOLEAN, deleted : BOOLEAN]

FavRequest(state, n) ==
  /\ state.pc = "switch" => state.article \in Ids /\ state.folder \in 1..n
  /\ state.pc = "count" => state.article \in Ids /\ state.by \in {1, -1}
  /\ state.pc \in {"patch", "lower", "commit"} => IsFiniteSet(state.found)
  /\ state.pc = "commit" => state.list \subseteq 1..n

FavTables ==
  /\ folder \in Seq(FolderRow) /\ favors \in [Ids -> Int] /\ favMissed \in [Ids -> Int]
  /\ inFolder \subseteq Ids \X (1..Len(folder)) /\ IsFiniteSet(inFolder)

FavRequests ==
  /\ DOMAIN favReq = FavReqs
  /\ \A q \in FavReqs : FavRequest(favReq[q], Len(folder))
  /\ \A a \in Ids : /\ IsFiniteSet(Gathered(FavReqs, GainsOf(a)))
                    /\ IsFiniteSet(Gathered(FavReqs, LossesOf(a)))

FavBalanced ==
  \A a \in Ids : Balance(FavReqs, Accounted[a], GainsOf(a), Cardinality(Of(a, inFolder)), LossesOf(a))

FavInv == FavTables /\ FavRequests /\ (~favBlurred => FavBalanced)

LEMMA FiniteShares ==
  ASSUME NEW state, NEW n, FavRequest(state, n), NEW a
  PROVE  /\ IsFiniteSet(Gains(state, a)) /\ IsFiniteSet(Losses(state, a))
         /\ Cardinality(Gains(state, a)) \in Nat /\ Cardinality(Losses(state, a)) \in Nat
<1>1. ASSUME state.pc \in {"lower", "commit"} PROVE IsFiniteSet(Of(a, state.found))
  <2>1. Of(a, state.found) \in SUBSET state.found /\ IsFiniteSet(state.found)
    BY <1>1 DEF Of, FavRequest
  <2> QED
    BY <2>1, FS_Subset
<1>2. IsFiniteSet({a}) /\ IsFiniteSet({})
  BY FS_Singleton, FS_EmptySet
<1>3. IsFiniteSet(Gains(state, a)) /\ IsFiniteSet(Losses(state, a))
  BY <1>1, <1>2 DEF Gains, Losses
<1> QED
  BY <1>3, FS_CardinalityType

\* A step of one request keeps the accounts when every article stays in balance.
LEMMA FavStep ==
  ASSUME FavInv, NEW r \in FavReqs, NEW state, Favs!Goto(r, state),
         FavTables', Len(folder) <= Len(folder'), FavRequest(state, Len(folder')),
         favBlurred => favBlurred',
         ~favBlurred' => \A a \in Ids :
           Accounted'[a] + Cardinality(Gains(state, a)) + Cardinality(Of(a, inFolder)) + Cardinality(Losses(favReq[r], a))
             = Accounted[a] + Cardinality(Gains(favReq[r], a)) + Cardinality(Of(a, inFolder')) + Cardinality(Losses(state, a))
  PROVE  FavInv'
<1>1. PICK n, m : n = Len(folder) /\ m = Len(folder')
  OBVIOUS
<1>2. n \in Nat /\ m \in Nat /\ n <= m
  BY <1>1 DEF FavInv, FavTables
<1>3. DOMAIN favReq' = FavReqs /\ favReq'[r] = state /\ \A q \in FavReqs \ {r} : favReq'[q] = favReq[q]
  BY DEF Favs!Goto, FavInv, FavRequests
<1>4. FavRequest(favReq[r], n) /\ FavRequest(state, m)
  BY <1>1 DEF FavInv, FavRequests
<1>5. ASSUME NEW q \in FavReqs PROVE FavRequest(favReq'[q], m)
  <2>1. FavRequest(favReq[q], n)
    BY <1>1 DEF FavInv, FavRequests
  <2>2. FavRequest(favReq[q], m)
    BY <1>2, <2>1 DEF FavRequest
  <2> QED
    BY <1>3, <1>4, <2>2
<1>6. ASSUME NEW a \in Ids
      PROVE  /\ IsFiniteSet(Gathered(FavReqs, GainsOf(a)')) /\ IsFiniteSet(Gathered(FavReqs, LossesOf(a)'))
             /\ ~favBlurred' =>
                  Balance(FavReqs, Accounted'[a], GainsOf(a)', Cardinality(Of(a, inFolder')), LossesOf(a)')
  <2>1. PICK G, H, L, M : G = GainsOf(a) /\ H = GainsOf(a)' /\ L = LossesOf(a) /\ M = LossesOf(a)'
    OBVIOUS
  <2>2. \A q \in FavReqs \ {r} : H[q] = G[q] /\ M[q] = L[q]
    BY <1>3, <2>1 DEF GainsOf, Gains, LossesOf, Losses
  <2>3. /\ G[r] = Gains(favReq[r], a) /\ H[r] = Gains(state, a)
        /\ L[r] = Losses(favReq[r], a) /\ M[r] = Losses(state, a)
    BY <1>3, <2>1 DEF GainsOf, Gains, LossesOf, Losses
  <2>4. IsFiniteSet(G[r]) /\ IsFiniteSet(H[r]) /\ IsFiniteSet(L[r]) /\ IsFiniteSet(M[r])
    BY <1>4, <2>3, FiniteShares
  <2>5. IsFiniteSet(Gathered(FavReqs, G)) /\ IsFiniteSet(Gathered(FavReqs, L))
    BY <2>1 DEF FavInv, FavRequests
  <2>6. PICK u, v, i, j : /\ u = Accounted[a] /\ v = Accounted'[a]
                          /\ i = Cardinality(Of(a, inFolder)) /\ j = Cardinality(Of(a, inFolder'))
    OBVIOUS
  <2>7. u \in Int /\ v \in Int /\ i \in Int /\ j \in Int
    <3>1. /\ Of(a, inFolder) \in SUBSET inFolder /\ Of(a, inFolder') \in SUBSET inFolder'
          /\ IsFiniteSet(inFolder) /\ IsFiniteSet(inFolder')
      BY DEF Of, FavInv, FavTables
    <3>2. Cardinality(Of(a, inFolder)) \in Nat /\ Cardinality(Of(a, inFolder')) \in Nat
      BY <3>1, FS_Subset, FS_CardinalityType
    <3> QED
      BY <2>6, <3>2 DEF FavInv, FavTables, Accounted
  <2>8. /\ IsFiniteSet(Gathered(FavReqs, H)) /\ IsFiniteSet(Gathered(FavReqs, M))
        /\ Balance(FavReqs, u, G, i, L) /\ Exchange(u, v, i, j, G[r], H[r], L[r], M[r]) => Balance(FavReqs, v, H, j, M)
    BY <2>2, <2>4, <2>5, <2>7, Rebalanced
  <2>9. ASSUME ~favBlurred'
        PROVE  Balance(FavReqs, u, G, i, L) /\ Exchange(u, v, i, j, G[r], H[r], L[r], M[r])
    <3>1. Balance(FavReqs, u, G, i, L)
      BY <2>1, <2>6, <2>9 DEF FavInv, FavBalanced
    <3>2. v + Cardinality(H[r]) + i + Cardinality(L[r]) = u + Cardinality(G[r]) + j + Cardinality(M[r])
      BY <2>3, <2>6, <2>9
    <3> QED
      BY <3>1, <3>2 DEF Exchange
  <2> QED
    BY <2>1, <2>6, <2>8, <2>9
<1>7. FavRequests'
  <2>1. \A q \in FavReqs : FavRequest(favReq'[q], Len(folder'))
    BY <1>1, <1>5
  <2> QED
    BY <1>3, <1>6, <2>1 DEF FavRequests, FavRequest, Gathered
<1>8. ~favBlurred' => FavBalanced'
  BY <1>6 DEF FavBalanced, Balance, Of, Gathered
<1> QED
  BY <1>7, <1>8 DEF FavInv

\* A step of no request.
LEMMA FavStill ==
  ASSUME FavInv, UNCHANGED <<inFolder, favors, favMissed, favReq, favBlurred>>,
         folder' \in Seq(FolderRow), Len(folder) <= Len(folder')
  PROVE  FavInv'
<1>1. PICK n, m : n = Len(folder) /\ m = Len(folder')
  OBVIOUS
<1>2. n \in Nat /\ m \in Nat /\ n <= m
  BY <1>1 DEF FavInv, FavTables
<1>3. FavTables'
  <2>1. Ids \X (1..n) \subseteq Ids \X (1..m)
    BY <1>2
  <2> QED
    BY <1>1, <2>1 DEF FavInv, FavTables
<1>4. ASSUME NEW a PROVE GainsOf(a)' = GainsOf(a) /\ LossesOf(a)' = LossesOf(a)
  BY DEF GainsOf, LossesOf, Gains, Losses
<1>5. FavRequests'
  <2>1. ASSUME NEW q \in FavReqs PROVE FavRequest(favReq[q], m)
    <3>1. FavRequest(favReq[q], n)
      BY <1>1 DEF FavInv, FavRequests
    <3> QED
      BY <1>2, <3>1 DEF FavRequest
  <2>2. \A q \in FavReqs : FavRequest(favReq'[q], Len(folder'))
    BY <1>1, <2>1
  <2>3. ASSUME NEW a \in Ids
        PROVE  IsFiniteSet(Gathered(FavReqs, GainsOf(a)')) /\ IsFiniteSet(Gathered(FavReqs, LossesOf(a)'))
    <3>1. IsFiniteSet(Gathered(FavReqs, GainsOf(a))) /\ IsFiniteSet(Gathered(FavReqs, LossesOf(a)))
      BY DEF FavInv, FavRequests
    <3> QED
      BY <1>4, <3>1
  <2>4. DOMAIN favReq' = FavReqs
    BY DEF FavInv, FavRequests
  <2> QED
    BY <2>2, <2>3, <2>4 DEF FavRequests, FavRequest, Gathered
<1>6. ASSUME FavBalanced, NEW a \in Ids
      PROVE  Balance(FavReqs, Accounted'[a], GainsOf(a)', Cardinality(Of(a, inFolder')), LossesOf(a)')
  BY <1>4, <1>6 DEF FavBalanced, Accounted
<1>7. FavBalanced => FavBalanced'
  BY <1>6 DEF FavBalanced, Balance, Of, Gathered
<1> QED
  BY <1>3, <1>5, <1>7 DEF FavInv

\* What a request owes at each point.
LEMMA FavShares ==
  ASSUME NEW state, NEW a
  PROVE  /\ state.pc \notin {"count", "lower", "commit"} => Gains(state, a) = {} /\ Losses(state, a) = {}
         /\ state.pc = "lower" => Gains(state, a) = {} /\ Losses(state, a) = Of(a, state.found)
         /\ state.pc = "commit" => Gains(state, a) = Of(a, state.found) /\ Losses(state, a) = {}
         /\ state.pc = "count" =>
              /\ Gains(state, a) = IF state.article = a /\ state.by = 1 THEN {a} ELSE {}
              /\ Losses(state, a) = IF state.article = a /\ state.by = -1 THEN {a} ELSE {}
BY DEF Gains, Losses

LEMMA CountEmpty ==
  ASSUME NEW a PROVE Cardinality({}) = 0 /\ Cardinality({a}) = 1
BY FS_EmptySet, FS_Singleton

\* A request that goes from where nothing is owed to where nothing is owed.
LEMMA FavPasses ==
  ASSUME FavInv, NEW r \in FavReqs, NEW state, Favs!Goto(r, state), UNCHANGED <<folder, inFolder, favors, favMissed>>,
         FavRequest(state, Len(folder)), favBlurred => favBlurred',
         ~favBlurred' => \A a \in Ids :
           /\ Cardinality(Gains(state, a)) = 0 /\ Cardinality(Losses(state, a)) = 0
           /\ Cardinality(Gains(favReq[r], a)) = 0 /\ Cardinality(Losses(favReq[r], a)) = 0
  PROVE  FavInv'
<1>1. FavTables'
  BY DEF FavInv, FavTables
<1>2. Len(folder) <= Len(folder') /\ FavRequest(state, Len(folder'))
  BY DEF FavInv, FavTables
<1>3. ~favBlurred' => \A a \in Ids :
        Accounted'[a] + Cardinality(Gains(state, a)) + Cardinality(Of(a, inFolder)) + Cardinality(Losses(favReq[r], a))
          = Accounted[a] + Cardinality(Gains(favReq[r], a)) + Cardinality(Of(a, inFolder')) + Cardinality(Losses(state, a))
  BY DEF Of, Accounted
<1> QED
  BY <1>1, <1>2, <1>3, FavStep

LEMMA OfFinite ==
  ASSUME FavTables, NEW a
  PROVE  IsFiniteSet(Of(a, inFolder)) /\ Cardinality(Of(a, inFolder)) \in Nat
<1>1. Of(a, inFolder) \in SUBSET inFolder /\ IsFiniteSet(inFolder)
  BY DEF Of, FavTables
<1> QED
  BY <1>1, FS_Subset, FS_CardinalityType

-----------------------------------------------------------------------------
\* A relation that comes is counted afterwards.
LEMMA FavAdded ==
  ASSUME FavInv, NEW r \in FavReqs, NEW a0 \in Ids, NEW i \in 1..Len(folder'),
         favReq[r].pc \in {"idle", "switch"}, Favs!Goto(r, [pc |-> "count", article |-> a0, by |-> 1]),
         folder' \in Seq(FolderRow), Len(folder) <= Len(folder'),
         <<a0, i>> \notin inFolder, inFolder' = inFolder \cup {<<a0, i>>}, UNCHANGED <<favors, favMissed, favBlurred>>
  PROVE  FavInv'
<1> DEFINE state == [pc |-> "count", article |-> a0, by |-> 1]
<1>1. FavTables /\ Len(folder) \in Nat /\ Len(folder') \in Nat
  BY DEF FavInv, FavTables
<1>2. FavTables'
  <2>1. IsFiniteSet(inFolder')
    BY <1>1, FS_AddElement DEF FavTables
  <2>2. inFolder' \subseteq Ids \X (1..Len(folder'))
    <3>1. 1..Len(folder) \subseteq 1..Len(folder')
      BY <1>1
    <3> QED
      BY <1>1, <3>1 DEF FavTables
  <2> QED
    BY <1>1, <2>1, <2>2 DEF FavTables
<1>3. FavRequest(state, Len(folder'))
  BY DEF FavRequest
<1>4. ASSUME NEW a \in Ids
      PROVE  Accounted'[a] + Cardinality(Gains(state, a)) + Cardinality(Of(a, inFolder)) + Cardinality(Losses(favReq[r], a))
               = Accounted[a] + Cardinality(Gains(favReq[r], a)) + Cardinality(Of(a, inFolder')) + Cardinality(Losses(state, a))
  <2>1. Gains(favReq[r], a) = {} /\ Losses(favReq[r], a) = {}
    BY FavShares
  <2>2. Gains(state, a) = (IF a0 = a THEN {a} ELSE {}) /\ Losses(state, a) = {}
    <3>1. state.pc = "count" /\ state.article = a0 /\ state.by = 1 /\ 1 # -1
      OBVIOUS
    <3> HIDE DEF state
    <3> QED
      BY <3>1 DEF Gains, Losses
  <2>3. Cardinality({}) = 0 /\ Cardinality({a}) = 1
    BY CountEmpty
  <2>4. IsFiniteSet(Of(a, inFolder)) /\ Cardinality(Of(a, inFolder)) \in Nat
    BY <1>1, OfFinite
  <2>5. Accounted[a] \in Int /\ Accounted'[a] = Accounted[a]
    BY <1>1 DEF FavTables, Accounted
  <2> HIDE DEF state
  <2>6. CASE a = a0
    <3>1. Of(a, inFolder') = Of(a, inFolder) \cup {<<a0, i>>} /\ <<a0, i>> \notin Of(a, inFolder)
      BY <2>6 DEF Of
    <3>2. Cardinality(Of(a, inFolder')) = Cardinality(Of(a, inFolder)) + 1
      BY <2>4, <3>1, FS_AddElement
    <3>3. PICK u, c : u = Accounted[a] /\ c = Cardinality(Of(a, inFolder))
      OBVIOUS
    <3>4. Accounted'[a] = u /\ u \in Int /\ c \in Int /\ Cardinality(Of(a, inFolder')) = c + 1
      BY <2>4, <2>5, <3>2, <3>3
    <3>5. /\ Cardinality(Gains(favReq[r], a)) = 0 /\ Cardinality(Losses(favReq[r], a)) = 0
          /\ Cardinality(Gains(state, a)) = 1 /\ Cardinality(Losses(state, a)) = 0
      BY <2>1, <2>2, <2>3, <2>6
    <3>6. u + 1 + c + 0 = u + 0 + (c + 1) + 0
      BY <3>4
    <3> QED
      BY <3>3, <3>4, <3>5, <3>6
  <2>7. CASE a # a0
    <3>1. Of(a, inFolder') = Of(a, inFolder)
      BY <2>7 DEF Of
    <3> QED
      BY <2>1, <2>2, <2>3, <2>4, <2>5, <2>7, <3>1
  <2> QED
    BY <2>6, <2>7
<1> HIDE DEF state
<1>5. Favs!Goto(r, state)
  BY DEF state
<1> QED
  BY <1>2, <1>3, <1>4, <1>5, FavStep

LEMMA FavTaken ==
  ASSUME FavInv, NEW r \in FavReqs, NEW a0 \in Ids, NEW i,
         favReq[r].pc = "switch", Favs!Goto(r, [pc |-> "count", article |-> a0, by |-> -1]),
         <<a0, i>> \in inFolder, inFolder' = inFolder \ {<<a0, i>>}, UNCHANGED <<folder, favors, favMissed, favBlurred>>
  PROVE  FavInv'
<1> DEFINE state == [pc |-> "count", article |-> a0, by |-> -1]
<1>1. FavTables /\ Len(folder) \in Nat
  BY DEF FavInv, FavTables
<1>2. FavTables' /\ Len(folder) <= Len(folder')
  <2>1. IsFiniteSet(inFolder')
    BY <1>1, FS_RemoveElement DEF FavTables
  <2> QED
    BY <1>1, <2>1 DEF FavTables
<1>3. FavRequest(state, Len(folder'))
  BY DEF FavRequest
<1>4. ASSUME NEW a \in Ids
      PROVE  Accounted'[a] + Cardinality(Gains(state, a)) + Cardinality(Of(a, inFolder)) + Cardinality(Losses(favReq[r], a))
               = Accounted[a] + Cardinality(Gains(favReq[r], a)) + Cardinality(Of(a, inFolder')) + Cardinality(Losses(state, a))
  <2>1. Gains(favReq[r], a) = {} /\ Losses(favReq[r], a) = {}
    BY FavShares
  <2>2. Losses(state, a) = (IF a0 = a THEN {a} ELSE {}) /\ Gains(state, a) = {}
    <3>1. state.pc = "count" /\ state.article = a0 /\ state.by = -1 /\ 1 # -1
      OBVIOUS
    <3> HIDE DEF state
    <3> QED
      BY <3>1 DEF Gains, Losses
  <2>3. Cardinality({}) = 0 /\ Cardinality({a}) = 1
    BY CountEmpty
  <2>4. IsFiniteSet(Of(a, inFolder)) /\ Cardinality(Of(a, inFolder)) \in Nat
    BY <1>1, OfFinite
  <2>5. Accounted[a] \in Int /\ Accounted'[a] = Accounted[a]
    BY <1>1 DEF FavTables, Accounted
  <2> HIDE DEF state
  <2>6. CASE a = a0
    <3>1. Of(a, inFolder') = Of(a, inFolder) \ {<<a0, i>>} /\ <<a0, i>> \in Of(a, inFolder)
      BY <2>6 DEF Of
    <3>2. Cardinality(Of(a, inFolder')) = Cardinality(Of(a, inFolder)) - 1
      BY <2>4, <3>1, FS_RemoveElement
    <3>3. PICK u, c : u = Accounted[a] /\ c = Cardinality(Of(a, inFolder))
      OBVIOUS
    <3>4. Accounted'[a] = u /\ u \in Int /\ c \in Int /\ Cardinality(Of(a, inFolder')) = c - 1
      BY <2>4, <2>5, <3>2, <3>3
    <3>5. /\ Cardinality(Gains(favReq[r], a)) = 0 /\ Cardinality(Losses(favReq[r], a)) = 0
          /\ Cardinality(Gains(state, a)) = 0 /\ Cardinality(Losses(state, a)) = 1
      BY <2>1, <2>2, <2>3, <2>6
    <3>6. u + 0 + c + 0 = u + 0 + (c - 1) + 1
      BY <3>4
    <3> QED
      BY <3>3, <3>4, <3>5, <3>6
  <2>7. CASE a # a0
    <3>1. Of(a, inFolder') = Of(a, inFolder)
      BY <2>7 DEF Of
    <3> QED
      BY <2>1, <2>2, <2>3, <2>4, <2>5, <2>7, <3>1
  <2> QED
    BY <2>6, <2>7
<1> HIDE DEF state
<1>5. Favs!Goto(r, state)
  BY DEF state
<1> QED
  BY <1>2, <1>3, <1>4, <1>5, FavStep

\* Relations that go, all of them found before.
LEMMA OfRemoved ==
  ASSUME FavTables, NEW found, found \subseteq inFolder, NEW a
  PROVE  /\ Of(a, inFolder \ found) = Of(a, inFolder) \ Of(a, found)
         /\ Cardinality(Of(a, inFolder \ found)) = Cardinality(Of(a, inFolder)) - Cardinality(Of(a, found))
         /\ Cardinality(Of(a, found)) \in Nat /\ Cardinality(Of(a, inFolder)) \in Nat
<1>1. Of(a, inFolder \ found) = Of(a, inFolder) \ Of(a, found) /\ Of(a, inFolder) \cap Of(a, found) = Of(a, found)
  BY DEF Of
<1>2. IsFiniteSet(Of(a, inFolder)) /\ Of(a, found) \in SUBSET Of(a, inFolder)
  BY OfFinite DEF Of
<1>3. IsFiniteSet(Of(a, found))
  BY <1>2, FS_Subset
<1>4. Cardinality(Of(a, inFolder) \ Of(a, found)) = Cardinality(Of(a, inFolder)) - Cardinality(Of(a, inFolder) \cap Of(a, found))
  BY <1>2, FS_Difference
<1>5. Cardinality(Of(a, found)) \in Nat /\ Cardinality(Of(a, inFolder)) \in Nat
  BY <1>2, <1>3, FS_CardinalityType
<1> QED
  BY <1>1, <1>4, <1>5

-----------------------------------------------------------------------------
LEMMA FavCreateDefault ==
  ASSUME FavInv, NEW r \in FavReqs, NEW a \in Ids, Favs!CreateDefault(r, a)
  PROVE  FavInv'
<1>1. FavTables /\ Len(folder) \in Nat
  BY DEF FavInv, FavTables
<1>2. /\ folder' \in Seq(FolderRow) /\ Len(folder') = Len(folder) + 1
  BY <1>1 DEF Favs!CreateDefault, Favs!NewFolder, FolderRow, FavTables
<1>3. PICK i : i = Len(folder')
  OBVIOUS
<1>4. i \in 1..Len(folder') /\ Len(folder) <= Len(folder') /\ i \notin 1..Len(folder)
  BY <1>1, <1>2, <1>3
<1>5. <<a, i>> \notin inFolder
  BY <1>1, <1>4 DEF FavTables
<1> QED
  BY <1>2, <1>3, <1>4, <1>5, FavAdded DEF Favs!CreateDefault

LEMMA FavSwitch ==
  ASSUME FavInv, NEW r \in FavReqs, Favs!SwitchFavorite(r)
  PROVE  FavInv'
<1>1. PICK a, i : a = favReq[r].article /\ i = favReq[r].folder
  OBVIOUS
<1>2. FavRequest(favReq[r], Len(folder)) /\ favReq[r].pc = "switch" /\ UNCHANGED <<folder, favors, favMissed, favBlurred>>
  BY DEF FavInv, FavRequests, Favs!SwitchFavorite
<1>3. a \in Ids /\ i \in 1..Len(folder) /\ folder \in Seq(FolderRow) /\ Len(folder) \in Nat
  BY <1>1, <1>2 DEF FavRequest, FavInv, FavTables
<1>4. \/ <<a, i>> \in inFolder /\ inFolder' = inFolder \ {<<a, i>>} /\ Favs!Goto(r, [pc |-> "count", article |-> a, by |-> -1])
      \/ <<a, i>> \notin inFolder /\ inFolder' = inFolder \cup {<<a, i>>} /\ Favs!Goto(r, [pc |-> "count", article |-> a, by |-> 1])
  BY <1>1 DEF Favs!SwitchFavorite
<1>5. CASE <<a, i>> \in inFolder
  BY <1>2, <1>3, <1>4, <1>5, FavTaken
<1>6. CASE <<a, i>> \notin inFolder
  <2>1. i \in 1..Len(folder') /\ Len(folder) <= Len(folder') /\ folder' \in Seq(FolderRow)
    BY <1>2, <1>3
  <2> QED
    BY <1>2, <1>3, <1>4, <1>6, <2>1, FavAdded
<1> QED
  BY <1>5, <1>6

LEMMA FavSetCache ==
  ASSUME FavInv, NEW r \in FavReqs, Favs!SetCacheFavorite(r)
  PROVE  FavInv'
<1> DEFINE state == [pc |-> "done"]
<1>1. PICK a0, d : a0 = favReq[r].article /\ d = favReq[r].by
  OBVIOUS
<1>2. /\ FavRequest(favReq[r], Len(folder)) /\ favReq[r].pc = "count" /\ UNCHANGED <<folder, inFolder, favBlurred>>
      /\ FavTables
  BY DEF FavInv, FavRequests, Favs!SetCacheFavorite
<1>3. a0 \in Ids /\ d \in {1, -1} /\ favors \in [Ids -> Int] /\ favMissed \in [Ids -> Int] /\ Len(folder) \in Nat
  BY <1>1, <1>2 DEF FavRequest, FavTables
<1>4. \/ favors' = [favors EXCEPT ![a0] = @ + d] /\ favMissed' = favMissed
      \/ favMissed' = [favMissed EXCEPT ![a0] = @ + d] /\ favors' = favors
  BY <1>1 DEF Favs!SetCacheFavorite
<1>5. FavTables' /\ Len(folder) <= Len(folder')
  <2>1. favors' \in [Ids -> Int] /\ favMissed' \in [Ids -> Int]
    BY <1>3, <1>4
  <2> QED
    BY <1>2, <1>3, <2>1 DEF FavTables
<1>6. FavRequest(state, Len(folder')) /\ state.pc = "done"
  BY DEF FavRequest
<1>7. Favs!Goto(r, state)
  BY DEF Favs!SetCacheFavorite, Favs!Finished
<1> HIDE DEF state
<1>8. ASSUME NEW a \in Ids
      PROVE  Accounted'[a] + Cardinality(Gains(state, a)) + Cardinality(Of(a, inFolder)) + Cardinality(Losses(favReq[r], a))
               = Accounted[a] + Cardinality(Gains(favReq[r], a)) + Cardinality(Of(a, inFolder')) + Cardinality(Losses(state, a))
  <2>1. Gains(state, a) = {} /\ Losses(state, a) = {}
    BY <1>6, FavShares
  <2>2. /\ Gains(favReq[r], a) = IF a0 = a /\ d = 1 THEN {a} ELSE {}
        /\ Losses(favReq[r], a) = IF a0 = a /\ d = -1 THEN {a} ELSE {}
    BY <1>1, <1>2, FavShares
  <2>3. Cardinality({}) = 0 /\ Cardinality({a}) = 1
    BY CountEmpty
  <2>4. PICK c : c = Cardinality(Of(a, inFolder))
    OBVIOUS
  <2>5. c \in Nat /\ Cardinality(Of(a, inFolder')) = c
    BY <1>2, <2>4, OfFinite
  <2>6. Accounted[a] \in Int /\ Accounted'[a] = IF a = a0 THEN Accounted[a] + d ELSE Accounted[a]
    BY <1>3, <1>4 DEF Accounted
  <2>7. PICK u, g, l : u = Accounted[a] /\ g = Cardinality(Gains(favReq[r], a)) /\ l = Cardinality(Losses(favReq[r], a))
    OBVIOUS
  <2>8. \/ a = a0 /\ d = 1 /\ g = 1 /\ l = 0
        \/ a = a0 /\ d = -1 /\ g = 0 /\ l = 1
        \/ a # a0 /\ g = 0 /\ l = 0
    <3>1. 1 # -1
      OBVIOUS
    <3> QED
      BY <1>3, <2>2, <2>3, <2>7, <3>1
  <2>9. Accounted'[a] + c + l = u + g + c
    BY <2>5, <2>6, <2>7, <2>8
  <2>10. Accounted'[a] + 0 + c + l = u + g + c + 0
    BY <2>5, <2>6, <2>7, <2>8, <2>9
  <2> QED
    BY <2>1, <2>3, <2>4, <2>5, <2>7, <2>10
<1> QED
  BY <1>2, <1>5, <1>6, <1>7, <1>8, FavStep

LEMMA FavTakeFolder ==
  ASSUME FavInv, NEW r \in FavReqs, NEW a \in Ids, NEW i \in DOMAIN folder, Favs!TakeFolder(r, a, i)
  PROVE  FavInv'
<1> DEFINE state == [pc |-> "switch", article |-> a, folder |-> i]
<1>1. /\ Favs!Goto(r, state) /\ UNCHANGED <<folder, inFolder, favors, favMissed, favBlurred>> /\ favReq[r].pc = "idle"
      /\ state.pc = "switch"
  BY DEF Favs!TakeFolder
<1>2. FavRequest(state, Len(folder))
  BY DEF FavRequest, FavInv, FavTables
<1> HIDE DEF state
<1>3. \A b \in Ids : /\ Cardinality(Gains(state, b)) = 0 /\ Cardinality(Losses(state, b)) = 0
                     /\ Cardinality(Gains(favReq[r], b)) = 0 /\ Cardinality(Losses(favReq[r], b)) = 0
  BY <1>1, FavShares, CountEmpty
<1> QED
  BY <1>1, <1>2, <1>3, FavPasses

LEMMA FavPatchFind ==
  ASSUME FavInv, NEW r \in FavReqs, NEW i, NEW list, Favs!PatchFind(r, i, list)
  PROVE  FavInv'
<1> DEFINE found == {x \in inFolder : x[2] = i /\ x[1] \in list}
           state == [pc |-> "patch", found |-> found]
<1>1. /\ Favs!Goto(r, state) /\ UNCHANGED <<folder, inFolder, favors, favMissed>> /\ favReq[r].pc = "idle"
      /\ state.pc = "patch" /\ state.found = found
  BY DEF Favs!PatchFind
<1>2. favBlurred => favBlurred'
  BY Zenon DEF Favs!PatchFind
<1>3. IsFiniteSet(found)
  BY FS_Subset DEF FavInv, FavTables
<1> HIDE DEF found, state
<1>4. FavRequest(state, Len(folder))
  BY <1>1, <1>3 DEF FavRequest
<1>5. \A b \in Ids : /\ Cardinality(Gains(state, b)) = 0 /\ Cardinality(Losses(state, b)) = 0
                     /\ Cardinality(Gains(favReq[r], b)) = 0 /\ Cardinality(Losses(favReq[r], b)) = 0
  BY <1>1, FavShares, CountEmpty
<1> QED
  BY <1>1, <1>2, <1>4, <1>5, FavPasses

LEMMA FavPatchDelete ==
  ASSUME FavInv, NEW r \in FavReqs, Favs!PatchDelete(r)
  PROVE  FavInv'
<1> DEFINE found == favReq[r].found
           state == [pc |-> "lower", found |-> found]
<1>1. /\ Favs!Goto(r, state) /\ UNCHANGED <<folder, favors, favMissed>> /\ favReq[r].pc = "patch"
      /\ inFolder' = inFolder \ found
      /\ state.pc = "lower" /\ state.found = found
  BY DEF Favs!PatchDelete
<1>2. (favBlurred => favBlurred') /\ (~favBlurred' => found \subseteq inFolder)
  BY Zenon DEF Favs!PatchDelete
<1>3. IsFiniteSet(found) /\ FavTables /\ Len(folder) <= Len(folder')
  BY <1>1 DEF FavInv, FavTables, FavRequests, FavRequest
<1> HIDE DEF found, state
<1>4. FavTables'
  <2>1. inFolder' \subseteq inFolder
    BY <1>1
  <2> QED
    BY <1>1, <1>3, <2>1, FS_Subset DEF FavTables
<1>5. FavRequest(state, Len(folder'))
  BY <1>1, <1>3 DEF FavRequest
<1>6. ASSUME ~favBlurred', NEW a \in Ids
      PROVE  Accounted'[a] + Cardinality(Gains(state, a)) + Cardinality(Of(a, inFolder)) + Cardinality(Losses(favReq[r], a))
               = Accounted[a] + Cardinality(Gains(favReq[r], a)) + Cardinality(Of(a, inFolder')) + Cardinality(Losses(state, a))
  <2>1. Gains(state, a) = {} /\ Losses(state, a) = Of(a, found) /\ Gains(favReq[r], a) = {} /\ Losses(favReq[r], a) = {}
    BY <1>1, FavShares
  <2>2. Cardinality({}) = 0
    BY CountEmpty
  <2>3. PICK c, d, u : c = Cardinality(Of(a, inFolder)) /\ d = Cardinality(Of(a, found)) /\ u = Accounted[a]
    OBVIOUS
  <2>4. Cardinality(Of(a, inFolder')) = c - d /\ c \in Nat /\ d \in Nat
    <3>1. found \subseteq inFolder
      BY <1>2, <1>6
    <3> QED
      BY <1>1, <1>3, <2>3, <3>1, OfRemoved
  <2>5. Accounted'[a] = u /\ u \in Int
    BY <1>1, <1>3, <2>3 DEF FavTables, Accounted
  <2>6. u + 0 + c + 0 = u + 0 + (c - d) + d
    BY <2>4, <2>5
  <2> QED
    BY <2>1, <2>2, <2>3, <2>4, <2>5, <2>6
<1> QED
  BY <1>2, <1>3, <1>4, <1>5, <1>6, <1>1, FavStep

\* The module Favorites has its own copy of the operator.
LEMMA FavCounting == \A S : Favs!Cardinality(S) = Cardinality(S)
  BY Zenon DEF Favs!Cardinality, Cardinality

\* What Redis counts of them and what it refuses are all of them.
LEMMA Lowering ==
  ASSUME FavTables, NEW found, Favs!Lower(found), IsFiniteSet(found)
  PROVE  /\ favors' \in [Ids -> Int] /\ favMissed' \in [Ids -> Int]
         /\ \A a \in Ids : Accounted'[a] = Accounted[a] - Cardinality(Of(a, found))
<1>1. PICK refused \in SUBSET found :
        /\ favors' = [a \in Ids |-> favors[a] - Cardinality(Of(a, found \ refused))]
        /\ favMissed' = [a \in Ids |-> favMissed[a] - Cardinality(Of(a, refused))]
  BY FavCounting DEF Favs!Lower, Favs!Of, Of
<1>2. ASSUME NEW a \in Ids
      PROVE  /\ Cardinality(Of(a, found \ refused)) \in Nat /\ Cardinality(Of(a, refused)) \in Nat
             /\ Cardinality(Of(a, found)) = Cardinality(Of(a, found \ refused)) + Cardinality(Of(a, refused))
  <2>1. Of(a, found) \subseteq found /\ Of(a, refused) \subseteq Of(a, found)
    BY <1>1 DEF Of
  <2>2. IsFiniteSet(Of(a, found)) /\ IsFiniteSet(Of(a, refused))
    BY <2>1, FS_Subset
  <2>3. Of(a, found \ refused) = Of(a, found) \ Of(a, refused) /\ Of(a, found) \cap Of(a, refused) = Of(a, refused)
    BY <2>1 DEF Of
  <2>4. PICK S, R, D : S = Of(a, found) /\ R = Of(a, refused) /\ D = Of(a, found \ refused)
    OBVIOUS
  <2>5. IsFiniteSet(S) /\ IsFiniteSet(R) /\ D = S \ R /\ S \cap R = R
    BY <2>2, <2>3, <2>4
  <2>6. IsFiniteSet(D) /\ Cardinality(S \ R) = Cardinality(S) - Cardinality(S \cap R)
    BY <2>5, FS_Difference
  <2>7. Cardinality(D) = Cardinality(S) - Cardinality(R)
    BY <2>5, <2>6
  <2>8. Cardinality(S) \in Nat /\ Cardinality(R) \in Nat /\ Cardinality(D) \in Nat
    BY <2>5, <2>6, FS_CardinalityType
  <2>9. Cardinality(S) = Cardinality(D) + Cardinality(R)
    BY <2>7, <2>8
  <2> QED
    BY <2>4, <2>8, <2>9
<1>3. favors \in [Ids -> Int] /\ favMissed \in [Ids -> Int]
  BY DEF FavTables
<1>4. favors' \in [Ids -> Int] /\ favMissed' \in [Ids -> Int]
  <2>1. ASSUME NEW a \in Ids
        PROVE  favors[a] - Cardinality(Of(a, found \ refused)) \in Int /\ favMissed[a] - Cardinality(Of(a, refused)) \in Int
    <3>1. PICK b, c : b = Cardinality(Of(a, found \ refused)) /\ c = Cardinality(Of(a, refused))
      OBVIOUS
    <3>2. b \in Nat /\ c \in Nat /\ favors[a] \in Int /\ favMissed[a] \in Int
      BY <1>2, <1>3, <3>1
    <3>3. favors[a] - b \in Int /\ favMissed[a] - c \in Int
      BY <3>2
    <3> QED
      BY <3>1, <3>3
  <2> QED
    BY <1>1, <2>1
<1>5. ASSUME NEW a \in Ids PROVE Accounted'[a] = Accounted[a] - Cardinality(Of(a, found))
  <2>1. PICK b, c, d : /\ b = Cardinality(Of(a, found \ refused)) /\ c = Cardinality(Of(a, refused))
                       /\ d = Cardinality(Of(a, found))
    OBVIOUS
  <2>2. b \in Nat /\ c \in Nat /\ d = b + c
    BY <1>2, <2>1
  <2>3. favors'[a] = favors[a] - b /\ favMissed'[a] = favMissed[a] - c /\ favors[a] \in Int /\ favMissed[a] \in Int
    BY <1>1, <1>3, <2>1
  <2>4. Accounted'[a] = favors'[a] + favMissed'[a] /\ Accounted[a] = favors[a] + favMissed[a]
    BY DEF Accounted
  <2>5. Accounted'[a] = Accounted[a] - d
    BY <2>2, <2>3, <2>4
  <2> QED
    BY <2>1, <2>5
<1> QED
  BY <1>4, <1>5

LEMMA FavPatchCount ==
  ASSUME FavInv, NEW r \in FavReqs, Favs!PatchCount(r)
  PROVE  FavInv'
<1> DEFINE found == favReq[r].found
           state == [pc |-> "done"]
<1>1. /\ Favs!Goto(r, state) /\ UNCHANGED <<folder, inFolder, favBlurred>> /\ favReq[r].pc = "lower"
      /\ Favs!Lower(found) /\ state.pc = "done"
  BY DEF Favs!PatchCount, Favs!Finished
<1>2. FavTables /\ FavRequest(favReq[r], Len(folder)) /\ Len(folder) \in Nat
  BY DEF FavInv, FavTables, FavRequests
<1>3. ASSUME NEW a PROVE Losses(favReq[r], a) = Of(a, found) /\ Gains(favReq[r], a) = {} /\ Cardinality(Of(a, found)) \in Nat
  <2>1. Losses(favReq[r], a) = Of(a, found) /\ Gains(favReq[r], a) = {}
    BY <1>1, FavShares
  <2> QED
    BY <1>2, <2>1, FiniteShares
<1>4. FavRequest(state, Len(folder')) /\ Len(folder) <= Len(folder')
  BY <1>1, <1>2 DEF FavRequest
<1> HIDE DEF found, state
<1>5. /\ favors' \in [Ids -> Int] /\ favMissed' \in [Ids -> Int]
      /\ \A a \in Ids : Accounted'[a] = Accounted[a] - Cardinality(Of(a, found))
  <2>1. IsFiniteSet(found)
    BY <1>1, <1>2 DEF FavRequest, found
  <2> QED
    BY <1>1, <1>2, <2>1, Lowering
<1>6. FavTables'
  BY <1>1, <1>2, <1>5 DEF FavTables
<1>7. ASSUME NEW a \in Ids
      PROVE  Accounted'[a] + Cardinality(Gains(state, a)) + Cardinality(Of(a, inFolder)) + Cardinality(Losses(favReq[r], a))
               = Accounted[a] + Cardinality(Gains(favReq[r], a)) + Cardinality(Of(a, inFolder')) + Cardinality(Losses(state, a))
  <2>1. Gains(state, a) = {} /\ Losses(state, a) = {}
    BY <1>1, FavShares
  <2>2. Cardinality({}) = 0
    BY CountEmpty
  <2>3. PICK c, d, u : c = Cardinality(Of(a, inFolder)) /\ d = Cardinality(Of(a, found)) /\ u = Accounted[a]
    OBVIOUS
  <2>4. Cardinality(Of(a, inFolder')) = c /\ c \in Nat /\ d \in Nat
    BY <1>1, <1>2, <1>3, <2>3, OfFinite
  <2>5. Accounted'[a] = u - d /\ u \in Int
    BY <1>2, <1>5, <2>3 DEF FavTables, Accounted
  <2>6. (u - d) + 0 + c + d = u + 0 + c + 0
    BY <2>4, <2>5
  <2> QED
    BY <1>3, <2>1, <2>2, <2>3, <2>4, <2>5, <2>6
<1> QED
  BY <1>1, <1>4, <1>6, <1>7, FavStep

LEMMA FavBeforeDelete ==
  ASSUME FavInv, NEW r \in FavReqs, NEW list, Favs!BeforeDelete(r, list)
  PROVE  FavInv'
<1> DEFINE found == {x \in inFolder : x[2] \in list}
           state == [pc |-> "commit", found |-> found, list |-> list]
<1>1. /\ Favs!Goto(r, state) /\ UNCHANGED <<folder, inFolder>> /\ favReq[r].pc = "idle"
      /\ Favs!Lower(found) /\ state.pc = "commit" /\ state.found = found /\ state.list = list
  BY DEF Favs!BeforeDelete
<1>2. FavTables /\ Len(folder) \in Nat /\ IsFiniteSet(found)
  BY FS_Subset DEF FavInv, FavTables
<1>3. favBlurred => favBlurred'
  BY Zenon DEF Favs!BeforeDelete
<1>4. list \subseteq 1..Len(folder)
  BY <1>2 DEF Favs!BeforeDelete, Favs!Open, FavTables
<1> HIDE DEF found, state
<1>5. FavRequest(state, Len(folder')) /\ Len(folder) <= Len(folder')
  BY <1>1, <1>2, <1>4 DEF FavRequest
<1>6. ASSUME NEW a PROVE Gains(state, a) = Of(a, found) /\ Losses(state, a) = {} /\ Cardinality(Of(a, found)) \in Nat
  <2>1. Gains(state, a) = Of(a, found) /\ Losses(state, a) = {}
    BY <1>1, FavShares
  <2> QED
    BY <1>5, <2>1, FiniteShares
<1>7. /\ favors' \in [Ids -> Int] /\ favMissed' \in [Ids -> Int]
      /\ \A a \in Ids : Accounted'[a] = Accounted[a] - Cardinality(Of(a, found))
  BY <1>1, <1>2, Lowering
<1>8. FavTables'
  BY <1>1, <1>2, <1>7 DEF FavTables
<1>9. ASSUME NEW a \in Ids
      PROVE  Accounted'[a] + Cardinality(Gains(state, a)) + Cardinality(Of(a, inFolder)) + Cardinality(Losses(favReq[r], a))
               = Accounted[a] + Cardinality(Gains(favReq[r], a)) + Cardinality(Of(a, inFolder')) + Cardinality(Losses(state, a))
  <2>1. Gains(favReq[r], a) = {} /\ Losses(favReq[r], a) = {}
    BY <1>1, FavShares
  <2>2. Cardinality({}) = 0
    BY CountEmpty
  <2>3. PICK c, d, u : c = Cardinality(Of(a, inFolder)) /\ d = Cardinality(Of(a, found)) /\ u = Accounted[a]
    OBVIOUS
  <2>4. Cardinality(Of(a, inFolder')) = c /\ c \in Nat /\ d \in Nat
    BY <1>1, <1>2, <1>6, <2>3, OfFinite
  <2>5. Accounted'[a] = u - d /\ u \in Int
    BY <1>2, <1>7, <2>3 DEF FavTables, Accounted
  <2>6. (u - d) + d + c + 0 = u + 0 + c + 0
    BY <2>4, <2>5
  <2> QED
    BY <1>6, <2>1, <2>2, <2>3, <2>4, <2>5, <2>6
<1> QED
  BY <1>1, <1>3, <1>5, <1>8, <1>9, FavStep

LEMMA FavDeleteCommit ==
  ASSUME FavInv, NEW r \in FavReqs, Favs!DeleteCommit(r)
  PROVE  FavInv'
<1> DEFINE found == favReq[r].found
           state == [pc |-> "done"]
<1>1. /\ Favs!Goto(r, state) /\ UNCHANGED <<favors, favMissed>> /\ favReq[r].pc = "commit"
      /\ inFolder' = inFolder \ found /\ state.pc = "done"
  BY DEF Favs!DeleteCommit, Favs!Finished
<1>2. (favBlurred => favBlurred') /\ (~favBlurred' => found \subseteq inFolder)
  BY Zenon DEF Favs!DeleteCommit
<1>3. FavTables /\ FavRequest(favReq[r], Len(folder)) /\ Len(folder) \in Nat /\ folder \in Seq(FolderRow)
  BY DEF FavInv, FavTables, FavRequests
<1>4. folder' \in Seq(FolderRow) /\ Len(folder') = Len(folder)
  <2>1. folder' = [i \in 1..Len(folder) |->
                    IF i \in favReq[r].list THEN [folder[i] EXCEPT !.deleted = TRUE] ELSE folder[i]]
    BY <1>3 DEF Favs!DeleteCommit
  <2>2. ASSUME NEW i \in 1..Len(folder)
        PROVE  (IF i \in favReq[r].list THEN [folder[i] EXCEPT !.deleted = TRUE] ELSE folder[i]) \in FolderRow
    <3>1. folder[i] \in FolderRow
      BY <1>3
    <3> QED
      BY <3>1 DEF FolderRow
  <2>3. folder' \in [1..Len(folder) -> FolderRow]
    BY <2>1, <2>2
  <2> QED
    BY <1>3, <2>3
<1>5. FavRequest(state, Len(folder')) /\ Len(folder) <= Len(folder')
  BY <1>1, <1>3, <1>4 DEF FavRequest
<1> HIDE DEF found, state
<1>6. FavTables'
  <2>1. inFolder' \subseteq inFolder
    BY <1>1
  <2> QED
    BY <1>1, <1>3, <1>4, <2>1, FS_Subset DEF FavTables
<1>7. ASSUME ~favBlurred', NEW a \in Ids
      PROVE  Accounted'[a] + Cardinality(Gains(state, a)) + Cardinality(Of(a, inFolder)) + Cardinality(Losses(favReq[r], a))
               = Accounted[a] + Cardinality(Gains(favReq[r], a)) + Cardinality(Of(a, inFolder')) + Cardinality(Losses(state, a))
  <2>1. Gains(state, a) = {} /\ Losses(state, a) = {} /\ Gains(favReq[r], a) = Of(a, found) /\ Losses(favReq[r], a) = {}
    BY <1>1, FavShares DEF found
  <2>2. Cardinality({}) = 0
    BY CountEmpty
  <2>3. PICK c, d, u : c = Cardinality(Of(a, inFolder)) /\ d = Cardinality(Of(a, found)) /\ u = Accounted[a]
    OBVIOUS
  <2>4. Cardinality(Of(a, inFolder')) = c - d /\ c \in Nat /\ d \in Nat
    <3>1. found \subseteq inFolder
      BY <1>2, <1>7
    <3> QED
      BY <1>1, <1>3, <2>3, <3>1, OfRemoved
  <2>5. Accounted'[a] = u /\ u \in Int
    BY <1>1, <1>3, <2>3 DEF FavTables, Accounted
  <2>6. u + 0 + c + 0 = u + d + (c - d) + 0
    BY <2>4, <2>5
  <2> QED
    BY <2>1, <2>2, <2>3, <2>4, <2>5, <2>6
<1> QED
  BY <1>1, <1>2, <1>5, <1>6, <1>7, FavStep

LEMMA FavDeleteRollback ==
  ASSUME FavInv, NEW r \in FavReqs, Favs!DeleteRollback(r)
  PROVE  FavInv'
<1> DEFINE state == [pc |-> "done"]
<1>1. /\ Favs!Goto(r, state) /\ UNCHANGED <<folder, inFolder, favors, favMissed>> /\ favReq[r].pc = "commit" /\ state.pc = "done"
  BY DEF Favs!DeleteRollback, Favs!Finished
<1>2. (favBlurred => favBlurred') /\ (~favBlurred' => favReq[r].found = {})
  BY Zenon DEF Favs!DeleteRollback
<1>3. FavRequest(state, Len(folder))
  BY <1>1 DEF FavRequest
<1> HIDE DEF state
<1>4. ASSUME ~favBlurred', NEW b \in Ids
      PROVE  /\ Cardinality(Gains(state, b)) = 0 /\ Cardinality(Losses(state, b)) = 0
             /\ Cardinality(Gains(favReq[r], b)) = 0 /\ Cardinality(Losses(favReq[r], b)) = 0
  <2>1. Of(b, favReq[r].found) = {}
    BY <1>2, <1>4 DEF Of
  <2> QED
    BY <1>1, <2>1, FavShares, CountEmpty
<1> QED
  BY <1>1, <1>2, <1>3, <1>4, FavPasses

LEMMA FavAborted ==
  ASSUME FavInv, NEW r \in FavReqs, Favs!Aborted(r)
  PROVE  FavInv'
<1> DEFINE state == [pc |-> "done"]
<1>1. /\ Favs!Goto(r, state) /\ UNCHANGED <<folder, inFolder, favors, favMissed, favBlurred>>
      /\ favReq[r].pc \in {"switch", "patch"} /\ state.pc = "done"
  BY DEF Favs!Aborted, Favs!Finished
<1>2. FavRequest(state, Len(folder))
  BY <1>1 DEF FavRequest
<1> HIDE DEF state
<1>3. \A b \in Ids : /\ Cardinality(Gains(state, b)) = 0 /\ Cardinality(Losses(state, b)) = 0
                     /\ Cardinality(Gains(favReq[r], b)) = 0 /\ Cardinality(Losses(favReq[r], b)) = 0
  BY <1>1, FavShares, CountEmpty
<1> QED
  BY <1>1, <1>2, <1>3, FavPasses

LEMMA FavFolders ==
  ASSUME FavInv, \/ \E t \in Titles : Favs!CreateFolder(t)
                 \/ \E i \in DOMAIN folder, t \in Titles : Favs!RenameFolder(i, t)
  PROVE  FavInv'
<1>1. folder \in Seq(FolderRow) /\ Len(folder) \in Nat
  BY DEF FavInv, FavTables
<1>2. ASSUME NEW t \in Titles, Favs!CreateFolder(t) PROVE FavInv'
  <2>1. folder' \in Seq(FolderRow) /\ Len(folder') = Len(folder) + 1
    BY <1>1, <1>2 DEF Favs!CreateFolder, Favs!NewFolder, FolderRow
  <2>2. Len(folder) <= Len(folder')
    BY <1>1, <2>1
  <2> QED
    BY <1>2, <2>1, <2>2, FavStill DEF Favs!CreateFolder
<1>3. ASSUME NEW i \in DOMAIN folder, NEW t \in Titles, Favs!RenameFolder(i, t) PROVE FavInv'
  <2>1. folder' \in Seq(FolderRow) /\ Len(folder') = Len(folder)
    <3>1. folder[i] \in FolderRow /\ i \in 1..Len(folder)
      BY <1>1, <1>3
    <3>2. PICK row : row = [folder[i] EXCEPT !.title = t]
      OBVIOUS
    <3>3. row \in FolderRow
      BY <3>1, <3>2 DEF FolderRow
    <3>4. folder' = [folder EXCEPT ![i] = row]
      BY <1>3, <3>2 DEF Favs!RenameFolder
    <3> QED
      BY <1>1, <3>1, <3>3, <3>4
  <2>2. Len(folder) <= Len(folder')
    BY <1>1, <2>1
  <2> QED
    BY <1>3, <2>1, <2>2, FavStill DEF Favs!RenameFolder
<1> QED
  BY <1>2, <1>3

LEMMA FavFirst == Favs!FavInit => FavInv
<1> SUFFICES ASSUME Favs!FavInit PROVE FavInv
  OBVIOUS
<1>1. folder = <<>> /\ inFolder = {} /\ favors = [a \in Ids |-> 0] /\ favMissed = favors
      /\ favReq = [r \in FavReqs |-> [pc |-> "idle"]]
  BY DEF Favs!FavInit
<1>2. FavTables
  BY <1>1, FS_EmptySet DEF FavTables
<1>3. ASSUME NEW a PROVE Gathered(FavReqs, GainsOf(a)) = {} /\ Gathered(FavReqs, LossesOf(a)) = {}
  <2>1. \A q \in FavReqs : GainsOf(a)[q] = {} /\ LossesOf(a)[q] = {}
    BY <1>1 DEF GainsOf, LossesOf, Gains, Losses
  <2> QED
    BY <2>1 DEF Gathered
<1>4. FavRequests
  BY <1>1, <1>3, FS_EmptySet DEF FavRequests, FavRequest
<1>5. FavBalanced
  <2>1. \A a : Of(a, inFolder) = {}
    BY <1>1 DEF Of
  <2>2. Cardinality({}) = 0
    BY FS_EmptySet
  <2>3. \A a \in Ids : Accounted[a] = 0
    <3> SUFFICES ASSUME NEW a \in Ids PROVE Accounted[a] = 0
      OBVIOUS
    <3>1. favors[a] = 0 /\ favMissed[a] = 0
      BY <1>1
    <3>2. Accounted[a] = favors[a] + favMissed[a]
      BY DEF Accounted
    <3> QED
      BY <3>1, <3>2
  <2> QED
    BY <1>3, <2>1, <2>2, <2>3 DEF FavBalanced, Balance
<1> QED
  BY <1>2, <1>4, <1>5 DEF FavInv

LEMMA FavKept == FavInv /\ Favs!FavNext => FavInv'
<1> SUFFICES ASSUME FavInv, Favs!FavNext PROVE FavInv'
  OBVIOUS
<1>1. CASE \/ \E t \in Titles : Favs!CreateFolder(t)
           \/ \E i \in DOMAIN folder, t \in Titles : Favs!RenameFolder(i, t)
  BY <1>1, FavFolders
<1>2. ASSUME NEW r \in FavReqs,
             \/ \E a \in Ids : Favs!CreateDefault(r, a) \/ \E i \in DOMAIN folder : Favs!TakeFolder(r, a, i)
             \/ Favs!SwitchFavorite(r) \/ Favs!SetCacheFavorite(r)
             \/ \E i \in DOMAIN folder, list \in SUBSET Ids : Favs!PatchFind(r, i, list)
             \/ Favs!PatchDelete(r) \/ Favs!PatchCount(r)
             \/ \E list \in SUBSET (DOMAIN folder) : Favs!BeforeDelete(r, list)
             \/ Favs!DeleteCommit(r) \/ Favs!DeleteRollback(r) \/ Favs!Aborted(r)
      PROVE  FavInv'
  BY <1>2, FavCreateDefault, FavTakeFolder, FavSwitch, FavSetCache, FavPatchFind, FavPatchDelete, FavPatchCount,
     FavBeforeDelete, FavDeleteCommit, FavDeleteRollback, FavAborted
<1> QED
  BY <1>1, <1>2 DEF Favs!FavNext

LEMMA FavKeptStep == FavInv /\ [CountNext]_<<part, vars, favVars, comVars>> => FavInv'
<1> SUFFICES ASSUME FavInv, [CountNext]_<<part, vars, favVars, comVars>> PROVE FavInv'
  OBVIOUS
<1>1. CASE Favs!FavNext
  BY <1>1, FavKept
<1>2. CASE UNCHANGED favVars
  BY <1>2, FavStill DEF favVars, FavInv, FavTables
<1> QED
  BY <1>1, <1>2 DEF CountNext

LEMMA FavSettled == FavInv => FavorsCounted
<1> SUFFICES ASSUME FavInv, ~favBlurred, \A r \in FavReqs : favReq[r].pc \in {"idle", "done"}, NEW a \in Ids
             PROVE  Accounted[a] = Cardinality(Of(a, inFolder))
  <2>1. \A a \in Ids : Favs!Of(a, inFolder) = Cardinality(Of(a, inFolder)) /\ Accounted[a] = favors[a] + favMissed[a]
    BY FavCounting DEF Favs!Of, Of, Accounted
  <2> QED
    BY <2>1 DEF FavorsCounted, Favs!FavorsCounted
<1>1. Gathered(FavReqs, GainsOf(a)) = {} /\ Gathered(FavReqs, LossesOf(a)) = {}
  <2>1. \A q \in FavReqs : GainsOf(a)[q] = {} /\ LossesOf(a)[q] = {}
    BY DEF GainsOf, LossesOf, Gains, Losses
  <2> QED
    BY <2>1 DEF Gathered
<1>2. Accounted[a] + 0 = Cardinality(Of(a, inFolder)) + 0
  BY <1>1, FS_EmptySet DEF FavInv, FavBalanced, Balance
<1>3. Accounted[a] \in Int /\ Cardinality(Of(a, inFolder)) \in Nat
  BY OfFinite DEF FavInv, FavTables, Accounted
<1> QED
  BY <1>2, <1>3

(* SetCacheFavorite, FavoriteRemovePatchView and FavoriteModel.BeforeDelete *)
(* keep the books: once the requests have ended, an article shows exactly   *)
(* the favourites that folders hold, less the counts that Redis refused,    *)
(* for any number of requests, folders and articles, whatever interleaved   *)
(* and whichever counts failed.  Removals of one relation that overlapped   *)
(* and rolled-back deletions are left out, as in the run.                   *)
THEOREM FavoritesAreCounted == CountSpec => []FavorsCounted
<1>1. CountInit => FavInv
  BY FavFirst DEF CountInit
<1> QED
  BY <1>1, FavKeptStep, FavSettled, PTL DEF CountSpec

-----------------------------------------------------------------------------
(* Comments.  The count of the article (j = 0) and of the replies of the   *)
(* comment j, and what a request has yet to count or to take off.          *)

CommentRow == [user : Coms!Readers, reply : Nat, root : Nat, published : BOOLEAN, deleted : BOOLEAN]

\* With what Redis refused to count.
Counted(j) ==
  IF j = 0 THEN articleCount + comMissed[0]
  ELSE IF j \in 1..Len(comments) THEN replyCount[j] + comMissed[j] ELSE 0
Present(j) == {i \in Coms!Shown : j = 0 \/ comments[i].root = j}
Removed == {i \in 1..Len(comments) : comments[i].deleted}

Concerns(state, j) == j = 0 \/ state.root = j

Written(state, j)  == IF state.pc = "count" /\ Concerns(state, j) THEN {0} ELSE {}
TakenOff(state, j) == IF state.pc = "uncount" /\ Concerns(state, j) THEN state.shown ELSE {}

WrittenOf(j)  == [q \in ComReqs |-> Written(comReq[q], j)]
TakenOffOf(j) == [q \in ComReqs |-> TakenOff(comReq[q], j)]

ComRequest(state, rows) ==
  /\ state.pc \in {"create", "count"} => state.root \in 0..Len(rows)
  /\ state.pc = "create" => state.user \in Coms!Readers /\ state.reply \in Nat
  /\ state.pc = "publish" => /\ state.id \in 1..Len(rows) /\ state.root = rows[state.id].root
                             /\ ~rows[state.id].published
  /\ state.pc = "find" => state.target \in 1..Len(rows) /\ rows[state.target].root = 0
  /\ state.pc \in {"delete", "uncount"} =>
       state.target \in 1..Len(rows) /\ state.root \in 0..Len(rows) /\ state.shown \subseteq 1..Len(rows)
  /\ state.pc = "delete" =>
       /\ state = [pc |-> "delete", target |-> state.target, root |-> state.root,
                   ids |-> state.ids, shown |-> state.shown]
       /\ state.ids \subseteq 1..Len(rows)
       /\ state.root # 0 => \A k \in state.ids : rows[k].root = state.root
       /\ state.root = 0 => /\ state.target \in state.ids \/ rows[state.target].deleted
                            /\ rows[state.target].root = 0
                            /\ \A k \in state.ids : k = state.target \/ rows[k].root = state.target
  /\ state.pc = "uncount" /\ state.root = 0 => rows[state.target].deleted

ComRefused ==
  /\ Len(comments) <= MaxComments /\ comMissed \in [0..MaxComments -> Int]
  /\ \A i \in 0..MaxComments : i > Len(comments) => comMissed[i] = 0

ComTables ==
  /\ comments \in Seq(CommentRow) /\ replyCount \in Seq(Int) /\ Len(replyCount) = Len(comments)
  /\ articleCount \in Int /\ ComRefused
  /\ \A i \in 1..Len(comments) : comments[i].root \in 0..Len(comments)

ComRequests ==
  /\ DOMAIN comReq = ComReqs
  /\ \A q \in ComReqs : ComRequest(comReq[q], comments)
  /\ \A q, s \in ComReqs : q # s /\ comReq[q].pc = "publish" /\ comReq[s].pc = "publish" => comReq[q].id # comReq[s].id
  /\ \A j \in Nat : IsFiniteSet(Gathered(ComReqs, WrittenOf(j))) /\ IsFiniteSet(Gathered(ComReqs, TakenOffOf(j)))

ComUndisturbed ==
  /\ \A q \in ComReqs : comReq[q].pc = "publish" => comReq[q].id \notin Removed
  /\ \A j \in Nat \ Removed :
       Balance(ComReqs, Counted(j), WrittenOf(j), Cardinality(Present(j)), TakenOffOf(j))

ComInv == ComTables /\ ComRequests /\ (~comBlurred => ComUndisturbed)

LEMMA ComShares ==
  ASSUME NEW state, NEW n \in Nat, state.pc = "uncount" => state.shown \subseteq 1..n, NEW j
  PROVE  IsFiniteSet(Written(state, j)) /\ IsFiniteSet(TakenOff(state, j))
<1>1. IsFiniteSet({}) /\ IsFiniteSet({0}) /\ IsFiniteSet(1..n)
  <2>1. IsFiniteSet({}) /\ IsFiniteSet({0})
    BY FS_EmptySet, FS_Singleton
  <2>2. IsFiniteSet(1..n)
    BY FS_Interval
  <2> QED
    BY <2>1, <2>2
<1>2. state.pc = "uncount" => IsFiniteSet(state.shown)
  BY <1>1, FS_Subset
<1> QED
  BY <1>1, <1>2 DEF Written, TakenOff

LEMMA ComPresent ==
  ASSUME ComTables, NEW j
  PROVE  IsFiniteSet(Present(j)) /\ Cardinality(Present(j)) \in Nat /\ (j \in Nat => Counted(j) \in Int)
<1>1. Len(comments) \in Nat
  BY DEF ComTables
<1>2. IsFiniteSet(1..Len(comments))
  BY <1>1, FS_Interval
<1>3. Present(j) \in SUBSET (1..Len(comments))
  BY DEF Present, Coms!Shown, Coms!Live, Coms!CommentIds, ComTables
<1>4. IsFiniteSet(Present(j)) /\ Cardinality(Present(j)) \in Nat
  BY <1>2, <1>3, FS_Subset, FS_CardinalityType
<1>5. j \in Nat => Counted(j) \in Int
  <2>1. \A i \in 1..Len(comments) : replyCount[i] \in Int
    BY DEF ComTables
  <2>2. \A i \in 0..Len(comments) : comMissed[i] \in Int
    BY <1>1, CountsAssumption DEF ComTables, ComRefused
  <2> QED
    BY <1>1, <2>1, <2>2 DEF Counted, ComTables
<1> QED
  BY <1>4, <1>5

\* The comments there are stay, and deleted ones stay deleted.
Onwards(id) ==
  /\ Len(comments) <= Len(comments')
  /\ \A i \in 1..Len(comments) : /\ comments'[i].root = comments[i].root
                                 /\ comments[i].deleted => comments'[i].deleted
                                 /\ i # id => comments'[i].published = comments[i].published

LEMMA ComRequestKept ==
  ASSUME ComTables, ComTables', NEW id, Onwards(id), NEW state, ComRequest(state, comments),
         state.pc = "publish" => state.id # id
  PROVE  ComRequest(state, comments')
<1>1. PICK n, m : n = Len(comments) /\ m = Len(comments')
  OBVIOUS
<1>2. n \in Nat /\ m \in Nat /\ n <= m
  BY <1>1 DEF ComTables, Onwards
<1>3. \A i \in 1..n : i \in 1..m /\ comments'[i].root = comments[i].root
  BY <1>1, <1>2 DEF Onwards
<1>4. \A i \in 1..n : comments[i].deleted => comments'[i].deleted
  BY <1>1 DEF Onwards
<1>5. state.pc \in {"create", "count"} => state.root \in 0..m
  BY <1>1, <1>2 DEF ComRequest
<1>6. ASSUME state.pc = "publish"
      PROVE  /\ state.id \in 1..m /\ state.root = comments'[state.id].root /\ ~comments'[state.id].published
  <2>1. state.id \in 1..n /\ state.root = comments[state.id].root /\ ~comments[state.id].published /\ state.id # id
    BY <1>1, <1>6 DEF ComRequest
  <2>2. comments'[state.id].published = comments[state.id].published
    BY <1>1, <2>1 DEF Onwards
  <2> QED
    BY <1>3, <2>1, <2>2
<1>7. state.pc = "find" => state.target \in 1..m /\ comments'[state.target].root = 0
  BY <1>1, <1>3 DEF ComRequest
<1>8. state.pc \in {"delete", "uncount"} =>
        state.target \in 1..m /\ state.root \in 0..m /\ state.shown \subseteq 1..m
  BY <1>1, <1>2 DEF ComRequest
<1>9. ASSUME state.pc = "delete"
      PROVE  /\ state.ids \subseteq 1..m
             /\ state.root # 0 => \A k \in state.ids : comments'[k].root = state.root
             /\ state.root = 0 => /\ state.target \in state.ids \/ comments'[state.target].deleted
                                  /\ comments'[state.target].root = 0
                                  /\ \A k \in state.ids : k = state.target \/ comments'[k].root = state.target
  <2>1. state.target \in 1..n /\ state.ids \subseteq 1..n
    BY <1>1, <1>9 DEF ComRequest
  <2>2. \A k \in state.ids : comments'[k].root = comments[k].root
    BY <1>3, <2>1
  <2>3. state.root # 0 => \A k \in state.ids : comments'[k].root = state.root
    BY <1>9, <2>2 DEF ComRequest
  <2>4. state.root = 0 => /\ state.target \in state.ids \/ comments'[state.target].deleted
                          /\ comments'[state.target].root = 0
    BY <1>3, <1>4, <1>9, <2>1 DEF ComRequest
  <2>5. state.root = 0 => \A k \in state.ids : k = state.target \/ comments'[k].root = state.target
    BY <1>9, <2>2 DEF ComRequest
  <2>6. state.ids \subseteq 1..m
    BY <1>3, <2>1
  <2> QED
    BY <2>3, <2>4, <2>5, <2>6
<1>10. state.pc = "delete" =>
         state = [pc |-> "delete", target |-> state.target, root |-> state.root,
                  ids |-> state.ids, shown |-> state.shown]
  BY DEF ComRequest
<1>11. state.pc = "uncount" /\ state.root = 0 => comments'[state.target].deleted
  BY <1>1, <1>4 DEF ComRequest
<1>12. state.pc = "create" => state.user \in Coms!Readers /\ state.reply \in Nat
  BY DEF ComRequest
<1> QED
  BY <1>1, <1>5, <1>6, <1>7, <1>8, <1>9, <1>10, <1>11, <1>12 DEF ComRequest

\* A step of one request keeps the accounts when every count stays in balance.
LEMMA ComStep ==
  ASSUME ComInv, NEW r \in ComReqs, NEW state, Coms!Goto(r, state),
         ComTables', NEW id, Onwards(id), ComRequest(state, comments'),
         (comReq[r].pc = "publish" /\ comReq[r].id = id) \/ id \notin 1..Len(comments),
         state.pc = "publish" => state.id \notin 1..Len(comments) /\ state.id \notin Removed',
         comBlurred => comBlurred',
         ~comBlurred' => \A q \in ComReqs \ {r} : comReq[q].pc = "publish" => comReq[q].id \notin Removed',
         ~comBlurred' => \A j \in Nat \ Removed' :
           Exchange(Counted(j), Counted(j)', Cardinality(Present(j)), Cardinality(Present(j)'),
                    Written(comReq[r], j), Written(state, j), TakenOff(comReq[r], j), TakenOff(state, j))
  PROVE  ComInv'
<1>1. DOMAIN comReq' = ComReqs /\ comReq'[r] = state /\ \A q \in ComReqs \ {r} : comReq'[q] = comReq[q]
  BY DEF Coms!Goto, ComInv, ComRequests
<1>2. /\ ComTables /\ Len(comments) \in Nat /\ Len(comments') \in Nat
  BY DEF ComInv, ComTables
<1>3. ASSUME NEW q \in ComReqs \ {r}, comReq[q].pc = "publish"
      PROVE  comReq[q].id # id /\ comReq[q].id \in 1..Len(comments)
  <2>1. comReq[q].id \in 1..Len(comments)
    BY <1>3 DEF ComInv, ComRequests, ComRequest
  <2>2. comReq[r].pc = "publish" => comReq[q].id # comReq[r].id
    BY <1>3 DEF ComInv, ComRequests
  <2> QED
    BY <2>1, <2>2
<1>4. ASSUME NEW q \in ComReqs PROVE ComRequest(comReq'[q], comments')
  <2>1. CASE q = r
    BY <1>1, <2>1
  <2>2. CASE q # r
    <3>1. ComRequest(comReq[q], comments)
      BY DEF ComInv, ComRequests
    <3>2. comReq[q].pc = "publish" => comReq[q].id # id
      BY <1>3, <2>2
    <3> QED
      BY <1>1, <1>2, <2>2, <3>1, <3>2, ComRequestKept
  <2> QED
    BY <2>1, <2>2
<1>5. \A q, s \in ComReqs : q # s /\ comReq'[q].pc = "publish" /\ comReq'[s].pc = "publish" => comReq'[q].id # comReq'[s].id
  <2>1. ASSUME NEW q \in ComReqs \ {r}, NEW s \in ComReqs \ {r}, q # s, comReq[q].pc = "publish", comReq[s].pc = "publish"
        PROVE  comReq[q].id # comReq[s].id
    BY <2>1 DEF ComInv, ComRequests
  <2>2. ASSUME NEW q \in ComReqs \ {r}, comReq[q].pc = "publish", state.pc = "publish" PROVE comReq[q].id # state.id
    BY <1>3, <2>2
  <2> QED
    BY <1>1, <2>1, <2>2
<1>6. ASSUME NEW j \in Nat
      PROVE  /\ IsFiniteSet(Gathered(ComReqs, WrittenOf(j)')) /\ IsFiniteSet(Gathered(ComReqs, TakenOffOf(j)'))
             /\ ~comBlurred' /\ j \notin Removed' =>
                  Balance(ComReqs, Counted(j)', WrittenOf(j)', Cardinality(Present(j)'), TakenOffOf(j)')
  <2>1. PICK G, H, L, M : G = WrittenOf(j) /\ H = WrittenOf(j)' /\ L = TakenOffOf(j) /\ M = TakenOffOf(j)'
    OBVIOUS
  <2>2. \A q \in ComReqs \ {r} : H[q] = G[q] /\ M[q] = L[q]
    BY <1>1, <2>1 DEF WrittenOf, Written, TakenOffOf, TakenOff, Concerns
  <2>3. /\ G[r] = Written(comReq[r], j) /\ H[r] = Written(state, j)
        /\ L[r] = TakenOff(comReq[r], j) /\ M[r] = TakenOff(state, j)
    BY <1>1, <2>1 DEF WrittenOf, Written, TakenOffOf, TakenOff, Concerns
  <2>4. IsFiniteSet(G[r]) /\ IsFiniteSet(H[r]) /\ IsFiniteSet(L[r]) /\ IsFiniteSet(M[r])
    <3>1. comReq[r].pc = "uncount" => comReq[r].shown \subseteq 1..Len(comments)
      BY DEF ComInv, ComRequests, ComRequest
    <3>2. state.pc = "uncount" => state.shown \subseteq 1..Len(comments')
      BY DEF ComRequest
    <3>3. IsFiniteSet(Written(comReq[r], j)) /\ IsFiniteSet(TakenOff(comReq[r], j))
      BY <1>2, <3>1, ComShares
    <3>4. IsFiniteSet(Written(state, j)) /\ IsFiniteSet(TakenOff(state, j))
      BY <1>2, <3>2, ComShares
    <3> QED
      BY <2>3, <3>3, <3>4
  <2>5. IsFiniteSet(Gathered(ComReqs, G)) /\ IsFiniteSet(Gathered(ComReqs, L))
    BY <2>1 DEF ComInv, ComRequests
  <2>6. PICK u, v, i, k : /\ u = Counted(j) /\ v = Counted(j)'
                          /\ i = Cardinality(Present(j)) /\ k = Cardinality(Present(j)')
    OBVIOUS
  <2>7. u \in Int /\ i \in Int
    BY <1>2, <2>6, ComPresent
  <2>8. v \in Int /\ k \in Int
    <3>1. Counted(j)' \in Int
      <4>1. \A x \in 1..Len(comments') : replyCount'[x] \in Int
        BY DEF ComTables
      <4>2. \A x \in 0..Len(comments') : comMissed'[x] \in Int
        BY <1>2, CountsAssumption DEF ComTables, ComRefused
      <4> QED
        BY <1>2, <4>1, <4>2 DEF Counted, ComTables
    <3>2. Cardinality(Present(j)') \in Nat
      <4>1. Present(j)' \in SUBSET (1..Len(comments'))
        BY DEF Present, Coms!Shown, Coms!Live, Coms!CommentIds, ComTables
      <4>2. IsFiniteSet(1..Len(comments'))
        BY <1>2, FS_Interval
      <4> QED
        BY <4>1, <4>2, FS_Subset, FS_CardinalityType
    <3> QED
      BY <2>6, <3>1, <3>2
  <2>9. /\ IsFiniteSet(Gathered(ComReqs, H)) /\ IsFiniteSet(Gathered(ComReqs, M))
        /\ Balance(ComReqs, u, G, i, L) /\ Exchange(u, v, i, k, G[r], H[r], L[r], M[r]) => Balance(ComReqs, v, H, k, M)
    BY <2>2, <2>4, <2>5, <2>7, <2>8, Rebalanced
  <2>10. ASSUME ~comBlurred', j \notin Removed'
         PROVE  Balance(ComReqs, u, G, i, L) /\ Exchange(u, v, i, k, G[r], H[r], L[r], M[r])
    <3>1. j \notin Removed
      BY <1>2, <2>10 DEF Removed, Onwards
    <3>2. Balance(ComReqs, u, G, i, L)
      BY <2>1, <2>6, <2>10, <3>1 DEF ComInv, ComUndisturbed
    <3>3. Exchange(u, v, i, k, G[r], H[r], L[r], M[r])
      BY <2>3, <2>6, <2>10
    <3> QED
      BY <3>2, <3>3
  <2> QED
    BY <2>1, <2>6, <2>9, <2>10
<1>7. ComRequests'
  BY <1>1, <1>4, <1>5, <1>6 DEF ComRequests, Gathered
<1>8. ASSUME ~comBlurred' PROVE ComUndisturbed'
  <2>1. \A q \in ComReqs : comReq'[q].pc = "publish" => comReq'[q].id \notin Removed'
    BY <1>1, <1>8
  <2>2. \A j \in Nat \ Removed' :
          Balance(ComReqs, Counted(j)', WrittenOf(j)', Cardinality(Present(j)'), TakenOffOf(j)')
    BY <1>6, <1>8
  <2> QED
    BY <2>1, <2>2 DEF ComUndisturbed, Balance, Gathered
<1> QED
  BY <1>7, <1>8 DEF ComInv

-----------------------------------------------------------------------------
\* A step that leaves the comments as they are.
LEMMA ComQuiet ==
  ASSUME ComInv, NEW r \in ComReqs, NEW state, Coms!Goto(r, state), UNCHANGED <<comments, comBlurred>>,
         ComTables', ComRequest(state, comments), comReq[r].pc # "publish", state.pc # "publish",
         \A j \in Nat \ Removed :
           Counted(j)' + Cardinality(Written(state, j)) + Cardinality(TakenOff(comReq[r], j))
             = Counted(j) + Cardinality(Written(comReq[r], j)) + Cardinality(TakenOff(state, j))
  PROVE  ComInv'
<1>1. ComTables /\ Len(comments) \in Nat
  BY DEF ComInv, ComTables
<1>2. Onwards(0) /\ 0 \notin 1..Len(comments) /\ ComRequest(state, comments')
  BY <1>1 DEF Onwards
<1>3. Removed' = Removed /\ \A j : Present(j)' = Present(j)
  BY DEF Removed, Present, Coms!Shown, Coms!Live, Coms!CommentIds
<1>4. ~comBlurred' => \A q \in ComReqs \ {r} : comReq[q].pc = "publish" => comReq[q].id \notin Removed'
  BY <1>3 DEF ComInv, ComUndisturbed
<1>5. ASSUME NEW j \in Nat \ Removed'
      PROVE  Exchange(Counted(j), Counted(j)', Cardinality(Present(j)), Cardinality(Present(j)'),
                      Written(comReq[r], j), Written(state, j), TakenOff(comReq[r], j), TakenOff(state, j))
  <2>1. PICK u, v, i, g, h, l, m :
          /\ u = Counted(j) /\ v = Counted(j)' /\ i = Cardinality(Present(j))
          /\ g = Cardinality(Written(comReq[r], j)) /\ h = Cardinality(Written(state, j))
          /\ l = Cardinality(TakenOff(comReq[r], j)) /\ m = Cardinality(TakenOff(state, j))
    OBVIOUS
  <2>2. u \in Int /\ i \in Int
    BY <1>1, <2>1, ComPresent
  <2>3. v \in Int
    <3>1. \A x \in 1..Len(comments') : replyCount'[x] \in Int
      BY DEF ComTables
    <3>2. \A x \in 0..Len(comments') : comMissed'[x] \in Int
      BY <1>1, CountsAssumption DEF ComTables, ComRefused
    <3> QED
      BY <1>1, <2>1, <3>1, <3>2 DEF Counted, ComTables
  <2>4. g \in Nat /\ h \in Nat /\ l \in Nat /\ m \in Nat
    <3>1. comReq[r].pc = "uncount" => comReq[r].shown \subseteq 1..Len(comments)
      BY DEF ComInv, ComRequests, ComRequest
    <3>2. state.pc = "uncount" => state.shown \subseteq 1..Len(comments)
      BY DEF ComRequest
    <3>3. IsFiniteSet(Written(comReq[r], j)) /\ IsFiniteSet(TakenOff(comReq[r], j))
      BY <1>1, <3>1, ComShares
    <3>4. IsFiniteSet(Written(state, j)) /\ IsFiniteSet(TakenOff(state, j))
      BY <1>1, <3>2, ComShares
    <3> QED
      BY <2>1, <3>3, <3>4, FS_CardinalityType
  <2>5. v + h + l = u + g + m
    BY <1>3, <2>1
  <2>6. v + h + i + l = u + g + i + m
    BY <2>2, <2>3, <2>4, <2>5
  <2> QED
    BY <1>3, <2>1, <2>6 DEF Exchange
<1> QED
  BY <1>2, <1>4, <1>5, ComStep

\* A step from where nothing is owed to where nothing is owed.
LEMMA ComPasses ==
  ASSUME ComInv, NEW r \in ComReqs, NEW state, Coms!Goto(r, state),
         UNCHANGED <<comments, articleCount, replyCount, comMissed, comBlurred>>, ComRequest(state, comments),
         comReq[r].pc \notin {"publish", "count", "uncount"}, state.pc \notin {"publish", "count", "uncount"}
  PROVE  ComInv'
<1>1. ComTables /\ ComTables'
  BY DEF ComInv, ComTables, ComRefused
<1>2. ASSUME NEW j \in Nat \ Removed
      PROVE  Counted(j)' + Cardinality(Written(state, j)) + Cardinality(TakenOff(comReq[r], j))
               = Counted(j) + Cardinality(Written(comReq[r], j)) + Cardinality(TakenOff(state, j))
  <2>1. /\ Written(state, j) = {} /\ TakenOff(comReq[r], j) = {}
        /\ Written(comReq[r], j) = {} /\ TakenOff(state, j) = {}
    BY DEF Written, TakenOff
  <2>2. Counted(j)' = Counted(j)
    BY DEF Counted
  <2> QED
    BY <2>1, <2>2
<1> QED
  BY <1>1, <1>2, ComQuiet

LEMMA ComCreateFind ==
  ASSUME ComInv, NEW r \in ComReqs, NEW who \in Coms!Readers, NEW reply \in Coms!CommentIds \cup {0},
         Coms!CreateFind(r, who, reply)
  PROVE  ComInv'
<1>1. ComTables /\ Len(comments) \in Nat /\ DOMAIN comments = 1..Len(comments)
  BY DEF ComInv, ComTables
<1>2. PICK root : root = IF reply = 0 THEN 0 ELSE IF comments[reply].root # 0 THEN comments[reply].root ELSE reply
  OBVIOUS
<1>3. root \in 0..Len(comments) /\ reply \in Nat
  BY <1>1, <1>2 DEF Coms!CommentIds, ComTables
<1> DEFINE state == [pc |-> "create", user |-> who, reply |-> reply, root |-> root]
<1>4. Coms!Goto(r, state) /\ comReq[r].pc = "idle" /\ UNCHANGED <<comments, articleCount, replyCount, comMissed, comBlurred>>
  BY <1>2 DEF Coms!CreateFind
<1>5. state.pc = "create" /\ state.root = root /\ state.user \in Coms!Readers /\ state.reply \in Nat
  BY <1>3
<1> HIDE DEF state
<1>6. ComRequest(state, comments)
  BY <1>3, <1>5 DEF ComRequest
<1> QED
  BY <1>4, <1>5, <1>6, ComPasses

LEMMA ComRemoveTake ==
  ASSUME ComInv, NEW r \in ComReqs, NEW who, NEW i \in Coms!CommentIds, Coms!RemoveTake(r, who, i)
  PROVE  ComInv'
<1>1. ComTables /\ Len(comments) \in Nat /\ DOMAIN comments = 1..Len(comments)
  BY DEF ComInv, ComTables
<1>2. i \in 1..Len(comments) /\ comments[i].root \in 0..Len(comments)
  BY <1>1 DEF Coms!CommentIds, ComTables
<1>3. comReq[r].pc = "idle" /\ UNCHANGED <<comments, articleCount, replyCount, comMissed, comBlurred>>
  BY DEF Coms!RemoveTake
<1>4. CASE comments[i].root = 0
  <2> DEFINE state == [pc |-> "find", target |-> i]
  <2>1. Coms!Goto(r, state)
    BY <1>4 DEF Coms!RemoveTake
  <2>2. state.pc = "find" /\ state.target = i
    OBVIOUS
  <2> HIDE DEF state
  <2>3. ComRequest(state, comments)
    BY <1>2, <1>4, <2>2 DEF ComRequest
  <2> QED
    BY <1>3, <2>1, <2>2, <2>3, ComPasses
<1>5. CASE comments[i].root # 0
  <2> DEFINE state == [pc |-> "delete", target |-> i, root |-> comments[i].root, ids |-> {i}, shown |-> {i} \cap Coms!Shown]
  <2>1. Coms!Goto(r, state)
    BY <1>5 DEF Coms!RemoveTake
  <2>2. /\ state.pc = "delete" /\ state.target = i /\ state.root = comments[i].root /\ state.ids = {i}
        /\ state.shown \subseteq {i}
        /\ state = [pc |-> "delete", target |-> state.target, root |-> state.root, ids |-> state.ids, shown |-> state.shown]
    OBVIOUS
  <2> HIDE DEF state
  <2>3. ComRequest(state, comments)
    BY <1>2, <1>5, <2>2 DEF ComRequest
  <2> QED
    BY <1>3, <2>1, <2>2, <2>3, ComPasses
<1> QED
  BY <1>4, <1>5

LEMMA ComRemoveFind ==
  ASSUME ComInv, NEW r \in ComReqs, Coms!RemoveFind(r)
  PROVE  ComInv'
<1>1. ComTables /\ Len(comments) \in Nat /\ DOMAIN comments = 1..Len(comments)
  BY DEF ComInv, ComTables
<1>2. comReq[r].pc = "find" /\ UNCHANGED <<comments, articleCount, replyCount, comMissed, comBlurred>>
  BY DEF Coms!RemoveFind
<1>3. PICK i, ids : i = comReq[r].target /\ ids = {j \in Coms!Live : j = i \/ comments[j].root = i}
  OBVIOUS
<1>4. i \in 1..Len(comments) /\ comments[i].root = 0
  BY <1>2, <1>3 DEF ComInv, ComRequests, ComRequest
<1>5. ids \subseteq 1..Len(comments) /\ (i \in ids \/ comments[i].deleted) /\ \A k \in ids : k = i \/ comments[k].root = i
  BY <1>1, <1>3, <1>4 DEF Coms!Live, Coms!CommentIds
<1>6. CASE ids = {}
  <2> DEFINE state == [pc |-> "done"]
  <2>1. Coms!Goto(r, state) /\ state.pc = "done"
    BY <1>3, <1>6 DEF Coms!RemoveFind, Coms!Finished
  <2> HIDE DEF state
  <2>2. ComRequest(state, comments)
    BY <2>1 DEF ComRequest
  <2> QED
    BY <1>2, <2>1, <2>2, ComPasses
<1>7. CASE ids # {}
  <2> DEFINE state == [pc |-> "delete", target |-> i, root |-> 0, ids |-> ids, shown |-> ids \cap Coms!Shown]
  <2>1. Coms!Goto(r, state)
    BY <1>3, <1>7 DEF Coms!RemoveFind
  <2>2. /\ state.pc = "delete" /\ state.target = i /\ state.root = 0 /\ state.ids = ids
        /\ state.shown \subseteq ids
        /\ state = [pc |-> "delete", target |-> state.target, root |-> state.root, ids |-> state.ids, shown |-> state.shown]
    OBVIOUS
  <2> HIDE DEF state
  <2>3. ComRequest(state, comments)
    BY <1>1, <1>4, <1>5, <2>2 DEF ComRequest
  <2> QED
    BY <1>2, <2>1, <2>2, <2>3, ComPasses
<1> QED
  BY <1>6, <1>7

\* One count of the article and of a comment's replies, either of which Redis
\* may refuse.
LEMMA ComCounts ==
  ASSUME ComTables, UNCHANGED comments, NEW root \in 0..Len(comments), NEW by \in Int,
         NEW replies \in Seq(Int), Len(replies) = Len(comments), Coms!Count({0, root}, by, replies)
  PROVE  /\ ComTables'
         /\ \A j \in Nat : (j \in 1..Len(comments) => replies[j] = replyCount[j]) =>
              Counted(j)' = Counted(j) + IF j = 0 \/ root = j THEN by ELSE 0
<1>1. PICK n : n = Len(comments)
  OBVIOUS
<1>2. /\ n \in Nat /\ n <= MaxComments /\ MaxComments \in Nat /\ DOMAIN comments = 1..n
      /\ comMissed \in [0..MaxComments -> Int] /\ articleCount \in Int
      /\ (\A i \in 0..MaxComments : i > n => comMissed[i] = 0)
  BY <1>1, CountsAssumption DEF ComTables, ComRefused
<1>3. PICK refused \in SUBSET {0, root} :
        /\ articleCount' = articleCount + IF 0 \in refused THEN 0 ELSE by
        /\ replyCount' = [i \in 1..n |-> replies[i] + IF i \in {0, root} \ refused THEN by ELSE 0]
        /\ comMissed' = [i \in 0..MaxComments |-> comMissed[i] + IF i \in refused THEN by ELSE 0]
  BY <1>2 DEF Coms!Count, Coms!CommentIds
<1>4. /\ \A i \in 1..n : replies[i] \in Int /\ replyCount[i] \in Int
      /\ \A i \in 0..MaxComments : comMissed[i] \in Int
  BY <1>1, <1>2 DEF ComTables
<1>5. articleCount' \in Int
  BY <1>2, <1>3
<1>6. replyCount' \in [1..n -> Int] /\ \A i \in 1..n : replyCount'[i] = replies[i] + IF i \in {0, root} \ refused THEN by ELSE 0
  BY <1>3, <1>4
<1>7. /\ comMissed' \in [0..MaxComments -> Int]
      /\ \A i \in 0..MaxComments : comMissed'[i] = comMissed[i] + IF i \in refused THEN by ELSE 0
  BY <1>3, <1>4
<1>8. replyCount' \in Seq(Int) /\ Len(replyCount') = n
  BY <1>2, <1>6
<1>9. ASSUME NEW i \in 0..MaxComments, i > n PROVE comMissed'[i] = 0
  <2>1. i \notin refused
    BY <1>1, <1>2, <1>9
  <2>2. comMissed[i] = 0 /\ comMissed'[i] = comMissed[i] + 0
    BY <1>2, <1>7, <1>9, <2>1
  <2> QED
    BY <2>2
<1>10. ComRefused'
  BY <1>1, <1>2, <1>7, <1>9 DEF ComRefused
<1>11. ComTables'
  BY <1>1, <1>5, <1>8, <1>10 DEF ComTables
<1>12. ASSUME NEW j \in Nat, j \in 1..n => replies[j] = replyCount[j]
       PROVE  Counted(j)' = Counted(j) + IF j = 0 \/ root = j THEN by ELSE 0
  <2>1. CASE j = 0
    <3>1. Counted(j) = articleCount + comMissed[0] /\ Counted(j)' = articleCount' + comMissed'[0]
      BY <2>1 DEF Counted
    <3>2. 0 \in 0..MaxComments
      BY <1>2
    <3>3. comMissed[0] \in Int /\ comMissed'[0] = comMissed[0] + IF 0 \in refused THEN by ELSE 0
      BY <1>4, <1>7, <3>2
    <3>4. CASE 0 \in refused
      BY <1>2, <1>3, <2>1, <3>1, <3>3, <3>4
    <3>5. CASE 0 \notin refused
      BY <1>2, <1>3, <2>1, <3>1, <3>3, <3>5
    <3> QED
      BY <3>4, <3>5
  <2>2. CASE j \in 1..n
    <3>1. j # 0 /\ j \in 0..MaxComments
      BY <1>2, <2>2
    <3>2. Counted(j) = replyCount[j] + comMissed[j] /\ Counted(j)' = replyCount'[j] + comMissed'[j]
      BY <1>1, <2>2, <3>1 DEF Counted
    <3>3. /\ comMissed[j] \in Int /\ comMissed'[j] = comMissed[j] + IF j \in refused THEN by ELSE 0
          /\ replyCount[j] \in Int /\ replyCount'[j] = replyCount[j] + IF j \in {0, root} \ refused THEN by ELSE 0
      BY <1>4, <1>6, <1>7, <1>12, <2>2, <3>1
    <3>4. CASE j # root
      <4>1. j \notin refused /\ j \notin {0, root} \ refused
        BY <1>3, <3>1, <3>4
      <4>2. comMissed'[j] = comMissed[j] + 0 /\ replyCount'[j] = replyCount[j] + 0
        BY <3>3, <4>1
      <4> QED
        BY <3>1, <3>2, <3>3, <3>4, <4>2
    <3>5. CASE j = root /\ j \in refused
      <4>1. comMissed'[j] = comMissed[j] + by /\ replyCount'[j] = replyCount[j] + 0
        BY <3>3, <3>5
      <4> QED
        BY <3>2, <3>3, <3>5, <4>1
    <3>6. CASE j = root /\ j \notin refused
      <4>1. comMissed'[j] = comMissed[j] + 0 /\ replyCount'[j] = replyCount[j] + by
        BY <3>3, <3>6
      <4> QED
        BY <3>2, <3>3, <3>6, <4>1
    <3> QED
      BY <3>4, <3>5, <3>6
  <2>3. CASE j # 0 /\ j \notin 1..n
    <3>1. Counted(j) = 0 /\ Counted(j)' = 0 /\ j # root
      BY <1>1, <1>2, <2>3 DEF Counted
    <3> QED
      BY <2>3, <3>1
  <2> QED
    BY <2>1, <2>2, <2>3
<1> QED
  BY <1>1, <1>11, <1>12

LEMMA ComCountNew ==
  ASSUME ComInv, NEW r \in ComReqs, Coms!CountNew(r)
  PROVE  ComInv'
<1>1. ComTables /\ Len(comments) \in Nat /\ replyCount \in Seq(Int) /\ Len(replyCount) = Len(comments)
  BY DEF ComInv, ComTables
<1> DEFINE state == [pc |-> "done"]
<1>2. PICK root : root = comReq[r].root
  OBVIOUS
<1>3. /\ comReq[r].pc = "count" /\ UNCHANGED <<comments, comBlurred>> /\ Coms!Count({0, root}, 1, replyCount)
      /\ Coms!Goto(r, state) /\ state.pc = "done"
  BY <1>2 DEF Coms!CountNew, Coms!Finished
<1>4. root \in 0..Len(comments)
  BY <1>2, <1>3 DEF ComInv, ComRequests, ComRequest
<1> HIDE DEF state
<1>5. /\ ComTables'
      /\ \A j \in Nat : Counted(j)' = Counted(j) + IF j = 0 \/ root = j THEN 1 ELSE 0
  BY <1>1, <1>3, <1>4, ComCounts
<1>7. ASSUME NEW j \in Nat \ Removed
      PROVE  Counted(j)' + Cardinality(Written(state, j)) + Cardinality(TakenOff(comReq[r], j))
               = Counted(j) + Cardinality(Written(comReq[r], j)) + Cardinality(TakenOff(state, j))
  <2>1. /\ Written(state, j) = {} /\ TakenOff(comReq[r], j) = {} /\ TakenOff(state, j) = {}
        /\ Written(comReq[r], j) = IF j = 0 \/ root = j THEN {0} ELSE {}
    BY <1>2, <1>3 DEF Written, TakenOff, Concerns
  <2>2. Cardinality({}) = 0 /\ Cardinality({0}) = 1
    BY CountEmpty
  <2>3. Counted(j) \in Int
    BY <1>1, ComPresent
  <2>4. Counted(j)' = Counted(j) + IF j = 0 \/ root = j THEN 1 ELSE 0
    BY <1>5
  <2>5. CASE j = 0 \/ root = j
    BY <2>1, <2>2, <2>3, <2>4, <2>5
  <2>6. CASE ~(j = 0 \/ root = j)
    BY <2>1, <2>2, <2>3, <2>4, <2>6
  <2> QED
    BY <2>5, <2>6
<1>8. ComRequest(state, comments)
  BY <1>3 DEF ComRequest
<1> QED
  BY <1>3, <1>5, <1>7, <1>8, ComQuiet

LEMMA ComCounting == \A S : Coms!Cardinality(S) = Cardinality(S)
  BY Zenon DEF Coms!Cardinality, Cardinality

LEMMA ComCountRemoved ==
  ASSUME ComInv, NEW r \in ComReqs, Coms!CountRemoved(r)
  PROVE  ComInv'
<1>1. ComTables /\ Len(comments) \in Nat /\ replyCount \in Seq(Int) /\ Len(replyCount) = Len(comments)
  BY DEF ComInv, ComTables
<1> DEFINE state == [pc |-> "done"]
<1>2. PICK root, target, shown, n :
        root = comReq[r].root /\ target = comReq[r].target /\ shown = comReq[r].shown /\ n = Cardinality(shown)
  OBVIOUS
<1>3. PICK replies \in {replyCount, [replyCount EXCEPT ![target] = 0]} :
        (root # 0 => replies = replyCount) /\ Coms!Count({0, root}, -n, replies)
  BY <1>2, ComCounting DEF Coms!CountRemoved
<1>4. /\ comReq[r].pc = "uncount" /\ UNCHANGED <<comments, comBlurred>>
      /\ Coms!Goto(r, state) /\ state.pc = "done"
  BY DEF Coms!CountRemoved, Coms!Finished
<1>5. root \in 0..Len(comments) /\ shown \subseteq 1..Len(comments) /\ (root = 0 => comments[target].deleted)
      /\ target \in 1..Len(comments)
  BY <1>2, <1>4 DEF ComInv, ComRequests, ComRequest
<1>6. n \in Nat /\ -n \in Int
  <2>1. IsFiniteSet(1..Len(comments))
    BY <1>1, FS_Interval
  <2>2. n \in Nat
    BY <1>2, <1>5, <2>1, FS_Subset, FS_CardinalityType
  <2> QED
    BY <2>2
<1>7. /\ replies \in Seq(Int) /\ Len(replies) = Len(comments)
      /\ \A i \in 1..Len(comments) : replies[i] = replyCount[i] \/ (i = target /\ root = 0)
  BY <1>1, <1>3, <1>5
<1> HIDE DEF state
<1>8. /\ ComTables'
      /\ \A j \in Nat : (j \in 1..Len(comments) => replies[j] = replyCount[j]) =>
           Counted(j)' = Counted(j) + IF j = 0 \/ root = j THEN -n ELSE 0
  BY <1>1, <1>3, <1>4, <1>5, <1>6, <1>7, ComCounts
<1>9. ASSUME NEW j \in Nat \ Removed
      PROVE  Counted(j)' + Cardinality(Written(state, j)) + Cardinality(TakenOff(comReq[r], j))
               = Counted(j) + Cardinality(Written(comReq[r], j)) + Cardinality(TakenOff(state, j))
  <2>1. /\ Written(state, j) = {} /\ Written(comReq[r], j) = {} /\ TakenOff(state, j) = {}
        /\ TakenOff(comReq[r], j) = IF j = 0 \/ root = j THEN shown ELSE {}
    BY <1>2, <1>4 DEF Written, TakenOff, Concerns
  <2>2. Cardinality({}) = 0
    BY CountEmpty
  <2>3. Counted(j) \in Int
    BY <1>1, ComPresent
  <2>4. Counted(j)' = Counted(j) + IF j = 0 \/ root = j THEN -n ELSE 0
    <3>1. ~(j = target /\ root = 0)
      BY <1>5 DEF Removed
    <3> QED
      BY <1>7, <1>8, <3>1
  <2>5. CASE j = 0 \/ root = j
    BY <1>2, <1>6, <2>1, <2>2, <2>3, <2>4, <2>5
  <2>6. CASE ~(j = 0 \/ root = j)
    BY <2>1, <2>2, <2>3, <2>4, <2>6
  <2> QED
    BY <2>5, <2>6
<1>10. ComRequest(state, comments)
  BY <1>4 DEF ComRequest
<1> QED
  BY <1>4, <1>8, <1>9, <1>10, ComQuiet

-----------------------------------------------------------------------------
LEMMA ComCreateRow ==
  ASSUME ComInv, NEW r \in ComReqs, Coms!CreateRow(r)
  PROVE  ComInv'
<1>1. ComTables /\ Len(comments) \in Nat /\ DOMAIN comments = 1..Len(comments) /\ comments \in Seq(CommentRow)
  BY DEF ComInv, ComTables
<1>2. PICK n, q, row : /\ n = Len(comments) /\ q = comReq[r]
                       /\ row = [user |-> q.user, reply |-> q.reply, root |-> q.root, published |-> FALSE, deleted |-> FALSE]
  OBVIOUS
<1> DEFINE state == IF q.user = Admin \/ skipExamining
                      THEN [pc |-> "publish", id |-> n + 1, reply |-> q.reply, root |-> q.root]
                      ELSE [pc |-> "done"]
<1>3. /\ q.pc = "create" /\ comments' = Append(comments, row) /\ replyCount' = Append(replyCount, 0)
      /\ UNCHANGED <<articleCount, comMissed, comBlurred>> /\ Coms!Goto(r, state)
  BY <1>2 DEF Coms!CreateRow, Coms!Finished
<1>4. q.root \in 0..n /\ q.user \in Coms!Readers /\ q.reply \in Nat /\ n \in Nat
  BY <1>1, <1>2, <1>3 DEF ComInv, ComRequests, ComRequest
<1>5. row \in CommentRow
  BY <1>2, <1>4 DEF CommentRow
<1>6. /\ comments' \in Seq(CommentRow) /\ Len(comments') = n + 1 /\ comments'[n + 1] = row
      /\ \A i \in 1..n : comments'[i] = comments[i]
  BY <1>1, <1>2, <1>3, <1>5
<1>7. /\ replyCount' \in Seq(Int) /\ Len(replyCount') = n + 1 /\ replyCount'[n + 1] = 0
      /\ \A i \in 1..n : replyCount'[i] = replyCount[i]
  BY <1>1, <1>2, <1>3 DEF ComTables
<1>8. row.root = q.root /\ ~row.published /\ ~row.deleted
  BY <1>2
<1>9. \A i \in 1..(n + 1) : i = n + 1 \/ i \in 1..n
  BY <1>4
<1>10. ComTables'
  <2>1. ASSUME NEW i \in 1..(n + 1) PROVE comments'[i].root \in 0..(n + 1)
    <3>1. CASE i = n + 1
      BY <1>4, <1>6, <1>8, <3>1
    <3>2. CASE i \in 1..n
      <4>1. comments[i].root \in 0..n
        BY <1>1, <1>2, <3>2 DEF ComTables
      <4> QED
        BY <1>4, <1>6, <3>2, <4>1
    <3> QED
      BY <1>9, <3>1, <3>2
  <2>2. articleCount' \in Int
    BY <1>1, <1>3 DEF ComTables
  <2>3. ComRefused'
    <3>1. n < MaxComments
      BY <1>2 DEF Coms!CreateRow
    <3> QED
      BY <1>1, <1>2, <1>3, <1>4, <1>6, <3>1, CountsAssumption DEF ComTables, ComRefused
  <2> QED
    BY <1>6, <1>7, <2>1, <2>2, <2>3 DEF ComTables
<1>11. Onwards(0) /\ 0 \notin 1..Len(comments)
  BY <1>2, <1>4, <1>6 DEF Onwards
<1>12. /\ state.pc \in {"publish", "done"}
       /\ state.pc = "publish" => state.id = n + 1 /\ state.root = q.root
  OBVIOUS
<1> HIDE DEF state
<1>13. ComRequest(state, comments')
  BY <1>4, <1>6, <1>8, <1>12 DEF ComRequest
<1>14. Removed' = Removed
  <2>1. \A i : i \in Removed' <=> i \in Removed
    BY <1>2, <1>4, <1>6, <1>8, <1>9 DEF Removed
  <2> QED
    BY <2>1 DEF Removed
<1>15. state.pc = "publish" => state.id \notin 1..Len(comments) /\ state.id \notin Removed'
  BY <1>2, <1>4, <1>12, <1>14 DEF Removed
<1>16. ~comBlurred' => \A s \in ComReqs \ {r} : comReq[s].pc = "publish" => comReq[s].id \notin Removed'
  BY <1>3, <1>14 DEF ComInv, ComUndisturbed
<1>17. \A j : Present(j)' = Present(j)
  <2>1. Coms!Shown = {i \in 1..n : ~comments[i].deleted /\ comments[i].published}
    BY <1>1, <1>2 DEF Coms!Shown, Coms!Live, Coms!CommentIds
  <2>2. Coms!Shown' = {i \in 1..(n + 1) : ~comments'[i].deleted /\ comments'[i].published}
    BY <1>6 DEF Coms!Shown, Coms!Live, Coms!CommentIds
  <2>3. \A i : i \in Coms!Shown' <=> i \in Coms!Shown
    BY <1>4, <1>6, <1>8, <1>9, <2>1, <2>2
  <2>4. \A i \in Coms!Shown : comments'[i].root = comments[i].root
    BY <1>6, <2>1
  <2> QED
    BY <2>3, <2>4 DEF Present
<1>18. ASSUME NEW j \in Nat
       PROVE  Exchange(Counted(j), Counted(j)', Cardinality(Present(j)), Cardinality(Present(j)'),
                       Written(comReq[r], j), Written(state, j), TakenOff(comReq[r], j), TakenOff(state, j))
  <2>1. /\ Written(state, j) = {} /\ TakenOff(state, j) = {}
        /\ Written(comReq[r], j) = {} /\ TakenOff(comReq[r], j) = {}
    BY <1>2, <1>3, <1>12 DEF Written, TakenOff
  <2>2. Counted(j)' = Counted(j)
    <3>1. CASE j = 0
      BY <1>3, <3>1 DEF Counted
    <3>2. CASE j \in 1..n
      <4>1. j # 0 /\ j \in 1..Len(comments) /\ j \in 1..Len(comments')
        BY <1>2, <1>4, <1>6, <3>2
      <4>2. replyCount'[j] = replyCount[j] /\ comMissed' = comMissed
        BY <1>3, <1>7, <3>2
      <4> QED
        BY <4>1, <4>2 DEF Counted
    <3>3. CASE j = n + 1
      <4>1. n < MaxComments
        BY <1>2 DEF Coms!CreateRow
      <4>2. comMissed[n + 1] = 0
        BY <1>1, <1>2, <1>4, <4>1, CountsAssumption DEF ComTables, ComRefused
      <4>3. j # 0 /\ j \notin 1..Len(comments) /\ j \in 1..Len(comments')
        BY <1>2, <1>4, <1>6, <3>3
      <4>4. Counted(j) = 0 /\ Counted(j)' = replyCount'[j] + comMissed'[j]
        BY <4>3 DEF Counted
      <4> QED
        BY <1>3, <1>7, <3>3, <4>2, <4>4
    <3>4. CASE j # 0 /\ j \notin 1..(n + 1)
      BY <1>2, <1>4, <1>6, <3>4 DEF Counted
    <3> QED
      BY <1>9, <3>1, <3>2, <3>3, <3>4
  <2> QED
    BY <1>17, <2>1, <2>2 DEF Exchange
<1> QED
  BY <1>2, <1>3, <1>10, <1>11, <1>13, <1>15, <1>16, <1>18, ComStep

LEMMA ComPublish ==
  ASSUME ComInv, NEW r \in ComReqs, Coms!Publish(r)
  PROVE  ComInv'
<1>1. ComTables /\ Len(comments) \in Nat /\ DOMAIN comments = 1..Len(comments) /\ comments \in Seq(CommentRow)
  BY DEF ComInv, ComTables
<1>2. PICK n, id, root : n = Len(comments) /\ id = comReq[r].id /\ root = comReq[r].root
  OBVIOUS
<1> DEFINE state == [pc |-> "count", root |-> root]
<1>3. /\ comReq[r].pc = "publish" /\ comments' = [comments EXCEPT ![id].published = ~comments[id].deleted]
      /\ UNCHANGED <<articleCount, replyCount, comMissed, comBlurred>> /\ Coms!Goto(r, state)
  BY <1>2 DEF Coms!Publish
<1>4. id \in 1..n /\ root = comments[id].root /\ ~comments[id].published
  BY <1>2, <1>3 DEF ComInv, ComRequests, ComRequest
<1>5. PICK row : row = [comments[id] EXCEPT !.published = ~comments[id].deleted]
  OBVIOUS
<1>6. comments[id] \in CommentRow
  BY <1>1, <1>2, <1>4
<1>7. /\ row \in CommentRow /\ row.root = root /\ (row.deleted <=> comments[id].deleted)
      /\ (row.published <=> ~comments[id].deleted)
  BY <1>4, <1>5, <1>6 DEF CommentRow
<1>8. /\ comments' \in Seq(CommentRow) /\ Len(comments') = n /\ comments'[id] = row
      /\ \A i \in 1..n \ {id} : comments'[i] = comments[i]
  <2>1. comments' = [comments EXCEPT ![id] = row]
    BY <1>3, <1>5
  <2> QED
    BY <1>1, <1>2, <1>4, <1>7, <2>1
<1>9. \A i \in 1..n : comments'[i].root = comments[i].root /\ (comments'[i].deleted <=> comments[i].deleted)
  BY <1>4, <1>7, <1>8
<1>10. ComTables'
  <2>1. ComRefused'
    BY <1>1, <1>2, <1>3, <1>8 DEF ComTables, ComRefused
  <2> QED
    BY <1>1, <1>2, <1>3, <1>8, <1>9, <2>1 DEF ComTables
<1>11. Onwards(id)
  BY <1>1, <1>2, <1>8, <1>9 DEF Onwards
<1>12. state.pc = "count" /\ state.root = root
  OBVIOUS
<1> HIDE DEF state
<1>13. root \in 0..n
  BY <1>1, <1>2, <1>4 DEF ComTables
<1>14. ComRequest(state, comments')
  BY <1>8, <1>12, <1>13 DEF ComRequest
<1>15. Removed' = Removed
  BY <1>2, <1>8, <1>9 DEF Removed
<1>16. ~comBlurred' => /\ id \notin Removed
                      /\ \A s \in ComReqs \ {r} : comReq[s].pc = "publish" => comReq[s].id \notin Removed'
  BY <1>2, <1>3, <1>15 DEF ComInv, ComUndisturbed
<1>17. ASSUME ~comBlurred', NEW j \in Nat
       PROVE  Exchange(Counted(j), Counted(j)', Cardinality(Present(j)), Cardinality(Present(j)'),
                       Written(comReq[r], j), Written(state, j), TakenOff(comReq[r], j), TakenOff(state, j))
  <2>1. /\ Written(state, j) = (IF j = 0 \/ root = j THEN {0} ELSE {}) /\ TakenOff(state, j) = {}
        /\ Written(comReq[r], j) = {} /\ TakenOff(comReq[r], j) = {}
    BY <1>3, <1>12 DEF Written, TakenOff, Concerns
  <2>2. Counted(j)' = Counted(j) /\ Counted(j) \in Int
    BY <1>1, <1>2, <1>3, <1>8, ComPresent DEF Counted
  <2>3. \A i : i \in Coms!Shown <=> i \in 1..n /\ ~comments[i].deleted /\ comments[i].published
    BY <1>1, <1>2 DEF Coms!Shown, Coms!Live, Coms!CommentIds
  <2>4. \A i : i \in Coms!Shown' <=> i \in 1..n /\ ~comments'[i].deleted /\ comments'[i].published
    BY <1>8 DEF Coms!Shown, Coms!Live, Coms!CommentIds
  <2>5. ~comments[id].deleted
    BY <1>2, <1>4, <1>16, <1>17 DEF Removed
  <2>6. id \notin Coms!Shown /\ Coms!Shown' = Coms!Shown \cup {id}
    <3>1. \A i : i \in Coms!Shown' <=> i \in Coms!Shown \/ i = id
      BY <1>4, <1>7, <1>8, <2>3, <2>4, <2>5
    <3> QED
      BY <1>4, <2>3, <3>1
  <2>7. IsFiniteSet(Present(j)) /\ Cardinality(Present(j)) \in Nat
    BY <1>1, ComPresent
  <2>8. Cardinality({}) = 0 /\ Cardinality({0}) = 1
    BY CountEmpty
  <2>9. \A i \in Coms!Shown' : comments'[i].root = comments[i].root
    BY <1>9, <2>4
  <2>10. CASE j = 0 \/ root = j
    <3>1. id \notin Present(j) /\ Present(j)' = Present(j) \cup {id}
      BY <1>4, <2>6, <2>9, <2>10 DEF Present
    <3>2. Cardinality(Present(j)') = Cardinality(Present(j)) + 1
      BY <2>7, <3>1, FS_AddElement
    <3>3. PICK u, i : u = Counted(j) /\ i = Cardinality(Present(j))
      OBVIOUS
    <3>4. u + 1 + i + 0 = u + 0 + (i + 1) + 0
      BY <2>2, <2>7, <3>3
    <3>5. Counted(j)' = u /\ Cardinality(Present(j)') = i + 1
      BY <2>2, <3>2, <3>3
    <3> QED
      BY <2>1, <2>8, <2>10, <3>3, <3>4, <3>5 DEF Exchange
  <2>11. CASE ~(j = 0 \/ root = j)
    <3>1. Present(j)' = Present(j)
      BY <1>4, <2>6, <2>9, <2>11 DEF Present
    <3> QED
      BY <2>1, <2>2, <2>11, <3>1 DEF Exchange
  <2> QED
    BY <2>10, <2>11
<1>18. state.pc # "publish"
  BY <1>12
<1> QED
  BY <1>2, <1>3, <1>10, <1>11, <1>14, <1>16, <1>17, <1>18, ComStep

LEMMA ComRemoveRows ==
  ASSUME ComInv, NEW r \in ComReqs, Coms!RemoveRows(r)
  PROVE  ComInv'
<1>1. ComTables /\ Len(comments) \in Nat /\ DOMAIN comments = 1..Len(comments) /\ comments \in Seq(CommentRow)
  BY DEF ComInv, ComTables
<1>2. PICK n, q, target, root, ids, shown :
        /\ n = Len(comments) /\ q = comReq[r] /\ target = q.target /\ root = q.root /\ ids = q.ids /\ shown = q.shown
  OBVIOUS
<1> DEFINE state == [pc |-> "uncount", target |-> target, root |-> root, ids |-> ids, shown |-> shown]
<1>3. q.pc = "delete" /\ UNCHANGED <<articleCount, replyCount, comMissed>>
  BY <1>2 DEF Coms!RemoveRows
<1>4. /\ target \in 1..n /\ root \in 0..n /\ shown \subseteq 1..n /\ ids \subseteq 1..n
      /\ q = [pc |-> "delete", target |-> target, root |-> root, ids |-> ids, shown |-> shown]
      /\ root # 0 => \A k \in ids : comments[k].root = root
      /\ root = 0 => /\ target \in ids \/ comments[target].deleted
                     /\ comments[target].root = 0
                     /\ \A k \in ids : k = target \/ comments[k].root = target
  BY <1>2, <1>3 DEF ComInv, ComRequests, ComRequest
<1>5. Coms!Goto(r, state)
  <2>1. Coms!Goto(r, [q EXCEPT !.pc = "uncount"])
    BY <1>2 DEF Coms!RemoveRows
  <2>2. [q EXCEPT !.pc = "uncount"] = state
    BY <1>4
  <2> QED
    BY <2>1, <2>2
<1>6. comments' = [i \in 1..n |-> IF i \in ids THEN [comments[i] EXCEPT !.deleted = TRUE] ELSE comments[i]]
  BY <1>1, <1>2 DEF Coms!RemoveRows, Coms!CommentIds
<1>7. /\ comBlurred => comBlurred'
      /\ ~comBlurred' => /\ shown = ids \cap Coms!Shown /\ ids \subseteq Coms!Live
                        /\ \A s \in ComReqs : comReq[s].pc = "publish" => comReq[s].id \notin ids
  BY Zenon, <1>2 DEF Coms!RemoveRows
<1>8. ASSUME NEW i \in 1..n
      PROVE  /\ comments'[i] \in CommentRow /\ comments'[i].root = comments[i].root
             /\ comments'[i].published = comments[i].published
             /\ comments'[i].deleted <=> comments[i].deleted \/ i \in ids
  <2>1. comments[i] \in CommentRow
    BY <1>1, <1>2
  <2>2. CASE i \in ids
    <3>1. comments'[i] = [comments[i] EXCEPT !.deleted = TRUE]
      BY <1>6, <2>2
    <3> QED
      BY <2>1, <2>2, <3>1 DEF CommentRow
  <2>3. CASE i \notin ids
    BY <1>6, <2>1, <2>3
  <2> QED
    BY <2>2, <2>3
<1>9. comments' \in Seq(CommentRow) /\ Len(comments') = n
  <2>1. comments' \in [1..n -> CommentRow]
    BY <1>6, <1>8
  <2> QED
    BY <1>1, <1>2, <2>1
<1>10. ComTables'
  <2>1. ComRefused'
    BY <1>1, <1>2, <1>3, <1>9 DEF ComTables, ComRefused
  <2> QED
    BY <1>1, <1>2, <1>3, <1>8, <1>9, <2>1 DEF ComTables
<1>11. Onwards(0) /\ 0 \notin 1..Len(comments)
  BY <1>1, <1>2, <1>8, <1>9 DEF Onwards
<1>12. state.pc = "uncount" /\ state.target = target /\ state.root = root /\ state.shown = shown
  OBVIOUS
<1> HIDE DEF state
<1>13. ComRequest(state, comments')
  <2>1. root = 0 => comments'[target].deleted
    BY <1>4, <1>8
  <2> QED
    BY <1>4, <1>9, <1>12, <2>1 DEF ComRequest
<1>14. \A i : i \in Removed' <=> i \in Removed \/ i \in ids
  BY <1>2, <1>4, <1>8, <1>9 DEF Removed
<1>15. ~comBlurred' => \A s \in ComReqs \ {r} : comReq[s].pc = "publish" => comReq[s].id \notin Removed'
  BY <1>7, <1>14 DEF ComInv, ComUndisturbed
<1>16. ASSUME ~comBlurred', NEW j \in Nat \ Removed'
       PROVE  Exchange(Counted(j), Counted(j)', Cardinality(Present(j)), Cardinality(Present(j)'),
                       Written(comReq[r], j), Written(state, j), TakenOff(comReq[r], j), TakenOff(state, j))
  <2>1. /\ TakenOff(state, j) = (IF j = 0 \/ root = j THEN shown ELSE {}) /\ Written(state, j) = {}
        /\ Written(comReq[r], j) = {} /\ TakenOff(comReq[r], j) = {}
    BY <1>2, <1>3, <1>12 DEF Written, TakenOff, Concerns
  <2>2. Counted(j)' = Counted(j) /\ Counted(j) \in Int
    BY <1>1, <1>2, <1>3, <1>9, ComPresent DEF Counted
  <2>3. \A i : i \in Coms!Shown <=> i \in 1..n /\ ~comments[i].deleted /\ comments[i].published
    BY <1>1, <1>2 DEF Coms!Shown, Coms!Live, Coms!CommentIds
  <2>4. \A i : i \in Coms!Shown' <=> i \in 1..n /\ ~comments'[i].deleted /\ comments'[i].published
    BY <1>9 DEF Coms!Shown, Coms!Live, Coms!CommentIds
  <2>5. \A i : i \in Coms!Shown' <=> i \in Coms!Shown /\ i \notin ids
    BY <1>8, <2>3, <2>4
  <2>6. \A i \in Coms!Shown' : comments'[i].root = comments[i].root
    BY <1>8, <2>4
  <2>7. Present(j)' = Present(j) \ ids
    BY <2>5, <2>6 DEF Present
  <2>8. shown = ids \cap Coms!Shown
    BY <1>7, <1>16
  <2>9. Present(j) \cap ids = IF j = 0 \/ root = j THEN shown ELSE {}
    <3>1. CASE j = 0
      BY <2>8, <3>1 DEF Present
    <3>2. CASE j # 0 /\ root # 0
      BY <1>4, <2>8, <3>2 DEF Present
    <3>3. CASE j # 0 /\ root = 0
      <4>1. j # target
        BY <1>4, <1>14, <3>3, <1>2 DEF Removed
      <4> QED
        BY <1>4, <3>3, <4>1 DEF Present
    <3> QED
      BY <3>1, <3>2, <3>3
  <2>10. PICK X : X = Present(j) \cap ids
    OBVIOUS
  <2>11. IsFiniteSet(Present(j)) /\ Cardinality(Present(j)) \in Nat
    BY <1>1, ComPresent
  <2>12. Cardinality(X) \in Nat
    BY <2>10, <2>11, FS_Subset, FS_CardinalityType
  <2>13. Cardinality(Present(j)') = Cardinality(Present(j)) - Cardinality(X)
    BY <2>7, <2>10, <2>11, FS_Difference
  <2>14. TakenOff(state, j) = X
    BY <2>1, <2>9, <2>10
  <2>15. Cardinality({}) = 0
    BY CountEmpty
  <2>16. PICK u, i, x : u = Counted(j) /\ i = Cardinality(Present(j)) /\ x = Cardinality(X)
    OBVIOUS
  <2>17. u + 0 + i + 0 = u + 0 + (i - x) + x
    BY <2>2, <2>11, <2>12, <2>16
  <2> QED
    BY <2>1, <2>2, <2>13, <2>14, <2>15, <2>16, <2>17 DEF Exchange
<1>17. state.pc # "publish"
  BY <1>12
<1> QED
  BY <1>5, <1>7, <1>10, <1>11, <1>13, <1>15, <1>16, <1>17, ComStep

-----------------------------------------------------------------------------
LEMMA ComAborted ==
  ASSUME ComInv, NEW r \in ComReqs, Coms!Aborted(r)
  PROVE  ComInv'
<1> DEFINE state == [pc |-> "done"]
<1>1. /\ Coms!Goto(r, state) /\ UNCHANGED <<comments, articleCount, replyCount, comMissed, comBlurred>>
      /\ comReq[r].pc \in {"create", "publish", "find", "delete"} /\ state.pc = "done"
  BY DEF Coms!Aborted, Coms!Finished
<1>2. ComTables /\ Len(comments) \in Nat
  BY DEF ComInv, ComTables
<1>3. ComTables' /\ ComRequest(state, comments')
  BY <1>1, <1>2 DEF ComTables, ComRefused, ComRequest
<1>4. PICK id : id = IF comReq[r].pc = "publish" THEN comReq[r].id ELSE 0
  OBVIOUS
<1>5. Onwards(id) /\ ((comReq[r].pc = "publish" /\ comReq[r].id = id) \/ id \notin 1..Len(comments))
  BY <1>1, <1>2, <1>4 DEF Onwards
<1> HIDE DEF state
<1>6. Removed' = Removed /\ \A j : Present(j)' = Present(j) /\ Counted(j)' = Counted(j)
  BY <1>1 DEF Removed, Present, Counted, Coms!Shown, Coms!Live, Coms!CommentIds
<1>7. ~comBlurred' => \A q \in ComReqs \ {r} : comReq[q].pc = "publish" => comReq[q].id \notin Removed'
  BY <1>1, <1>6 DEF ComInv, ComUndisturbed
<1>8. \A j \in Nat : /\ Written(state, j) = {} /\ TakenOff(state, j) = {}
                     /\ Written(comReq[r], j) = {} /\ TakenOff(comReq[r], j) = {}
  BY <1>1 DEF Written, TakenOff
<1>9. \A j \in Nat \ Removed' :
        Exchange(Counted(j), Counted(j)', Cardinality(Present(j)), Cardinality(Present(j)'),
                 Written(comReq[r], j), Written(state, j), TakenOff(comReq[r], j), TakenOff(state, j))
  BY <1>6, <1>8 DEF Exchange
<1>10. state.pc # "publish"
  BY <1>1
<1> QED
  BY <1>1, <1>3, <1>5, <1>7, <1>9, <1>10, ComStep

LEMMA ComStill ==
  ASSUME ComInv, UNCHANGED <<comments, articleCount, replyCount, comMissed, comReq, comBlurred>>
  PROVE  ComInv'
<1>1. ComTables'
  BY DEF ComInv, ComTables, ComRefused
<1>2. ASSUME NEW j PROVE /\ WrittenOf(j)' = WrittenOf(j) /\ TakenOffOf(j)' = TakenOffOf(j)
                        /\ Counted(j)' = Counted(j) /\ Present(j)' = Present(j)
  BY DEF WrittenOf, TakenOffOf, Written, TakenOff, Concerns, Counted, Present, Coms!Shown, Coms!Live, Coms!CommentIds
<1>3. \A j \in Nat : IsFiniteSet(Gathered(ComReqs, WrittenOf(j)')) /\ IsFiniteSet(Gathered(ComReqs, TakenOffOf(j)'))
  BY <1>2 DEF ComInv, ComRequests
<1>4. ComRequests'
  <2>1. DOMAIN comReq' = ComReqs /\ \A q \in ComReqs : ComRequest(comReq'[q], comments')
    BY DEF ComInv, ComRequests
  <2>2. \A q, s \in ComReqs :
          q # s /\ comReq'[q].pc = "publish" /\ comReq'[s].pc = "publish" => comReq'[q].id # comReq'[s].id
    BY DEF ComInv, ComRequests
  <2> QED
    BY <1>3, <2>1, <2>2 DEF ComRequests, ComRequest, Gathered
<1>5. ASSUME ~comBlurred, NEW j \in Nat \ Removed
      PROVE  Balance(ComReqs, Counted(j)', WrittenOf(j)', Cardinality(Present(j)'), TakenOffOf(j)')
  BY <1>2, <1>5 DEF ComInv, ComUndisturbed
<1>6. ~comBlurred => ComUndisturbed'
  <2>1. Removed' = Removed
    BY DEF Removed
  <2>2. ~comBlurred => \A q \in ComReqs : comReq'[q].pc = "publish" => comReq'[q].id \notin Removed'
    BY <2>1 DEF ComInv, ComUndisturbed
  <2> QED
    BY <1>5, <2>1, <2>2 DEF ComUndisturbed, Balance, Gathered
<1> QED
  BY <1>1, <1>4, <1>6 DEF ComInv

LEMMA ComFirst == Coms!ComInit => ComInv
<1> SUFFICES ASSUME Coms!ComInit PROVE ComInv
  OBVIOUS
<1>1. /\ comments = <<>> /\ replyCount = <<>> /\ articleCount = 0 /\ comMissed = [i \in 0..MaxComments |-> 0]
      /\ comReq = [r \in ComReqs |-> [pc |-> "idle"]]
  BY DEF Coms!ComInit
<1>2. ComTables
  BY <1>1, CountsAssumption DEF ComTables, ComRefused
<1>3. ASSUME NEW j PROVE Gathered(ComReqs, WrittenOf(j)) = {} /\ Gathered(ComReqs, TakenOffOf(j)) = {}
  <2>1. \A q \in ComReqs : WrittenOf(j)[q] = {} /\ TakenOffOf(j)[q] = {}
    BY <1>1 DEF WrittenOf, TakenOffOf, Written, TakenOff
  <2> QED
    BY <2>1 DEF Gathered
<1>4. ComRequests
  BY <1>1, <1>3, FS_EmptySet DEF ComRequests, ComRequest
<1>5. ASSUME NEW j \in Nat PROVE Counted(j) = 0 /\ Present(j) = {}
  <2>1. comMissed[0] = 0 /\ Len(comments) = 0
    BY <1>1, CountsAssumption
  <2> QED
    BY <1>1, <2>1 DEF Counted, Present, Coms!Shown, Coms!Live, Coms!CommentIds
<1>6. ComUndisturbed
  BY <1>1, <1>3, <1>5, FS_EmptySet DEF ComUndisturbed, Balance
<1> QED
  BY <1>2, <1>4, <1>6 DEF ComInv

LEMMA ComKeptStep == ComInv /\ [CountNext]_<<part, vars, favVars, comVars>> => ComInv'
<1> SUFFICES ASSUME ComInv, [CountNext]_<<part, vars, favVars, comVars>> PROVE ComInv'
  OBVIOUS
<1>1. CASE Coms!ComNext
  <2>1. ASSUME NEW r \in ComReqs,
               \/ \E who \in Coms!Readers, reply \in Coms!CommentIds \cup {0} : Coms!CreateFind(r, who, reply)
               \/ Coms!CreateRow(r) \/ Coms!Publish(r) \/ Coms!CountNew(r)
               \/ \E who \in Coms!Readers, i \in Coms!CommentIds : Coms!RemoveTake(r, who, i)
               \/ Coms!RemoveFind(r) \/ Coms!RemoveRows(r) \/ Coms!CountRemoved(r) \/ Coms!Aborted(r)
        PROVE  ComInv'
    BY <2>1, ComCreateFind, ComCreateRow, ComPublish, ComCountNew, ComRemoveTake, ComRemoveFind, ComRemoveRows,
       ComCountRemoved, ComAborted
  <2>2. ASSUME NEW i \in Coms!CommentIds, Coms!Digg(i) PROVE ComInv'
    BY <2>2, ComStill DEF Coms!Digg
  <2> QED
    BY <1>1, <2>1, <2>2 DEF Coms!ComNext
<1>2. CASE UNCHANGED comVars
  BY <1>2, ComStill DEF comVars
<1> QED
  BY <1>1, <1>2 DEF CountNext

LEMMA ComSettled == ComInv => CommentsCounted
<1> SUFFICES ASSUME ComInv, ~comBlurred, \A r \in ComReqs : comReq[r].pc \in {"idle", "done"}
             PROVE  /\ articleCount + comMissed[0] = Cardinality(Coms!ManList(1, Author))
                    /\ \A root \in Coms!RootList : replyCount[root] + comMissed[root] = Cardinality(Coms!ReplyList(root))
  BY Zenon, ComCounting DEF CommentsCounted, Coms!CommentsCounted
<1>1. ASSUME NEW j \in Nat \ Removed PROVE Counted(j) = Cardinality(Present(j))
  <2>1. \A q \in ComReqs : WrittenOf(j)[q] = {} /\ TakenOffOf(j)[q] = {}
    BY DEF WrittenOf, TakenOffOf, Written, TakenOff
  <2>2. Gathered(ComReqs, WrittenOf(j)) = {} /\ Gathered(ComReqs, TakenOffOf(j)) = {}
    BY <2>1 DEF Gathered
  <2>3. Counted(j) + 0 = Cardinality(Present(j)) + 0
    BY <2>2, FS_EmptySet DEF ComInv, ComUndisturbed, Balance
  <2>4. Counted(j) \in Int /\ Cardinality(Present(j)) \in Nat
    BY ComPresent DEF ComInv
  <2> QED
    BY <2>3, <2>4
<1>2. articleCount + comMissed[0] = Cardinality(Coms!ManList(1, Author))
  <2>1. Present(0) = Coms!ManList(1, Author)
    BY DEF Present, Coms!ManList
  <2>2. 0 \in Nat \ Removed /\ Counted(0) = articleCount + comMissed[0]
    BY DEF Removed, Counted
  <2> QED
    BY <1>1, <2>1, <2>2
<1>3. ASSUME NEW root \in Coms!RootList
      PROVE  replyCount[root] + comMissed[root] = Cardinality(Coms!ReplyList(root))
  <2>1. root \in 1..Len(comments) /\ root \notin Removed
    BY DEF Coms!RootList, Coms!Shown, Coms!Live, Coms!CommentIds, Removed, ComInv, ComTables
  <2>2. root # 0 /\ root \in Nat /\ Counted(root) = replyCount[root] + comMissed[root]
    BY <2>1 DEF Counted, ComInv, ComTables
  <2>3. Present(root) = Coms!ReplyList(root)
    BY <2>2 DEF Present, Coms!ReplyList
  <2> QED
    BY <1>1, <2>1, <2>2, <2>3
<1> QED
  BY <1>2, <1>3

(* SetCacheComment, SetCacheReply and DelCacheReply keep the books: once    *)
(* the requests have ended, the article shows the comments its author can   *)
(* list and each top-level comment the replies its list has, less what      *)
(* Redis refused to count, for any number of requests and comments and      *)
(* whichever counts failed.  Double removals and publications during a      *)
(* removal are left out, as in the run.                                     *)
THEOREM CommentsAreCounted == CountSpec => []CommentsCounted
<1>1. CountInit => ComInv
  BY ComFirst DEF CountInit
<1> QED
  BY <1>1, ComKeptStep, ComSettled, PTL DEF CountSpec

-----------------------------------------------------------------------------
(* Types.  Beside what the accounts say of them: where a request stands, the *)
(* titles and the number of folders, and that a reply follows what it        *)
(* answers.                                                                  *)

FavPCs == {"idle", "switch", "count", "patch", "lower", "commit", "done"}

FavPlain ==
  /\ \A i \in 1..Len(folder) : folder[i].title \in Titles
  /\ Len(folder) <= MaxFolders /\ favBlurred \in BOOLEAN
  /\ \A q \in FavReqs : favReq[q].pc \in FavPCs

LEMMA FavMoves ==
  ASSUME FavInv, FavPlain, NEW r \in FavReqs, NEW state, Favs!Goto(r, state), state.pc \in FavPCs
  PROVE  \A q \in FavReqs : favReq'[q].pc \in FavPCs
BY DEF FavInv, FavRequests, FavPlain, Favs!Goto

LEMMA FavGrows ==
  ASSUME FavInv, FavPlain, NEW title \in Titles, NEW isDefault, Favs!NewFolder(title, isDefault)
  PROVE  (\A i \in 1..Len(folder') : folder'[i].title \in Titles) /\ Len(folder') <= MaxFolders
BY CountsAssumption DEF FavInv, FavTables, FavPlain, Favs!NewFolder

LEMMA FavPlainKept ==
  ASSUME FavInv, FavPlain, Favs!FavNext
  PROVE  FavPlain'
<1>1. ASSUME NEW t \in Titles, Favs!CreateFolder(t) PROVE FavPlain'
  BY <1>1, FavGrows DEF FavPlain, Favs!CreateFolder
<1>2. ASSUME NEW i \in DOMAIN folder, NEW t \in Titles, Favs!RenameFolder(i, t) PROVE FavPlain'
  <2>1. folder' = [folder EXCEPT ![i] = [folder[i] EXCEPT !.title = t]] /\ UNCHANGED <<favReq, favBlurred>>
    BY <1>2 DEF Favs!RenameFolder
  <2>2. DOMAIN folder = 1..Len(folder) /\ folder \in Seq(FolderRow)
    BY DEF FavInv, FavTables
  <2>3. Len(folder') = Len(folder) /\ \A k \in 1..Len(folder) : k # i => folder'[k] = folder[k]
    BY <2>1, <2>2
  <2>4. folder'[i].title = t
    BY <2>1, <2>2 DEF FolderRow
  <2> QED
    BY <2>1, <2>3, <2>4 DEF FavPlain
<1>3. ASSUME NEW r \in FavReqs, NEW a \in Ids, Favs!CreateDefault(r, a) PROVE FavPlain'
  <2>1. Favs!Goto(r, [pc |-> "count", article |-> a, by |-> 1]) /\ favBlurred' = favBlurred
    BY <1>3 DEF Favs!CreateDefault
  <2>2. Favs!NewFolder(Default, TRUE)
    BY <1>3 DEF Favs!CreateDefault
  <2> QED
    BY <2>1, <2>2, FavGrows, FavMoves, CountsAssumption DEF FavPlain, FavPCs
<1>4. ASSUME NEW r \in FavReqs, NEW a \in Ids, NEW i \in DOMAIN folder, Favs!TakeFolder(r, a, i) PROVE FavPlain'
  <2>1. Favs!Goto(r, [pc |-> "switch", article |-> a, folder |-> i]) /\ UNCHANGED <<folder, favBlurred>>
    BY <1>4 DEF Favs!TakeFolder
  <2> QED
    BY <2>1, FavMoves DEF FavPlain, FavPCs
<1>5. ASSUME NEW r \in FavReqs, Favs!SwitchFavorite(r) PROVE FavPlain'
  <2>1. /\ \E by \in {1, -1} : Favs!Goto(r, [pc |-> "count", article |-> favReq[r].article, by |-> by])
        /\ UNCHANGED <<folder, favBlurred>>
    BY <1>5 DEF Favs!SwitchFavorite
  <2> QED
    BY <2>1, FavMoves DEF FavPlain, FavPCs
<1>6. ASSUME NEW r \in FavReqs, Favs!SetCacheFavorite(r) \/ Favs!PatchCount(r) PROVE FavPlain'
  <2>1. Favs!Goto(r, Favs!Finished) /\ UNCHANGED <<folder, favBlurred>>
    BY <1>6 DEF Favs!SetCacheFavorite, Favs!PatchCount
  <2> QED
    BY <2>1, FavMoves DEF FavPlain, FavPCs, Favs!Finished
<1>7. ASSUME NEW r \in FavReqs, NEW i \in DOMAIN folder, NEW list \in SUBSET Ids, Favs!PatchFind(r, i, list)
      PROVE  FavPlain'
  <2>1. /\ \E found : Favs!Goto(r, [pc |-> "patch", found |-> found])
        /\ folder' = folder /\ favBlurred' \in BOOLEAN
    BY <1>7 DEF Favs!PatchFind
  <2> QED
    BY <2>1, FavMoves DEF FavPlain, FavPCs
<1>8. ASSUME NEW r \in FavReqs, Favs!PatchDelete(r) PROVE FavPlain'
  <2>1. Favs!Goto(r, [pc |-> "lower", found |-> favReq[r].found]) /\ folder' = folder /\ favBlurred' \in BOOLEAN
    BY <1>8 DEF Favs!PatchDelete
  <2> QED
    BY <2>1, FavMoves DEF FavPlain, FavPCs
<1>9. ASSUME NEW r \in FavReqs, NEW list \in SUBSET (DOMAIN folder), Favs!BeforeDelete(r, list) PROVE FavPlain'
  <2>1. /\ \E found : Favs!Goto(r, [pc |-> "commit", found |-> found, list |-> list])
        /\ folder' = folder /\ favBlurred' \in BOOLEAN
    BY <1>9 DEF Favs!BeforeDelete
  <2> QED
    BY <2>1, FavMoves DEF FavPlain, FavPCs
<1>10. ASSUME NEW r \in FavReqs, Favs!DeleteCommit(r) PROVE FavPlain'
  <2>1. /\ folder' = [i \in DOMAIN folder |->
                        IF i \in favReq[r].list THEN [folder[i] EXCEPT !.deleted = TRUE] ELSE folder[i]]
        /\ Favs!Goto(r, Favs!Finished) /\ favBlurred' \in BOOLEAN
    BY <1>10 DEF Favs!DeleteCommit
  <2>2. DOMAIN folder = 1..Len(folder) /\ folder \in Seq(FolderRow)
    BY DEF FavInv, FavTables
  <2>3. \A i \in 1..Len(folder) : [folder[i] EXCEPT !.deleted = TRUE].title = folder[i].title
    BY <2>2 DEF FolderRow
  <2>4. Len(folder') = Len(folder) /\ \A i \in 1..Len(folder) : folder'[i].title = folder[i].title
    BY <2>1, <2>2, <2>3
  <2> QED
    BY <2>1, <2>4, FavMoves DEF FavPlain, FavPCs, Favs!Finished
<1>11. ASSUME NEW r \in FavReqs, Favs!DeleteRollback(r) \/ Favs!Aborted(r) PROVE FavPlain'
  <2>1. Favs!Goto(r, Favs!Finished) /\ folder' = folder /\ favBlurred' \in BOOLEAN
    BY <1>11 DEF Favs!DeleteRollback, Favs!Aborted, FavPlain
  <2> QED
    BY <2>1, FavMoves DEF FavPlain, FavPCs, Favs!Finished
<1> QED
  BY <1>1, <1>2, <1>3, <1>4, <1>5, <1>6, <1>7, <1>8, <1>9, <1>10, <1>11 DEF Favs!FavNext

LEMMA FavFits == FavInv /\ FavPlain => Favs!FavTypeOK
<1> SUFFICES ASSUME FavInv, FavPlain PROVE Favs!FavTypeOK
  OBVIOUS
<1>1. folder \in Seq(Favs!FavRow)
  <2>1. \A i \in 1..Len(folder) : folder[i] \in Favs!FavRow
    <3> SUFFICES ASSUME NEW i \in 1..Len(folder) PROVE folder[i] \in Favs!FavRow
      OBVIOUS
    <3>1. folder[i] \in FolderRow /\ folder[i].title \in Titles
      BY DEF FavInv, FavTables, FavPlain
    <3> QED
      BY <3>1 DEF FolderRow, Favs!FavRow
  <2> QED
    BY <2>1 DEF FavInv, FavTables
<1> QED
  BY <1>1 DEF FavInv, FavTables, FavPlain, FavPCs, Favs!FavTypeOK

ComPCs == {"idle", "create", "publish", "count", "find", "delete", "uncount", "done"}

ComPlain ==
  /\ \A i \in 1..Len(comments) : comments[i].reply \in 0..i - 1 /\ comments[i].root \in 0..i - 1
  /\ diggs \subseteq 1..Len(comments)
  /\ \A q \in ComReqs : /\ comReq[q].pc \in ComPCs
                        /\ comReq[q].pc = "create" => comReq[q].reply \in 0..Len(comments)

LEMMA ComMoves ==
  ASSUME ComInv, ComPlain, NEW r \in ComReqs, NEW state, Coms!Goto(r, state), state.pc \in ComPCs,
         Len(comments) <= Len(comments'), Len(comments') \in Nat,
         state.pc = "create" => state.reply \in 0..Len(comments)
  PROVE  \A q \in ComReqs : /\ comReq'[q].pc \in ComPCs
                            /\ comReq'[q].pc = "create" => comReq'[q].reply \in 0..Len(comments')
<1>1. Len(comments) \in Nat
  BY DEF ComInv, ComTables
<1> QED
  BY <1>1 DEF ComInv, ComRequests, ComPlain, Coms!Goto

\* Which comment a row answers does not change with its other columns.
LEMMA Replying ==
  ASSUME ComPlain, Len(comments') = Len(comments),
         NEW r \in ComReqs, NEW state, Coms!Goto(r, state), state.pc \in ComPCs \ {"create"}, ComInv,
         \A i \in 1..Len(comments) : comments'[i].reply = comments[i].reply /\ comments'[i].root = comments[i].root,
         diggs' \subseteq diggs
  PROVE  ComPlain'
<1>1. \A i \in 1..Len(comments') : comments'[i].reply \in 0..i - 1 /\ comments'[i].root \in 0..i - 1
  BY DEF ComPlain
<1>2. Len(comments) \in Nat
  BY DEF ComInv, ComTables
<1>3. diggs' \subseteq 1..Len(comments')
  BY DEF ComPlain
<1> QED
  BY <1>1, <1>2, <1>3, ComMoves DEF ComPlain

LEMMA ComPlainKept ==
  ASSUME ComInv, ComPlain, Coms!ComNext
  PROVE  ComPlain'
<1>0. comments \in Seq(CommentRow) /\ Len(comments) \in Nat /\ DOMAIN comments = 1..Len(comments)
  BY DEF ComInv, ComTables
<1>1. ASSUME NEW r \in ComReqs, NEW who \in Coms!Readers, NEW reply \in Coms!CommentIds \cup {0}, Coms!CreateFind(r, who, reply)
      PROVE  ComPlain'
  <2>1. /\ \E root : Coms!Goto(r, [pc |-> "create", user |-> who, reply |-> reply, root |-> root])
        /\ UNCHANGED <<comments, diggs>>
    BY <1>1 DEF Coms!CreateFind
  <2>2. reply \in 0..Len(comments)
    BY <1>0 DEF Coms!CommentIds
  <2> QED
    BY <1>0, <2>1, <2>2, ComMoves DEF ComPlain, ComPCs
<1>2. ASSUME NEW r \in ComReqs, Coms!CreateRow(r) PROVE ComPlain'
  <2>1. PICK row : /\ row = [user |-> comReq[r].user, reply |-> comReq[r].reply, root |-> comReq[r].root,
                             published |-> FALSE, deleted |-> FALSE]
                   /\ comments' = Append(comments, row)
    BY <1>2 DEF Coms!CreateRow
  <2>2. row.reply \in 0..Len(comments) /\ row.root \in 0..Len(comments) /\ diggs' = diggs
    BY <1>2, <2>1 DEF Coms!CreateRow, ComInv, ComRequests, ComRequest, ComPlain
  <2>3. Len(comments') = Len(comments) + 1 /\ comments'[Len(comments) + 1] = row
        /\ \A i \in 1..Len(comments) : comments'[i] = comments[i]
    BY <1>0, <2>1
  <2>4. \A i \in 1..Len(comments') : comments'[i].reply \in 0..i - 1 /\ comments'[i].root \in 0..i - 1
    BY <1>0, <2>2, <2>3 DEF ComPlain
  <2>5. \E state : Coms!Goto(r, state) /\ state.pc \in {"publish", "done"}
    <3>1. CASE comReq[r].user = Admin \/ skipExamining
      BY <1>2, <3>1 DEF Coms!CreateRow
    <3>2. CASE ~(comReq[r].user = Admin \/ skipExamining)
      BY <1>2, <3>2 DEF Coms!CreateRow, Coms!Finished
    <3> QED
      BY <3>1, <3>2
  <2>6. PICK state : Coms!Goto(r, state) /\ state.pc \in {"publish", "done"}
    BY <2>5
  <2>7. state.pc \in ComPCs /\ state.pc # "create"
    BY <2>6 DEF ComPCs
  <2>8. Len(comments) <= Len(comments') /\ Len(comments') \in Nat
    BY <1>0, <2>3
  <2>9. \A q \in ComReqs : /\ comReq'[q].pc \in ComPCs
                           /\ comReq'[q].pc = "create" => comReq'[q].reply \in 0..Len(comments')
    BY <2>6, <2>7, <2>8, ComMoves
  <2>10. diggs' \subseteq 1..Len(comments')
    BY <1>0, <2>2, <2>3 DEF ComPlain
  <2> QED
    BY <2>4, <2>9, <2>10 DEF ComPlain
<1>3. ASSUME NEW r \in ComReqs, Coms!Publish(r) PROVE ComPlain'
  <2>1. PICK id, old : /\ id = comReq[r].id /\ old = comments[id]
                       /\ comments' = [comments EXCEPT ![id] = [old EXCEPT !.published = ~old.deleted]]
    BY <1>3 DEF Coms!Publish
  <2>2. id \in 1..Len(comments) /\ old \in CommentRow
    BY <1>0, <1>3, <2>1 DEF Coms!Publish, ComInv, ComRequests, ComRequest
  <2>3. PICK new : new = [old EXCEPT !.published = ~old.deleted]
    OBVIOUS
  <2>4. new.reply = old.reply /\ new.root = old.root
    BY <2>2, <2>3 DEF CommentRow
  <2>5. Len(comments') = Len(comments)
        /\ \A i \in 1..Len(comments) : comments'[i].reply = comments[i].reply /\ comments'[i].root = comments[i].root
    BY <1>0, <2>1, <2>2, <2>3, <2>4
  <2>6. (\E root : Coms!Goto(r, [pc |-> "count", root |-> root])) /\ diggs' = diggs
    BY <1>3 DEF Coms!Publish
  <2> QED
    BY <1>0, <2>5, <2>6, Replying DEF ComPCs
<1>4. ASSUME NEW r \in ComReqs, Coms!CountNew(r) \/ Coms!CountRemoved(r) \/ Coms!Aborted(r) PROVE ComPlain'
  <2>1. Coms!Goto(r, Coms!Finished) /\ UNCHANGED <<comments, diggs>>
    BY <1>4 DEF Coms!CountNew, Coms!CountRemoved, Coms!Aborted
  <2> QED
    BY <1>0, <2>1, ComMoves DEF ComPlain, ComPCs, Coms!Finished
<1>5. ASSUME NEW r \in ComReqs, NEW who \in Coms!Readers, NEW i \in Coms!CommentIds, Coms!RemoveTake(r, who, i)
      PROVE  ComPlain'
  <2>1. (\E state : Coms!Goto(r, state) /\ state.pc \in {"find", "delete"}) /\ UNCHANGED <<comments, diggs>>
    <3>1. CASE comments[i].root = 0
      BY <1>5, <3>1 DEF Coms!RemoveTake
    <3>2. CASE comments[i].root # 0
      BY <1>5, <3>2 DEF Coms!RemoveTake
    <3> QED
      BY <3>1, <3>2
  <2> QED
    BY <1>0, <2>1, ComMoves DEF ComPlain, ComPCs
<1>6. ASSUME NEW r \in ComReqs, Coms!RemoveFind(r) PROVE ComPlain'
  <2>1. (\E state : Coms!Goto(r, state) /\ state.pc \in {"done", "delete"}) /\ UNCHANGED <<comments, diggs>>
    BY <1>6 DEF Coms!RemoveFind, Coms!Finished
  <2> QED
    BY <1>0, <2>1, ComMoves DEF ComPlain, ComPCs
<1>7. ASSUME NEW r \in ComReqs, Coms!RemoveRows(r) PROVE ComPlain'
  <2>1. /\ comments' = [i \in DOMAIN comments |->
                          IF i \in comReq[r].ids THEN [comments[i] EXCEPT !.deleted = TRUE] ELSE comments[i]]
        /\ diggs' \subseteq diggs
        /\ Coms!Goto(r, [comReq[r] EXCEPT !.pc = "uncount"]) /\ comReq[r].pc = "delete"
    BY <1>7 DEF Coms!RemoveRows, Coms!CommentIds
  <2>2. \A i \in 1..Len(comments) : /\ [comments[i] EXCEPT !.deleted = TRUE].reply = comments[i].reply
                                    /\ [comments[i] EXCEPT !.deleted = TRUE].root = comments[i].root
    BY <1>0 DEF CommentRow
  <2>3. Len(comments') = Len(comments)
        /\ \A i \in 1..Len(comments) : comments'[i].reply = comments[i].reply /\ comments'[i].root = comments[i].root
    BY <1>0, <2>1, <2>2
  <2>4. [comReq[r] EXCEPT !.pc = "uncount"].pc = "uncount"
    BY <2>1 DEF ComInv, ComRequests, ComRequest
  <2> QED
    BY <1>0, <2>1, <2>3, <2>4, Replying DEF ComPCs
<1>8. ASSUME NEW i \in Coms!CommentIds, Coms!Digg(i) PROVE ComPlain'
  BY <1>0, <1>8 DEF Coms!Digg, Coms!CommentIds, ComPlain
<1> QED
  BY <1>1, <1>2, <1>3, <1>4, <1>5, <1>6, <1>7, <1>8 DEF Coms!ComNext

LEMMA ComFits == ComInv /\ ComPlain => Coms!ComTypeOK
<1> SUFFICES ASSUME ComInv, ComPlain PROVE Coms!ComTypeOK
  OBVIOUS
<1>1. DOMAIN comments = 1..Len(comments) /\ DOMAIN replyCount = DOMAIN comments
  BY DEF ComInv, ComTables
<1>2. \A i \in 1..Len(comments) : comments[i].user \in Coms!Readers
  <2> SUFFICES ASSUME NEW i \in 1..Len(comments) PROVE comments[i].user \in Coms!Readers
    OBVIOUS
  <2>1. comments[i] \in CommentRow
    BY DEF ComInv, ComTables
  <2> QED
    BY <2>1 DEF CommentRow
<1> QED
  BY <1>1, <1>2 DEF ComInv, ComTables, ComRefused, ComPlain, ComPCs, Coms!ComTypeOK, Coms!CommentIds

(* Every variable of the three counts keeps its type, for any constants.   *)
THEOREM CountsTyped == CountSpec => []TypesOK
<1>1. CountInit => FavInv /\ FavPlain /\ ComInv /\ ComPlain
  <2> SUFFICES ASSUME CountInit PROVE FavPlain /\ ComPlain
    BY FavFirst, ComFirst DEF CountInit
  <2>1. folder = <<>> /\ favBlurred = FALSE /\ favReq = [r \in FavReqs |-> [pc |-> "idle"]]
    BY DEF CountInit, Favs!FavInit
  <2>2. comments = <<>> /\ diggs = {} /\ comReq = [r \in ComReqs |-> [pc |-> "idle"]]
    BY DEF CountInit, Coms!ComInit
  <2>3. Len(folder) = 0 /\ Len(comments) = 0
    BY <2>1, <2>2
  <2>4. FavPlain
    <3>1. 1..Len(folder) = {} /\ Len(folder) <= MaxFolders
      BY <2>3, CountsAssumption
    <3>2. \A q \in FavReqs : favReq[q].pc = "idle"
      BY <2>1
    <3> QED
      BY <2>1, <3>1, <3>2 DEF FavPlain, FavPCs
  <2>5. ComPlain
    BY <2>2, <2>3 DEF ComPlain, ComPCs
  <2> QED
    BY <2>4, <2>5
<1>2. FavInv /\ FavPlain /\ [CountNext]_<<part, vars, favVars, comVars>> => FavPlain'
  <2>1. CASE UNCHANGED favVars
    BY <2>1 DEF favVars, FavPlain
  <2> QED
    BY <2>1, FavPlainKept DEF CountNext
<1>3. ComInv /\ ComPlain /\ [CountNext]_<<part, vars, favVars, comVars>> => ComPlain'
  <2>1. CASE UNCHANGED comVars
    BY <2>1 DEF comVars, ComPlain
  <2> QED
    BY <2>1, ComPlainKept DEF CountNext
<1>4. CountInit => Init
  BY DEF CountInit
<1>5. [CountNext]_<<part, vars, favVars, comVars>> => [Next]_vars
  BY DEF CountNext
<1>6. CountSpec => Spec
  BY <1>4, <1>5, PTL DEF CountSpec, Spec
<1>7. TypeOK /\ FavInv /\ FavPlain /\ ComInv /\ ComPlain => TypesOK
  BY FavFits, ComFits DEF TypesOK
<1> QED
  BY <1>1, <1>2, <1>3, <1>6, <1>7, TypeCorrect, FavKeptStep, ComKeptStep, PTL DEF CountSpec
=============================================================================
