---------------------------- MODULE ArticlesProofs ----------------------------
(***************************************************************************)
(* Proofs for articles, for any users, tags and requests.  The limit of    *)
(* pinned articles holds for a user whose checks reach the database: what  *)
(* ArticleTopSetView counts under FOR UPDATE is still true when it         *)
(* inserts.  And every tag shows as many articles as have it, once what    *)
(* the requests under way owe it, and what failed HINCRBYs would have      *)
(* added, is counted in.                                                   *)
(***************************************************************************)
EXTENDS Articles, FiniteSetTheorems, TLAPS


\* A request about to pin holds its user's row, and has room when it needs any,
\* unless the query cache answered a check of that user.
Pinning(r) ==
  /\ rowLock[req[r].by] = r
  /\ req[r].by \in Authors => Cardinality(Pins(req[r].by)) < MaxPins

RequestOK(r) ==
  /\ req[r].pc \in {"lock", "pin"} => req[r].by \in Accounts /\ (req[r].by \in Authors => req[r].limited)
  /\ req[r].pc = "pin" /\ req[r].by \notin eased => Pinning(r)
  /\ req[r].pc = "count" => req[r].next.pc \notin {"lock", "pin", "count"}

IInv ==
  /\ DOMAIN req = Reqs /\ DOMAIN rowLock = Accounts /\ IsFiniteSet(pin)
  /\ \A r \in Reqs : RequestOK(r)
  /\ LockedPinLimit

-----------------------------------------------------------------------------
\* Fewer pins take no room away.
LEMMA FewerPins ==
  ASSUME NEW u, IsFiniteSet(pin), pin' \subseteq pin
  PROVE  /\ IsFiniteSet(pin')
         /\ Cardinality(Pins(u)) \in Nat /\ Cardinality(Pins(u)') \in Nat
         /\ Cardinality(Pins(u)') <= Cardinality(Pins(u))
<1>1. IsFiniteSet(pin')
  BY FS_Subset
<1>2. Pins(u) \in SUBSET pin /\ Pins(u)' \in SUBSET Pins(u)
  BY DEF Pins
<1>3. IsFiniteSet(Pins(u)) /\ IsFiniteSet(Pins(u)')
  BY <1>2, FS_Subset
<1> QED
  BY <1>1, <1>2, <1>3, FS_Subset, FS_CardinalityType

\* Most steps move one request to where it neither waits for the row nor
\* holds it, let go of no other request's row, and take at most pins away.
LEMMA OtherSteps ==
  ASSUME MaxPins \in Nat, IInv, pin' \subseteq pin, eased \subseteq eased',
         NEW r \in Reqs, rowLock' \in {rowLock, Unlocked(r)}, NEW state, Goto(r, state),
         state.pc \notin {"lock", "pin"},
         state.pc = "count" => state.next.pc \notin {"lock", "pin", "count"}
  PROVE  IInv'
<1>1. DOMAIN req' = Reqs /\ req'[r] = state /\ \A q \in Reqs \ {r} : req'[q] = req[q]
  BY DEF Goto, IInv
<1>2. IsFiniteSet(pin)' /\ \A u : Cardinality(Pins(u)') <= Cardinality(Pins(u))
  BY FewerPins DEF IInv
<1>3. \A u : Cardinality(Pins(u)) \in Nat /\ Cardinality(Pins(u)') \in Nat
  BY FewerPins DEF IInv
<1>4. DOMAIN rowLock' = Accounts /\ \A u \in Accounts : rowLock[u] # r => rowLock'[u] = rowLock[u]
  BY DEF IInv, Unlocked
<1>5. ASSUME NEW q \in Reqs PROVE RequestOK(q)'
  <2>1. CASE q = r
    BY <1>1, <2>1 DEF RequestOK
  <2>2. CASE q # r
    <3>1. RequestOK(q) /\ req'[q] = req[q]
      BY <1>1, <2>2 DEF IInv
    <3>2. req[q].pc = "pin" /\ req[q].by \notin eased' => Pinning(q)'
      <4> SUFFICES ASSUME req[q].pc = "pin", req[q].by \notin eased' PROVE Pinning(q)'
        OBVIOUS
      <4>1. Pinning(q)
        BY <3>1 DEF RequestOK
      <4> DEFINE u == req[q].by
      <4>2. u \in Accounts /\ rowLock[u] = q /\ (u \in Authors => Cardinality(Pins(u)) < MaxPins)
        BY <3>1, <4>1 DEF Pinning, RequestOK
      <4>3. req'[q].by = u /\ rowLock'[u] = q
        BY <1>4, <2>2, <3>1, <4>2
      <4>4. u \in Authors => Cardinality(Pins(u)') < MaxPins
        BY <1>2, <1>3, <4>2, <4>3
      <4> QED
        BY <4>3, <4>4 DEF Pinning, Pins
    <3> QED
      BY <3>1, <3>2 DEF RequestOK
  <2> QED
    BY <2>1, <2>2
<1>6. LockedPinLimit'
  <2> SUFFICES ASSUME NEW u \in Authors, u \notin eased' PROVE Cardinality(Pins(u)') <= MaxPins
    BY DEF LockedPinLimit, Pins
  <2>1. Cardinality(Pins(u)) <= MaxPins
    BY DEF IInv, LockedPinLimit
  <2> QED
    BY <1>2, <1>3, <2>1
<1> QED
  BY <1>1, <1>2, <1>4, <1>5, <1>6 DEF IInv

LEMMA QuietSteps ==
  ASSUME IInv, UNCHANGED <<req, rowLock, pin, eased>>
  PROVE  IInv'
BY DEF IInv, RequestOK, Pinning, Pins, LockedPinLimit

\* Where Refresh and Recount send a request.
LEMMA Going ==
  ASSUME NEW kind, NEW S, NEW old, NEW new
  PROVE  /\ Refresh(kind, S).pc \in {"done", "load"}
         /\ Recount(old, new, Refresh(kind, S)).pc = "count"
         /\ Recount(old, new, Refresh(kind, S)).next = Refresh(kind, S)
BY DEF Refresh, Recount, Done

-----------------------------------------------------------------------------
LEMMA TopStartKeeps ==
  ASSUME IInv, NEW r \in Reqs, NEW u \in Accounts, NEW a, NEW kind \in {"author", "admin"},
         TopStart(r, u, a, kind), Admin \notin Authors
  PROVE  IInv'
<1> DEFINE state == [pc |-> "lock", by |-> u, id |-> a, limited |-> kind = "author" /\ u # Admin]
<1>1. DOMAIN req' = Reqs /\ req'[r] = state /\ \A q \in Reqs \ {r} : req'[q] = req[q]
  BY DEF TopStart, Goto, IInv
<1>2. UNCHANGED <<rowLock, pin, eased>>
  BY DEF TopStart, pinVars
<1>3. u \in Authors => kind = "author" /\ u # Admin
  BY DEF TopStart, MayPin
<1>4. state.pc = "lock" /\ state.by = u /\ (u \in Authors => state.limited)
  BY <1>3
<1>5. ASSUME NEW q \in Reqs PROVE RequestOK(q)'
  <2>1. CASE q = r
    BY <1>1, <1>4, <2>1 DEF RequestOK
  <2>2. CASE q # r
    BY <1>1, <1>2, <2>2 DEF RequestOK, IInv, Pinning, Pins
  <2> QED
    BY <2>1, <2>2
<1> QED
  BY <1>1, <1>2, <1>5 DEF IInv, LockedPinLimit, Pins

\* TopCheck takes a free row, which no other request holds, or is eased.
LEMMA TopCheckKeeps ==
  ASSUME MaxPins \in Nat, Nobody \notin Reqs, IInv, NEW r \in Reqs, TopCheck(r)
  PROVE  IInv'
<1>0. PICK u : u = req[r].by
  OBVIOUS
<1>1. req[r].pc = "lock" /\ pin' = pin /\ eased \subseteq eased'
  BY DEF TopCheck
<1>2. CASE Goto(r, Done) /\ UNCHANGED rowLock
  BY <1>1, <1>2, OtherSteps DEF Done
<1>3. CASE /\ Goto(r, Cleared(r))
           /\ rowLock' = rowLock \/ rowLock' = [rowLock EXCEPT ![u] = r]
           /\ \/ u \in eased'
              \/ rowLock[u] = Nobody /\ rowLock' = [rowLock EXCEPT ![u] = r] /\ ~(req[r].limited /\ Full(u))
  <2>1. u \in Accounts /\ (u \in Authors => req[r].limited)
    BY <1>0, <1>1 DEF IInv, RequestOK
  <2>2. DOMAIN req' = Reqs /\ req'[r] = Cleared(r) /\ \A q \in Reqs \ {r} : req'[q] = req[q]
    BY <1>3 DEF Goto, IInv
  <2>3. \A v : Pins(v)' = Pins(v)
    BY <1>1 DEF Pins
  <2>4. DOMAIN rowLock' = Accounts /\ \A v \in Accounts \ {u} : rowLock'[v] = rowLock[v]
    BY <1>3, <2>1 DEF IInv
  <2>5. u \notin eased' => rowLock[u] = Nobody /\ rowLock'[u] = r
    BY <1>3, <2>1 DEF IInv
  <2>6. u \notin eased' /\ u \in Authors => Cardinality(Pins(u)) < MaxPins
    <3>1. Cardinality(Pins(u)) \in Nat
      BY <1>1, FewerPins DEF IInv
    <3> QED
      BY <1>3, <2>1, <3>1 DEF Full
  <2>7. RequestOK(r)'
    <3>1. Cleared(r).pc = "pin" /\ Cleared(r).by = u /\ Cleared(r).limited = req[r].limited
      BY <1>0 DEF Cleared
    <3>3. u \notin eased' => Pinning(r)'
      BY <2>2, <2>3, <2>5, <2>6, <3>1 DEF Pinning, Pins
    <3> QED
      BY <2>1, <2>2, <3>1, <3>3 DEF RequestOK
  <2>8. ASSUME NEW q \in Reqs \ {r} PROVE RequestOK(q)'
    <3>1. req'[q] = req[q] /\ RequestOK(q)
      BY <2>2 DEF IInv
    <3> DEFINE v == req[q].by
    <3>2. req[q].pc = "pin" /\ v \notin eased' => v \in Accounts /\ Pinning(q) /\ v \notin eased
      BY <1>1, <3>1 DEF RequestOK
    <3>3. req[q].pc = "pin" /\ v \notin eased' => v # u
      BY <2>5, <3>2 DEF Pinning
    <3>4. req[q].pc = "pin" /\ v \notin eased' => Pinning(q)'
      BY <2>3, <2>4, <3>1, <3>2, <3>3 DEF Pinning, Pins
    <3> QED
      BY <3>1, <3>4 DEF RequestOK
  <2>9. LockedPinLimit'
    BY <1>1, <2>3 DEF IInv, LockedPinLimit, Pins
  <2> QED
    BY <1>1, <2>2, <2>4, <2>7, <2>8, <2>9 DEF IInv
<1> QED
  BY <1>0, <1>2, <1>3 DEF TopCheck, Refused

\* TopPin adds one pin to a user who has room, needs none or was eased, and
\* lets the row go.
LEMMA TopPinKeeps ==
  ASSUME MaxPins \in Nat, IInv, NEW r \in Reqs, TopPin(r)
  PROVE  IInv'
<1>0. PICK u, x : u = req[r].by /\ x = <<u, req[r].id>>
  OBVIOUS
<1>1. PICK state : Goto(r, state) /\ state \in {Done, Refresh("top", {req[r].id})}
  BY DEF TopPin
<1>2. DOMAIN req' = Reqs /\ req'[r] = state /\ \A q \in Reqs \ {r} : req'[q] = req[q]
  BY <1>1 DEF Goto, IInv
<1>3. pin' = pin \cup {x} /\ rowLock' = Unlocked(r) /\ eased' = eased /\ req[r].pc = "pin"
  BY <1>0 DEF TopPin
<1>4. u \in Accounts /\ (u \notin eased => Pinning(r))
  BY <1>0, <1>3 DEF IInv, RequestOK
<1>5. IsFiniteSet(pin') /\ \A v : IsFiniteSet(Pins(v))
  <2>1. ASSUME NEW v PROVE Pins(v) \in SUBSET pin
    BY DEF Pins
  <2> QED
    BY <1>3, <2>1, FS_AddElement, FS_Subset DEF IInv
<1>6. Pins(u)' = Pins(u) \cup {x} /\ \A v \in Accounts \ {u} : Pins(v)' = Pins(v)
  <2>1. x[1] = u /\ pin' = pin \cup {x}
    BY <1>0, <1>3
  <2>2. Pins(u)' = {y \in pin' : y[1] = u} /\ Pins(u) = {y \in pin : y[1] = u}
    BY DEF Pins
  <2>3. ASSUME NEW v \in Accounts \ {u} PROVE Pins(v)' = Pins(v)
    BY <2>1 DEF Pins
  <2> QED
    BY <2>1, <2>2, <2>3
<1>7. u \in Authors \ eased => Cardinality(Pins(u)') <= MaxPins
  <2>1. Cardinality(Pins(u)') <= Cardinality(Pins(u)) + 1 /\ Cardinality(Pins(u)) \in Nat
        /\ Cardinality(Pins(u)') \in Nat
    <3>1. IsFiniteSet(Pins(u)) /\ IsFiniteSet(Pins(u) \cup {x})
      BY <1>5, FS_AddElement
    <3>2. Cardinality(Pins(u) \cup {x}) \in Nat /\ Cardinality(Pins(u)) \in Nat
      BY <3>1, FS_CardinalityType
    <3>3. Cardinality(Pins(u) \cup {x}) <= Cardinality(Pins(u)) + 1
      BY <3>1, <3>2, FS_AddElement
    <3> QED
      BY <1>6, <3>2, <3>3
  <2> QED
    BY <1>0, <1>4, <2>1 DEF Pinning
<1>8. LockedPinLimit'
  <2> SUFFICES ASSUME NEW v \in Authors, v \notin eased PROVE Cardinality(Pins(v)') <= MaxPins
    BY <1>3 DEF LockedPinLimit, Pins
  <2>1. v # u => Cardinality(Pins(v)) <= MaxPins
    BY DEF IInv, LockedPinLimit
  <2> QED
    BY <1>6, <1>7, <2>1 DEF Accounts
<1>9. DOMAIN rowLock' = Accounts /\ \A v \in Accounts : rowLock[v] # r => rowLock'[v] = rowLock[v]
  BY <1>3 DEF Unlocked
<1>10. ASSUME NEW q \in Reqs PROVE RequestOK(q)'
  <2>1. CASE q = r
    <3>1. state.pc \in {"done", "load"}
      BY <1>1, Going DEF Done
    <3> QED
      BY <1>2, <2>1, <3>1 DEF RequestOK
  <2>2. CASE q # r
    <3>1. req'[q] = req[q] /\ RequestOK(q)
      BY <1>2, <2>2 DEF IInv
    <3> DEFINE v == req[q].by
    <3>2. req[q].pc = "pin" /\ v \notin eased => v \in Accounts /\ Pinning(q)
      BY <3>1 DEF RequestOK
    <3>3. req[q].pc = "pin" /\ v \notin eased => v # u /\ rowLock'[v] = q
      BY <1>0, <1>4, <1>9, <2>2, <3>2 DEF Pinning
    <3>4. req[q].pc = "pin" /\ v \notin eased => Pinning(q)'
      BY <1>6, <3>1, <3>2, <3>3 DEF Pinning, Pins
    <3> QED
      BY <1>3, <3>1, <3>4 DEF RequestOK
  <2> QED
    BY <2>1, <2>2
<1> QED
  BY <1>2, <1>5, <1>8, <1>9, <1>10 DEF IInv

-----------------------------------------------------------------------------
LEMMA StepKeeps ==
  ASSUME MaxPins \in Nat, Nobody \notin Reqs, IInv, NEW r \in Reqs, Step(r)
  PROVE  IInv'
<1>1. CASE CreateCommit(r)
  BY <1>1, OtherSteps, Going DEF CreateCommit, pinVars
<1>2. CASE CountTags(r)
  <2>1. req[r].next.pc \notin {"lock", "pin", "count"}
    BY <1>2 DEF CountTags, IInv, RequestOK
  <2> QED
    BY <1>2, <2>1, OtherSteps DEF CountTags, pinVars
<1>3. CASE UpdateCommit(r)
  BY <1>3, OtherSteps, Going DEF UpdateCommit, pinVars
<1>4. CASE RemoveCommit(r)
  <2>1. pin' \subseteq pin /\ UNCHANGED <<rowLock, eased>> /\ Goto(r, Done) /\ Done.pc = "done"
    BY <1>4 DEF RemoveCommit, Done
  <2> QED
    BY <2>1, OtherSteps
<1>5. CASE RemoveRollback(r)
  BY <1>5, OtherSteps DEF RemoveRollback, Done, pinVars
<1>6. CASE TopCheck(r)
  BY <1>6, TopCheckKeeps
<1>7. CASE TopPin(r)
  BY <1>7, TopPinKeeps
<1>8. CASE DeleteTag(r)
  BY <1>8, OtherSteps DEF DeleteTag, Done, pinVars
<1>9. CASE RefreshLoad(r)
  BY <1>9, OtherSteps DEF RefreshLoad, pinVars
<1>10. CASE RefreshWrite(r)
  BY <1>10, OtherSteps DEF RefreshWrite, Done, pinVars
<1>11. CASE Aborted(r)
  BY <1>11, OtherSteps DEF Aborted, Done
<1> QED
  BY <1>1, <1>2, <1>3, <1>4, <1>5, <1>6, <1>7, <1>8, <1>9, <1>10, <1>11 DEF Step

LEMMA AskKeeps ==
  ASSUME MaxPins \in Nat, Admin \notin Authors, IInv, NEW r \in Reqs, Ask(r)
  PROVE  IInv'
<1>1. ASSUME NEW u, NEW s, NEW T, CreateStart(r, u, s, T) PROVE IInv'
  BY <1>1, OtherSteps DEF CreateStart, pinVars
<1>2. ASSUME NEW a, UpdateTagsOnly(r, a) PROVE IInv'
  BY <1>2, OtherSteps DEF UpdateTagsOnly, Done, pinVars
<1>3. ASSUME NEW a, NEW T, NEW body, UpdateStart(r, a, T, body) PROVE IInv'
  BY <1>3, OtherSteps DEF UpdateStart, pinVars
<1>4. ASSUME NEW a, NEW u \in Accounts, NEW kind \in {"author", "admin"}, TopStart(r, u, a, kind) PROVE IInv'
  BY <1>4, TopStartKeeps
<1>5. ASSUME NEW a, NEW u, Unpin(r, u, a) PROVE IInv'
  <2>1. pin' \subseteq pin /\ UNCHANGED <<rowLock, eased>> /\ Goto(r, Refresh("top", {a}))
    BY <1>5 DEF Unpin
  <2> QED
    BY <2>1, OtherSteps, Going
<1>6. ASSUME NEW S, RemoveHook(r, S) PROVE IInv'
  BY <1>6, OtherSteps DEF RemoveHook, pinVars
<1>7. ASSUME NEW t, RenameTag(r, t) PROVE IInv'
  BY <1>7, OtherSteps, Going DEF RenameTag, pinVars
<1>8. ASSUME NEW t, DeleteTagCheck(r, t) PROVE IInv'
  BY <1>8, OtherSteps DEF DeleteTagCheck, pinVars
<1>9. CASE FullSync(r)
  BY <1>9, OtherSteps DEF FullSync, pinVars
<1> QED
  BY <1>1, <1>2, <1>3, <1>4, <1>5, <1>6, <1>7, <1>8, <1>9 DEF Ask

LEMMA InitOK ==
  ASSUME MaxPins \in Nat, ArtInit
  PROVE  IInv
<1>1. DOMAIN req = Reqs /\ DOMAIN rowLock = Accounts /\ \A r \in Reqs : req[r].pc = "idle"
  BY DEF ArtInit
<1>2. pin = {} /\ \A u : {x \in pin : x[1] = u} = {}
  BY DEF ArtInit
<1> QED
  BY <1>1, <1>2, FS_EmptySet DEF IInv, RequestOK, LockedPinLimit, Pins

LEMMA NextOK ==
  ASSUME MaxPins \in Nat, Nobody \notin Reqs, Admin \notin Authors, IInv, [ArtNext]_artVars
  PROVE  IInv'
<1>1. ASSUME NEW r \in Reqs, Ask(r) \/ Step(r) PROVE IInv'
  BY <1>1, AskKeeps, StepKeeps
<1>2. ASSUME NEW a, NEW s, Examine(a, s) PROVE IInv'
  BY <1>2, QuietSteps DEF Examine, pinVars
<1>3. ASSUME NEW t, NEW state, SaveTag(t, state) PROVE IInv'
  BY <1>3, QuietSteps DEF SaveTag, pinVars
<1>4. CASE Replicate
  BY <1>4, QuietSteps DEF Replicate, pinVars
<1>5. CASE UNCHANGED artVars
  BY <1>5, QuietSteps DEF artVars, pinVars
<1> QED
  BY <1>1, <1>2, <1>3, <1>4, <1>5 DEF ArtNext

(***************************************************************************)
(* A user who is no administrator, and none of whose checks was answered   *)
(* by the query cache, never holds more than MaxPins pins: of two          *)
(* ArticleTopSetViews under FOR UPDATE, one has inserted before the other  *)
(* counts (top_set.go), whatever the requests of others, which the cache   *)
(* may answer, and whatever is aborted.                                    *)
(***************************************************************************)
THEOREM PinsLimited ==
  ASSUME MaxPins \in Nat, Nobody \notin Reqs, Admin \notin Authors
  PROVE  ArtSpec => []LockedPinLimit
<1>1. ArtInit => IInv
  BY InitOK
<1>2. IInv /\ [ArtNext]_artVars => IInv'
  BY NextOK
<1>3. IInv => LockedPinLimit
  BY DEF IInv
<1> QED
  BY <1>1, <1>2, <1>3, PTL DEF ArtSpec

-----------------------------------------------------------------------------
(* Tags.  What the requests under way owe a tag: those that will add one,  *)
(* those that will take one away, and the relations that a removal has     *)
(* counted and not yet deleted.                                            *)

Adds(state, t)    == state.pc = "count" /\ t \in state.plus
Drops(state, t)   == state.pc = "count" /\ t \in state.minus
Removes(state, t) == IF state.pc = "remove" THEN {a \in state.ids : <<a, t>> \in state.seen} ELSE {}

Adding(t)   == {q \in Reqs : Adds(req[q], t)}
Dropping(t) == {q \in Reqs : Drops(req[q], t)}
Removing(t) == {x \in Reqs \X Nat : x[2] \in Removes(req[x[1]], t)}

Owed(t) == Cardinality(Adding(t)) - Cardinality(Dropping(t)) + Cardinality(Removing(t))

\* The part of one request in it.
Share(state, t) ==
  (IF Adds(state, t) THEN 1 ELSE 0) - (IF Drops(state, t) THEN 1 ELSE 0)
    + Cardinality(Removes(state, t))

Having(t) == {a \in 1..Len(article) : <<a, t>> \in live}

\* What a request has read, when there are n articles.
Read(state, n) ==
  /\ state.pc = "create" =>
       state.tags \subseteq Tags /\ state.by \in Accounts /\ state.status \in Statuses
  /\ state.pc = "update" => state.id \in 1..n /\ (state.new # {NoField} => state.new \subseteq Tags)
  /\ state.pc = "remove" => state.ids \subseteq 1..n
  /\ state.pc = "deleteTag" => state.tag \in Tags
  /\ state.pc = "count" => state.next.pc \in {"done", "load"}

Tables ==
  /\ article \in Seq(Article)
  /\ live \subseteq (1..Len(article)) \X Tags
  /\ tagged \in [Tags -> Int] /\ missed \in [Tags -> Int]

\* What the tags would show had no HINCRBY failed.
Told == [t \in Tags |-> tagged[t] + missed[t]]

Requests == DOMAIN req = Reqs /\ \A q \in Reqs : Read(req[q], Len(article))

Counted == \A t \in Tags : Told[t] + Owed(t) = Cardinality(Having(t))

TagsInv == Tables /\ Requests /\ (~raced => Counted)

-----------------------------------------------------------------------------
\* A set in which at most r has come or gone.
LEMMA OneMoves ==
  ASSUME NEW A, NEW B, NEW r, IsFiniteSet(A), \A x : x # r => (x \in A <=> x \in B)
  PROVE  /\ IsFiniteSet(B) /\ Cardinality(A) \in Nat /\ Cardinality(B) \in Nat
         /\ Cardinality(B) = Cardinality(A) - (IF r \in A THEN 1 ELSE 0) + (IF r \in B THEN 1 ELSE 0)
<1>1. PICK C : C = A \ {r}
  OBVIOUS
<1>2. /\ IsFiniteSet(C) /\ Cardinality(C) \in Nat
      /\ Cardinality(C) = IF r \in A THEN Cardinality(A) - 1 ELSE Cardinality(A)
  BY <1>1, FS_RemoveElement, FS_CardinalityType
<1>3. Cardinality(A) \in Nat
  BY FS_CardinalityType
<1>4. CASE r \in B
  <2>1. B = C \cup {r} /\ r \notin C
    BY <1>1, <1>4
  <2>2. IsFiniteSet(B) /\ Cardinality(B) = Cardinality(C) + 1
    BY <1>2, <2>1, FS_AddElement
  <2> QED
    BY <1>2, <1>3, <1>4, <2>2
<1>5. CASE r \notin B
  <2>1. B = C
    BY <1>1, <1>5
  <2> QED
    BY <1>2, <1>3, <1>5, <2>1
<1> QED
  BY <1>4, <1>5

\* Pairs of which those of r are the product with X.
LEMMA Slice ==
  ASSUME NEW C, NEW r, NEW X, IsFiniteSet(C), IsFiniteSet(X), \A x \in C : x[1] # r
  PROVE  /\ IsFiniteSet(C \cup ({r} \X X))
         /\ Cardinality(C \cup ({r} \X X)) = Cardinality(C) + Cardinality(X)
         /\ Cardinality(C) \in Nat /\ Cardinality(X) \in Nat
<1>1. PICK P : P = {r} \X X
  OBVIOUS
<1>2. IsFiniteSet({r}) /\ Cardinality({r}) = 1
  BY FS_Singleton
<1>3. IsFiniteSet(P) /\ Cardinality(P) = 1 * Cardinality(X)
  BY <1>1, <1>2, FS_Product
<1>4. Cardinality(C) \in Nat /\ Cardinality(X) \in Nat
  BY FS_CardinalityType
<1>5. C \cap P = {}
  BY <1>1
<1>6. Cardinality(C \cap P) = 0
  BY <1>5, FS_EmptySet
<1>7. IsFiniteSet(C \cup P) /\ Cardinality(C \cup P) = Cardinality(C) + Cardinality(P) - 0
  BY <1>3, <1>6, FS_Union
<1> QED
  BY <1>1, <1>3, <1>4, <1>7

LEMMA ReadMore ==
  ASSUME NEW state, NEW n \in Nat, NEW m \in Nat, n <= m, Read(state, n)
  PROVE  Read(state, m)
BY DEF Read

LEMMA RemovesFinite ==
  ASSUME NEW state, NEW n \in Nat, Read(state, n), NEW t
  PROVE  Removes(state, t) \subseteq 1..n /\ IsFiniteSet(Removes(state, t))
<1>1. Removes(state, t) \in SUBSET (1..n)
  BY DEF Removes, Read
<1> QED
  BY <1>1, FS_Interval, FS_Subset

LEMMA HavingFinite ==
  ASSUME Tables
  PROVE  \A t : IsFiniteSet(Having(t)) /\ Cardinality(Having(t)) \in Nat
<1> SUFFICES ASSUME NEW t PROVE IsFiniteSet(Having(t)) /\ Cardinality(Having(t)) \in Nat
  OBVIOUS
<1>1. Having(t) \in SUBSET (1..Len(article)) /\ Len(article) \in Int /\ 1 \in Int
  BY DEF Having, Tables
<1> QED
  BY <1>1, FS_Interval, FS_Subset, FS_CardinalityType

LEMMA HavingFiniteNext ==
  ASSUME Tables'
  PROVE  \A t : IsFiniteSet(Having(t)') /\ Cardinality(Having(t)') \in Nat
<1> SUFFICES ASSUME NEW t PROVE IsFiniteSet(Having(t)') /\ Cardinality(Having(t)') \in Nat
  OBVIOUS
<1>1. Having(t)' \in SUBSET (1..Len(article')) /\ Len(article') \in Int /\ 1 \in Int
  BY DEF Having, Tables
<1> QED
  BY <1>1, FS_Interval, FS_Subset, FS_CardinalityType

\* A request that goes on changes what is owed by its own share.
LEMMA OwedMoves ==
  ASSUME IsFiniteSet(Reqs), DOMAIN req = Reqs, NEW r \in Reqs, NEW state, Goto(r, state),
         NEW n \in Nat, \A q \in Reqs : Read(req[q], n), Read(state, n), NEW t
  PROVE  /\ Owed(t) \in Int /\ Owed(t)' \in Int
         /\ Share(req[r], t) \in Int /\ Share(state, t) \in Int
         /\ Owed(t)' = Owed(t) - Share(req[r], t) + Share(state, t)
<1>1. req'[r] = state /\ \A q \in Reqs \ {r} : req'[q] = req[q]
  BY DEF Goto
<1>2. IsFiniteSet(Adding(t)) /\ IsFiniteSet(Dropping(t))
  <2>1. Adding(t) \in SUBSET Reqs /\ Dropping(t) \in SUBSET Reqs
    BY DEF Adding, Dropping
  <2> QED
    BY <2>1, FS_Subset
<1>3. /\ \A x : x # r => (x \in Adding(t) <=> x \in Adding(t)')
      /\ r \in Adding(t) <=> Adds(req[r], t)
      /\ r \in Adding(t)' <=> Adds(state, t)
  BY <1>1 DEF Adding
<1>4. /\ \A x : x # r => (x \in Dropping(t) <=> x \in Dropping(t)')
      /\ r \in Dropping(t) <=> Drops(req[r], t)
      /\ r \in Dropping(t)' <=> Drops(state, t)
  BY <1>1 DEF Dropping
<1>5. /\ Cardinality(Adding(t)) \in Nat /\ Cardinality(Adding(t)') \in Nat
      /\ Cardinality(Adding(t)') = Cardinality(Adding(t))
           - (IF Adds(req[r], t) THEN 1 ELSE 0) + (IF Adds(state, t) THEN 1 ELSE 0)
  BY <1>2, <1>3, OneMoves
<1>6. /\ Cardinality(Dropping(t)) \in Nat /\ Cardinality(Dropping(t)') \in Nat
      /\ Cardinality(Dropping(t)') = Cardinality(Dropping(t))
           - (IF Drops(req[r], t) THEN 1 ELSE 0) + (IF Drops(state, t) THEN 1 ELSE 0)
  BY <1>2, <1>4, OneMoves
<1>7. /\ Cardinality(Removing(t)) \in Nat /\ Cardinality(Removing(t)') \in Nat
      /\ Cardinality(Removes(req[r], t)) \in Nat /\ Cardinality(Removes(state, t)) \in Nat
      /\ Cardinality(Removing(t)') = Cardinality(Removing(t))
           - Cardinality(Removes(req[r], t)) + Cardinality(Removes(state, t))
  <2>1. PICK C : C = {x \in Reqs \X Nat : x[1] # r /\ x[2] \in Removes(req[x[1]], t)}
    OBVIOUS
  <2>2. PICK X, Y : X = Removes(req[r], t) /\ Y = Removes(state, t)
    OBVIOUS
  <2>3. X \subseteq 1..n /\ Y \subseteq 1..n /\ IsFiniteSet(X) /\ IsFiniteSet(Y)
    BY <2>2, RemovesFinite
  <2>4. IsFiniteSet(C)
    <3>1. IsFiniteSet(1..n)
      <4>1. 1 \in Int /\ n \in Int
        OBVIOUS
      <4> QED
        BY <4>1, FS_Interval
    <3>2. IsFiniteSet(Reqs \X (1..n))
      BY <3>1, FS_Product
    <3>3. C \in SUBSET (Reqs \X (1..n))
      <4> SUFFICES ASSUME NEW x \in C PROVE x \in Reqs \X (1..n)
        OBVIOUS
      <4>1. x \in Reqs \X Nat /\ x[2] \in Removes(req[x[1]], t)
        BY <2>1
      <4>2. x[1] \in Reqs /\ Read(req[x[1]], n)
        BY <4>1
      <4>3. Removes(req[x[1]], t) \subseteq 1..n
        BY <4>2, RemovesFinite
      <4> QED
        BY <4>1, <4>3
    <3> QED
      BY <3>2, <3>3, FS_Subset
  <2>5. \A x : x \in C => x[1] # r
    BY <2>1
  <2>6. Removing(t) = C \cup ({r} \X X)
    BY <2>1, <2>2, <2>3 DEF Removing
  <2>7. Removing(t)' = C \cup ({r} \X Y)
    <3>1. Removing(t)' = {x \in Reqs \X Nat : x[2] \in Removes(req'[x[1]], t)}
      BY DEF Removing, Removes
    <3>2. \A x \in Reqs \X Nat :
            x[2] \in Removes(req'[x[1]], t) <=> (x \in C \/ (x[1] = r /\ x[2] \in Y))
      <4> SUFFICES ASSUME NEW x \in Reqs \X Nat
                   PROVE  x[2] \in Removes(req'[x[1]], t) <=> (x \in C \/ (x[1] = r /\ x[2] \in Y))
        OBVIOUS
      <4>1. CASE x[1] = r
        BY <1>1, <2>2, <2>5, <4>1
      <4>2. CASE x[1] # r
        <5>1. req'[x[1]] = req[x[1]]
          BY <1>1, <4>2
        <5> QED
          BY <2>1, <4>2, <5>1
      <4> QED
        BY <4>1, <4>2
    <3>3. C \subseteq Reqs \X Nat /\ Y \subseteq Nat
      BY <2>1, <2>3
    <3>4. \A x : x \in Removing(t)' <=> x \in C \cup ({r} \X Y)
      BY <3>1, <3>2, <3>3
    <3> QED
      BY <3>4
  <2>8. \A x \in C : x[1] # r
    BY <2>5
  <2>9. /\ IsFiniteSet(C \cup ({r} \X X))
        /\ Cardinality(C \cup ({r} \X X)) = Cardinality(C) + Cardinality(X)
        /\ Cardinality(C) \in Nat /\ Cardinality(X) \in Nat
    BY <2>3, <2>4, <2>8, Slice
  <2>10. /\ IsFiniteSet(C \cup ({r} \X Y))
         /\ Cardinality(C \cup ({r} \X Y)) = Cardinality(C) + Cardinality(Y)
         /\ Cardinality(C) \in Nat /\ Cardinality(Y) \in Nat
    BY <2>3, <2>4, <2>8, Slice
  <2>11. /\ Cardinality(Removing(t)) = Cardinality(C) + Cardinality(X)
         /\ Cardinality(Removing(t)') = Cardinality(C) + Cardinality(Y)
    BY <2>6, <2>7, <2>9, <2>10
  <2>12. PICK c, x, y : c = Cardinality(C) /\ x = Cardinality(X) /\ y = Cardinality(Y)
    OBVIOUS
  <2>13. c \in Nat /\ x \in Nat /\ y \in Nat
    BY <2>9, <2>10, <2>12
  <2>14. Cardinality(Removing(t)) = c + x /\ Cardinality(Removing(t)') = c + y
    BY <2>11, <2>12
  <2>15. Cardinality(Removes(req[r], t)) = x /\ Cardinality(Removes(state, t)) = y
    BY <2>2, <2>12
  <2> QED
    BY <2>13, <2>14, <2>15
<1>8. PICK a, b, d, e, f, g :
        /\ a = Cardinality(Adding(t)) /\ b = Cardinality(Adding(t)')
        /\ d = Cardinality(Dropping(t)) /\ e = Cardinality(Dropping(t)')
        /\ f = Cardinality(Removing(t)) /\ g = Cardinality(Removing(t)')
  OBVIOUS
<1>9. Owed(t) = a - d + f /\ Owed(t)' = b - e + g
  BY <1>8 DEF Owed
<1>10. PICK h, i, j, k, l, m :
        /\ h = (IF Adds(req[r], t) THEN 1 ELSE 0) /\ i = (IF Adds(state, t) THEN 1 ELSE 0)
        /\ j = (IF Drops(req[r], t) THEN 1 ELSE 0) /\ k = (IF Drops(state, t) THEN 1 ELSE 0)
        /\ l = Cardinality(Removes(req[r], t)) /\ m = Cardinality(Removes(state, t))
  OBVIOUS
<1>11. h \in Int /\ i \in Int /\ j \in Int /\ k \in Int
  BY <1>10
<1>12. /\ a \in Nat /\ b \in Nat /\ d \in Nat /\ e \in Nat /\ f \in Nat /\ g \in Nat
       /\ l \in Nat /\ m \in Nat
  BY <1>5, <1>6, <1>7, <1>8, <1>10
<1>13. b = a - h + i /\ e = d - j + k /\ g = f - l + m
  BY <1>5, <1>6, <1>7, <1>8, <1>10
<1>14. Share(req[r], t) = h - j + l /\ Share(state, t) = i - k + m
  BY <1>10 DEF Share
<1> QED
  BY <1>9, <1>11, <1>12, <1>13, <1>14

-----------------------------------------------------------------------------
\* A step of one request keeps the accounts when every tag stays in balance.
LEMMA TagStep ==
  ASSUME IsFiniteSet(Reqs), TagsInv, NEW r \in Reqs, NEW state, Goto(r, state),
         Tables', Len(article) <= Len(article'), Read(state, Len(article')),
         raced => raced',
         ~raced' => \A t \in Tags : Told'[t] + Share(state, t) + Cardinality(Having(t))
                                      = Told[t] + Share(req[r], t) + Cardinality(Having(t)')
  PROVE  TagsInv'
<1>1. PICK n, m : n = Len(article) /\ m = Len(article')
  OBVIOUS
<1>2. n \in Nat /\ m \in Nat /\ n <= m
  BY <1>1 DEF TagsInv, Tables
<1>3. \A q \in Reqs : Read(req[q], m)
  BY <1>1, <1>2, ReadMore DEF TagsInv, Requests
<1>4. DOMAIN req = Reqs /\ Read(state, m)
  BY <1>1 DEF TagsInv, Requests
<1>5. Requests'
  <2>1. DOMAIN req' = Reqs /\ req'[r] = state /\ \A q \in Reqs \ {r} : req'[q] = req[q]
    BY <1>4 DEF Goto
  <2>2. \A q \in Reqs : Read(req'[q], m)
    BY <1>3, <1>4, <2>1
  <2> QED
    BY <1>1, <2>1, <2>2 DEF Requests, Read
<1>6. ASSUME ~raced', NEW t \in Tags
      PROVE  Told'[t] + Owed(t)' = Cardinality(Having(t)')
  <2>1. /\ Owed(t) \in Int /\ Owed(t)' \in Int
        /\ Share(req[r], t) \in Int /\ Share(state, t) \in Int
        /\ Owed(t)' = Owed(t) - Share(req[r], t) + Share(state, t)
    BY <1>2, <1>3, <1>4, OwedMoves
  <2>2. Told[t] + Owed(t) = Cardinality(Having(t))
    BY <1>6 DEF TagsInv, Counted
  <2>3. Told'[t] + Share(state, t) + Cardinality(Having(t))
          = Told[t] + Share(req[r], t) + Cardinality(Having(t)')
    BY <1>6
  <2>4. Told[t] \in Int /\ Told'[t] \in Int
    BY DEF TagsInv, Tables, Told
  <2>5. Cardinality(Having(t)) \in Nat /\ Cardinality(Having(t)') \in Nat
    BY HavingFinite, HavingFiniteNext DEF TagsInv
  <2>6. PICK c, d, o, p, x, y, u, v :
          /\ c = Cardinality(Having(t)) /\ d = Cardinality(Having(t)')
          /\ o = Owed(t) /\ p = Owed(t)' /\ x = Share(req[r], t) /\ y = Share(state, t)
          /\ u = Told[t] /\ v = Told'[t]
    OBVIOUS
  <2>7. c \in Int /\ d \in Int /\ o \in Int /\ p \in Int /\ x \in Int /\ y \in Int /\ u \in Int /\ v \in Int
    BY <2>1, <2>4, <2>5, <2>6
  <2>8. p = o - x + y /\ u + o = c /\ v + y + c = u + x + d
    BY <2>1, <2>2, <2>3, <2>6
  <2>9. v + p = d
    <3>1. v + y = u + x + d - c
      BY <2>7, <2>8
    <3>2. u = c - o
      BY <2>7, <2>8
    <3>3. v + y = x + d - o
      BY <2>7, <3>1, <3>2
    <3>4. v + p = (v + y) + (o - x)
      BY <2>7, <2>8
    <3> QED
      BY <2>7, <3>3, <3>4
  <2> QED
    BY <2>6, <2>9
<1> QED
  BY <1>5, <1>6 DEF TagsInv, Counted

\* A step that writes none of the tables, between points where nothing is owed.
LEMMA IdleStep ==
  ASSUME IsFiniteSet(Reqs), TagsInv, NEW r \in Reqs, NEW state, Goto(r, state),
         UNCHANGED <<live, tagged, missed>>, article' \in Seq(Article), Len(article') = Len(article),
         Read(state, Len(article)), raced => raced',
         ~raced' => /\ req[r].pc \notin {"count", "remove"}
                    /\ state.pc \notin {"count", "remove"}
  PROVE  TagsInv'
<1>1. Tables'
  BY DEF TagsInv, Tables
<1>2. \A t : Having(t)' = Having(t)
  BY DEF Having
<1>3. (~raced' => \A t : Share(state, t) = Share(req[r], t)) /\ Told' = Told
  BY DEF Share, Adds, Drops, Removes, Told
<1>4. ~raced' => \A t \in Tags : Told'[t] + Share(state, t) + Cardinality(Having(t))
                                   = Told[t] + Share(req[r], t) + Cardinality(Having(t)')
  BY <1>2, <1>3
<1>5. Len(article) <= Len(article') /\ Read(state, Len(article'))
  BY DEF TagsInv, Tables
<1> QED
  BY <1>1, <1>4, <1>5, TagStep

\* A step of no request.
LEMMA StillStep ==
  ASSUME TagsInv, UNCHANGED <<live, tagged, missed, req, raced>>,
         article' \in Seq(Article), Len(article') = Len(article)
  PROVE  TagsInv'
<1>1. Tables' /\ Requests'
  BY DEF TagsInv, Tables, Requests, Read
<1>2. Told' = Told /\ \A t : Having(t)' = Having(t) /\ Owed(t)' = Owed(t)
  BY DEF Told, Having, Owed, Adding, Dropping, Removing, Adds, Drops, Removes
<1> QED
  BY <1>1, <1>2 DEF TagsInv, Counted

-----------------------------------------------------------------------------
LEMMA SharesNothing ==
  ASSUME NEW state, state.pc \notin {"count", "remove"}
  PROVE  \A t : Share(state, t) = 0
<1>1. \A t : ~Adds(state, t) /\ ~Drops(state, t) /\ Removes(state, t) = {}
  BY DEF Adds, Drops, Removes
<1> QED
  BY <1>1, FS_EmptySet DEF Share

LEMMA SharesCount ==
  ASSUME NEW state, state.pc = "count"
  PROVE  \A t : Share(state, t) = (IF t \in state.plus THEN 1 ELSE 0) - (IF t \in state.minus THEN 1 ELSE 0)
<1>1. \A t : /\ Adds(state, t) <=> t \in state.plus
             /\ Drops(state, t) <=> t \in state.minus
             /\ Removes(state, t) = {}
  BY DEF Adds, Drops, Removes
<1> QED
  BY <1>1, FS_EmptySet DEF Share

LEMMA SharesRecount ==
  ASSUME NEW old, NEW new, NEW next
  PROVE  \A t : Share(Recount(old, new, next), t) = (IF t \in new THEN 1 ELSE 0) - (IF t \in old THEN 1 ELSE 0)
<1> DEFINE state == Recount(old, new, next)
<1>1. state.pc = "count" /\ state.plus = new \ old /\ state.minus = old \ new
  BY DEF Recount
<1>2. \A t : Share(state, t) = (IF t \in state.plus THEN 1 ELSE 0) - (IF t \in state.minus THEN 1 ELSE 0)
  BY <1>1, SharesCount
<1> QED
  BY <1>1, <1>2

LEMMA SharesRemove ==
  ASSUME NEW state, NEW n \in Nat, Read(state, n), state.pc = "remove"
  PROVE  \A t : Share(state, t) = Cardinality({a \in state.ids : <<a, t>> \in state.seen})
<1> SUFFICES ASSUME NEW t PROVE Share(state, t) = Cardinality({a \in state.ids : <<a, t>> \in state.seen})
  OBVIOUS
<1>1. ~Adds(state, t) /\ ~Drops(state, t)
  BY DEF Adds, Drops
<1>2. Removes(state, t) = {a \in state.ids : <<a, t>> \in state.seen}
  BY DEF Removes
<1>3. Cardinality(Removes(state, t)) \in Nat
  BY RemovesFinite, FS_CardinalityType
<1> QED
  BY <1>1, <1>2, <1>3 DEF Share

\* Waiting requests have read nothing that the tables could outgrow.
LEMMA GoesOn ==
  ASSUME NEW kind, NEW S, NEW n, NEW old, NEW new
  PROVE  /\ Read(Refresh(kind, S), n) /\ Refresh(kind, S).pc \in {"done", "load"}
         /\ Read(Recount(old, new, Refresh(kind, S)), n)
         /\ Read(Done, n) /\ Done.pc = "done"
<1>1. Done.pc = "done"
  BY DEF Done
<1>2. /\ Refresh(kind, S).pc \in {"done", "load"}
      /\ Recount(old, new, Refresh(kind, S)).pc = "count"
      /\ Recount(old, new, Refresh(kind, S)).next = Refresh(kind, S)
  BY Going
<1> QED
  BY <1>1, <1>2 DEF Read

-----------------------------------------------------------------------------
LEMMA CreateCounts ==
  ASSUME IsFiniteSet(Reqs), TagsInv, NEW r \in Reqs, CreateCommit(r)
  PROVE  TagsInv'
<1> DEFINE a     == Len(article) + 1
           row   == [author |-> req[r].by, status |-> req[r].status, deleted |-> FALSE]
           next  == Refresh("tags", IF req[r].tags = {} THEN {} ELSE {a})
           state == Recount({}, req[r].tags, next)
<1>1. /\ req[r].pc = "create" /\ article' = Append(article, row)
      /\ live' = (live \ Pairs({a})) \cup ({a} \X req[r].tags)
      /\ Goto(r, state) /\ UNCHANGED <<tagged, missed, raced>>
  BY DEF CreateCommit, SyncTags
<1>2. Read(req[r], Len(article)) /\ Tables /\ Len(article) \in Nat
  BY DEF TagsInv, Requests, Tables
<1>3. req[r].tags \subseteq Tags /\ row \in Article
  BY <1>1, <1>2 DEF Read, Article
<1>4. article' \in Seq(Article) /\ Len(article') = a
  BY <1>1, <1>2, <1>3 DEF Tables
<1>5. Pairs({a}) = {}
  BY <1>2 DEF Pairs, Tables
<1>6. live' = live \cup ({a} \X req[r].tags)
  BY <1>1, <1>5
<1>7. Tables'
  BY <1>1, <1>2, <1>3, <1>4, <1>6 DEF Tables
<1>8. Read(state, Len(article'))
  BY GoesOn
<1>9. ASSUME NEW t \in Tags
      PROVE  Told'[t] + Share(state, t) + Cardinality(Having(t))
               = Told[t] + Share(req[r], t) + Cardinality(Having(t)')
  <2>1. a \notin Having(t) /\ \A x : x # a => (x \in Having(t) <=> x \in Having(t)')
    BY <1>2, <1>4, <1>6 DEF Having, Tables
  <2>2. a \in Having(t)' <=> t \in req[r].tags
    BY <1>2, <1>4, <1>6 DEF Having, Tables
  <2>3. IsFiniteSet(Having(t))
    BY <1>2, HavingFinite
  <2>4. /\ Cardinality(Having(t)) \in Nat /\ Cardinality(Having(t)') \in Nat
        /\ Cardinality(Having(t)') = Cardinality(Having(t))
             - (IF a \in Having(t) THEN 1 ELSE 0) + (IF a \in Having(t)' THEN 1 ELSE 0)
    BY <2>1, <2>3, OneMoves
  <2>5. Share(req[r], t) = 0
    BY <1>1, SharesNothing
  <2>6. Share(state, t) = (IF t \in req[r].tags THEN 1 ELSE 0) - (IF t \in {} THEN 1 ELSE 0)
    BY SharesRecount
  <2>7. Told[t] \in Int /\ Told'[t] = Told[t]
    BY <1>1, <1>2 DEF Tables, Told
  <2> HIDE DEF a, row, next, state
  <2>8. PICK c, d, x, y, u : /\ c = Cardinality(Having(t)) /\ d = Cardinality(Having(t)')
                             /\ x = Share(req[r], t) /\ y = Share(state, t) /\ u = Told[t]
    OBVIOUS
  <2>9. c \in Nat /\ d \in Nat /\ x = 0 /\ u \in Int /\ y \in Int /\ d = c + y
    BY <2>1, <2>2, <2>4, <2>5, <2>6, <2>7, <2>8
  <2>10. u + y + c = u + x + d
    BY <2>9
  <2> QED
    BY <2>7, <2>8, <2>10
<1>10. Len(article) <= Len(article')
  BY <1>2, <1>4
<1> HIDE DEF a, row, next, state
<1> QED
  BY <1>1, <1>7, <1>8, <1>9, <1>10, TagStep

LEMMA CountCounts ==
  ASSUME IsFiniteSet(Reqs), TagsInv, NEW r \in Reqs, CountTags(r)
  PROVE  TagsInv'
<1> DEFINE state == req[r].next
           plus  == req[r].plus
           minus == req[r].minus
<1>1. req[r].pc = "count" /\ Goto(r, state) /\ UNCHANGED <<article, live, raced>>
  BY DEF CountTags
<1>0. PICK refused \in SUBSET (plus \cup minus) :
        /\ tagged' = [t \in Tags |-> tagged[t] + By(t, plus \ refused, minus \ refused)]
        /\ missed' = [t \in Tags |-> missed[t] + By(t, plus \cap refused, minus \cap refused)]
  BY DEF CountTags
<1>2. Read(req[r], Len(article)) /\ Tables
  BY DEF TagsInv, Requests
<1>3. Tables' /\ Len(article) <= Len(article')
  BY <1>0, <1>1, <1>2 DEF Tables, By
<1>4. state.pc \in {"done", "load"}
  BY <1>1, <1>2 DEF Read
<1>5. Read(state, Len(article'))
  BY <1>4 DEF Read
<1>6. ASSUME NEW t \in Tags
      PROVE  Told'[t] + Share(state, t) + Cardinality(Having(t))
               = Told[t] + Share(req[r], t) + Cardinality(Having(t)')
  <2>1. Having(t)' = Having(t) /\ Cardinality(Having(t)) \in Nat
    BY <1>1, <1>2, HavingFinite DEF Having
  <2>2. Share(state, t) = 0
    BY <1>4, SharesNothing
  <2>3. Share(req[r], t) = (IF t \in req[r].plus THEN 1 ELSE 0) - (IF t \in req[r].minus THEN 1 ELSE 0)
    BY <1>1, SharesCount
  <2>4. Told[t] \in Int /\ Told'[t] = Told[t] + Share(req[r], t) /\ Share(req[r], t) \in Int
    <3>1. By(t, plus \ refused, minus \ refused) + By(t, plus \cap refused, minus \cap refused)
            = Share(req[r], t)
      BY <2>3 DEF By
    <3>2. /\ By(t, plus \ refused, minus \ refused) \in Int
          /\ By(t, plus \cap refused, minus \cap refused) \in Int
      BY DEF By
    <3>3. /\ tagged[t] \in Int /\ missed[t] \in Int
          /\ tagged'[t] = tagged[t] + By(t, plus \ refused, minus \ refused)
          /\ missed'[t] = missed[t] + By(t, plus \cap refused, minus \cap refused)
      BY <1>0, <1>2 DEF Tables
    <3> HIDE DEF state, plus, minus
    <3>4. Told[t] = tagged[t] + missed[t] /\ Told'[t] = tagged'[t] + missed'[t]
      BY DEF Told
    <3> QED
      BY <3>1, <3>2, <3>3, <3>4
  <2> HIDE DEF state
  <2> QED
    BY <2>1, <2>2, <2>4
<1> HIDE DEF state
<1> QED
  BY <1>1, <1>3, <1>5, <1>6, TagStep

LEMMA UpdateCounts ==
  ASSUME IsFiniteSet(Reqs), TagsInv, NEW r \in Reqs, UpdateCommit(r)
  PROVE  TagsInv'
<1> DEFINE a == req[r].id
<1>1. /\ req[r].pc = "update" /\ a \in 1..Len(article) /\ Tables
      /\ req[r].new # {NoField} => req[r].new \subseteq Tags
  BY DEF UpdateCommit, TagsInv, Requests, Read
<1>2. Len(article) \in Nat /\ article \in Seq(Article)
  BY <1>1 DEF Tables
<1>3. article' \in Seq(Article) /\ Len(article') = Len(article)
  <2>1. article' = IF Exists(a) /\ req[r].examine
                   THEN [article EXCEPT ![a].status = "examining"] ELSE article
    BY DEF UpdateCommit
  <2>2. [article EXCEPT ![a].status = "examining"] = [article EXCEPT ![a] = [article[a] EXCEPT !.status = "examining"]]
    BY <1>2
  <2>3. article[a] \in Article /\ [article[a] EXCEPT !.status = "examining"] \in Article
    <3>1. article[a] \in Article
      BY <1>1, <1>2
    <3> QED
      BY <3>1 DEF Article, Statuses
  <2> QED
    BY <1>1, <1>2, <2>1, <2>2, <2>3
<1>4. CASE req[r].new # {NoField}
  <2> DEFINE state == Recount(req[r].old, req[r].new, Refresh("tags", {a}))
  <2>1. /\ live' = (live \ Pairs({a})) \cup ({a} \X req[r].new)
        /\ Goto(r, state) /\ UNCHANGED <<tagged, missed>>
        /\ raced' = (raced \/ req[r].old # TagsOf(a))
    BY <1>4 DEF UpdateCommit, SyncTags
  <2>2. \A b, t : <<b, t>> \in live' <=> ((b # a /\ <<b, t>> \in live) \/ (b = a /\ t \in req[r].new))
    <3>1. Pairs({a}) = {x \in live : x[1] \in {a}}
      BY DEF Pairs
    <3> QED
      BY <2>1, <3>1
  <2>3. live' \subseteq (1..Len(article)) \X Tags
    BY <1>1, <1>4, <2>1 DEF Tables
  <2>4. Tables'
    BY <1>1, <1>3, <2>1, <2>3 DEF Tables
  <2>5. Read(state, Len(article'))
    BY GoesOn
  <2>6. ASSUME ~raced', NEW t \in Tags
        PROVE  Told'[t] + Share(state, t) + Cardinality(Having(t))
                 = Told[t] + Share(req[r], t) + Cardinality(Having(t)')
    <3>1. \A x : x # a => (x \in Having(t) <=> x \in Having(t)')
      BY <1>3, <2>2 DEF Having
    <3>2. a \in Having(t)' <=> t \in req[r].new
      BY <1>1, <1>3, <2>2 DEF Having
    <3>3. a \in Having(t) <=> t \in req[r].old
      BY <1>1, <2>1, <2>6 DEF Having, TagsOf
    <3>4. IsFiniteSet(Having(t))
      BY <1>1, HavingFinite
    <3>5. /\ Cardinality(Having(t)) \in Nat /\ Cardinality(Having(t)') \in Nat
          /\ Cardinality(Having(t)') = Cardinality(Having(t))
               - (IF a \in Having(t) THEN 1 ELSE 0) + (IF a \in Having(t)' THEN 1 ELSE 0)
      BY <3>1, <3>4, OneMoves
    <3>6. Share(req[r], t) = 0
      BY <1>1, SharesNothing
    <3>7. Share(state, t) = (IF t \in req[r].new THEN 1 ELSE 0) - (IF t \in req[r].old THEN 1 ELSE 0)
      BY SharesRecount
    <3>8. Told[t] \in Int /\ Told'[t] = Told[t]
      BY <1>1, <2>1 DEF Tables, Told
    <3> HIDE DEF a, state
    <3>9. PICK c, d, x, y, u : /\ c = Cardinality(Having(t)) /\ d = Cardinality(Having(t)')
                               /\ x = Share(req[r], t) /\ y = Share(state, t) /\ u = Told[t]
      OBVIOUS
    <3>10. c \in Nat /\ d \in Nat /\ x = 0 /\ u \in Int /\ y \in Int /\ d = c + y
      BY <3>2, <3>3, <3>5, <3>6, <3>7, <3>8, <3>9
    <3>11. u + y + c = u + x + d
      BY <3>10
    <3> QED
      BY <3>8, <3>9, <3>11
  <2>7. Len(article) <= Len(article')
    BY <1>2, <1>3
  <2>8. raced => raced'
    BY <2>1, Zenon
  <2> HIDE DEF a, state
  <2> QED
    BY <2>1, <2>4, <2>5, <2>6, <2>7, <2>8, TagStep
<1>5. CASE req[r].new = {NoField}
  <2> DEFINE state == Refresh("content", IF req[r].body THEN {a} ELSE {})
  <2>1. Goto(r, state) /\ UNCHANGED <<live, tagged, missed>> /\ (raced => raced')
    <3>1. Goto(r, state) /\ UNCHANGED <<live, dead>>
      BY <1>5 DEF UpdateCommit
    <3>2. UNCHANGED <<tagged, missed>>
      BY DEF UpdateCommit
    <3>3. raced => raced'
      BY Zenon DEF UpdateCommit
    <3> QED
      BY <3>1, <3>2, <3>3
  <2>2. Read(state, Len(article)) /\ state.pc \in {"done", "load"}
    BY GoesOn
  <2>3. state.pc \notin {"count", "remove"} /\ req[r].pc \notin {"count", "remove"} /\ (raced => raced')
    BY <1>1, <2>1, <2>2
  <2> HIDE DEF state
  <2> QED
    BY <1>3, <2>1, <2>2, <2>3, IdleStep
<1> QED
  BY <1>4, <1>5

\* What goes through and what is refused is all there is.
LEMMA Parted ==
  ASSUME NEW A, NEW B \in SUBSET A, IsFiniteSet(A)
  PROVE  /\ Cardinality(A \ B) \in Nat /\ Cardinality(B) \in Nat /\ Cardinality(A) \in Nat
         /\ Cardinality(A \ B) + Cardinality(B) = Cardinality(A)
<1>1. A \cap B = B /\ IsFiniteSet(B) /\ IsFiniteSet(A \ B)
  BY FS_Subset
<1>2. Cardinality(A \ B) = Cardinality(A) - Cardinality(B)
  BY <1>1, FS_Difference
<1>3. Cardinality(A \ B) \in Nat /\ Cardinality(B) \in Nat /\ Cardinality(A) \in Nat
  BY <1>1, FS_CardinalityType
<1>4. PICK a, b, c : a = Cardinality(A) /\ b = Cardinality(B) /\ c = Cardinality(A \ B)
  OBVIOUS
<1>5. a \in Nat /\ b \in Nat /\ c = a - b
  BY <1>2, <1>3, <1>4
<1> QED
  BY <1>3, <1>4, <1>5

LEMMA HookCounts ==
  ASSUME IsFiniteSet(Reqs), TagsInv, NEW r \in Reqs, NEW S \in SUBSET DOMAIN article, RemoveHook(r, S)
  PROVE  TagsInv'
<1> DEFINE state == [pc |-> "remove", ids |-> S, seen |-> Pairs(S)]
           n     == Len(article)
           Of(X, t) == {x \in X : x[2] = t}
<1>1. req[r].pc = "idle" /\ Goto(r, state) /\ UNCHANGED <<article, live, raced>>
  BY DEF RemoveHook
<1>0. PICK refused \in SUBSET Pairs(S) :
        /\ tagged' = [t \in Tags |-> tagged[t] - Cardinality(Of(Pairs(S) \ refused, t))]
        /\ missed' = [t \in Tags |-> missed[t] - Cardinality(Of(refused, t))]
  BY DEF RemoveHook
<1>2. Tables /\ n \in Nat /\ S \in SUBSET (1..n)
  BY DEF TagsInv, Tables
<1>3. state.pc = "remove" /\ state.ids = S /\ state.seen = Pairs(S)
  OBVIOUS
<1>4. Read(state, n)
  BY <1>2 DEF Read
<1>5. ASSUME NEW t \in Tags
      PROVE  /\ Cardinality(Of(Pairs(S) \ refused, t)) \in Nat /\ Cardinality(Of(refused, t)) \in Nat
             /\ Share(state, t) \in Nat
             /\ Share(state, t) = Cardinality(Of(Pairs(S) \ refused, t)) + Cardinality(Of(refused, t))
  <2> DEFINE A == {a \in S : <<a, t>> \in Pairs(S)}
  <2>1. Share(state, t) = Cardinality(A)
    BY <1>2, <1>3, <1>4, SharesRemove
  <2>2. IsFiniteSet(A)
    <3>1. A \in SUBSET (1..n) /\ 1 \in Int /\ n \in Int
      BY <1>2
    <3> QED
      BY <3>1, FS_Interval, FS_Subset
  <2>3. Of(Pairs(S), t) = A \X {t}
    <3>1. \A x \in Pairs(S) : x = <<x[1], x[2]>> /\ x[1] \in S
      BY <1>2 DEF Pairs, Tables
    <3>2. ASSUME NEW x \in Of(Pairs(S), t) PROVE x \in A \X {t}
      <4>1. x \in Pairs(S) /\ x[2] = t /\ x = <<x[1], x[2]>> /\ x[1] \in S
        BY <3>1, <3>2
      <4>2. x = <<x[1], t>> /\ <<x[1], t>> \in Pairs(S)
        BY <4>1
      <4> QED
        BY <4>1, <4>2
    <3>3. ASSUME NEW x \in A \X {t} PROVE x \in Of(Pairs(S), t)
      <4>1. x = <<x[1], t>> /\ x[1] \in A /\ x[2] = t
        BY <3>3
      <4> QED
        BY <4>1
    <3> QED
      BY <3>2, <3>3
  <2>4. IsFiniteSet({t}) /\ Cardinality({t}) = 1 /\ Cardinality(A) \in Nat
    BY <2>2, FS_Singleton, FS_CardinalityType
  <2>5. IsFiniteSet(Of(Pairs(S), t)) /\ Cardinality(Of(Pairs(S), t)) = Cardinality(A) * 1
    <3> HIDE DEF A, Of
    <3> QED
      BY <2>2, <2>3, <2>4, FS_Product
  <2>6. Of(refused, t) \in SUBSET Of(Pairs(S), t) /\ Of(Pairs(S) \ refused, t) = Of(Pairs(S), t) \ Of(refused, t)
    BY <1>0
  <2> HIDE DEF A, Of, state
  <2>7. /\ Cardinality(Of(Pairs(S) \ refused, t)) \in Nat /\ Cardinality(Of(refused, t)) \in Nat
        /\ Cardinality(Of(Pairs(S) \ refused, t)) + Cardinality(Of(refused, t)) = Cardinality(Of(Pairs(S), t))
    BY <2>5, <2>6, Parted
  <2>8. PICK c, d : c = Cardinality(A) /\ d = Cardinality(Of(Pairs(S), t))
    OBVIOUS
  <2>9. c \in Nat /\ d = c
    BY <2>4, <2>5, <2>8
  <2> QED
    BY <2>1, <2>7, <2>8, <2>9
<1> HIDE DEF Of
<1>6. Tables' /\ Len(article) <= Len(article') /\ Read(state, Len(article'))
  <2>1. tagged' \in [Tags -> Int] /\ missed' \in [Tags -> Int]
    <3>1. ASSUME NEW t \in Tags
          PROVE  /\ tagged[t] - Cardinality(Of(Pairs(S) \ refused, t)) \in Int
                 /\ missed[t] - Cardinality(Of(refused, t)) \in Int
      <4>1. tagged[t] \in Int /\ missed[t] \in Int
        BY <1>2 DEF Tables
      <4>2. Cardinality(Of(Pairs(S) \ refused, t)) \in Nat /\ Cardinality(Of(refused, t)) \in Nat
        BY <1>5
      <4> QED
        BY <4>1, <4>2
    <3> QED
      BY <1>0, <3>1, Zenon
  <2> QED
    BY <1>1, <1>2, <1>4, <2>1 DEF Tables
<1>7. ASSUME NEW t \in Tags
      PROVE  Told'[t] + Share(state, t) + Cardinality(Having(t))
               = Told[t] + Share(req[r], t) + Cardinality(Having(t)')
  <2>1. Having(t)' = Having(t) /\ Cardinality(Having(t)) \in Nat
    BY <1>1, <1>2, HavingFinite DEF Having
  <2>2. Share(req[r], t) = 0
    BY <1>1, SharesNothing
  <2>3. /\ tagged[t] \in Int /\ tagged'[t] = tagged[t] - Cardinality(Of(Pairs(S) \ refused, t))
        /\ missed[t] \in Int /\ missed'[t] = missed[t] - Cardinality(Of(refused, t))
    BY <1>0, <1>2 DEF Tables
  <2>4. Told[t] = tagged[t] + missed[t] /\ Told'[t] = tagged'[t] + missed'[t]
    BY DEF Told
  <2> HIDE DEF state
  <2>5. PICK x, y : x = Cardinality(Of(Pairs(S) \ refused, t)) /\ y = Cardinality(Of(refused, t))
    OBVIOUS
  <2>6. x \in Nat /\ y \in Nat /\ Share(state, t) = x + y
    BY <1>5, <2>5
  <2>7. Told[t] \in Int /\ Told'[t] = Told[t] - (x + y)
    BY <2>3, <2>4, <2>5, <2>6
  <2> QED
    BY <2>1, <2>2, <2>6, <2>7
<1> HIDE DEF state
<1> QED
  BY <1>1, <1>6, <1>7, TagStep

LEMMA CommitCounts ==
  ASSUME IsFiniteSet(Reqs), TagsInv, NEW r \in Reqs, RemoveCommit(r)
  PROVE  TagsInv'
<1> DEFINE ids == req[r].ids
           n   == Len(article)
<1>1. /\ req[r].pc = "remove" /\ Goto(r, Done) /\ UNCHANGED <<tagged, missed>>
      /\ article' = [a \in DOMAIN article |-> IF a \in ids THEN [article[a] EXCEPT !.deleted = TRUE] ELSE article[a]]
      /\ live' = live \ Pairs(ids)
      /\ raced' = (raced \/ req[r].seen # Pairs(ids))
  BY DEF RemoveCommit
<1>2. /\ Tables /\ n \in Nat /\ article \in Seq(Article) /\ Read(req[r], n)
      /\ live \subseteq (1..n) \X Tags
  BY DEF TagsInv, Tables, Requests
<1>3. article' \in Seq(Article) /\ Len(article') = n
  <2>1. \A a \in 1..n : article[a] \in Article
    BY <1>2
  <2>2. \A a \in 1..n : [article[a] EXCEPT !.deleted = TRUE] \in Article
    BY <2>1 DEF Article
  <2>3. DOMAIN article = 1..n
    BY <1>2
  <2>4. article' \in [1..n -> Article]
    BY <1>1, <2>1, <2>2, <2>3
  <2> QED
    BY <1>2, <2>4
<1>4. live' \subseteq live
  BY <1>1
<1>5. Tables'
  BY <1>1, <1>2, <1>3, <1>4 DEF Tables
<1>6. Len(article) <= Len(article') /\ Read(Done, Len(article')) /\ Done.pc = "done"
  BY <1>2, <1>3, GoesOn
<1>7. ASSUME ~raced', NEW t \in Tags
      PROVE  Told'[t] + Share(Done, t) + Cardinality(Having(t))
               = Told[t] + Share(req[r], t) + Cardinality(Having(t)')
  <2> DEFINE gone == {a \in ids : <<a, t>> \in req[r].seen}
  <2>1. req[r].seen = Pairs(ids)
    BY <1>1, <1>7
  <2>2. gone \in SUBSET Having(t)
    BY <1>2, <2>1 DEF Pairs, Having
  <2>3. Having(t)' = Having(t) \ gone
    <3>1. \A a : <<a, t>> \in live' <=> <<a, t>> \in live /\ a \notin ids
      BY <1>1 DEF Pairs
    <3>2. \A a : <<a, t>> \in live => (a \in ids <=> a \in gone)
      BY <2>1 DEF Pairs
    <3> QED
      BY <1>3, <3>1, <3>2 DEF Having
  <2>4. IsFiniteSet(Having(t)) /\ IsFiniteSet(gone)
    BY <1>2, <2>2, HavingFinite, FS_Subset
  <2>5. Having(t) \cap gone = gone
    BY <2>2
  <2>6. Cardinality(Having(t)') = Cardinality(Having(t)) - Cardinality(gone)
    BY <2>3, <2>4, <2>5, FS_Difference
  <2>7. Share(req[r], t) = Cardinality(gone) /\ Share(Done, t) = 0
    BY <1>1, <1>2, <1>6, SharesRemove, SharesNothing
  <2>8. /\ Told[t] \in Int /\ Told'[t] = Told[t]
        /\ Cardinality(Having(t)) \in Nat /\ Cardinality(gone) \in Nat
    BY <1>1, <1>2, <2>4, FS_CardinalityType DEF Tables, Told
  <2> HIDE DEF gone
  <2> QED
    BY <2>6, <2>7, <2>8
<1>8. raced => raced'
  BY <1>1, Zenon
<1> QED
  BY <1>1, <1>5, <1>6, <1>7, <1>8, TagStep

LEMMA RollbackCounts ==
  ASSUME IsFiniteSet(Reqs), TagsInv, NEW r \in Reqs, RemoveRollback(r)
  PROVE  TagsInv'
<1>1. Goto(r, Done) /\ raced' /\ UNCHANGED <<article, live, tagged, missed>>
  BY DEF RemoveRollback, tagVars
<1>2. article' \in Seq(Article) /\ Len(article') = Len(article) /\ Read(Done, Len(article))
  BY <1>1, GoesOn DEF TagsInv, Tables
<1> QED
  BY <1>1, <1>2, IdleStep

LEMMA DeleteTagCounts ==
  ASSUME IsFiniteSet(Reqs), TagsInv, NEW r \in Reqs, DeleteTag(r)
  PROVE  TagsInv'
<1> DEFINE t0    == req[r].tag
           found == {x \in live : x[2] = t0}
           Less(n) == [n EXCEPT ![t0] = @ - Cardinality(found)]
<1>1. req[r].pc = "deleteTag" /\ Goto(r, Done) /\ UNCHANGED article
  BY DEF DeleteTag
<1>2. Tables /\ t0 \in Tags /\ Len(article) \in Nat /\ live \subseteq (1..Len(article)) \X Tags
  BY <1>1 DEF TagsInv, Tables, Requests, Read
<1>3. Read(Done, Len(article)) /\ Done.pc = "done"
  BY GoesOn
<1>4. CASE UNCHANGED <<tagVars, raced>>
  <2>1. UNCHANGED <<live, tagged, missed>>
    BY <1>4 DEF tagVars
  <2>2. article' \in Seq(Article) /\ Len(article') = Len(article)
    BY <1>1, <1>2 DEF Tables
  <2>3. req[r].pc \notin {"count", "remove"} /\ Done.pc \notin {"count", "remove"} /\ (raced => raced')
    BY <1>1, <1>3, <1>4
  <2> QED
    BY <1>1, <1>3, <2>1, <2>2, <2>3, IdleStep
<1>5. CASE /\ \/ tagged' = Less(tagged) /\ UNCHANGED missed
              \/ missed' = Less(missed) /\ UNCHANGED tagged
           /\ \/ live' = live \ found /\ UNCHANGED raced
              \/ raced' = TRUE /\ UNCHANGED live
  <2>1. found = Having(t0) \X {t0}
    BY <1>2 DEF Having
  <2>2. IsFiniteSet(Having(t0)) /\ IsFiniteSet({t0}) /\ Cardinality({t0}) = 1
    BY <1>2, HavingFinite, FS_Singleton
  <2>3. Cardinality(found) = Cardinality(Having(t0)) * 1
    BY <2>1, <2>2, FS_Product
  <2>4. Cardinality(Having(t0)) \in Nat
    BY <2>2, FS_CardinalityType
  <2>5. Cardinality(found) = Cardinality(Having(t0))
    <3>1. PICK c : c = Cardinality(Having(t0))
      OBVIOUS
    <3> QED
      BY <2>3, <2>4, <3>1
  <2>6. Tables'
    <3>1. tagged' \in [Tags -> Int] /\ missed' \in [Tags -> Int]
      BY <1>2, <1>5, <2>4, <2>5 DEF Tables
    <3>2. live' \subseteq live
      BY <1>5
    <3> QED
      BY <1>1, <1>2, <3>1, <3>2 DEF Tables
  <2>7. ASSUME ~raced', NEW t \in Tags
        PROVE  Told'[t] + Share(Done, t) + Cardinality(Having(t))
                 = Told[t] + Share(req[r], t) + Cardinality(Having(t)')
    <3>1. Share(Done, t) = 0 /\ Share(req[r], t) = 0
      BY <1>1, <1>3, SharesNothing
    <3>2. Told[t] \in Int /\ Cardinality(Having(t)) \in Nat
      BY <1>2, HavingFinite DEF Tables, Told
    <3>0. live' = live \ found
      BY <1>5, <2>7
    <3>3. CASE t = t0
      <4>1. Having(t)' = {}
        BY <3>0, <3>3 DEF Having
      <4>2. Told'[t] = Told[t] - Cardinality(Having(t))
        BY <1>2, <1>5, <2>4, <2>5, <3>3 DEF Tables, Told
      <4>3. Cardinality(Having(t)') = 0
        BY <4>1, FS_EmptySet
      <4> QED
        BY <3>1, <3>2, <4>2, <4>3
    <3>4. CASE t # t0
      <4>1. \A a : <<a, t>> \in live' <=> <<a, t>> \in live
        BY <3>0, <3>4
      <4>2. Having(t)' = Having(t)
        BY <1>1, <4>1 DEF Having
      <4>3. Told'[t] = Told[t]
        BY <1>2, <1>5, <3>4 DEF Tables, Told
      <4> QED
        BY <3>1, <3>2, <4>2, <4>3
    <3> QED
      BY <3>3, <3>4
  <2>8. Len(article) <= Len(article') /\ Read(Done, Len(article')) /\ (raced => raced')
    BY <1>1, <1>2, <1>3, <1>5
  <2> QED
    BY <1>1, <2>6, <2>7, <2>8, TagStep
<1> QED
  BY <1>4, <1>5 DEF DeleteTag

-----------------------------------------------------------------------------
\* A request in the remaining handlers neither writes the tables of tags nor
\* owes them anything.
LEMMA AskCounts ==
  ASSUME IsFiniteSet(Reqs), TagsInv, NEW r \in Reqs, Ask(r)
  PROVE  TagsInv'
<1> DEFINE Plain(state) == /\ Goto(r, state) /\ UNCHANGED <<article, live, tagged, missed, raced>>
                           /\ req[r].pc = "idle" /\ Read(state, Len(article))
                           /\ state.pc \notin {"count", "remove"}
<1>1. ASSUME NEW state, Plain(state) PROVE TagsInv'
  <2>1. article' \in Seq(Article) /\ Len(article') = Len(article)
    BY <1>1 DEF TagsInv, Tables
  <2>2. req[r].pc \notin {"count", "remove"}
    BY <1>1
  <2> QED
    BY <1>1, <2>1, <2>2, IdleStep
<1>2. DOMAIN article = 1..Len(article)
  BY DEF TagsInv, Tables
<1>3. ASSUME NEW u \in Accounts, NEW s \in {"draft", "examining"}, NEW T \in SUBSET Tags, CreateStart(r, u, s, T)
      PROVE  TagsInv'
  <2> DEFINE state == [pc |-> "create", by |-> u, tags |-> T,
                       status |-> IF skipExamining /\ s = "examining" THEN "published" ELSE s]
  <2>1. Plain(state)
    BY <1>3 DEF CreateStart, tagVars, Read, Statuses
  <2> HIDE DEF state, Plain
  <2> QED
    BY <1>1, <2>1
<1>4. ASSUME NEW a \in DOMAIN article, UpdateTagsOnly(r, a)
      PROVE  TagsInv'
  <2>1. Plain(Done)
    BY <1>4, GoesOn DEF UpdateTagsOnly, tagVars
  <2> HIDE DEF Plain
  <2> QED
    BY <1>1, <2>1
<1>5. ASSUME NEW a \in DOMAIN article, NEW T \in (SUBSET Tags) \cup {{NoField}}, NEW body, UpdateStart(r, a, T, body)
      PROVE  TagsInv'
  <2> DEFINE state == [pc |-> "update", id |-> a, old |-> TagsOf(a), new |-> T, body |-> body,
                       examine |-> ~skipExamining /\ article[a].status = "published"]
  <2>1. state.pc = "update" /\ state.id = a /\ state.new = T
    OBVIOUS
  <2>2. a \in 1..Len(article) /\ (T # {NoField} => T \subseteq Tags)
    BY <1>2, <1>5
  <2>3. Read(state, Len(article))
    BY <2>1, <2>2 DEF Read
  <2>4. Goto(r, state) /\ req[r].pc = "idle" /\ UNCHANGED <<article, live, tagged, missed, raced>>
    BY <1>5 DEF UpdateStart, tagVars
  <2>5. Plain(state)
    BY <2>1, <2>3, <2>4
  <2> HIDE DEF state, Plain
  <2> QED
    BY <1>1, <2>5
<1>6. ASSUME NEW u, NEW a, NEW kind, TopStart(r, u, a, kind)
      PROVE  TagsInv'
  <2> DEFINE state == [pc |-> "lock", by |-> u, id |-> a, limited |-> kind = "author" /\ u # Admin]
  <2>1. Plain(state)
    BY <1>6 DEF TopStart, tagVars, Read
  <2> HIDE DEF state, Plain
  <2> QED
    BY <1>1, <2>1
<1>7. ASSUME NEW u, NEW a, Unpin(r, u, a)
      PROVE  TagsInv'
  <2> DEFINE state == Refresh("top", {a})
  <2>1. Read(state, Len(article)) /\ state.pc \in {"done", "load"}
    BY GoesOn
  <2> HIDE DEF state
  <2>2. Goto(r, state) /\ req[r].pc = "idle" /\ UNCHANGED <<article, live, tagged, missed, raced>>
    BY <1>7 DEF Unpin, tagVars, state
  <2>3. Plain(state)
    BY <2>1, <2>2
  <2> HIDE DEF Plain
  <2> QED
    BY <1>1, <2>3
<1>8. ASSUME NEW S \in SUBSET DOMAIN article, RemoveHook(r, S)
      PROVE  TagsInv'
  BY <1>8, HookCounts
<1>9. ASSUME NEW t, RenameTag(r, t)
      PROVE  TagsInv'
  <2> DEFINE state == Refresh("tags", {x[1] : x \in {y \in live : y[2] = t}})
  <2>1. Read(state, Len(article)) /\ state.pc \in {"done", "load"}
    BY GoesOn
  <2>2. Goto(r, state) /\ req[r].pc = "idle" /\ UNCHANGED <<article, live, tagged, missed, raced>>
    BY <1>9 DEF RenameTag, tagVars
  <2> HIDE DEF state
  <2>3. Plain(state)
    BY <2>1, <2>2
  <2> HIDE DEF Plain
  <2> QED
    BY <1>1, <2>3
<1>10. ASSUME NEW t \in Tags, DeleteTagCheck(r, t)
       PROVE  TagsInv'
  <2> DEFINE state == [pc |-> "deleteTag", tag |-> t]
  <2>1. Plain(state)
    BY <1>10 DEF DeleteTagCheck, tagVars, Read
  <2> HIDE DEF state, Plain
  <2> QED
    BY <1>1, <2>1
<1>11. CASE FullSync(r)
  <2> DEFINE state == [pc |-> "load", kind |-> "all", ids |-> {a \in DOMAIN article : ~article[a].deleted}]
  <2>1. Plain(state)
    BY <1>11 DEF FullSync, tagVars, Read
  <2> HIDE DEF state, Plain
  <2> QED
    BY <1>1, <2>1
<1> QED
  BY <1>3, <1>4, <1>5, <1>6, <1>7, <1>8, <1>9, <1>10, <1>11 DEF Ask

LEMMA StepCounts ==
  ASSUME IsFiniteSet(Reqs), TagsInv, NEW r \in Reqs, Step(r)
  PROVE  TagsInv'
<1> DEFINE Plain(state) == /\ Goto(r, state) /\ UNCHANGED <<article, live, tagged, missed, raced>>
                           /\ req[r].pc \notin {"count", "remove"} /\ Read(state, Len(article))
                           /\ state.pc \notin {"count", "remove"}
<1>1. ASSUME NEW state, Plain(state) PROVE TagsInv'
  <2>1. article' \in Seq(Article) /\ Len(article') = Len(article)
    BY <1>1 DEF TagsInv, Tables
  <2> QED
    BY <1>1, <2>1, IdleStep
<1>2. Read(Done, Len(article)) /\ Done.pc = "done"
  BY GoesOn
<1>3. CASE TopCheck(r)
  <2> DEFINE state == Cleared(r)
  <2>1. UNCHANGED <<article, live, tagged, missed, raced>> /\ req[r].pc = "lock" /\ (Goto(r, Done) \/ Goto(r, state))
    BY <1>3 DEF TopCheck, tagVars
  <2>2. Read(state, Len(article)) /\ state.pc = "pin"
    BY DEF Read, Cleared
  <2> HIDE DEF state
  <2>3. Plain(Done) \/ Plain(state)
    BY <1>2, <2>1, <2>2
  <2> HIDE DEF Plain
  <2> QED
    BY <1>1, <2>3
<1>4. CASE TopPin(r)
  <2> DEFINE state == Refresh("top", {req[r].id})
  <2>1. Read(state, Len(article)) /\ state.pc \in {"done", "load"}
    BY GoesOn
  <2>2. /\ Goto(r, Done) \/ Goto(r, state)
        /\ req[r].pc = "pin" /\ UNCHANGED <<article, live, tagged, missed, raced>>
    BY <1>4 DEF TopPin, tagVars
  <2> HIDE DEF state
  <2>3. Plain(Done) \/ Plain(state)
    BY <1>2, <2>1, <2>2
  <2> HIDE DEF Plain
  <2> QED
    BY <1>1, <2>3
<1>5. CASE RefreshLoad(r)
  <2> DEFINE S     == {a \in req[r].ids : req[r].kind = "top" \/ Exists(a)}
             state == [pc |-> "bulk", kind |-> req[r].kind, part |-> [a \in S |-> Part(req[r].kind, a)]]
  <2>1. Goto(r, state) /\ req[r].pc = "load" /\ UNCHANGED <<article, live, tagged, missed, raced>>
    BY <1>5 DEF RefreshLoad, tagVars
  <2>2. Read(state, Len(article)) /\ state.pc = "bulk"
    BY DEF Read
  <2> HIDE DEF state
  <2>3. Plain(state)
    BY <2>1, <2>2
  <2> HIDE DEF Plain
  <2> QED
    BY <1>1, <2>3
<1>6. CASE RefreshWrite(r)
  <2>1. Goto(r, Done) /\ req[r].pc = "bulk" /\ UNCHANGED <<article, live, tagged, missed, raced>>
    BY <1>6 DEF RefreshWrite, tagVars
  <2>2. Plain(Done)
    BY <1>2, <2>1
  <2> HIDE DEF Plain
  <2> QED
    BY <1>1, <2>2
<1>7. CASE Aborted(r)
  <2>1. /\ Goto(r, Done) /\ req[r].pc \notin {"count", "remove"}
        /\ UNCHANGED <<article, live, tagged, missed, raced>>
    BY <1>7 DEF Aborted, tagVars
  <2>2. Plain(Done)
    BY <1>2, <2>1
  <2> HIDE DEF Plain
  <2> QED
    BY <1>1, <2>2
<1> QED
  BY <1>3, <1>4, <1>5, <1>6, <1>7, CreateCounts, CountCounts, UpdateCounts, CommitCounts,
     RollbackCounts, DeleteTagCounts DEF Step

LEMMA NextCounts ==
  ASSUME IsFiniteSet(Reqs), TagsInv, [ArtNext]_artVars
  PROVE  TagsInv'
<1>1. article \in Seq(Article)
  BY DEF TagsInv, Tables
<1>2. ASSUME NEW r \in Reqs, Ask(r) \/ Step(r) PROVE TagsInv'
  BY <1>2, AskCounts, StepCounts
<1>3. ASSUME NEW a \in DOMAIN article, NEW s \in Statuses, Examine(a, s) PROVE TagsInv'
  <2>1. article' = [article EXCEPT ![a].status = s] /\ UNCHANGED <<live, tagged, missed, req, raced>>
    BY <1>3 DEF Examine, tagVars
  <2>2. article[a] \in Article
    BY <1>1
  <2>3. [article[a] EXCEPT !.status = s] \in Article
    BY <2>2 DEF Article
  <2>4. article' \in Seq(Article) /\ Len(article') = Len(article)
    BY <1>1, <2>1, <2>3
  <2> QED
    BY <2>1, <2>4, StillStep
<1>4. ASSUME NEW t, NEW state, SaveTag(t, state) PROVE TagsInv'
  BY <1>1, <1>4, StillStep DEF SaveTag
<1>5. CASE Replicate
  BY <1>1, <1>5, StillStep DEF Replicate, tagVars
<1>6. CASE UNCHANGED artVars
  BY <1>1, <1>6, StillStep DEF artVars, tagVars
<1> QED
  BY <1>2, <1>3, <1>4, <1>5, <1>6 DEF ArtNext

LEMMA InitCounts ==
  ASSUME IsFiniteSet(Reqs), Seeds \subseteq Seq(Article), ArtInit
  PROVE  TagsInv
<1>1. /\ article \in Seq(Article) /\ live = {}
      /\ tagged = [t \in Tags |-> 0] /\ missed = [t \in Tags |-> 0]
      /\ req = [r \in Reqs |-> [pc |-> "idle"]]
  BY DEF ArtInit
<1>2. Tables
  BY <1>1 DEF Tables
<1>3. Requests
  BY <1>1 DEF Requests, Read
<1>4. ASSUME NEW t \in Tags PROVE Told[t] + Owed(t) = Cardinality(Having(t))
  <2>1. Adding(t) = {} /\ Dropping(t) = {} /\ Removing(t) = {} /\ Having(t) = {}
    BY <1>1 DEF Adding, Dropping, Removing, Having, Adds, Drops, Removes
  <2> QED
    BY <1>1, <2>1, FS_EmptySet DEF Owed, Told
<1> QED
  BY <1>2, <1>3, <1>4 DEF TagsInv, Counted

\* With no request under way nothing is owed.
LEMMA QuietCounts ==
  ASSUME TagsInv
  PROVE  TagsCounted
<1> SUFFICES ASSUME Quiet, ~raced, NEW t \in Tags
             PROVE  Told[t] = Cardinality({x \in live : x[2] = t})
  BY DEF TagsCounted, Told
<1> DEFINE found == {x \in live : x[2] = t}
<1>1. Adding(t) = {} /\ Dropping(t) = {} /\ Removing(t) = {}
  BY DEF Quiet, Adding, Dropping, Removing, Adds, Drops, Removes
<1>2. Owed(t) = 0
  BY <1>1, FS_EmptySet DEF Owed
<1>3. Told[t] + Owed(t) = Cardinality(Having(t)) /\ Told[t] \in Int /\ Tables
  BY DEF TagsInv, Counted, Tables, Told
<1>4. found = Having(t) \X {t}
  BY <1>3 DEF Having, Tables
<1>5. /\ IsFiniteSet(Having(t)) /\ Cardinality(Having(t)) \in Nat
      /\ IsFiniteSet({t}) /\ Cardinality({t}) = 1
  BY <1>3, HavingFinite, FS_Singleton
<1>6. Cardinality(found) = Cardinality(Having(t)) * 1
  BY <1>4, <1>5, FS_Product
<1>7. PICK c, d : c = Cardinality(Having(t)) /\ d = Cardinality(found)
  OBVIOUS
<1>8. c \in Nat /\ d = c /\ Told[t] = c
  BY <1>2, <1>3, <1>5, <1>6, <1>7
<1> QED
  BY <1>7, <1>8

(***************************************************************************)
(* Every tag shows as many articles as have it, whenever no request is     *)
(* under way and no request's reading of the old tags was overtaken, nor a *)
(* removal rolled back: what the handlers add in Redis after their         *)
(* transactions, and the hooks of a removal before theirs, is what the     *)
(* relations changed by, and the HINCRBYs that failed are what is missing  *)
(* (article_create.go, article_tag_helper.go, the hooks of ArticleModel and*)
(* TagModel).                                                              *)
(***************************************************************************)
THEOREM TagsAreCounted ==
  ASSUME IsFiniteSet(Reqs), Seeds \subseteq Seq(Article)
  PROVE  ArtSpec => []TagsCounted
<1>1. ArtInit => TagsInv
  BY InitCounts
<1>2. TagsInv /\ [ArtNext]_artVars => TagsInv'
  BY NextCounts
<1>3. TagsInv => TagsCounted
  BY QuietCounts
<1> QED
  BY <1>1, <1>2, <1>3, PTL DEF ArtSpec

-----------------------------------------------------------------------------
(* Types.                                                                  *)
Kinds == {"tags", "content", "top", "all"}

\* What a refresh of each kind has selected for an article.
Parts(kind) ==
  CASE kind = "tags"    -> [tags : SUBSET Tags]
    [] kind = "content" -> [status : Statuses]
    [] kind = "top"     -> [top : SUBSET {"author", "admin"}]
    [] kind = "all"     -> [status : Statuses, tags : SUBSET Tags, top : SUBSET {"author", "admin"}]

Loads(state, n) == state.kind \in Kinds /\ state.ids \subseteq 1..n

\* What a request carries on to a pin or to a document, when there are n articles.
Carries(state, n) ==
  /\ state.pc \in {"lock", "pin"} => state.by \in Accounts /\ state.id \in 1..n
  /\ state.pc = "load" => Loads(state, n)
  /\ state.pc = "count" /\ state.next.pc = "load" => Loads(state.next, n)
  /\ state.pc = "bulk" =>
       /\ state.kind \in Kinds /\ DOMAIN state.part \subseteq 1..n
       /\ \A a \in DOMAIN state.part : state.part[a] \in Parts(state.kind)

Carried == \A q \in Reqs : Carries(req[q], Len(article))

Columns ==
  /\ skipExamining \in BOOLEAN /\ raced \in BOOLEAN /\ Len(article) <= MaxArticles
  /\ dead \subseteq (1..Len(article)) \X Tags /\ live \cap dead = {}
  /\ tag \in [Tags -> {"absent", "on", "off", "deleted"}]
  /\ pin \subseteq Accounts \X (1..Len(article)) /\ rowLock \in [Accounts -> Reqs \cup {Nobody}]
  /\ eased \subseteq Accounts
  /\ binlog \subseteq 1..Len(article)
  /\ doc \in [Ids -> Doc \cup {NoDoc}]

TypesInv == TagsInv /\ Columns /\ Carried

LEMMA TypesTell ==
  ASSUME MaxArticles \in Nat, TypesInv
  PROVE  ArtTypeOK
<1>1. Len(article) \in Nat /\ Len(article) <= MaxArticles
  BY DEF TypesInv, TagsInv, Tables, Columns
<1>2. 1..Len(article) \subseteq Ids
  BY <1>1 DEF Ids
<1> QED
  BY <1>2 DEF TypesInv, TagsInv, Tables, Columns, ArtTypeOK

LEMMA CarriesMore ==
  ASSUME NEW state, NEW n \in Nat, NEW m \in Nat, n <= m, Carries(state, n)
  PROVE  Carries(state, m)
<1>1. 1..n \subseteq 1..m
  OBVIOUS
<1> QED
  BY <1>1 DEF Carries, Loads

\* A step of one request.
LEMMA CarriedOn ==
  ASSUME Requests, Carried, NEW r \in Reqs, NEW state, Goto(r, state),
         Len(article) \in Nat, Len(article') \in Nat, Len(article) <= Len(article'),
         Carries(state, Len(article'))
  PROVE  Carried'
<1>1. req'[r] = state /\ \A q \in Reqs \ {r} : req'[q] = req[q]
  BY DEF Requests, Goto
<1> SUFFICES ASSUME NEW q \in Reqs PROVE Carries(req'[q], Len(article'))
  BY DEF Carried
<1>2. Carries(req[q], Len(article'))
  BY CarriesMore DEF Carried
<1> QED
  BY <1>1, <1>2

LEMMA Ends ==
  ASSUME NEW n
  PROVE  Carries(Done, n)
BY DEF Carries, Done

\* A refresh, at once or after a count.
LEMMA Refreshes ==
  ASSUME NEW n, NEW kind \in Kinds, NEW S, S \subseteq 1..n
  PROVE  /\ Carries(Refresh(kind, S), n)
         /\ \A old, new : Carries(Recount(old, new, Refresh(kind, S)), n)
BY DEF Carries, Refresh, Done, Recount, Loads

LEMMA KindsAre == {"tags", "content", "top", "all"} \subseteq Kinds
BY DEF Kinds

LEMMA SameLength ==
  ASSUME NEW n \in Nat, NEW m \in Nat, 1..n = 1..m
  PROVE  n = m
<1>1. CASE n < m
  BY <1>1, m \in 1..m
<1>2. CASE m < n
  BY <1>2, n \in 1..n
<1> QED
  BY <1>1, <1>2

\* What Preload, TopMap and the row give a document.
LEMMA PartTyped ==
  ASSUME Tables, NEW kind \in Kinds, NEW a \in 1..Len(article)
  PROVE  Part(kind, a) \in Parts(kind)
<1>0. article[a] \in Article
  BY DEF Tables
<1>1. article[a].status \in Statuses
  BY <1>0 DEF Article
<1>2. Preload(a) \in SUBSET Tags /\ TopMap(a) \in SUBSET {"author", "admin"}
  BY DEF Preload, TopMap
<1> QED
  BY <1>1, <1>2 DEF Part, Parts, Kinds

LEMMA PartMerges ==
  ASSUME NEW kind \in Kinds, NEW p \in Parts(kind), NEW d \in Doc
  PROVE  Merged(d, p) \in Doc /\ (kind = "all" => p \in Doc)
<1>1. PICK m : m = Merged(d, p)
  OBVIOUS
<1>2. d = [status |-> d.status, tags |-> d.tags, top |-> d.top]
  BY DEF Doc
<1>3. /\ DOMAIN m = {"status", "tags", "top"}
      /\ \A f \in {"status", "tags", "top"} : m[f] = IF f \in DOMAIN p THEN p[f] ELSE d[f]
      /\ m = [f \in {"status", "tags", "top"} |-> m[f]]
  BY <1>1, <1>2 DEF Merged
<1>4. /\ "status" \in DOMAIN p => p["status"] \in Statuses
      /\ "tags" \in DOMAIN p => p["tags"] \in SUBSET Tags
      /\ "top" \in DOMAIN p => p["top"] \in SUBSET {"author", "admin"}
      /\ kind = "all" => p \in Doc
  BY DEF Parts, Kinds, Doc
<1>5. /\ m["status"] \in Statuses \cup {NoField} /\ m["tags"] \in SUBSET Tags /\ m["top"] \in SUBSET {"author", "admin"}
  BY <1>3, <1>4 DEF Doc
<1>6. m = [status |-> m["status"], tags |-> m["tags"], top |-> m["top"]]
  BY <1>3
<1>7. m \in Doc
  BY <1>5, <1>6 DEF Doc
<1> QED
  BY <1>1, <1>4, <1>7

\* Relations stay within the articles and tags, live or deleted.
LEMMA SyncTyped ==
  ASSUME NEW n, NEW a \in 1..n, NEW new \in SUBSET Tags, SyncTags(a, new),
         live \subseteq (1..n) \X Tags, dead \subseteq (1..n) \X Tags, live \cap dead = {}
  PROVE  dead' \subseteq (1..n) \X Tags /\ live' \cap dead' = {}
<1>1. Pairs({a}) \subseteq live
  BY DEF Pairs
<1>2. PICK p, m : p = Pairs({a}) /\ m = {a} \X new
  OBVIOUS
<1>3. live' = (live \ p) \cup m /\ dead' = (dead \cup p) \ m /\ p \subseteq live
  BY <1>1, <1>2 DEF SyncTags
<1> QED
  BY <1>3

\* A step that leaves the tables alone.
LEMMA OnlyCarries ==
  ASSUME TypesInv, TagsInv', NEW r \in Reqs, NEW state, Goto(r, state),
         UNCHANGED <<skipExamining, article, tagVars, pinVars, docVars, raced>>,
         Carries(state, Len(article))
  PROVE  TypesInv'
<1>1. UNCHANGED <<skipExamining, article, live, dead, tag, tagged, missed, pin, rowLock, eased, binlog, doc, raced>>
  BY DEF tagVars, pinVars, docVars
<1>2. Len(article) \in Nat /\ Requests /\ Carried
  BY DEF TypesInv, TagsInv, Tables
<1>3. Carried'
  BY <1>1, <1>2, CarriedOn
<1>4. Columns'
  BY <1>1 DEF TypesInv, Columns
<1> QED
  BY <1>3, <1>4 DEF TypesInv

LEMMA AskTyped ==
  ASSUME TypesInv, TagsInv', NEW r \in Reqs, Ask(r)
  PROVE  TypesInv'
<1>0. /\ article \in Seq(Article) /\ Len(article) \in Nat /\ DOMAIN article = 1..Len(article)
      /\ live \subseteq (1..Len(article)) \X Tags
  BY DEF TypesInv, TagsInv, Tables
<1>1. ASSUME NEW u \in Accounts, NEW s \in {"draft", "examining"}, NEW T \in SUBSET Tags, CreateStart(r, u, s, T)
      PROVE  TypesInv'
  BY <1>1, OnlyCarries DEF CreateStart, Carries
<1>2. ASSUME NEW a, UpdateTagsOnly(r, a) PROVE TypesInv'
  BY <1>2, OnlyCarries, Ends DEF UpdateTagsOnly
<1>3. ASSUME NEW a, NEW T, NEW body, UpdateStart(r, a, T, body) PROVE TypesInv'
  BY <1>3, OnlyCarries DEF UpdateStart, Carries
<1>4. ASSUME NEW a \in DOMAIN article, NEW u \in Accounts, NEW kind, TopStart(r, u, a, kind) PROVE TypesInv'
  BY <1>0, <1>4, OnlyCarries DEF TopStart, Carries
<1>5. ASSUME NEW a \in DOMAIN article, NEW u \in Accounts, Unpin(r, u, a) PROVE TypesInv'
  <2>1. /\ pin' = pin \ {<<u, a>>} /\ Goto(r, Refresh("top", {a}))
        /\ UNCHANGED <<skipExamining, article, live, dead, tag, tagged, missed, rowLock, eased, binlog, doc, raced>>
    BY <1>5 DEF Unpin, tagVars, docVars
  <2>2. Carries(Refresh("top", {a}), Len(article))
    <3>1. {a} \subseteq 1..Len(article)
      BY <1>0
    <3> QED
      BY <3>1, KindsAre, Refreshes
  <2>3. Carried'
    BY <1>0, <2>1, <2>2, CarriedOn DEF TypesInv, TagsInv
  <2>4. Columns'
    BY <2>1 DEF TypesInv, Columns
  <2> QED
    BY <2>3, <2>4 DEF TypesInv
<1>6. ASSUME NEW S, RemoveHook(r, S) PROVE TypesInv'
  <2>1. PICK state : state.pc = "remove" /\ Goto(r, state)
    BY <1>6 DEF RemoveHook
  <2>2. UNCHANGED <<skipExamining, article, live, dead, tag, pin, rowLock, eased, binlog, doc, raced>>
    BY <1>6 DEF RemoveHook, pinVars, docVars
  <2>3. Carries(state, Len(article))
    BY <2>1 DEF Carries
  <2>4. Carried'
    BY <1>0, <2>1, <2>2, <2>3, CarriedOn DEF TypesInv, TagsInv
  <2>5. Columns'
    BY <2>2 DEF TypesInv, Columns
  <2> QED
    BY <2>4, <2>5 DEF TypesInv
<1>7. ASSUME NEW t, RenameTag(r, t) PROVE TypesInv'
  <2>1. {x[1] : x \in {y \in live : y[2] = t}} \in SUBSET (1..Len(article))
    BY <1>0
  <2>2. Carries(Refresh("tags", {x[1] : x \in {y \in live : y[2] = t}}), Len(article))
    BY <2>1, KindsAre, Refreshes
  <2> QED
    BY <1>7, <2>2, OnlyCarries DEF RenameTag
<1>8. ASSUME NEW t, DeleteTagCheck(r, t) PROVE TypesInv'
  BY <1>8, OnlyCarries DEF DeleteTagCheck, Carries
<1>9. CASE FullSync(r)
  BY <1>0, <1>9, OnlyCarries DEF FullSync, Carries, Loads, Kinds
<1> QED
  BY <1>1, <1>2, <1>3, <1>4, <1>5, <1>6, <1>7, <1>8, <1>9 DEF Ask

\* The steps that write rows.
LEMMA RowsTyped ==
  ASSUME MaxArticles \in Nat, TypesInv, TagsInv', NEW r \in Reqs,
         CreateCommit(r) \/ UpdateCommit(r) \/ RemoveCommit(r) \/ RemoveRollback(r)
  PROVE  TypesInv'
<1>0. /\ article \in Seq(Article) /\ Len(article) \in Nat /\ DOMAIN article = 1..Len(article)
      /\ article' \in Seq(Article) /\ Len(article') \in Nat /\ DOMAIN article' = 1..Len(article')
      /\ live \subseteq (1..Len(article)) \X Tags /\ dead \subseteq (1..Len(article)) \X Tags
      /\ live \cap dead = {} /\ Requests /\ Carried /\ Columns /\ Read(req[r], Len(article))
  BY DEF TypesInv, TagsInv, Tables, Columns, Requests
<1>1. CASE CreateCommit(r)
  <2>1. PICK a : a = Len(article) + 1
    OBVIOUS
  <2>2. PICK x : x = [author |-> req[r].by, status |-> req[r].status, deleted |-> FALSE]
    OBVIOUS
  <2>3. /\ Len(article) < MaxArticles /\ article' = Append(article, x)
        /\ SyncTags(a, req[r].tags) /\ binlog' = binlog \cup {a}
        /\ Goto(r, Recount({}, req[r].tags, Refresh("tags", IF req[r].tags = {} THEN {} ELSE {a})))
        /\ UNCHANGED <<skipExamining, tag, pin, rowLock, eased, doc, raced>>
        /\ req[r].pc = "create"
    BY <1>1, <2>1, <2>2 DEF CreateCommit, pinVars
  <2>4. Len(article') = Len(article) + 1 /\ a \in 1..Len(article') /\ 1..Len(article) \subseteq 1..Len(article')
        /\ Len(article') <= MaxArticles
    BY <1>0, <2>1, <2>3
  <2>5. Carried'
    <3>1. Carries(Recount({}, req[r].tags, Refresh("tags", IF req[r].tags = {} THEN {} ELSE {a})), Len(article'))
      <4>1. (IF req[r].tags = {} THEN {} ELSE {a}) \subseteq 1..Len(article')
        BY <2>4
      <4> QED
        BY <4>1, KindsAre, Refreshes
    <3> QED
      BY <1>0, <2>3, <2>4, <3>1, CarriedOn
  <2>6. dead' \subseteq (1..Len(article')) \X Tags /\ live' \cap dead' = {}
    <3>1. req[r].tags \in SUBSET Tags
      BY <1>0, <2>3 DEF Read
    <3>2. live \subseteq (1..Len(article')) \X Tags /\ dead \subseteq (1..Len(article')) \X Tags
      BY <1>0, <2>4
    <3> QED
      BY <1>0, <2>3, <2>4, <3>1, <3>2, SyncTyped
  <2>7. Columns'
    BY <1>0, <2>3, <2>4, <2>6 DEF Columns
  <2> QED
    BY <2>5, <2>7 DEF TypesInv
<1>2. CASE UpdateCommit(r)
  <2>1. PICK a, new : a = req[r].id /\ new = req[r].new
    OBVIOUS
  <2>2. /\ article' = IF Exists(a) /\ req[r].examine THEN [article EXCEPT ![a].status = "examining"] ELSE article
        /\ (new # {NoField} /\ SyncTags(a, new)) \/ (new = {NoField} /\ UNCHANGED <<live, dead>>)
        /\ raced' \in BOOLEAN
        /\ UNCHANGED <<skipExamining, tag, pin, rowLock, eased, binlog, doc>>
        /\ req[r].pc = "update"
    BY <1>2, <2>1 DEF UpdateCommit, pinVars, docVars
  <2>3. \/ Goto(r, Recount(req[r].old, new, Refresh("tags", {a})))
        \/ Goto(r, Refresh("content", IF req[r].body THEN {a} ELSE {}))
    BY <1>2, <2>1 DEF UpdateCommit
  <2>4. a \in 1..Len(article) /\ (new # {NoField} => new \in SUBSET Tags)
    BY <1>0, <2>1, <2>2 DEF Read
  <2>5. DOMAIN article' = DOMAIN article
    BY <2>2
  <2>6. Len(article') = Len(article)
    BY <1>0, <2>5, SameLength
  <2>7. Carried'
    <3>1. /\ Carries(Recount(req[r].old, new, Refresh("tags", {a})), Len(article'))
          /\ Carries(Refresh("content", IF req[r].body THEN {a} ELSE {}), Len(article'))
      <4>1. {a} \subseteq 1..Len(article') /\ (IF req[r].body THEN {a} ELSE {}) \subseteq 1..Len(article')
        BY <2>4, <2>6
      <4> QED
        BY <4>1, KindsAre, Refreshes
    <3> QED
      BY <1>0, <2>3, <2>6, <3>1, CarriedOn
  <2>8. dead' \subseteq (1..Len(article)) \X Tags /\ live' \cap dead' = {}
    <3>1. CASE UNCHANGED <<live, dead>>
      BY <1>0, <3>1
    <3>2. CASE new # {NoField} /\ SyncTags(a, new)
      BY <1>0, <2>4, <3>2, SyncTyped
    <3> QED
      BY <2>2, <3>1, <3>2
  <2>9. Columns'
    BY <1>0, <2>2, <2>6, <2>8 DEF Columns
  <2> QED
    BY <2>7, <2>9 DEF TypesInv
<1>3. CASE RemoveCommit(r)
  <2>1. PICK p : p = Pairs(req[r].ids)
    OBVIOUS
  <2>2. /\ DOMAIN article' = DOMAIN article
        /\ live' = live \ p /\ dead' = dead \cup p /\ p \subseteq live /\ pin' \subseteq pin
        /\ raced' \in BOOLEAN /\ Goto(r, Done)
        /\ UNCHANGED <<skipExamining, tag, rowLock, eased, binlog, doc>>
    BY <1>3, <2>1 DEF RemoveCommit, Pairs, docVars
  <2>3. Len(article') = Len(article)
    <3>1. 1..Len(article') = 1..Len(article)
      BY <1>0, <2>2
    <3> QED
      BY <1>0, <3>1, SameLength
  <2>4. Carried'
    BY <1>0, <2>2, <2>3, Ends, CarriedOn
  <2>5. Columns'
    BY <1>0, <2>2, <2>3 DEF Columns
  <2> QED
    BY <2>4, <2>5 DEF TypesInv
<1>4. CASE RemoveRollback(r)
  <2>1. /\ raced' = TRUE /\ Goto(r, Done)
        /\ UNCHANGED <<skipExamining, article, live, dead, tag, pin, rowLock, eased, binlog, doc>>
    BY <1>4 DEF RemoveRollback, tagVars, pinVars, docVars
  <2>2. Carried'
    BY <1>0, <2>1, Ends, CarriedOn
  <2>3. Columns'
    BY <1>0, <2>1 DEF Columns
  <2> QED
    BY <2>2, <2>3 DEF TypesInv
<1> QED
  BY <1>1, <1>2, <1>3, <1>4

\* The steps of a count, a pin and a tag.
LEMMA CountsPinsTyped ==
  ASSUME TypesInv, TagsInv', NEW r \in Reqs,
         CountTags(r) \/ TopCheck(r) \/ TopPin(r) \/ DeleteTag(r) \/ Aborted(r)
  PROVE  TypesInv'
<1>0. /\ Len(article) \in Nat /\ live \subseteq (1..Len(article)) \X Tags /\ Requests /\ Carried /\ Columns
      /\ Carries(req[r], Len(article)) /\ Read(req[r], Len(article))
  BY DEF TypesInv, TagsInv, Tables, Requests, Carried
<1>1. CASE CountTags(r)
  <2>1. /\ Goto(r, req[r].next) /\ req[r].pc = "count"
        /\ UNCHANGED <<skipExamining, article, live, dead, tag, pin, rowLock, eased, binlog, doc, raced>>
    BY <1>1 DEF CountTags, pinVars, docVars
  <2>2. Carries(req[r].next, Len(article))
    <3>1. PICK next : next = req[r].next
      OBVIOUS
    <3>2. next.pc \in {"done", "load"} /\ (next.pc = "load" => Loads(next, Len(article)))
      BY <1>0, <2>1, <3>1 DEF Read, Carries
    <3> QED
      BY <3>1, <3>2 DEF Carries
  <2>3. Carried'
    BY <1>0, <2>1, <2>2, CarriedOn
  <2>4. Columns'
    BY <1>0, <2>1 DEF Columns
  <2> QED
    BY <2>3, <2>4 DEF TypesInv
<1>2. CASE TopCheck(r)
  <2>1. PICK u : u = req[r].by
    OBVIOUS
  <2>2. PICK state : state = Cleared(r)
    OBVIOUS
  <2>3. /\ UNCHANGED <<skipExamining, article, live, dead, tag, pin, binlog, doc, raced>>
        /\ req[r].pc = "lock" /\ (Goto(r, Done) \/ Goto(r, state))
        /\ UNCHANGED rowLock \/ rowLock' = [rowLock EXCEPT ![u] = r]
        /\ eased' \in {eased, eased \cup {u}}
    <3>1. UNCHANGED <<tagVars, docVars>>
      BY <1>2 DEF TopCheck
    <3> QED
      BY <1>2, <2>1, <2>2, <3>1, Zenon DEF TopCheck, tagVars, docVars
  <2>4. Carries(state, Len(article)) /\ Carries(Done, Len(article))
    BY <1>0, <2>1, <2>2, <2>3, Ends DEF Carries, Cleared
  <2>5. Carried'
    BY <1>0, <2>3, <2>4, CarriedOn
  <2>6. Columns'
    <3>1. u \in Accounts
      BY <1>0, <2>1, <2>3 DEF Carries
    <3> QED
      BY <1>0, <2>3, <3>1 DEF Columns
  <2> QED
    BY <2>5, <2>6 DEF TypesInv
<1>3. CASE TopPin(r)
  <2>1. PICK u, a : u = req[r].by /\ a = req[r].id
    OBVIOUS
  <2>2. /\ UNCHANGED <<skipExamining, article, live, dead, tag, binlog, doc, raced>>
        /\ req[r].pc = "pin" /\ pin' = pin \cup {<<u, a>>}
        /\ rowLock' = Unlocked(r) /\ eased' = eased
        /\ Goto(r, Done) \/ Goto(r, Refresh("top", {a}))
    BY <1>3, <2>1 DEF TopPin, tagVars, docVars
  <2>3. u \in Accounts /\ a \in 1..Len(article)
    BY <1>0, <2>1, <2>2 DEF Carries
  <2>4. Carries(Refresh("top", {a}), Len(article))
    <3>1. {a} \subseteq 1..Len(article)
      BY <2>3
    <3> QED
      BY <3>1, KindsAre, Refreshes
  <2>5. Carried'
    BY <1>0, <2>2, <2>4, Ends, CarriedOn
  <2>6. Columns'
    BY <1>0, <2>2, <2>3 DEF Columns, Unlocked
  <2> QED
    BY <2>5, <2>6 DEF TypesInv
<1>4. CASE DeleteTag(r)
  <2>1. PICK t, found : t = req[r].tag /\ found = {x \in live : x[2] = t}
    OBVIOUS
  <2>2. /\ UNCHANGED <<skipExamining, article, pin, rowLock, eased, binlog, doc>>
        /\ Goto(r, Done) /\ req[r].pc = "deleteTag" /\ raced' \in BOOLEAN
        /\ \/ UNCHANGED <<live, dead, tag>>
           \/ tag' = [tag EXCEPT ![t] = "deleted"] /\ live' = live \ found /\ dead' = dead \cup found
    <3>1. UNCHANGED <<pinVars, docVars>> /\ raced' \in BOOLEAN
      BY <1>0, <1>4 DEF DeleteTag, Columns
    <3> QED
      BY <1>4, <2>1, <3>1, Zenon DEF DeleteTag, tagVars, pinVars, docVars
  <2>3. Carried'
    BY <1>0, <2>2, Ends, CarriedOn
  <2>4. found \subseteq live
    BY <2>1
  <2>5. Columns'
    BY <1>0, <2>2, <2>4 DEF Columns
  <2> QED
    BY <2>3, <2>5 DEF TypesInv
<1>5. CASE Aborted(r)
  <2>1. /\ UNCHANGED <<skipExamining, article, live, dead, tag, pin, eased, binlog, doc, raced>>
        /\ Goto(r, Done) /\ rowLock' = Unlocked(r)
    BY <1>5 DEF Aborted, tagVars, docVars
  <2>2. Carried'
    BY <1>0, <2>1, Ends, CarriedOn
  <2>3. Columns'
    BY <1>0, <2>1 DEF Columns, Unlocked
  <2> QED
    BY <2>2, <2>3 DEF TypesInv
<1> QED
  BY <1>1, <1>2, <1>3, <1>4, <1>5

\* The two steps of a refresh.
LEMMA RefreshTyped ==
  ASSUME MaxArticles \in Nat, TypesInv, TagsInv', NEW r \in Reqs, RefreshLoad(r) \/ RefreshWrite(r)
  PROVE  TypesInv'
<1>0. /\ Len(article) \in Nat /\ Len(article) <= MaxArticles /\ Requests /\ Carried /\ Columns /\ Tables
      /\ Carries(req[r], Len(article))
  BY DEF TypesInv, TagsInv, Tables, Requests, Carried, Columns
<1>1. CASE RefreshLoad(r)
  <2>1. PICK kind, S : kind = req[r].kind /\ S = {a \in req[r].ids : req[r].kind = "top" \/ Exists(a)}
    OBVIOUS
  <2>2. PICK part : part = [a \in S |-> Part(kind, a)]
    OBVIOUS
  <2>3. /\ Goto(r, [pc |-> "bulk", kind |-> kind, part |-> part]) /\ req[r].pc = "load"
        /\ UNCHANGED <<skipExamining, article, tagVars, pinVars, docVars, raced>>
    BY <1>1, <2>1, <2>2 DEF RefreshLoad
  <2>4. kind \in Kinds /\ S \subseteq 1..Len(article)
    BY <1>0, <2>1, <2>3 DEF Carries, Loads
  <2>5. DOMAIN part = S /\ \A a \in S : part[a] \in Parts(kind)
    BY <1>0, <2>2, <2>4, PartTyped
  <2>6. Carries([pc |-> "bulk", kind |-> kind, part |-> part], Len(article))
    BY <2>4, <2>5 DEF Carries
  <2> QED
    BY <2>3, <2>6, OnlyCarries
<1>2. CASE RefreshWrite(r)
  <2>1. PICK part, kind : part = req[r].part /\ kind = req[r].kind
    OBVIOUS
  <2>2. /\ Goto(r, Done) /\ req[r].pc = "bulk"
        /\ doc' = [a \in Ids |-> IF a \notin DOMAIN part THEN doc[a]
                                 ELSE IF kind = "all" THEN part[a]
                                 ELSE IF doc[a] = NoDoc THEN NoDoc ELSE Merged(doc[a], part[a])]
        /\ UNCHANGED <<skipExamining, article, live, dead, tag, pin, rowLock, eased, binlog, raced>>
    BY <1>2, <2>1 DEF RefreshWrite, tagVars, pinVars
  <2>3. kind \in Kinds /\ \A a \in DOMAIN part : part[a] \in Parts(kind)
    BY <1>0, <2>1, <2>2 DEF Carries
  <2>4. ASSUME NEW a \in Ids PROVE doc'[a] \in Doc \cup {NoDoc}
    <3>1. doc[a] \in Doc \cup {NoDoc}
      BY <1>0 DEF Columns
    <3>2. CASE a \notin DOMAIN part
      BY <2>2, <3>1, <3>2
    <3>3. CASE a \in DOMAIN part
      <4>1. part[a] \in Parts(kind)
        BY <2>3, <3>3
      <4>2. CASE doc[a] = NoDoc
        <5>1. kind = "all" => part[a] \in Doc
          BY <4>1 DEF Parts, Doc
        <5> QED
          BY <2>2, <3>3, <4>2, <5>1
      <4>3. CASE doc[a] # NoDoc
        <5>1. Merged(doc[a], part[a]) \in Doc /\ (kind = "all" => part[a] \in Doc)
          BY <2>3, <3>1, <4>1, <4>3, PartMerges
        <5> QED
          BY <2>2, <3>3, <4>3, <5>1
      <4> QED
        BY <4>2, <4>3
    <3> QED
      BY <3>2, <3>3
  <2>5. doc' \in [Ids -> Doc \cup {NoDoc}]
    BY <2>2, <2>4
  <2>6. Carried'
    BY <1>0, <2>2, Ends, CarriedOn
  <2>7. Columns'
    BY <1>0, <2>2, <2>5 DEF Columns
  <2> QED
    BY <2>6, <2>7 DEF TypesInv
<1> QED
  BY <1>1, <1>2

LEMMA NextTyped ==
  ASSUME MaxArticles \in Nat, IsFiniteSet(Reqs), TypesInv, [ArtNext]_artVars
  PROVE  TypesInv'
<1>0. TagsInv'
  BY NextCounts DEF TypesInv
<1>1. ASSUME NEW r \in Reqs, Ask(r) \/ Step(r) PROVE TypesInv'
  BY <1>0, <1>1, AskTyped, RowsTyped, CountsPinsTyped, RefreshTyped DEF Step
<1>2. CASE UNCHANGED req
  <2>1. /\ article \in Seq(Article) /\ Len(article) \in Nat /\ DOMAIN article = 1..Len(article)
        /\ article' \in Seq(Article) /\ Len(article') \in Nat /\ DOMAIN article' = 1..Len(article')
        /\ Columns /\ Carried
    BY <1>0 DEF TypesInv, TagsInv, Tables
  <2>2. ASSUME Len(article') = Len(article), Columns' PROVE TypesInv'
    BY <1>0, <1>2, <2>1, <2>2 DEF TypesInv, Carried
  <2>3. ASSUME NEW a \in DOMAIN article, NEW s \in Statuses, Examine(a, s) PROVE TypesInv'
    <3>1. /\ article' = [article EXCEPT ![a].status = s]
          /\ UNCHANGED <<skipExamining, live, dead, tag, pin, rowLock, eased, binlog, doc, raced>>
      BY <2>3 DEF Examine, tagVars, pinVars, docVars
    <3>2. DOMAIN article' = DOMAIN article
      BY <3>1
    <3>3. Len(article') = Len(article)
      BY <2>1, <3>2, SameLength
    <3> QED
      BY <2>1, <2>2, <3>1, <3>3 DEF Columns
  <2>4. ASSUME NEW t \in Tags, NEW state \in {"on", "off"}, SaveTag(t, state) PROVE TypesInv'
    <3>1. /\ tag' = [tag EXCEPT ![t] = state]
          /\ UNCHANGED <<skipExamining, article, live, dead, pin, rowLock, eased, binlog, doc, raced>>
      BY <2>4 DEF SaveTag, pinVars, docVars
    <3> QED
      BY <2>1, <2>2, <3>1 DEF Columns
  <2>5. CASE Replicate
    <3>1. PICK a \in binlog :
            /\ binlog' = binlog \ {a}
            /\ doc' = [doc EXCEPT ![a] = [status |-> NoField, tags |-> {}, top |-> {}]]
            /\ UNCHANGED <<skipExamining, article, live, dead, tag, pin, rowLock, eased, raced>>
      BY <2>5 DEF Replicate, tagVars, pinVars
    <3>2. [status |-> NoField, tags |-> {}, top |-> {}] \in Doc
      BY DEF Doc
    <3>3. Columns'
      BY <2>1, <3>1, <3>2 DEF Columns
    <3> QED
      BY <2>2, <3>1, <3>3
  <2>6. CASE UNCHANGED artVars
    BY <2>1, <2>2, <2>6 DEF Columns, artVars, tagVars, pinVars, docVars
  <2>7. ASSUME NEW r \in Reqs, Ask(r) \/ Step(r) PROVE TypesInv'
    BY <1>1, <2>7
  <2> QED
    BY <2>3, <2>4, <2>5, <2>6, <2>7 DEF ArtNext
<1>3. CASE ~UNCHANGED req
  <2>1. ASSUME NEW a, NEW s, Examine(a, s) PROVE FALSE
    BY <1>3, <2>1 DEF Examine
  <2>2. ASSUME NEW t, NEW state, SaveTag(t, state) PROVE FALSE
    BY <1>3, <2>2 DEF SaveTag
  <2>3. ~Replicate /\ ~UNCHANGED artVars
    BY <1>3 DEF Replicate, artVars
  <2> QED
    BY <1>1, <2>1, <2>2, <2>3 DEF ArtNext
<1> QED
  BY <1>2, <1>3

LEMMA InitTypes ==
  ASSUME MaxArticles \in Nat, IsFiniteSet(Reqs), Seeds \subseteq Seq(Article),
         \A seed \in Seeds : Len(seed) <= MaxArticles, ArtInit
  PROVE  TypesInv
<1>1. TagsInv
  BY InitCounts
<1>2. /\ skipExamining \in BOOLEAN /\ raced = FALSE /\ article \in Seeds /\ live = {} /\ dead = {}
      /\ tag \in [Tags -> {"absent", "on"}] /\ pin = {} /\ rowLock = [u \in Accounts |-> Nobody] /\ eased = {}
      /\ binlog = {} /\ doc = [a \in Ids |-> IF a \in DOMAIN article THEN Part("all", a) ELSE NoDoc]
      /\ req = [r \in Reqs |-> [pc |-> "idle"]]
  BY DEF ArtInit
<1>3. Tables /\ DOMAIN article = 1..Len(article)
  BY <1>1 DEF TagsInv, Tables
<1>4. \A a \in DOMAIN article : Part("all", a) \in Doc
  <2>1. \A a \in DOMAIN article : Part("all", a) \in Parts("all")
    BY <1>3, PartTyped DEF Kinds
  <2> QED
    BY <2>1 DEF Parts, Doc
<1>5. Columns
  BY <1>2, <1>4 DEF Columns
<1>6. Carried
  BY <1>2 DEF Carried, Carries
<1> QED
  BY <1>1, <1>5, <1>6 DEF TypesInv

(***************************************************************************)
(* The types: every request knows the rows it will write to, relations are *)
(* either there or deleted, and what a refresh merges into a document is   *)
(* made of fields of documents.                                            *)
(***************************************************************************)
THEOREM TypeCorrect ==
  ASSUME MaxArticles \in Nat, IsFiniteSet(Reqs), Seeds \subseteq Seq(Article),
         \A seed \in Seeds : Len(seed) <= MaxArticles
  PROVE  ArtSpec => []ArtTypeOK
<1>1. ArtInit => TypesInv
  BY InitTypes
<1>2. TypesInv /\ [ArtNext]_artVars => TypesInv'
  BY NextTyped
<1>3. TypesInv => ArtTypeOK
  BY TypesTell
<1> QED
  BY <1>1, <1>2, <1>3, PTL DEF ArtSpec
=============================================================================
