----------------------------- MODULE DiggCounter -----------------------------
(***************************************************************************)
(* Likes of articles: the request handler (api/article_api/article_digg.go)*)
(* toggles the soft-deletable relation row of a user and an article, then  *)
(* adds the change to the active hash; CounterFlush moves it to the        *)
(* article's digg_count.  Favourites (switchArticleFavorite) and comment   *)
(* likes run the same steps on their own tables and hashes.                *)
(*                                                                         *)
(* A request is a goroutine that interleaves with the others between its   *)
(* statements: the SELECT, the restoring UPDATE, the INSERT, the DELETE    *)
(* and the HINCRBY are each one step.                                      *)
(***************************************************************************)
EXTENDS CounterFlush, FiniteSets

CONSTANTS
  Users,
  Reqs,      \* the requests of a behaviour; each is sent at most once
  Overlap    \* may a user send a second toggle of an article before the
             \* answer to the first?

ASSUME DiggAssumption ==
  /\ IsFiniteSet(Users)
  /\ IsFiniteSet(Reqs)
  /\ Overlap \in BOOLEAN

VARIABLES
  row,   \* the relation row of each user and article
  req    \* the state of each request

vars == <<row, req, flushVars>>

RowStates == {"none", "live", "deleted"}
Busy      == {"remove", "restore", "create", "incr", "decr"}
Ended     == {"liked", "unliked", "refused", "dead"}
Requests  == [pc : {"idle"} \cup Busy \cup Ended, user : Users, item : Ids]

TypeOK ==
  /\ FlushTypeOK
  /\ row \in [Users -> [Ids -> RowStates]]
  /\ req \in [Reqs -> Requests]

Init ==
  /\ FlushInit
  /\ row = [u \in Users |-> [i \in Ids |-> "none"]]
  /\ req \in [Reqs -> [pc : {"idle"}, user : Users, item : Ids]]

-----------------------------------------------------------------------------
Row(r) == row[req[r].user][req[r].item]

SetRow(r, state) == row' = [row EXCEPT ![req[r].user][req[r].item] = state]

Answer(r, from, to) ==
  /\ req[r].pc = from
  /\ req' = [req EXCEPT ![r].pc = to]

SamePair(r, q) == req[r].user = req[q].user /\ req[r].item = req[q].item

\* The request arrives and reads the relation row; a soft-deleted row reads
\* as not found, or as live while the query cache still holds it.
TakeDigg(r) ==
  /\ Overlap \/ \A q \in Reqs : SamePair(r, q) => req[q].pc \notin Busy
  /\ \/ Row(r) # "none" /\ Answer(r, "idle", "remove")
     \/ Row(r) # "live" /\ Answer(r, "idle", "restore")
  /\ UNCHANGED <<row, flushVars>>

\* A defect the runs must catch: RowsAffected is not looked at.
DeleteIgnoringRows(r) ==
  /\ SetRow(r, IF Row(r) = "live" THEN "deleted" ELSE Row(r))
  /\ Answer(r, "remove", "decr")
  /\ UNCHANGED flushVars

\* Soft delete; RowsAffected tells whether this request removed a live row.
DeleteDigg(r) ==
  /\ \/ Row(r) = "live" /\ SetRow(r, "deleted") /\ Answer(r, "remove", "decr")
     \/ Row(r) # "live" /\ UNCHANGED row /\ Answer(r, "remove", "refused")
  /\ UNCHANGED flushVars

\* RestoreOrCreateUnique, first statement: bring back a soft-deleted row.
RestoreDigg(r) ==
  /\ \/ Row(r) = "deleted" /\ SetRow(r, "live") /\ Answer(r, "restore", "incr")
     \/ Row(r) # "deleted" /\ UNCHANGED row /\ Answer(r, "restore", "create")
  /\ UNCHANGED flushVars

\* RestoreOrCreateUnique, second statement: the unique index counts
\* soft-deleted rows too, so the INSERT works only where there is no row.
CreateDigg(r) ==
  /\ \/ Row(r) = "none" /\ SetRow(r, "live") /\ Answer(r, "create", "incr")
     \/ Row(r) # "none" /\ UNCHANGED row /\ Answer(r, "create", "refused")
  /\ UNCHANGED flushVars

\* SetCacheDigg, then the answer to the client.
SetCacheDigg(r) ==
  /\ \/ Answer(r, "incr", "liked") /\ HIncrBy(req[r].item, 1)
     \/ Answer(r, "decr", "unliked") /\ HIncrBy(req[r].item, -1)
  /\ UNCHANGED <<row, syncing, stored, lock, phase, todo, faults>>

\* The error of SetCacheDigg is not looked at: the client is told it worked.
SetCacheDiggLost(r) ==
  /\ Fault("lose")
  /\ \/ Answer(r, "incr", "liked")
     \/ Answer(r, "decr", "unliked")
  /\ UNCHANGED <<row, active, syncing, stored, lock, phase, todo>>

RequestCrashes(r) ==
  /\ Fault("crash")
  /\ req[r].pc \in Busy
  /\ req' = [req EXCEPT ![r].pc = "dead"]
  /\ UNCHANGED <<row, active, syncing, stored, lock, phase, todo>>

ReqStep(r) ==
  \/ TakeDigg(r)
  \/ DeleteDigg(r)
  \/ RestoreDigg(r)
  \/ CreateDigg(r)
  \/ SetCacheDigg(r)

Next ==
  \/ \E r \in Reqs : ReqStep(r) \/ SetCacheDiggLost(r) \/ RequestCrashes(r)
  \/ FlushNext /\ UNCHANGED <<row, req>>

Spec == Init /\ [][Next]_vars

\* A request runs to its end; the job is scheduled every day and each
\* execution runs to its end; an orphan lock expires.
Fairness ==
  /\ \A r \in Reqs : WF_vars(ReqStep(r) /\ req[r].pc \in Busy)
  /\ WF_vars(\E s \in Syncers : SyncStep(s) /\ UNCHANGED <<row, req>>)
  /\ WF_vars(OrphanLockExpires /\ UNCHANGED <<row, req>>)

FairSpec == Spec /\ Fairness

-----------------------------------------------------------------------------
Likers(i) == {u \in Users : row[u][i] = "live"}

Waiting(i, kind) == {r \in Reqs : req[r].pc = kind /\ req[r].item = i}

\* The change of an item's count that requests have made to the relation
\* rows but not yet added to the active hash.
Pending(i) == Cardinality(Waiting(i, "incr")) - Cardinality(Waiting(i, "decr"))

\* The soft faults: an UPDATE that fails and is put back, a round that is
\* skipped before it applied anything, a lock that is not released.
Tolerated == {"db", "skip"}

Sound == faults.kinds \subseteq Tolerated

(* The stored count, with what is still on its way to it, never falls below *)
(* the number of users who like the article: no like is lost by renaming,  *)
(* by a failed UPDATE, or by handlers that run while the job does.  Holds  *)
(* until a crash, a lost HINCRBY or an expired lock.                       *)
(* (design note 5.8.1: locking and switching buckets loses no delta)       *)
NothingUndercounted ==
  Sound => \A i \in Ids : stored[i] + Owed(i) + Pending(i) >= Cardinality(Likers(i))

(* While no user toggles an article again before the previous answer, the  *)
(* sum is exact: the clamp of applyDelta never fires.                      *)
ExactCount ==
  Sound => \A i \in Ids : stored[i] + Owed(i) + Pending(i) = Cardinality(Likers(i))

(* Of the toggles of one user and article that are answered with success,  *)
(* likes and unlikes alternate, whatever the overlap: two concurrent       *)
(* requests never both succeed with the same change (the comment "avoid    *)
(* double success under concurrency" on the DELETE's RowsAffected).  A      *)
(* request that dies with its server is answered to nobody.                *)
NoDoubleSuccess ==
  "crash" \notin faults.kinds =>
    \A u \in Users, i \in Ids :
      LET Of(kinds) == {r \in Reqs : req[r].user = u /\ req[r].item = i /\ req[r].pc \in kinds}
      IN  Cardinality(Of({"incr", "liked"})) - Cardinality(Of({"decr", "unliked"}))
            = IF row[u][i] = "live" THEN 1 ELSE 0

(* Once the last request is answered the nightly job brings the stored     *)
(* counts to the number of live relations, and they stay there, when only  *)
(* tolerated faults happen.                                                *)
EventuallyCounted ==
  []Sound => <>[](\A i \in Ids : stored[i] = Cardinality(Likers(i)))

(* Every step is a like, an unlike or a settlement of the ledger, or       *)
(* changes nothing the ledger sees, until a fault ends the promise.        *)
Ledger == INSTANCE CounterLedger WITH
  liked  <- {p \in Users \X Ids : row[p[1]][p[2]] = "live"},
  booked <- [i \in Ids |-> Owed(i) + Pending(i)],
  sound  <- Sound

LedgerSpec == Ledger!Spec
=============================================================================
