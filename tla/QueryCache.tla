----------------------------- MODULE QueryCache -----------------------------
(***************************************************************************)
(* The GORM query cache that core/init_db.go installs on the one database  *)
(* handle of the server, seen from one row.  A SELECT is looked up in      *)
(* Redis, then run, then stored for 300 seconds (redisCacher.Get, Store);  *)
(* a write clears the whole cache (redisCacher.Invalidate).  The plugin    *)
(* calls Invalidate inside the GORM callback of the statement, that is     *)
(* before the statement's transaction commits.                             *)
(*                                                                         *)
(* The row is its version, a number that counts the committed writes.      *)
(***************************************************************************)
EXTENDS Integers

CONSTANTS
  Readers,   \* SELECTs, each run once
  Writers,   \* writes, each run once
  Absent     \* no entry in the cache

VARIABLES
  row,      \* the committed version
  entry,    \* the cache entry of the query: a version, or Absent
  reader,   \* where each SELECT is, and the version it got
  writer

vars == <<row, entry, reader, writer>>

Versions == Nat

TypeOK ==
  /\ row \in Versions
  /\ entry \in Versions \cup {Absent}
  /\ reader \in [Readers -> [pc : {"idle", "miss", "store", "done"}, value : Versions]]
  /\ writer \in [Writers -> {"idle", "written", "done"}]

Init ==
  /\ row = 0
  /\ entry = Absent
  /\ reader = [r \in Readers |-> [pc |-> "idle", value |-> 0]]
  /\ writer = [w \in Writers |-> "idle"]

-----------------------------------------------------------------------------
\* A defect the runs must catch: redis.Nil is taken for a hit.
GetIgnoringNil(r) ==
  /\ reader[r].pc = "idle"
  /\ reader' = [reader EXCEPT ![r] = [pc |-> "done", value |-> entry]]
  /\ UNCHANGED <<row, entry, writer>>

\* redisCacher.Get: a hit ends the query.
Get(r) ==
  /\ reader[r].pc = "idle"
  /\ reader' = [reader EXCEPT ![r] =
       IF entry = Absent
       THEN [pc |-> "miss", value |-> 0]
       ELSE [pc |-> "done", value |-> entry]]
  /\ UNCHANGED <<row, entry, writer>>

\* The SELECT sees what is committed.
Select(r) ==
  /\ reader[r].pc = "miss"
  /\ reader' = [reader EXCEPT ![r].pc = "store", ![r].value = row]
  /\ UNCHANGED <<row, entry, writer>>

\* The easer: a query that finds the same query running takes its result.
Ease(r) ==
  /\ reader[r].pc = "miss"
  /\ \E q \in Readers \ {r} :
       /\ reader[q].pc = "store"
       /\ reader' = [reader EXCEPT ![r].pc = "store", ![r].value = reader[q].value]
  /\ UNCHANGED <<row, entry, writer>>

\* redisCacher.Store.
Store(r) ==
  /\ reader[r].pc = "store"
  /\ entry' = reader[r].value
  /\ reader' = [reader EXCEPT ![r].pc = "done"]
  /\ UNCHANGED <<row, writer>>

\* redisCacher.Invalidate: SCAN of the prefix, then DEL.
Invalidate(w) ==
  /\ writer[w] = "idle"
  /\ entry' = Absent
  /\ writer' = [writer EXCEPT ![w] = "written"]
  /\ UNCHANGED <<row, reader>>

Commit(w) ==
  /\ writer[w] = "written"
  /\ row' = row + 1
  /\ writer' = [writer EXCEPT ![w] = "done"]
  /\ UNCHANGED <<entry, reader>>

\* A defect: SET without an expiry.
NeverExpires == FALSE /\ UNCHANGED vars

\* 300 seconds are over.
Expire ==
  /\ entry # Absent
  /\ entry' = Absent
  /\ UNCHANGED <<row, reader, writer>>

ReadStep(r) == Get(r) \/ Select(r) \/ Ease(r) \/ Store(r)

WriteStep(w) == Invalidate(w) \/ Commit(w)

Next ==
  \/ \E r \in Readers : ReadStep(r)
  \/ \E w \in Writers : WriteStep(w)
  \/ Expire

Spec == Init /\ [][Next]_vars

\* Statements that were begun end, and the TTL runs; nothing says that a
\* write or a read must come.
Fairness ==
  /\ \A r \in Readers : WF_vars(ReadStep(r) /\ reader[r].pc # "idle")
  /\ \A w \in Writers : WF_vars(Commit(w))
  /\ WF_vars(Expire)

FairSpec == Spec /\ Fairness

-----------------------------------------------------------------------------
(* Whatever is cached or about to be cached was committed once: a statement *)
(* of a transaction that is still open is never seen through the cache.    *)
CachedWasCommitted ==
  /\ entry = Absent \/ entry <= row
  /\ \A r \in Readers : reader[r].value <= row

(* An entry is older than the row only by the writes whose invalidation    *)
(* it missed; once nothing runs, the next expiry ends the staleness and no *)
(* stale entry comes back by itself.                                       *)
StaleEntriesExpire ==
  <>[](entry = Absent \/ entry = row)

=============================================================================
