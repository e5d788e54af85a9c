----------------------------- MODULE ViewCounter -----------------------------
(***************************************************************************)
(* Article views: ArticleVisitView (api/article_api/article_view.go) counts *)
(* a viewer once per article and day.  The mark "already counted today" is *)
(* a field of one Redis hash per viewer; the hash expires as a whole at    *)
(* the next midnight.  Signed-in viewers also get a history row in MySQL,  *)
(* guests (identified by IP and user agent) do not.                        *)
(***************************************************************************)
EXTENDS CounterFlush, FiniteSets

CONSTANTS
  Viewers,
  Guests,    \* the viewers who are not signed in
  Reqs,
  Overlap,   \* may a viewer's second visit of an article start before the
             \* first is answered?
  Straddle,  \* may midnight pass while a visit is between setting its mark
             \* and giving the mark its expiry?
  MaxDay     \* bound: midnight passes this many times

ASSUME ViewAssumption ==
  /\ Guests \subseteq Viewers
  /\ IsFiniteSet(Reqs)
  /\ {Overlap, Straddle} \subseteq BOOLEAN
  /\ MaxDay \in Nat

VARIABLES
  day,      \* the calendar day
  marked,   \* user_history_<id> / guest_history_<hash>: the marked articles
  ttl,      \* the day at whose start each viewer's hash expires, or Never
  unset,    \* history: the viewers whose hash was left without its expiry
  history,  \* the UserArticleViewHistory rows
  req

vars == <<day, marked, ttl, unset, history, req, flushVars>>

viewVars == <<day, marked, ttl, unset, history>>

Never == MaxDay + 2
Busy  == {"verify", "mark", "expire", "incr"}
Ended == {"counted", "uncounted", "seen", "dead"}

TypeOK ==
  /\ FlushTypeOK
  /\ day \in 0..MaxDay
  /\ marked \in [Viewers -> SUBSET Ids]
  /\ ttl \in [Viewers -> 0..Never]
  /\ unset \subseteq Viewers
  /\ history \subseteq Viewers \X Ids
  /\ req \in [Reqs -> [pc : {"idle"} \cup Busy \cup Ended, viewer : Viewers,
                       item : Ids, day : 0..MaxDay]]

Init ==
  /\ FlushInit
  /\ day = 0
  /\ marked = [v \in Viewers |-> {}]
  /\ ttl = [v \in Viewers |-> Never]
  /\ unset = {}
  /\ history = {}
  /\ req \in [Reqs -> [pc : {"idle"}, viewer : Viewers, item : Ids, day : {0}]]

-----------------------------------------------------------------------------
Step(r, from, to) ==
  /\ req[r].pc = from
  /\ req' = [req EXCEPT ![r].pc = to]

SamePair(r, q) == req[r].viewer = req[q].viewer /\ req[r].item = req[q].item

AfterCheck(r) == IF req[r].viewer \in Guests THEN "mark" ELSE "verify"

\* Get(User|Guest)ArticleHistoryCache: is the mark there?
CheckHistory(r) ==
  /\ Overlap \/ \A q \in Reqs : SamePair(r, q) => req[q].pc \notin Busy
  /\ \/ req[r].item \in marked[req[r].viewer] /\ Step(r, "idle", "seen")
     \/ req[r].item \notin marked[req[r].viewer] /\ Step(r, "idle", AfterCheck(r))
  /\ UNCHANGED <<viewVars, flushVars>>

\* Any Redis error reads as "no mark".
CheckHistoryFails(r) ==
  /\ Fault("redis")
  /\ Step(r, "idle", AfterCheck(r))
  /\ UNCHANGED <<viewVars, active, syncing, stored, lock, phase, todo>>

\* The article is published; the history row is created, or restored and
\* its time renewed.
SaveHistory(r) ==
  /\ Step(r, "verify", "mark")
  /\ history' = history \cup {<<req[r].viewer, req[r].item>>}
  /\ UNCHANGED <<day, marked, ttl, unset, flushVars>>

\* A defect the runs must catch: only guests are marked, as the others have
\* a history row.
MarkGuestsOnly(r) ==
  /\ req[r].pc = "mark"
  /\ req' = [req EXCEPT ![r].pc = "expire", ![r].day = day]
  /\ marked' = [marked EXCEPT ![req[r].viewer] =
                  IF req[r].viewer \in Guests THEN @ \cup {req[r].item} ELSE @]
  /\ UNCHANGED <<day, ttl, unset, history, flushVars>>

\* Set...HistoryCache reads the clock and sets the field ...
MarkHistory(r) ==
  /\ req[r].pc = "mark"
  /\ req' = [req EXCEPT ![r].pc = "expire", ![r].day = day]
  /\ marked' = [marked EXCEPT ![req[r].viewer] = @ \cup {req[r].item}]
  /\ UNCHANGED <<day, ttl, unset, history, flushVars>>

\* A defect: the hash gets no expiry, though nothing failed.
ExpireForgotten(r) ==
  /\ Step(r, "expire", "incr")
  /\ UNCHANGED <<viewVars, flushVars>>

\* ... and then gives the hash its expiry: the midnight after that clock
\* reading, which deletes the hash at once when it has passed already.
ExpireHistory(r) ==
  LET v == req[r].viewer IN
  /\ Step(r, "expire", "incr")
  /\ \/ /\ req[r].day < day
        /\ marked' = [marked EXCEPT ![v] = {}]
        /\ ttl' = [ttl EXCEPT ![v] = Never]
     \/ /\ req[r].day = day
        /\ ttl' = [ttl EXCEPT ![v] = IF marked[v] = {} THEN Never ELSE day + 1]
        /\ UNCHANGED marked
  /\ unset' = unset \ {v}
  /\ UNCHANGED <<day, history, flushVars>>

\* Either call may fail, which is logged and ends the helper: the visit is
\* counted all the same.
MarkHistoryFails(r) ==
  /\ Fault("redis")
  /\ req[r].pc = "mark"
  /\ req' = [req EXCEPT ![r].pc = "incr", ![r].day = day]
  /\ UNCHANGED <<viewVars, active, syncing, stored, lock, phase, todo>>

LeftUnset(v) == unset' = IF ttl[v] = day + 1 THEN unset ELSE unset \cup {v}

ExpireHistoryFails(r) ==
  /\ Fault("redis")
  /\ Step(r, "expire", "incr")
  /\ LeftUnset(req[r].viewer)
  /\ UNCHANGED <<day, marked, ttl, history, active, syncing, stored, lock, phase, todo>>

\* SetCacheView.
CountView(r) ==
  /\ Step(r, "incr", "counted")
  /\ HIncrBy(req[r].item, 1)
  /\ UNCHANGED <<viewVars, syncing, stored, lock, phase, todo, faults>>

CountViewFails(r) ==
  /\ Fault("redis")
  /\ Step(r, "incr", "uncounted")
  /\ UNCHANGED <<viewVars, active, syncing, stored, lock, phase, todo>>

Midnight ==
  /\ day < MaxDay
  /\ Straddle \/ \A r \in Reqs : req[r].pc # "expire"
  /\ day' = day + 1
  /\ marked' = [v \in Viewers |-> IF ttl[v] <= day + 1 THEN {} ELSE marked[v]]
  /\ ttl' = [v \in Viewers |-> IF ttl[v] <= day + 1 THEN Never ELSE ttl[v]]
  /\ UNCHANGED <<unset, history, req, flushVars>>

RequestCrashes(r) ==
  /\ Fault("crash")
  /\ req[r].pc \in Busy
  /\ req' = [req EXCEPT ![r].pc = "dead"]
  /\ IF req[r].pc = "expire" THEN LeftUnset(req[r].viewer) ELSE UNCHANGED unset
  /\ UNCHANGED <<day, marked, ttl, history, active, syncing, stored, lock, phase, todo>>

ReqStep(r) ==
  \/ CheckHistory(r)
  \/ SaveHistory(r)
  \/ MarkHistory(r)
  \/ ExpireHistory(r)
  \/ CountView(r)

ReqFault(r) ==
  \/ CheckHistoryFails(r)
  \/ MarkHistoryFails(r)
  \/ ExpireHistoryFails(r)
  \/ CountViewFails(r)
  \/ RequestCrashes(r)

Next ==
  \/ \E r \in Reqs : ReqStep(r) \/ ReqFault(r)
  \/ Midnight
  \/ FlushNext /\ UNCHANGED <<viewVars, req>>

Spec == Init /\ [][Next]_vars

-----------------------------------------------------------------------------
Visits(i) == {r \in Reqs : req[r].item = i /\ req[r].pc = "counted"}

(* The faults after which a delta may be applied twice but is never lost:  *)
(* a failed UPDATE is put back, and the syncing hash survives a crash and  *)
(* a DEL that failed.                                                      *)
AtLeastOnceFaults == {"db", "skip", "redis", "crash"}

(* Every counted visit is in the stored count, in the active hash or in    *)
(* the part of the syncing hash still to apply, also when the server dies  *)
(* in the middle of the job: the next round takes the hash up again.       *)
NoViewLost ==
  faults.kinds \subseteq AtLeastOnceFaults =>
    \A i \in Ids : stored[i] + Owed(i) >= Cardinality(Visits(i))

(* As long as nothing worse happens than a failed UPDATE or a skipped      *)
(* round, no visit is counted twice either.                                *)
ViewsExact ==
  faults.kinds \subseteq {"db", "skip"} =>
    \A i \in Ids : stored[i] + Owed(i) = Cardinality(Visits(i))

(* The count of views: the two together (redis_counter.FlushArticle...).    *)
ViewsCounted == NoViewLost /\ ViewsExact

(* A viewer is counted once per article and calendar day (design note      *)
(* 5.6.6: views are deduplicated by natural day), unless Redis does not    *)
(* answer for the mark.  Without overlapping visits of one viewer, and no  *)
(* visit in the middle of setting its mark at midnight.                    *)
OncePerDay ==
  "redis" \notin faults.kinds =>
    \A r, q \in Reqs :
      (r # q /\ SamePair(r, q) /\ {req[r].pc, req[q].pc} \subseteq {"incr", "counted"})
        => req[r].day # req[q].day

(* A mark outlives its day only while the request that set it has not yet  *)
(* given the hash its expiry, so no viewer is shut out of the count for    *)
(* good.  Left out are the hashes of which that call failed, or whose      *)
(* request died before it, until a later visit makes up for it.            *)
MarksExpire ==
  \A v \in Viewers \ unset :
    marked[v] # {} =>
      \/ ttl[v] = day + 1
      \/ \E r \in Reqs : req[r].viewer = v /\ req[r].pc = "expire"
=============================================================================
