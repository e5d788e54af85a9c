----------------------------- MODULE GlobalNotices -----------------------------
(* Notices of administrators to all users (api/global_msg_api): one table  *)
(* of notices and one of what a user made of them.  A row of the second    *)
(* appears when the user reads or removes a notice; a removal leaves it as *)
(* a tombstone.                                                            *)
EXTENDS Naturals, Sequences, FiniteSets

CONSTANTS
  Members,      \* users
  Topics,       \* titles
  Asks,         \* requests, each made once
  NoRow,
  MaxNotices,   \* bound
  MaxTime       \* bound of the clock

VARIABLES
  notice,       \* global_notif_models, by id: [title, rule, created, expires, deleted]
  mine,         \* user_global_notif_models: [read, deleted], or NoRow
  joined,       \* CreatedAt of the users
  now,
  ask,
  hasRead, hasRemoved  \* history: <<user, notice>> confirmed to the user

noticeVars == <<notice, mine, joined, now, ask, hasRead, hasRemoved>>

Rules   == {"registered", "new", "all"}
Notices == DOMAIN notice
Row(u, n) == IF n \in DOMAIN mine[u] THEN mine[u][n] ELSE NoRow

NoticeInit ==
  /\ notice = <<>> /\ mine = [u \in Members |-> <<>>]
  /\ joined \in [Members -> 0 .. MaxTime] /\ now = 0
  /\ ask = [r \in Asks |-> [pc |-> "idle"]] /\ hasRead = {} /\ hasRemoved = {}

Reply(r, state) == ask' = [ask EXCEPT ![r] = state]
Answered == [pc |-> "done"]

(* BuildUserVisibleGlobalNotifQuery: a notice for registered users is for  *)
(* those it found, one for new users for those who came later.             *)
ForUser(u, g) ==
  /\ ~g.deleted /\ g.expires > now
  /\ \/ g.rule = "all"
     \/ g.rule = "registered" /\ g.created >= joined[u] /\ g.expires >= joined[u]
     \/ g.rule = "new" /\ g.created < joined[u] /\ g.expires >= joined[u]

(* What a user's list shows, given the rows the user is known to have.     *)
Visible(u, tombs) == {n \in Notices \ tombs : ForUser(u, notice[n])}
Tombs(u)  == {n \in Notices : Row(u, n) # NoRow /\ Row(u, n).deleted}
IsRead(u, n) == Row(u, n) # NoRow /\ Row(u, n).read

-----------------------------------------------------------------------------
(* GlobalNotifCreateView: the title is checked and no index guards it.     *)
CreateCheck(r, title, rule, days) ==
  /\ ask[r].pc = "idle"
  /\ \A n \in Notices : notice[n].deleted \/ notice[n].title # title
  /\ Reply(r, [pc |-> "create", row |-> [title |-> title, rule |-> rule, created |-> now,
                                         expires |-> now + days, deleted |-> FALSE]])
  /\ UNCHANGED <<notice, mine, joined, now, hasRead, hasRemoved>>

CreateNotice(r) ==
  /\ ask[r].pc = "create" /\ Len(notice) < MaxNotices
  /\ notice' = Append(notice, [ask[r].row EXCEPT !.created = now])
  /\ Reply(r, Answered)
  /\ UNCHANGED <<mine, joined, now, hasRead, hasRemoved>>

(* LoadUserGlobalNotifState: the tombstones are read before the notices.   *)
LoadState(r, u, op, list) ==
  /\ ask[r].pc = "idle" /\ now >= joined[u] /\ list # {}
  /\ Reply(r, [pc |-> "find", op |-> op, user |-> u, list |-> list, tombs |-> Tombs(u)])
  /\ UNCHANGED <<notice, mine, joined, now, hasRead, hasRemoved>>

FindVisible(r) ==
  /\ ask[r].pc = "find"
  /\ LET found == Visible(ask[r].user, ask[r].tombs) \cap ask[r].list IN
       Reply(r, IF found = {} THEN Answered
                ELSE [pc |-> ask[r].op, user |-> ask[r].user, found |-> found])
  /\ UNCHANGED <<notice, mine, joined, now, hasRead, hasRemoved>>

SetRows(u, new) == mine' = [mine EXCEPT ![u] = [n \in (DOMAIN @) \cup (DOMAIN new) |->
                                                  IF n \in DOMAIN new THEN new[n] ELSE @[n]]]

ReadRestores(r) ==                 \* mutant: an upsert that revives the row
  /\ ask[r].pc = "read"
  /\ LET u == ask[r].user IN
       /\ SetRows(u, [n \in ask[r].found |-> [read |-> TRUE, deleted |-> FALSE]])
       /\ hasRead' = hasRead \cup {<<u, n>> : n \in ask[r].found}
  /\ Reply(r, Answered)
  /\ UNCHANGED <<notice, joined, now, hasRemoved>>

(* One transaction: an unread row is updated; where that hits nothing a    *)
(* row is inserted unless there is one.                                    *)
ReadNotices(r) ==
  /\ ask[r].pc = "read"
  /\ LET u == ask[r].user
         hit == {n \in ask[r].found : n \notin Tombs(u) /\ ~IsRead(u, n)}
     IN /\ SetRows(u, [n \in hit |-> [read |-> TRUE, deleted |-> FALSE]])
        /\ hasRead' = hasRead \cup {<<u, n>> : n \in hit}
  /\ Reply(r, Answered)
  /\ UNCHANGED <<notice, joined, now, hasRemoved>>

RemoveForUser(r) ==
  /\ ask[r].pc = "remove"
  /\ LET u == ask[r].user
         hit == ask[r].found \ Tombs(u)
     IN /\ SetRows(u, [n \in hit |-> [read |-> IsRead(u, n), deleted |-> TRUE]])
        /\ hasRemoved' = hasRemoved \cup {<<u, n>> : n \in hit}
  /\ Reply(r, Answered)
  /\ UNCHANGED <<notice, joined, now, hasRead>>

(* GlobalNotifAdminRemoveView: the hook takes the users' rows along.       *)
AdminFind(r, list) ==
  /\ ask[r].pc = "idle" /\ list # {} /\ \A n \in list : ~notice[n].deleted
  /\ Reply(r, [pc |-> "adminRemove", found |-> list])
  /\ UNCHANGED <<notice, mine, joined, now, hasRead, hasRemoved>>

AdminRemove(r) ==
  /\ ask[r].pc = "adminRemove"
  /\ notice' = [n \in Notices |-> IF n \in ask[r].found THEN [notice[n] EXCEPT !.deleted = TRUE] ELSE notice[n]]
  /\ mine' = [u \in Members |-> [n \in DOMAIN mine[u] |->
                IF n \in ask[r].found THEN [mine[u][n] EXCEPT !.deleted = TRUE] ELSE mine[u][n]]]
  /\ Reply(r, Answered)
  /\ UNCHANGED <<joined, now, hasRead, hasRemoved>>

Pass ==
  /\ now < MaxTime /\ now' = now + 1
  /\ UNCHANGED <<notice, mine, joined, ask, hasRead, hasRemoved>>

NoticeNext ==
  \/ \E r \in Asks :
       \/ \E t \in Topics, rule \in Rules, days \in 1 .. 2 : CreateCheck(r, t, rule, days)
       \/ CreateNotice(r)
       \/ \E u \in Members, op \in {"read", "remove"}, list \in SUBSET Notices : LoadState(r, u, op, list)
       \/ FindVisible(r) \/ ReadNotices(r) \/ RemoveForUser(r)
       \/ \E list \in SUBSET Notices : AdminFind(r, list)
       \/ AdminRemove(r)
  \/ Pass

-----------------------------------------------------------------------------
NoticeTypeOK ==
  /\ \A n \in Notices : /\ notice[n].title \in Topics /\ notice[n].rule \in Rules
                        /\ notice[n].created \in 0 .. MaxTime /\ notice[n].deleted \in BOOLEAN
  /\ \A u \in Members : DOMAIN mine[u] \subseteq Notices
  /\ now \in 0 .. MaxTime /\ joined \in [Members -> 0 .. MaxTime]
  /\ \A r \in Asks : ask[r].pc \in {"idle", "create", "find", "read", "remove", "adminRemove", "done"}

(* What a user was told to have removed is never listed for that user      *)
(* again, and what was read is listed as read, however reading, removing,  *)
(* and the removal by an administrator overlap.                            *)
UserChoicesStay ==
  \A u \in Members : \A n \in Visible(u, Tombs(u)) :
    /\ <<u, n>> \notin hasRemoved
    /\ <<u, n>> \in hasRead => IsRead(u, n)
=============================================================================
