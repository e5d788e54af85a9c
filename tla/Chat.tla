-------------------------------- MODULE Chat --------------------------------
(***************************************************************************)
(* Private messages (api/chat_api, service/chat_service, redis_chat).  A   *)
(* send reads the relation of the two users (follow_service), reserves a   *)
(* place in the sender's last minute and, unless they are friends, in the  *)
(* week's quota of the direction, both Redis scripts, and stores the       *)
(* message in one MySQL transaction with both users' session rows.  When   *)
(* that fails the reservations are released; a stored message of a one-way *)
(* relation clears the quota of the other direction, as it is an answer.   *)
(*                                                                         *)
(* Receivers mark messages as read and clear sessions.  Both requests read *)
(* outside the transaction that acts on what was read.                     *)
(*                                                                         *)
(* A user has a connection per tab, so sends and the other requests of one *)
(* user interleave between their statements like those of different users. *)
(***************************************************************************)
EXTENDS Integers, Sequences, FiniteSets

CONSTANTS
  Users,
  Sends,          \* messages a client sends, each once
  Acts,           \* read and clear requests, each made once
  Open,           \* the users who accept messages of strangers
  OneTab,         \* the users who wait for the answer to a read or clear
                  \* request before they send the next
  StrangerLimit,  \* chatStrangerWeekQuotaLimit
  OneWayLimit,    \* chatWeekQuotaLimit
  UserLimit,      \* chatUserMinuteLimit
  SessionLimit,   \* chatSessionMinuteLimit
  MaxWeek         \* bound: a new week begins this many times

ASSUME ChatAssumption ==
  /\ IsFiniteSet(Sends)
  /\ Open \subseteq Users
  /\ OneTab \subseteq Users
  /\ {StrangerLimit, OneWayLimit, UserLimit, SessionLimit} \subseteq Nat \ {0}
  /\ StrangerLimit <= OneWayLimit
  /\ MaxWeek \in Nat

VARIABLES
  follows,  \* the live rows of UserFollowModel: <<fan, followed>>
  stats,    \* UserStatModel: how many a user follows, and has as fans
  week,
  quota,    \* the week's counter of each direction; gone with the week
  recent,   \* the sends that are members of the minute windows
  send,
  msgs,     \* the message table, a message's id is its place
  session,  \* session[u][v]: the session row of u with v
  act,
  faults    \* which faults have happened: "crash", "redis"

limitVars == <<week, quota, recent>>
tableVars == <<msgs, session>>
followVars == <<follows, stats>>
vars == <<followVars, limitVars, tableVars, send, act, faults>>

Relations == {"self", "friend", "oneway", "stranger"}

SendStates ==
       [pc : {"idle", "refused"}]
  \cup [pc : {"minute"}, from : Users, to : Users, relation : Relations]
  \cup [pc : {"week", "store", "commit", "done", "undoWeek", "undoMinute", "failed", "dead"},
        from : Users, to : Users, relation : Relations, week : 0..MaxWeek]

ActStates ==
       [pc : {"idle", "done"}]
  \cup [pc : {"read"}, user : Users, ids : SUBSET DOMAIN msgs]
  \cup [pc : {"max"}, user : Users, peer : Users, mark : Nat]
  \cup [pc : {"clear"}, user : Users, peer : Users, mark : Nat]

Rows == [state : {"none", "live", "deleted"}, unread : Nat, clear : 0..Len(msgs)]

TypeOK ==
  /\ follows \subseteq Users \X Users
  /\ stats \in [Users -> [follow : Nat, fans : Nat]]
  /\ week \in 0..MaxWeek
  /\ quota \in [Users -> [Users -> 0..OneWayLimit]]
  /\ recent \subseteq Sends
  /\ send \in [Sends -> SendStates]
  /\ msgs \in Seq([from : Users, to : Users, read : BOOLEAN])
  /\ session \in [Users -> [Users -> Rows]]
  /\ act \in [Acts -> ActStates]
  /\ faults \subseteq {"crash", "redis"}

Init ==
  /\ follows = {}
  /\ stats = [u \in Users |-> [follow |-> 0, fans |-> 0]]
  /\ week = 0
  /\ quota = [u \in Users |-> [v \in Users |-> 0]]
  /\ recent = {}
  /\ send = [r \in Sends |-> [pc |-> "idle"]]
  /\ msgs = <<>>
  /\ session = [u \in Users |-> [v \in Users |-> [state |-> "none", unread |-> 0, clear |-> 0]]]
  /\ act = [a \in Acts |-> [pc |-> "idle"]]
  /\ faults = {}

-----------------------------------------------------------------------------
(* Follows: one transaction restores, creates or deletes the row and, when *)
(* that changed something, counts it for both users.                       *)

\* StatApplyFollowDelta: an unfollow keeps the counts from falling below 0.
Clamped(n) == IF n < 0 THEN 0 ELSE n

StatApplyFollowDelta(u, v, delta) ==
  stats' = [stats EXCEPT ![u].follow = Clamped(@ + delta), ![v].fans = Clamped(@ + delta)]

FollowUser(u, v) ==
  /\ u # v /\ <<u, v>> \notin follows
  /\ follows' = follows \cup {<<u, v>>}
  /\ StatApplyFollowDelta(u, v, 1)
  /\ UNCHANGED <<limitVars, tableVars, send, act, faults>>

UnfollowUser(u, v) ==
  /\ <<u, v>> \in follows
  /\ follows' = follows \ {<<u, v>>}
  /\ StatApplyFollowDelta(u, v, -1)
  /\ UNCHANGED <<limitVars, tableVars, send, act, faults>>

Relation(u, v) ==
  CASE u = v -> "self"
    [] u # v /\ {<<u, v>>, <<v, u>>} \subseteq follows -> "friend"
    [] u # v /\ {<<u, v>>, <<v, u>>} \cap follows = {} -> "stranger"
    [] OTHER -> "oneway"

-----------------------------------------------------------------------------
(* CheckAndReserveChatSend.                                                *)

Go(r, pc) == send' = [send EXCEPT ![r].pc = pc]

Refuse(r) == send' = [send EXCEPT ![r] = [pc |-> "refused"]]

CheckRelation(r, u, v) ==
  /\ send[r].pc = "idle"
  /\ IF Relation(u, v) = "stranger" /\ v \notin Open
     THEN Refuse(r)
     ELSE send' = [send EXCEPT ![r] =
            [pc |-> "minute", from |-> u, to |-> v, relation |-> Relation(u, v)]]
  /\ UNCHANGED <<followVars, limitVars, tableVars, act, faults>>

Sender(r)    == send[r].from
Receiver(r)  == send[r].to
Rated(r)     == send[r].relation \in {"oneway", "stranger"}
ThisWeek(r)  == send[r].week = week

\* chatMinuteReserveScript.  A failing script refuses the send as well.
ReserveMinute(r) ==
  LET ofUser    == {q \in recent : Sender(q) = Sender(r)}
      ofSession == {q \in recent : {Sender(q), Receiver(q)} = {Sender(r), Receiver(r)}}
  IN
  /\ send[r].pc = "minute"
  /\ \/ /\ Cardinality(ofUser) < UserLimit
        /\ Cardinality(ofSession) < SessionLimit
        /\ recent' = recent \cup {r}
        /\ send' = [send EXCEPT ![r] =
             [pc |-> IF Rated(r) THEN "week" ELSE "store", from |-> Sender(r),
              to |-> Receiver(r), relation |-> send[r].relation, week |-> week]]
     \/ Refuse(r) /\ UNCHANGED recent
  /\ UNCHANGED <<followVars, week, quota, tableVars, act, faults>>

Limit(r) == IF send[r].relation = "stranger" THEN StrangerLimit ELSE OneWayLimit

SetQuota(u, v, n) == quota' = [quota EXCEPT ![u][v] = n]

\* A defect the runs must catch: the quota is compared with > instead of >=.
ReserveOneMore(r) ==
  LET used == quota[Sender(r)][Receiver(r)] IN
  /\ send[r].pc = "week"
  /\ IF ThisWeek(r) /\ used <= Limit(r) /\ used < OneWayLimit
     THEN SetQuota(Sender(r), Receiver(r), used + 1) /\ Go(r, "store")
     ELSE UNCHANGED quota /\ Go(r, "undoMinute")
  /\ UNCHANGED <<followVars, week, recent, tableVars, act, faults>>

\* chatWeekQuotaReserveScript, on the key of the week whose clock the send
\* has read: a key of a week that is over starts at 0 and expires at once.
\* When the quota is used up or the script fails the minute is given back.
ReserveWeek(r) ==
  LET used == quota[Sender(r)][Receiver(r)] IN
  /\ send[r].pc = "week"
  /\ \/ /\ ThisWeek(r) /\ used < Limit(r)
        /\ SetQuota(Sender(r), Receiver(r), used + 1)
        /\ Go(r, "store")
     \/ ~ThisWeek(r) /\ UNCHANGED quota /\ Go(r, "store")
     \/ UNCHANGED quota /\ Go(r, "undoMinute")
  /\ UNCHANGED <<followVars, week, recent, tableVars, act, faults>>

-----------------------------------------------------------------------------
(* ToChat: one transaction makes or revives both session rows, inserts the *)
(* message and counts it as unread for the receiver.                       *)

\* A defect: a revived row starts from nothing.
RevivedFresh(row) ==
  IF row.state = "live" THEN row ELSE [state |-> "live", unread |-> 0, clear |-> 0]

\* ensureChatSessions.  MySQL assigns deleted_at first, so the CASE of the
\* unread count finds a live row; a deleted row's count is 0 all the same.
Revived(row) ==
  [row EXCEPT !.state = "live", !.unread = IF row.state = "deleted" THEN 0 ELSE @]

Counted(row) == [Revived(row) EXCEPT !.unread = @ + 1]

ToChat(r) ==
  LET u == Sender(r)
      v == Receiver(r)
  IN
  /\ send[r].pc = "store"
  /\ msgs' = Append(msgs, [from |-> u, to |-> v, read |-> FALSE])
  /\ session' = LET own == [session EXCEPT ![u][v] = Revived(@)]
                IN  IF u = v THEN own ELSE [own EXCEPT ![v][u] = Counted(@)]
  /\ Go(r, IF send[r].relation = "oneway" THEN "commit" ELSE "done")
  /\ UNCHANGED <<followVars, limitVars, act, faults>>

\* The content is empty or of an unknown type, or MySQL fails; two sends of
\* opposite directions may also deadlock on the session rows.
ToChatFails(r) ==
  /\ send[r].pc = "store"
  /\ Go(r, IF Rated(r) THEN "undoWeek" ELSE "undoMinute")
  /\ UNCHANGED <<followVars, limitVars, tableVars, act, faults>>

\* Commit: ResetChatWeekQuota of the other direction.
Commit(r) ==
  /\ send[r].pc = "commit"
  /\ Go(r, "done")
  /\ IF ThisWeek(r) THEN SetQuota(Receiver(r), Sender(r), 0) ELSE UNCHANGED quota
  /\ UNCHANGED <<followVars, week, recent, tableVars, act, faults>>

\* chatWeekQuotaReleaseScript, then chatMinuteReleaseScript.
RollbackWeek(r) ==
  LET used == quota[Sender(r)][Receiver(r)] IN
  /\ send[r].pc = "undoWeek"
  /\ Go(r, "undoMinute")
  /\ IF ThisWeek(r) /\ used > 0
     THEN SetQuota(Sender(r), Receiver(r), used - 1)
     ELSE UNCHANGED quota
  /\ UNCHANGED <<followVars, week, recent, tableVars, act, faults>>

RollbackMinute(r) ==
  /\ send[r].pc = "undoMinute"
  /\ Go(r, "failed")
  /\ recent' = recent \ {r}
  /\ UNCHANGED <<followVars, week, quota, tableVars, act, faults>>

\* A Rollback that meets an error gives up, a Commit's error is only logged.
RedisFails(r) ==
  /\ send[r].pc \in {"commit", "undoWeek", "undoMinute"}
  /\ Go(r, IF send[r].pc = "commit" THEN "done" ELSE "failed")
  /\ faults' = faults \cup {"redis"}
  /\ UNCHANGED <<followVars, limitVars, tableVars, act>>

SendCrashes(r) ==
  /\ send[r].pc \in {"week", "store", "commit", "undoWeek", "undoMinute"}
  /\ Go(r, "dead")
  /\ faults' = faults \cup {"crash"}
  /\ UNCHANGED <<followVars, limitVars, tableVars, act>>

\* ZREMRANGEBYSCORE: a member older than a minute does not count.
LeaveMinute(r) ==
  /\ r \in recent
  /\ recent' = recent \ {r}
  /\ UNCHANGED <<followVars, week, quota, tableVars, send, act, faults>>

NewWeek ==
  /\ week < MaxWeek
  /\ week' = week + 1
  /\ quota' = [u \in Users |-> [v \in Users |-> 0]]
  /\ UNCHANGED <<followVars, recent, tableVars, send, act, faults>>

-----------------------------------------------------------------------------
(* ChatMsgReadUserView: the messages that are not read are looked up, then *)
(* marked by their ids, and the session's unread count is lowered by as    *)
(* many.                                                                   *)

ActGo(a, next) == act' = [act EXCEPT ![a] = next]

Begins(a, u) ==
  /\ act[a].pc = "idle"
  /\ u \in OneTab => \A b \in Acts : act[b].pc \notin {"idle", "done"} => act[b].user # u

Unread(u) == {m \in DOMAIN msgs : msgs[m].to = u /\ ~msgs[m].read}

ReadFind(a, u) ==
  /\ Begins(a, u)
  /\ \E ids \in (SUBSET Unread(u)) \ {{}} : ActGo(a, [pc |-> "read", user |-> u, ids |-> ids])
  /\ UNCHANGED <<followVars, limitVars, tableVars, send, faults>>

\* A defect: no clamp.
Unclamped(unread, n) == unread - n

\* decreaseChatSessionUnreadCount.
Lowered(unread, n) == IF unread >= n THEN unread - n ELSE 0

MarkRead(a) ==
  LET u   == act[a].user
      ids == act[a].ids
      From(v) == {m \in ids : msgs[m].from = v}
  IN
  /\ act[a].pc = "read"
  /\ msgs' = [m \in DOMAIN msgs |-> [msgs[m] EXCEPT !.read = @ \/ m \in ids]]
  /\ session' = [session EXCEPT ![u] =
       [v \in Users |-> IF From(v) = {} THEN session[u][v]
                        ELSE [session[u][v] EXCEPT !.unread = Lowered(@, Cardinality(From(v)))]]]
  /\ ActGo(a, [pc |-> "done"])
  /\ UNCHANGED <<followVars, limitVars, send, faults>>

-----------------------------------------------------------------------------
(* ChatSessionDeleteUserView: the live session row is looked up; in the    *)
(* transaction its largest message id is read, the row's watermark raised  *)
(* to it and the row deleted.                                              *)

Between(u, v) == {m \in DOMAIN msgs : {msgs[m].from, msgs[m].to} = {u, v}}

ClearFind(a, u, v) ==
  /\ Begins(a, u)
  /\ session[u][v].state = "live"
  /\ ActGo(a, [pc |-> "max", user |-> u, peer |-> v, mark |-> session[u][v].clear])
  /\ UNCHANGED <<followVars, limitVars, tableVars, send, faults>>

\* loadSessionMaxMsgIDMap.
ClearMax(a) ==
  LET ids == Between(act[a].user, act[a].peer) \cup {act[a].mark} IN
  /\ act[a].pc = "max"
  /\ \E top \in ids :
       /\ \A m \in ids : m <= top
       /\ ActGo(a, [act[a] EXCEPT !.pc = "clear", !.mark = top])
  /\ UNCHANGED <<followVars, limitVars, tableVars, send, faults>>

\* A defect: the unread count is left to the reading of the messages.
ClearKeepsUnread(a) ==
  LET u == act[a].user
      v == act[a].peer
  IN
  /\ act[a].pc = "clear"
  /\ session' = [session EXCEPT ![u][v] =
       IF @.state = "live" THEN [@ EXCEPT !.state = "deleted", !.clear = act[a].mark] ELSE @]
  /\ ActGo(a, [pc |-> "done"])
  /\ UNCHANGED <<followVars, limitVars, msgs, send, faults>>

\* clearChatSessions and the DELETE touch the row only while it is live.
ClearSession(a) ==
  LET u == act[a].user
      v == act[a].peer
  IN
  /\ act[a].pc = "clear"
  /\ session' = [session EXCEPT ![u][v] =
       IF @.state = "live" THEN [state |-> "deleted", unread |-> 0, clear |-> act[a].mark] ELSE @]
  /\ ActGo(a, [pc |-> "done"])
  /\ UNCHANGED <<followVars, limitVars, msgs, send, faults>>

-----------------------------------------------------------------------------
SendStep(r) ==
  \/ \E u, v \in Users : CheckRelation(r, u, v)
  \/ ReserveMinute(r) \/ ReserveWeek(r) \/ ToChat(r) \/ ToChatFails(r) \/ Commit(r)
  \/ RollbackWeek(r) \/ RollbackMinute(r) \/ RedisFails(r) \/ SendCrashes(r)

ActStep(a) ==
  \/ \E u \in Users : ReadFind(a, u)
  \/ \E u, v \in Users : ClearFind(a, u, v)
  \/ MarkRead(a) \/ ClearMax(a) \/ ClearSession(a)

Next ==
  \/ \E u, v \in Users : FollowUser(u, v) \/ UnfollowUser(u, v)
  \/ \E r \in Sends : SendStep(r) \/ LeaveMinute(r)
  \/ \E a \in Acts : ActStep(a)
  \/ NewWeek

Spec == Init /\ [][Next]_vars

-----------------------------------------------------------------------------
(* Both statistics of a user agree with the relation, whatever is repeated *)
(* or undone in whichever order.                                           *)
FollowsCounted ==
  \A u \in Users :
    /\ stats[u].follow = Cardinality({f \in follows : f[1] = u})
    /\ stats[u].fans = Cardinality({f \in follows : f[2] = u})

\* The sends from u to v of this week that are in one of the states.
Of(u, v, relations, states) ==
  {r \in Sends : /\ send[r].pc \in states
                 /\ Sender(r) = u /\ Receiver(r) = v /\ ThisWeek(r)
                 /\ send[r].relation \in relations}

Stored == {"commit", "done"}
Begun  == {"week", "store", "commit", "done", "undoWeek", "undoMinute", "failed", "dead"}

Answers(u, v) == Cardinality(Of(v, u, {"oneway"}, Stored \cup {"dead"}))

(* In a week a user gets through to one who is not a friend OneWayLimit     *)
(* times, and as often again for each answer; to one who stayed a stranger *)
(* StrangerLimit times (comment of CheckAndReserveChatSend).  Neither      *)
(* concurrent sends, nor a failed send whose reservation an answer has     *)
(* already cleared, nor a follow in between lets more through.             *)
WeekLimitKept ==
  \A u, v \in Users :
    /\ Cardinality(Of(u, v, {"oneway", "stranger"}, Stored)) <= OneWayLimit * (1 + Answers(u, v))
    /\ Of(u, v, {"oneway"}, Begun) = {} =>
         Cardinality(Of(u, v, {"stranger"}, Stored)) <= StrangerLimit * (1 + Answers(u, v))

(* A send that is not stored costs its sender nothing, neither in the      *)
(* week's quota nor in the minute's windows (comment of Rollback: failed   *)
(* requests take no quota), until Redis or the server fails.               *)
FailedSendsCostNothing ==
  faults = {} =>
    /\ \A u, v \in Users :
         quota[u][v] <= Cardinality(Of(u, v, {"oneway", "stranger"}, Stored \cup {"store", "undoWeek"}))
    /\ \A r \in recent : send[r].pc \notin {"refused", "failed"}

(* The limits on sending (CheckAndReserveChatSend, Rollback): the two       *)
(* together.                                                               *)
LimitsKept == WeekLimitKept /\ FailedSendsCostNothing

\* The messages of v that u has not read and not cleared.
Waiting(u, v) ==
  {m \in Unread(u) : msgs[m].from = v /\ u # v /\ m > session[u][v].clear}

(* The unread count of a session never shows messages that are not there:  *)
(* reading twice, reading what was cleared and clearing beside a new       *)
(* message can only make it too small.                                     *)
UnreadNotOverstated ==
  \A u, v \in Users : session[u][v].unread <= Cardinality(Waiting(u, v))

(* Until a session is cleared its unread count is right, when the user     *)
(* reads in one tab.                                                       *)
UnreadExact ==
  \A u \in OneTab, v \in Users :
    session[u][v].clear = 0 => session[u][v].unread = Cardinality(Waiting(u, v))

(* The unread counts: the two together. *)
UnreadRight == UnreadNotOverstated /\ UnreadExact

(* Messages that were cleared stay cleared: the watermark never goes back, *)
(* when the user clears in one tab.                                        *)
ClearedStaysCleared ==
  [][\A u \in OneTab, v \in Users : session'[u][v].clear >= session[u][v].clear]_vars
=============================================================================
