------------------------------ MODULE ChatProofs ------------------------------
(***************************************************************************)
(* Proofs about Chat (the limits on sending, the unread counts, the        *)
(* watermark of cleared messages, the statistics of follows) and about     *)
(* Messages and GlobalNotices, as MCChat composes them.                    *)
(***************************************************************************)
EXTENDS MCChat, FiniteSetTheorems, TLAPS

(* A watermark that a request has read is the id of a message.             *)
MarksInTable == \A a \in Acts : act[a].pc \in {"max", "clear"} => act[a].mark <= Len(msgs)

Typed == TypeOK /\ MarksInTable

(* What the branches of a send say of its relation and its week.           *)
Branches ==
  \A r \in Sends :
    /\ send[r].pc \in {"week", "undoWeek"} => Rated(r)
    /\ send[r].pc = "commit" => send[r].relation = "oneway"
    /\ send[r].pc \in Begun => send[r].week <= week

(* A send is in the minute's windows once it is reserved, and leaves them   *)
(* when it fails, unless Redis fails.                                      *)
Windows ==
  \A r \in recent :
    /\ send[r].pc \notin {"idle", "refused", "minute"}
    /\ send[r].pc = "failed" => faults # {}

(* The sends of this week from u to v with a place in the quota, the        *)
(* answers that may have cleared it, and how far the quota goes.           *)
Held(u, v)    == Of(u, v, {"oneway", "stranger"}, Stored \cup {"store", "undoWeek"})
Cleared(u, v) == Of(v, u, {"oneway"}, {"done", "dead"})
Oneway(u, v)  == Of(u, v, {"oneway"}, Begun)
Places(u, v)  == IF Oneway(u, v) = {} THEN StrangerLimit ELSE OneWayLimit

(* Each answer clears the quota at most once, so the places that are held   *)
(* are those in the quota and at most a full quota for each answer.  A     *)
(* failed send lowers both, or only the places when the quota is at 0.     *)
Booked ==
  \A u, v \in Users :
    /\ quota[u][v] <= Places(u, v)
    /\ Cardinality(Held(u, v)) <= Places(u, v) * Cardinality(Cleared(u, v)) + quota[u][v]

(* Until a fault every place in the quota is held by a send.               *)
NoneLost ==
  faults = {} => \A u, v \in Users : quota[u][v] <= Cardinality(Held(u, v))

LimitsInv == Branches /\ Windows /\ Booked /\ NoneLost

(* A request marks messages to its user.                                   *)
ReadsOwn == \A a \in Acts : act[a].pc = "read" =>
  \A m \in act[a].ids : msgs[m].to = act[a].user

(* In one tab there is one request at a time; so the messages it looked up  *)
(* are still unread, and the watermark it read is still the row's.         *)
Active == {"read", "max", "clear"}

OneAtATime ==
  \A a, b \in Acts :
    act[a].pc \in Active /\ act[b].pc \in Active /\ a # b /\ act[a].user = act[b].user
      => act[a].user \notin OneTab

StillUnread ==
  \A a \in Acts : act[a].pc = "read" /\ act[a].user \in OneTab => \A m \in act[a].ids : ~msgs[m].read

MarkAhead ==
  \A a \in Acts : act[a].pc \in {"max", "clear"} /\ act[a].user \in OneTab =>
    act[a].mark >= session[act[a].user][act[a].peer].clear

(* A live row has a message, so the watermark of a clear is one.           *)
RowsHaveMessages ==
  /\ \A u, v \in Users : session[u][v].state = "live" => Between(u, v) # {}
  /\ \A u, v \in Users : session[u][v].state # "live" => session[u][v].unread = 0
  /\ \A a \in Acts :
       /\ act[a].pc = "max" => Between(act[a].user, act[a].peer) # {}
       /\ act[a].pc = "clear" => act[a].mark > 0

ReadsInv == ReadsOwn /\ OneAtATime /\ StillUnread /\ MarkAhead /\ RowsHaveMessages

-----------------------------------------------------------------------------
(* Steps of a send.                                                        *)

Named(s) == s.from \in Users /\ s.to \in Users /\ s.relation \in Relations

LEMMA SendParts ==
  ASSUME NEW s \in SendStates
  PROVE  /\ s.pc \in {"idle", "refused", "minute"} \cup Begun
         /\ s.pc \notin {"idle", "refused"} => Named(s)
         /\ s.pc \in Begun => s.week \in 0..MaxWeek
  <1>1. CASE s \in [pc : {"idle", "refused"}]
    BY <1>1 DEF Begun
  <1>2. CASE s \in [pc : {"minute"}, from : Users, to : Users, relation : Relations]
    BY <1>2 DEF Named, Begun
  <1>3. CASE s \in [pc : Begun, from : Users, to : Users, relation : Relations, week : 0..MaxWeek]
    BY <1>3 DEF Named, Begun
  <1> QED
    BY <1>1, <1>2, <1>3 DEF SendStates, Begun

LEMMA BegunMoves ==
  ASSUME NEW s \in SendStates, s.pc \in Begun, NEW q \in Begun
  PROVE  /\ [s EXCEPT !.pc = q] \in SendStates
         /\ [s EXCEPT !.pc = q].pc = q
         /\ [s EXCEPT !.pc = q].from = s.from /\ [s EXCEPT !.pc = q].to = s.to
         /\ [s EXCEPT !.pc = q].relation = s.relation /\ [s EXCEPT !.pc = q].week = s.week
  <1>1. s \in [pc : Begun, from : Users, to : Users, relation : Relations, week : 0..MaxWeek]
    BY DEF SendStates, Begun
  <1>2. [s EXCEPT !.pc = q] \in
          [pc : Begun, from : Users, to : Users, relation : Relations, week : 0..MaxWeek]
    BY <1>1
  <1>3. [s EXCEPT !.pc = q] \in SendStates
    BY <1>2 DEF SendStates, Begun
  <1> QED
    BY <1>1, <1>3

\* What a step of send r does once it is begun.
Moves(r, p, q) ==
  /\ send[r].pc = p
  /\ send'[r].pc = q
  /\ send'[r].from = send[r].from /\ send'[r].to = send[r].to
  /\ send'[r].relation = send[r].relation /\ send'[r].week = send[r].week
  /\ \A s \in Sends \ {r} : send'[s] = send[s]

LEMMA Goes ==
  ASSUME TypeOK, NEW r \in Sends, send[r].pc \in Begun, NEW q \in Begun, Go(r, q)
  PROVE  /\ send' \in [Sends -> SendStates]
         /\ Moves(r, send[r].pc, q)
  <1>1. send \in [Sends -> SendStates] /\ send[r] \in SendStates
    BY DEF TypeOK
  <1> DEFINE new == [send[r] EXCEPT !.pc = q]
  <1>2. /\ new \in SendStates /\ new.pc = q
        /\ new.from = send[r].from /\ new.to = send[r].to
        /\ new.relation = send[r].relation /\ new.week = send[r].week
    BY <1>1, BegunMoves
  <1>3. send' = [send EXCEPT ![r] = new]
    BY DEF Go
  <1> HIDE DEF new
  <1>4. send' \in [Sends -> SendStates]
    BY <1>1, <1>2, <1>3
  <1>5. send'[r] = new /\ \A s \in Sends \ {r} : send'[s] = send[s]
    BY <1>1, <1>3
  <1> QED
    BY <1>2, <1>4, <1>5 DEF Moves

\* A send that is begun has its four fields.
LEMMA Parties ==
  ASSUME TypeOK, NEW r \in Sends
  PROVE  /\ send[r].pc \in {"idle", "refused", "minute"} \cup Begun
         /\ send[r].pc \notin {"idle", "refused"} =>
              Sender(r) \in Users /\ Receiver(r) \in Users /\ send[r].relation \in Relations
         /\ send[r].pc \in Begun => send[r].week \in 0..MaxWeek
  BY SendParts DEF TypeOK, Named, Sender, Receiver

\* The first two steps give a send its fields.
LEMMA FieldsGiven ==
  ASSUME TypeOK, NEW r \in Sends, NEW new \in SendStates, send' = [send EXCEPT ![r] = new]
  PROVE  /\ send' \in [Sends -> SendStates]
         /\ send'[r] = new
         /\ \A s \in Sends \ {r} : send'[s] = send[s]
  BY DEF TypeOK

LEMMA Refusal == [pc |-> "refused"] \in SendStates
  BY DEF SendStates

LEMMA RelationTyped == \A u, v : Relation(u, v) \in Relations
  BY DEF Relation, Relations

-----------------------------------------------------------------------------
(* Types.                                                                  *)

LEMMA TypedInit == Init => Typed
  <1> SUFFICES ASSUME Init PROVE Typed
    OBVIOUS
  <1>1. msgs = <<>> /\ Len(msgs) = 0 /\ msgs \in Seq([from : Users, to : Users, read : BOOLEAN])
    BY DEF Init
  <1>2. [state |-> "none", unread |-> 0, clear |-> 0] \in Rows
    BY <1>1 DEF Rows
  <1>3. session \in [Users -> [Users -> Rows]]
    BY <1>2 DEF Init
  <1>4. act \in [Acts -> ActStates] /\ send \in [Sends -> SendStates]
    BY DEF Init, ActStates, SendStates
  <1>5. follows \subseteq Users \X Users /\ stats \in [Users -> [follow : Nat, fans : Nat]]
    BY DEF Init
  <1>6. week \in 0..MaxWeek /\ quota \in [Users -> [Users -> 0..OneWayLimit]]
    BY ChatAssumption DEF Init, ChatAssumption
  <1>7. recent \subseteq Sends /\ faults \subseteq {"crash", "redis"}
    BY DEF Init
  <1>8. MarksInTable
    BY DEF Init, MarksInTable
  <1> QED
    BY <1>1, <1>3, <1>4, <1>5, <1>6, <1>7, <1>8 DEF TypeOK, Typed

\* While the messages stay the same, so do the types that depend on them.
LEMMA SameTable ==
  ASSUME Typed, UNCHANGED <<tableVars, act>>
  PROVE  /\ msgs' \in Seq([from : Users, to : Users, read : BOOLEAN])
         /\ (session \in [Users -> [Users -> Rows]])'
         /\ (act \in [Acts -> ActStates])'
         /\ MarksInTable'
  BY DEF Typed, TypeOK, tableVars, Rows, ActStates, MarksInTable

LEMMA FollowTyped ==
  ASSUME Typed, NEW u \in Users, NEW v \in Users, FollowUser(u, v) \/ UnfollowUser(u, v)
  PROVE  Typed'
  <1> DEFINE Stat == [follow : Nat, fans : Nat]
  <1>1. follows' \subseteq Users \X Users
    BY DEF FollowUser, UnfollowUser, Typed, TypeOK
  <1>2. \A s \in Stat, d \in {1, -1} :
          /\ [s EXCEPT !.follow = Clamped(@ + d)] \in Stat
          /\ [s EXCEPT !.fans = Clamped(@ + d)] \in Stat
    BY SMT DEF Clamped
  <1>3. PICK d \in {1, -1} : StatApplyFollowDelta(u, v, d)
    BY DEF FollowUser, UnfollowUser
  <1>4. stats \in [Users -> Stat]
    BY DEF Typed, TypeOK
  <1> DEFINE one == [stats EXCEPT ![u] = [stats[u] EXCEPT !.follow = Clamped(@ + d)]]
  <1>5. one \in [Users -> Stat]
    BY <1>2, <1>4
  <1>6. stats' = [one EXCEPT ![v] = [one[v] EXCEPT !.fans = Clamped(@ + d)]]
    BY <1>3 DEF StatApplyFollowDelta
  <1> HIDE DEF one
  <1>7. stats' \in [Users -> Stat]
    BY <1>2, <1>5, <1>6
  <1>8. UNCHANGED <<limitVars, tableVars, send, act, faults>>
    BY DEF FollowUser, UnfollowUser
  <1> QED
    BY <1>1, <1>7, <1>8, SameTable DEF Typed, TypeOK, limitVars

LEMMA CheckTyped ==
  ASSUME TypeOK, NEW r \in Sends, NEW u \in Users, NEW v \in Users, CheckRelation(r, u, v)
  PROVE  /\ send' \in [Sends -> SendStates]
         /\ send[r].pc = "idle" /\ send'[r].pc \in {"refused", "minute"}
         /\ \A s \in Sends \ {r} : send'[s] = send[s]
  <1> DEFINE asked == [pc |-> "minute", from |-> u, to |-> v, relation |-> Relation(u, v)]
  <1>1. asked \in SendStates
    BY RelationTyped DEF SendStates
  <1>2. PICK new \in {asked, [pc |-> "refused"]} : send' = [send EXCEPT ![r] = new]
    BY DEF CheckRelation, Refuse
  <1>3. new \in SendStates /\ new.pc \in {"refused", "minute"}
    BY <1>1, <1>2, Refusal
  <1> QED
    BY <1>2, <1>3, FieldsGiven DEF CheckRelation

LEMMA ReserveMinuteTyped ==
  ASSUME TypeOK, NEW r \in Sends, ReserveMinute(r)
  PROVE  /\ send' \in [Sends -> SendStates]
         /\ send[r].pc = "minute"
         /\ \A s \in Sends \ {r} : send'[s] = send[s]
         /\ \/ send'[r].pc = "refused" /\ recent' = recent
            \/ /\ recent' = recent \cup {r}
               /\ send'[r] = [pc |-> IF Rated(r) THEN "week" ELSE "store", from |-> Sender(r),
                              to |-> Receiver(r), relation |-> send[r].relation, week |-> week]
  <1> DEFINE begun == [pc |-> IF Rated(r) THEN "week" ELSE "store", from |-> Sender(r),
                       to |-> Receiver(r), relation |-> send[r].relation, week |-> week]
  <1>1. send[r].pc = "minute"
    BY DEF ReserveMinute
  <1>2. begun.pc \in Begun /\ begun.from \in Users /\ begun.to \in Users
        /\ begun.relation \in Relations /\ begun.week \in 0..MaxWeek
    BY <1>1, Parties DEF Begun, TypeOK
  <1>3. begun \in SendStates
    BY <1>2 DEF SendStates, Begun
  <1>4. CASE Refuse(r) /\ UNCHANGED recent
    BY <1>1, <1>4, Refusal, FieldsGiven DEF Refuse
  <1>5. CASE send' = [send EXCEPT ![r] = begun] /\ recent' = recent \cup {r}
    <2> HIDE DEF begun
    <2>1. send' \in [Sends -> SendStates] /\ send'[r] = begun
          /\ \A s \in Sends \ {r} : send'[s] = send[s]
      BY <1>3, <1>5, FieldsGiven
    <2> QED
      BY <1>1, <1>5, <2>1 DEF begun
  <1> QED
    BY <1>4, <1>5 DEF ReserveMinute

LEMMA QuotaTyped ==
  ASSUME TypeOK, NEW u \in Users, NEW v \in Users, NEW n \in 0..OneWayLimit, SetQuota(u, v, n)
  PROVE  /\ quota' \in [Users -> [Users -> 0..OneWayLimit]]
         /\ quota'[u][v] = n
         /\ \A x, y \in Users : <<x, y>> # <<u, v>> => quota'[x][y] = quota[x][y]
  <1> DEFINE row == [quota[u] EXCEPT ![v] = n]
  <1>1. quota \in [Users -> [Users -> 0..OneWayLimit]]
    BY DEF TypeOK
  <1>2. row \in [Users -> 0..OneWayLimit] /\ row[v] = n
        /\ \A y \in Users : y # v => row[y] = quota[u][y]
    BY <1>1
  <1>3. quota' = [quota EXCEPT ![u] = row]
    BY DEF SetQuota
  <1> HIDE DEF row
  <1>4. quota' \in [Users -> [Users -> 0..OneWayLimit]] /\ quota'[u] = row
        /\ \A x \in Users : x # u => quota'[x] = quota[x]
    BY <1>1, <1>2, <1>3
  <1>5. quota'[u][v] = n
    BY <1>2, <1>4
  <1>6. ASSUME NEW x \in Users, NEW y \in Users, <<x, y>> # <<u, v>>
        PROVE  quota'[x][y] = quota[x][y]
    <2>1. CASE x # u
      BY <1>4, <2>1
    <2>2. CASE x = u /\ y # v
      BY <1>2, <1>4, <2>2
    <2> QED
      BY <1>6, <2>1, <2>2
  <1> QED
    BY <1>4, <1>5, <1>6

LEMMA QuotaIsNat ==
  TypeOK => \A u, v \in Users : quota[u][v] \in Nat /\ quota[u][v] <= OneWayLimit
  BY ChatAssumption DEF TypeOK, ChatAssumption

\* What the steps that only take or give back places do.
ReserveSteps(r) ==
  \/ ReserveMinute(r) \/ ReserveWeek(r) \/ ToChatFails(r) \/ Commit(r)
  \/ RollbackWeek(r) \/ RollbackMinute(r) \/ RedisFails(r) \/ SendCrashes(r)

\* The steps of a send between its reservations and its end.
LEMMA SendMoves ==
  ASSUME TypeOK, NEW r \in Sends,
         ReserveWeek(r) \/ ToChat(r) \/ ToChatFails(r) \/ Commit(r) \/ RollbackWeek(r)
           \/ RollbackMinute(r) \/ RedisFails(r) \/ SendCrashes(r)
  PROVE  /\ send' \in [Sends -> SendStates]
         /\ \E p, q \in Begun : Moves(r, p, q)
  <1>1. send[r].pc \in Begun /\ \E q \in Begun : Go(r, q)
    BY Zenon DEF ReserveWeek, ToChat, ToChatFails, Commit, RollbackWeek, RollbackMinute,
                 RedisFails, SendCrashes, Begun
  <1> QED
    BY <1>1, Goes

\* Each changes the place in the quota of at most its own direction.
LEMMA QuotaSteps ==
  ASSUME TypeOK, NEW r \in Sends, ReserveSteps(r)
  PROVE  quota' \in [Users -> [Users -> 0..OneWayLimit]]
  <1>1. quota \in [Users -> [Users -> 0..OneWayLimit]]
    BY DEF TypeOK
  <1>2. CASE UNCHANGED quota
    BY <1>1, <1>2
  <1>3. ASSUME send[r].pc \notin {"idle", "refused"}, NEW n \in 0..OneWayLimit,
               \/ SetQuota(Sender(r), Receiver(r), n)
               \/ SetQuota(Receiver(r), Sender(r), n)
        PROVE  quota' \in [Users -> [Users -> 0..OneWayLimit]]
    BY <1>3, Parties, QuotaTyped
  <1>4. CASE ReserveWeek(r) /\ ~UNCHANGED quota
    <2> DEFINE used == quota[Sender(r)][Receiver(r)]
    <2>1. send[r].pc = "week" /\ used < Limit(r) /\ SetQuota(Sender(r), Receiver(r), used + 1)
      BY <1>4 DEF ReserveWeek
    <2>2. used \in Nat
      BY <2>1, Parties, QuotaIsNat
    <2>3. used + 1 \in 0..OneWayLimit
      BY <2>1, <2>2, ChatAssumption DEF Limit, ChatAssumption
    <2> HIDE DEF used
    <2> QED
      BY <1>3, <2>1, <2>3
  <1>5. CASE Commit(r) /\ ~UNCHANGED quota
    <2>1. send[r].pc = "commit" /\ SetQuota(Receiver(r), Sender(r), 0)
      BY <1>5 DEF Commit
    <2>2. 0 \in 0..OneWayLimit
      BY ChatAssumption DEF ChatAssumption
    <2> QED
      BY <1>3, <2>1, <2>2
  <1>6. CASE RollbackWeek(r) /\ ~UNCHANGED quota
    <2> DEFINE used == quota[Sender(r)][Receiver(r)]
    <2>1. send[r].pc = "undoWeek" /\ used > 0 /\ SetQuota(Sender(r), Receiver(r), used - 1)
      BY <1>6 DEF RollbackWeek
    <2>2. used \in Nat /\ used <= OneWayLimit
      BY <2>1, Parties, QuotaIsNat
    <2>3. used - 1 \in 0..OneWayLimit
      BY <2>1, <2>2, ChatAssumption DEF ChatAssumption
    <2> HIDE DEF used
    <2> QED
      BY <1>3, <2>1, <2>3
  <1>7. CASE ReserveMinute(r) \/ ToChatFails(r) \/ RollbackMinute(r) \/ RedisFails(r) \/ SendCrashes(r)
    BY <1>2, <1>7 DEF ReserveMinute, ToChatFails, RollbackMinute, RedisFails, SendCrashes, limitVars
  <1> QED
    BY <1>2, <1>4, <1>5, <1>6, <1>7 DEF ReserveSteps

LEMMA ReserveStepsTyped ==
  ASSUME Typed, NEW r \in Sends, ReserveSteps(r)
  PROVE  Typed'
  <1>1. TypeOK
    BY DEF Typed
  <1>2. send' \in [Sends -> SendStates]
    BY <1>1, SendMoves, ReserveMinuteTyped DEF ReserveSteps
  <1>3. UNCHANGED <<followVars, week, tableVars, act>>
    BY DEF ReserveSteps, ReserveMinute, ReserveWeek, ToChatFails, Commit, RollbackWeek,
           RollbackMinute, RedisFails, SendCrashes, limitVars
  <1>4. recent' \subseteq Sends /\ faults' \subseteq {"crash", "redis"}
    BY <1>1 DEF ReserveSteps, ReserveMinute, ReserveWeek, ToChatFails, Commit, RollbackWeek,
           RollbackMinute, RedisFails, SendCrashes, limitVars, TypeOK
  <1> QED
    BY <1>1, <1>2, <1>3, <1>4, QuotaSteps, SameTable DEF Typed, TypeOK, followVars

\* A longer table has room for the rows and requests of a shorter one.
LEMMA LongerTable ==
  ASSUME Typed, msgs' \in Seq([from : Users, to : Users, read : BOOLEAN]), Len(msgs) <= Len(msgs')
  PROVE  /\ \A row \in Rows : row \in Rows'
         /\ \A s \in ActStates : s \in ActStates'
  <1>1. Len(msgs) \in Nat /\ Len(msgs') \in Nat /\ DOMAIN msgs = 1..Len(msgs)
        /\ DOMAIN msgs' = 1..Len(msgs')
    BY DEF Typed, TypeOK
  <1>2. DOMAIN msgs \subseteq DOMAIN msgs' /\ 0..Len(msgs) \subseteq 0..Len(msgs')
    BY <1>1
  <1> QED
    BY <1>2 DEF Rows, ActStates

LEMMA RevivedTyped ==
  ASSUME NEW row \in Rows
  PROVE  /\ Revived(row) \in Rows /\ Counted(row) \in Rows
         /\ Revived(row).clear = row.clear /\ Counted(row).clear = row.clear
         /\ Revived(row).state = "live" /\ Counted(row).state = "live"
         /\ Revived(row).unread = IF row.state = "deleted" THEN 0 ELSE row.unread
         /\ Counted(row).unread = Revived(row).unread + 1
  <1>1. /\ Revived(row) \in Rows
        /\ Revived(row).clear = row.clear /\ Revived(row).state = "live"
        /\ Revived(row).unread = IF row.state = "deleted" THEN 0 ELSE row.unread
    BY DEF Revived, Rows
  <1> QED
    BY <1>1 DEF Counted, Rows

\* A send stores its message and touches the two rows of its direction.
LEMMA ToChatDoes ==
  ASSUME TypeOK, NEW r \in Sends, ToChat(r), NEW x, x = Sender(r), NEW y, y = Receiver(r)
  PROVE  /\ x \in Users /\ y \in Users
         /\ msgs' = Append(msgs, [from |-> x, to |-> y, read |-> FALSE])
         /\ session' \in [Users -> [Users -> Rows]]
         /\ session'[x][y] = Revived(session[x][y])
         /\ x # y => session'[y][x] = Counted(session[y][x])
         /\ \A u, v \in Users : <<u, v>> \notin {<<x, y>>, <<y, x>>} => session'[u][v] = session[u][v]
  <1>1. x \in Users /\ y \in Users
    BY Parties DEF ToChat
  <1>2. session \in [Users -> [Users -> Rows]]
    BY DEF TypeOK
  <1> DEFINE rowX == [session[x] EXCEPT ![y] = Revived(session[x][y])]
             own  == [session EXCEPT ![x] = rowX]
             rowY == [own[y] EXCEPT ![x] = Counted(own[y][x])]
  <1>3. session' = IF x = y THEN own ELSE [own EXCEPT ![y] = rowY]
    BY DEF ToChat
  <1>4. Revived(session[x][y]) \in Rows
    BY <1>1, <1>2, RevivedTyped
  <1>5. rowX \in [Users -> Rows] /\ rowX[y] = Revived(session[x][y])
        /\ \A v \in Users \ {y} : rowX[v] = session[x][v]
    BY <1>1, <1>2, <1>4
  <1>6. own \in [Users -> [Users -> Rows]] /\ own[x] = rowX
        /\ \A u \in Users \ {x} : own[u] = session[u]
    <2> HIDE DEF rowX
    <2> QED
      BY <1>1, <1>2, <1>5
  <1>7. CASE x = y
    <2> HIDE DEF rowX, own
    <2>1. session' = own
      BY <1>3, <1>7
    <2> QED
      BY <1>1, <1>5, <1>6, <1>7, <2>1 DEF ToChat
  <1>8. CASE x # y
    <2>1. own[y] = session[y] /\ own[y][x] \in Rows
      BY <1>1, <1>2, <1>6, <1>8
    <2>2. Counted(own[y][x]) \in Rows
      BY <2>1, RevivedTyped
    <2>3. rowY \in [Users -> Rows] /\ rowY[x] = Counted(session[y][x])
          /\ \A v \in Users \ {x} : rowY[v] = session[y][v]
      <3> HIDE DEF own
      <3> QED
        BY <1>1, <1>2, <2>1, <2>2
    <2> HIDE DEF rowX, rowY, own
    <2>4. session' \in [Users -> [Users -> Rows]] /\ session'[y] = rowY
          /\ \A u \in Users \ {y} : session'[u] = own[u]
      BY <1>1, <1>3, <1>6, <1>8, <2>3
    <2>5. session'[x][y] = Revived(session[x][y]) /\ session'[y][x] = Counted(session[y][x])
      BY <1>1, <1>5, <1>6, <1>8, <2>3, <2>4
    <2>6. ASSUME NEW u \in Users, NEW v \in Users, <<u, v>> \notin {<<x, y>>, <<y, x>>}
          PROVE  session'[u][v] = session[u][v]
      <3>1. CASE u # x /\ u # y
        BY <1>6, <2>4, <3>1
      <3>2. CASE u = x /\ v # y
        BY <1>5, <1>6, <1>8, <2>4, <3>2
      <3>3. CASE u = y /\ v # x
        BY <2>3, <2>4, <3>3
      <3> QED
        BY <2>6, <3>1, <3>2, <3>3
    <2> QED
      BY <1>1, <2>4, <2>5, <2>6 DEF ToChat
  <1> QED
    BY <1>7, <1>8

\* In a table, and after one more message.
LEMMA MessageAdded ==
  ASSUME TypeOK, NEW m \in [from : Users, to : Users, read : BOOLEAN], msgs' = Append(msgs, m)
  PROVE  /\ msgs' \in Seq([from : Users, to : Users, read : BOOLEAN])
         /\ Len(msgs) \in Nat /\ Len(msgs') = Len(msgs) + 1
         /\ DOMAIN msgs = 1..Len(msgs) /\ DOMAIN msgs' = 1..(Len(msgs) + 1)
         /\ msgs'[Len(msgs) + 1] = m
         /\ \A i \in DOMAIN msgs : msgs'[i] = msgs[i]
  <1>1. msgs \in Seq([from : Users, to : Users, read : BOOLEAN])
    BY DEF TypeOK
  <1> QED
    BY <1>1

LEMMA ToChatTyped ==
  ASSUME Typed, NEW r \in Sends, ToChat(r)
  PROVE  Typed'
  <1>1. PICK x, y : x = Sender(r) /\ y = Receiver(r)
    OBVIOUS
  <1>2. TypeOK
    BY DEF Typed
  <1>3. /\ x \in Users /\ y \in Users
        /\ msgs' = Append(msgs, [from |-> x, to |-> y, read |-> FALSE])
        /\ session' \in [Users -> [Users -> Rows]]
    BY <1>1, <1>2, ToChatDoes
  <1>4. [from |-> x, to |-> y, read |-> FALSE] \in [from : Users, to : Users, read : BOOLEAN]
    BY <1>3
  <1>5. /\ msgs' \in Seq([from : Users, to : Users, read : BOOLEAN])
        /\ Len(msgs) \in Nat /\ Len(msgs') = Len(msgs) + 1
    BY <1>2, <1>3, <1>4, MessageAdded
  <1>6. (session \in [Users -> [Users -> Rows]])'
    BY <1>3, <1>5, LongerTable
  <1>7. act' = act
    BY DEF ToChat
  <1>8. (act \in [Acts -> ActStates])'
    <2>1. act \in [Acts -> ActStates]
      BY <1>2 DEF TypeOK
    <2>2. \A s \in ActStates : s \in ActStates'
      BY <1>5, LongerTable
    <2> QED
      BY <1>7, <2>1, <2>2
  <1>9. MarksInTable'
    <2> SUFFICES ASSUME NEW a \in Acts, act[a].pc \in {"max", "clear"}
                 PROVE  act[a].mark <= Len(msgs')
      BY <1>7 DEF MarksInTable
    <2>1. act[a].mark \in Nat
      BY <1>2 DEF TypeOK, ActStates
    <2>2. act[a].mark <= Len(msgs)
      BY DEF Typed, MarksInTable
    <2> QED
      BY <1>5, <2>1, <2>2
  <1>10. send' \in [Sends -> SendStates]
    BY <1>2, SendMoves
  <1>11. UNCHANGED <<follows, stats, week, quota, recent, faults>>
    BY DEF ToChat, limitVars, followVars
  <1> QED
    BY <1>2, <1>5, <1>6, <1>8, <1>9, <1>10, <1>11 DEF Typed, TypeOK

-----------------------------------------------------------------------------
(* Requests that read and clear.                                           *)

LEMMA ActParts ==
  ASSUME TypeOK, NEW a \in Acts
  PROVE  /\ act[a].pc \in {"idle", "done"} \cup Active
         /\ act[a].pc \in Active => act[a].user \in Users
         /\ act[a].pc = "read" => act[a].ids \subseteq DOMAIN msgs
         /\ act[a].pc \in {"max", "clear"} => act[a].peer \in Users /\ act[a].mark \in Nat
  BY DEF TypeOK, ActStates, Active

LEMMA ActGoes ==
  ASSUME TypeOK, NEW a \in Acts, NEW new \in ActStates, ActGo(a, new)
  PROVE  /\ act' \in [Acts -> ActStates]
         /\ act'[a] = new
         /\ \A b \in Acts \ {a} : act'[b] = act[b]
  BY DEF TypeOK, ActGo

LEMMA DoneTyped == [pc |-> "done"] \in ActStates
  BY DEF ActStates

\* The two that look something up.
LEMMA FindDoes ==
  ASSUME TypeOK, NEW a \in Acts, NEW u \in Users, ReadFind(a, u)
  PROVE  \E ids \in SUBSET Unread(u) :
           /\ act' \in [Acts -> ActStates]
           /\ act'[a] = [pc |-> "read", user |-> u, ids |-> ids]
           /\ \A b \in Acts \ {a} : act'[b] = act[b]
  <1>1. PICK ids \in SUBSET Unread(u) : ActGo(a, [pc |-> "read", user |-> u, ids |-> ids])
    BY DEF ReadFind
  <1>2. [pc |-> "read", user |-> u, ids |-> ids] \in ActStates
    BY <1>1 DEF Unread, ActStates
  <1> QED
    BY <1>1, <1>2, ActGoes

LEMMA ClearFindDoes ==
  ASSUME TypeOK, NEW a \in Acts, NEW u \in Users, NEW v \in Users, ClearFind(a, u, v)
  PROVE  /\ act' \in [Acts -> ActStates]
         /\ act'[a] = [pc |-> "max", user |-> u, peer |-> v, mark |-> session[u][v].clear]
         /\ \A b \in Acts \ {a} : act'[b] = act[b]
  <1>1. session[u][v].clear \in Nat
    BY DEF TypeOK, Rows
  <1>2. [pc |-> "max", user |-> u, peer |-> v, mark |-> session[u][v].clear] \in ActStates
    BY <1>1 DEF ActStates
  <1> QED
    BY <1>2, ActGoes DEF ClearFind

LEMMA ClearMaxDoes ==
  ASSUME Typed, NEW a \in Acts, ClearMax(a)
  PROVE  /\ act[a].pc = "max"
         /\ act' \in [Acts -> ActStates]
         /\ act'[a].pc = "clear"
         /\ act'[a].user = act[a].user /\ act'[a].peer = act[a].peer
         /\ act'[a].mark >= act[a].mark /\ act'[a].mark <= Len(msgs)
         /\ \A m \in Between(act[a].user, act[a].peer) : m <= act'[a].mark
         /\ \A b \in Acts \ {a} : act'[b] = act[b]
  <1>1. TypeOK
    BY DEF Typed
  <1>2. /\ act[a].pc = "max" /\ act[a].user \in Users /\ act[a].peer \in Users
        /\ act[a].mark \in Nat /\ act[a].mark <= Len(msgs)
        /\ act[a] \in [pc : {"max"}, user : Users, peer : Users, mark : Nat]
    BY <1>1 DEF ClearMax, Typed, MarksInTable, TypeOK, ActStates
  <1>3. PICK top \in Between(act[a].user, act[a].peer) \cup {act[a].mark} :
          /\ \A m \in Between(act[a].user, act[a].peer) \cup {act[a].mark} : m <= top
          /\ ActGo(a, [act[a] EXCEPT !.pc = "clear", !.mark = top])
    BY DEF ClearMax
  <1>4. DOMAIN msgs = 1..Len(msgs) /\ Len(msgs) \in Nat
    BY <1>1 DEF TypeOK
  <1>5. top \in Nat /\ top <= Len(msgs) /\ top >= act[a].mark
    BY <1>2, <1>3, <1>4 DEF Between
  <1> DEFINE new == [act[a] EXCEPT !.pc = "clear", !.mark = top]
  <1>6. /\ new \in ActStates /\ new.pc = "clear" /\ new.mark = top
        /\ new.user = act[a].user /\ new.peer = act[a].peer
    BY <1>2, <1>5 DEF ActStates
  <1>7. ActGo(a, new)
    BY <1>3
  <1> HIDE DEF new
  <1>8. act' \in [Acts -> ActStates] /\ act'[a] = new /\ \A b \in Acts \ {a} : act'[b] = act[b]
    BY <1>1, <1>6, <1>7, ActGoes
  <1> QED
    BY <1>2, <1>3, <1>5, <1>6, <1>8

\* ClearSession raises the watermark of a row that is live and deletes it.
LEMMA ClearSessionDoes ==
  ASSUME Typed, NEW a \in Acts, ClearSession(a), NEW u, u = act[a].user, NEW v, v = act[a].peer
  PROVE  /\ act[a].pc = "clear"
         /\ u \in Users /\ v \in Users
         /\ act' \in [Acts -> ActStates]
         /\ act'[a].pc = "done"
         /\ \A b \in Acts \ {a} : act'[b] = act[b]
         /\ session' \in [Users -> [Users -> Rows]]
         /\ session'[u][v] =
              IF session[u][v].state = "live"
              THEN [state |-> "deleted", unread |-> 0, clear |-> act[a].mark]
              ELSE session[u][v]
         /\ \A x, y \in Users : <<x, y>> # <<u, v>> => session'[x][y] = session[x][y]
  <1>1. TypeOK /\ act[a].pc = "clear"
    BY DEF Typed, ClearSession
  <1>2. u \in Users /\ v \in Users /\ act[a].mark \in Nat /\ act[a].mark <= Len(msgs)
    BY <1>1, ActParts DEF Active, Typed, MarksInTable
  <1>3. /\ act' \in [Acts -> ActStates]
        /\ act'[a].pc = "done"
        /\ \A b \in Acts \ {a} : act'[b] = act[b]
    BY <1>1, DoneTyped, ActGoes DEF ClearSession
  <1> DEFINE new == IF session[u][v].state = "live"
                    THEN [state |-> "deleted", unread |-> 0, clear |-> act[a].mark]
                    ELSE session[u][v]
             row == [session[u] EXCEPT ![v] = new]
  <1>4. session \in [Users -> [Users -> Rows]]
    BY <1>1 DEF TypeOK
  <1>5. Len(msgs) \in Nat
    BY <1>1 DEF TypeOK
  <1>6. new \in Rows
    BY <1>2, <1>4, <1>5 DEF Rows
  <1>7. session' = [session EXCEPT ![u] = row]
    BY DEF ClearSession
  <1> HIDE DEF new
  <1>8. row \in [Users -> Rows] /\ row[v] = new /\ \A y \in Users \ {v} : row[y] = session[u][y]
    BY <1>2, <1>4, <1>6
  <1> HIDE DEF row
  <1>9. session' \in [Users -> [Users -> Rows]] /\ session'[u] = row
        /\ \A x \in Users \ {u} : session'[x] = session[x]
    BY <1>2, <1>4, <1>7, <1>8
  <1>10. ASSUME NEW x \in Users, NEW y \in Users, <<x, y>> # <<u, v>>
         PROVE  session'[x][y] = session[x][y]
    <2>1. CASE x # u
      BY <1>9, <2>1
    <2>2. CASE x = u /\ y # v
      BY <1>8, <1>9, <2>2
    <2> QED
      BY <1>10, <2>1, <2>2
  <1>11. session'[u][v] = new
    BY <1>2, <1>8, <1>9
  <1> QED
    BY <1>1, <1>2, <1>3, <1>9, <1>10, <1>11 DEF new

\* The messages of v that request a marks.
MarkedFrom(a, v) == {m \in act[a].ids : msgs[m].from = v}

\* MarkRead marks its messages and lowers the counts by as many.
LEMMA MarkReadDoes ==
  ASSUME TypeOK, NEW a \in Acts, MarkRead(a)
  PROVE  /\ act[a].pc = "read"
         /\ act[a].user \in Users /\ act[a].ids \subseteq DOMAIN msgs
         /\ act' \in [Acts -> ActStates]
         /\ act'[a].pc = "done"
         /\ \A b \in Acts \ {a} : act'[b] = act[b]
         /\ DOMAIN msgs' = DOMAIN msgs /\ Len(msgs') = Len(msgs)
         /\ msgs' \in Seq([from : Users, to : Users, read : BOOLEAN])
         /\ \A m \in DOMAIN msgs :
              /\ msgs'[m].from = msgs[m].from /\ msgs'[m].to = msgs[m].to
              /\ msgs'[m].read <=> (msgs[m].read \/ m \in act[a].ids)
         /\ session' \in [Users -> [Users -> Rows]]
         /\ \A x, y \in Users :
              /\ session'[x][y].state = session[x][y].state
              /\ session'[x][y].clear = session[x][y].clear
              /\ x # act[a].user => session'[x][y] = session[x][y]
         /\ \A v \in Users :
              session'[act[a].user][v].unread =
                IF MarkedFrom(a, v) = {} THEN session[act[a].user][v].unread
                ELSE Lowered(session[act[a].user][v].unread, Cardinality(MarkedFrom(a, v)))
  <1>0. PICK u, ids : u = act[a].user /\ ids = act[a].ids
    OBVIOUS
  <1>1. /\ act[a].pc = "read" /\ u \in Users /\ ids \subseteq DOMAIN msgs
    BY <1>0, ActParts DEF MarkRead, Active
  <1>2. /\ act' \in [Acts -> ActStates]
        /\ act'[a].pc = "done"
        /\ \A b \in Acts \ {a} : act'[b] = act[b]
    BY DoneTyped, ActGoes DEF MarkRead
  <1> DEFINE Msg == [from : Users, to : Users, read : BOOLEAN]
             From(v) == {m \in ids : msgs[m].from = v}
             new(v) == IF From(v) = {} THEN session[u][v]
                       ELSE [session[u][v] EXCEPT !.unread = Lowered(@, Cardinality(From(v)))]
             row == [v \in Users |-> new(v)]
  <1>3. msgs' = [m \in DOMAIN msgs |-> [msgs[m] EXCEPT !.read = @ \/ m \in ids]]
    BY <1>0 DEF MarkRead
  <1>4. msgs \in Seq(Msg) /\ Len(msgs) \in Nat /\ DOMAIN msgs = 1..Len(msgs)
    BY DEF TypeOK
  <1>5. ASSUME NEW m \in DOMAIN msgs
        PROVE  /\ msgs'[m] \in Msg
               /\ msgs'[m].from = msgs[m].from /\ msgs'[m].to = msgs[m].to
               /\ msgs'[m].read <=> (msgs[m].read \/ m \in ids)
    <2>1. msgs[m] \in Msg
      <3> HIDE DEF Msg
      <3> QED
        BY <1>4
    <2>2. msgs'[m] = [msgs[m] EXCEPT !.read = (msgs[m].read \/ m \in ids)]
      BY <1>3
    <2>3. (msgs[m].read \/ m \in ids) \in BOOLEAN
      OBVIOUS
    <2> DEFINE r == (msgs[m].read \/ m \in ids)
    <2>4. r \in BOOLEAN /\ msgs'[m] = [msgs[m] EXCEPT !.read = r]
      BY <2>2, <2>3
    <2> HIDE DEF r
    <2>5. msgs'[m] \in Msg /\ msgs'[m].from = msgs[m].from /\ msgs'[m].to = msgs[m].to
          /\ msgs'[m].read = r
      BY <2>1, <2>4
    <2> QED
      BY <2>5 DEF r
  <1>6. DOMAIN msgs' = DOMAIN msgs
    BY <1>3
  <1>7. msgs' \in Seq(Msg) /\ Len(msgs') = Len(msgs)
    <2>1. msgs' = [m \in 1..Len(msgs) |-> msgs'[m]]
      BY <1>3, <1>4
    <2>2. \A m \in 1..Len(msgs) : msgs'[m] \in Msg
      BY <1>4, <1>5
    <2> HIDE DEF Msg
    <2>3. msgs' \in [1..Len(msgs) -> Msg]
      BY <2>1, <2>2
    <2> QED
      BY <1>4, <2>3
  <1>8. session \in [Users -> [Users -> Rows]]
    BY DEF TypeOK
  <1>9. ASSUME NEW v \in Users
        PROVE  /\ new(v) \in Rows
               /\ new(v).state = session[u][v].state /\ new(v).clear = session[u][v].clear
               /\ new(v).unread = IF From(v) = {} THEN session[u][v].unread
                                  ELSE Lowered(session[u][v].unread, Cardinality(From(v)))
    <2>1. session[u][v] \in Rows
      BY <1>1, <1>8
    <2>2. CASE From(v) = {}
      BY <2>1, <2>2
    <2>3. CASE From(v) # {}
      <3>1. From(v) \subseteq 1..Len(msgs)
        BY <1>1, <1>4
      <3> HIDE DEF From
      <3>2. IsFiniteSet(From(v)) /\ Cardinality(From(v)) \in Nat
        <4>1. IsFiniteSet(1..Len(msgs))
          BY <1>4, FS_Interval
        <4> QED
          BY <3>1, <4>1, FS_Subset, FS_CardinalityType
      <3> DEFINE low == Lowered(session[u][v].unread, Cardinality(From(v)))
      <3>3. low \in Nat
        BY <2>1, <3>2 DEF Lowered, Rows
      <3>4. new(v) = [session[u][v] EXCEPT !.unread = low]
        BY <2>3
      <3> HIDE DEF low, new
      <3>5. new(v) \in Rows /\ new(v).state = session[u][v].state
            /\ new(v).clear = session[u][v].clear /\ new(v).unread = low
        BY <2>1, <3>3, <3>4 DEF Rows
      <3> QED
        BY <2>3, <3>5 DEF low
    <2> QED
      BY <2>2, <2>3
  <1>10. session' = [session EXCEPT ![u] = row]
    BY <1>0 DEF MarkRead
  <1> HIDE DEF new
  <1>11. row \in [Users -> Rows] /\ \A v \in Users : row[v] = new(v)
    BY <1>9
  <1> HIDE DEF row
  <1>12. session' \in [Users -> [Users -> Rows]] /\ session'[u] = row
         /\ \A x \in Users \ {u} : session'[x] = session[x]
    BY <1>1, <1>8, <1>10, <1>11
  <1>13. ASSUME NEW x \in Users, NEW y \in Users
         PROVE  /\ session'[x][y].state = session[x][y].state
                /\ session'[x][y].clear = session[x][y].clear
                /\ x # u => session'[x][y] = session[x][y]
    <2>1. CASE x # u
      BY <1>12, <2>1
    <2>2. CASE x = u
      <3>1. session'[x][y] = new(y)
        BY <1>11, <1>12, <2>2
      <3>2. new(y).state = session[u][y].state /\ new(y).clear = session[u][y].clear
        BY <1>9, Zenon
      <3> QED
        BY <2>2, <3>1, <3>2
    <2> QED
      BY <2>1, <2>2
  <1>14. ASSUME NEW v \in Users
         PROVE  session'[u][v].unread =
                  IF From(v) = {} THEN session[u][v].unread
                  ELSE Lowered(session[u][v].unread, Cardinality(From(v)))
    <2>1. session'[u][v] = new(v)
      BY <1>11, <1>12
    <2> QED
      BY <1>9, <2>1, Zenon
  <1>15. \A v : From(v) = MarkedFrom(a, v)
    BY <1>0 DEF MarkedFrom
  <1> HIDE DEF From
  <1>16. ASSUME NEW v \in Users
         PROVE  session'[u][v].unread =
                  IF MarkedFrom(a, v) = {} THEN session[u][v].unread
                  ELSE Lowered(session[u][v].unread, Cardinality(MarkedFrom(a, v)))
    BY <1>14, <1>15, Zenon
  <1> QED
    BY <1>0, <1>1, <1>2, <1>5, <1>6, <1>7, <1>12, <1>13, <1>16, Zenon

\* A step of a request.
LEMMA ActTyped ==
  ASSUME Typed, NEW a \in Acts, ActStep(a)
  PROVE  Typed'
  <1>1. TypeOK
    BY DEF Typed
  <1>2. UNCHANGED <<follows, stats, week, quota, recent, send, faults>>
    BY DEF ActStep, ReadFind, ClearFind, ClearMax, MarkRead, ClearSession, limitVars, followVars
  <1>3. ASSUME Len(msgs') = Len(msgs), DOMAIN msgs' = DOMAIN msgs
        PROVE  ActStates' = ActStates /\ Rows' = Rows
    BY <1>3 DEF ActStates, Rows
  <1>4. ASSUME NEW u \in Users, ReadFind(a, u)
        PROVE  Typed'
    <2>1. UNCHANGED <<msgs, session>>
      BY <1>4 DEF ReadFind, tableVars
    <2>2. act' \in [Acts -> ActStates] /\ act'[a].pc = "read" /\ \A b \in Acts \ {a} : act'[b] = act[b]
      <3>1. PICK ids \in SUBSET Unread(u) :
              /\ act' \in [Acts -> ActStates]
              /\ act'[a] = [pc |-> "read", user |-> u, ids |-> ids]
              /\ \A b \in Acts \ {a} : act'[b] = act[b]
        BY <1>1, <1>4, FindDoes, Zenon
      <3> QED
        BY <3>1
    <2>3. MarksInTable'
      BY <2>1, <2>2 DEF MarksInTable, Typed
    <2> QED
      BY <1>1, <1>2, <1>3, <2>1, <2>2, <2>3 DEF Typed, TypeOK
  <1>5. ASSUME NEW u \in Users, NEW v \in Users, ClearFind(a, u, v)
        PROVE  Typed'
    <2>1. UNCHANGED <<msgs, session>>
      BY <1>5 DEF ClearFind, tableVars
    <2>2. /\ act' \in [Acts -> ActStates] /\ act'[a].mark = session[u][v].clear
          /\ \A b \in Acts \ {a} : act'[b] = act[b]
      <3>1. /\ act' \in [Acts -> ActStates]
            /\ act'[a] = [pc |-> "max", user |-> u, peer |-> v, mark |-> session[u][v].clear]
            /\ \A b \in Acts \ {a} : act'[b] = act[b]
        BY <1>1, <1>5, ClearFindDoes, Zenon
      <3> QED
        BY <3>1
    <2>3. session[u][v].clear <= Len(msgs)
      <3>1. session[u][v] \in Rows /\ Len(msgs) \in Nat
        BY <1>1 DEF TypeOK
      <3> QED
        BY <3>1 DEF Rows
    <2>4. MarksInTable'
      BY <2>1, <2>2, <2>3 DEF MarksInTable, Typed
    <2> QED
      BY <1>1, <1>2, <1>3, <2>1, <2>2, <2>4 DEF Typed, TypeOK
  <1>6. CASE MarkRead(a)
    <2>1. /\ act' \in [Acts -> ActStates] /\ act'[a].pc = "done"
          /\ \A b \in Acts \ {a} : act'[b] = act[b]
          /\ DOMAIN msgs' = DOMAIN msgs /\ Len(msgs') = Len(msgs)
          /\ msgs' \in Seq([from : Users, to : Users, read : BOOLEAN])
          /\ session' \in [Users -> [Users -> Rows]]
      BY <1>1, <1>6, MarkReadDoes
    <2>2. MarksInTable'
      BY <2>1 DEF MarksInTable, Typed
    <2> QED
      BY <1>1, <1>2, <1>3, <2>1, <2>2 DEF Typed, TypeOK
  <1>7. CASE ClearMax(a)
    <2>1. UNCHANGED <<msgs, session>>
      BY <1>7 DEF ClearMax, tableVars
    <2>2. act' \in [Acts -> ActStates] /\ act'[a].mark <= Len(msgs)
          /\ \A b \in Acts \ {a} : act'[b] = act[b]
      BY <1>7, ClearMaxDoes
    <2>3. MarksInTable'
      BY <2>1, <2>2 DEF MarksInTable, Typed
    <2> QED
      BY <1>1, <1>2, <1>3, <2>1, <2>2, <2>3 DEF Typed, TypeOK
  <1>8. CASE ClearSession(a)
    <2>1. msgs' = msgs
      BY <1>8 DEF ClearSession
    <2>2. /\ act' \in [Acts -> ActStates] /\ act'[a].pc = "done"
          /\ \A b \in Acts \ {a} : act'[b] = act[b]
          /\ session' \in [Users -> [Users -> Rows]]
      BY <1>8, ClearSessionDoes
    <2>3. MarksInTable'
      BY <2>1, <2>2 DEF MarksInTable, Typed
    <2> QED
      BY <1>1, <1>2, <1>3, <2>1, <2>2, <2>3 DEF Typed, TypeOK
  <1> QED
    BY <1>4, <1>5, <1>6, <1>7, <1>8 DEF ActStep

LEMMA CheckRelationTyped ==
  ASSUME Typed, NEW r \in Sends, NEW u \in Users, NEW v \in Users, CheckRelation(r, u, v)
  PROVE  Typed'
  <1>1. UNCHANGED <<follows, stats, week, quota, recent, tableVars, act, faults>>
    BY DEF CheckRelation, followVars, limitVars
  <1>2. send' \in [Sends -> SendStates]
    BY CheckTyped DEF Typed
  <1> QED
    BY <1>1, <1>2, SameTable DEF Typed, TypeOK

LEMMA TimeTyped ==
  ASSUME Typed, NewWeek \/ \E r \in Sends : LeaveMinute(r)
  PROVE  Typed'
  <1>1. UNCHANGED <<follows, stats, tableVars, send, act, faults>>
    BY DEF NewWeek, LeaveMinute, followVars
  <1>2. recent' \subseteq Sends
    BY DEF NewWeek, LeaveMinute, Typed, TypeOK
  <1>3. week' \in 0..MaxWeek
    BY ChatAssumption DEF NewWeek, LeaveMinute, Typed, TypeOK, ChatAssumption
  <1>4. quota' \in [Users -> [Users -> 0..OneWayLimit]]
    <2>1. 0 \in 0..OneWayLimit
      BY ChatAssumption DEF ChatAssumption
    <2>2. quota' = quota \/ quota' = [u \in Users |-> [v \in Users |-> 0]]
      BY DEF NewWeek, LeaveMinute
    <2>3. quota \in [Users -> [Users -> 0..OneWayLimit]]
      BY DEF Typed, TypeOK
    <2> QED
      BY <2>1, <2>2, <2>3
  <1> QED
    BY <1>1, <1>2, <1>3, <1>4, SameTable DEF Typed, TypeOK

LEMMA TypedNext ==
  ASSUME Typed, [Next]_vars
  PROVE  Typed'
  <1>1. CASE UNCHANGED vars
    BY <1>1, SameTable DEF vars, Typed, TypeOK, followVars, limitVars
  <1>2. ASSUME NEW r \in Sends, SendStep(r)
        PROVE  Typed'
    BY <1>2, CheckRelationTyped, ReserveStepsTyped, ToChatTyped DEF SendStep, ReserveSteps
  <1> QED
    BY <1>1, <1>2, FollowTyped, ActTyped, TimeTyped DEF Next

(* Every variable has its type: in particular no watermark is beyond the     *)
(* last message, no quota beyond chatWeekQuotaLimit, and no unread count    *)
(* below 0.                                                                *)
THEOREM TypeCorrect == Spec => []TypeOK
  <1>1. Typed => TypeOK
    BY DEF Typed
  <1> QED
    BY <1>1, TypedInit, TypedNext, PTL DEF Spec

-----------------------------------------------------------------------------
(* The watermark: what a request has read is what the row still says, when  *)
(* its user has no other request.                                          *)

\* A step that is not one of a request leaves the requests alone.
Rests == act' = act /\ \A x, y \in Users : session'[x][y].clear = session[x][y].clear

LEMMA OthersRest ==
  ASSUME TypeOK, [Next]_vars
  PROVE  Rests \/ \E a \in Acts : ActStep(a)
  <1>1. ASSUME NEW r \in Sends, ToChat(r)
        PROVE  Rests
    <2>1. PICK x, y : x = Sender(r) /\ y = Receiver(r)
      OBVIOUS
    <2>2. /\ x \in Users /\ y \in Users
          /\ msgs' = Append(msgs, [from |-> x, to |-> y, read |-> FALSE])
          /\ session' \in [Users -> [Users -> Rows]]
          /\ session'[x][y] = Revived(session[x][y])
          /\ x # y => session'[y][x] = Counted(session[y][x])
          /\ \A u, v \in Users : <<u, v>> \notin {<<x, y>>, <<y, x>>} => session'[u][v] = session[u][v]
      <3>1. TypeOK /\ ToChat(r) /\ r \in Sends /\ x = Sender(r) /\ y = Receiver(r)
        BY <1>1, <2>1
      <3> QED
        BY <3>1, ToChatDoes
    <2>3. act' = act
      BY <1>1 DEF ToChat
    <2>4. ASSUME NEW u \in Users, NEW v \in Users
          PROVE  session'[u][v].clear = session[u][v].clear
      <3>1. session[u][v] \in Rows
        BY DEF TypeOK
      <3>2. /\ Revived(session[u][v]).clear = session[u][v].clear
            /\ Counted(session[u][v]).clear = session[u][v].clear
        BY <3>1, RevivedTyped
      <3> QED
        BY <2>2, <3>2
    <2> QED
      BY <2>3, <2>4 DEF Rests
  <1>2. ASSUME UNCHANGED <<session, act>>
        PROVE  Rests
    BY <1>2 DEF Rests
  <1>3. CASE UNCHANGED vars
    BY <1>2, <1>3 DEF vars, tableVars
  <1>4. ASSUME NEW r \in Sends, SendStep(r), ~ToChat(r)
        PROVE  Rests
    BY <1>2, <1>4 DEF SendStep, CheckRelation, ReserveMinute, ReserveWeek, ToChatFails, Commit,
                      RollbackWeek, RollbackMinute, RedisFails, SendCrashes, tableVars
  <1>5. CASE NewWeek \/ \E r \in Sends : LeaveMinute(r)
    BY <1>2, <1>5 DEF NewWeek, LeaveMinute, tableVars
  <1>6. CASE \E u, v \in Users : FollowUser(u, v) \/ UnfollowUser(u, v)
    BY <1>2, <1>6 DEF FollowUser, UnfollowUser, tableVars
  <1> QED
    BY <1>1, <1>3, <1>4, <1>5, <1>6 DEF Next

WatermarkInv == Typed /\ OneAtATime /\ MarkAhead

\* What each request does to its own record; the others keep theirs.
LEMMA ActOnly ==
  ASSUME Typed, NEW a \in Acts, ActStep(a)
  PROVE  /\ \A b \in Acts \ {a} : act'[b] = act[b]
         /\ \/ act[a].pc \in Active /\ act'[a].pc \in Active /\ act'[a].user = act[a].user
            \/ act'[a].pc = "done"
            \/ \E u \in Users : /\ Begins(a, u)
                                /\ act'[a].pc \in Active /\ act'[a].user = u
  <1>1. TypeOK
    BY DEF Typed
  <1>2. ASSUME NEW u \in Users, ReadFind(a, u)
        PROVE  /\ \A b \in Acts \ {a} : act'[b] = act[b]
               /\ Begins(a, u) /\ act'[a].pc \in Active /\ act'[a].user = u
    <2>1. PICK ids \in SUBSET Unread(u) :
            /\ act'[a] = [pc |-> "read", user |-> u, ids |-> ids]
            /\ \A b \in Acts \ {a} : act'[b] = act[b]
      BY <1>1, <1>2, FindDoes, Zenon
    <2> QED
      BY <1>2, <2>1 DEF ReadFind, Active
  <1>3. ASSUME NEW u \in Users, NEW v \in Users, ClearFind(a, u, v)
        PROVE  /\ \A b \in Acts \ {a} : act'[b] = act[b]
               /\ Begins(a, u) /\ act'[a].pc \in Active /\ act'[a].user = u
    <2>1. /\ act'[a] = [pc |-> "max", user |-> u, peer |-> v, mark |-> session[u][v].clear]
          /\ \A b \in Acts \ {a} : act'[b] = act[b]
      BY <1>1, <1>3, ClearFindDoes, Zenon
    <2> QED
      BY <1>3, <2>1 DEF ClearFind, Active
  <1>4. CASE MarkRead(a)
    BY <1>1, <1>4, MarkReadDoes
  <1>5. CASE ClearMax(a)
    BY <1>5, ClearMaxDoes DEF Active
  <1>6. CASE ClearSession(a)
    BY <1>6, ClearSessionDoes
  <1> QED
    BY <1>2, <1>3, <1>4, <1>5, <1>6 DEF ActStep

LEMMA OneAtATimeNext ==
  ASSUME Typed, OneAtATime, [Next]_vars
  PROVE  OneAtATime'
  <1>1. CASE Rests
    BY <1>1 DEF Rests, OneAtATime
  <1>2. ASSUME NEW a \in Acts, ActStep(a)
        PROVE  OneAtATime'
    <2>1. ASSUME act[a].pc \in Active, act'[a].pc \in Active, act'[a].user = act[a].user
          PROVE  OneAtATime'
      BY <1>2, <2>1, ActOnly DEF OneAtATime
    <2>2. CASE act'[a].pc = "done"
      BY <1>2, <2>2, ActOnly DEF OneAtATime, Active
    <2>3. ASSUME NEW u \in Users, Begins(a, u), act'[a].pc \in Active, act'[a].user = u
          PROVE  OneAtATime'
      <3>1. u \in OneTab => \A b \in Acts : act[b].pc \in Active => act[b].user # u
        BY <2>3 DEF Begins, Active
      <3> QED
        BY <1>2, <2>3, <3>1, ActOnly DEF OneAtATime
    <2> QED
      BY <1>2, <2>1, <2>2, <2>3, ActOnly
  <1> QED
    BY <1>1, <1>2, OthersRest DEF Typed

LEMMA ClearIsNat ==
  TypeOK => \A u, v \in Users : session[u][v].clear \in Nat /\ session[u][v].unread \in Nat
  <1> SUFFICES ASSUME TypeOK, NEW u \in Users, NEW v \in Users
               PROVE  session[u][v].clear \in Nat /\ session[u][v].unread \in Nat
    OBVIOUS
  <1>1. session[u][v] \in Rows /\ Len(msgs) \in Nat
    BY DEF TypeOK
  <1> QED
    BY <1>1 DEF Rows

LEMMA MarkAheadNext ==
  ASSUME Typed, OneAtATime, MarkAhead, [Next]_vars
  PROVE  MarkAhead'
  <1>1. TypeOK
    BY DEF Typed
  <1>2. CASE Rests
    BY <1>1, <1>2, ActParts DEF Rests, MarkAhead, Active
  <1>3. ASSUME NEW a \in Acts, ActStep(a)
        PROVE  MarkAhead'
    <2>1. \A b \in Acts \ {a} : act'[b] = act[b]
      BY <1>3, ActOnly
    <2>2. ASSUME NEW u \in Users, ReadFind(a, u)
          PROVE  MarkAhead'
      <3>1. PICK ids \in SUBSET Unread(u) : act'[a] = [pc |-> "read", user |-> u, ids |-> ids]
        BY <1>1, <2>2, FindDoes, Zenon
      <3>2. session' = session
        BY <2>2 DEF ReadFind, tableVars
      <3> QED
        BY <2>1, <3>1, <3>2 DEF MarkAhead
    <2>3. ASSUME NEW u \in Users, NEW v \in Users, ClearFind(a, u, v)
          PROVE  MarkAhead'
      <3>1. act'[a] = [pc |-> "max", user |-> u, peer |-> v, mark |-> session[u][v].clear]
        BY <1>1, <2>3, ClearFindDoes, Zenon
      <3>2. session' = session
        BY <2>3 DEF ClearFind, tableVars
      <3>3. session[u][v].clear \in Nat
        BY <1>1, ClearIsNat
      <3> QED
        BY <2>1, <3>1, <3>2, <3>3 DEF MarkAhead
    <2>4. CASE MarkRead(a)
      <3>1. act'[a].pc = "done"
            /\ \A x, y \in Users : session'[x][y].clear = session[x][y].clear
        BY <1>1, <2>4, MarkReadDoes
      <3> QED
        BY <1>1, <2>1, <3>1, ActParts DEF MarkAhead, Active
    <2>5. CASE ClearMax(a)
      <3>1. /\ act[a].pc = "max" /\ act'[a].user = act[a].user /\ act'[a].peer = act[a].peer
            /\ act'[a].mark >= act[a].mark /\ act[a].mark \in Nat
            /\ act[a].user \in Users /\ act[a].peer \in Users
            /\ act' \in [Acts -> ActStates] /\ act'[a].pc = "clear"
        BY <1>1, <2>5, ClearMaxDoes, ActParts DEF Active
      <3>2. session' = session /\ act'[a].mark \in Nat
        BY <2>5, <3>1 DEF ClearMax, tableVars, ActStates
      <3>3. session[act[a].user][act[a].peer].clear \in Nat
        BY <1>1, <3>1, ClearIsNat
      <3>4. act[a].user \in OneTab => act'[a].mark >= session[act[a].user][act[a].peer].clear
        BY <3>1, <3>2, <3>3 DEF MarkAhead
      <3> QED
        BY <2>1, <3>1, <3>2, <3>4 DEF MarkAhead
    <2>6. CASE ClearSession(a)
      <3>1. PICK u, v : u = act[a].user /\ v = act[a].peer
        OBVIOUS
      <3>2. /\ act[a].pc = "clear"
            /\ u \in Users /\ v \in Users
            /\ act' \in [Acts -> ActStates]
            /\ act'[a].pc = "done"
            /\ \A b \in Acts \ {a} : act'[b] = act[b]
            /\ session' \in [Users -> [Users -> Rows]]
            /\ session'[u][v] =
                 IF session[u][v].state = "live"
                 THEN [state |-> "deleted", unread |-> 0, clear |-> act[a].mark]
                 ELSE session[u][v]
            /\ \A x, y \in Users : <<x, y>> # <<u, v>> => session'[x][y] = session[x][y]
        BY <2>6, <3>1, ClearSessionDoes
      <3>3. ASSUME NEW b \in Acts, act'[b].pc \in {"max", "clear"}, act'[b].user \in OneTab
            PROVE  act'[b].mark >= session'[act'[b].user][act'[b].peer].clear
        <4>1. b # a /\ act'[b] = act[b] /\ act[b].pc \in Active
          BY <3>2, <3>3 DEF Active
        <4>2. act[b].user # u
          BY <3>1, <3>2, <3>3, <4>1 DEF OneAtATime, Active
        <4>3. act[b].user \in Users /\ act[b].peer \in Users
          BY <1>1, <3>3, <4>1, ActParts
        <4>4. session'[act[b].user][act[b].peer] = session[act[b].user][act[b].peer]
          BY <3>2, <4>2, <4>3
        <4> QED
          BY <3>3, <4>1, <4>4 DEF MarkAhead
      <3> QED
        BY <3>3 DEF MarkAhead
    <2> QED
      BY <1>3, <2>2, <2>3, <2>4, <2>5, <2>6 DEF ActStep
  <1> QED
    BY <1>1, <1>2, <1>3, OthersRest

LEMMA WatermarkStep ==
  ASSUME Typed, MarkAhead, [Next]_vars
  PROVE  \A u \in OneTab, v \in Users : session'[u][v].clear >= session[u][v].clear
  <1> SUFFICES ASSUME NEW u \in OneTab, NEW v \in Users
               PROVE  session'[u][v].clear >= session[u][v].clear
    OBVIOUS
  <1>1. TypeOK
    BY DEF Typed
  <1>2. u \in Users
    BY ChatAssumption DEF ChatAssumption
  <1>3. session[u][v].clear \in Nat
    BY <1>1, <1>2, ClearIsNat
  <1>4. ASSUME session'[u][v].clear = session[u][v].clear
        PROVE  session'[u][v].clear >= session[u][v].clear
    BY <1>3, <1>4
  <1>5. CASE Rests
    BY <1>2, <1>4, <1>5 DEF Rests
  <1>6. ASSUME NEW a \in Acts, ActStep(a)
        PROVE  session'[u][v].clear >= session[u][v].clear
    <2>1. CASE session' = session
      BY <1>4, <2>1
    <2>2. CASE MarkRead(a)
      <3>1. \A x, y \in Users : session'[x][y].clear = session[x][y].clear
        BY <1>1, <2>2, MarkReadDoes
      <3> QED
        BY <1>2, <1>4, <3>1
    <2>3. CASE ClearSession(a)
      <3>1. PICK x, y : x = act[a].user /\ y = act[a].peer
        OBVIOUS
      <3>2. /\ act[a].pc = "clear"
            /\ x \in Users /\ y \in Users
            /\ act' \in [Acts -> ActStates]
            /\ act'[a].pc = "done"
            /\ \A b \in Acts \ {a} : act'[b] = act[b]
            /\ session' \in [Users -> [Users -> Rows]]
            /\ session'[x][y] =
                 IF session[x][y].state = "live"
                 THEN [state |-> "deleted", unread |-> 0, clear |-> act[a].mark]
                 ELSE session[x][y]
            /\ \A p, q \in Users : <<p, q>> # <<x, y>> => session'[p][q] = session[p][q]
        BY <2>3, <3>1, ClearSessionDoes
      <3>3. CASE <<u, v>> # <<x, y>>
        BY <1>2, <1>4, <3>2, <3>3
      <3>4. CASE u = x /\ v = y
        <4>1. session'[u][v].clear = act[a].mark \/ session'[u][v] = session[u][v]
          BY <3>2, <3>4
        <4>2. act[a].mark >= session[u][v].clear
          BY <3>1, <3>2, <3>4 DEF MarkAhead
        <4> QED
          BY <1>3, <4>1, <4>2
      <3> QED
        BY <3>3, <3>4
    <2> QED
      BY <1>6, <2>1, <2>2, <2>3 DEF ActStep, ReadFind, ClearFind, ClearMax, tableVars
  <1> QED
    BY <1>1, <1>5, <1>6, OthersRest

LEMMA WatermarkInit == Init => OneAtATime /\ MarkAhead
  BY DEF Init, OneAtATime, MarkAhead, Active

(* ChatSessionDeleteUserView: what a user has cleared stays cleared, when   *)
(* the user clears in one tab: the largest message id it has looked up is  *)
(* at least the watermark that the row still has.                          *)
THEOREM ClearingIsFinal == Spec => ClearedStaysCleared
  <1>1. Init => WatermarkInv
    BY TypedInit, WatermarkInit DEF WatermarkInv
  <1>2. WatermarkInv /\ [Next]_vars => WatermarkInv'
    BY TypedNext, OneAtATimeNext, MarkAheadNext DEF WatermarkInv
  <1>3. WatermarkInv /\ [Next]_vars =>
          [\A u \in OneTab, v \in Users : session'[u][v].clear >= session[u][v].clear]_vars
    BY WatermarkStep DEF WatermarkInv
  <1> QED
    BY <1>1, <1>2, <1>3, PTL DEF Spec, ClearedStaysCleared

-----------------------------------------------------------------------------
(* Unread counts.                                                          *)

\* Messages stay in the table, with their users; a step that is not a
\* request's adds at most one, and no step but MarkRead reads any.
TableGrows ==
  /\ Len(msgs) \in Nat /\ DOMAIN msgs = 1..Len(msgs)
  /\ Len(msgs') \in Nat /\ DOMAIN msgs' = 1..Len(msgs') /\ Len(msgs) <= Len(msgs')
  /\ \A m \in DOMAIN msgs : msgs'[m].from = msgs[m].from /\ msgs'[m].to = msgs[m].to

\* The steps that change neither the messages nor the rows.
Quiet == UNCHANGED <<msgs, session>>

LEMMA NextKinds ==
  ASSUME [Next]_vars
  PROVE  \/ Quiet /\ act' = act
         \/ \E r \in Sends : ToChat(r) /\ act' = act
         \/ \E a \in Acts, u \in Users : ReadFind(a, u) /\ Quiet
         \/ \E a \in Acts, u, v \in Users : ClearFind(a, u, v) /\ Quiet
         \/ \E a \in Acts : ClearMax(a) /\ Quiet
         \/ \E a \in Acts : MarkRead(a)
         \/ \E a \in Acts : ClearSession(a) /\ msgs' = msgs
  <1>1. CASE UNCHANGED vars
    BY <1>1 DEF vars, tableVars, Quiet
  <1>2. CASE \E u, v \in Users : FollowUser(u, v) \/ UnfollowUser(u, v)
    BY <1>2 DEF FollowUser, UnfollowUser, tableVars, Quiet
  <1>3. CASE NewWeek \/ \E r \in Sends : LeaveMinute(r)
    BY <1>3 DEF NewWeek, LeaveMinute, tableVars, Quiet
  <1>4. ASSUME NEW r \in Sends, SendStep(r), ~ToChat(r)
        PROVE  Quiet /\ act' = act
    BY <1>4 DEF SendStep, CheckRelation, ReserveMinute, ReserveWeek, ToChatFails, Commit,
                RollbackWeek, RollbackMinute, RedisFails, SendCrashes, tableVars, Quiet
  <1>5. ASSUME NEW r \in Sends, ToChat(r)
        PROVE  act' = act
    BY <1>5 DEF ToChat
  <1>6. ASSUME NEW a \in Acts, NEW u \in Users, ReadFind(a, u)
        PROVE  Quiet
    BY <1>6 DEF ReadFind, tableVars, Quiet
  <1>7. ASSUME NEW a \in Acts, NEW u \in Users, NEW v \in Users, ClearFind(a, u, v)
        PROVE  Quiet
    BY <1>7 DEF ClearFind, tableVars, Quiet
  <1>8. ASSUME NEW a \in Acts, ClearMax(a)
        PROVE  Quiet
    BY <1>8 DEF ClearMax, tableVars, Quiet
  <1>9. ASSUME NEW a \in Acts, ClearSession(a)
        PROVE  msgs' = msgs
    BY <1>9 DEF ClearSession
  <1> QED
    BY <1>1, <1>2, <1>3, <1>4, <1>5, <1>6, <1>7, <1>8, <1>9, Zenon DEF Next, ActStep, SendStep

\* ToChat and MarkRead, as far as the table goes.
LEMMA ToChatAdds ==
  ASSUME TypeOK, NEW r \in Sends, ToChat(r)
  PROVE  /\ TableGrows
         /\ Len(msgs') = Len(msgs) + 1
         /\ \A m \in DOMAIN msgs : msgs'[m] = msgs[m]
         /\ msgs'[Len(msgs) + 1] = [from |-> Sender(r), to |-> Receiver(r), read |-> FALSE]
  <1>1. Sender(r) \in Users /\ Receiver(r) \in Users
    BY Parties DEF ToChat
  <1> DEFINE new == [from |-> Sender(r), to |-> Receiver(r), read |-> FALSE]
  <1>2. new \in [from : Users, to : Users, read : BOOLEAN]
    BY <1>1
  <1>3. msgs' = Append(msgs, new)
    BY DEF ToChat
  <1> HIDE DEF new
  <1>4. /\ Len(msgs) \in Nat /\ Len(msgs') = Len(msgs) + 1
        /\ DOMAIN msgs = 1..Len(msgs) /\ DOMAIN msgs' = 1..(Len(msgs) + 1)
        /\ msgs'[Len(msgs) + 1] = new
        /\ \A i \in DOMAIN msgs : msgs'[i] = msgs[i]
    BY <1>2, <1>3, MessageAdded
  <1>5. TableGrows
    BY <1>4 DEF TableGrows
  <1> QED
    BY <1>4, <1>5 DEF new

LEMMA TableLasts ==
  ASSUME TypeOK, [Next]_vars
  PROVE  TableGrows
  <1>1. Len(msgs) \in Nat /\ DOMAIN msgs = 1..Len(msgs)
    BY DEF TypeOK
  <1>2. CASE msgs' = msgs
    BY <1>1, <1>2 DEF TableGrows
  <1>3. CASE \E r \in Sends : ToChat(r)
    BY <1>3, ToChatAdds
  <1>4. CASE \E a \in Acts : MarkRead(a)
    <2>1. PICK a \in Acts : MarkRead(a)
      BY <1>4
    <2>2. /\ DOMAIN msgs' = DOMAIN msgs /\ Len(msgs') = Len(msgs)
          /\ \A m \in DOMAIN msgs : msgs'[m].from = msgs[m].from /\ msgs'[m].to = msgs[m].to
      BY <2>1, MarkReadDoes
    <2> QED
      BY <1>1, <2>2 DEF TableGrows
  <1> QED
    BY <1>2, <1>3, <1>4, NextKinds DEF Quiet

LEMMA ReadsOwnNext ==
  ASSUME Typed, ReadsOwn, [Next]_vars
  PROVE  ReadsOwn'
  <1>1. TypeOK
    BY DEF Typed
  <1>2. TableGrows
    BY <1>1, TableLasts
  <1>3. ASSUME NEW b \in Acts, act'[b] = act[b], act[b].pc = "read"
        PROVE  \A m \in act'[b].ids : msgs'[m].to = act'[b].user
    BY <1>1, <1>2, <1>3, ActParts DEF ReadsOwn, TableGrows, Active
  <1>4. CASE act' = act
    BY <1>3, <1>4 DEF ReadsOwn
  <1>5. ASSUME NEW a \in Acts, ActStep(a), act'[a].pc # "read"
        PROVE  ReadsOwn'
    BY <1>3, <1>5, ActOnly DEF ReadsOwn
  <1>6. ASSUME NEW a \in Acts, NEW u \in Users, ReadFind(a, u), Quiet
        PROVE  ReadsOwn'
    <2>1. PICK ids \in SUBSET Unread(u) :
            /\ act'[a] = [pc |-> "read", user |-> u, ids |-> ids]
            /\ \A b \in Acts \ {a} : act'[b] = act[b]
      BY <1>1, <1>6, FindDoes, Zenon
    <2>2. \A m \in ids : msgs'[m].to = u
      BY <1>6 DEF Quiet, Unread
    <2> QED
      BY <1>3, <2>1, <2>2 DEF ReadsOwn
  <1>7. ASSUME NEW a \in Acts, NEW u \in Users, NEW v \in Users, ClearFind(a, u, v)
        PROVE  act'[a].pc # "read"
    <2>1. act'[a] = [pc |-> "max", user |-> u, peer |-> v, mark |-> session[u][v].clear]
      BY <1>1, <1>7, ClearFindDoes, Zenon
    <2> QED
      BY <2>1
  <1>8. ASSUME NEW a \in Acts, ClearMax(a) \/ MarkRead(a) \/ ClearSession(a)
        PROVE  act'[a].pc # "read"
    BY <1>1, <1>8, ClearMaxDoes, MarkReadDoes, ClearSessionDoes
  <1> QED
    BY <1>4, <1>5, <1>6, <1>7, <1>8, NextKinds DEF ActStep

LEMMA StillUnreadNext ==
  ASSUME Typed, ReadsOwn, OneAtATime, StillUnread, [Next]_vars
  PROVE  StillUnread'
  <1>1. TypeOK
    BY DEF Typed
  <1>4. ASSUME NEW b \in Acts, act'[b] = act[b], act[b].pc = "read", act[b].user \in OneTab,
               \A m \in act[b].ids : msgs'[m].read <=> msgs[m].read
        PROVE  \A m \in act'[b].ids : ~msgs'[m].read
    BY <1>4 DEF StillUnread
  <1>5. ASSUME act' = act, \A m \in DOMAIN msgs : msgs'[m] = msgs[m]
        PROVE  StillUnread'
    BY <1>1, <1>4, <1>5, ActParts DEF StillUnread, Active
  <1>6. ASSUME NEW a \in Acts, \A b \in Acts \ {a} : act'[b] = act[b], act'[a].pc # "read",
               msgs' = msgs
        PROVE  StillUnread'
    BY <1>4, <1>6 DEF StillUnread
  <1>7. ASSUME NEW a \in Acts, NEW u \in Users, ReadFind(a, u), Quiet
        PROVE  StillUnread'
    <2>1. PICK ids \in SUBSET Unread(u) :
            /\ act'[a] = [pc |-> "read", user |-> u, ids |-> ids]
            /\ \A b \in Acts \ {a} : act'[b] = act[b]
      BY <1>1, <1>7, FindDoes, Zenon
    <2>2. \A m \in act'[a].ids : ~msgs'[m].read
      BY <1>7, <2>1 DEF Quiet, Unread
    <2>3. \A b \in Acts \ {a} : act'[b].pc = "read" /\ act'[b].user \in OneTab
            => \A m \in act'[b].ids : ~msgs'[m].read
      BY <1>4, <1>7, <2>1 DEF Quiet
    <2> QED
      BY <2>2, <2>3 DEF StillUnread
  <1>8. ASSUME NEW a \in Acts, MarkRead(a)
        PROVE  StillUnread'
    <2>1. PICK u, ids : u = act[a].user /\ ids = act[a].ids
      OBVIOUS
    <2>2. /\ act[a].pc = "read" /\ act'[a].pc = "done"
          /\ \A b \in Acts \ {a} : act'[b] = act[b]
          /\ \A m \in DOMAIN msgs : msgs'[m].read <=> (msgs[m].read \/ m \in ids)
      BY <1>1, <1>8, <2>1, MarkReadDoes
    <2>3. ASSUME NEW b \in Acts \ {a}, act[b].pc = "read", act[b].user \in OneTab,
                 NEW m \in act[b].ids
          PROVE  msgs'[m].read <=> msgs[m].read
      <3>1. act[b].user # u
        BY <2>1, <2>2, <2>3 DEF OneAtATime, Active
      <3>2. m \notin ids
        BY <2>1, <2>2, <2>3, <3>1 DEF ReadsOwn
      <3>3. m \in DOMAIN msgs
        BY <1>1, <2>3, ActParts
      <3> QED
        BY <2>2, <3>2, <3>3
    <2> QED
      BY <1>4, <2>2, <2>3 DEF StillUnread
  <1>9. ASSUME NEW a \in Acts, NEW u \in Users, NEW v \in Users, ClearFind(a, u, v), Quiet
        PROVE  StillUnread'
    <2>1. /\ act'[a] = [pc |-> "max", user |-> u, peer |-> v, mark |-> session[u][v].clear]
          /\ \A b \in Acts \ {a} : act'[b] = act[b]
      BY <1>1, <1>9, ClearFindDoes, Zenon
    <2> QED
      BY <1>6, <1>9, <2>1 DEF Quiet
  <1>10. ASSUME NEW a \in Acts, ClearMax(a), Quiet
         PROVE  StillUnread'
    BY <1>6, <1>10, ClearMaxDoes DEF Quiet
  <1>11. ASSUME NEW a \in Acts, ClearSession(a), msgs' = msgs
         PROVE  StillUnread'
    BY <1>6, <1>11, ClearSessionDoes
  <1>12. ASSUME NEW r \in Sends, ToChat(r), act' = act
         PROVE  StillUnread'
    BY <1>1, <1>5, <1>12, ToChatAdds
  <1>13. CASE Quiet /\ act' = act
    BY <1>5, <1>13 DEF Quiet
  <1> QED
    BY <1>7, <1>8, <1>9, <1>10, <1>11, <1>12, <1>13, NextKinds

LEMMA BetweenLasts ==
  ASSUME TypeOK, [Next]_vars, NEW u, NEW v
  PROVE  Between(u, v) \subseteq Between(u, v)'
  <1>1. TableGrows
    BY TableLasts
  <1>2. Between(u, v)' = {m \in DOMAIN msgs' : {msgs'[m].from, msgs'[m].to} = {u, v}}
    BY DEF Between
  <1> QED
    BY <1>1, <1>2 DEF Between, TableGrows

LiveRowsTalk == \A u, v \in Users : session[u][v].state = "live" => Between(u, v) # {}
DeletedRowsAreRead == \A u, v \in Users : session[u][v].state # "live" => session[u][v].unread = 0
ClearsSomething ==
  \A a \in Acts :
    /\ act[a].pc = "max" => Between(act[a].user, act[a].peer) # {}
    /\ act[a].pc = "clear" => act[a].mark > 0

LEMMA RowsParts == RowsHaveMessages <=> LiveRowsTalk /\ DeletedRowsAreRead /\ ClearsSomething
  BY DEF RowsHaveMessages, LiveRowsTalk, DeletedRowsAreRead, ClearsSomething

\* What ToChat does to each row.
LEMMA ToChatRows ==
  ASSUME TypeOK, NEW r \in Sends, ToChat(r), NEW u \in Users, NEW v \in Users
  PROVE  /\ session'[u][v].clear = session[u][v].clear
         /\ \/ session'[u][v] = session[u][v]
            \/ /\ session'[u][v].state = "live"
               /\ u = Sender(r) /\ v = Receiver(r)
               /\ session'[u][v] = Revived(session[u][v])
            \/ /\ session'[u][v].state = "live"
               /\ u = Receiver(r) /\ v = Sender(r) /\ u # v
               /\ session'[u][v] = Counted(session[u][v])
         /\ u = Receiver(r) /\ v = Sender(r) /\ u # v => session'[u][v] = Counted(session[u][v])
  <1>1. PICK x, y : x = Sender(r) /\ y = Receiver(r)
    OBVIOUS
  <1>2. /\ x \in Users /\ y \in Users
        /\ msgs' = Append(msgs, [from |-> x, to |-> y, read |-> FALSE])
        /\ session' \in [Users -> [Users -> Rows]]
        /\ session'[x][y] = Revived(session[x][y])
        /\ x # y => session'[y][x] = Counted(session[y][x])
        /\ \A p, q \in Users : <<p, q>> \notin {<<x, y>>, <<y, x>>} => session'[p][q] = session[p][q]
    BY <1>1, ToChatDoes
  <1>3. session[u][v] \in Rows
    BY DEF TypeOK
  <1>4. /\ Revived(session[u][v]).clear = session[u][v].clear
        /\ Counted(session[u][v]).clear = session[u][v].clear
        /\ Revived(session[u][v]).state = "live" /\ Counted(session[u][v]).state = "live"
    BY <1>3, RevivedTyped
  <1>5. CASE u = x /\ v = y
    BY <1>1, <1>2, <1>4, <1>5
  <1>6. CASE u = y /\ v = x /\ x # y
    BY <1>1, <1>2, <1>4, <1>6
  <1>7. CASE <<u, v>> \notin {<<x, y>>, <<y, x>>}
    BY <1>1, <1>2, <1>7
  <1> QED
    BY <1>5, <1>6, <1>7

\* What ClearSession and MarkRead do to each row.
LEMMA ClearedRows ==
  ASSUME Typed, NEW a \in Acts, ClearSession(a), NEW u \in Users, NEW v \in Users
  PROVE  \/ session'[u][v] = session[u][v]
         \/ /\ u = act[a].user /\ v = act[a].peer
            /\ session'[u][v] = [state |-> "deleted", unread |-> 0, clear |-> act[a].mark]
            /\ session'[u][v].state = "deleted" /\ session'[u][v].unread = 0
            /\ session'[u][v].clear = act[a].mark
  <1>1. PICK x, y : x = act[a].user /\ y = act[a].peer
    OBVIOUS
  <1>2. /\ act[a].pc = "clear"
        /\ x \in Users /\ y \in Users
        /\ act' \in [Acts -> ActStates]
        /\ act'[a].pc = "done"
        /\ \A b \in Acts \ {a} : act'[b] = act[b]
        /\ session' \in [Users -> [Users -> Rows]]
        /\ session'[x][y] =
             IF session[x][y].state = "live"
             THEN [state |-> "deleted", unread |-> 0, clear |-> act[a].mark]
             ELSE session[x][y]
        /\ \A p, q \in Users : <<p, q>> # <<x, y>> => session'[p][q] = session[p][q]
    BY <1>1, ClearSessionDoes
  <1> QED
    BY <1>1, <1>2

LEMMA ReadRows ==
  ASSUME TypeOK, NEW a \in Acts, MarkRead(a), NEW u \in Users, NEW v \in Users
  PROVE  /\ session'[u][v].state = session[u][v].state
         /\ session'[u][v].clear = session[u][v].clear
         /\ u # act[a].user => session'[u][v] = session[u][v]
         /\ u = act[a].user =>
              session'[u][v].unread =
                IF MarkedFrom(a, v) = {} THEN session[u][v].unread
                ELSE Lowered(session[u][v].unread, Cardinality(MarkedFrom(a, v)))
         /\ IsFiniteSet(MarkedFrom(a, v)) /\ Cardinality(MarkedFrom(a, v)) \in Nat
         /\ session[u][v].unread = 0 => session'[u][v].unread = 0
  <1>1. PICK w, ids : w = act[a].user /\ ids = act[a].ids
    OBVIOUS
  <1>2. w \in Users /\ ids \subseteq DOMAIN msgs
    BY <1>1, ActParts DEF MarkRead, Active
  <1>3. Len(msgs) \in Nat /\ DOMAIN msgs = 1..Len(msgs)
    BY DEF TypeOK
  <1>4. IsFiniteSet(MarkedFrom(a, v)) /\ Cardinality(MarkedFrom(a, v)) \in Nat
    <2>1. IsFiniteSet(1..Len(msgs))
      BY <1>3, FS_Interval
    <2>2. MarkedFrom(a, v) \subseteq 1..Len(msgs)
      BY <1>1, <1>2, <1>3 DEF MarkedFrom
    <2> QED
      BY <2>1, <2>2, FS_Subset, FS_CardinalityType
  <1>5. /\ session'[u][v].state = session[u][v].state
        /\ session'[u][v].clear = session[u][v].clear
        /\ u # act[a].user => session'[u][v] = session[u][v]
    BY MarkReadDoes
  <1>6. u = act[a].user =>
          session'[u][v].unread =
            IF MarkedFrom(a, v) = {} THEN session[u][v].unread
            ELSE Lowered(session[u][v].unread, Cardinality(MarkedFrom(a, v)))
    BY MarkReadDoes
  <1>7. MarkedFrom(a, v) # {} => Cardinality(MarkedFrom(a, v)) # 0
    BY <1>4, FS_EmptySet
  <1>8. session[u][v].unread = 0 => session'[u][v].unread = 0
    BY <1>4, <1>5, <1>6, <1>7 DEF Lowered
  <1> QED
    BY <1>4, <1>5, <1>6, <1>8

LEMMA RowsNext ==
  ASSUME Typed, RowsHaveMessages, [Next]_vars
  PROVE  RowsHaveMessages'
  <1>1. TypeOK /\ TableGrows /\ LiveRowsTalk /\ DeletedRowsAreRead /\ ClearsSomething
    BY TableLasts, RowsParts DEF Typed
  <1>2. ASSUME NEW u, NEW v, Between(u, v) # {}
        PROVE  Between(u, v)' # {}
    BY <1>1, <1>2, BetweenLasts
  <1>3. LiveRowsTalk'
    <2> SUFFICES ASSUME NEW u \in Users, NEW v \in Users, session'[u][v].state = "live"
                 PROVE  Between(u, v)' # {}
      BY DEF LiveRowsTalk
    <2>1. CASE session[u][v].state = "live"
      BY <1>1, <1>2, <2>1 DEF LiveRowsTalk
    <2>2. ASSUME NEW r \in Sends, ToChat(r)
          PROVE  Between(u, v)' # {}
      <3>1. CASE session'[u][v] = session[u][v]
        BY <2>1, <3>1
      <3>2. CASE {u, v} = {Sender(r), Receiver(r)}
        <4>1. Len(msgs) + 1 \in DOMAIN msgs' /\ msgs'[Len(msgs) + 1].from = Sender(r)
              /\ msgs'[Len(msgs) + 1].to = Receiver(r)
          <5>1. /\ Len(msgs') = Len(msgs) + 1
                /\ msgs'[Len(msgs) + 1] = [from |-> Sender(r), to |-> Receiver(r), read |-> FALSE]
            BY <1>1, <2>2, ToChatAdds, Zenon
          <5> QED
            BY <1>1, <5>1 DEF TableGrows
        <4>2. Between(u, v)' = {m \in DOMAIN msgs' : {msgs'[m].from, msgs'[m].to} = {u, v}}
          BY DEF Between
        <4> QED
          BY <3>2, <4>1, <4>2
      <3> QED
        BY <1>1, <2>2, <3>1, <3>2, ToChatRows
    <2>3. ASSUME NEW a \in Acts, MarkRead(a)
          PROVE  Between(u, v)' # {}
      <3>1. session'[u][v].state = session[u][v].state
        BY <1>1, <2>3, MarkReadDoes
      <3> QED
        BY <2>1, <3>1
    <2>4. ASSUME NEW a \in Acts, ClearSession(a)
          PROVE  Between(u, v)' # {}
      <3>1. session'[u][v] = session[u][v] \/ session'[u][v].state = "deleted"
        BY <2>4, ClearedRows
      <3> QED
        BY <2>1, <3>1
    <2>5. CASE session' = session
      BY <2>1, <2>5
    <2> QED
      BY <2>2, <2>3, <2>4, <2>5, NextKinds DEF Quiet
  <1>4. DeletedRowsAreRead'
    <2> SUFFICES ASSUME NEW u \in Users, NEW v \in Users, session'[u][v].state # "live"
                 PROVE  session'[u][v].unread = 0
      BY DEF DeletedRowsAreRead
    <2>1. CASE session'[u][v] = session[u][v]
      BY <1>1, <2>1 DEF DeletedRowsAreRead
    <2>2. ASSUME NEW r \in Sends, ToChat(r)
          PROVE  session'[u][v].unread = 0
      BY <1>1, <2>1, <2>2, ToChatRows
    <2>3. ASSUME NEW a \in Acts, MarkRead(a)
          PROVE  session'[u][v].unread = 0
      <3>1. session'[u][v].state = session[u][v].state
            /\ (session[u][v].unread = 0 => session'[u][v].unread = 0)
        BY <1>1, <2>3, ReadRows
      <3> QED
        BY <1>1, <3>1 DEF DeletedRowsAreRead
    <2>4. ASSUME NEW a \in Acts, ClearSession(a)
          PROVE  session'[u][v].unread = 0
      BY <2>1, <2>4, ClearedRows
    <2>5. CASE session' = session
      BY <2>1, <2>5
    <2> QED
      BY <2>2, <2>3, <2>4, <2>5, NextKinds DEF Quiet
  <1>5. ClearsSomething'
    <2> DEFINE Good(b) == /\ act[b].pc = "max" => Between(act[b].user, act[b].peer) # {}
                          /\ act[b].pc = "clear" => act[b].mark > 0
    <2>1. ASSUME NEW b \in Acts, act'[b] = act[b]
          PROVE  Good(b)'
      <3>1. PICK p, q : p = act[b].user /\ q = act[b].peer
        OBVIOUS
      <3>2. act[b].pc = "max" => Between(p, q)' # {}
        BY <1>1, <1>2, <3>1 DEF ClearsSomething
      <3>3. p = act'[b].user /\ q = act'[b].peer
        BY <2>1, <3>1
      <3>4. act'[b].pc = "max" => Between(act[b].user, act[b].peer)' # {}
        BY <2>1, <3>2, <3>3
      <3> QED
        BY <1>1, <2>1, <3>4 DEF ClearsSomething
    <2>2. ASSUME NEW a \in Acts, ActStep(a), Good(a)'
          PROVE  \A b \in Acts : Good(b)'
      <3> HIDE DEF Good
      <3> QED
        BY <2>1, <2>2, ActOnly
    <2>3. ASSUME NEW a \in Acts, NEW u \in Users, ReadFind(a, u)
          PROVE  Good(a)'
      <3>1. PICK ids \in SUBSET Unread(u) : act'[a] = [pc |-> "read", user |-> u, ids |-> ids]
        BY <1>1, <2>3, FindDoes, Zenon
      <3> QED
        BY <3>1
    <2>4. ASSUME NEW a \in Acts, NEW u \in Users, NEW v \in Users, ClearFind(a, u, v)
          PROVE  Good(a)'
      <3>1. act'[a] = [pc |-> "max", user |-> u, peer |-> v, mark |-> session[u][v].clear]
        BY <1>1, <2>4, ClearFindDoes, Zenon
      <3>2. act'[a].pc = "max" /\ act'[a].user = u /\ act'[a].peer = v
        BY <3>1
      <3>3. Between(u, v)' # {}
        BY <1>1, <1>2, <2>4 DEF ClearFind, LiveRowsTalk
      <3> QED
        BY <3>2, <3>3
    <2>5. ASSUME NEW a \in Acts, ClearMax(a)
          PROVE  Good(a)'
      <3>1. PICK p, q : p = act[a].user /\ q = act[a].peer
        OBVIOUS
      <3>2. /\ act[a].pc = "max" /\ act'[a].pc = "clear"
            /\ act'[a].mark \in Nat
            /\ \A m \in Between(p, q) : m <= act'[a].mark
        <4>1. /\ act[a].pc = "max" /\ act'[a].pc = "clear" /\ act' \in [Acts -> ActStates]
              /\ \A m \in Between(p, q) : m <= act'[a].mark
          BY <2>5, <3>1, ClearMaxDoes
        <4> QED
          BY <4>1 DEF ActStates
      <3>3. PICK m : m \in Between(p, q)
        BY <1>1, <3>1, <3>2 DEF ClearsSomething
      <3>4. m \in Nat /\ m > 0
        BY <1>1, <3>3 DEF Between, TableGrows
      <3> QED
        BY <3>2, <3>3, <3>4
    <2>6. ASSUME NEW a \in Acts, MarkRead(a) \/ ClearSession(a)
          PROVE  Good(a)'
      BY <1>1, <2>6, MarkReadDoes, ClearSessionDoes
    <2>7. ASSUME act' = act
          PROVE  \A b \in Acts : Good(b)'
      <3> HIDE DEF Good
      <3> QED
        BY <2>1, <2>7
    <2> HIDE DEF Good
    <2>8. \A b \in Acts : Good(b)'
      BY <2>2, <2>3, <2>4, <2>5, <2>6, <2>7, NextKinds DEF ActStep
    <2> QED
      BY <2>8 DEF Good, ClearsSomething
  <1> QED
    BY <1>3, <1>4, <1>5, RowsParts, PTL

\* The count of one row: never too large, and right in one tab.
CountRight(u, v) ==
  /\ session[u][v].unread <= Cardinality(Waiting(u, v))
  /\ u \in OneTab /\ session[u][v].clear = 0 => session[u][v].unread = Cardinality(Waiting(u, v))

LEMMA CountsRight == UnreadRight <=> \A u, v \in Users : CountRight(u, v)
  <1>1. OneTab \subseteq Users
    BY ChatAssumption DEF ChatAssumption
  <1> QED
    BY <1>1, Zenon DEF UnreadRight, UnreadNotOverstated, UnreadExact, CountRight

LEMMA WaitingParts ==
  ASSUME TypeOK, NEW u \in Users, NEW v \in Users
  PROVE  /\ \A m : m \in Waiting(u, v) <=>
              /\ m \in DOMAIN msgs /\ msgs[m].to = u /\ ~msgs[m].read
              /\ msgs[m].from = v /\ u # v /\ m > session[u][v].clear
         /\ IsFiniteSet(Waiting(u, v)) /\ Cardinality(Waiting(u, v)) \in Nat
  <1>1. \A m : m \in Waiting(u, v) <=>
          /\ m \in DOMAIN msgs /\ msgs[m].to = u /\ ~msgs[m].read
          /\ msgs[m].from = v /\ u # v /\ m > session[u][v].clear
    BY DEF Waiting, Unread
  <1>2. Len(msgs) \in Nat /\ DOMAIN msgs = 1..Len(msgs)
    BY DEF TypeOK
  <1>3. IsFiniteSet(1..Len(msgs)) /\ Waiting(u, v) \subseteq 1..Len(msgs)
    BY <1>1, <1>2, FS_Interval
  <1> QED
    BY <1>1, <1>3, FS_Subset, FS_CardinalityType

\* The same of the next state.
LEMMA WaitingNext ==
  ASSUME NEW u \in Users, NEW v \in Users
  PROVE  \A m : m \in Waiting(u, v)' <=>
              /\ m \in DOMAIN msgs' /\ msgs'[m].to = u /\ ~msgs'[m].read
              /\ msgs'[m].from = v /\ u # v /\ m > session'[u][v].clear
  BY DEF Waiting, Unread

LEMMA SameCount ==
  ASSUME NEW u \in Users, NEW v \in Users, CountRight(u, v), Waiting(u, v)' = Waiting(u, v),
         session'[u][v].unread = session[u][v].unread, session'[u][v].clear = session[u][v].clear
  PROVE  CountRight(u, v)'
  BY DEF CountRight

LEMMA ToChatCounts ==
  ASSUME Typed, DeletedRowsAreRead, NEW u \in Users, NEW v \in Users, CountRight(u, v),
         NEW r \in Sends, ToChat(r)
  PROVE  CountRight(u, v)'
  <1>1. TypeOK /\ session[u][v] \in Rows
    BY DEF Typed, TypeOK
  <1> DEFINE new == Len(msgs) + 1
  <1>2. /\ TableGrows
        /\ Len(msgs') = new
        /\ \A m \in DOMAIN msgs : msgs'[m] = msgs[m]
        /\ msgs'[new] = [from |-> Sender(r), to |-> Receiver(r), read |-> FALSE]
    BY <1>1, ToChatAdds, Zenon
  <1>3. /\ \A m : m \in DOMAIN msgs' <=> m \in DOMAIN msgs \/ m = new
        /\ new \notin DOMAIN msgs
    BY <1>2 DEF TableGrows
  <1>4. msgs'[new].from = Sender(r) /\ msgs'[new].to = Receiver(r) /\ msgs'[new].read = FALSE
    BY <1>2
  <1>5. new > session[u][v].clear
    BY <1>1, <1>2 DEF Rows, TableGrows
  <1>6. session'[u][v].clear = session[u][v].clear
    BY <1>1, ToChatRows
  <1>7. Revived(session[u][v]).unread = session[u][v].unread
        /\ Counted(session[u][v]).unread = session[u][v].unread + 1
    BY <1>1, RevivedTyped DEF DeletedRowsAreRead
  <1> HIDE DEF new
  <1>8. CASE u = Receiver(r) /\ v = Sender(r) /\ u # v
    <2>1. session'[u][v].unread = session[u][v].unread + 1
      BY <1>1, <1>7, <1>8, ToChatRows
    <2>2. new \notin Waiting(u, v)
      BY <1>1, <1>3, WaitingParts
    <2>3. \A m : m \in Waiting(u, v)' <=> m \in Waiting(u, v) \/ m = new
      BY <1>1, <1>2, <1>3, <1>4, <1>5, <1>6, <1>8, WaitingParts, WaitingNext
    <2>4. Waiting(u, v)' = Waiting(u, v) \cup {new}
      BY <2>3
    <2>5. Cardinality(Waiting(u, v) \cup {new}) = Cardinality(Waiting(u, v)) + 1
      BY <1>1, <2>2, WaitingParts, FS_AddElement
    <2>6. Cardinality(Waiting(u, v))' = Cardinality(Waiting(u, v)) + 1
      BY <2>4, <2>5
    <2>7. Cardinality(Waiting(u, v)) \in Nat /\ session[u][v].unread \in Nat
      BY <1>1, WaitingParts, ClearIsNat
    <2> QED
      BY <1>6, <2>1, <2>6, <2>7 DEF CountRight
  <1>9. CASE ~(u = Receiver(r) /\ v = Sender(r) /\ u # v)
    <2>1. session'[u][v].unread = session[u][v].unread
      BY <1>1, <1>7, <1>9, ToChatRows
    <2>2. \A m : m \in Waiting(u, v)' <=> m \in Waiting(u, v)
      BY <1>1, <1>2, <1>3, <1>4, <1>6, <1>9, WaitingParts, WaitingNext
    <2>3. Waiting(u, v)' = Waiting(u, v)
      BY <2>2
    <2> QED
      BY <1>6, <2>1, <2>3, SameCount
  <1> QED
    BY <1>8, <1>9

LEMMA MarkReadCounts ==
  ASSUME Typed, ReadsOwn, StillUnread, NEW u \in Users, NEW v \in Users, CountRight(u, v),
         NEW a \in Acts, MarkRead(a)
  PROVE  CountRight(u, v)'
  <1>1. TypeOK
    BY DEF Typed
  <1>2. PICK w, ids : w = act[a].user /\ ids = act[a].ids
    OBVIOUS
  <1>3. /\ act[a].pc = "read" /\ ids \subseteq DOMAIN msgs
        /\ DOMAIN msgs' = DOMAIN msgs
        /\ \A m \in DOMAIN msgs :
             /\ msgs'[m].from = msgs[m].from /\ msgs'[m].to = msgs[m].to
             /\ msgs'[m].read <=> (msgs[m].read \/ m \in ids)
    BY <1>1, <1>2, MarkReadDoes
  <1>4. \A m \in ids : msgs[m].to = w
    BY <1>2, <1>3 DEF ReadsOwn
  <1>5. session'[u][v].clear = session[u][v].clear
    BY <1>1, ReadRows
  <1>6. \A m : m \in Waiting(u, v)' <=> m \in Waiting(u, v) /\ m \notin ids
    BY <1>1, <1>3, <1>5, WaitingParts, WaitingNext
  <1>7. CASE u # w
    <2>1. \A m : m \in Waiting(u, v)' <=> m \in Waiting(u, v)
      BY <1>1, <1>4, <1>6, <1>7, WaitingParts
    <2>2. Waiting(u, v)' = Waiting(u, v)
      BY <2>1
    <2>3. session'[u][v] = session[u][v]
      BY <1>1, <1>2, <1>7, ReadRows
    <2> QED
      BY <2>2, <2>3, SameCount
  <1>8. CASE u = w
    <2> DEFINE W == Waiting(u, v)
               F == MarkedFrom(a, v)
    <2>1. /\ IsFiniteSet(W) /\ Cardinality(W) \in Nat
          /\ IsFiniteSet(F) /\ Cardinality(F) \in Nat
      BY <1>1, WaitingParts, ReadRows
    <2>2. session'[u][v].unread =
            IF F = {} THEN session[u][v].unread ELSE Lowered(session[u][v].unread, Cardinality(F))
      BY <1>1, <1>2, <1>8, ReadRows
    <2>3. \A m : m \in F <=> m \in ids /\ msgs[m].from = v
      BY <1>2 DEF MarkedFrom
    <2>4. \A m : m \in W => msgs[m].from = v
      BY <1>1, WaitingParts
    <2>5. Waiting(u, v)' = W \ F
      <3> HIDE DEF W, F
      <3>1. \A m : m \in Waiting(u, v)' <=> m \in W /\ m \notin ids
        BY <1>6 DEF W
      <3> QED
        BY <2>3, <2>4, <3>1
    <2>6. session[u][v].unread \in Nat
      BY <1>1, ClearIsNat
    <2>7. u \in OneTab /\ session[u][v].clear = 0 /\ u # v => F \subseteq W
      <3> SUFFICES ASSUME u \in OneTab, session[u][v].clear = 0, u # v, NEW m \in F
                   PROVE  m \in W
        OBVIOUS
      <3>1. m \in ids /\ msgs[m].from = v
        BY <2>3
      <3>2. m \in DOMAIN msgs /\ msgs[m].to = u
        BY <1>3, <1>4, <1>8, <3>1
      <3>3. ~msgs[m].read
        BY <1>2, <1>3, <1>8, <3>1 DEF StillUnread
      <3>4. m > session[u][v].clear
        BY <1>1, <3>2 DEF TypeOK
      <3> QED
        BY <1>1, <3>1, <3>2, <3>3, <3>4, WaitingParts
    <2>8. u = v => W = {}
      BY <1>1, WaitingParts
    <2>9. F = {} => Cardinality(F) = 0
      BY FS_EmptySet
    <2>10. W = {} => Cardinality(W) = 0
      BY FS_EmptySet
    <2>11. /\ session[u][v].unread <= Cardinality(W)
           /\ u \in OneTab /\ session[u][v].clear = 0 => session[u][v].unread = Cardinality(W)
      BY DEF CountRight
    <2>12. SUFFICES /\ session'[u][v].unread <= Cardinality(Waiting(u, v)')
                    /\ u \in OneTab /\ session'[u][v].clear = 0
                         => session'[u][v].unread = Cardinality(Waiting(u, v)')
      BY DEF CountRight
    <2> HIDE DEF W, F
    <2>13. /\ IsFiniteSet(W \cap F) /\ Cardinality(W \cap F) \in Nat
           /\ Cardinality(W \cap F) <= Cardinality(F) /\ Cardinality(W \cap F) <= Cardinality(W)
           /\ Cardinality(W \ F) = Cardinality(W) - Cardinality(W \cap F)
      <3>1. (W \cap F) \in SUBSET F /\ (W \cap F) \in SUBSET W
        OBVIOUS
      <3> QED
        BY <2>1, <3>1, FS_Subset, FS_Difference, FS_CardinalityType
    <2>14. F \subseteq W => W \cap F = F
      OBVIOUS
    <2>15. PICK n, k, w0, f, d :
             /\ n = session[u][v].unread /\ k = session'[u][v].unread
             /\ w0 = Cardinality(W) /\ f = Cardinality(F) /\ d = Cardinality(W \cap F)
      OBVIOUS
    <2>16. /\ n \in Nat /\ w0 \in Nat /\ f \in Nat /\ d \in Nat /\ d <= f /\ d <= w0 /\ n <= w0
           /\ (k = n /\ f = 0) \/ (k = IF n >= f THEN n - f ELSE 0)
      BY <2>1, <2>2, <2>6, <2>9, <2>11, <2>13, <2>15 DEF Lowered
    <2>17. Cardinality(Waiting(u, v)') = w0 - d
      BY <2>5, <2>13, <2>15
    <2>18. u \in OneTab /\ session[u][v].clear = 0 => n = w0 /\ (d = f \/ w0 = 0)
      BY <2>7, <2>8, <2>10, <2>11, <2>14, <2>15
    <2>19. k <= w0 - d /\ (n = w0 /\ (d = f \/ w0 = 0) => k = w0 - d)
      BY <2>16
    <2> QED
      BY <1>5, <2>15, <2>17, <2>18, <2>19
  <1> QED
    BY <1>7, <1>8

LEMMA ClearCounts ==
  ASSUME Typed, ClearsSomething, NEW u \in Users, NEW v \in Users, CountRight(u, v),
         NEW a \in Acts, ClearSession(a)
  PROVE  CountRight(u, v)'
  <1>1. TypeOK /\ Typed' /\ act[a].pc = "clear" /\ msgs' = msgs
    BY ActTyped DEF Typed, ActStep, ClearSession
  <1>2. TypeOK'
    BY <1>1 DEF Typed
  <1>3. CASE session'[u][v] = session[u][v]
    <2>1. Waiting(u, v)' = Waiting(u, v)
      BY <1>1, <1>3 DEF Waiting, Unread
    <2> QED
      BY <1>3, <2>1, SameCount
  <1>4. CASE session'[u][v].unread = 0 /\ session'[u][v].clear = act[a].mark
    <2>1. act[a].mark > 0 /\ act[a].mark \in Nat
      BY <1>1, ActParts DEF ClearsSomething, Active
    <2>2. Cardinality(Waiting(u, v)') \in Nat
      <3>1. Waiting(u, v)' \subseteq 1..Len(msgs)
        <4>1. DOMAIN msgs = 1..Len(msgs)
          BY <1>1 DEF TypeOK
        <4>2. \A m \in Waiting(u, v)' : m \in DOMAIN msgs
          BY <1>1, WaitingNext
        <4> QED
          BY <4>1, <4>2
      <3>2. IsFiniteSet(1..Len(msgs))
        BY <1>1, FS_Interval DEF TypeOK
      <3> QED
        BY <3>1, <3>2, FS_Subset, FS_CardinalityType
    <2> QED
      BY <1>4, <2>1, <2>2 DEF CountRight
  <1> QED
    BY <1>3, <1>4, ClearedRows

UnreadInv == Typed /\ ReadsInv /\ UnreadRight

LEMMA UnreadInit == Init => ReadsInv /\ UnreadRight
  <1> SUFFICES ASSUME Init PROVE ReadsInv /\ UnreadRight
    OBVIOUS
  <1>1. ReadsOwn /\ OneAtATime /\ StillUnread /\ MarkAhead
    BY DEF Init, ReadsOwn, OneAtATime, StillUnread, MarkAhead, Active
  <1>2. RowsHaveMessages
    BY DEF Init, RowsHaveMessages
  <1>3. ASSUME NEW u \in Users, NEW v \in Users
        PROVE  CountRight(u, v)
    <2>1. session[u][v].unread = 0 /\ session[u][v].clear = 0
      BY DEF Init
    <2>2. msgs = <<>>
      BY DEF Init
    <2>3. DOMAIN msgs = {}
      BY <2>2
    <2>4. Waiting(u, v) = {}
      BY <2>3 DEF Waiting, Unread
    <2> QED
      BY <2>1, <2>4, FS_EmptySet DEF CountRight
  <1> QED
    BY <1>1, <1>2, <1>3, CountsRight DEF ReadsInv

LEMMA UnreadNext ==
  ASSUME UnreadInv, [Next]_vars
  PROVE  UnreadInv'
  <1>1. Typed' /\ TypeOK
    BY TypedNext DEF UnreadInv, Typed
  <1>2. ReadsInv'
    BY <1>1, ReadsOwnNext, OneAtATimeNext, StillUnreadNext, MarkAheadNext, RowsNext
       DEF UnreadInv, ReadsInv
  <1>3. ASSUME NEW u \in Users, NEW v \in Users
        PROVE  CountRight(u, v)'
    <2>1. CountRight(u, v) /\ Typed /\ ReadsOwn /\ StillUnread /\ DeletedRowsAreRead /\ ClearsSomething
      BY CountsRight, RowsParts DEF UnreadInv, ReadsInv
    <2>2. CASE Quiet
      <3>1. Waiting(u, v)' = Waiting(u, v)
        BY <2>2 DEF Waiting, Unread, Quiet
      <3> QED
        BY <2>1, <2>2, <3>1, SameCount DEF Quiet
    <2> QED
      BY <2>1, <2>2, ToChatCounts, MarkReadCounts, ClearCounts, NextKinds
  <1>4. UnreadRight'
    <2>1. OneTab \subseteq Users
      BY ChatAssumption DEF ChatAssumption
    <2> QED
      BY <1>3, <2>1, Zenon DEF UnreadRight, UnreadNotOverstated, UnreadExact, CountRight
  <1> QED
    BY <1>1, <1>2, <1>4 DEF UnreadInv

(* decreaseChatSessionUnreadCount, ensureChatSessions and                  *)
(* clearChatSessions keep a session's unread count from exceeding the      *)
(* messages that wait, and it is their number as long as the session was   *)
(* never cleared and its user reads in one tab.                            *)
THEOREM UnreadCountsMessages == Spec => []UnreadRight
  <1>1. Init => UnreadInv
    BY TypedInit, UnreadInit DEF UnreadInv
  <1>2. UnreadInv /\ [Next]_vars => UnreadInv'
    BY UnreadNext
  <1>3. UnreadInv => UnreadRight
    BY DEF UnreadInv
  <1> QED
    BY <1>1, <1>2, <1>3, PTL DEF Spec

-----------------------------------------------------------------------------
(* Limits.                                                                 *)

LEMMA OfFinite ==
  ASSUME NEW u, NEW v, NEW R, NEW S
  PROVE  /\ Of(u, v, R, S) \subseteq Sends
         /\ IsFiniteSet(Of(u, v, R, S)) /\ Cardinality(Of(u, v, R, S)) \in Nat
  <1>1. Of(u, v, R, S) \subseteq Sends
    BY DEF Of
  <1>2. IsFiniteSet(Sends)
    BY ChatAssumption DEF ChatAssumption
  <1> QED
    BY <1>1, <1>2, FS_Subset, FS_CardinalityType

\* Which sends an Of names, in this state and the next.
Toward(r, u, v) == send[r].from = u /\ send[r].to = v /\ send[r].week = week

Member(r, u, v, R, S) ==
  send[r].pc \in S /\ Toward(r, u, v) /\ send[r].relation \in R

LEMMA OfMembers ==
  ASSUME NEW u, NEW v, NEW R, NEW S
  PROVE  /\ \A r : r \in Of(u, v, R, S) <=> r \in Sends /\ Member(r, u, v, R, S)
         /\ \A r : r \in Of(u, v, R, S)' <=> r \in Sends /\ Member(r, u, v, R, S)'
  BY DEF Of, Member, Toward, Sender, Receiver, ThisWeek

\* A set of sends after a step of send r: the others stay in or out.
LEMMA OfKept ==
  ASSUME NEW r \in Sends, NEW p, NEW q, NEW u, NEW v, NEW R, NEW S,
         Moves(r, p, q), week' = week
  PROVE  /\ \A s : s # r => (s \in Of(u, v, R, S)' <=> s \in Of(u, v, R, S))
         /\ r \in Of(u, v, R, S) <=> p \in S /\ Toward(r, u, v) /\ send[r].relation \in R
         /\ r \in Of(u, v, R, S)' <=> q \in S /\ Toward(r, u, v) /\ send[r].relation \in R
  <1>1. \A s \in Sends \ {r} : Member(s, u, v, R, S)' <=> Member(s, u, v, R, S)
    BY DEF Moves, Member, Toward
  <1>2. Member(r, u, v, R, S) <=> p \in S /\ Toward(r, u, v) /\ send[r].relation \in R
    BY DEF Moves, Member, Toward
  <1>3. Member(r, u, v, R, S)' <=> q \in S /\ Toward(r, u, v) /\ send[r].relation \in R
    BY DEF Moves, Member, Toward
  <1> QED
    BY <1>1, <1>2, <1>3, OfMembers

-----------------------------------------------------------------------------
\* One direction: what is booked, and what is lost.
BookedFor(u, v) ==
  /\ quota[u][v] <= Places(u, v)
  /\ Cardinality(Held(u, v)) <= Places(u, v) * Cardinality(Cleared(u, v)) + quota[u][v]

NoneLostFor(u, v) == faults = {} => quota[u][v] <= Cardinality(Held(u, v))

LEMMA Booking ==
  /\ Booked <=> \A u, v \in Users : BookedFor(u, v)
  /\ NoneLost <=> \A u, v \in Users : NoneLostFor(u, v)
  BY DEF Booked, BookedFor, NoneLost, NoneLostFor

LEMMA PlacesTyped ==
  ASSUME NEW u, NEW v
  PROVE  /\ Places(u, v) \in Nat /\ Places(u, v) <= OneWayLimit
         /\ Places(u, v) = StrangerLimit \/ Places(u, v) = OneWayLimit
         /\ Cardinality(Held(u, v)) \in Nat /\ Cardinality(Cleared(u, v)) \in Nat
  BY OfFinite, ChatAssumption DEF Places, Held, Cleared, ChatAssumption

LEMMA Product ==
  /\ \A p, q, c, d \in Nat : p <= q /\ c <= d => p * c <= q * d
  /\ \A p, c \in Nat : p * (c + 1) = p * c + p
  <1>1. \A p, q, c, d \in Nat : p <= q /\ c <= d => p * c <= q * d
    <2> SUFFICES ASSUME NEW p \in Nat, NEW q \in Nat, NEW c \in Nat, NEW d \in Nat,
                        p <= q, c <= d
                 PROVE  p * c <= q * d
      OBVIOUS
    <2>1. PICK i \in Nat : q = p + i
      <3>1. q - p \in Nat /\ q = p + (q - p)
        OBVIOUS
      <3> QED
        BY <3>1
    <2>2. PICK j \in Nat : d = c + j
      <3>1. d - c \in Nat /\ d = c + (d - c)
        OBVIOUS
      <3> QED
        BY <3>1
    <2>3. q * d = p * c + p * j + i * c + i * j
      BY <2>1, <2>2
    <2>4. p * j \in Nat /\ i * c \in Nat /\ i * j \in Nat /\ p * c \in Nat
      OBVIOUS
    <2> QED
      BY <2>3, <2>4
  <1>2. \A p, c \in Nat : p * (c + 1) = p * c + p
    OBVIOUS
  <1> QED
    BY <1>1, <1>2

\* What changes of a direction keeps it booked.
LEMMA BookingStep ==
  ASSUME TypeOK, NEW u \in Users, NEW v \in Users, BookedFor(u, v), NoneLostFor(u, v),
         quota'[u][v] \in Nat, Places(u, v) <= Places(u, v)',
         Cleared(u, v) \subseteq Cleared(u, v)',
         faults' = {} => faults = {}
  PROVE  /\ /\ quota'[u][v] = quota[u][v] /\ Held(u, v)' \subseteq Held(u, v)
            /\ faults' # {} \/ Held(u, v)' = Held(u, v)
            => BookedFor(u, v)' /\ NoneLostFor(u, v)'
         /\ /\ quota'[u][v] = quota[u][v] + 1 /\ quota'[u][v] <= Places(u, v)'
            /\ \E r : r \notin Held(u, v) /\ Held(u, v)' = Held(u, v) \cup {r}
            => BookedFor(u, v)' /\ NoneLostFor(u, v)'
         /\ /\ quota'[u][v] = quota[u][v] - 1
            /\ \E r : r \in Held(u, v) /\ Held(u, v)' = Held(u, v) \ {r}
            => BookedFor(u, v)' /\ NoneLostFor(u, v)'
         /\ /\ quota'[u][v] = 0
            /\ Held(u, v)' \subseteq Held(u, v)
            /\ quota[u][v] = 0 \/ \E r : r \notin Cleared(u, v) /\ r \in Cleared(u, v)'
            => BookedFor(u, v)' /\ NoneLostFor(u, v)'
  <1>1. quota[u][v] \in Nat /\ quota'[u][v] \in Nat
    BY QuotaIsNat
  <1>2. /\ IsFiniteSet(Held(u, v)) /\ Cardinality(Held(u, v)) \in Nat
        /\ IsFiniteSet(Cleared(u, v)) /\ Cardinality(Cleared(u, v)) \in Nat
        /\ Cleared(u, v)' \subseteq Sends /\ Held(u, v)' \subseteq Sends
    BY OfFinite, OfMembers DEF Held, Cleared
  <1>3. IsFiniteSet(Sends)
    BY ChatAssumption DEF ChatAssumption
  <1>4. /\ IsFiniteSet(Held(u, v)') /\ Cardinality(Held(u, v)') \in Nat
        /\ IsFiniteSet(Cleared(u, v)') /\ Cardinality(Cleared(u, v)') \in Nat
    BY <1>2, <1>3, FS_Subset, FS_CardinalityType
  <1>5. Places(u, v) \in Nat /\ Places(u, v)' \in Nat
    BY ChatAssumption DEF Places, ChatAssumption
  <1>6. Cardinality(Cleared(u, v)) <= Cardinality(Cleared(u, v)')
    BY <1>4, FS_Subset
  <1> DEFINE P == Places(u, v)
             C == Cardinality(Cleared(u, v))
             H == Cardinality(Held(u, v))
             Q == quota[u][v]
  <1>7. P * C \in Nat /\ P' * C' \in Nat /\ P * C <= P' * C'
    BY <1>2, <1>4, <1>5, <1>6, Product
  <1>8. Q <= P /\ H <= P * C + Q /\ (faults = {} => Q <= H)
    BY DEF BookedFor, NoneLostFor
  <1>9. ASSUME Q' <= P', H' <= P' * C' + Q', faults' = {} => Q' <= H'
        PROVE  BookedFor(u, v)' /\ NoneLostFor(u, v)'
    BY <1>9 DEF BookedFor, NoneLostFor
  <1>10. P \in Nat /\ P' \in Nat /\ C \in Nat /\ C' \in Nat /\ H \in Nat /\ H' \in Nat
         /\ Q \in Nat /\ Q' \in Nat /\ P <= P' /\ C <= C'
    BY <1>1, <1>2, <1>4, <1>5, <1>6
  <1>11. Held(u, v)' \subseteq Held(u, v) => H' <= H
    BY <1>2, FS_Subset
  <1>12. ASSUME NEW r, r \notin Held(u, v), Held(u, v)' = Held(u, v) \cup {r}
         PROVE  H' = H + 1
    BY <1>2, <1>12, FS_AddElement
  <1>13. ASSUME NEW r, r \in Held(u, v), Held(u, v)' = Held(u, v) \ {r}
         PROVE  H' = H - 1
    BY <1>2, <1>13, FS_RemoveElement
  <1>14. ASSUME NEW r, r \notin Cleared(u, v), r \in Cleared(u, v)'
         PROVE  C + 1 <= C'
    <2>1. Cardinality(Cleared(u, v) \cup {r}) = C + 1
      BY <1>2, <1>14, FS_AddElement
    <2>2. Cleared(u, v) \cup {r} \subseteq Cleared(u, v)'
      BY <1>14
    <2> QED
      BY <1>4, <2>1, <2>2, FS_Subset
  <1>15. Held(u, v)' = Held(u, v) => H' = H
    OBVIOUS
  <1> HIDE DEF P, C, H, Q
  <1>16. PICK x \in Nat, y \in Nat : x = P * C /\ y = P' * C'
    BY <1>7
  <1>17. x <= y /\ H <= x + Q
    BY <1>7, <1>8, <1>16
  <1>18. ASSUME Q' <= P', H' <= y + Q', faults' = {} => Q' <= H'
         PROVE  BookedFor(u, v)' /\ NoneLostFor(u, v)'
    BY <1>9, <1>16, <1>18
  <1>19. CASE /\ Q' = Q /\ Held(u, v)' \subseteq Held(u, v)
              /\ faults' # {} \/ Held(u, v)' = Held(u, v)
    BY <1>8, <1>10, <1>11, <1>15, <1>19, <1>17, <1>18
  <1>20. CASE /\ Q' = Q + 1 /\ Q' <= P'
              /\ \E r : r \notin Held(u, v) /\ Held(u, v)' = Held(u, v) \cup {r}
    <2>1. H' = H + 1
      BY <1>12, <1>20
    <2> QED
      BY <1>8, <1>10, <1>20, <1>17, <1>18, <2>1
  <1>21. CASE /\ Q' = Q - 1
              /\ \E r : r \in Held(u, v) /\ Held(u, v)' = Held(u, v) \ {r}
    <2>1. H' = H - 1
      BY <1>13, <1>21
    <2> QED
      BY <1>8, <1>10, <1>21, <1>17, <1>18, <2>1
  <1>22. CASE /\ Q' = 0
              /\ Held(u, v)' \subseteq Held(u, v)
              /\ Q = 0 \/ \E r : r \notin Cleared(u, v) /\ r \in Cleared(u, v)'
    <2>1. Q = 0 \/ C + 1 <= C'
      BY <1>14, <1>22
    <2>2. ASSUME C + 1 <= C'
          PROVE  x + P <= y
      <3>1. P * (C + 1) <= P' * C'
        <4>1. P \in Nat /\ P' \in Nat /\ C + 1 \in Nat /\ C' \in Nat
          BY <1>10
        <4> QED
          BY <1>10, <2>2, <4>1, Product, Zenon
      <3>2. P * (C + 1) = P * C + P
        BY <1>10, Product
      <3> QED
        BY <1>16, <3>1, <3>2
    <2>3. H' <= H
      BY <1>11, <1>22
    <2>4. H' <= y
      BY <1>8, <1>10, <1>17, <2>1, <2>2, <2>3
    <2> QED
      BY <1>10, <1>22, <1>18, <2>4
  <1>23. Q = quota[u][v] /\ Q' = quota'[u][v] /\ P' = Places(u, v)'
    BY DEF P, Q
  <1> QED
    BY <1>19, <1>20, <1>21, <1>22, <1>23

LEMMA PlacesGrow ==
  ASSUME NEW u, NEW v, Oneway(u, v) \subseteq Oneway(u, v)'
  PROVE  Places(u, v) <= Places(u, v)'
  BY ChatAssumption DEF Places, ChatAssumption

LEMMA KeepsBooking ==
  ASSUME TypeOK, TypeOK', NEW u \in Users, NEW v \in Users, BookedFor(u, v), NoneLostFor(u, v),
         quota'[u][v] = quota[u][v],
         Held(u, v)' \subseteq Held(u, v), faults' # {} \/ Held(u, v)' = Held(u, v),
         Cleared(u, v) \subseteq Cleared(u, v)', Oneway(u, v) \subseteq Oneway(u, v)',
         faults' = {} => faults = {}
  PROVE  BookedFor(u, v)' /\ NoneLostFor(u, v)'
  <1>1. Places(u, v) <= Places(u, v)'
    BY PlacesGrow
  <1>2. quota'[u][v] \in Nat
    BY QuotaIsNat
  <1> QED
    BY <1>1, <1>2, BookingStep

\* The three sets as sets of members, in this state and the next.
LEMMA Sets ==
  ASSUME NEW u, NEW v
  PROVE  \E A, R, S, B, C :
           /\ A = {"oneway"} /\ S = {"store", "commit", "undoWeek", "done"}
           /\ R = {"oneway", "stranger"} /\ B = Begun /\ C = {"done", "dead"}
           /\ Oneway(u, v) = Of(u, v, A, B) /\ Oneway(u, v)' = Of(u, v, A, B)'
           /\ Cleared(u, v) = Of(v, u, A, C) /\ Cleared(u, v)' = Of(v, u, A, C)'
           /\ Held(u, v) = Of(u, v, R, S) /\ Held(u, v)' = Of(u, v, R, S)'
  <1>1. PICK A, R, S, B, C :
          /\ A = {"oneway"} /\ S = {"store", "commit", "undoWeek", "done"}
          /\ R = {"oneway", "stranger"} /\ B = Begun /\ C = {"done", "dead"}
    OBVIOUS
  <1>2. S = Stored \cup {"store", "undoWeek"}
    BY <1>1 DEF Stored
  <1>3. Oneway(u, v) = Of(u, v, A, B) /\ Oneway(u, v)' = Of(u, v, A, B)'
    BY <1>1 DEF Oneway, Of
  <1>4. Cleared(u, v) = Of(v, u, A, C) /\ Cleared(u, v)' = Of(v, u, A, C)'
    BY <1>1 DEF Cleared, Of
  <1>5. Held(u, v) = Of(u, v, R, S) /\ Held(u, v)' = Of(u, v, R, S)'
    BY <1>1, <1>2 DEF Held, Of
  <1> QED
    BY <1>1, <1>3, <1>4, <1>5, Zenon

\* What a step of a begun send does to the three sets.
LEMMA SetsMove ==
  ASSUME NEW r \in Sends, NEW p \in {"week", "store", "commit", "undoWeek", "undoMinute"},
         NEW q \in Begun, NEW u, NEW v, Moves(r, p, q), week' = week
  PROVE  /\ \A s : s \in Oneway(u, v)' <=> s \in Oneway(u, v)
         /\ \A s : s \in Cleared(u, v) => s \in Cleared(u, v)'
         /\ \A s : s # r => (s \in Held(u, v)' <=> s \in Held(u, v))
         /\ r \in Held(u, v) <=>
              p \in {"store", "commit", "undoWeek"} /\ Toward(r, u, v) /\ Rated(r)
         /\ r \in Held(u, v)' <=>
              q \in {"store", "commit", "undoWeek", "done"} /\ Toward(r, u, v) /\ Rated(r)
  <1>1. PICK A, R, S, B, C :
          /\ A = {"oneway"} /\ S = {"store", "commit", "undoWeek", "done"}
          /\ R = {"oneway", "stranger"} /\ B = Begun /\ C = {"done", "dead"}
          /\ Oneway(u, v) = Of(u, v, A, B) /\ Oneway(u, v)' = Of(u, v, A, B)'
          /\ Cleared(u, v) = Of(v, u, A, C) /\ Cleared(u, v)' = Of(v, u, A, C)'
          /\ Held(u, v) = Of(u, v, R, S) /\ Held(u, v)' = Of(u, v, R, S)'
    BY Sets, Zenon
  <1>2. p \in B /\ q \in B /\ p \notin C /\ (p \in S <=> p \in {"store", "commit", "undoWeek"})
    BY <1>1 DEF Begun
  <1>3. /\ \A s : s # r => (s \in Of(u, v, A, B)' <=> s \in Of(u, v, A, B))
        /\ r \in Of(u, v, A, B) <=> p \in B /\ Toward(r, u, v) /\ send[r].relation \in A
        /\ r \in Of(u, v, A, B)' <=> q \in B /\ Toward(r, u, v) /\ send[r].relation \in A
    BY OfKept
  <1>4. /\ \A s : s # r => (s \in Of(v, u, A, C)' <=> s \in Of(v, u, A, C))
        /\ r \in Of(v, u, A, C) <=> p \in C /\ Toward(r, v, u) /\ send[r].relation \in A
        /\ r \in Of(v, u, A, C)' <=> q \in C /\ Toward(r, v, u) /\ send[r].relation \in A
    BY OfKept
  <1>5. /\ \A s : s # r => (s \in Of(u, v, R, S)' <=> s \in Of(u, v, R, S))
        /\ r \in Of(u, v, R, S) <=> p \in S /\ Toward(r, u, v) /\ send[r].relation \in R
        /\ r \in Of(u, v, R, S)' <=> q \in S /\ Toward(r, u, v) /\ send[r].relation \in R
    BY OfKept
  <1>6. /\ \A s : s \in Of(u, v, A, B)' <=> s \in Of(u, v, A, B)
        /\ \A s : s \in Of(v, u, A, C) => s \in Of(v, u, A, C)'
    BY <1>2, <1>3, <1>4
  <1> QED
    BY <1>1, <1>2, <1>5, <1>6, Zenon DEF Rated

BookedBoth(u, v) == BookedFor(u, v) /\ NoneLostFor(u, v)

\* The steps that leave the quota alone: storing, failing and crashing.
LEMMA MoveBooks ==
  ASSUME TypeOK, TypeOK', NEW u \in Users, NEW v \in Users, BookedBoth(u, v),
         NEW r \in Sends, NEW p \in {"week", "store", "commit", "undoWeek", "undoMinute"},
         NEW q \in Begun, Moves(r, p, q), week' = week, quota'[u][v] = quota[u][v],
         faults' = {} => faults = {},
         \/ p \in {"store", "commit", "undoWeek"} <=> q \in {"store", "commit", "undoWeek", "done"}
         \/ ~(Toward(r, u, v) /\ Rated(r))
         \/ faults' # {} /\ q \notin {"store", "commit", "undoWeek", "done"}
  PROVE  BookedBoth(u, v)'
  <1>1. /\ \A s : s \in Oneway(u, v)' <=> s \in Oneway(u, v)
        /\ \A s : s \in Cleared(u, v) => s \in Cleared(u, v)'
        /\ \A s : s # r => (s \in Held(u, v)' <=> s \in Held(u, v))
        /\ r \in Held(u, v) <=>
             p \in {"store", "commit", "undoWeek"} /\ Toward(r, u, v) /\ Rated(r)
        /\ r \in Held(u, v)' <=>
             q \in {"store", "commit", "undoWeek", "done"} /\ Toward(r, u, v) /\ Rated(r)
    BY SetsMove
  <1>2. /\ Oneway(u, v) \subseteq Oneway(u, v)' /\ Cleared(u, v) \subseteq Cleared(u, v)'
        /\ Held(u, v)' \subseteq Held(u, v)
        /\ faults' # {} \/ Held(u, v)' = Held(u, v)
    BY <1>1
  <1>3. BookedFor(u, v) /\ NoneLostFor(u, v)
    BY DEF BookedBoth
  <1>4. BookedFor(u, v)' /\ NoneLostFor(u, v)'
    BY <1>1, <1>2, <1>3, KeepsBooking
  <1> QED
    BY <1>4 DEF BookedBoth

LEMMA ReserveWeekBooks ==
  ASSUME TypeOK, TypeOK', Branches, NEW u \in Users, NEW v \in Users, BookedBoth(u, v),
         NEW r \in Sends, ReserveWeek(r)
  PROVE  BookedBoth(u, v)'
  <1>1. send[r].pc = "week" /\ week' = week /\ faults' = faults /\ Rated(r)
    BY DEF ReserveWeek, Branches
  <1>2. send[r].pc \in Begun /\ "store" \in Begun /\ "undoMinute" \in Begun
    BY <1>1 DEF Begun
  <1>3. PICK x, y : x = Sender(r) /\ y = Receiver(r)
    OBVIOUS
  <1>4. x \in Users /\ y \in Users /\ send[r].relation \in Relations
    BY <1>1, <1>3, Parties
  <1>5. Toward(r, u, v) <=> u = x /\ v = y /\ ThisWeek(r)
    BY <1>3 DEF Toward, ThisWeek, Sender, Receiver
  <1>6. CASE UNCHANGED quota /\ Go(r, "undoMinute")
    <2>1. Moves(r, "week", "undoMinute")
      BY <1>1, <1>2, <1>6, Goes
    <2> QED
      BY <1>1, <1>2, <1>6, <2>1, MoveBooks
  <1>7. CASE UNCHANGED quota /\ Go(r, "store") /\ ~ThisWeek(r)
    <2>1. Moves(r, "week", "store")
      BY <1>1, <1>2, <1>7, Goes
    <2>2. ~(Toward(r, u, v) /\ Rated(r))
      BY <1>5, <1>7
    <2> QED
      BY <1>1, <1>2, <1>7, <2>1, <2>2, MoveBooks
  <1>8. CASE /\ ThisWeek(r) /\ quota[x][y] < Limit(r)
             /\ SetQuota(x, y, quota[x][y] + 1)
             /\ Go(r, "store")
    <2>1. Moves(r, "week", "store")
      BY <1>1, <1>2, <1>8, Goes
    <2>2. quota[x][y] \in Nat /\ quota[x][y] + 1 <= OneWayLimit /\ OneWayLimit \in Nat
      BY <1>4, <1>8, QuotaIsNat, ChatAssumption DEF Limit, ChatAssumption
    <2>3. /\ quota'[x][y] = quota[x][y] + 1
          /\ \A p, q \in Users : <<p, q>> # <<x, y>> => quota'[p][q] = quota[p][q]
      BY <1>4, <1>8, <2>2, QuotaTyped
    <2>4. CASE <<u, v>> # <<x, y>>
      <3>1. quota'[u][v] = quota[u][v] /\ ~(Toward(r, u, v) /\ Rated(r))
        BY <1>5, <2>3, <2>4
      <3> QED
        BY <1>1, <1>2, <2>1, <3>1, MoveBooks
    <2>5. CASE u = x /\ v = y
      <3>1. "week" \in {"week", "store", "commit", "undoWeek", "undoMinute"}
        OBVIOUS
      <3>2. /\ \A s : s \in Oneway(u, v)' <=> s \in Oneway(u, v)
            /\ \A s : s \in Cleared(u, v) => s \in Cleared(u, v)'
            /\ \A s : s # r => (s \in Held(u, v)' <=> s \in Held(u, v))
            /\ r \in Held(u, v) <=>
                 "week" \in {"store", "commit", "undoWeek"} /\ Toward(r, u, v) /\ Rated(r)
            /\ r \in Held(u, v)' <=>
                 "store" \in {"store", "commit", "undoWeek", "done"} /\ Toward(r, u, v) /\ Rated(r)
        BY <1>1, <1>2, <2>1, <3>1, SetsMove
      <3>3. r \notin Held(u, v) /\ r \in Held(u, v)'
        BY <1>1, <1>5, <1>8, <2>5, <3>2
      <3>4. Held(u, v)' = Held(u, v) \cup {r} /\ Cleared(u, v) \subseteq Cleared(u, v)'
            /\ Oneway(u, v) \subseteq Oneway(u, v)'
        BY <3>2, <3>3
      <3>5. quota'[u][v] <= Places(u, v)'
        <4>1. CASE send[r].relation = "oneway"
          <5>1. r \in Oneway(u, v)
            BY <1>1, <1>2, <1>5, <1>8, <2>5, <4>1, OfMembers DEF Oneway, Member
          <5>2. Places(u, v)' = OneWayLimit
            BY <3>2, <5>1 DEF Places
          <5> QED
            BY <2>2, <2>3, <2>5, <5>2
        <4>2. CASE send[r].relation = "stranger"
          <5>1. quota[u][v] + 1 <= StrangerLimit
            BY <1>8, <2>2, <2>5, <4>2, ChatAssumption DEF Limit, ChatAssumption
          <5>2. StrangerLimit <= Places(u, v)'
            BY ChatAssumption DEF Places, ChatAssumption
          <5> QED
            BY <2>2, <2>3, <2>5, <5>1, <5>2, ChatAssumption DEF Places, ChatAssumption
        <4> QED
          BY <1>1, <4>1, <4>2 DEF Rated
      <3>6. Places(u, v) <= Places(u, v)'
        BY <3>4, PlacesGrow
      <3>7. quota'[u][v] \in Nat /\ quota'[u][v] = quota[u][v] + 1
        BY <2>2, <2>3, <2>5
      <3>8. BookedFor(u, v) /\ NoneLostFor(u, v)
        BY DEF BookedBoth
      <3>9. BookedFor(u, v)' /\ NoneLostFor(u, v)'
        BY <1>1, <3>3, <3>4, <3>5, <3>6, <3>7, <3>8, BookingStep
      <3> QED
        BY <3>9 DEF BookedBoth
    <2> QED
      BY <2>4, <2>5
  <1> QED
    BY <1>3, <1>6, <1>7, <1>8 DEF ReserveWeek

LEMMA CommitBooks ==
  ASSUME TypeOK, TypeOK', Branches, NEW u \in Users, NEW v \in Users, BookedBoth(u, v),
         NEW r \in Sends, Commit(r)
  PROVE  BookedBoth(u, v)'
  <1>1. /\ send[r].pc = "commit" /\ week' = week /\ faults' = faults /\ Go(r, "done")
        /\ send[r].relation = "oneway"
    BY DEF Commit, Branches
  <1>2. send[r].pc \in Begun /\ "done" \in Begun
    BY <1>1 DEF Begun
  <1>3. Moves(r, "commit", "done")
    BY <1>1, <1>2, Goes
  <1>4. ASSUME quota'[u][v] = quota[u][v]
        PROVE  BookedBoth(u, v)'
    BY <1>1, <1>2, <1>3, <1>4, MoveBooks
  <1>5. PICK x, y : x = Sender(r) /\ y = Receiver(r)
    OBVIOUS
  <1>6. x \in Users /\ y \in Users
    BY <1>1, <1>5, Parties
  <1>7. CASE ThisWeek(r) /\ SetQuota(y, x, 0)
    <2>1. 0 \in 0..OneWayLimit
      BY ChatAssumption DEF ChatAssumption
    <2>2. /\ quota'[y][x] = 0
          /\ \A p, q \in Users : <<p, q>> # <<y, x>> => quota'[p][q] = quota[p][q]
      BY <1>6, <1>7, <2>1, QuotaTyped
    <2>3. CASE <<u, v>> # <<y, x>>
      BY <1>4, <2>2, <2>3
    <2>4. CASE u = y /\ v = x
      <3>1. /\ \A s : s \in Oneway(u, v)' <=> s \in Oneway(u, v)
            /\ \A s : s \in Cleared(u, v) => s \in Cleared(u, v)'
            /\ \A s : s # r => (s \in Held(u, v)' <=> s \in Held(u, v))
            /\ r \in Held(u, v) <=>
                 "commit" \in {"store", "commit", "undoWeek"} /\ Toward(r, u, v) /\ Rated(r)
            /\ r \in Held(u, v)' <=>
                 "done" \in {"store", "commit", "undoWeek", "done"} /\ Toward(r, u, v) /\ Rated(r)
        BY <1>1, <1>2, <1>3, SetsMove
      <3>2. Held(u, v)' \subseteq Held(u, v) /\ Cleared(u, v) \subseteq Cleared(u, v)'
            /\ Oneway(u, v) \subseteq Oneway(u, v)'
        BY <3>1
      <3>3. r \notin Cleared(u, v) /\ r \in Cleared(u, v)'
        <4>1. Toward(r, v, u) /\ send'[r].pc = "done" /\ send'[r].relation = "oneway"
              /\ Toward(r, v, u)'
          BY <1>1, <1>3, <1>5, <1>7, <2>4 DEF Toward, ThisWeek, Sender, Receiver, Moves
        <4>2. /\ r \in Of(v, u, {"oneway"}, {"done", "dead"}) <=> Member(r, v, u, {"oneway"}, {"done", "dead"})
              /\ r \in Of(v, u, {"oneway"}, {"done", "dead"})' <=> Member(r, v, u, {"oneway"}, {"done", "dead"})'
          BY DEF Of, Member, Toward, Sender, Receiver, ThisWeek
        <4> QED
          BY <1>1, <4>1, <4>2 DEF Cleared, Member
      <3>4. Places(u, v) <= Places(u, v)'
        BY <3>2, PlacesGrow
      <3>5. quota'[u][v] \in Nat /\ quota'[u][v] = 0
        BY <2>2, <2>4
      <3>6. BookedFor(u, v) /\ NoneLostFor(u, v)
        BY DEF BookedBoth
      <3>7. BookedFor(u, v)' /\ NoneLostFor(u, v)'
        BY <1>1, <3>2, <3>3, <3>4, <3>5, <3>6, BookingStep
      <3> QED
        BY <3>7 DEF BookedBoth
    <2> QED
      BY <2>3, <2>4
  <1> QED
    BY <1>4, <1>5, <1>7 DEF Commit

LEMMA RollbackWeekBooks ==
  ASSUME TypeOK, TypeOK', Branches, NEW u \in Users, NEW v \in Users, BookedBoth(u, v),
         NEW r \in Sends, RollbackWeek(r)
  PROVE  BookedBoth(u, v)'
  <1>1. /\ send[r].pc = "undoWeek" /\ week' = week /\ faults' = faults /\ Go(r, "undoMinute")
        /\ Rated(r)
    BY DEF RollbackWeek, Branches
  <1>2. send[r].pc \in Begun /\ "undoMinute" \in Begun
    BY <1>1 DEF Begun
  <1>3. Moves(r, "undoWeek", "undoMinute")
    BY <1>1, <1>2, Goes
  <1>4. PICK x, y : x = Sender(r) /\ y = Receiver(r)
    OBVIOUS
  <1>5. x \in Users /\ y \in Users
    BY <1>1, <1>4, Parties
  <1>6. Toward(r, u, v) <=> u = x /\ v = y /\ ThisWeek(r)
    BY <1>4 DEF Toward, ThisWeek, Sender, Receiver
  <1>7. ASSUME quota'[u][v] = quota[u][v], ~Toward(r, u, v)
        PROVE  BookedBoth(u, v)'
    BY <1>1, <1>2, <1>3, <1>7, MoveBooks
  <1>8. /\ \A s : s \in Oneway(u, v)' <=> s \in Oneway(u, v)
        /\ \A s : s \in Cleared(u, v) => s \in Cleared(u, v)'
        /\ \A s : s # r => (s \in Held(u, v)' <=> s \in Held(u, v))
        /\ r \in Held(u, v) <=>
             "undoWeek" \in {"store", "commit", "undoWeek"} /\ Toward(r, u, v) /\ Rated(r)
        /\ r \in Held(u, v)' <=>
             "undoMinute" \in {"store", "commit", "undoWeek", "done"} /\ Toward(r, u, v) /\ Rated(r)
    BY <1>1, <1>2, <1>3, SetsMove
  <1>9. /\ Held(u, v)' \subseteq Held(u, v) /\ Cleared(u, v) \subseteq Cleared(u, v)'
        /\ Oneway(u, v) \subseteq Oneway(u, v)'
    BY <1>8
  <1>10. Places(u, v) <= Places(u, v)'
    BY <1>9, PlacesGrow
  <1>11. BookedFor(u, v) /\ NoneLostFor(u, v)
    BY DEF BookedBoth
  <1>12. CASE ThisWeek(r) /\ quota[x][y] > 0 /\ SetQuota(x, y, quota[x][y] - 1)
    <2>1. quota[x][y] \in Nat /\ quota[x][y] <= OneWayLimit /\ OneWayLimit \in Nat
      BY <1>5, QuotaIsNat, ChatAssumption DEF ChatAssumption
    <2>2. quota[x][y] - 1 \in 0..OneWayLimit
      BY <1>12, <2>1
    <2>3. /\ quota'[x][y] = quota[x][y] - 1
          /\ \A p, q \in Users : <<p, q>> # <<x, y>> => quota'[p][q] = quota[p][q]
      BY <1>5, <1>12, <2>2, QuotaTyped
    <2>4. CASE <<u, v>> # <<x, y>>
      BY <1>6, <1>7, <2>3, <2>4
    <2>5. CASE u = x /\ v = y
      <3>1. r \in Held(u, v) /\ r \notin Held(u, v)'
        BY <1>1, <1>6, <1>8, <1>12, <2>5
      <3>2. Held(u, v)' = Held(u, v) \ {r}
        BY <1>8, <3>1
      <3>3. quota'[u][v] \in Nat /\ quota'[u][v] = quota[u][v] - 1
        BY <2>2, <2>3, <2>5
      <3>4. BookedFor(u, v)' /\ NoneLostFor(u, v)'
        BY <1>1, <1>9, <1>10, <1>11, <3>1, <3>2, <3>3, BookingStep
      <3> QED
        BY <3>4 DEF BookedBoth
    <2> QED
      BY <2>4, <2>5
  <1>13. CASE ~(ThisWeek(r) /\ quota[x][y] > 0) /\ UNCHANGED quota
    <2>1. CASE ~Toward(r, u, v)
      BY <1>7, <1>13, <2>1
    <2>2. CASE Toward(r, u, v)
      <3>1. quota[u][v] = 0 /\ quota'[u][v] = 0
        BY <1>6, <1>13, <2>2, QuotaIsNat
      <3>2. quota'[u][v] \in Nat
        BY <3>1
      <3>3. BookedFor(u, v)' /\ NoneLostFor(u, v)'
        BY <1>1, <1>9, <1>10, <1>11, <3>1, <3>2, BookingStep
      <3> QED
        BY <3>3 DEF BookedBoth
    <2> QED
      BY <2>1, <2>2
  <1> QED
    BY <1>4, <1>12, <1>13 DEF RollbackWeek

LEMMA OtherMovesBook ==
  ASSUME TypeOK, TypeOK', Branches, NEW u \in Users, NEW v \in Users, BookedBoth(u, v),
         NEW r \in Sends,
         ToChat(r) \/ ToChatFails(r) \/ RollbackMinute(r) \/ RedisFails(r) \/ SendCrashes(r)
  PROVE  BookedBoth(u, v)'
  <1>1. week' = week /\ quota' = quota
    BY DEF ToChat, ToChatFails, RollbackMinute, RedisFails, SendCrashes, limitVars
  <1>2. {"week", "store", "commit", "undoWeek", "undoMinute", "done", "failed", "dead"} \subseteq Begun
    BY DEF Begun
  <1>3. ASSUME NEW p \in {"week", "store", "commit", "undoWeek", "undoMinute"}, NEW q \in Begun,
               send[r].pc = p, Go(r, q), faults' = {} => faults = {},
               \/ p \in {"store", "commit", "undoWeek"} <=> q \in {"store", "commit", "undoWeek", "done"}
               \/ ~Rated(r)
               \/ faults' # {} /\ q \notin {"store", "commit", "undoWeek", "done"}
        PROVE  BookedBoth(u, v)'
    <2>1. Moves(r, p, q)
      BY <1>2, <1>3, Goes
    <2> QED
      BY <1>1, <1>3, <2>1, MoveBooks
  <1>4. CASE ToChat(r)
    <2>1. send[r].pc = "store" /\ faults' = faults /\ (Go(r, "commit") \/ Go(r, "done"))
      BY <1>4 DEF ToChat
    <2> QED
      BY <1>2, <1>3, <2>1
  <1>5. CASE ToChatFails(r)
    <2>1. send[r].pc = "store" /\ faults' = faults
          /\ Go(r, IF Rated(r) THEN "undoWeek" ELSE "undoMinute")
      BY <1>5 DEF ToChatFails
    <2>2. CASE Rated(r)
      <3>1. Go(r, "undoWeek")
        BY <2>1, <2>2
      <3> QED
        BY <1>2, <1>3, <2>1, <3>1
    <2>3. CASE ~Rated(r)
      <3>1. Go(r, "undoMinute")
        BY <2>1, <2>3
      <3> QED
        BY <1>2, <1>3, <2>1, <2>3, <3>1
    <2> QED
      BY <2>2, <2>3
  <1>6. CASE RollbackMinute(r)
    <2>1. send[r].pc = "undoMinute" /\ faults' = faults /\ Go(r, "failed")
      BY <1>6 DEF RollbackMinute
    <2> QED
      BY <1>2, <1>3, <2>1
  <1>7. CASE RedisFails(r)
    <2>1. send[r].pc \in {"commit", "undoWeek", "undoMinute"} /\ faults' # {}
          /\ Go(r, IF send[r].pc = "commit" THEN "done" ELSE "failed")
      BY <1>7 DEF RedisFails
    <2> QED
      BY <1>2, <1>3, <2>1
  <1>8. CASE SendCrashes(r)
    <2>1. send[r].pc \in {"week", "store", "commit", "undoWeek", "undoMinute"} /\ faults' # {}
          /\ Go(r, "dead")
      BY <1>8 DEF SendCrashes
    <2> QED
      BY <1>2, <1>3, <2>1
  <1> QED
    BY <1>4, <1>5, <1>6, <1>7, <1>8

\* A send that has not begun holds no place.
LEMMA FirstStepsBook ==
  ASSUME TypeOK, TypeOK', NEW u \in Users, NEW v \in Users, BookedBoth(u, v),
         NEW r \in Sends,
         (\E x, y \in Users : CheckRelation(r, x, y)) \/ ReserveMinute(r)
  PROVE  BookedBoth(u, v)'
  <1>1. week' = week /\ quota' = quota /\ faults' = faults
    BY DEF CheckRelation, ReserveMinute, limitVars
  <1>2. /\ \A s \in Sends \ {r} : send'[s] = send[s]
        /\ send[r].pc \in {"idle", "minute"}
        /\ \/ send'[r].pc \in {"refused", "minute", "week"}
           \/ send'[r].pc = "store" /\ send'[r].relation \notin {"oneway", "stranger"}
    <2>1. CASE ReserveMinute(r)
      <3>1. /\ send[r].pc = "minute"
            /\ \A s \in Sends \ {r} : send'[s] = send[s]
            /\ \/ send'[r].pc = "refused"
               \/ send'[r] = [pc |-> IF Rated(r) THEN "week" ELSE "store", from |-> Sender(r),
                              to |-> Receiver(r), relation |-> send[r].relation, week |-> week]
        BY <2>1, ReserveMinuteTyped, Zenon
      <3> QED
        BY <3>1 DEF Rated
    <2>2. CASE \E x, y \in Users : CheckRelation(r, x, y)
      BY <2>2, CheckTyped
    <2> QED
      BY <2>1, <2>2
  <1>3. PICK A, R, S, B, C :
          /\ A = {"oneway"} /\ S = {"store", "commit", "undoWeek", "done"}
          /\ R = {"oneway", "stranger"} /\ B = Begun /\ C = {"done", "dead"}
          /\ Oneway(u, v) = Of(u, v, A, B) /\ Oneway(u, v)' = Of(u, v, A, B)'
          /\ Cleared(u, v) = Of(v, u, A, C) /\ Cleared(u, v)' = Of(v, u, A, C)'
          /\ Held(u, v) = Of(u, v, R, S) /\ Held(u, v)' = Of(u, v, R, S)'
    BY Sets, Zenon
  <1>4. ASSUME NEW x, NEW y, NEW K, NEW L, send[r].pc \notin L,
               NEW s, s \in Of(x, y, K, L)' <=> s \notin Of(x, y, K, L)
        PROVE  s = r /\ send'[r].pc \in L /\ send'[r].relation \in K /\ s \notin Of(x, y, K, L)
    BY <1>1, <1>2, <1>4, OfMembers DEF Member, Toward
  <1>5. send[r].pc \notin B /\ send[r].pc \notin S /\ send[r].pc \notin C
    BY <1>2, <1>3 DEF Begun
  <1>6. \A s : s \in Held(u, v)' <=> s \in Held(u, v)
    BY <1>2, <1>3, <1>4, <1>5
  <1>7. \A s : s \in Cleared(u, v)' <=> s \in Cleared(u, v)
    BY <1>2, <1>3, <1>4, <1>5
  <1>8. \A s : s \in Oneway(u, v) => s \in Oneway(u, v)'
    BY <1>3, <1>4, <1>5
  <1>9. /\ Held(u, v)' \subseteq Held(u, v) /\ Held(u, v)' = Held(u, v)
        /\ Cleared(u, v) \subseteq Cleared(u, v)' /\ Oneway(u, v) \subseteq Oneway(u, v)'
    BY <1>6, <1>7, <1>8
  <1>10. BookedFor(u, v) /\ NoneLostFor(u, v)
    BY DEF BookedBoth
  <1>11. BookedFor(u, v)' /\ NoneLostFor(u, v)'
    BY <1>1, <1>9, <1>10, KeepsBooking
  <1> QED
    BY <1>11 DEF BookedBoth

LEMMA NewWeekBooks ==
  ASSUME TypeOK, TypeOK', Branches, NEW u \in Users, NEW v \in Users, NewWeek
  PROVE  BookedBoth(u, v)'
  <1>1. send' = send /\ week' = week + 1 /\ week \in Nat /\ quota'[u][v] = 0
    BY DEF NewWeek, TypeOK
  <1>2. \A r \in Sends : send[r].pc \in Begun => send[r].week \in Nat /\ send[r].week <= week
    BY Parties DEF Branches
  <1>3. Held(u, v)' = {}
    <2> SUFFICES ASSUME NEW r \in Held(u, v)' PROVE FALSE
      OBVIOUS
    <2>1. r \in Sends /\ send[r].pc \in Begun /\ send[r].week = week'
      BY <1>1 DEF Held, Of, ThisWeek, Stored, Begun
    <2> QED
      BY <1>1, <1>2, <2>1
  <1>4. Cardinality(Held(u, v)') = 0
    BY <1>3, FS_EmptySet
  <1>5. Places(u, v)' \in Nat
    BY ChatAssumption DEF Places, ChatAssumption
  <1>6. Cardinality(Cleared(u, v)') \in Nat
    <2>1. IsFiniteSet(Sends) /\ Cleared(u, v)' \subseteq Sends
      BY ChatAssumption, OfMembers DEF ChatAssumption, Cleared
    <2> QED
      BY <2>1, FS_Subset, FS_CardinalityType
  <1>7. Places(u, v)' * Cardinality(Cleared(u, v)') \in Nat
    BY <1>5, <1>6
  <1> QED
    BY <1>1, <1>4, <1>5, <1>7 DEF BookedBoth, BookedFor, NoneLostFor

\* The steps that leave the sends, the week and the quota alone.
LEMMA RestBooks ==
  ASSUME TypeOK, TypeOK', NEW u \in Users, NEW v \in Users, BookedBoth(u, v),
         send' = send, week' = week, quota' = quota, faults' = faults
  PROVE  BookedBoth(u, v)'
  <1>1. PICK A, R, S, B, C :
          /\ A = {"oneway"} /\ S = {"store", "commit", "undoWeek", "done"}
          /\ R = {"oneway", "stranger"} /\ B = Begun /\ C = {"done", "dead"}
          /\ Oneway(u, v) = Of(u, v, A, B) /\ Oneway(u, v)' = Of(u, v, A, B)'
          /\ Cleared(u, v) = Of(v, u, A, C) /\ Cleared(u, v)' = Of(v, u, A, C)'
          /\ Held(u, v) = Of(u, v, R, S) /\ Held(u, v)' = Of(u, v, R, S)'
    BY Sets, Zenon
  <1>2. /\ \A r : Member(r, u, v, A, B)' <=> Member(r, u, v, A, B)
        /\ \A r : Member(r, v, u, A, C)' <=> Member(r, v, u, A, C)
        /\ \A r : Member(r, u, v, R, S)' <=> Member(r, u, v, R, S)
    BY DEF Member, Toward
  <1>3. /\ \A r : r \in Of(u, v, A, B)' <=> r \in Of(u, v, A, B)
        /\ \A r : r \in Of(v, u, A, C)' <=> r \in Of(v, u, A, C)
        /\ \A r : r \in Of(u, v, R, S)' <=> r \in Of(u, v, R, S)
    BY <1>2, OfMembers
  <1>4. /\ Held(u, v)' \subseteq Held(u, v) /\ Held(u, v)' = Held(u, v)
        /\ Cleared(u, v) \subseteq Cleared(u, v)' /\ Oneway(u, v) \subseteq Oneway(u, v)'
    BY <1>1, <1>3
  <1>5. BookedFor(u, v) /\ NoneLostFor(u, v)
    BY DEF BookedBoth
  <1>6. BookedFor(u, v)' /\ NoneLostFor(u, v)'
    BY <1>4, <1>5, KeepsBooking
  <1> QED
    BY <1>6 DEF BookedBoth

-----------------------------------------------------------------------------
\* The kinds of steps, as far as the limits see them.
Aside ==
  /\ send' = send /\ week' = week /\ quota' = quota /\ faults' = faults
  /\ recent' \subseteq recent

LEMMA LimitKinds ==
  ASSUME [Next]_vars
  PROVE  Aside \/ NewWeek \/ \E r \in Sends : SendStep(r)
  <1>1. CASE UNCHANGED vars
    BY <1>1 DEF vars, limitVars, Aside
  <1>2. CASE \E u, v \in Users : FollowUser(u, v) \/ UnfollowUser(u, v)
    BY <1>2 DEF FollowUser, UnfollowUser, limitVars, Aside
  <1>3. CASE \E r \in Sends : LeaveMinute(r)
    BY <1>3 DEF LeaveMinute, Aside
  <1>4. CASE \E a \in Acts : ActStep(a)
    BY <1>4 DEF ActStep, ReadFind, ClearFind, MarkRead, ClearMax, ClearSession, limitVars, Aside
  <1> QED
    BY <1>1, <1>2, <1>3, <1>4 DEF Next

LEMMA BookedNext ==
  ASSUME TypeOK, TypeOK', Branches, Booked, NoneLost, [Next]_vars
  PROVE  Booked' /\ NoneLost'
  <1> SUFFICES ASSUME NEW u \in Users, NEW v \in Users
               PROVE  BookedBoth(u, v)'
    BY DEF BookedBoth, Booked, BookedFor, NoneLost, NoneLostFor
  <1>1. BookedBoth(u, v)
    BY Booking DEF BookedBoth
  <1>2. ASSUME NEW r \in Sends, SendStep(r)
        PROVE  BookedBoth(u, v)'
    <2>1. CASE \E x, y \in Users : CheckRelation(r, x, y)
      BY <1>1, <2>1, FirstStepsBook
    <2>2. CASE ReserveMinute(r)
      BY <1>1, <2>2, FirstStepsBook
    <2>3. CASE ReserveWeek(r)
      BY <1>1, <2>3, ReserveWeekBooks
    <2>4. CASE Commit(r)
      BY <1>1, <2>4, CommitBooks
    <2>5. CASE RollbackWeek(r)
      BY <1>1, <2>5, RollbackWeekBooks
    <2>6. CASE ToChat(r) \/ ToChatFails(r) \/ RollbackMinute(r) \/ RedisFails(r) \/ SendCrashes(r)
      BY <1>1, <2>6, OtherMovesBook
    <2> QED
      BY <1>2, <2>1, <2>2, <2>3, <2>4, <2>5, <2>6 DEF SendStep
  <1>3. CASE NewWeek
    BY <1>3, NewWeekBooks
  <1>4. CASE Aside
    BY <1>1, <1>4, RestBooks DEF Aside
  <1> QED
    BY <1>2, <1>3, <1>4, LimitKinds

-----------------------------------------------------------------------------
\* Of one send: what its branch and its place in the minute say.
BranchOf(r) ==
  /\ send[r].pc \in {"week", "undoWeek"} => Rated(r)
  /\ send[r].pc = "commit" => send[r].relation = "oneway"
  /\ send[r].pc \in Begun => send[r].week <= week

WindowOf(r) ==
  r \in recent => /\ send[r].pc \notin {"idle", "refused", "minute"}
                  /\ send[r].pc = "failed" => faults # {}

\* A send that does not step keeps both, as does the one that moves between
\* two branches of the same relation.
LEMMA OthersKeep ==
  ASSUME NEW s \in Sends, send'[s] = send[s], week \in Nat, week' \in {week, week + 1},
         BranchOf(s), WindowOf(s), s \in recent' => s \in recent,
         faults # {} => faults' # {}, send[s].pc \in Begun => send[s].week \in Nat
  PROVE  BranchOf(s)' /\ WindowOf(s)'
  BY DEF BranchOf, WindowOf, Rated

LEMMA MoveKeeps ==
  ASSUME TypeOK, NEW r \in Sends, NEW p \in Begun, NEW q \in Begun, Moves(r, p, q),
         week' = week, BranchOf(r), WindowOf(r), r \in recent' => r \in recent,
         faults # {} => faults' # {},
         q \in {"week", "undoWeek"} => Rated(r),
         q = "commit" => send[r].relation = "oneway",
         q = "failed" => faults' # {} \/ r \notin recent'
  PROVE  BranchOf(r)' /\ WindowOf(r)'
  BY DEF BranchOf, WindowOf, Rated, Moves, Begun

LEMMA FirstStepsKeep ==
  ASSUME TypeOK, NEW r \in Sends, BranchOf(r), WindowOf(r),
         (\E u, v \in Users : CheckRelation(r, u, v)) \/ ReserveMinute(r)
  PROVE  BranchOf(r)' /\ WindowOf(r)'
  <1>1. week' = week /\ faults' = faults /\ week \in Nat
    BY DEF CheckRelation, ReserveMinute, limitVars, TypeOK
  <1>2. CASE \E u, v \in Users : CheckRelation(r, u, v)
    <2>1. send[r].pc = "idle" /\ send'[r].pc \in {"refused", "minute"}
      BY <1>2, CheckTyped
    <2>2. recent' = recent
      BY <1>2 DEF CheckRelation, limitVars
    <2> QED
      BY <2>1, <2>2 DEF BranchOf, WindowOf, Begun
  <1>3. CASE ReserveMinute(r)
    <2>1. /\ send[r].pc = "minute"
          /\ \/ send'[r].pc = "refused" /\ recent' = recent
             \/ send'[r] = [pc |-> IF Rated(r) THEN "week" ELSE "store", from |-> Sender(r),
                            to |-> Receiver(r), relation |-> send[r].relation, week |-> week]
      BY <1>3, ReserveMinuteTyped, Zenon
    <2>2. CASE send'[r].pc = "refused" /\ recent' = recent
      BY <2>1, <2>2 DEF BranchOf, WindowOf, Begun
    <2>3. CASE send'[r] = [pc |-> IF Rated(r) THEN "week" ELSE "store", from |-> Sender(r),
                           to |-> Receiver(r), relation |-> send[r].relation, week |-> week]
      <3>1. /\ send'[r].pc \in {"week", "store"} /\ (send'[r].pc = "week" => Rated(r))
            /\ send'[r].relation = send[r].relation /\ send'[r].week = week
        BY <2>3
      <3> QED
        BY <1>1, <3>1 DEF BranchOf, WindowOf, Rated
    <2> QED
      BY <2>1, <2>2, <2>3
  <1> QED
    BY <1>2, <1>3

LEMMA LaterStepsKeep ==
  ASSUME TypeOK, NEW r \in Sends, BranchOf(r), WindowOf(r),
         ReserveWeek(r) \/ ToChat(r) \/ ToChatFails(r) \/ Commit(r) \/ RollbackWeek(r)
           \/ RollbackMinute(r) \/ RedisFails(r) \/ SendCrashes(r)
  PROVE  BranchOf(r)' /\ WindowOf(r)'
  <1>1. week' = week /\ (faults # {} => faults' # {}) /\ (r \in recent' => r \in recent)
    BY DEF ReserveWeek, ToChat, ToChatFails, Commit, RollbackWeek, RollbackMinute, RedisFails,
           SendCrashes, limitVars
  <1>2. ASSUME NEW q \in Begun, send[r].pc \in Begun, Go(r, q),
               q \in {"week", "undoWeek"} => Rated(r),
               q = "commit" => send[r].relation = "oneway",
               q = "failed" => faults' # {} \/ r \notin recent'
        PROVE  BranchOf(r)' /\ WindowOf(r)'
    <2>1. PICK p \in Begun : p = send[r].pc
      BY <1>2
    <2>2. Moves(r, p, q)
      BY <1>2, <2>1, Goes
    <2> QED
      BY <1>1, <1>2, <2>2, MoveKeeps
  <1>3. {"week", "store", "commit", "undoWeek", "undoMinute", "done", "failed", "dead"} \subseteq Begun
    BY DEF Begun
  <1>4. CASE ReserveWeek(r)
    <2>1. send[r].pc = "week" /\ (Go(r, "store") \/ Go(r, "undoMinute"))
      BY <1>4 DEF ReserveWeek
    <2> QED
      BY <1>2, <1>3, <2>1
  <1>5. CASE ToChat(r)
    <2>1. send[r].pc = "store" /\ Go(r, IF send[r].relation = "oneway" THEN "commit" ELSE "done")
      BY <1>5 DEF ToChat
    <2> QED
      BY <1>2, <1>3, <2>1
  <1>6. CASE ToChatFails(r)
    <2>1. send[r].pc = "store" /\ Go(r, IF Rated(r) THEN "undoWeek" ELSE "undoMinute")
      BY <1>6 DEF ToChatFails
    <2>2. CASE Rated(r)
      <3>1. Go(r, "undoWeek")
        BY <2>1, <2>2
      <3> QED
        BY <1>2, <1>3, <2>1, <2>2, <3>1
    <2>3. CASE ~Rated(r)
      <3>1. Go(r, "undoMinute")
        BY <2>1, <2>3
      <3> QED
        BY <1>2, <1>3, <2>1, <3>1
    <2> QED
      BY <2>2, <2>3
  <1>7. CASE Commit(r)
    <2>1. send[r].pc = "commit" /\ Go(r, "done")
      BY <1>7 DEF Commit
    <2> QED
      BY <1>2, <1>3, <2>1
  <1>8. CASE RollbackWeek(r)
    <2>1. send[r].pc = "undoWeek" /\ Go(r, "undoMinute")
      BY <1>8 DEF RollbackWeek
    <2> QED
      BY <1>2, <1>3, <2>1
  <1>9. CASE RollbackMinute(r)
    <2>1. send[r].pc = "undoMinute" /\ Go(r, "failed") /\ r \notin recent'
      BY <1>9 DEF RollbackMinute
    <2> QED
      BY <1>2, <1>3, <2>1
  <1>10. CASE RedisFails(r)
    <2>1. /\ send[r].pc \in {"commit", "undoWeek", "undoMinute"} /\ faults' # {}
          /\ Go(r, IF send[r].pc = "commit" THEN "done" ELSE "failed")
      BY <1>10 DEF RedisFails
    <2> QED
      BY <1>2, <1>3, <2>1
  <1>11. CASE SendCrashes(r)
    <2>1. /\ send[r].pc \in {"week", "store", "commit", "undoWeek", "undoMinute"}
          /\ Go(r, "dead")
      BY <1>11 DEF SendCrashes
    <2> QED
      BY <1>2, <1>3, <2>1
  <1> QED
    BY <1>4, <1>5, <1>6, <1>7, <1>8, <1>9, <1>10, <1>11

LEMMA BranchesNext ==
  ASSUME TypeOK, Branches, Windows, [Next]_vars
  PROVE  Branches' /\ Windows'
  <1> SUFFICES ASSUME NEW s \in Sends
               PROVE  BranchOf(s)' /\ WindowOf(s)'
    <2>1. recent' \subseteq Sends
      <3>1. CASE UNCHANGED vars
        BY <3>1 DEF vars, limitVars, TypeOK
      <3>2. ASSUME NEW r \in Sends, SendStep(r)
            PROVE  recent' \subseteq Sends
        BY <3>2 DEF SendStep, CheckRelation, ReserveMinute, ReserveWeek, ToChat, ToChatFails,
                    Commit, RollbackWeek, RollbackMinute, RedisFails, SendCrashes, limitVars, TypeOK
      <3>3. CASE Aside \/ NewWeek
        BY <3>3 DEF Aside, NewWeek, TypeOK
      <3> QED
        BY <3>2, <3>3, LimitKinds
    <2> QED
      BY <2>1 DEF Branches, Windows, BranchOf, WindowOf
  <1>1. BranchOf(s) /\ WindowOf(s) /\ week \in Nat
    BY DEF Branches, Windows, BranchOf, WindowOf, TypeOK
  <1>2. send[s].pc \in Begun => send[s].week \in Nat
    BY Parties
  <1>3. CASE Aside \/ NewWeek
    <2>1. /\ send' = send /\ week' \in {week, week + 1} /\ (s \in recent' => s \in recent)
          /\ faults' = faults
      BY <1>3 DEF Aside, NewWeek
    <2> QED
      BY <1>1, <1>2, <2>1, OthersKeep
  <1>4. ASSUME NEW r \in Sends, SendStep(r)
        PROVE  BranchOf(s)' /\ WindowOf(s)'
    <2>1. CASE s = r
      BY <1>1, <1>4, <2>1, FirstStepsKeep, LaterStepsKeep DEF SendStep
    <2>2. CASE s # r
      <3>1. send'[s] = send[s]
        BY <1>4, <2>2, CheckTyped, ReserveMinuteTyped, SendMoves DEF SendStep, Moves
      <3>2. week' = week /\ (faults # {} => faults' # {}) /\ (s \in recent' => s \in recent)
        BY <1>4, <2>2 DEF SendStep, CheckRelation, ReserveMinute, ReserveWeek, ToChat, ToChatFails,
                   Commit, RollbackWeek, RollbackMinute, RedisFails, SendCrashes, limitVars
      <3> QED
        BY <1>1, <1>2, <3>1, <3>2, OthersKeep
    <2> QED
      BY <2>1, <2>2
  <1> QED
    BY <1>1, <1>3, <1>4, LimitKinds

LEMMA LimitsInit == Init => LimitsInv
  <1> SUFFICES ASSUME Init PROVE LimitsInv
    OBVIOUS
  <1>1. \A r \in Sends : send[r].pc = "idle"
    BY DEF Init
  <1>2. Branches /\ Windows
    BY <1>1 DEF Branches, Windows, Begun, Init
  <1>3. ASSUME NEW u \in Users, NEW v \in Users
        PROVE  BookedFor(u, v) /\ NoneLostFor(u, v)
    <2>1. Held(u, v) = {}
      BY <1>1 DEF Held, Of, Stored
    <2>2. Cardinality(Held(u, v)) = 0
      BY <2>1, FS_EmptySet
    <2>3. quota[u][v] = 0
      BY <1>3 DEF Init
    <2>4. Places(u, v) \in Nat /\ Cardinality(Cleared(u, v)) \in Nat
      BY PlacesTyped
    <2>5. Places(u, v) * Cardinality(Cleared(u, v)) \in Nat
      BY <2>4
    <2> QED
      BY <2>2, <2>3, <2>4, <2>5 DEF BookedFor, NoneLostFor
  <1> QED
    BY <1>2, <1>3, Booking DEF LimitsInv

LEMMA LimitsNext ==
  ASSUME TypeOK, TypeOK', LimitsInv, [Next]_vars
  PROVE  LimitsInv'
  BY BranchesNext, BookedNext DEF LimitsInv

\* The places of a direction in the words of the property.
LEMMA WeekLimit ==
  ASSUME TypeOK, LimitsInv
  PROVE  WeekLimitKept
  <1> SUFFICES ASSUME NEW u \in Users, NEW v \in Users
               PROVE  /\ Cardinality(Of(u, v, {"oneway", "stranger"}, Stored))
                           <= OneWayLimit * (1 + Answers(u, v))
                      /\ Of(u, v, {"oneway"}, Begun) = {} =>
                           Cardinality(Of(u, v, {"stranger"}, Stored))
                             <= StrangerLimit * (1 + Answers(u, v))
    BY DEF WeekLimitKept
  <1> DEFINE Through == Of(u, v, {"oneway", "stranger"}, Stored)
             Strange == Of(u, v, {"stranger"}, Stored)
             A == Answers(u, v)
             C == Cardinality(Cleared(u, v))
             H == Cardinality(Held(u, v))
             P == Places(u, v)
             Q == quota[u][v]
  <1>1. Through \subseteq Held(u, v) /\ Strange \subseteq Held(u, v)
    BY DEF Held, Of
  <1>2. /\ IsFiniteSet(Held(u, v)) /\ IsFiniteSet(Of(v, u, {"oneway"}, Stored \cup {"dead"}))
        /\ A \in Nat
    BY OfFinite DEF Held, Answers
  <1>3. Cardinality(Through) \in Nat /\ Cardinality(Strange) \in Nat
        /\ Cardinality(Through) <= H /\ Cardinality(Strange) <= H
    BY <1>1, <1>2, OfFinite, FS_Subset
  <1>4. Cleared(u, v) \subseteq Of(v, u, {"oneway"}, Stored \cup {"dead"})
    BY DEF Cleared, Of, Stored
  <1>5. C <= A
    BY <1>2, <1>4, FS_Subset DEF Answers
  <1>6. /\ P \in Nat /\ C \in Nat /\ H \in Nat /\ P <= OneWayLimit
        /\ (Oneway(u, v) = {} => P = StrangerLimit)
    BY PlacesTyped DEF Places
  <1>7. Q \in Nat /\ Q <= P /\ H <= P * C + Q
    BY QuotaIsNat DEF LimitsInv, Booked
  <1>8. StrangerLimit \in Nat /\ OneWayLimit \in Nat
    BY ChatAssumption DEF ChatAssumption
  <1> HIDE DEF A, C, H, P, Q, Through, Strange
  <1>9. ASSUME NEW L \in Nat, P <= L
        PROVE  H <= L * (1 + A)
    <2>1. P * C <= L * A /\ P * C \in Nat /\ L * A \in Nat
      BY <1>2, <1>5, <1>6, <1>9, Product
    <2>2. L * (A + 1) = L * A + L
      BY <1>2, Product
    <2>3. 1 + A = A + 1
      BY <1>2
    <2> QED
      BY <1>6, <1>7, <1>9, <2>1, <2>2, <2>3
  <1>10. H <= OneWayLimit * (1 + A) /\ OneWayLimit * (1 + A) \in Nat
    BY <1>2, <1>6, <1>8, <1>9
  <1>11. ASSUME Oneway(u, v) = {}
         PROVE  H <= StrangerLimit * (1 + A) /\ StrangerLimit * (1 + A) \in Nat
    BY <1>2, <1>6, <1>8, <1>9, <1>11
  <1>12. Cardinality(Through) <= OneWayLimit * (1 + A)
    BY <1>3, <1>6, <1>10
  <1>13. Oneway(u, v) = {} => Cardinality(Strange) <= StrangerLimit * (1 + A)
    BY <1>3, <1>6, <1>11
  <1> QED
    BY <1>12, <1>13 DEF Through, Strange, A, Oneway

LEMMA NothingLost ==
  ASSUME LimitsInv
  PROVE  FailedSendsCostNothing
  BY DEF LimitsInv, NoneLost, Windows, Held, FailedSendsCostNothing

(* The limits on sending hold whatever the users, the sends and the limits: *)
(* in a week no more messages get through than the quota and the answers   *)
(* allow, and a send that fails costs its sender nothing.                  *)
THEOREM LimitsAreKept == Spec => []LimitsKept
  <1> DEFINE Inv == Typed /\ LimitsInv
  <1>1. Init => Inv
    BY TypedInit, LimitsInit
  <1>2. Inv /\ [Next]_vars => Inv'
    <2> SUFFICES ASSUME Inv, [Next]_vars PROVE Inv'
      OBVIOUS
    <2>1. Typed'
      BY TypedNext
    <2>2. TypeOK /\ TypeOK'
      BY <2>1 DEF Typed
    <2> QED
      BY <2>1, <2>2, LimitsNext
  <1>3. Inv => LimitsKept
    BY WeekLimit, NothingLost DEF LimitsKept, Typed
  <1> QED
    BY <1>1, <1>2, <1>3, PTL DEF Spec

-----------------------------------------------------------------------------
(* Statistics.                                                             *)

LEMMA StatsDo ==
  ASSUME TypeOK, NEW u \in Users, NEW v \in Users, NEW d \in {1, -1},
         StatApplyFollowDelta(u, v, d)
  PROVE  \A x \in Users :
           /\ stats[x].follow \in Nat /\ stats[x].fans \in Nat
           /\ stats'[x].follow = IF x = u THEN Clamped(stats[x].follow + d) ELSE stats[x].follow
           /\ stats'[x].fans = IF x = v THEN Clamped(stats[x].fans + d) ELSE stats[x].fans
  <1> DEFINE Stat == [follow : Nat, fans : Nat]
             one == [stats EXCEPT ![u] = [stats[u] EXCEPT !.follow = Clamped(@ + d)]]
  <1>1. stats \in [Users -> Stat]
    BY DEF TypeOK
  <1>2. one \in [Users -> Stat]
    BY <1>1, SMT DEF Clamped
  <1>3. \A x \in Users :
          /\ one[x].follow = IF x = u THEN Clamped(stats[x].follow + d) ELSE stats[x].follow
          /\ one[x].fans = stats[x].fans
    BY <1>1
  <1>4. stats' = [one EXCEPT ![v] = [one[v] EXCEPT !.fans = Clamped(@ + d)]]
    BY DEF StatApplyFollowDelta
  <1> HIDE DEF one
  <1>5. \A x \in Users :
          /\ stats'[x].follow = one[x].follow
          /\ stats'[x].fans = IF x = v THEN Clamped(one[x].fans + d) ELSE one[x].fans
    BY <1>2, <1>4
  <1> QED
    BY <1>1, <1>3, <1>5

FollowInv == IsFiniteSet(follows) /\ FollowsCounted

LEMMA FollowNext ==
  ASSUME TypeOK, FollowInv, [Next]_vars
  PROVE  FollowInv'
  <1> DEFINE First(x) == {f \in follows : f[1] = x}
             Second(x) == {f \in follows : f[2] = x}
  <1>1. \A x : IsFiniteSet(First(x)) /\ IsFiniteSet(Second(x))
    BY FS_Subset DEF FollowInv
  <1>2. \A x \in Users : /\ stats[x].follow = Cardinality(First(x))
                         /\ stats[x].fans = Cardinality(Second(x))
    BY DEF FollowInv, FollowsCounted
  <1>3. ASSUME NEW u \in Users, NEW v \in Users, FollowUser(u, v)
        PROVE  FollowInv'
    <2>1. /\ <<u, v>> \notin follows /\ follows' = follows \cup {<<u, v>>}
          /\ StatApplyFollowDelta(u, v, 1)
      BY <1>3 DEF FollowUser
    <2>2. IsFiniteSet(follows')
      BY <2>1, FS_AddElement DEF FollowInv
    <2>3. ASSUME NEW x \in Users
          PROVE  /\ Cardinality(First(x)') = IF x = u THEN Cardinality(First(x)) + 1
                                                       ELSE Cardinality(First(x))
                 /\ Cardinality(Second(x)') = IF x = v THEN Cardinality(Second(x)) + 1
                                                        ELSE Cardinality(Second(x))
      <3>1. /\ <<u, v>> \notin First(x) /\ <<u, v>> \notin Second(x)
            /\ First(x)' = IF x = u THEN First(x) \cup {<<u, v>>} ELSE First(x)
            /\ Second(x)' = IF x = v THEN Second(x) \cup {<<u, v>>} ELSE Second(x)
        BY <2>1
      <3> HIDE DEF First, Second
      <3> QED
        BY <1>1, <3>1, FS_AddElement
    <2>4. \A x \in Users :
            /\ stats[x].follow \in Nat /\ stats[x].fans \in Nat
            /\ stats'[x].follow = IF x = u THEN stats[x].follow + 1 ELSE stats[x].follow
            /\ stats'[x].fans = IF x = v THEN stats[x].fans + 1 ELSE stats[x].fans
      BY <2>1, StatsDo DEF Clamped
    <2>5. \A x \in Users : /\ stats'[x].follow = Cardinality(First(x)')
                           /\ stats'[x].fans = Cardinality(Second(x)')
      <3> HIDE DEF First, Second
      <3> QED
        BY <1>2, <2>3, <2>4
    <2> QED
      BY <2>2, <2>5 DEF FollowInv, FollowsCounted
  <1>4. ASSUME NEW u \in Users, NEW v \in Users, UnfollowUser(u, v)
        PROVE  FollowInv'
    <2>1. /\ <<u, v>> \in follows /\ follows' = follows \ {<<u, v>>}
          /\ StatApplyFollowDelta(u, v, -1)
      BY <1>4 DEF UnfollowUser
    <2>2. IsFiniteSet(follows')
      BY <2>1, FS_RemoveElement DEF FollowInv
    <2>3. ASSUME NEW x \in Users
          PROVE  /\ Cardinality(First(x)') = IF x = u THEN Cardinality(First(x)) - 1
                                                       ELSE Cardinality(First(x))
                 /\ Cardinality(Second(x)') = IF x = v THEN Cardinality(Second(x)) - 1
                                                        ELSE Cardinality(Second(x))
                 /\ x = u => Cardinality(First(x)) > 0
                 /\ x = v => Cardinality(Second(x)) > 0
      <3>1. /\ x = u => <<u, v>> \in First(x)
            /\ x = v => <<u, v>> \in Second(x)
            /\ First(x)' = IF x = u THEN First(x) \ {<<u, v>>} ELSE First(x)
            /\ Second(x)' = IF x = v THEN Second(x) \ {<<u, v>>} ELSE Second(x)
        BY <2>1
      <3> HIDE DEF First, Second
      <3>2. Cardinality(First(x)) \in Nat /\ Cardinality(Second(x)) \in Nat
        BY <1>1, FS_CardinalityType
      <3>3. x = u => Cardinality(First(x)) # 0
        BY <1>1, <3>1, FS_EmptySet
      <3>4. x = v => Cardinality(Second(x)) # 0
        BY <1>1, <3>1, FS_EmptySet
      <3>5. x = u => Cardinality(First(x)') = Cardinality(First(x)) - 1
        BY <1>1, <3>1, FS_RemoveElement
      <3>6. x = v => Cardinality(Second(x)') = Cardinality(Second(x)) - 1
        BY <1>1, <3>1, FS_RemoveElement
      <3> QED
        BY <3>1, <3>2, <3>3, <3>4, <3>5, <3>6
    <2>4. \A x \in Users :
            /\ stats[x].follow \in Nat /\ stats[x].fans \in Nat
            /\ stats'[x].follow = IF x = u THEN Clamped(stats[x].follow - 1) ELSE stats[x].follow
            /\ stats'[x].fans = IF x = v THEN Clamped(stats[x].fans - 1) ELSE stats[x].fans
      BY <2>1, StatsDo DEF Clamped
    <2>5. \A x \in Users : /\ stats'[x].follow = Cardinality(First(x)')
                           /\ stats'[x].fans = Cardinality(Second(x)')
      <3> HIDE DEF First, Second
      <3> QED
        BY <1>2, <2>3, <2>4 DEF Clamped
    <2> QED
      BY <2>2, <2>5 DEF FollowInv, FollowsCounted
  <1>5. CASE UNCHANGED followVars
    BY <1>5 DEF FollowInv, FollowsCounted, followVars
  <1>6. CASE (\E r \in Sends : SendStep(r) \/ LeaveMinute(r)) \/ (\E a \in Acts : ActStep(a))
              \/ NewWeek \/ UNCHANGED vars
    <2>1. UNCHANGED followVars
      BY <1>6 DEF SendStep, CheckRelation, ReserveMinute, ReserveWeek, ToChat, ToChatFails, Commit,
                 RollbackWeek, RollbackMinute, RedisFails, SendCrashes, LeaveMinute, ActStep,
                 ReadFind, ClearFind, MarkRead, ClearMax, ClearSession, NewWeek, vars
    <2> QED
      BY <1>5, <2>1
  <1> QED
    BY <1>3, <1>4, <1>6 DEF Next

(* Both statistics of a user agree with the relation, whatever is repeated  *)
(* or undone: the clamp of StatApplyFollowDelta is never needed.            *)
THEOREM StatisticsAgree == Spec => []FollowsCounted
  <1> DEFINE Inv == Typed /\ FollowInv
  <1>1. Init => Inv
    <2>1. Init => FollowInv
      BY FS_EmptySet DEF Init, FollowInv, FollowsCounted
    <2> QED
      BY <2>1, TypedInit
  <1>2. Inv /\ [Next]_vars => Inv'
    <2> SUFFICES ASSUME Inv, [Next]_vars PROVE Inv'
      OBVIOUS
    <2> QED
      BY TypedNext, FollowNext DEF Typed
  <1>3. Inv => FollowsCounted
    BY DEF FollowInv
  <1> QED
    BY <1>1, <1>2, <1>3, PTL DEF Spec

-----------------------------------------------------------------------------
(* Messages.  A goroutine that has found no message of its subject is the   *)
(* only one of that subject, and a message that no request has found is    *)
(* kept and unread.                                                        *)

MessageRow == [type : Told!Types, actor : Actors, object : Objects, read : BOOLEAN, deleted : BOOLEAN]
Goroutine == [id : Nat, type : Told!Types, actor : Actors, object : Objects, at : {"check", "insert", "again"}]

MsgTables ==
  /\ message \in Seq(MessageRow)
  /\ inserting \subseteq Goroutine /\ IsFiniteSet(inserting)
  /\ started \in 0..MaxMessages /\ Len(message) + Cardinality(inserting) <= started
  /\ DOMAIN call = Calls /\ again \subseteq 1..Len(message)
  /\ \A c \in Calls : /\ call[c].pc \in {"idle", "read", "delete", "done"}
                      /\ call[c].pc \in {"read", "delete"} => call[c].found \subseteq seen

UnseenUnread == \A i \in 1..Len(message) : i \notin seen => ~message[i].read /\ ~message[i].deleted

MsgAlone ==
  /\ \A i, j \in (1..Len(message)) \ again :
       (/\ ~message[i].deleted /\ ~message[j].deleted
        /\ message[i].type \in Told!Once /\ Told!SameSubject(message[i], message[j])) => i = j
  /\ \A g, h \in inserting : g.type \in Told!Once /\ Told!SameSubject(g, h) => g = h
  /\ \A g \in inserting : g.type \in Told!Once /\ g.at = "insert" =>
       \A i \in 1..Len(message) : ~message[i].deleted => ~Told!SameSubject(message[i], g)

MsgInv == MsgTables /\ UnseenUnread /\ (~overlapped => MsgAlone)

LEMMA MsgStarts ==
  ASSUME MsgInv, NEW type \in Told!Types, NEW actor \in Actors, NEW object \in Objects,
         Told!Start(type, actor, object)
  PROVE  MsgInv'
<1>1. PICK g : g = [id |-> started', type |-> type, actor |-> actor, object |-> object,
                    at |-> IF type \in Told!Once THEN "check" ELSE "insert"]
  OBVIOUS
<1>2. /\ started' = started + 1 /\ started' <= MaxMessages /\ inserting' = inserting \cup {g}
      /\ UNCHANGED <<message, call, seen, again>> /\ started \in Nat
  BY <1>1, TalkAssumption DEF Told!Start, MsgInv, MsgTables
<1>3. /\ overlapped => overlapped'
      /\ ~overlapped' => \A h \in inserting : type \in Told!Once => ~Told!SameSubject(h, g)
  BY Zenon, <1>1 DEF Told!Start
<1>4. /\ g \in Goroutine /\ g.type = type /\ (type \in Told!Once => g.at = "check")
  BY <1>1, <1>2 DEF Goroutine
<1>5. MsgTables'
  <2>1. PICK n, c, d : n = Len(message) /\ c = Cardinality(inserting) /\ d = Cardinality(inserting')
    OBVIOUS
  <2>2. IsFiniteSet(inserting) /\ n \in Nat /\ c \in Nat /\ n + c <= started
    BY <2>1, FS_CardinalityType DEF MsgInv, MsgTables
  <2>3. IsFiniteSet(inserting') /\ (d = c \/ d = c + 1)
    BY <1>2, <2>1, <2>2, FS_AddElement
  <2>4. n + d <= started'
    BY <1>2, <2>2, <2>3
  <2>5. started' \in 0..MaxMessages
    BY <1>2, TalkAssumption
  <2> QED
    BY <1>2, <1>4, <2>1, <2>3, <2>4, <2>5 DEF MsgInv, MsgTables
<1>6. UnseenUnread'
  BY <1>2 DEF MsgInv, UnseenUnread
<1>7. ASSUME ~overlapped' PROVE MsgAlone'
  <2>1. MsgAlone
    BY <1>3, <1>7 DEF MsgInv
  <2>2. ASSUME NEW h \in inserting', NEW k \in inserting', h.type \in Told!Once, Told!SameSubject(h, k) PROVE h = k
    <3>1. CASE h \in inserting /\ k \in inserting
      BY <2>1, <2>2, <3>1 DEF MsgAlone
    <3>2. CASE h = g /\ k = g
      BY <3>2
    <3>3. CASE h \in inserting /\ k = g
      BY <1>3, <1>4, <1>7, <2>2, <3>3 DEF Told!SameSubject
    <3>4. CASE h = g /\ k \in inserting
      BY <1>3, <1>4, <1>7, <2>2, <3>4 DEF Told!SameSubject
    <3> QED
      BY <1>2, <2>2, <3>1, <3>2, <3>3, <3>4
  <2>3. \A h \in inserting' : h.type \in Told!Once /\ h.at = "insert" =>
          \A i \in 1..Len(message) : ~message[i].deleted => ~Told!SameSubject(message[i], h)
    BY <1>2, <1>4, <2>1 DEF MsgAlone
  <2> QED
    BY <1>2, <2>1, <2>2, <2>3 DEF MsgAlone, Told!SameSubject
<1> QED
  BY <1>5, <1>6, <1>7 DEF MsgInv

LEMMA MsgChecks ==
  ASSUME MsgInv, NEW g \in inserting, Told!Check(g) \/ Told!CheckFails(g) \/ Told!Lose(g)
  PROVE  MsgInv'
<1>1. PICK h : h = [g EXCEPT !.at = IF Told!Exists(g) THEN "again" ELSE "insert"]
  OBVIOUS
<1>2. UNCHANGED <<message, started, call, seen, again, overlapped>>
  BY DEF Told!Check, Told!CheckFails, Told!Lose
<1>3. \/ inserting' = inserting \ {g}
      \/ inserting' = (inserting \ {g}) \cup {h}
  BY <1>1 DEF Told!Check, Told!CheckFails, Told!Lose
<1>4. g \in Goroutine
  BY DEF MsgInv, MsgTables
<1>5. /\ Told!Exists(g) => h.at = "again"
      /\ h \in Goroutine /\ h.type = g.type /\ h.actor = g.actor /\ h.object = g.object
  BY <1>1, <1>4 DEF Goroutine
<1>6. MsgTables'
  <2>1. PICK n, c, d : n = Len(message) /\ c = Cardinality(inserting) /\ d = Cardinality(inserting')
    OBVIOUS
  <2>2. IsFiniteSet(inserting) /\ n \in Nat /\ c \in Nat /\ n + c <= started /\ started \in Nat
    BY <2>1, FS_CardinalityType, TalkAssumption DEF MsgInv, MsgTables
  <2>3. PICK I : I = inserting \ {g}
    OBVIOUS
  <2>4. IsFiniteSet(I) /\ Cardinality(I) = c - 1 /\ Cardinality(I) \in Nat
    BY <2>1, <2>2, <2>3, FS_RemoveElement, FS_CardinalityType
  <2>5. IsFiniteSet(I \cup {h}) /\ (Cardinality(I \cup {h}) = Cardinality(I) \/ Cardinality(I \cup {h}) = Cardinality(I) + 1)
    BY <2>4, FS_AddElement
  <2>6. IsFiniteSet(inserting') /\ (d = c - 1 \/ d = c)
    <3>1. inserting' = I \/ inserting' = I \cup {h}
      BY <1>3, <2>3
    <3>2. c - 1 + 1 = c
      BY <2>2
    <3> QED
      BY <2>1, <2>4, <2>5, <3>1, <3>2
  <2>7. n + d <= started
    BY <2>2, <2>6
  <2> QED
    BY <1>2, <1>3, <1>5, <2>1, <2>6, <2>7 DEF MsgInv, MsgTables
<1>7. UnseenUnread'
  BY <1>2 DEF MsgInv, UnseenUnread
<1>8. ASSUME ~overlapped PROVE MsgAlone'
  <2>1. MsgAlone
    BY <1>8 DEF MsgInv
  <2>2. ASSUME NEW k \in inserting', NEW l \in inserting', k.type \in Told!Once, Told!SameSubject(k, l) PROVE k = l
    <3>1. CASE k \in inserting /\ l \in inserting
      BY <2>1, <2>2, <3>1 DEF MsgAlone
    <3>2. CASE k = h /\ l = h
      BY <3>2
    <3>3. CASE k \in inserting \ {g} /\ l = h
      <4>1. Told!SameSubject(k, g)
        BY <1>5, <2>2, <3>3 DEF Told!SameSubject
      <4> QED
        BY <2>1, <2>2, <3>3, <4>1 DEF MsgAlone
    <3>4. CASE k = h /\ l \in inserting \ {g}
      <4>1. Told!SameSubject(g, l) /\ g.type \in Told!Once
        BY <1>5, <2>2, <3>4 DEF Told!SameSubject
      <4> QED
        BY <2>1, <3>4, <4>1 DEF MsgAlone
    <3> QED
      BY <1>3, <2>2, <3>1, <3>2, <3>3, <3>4
  <2>3. ASSUME NEW k \in inserting', k.type \in Told!Once, k.at = "insert",
               NEW i \in 1..Len(message), ~message[i].deleted
        PROVE  ~Told!SameSubject(message[i], k)
    <3>1. CASE k \in inserting
      BY <2>1, <2>3, <3>1 DEF MsgAlone
    <3>2. CASE k = h /\ ~Told!Exists(g)
      <4>1. i \in Told!Kept
        BY <2>3 DEF Told!Kept, Told!Ids, MsgInv, MsgTables
      <4> QED
        BY <1>5, <3>2, <4>1 DEF Told!Exists, Told!SameSubject
    <3> QED
      BY <1>3, <1>5, <2>3, <3>1, <3>2
  <2> QED
    BY <1>2, <2>1, <2>2, <2>3 DEF MsgAlone, Told!SameSubject
<1> QED
  BY <1>2, <1>6, <1>7, <1>8 DEF MsgInv

LEMMA MsgInserts ==
  ASSUME MsgInv, NEW g \in inserting, Told!Insert(g)
  PROVE  MsgInv'
<1>1. PICK n, m : /\ n = Len(message)
                  /\ m = [type |-> g.type, actor |-> g.actor, object |-> g.object, read |-> FALSE, deleted |-> FALSE]
  OBVIOUS
<1>2. /\ message' = Append(message, m) /\ inserting' = inserting \ {g} /\ g.at \in {"insert", "again"}
      /\ again' = IF g.at = "again" THEN again \cup {Len(message')} ELSE again
      /\ UNCHANGED <<started, call, seen, overlapped>>
  BY <1>1 DEF Told!Insert
<1>3. message \in Seq(MessageRow) /\ g \in Goroutine /\ n \in Nat
  BY <1>1 DEF MsgInv, MsgTables
<1>4. /\ m \in MessageRow /\ m.type = g.type /\ m.actor = g.actor /\ m.object = g.object /\ ~m.read /\ ~m.deleted
  BY <1>1, <1>3 DEF MessageRow, Goroutine
<1>5. /\ message' \in Seq(MessageRow) /\ Len(message') = n + 1 /\ message'[n + 1] = m
      /\ \A i \in 1..n : message'[i] = message[i]
  BY <1>1, <1>2, <1>3, <1>4
<1>6. \A i \in 1..(n + 1) : i \in 1..n \/ i = n + 1
  BY <1>3
<1>7. MsgTables'
  <2>1. PICK c, d : c = Cardinality(inserting) /\ d = Cardinality(inserting')
    OBVIOUS
  <2>2. IsFiniteSet(inserting) /\ c \in Nat /\ n + c <= started /\ started \in Nat
    BY <1>1, <2>1, FS_CardinalityType, TalkAssumption DEF MsgInv, MsgTables
  <2>3. IsFiniteSet(inserting') /\ d = c - 1
    BY <1>2, <2>1, <2>2, FS_RemoveElement
  <2>4. (n + 1) + d <= started
    BY <1>3, <2>2, <2>3
  <2>5. again' \subseteq 1..(n + 1)
    <3>1. again \subseteq 1..n /\ again' \subseteq again \cup {n + 1}
      BY <1>1, <1>2, <1>5 DEF MsgInv, MsgTables
    <3>2. 1..n \subseteq 1..(n + 1) /\ n + 1 \in 1..(n + 1)
      BY <1>3
    <3> QED
      BY <3>1, <3>2, Zenon
  <2> QED
    BY <1>2, <1>5, <2>1, <2>3, <2>4, <2>5 DEF MsgInv, MsgTables
<1>8. UnseenUnread'
  BY <1>1, <1>2, <1>4, <1>5, <1>6 DEF MsgInv, UnseenUnread
<1>9. ASSUME ~overlapped PROVE MsgAlone'
  <2>1. MsgAlone
    BY <1>9 DEF MsgInv
  <2>2. g.type \in Told!Once /\ n + 1 \notin again' => \A i \in 1..n : ~message[i].deleted => ~Told!SameSubject(message[i], g)
    BY <1>1, <1>2, <1>5, <2>1 DEF MsgAlone
  <2>3. ASSUME NEW i \in (1..(n + 1)) \ again', NEW j \in (1..(n + 1)) \ again', ~message'[i].deleted, ~message'[j].deleted,
               message'[i].type \in Told!Once, Told!SameSubject(message'[i], message'[j])
        PROVE  i = j
    <3>1. CASE i \in 1..n /\ j \in 1..n
      BY <1>1, <1>2, <1>5, <2>1, <2>3, <3>1 DEF MsgAlone
    <3>2. CASE i \in 1..n /\ j = n + 1
      <4>1. Told!SameSubject(message[i], g) /\ ~message[i].deleted /\ g.type \in Told!Once
        BY <1>4, <1>5, <2>3, <3>2 DEF Told!SameSubject
      <4> QED
        BY <2>2, <2>3, <3>2, <4>1
    <3>3. CASE i = n + 1 /\ j \in 1..n
      <4>1. Told!SameSubject(message[j], g) /\ ~message[j].deleted /\ g.type \in Told!Once
        BY <1>4, <1>5, <2>3, <3>3 DEF Told!SameSubject
      <4> QED
        BY <2>2, <2>3, <3>3, <4>1
    <3> QED
      BY <1>6, <2>3, <3>1, <3>2, <3>3
  <2>4. ASSUME NEW k \in inserting', k.type \in Told!Once, k.at = "insert", NEW i \in 1..(n + 1), ~message'[i].deleted
        PROVE  ~Told!SameSubject(message'[i], k)
    <3>1. CASE i \in 1..n
      BY <1>1, <1>2, <1>5, <2>1, <2>4, <3>1 DEF MsgAlone
    <3>2. CASE i = n + 1
      <4>1. Told!SameSubject(message'[i], k) => Told!SameSubject(k, g)
        BY <1>4, <1>5, <3>2 DEF Told!SameSubject
      <4> QED
        BY <1>2, <2>1, <2>4, <4>1 DEF MsgAlone
    <3> QED
      BY <1>6, <3>1, <3>2
  <2>5. \A k, l \in inserting' : k.type \in Told!Once /\ Told!SameSubject(k, l) => k = l
    BY <1>2, <2>1 DEF MsgAlone
  <2> QED
    BY <1>5, <2>3, <2>4, <2>5 DEF MsgAlone, Told!SameSubject
<1> QED
  BY <1>2, <1>7, <1>8, <1>9 DEF MsgInv

\* The receiver's requests.
LEMMA MsgFinds ==
  ASSUME MsgInv, NEW c \in Calls, NEW op \in {"read", "delete"}, NEW found, Told!Find(c, op, found)
  PROVE  MsgInv'
<1>1. /\ call' = [call EXCEPT ![c] = [pc |-> op, found |-> found]] /\ seen' = seen \cup found
      /\ UNCHANGED <<message, inserting, started, again, overlapped>>
  BY DEF Told!Find
<1>2. DOMAIN call' = Calls /\ call'[c].pc = op /\ call'[c].found = found /\ \A b \in Calls \ {c} : call'[b] = call[b]
  BY <1>1 DEF MsgInv, MsgTables
<1>3. \A b \in Calls : /\ call'[b].pc \in {"idle", "read", "delete", "done"}
                       /\ call'[b].pc \in {"read", "delete"} => call'[b].found \subseteq seen'
  BY <1>1, <1>2 DEF MsgInv, MsgTables
<1>4. MsgTables'
  BY <1>1, <1>2, <1>3 DEF MsgInv, MsgTables
<1>5. UnseenUnread'
  BY <1>1 DEF MsgInv, UnseenUnread
<1>6. ~overlapped => MsgAlone'
  BY <1>1 DEF MsgInv, MsgAlone, Told!SameSubject
<1> QED
  BY <1>1, <1>4, <1>5, <1>6 DEF MsgInv

LEMMA MsgMarks ==
  ASSUME MsgInv, NEW c \in Calls, Told!Read(c) \/ Told!Delete(c) \/ Told!UpdateFails(c)
  PROVE  MsgInv'
<1>1. PICK n, found : n = Len(message) /\ found = call[c].found
  OBVIOUS
<1>2. /\ call[c].pc \in {"read", "delete"} /\ call' = [call EXCEPT ![c] = [pc |-> "done"]]
      /\ UNCHANGED <<inserting, started, seen, again, overlapped>>
  BY DEF Told!Read, Told!Delete, Told!UpdateFails
<1>3. message \in Seq(MessageRow) /\ n \in Nat /\ DOMAIN message = 1..n /\ found \subseteq seen
  BY <1>1, <1>2 DEF MsgInv, MsgTables
<1>4. /\ DOMAIN message' = 1..n /\ message' = [i \in 1..n |-> message'[i]]
      /\ \A i \in 1..n : \/ message'[i] = message[i]
                         \/ i \in found /\ message'[i] \in {[message[i] EXCEPT !.read = TRUE], [message[i] EXCEPT !.deleted = TRUE]}
  <2>1. CASE Told!Read(c)
    <3>1. message' = [i \in 1..n |-> IF i \in found \cap Told!Kept THEN [message[i] EXCEPT !.read = TRUE] ELSE message[i]]
      BY <1>1, <1>3, <2>1 DEF Told!Read, Told!MarkFound, Told!Ids
    <3> QED
      BY <3>1
  <2>2. CASE Told!Delete(c)
    <3>1. message' = [i \in 1..n |-> IF i \in found THEN [message[i] EXCEPT !.deleted = TRUE] ELSE message[i]]
      BY <1>1, <1>3, <2>2 DEF Told!Delete, Told!Ids
    <3> QED
      BY <3>1
  <2>3. CASE Told!UpdateFails(c)
    <3>1. message' = message /\ message = [i \in 1..n |-> message[i]]
      BY <1>3, <2>3 DEF Told!UpdateFails
    <3> QED
      BY <1>3, <3>1
  <2> QED
    BY <2>1, <2>2, <2>3
<1>5. ASSUME NEW i \in 1..n
      PROVE  /\ message'[i] \in MessageRow /\ message'[i].type = message[i].type
             /\ message'[i].actor = message[i].actor /\ message'[i].object = message[i].object
             /\ message[i].deleted => message'[i].deleted
             /\ i \notin found => message'[i] = message[i]
  <2>1. message[i] \in MessageRow
    BY <1>1, <1>3
  <2>2. CASE message'[i] = message[i]
    BY <2>1, <2>2
  <2>3. CASE i \in found /\ message'[i] = [message[i] EXCEPT !.read = TRUE]
    BY <2>1, <2>3 DEF MessageRow
  <2>4. CASE i \in found /\ message'[i] = [message[i] EXCEPT !.deleted = TRUE]
    BY <2>1, <2>4 DEF MessageRow
  <2> QED
    BY <1>4, <2>2, <2>3, <2>4
<1>6. message' \in Seq(MessageRow) /\ Len(message') = n
  <2>1. message' \in [1..n -> MessageRow]
    BY <1>4, <1>5
  <2> QED
    BY <1>3, <2>1
<1>7. MsgTables'
  <2>1. DOMAIN call' = Calls /\ call'[c].pc = "done" /\ \A b \in Calls \ {c} : call'[b] = call[b]
    BY <1>2 DEF MsgInv, MsgTables
  <2>2. \A b \in Calls : /\ call'[b].pc \in {"idle", "read", "delete", "done"}
                         /\ call'[b].pc \in {"read", "delete"} => call'[b].found \subseteq seen'
    BY <1>2, <2>1 DEF MsgInv, MsgTables
  <2> QED
    BY <1>1, <1>2, <1>6, <2>1, <2>2 DEF MsgInv, MsgTables
<1>8. UnseenUnread'
  BY <1>1, <1>2, <1>3, <1>5, <1>6 DEF MsgInv, UnseenUnread
<1>9. ASSUME ~overlapped PROVE MsgAlone'
  <2>1. MsgAlone
    BY <1>9 DEF MsgInv
  <2>2. ASSUME NEW i \in (1..n) \ again, NEW j \in (1..n) \ again, ~message'[i].deleted, ~message'[j].deleted,
               message'[i].type \in Told!Once, Told!SameSubject(message'[i], message'[j])
        PROVE  i = j
    BY <1>1, <1>5, <2>1, <2>2 DEF MsgAlone, Told!SameSubject
  <2>3. ASSUME NEW k \in inserting, k.type \in Told!Once, k.at = "insert", NEW i \in 1..n, ~message'[i].deleted
        PROVE  ~Told!SameSubject(message'[i], k)
    BY <1>1, <1>5, <2>1, <2>3 DEF MsgAlone, Told!SameSubject
  <2> QED
    BY <1>2, <1>6, <2>1, <2>2, <2>3 DEF MsgAlone, Told!SameSubject
<1> QED
  BY <1>2, <1>7, <1>8, <1>9 DEF MsgInv

LEMMA MsgFirst == Told!MsgInit => MsgInv
<1> SUFFICES ASSUME Told!MsgInit PROVE MsgInv
  OBVIOUS
<1>1. message = <<>> /\ inserting = {} /\ started = 0 /\ call = [c \in Calls |-> [pc |-> "idle"]] /\ again = {}
  BY DEF Told!MsgInit
<1>2. MsgTables
  BY <1>1, FS_EmptySet, TalkAssumption DEF MsgTables
<1> QED
  BY <1>1, <1>2 DEF MsgInv, UnseenUnread, MsgAlone

LEMMA MsgKept == MsgInv /\ Told!MsgNext => MsgInv'
<1> SUFFICES ASSUME MsgInv, Told!MsgNext PROVE MsgInv'
  OBVIOUS
<1>1. ASSUME NEW c \in Calls, NEW op \in {"read", "delete"}, NEW i \in Told!Ids, Told!FindOne(c, op, i) PROVE MsgInv'
  BY <1>1, MsgFinds DEF Told!FindOne
<1>2. ASSUME NEW c \in Calls, NEW op \in {"read", "delete"}, NEW t \in 1..3, Told!FindType(c, op, t) PROVE MsgInv'
  BY <1>2, MsgFinds DEF Told!FindType
<1> QED
  BY <1>1, <1>2, MsgStarts, MsgChecks, MsgInserts, MsgMarks DEF Told!MsgNext

LEMMA MsgStill == MsgInv /\ UNCHANGED msgVars => MsgInv'
<1> SUFFICES ASSUME MsgInv, UNCHANGED msgVars PROVE MsgInv'
  OBVIOUS
<1>1. UNCHANGED <<message, inserting, started, call, seen, again, overlapped>>
  BY DEF msgVars
<1>2. MsgTables'
  BY <1>1 DEF MsgInv, MsgTables
<1>3. UnseenUnread'
  BY <1>1 DEF MsgInv, UnseenUnread
<1>4. ~overlapped => MsgAlone'
  BY <1>1 DEF MsgInv, MsgAlone, Told!SameSubject
<1> QED
  BY <1>1, <1>2, <1>3, <1>4 DEF MsgInv

LEMMA MsgTells == MsgInv => ToldOnceAndSeen /\ Told!MsgTypeOK
<1> SUFFICES ASSUME MsgInv PROVE ToldOnceAndSeen /\ Told!MsgTypeOK
  OBVIOUS
<1>1. PICK n : n = Len(message)
  OBVIOUS
<1>2. message \in Seq(MessageRow) /\ n \in Nat /\ DOMAIN message = 1..n
  BY <1>1 DEF MsgInv, MsgTables
<1>3. \A i \in 1..n : message[i] \in MessageRow
  BY <1>1, <1>2
<1>4. ~overlapped => \A i, j \in Told!Kept \ again :
        (message[i].type \in Told!Once /\ Told!SameSubject(message[i], message[j])) => i = j
  BY <1>1, <1>2 DEF MsgInv, MsgAlone, Told!Kept, Told!Ids
<1>5. ASSUME NEW i \in Told!Ids \ seen PROVE \E t \in 1..3 : i \in Told!Unread(t)
  <2>1. i \in 1..n /\ ~message[i].read /\ ~message[i].deleted
    BY <1>1, <1>2, <1>5 DEF MsgInv, UnseenUnread, Told!Ids
  <2>2. message[i].type \in Told!Types
    BY <1>3, <2>1 DEF MessageRow
  <2>3. \E t \in 1..3 : message[i].type \in Told!TypeList(t)
    BY <2>2 DEF Told!Types, Told!TypeList
  <2> QED
    BY <1>2, <2>1, <2>3 DEF Told!Unread, Told!Kept, Told!Ids
<1>6. ToldOnceAndSeen
  BY <1>4, <1>5 DEF ToldOnceAndSeen, Told!ToldOnceAndSeen
<1>7. Told!MsgTypeOK
  <2>1. \A i \in Told!Ids : message[i].type \in Told!Types /\ message[i].actor \in Actors /\ message[i].object \in Objects
    BY <1>2, <1>3 DEF Told!Ids, MessageRow
  <2>2. Len(message) <= started
    <3>1. Cardinality(inserting) \in Nat
      BY FS_CardinalityType DEF MsgInv, MsgTables
    <3>2. started \in Nat /\ n + Cardinality(inserting) <= started
      BY <1>1, TalkAssumption DEF MsgInv, MsgTables
    <3> QED
      BY <1>1, <1>2, <3>1, <3>2
  <2>3. \A g \in inserting : g.at \in {"check", "insert", "again"}
    BY DEF MsgInv, MsgTables, Goroutine
  <2> QED
    BY <1>1, <1>2, <2>1, <2>2, <2>3 DEF Told!MsgTypeOK, Told!Ids, MsgInv, MsgTables
<1> QED
  BY <1>6, <1>7

-----------------------------------------------------------------------------
(* Notices.  What was confirmed to a user is in the user's row.             *)

NoticeRow == [title : Topics, rule : Global!Rules, created : 0..MaxTime, expires : Nat, deleted : BOOLEAN]
UserRow == [read : BOOLEAN, deleted : BOOLEAN]

NoticeTables ==
  /\ notice \in Seq(NoticeRow)
  /\ DOMAIN mine = Members
  /\ \A u \in Members : /\ DOMAIN mine[u] \subseteq 1..Len(notice)
                        /\ \A n \in DOMAIN mine[u] : mine[u][n] \in UserRow
  /\ joined \in [Members -> 0..MaxTime] /\ now \in 0..MaxTime

NoticeRequest(state) ==
  /\ state.pc \in {"idle", "create", "find", "read", "remove", "adminRemove", "done"}
  /\ state.pc = "create" => state.row \in NoticeRow
  /\ state.pc = "find" => state.user \in Members /\ state.op \in {"read", "remove"}
  /\ state.pc \in {"read", "remove"} => state.user \in Members /\ state.found \subseteq 1..Len(notice)

NoticeRequests == DOMAIN ask = Asks /\ \A r \in Asks : NoticeRequest(ask[r])

ChoicesInRows ==
  \A u \in Members : \A n :
    /\ <<u, n>> \in hasRead => n \in DOMAIN mine[u] /\ mine[u][n].read
    /\ <<u, n>> \in hasRemoved => n \in DOMAIN mine[u] /\ mine[u][n].deleted

NoticeInv == NoticeTables /\ NoticeRequests /\ ChoicesInRows

LEMMA NoticeRows ==
  ASSUME NoticeTables, NEW u \in Members, NEW n
  PROVE  /\ n \in Global!Tombs(u) <=> n \in DOMAIN mine[u] /\ mine[u][n].deleted
         /\ Global!IsRead(u, n) <=> n \in DOMAIN mine[u] /\ mine[u][n].read
<1>1. n \in DOMAIN mine[u] => Global!Row(u, n) = mine[u][n] /\ mine[u][n] # NoRow /\ n \in Global!Notices
  BY TalkAssumption DEF Global!Row, Global!Notices, NoticeTables, UserRow
<1>2. n \notin DOMAIN mine[u] => Global!Row(u, n) = NoRow
  BY DEF Global!Row
<1> QED
  BY <1>1, <1>2 DEF Global!Tombs, Global!IsRead

\* A step of one request that leaves the tables as they are.
LEMMA NoticeAsks ==
  ASSUME NoticeInv, NEW r \in Asks, NEW state, Global!Reply(r, state), NoticeRequest(state),
         UNCHANGED <<notice, mine, joined, now, hasRead, hasRemoved>>
  PROVE  NoticeInv'
<1>1. NoticeTables'
  BY DEF NoticeInv, NoticeTables
<1>2. DOMAIN ask' = Asks /\ ask'[r] = state /\ \A q \in Asks \ {r} : ask'[q] = ask[q]
  BY DEF Global!Reply, NoticeInv, NoticeRequests
<1>3. \A q \in Asks : NoticeRequest(ask'[q])
  BY <1>2 DEF NoticeInv, NoticeRequests
<1>4. NoticeRequests'
  BY <1>2, <1>3 DEF NoticeRequests, NoticeRequest
<1>5. ChoicesInRows'
  BY DEF NoticeInv, ChoicesInRows
<1> QED
  BY <1>1, <1>4, <1>5 DEF NoticeInv

\* The request is answered; the table of notices may have grown.
LEMMA NoticeAnswers ==
  ASSUME NoticeInv, NEW r \in Asks, Global!Reply(r, Global!Answered), NoticeTables',
         Len(notice) <= Len(notice')
  PROVE  NoticeRequests'
<1>1. DOMAIN ask' = Asks /\ ask'[r].pc = "done" /\ \A q \in Asks \ {r} : ask'[q] = ask[q]
  BY DEF Global!Reply, Global!Answered, NoticeInv, NoticeRequests
<1>2. 1..Len(notice) \subseteq 1..Len(notice')
  BY DEF NoticeInv, NoticeTables
<1>3. ASSUME NEW q \in Asks PROVE NoticeRequest(ask[q])'
  <2>1. CASE q = r
    BY <1>1, <2>1 DEF NoticeRequest
  <2>2. CASE q # r
    <3>1. NoticeRequest(ask[q]) /\ ask'[q] = ask[q]
      BY <1>1, <2>2 DEF NoticeInv, NoticeRequests
    <3> QED
      BY <1>2, <3>1 DEF NoticeRequest
  <2> QED
    BY <2>1, <2>2
<1> QED
  BY <1>1, <1>3 DEF NoticeRequests

LEMMA NoticeCreates ==
  ASSUME NoticeInv, NEW r \in Asks, Global!CreateNotice(r)
  PROVE  NoticeInv'
<1>1. PICK row : row = [ask[r].row EXCEPT !.created = now]
  OBVIOUS
<1>2. /\ ask[r].pc = "create" /\ notice' = Append(notice, row) /\ Global!Reply(r, Global!Answered)
      /\ UNCHANGED <<mine, joined, now, hasRead, hasRemoved>>
  BY <1>1 DEF Global!CreateNotice
<1>3. ask[r].row \in NoticeRow /\ now \in 0..MaxTime /\ notice \in Seq(NoticeRow) /\ Len(notice) \in Nat
  BY <1>2 DEF NoticeInv, NoticeTables, NoticeRequests, NoticeRequest
<1>4. row \in NoticeRow
  BY <1>1, <1>3 DEF NoticeRow
<1>5. notice' \in Seq(NoticeRow) /\ Len(notice') = Len(notice) + 1
  BY <1>2, <1>3, <1>4
<1>6. NoticeTables' /\ Len(notice) <= Len(notice')
  <2>1. 1..Len(notice) \subseteq 1..Len(notice')
    BY <1>3, <1>5
  <2> QED
    BY <1>2, <1>3, <1>5, <2>1 DEF NoticeInv, NoticeTables
<1>7. ChoicesInRows'
  BY <1>2 DEF NoticeInv, ChoicesInRows
<1> QED
  BY <1>2, <1>6, <1>7, NoticeAnswers DEF NoticeInv

\* What SetRows makes of the rows of one user.
LEMMA NoticeSets ==
  ASSUME NoticeTables, NEW u \in Members, NEW new, DOMAIN new \subseteq 1..Len(notice),
         \A n \in DOMAIN new : new[n] \in UserRow, Global!SetRows(u, new), UNCHANGED <<notice, joined, now>>
  PROVE  /\ NoticeTables'
         /\ \A v \in Members \ {u} : mine'[v] = mine[v]
         /\ DOMAIN mine'[u] = (DOMAIN mine[u]) \cup (DOMAIN new)
         /\ \A n \in DOMAIN new : mine'[u][n] = new[n]
         /\ \A n \in (DOMAIN mine[u]) \ (DOMAIN new) : mine'[u][n] = mine[u][n]
<1>1. PICK rows : rows = [n \in (DOMAIN mine[u]) \cup (DOMAIN new) |-> IF n \in DOMAIN new THEN new[n] ELSE mine[u][n]]
  OBVIOUS
<1>2. mine' = [mine EXCEPT ![u] = rows] /\ DOMAIN mine = Members
  BY <1>1 DEF Global!SetRows, NoticeTables
<1>3. mine'[u] = rows /\ DOMAIN mine' = Members /\ \A v \in Members \ {u} : mine'[v] = mine[v]
  BY <1>2
<1>4. /\ DOMAIN rows = (DOMAIN mine[u]) \cup (DOMAIN new)
      /\ \A n \in DOMAIN new : rows[n] = new[n]
      /\ \A n \in (DOMAIN mine[u]) \ (DOMAIN new) : rows[n] = mine[u][n]
  BY <1>1
<1>5. ASSUME NEW v \in Members
      PROVE  DOMAIN mine'[v] \subseteq 1..Len(notice) /\ \A n \in DOMAIN mine'[v] : mine'[v][n] \in UserRow
  <2>1. DOMAIN mine[v] \subseteq 1..Len(notice) /\ \A n \in DOMAIN mine[v] : mine[v][n] \in UserRow
    BY DEF NoticeTables
  <2>2. CASE v # u
    BY <1>3, <2>1, <2>2
  <2>3. CASE v = u
    BY <1>3, <1>4, <2>1, <2>3
  <2> QED
    BY <2>2, <2>3
<1>6. NoticeTables'
  BY <1>3, <1>5 DEF NoticeTables
<1> QED
  BY <1>3, <1>4, <1>6

LEMMA NoticeReads ==
  ASSUME NoticeInv, NEW r \in Asks, Global!ReadNotices(r)
  PROVE  NoticeInv'
<1>1. PICK u, hit, new : /\ u = ask[r].user
                         /\ hit = {n \in ask[r].found : n \notin Global!Tombs(u) /\ ~Global!IsRead(u, n)}
                         /\ new = [n \in hit |-> [read |-> TRUE, deleted |-> FALSE]]
  OBVIOUS
<1>2. /\ ask[r].pc = "read" /\ Global!SetRows(u, new) /\ hasRead' = hasRead \cup {<<u, n>> : n \in hit}
      /\ Global!Reply(r, Global!Answered) /\ UNCHANGED <<notice, joined, now, hasRemoved>>
  BY <1>1 DEF Global!ReadNotices
<1>3. u \in Members /\ hit \subseteq 1..Len(notice) /\ NoticeTables /\ Len(notice) <= Len(notice')
  BY <1>1, <1>2 DEF NoticeInv, NoticeTables, NoticeRequests, NoticeRequest
<1>4. DOMAIN new = hit /\ \A n \in hit : new[n] \in UserRow /\ new[n].read
  BY <1>1 DEF UserRow
<1>5. /\ NoticeTables'
      /\ \A v \in Members \ {u} : mine'[v] = mine[v]
      /\ DOMAIN mine'[u] = (DOMAIN mine[u]) \cup (DOMAIN new)
      /\ \A n \in DOMAIN new : mine'[u][n] = new[n]
      /\ \A n \in (DOMAIN mine[u]) \ (DOMAIN new) : mine'[u][n] = mine[u][n]
  BY <1>2, <1>3, <1>4, NoticeSets
<1>6. ASSUME NEW v \in Members, NEW n
      PROVE  /\ <<v, n>> \in hasRead' => n \in DOMAIN mine'[v] /\ mine'[v][n].read
             /\ <<v, n>> \in hasRemoved' => n \in DOMAIN mine'[v] /\ mine'[v][n].deleted
  <2>1. /\ <<v, n>> \in hasRead => n \in DOMAIN mine[v] /\ mine[v][n].read
        /\ <<v, n>> \in hasRemoved => n \in DOMAIN mine[v] /\ mine[v][n].deleted
    BY DEF NoticeInv, ChoicesInRows
  <2>2. CASE v # u
    BY <1>2, <1>5, <2>1, <2>2
  <2>3. CASE v = u /\ n \in hit
    <3>1. ~(n \in DOMAIN mine[u] /\ mine[u][n].deleted)
      BY <1>1, <1>3, <2>3, NoticeRows
    <3> QED
      BY <1>2, <1>4, <1>5, <2>1, <2>3, <3>1
  <2>4. CASE v = u /\ n \notin hit
    BY <1>2, <1>4, <1>5, <2>1, <2>4
  <2> QED
    BY <2>2, <2>3, <2>4
<1>7. ChoicesInRows'
  BY <1>6 DEF ChoicesInRows
<1> QED
  BY <1>2, <1>3, <1>5, <1>7, NoticeAnswers DEF NoticeInv

LEMMA NoticeRemoves ==
  ASSUME NoticeInv, NEW r \in Asks, Global!RemoveForUser(r)
  PROVE  NoticeInv'
<1>1. PICK u, hit, new : /\ u = ask[r].user
                         /\ hit = ask[r].found \ Global!Tombs(u)
                         /\ new = [n \in hit |-> [read |-> Global!IsRead(u, n), deleted |-> TRUE]]
  OBVIOUS
<1>2. /\ ask[r].pc = "remove" /\ Global!SetRows(u, new) /\ hasRemoved' = hasRemoved \cup {<<u, n>> : n \in hit}
      /\ Global!Reply(r, Global!Answered) /\ UNCHANGED <<notice, joined, now, hasRead>>
  BY <1>1 DEF Global!RemoveForUser
<1>3. u \in Members /\ hit \subseteq 1..Len(notice) /\ NoticeTables /\ Len(notice) <= Len(notice')
  BY <1>1, <1>2 DEF NoticeInv, NoticeTables, NoticeRequests, NoticeRequest
<1>4. \A n \in hit : new[n].deleted /\ new[n].read = Global!IsRead(u, n) /\ new[n] = [read |-> new[n].read, deleted |-> TRUE]
  BY <1>1
<1>5. DOMAIN new = hit /\ \A n \in hit : new[n] \in UserRow
  <2>1. \A n : Global!IsRead(u, n) \in BOOLEAN
    <3>1. ASSUME NEW n PROVE Global!IsRead(u, n) \in BOOLEAN
      BY Zenon DEF Global!IsRead
    <3> QED
      BY <3>1
  <2> QED
    BY <1>1, <1>4, <2>1 DEF UserRow
<1>6. /\ NoticeTables'
      /\ \A v \in Members \ {u} : mine'[v] = mine[v]
      /\ DOMAIN mine'[u] = (DOMAIN mine[u]) \cup (DOMAIN new)
      /\ \A n \in DOMAIN new : mine'[u][n] = new[n]
      /\ \A n \in (DOMAIN mine[u]) \ (DOMAIN new) : mine'[u][n] = mine[u][n]
  BY <1>2, <1>3, <1>5, NoticeSets
<1>7. ASSUME NEW v \in Members, NEW n
      PROVE  /\ <<v, n>> \in hasRead' => n \in DOMAIN mine'[v] /\ mine'[v][n].read
             /\ <<v, n>> \in hasRemoved' => n \in DOMAIN mine'[v] /\ mine'[v][n].deleted
  <2>1. /\ <<v, n>> \in hasRead => n \in DOMAIN mine[v] /\ mine[v][n].read
        /\ <<v, n>> \in hasRemoved => n \in DOMAIN mine[v] /\ mine[v][n].deleted
    BY DEF NoticeInv, ChoicesInRows
  <2>2. CASE v # u
    BY <1>2, <1>6, <2>1, <2>2
  <2>3. CASE v = u /\ n \in hit
    <3>1. Global!IsRead(u, n) <=> n \in DOMAIN mine[u] /\ mine[u][n].read
      BY <1>3, NoticeRows
    <3>2. mine'[u][n] = new[n] /\ n \in DOMAIN mine'[u]
      BY <1>5, <1>6, <2>3
    <3> QED
      BY <1>2, <1>4, <2>1, <2>3, <3>1, <3>2
  <2>4. CASE v = u /\ n \notin hit
    BY <1>2, <1>5, <1>6, <2>1, <2>4
  <2> QED
    BY <2>2, <2>3, <2>4
<1>8. ChoicesInRows'
  BY <1>7 DEF ChoicesInRows
<1> QED
  BY <1>2, <1>3, <1>6, <1>8, NoticeAnswers DEF NoticeInv

LEMMA NoticeAdminRemoves ==
  ASSUME NoticeInv, NEW r \in Asks, Global!AdminRemove(r)
  PROVE  NoticeInv'
<1>1. PICK found, len : found = ask[r].found /\ len = Len(notice)
  OBVIOUS
<1>2. NoticeTables /\ notice \in Seq(NoticeRow) /\ len \in Nat /\ DOMAIN notice = 1..len
  BY <1>1 DEF NoticeInv, NoticeTables
<1>3. /\ notice' = [n \in 1..len |-> IF n \in found THEN [notice[n] EXCEPT !.deleted = TRUE] ELSE notice[n]]
      /\ mine' = [u \in Members |-> [n \in DOMAIN mine[u] |->
                    IF n \in found THEN [mine[u][n] EXCEPT !.deleted = TRUE] ELSE mine[u][n]]]
      /\ Global!Reply(r, Global!Answered) /\ UNCHANGED <<joined, now, hasRead, hasRemoved>>
  BY <1>1, <1>2 DEF Global!AdminRemove, Global!Notices
<1>4. notice' \in Seq(NoticeRow) /\ Len(notice') = len
  <2>1. ASSUME NEW n \in 1..len
        PROVE  (IF n \in found THEN [notice[n] EXCEPT !.deleted = TRUE] ELSE notice[n]) \in NoticeRow
    <3>1. notice[n] \in NoticeRow
      BY <1>1, <1>2
    <3> QED
      BY <3>1 DEF NoticeRow
  <2>2. notice' \in [1..len -> NoticeRow]
    BY <1>3, <2>1
  <2> QED
    BY <1>2, <2>2
<1>5. ASSUME NEW u \in Members, NEW n \in DOMAIN mine[u]
      PROVE  /\ mine[u][n] \in UserRow /\ mine'[u][n] \in UserRow /\ mine'[u][n].read = mine[u][n].read
             /\ mine[u][n].deleted => mine'[u][n].deleted
  <2>1. mine[u][n] \in UserRow
    BY <1>2 DEF NoticeTables
  <2>2. mine'[u][n] = IF n \in found THEN [mine[u][n] EXCEPT !.deleted = TRUE] ELSE mine[u][n]
    BY <1>3
  <2> QED
    BY <2>1, <2>2 DEF UserRow
<1>6. DOMAIN mine' = Members /\ \A u \in Members : DOMAIN mine'[u] = DOMAIN mine[u]
  BY <1>3
<1>7. NoticeTables'
  BY <1>1, <1>2, <1>3, <1>4, <1>5, <1>6 DEF NoticeTables
<1>8. Len(notice) <= Len(notice')
  BY <1>1, <1>2, <1>4
<1>9. ASSUME NEW v \in Members, NEW n
      PROVE  /\ <<v, n>> \in hasRead' => n \in DOMAIN mine'[v] /\ mine'[v][n].read
             /\ <<v, n>> \in hasRemoved' => n \in DOMAIN mine'[v] /\ mine'[v][n].deleted
  <2>1. /\ <<v, n>> \in hasRead => n \in DOMAIN mine[v] /\ mine[v][n].read
        /\ <<v, n>> \in hasRemoved => n \in DOMAIN mine[v] /\ mine[v][n].deleted
    BY DEF NoticeInv, ChoicesInRows
  <2>2. DOMAIN mine'[v] = DOMAIN mine[v] /\ hasRead' = hasRead /\ hasRemoved' = hasRemoved
    BY <1>3, <1>6
  <2>3. n \in DOMAIN mine[v] =>
          /\ mine'[v][n].read = mine[v][n].read
          /\ mine[v][n].deleted => mine'[v][n].deleted
    BY <1>5
  <2> QED
    BY <2>1, <2>2, <2>3
<1>10. ChoicesInRows'
  BY <1>9 DEF ChoicesInRows
<1> QED
  BY <1>3, <1>7, <1>8, <1>10, NoticeAnswers DEF NoticeInv

LEMMA NoticeStarts ==
  ASSUME NoticeInv, NEW r \in Asks,
         \/ \E t \in Topics, rule \in Global!Rules, days \in 1..2 : Global!CreateCheck(r, t, rule, days)
         \/ \E u \in Members, op \in {"read", "remove"}, list \in SUBSET Global!Notices : Global!LoadState(r, u, op, list)
         \/ \E list \in SUBSET Global!Notices : Global!AdminFind(r, list)
         \/ Global!FindVisible(r)
  PROVE  NoticeInv'
<1>1. NoticeTables /\ DOMAIN notice = 1..Len(notice) /\ now \in 0..MaxTime /\ MaxTime \in Nat
  BY TalkAssumption DEF NoticeInv, NoticeTables
<1>2. ASSUME NEW t \in Topics, NEW rule \in Global!Rules, NEW days \in 1..2, Global!CreateCheck(r, t, rule, days) PROVE NoticeInv'
  <2> DEFINE row == [title |-> t, rule |-> rule, created |-> now, expires |-> now + days, deleted |-> FALSE]
             state == [pc |-> "create", row |-> row]
  <2>1. Global!Reply(r, state) /\ UNCHANGED <<notice, mine, joined, now, hasRead, hasRemoved>>
    BY <1>2 DEF Global!CreateCheck
  <2>2. row \in NoticeRow
    BY <1>1 DEF NoticeRow
  <2>3. state.pc = "create" /\ state.row = row
    OBVIOUS
  <2> HIDE DEF row, state
  <2>4. NoticeRequest(state)
    BY <2>2, <2>3 DEF NoticeRequest
  <2> QED
    BY <2>1, <2>4, NoticeAsks
<1>3. ASSUME NEW u \in Members, NEW op \in {"read", "remove"}, NEW list, Global!LoadState(r, u, op, list) PROVE NoticeInv'
  <2> DEFINE state == [pc |-> "find", op |-> op, user |-> u, list |-> list, tombs |-> Global!Tombs(u)]
  <2>1. Global!Reply(r, state) /\ UNCHANGED <<notice, mine, joined, now, hasRead, hasRemoved>>
    BY <1>3 DEF Global!LoadState
  <2>2. state.pc = "find" /\ state.op = op /\ state.user = u
    OBVIOUS
  <2> HIDE DEF state
  <2>3. NoticeRequest(state)
    BY <2>2 DEF NoticeRequest
  <2> QED
    BY <2>1, <2>3, NoticeAsks
<1>4. ASSUME NEW list, Global!AdminFind(r, list) PROVE NoticeInv'
  <2> DEFINE state == [pc |-> "adminRemove", found |-> list]
  <2>1. Global!Reply(r, state) /\ UNCHANGED <<notice, mine, joined, now, hasRead, hasRemoved>>
    BY <1>4 DEF Global!AdminFind
  <2>2. state.pc = "adminRemove"
    OBVIOUS
  <2> HIDE DEF state
  <2>3. NoticeRequest(state)
    BY <2>2 DEF NoticeRequest
  <2> QED
    BY <2>1, <2>3, NoticeAsks
<1>5. ASSUME Global!FindVisible(r) PROVE NoticeInv'
  <2>1. PICK found : found = Global!Visible(ask[r].user, ask[r].tombs) \cap ask[r].list
    OBVIOUS
  <2>2. found \subseteq 1..Len(notice)
    BY <1>1, <2>1 DEF Global!Visible, Global!Notices
  <2>3. ask[r].user \in Members /\ ask[r].op \in {"read", "remove"}
    BY <1>5 DEF Global!FindVisible, NoticeInv, NoticeRequests, NoticeRequest
  <2> DEFINE state == IF found = {} THEN [pc |-> "done"] ELSE [pc |-> ask[r].op, user |-> ask[r].user, found |-> found]
  <2>4. Global!Reply(r, state) /\ UNCHANGED <<notice, mine, joined, now, hasRead, hasRemoved>>
    BY <1>5, <2>1 DEF Global!FindVisible, Global!Answered
  <2>5. state.pc = "done" \/ (state.pc = ask[r].op /\ state.user = ask[r].user /\ state.found = found)
    OBVIOUS
  <2> HIDE DEF state
  <2>6. NoticeRequest(state)
    BY <2>2, <2>3, <2>5 DEF NoticeRequest
  <2> QED
    BY <2>4, <2>6, NoticeAsks
<1> QED
  BY <1>2, <1>3, <1>4, <1>5

LEMMA NoticeStill ==
  ASSUME NoticeInv, UNCHANGED <<notice, mine, joined, ask, hasRead, hasRemoved>>, now' \in 0..MaxTime
  PROVE  NoticeInv'
<1>1. NoticeTables'
  BY DEF NoticeInv, NoticeTables
<1>2. NoticeRequests'
  BY DEF NoticeInv, NoticeRequests, NoticeRequest
<1>3. ChoicesInRows'
  BY DEF NoticeInv, ChoicesInRows
<1> QED
  BY <1>1, <1>2, <1>3 DEF NoticeInv

LEMMA NoticeFirst == Global!NoticeInit => NoticeInv
<1> SUFFICES ASSUME Global!NoticeInit PROVE NoticeInv
  OBVIOUS
<1>1. /\ notice = <<>> /\ mine = [u \in Members |-> <<>>] /\ joined \in [Members -> 0..MaxTime] /\ now = 0
      /\ ask = [r \in Asks |-> [pc |-> "idle"]] /\ hasRead = {} /\ hasRemoved = {}
  BY DEF Global!NoticeInit
<1>2. NoticeTables
  BY <1>1, TalkAssumption DEF NoticeTables
<1>3. NoticeRequests
  BY <1>1 DEF NoticeRequests, NoticeRequest
<1> QED
  BY <1>1, <1>2, <1>3 DEF NoticeInv, ChoicesInRows

LEMMA NoticeKept == NoticeInv /\ Global!NoticeNext => NoticeInv'
<1> SUFFICES ASSUME NoticeInv, Global!NoticeNext PROVE NoticeInv'
  OBVIOUS
<1>1. CASE Global!Pass
  <2>1. now' \in 0..MaxTime
    BY <1>1, TalkAssumption DEF Global!Pass, NoticeInv, NoticeTables
  <2> QED
    BY <1>1, <2>1, NoticeStill DEF Global!Pass
<1> QED
  BY <1>1, NoticeStarts, NoticeCreates, NoticeReads, NoticeRemoves, NoticeAdminRemoves DEF Global!NoticeNext

LEMMA NoticeTells == NoticeInv => UserChoicesStay /\ Global!NoticeTypeOK
<1> SUFFICES ASSUME NoticeInv PROVE UserChoicesStay /\ Global!NoticeTypeOK
  OBVIOUS
<1>1. ASSUME NEW u \in Members, NEW n \in Global!Visible(u, Global!Tombs(u))
      PROVE  <<u, n>> \notin hasRemoved /\ (<<u, n>> \in hasRead => Global!IsRead(u, n))
  <2>1. n \notin Global!Tombs(u)
    BY DEF Global!Visible
  <2> QED
    BY <2>1, NoticeRows DEF NoticeInv, ChoicesInRows
<1>2. UserChoicesStay
  BY <1>1 DEF UserChoicesStay, Global!UserChoicesStay
<1>3. Global!NoticeTypeOK
  <2>1. \A n \in 1..Len(notice) : notice[n] \in NoticeRow
    BY DEF NoticeInv, NoticeTables
  <2>2. DOMAIN notice = 1..Len(notice)
    BY DEF NoticeInv, NoticeTables
  <2>3. \A n \in Global!Notices : /\ notice[n].title \in Topics /\ notice[n].rule \in Global!Rules
                                  /\ notice[n].created \in 0..MaxTime /\ notice[n].deleted \in BOOLEAN
    BY <2>1, <2>2 DEF Global!Notices, NoticeRow
  <2>4. \A u \in Members : DOMAIN mine[u] \subseteq Global!Notices
    BY <2>2 DEF Global!Notices, NoticeInv, NoticeTables
  <2> QED
    BY <2>3, <2>4 DEF Global!NoticeTypeOK, NoticeInv, NoticeTables, NoticeRequests, NoticeRequest
<1> QED
  BY <1>2, <1>3

LEMMA TellsKept == MsgInv /\ NoticeInv /\ [TalkNext]_<<part, vars, msgVars, noticeVars>> => MsgInv' /\ NoticeInv'
<1> SUFFICES ASSUME MsgInv, NoticeInv, [TalkNext]_<<part, vars, msgVars, noticeVars>> PROVE MsgInv' /\ NoticeInv'
  OBVIOUS
<1>1. UNCHANGED noticeVars => NoticeInv'
  BY NoticeStill DEF noticeVars, NoticeInv, NoticeTables
<1> QED
  BY <1>1, MsgKept, MsgStill, NoticeKept DEF TalkNext

(* Notices: what a user has removed (GlobalNotifUserRemoveView) is never    *)
(* listed again and what was read (GlobalNotifReadView) is listed as read, *)
(* in whatever order requests of the user and of administrators end.       *)
THEOREM NoticesStayAsChosen == TalkSpec => []UserChoicesStay
<1>1. TalkInit => MsgInv /\ NoticeInv
  BY MsgFirst, NoticeFirst DEF TalkInit
<1>2. MsgInv /\ NoticeInv => UserChoicesStay
  BY NoticeTells
<1> QED
  BY <1>1, <1>2, TellsKept, PTL DEF TalkSpec

(* Messages: unless two goroutines of one subject overlapped, a like or a   *)
(* favourite is told once while its message is kept (the check before the  *)
(* insert of article_message.go), but for those whose check failed; a      *)
(* message that no request of the receiver has found is unread and in one  *)
(* of the lists (sitemsg_api).                                             *)
THEOREM MessagesToldOnce == TalkSpec => []ToldOnceAndSeen
<1>1. TalkInit => MsgInv /\ NoticeInv
  BY MsgFirst, NoticeFirst DEF TalkInit
<1>2. MsgInv /\ NoticeInv => ToldOnceAndSeen
  BY MsgTells
<1> QED
  BY <1>1, <1>2, TellsKept, PTL DEF TalkSpec

LEMMA TalkRefines ==
  /\ TalkInit => Init
  /\ [TalkNext]_<<part, vars, msgVars, noticeVars>> => [Next]_vars
  BY DEF TalkInit, TalkNext

(* All three parts keep their types, whichever of them moves, and the       *)
(* statistics of follows agree with the relation.                          *)
THEOREM TalkTyped == TalkSpec => []TypesOK
<1>1. TalkSpec => Spec
  BY TalkRefines, PTL DEF TalkSpec, Spec
<1>2. TalkInit => MsgInv /\ NoticeInv
  BY MsgFirst, NoticeFirst DEF TalkInit
<1>3. TypeOK /\ FollowsCounted /\ MsgInv /\ NoticeInv => TypesOK
  BY MsgTells, NoticeTells DEF TypesOK
<1> QED
  BY <1>1, <1>2, <1>3, TypeCorrect, StatisticsAgree, TellsKept, PTL DEF TalkSpec
=============================================================================
