------------------------------- MODULE MCChat -------------------------------
(* What users tell each other, side by side: the chat, the messages about   *)
(* articles and the global notices.  They share no variable, so one of     *)
(* them moves at a time.                                                   *)
EXTENDS Chat, TLC

CONSTANTS u1, u2, m1, m2, m3, m4, x1, x2,
          Actors, Objects, Calls, MaxMessages,
          Members, Topics, Asks, NoRow, MaxNotices, MaxTime

ASSUME TalkAssumption ==
  /\ {MaxMessages, MaxTime} \subseteq Nat
  /\ NoRow \notin [read : BOOLEAN, deleted : BOOLEAN]

VARIABLES
  part,
  message, inserting, started, call, seen, again, overlapped,
  notice, mine, joined, now, ask, hasRead, hasRemoved

Told == INSTANCE Messages
Global == INSTANCE GlobalNotices

msgVars == <<message, inserting, started, call, seen, again, overlapped>>
noticeVars == <<notice, mine, joined, now, ask, hasRead, hasRemoved>>

(* Bound: the largest corners of the product are left out.  A third send  *)
(* is begun only between two users, in one week and without reads and      *)
(* clears; reads and clears are begun when all users follow each other.    *)
Bounded ==
  LET begun  == {r \in Sends : send[r].pc # "idle"}
      toSelf == {r \in begun : send[r].pc # "refused" /\ Sender(r) = Receiver(r)}
      acting == \E a \in Acts : act[a].pc # "idle"
  IN
  /\ acting => week = 0 /\ \A u, v \in Users : u # v => <<u, v>> \in follows
  /\ Cardinality(begun) > 2 => ~acting /\ week = 0 /\ toSelf = {} /\ faults = {}

TalkInit ==
  /\ part \in {"chat", "messages", "notices"}
  /\ Init /\ Told!MsgInit /\ Global!NoticeInit
  /\ part # "notices" => \A u \in Members : joined[u] = 0

TalkNext ==
  /\ UNCHANGED part
  /\ \/ part = "chat" /\ Next /\ Bounded' /\ UNCHANGED <<msgVars, noticeVars>>
     \/ part = "messages" /\ Told!MsgNext /\ UNCHANGED <<vars, noticeVars>>
     \/ part = "notices" /\ Global!NoticeNext /\ UNCHANGED <<vars, msgVars>>

TalkSpec == TalkInit /\ [][TalkNext]_<<part, vars, msgVars, noticeVars>>

(* Every variable of the three has its type; the statistics of the users    *)
(* agree with who follows whom.                                            *)
TypesOK == TypeOK /\ FollowsCounted /\ Told!MsgTypeOK /\ Global!NoticeTypeOK

(* Messages: a thing is told once while its message is kept, unless a check *)
(* fails, and what comes while a whole category is marked stays unread.    *)
ToldOnceAndSeen == Told!ToldOnceAndSeen

(* GlobalNotices: what a user has read or removed stays read or removed.   *)
UserChoicesStay == Global!UserChoicesStay

Symmetric == Permutations(Sends) \cup Permutations(Acts)
=============================================================================
