------------------------------- MODULE Messages -------------------------------
(* Messages to one user about comments, likes and favourites of the user's *)
(* articles and from the system (service/message_service, sitemsg_api).    *)
(* Handlers insert them from goroutines of their own; the user reads and   *)
(* deletes them one by one or by category.                                 *)
EXTENDS Naturals, Sequences, FiniteSets

CONSTANTS
  Actors,        \* users whose doings are told
  Objects,       \* articles and comments
  Calls,         \* requests of the receiver, each made once
  MaxMessages    \* bound: messages, goroutines

VARIABLES
  message,       \* article_message_models, by id: [type, actor, object, read, deleted]
  inserting,     \* goroutines: [type, actor, object, at]
  started,       \* goroutines so far
  call,
  seen,          \* history: messages that a request of the receiver found
  again,         \* history: messages of a failed check, inserted beside another
  overlapped     \* history: two goroutines were at work on one message

msgVars == <<message, inserting, started, call, seen, again, overlapped>>

Once     == {"diggArticle", "diggComment", "favorArticle"}
Types    == Once \cup {"comment", "reply", "system"}
TypeList(t) ==
  CASE t = 1 -> {"comment", "reply"}
    [] t = 2 -> Once
    [] t = 3 -> {"system"}

Ids   == DOMAIN message
Kept  == {i \in Ids : ~message[i].deleted}
Unread(t) == {i \in Kept : message[i].type \in TypeList(t) /\ ~message[i].read}
SameSubject(m, g) == m.type = g.type /\ m.actor = g.actor /\ m.object = g.object

MsgInit ==
  /\ message = <<>> /\ inserting = {} /\ started = 0
  /\ call = [c \in Calls |-> [pc |-> "idle"]] /\ seen = {}
  /\ again = {} /\ overlapped = FALSE

-----------------------------------------------------------------------------
(* A handler starts a goroutine.                                           *)
Start(type, actor, object) ==
  /\ started < MaxMessages /\ started' = started + 1
  /\ LET g == [id |-> started', type |-> type, actor |-> actor, object |-> object,
               at |-> IF type \in Once THEN "check" ELSE "insert"]
     IN /\ inserting' = inserting \cup {g}
        /\ overlapped' = (overlapped \/ \E h \in inserting : type \in Once /\ SameSubject(h, g))
  /\ UNCHANGED <<message, call, seen, again>>

Exists(g) == \E i \in Kept : SameSubject(message[i], g)

Check(g) ==                        \* once per actor and object while it is kept
  /\ g \in inserting /\ g.at = "check"
  /\ inserting' = (inserting \ {g}) \cup (IF Exists(g) THEN {} ELSE {[g EXCEPT !.at = "insert"]})
  /\ UNCHANGED <<message, started, call, seen, again, overlapped>>

CheckFails(g) ==                   \* any error reads as: there is none
  /\ g \in inserting /\ g.at = "check" /\ Exists(g)
  /\ inserting' = (inserting \ {g}) \cup {[g EXCEPT !.at = "again"]}
  /\ UNCHANGED <<message, started, call, seen, again, overlapped>>

Insert(g) ==
  /\ g \in inserting /\ g.at \in {"insert", "again"}
  /\ message' = Append(message, [type |-> g.type, actor |-> g.actor, object |-> g.object,
                                 read |-> FALSE, deleted |-> FALSE])
  /\ inserting' = inserting \ {g}
  /\ again' = IF g.at = "again" THEN again \cup {Len(message')} ELSE again
  /\ UNCHANGED <<started, call, seen, overlapped>>

Lose(g) ==                         \* a failed INSERT is logged
  /\ g \in inserting /\ g.at \in {"insert", "again"}
  /\ inserting' = inserting \ {g}
  /\ UNCHANGED <<message, started, call, seen, again, overlapped>>

(* SitemsgReadView, SitemsgRemoveView: one message, or a category.         *)
Find(c, op, found) ==
  /\ call[c].pc = "idle" /\ found # {}
  /\ call' = [call EXCEPT ![c] = [pc |-> op, found |-> found]]
  /\ seen' = seen \cup found
  /\ UNCHANGED <<message, inserting, started, again, overlapped>>

FindOne(c, op, i)  == i \in Kept /\ (op = "read" => ~message[i].read) /\ Find(c, op, {i})
FindType(c, op, t) ==
  Find(c, op, {i \in Kept : message[i].type \in TypeList(t) /\ (op = "read" => ~message[i].read)})

UpdateByType(c) ==                 \* mutant: the condition instead of the ids
  LET hit == {i \in Kept : \E j \in call[c].found : message[i].type = message[j].type}
  IN [i \in Ids |-> IF i \in hit THEN [message[i] EXCEPT !.read = TRUE] ELSE message[i]]

MarkFound(c) == [i \in Ids |-> IF i \in call[c].found \cap Kept THEN [message[i] EXCEPT !.read = TRUE] ELSE message[i]]

Read(c) ==
  /\ call[c].pc = "read"
  /\ message' = MarkFound(c)
  /\ call' = [call EXCEPT ![c] = [pc |-> "done"]]
  /\ UNCHANGED <<inserting, started, seen, again, overlapped>>

Delete(c) ==
  /\ call[c].pc = "delete"
  /\ message' = [i \in Ids |-> IF i \in call[c].found THEN [message[i] EXCEPT !.deleted = TRUE] ELSE message[i]]
  /\ call' = [call EXCEPT ![c] = [pc |-> "done"]]
  /\ UNCHANGED <<inserting, started, seen, again, overlapped>>

UpdateFails(c) ==                  \* of either, answered as an error
  /\ call[c].pc \in {"read", "delete"}
  /\ call' = [call EXCEPT ![c] = [pc |-> "done"]]
  /\ UNCHANGED <<message, inserting, started, seen, again, overlapped>>

MsgNext ==
  \/ \E type \in Types, a \in Actors, o \in Objects : Start(type, a, o)
  \/ \E g \in inserting : Check(g) \/ CheckFails(g) \/ Insert(g) \/ Lose(g)
  \/ \E c \in Calls :
       \/ \E op \in {"read", "delete"} :
            \/ \E i \in Ids : FindOne(c, op, i)
            \/ \E t \in 1 .. 3 : FindType(c, op, t)
       \/ Read(c) \/ Delete(c) \/ UpdateFails(c)

-----------------------------------------------------------------------------
MsgTypeOK ==
  /\ \A i \in Ids : message[i].type \in Types /\ message[i].actor \in Actors /\ message[i].object \in Objects
  /\ again \subseteq Ids /\ Len(message) <= started /\ started \in 0 .. MaxMessages
  /\ \A g \in inserting : g.at \in {"check", "insert", "again"}
  /\ \A c \in Calls : call[c].pc \in {"idle", "read", "delete", "done"}

(* A like or a favourite is told once, however often it is taken back and  *)
(* given again, as long as the message is kept and no two goroutines       *)
(* insert it at the same time; only one whose check failed tells it again. *)
(* And a message that arrives while the user marks or deletes a whole      *)
(* category stays in the badge, Unread.                                    *)
ToldOnceAndSeen ==
  /\ ~overlapped => \A i, j \in Kept \ again :
       (message[i].type \in Once /\ SameSubject(message[i], message[j])) => i = j
  /\ \A i \in Ids \ seen : \E t \in 1 .. 3 : i \in Unread(t)
=============================================================================
