------------------------------ MODULE ChatOnline ------------------------------
(* The connections of the chat (chat_api/chat_ws.go, chat_online.go): a     *)
(* ticket opens one, a handler reads it, a goroutine pings it, and the      *)
(* handlers of other connections write to it.  What a message does to the   *)
(* database is in Chat.  writeMu is held for one write, which has a         *)
(* deadline, so a write is one step.                                       *)
EXTENDS Naturals, FiniteSets

CONSTANTS
  People,
  Conns,    \* connections, each made once
  Tickets,  \* tickets, each issued once
  Nobody    \* no user, no ticket

VARIABLES
  ticket,  \* chat:ws:ticket:<ticket>: its user, Nobody when there is none
  used,    \* history: the tickets issued
  users,   \* OnlineUserStore.users; a user without connections has no entry
  socket,  \* "none", "open", "silent" (the peer is gone), "closed"
  late,    \* the read deadline has passed
  jammed,  \* a write failed; gorilla fails every later one
  reader,  \* ChatWsView of each connection
  pinger   \* RunPingLoop: "none", "running", "ended"

onlineVars == <<ticket, used, users, socket, late, jammed, reader, pinger>>
wire == <<socket, late, jammed>>
tickets == <<ticket, used>>

OnlineInit ==
  /\ ticket = [t \in Tickets |-> Nobody] /\ used = {}
  /\ users = [u \in {} |-> {}]
  /\ socket = [c \in Conns |-> "none"]
  /\ late = [c \in Conns |-> FALSE] /\ jammed = [c \in Conns |-> FALSE]
  /\ reader = [c \in Conns |-> [pc |-> "idle"]]
  /\ pinger = [c \in Conns |-> "none"]

Goto(c, state) == reader' = [reader EXCEPT ![c] = state]
Continue(c) == Goto(c, [pc |-> "read", user |-> reader[c].user])
At(c, pc) == reader[c].pc = pc

Online(u) == IF u \in DOMAIN users THEN users[u] ELSE {}

Register(c, u) ==
  users' = [v \in (DOMAIN users) \cup {u} |->
              IF v = u THEN Online(u) \cup {c} ELSE users[v]]

Unregistered(u, c) ==
  [v \in {w \in DOMAIN users : users[w] \ (IF w = u THEN {c} ELSE {}) # {}} |->
     users[v] \ (IF v = u THEN {c} ELSE {})]

\* What a write to c may return.
WriteResults(c) == IF socket[c] = "closed" \/ jammed[c] THEN {FALSE} ELSE BOOLEAN

-----------------------------------------------------------------------------
ChatWsTicketView(t, u) ==
  /\ t \notin used
  /\ used' = used \cup {t}
  /\ ticket' = [ticket EXCEPT ![t] = u]
  /\ UNCHANGED <<users, wire, reader, pinger>>

(* Consume, a GETDEL; AuthenticateSession may refuse, and Upgrade may fail. *)
Consume(c, t) ==
  /\ At(c, "idle") /\ ticket[t] # Nobody
  /\ ticket' = [ticket EXCEPT ![t] = Nobody]
  /\ \/ Goto(c, [pc |-> "register", user |-> ticket[t]])
     \/ Goto(c, [pc |-> "done"])
  /\ UNCHANGED <<used, users, wire, pinger>>

TicketExpires(t) ==
  /\ ticket[t] # Nobody
  /\ ticket' = [ticket EXCEPT ![t] = Nobody]
  /\ UNCHANGED <<used, users, wire, reader, pinger>>

(* Register; configureChatWSConn. *)
Open(c) ==
  /\ At(c, "register")
  /\ Register(c, reader[c].user)
  /\ socket' = [socket EXCEPT ![c] = "open"]
  /\ Goto(c, [pc |-> "ping", user |-> reader[c].user])
  /\ UNCHANGED <<tickets, late, jammed, pinger>>

StartPing(c) ==
  /\ At(c, "ping")
  /\ pinger' = [pinger EXCEPT ![c] = "running"]
  /\ Continue(c)
  /\ UNCHANGED <<tickets, users, wire>>

(* A message that is refused, or its receiver is not online: an answer.     *)
(* Otherwise it is pushed to the connections the receiver has now.         *)
Receive(c) ==
  LET me == reader[c].user IN
  /\ At(c, "read") /\ socket[c] = "open" /\ ~late[c]
  /\ \/ Goto(c, [pc |-> "answer", user |-> me])
     \/ \E to \in People : Goto(c, [pc |-> "online", user |-> me, to |-> to])
  /\ UNCHANGED <<tickets, users, wire, pinger>>

IsOnline(c) ==
  LET me == reader[c].user  to == reader[c].to IN
  /\ At(c, "online")
  /\ IF Online(to) = {} THEN Goto(c, [pc |-> "answer", user |-> me])
     ELSE Goto(c, [pc |-> "snapshot", user |-> me, to |-> to])
  /\ UNCHANGED <<tickets, users, wire, pinger>>

Snapshot(c) ==
  LET to == reader[c].to IN
  /\ At(c, "snapshot")
  /\ Goto(c, [pc |-> "push", user |-> reader[c].user, to |-> to,
              list |-> Online(to), sent |-> FALSE, failed |-> {}])
  /\ UNCHANGED <<tickets, users, wire, pinger>>

Push(c) ==
  /\ At(c, "push")
  /\ \E d \in reader[c].list : \E ok \in WriteResults(d) :
       /\ jammed' = [jammed EXCEPT ![d] = ~ok]
       /\ reader' = [reader EXCEPT ![c].list = @ \ {d}, ![c].sent = @ \/ ok,
                     ![c].failed = IF ok THEN {} ELSE {d},
                     ![c].pc = IF ok THEN "push" ELSE "drop"]
  /\ UNCHANGED <<tickets, users, socket, late, pinger>>

(* The write failed: Unregister, then Close.                               *)
Drop(c) ==
  /\ At(c, "drop")
  /\ \E d \in reader[c].failed :
       /\ users' = Unregistered(reader[c].to, d)
       /\ socket' = [socket EXCEPT ![d] = "closed"]
  /\ reader' = [reader EXCEPT ![c].pc = "push", ![c].failed = {}]
  /\ UNCHANGED <<tickets, late, jammed, pinger>>

Pushed(c) ==
  /\ At(c, "push") /\ reader[c].list = {}
  /\ IF reader[c].sent THEN Continue(c)
     ELSE Goto(c, [pc |-> "answer", user |-> reader[c].user])
  /\ UNCHANGED <<tickets, users, wire, pinger>>

Answer(c) ==
  /\ At(c, "answer")
  /\ \E ok \in WriteResults(c) :
       /\ jammed' = [jammed EXCEPT ![c] = ~ok]
       /\ IF ok THEN Continue(c) ELSE Goto(c, [pc |-> "stop", user |-> reader[c].user])
  /\ UNCHANGED <<tickets, users, socket, late, pinger>>

ReadFails(c) ==
  /\ At(c, "read") /\ (late[c] \/ socket[c] \in {"silent", "closed"})
  /\ socket[c] = "silent" => late[c]
  /\ Goto(c, [pc |-> "stop", user |-> reader[c].user])
  /\ UNCHANGED <<tickets, users, wire, pinger>>

(* The deferred calls, the last one first: close(done), Close, Unregister.  *)
LeaveConn(c) == socket' = [socket EXCEPT ![c] = "closed"]
CloseConn(c) ==
  /\ At(c, "stop")
  /\ LeaveConn(c)
  /\ Goto(c, [pc |-> "unregister", user |-> reader[c].user])
  /\ UNCHANGED <<tickets, users, late, jammed, pinger>>

StaysOnline(c) == UNCHANGED users
Unregister(c) == users' = Unregistered(reader[c].user, c)

CleanUp(c) ==
  /\ At(c, "unregister")
  /\ Unregister(c)
  /\ Goto(c, [pc |-> "done"])
  /\ UNCHANGED <<tickets, wire, pinger>>

-----------------------------------------------------------------------------
(* done is closed once the handler has left its loop.                      *)
DoneClosed(c) == reader[c].pc \in {"unregister", "done"}

PingEnds(c) ==
  /\ pinger[c] = "running" /\ DoneClosed(c)
  /\ pinger' = [pinger EXCEPT ![c] = "ended"]
  /\ UNCHANGED <<tickets, users, wire, reader>>

Ping(c) ==
  /\ pinger[c] = "running"
  /\ \E ok \in WriteResults(c) :
       /\ jammed' = [jammed EXCEPT ![c] = ~ok]
       /\ pinger' = [pinger EXCEPT ![c] = IF ok THEN "running" ELSE "ended"]
  /\ UNCHANGED <<tickets, users, socket, late, reader>>

PeerGoes(c) ==
  /\ socket[c] = "open"
  /\ socket' = [socket EXCEPT ![c] = "silent"]
  /\ UNCHANGED <<tickets, users, late, jammed, reader, pinger>>

(* Only a pong moves the deadline: it passes when the peer is silent, when  *)
(* nothing pings it any more, and when a pong takes too long.              *)
DeadlinePasses(c) ==
  /\ socket[c] \in {"open", "silent"} /\ ~late[c]
  /\ late' = [late EXCEPT ![c] = TRUE]
  /\ UNCHANGED <<tickets, users, socket, jammed, reader, pinger>>

NoPongs(c) == socket[c] = "silent" \/ pinger[c] = "ended"

ReaderStep(c) ==
  \/ Open(c) \/ StartPing(c) \/ IsOnline(c) \/ Snapshot(c) \/ Push(c) \/ Drop(c)
  \/ Pushed(c) \/ Answer(c) \/ ReadFails(c) \/ CloseConn(c) \/ CleanUp(c)

OnlineNext ==
  \/ \E t \in Tickets : TicketExpires(t) \/ \E u \in People : ChatWsTicketView(t, u)
  \/ \E c \in Conns :
       \/ \E t \in Tickets : Consume(c, t)
       \/ ReaderStep(c) \/ Receive(c)
       \/ PingEnds(c) \/ Ping(c) \/ PeerGoes(c) \/ DeadlinePasses(c)

-----------------------------------------------------------------------------
(* Types; no entry without connections; the handler of a connection that    *)
(* is registered has not ended.                                            *)
OnlineTypeOK ==
  /\ ticket \in [Tickets -> People \cup {Nobody}] /\ used \subseteq Tickets
  /\ DOMAIN users \subseteq People
  /\ \A u \in DOMAIN users :
       /\ users[u] \in (SUBSET Conns) \ {{}}
       /\ \A c \in users[u] : reader[c].pc # "done" /\ reader[c].user = u
  /\ socket \in [Conns -> {"none", "open", "silent", "closed"}]
  /\ late \in [Conns -> BOOLEAN] /\ jammed \in [Conns -> BOOLEAN]
  /\ pinger \in [Conns -> {"none", "running", "ended"}]

Gone(c) == socket[c] \in {"silent", "closed"} \/ jammed[c]
Ended(c) ==
  /\ reader[c].pc = "done" /\ pinger[c] # "running"
  /\ \A u \in DOMAIN users : c \notin users[u]

(* A connection whose peer is gone, or that a failed write or a push to it  *)
(* has broken, is closed, unregistered, and no longer pinged, in the end    *)
(* (ChatWsView's deferred calls, RunPingLoop, PushToUser): none leaks.     *)
ConnectionsEnd == \A c \in Conns : Gone(c) ~> Ended(c)
=============================================================================
