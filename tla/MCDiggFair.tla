----------------------------- MODULE MCDiggFair -----------------------------
(* What goroutines must bring to an end, side by side: likes that the job   *)
(* counts and connections of the chat that are over.  They share no         *)
(* variable, so one of them moves at a time.                               *)
EXTENDS MCDiggCounter

CONSTANTS People, Conns, Tickets, Nobody    \* ChatOnline

VARIABLES
  part,
  ticket, used, users, socket, late, jammed, reader, pinger

Online == INSTANCE ChatOnline

onlineVars == <<ticket, used, users, socket, late, jammed, reader, pinger>>
allVars == <<part, vars, onlineVars>>

(* Users and articles are interchangeable: the first request may name the  *)
(* first of each.  The requests of the part at rest are fixed.             *)
EndsInit ==
  /\ part \in {"digg", "online"}
  /\ Init /\ Online!OnlineInit
  /\ \A r \in IF part = "digg" THEN {r1} ELSE Reqs : req[r].user = u1 /\ req[r].item = a1

InDigg(A) == part = "digg" /\ A /\ UNCHANGED <<part, onlineVars>>
InOnline(A) == part = "online" /\ A /\ UNCHANGED <<part, vars>>

(* The fairness of each module, for the steps of the whole.                *)
EndsFairness ==
  /\ \A r \in Reqs : WF_allVars(InDigg(ReqStep(r) /\ req[r].pc \in Busy))
  /\ WF_allVars(InDigg(\E s \in Syncers : SyncStep(s) /\ UNCHANGED <<row, req>>))
  /\ WF_allVars(InDigg(OrphanLockExpires /\ UNCHANGED <<row, req>>))
  /\ \A c \in Conns :
       /\ WF_allVars(InOnline(Online!ReaderStep(c)))
       /\ WF_allVars(InOnline(Online!PingEnds(c)))
       /\ WF_allVars(InOnline(Online!NoPongs(c) /\ Online!DeadlinePasses(c)))

EndsSpec ==
  EndsInit /\ [][InDigg(Next) \/ InOnline(Online!OnlineNext)]_allVars /\ EndsFairness

(* ChatOnline: a connection that is over is cleaned up in the end, and its  *)
(* variables have their types.                                             *)
ConnectionsEnd == part = "online" => []Online!OnlineTypeOK /\ Online!ConnectionsEnd
=============================================================================
