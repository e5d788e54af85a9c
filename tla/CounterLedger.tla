---------------------------- MODULE CounterLedger ----------------------------
(***************************************************************************)
(* What the counter pipeline promises, without Redis: relations (user u    *)
(* likes item i) change one at a time, each change is booked once, and the *)
(* booked changes of an item are settled into its stored count in pieces   *)
(* of any size and in any order.  A fault the pipeline does not survive    *)
(* ends the promise.  DiggCounter implements this module.                  *)
(***************************************************************************)
EXTENDS Integers, FiniteSets

CONSTANTS Users, Ids

VARIABLES
  liked,    \* the pairs <<user, item>> that hold
  booked,   \* per item, the net change not yet in the stored count
  stored,   \* per item, the count shown once everything is settled
  sound     \* does the promise still hold?

vars == <<liked, booked, stored, sound>>

Init ==
  /\ liked = {}
  /\ booked = [i \in Ids |-> 0]
  /\ stored = [i \in Ids |-> 0]
  /\ sound = TRUE

Like(u, i) ==
  /\ <<u, i>> \notin liked
  /\ liked' = liked \cup {<<u, i>>}
  /\ booked' = [booked EXCEPT ![i] = @ + 1]
  /\ UNCHANGED <<stored, sound>>

Unlike(u, i) ==
  /\ <<u, i>> \in liked
  /\ liked' = liked \ {<<u, i>>}
  /\ booked' = [booked EXCEPT ![i] = @ - 1]
  /\ UNCHANGED <<stored, sound>>

\* Part of what is booked moves to the stored count, which stops at zero.
Settle(i) ==
  LET d == booked[i] - booked'[i] IN
  /\ booked' = [booked EXCEPT ![i] = booked'[i]]
  /\ booked'[i] \in Int
  /\ stored' = [stored EXCEPT ![i] = IF @ + d < 0 THEN 0 ELSE @ + d]
  /\ UNCHANGED <<liked, sound>>

\* The fault: from here on nothing is promised about the other variables.
Break == sound' = FALSE

Next ==
  \/ \E u \in Users, i \in Ids : Like(u, i) \/ Unlike(u, i)
  \/ \E i \in Ids : Settle(i)
  \/ Break

Spec == Init /\ [][Next]_vars

Likers(i) == {u \in Users : <<u, i>> \in liked}
=============================================================================
