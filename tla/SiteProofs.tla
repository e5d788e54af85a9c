------------------------------ MODULE SiteProofs ------------------------------
(* Proofs about what the site keeps, as MCSite sets it side by side.        *)
(* Of AuthSession: typing, that a revoked session stays revoked, that the   *)
(* blacklist never says more than the session table, and that sessions of   *)
(* the current password keep the current version.  Of Articles: the limit   *)
(* of pins and the counts of tags, from ArticlesProofs.  Of Search: that    *)
(* the query finds what the rules let the caller see.  Of SiteConfig: what  *)
(* is in force and which visits are there.  Of SignUp: codes and accounts.  *)
(* Of Scoring: that an article is read whole and what its score is made of. *)
EXTENDS MCSite, FiniteSetTheorems, SequenceTheorems, WellFoundedInduction, TLAPS

USE AuthAssumption DEF AuthAssumption

\* Tokens and requests name sessions that exist and belong to their user.
Owned ==
  /\ \A a \in access : a.session \in DOMAIN sess /\ sess[a.session].user = a.user
  /\ \A r \in Reqs : req[r].pc \in {"findUser", "rotate"}
       => req[r].session \in DOMAIN sess /\ sess[req[r].session].user = req[r].user
  /\ \A r \in Reqs : req[r].pc \in {"logout", "logoutAll"} => req[r].token \in access

IInv == TypeOK /\ Owned /\ BlacklistIsRedundant

-----------------------------------------------------------------------------
(* What a request holds, by its pc. *)

LEMMA Holding ==
  ASSUME TypeOK, NEW r \in Reqs
  PROVE  /\ req[r].pc \in {"login", "change", "findUser", "rotate"} => req[r].user \in Users
         /\ req[r].pc \in {"login", "change", "rotate"} => req[r].seen \in Accounts
         /\ req[r].pc \in {"findUser", "rotate"} => req[r].session \in Sessions
         /\ req[r].pc \in {"logout", "logoutAll"} => req[r].token \in AccessTokens
<1>1. req[r] \in Requests
  BY DEF TypeOK
<1> QED
  BY <1>1, SMT DEF Requests

LEMMA Going ==
  ASSUME TypeOK, NEW r \in Reqs, NEW next \in Requests, Goto(r, next)
  PROVE  /\ req' \in [Reqs -> Requests]
         /\ req'[r] = next
         /\ \A q \in Reqs \ {r} : req'[q] = req[q]
  BY SMT DEF TypeOK, Goto

LEMMA Finishing ==
  ASSUME TypeOK, NEW r \in Reqs, NEW outcome \in {"done", "refused", "failed"}, Finish(r, outcome)
  PROVE  /\ req' \in [Reqs -> Requests]
         /\ req'[r].pc = outcome
         /\ \A q \in Reqs \ {r} : req'[q] = req[q]
<1>1. [pc |-> outcome] \in Requests
  BY SMT DEF Requests
<1> QED
  BY <1>1, Going, SMT DEF Finish

LEMMA SeenTyped ==
  ASSUME TypeOK, NEW u \in Users
  PROVE  Seen(u) \subseteq Accounts
  BY SMT DEF TypeOK, Seen

LEMMA Writing ==
  ASSUME TypeOK, NEW u \in Users, NEW new \in Accounts, WriteAccount(u, new)
  PROVE  account' \in [Users -> Accounts] /\ cached' \in [Users -> SUBSET Accounts]
<1>1. account' \in [Users -> Accounts]
  BY SMT DEF WriteAccount, TypeOK
<1>2. PICK old \in SUBSET Seen(u) : cached' = [cached EXCEPT ![u] = old]
  BY DEF WriteAccount
<1>3. old \subseteq Accounts
  BY <1>2, SeenTyped
<1> QED
  BY <1>1, <1>2, <1>3, SMT DEF TypeOK

LEMMA RowUpdates ==
  ASSUME NEW x \in SessionRows
  PROVE  /\ [x EXCEPT !.revoked = TRUE, !.blank = TRUE] \in SessionRows
         /\ [x EXCEPT !.revoked = TRUE, !.blank = TRUE].user = x.user
         /\ [x EXCEPT !.revoked = TRUE, !.blank = TRUE].revoked
         /\ [x EXCEPT !.blank = FALSE, !.expired = FALSE] \in SessionRows
         /\ [x EXCEPT !.blank = FALSE, !.expired = FALSE].user = x.user
         /\ [x EXCEPT !.blank = FALSE, !.expired = FALSE].revoked = x.revoked
         /\ [x EXCEPT !.expired = TRUE] \in SessionRows
         /\ [x EXCEPT !.expired = TRUE].user = x.user
         /\ [x EXCEPT !.expired = TRUE].revoked = x.revoked
<1>1. [x EXCEPT !.revoked = TRUE, !.blank = TRUE] \in SessionRows
  BY Zenon DEF SessionRows
<1>2. [x EXCEPT !.blank = FALSE, !.expired = FALSE] \in SessionRows
  BY Zenon DEF SessionRows
<1>3. [x EXCEPT !.expired = TRUE] \in SessionRows
  BY Zenon DEF SessionRows
<1>4. /\ [x EXCEPT !.revoked = TRUE, !.blank = TRUE].user = x.user
      /\ [x EXCEPT !.revoked = TRUE, !.blank = TRUE].revoked
      /\ [x EXCEPT !.blank = FALSE, !.expired = FALSE].user = x.user
      /\ [x EXCEPT !.blank = FALSE, !.expired = FALSE].revoked = x.revoked
      /\ [x EXCEPT !.expired = TRUE].user = x.user
      /\ [x EXCEPT !.expired = TRUE].revoked = x.revoked
  BY SMT DEF SessionRows
<1> QED
  BY <1>1, <1>2, <1>3, <1>4

LEMMA Revoking ==
  ASSUME TypeOK, NEW rows, Revoke(rows)
  PROVE  /\ DOMAIN sess' = DOMAIN sess
         /\ sess' \in [DOMAIN sess -> SessionRows]
         /\ \A s \in DOMAIN sess : /\ sess'[s].user = sess[s].user
                                   /\ sess[s].revoked => sess'[s].revoked
                                   /\ s \in rows => sess'[s].revoked
<1>1. \A s \in DOMAIN sess : sess[s] \in SessionRows
  BY DEF TypeOK
<1>2. DOMAIN sess' = DOMAIN sess
  BY DEF Revoke
<1>3. ASSUME NEW s \in DOMAIN sess
      PROVE  /\ sess'[s] \in SessionRows
             /\ sess'[s].user = sess[s].user
             /\ sess[s].revoked => sess'[s].revoked
             /\ s \in rows => sess'[s].revoked
  <2>1. sess'[s] = IF s \in rows THEN [sess[s] EXCEPT !.revoked = TRUE, !.blank = TRUE]
                                 ELSE sess[s]
    BY <1>3 DEF Revoke
  <2>2. sess[s] \in SessionRows
    BY <1>1
  <2>3. CASE s \in rows
    <3> DEFINE new == [sess[s] EXCEPT !.revoked = TRUE, !.blank = TRUE]
    <3>1. new \in SessionRows /\ new.user = sess[s].user /\ new.revoked
      BY <2>2, RowUpdates
    <3>2. sess'[s] = new
      BY <2>1, <2>3
    <3> QED
      BY <3>1, <3>2
  <2>4. CASE s \notin rows
    BY <2>1, <2>2, <2>4
  <2> QED
    BY <2>3, <2>4
<1>4. sess' = [s \in DOMAIN sess |-> sess'[s]]
  BY DEF Revoke
<1> QED
  BY <1>2, <1>3, <1>4

-----------------------------------------------------------------------------
(* The frame of a step: rows and tokens only ever come, rows keep their    *)
(* user, and a revoked row stays revoked.                                  *)

Kept ==
  /\ DOMAIN sess \subseteq DOMAIN sess'
  /\ \A s \in DOMAIN sess : /\ sess'[s].user = sess[s].user
                            /\ sess[s].revoked => sess'[s].revoked
  /\ access \subseteq access'

\* What every action is shown to do.
Good == TypeOK' /\ Kept /\ Owned' /\ BlacklistIsRedundant'

\* A step that leaves the tokens and the session table alone only has to
\* account for the request it moves.
LEMMA Quiet ==
  ASSUME IInv, TypeOK', UNCHANGED <<sess, access, black>>,
         \A r \in Reqs : \/ req'[r] = req[r]
                         \/ req'[r].pc \in {"idle", "login", "change", "done", "refused", "failed"}
                         \/ /\ req'[r].pc \in {"findUser", "rotate"}
                            /\ req'[r].session \in DOMAIN sess
                            /\ sess[req'[r].session].user = req'[r].user
                         \/ /\ req'[r].pc \in {"logout", "logoutAll"}
                            /\ req'[r].token \in access
  PROVE  Good
<1>1. Kept
  BY SMT DEF Kept
<1>2. BlacklistIsRedundant'
  BY DEF IInv, BlacklistIsRedundant, Live
<1>3. Owned'
  BY DEF IInv, Owned
<1> QED
  BY <1>1, <1>2, <1>3 DEF Good

\* A step that writes the session table but issues and blacklists nothing.
LEMMA Writes ==
  ASSUME IInv, TypeOK', Kept, UNCHANGED <<access, black>>, DOMAIN sess' = DOMAIN sess,
         \A r \in Reqs : req'[r] = req[r] \/ req'[r].pc \in {"done", "refused", "failed"}
  PROVE  Good
<1>1. BlacklistIsRedundant'
  BY DEF IInv, BlacklistIsRedundant, Live, Kept, Owned, TypeOK
<1>2. Owned'
  BY DEF IInv, Owned, Kept
<1> QED
  BY <1>1, <1>2 DEF Good

-----------------------------------------------------------------------------
(* One lemma per family of actions. *)

LEMMA BeginGood == ASSUME IInv, NEW r \in Reqs, Begin(r) PROVE Good
<1>0. TypeOK /\ Owned
  BY DEF IInv
<1>1. ASSUME NEW u \in Users, PwdLogin(r, u) PROVE Good
  <2>1. PICK held \in Accounts :
          \/ Goto(r, [pc |-> "login", user |-> u, seen |-> held])
          \/ Finish(r, "refused")
    BY <1>0, <1>1, SeenTyped DEF PwdLogin
  <2>2. [pc |-> "login", user |-> u, seen |-> held] \in Requests
    BY SMT DEF Requests
  <2>3. /\ req' \in [Reqs -> Requests]
        /\ req'[r].pc \in {"login", "refused"}
        /\ \A q \in Reqs \ {r} : req'[q] = req[q]
    <3>1. CASE Goto(r, [pc |-> "login", user |-> u, seen |-> held])
      BY <1>0, <2>2, <3>1, Going, SMT
    <3>2. CASE Finish(r, "refused")
      BY <1>0, <3>2, Finishing, SMT
    <3> QED
      BY <2>1, <3>1, <3>2
  <2>4. TypeOK'
    BY <1>0, <1>1, <2>3 DEF TypeOK, PwdLogin
  <2> QED
    BY <1>1, <2>3, <2>4, Quiet DEF PwdLogin
<1>2. ASSUME NEW u \in Users, ChangePassword(r, u) PROVE Good
  <2>1. PICK held \in Accounts : Goto(r, [pc |-> "change", user |-> u, seen |-> held])
    BY <1>0, <1>2, SeenTyped DEF ChangePassword
  <2>2. [pc |-> "change", user |-> u, seen |-> held] \in Requests
    BY SMT DEF Requests
  <2>3. /\ req' \in [Reqs -> Requests]
        /\ req'[r].pc = "change"
        /\ \A q \in Reqs \ {r} : req'[q] = req[q]
    BY <1>0, <2>1, <2>2, Going, SMT
  <2>4. TypeOK'
    BY <1>0, <1>2, <2>3 DEF TypeOK, ChangePassword
  <2> QED
    BY <1>2, <2>3, <2>4, Quiet DEF ChangePassword
<1>3. ASSUME NEW s \in DOMAIN sess, RefreshFind(r, s) PROVE Good
  <2> DEFINE next == [pc |-> "findUser", user |-> sess[s].user, session |-> s]
  <2>1. s \in Sessions /\ sess[s].user \in Users
    <3>1. sess[s] \in SessionRows /\ s \in Sessions
      BY <1>0 DEF TypeOK
    <3> QED
      BY <3>1, SMT DEF SessionRows
  <2>2. next \in Requests /\ next.pc = "findUser" /\ next.session = s /\ next.user = sess[s].user
    BY <2>1, SMT DEF Requests
  <2>3. Goto(r, next)
    BY <1>3 DEF RefreshFind
  <2> HIDE DEF next
  <2>4. /\ req' \in [Reqs -> Requests]
        /\ req'[r] = next
        /\ \A q \in Reqs \ {r} : req'[q] = req[q]
    BY <1>0, <2>2, <2>3, Going
  <2>5. TypeOK'
    BY <1>0, <1>3, <2>4 DEF TypeOK, RefreshFind
  <2> QED
    BY <1>3, <2>2, <2>4, <2>5, Quiet DEF RefreshFind
<1>4. ASSUME NEW a \in access, LogoutAccepted(r, a) PROVE Good
  <2>1. PICK p \in {"logout", "logoutAll"} : Goto(r, [pc |-> p, token |-> a])
    BY <1>4 DEF LogoutAccepted
  <2> DEFINE next == [pc |-> p, token |-> a]
  <2>2. next \in Requests /\ next.pc \in {"logout", "logoutAll"} /\ next.token = a
    <3>1. a \in AccessTokens
      BY <1>0 DEF TypeOK
    <3> QED
      BY <3>1, SMT DEF Requests
  <2> HIDE DEF next
  <2>3. /\ req' \in [Reqs -> Requests]
        /\ req'[r] = next
        /\ \A q \in Reqs \ {r} : req'[q] = req[q]
    BY <1>0, <2>1, <2>2, Going DEF next
  <2>4. TypeOK'
    BY <1>0, <1>4, <2>3 DEF TypeOK, LogoutAccepted
  <2> QED
    BY <1>4, <2>2, <2>3, <2>4, Quiet DEF LogoutAccepted
<1> QED
  BY <1>1, <1>2, <1>3, <1>4 DEF Begin

\* Issuing a token for a row of the table that belongs to the user.
LEMMA Issuing ==
  ASSUME IInv, NEW u \in Users, NEW s \in Sessions, NEW held \in Accounts, Issue(u, s, held)
  PROVE  /\ access' \subseteq AccessTokens
         /\ access \subseteq access'
         /\ \A a \in access' : a \in access \/ (a.session = s /\ a.user = u)
<1> DEFINE new == [user |-> u, session |-> s, version |-> held.version]
<1>1. new \in AccessTokens /\ new.session = s /\ new.user = u
  <2>1. held.version \in Nat
    BY SMT DEF Accounts
  <2> QED
    BY <2>1, SMT DEF AccessTokens
<1>2. access' = access \cup {new}
  BY DEF Issue
<1> HIDE DEF new
<1>3. access \subseteq AccessTokens
  BY DEF IInv, TypeOK
<1> QED
  BY <1>1, <1>2, <1>3

LEMMA LoginGood == ASSUME IInv, NEW r \in Reqs, CreateLoginTokens(r) PROVE Good
<1> DEFINE u == req[r].user
           held == req[r].seen
<1>0. TypeOK /\ Owned
  BY DEF IInv
<1>1. PICK s \in Sessions \ DOMAIN sess :
        /\ sess' = [x \in (DOMAIN sess) \cup {s} |->
             IF x = s THEN [user |-> u, blank |-> FALSE, revoked |-> FALSE,
                            expired |-> FALSE, password |-> held.password]
                      ELSE sess[x]]
        /\ Issue(u, s, held)
  BY DEF CreateLoginTokens
<1>2. u \in Users /\ held \in Accounts
  BY <1>0, Holding DEF CreateLoginTokens
<1> HIDE DEF u, held
<1>3. DOMAIN sess' = (DOMAIN sess) \cup {s}
  BY <1>1
<1>4. \A x \in DOMAIN sess : sess'[x] = sess[x]
  BY <1>1
<1>5. sess'[s] \in SessionRows /\ sess'[s].user = u /\ ~sess'[s].revoked
  <2>1. held.password \in Nat
    BY <1>2, SMT DEF Accounts
  <2>2. sess'[s] = [user |-> u, blank |-> FALSE, revoked |-> FALSE,
                    expired |-> FALSE, password |-> held.password]
    BY <1>1
  <2> QED
    BY <1>2, <2>1, <2>2, SMT DEF SessionRows
<1>6. DOMAIN sess' \subseteq Sessions /\ sess' \in [DOMAIN sess' -> SessionRows]
  <2>1. \A x \in DOMAIN sess : sess[x] \in SessionRows
    BY <1>0 DEF TypeOK
  <2>2. \A x \in DOMAIN sess' : sess'[x] \in SessionRows
    BY <1>3, <1>4, <1>5, <2>1
  <2>3. sess' = [x \in DOMAIN sess' |-> sess'[x]]
    BY <1>1
  <2> QED
    BY <1>0, <1>3, <2>2, <2>3 DEF TypeOK
<1>7. /\ access' \subseteq AccessTokens
      /\ access \subseteq access'
      /\ \A a \in access' : a \in access \/ (a.session = s /\ a.user = u)
  BY <1>1, <1>2, Issuing
<1>8. /\ req' \in [Reqs -> Requests]
      /\ req'[r].pc = "done"
      /\ \A q \in Reqs \ {r} : req'[q] = req[q]
  BY <1>0, Finishing DEF CreateLoginTokens
<1>9. TypeOK'
  BY <1>0, <1>6, <1>7, <1>8 DEF TypeOK, CreateLoginTokens
<1>10. Kept
  BY <1>3, <1>4, <1>7 DEF Kept
<1>11. Owned'
  BY <1>0, <1>3, <1>4, <1>5, <1>7, <1>8 DEF Owned
<1>12. BlacklistIsRedundant'
  BY <1>0, <1>3, <1>4 DEF IInv, Owned, TypeOK, BlacklistIsRedundant, Live, CreateLoginTokens
<1> QED
  BY <1>9, <1>10, <1>11, <1>12 DEF Good

LEMMA RefreshGood ==
  ASSUME IInv, NEW r \in Reqs, RefreshReadUser(r) \/ RefreshRotate(r) PROVE Good
<1> DEFINE u == req[r].user
           s == req[r].session
<1>0. TypeOK /\ Owned
  BY DEF IInv
<1>1. u \in Users /\ s \in Sessions /\ s \in DOMAIN sess /\ sess[s].user = u
  BY <1>0, Holding DEF RefreshReadUser, RefreshRotate, Owned
<1>2. CASE RefreshReadUser(r)
  <2>1. PICK held \in Accounts :
          \/ Goto(r, [pc |-> "rotate", user |-> u, session |-> s, seen |-> held])
          \/ Finish(r, "refused")
    BY <1>0, <1>1, <1>2, SeenTyped DEF RefreshReadUser
  <2> HIDE DEF u, s
  <2> DEFINE next == [pc |-> "rotate", user |-> u, session |-> s, seen |-> held]
  <2>2. next \in Requests /\ next.pc = "rotate" /\ next.session = s /\ next.user = u
    BY <1>1, SMT DEF Requests
  <2> HIDE DEF next
  <2>3. /\ req' \in [Reqs -> Requests]
        /\ req'[r] = next \/ req'[r].pc = "refused"
        /\ \A q \in Reqs \ {r} : req'[q] = req[q]
    <3>1. CASE Goto(r, next)
      BY <1>0, <2>2, <3>1, Going
    <3>2. CASE Finish(r, "refused")
      BY <1>0, <3>2, Finishing
    <3> QED
      BY <2>1, <3>1, <3>2 DEF next
  <2>4. TypeOK'
    BY <1>0, <1>2, <2>3 DEF TypeOK, RefreshReadUser
  <2> QED
    BY <1>1, <1>2, <2>2, <2>3, <2>4, Quiet DEF RefreshReadUser
<1>3. CASE RefreshRotate(r)
  <2>1. /\ sess' = [sess EXCEPT ![s].blank = FALSE, ![s].expired = FALSE]
        /\ Issue(u, s, req[r].seen)
        /\ req[r].seen \in Accounts
    BY <1>0, <1>3, Holding DEF RefreshRotate
  <2> HIDE DEF u, s
  <2>2. /\ DOMAIN sess' = DOMAIN sess
        /\ sess' \in [DOMAIN sess -> SessionRows]
        /\ \A x \in DOMAIN sess : /\ sess'[x].user = sess[x].user
                                  /\ sess'[x].revoked = sess[x].revoked
    <3>1. \A x \in DOMAIN sess : sess[x] \in SessionRows
      BY <1>0 DEF TypeOK
    <3>2. sess' = [sess EXCEPT ![s] = [sess[s] EXCEPT !.blank = FALSE, !.expired = FALSE]]
      BY <1>1, <2>1
    <3>3. sess[s] \in SessionRows
      BY <1>1, <3>1
    <3>4. [sess[s] EXCEPT !.blank = FALSE, !.expired = FALSE] \in SessionRows
      BY <3>3, RowUpdates
    <3>5. /\ [sess[s] EXCEPT !.blank = FALSE, !.expired = FALSE].user = sess[s].user
          /\ [sess[s] EXCEPT !.blank = FALSE, !.expired = FALSE].revoked = sess[s].revoked
      BY <3>3, RowUpdates
    <3> QED
      BY <1>0, <1>1, <3>1, <3>2, <3>4, <3>5 DEF TypeOK
  <2>3. /\ access' \subseteq AccessTokens
        /\ access \subseteq access'
        /\ \A a \in access' : a \in access \/ (a.session = s /\ a.user = u)
    BY <1>1, <2>1, Issuing
  <2>4. /\ req' \in [Reqs -> Requests]
        /\ req'[r].pc = "done"
        /\ \A q \in Reqs \ {r} : req'[q] = req[q]
    BY <1>0, <1>3, Finishing DEF RefreshRotate
  <2>5. TypeOK'
    BY <1>0, <1>3, <2>2, <2>3, <2>4 DEF TypeOK, RefreshRotate
  <2>6. Kept
    BY <2>2, <2>3 DEF Kept
  <2>7. Owned'
    BY <1>0, <1>1, <2>2, <2>3, <2>4 DEF Owned
  <2>8. BlacklistIsRedundant'
    BY <1>0, <1>3, <2>2 DEF IInv, Owned, TypeOK, BlacklistIsRedundant, Live, RefreshRotate
  <2> QED
    BY <2>5, <2>6, <2>7, <2>8 DEF Good
<1> QED
  BY <1>2, <1>3

LEMMA Blacklisting ==
  ASSUME NEW a \in access, SetTokenBlack(a), black \subseteq access
  PROVE  black' \subseteq access /\ \A b \in black' : b \in black \/ b = a
  BY DEF SetTokenBlack

LEMMA LogoutGood ==
  ASSUME IInv, NEW r \in Reqs, UserLogout(r) \/ UserLogoutAll(r) PROVE Good
<1> DEFINE a == req[r].token
<1>0. TypeOK /\ Owned
  BY DEF IInv
<1>1. /\ a \in access
      /\ a.session \in DOMAIN sess
      /\ sess[a.session].user = a.user
  BY <1>0 DEF UserLogout, UserLogoutAll, Owned
<1>2. PICK rows : /\ RevokeAndBlacklist(r, rows)
                  /\ a.session \in rows \/ sess[a.session].revoked
  <2>1. a.session \in LiveSessions(a.user) \/ sess[a.session].revoked
    BY <1>1 DEF LiveSessions
  <2> QED
    BY <2>1 DEF UserLogout, UserLogoutAll
<1> HIDE DEF a
<1>3. CASE Revoke(rows) /\ SetTokenBlack(a) /\ Finish(r, "done")
  <2>1. /\ DOMAIN sess' = DOMAIN sess
        /\ sess' \in [DOMAIN sess -> SessionRows]
        /\ \A s \in DOMAIN sess : /\ sess'[s].user = sess[s].user
                                  /\ sess[s].revoked => sess'[s].revoked
                                  /\ s \in rows => sess'[s].revoked
    BY <1>0, <1>3, Revoking
  <2>2. /\ req' \in [Reqs -> Requests]
        /\ req'[r].pc = "done"
        /\ \A q \in Reqs \ {r} : req'[q] = req[q]
    BY <1>0, <1>3, Finishing
  <2>3. UNCHANGED <<account, cached, access>>
    BY <1>2 DEF RevokeAndBlacklist
  <2>4. black' \subseteq access /\ \A b \in black' : b \in black \/ b = a
    BY <1>0, <1>1, <1>3, Blacklisting DEF TypeOK
  <2>5. TypeOK'
    BY <1>0, <2>1, <2>2, <2>3, <2>4 DEF TypeOK
  <2>6. Kept
    BY <2>1, <2>3 DEF Kept
  <2>7. Owned'
    BY <1>0, <2>1, <2>2, <2>3 DEF Owned
  <2>8. BlacklistIsRedundant'
    <3>1. ASSUME NEW b \in black' PROVE ~Live(b.session)'
      <4>1. CASE b = a
        BY <1>1, <1>2, <2>1, <4>1 DEF Live
      <4>2. CASE b \in black
        BY <1>0, <2>1, <4>2 DEF IInv, Owned, TypeOK, BlacklistIsRedundant, Live
      <4> QED
        BY <2>4, <3>1, <4>1, <4>2
    <3> QED
      BY <3>1 DEF BlacklistIsRedundant
  <2> QED
    BY <2>5, <2>6, <2>7, <2>8 DEF Good
<1>4. CASE Finish(r, "failed") /\ UNCHANGED <<sess, black>>
  <2>1. /\ req' \in [Reqs -> Requests]
        /\ req'[r].pc = "failed"
        /\ \A q \in Reqs \ {r} : req'[q] = req[q]
    BY <1>0, <1>4, Finishing
  <2>2. UNCHANGED <<account, cached, access>>
    BY <1>2 DEF RevokeAndBlacklist
  <2>3. TypeOK'
    BY <1>0, <1>4, <2>1, <2>2 DEF TypeOK
  <2> QED
    BY <1>4, <2>1, <2>2, <2>3, Quiet
<1> QED
  BY <1>2, <1>3, <1>4 DEF RevokeAndBlacklist, a

LEMMA ChangeGood ==
  ASSUME IInv, NEW r \in Reqs, UpdatePasswordAndRevokeSessions(r) PROVE Good
<1> DEFINE u == req[r].user
           new == [account[u] EXCEPT !.version = req[r].seen.version + 1, !.password = @ + 1]
<1>0. TypeOK
  BY DEF IInv
<1>1. u \in Users /\ req[r].seen \in Accounts /\ account[u] \in Accounts
  BY <1>0, Holding DEF UpdatePasswordAndRevokeSessions, TypeOK
<1>2. new \in Accounts
  <2>1. req[r].seen.version + 1 \in Nat /\ account[u].password + 1 \in Nat
    BY <1>1, SMT DEF Accounts
  <2> QED
    BY <1>1, <2>1, Zenon DEF Accounts
<1>3. CASE WriteAccount(u, new) /\ Revoke(LiveSessions(u)) /\ Finish(r, "done")
  <2> HIDE DEF new, u
  <2>1. account' \in [Users -> Accounts] /\ cached' \in [Users -> SUBSET Accounts]
    BY <1>0, <1>1, <1>2, <1>3, Writing
  <2>2. /\ DOMAIN sess' = DOMAIN sess
        /\ sess' \in [DOMAIN sess -> SessionRows]
        /\ \A s \in DOMAIN sess : /\ sess'[s].user = sess[s].user
                                  /\ sess[s].revoked => sess'[s].revoked
    BY <1>0, <1>3, Revoking
  <2>3. /\ req' \in [Reqs -> Requests]
        /\ req'[r].pc = "done"
        /\ \A q \in Reqs \ {r} : req'[q] = req[q]
    BY <1>0, <1>3, Finishing
  <2>4. UNCHANGED <<access, black>>
    BY DEF UpdatePasswordAndRevokeSessions
  <2>5. TypeOK'
    BY <1>0, <2>1, <2>2, <2>3, <2>4 DEF TypeOK
  <2>6. Kept
    BY <2>2, <2>4 DEF Kept
  <2> QED
    BY <2>2, <2>3, <2>4, <2>5, <2>6, Writes
<1>4. CASE Finish(r, "failed") /\ UNCHANGED <<account, cached, sess>>
  <2>1. /\ req' \in [Reqs -> Requests]
        /\ req'[r].pc = "failed"
        /\ \A q \in Reqs \ {r} : req'[q] = req[q]
    BY <1>0, <1>4, Finishing
  <2>2. UNCHANGED <<access, black>>
    BY DEF UpdatePasswordAndRevokeSessions
  <2>3. TypeOK'
    BY <1>0, <1>4, <2>1, <2>2 DEF TypeOK
  <2> QED
    BY <1>4, <2>1, <2>2, <2>3, Quiet
<1> QED
  BY <1>3, <1>4 DEF UpdatePasswordAndRevokeSessions

LEMMA EnvironmentGood ==
  ASSUME IInv,
         \/ \E u \in Users : SetStatus(u) \/ CacheExpires(u)
         \/ \E s \in Sessions : SessionExpires(s)
  PROVE  Good
<1>0. TypeOK
  BY DEF IInv
<1>1. ASSUME NEW u \in Users, SetStatus(u) PROVE Good
  <2> DEFINE new == [account[u] EXCEPT !.active = ~@]
  <2>1. new \in Accounts
    <3>1. account[u] \in Accounts
      BY <1>0 DEF TypeOK
    <3> QED
      BY <3>1, Zenon DEF Accounts
  <2>2. WriteAccount(u, new) /\ UNCHANGED <<sess, access, black, req>>
    BY <1>1 DEF SetStatus
  <2> HIDE DEF new
  <2>3. account' \in [Users -> Accounts] /\ cached' \in [Users -> SUBSET Accounts]
    BY <1>0, <2>1, <2>2, Writing
  <2>4. TypeOK'
    BY <1>0, <2>2, <2>3 DEF TypeOK
  <2> QED
    BY <2>2, <2>4, Quiet
<1>2. ASSUME NEW u \in Users, CacheExpires(u) PROVE Good
  <2>1. cached' \in [Users -> SUBSET Accounts]
    BY <1>0, <1>2, SMT DEF TypeOK, CacheExpires
  <2>2. TypeOK'
    BY <1>0, <1>2, <2>1 DEF TypeOK, CacheExpires
  <2> QED
    BY <1>2, <2>2, Quiet DEF CacheExpires
<1>3. ASSUME NEW s \in Sessions, SessionExpires(s) PROVE Good
  <2>1. /\ s \in DOMAIN sess
        /\ sess' = [sess EXCEPT ![s] = [sess[s] EXCEPT !.expired = TRUE]]
    BY <1>3 DEF SessionExpires, Live
  <2>2. \A x \in DOMAIN sess : sess[x] \in SessionRows
    BY <1>0 DEF TypeOK
  <2>3. /\ [sess[s] EXCEPT !.expired = TRUE] \in SessionRows
        /\ [sess[s] EXCEPT !.expired = TRUE].user = sess[s].user
        /\ [sess[s] EXCEPT !.expired = TRUE].revoked = sess[s].revoked
    BY <2>1, <2>2, RowUpdates
  <2>4. /\ DOMAIN sess' = DOMAIN sess
        /\ sess' \in [DOMAIN sess -> SessionRows]
        /\ \A x \in DOMAIN sess : /\ sess'[x].user = sess[x].user
                                  /\ sess'[x].revoked = sess[x].revoked
    BY <1>0, <2>1, <2>2, <2>3 DEF TypeOK
  <2>5. TypeOK'
    BY <1>0, <1>3, <2>4 DEF TypeOK, SessionExpires
  <2>6. Kept
    BY <1>3, <2>4 DEF Kept, SessionExpires
  <2> QED
    BY <1>3, <2>4, <2>5, <2>6, Writes DEF SessionExpires
<1> QED
  BY <1>1, <1>2, <1>3

-----------------------------------------------------------------------------
LEMMA InitGood == Init => IInv
<1> SUFFICES ASSUME Init PROVE IInv
  OBVIOUS
<1>1. \A u \in Users : account[u] \in Accounts
  BY SMT DEF Init, Accounts
<1>2. DOMAIN sess = {} /\ sess \in [DOMAIN sess -> SessionRows]
  BY DEF Init
<1>3. \A r \in Reqs : req[r].pc = "idle" /\ req[r] \in Requests
  BY SMT DEF Init, Requests
<1>4. TypeOK
  BY <1>1, <1>2, <1>3 DEF Init, TypeOK
<1>5. Owned
  BY <1>3 DEF Init, Owned
<1>6. BlacklistIsRedundant
  BY DEF Init, BlacklistIsRedundant
<1> QED
  BY <1>4, <1>5, <1>6 DEF IInv

LEMMA NextGood == IInv /\ Next => Good
<1> SUFFICES ASSUME IInv, Next PROVE Good
  OBVIOUS
<1>1. ASSUME NEW r \in Reqs, Continue(r) PROVE Good
  BY <1>1, LoginGood, RefreshGood, LogoutGood, ChangeGood DEF Continue
<1> QED
  BY <1>1, BeginGood, EnvironmentGood DEF Next

LEMMA Stuttering == IInv /\ UNCHANGED vars => Good
  BY DEF vars, Good, Kept, IInv, TypeOK, Owned, BlacklistIsRedundant, Live

LEMMA Inductive == Spec => []IInv
<1>1. IInv /\ [Next]_vars => IInv'
  BY NextGood, Stuttering DEF Good, IInv
<1> QED
  BY <1>1, InitGood, PTL DEF Spec

(* Type correctness of AuthSession, with stale user rows or without.       *)
THEOREM TypeCorrect == Spec => []TypeOK
<1>1. IInv => TypeOK
  BY DEF IInv
<1> QED
  BY <1>1, Inductive, PTL

(* A revoked session never comes back, in any interleaving of logins,      *)
(* refreshes, logouts, password changes and expiries, whatever user rows   *)
(* the query cache returns.                                                *)
THEOREM RevocationIsFinal == Spec => RevokedStaysRevoked
<1> DEFINE A == \A s \in DOMAIN sess : sess[s].revoked => sess'[s].revoked
<1>1. IInv /\ [Next]_vars => [A]_vars
  BY NextGood DEF Good, Kept
<1> HIDE DEF A
<1>2. Spec => [][A]_vars
  BY <1>1, Inductive, PTL DEF Spec
<1> QED
  BY <1>2 DEF RevokedStaysRevoked, A

(* Every blacklisted access token belongs to a session that MySQL has      *)
(* revoked already.                                                        *)
THEOREM BlacklistAddsNothing == Spec => []BlacklistIsRedundant
<1>1. IInv => BlacklistIsRedundant
  BY DEF IInv
<1> QED
  BY <1>1, Inductive, PTL
-----------------------------------------------------------------------------
(* Sessions opened with the current password carry the current version.    *)
(* The tokens alone are not inductive: a login and a refresh hold a user   *)
(* row they read earlier.  A login's row may be older, but then its        *)
(* password is too; a refresh's row may be older only when its session was *)
(* revoked by the change that made it so.                                  *)

LoginFresh(r) ==
  req[r].pc = "login" /\ req[r].user \notin StaleUsers =>
    /\ req[r].seen.password <= account[req[r].user].password
    /\ req[r].seen.password = account[req[r].user].password =>
         req[r].seen.version = account[req[r].user].version

\* A token or a refresh of a user and session, that knows this version.
Fresh(u, s, version) ==
  u \notin StaleUsers /\ Live(s) /\ sess[s].password = account[u].password =>
    version = account[u].version

RotateFresh(r) ==
  req[r].pc = "rotate" => Fresh(req[r].user, req[r].session, req[r].seen.version)

Current ==
  /\ \A u \in Users \ StaleUsers : cached[u] = {}
  /\ \A r \in Reqs : LoginFresh(r) /\ RotateFresh(r)
  /\ \A a \in access : Fresh(a.user, a.session, a.version)

\* A step that changes no version and no password.
VersionsKept ==
  /\ \A u \in Users : /\ account'[u].version = account[u].version
                      /\ account'[u].password = account[u].password
  /\ \A s \in DOMAIN sess : sess'[s].password = sess[s].password
  /\ \A u \in Users \ StaleUsers : cached[u] = {} => cached'[u] = {}

LEMMA FreshKept ==
  ASSUME Kept, VersionsKept, NEW u \in Users, NEW s \in DOMAIN sess, NEW version,
         Fresh(u, s, version)
  PROVE  Fresh(u, s, version)'
<1>1. Live(s)' => Live(s)
  BY DEF Kept, Live
<1> QED
  BY <1>1 DEF Fresh, VersionsKept

LEMMA CurrentKept ==
  ASSUME IInv, Good, Current, VersionsKept,
         \A r \in Reqs : \/ req'[r] = req[r]
                         \/ req'[r].pc \notin {"login", "rotate"}
                         \/ LoginFresh(r)' /\ RotateFresh(r)',
         \A a \in access' : a \in access \/ Fresh(a.user, a.session, a.version)'
  PROVE  Current'
<1>0. TypeOK /\ Owned /\ Kept
  BY DEF IInv, Good
<1>1. ASSUME NEW r \in Reqs PROVE LoginFresh(r)' /\ RotateFresh(r)'
  <2>1. CASE req'[r] = req[r]
    <3>1. LoginFresh(r)'
      <4>1. req[r].pc = "login" => req[r].user \in Users
        BY <1>0, Holding
      <4> QED
        BY <2>1, <4>1 DEF Current, LoginFresh, VersionsKept
    <3>2. RotateFresh(r)'
      <4>1. req[r].pc = "rotate" => req[r].user \in Users /\ req[r].session \in DOMAIN sess
        BY <1>0, Holding DEF Owned
      <4> QED
        BY <1>0, <2>1, <4>1, FreshKept DEF Current, RotateFresh
    <3> QED
      BY <3>1, <3>2
  <2>2. CASE req'[r].pc \notin {"login", "rotate"}
    BY <2>2 DEF LoginFresh, RotateFresh
  <2> QED
    BY <2>1, <2>2
<1>2. ASSUME NEW a \in access PROVE Fresh(a.user, a.session, a.version)'
  <2>1. a \in AccessTokens /\ a.session \in DOMAIN sess
    BY <1>0 DEF TypeOK, Owned
  <2>2. a.user \in Users
    BY <2>1, SMT DEF AccessTokens
  <2>3. Fresh(a.user, a.session, a.version)
    BY DEF Current
  <2> QED
    BY <1>0, <2>1, <2>2, <2>3, FreshKept
<1>3. \A u \in Users \ StaleUsers : cached'[u] = {}
  BY DEF Current, VersionsKept
<1> QED
  BY <1>1, <1>2, <1>3 DEF Current

\* The row of a user whose cache is never stale is the current one.
LEMMA SeesCurrent ==
  ASSUME Current, NEW u \in Users \ StaleUsers, NEW held \in Seen(u)
  PROVE  held = account[u]
  BY DEF Current, Seen

LEMMA BeginCurrent ==
  ASSUME IInv, Good, Current, NEW r \in Reqs, Begin(r)
  PROVE  Current'
<1>0. TypeOK
  BY DEF IInv
<1>1. UNCHANGED <<account, cached, sess, access, black>>
  BY DEF Begin, PwdLogin, ChangePassword, RefreshFind, LogoutAccepted
<1>2. VersionsKept
  BY <1>1 DEF VersionsKept
<1>3. PICK next : Goto(r, next)
  BY DEF Begin, PwdLogin, ChangePassword, RefreshFind, LogoutAccepted, Finish
<1>4. req'[r] = next /\ \A q \in Reqs \ {r} : req'[q] = req[q]
  BY <1>0, <1>3 DEF TypeOK, Goto
<1>5. next.pc \in {"login", "refused", "change", "findUser", "logout", "logoutAll"}
  <2> DEFINE Pcs == {"login", "refused", "change", "findUser", "logout", "logoutAll"}
  <2>1. PICK n : Goto(r, n) /\ n.pc \in Pcs
    <3>1. ASSUME NEW u \in Users, PwdLogin(r, u) PROVE \E n : Goto(r, n) /\ n.pc \in Pcs
      <4>1. PICK held : \/ Goto(r, [pc |-> "login", user |-> u, seen |-> held])
                        \/ Goto(r, [pc |-> "refused"])
        BY <3>1 DEF PwdLogin, Finish
      <4> QED
        BY <4>1
    <3>2. ASSUME NEW u \in Users, ChangePassword(r, u) PROVE \E n : Goto(r, n) /\ n.pc \in Pcs
      BY <3>2 DEF ChangePassword
    <3>3. ASSUME NEW s \in DOMAIN sess, RefreshFind(r, s) PROVE \E n : Goto(r, n) /\ n.pc \in Pcs
      BY <3>3 DEF RefreshFind
    <3>4. ASSUME NEW a \in access, LogoutAccepted(r, a) PROVE \E n : Goto(r, n) /\ n.pc \in Pcs
      BY <3>4 DEF LogoutAccepted
    <3> QED
      BY <3>1, <3>2, <3>3, <3>4 DEF Begin
  <2>2. req'[r] = n
    BY <1>0, <2>1 DEF TypeOK, Goto
  <2> QED
    BY <1>4, <2>1, <2>2
<1>6. CASE next.pc = "login"
  <2>1. PICK u \in Users : PwdLogin(r, u)
    <3>1. ASSUME NEW n, Goto(r, n) PROVE n.pc = "login"
      BY <1>0, <1>4, <1>6, <3>1 DEF TypeOK, Goto
    <3>2. ASSUME NEW u \in Users, ChangePassword(r, u) PROVE FALSE
      <4>1. PICK held : Goto(r, [pc |-> "change", user |-> u, seen |-> held])
        BY <3>2 DEF ChangePassword
      <4> QED
        BY <3>1, <4>1
    <3>3. ASSUME NEW s PROVE ~RefreshFind(r, s)
      BY <3>1 DEF RefreshFind
    <3>4. ASSUME NEW a PROVE ~LogoutAccepted(r, a)
      BY <3>1 DEF LogoutAccepted
    <3> QED
      BY <3>2, <3>3, <3>4 DEF Begin
  <2>2. PICK held \in Seen(u) : Goto(r, [pc |-> "login", user |-> u, seen |-> held])
                                \/ Finish(r, "refused")
    BY <2>1 DEF PwdLogin
  <2>3. req'[r] = [pc |-> "login", user |-> u, seen |-> held]
    <3>1. ~Finish(r, "refused")
      BY <1>0, <1>4, <1>6 DEF TypeOK, Finish, Goto
    <3> QED
      BY <1>0, <2>2, <3>1 DEF TypeOK, Goto
  <2>4. u \notin StaleUsers => held = account[u] /\ account'[u] = account[u]
    BY <1>1, SeesCurrent
  <2>5. account[u].password <= account[u].password
    <3>1. account[u].password \in Nat
      <4>1. account[u] \in Accounts
        BY <1>0 DEF TypeOK
      <4> QED
        BY <4>1 DEF Accounts
    <3> QED
      BY <3>1
  <2>6. LoginFresh(r)' /\ RotateFresh(r)'
    BY <2>3, <2>4, <2>5 DEF LoginFresh, RotateFresh
  <2> QED
    BY <1>1, <1>2, <1>4, <2>6, CurrentKept
<1>7. CASE next.pc # "login"
  BY <1>1, <1>2, <1>4, <1>5, <1>7, CurrentKept
<1> QED
  BY <1>6, <1>7

LEMMA LoginCurrent ==
  ASSUME IInv, Good, Current, NEW r \in Reqs, CreateLoginTokens(r)
  PROVE  Current'
<1>0. TypeOK
  BY DEF IInv
<1>2. PICK u \in Users, held \in Accounts : u = req[r].user /\ held = req[r].seen
  BY <1>0, Holding DEF CreateLoginTokens
<1>1. PICK s \in Sessions \ DOMAIN sess :
        /\ sess' = [x \in (DOMAIN sess) \cup {s} |->
             IF x = s THEN [user |-> u, blank |-> FALSE, revoked |-> FALSE,
                            expired |-> FALSE, password |-> held.password]
                      ELSE sess[x]]
        /\ Issue(u, s, held)
  BY <1>2 DEF CreateLoginTokens
<1>3. u \notin StaleUsers /\ held.password = account[u].password => held.version = account[u].version
  BY <1>2 DEF Current, LoginFresh, CreateLoginTokens
<1>4. account' = account /\ cached' = cached
  BY DEF CreateLoginTokens
<1>5. VersionsKept
  BY <1>1, <1>4 DEF VersionsKept
<1>6. sess'[s].password = held.password
  BY <1>1
<1>7. Fresh(u, s, held.version)'
  BY <1>3, <1>4, <1>6 DEF Fresh
<1>8. ASSUME NEW a \in access' PROVE a \in access \/ Fresh(a.user, a.session, a.version)'
  <2> DEFINE new == [user |-> u, session |-> s, version |-> held.version]
  <2>1. new.user = u /\ new.session = s /\ new.version = held.version
    OBVIOUS
  <2>2. access' = access \cup {new}
    BY <1>1 DEF Issue
  <2> HIDE DEF new
  <2>3. CASE a = new
    BY <1>7, <2>1, <2>3
  <2> QED
    BY <2>2, <2>3
<1>9. req'[r].pc = "done" /\ \A q \in Reqs \ {r} : req'[q] = req[q]
  BY <1>0, Finishing DEF CreateLoginTokens
<1> QED
  BY <1>5, <1>8, <1>9, CurrentKept

LEMMA RefreshReadCurrent ==
  ASSUME IInv, Good, Current, NEW r \in Reqs, RefreshReadUser(r)
  PROVE  Current'
<1>0. TypeOK
  BY DEF IInv
<1>1. PICK u \in Users, s \in Sessions : u = req[r].user /\ s = req[r].session
  BY <1>0, Holding DEF RefreshReadUser
<1>2. PICK held \in Seen(u) :
          \/ Goto(r, [pc |-> "rotate", user |-> u, session |-> s, seen |-> held])
          \/ Finish(r, "refused")
  BY <1>1 DEF RefreshReadUser
<1>3. UNCHANGED <<account, cached, sess, access, black>>
  BY DEF RefreshReadUser
<1>4. VersionsKept
  BY <1>3 DEF VersionsKept
<1>5. u \notin StaleUsers => held = account[u] /\ account'[u] = account[u]
  BY <1>1, <1>3, SeesCurrent
<1>6. CASE Goto(r, [pc |-> "rotate", user |-> u, session |-> s, seen |-> held])
  <2>1. /\ req'[r] = [pc |-> "rotate", user |-> u, session |-> s, seen |-> held]
        /\ \A q \in Reqs \ {r} : req'[q] = req[q]
    BY <1>0, <1>6 DEF TypeOK, Goto
  <2>2. Fresh(u, s, held.version)'
    BY <1>5 DEF Fresh
  <2>3. LoginFresh(r)' /\ RotateFresh(r)'
    BY <2>1, <2>2 DEF LoginFresh, RotateFresh
  <2> QED
    BY <1>3, <1>4, <2>1, <2>3, CurrentKept
<1>7. CASE Finish(r, "refused")
  <2>1. req'[r].pc = "refused" /\ \A q \in Reqs \ {r} : req'[q] = req[q]
    BY <1>0, <1>7, Finishing
  <2> QED
    BY <1>3, <1>4, <2>1, CurrentKept
<1> QED
  BY <1>2, <1>6, <1>7

LEMMA RotateCurrent ==
  ASSUME IInv, Good, Current, NEW r \in Reqs, RefreshRotate(r)
  PROVE  Current'
<1>0. TypeOK /\ Kept
  BY DEF IInv, Good
<1>1. \E u \in Users, s \in DOMAIN sess : u = req[r].user /\ s = req[r].session
  BY <1>0, Holding DEF RefreshRotate, IInv, Owned
<1>2. PICK u, s, v : /\ u \in Users /\ s \in DOMAIN sess
                     /\ u = req[r].user /\ s = req[r].session /\ v = req[r].seen.version
  BY <1>1
<1> DEFINE new == [user |-> u, session |-> s, version |-> v]
<1>3. Fresh(u, s, v)
  BY <1>2 DEF Current, RotateFresh, RefreshRotate
<1>4. /\ sess' = [sess EXCEPT ![s].blank = FALSE, ![s].expired = FALSE]
      /\ access' = access \cup {new}
      /\ account' = account /\ cached' = cached
  BY <1>2 DEF RefreshRotate, Issue
<1>5. new.user = u /\ new.session = s /\ new.version = v
  OBVIOUS
<1>6. req'[r].pc = "done" /\ \A q \in Reqs \ {r} : req'[q] = req[q]
  BY <1>0, Finishing DEF RefreshRotate
<1> HIDE DEF new
<1>7. \A x \in DOMAIN sess : sess'[x].password = sess[x].password
  <2>1. \A x \in DOMAIN sess : sess[x] \in SessionRows
    BY <1>0 DEF TypeOK
  <2>2. sess' = [sess EXCEPT ![s] = [sess[s] EXCEPT !.blank = FALSE, !.expired = FALSE]]
    BY <1>2, <1>4
  <2>3. [sess[s] EXCEPT !.blank = FALSE, !.expired = FALSE].password = sess[s].password
    BY <1>2, <2>1, SMT DEF SessionRows
  <2> QED
    BY <1>0, <1>2, <2>2, <2>3 DEF TypeOK
<1>8. VersionsKept
  BY <1>4, <1>7 DEF VersionsKept
<1>9. Fresh(u, s, v)'
  <2>1. Live(s)' => Live(s)
    BY <1>0, <1>2 DEF Kept, Live
  <2> QED
    BY <1>2, <1>3, <1>4, <1>7, <2>1 DEF Fresh
<1>10. ASSUME NEW a \in access' PROVE a \in access \/ Fresh(a.user, a.session, a.version)'
  <2>1. CASE a = new
    BY <1>5, <1>9, <2>1
  <2> QED
    BY <1>4, <2>1
<1> QED
  BY <1>6, <1>8, <1>10, CurrentKept

LEMMA RevokeKeepsPasswords ==
  ASSUME TypeOK, NEW rows, Revoke(rows)
  PROVE  \A s \in DOMAIN sess : sess'[s].password = sess[s].password
<1>1. ASSUME NEW s \in DOMAIN sess PROVE sess'[s].password = sess[s].password
  <2>1. sess[s] \in SessionRows
    BY DEF TypeOK
  <2>2. [sess[s] EXCEPT !.revoked = TRUE, !.blank = TRUE].password = sess[s].password
    BY <2>1, SMT DEF SessionRows
  <2> QED
    BY <2>2 DEF Revoke
<1> QED
  BY <1>1

LEMMA LogoutCurrent ==
  ASSUME IInv, Good, Current, NEW r \in Reqs, UserLogout(r) \/ UserLogoutAll(r)
  PROVE  Current'
<1>0. TypeOK
  BY DEF IInv
<1>1. PICK rows : RevokeAndBlacklist(r, rows)
  BY DEF UserLogout, UserLogoutAll
<1>2. account' = account /\ cached' = cached /\ access' = access
  BY <1>1 DEF RevokeAndBlacklist
<1>3. \A s \in DOMAIN sess : sess'[s].password = sess[s].password
  BY <1>0, <1>1, RevokeKeepsPasswords DEF RevokeAndBlacklist
<1>4. VersionsKept
  BY <1>2, <1>3 DEF VersionsKept
<1>5. req'[r].pc \in {"done", "failed"} /\ \A q \in Reqs \ {r} : req'[q] = req[q]
  BY <1>0, <1>1, Finishing DEF RevokeAndBlacklist
<1> QED
  BY <1>2, <1>4, <1>5, CurrentKept

(* The one step that raises a version: it raises the password too, and     *)
(* revokes every session of the user.                                      *)
LEMMA ChangeCurrent ==
  ASSUME IInv, Good, Current, NEW r \in Reqs, UpdatePasswordAndRevokeSessions(r)
  PROVE  Current'
<1> DEFINE u == req[r].user
           new == [account[u] EXCEPT !.version = req[r].seen.version + 1, !.password = @ + 1]
<1>0. TypeOK /\ Owned /\ Kept
  BY DEF IInv, Good
<1>1. u \in Users /\ account[u] \in Accounts
  BY <1>0, Holding DEF UpdatePasswordAndRevokeSessions, TypeOK
<1>2. CASE WriteAccount(u, new) /\ Revoke(LiveSessions(u)) /\ Finish(r, "done")
  <2>1. new.password = account[u].password + 1 /\ account[u].password \in Nat
    BY <1>1 DEF Accounts
  <2> HIDE DEF new, u
  <2>2. account'[u].password = account[u].password + 1
    BY <1>1, <1>2, <2>1 DEF WriteAccount, TypeOK, IInv
  <2>3. \A v \in Users \ {u} : account'[v] = account[v] /\ cached'[v] = cached[v]
    BY <1>1, <1>2 DEF WriteAccount, TypeOK, IInv
  <2>4. u \notin StaleUsers => cached'[u] = {}
    BY <1>1, <1>2 DEF WriteAccount, TypeOK, IInv
  <2>5. /\ DOMAIN sess' = DOMAIN sess
        /\ \A s \in DOMAIN sess : s \in LiveSessions(u) => sess'[s].revoked
    BY <1>0, <1>2, Revoking
  <2>6. \A s \in DOMAIN sess : sess'[s].password = sess[s].password
    BY <1>0, <1>2, RevokeKeepsPasswords
  <2>7. access' = access
    BY DEF UpdatePasswordAndRevokeSessions
  <2>8. req'[r].pc = "done" /\ \A q \in Reqs \ {r} : req'[q] = req[q]
    BY <1>0, <1>2, Finishing
  <2>9. ASSUME NEW v \in Users, NEW s \in DOMAIN sess, sess[s].user = v, NEW version,
               Fresh(v, s, version)
        PROVE  Fresh(v, s, version)'
    <3>1. Live(s)' => Live(s)
      BY <1>0, <2>9 DEF Kept, Live
    <3>2. CASE v = u
      <4>1. ~Live(s)'
        BY <2>5, <2>9, <3>1, <3>2 DEF LiveSessions, Live
      <4> QED
        BY <4>1 DEF Fresh
    <3>3. CASE v # u
      BY <2>3, <2>6, <2>9, <3>1, <3>3 DEF Fresh
    <3> QED
      BY <3>2, <3>3
  <2>10. ASSUME NEW a \in access PROVE Fresh(a.user, a.session, a.version)'
    <3>1. a \in AccessTokens /\ a.session \in DOMAIN sess /\ sess[a.session].user = a.user
      BY <1>0 DEF TypeOK, Owned
    <3>2. a.user \in Users
      BY <3>1, SMT DEF AccessTokens
    <3>3. Fresh(a.user, a.session, a.version)
      BY DEF Current
    <3> QED
      BY <2>9, <3>1, <3>2, <3>3
  <2>11. ASSUME NEW q \in Reqs \ {r} PROVE LoginFresh(q)' /\ RotateFresh(q)'
    <3>1. req'[q] = req[q]
      BY <2>8
    <3>2. RotateFresh(q)'
      <4>1. req[q].pc = "rotate" => /\ req[q].user \in Users
                                    /\ req[q].session \in DOMAIN sess
                                    /\ sess[req[q].session].user = req[q].user
        BY <1>0, Holding DEF Owned
      <4> QED
        BY <2>9, <3>1, <4>1 DEF Current, RotateFresh
    <3>3. LoginFresh(q)'
      <4> SUFFICES ASSUME req[q].pc = "login", req[q].user \notin StaleUsers
                   PROVE  /\ req[q].seen.password <= account'[req[q].user].password
                          /\ req[q].seen.password = account'[req[q].user].password =>
                               req[q].seen.version = account'[req[q].user].version
        BY <3>1 DEF LoginFresh
      <4>1. req[q].user \in Users /\ req[q].seen \in Accounts
        BY <1>0, Holding
      <4>2. req[q].seen.password \in Nat
        BY <4>1 DEF Accounts
      <4>3. /\ req[q].seen.password <= account[req[q].user].password
            /\ req[q].seen.password = account[req[q].user].password =>
                 req[q].seen.version = account[req[q].user].version
        BY DEF Current, LoginFresh
      <4>4. CASE req[q].user = u
        BY <2>1, <2>2, <4>2, <4>3, <4>4
      <4>5. CASE req[q].user # u
        BY <2>3, <4>1, <4>3, <4>5
      <4> QED
        BY <4>4, <4>5
    <3> QED
      BY <3>2, <3>3
  <2>12. LoginFresh(r)' /\ RotateFresh(r)'
    BY <2>8 DEF LoginFresh, RotateFresh
  <2>13. \A v \in Users \ StaleUsers : cached'[v] = {}
    BY <2>3, <2>4 DEF Current
  <2> QED
    BY <2>7, <2>10, <2>11, <2>12, <2>13 DEF Current
<1>3. CASE Finish(r, "failed") /\ UNCHANGED <<account, cached, sess>>
  <2>1. req'[r].pc = "failed" /\ \A q \in Reqs \ {r} : req'[q] = req[q]
    BY <1>0, <1>3, Finishing
  <2>2. VersionsKept /\ access' = access
    BY <1>3 DEF VersionsKept, UpdatePasswordAndRevokeSessions
  <2> QED
    BY <2>1, <2>2, CurrentKept
<1> QED
  BY <1>2, <1>3 DEF UpdatePasswordAndRevokeSessions

LEMMA EnvironmentCurrent ==
  ASSUME IInv, Good, Current,
         \/ \E u \in Users : SetStatus(u) \/ CacheExpires(u)
         \/ \E s \in Sessions : SessionExpires(s)
  PROVE  Current'
<1>0. TypeOK
  BY DEF IInv
<1>1. req' = req /\ access' = access
  BY DEF SetStatus, CacheExpires, SessionExpires
<1>2. VersionsKept
  <2>1. ASSUME NEW u \in Users, SetStatus(u) PROVE VersionsKept
    <3>1. account[u] \in Accounts
      BY <1>0 DEF TypeOK
    <3>2. /\ [account[u] EXCEPT !.active = ~@].version = account[u].version
          /\ [account[u] EXCEPT !.active = ~@].password = account[u].password
      BY <3>1 DEF Accounts
    <3>3. sess' = sess
      BY <2>1 DEF SetStatus
    <3>4. \A v \in Users : /\ account'[v].version = account[v].version
                           /\ account'[v].password = account[v].password
      BY <1>0, <2>1, <3>2 DEF SetStatus, WriteAccount, TypeOK
    <3>5. \A v \in Users \ StaleUsers : cached[v] = {} => cached'[v] = {}
      BY <1>0, <2>1 DEF SetStatus, WriteAccount, TypeOK
    <3> QED
      BY <3>3, <3>4, <3>5 DEF VersionsKept
  <2>2. ASSUME NEW u \in Users, CacheExpires(u) PROVE VersionsKept
    BY <1>0, <2>2 DEF CacheExpires, VersionsKept, TypeOK
  <2>3. ASSUME NEW s \in Sessions, SessionExpires(s) PROVE VersionsKept
    <3>1. /\ s \in DOMAIN sess
          /\ sess' = [sess EXCEPT ![s] = [sess[s] EXCEPT !.expired = TRUE]]
          /\ account' = account /\ cached' = cached
      BY <2>3 DEF SessionExpires, Live
    <3>2. [sess[s] EXCEPT !.expired = TRUE].password = sess[s].password
      BY <1>0, <3>1, SMT DEF TypeOK, SessionRows
    <3> QED
      BY <1>0, <3>1, <3>2 DEF VersionsKept, TypeOK
  <2> QED
    BY <2>1, <2>2, <2>3
<1> QED
  BY <1>1, <1>2, CurrentKept

LEMMA InitCurrent == Init => Current
  BY DEF Init, Current, LoginFresh, RotateFresh

LEMMA NextCurrent == IInv /\ Current /\ [Next]_vars => Current'
<1> SUFFICES ASSUME IInv, Current, [Next]_vars PROVE Current'
  OBVIOUS
<1>1. Good
  BY NextGood, Stuttering
<1>2. ASSUME NEW r \in Reqs, Begin(r) \/ Continue(r) PROVE Current'
  BY <1>1, <1>2, BeginCurrent, LoginCurrent, RefreshReadCurrent, RotateCurrent, LogoutCurrent,
     ChangeCurrent DEF Continue
<1>3. CASE UNCHANGED vars
  <2>1. VersionsKept /\ req' = req /\ access' = access
    BY <1>3 DEF vars, VersionsKept
  <2> QED
    BY <1>1, <2>1, CurrentKept
<1> QED
  BY <1>1, <1>2, <1>3, EnvironmentCurrent DEF Next

(* However logins, refreshes, password changes and logouts interleave, an  *)
(* access token of a live session that was opened with the user's current  *)
(* password carries the user's current version: no such session is logged  *)
(* out by the side.  For the users whose overwritten row the query cache   *)
(* never returns.                                                          *)
THEOREM VersionFollowsPassword == Spec => []CurrentSessionsKeepVersion
<1>1. Current => CurrentSessionsKeepVersion
  BY DEF Current, Fresh, CurrentSessionsKeepVersion
<1> QED
  BY <1>1, InitCurrent, NextCurrent, Inductive, PTL DEF Spec

-----------------------------------------------------------------------------
(* Articles.  The steps of MCSite are steps of the module ArticlesProofs   *)
(* speaks of, so that its theorems hold of the site.                        *)

P == INSTANCE ArticlesProofs WITH req <- artReq, raced <- artRaced

LEMMA SameActions ==
  /\ \A r : Art!Ask(r) <=> P!Ask(r)
  /\ \A r : Art!Step(r) <=> P!Step(r)
  /\ \A a, s : Art!Examine(a, s) <=> P!Examine(a, s)
  /\ \A t, state : Art!SaveTag(t, state) <=> P!SaveTag(t, state)
  /\ Art!Replicate <=> P!Replicate
  BY Zenon DEF Art!Ask, P!Ask, Art!Step, P!Step, Art!tagVars, P!tagVars,
       Art!pinVars, P!pinVars, Art!docVars, P!docVars, Art!artVars, P!artVars,
       Art!Statuses, P!Statuses, Art!Accounts, P!Accounts, Art!Ids, P!Ids,
       Art!Article, P!Article, Art!Doc, P!Doc, Art!Exists, P!Exists,
       Art!Enabled, P!Enabled, Art!TagsOf, P!TagsOf, Art!Pairs, P!Pairs,
       Art!Preload, P!Preload, Art!TopMap, P!TopMap, Art!Part, P!Part,
       Art!Goto, P!Goto, Art!Done, P!Done, Art!Refresh, P!Refresh,
       Art!Recount, P!Recount, Art!SyncTags, P!SyncTags, Art!CreateStart,
       P!CreateStart, Art!CreateCommit, P!CreateCommit, Art!CountTags,
       P!CountTags, Art!UpdateTagsOnly, P!UpdateTagsOnly, Art!UpdateStart,
       P!UpdateStart, Art!UpdateCommit, P!UpdateCommit, Art!Examine,
       P!Examine, Art!RemoveHook, P!RemoveHook, Art!RemoveCommit,
       P!RemoveCommit, Art!RemoveRollback, P!RemoveRollback, Art!MayPin,
       P!MayPin, Art!Pins, P!Pins, Art!Full, P!Full, Art!Refused, P!Refused,
       Art!Cleared, P!Cleared, Art!Unlocked, P!Unlocked, Art!By, P!By,
       Art!Aborted, P!Aborted, Art!TopStart, P!TopStart, Art!TopCheck,
       P!TopCheck, Art!TopPin, P!TopPin, Art!Unpin, P!Unpin, Art!SaveTag,
       P!SaveTag, Art!RenameTag, P!RenameTag, Art!DeleteTagCheck,
       P!DeleteTagCheck, Art!DeleteTag, P!DeleteTag, Art!RefreshLoad,
       P!RefreshLoad, Art!Merged, P!Merged, Art!RefreshWrite, P!RefreshWrite,
       Art!FullSync, P!FullSync, Art!Replicate, P!Replicate, Art!Cardinality,
       P!Cardinality

LEMMA SameStates ==
  /\ Art!ArtInit <=> P!ArtInit
  /\ Art!artVars = P!artVars
  /\ Art!LockedPinLimit <=> P!LockedPinLimit
  /\ Art!TagsCounted <=> P!TagsCounted
<1>1. Art!artVars = P!artVars
  BY Zenon DEF Art!artVars, P!artVars, Art!tagVars, P!tagVars, Art!pinVars,
       P!pinVars, Art!docVars, P!docVars
<1>2. Art!ArtInit <=> P!ArtInit
  BY Zenon DEF Art!ArtInit, P!ArtInit, Art!Accounts, P!Accounts, Art!Ids,
       P!Ids, Art!Doc, P!Doc, Art!Statuses, P!Statuses, Art!Article,
       P!Article, Art!TopMap, P!TopMap, Art!TagsOf, P!TagsOf, Art!Preload,
       P!Preload, Art!Exists, P!Exists, Art!Enabled, P!Enabled, Art!Part,
       P!Part
<1>3. Art!LockedPinLimit <=> P!LockedPinLimit
  BY Zenon DEF Art!LockedPinLimit, P!LockedPinLimit, Art!Pins, P!Pins,
       Art!Cardinality, P!Cardinality
<1>4. Art!TagsCounted <=> P!TagsCounted
  BY Zenon DEF Art!TagsCounted, P!TagsCounted, Art!Quiet, P!Quiet,
       Art!Cardinality, P!Cardinality
<1> QED
  BY <1>1, <1>2, <1>3, <1>4

LEMMA ArtMoves ==
  /\ AllInit => P!ArtInit
  /\ [AllNext]_<<part, vars, artVars, searchVars, siteVars, signVars, scoreVars>> => [P!ArtNext]_(P!artVars)
<1>1. Art!ArtNext <=> P!ArtNext
  BY Zenon, SameActions DEF Art!ArtNext, P!ArtNext, Art!Statuses, P!Statuses
<1>2. AllInit => Art!ArtInit
  BY DEF AllInit
<1>3. AllNext => Art!ArtNext \/ UNCHANGED artVars
  BY Zenon DEF AllNext
<1>4. UNCHANGED artVars => UNCHANGED P!artVars
  BY Zenon DEF artVars, P!artVars, P!tagVars, P!pinVars, P!docVars
<1> QED
  BY <1>1, <1>2, <1>3, <1>4, SameStates

LEMMA ArtImplemented == AllSpec => P!ArtSpec
  BY ArtMoves, PTL DEF AllSpec, P!ArtSpec

(* ArticleTopSetView (top_set.go): a user none of whose checks was answered *)
(* by the query cache never holds more pins than the limit, for any users,  *)
(* articles and requests, because the pins are counted under the lock of    *)
(* the user's row.                                                         *)
THEOREM SitePins == AllSpec => []LockedPinLimit
<1>1. P!ArtSpec => []P!LockedPinLimit
  BY P!PinsLimited, ArticlesAssumption
<1>2. P!LockedPinLimit => LockedPinLimit
  BY SameStates DEF LockedPinLimit
<1> QED
  BY <1>1, <1>2, ArtImplemented, PTL

(* syncArticleTags and the tag API: at rest a tag shows as many articles as *)
(* have it, but for exactly the HINCRBYs that failed, for any finite set of *)
(* requests, any tags and articles, unless the tags of an article changed   *)
(* after a request had read them or a removal was rolled back.              *)
THEOREM SiteTags == AllSpec => []TagsCounted
<1>1. Seeds \subseteq Seq(P!Article) /\ P!IsFiniteSet(Reqs)
  BY ArticlesAssumption DEF Art!Article, P!Article, Art!Accounts, P!Accounts, Art!Statuses, P!Statuses, P!IsFiniteSet, IsFiniteSet
<1>2. P!ArtSpec => []P!TagsCounted
  BY <1>1, P!TagsAreCounted
<1>3. P!TagsCounted => TagsCounted
  BY SameStates DEF TagsCounted
<1> QED
  BY <1>2, <1>3, ArtImplemented, PTL

-----------------------------------------------------------------------------
(* Search.  The clauses of the query, field by field, as each type of      *)
(* search leaves them and as the later clauses change them.                *)

Callers == Find!Accounts \cup {Guest}

LEMMA Refused ==
  ASSUME NEW cr \in Find!Request, NEW who \in Callers
  PROVE  Find!TypeRefused(cr, who) \/ Find!CategoryRefused(cr, who) <=> ~Find!MayAsk(cr, who)
  BY SearchAssumption
     DEF Callers, Find!Request, Find!TypeRefused, Find!CategoryRefused, Find!MayAsk, Find!UserOf

LEMMA TypeClauses ==
  ASSUME NEW cr \in Find!Request, NEW who \in Callers, Find!MayAsk(cr, who),
         NEW q, q = Find!TypeQuery(cr, who)
  PROVE  /\ q.status = IF cr.type \in {1, 2, 3} THEN {"published"}
                       ELSE IF cr.status # Absent THEN {cr.status}
                       ELSE IF cr.type = 4 THEN Find!AnyStatus \ {"deleted"} ELSE Find!AnyStatus
         /\ q.author = IF cr.type = 4 THEN {who}
                       ELSE IF cr.type = 3 /\ cr.user # Absent THEN {cr.user} ELSE Find!AnyAuthor
         /\ q.category = Find!AnyCategory /\ q.tags = {Absent} /\ q.tops = {} /\ q.word = cr.key
         /\ q.likes = IF cr.type = 2 /\ who # Guest THEN LikeTags[who] ELSE {}
         /\ q = [status |-> q.status, author |-> q.author, category |-> q.category, tags |-> q.tags,
                 likes |-> q.likes, tops |-> q.tops, word |-> q.word]
<1>1. cr.type \in 1..5
  BY DEF Find!Request
<1>2. CASE cr.type = 1
  <2>1. q = Find!DefaultQuery(cr.key)
    BY <1>2 DEF Find!TypeQuery
  <2>2. q = [status |-> {"published"}, author |-> Find!AnyAuthor, category |-> Find!AnyCategory,
             tags |-> {Absent}, likes |-> {}, tops |-> {}, word |-> cr.key]
    BY <2>1 DEF Find!DefaultQuery, Find!BaseQuery
  <2> QED
    BY <1>2, <2>2
<1>3. CASE cr.type = 2
  <2>1. q = IF who = Guest THEN Find!DefaultQuery(cr.key) ELSE Find!LikeTagsQuery(Find!DefaultQuery(cr.key), who)
    BY <1>3 DEF Find!TypeQuery
  <2>2. q = [status |-> {"published"}, author |-> Find!AnyAuthor, category |-> Find!AnyCategory,
             tags |-> {Absent}, likes |-> IF who = Guest THEN {} ELSE LikeTags[who], tops |-> {},
             word |-> cr.key]
    BY <2>1 DEF Find!DefaultQuery, Find!BaseQuery, Find!LikeTagsQuery
  <2> QED
    BY <1>3, <2>2
<1>4. CASE cr.type = 3
  <2>1. q = Find!UserIDQuery(Find!DefaultQuery(cr.key), cr.user)
    BY <1>4 DEF Find!TypeQuery
  <2>2. q = [status |-> {"published"}, author |-> IF cr.user # Absent THEN {cr.user} ELSE Find!AnyAuthor,
             category |-> Find!AnyCategory, tags |-> {Absent}, likes |-> {}, tops |-> {}, word |-> cr.key]
    BY <2>1 DEF Find!DefaultQuery, Find!BaseQuery, Find!UserIDQuery
  <2> QED
    BY <1>4, <2>2
<1>5. CASE cr.type = 4
  <2>1. q = Find!SelfQuery(cr.key, who, cr.status)
    BY <1>5 DEF Find!TypeQuery
  <2>2. q = [status |-> IF cr.status # Absent THEN {cr.status} ELSE Find!AnyStatus \ {"deleted"},
             author |-> {who}, category |-> Find!AnyCategory, tags |-> {Absent}, likes |-> {},
             tops |-> {}, word |-> cr.key]
    BY <2>1 DEF Find!SelfQuery, Find!BaseQuery
  <2> QED
    BY <1>5, <2>2
<1>6. CASE cr.type = 5
  <2>1. q = Find!AdminQuery(cr.key, cr.status)
    BY <1>6 DEF Find!TypeQuery
  <2>2. q = [status |-> IF cr.status # Absent THEN {cr.status} ELSE Find!AnyStatus,
             author |-> Find!AnyAuthor, category |-> Find!AnyCategory, tags |-> {Absent}, likes |-> {},
             tops |-> {}, word |-> cr.key]
    BY <2>1 DEF Find!AdminQuery, Find!BaseQuery
  <2> QED
    BY <1>6, <2>2
<1> QED
  BY <1>1, <1>2, <1>3, <1>4, <1>5, <1>6

LEMMA Clauses ==
  ASSUME NEW cr \in Find!Request, NEW who \in Callers, Find!MayAsk(cr, who),
         NEW q, q = Find!Query(cr, who)
  PROVE  /\ q.status = IF cr.type \in {1, 2, 3} THEN {"published"}
                       ELSE IF cr.status # Absent THEN {cr.status}
                       ELSE IF cr.type = 4 THEN Find!AnyStatus \ {"deleted"} ELSE Find!AnyStatus
         /\ q.author = IF cr.type = 4 THEN {who}
                       ELSE IF cr.type = 3 /\ cr.user # Absent THEN {cr.user} ELSE Find!AnyAuthor
         /\ q.category = IF cr.category = Absent THEN Find!AnyCategory ELSE {cr.category}
         /\ q.tags = IF cr.tags \subseteq {Blank} THEN {Absent} ELSE cr.tags \ {Blank}
         /\ q.tops = IF ~cr.top THEN {} ELSE IF cr.type \in {3, 4} THEN {"author_top", "admin_top"} ELSE {"admin_top"}
         /\ q.word = cr.key
         /\ q.likes = IF cr.type = 2 /\ who # Guest THEN LikeTags[who] ELSE {}
<1>1. PICK t : t = Find!TypeQuery(cr, who)
  OBVIOUS
<1>2. PICK tagged_ : tagged_ = Find!TagListQuery(t, cr.tags)
  OBVIOUS
<1>3. PICK filed : filed = IF cr.category = Absent THEN tagged_ ELSE Find!CategoryIDQuery(tagged_, cr.category)
  OBVIOUS
<1>4. q = IF ~cr.top THEN filed
          ELSE IF cr.type \in {3, 4} THEN Find!AuthorAdminTopQuery(filed) ELSE Find!AdminTopQuery(filed)
  BY <1>1, <1>2, <1>3, Zenon DEF Find!Query
<1>5. /\ t.category = Find!AnyCategory /\ t.tags = {Absent} /\ t.tops = {}
      /\ t = [status |-> t.status, author |-> t.author, category |-> t.category, tags |-> t.tags,
              likes |-> t.likes, tops |-> t.tops, word |-> t.word]
  BY <1>1, TypeClauses
<1>6. tagged_ = [status |-> t.status, author |-> t.author, category |-> t.category,
                tags |-> IF cr.tags \subseteq {Blank} THEN {Absent} ELSE cr.tags \ {Blank},
                likes |-> t.likes, tops |-> t.tops, word |-> t.word]
  BY <1>2, <1>5 DEF Find!TagListQuery
<1>7. filed = [status |-> t.status, author |-> t.author,
               category |-> IF cr.category = Absent THEN Find!AnyCategory ELSE {cr.category},
               tags |-> IF cr.tags \subseteq {Blank} THEN {Absent} ELSE cr.tags \ {Blank},
               likes |-> t.likes, tops |-> {}, word |-> t.word]
  BY <1>3, <1>5, <1>6 DEF Find!CategoryIDQuery
<1>8. /\ q.status = t.status /\ q.author = t.author /\ q.likes = t.likes /\ q.word = t.word
      /\ q.category = IF cr.category = Absent THEN Find!AnyCategory ELSE {cr.category}
      /\ q.tags = IF cr.tags \subseteq {Blank} THEN {Absent} ELSE cr.tags \ {Blank}
      /\ q.tops = IF ~cr.top THEN {} ELSE IF cr.type \in {3, 4} THEN {"author_top", "admin_top"} ELSE {"admin_top"}
  BY <1>4, <1>7 DEF Find!AuthorAdminTopQuery, Find!AdminTopQuery
<1>9. /\ t.status = IF cr.type \in {1, 2, 3} THEN {"published"}
                    ELSE IF cr.status # Absent THEN {cr.status}
                    ELSE IF cr.type = 4 THEN Find!AnyStatus \ {"deleted"} ELSE Find!AnyStatus
      /\ t.author = IF cr.type = 4 THEN {who}
                    ELSE IF cr.type = 3 /\ cr.user # Absent THEN {cr.user} ELSE Find!AnyAuthor
      /\ t.word = cr.key /\ t.likes = IF cr.type = 2 /\ who # Guest THEN LikeTags[who] ELSE {}
  BY <1>1, TypeClauses
<1> QED
  BY <1>8, <1>9, Zenon

LEMMA HitsAreWanted ==
  ASSUME NEW cr \in Find!Request, NEW who \in Callers, Find!MayAsk(cr, who), NEW d \in Index
  PROVE  /\ Find!Hit(Find!Query(cr, who), d) <=> Find!Wanted(cr, who, d)
         /\ Find!Boosts(Find!Query(cr, who), d) = Find!Pushed(cr, who, d)
<1>1. PICK q : q = Find!Query(cr, who)
  OBVIOUS
<1>2. /\ q.status = IF cr.type \in {1, 2, 3} THEN {"published"}
                    ELSE IF cr.status # Absent THEN {cr.status}
                    ELSE IF cr.type = 4 THEN Find!AnyStatus \ {"deleted"} ELSE Find!AnyStatus
      /\ q.author = IF cr.type = 4 THEN {who}
                    ELSE IF cr.type = 3 /\ cr.user # Absent THEN {cr.user} ELSE Find!AnyAuthor
      /\ q.category = IF cr.category = Absent THEN Find!AnyCategory ELSE {cr.category}
      /\ q.tags = IF cr.tags \subseteq {Blank} THEN {Absent} ELSE cr.tags \ {Blank}
      /\ q.tops = IF ~cr.top THEN {} ELSE IF cr.type \in {3, 4} THEN {"author_top", "admin_top"} ELSE {"admin_top"}
      /\ q.word = cr.key
      /\ q.likes = IF cr.type = 2 /\ who # Guest THEN LikeTags[who] ELSE {}
  BY <1>1, Clauses
<1>3. /\ d.status \in Find!AnyStatus /\ d.author \in Find!AnyAuthor /\ d.category \in Find!AnyCategory
      /\ d.tags \subseteq Tags \cup {Blank} /\ d.tops \subseteq {"author_top", "admin_top"} /\ d.word \in BOOLEAN
  BY SearchAssumption DEF Find!Document, Find!AnyStatus, Find!AnyAuthor, Find!AnyCategory, Find!Tops
<1>4. /\ cr.type \in 1..5 /\ cr.tags \subseteq Tags \cup {Blank} /\ cr.key \in BOOLEAN /\ cr.top \in BOOLEAN
      /\ cr.type = 4 => cr.status # "deleted"
  BY DEF Find!Request, Find!MayAsk
<1>5. d.status \in q.status <=> /\ cr.type \in {1, 2, 3} => d.status = "published"
                                /\ cr.type = 4 => d.status # "deleted"
                                /\ cr.type \in {4, 5} /\ cr.status # Absent => d.status = cr.status
  BY <1>2, <1>3, <1>4
<1>6. d.author \in q.author <=> /\ cr.type = 3 /\ cr.user # Absent => d.author = cr.user
                                /\ cr.type = 4 => d.author = who
  BY <1>2, <1>3
<1>7. d.category \in q.category <=> (cr.category # Absent => d.category = cr.category)
  BY <1>2, <1>3
<1>8. (q.tags = {Absent} \/ d.tags \cap q.tags # {}) <=>
        (cr.tags \ {Blank} # {} => \E t \in cr.tags \ {Blank} : t \in d.tags)
  <2>1. CASE cr.tags \subseteq {Blank}
    BY <1>2, <2>1
  <2>2. CASE ~(cr.tags \subseteq {Blank})
    <3>1. q.tags = cr.tags \ {Blank} /\ cr.tags \ {Blank} # {} /\ Absent \notin q.tags
      BY <1>2, <1>4, <2>2, SearchAssumption
    <3> QED
      BY <3>1
  <2> QED
    BY <2>1, <2>2
<1>9. Find!Hit(q, d) <=> Find!Wanted(cr, who, d)
  BY <1>2, <1>5, <1>6, <1>7, <1>8 DEF Find!Hit, Find!Wanted
<1>10. ASSUME NEW b
       PROVE  b \in Find!Boosts(q, d) <=> b \in Find!Pushed(cr, who, d)
  <2>1. b \in Find!Boosts(q, d) <=> \/ b = "like_tags" /\ d.tags \cap q.likes # {}
                                    \/ b \in d.tops /\ b \in q.tops
    BY DEF Find!Boosts
  <2>2. (d.tags \cap q.likes # {}) <=> cr.type = 2 /\ who # Guest /\ \E t \in d.tags : t \in LikeTags[who]
    BY <1>2
  <2>3. b \in q.tops <=> \/ b = "admin_top" /\ cr.top
                         \/ b = "author_top" /\ cr.top /\ cr.type \in {3, 4}
    BY <1>2
  <2> QED
    BY <2>1, <2>2, <2>3 DEF Find!Pushed
<1>11. Find!Boosts(q, d) = Find!Pushed(cr, who, d)
  BY <1>10, Zenon
<1> QED
  BY <1>1, <1>9, <1>11

SearchInv ==
  part = "search" => /\ searchAsked \in [request : Find!Request, by : Callers]
                     /\ Find!SearchFollowsRules

LEMMA SearchKept ==
  ASSUME SearchInv, [AllNext]_<<part, vars, artVars, searchVars, siteVars, signVars, scoreVars>>
  PROVE  SearchInv'
<1> SUFFICES ASSUME part' = "search"
             PROVE  /\ searchAsked' \in [request : Find!Request, by : Callers]
                    /\ Find!SearchFollowsRules'
  BY DEF SearchInv
<1>1. part = "search" /\ (Find!SearchNext \/ UNCHANGED searchVars)
  BY DEF AllNext
<1>2. searchAsked \in [request : Find!Request, by : Callers] /\ Find!SearchFollowsRules
  BY <1>1 DEF SearchInv
<1>3. CASE UNCHANGED searchVars
  BY <1>2, <1>3 DEF searchVars, Find!SearchFollowsRules
<1>4. CASE Find!SearchNext
  <2>1. PICK cr, who : cr = searchAsked.request /\ who = searchAsked.by
    OBVIOUS
  <2>2. /\ searchAsked' = searchAsked /\ cr \in Find!Request /\ who \in Callers
        /\ answer' = IF Find!TypeRefused(cr, who) \/ Find!CategoryRefused(cr, who) THEN [state |-> "refused"]
               ELSE [state |-> "found", list |-> {Find!Result(Find!Query(cr, who), d) : d \in {e \in Index : Find!Hit(Find!Query(cr, who), e)}}]
    BY <1>2, <1>4, <2>1 DEF Find!SearchNext, Find!SearchArticles
  <2>3. CASE ~Find!MayAsk(cr, who)
    <3>1. answer' = [state |-> "refused"]
      BY <2>2, <2>3, Refused
    <3> QED
      BY <1>2, <2>1, <2>2, <2>3, <3>1 DEF Find!SearchFollowsRules
  <2>4. CASE Find!MayAsk(cr, who)
    <3>1. PICK q : q = Find!Query(cr, who)
      OBVIOUS
    <3>2. answer' = [state |-> "found", list |-> {Find!Result(q, d) : d \in {e \in Index : Find!Hit(q, e)}}]
      BY <2>2, <2>4, <3>1, Refused
    <3>3. \A d \in Index : (Find!Hit(q, d) <=> Find!Wanted(cr, who, d)) /\ Find!Boosts(q, d) = Find!Pushed(cr, who, d)
      BY <2>2, <2>4, <3>1, HitsAreWanted
    <3>4. \A d : Find!Result(q, d).doc = d /\ Find!Result(q, d).boosts = Find!Boosts(q, d)
      BY DEF Find!Result
    <3>5. answer'.state = "found" /\ answer'.list = {Find!Result(q, d) : d \in {e \in Index : Find!Hit(q, e)}}
      BY <3>2
    <3>6. \A x \in answer'.list : \E d \in Index : x = Find!Result(q, d) /\ Find!Hit(q, d)
      BY <3>5
    <3>7. {x.doc : x \in answer'.list} = {d \in Index : Find!Wanted(cr, who, d)}
      BY <3>3, <3>4, <3>5
    <3>8. \A x \in answer'.list : x.boosts = Find!Pushed(cr, who, x.doc)
      BY <3>3, <3>4, <3>6
    <3> QED
      BY <1>2, <2>1, <2>2, <2>4, <3>5, <3>7, <3>8 DEF Find!SearchFollowsRules
  <2> QED
    BY <2>3, <2>4
<1> QED
  BY <1>1, <1>3, <1>4

LEMMA SearchStarts == AllInit => SearchInv
  BY DEF AllInit, SearchInv, Find!SearchInit, Find!SearchFollowsRules, Callers

(* The search API and the query builder: for any members, categories, tags  *)
(* and index, a request is refused exactly when the caller may not make it, *)
(* and otherwise every hit satisfies the rule of its type of search, every  *)
(* document that satisfies it is a hit, and what is pinned comes first.     *)
THEOREM SearchesFollowRules == AllSpec => []SearchFollowsRules
<1>1. SearchInv => SearchFollowsRules
  BY DEF SearchInv, SearchFollowsRules
<1> QED
  BY <1>1, SearchStarts, SearchKept, PTL DEF AllSpec

-----------------------------------------------------------------------------
(* SiteConfig.  What a field of the configuration can hold.                 *)

Settings == Values \cup {Zero, Default}

LEMMA FilledTyped ==
  ASSUME NEW v \in Settings
  PROVE  /\ Site!Filled(v) \in Site!Configuration
         /\ \A h \in Site!Halves : \A f \in Fields[h] : Site!Filled(v)[h][f] = v
<1>1. PICK x : x = Site!Filled(v)
  OBVIOUS
<1>2. /\ x = [h \in {"site", "ai"} |-> [f \in Fields[h] |-> v]]
  BY <1>1 DEF Site!Filled, Site!Halves
<1>3. x = [site |-> [f \in Fields["site"] |-> v], ai |-> [f \in Fields["ai"] |-> v]]
  BY <1>2
<1> QED
  BY <1>1, <1>3 DEF Site!Configuration, Site!Halves, Settings

HalfSet(c, h, g)     == [c EXCEPT ![h] = g]
FieldSet(c, h, f, v) == [c EXCEPT ![h][f] = v]

LEMMA SetHalf ==
  ASSUME NEW c \in Site!Configuration, NEW h \in Site!Halves, NEW g \in [Fields[h] -> Settings]
  PROVE  /\ HalfSet(c, h, g) \in Site!Configuration /\ HalfSet(c, h, g)[h] = g
         /\ \A k \in Site!Halves \ {h} : HalfSet(c, h, g)[k] = c[k]
  BY DEF Site!Configuration, Site!Halves, Settings, HalfSet

LEMMA HalfTyped ==
  ASSUME NEW c \in Site!Configuration, NEW h \in Site!Halves
  PROVE  c[h] \in [Fields[h] -> Settings]
  BY DEF Site!Configuration, Site!Halves, Settings

LEMMA SetField ==
  ASSUME NEW c \in Site!Configuration, NEW h \in Site!Halves, NEW f \in Fields[h], NEW v \in Settings
  PROVE  /\ FieldSet(c, h, f, v) \in Site!Configuration
         /\ \A g \in Fields[h] : FieldSet(c, h, f, v)[h][g] = IF g = f THEN v ELSE c[h][g]
<1>1. PICK x : x = [c[h] EXCEPT ![f] = v]
  OBVIOUS
<1>2. x \in [Fields[h] -> Settings] /\ \A g \in Fields[h] : x[g] = IF g = f THEN v ELSE c[h][g]
  BY <1>1, HalfTyped
<1>3. FieldSet(c, h, f, v) = HalfSet(c, h, x)
  BY <1>1 DEF Site!Configuration, Site!Halves, Settings, FieldSet, HalfSet
<1>4. HalfSet(c, h, x) \in Site!Configuration /\ HalfSet(c, h, x)[h] = x
  BY <1>2, SetHalf
<1> QED
  BY <1>2, <1>3, <1>4

-----------------------------------------------------------------------------
(* SiteConfig.  What an update holds, by its pc.                            *)
Resting == {"idle", "done"}

EditTyped(state, rows) ==
  /\ state.pc \in Resting \cup {"bind", "secret", "call", "read", "write", "config", "cache"}
  /\ state.pc \in {"bind", "secret", "call", "read", "write"} =>
       /\ state.half \in Site!Halves
       /\ DOMAIN state.want \subseteq Fields[state.half]
  /\ state.pc \in {"bind", "secret", "call"} =>
       /\ state = [pc |-> state.pc, half |-> state.half, body |-> state.body, left |-> state.left,
                   bad |-> state.bad, want |-> state.want]
       /\ DOMAIN state.body = DOMAIN state.want /\ state.left \subseteq DOMAIN state.body
       /\ \A f \in DOMAIN state.body : state.body[f] \in Settings
  /\ state.pc = "secret" => state.half = "ai"
  /\ state.pc = "read" => state.new \in [Fields[state.half] -> Settings]
  /\ state.pc \in {"write", "config", "cache"} => state.row \in Site!Configuration
  /\ state.pc \in {"config", "cache"} =>
       state.row \in rows /\ state = [pc |-> state.pc, row |-> state.row]

ConfTyped ==
  /\ {stored, config, cache} \subseteq Site!Configuration \cup {NoRow}
  /\ shared \in Site!Configuration /\ committed \subseteq Site!Configuration /\ raced \in BOOLEAN
  /\ (config = NoRow <=> cache = NoRow)
  /\ Site!Running => stored # NoRow /\ {config, cache} \subseteq committed
  /\ DOMAIN asked = Site!Halves /\ (stored = NoRow => asked = Site!Nothing)
  /\ DOMAIN edit = Edits /\ \A r \in Edits : EditTyped(edit[r], committed)
  /\ ~Site!Running => Site!Idle

(* What an update that is alone has done of what its request wants.         *)
WantsOf(state, row) ==
  \A f \in DOMAIN state.body :
    state.want[f] = IF state.body[f] = Placeholder /\ f = "secret" THEN row["ai"]["secret"] ELSE state.body[f]

EditAgrees(state, row, form, inforce) ==
  /\ state.pc \in {"bind", "secret"} => WantsOf(state, row)
  /\ state.pc = "bind" =>
       \A f \in (DOMAIN state.body) \ state.left : form[state.half][f] = state.body[f]
  /\ state.pc = "secret" => \A f \in DOMAIN state.body : form[state.half][f] = state.body[f]
  /\ state.pc = "call" => \A f \in DOMAIN state.want : form[state.half][f] = state.want[f]
  /\ state.pc = "read" => \A f \in DOMAIN state.want : state.new[f] = state.want[f]
  /\ state.pc = "write" =>
       /\ \A f \in DOMAIN state.want : state.row[state.half][f] = state.want[f]
       /\ \A h \in Site!Halves \ {state.half} : state.row[h] = row[h]
  /\ state.pc \in {"config", "cache"} => state.row = row
  /\ state.pc = "cache" => inforce = row

AskedKept == stored # NoRow =>
  \A h \in Site!Halves : \A f \in DOMAIN asked[h] : stored[h][f] = asked[h][f]

Agreed ==
  /\ \A r, q \in Edits : edit[r].pc \notin Resting /\ edit[q].pc \notin Resting => r = q
  /\ AskedKept
  /\ Site!Running /\ (\A r \in Edits : edit[r].pc \notin {"config", "cache"}) => config = stored /\ cache = stored
  /\ \A r \in Edits : EditAgrees(edit[r], stored, shared, config)

ConfInv == ConfTyped /\ (~raced => Agreed)

LEMMA ConfTells == ConfInv => Site!ConfigKept
  BY DEF ConfInv, ConfTyped, Agreed, AskedKept, Site!ConfigKept, Site!Running, Site!Idle, Resting

LEMMA RestTyped ==
  ASSUME NEW state, NEW rows, state.pc \in Resting
  PROVE  EditTyped(state, rows)
  BY DEF EditTyped, Resting

LEMMA RestAgrees ==
  ASSUME NEW state, NEW row, NEW form, NEW inforce, state.pc \in Resting
  PROVE  EditAgrees(state, row, form, inforce)
  BY DEF EditAgrees, Resting

LEMMA MoreRows ==
  ASSUME NEW state, NEW rows, NEW more, rows \subseteq more, EditTyped(state, rows)
  PROVE  EditTyped(state, more)
  BY DEF EditTyped

(* A step of one update while the site runs.                                *)
LEMMA EditSteps ==
  ASSUME ConfTyped, NEW r \in Edits, NEW state, Site!Goto(r, state), EditTyped(state, committed'),
         {stored', config', cache'} \subseteq Site!Configuration, shared' \in Site!Configuration,
         committed \subseteq committed', committed' \subseteq Site!Configuration, {config', cache'} \subseteq committed',
         DOMAIN asked' = Site!Halves, raced' \in BOOLEAN
  PROVE  /\ ConfTyped'
         /\ edit'[r] = state /\ \A q \in Edits \ {r} : edit'[q] = edit[q]
<1>1. edit'[r] = state /\ DOMAIN edit' = Edits /\ \A q \in Edits \ {r} : edit'[q] = edit[q]
  BY DEF ConfTyped, Site!Goto
<1>2. \A q \in Edits : EditTyped(edit'[q], committed')
  BY <1>1, MoreRows DEF ConfTyped
<1>3. stored' # NoRow /\ config' # NoRow /\ cache' # NoRow
  BY ConfigAssumption
<1> QED
  BY <1>1, <1>2, <1>3 DEF ConfTyped, Site!Running

LEMMA EditAlone ==
  ASSUME ConfTyped, ~raced => Agreed, NEW r \in Edits, edit[r].pc \notin Resting, raced' = raced, NEW state,
         edit'[r] = state, \A q \in Edits \ {r} : edit'[q] = edit[q],
         ~raced => /\ AskedKept' /\ EditAgrees(state, stored', shared', config')
                   /\ state.pc \notin {"config", "cache"} => config' = stored' /\ cache' = stored'
  PROVE  ~raced' => Agreed'
<1> SUFFICES ASSUME ~raced PROVE Agreed'
  OBVIOUS
<1>1. \A q \in Edits \ {r} : edit'[q].pc \in Resting
  BY DEF Agreed
<1>2. \A q \in Edits : EditAgrees(edit'[q], stored', shared', config')
  BY <1>1, RestAgrees
<1>3. \A p, q \in Edits : edit'[p].pc \notin Resting /\ edit'[q].pc \notin Resting => p = q
  BY <1>1
<1>4. (\A q \in Edits : edit'[q].pc \notin {"config", "cache"}) => config' = stored' /\ cache' = stored'
  OBVIOUS
<1> QED
  BY <1>2, <1>3, <1>4 DEF Agreed

LEMMA Active ==
  ASSUME ConfTyped, NEW r \in Edits, edit[r].pc \notin Resting
  PROVE  /\ {stored, config, cache} \subseteq Site!Configuration /\ {config, cache} \subseteq committed
         /\ Site!Running
         /\ EditTyped(edit[r], committed)
  BY DEF ConfTyped, Site!Running, Site!Idle, Resting

LEMMA StartKeeps == ASSUME ConfInv, Site!InitRuntimeConfig PROVE ConfInv'
<1>1. PICK row : row = IF stored = NoRow THEN Site!Filled(Default) ELSE stored
  OBVIOUS
<1>2. /\ config = NoRow /\ stored' = row /\ config' = row /\ cache' = row /\ shared' = Site!Filled(Zero)
      /\ committed' = committed \cup {row} /\ UNCHANGED <<edit, asked, raced>>
  BY <1>1 DEF Site!InitRuntimeConfig, Site!Running, Site!flowVars
<1>3. row \in Site!Configuration /\ shared' \in Site!Configuration /\ row # NoRow
  BY <1>1, <1>2, FilledTyped, ConfigAssumption DEF ConfInv, ConfTyped, Settings
<1>4. \A r \in Edits : edit[r].pc \in Resting
  BY <1>2 DEF ConfInv, ConfTyped, Site!Running, Site!Idle, Resting
<1>5. ConfTyped'
  BY <1>2, <1>3, <1>4, RestTyped DEF ConfInv, ConfTyped, Site!Running
<1>6. AskedKept' \/ raced
  BY <1>1, <1>2 DEF ConfInv, ConfTyped, Agreed, AskedKept, Site!Nothing
<1>7. ~raced => Agreed'
  BY <1>2, <1>4, <1>6, RestAgrees DEF Agreed
<1> QED
  BY <1>2, <1>5, <1>7 DEF ConfInv

LEMMA CrashKeeps == ASSUME ConfInv, Site!Crash PROVE ConfInv'
<1>1. /\ config' = NoRow /\ cache' = NoRow /\ UNCHANGED <<stored, shared, committed, asked, raced>>
      /\ DOMAIN edit' = Edits
      /\ \A r \in Edits : edit'[r] = IF edit[r].pc = "idle" THEN edit[r] ELSE [pc |-> "done"]
  BY DEF Site!Crash
<1>2. \A r \in Edits : edit'[r].pc \in Resting
  BY <1>1 DEF Resting
<1>3. ConfTyped'
  BY <1>1, <1>2, RestTyped DEF ConfInv, ConfTyped, Site!Running, Site!Idle, Resting
<1>4. ~raced => Agreed'
  BY <1>1, <1>2, RestAgrees DEF ConfInv, Agreed, AskedKept, Site!Running
<1> QED
  BY <1>1, <1>3, <1>4 DEF ConfInv

LEMMA UpdateKeeps ==
  ASSUME ConfInv, NEW r \in Edits, NEW h \in Site!Halves, NEW bad \in BOOLEAN, NEW body \in Site!Bodies(h),
         Site!Update(r, h, body, bad)
  PROVE  ConfInv'
<1>1. PICK want : want = [f \in DOMAIN body |-> IF body[f] = Placeholder /\ f = "secret" THEN stored.ai.secret ELSE body[f]]
  OBVIOUS
<1>2. PICK state : state = [pc |-> "bind", half |-> h, body |-> body, left |-> DOMAIN body, bad |-> bad, want |-> want]
  OBVIOUS
<1>3. /\ Site!Running /\ edit[r].pc = "idle" /\ raced' = (raced \/ ~Site!Idle) /\ Site!Goto(r, state)
      /\ UNCHANGED <<stored, config, cache, shared, committed, asked>>
  BY <1>1, <1>2 DEF Site!Update
<1>4. /\ state.pc = "bind" /\ state.half = h /\ state.body = body /\ state.left = DOMAIN body /\ state.want = want
      /\ state = [pc |-> state.pc, half |-> state.half, body |-> state.body, left |-> state.left,
                   bad |-> state.bad, want |-> state.want]
  BY <1>2
<1>5. DOMAIN body \subseteq Fields[h] /\ (\A f \in DOMAIN body : body[f] \in Settings) /\ DOMAIN want = DOMAIN body
  BY <1>1 DEF Site!Bodies, Settings
<1>6. EditTyped(state, committed')
  BY <1>4, <1>5 DEF EditTyped, Resting
<1>7. /\ {stored, config, cache} \subseteq Site!Configuration /\ {config, cache} \subseteq committed
      /\ shared \in Site!Configuration /\ DOMAIN asked = Site!Halves /\ raced' \in BOOLEAN
      /\ committed \subseteq Site!Configuration /\ ConfTyped
  BY <1>3 DEF ConfInv, ConfTyped, Site!Running
<1>8. ConfTyped' /\ edit'[r] = state /\ \A q \in Edits \ {r} : edit'[q] = edit[q]
  BY <1>3, <1>6, <1>7, EditSteps
<1>9. ASSUME ~raced' PROVE Agreed'
  <2>1. ~raced /\ Agreed /\ \A q \in Edits : edit[q].pc \in Resting
    BY <1>3, <1>9 DEF ConfInv, Site!Idle, Resting
  <2>2. \A q \in Edits \ {r} : edit'[q].pc \in Resting
    BY <1>8, <2>1
  <2>3. WantsOf(state, stored)
    BY <1>1, <1>4 DEF WantsOf
  <2>4. EditAgrees(state, stored, shared, config)
    BY <1>4, <2>3 DEF EditAgrees
  <2>5. \A q \in Edits : EditAgrees(edit'[q], stored', shared', config')
    BY <1>3, <1>8, <2>2, <2>4, RestAgrees
  <2>6. AskedKept' /\ config' = stored' /\ cache' = stored'
    BY <1>3, <2>1 DEF Agreed, AskedKept, Resting
  <2> QED
    BY <1>3, <2>2, <2>5, <2>6 DEF Agreed
<1> QED
  BY <1>8, <1>9 DEF ConfInv

(* The steps of an update that leave the row and what is in force alone.   *)
LEMMA QuietEdit ==
  ASSUME ConfInv, NEW r \in Edits, edit[r].pc \notin Resting, NEW state, Site!Goto(r, state),
         EditTyped(state, committed), UNCHANGED <<stored, config, cache, committed, asked, raced>>,
         shared' \in Site!Configuration, edit[r].pc \notin {"config", "cache"},
         ~raced => EditAgrees(state, stored, shared', config)
  PROVE  ConfInv'
<1>1. /\ {stored, config, cache} \subseteq Site!Configuration /\ {config, cache} \subseteq committed
      /\ Site!Running /\ DOMAIN asked = Site!Halves /\ raced \in BOOLEAN /\ committed \subseteq Site!Configuration
      /\ ConfTyped
  BY Active DEF ConfInv, ConfTyped
<1>2. ConfTyped' /\ edit'[r] = state /\ \A q \in Edits \ {r} : edit'[q] = edit[q]
  BY <1>1, EditSteps
<1>3. ~raced => AskedKept' /\ config' = stored' /\ cache' = stored'
  <2>1. ~raced => \A q \in Edits : edit[q].pc \notin {"config", "cache"}
    BY DEF ConfInv, Agreed, Resting
  <2> QED
    BY <1>1, <2>1 DEF ConfInv, Agreed, AskedKept
<1>4. ~raced' => Agreed'
  BY <1>1, <1>2, <1>3, EditAlone DEF ConfInv
<1> QED
  BY <1>2, <1>4 DEF ConfInv

LEMMA FormFilled == ASSUME ConfInv, NEW r \in Edits, Site!BindField(r) PROVE ConfInv'
<1>1. PICK h, body, f : /\ h = edit[r].half /\ body = edit[r].body /\ f \in edit[r].left
                        /\ shared' = [shared EXCEPT ![edit[r].half][f] = edit[r].body[f]]
                        /\ Site!Goto(r, [edit[r] EXCEPT !.left = @ \ {f}])
  BY DEF Site!BindField, Site!Half
<1>2. PICK state : state = [edit[r] EXCEPT !.left = @ \ {f}]
  OBVIOUS
<1>3. /\ edit[r].pc = "bind" /\ edit[r].pc \notin Resting /\ EditTyped(edit[r], committed)
      /\ UNCHANGED <<stored, config, cache, committed, asked, raced>>
  BY DEF Site!BindField, Resting, ConfInv, ConfTyped
<1>4. /\ h \in Site!Halves /\ f \in Fields[h] /\ body[f] \in Settings /\ shared \in Site!Configuration
      /\ f \in DOMAIN body /\ DOMAIN body \subseteq Fields[h] /\ edit[r].left \subseteq DOMAIN body
      /\ shared' = [shared EXCEPT ![h][f] = body[f]]
  BY <1>1, <1>3 DEF EditTyped, ConfInv, ConfTyped
<1>5. /\ shared' \in Site!Configuration
      /\ \A g \in Fields[h] : shared'[h][g] = IF g = f THEN body[f] ELSE shared[h][g]
  <2>1. PICK v : v = body[f]
    OBVIOUS
  <2>2. v \in Settings /\ shared' = FieldSet(shared, h, f, v)
    BY <1>4, <2>1 DEF FieldSet
  <2>3. shared \in Site!Configuration /\ h \in Site!Halves /\ f \in Fields[h]
    BY <1>4
  <2>4. /\ FieldSet(shared, h, f, v) \in Site!Configuration
        /\ \A g \in Fields[h] : FieldSet(shared, h, f, v)[h][g] = IF g = f THEN v ELSE shared[h][g]
    BY <2>2, <2>3, SetField
  <2> QED
    BY <2>1, <2>2, <2>4
<1>6. /\ state.pc = "bind" /\ state.half = h /\ state.body = body /\ state.want = edit[r].want
      /\ state.left = edit[r].left \ {f}
      /\ state = [pc |-> state.pc, half |-> state.half, body |-> state.body, left |-> state.left,
                   bad |-> state.bad, want |-> state.want]
  BY <1>1, <1>2, <1>3 DEF EditTyped
<1>7. EditTyped(state, committed)
  BY <1>1, <1>3, <1>6 DEF EditTyped, Resting
<1>8. ASSUME ~raced PROVE EditAgrees(state, stored, shared', config)
  <2>1. WantsOf(edit[r], stored) /\ \A g \in (DOMAIN body) \ edit[r].left : shared[h][g] = body[g]
    BY <1>1, <1>3, <1>8 DEF ConfInv, Agreed, EditAgrees
  <2>2. \A g \in (DOMAIN body) \ state.left : shared'[h][g] = body[g]
    BY <1>4, <1>5, <1>6, <2>1
  <2>3. WantsOf(state, stored)
    BY <1>1, <1>6, <2>1 DEF WantsOf
  <2> QED
    BY <1>6, <2>2, <2>3 DEF EditAgrees
<1> QED
  BY <1>1, <1>2, <1>3, <1>5, <1>7, <1>8, QuietEdit

LEMMA FormBound == ASSUME ConfInv, NEW r \in Edits, Site!Bound(r) PROVE ConfInv'
<1>1. PICK h, body, want : h = edit[r].half /\ body = edit[r].body /\ want = edit[r].want
  OBVIOUS
<1>2. /\ edit[r].pc = "bind" /\ edit[r].pc \notin Resting /\ EditTyped(edit[r], committed) /\ edit[r].left = {}
      /\ UNCHANGED <<stored, config, cache, committed, shared, asked, raced>> /\ shared \in Site!Configuration
  BY DEF Site!Bound, Resting, ConfInv, ConfTyped
<1>3. /\ h \in Site!Halves /\ DOMAIN body = DOMAIN want /\ DOMAIN want \subseteq Fields[h]
      /\ edit[r] = [pc |-> edit[r].pc, half |-> h, body |-> body, left |-> edit[r].left,
                    bad |-> edit[r].bad, want |-> want]
  BY <1>1, <1>2 DEF EditTyped
<1>4. ~raced => WantsOf(edit[r], stored) /\ \A g \in DOMAIN body : shared[h][g] = body[g]
  BY <1>1, <1>2 DEF ConfInv, Agreed, EditAgrees
<1>5. CASE edit[r].bad
  <2>1. Site!Goto(r, [pc |-> "done"]) /\ [pc |-> "done"].pc \in Resting
    BY <1>5 DEF Site!Bound, Resting
  <2> QED
    BY <1>2, <2>1, RestTyped, RestAgrees, QuietEdit
<1>6. CASE ~edit[r].bad
  <2>1. PICK state : state = [edit[r] EXCEPT !.pc = IF h = "ai" THEN "secret" ELSE "call"]
    OBVIOUS
  <2>2. Site!Goto(r, state)
    BY <1>1, <1>6, <2>1 DEF Site!Bound, Site!Half
  <2>3. /\ state.pc = (IF h = "ai" THEN "secret" ELSE "call") /\ state.half = h /\ state.body = body /\ state.want = want
        /\ state.left = {}
        /\ state = [pc |-> state.pc, half |-> state.half, body |-> state.body, left |-> state.left,
                   bad |-> state.bad, want |-> state.want]
    BY <1>2, <1>3, <2>1
  <2>4. EditTyped(state, committed)
    BY <1>1, <1>2, <1>3, <2>3 DEF EditTyped, Resting
  <2>5. ASSUME ~raced PROVE EditAgrees(state, stored, shared, config)
    <3>1. WantsOf(state, stored)
      BY <1>1, <1>4, <2>3, <2>5 DEF WantsOf
    <3>2. CASE h = "ai"
      BY <1>4, <2>3, <2>5, <3>1, <3>2 DEF EditAgrees
    <3>3. CASE h = "site"
      <4>1. \A f \in DOMAIN want : want[f] = body[f]
        BY <1>3, <2>3, <3>1, <3>3, ConfigAssumption DEF WantsOf
      <4> QED
        BY <1>3, <1>4, <2>3, <2>5, <3>3, <4>1 DEF EditAgrees
    <3> QED
      BY <1>3, <3>2, <3>3 DEF Site!Halves
  <2> QED
    BY <1>2, <2>2, <2>4, <2>5, QuietEdit
<1> QED
  BY <1>5, <1>6

LEMMA SecretKept == ASSUME ConfInv, NEW r \in Edits, Site!KeepSecret(r) PROVE ConfInv'
<1>1. PICK body, want, state : body = edit[r].body /\ want = edit[r].want /\ state = [edit[r] EXCEPT !.pc = "call"]
  OBVIOUS
<1>2. /\ edit[r].pc = "secret" /\ edit[r].pc \notin Resting /\ EditTyped(edit[r], committed) /\ Site!Goto(r, state)
      /\ UNCHANGED <<stored, config, cache, committed, asked, raced>> /\ shared \in Site!Configuration
      /\ cache \in Site!Configuration
  BY <1>1, Active DEF Site!KeepSecret, Resting, ConfInv, ConfTyped
<1>3. /\ edit[r].half = "ai" /\ "ai" \in Site!Halves /\ DOMAIN body = DOMAIN want /\ DOMAIN want \subseteq Fields["ai"]
      /\ "secret" \in Fields["ai"]
  BY <1>1, <1>2, ConfigAssumption DEF EditTyped, Site!Halves
<1>4. cache["ai"]["secret"] \in Settings
  BY <1>2, <1>3, HalfTyped
<1>5. shared' = IF shared["ai"]["secret"] = Placeholder
               THEN FieldSet(shared, "ai", "secret", cache["ai"]["secret"]) ELSE shared
  BY DEF Site!KeepSecret, FieldSet
<1>6. /\ shared' \in Site!Configuration
      /\ \A g \in Fields["ai"] : shared'["ai"][g] = IF g = "secret" /\ shared["ai"]["secret"] = Placeholder
                                                   THEN cache["ai"]["secret"] ELSE shared["ai"][g]
  BY <1>2, <1>3, <1>4, <1>5, SetField
<1>7. /\ state.pc = "call" /\ state.half = "ai" /\ state.body = body /\ state.want = want /\ state.left = edit[r].left
      /\ state = [pc |-> state.pc, half |-> state.half, body |-> state.body, left |-> state.left,
                   bad |-> state.bad, want |-> state.want]
  BY <1>1, <1>2, <1>3 DEF EditTyped
<1>8. EditTyped(state, committed)
  BY <1>1, <1>2, <1>3, <1>7 DEF EditTyped, Resting
<1>9. ASSUME ~raced PROVE EditAgrees(state, stored, shared', config)
  <2>1. WantsOf(edit[r], stored) /\ \A g \in DOMAIN body : shared["ai"][g] = body[g]
    BY <1>1, <1>2, <1>3, <1>9 DEF ConfInv, Agreed, EditAgrees
  <2>2. \A q \in Edits : edit[q].pc \notin {"config", "cache"}
    BY <1>2, <1>9 DEF ConfInv, Agreed, Resting
  <2>3. cache = stored
    BY <1>2, <1>9, <2>2, Active DEF ConfInv, Agreed
  <2>4. \A f \in DOMAIN want : shared'["ai"][f] = want[f]
    BY <1>1, <1>3, <1>6, <2>1, <2>3 DEF WantsOf
  <2> QED
    BY <1>7, <2>4 DEF EditAgrees
<1> QED
  BY <1>1, <1>2, <1>6, <1>8, <1>9, QuietEdit

LEMMA CallKeeps == ASSUME ConfInv, NEW r \in Edits, Site!Call(r) PROVE ConfInv'
<1>1. PICK h, want, state : /\ h = edit[r].half /\ want = edit[r].want
                            /\ state = [pc |-> "read", half |-> h, new |-> shared[h], want |-> want]
  OBVIOUS
<1>2. /\ edit[r].pc = "call" /\ edit[r].pc \notin Resting /\ EditTyped(edit[r], committed) /\ Site!Goto(r, state)
      /\ UNCHANGED <<stored, config, cache, committed, shared, asked, raced>> /\ shared \in Site!Configuration
  BY <1>1 DEF Site!Call, Site!Half, Resting, ConfInv, ConfTyped
<1>3. h \in Site!Halves /\ DOMAIN want \subseteq Fields[h]
  BY <1>1, <1>2 DEF EditTyped
<1>4. state.pc = "read" /\ state.half = h /\ state.new = shared[h] /\ state.want = want
  BY <1>1
<1>5. EditTyped(state, committed)
  BY <1>2, <1>3, <1>4, HalfTyped DEF EditTyped, Resting
<1>6. ~raced => EditAgrees(state, stored, shared', config)
  BY <1>1, <1>2, <1>4 DEF ConfInv, Agreed, EditAgrees
<1> QED
  BY <1>2, <1>5, <1>6, QuietEdit

LEMMA RowRead == ASSUME ConfInv, NEW r \in Edits, Site!ReadRow(r) PROVE ConfInv'
<1>1. PICK h, want, new : h = edit[r].half /\ want = edit[r].want /\ new = edit[r].new
  OBVIOUS
<1>2. PICK row, state : /\ row = HalfSet(stored, h, new)
                        /\ state = [pc |-> "write", half |-> h, want |-> want, row |-> row]
  OBVIOUS
<1>3. /\ edit[r].pc = "read" /\ edit[r].pc \notin Resting /\ EditTyped(edit[r], committed) /\ Site!Goto(r, state)
      /\ UNCHANGED <<stored, config, cache, committed, shared, asked, raced>> /\ shared \in Site!Configuration
  BY <1>1, <1>2 DEF HalfSet, Site!ReadRow, Site!Half, Resting, ConfInv, ConfTyped
<1>4. stored \in Site!Configuration
  BY <1>3, Active DEF ConfInv
<1>5. h \in Site!Halves /\ DOMAIN want \subseteq Fields[h] /\ new \in [Fields[h] -> Settings]
  BY <1>1, <1>3 DEF EditTyped
<1>6. row \in Site!Configuration /\ row[h] = new /\ \A k \in Site!Halves \ {h} : row[k] = stored[k]
  BY <1>2, <1>4, <1>5, SetHalf
<1>7. state.pc = "write" /\ state.half = h /\ state.row = row /\ state.want = want
  BY <1>2
<1>8. EditTyped(state, committed)
  BY <1>3, <1>5, <1>6, <1>7 DEF EditTyped, Resting
<1>9. ~raced => EditAgrees(state, stored, shared, config)
  BY <1>1, <1>3, <1>6, <1>7 DEF ConfInv, Agreed, EditAgrees
<1> QED
  BY <1>3, <1>8, <1>9, QuietEdit

LEMMA RowWritten == ASSUME ConfInv, NEW r \in Edits, Site!WriteRow(r) PROVE ConfInv'
<1>1. PICK h, want, row, state : /\ h = edit[r].half /\ want = edit[r].want /\ row = edit[r].row
                                 /\ state = [pc |-> "config", row |-> row]
  OBVIOUS
<1>2. /\ edit[r].pc = "write" /\ edit[r].pc \notin Resting /\ EditTyped(edit[r], committed) /\ Site!Goto(r, state)
      /\ stored' = row /\ committed' = committed \cup {row} /\ asked' = [asked EXCEPT ![h] = want]
      /\ UNCHANGED <<config, cache, shared, raced>> /\ shared \in Site!Configuration
  BY <1>1 DEF Site!WriteRow, Site!Half, Resting, ConfInv, ConfTyped
<1>3. h \in Site!Halves /\ DOMAIN want \subseteq Fields[h] /\ row \in Site!Configuration
  BY <1>1, <1>2 DEF EditTyped
<1>4. state.pc = "config" /\ state.row = row /\ state = [pc |-> state.pc, row |-> state.row]
  BY <1>1
<1>5. EditTyped(state, committed')
  BY <1>2, <1>3, <1>4 DEF EditTyped, Resting
<1>6. /\ {stored, config, cache} \subseteq Site!Configuration /\ {config, cache} \subseteq committed
      /\ DOMAIN asked = Site!Halves /\ raced \in BOOLEAN /\ committed \subseteq Site!Configuration
      /\ ConfTyped /\ stored # NoRow
  BY <1>2, Active DEF ConfInv, ConfTyped
<1>7. ConfTyped' /\ edit'[r] = state /\ \A q \in Edits \ {r} : edit'[q] = edit[q]
  BY <1>2, <1>3, <1>5, <1>6, EditSteps
<1>8. ASSUME ~raced PROVE AskedKept' /\ EditAgrees(state, stored', shared', config')
  <2>1. /\ \A f \in DOMAIN want : row[h][f] = want[f]
        /\ \A k \in Site!Halves \ {h} : row[k] = stored[k]
        /\ \A k \in Site!Halves : \A f \in DOMAIN asked[k] : stored[k][f] = asked[k][f]
    BY <1>1, <1>2, <1>6, <1>8 DEF ConfInv, Agreed, EditAgrees, AskedKept
  <2>2. ASSUME NEW k \in Site!Halves, NEW f \in DOMAIN asked'[k] PROVE row[k][f] = asked'[k][f]
    BY <1>2, <1>6, <2>1, <2>2
  <2> QED
    BY <1>2, <1>4, <2>2 DEF AskedKept, EditAgrees
<1>9. ~raced' => Agreed'
  BY <1>2, <1>4, <1>6, <1>7, <1>8, EditAlone DEF ConfInv
<1> QED
  BY <1>7, <1>9 DEF ConfInv

LEMMA FailKeeps == ASSUME ConfInv, NEW r \in Edits, Site!UpdateFails(r) PROVE ConfInv'
<1>1. PICK state : state = [pc |-> "done"]
  OBVIOUS
<1>2. /\ edit[r].pc \in {"read", "write"} /\ edit[r].pc \notin Resting /\ Site!Goto(r, state) /\ state.pc \in Resting
      /\ UNCHANGED <<stored, config, cache, committed, shared, asked, raced>> /\ shared \in Site!Configuration
  BY <1>1 DEF Site!UpdateFails, Resting, ConfInv, ConfTyped
<1> QED
  BY <1>2, RestTyped, RestAgrees, QuietEdit

LEMMA ConfigApplied == ASSUME ConfInv, NEW r \in Edits, Site!ApplyConfig(r) PROVE ConfInv'
<1>1. PICK row, state : row = edit[r].row /\ state = [edit[r] EXCEPT !.pc = "cache"]
  OBVIOUS
<1>2. /\ edit[r].pc = "config" /\ edit[r].pc \notin Resting /\ EditTyped(edit[r], committed) /\ Site!Goto(r, state)
      /\ config' = row /\ UNCHANGED <<stored, cache, committed, shared, asked, raced>> /\ shared \in Site!Configuration
  BY <1>1 DEF Site!ApplyConfig, Resting, ConfInv, ConfTyped
<1>3. row \in Site!Configuration /\ row \in committed /\ edit[r] = [pc |-> edit[r].pc, row |-> row]
  BY <1>1, <1>2 DEF EditTyped
<1>4. state.pc = "cache" /\ state.row = row /\ state = [pc |-> state.pc, row |-> state.row]
  BY <1>1, <1>3
<1>5. EditTyped(state, committed)
  BY <1>2, <1>3, <1>4 DEF EditTyped, Resting
<1>6. /\ {stored, config, cache} \subseteq Site!Configuration /\ {config, cache} \subseteq committed
      /\ DOMAIN asked = Site!Halves /\ raced \in BOOLEAN /\ committed \subseteq Site!Configuration /\ ConfTyped
  BY <1>2, Active DEF ConfInv, ConfTyped
<1>7. ConfTyped' /\ edit'[r] = state /\ \A q \in Edits \ {r} : edit'[q] = edit[q]
  BY <1>2, <1>3, <1>5, <1>6, EditSteps
<1>8. ~raced => AskedKept' /\ EditAgrees(state, stored', shared', config')
  BY <1>1, <1>2, <1>4 DEF ConfInv, Agreed, EditAgrees, AskedKept
<1>9. ~raced' => Agreed'
  BY <1>2, <1>4, <1>6, <1>7, <1>8, EditAlone DEF ConfInv
<1> QED
  BY <1>7, <1>9 DEF ConfInv

LEMMA CacheSet == ASSUME ConfInv, NEW r \in Edits, Site!SetRuntimeConfigCache(r) PROVE ConfInv'
<1>1. PICK row, state : row = edit[r].row /\ state = [pc |-> "done"]
  OBVIOUS
<1>2. /\ edit[r].pc = "cache" /\ edit[r].pc \notin Resting /\ EditTyped(edit[r], committed) /\ Site!Goto(r, state)
      /\ cache' = row /\ UNCHANGED <<stored, config, committed, shared, asked, raced>> /\ shared \in Site!Configuration
      /\ state.pc \in Resting
  BY <1>1 DEF Site!SetRuntimeConfigCache, Resting, ConfInv, ConfTyped
<1>3. row \in Site!Configuration /\ row \in committed
  BY <1>1, <1>2 DEF EditTyped
<1>4. EditTyped(state, committed) /\ EditAgrees(state, stored, shared, config)
  BY <1>2, RestTyped, RestAgrees
<1>5. /\ {stored, config, cache} \subseteq Site!Configuration /\ {config, cache} \subseteq committed
      /\ DOMAIN asked = Site!Halves /\ raced \in BOOLEAN /\ committed \subseteq Site!Configuration /\ ConfTyped
  BY <1>2, Active DEF ConfInv, ConfTyped
<1>6. ConfTyped' /\ edit'[r] = state /\ \A q \in Edits \ {r} : edit'[q] = edit[q]
  BY <1>2, <1>3, <1>4, <1>5, EditSteps
<1>7. ~raced => AskedKept' /\ config' = stored' /\ cache' = stored'
  BY <1>1, <1>2 DEF ConfInv, Agreed, EditAgrees, AskedKept
<1>8. ~raced' => Agreed'
  BY <1>2, <1>4, <1>5, <1>6, <1>7, EditAlone DEF ConfInv
<1> QED
  BY <1>6, <1>8 DEF ConfInv

LEMMA ConfStill == ConfInv /\ UNCHANGED confVars => ConfInv'
  BY DEF ConfInv, ConfTyped, Agreed, AskedKept, confVars, Site!Running, Site!Idle

LEMMA ConfKeeps == ConfInv /\ Site!ConfNext => ConfInv'
  BY StartKeeps, CrashKeeps, UpdateKeeps, FormFilled, FormBound, SecretKept, CallKeeps, RowRead, RowWritten,
     FailKeeps, ConfigApplied, CacheSet DEF Site!ConfNext

LEMMA ConfStarts == Site!SiteInit => ConfInv
<1> SUFFICES ASSUME Site!SiteInit PROVE ConfInv
  OBVIOUS
<1>1. /\ stored = NoRow /\ config = NoRow /\ cache = NoRow /\ shared = Site!Filled(Zero)
      /\ DOMAIN edit = Edits /\ (\A r \in Edits : edit[r].pc \in Resting /\ edit[r].pc = "idle")
      /\ committed = {} /\ asked = Site!Nothing /\ raced = FALSE /\ DOMAIN asked = Site!Halves
  BY DEF Site!SiteInit, Resting, Site!Nothing
<1>2. shared \in Site!Configuration
  BY <1>1, FilledTyped DEF Settings
<1>3. ConfTyped
  BY <1>1, <1>2, RestTyped DEF ConfTyped, Site!Running, Site!Idle
<1>4. Agreed
  BY <1>1, RestAgrees DEF Agreed, AskedKept, Site!Running
<1> QED
  BY <1>3, <1>4 DEF ConfInv

-----------------------------------------------------------------------------
(* The flow.  A day of which the deletion is under way is too old to be     *)
(* shown, and stays so.                                                    *)

VisitTyped(state, today) ==
  /\ state.pc \in {"count", "prune"} => state.day \in 0..today
  /\ state.pc = "delete" => \A x \in state.days : x \in Nat /\ x + KeepDays <= today

FlowInv ==
  /\ day \in 0..MaxDay /\ total \in Nat /\ seen \in [0..MaxDay -> Nat]
  /\ DOMAIN daily \subseteq 0..MaxDay /\ \A x \in DOMAIN daily : daily[x] \in Nat
  /\ DOMAIN visit = Visits /\ \A v \in Visits : VisitTyped(visit[v], day)
  /\ \A d \in 0..MaxDay : d + KeepDays > day => Site!Count(d) = seen[d]

LEMMA FlowTells == FlowInv => Site!FlowKept
<1> SUFFICES ASSUME FlowInv, NEW d \in {x \in 0..day : x + KeepDays > day}
             PROVE  Site!Count(d) = seen[d]
  BY DEF Site!FlowKept, Site!RecentFlow
<1> QED
  BY ConfigAssumption DEF FlowInv

LEMMA VisitMoves ==
  ASSUME FlowInv, NEW v \in Visits, NEW state, Site!VisitAt(v, state), VisitTyped(state, day), day' = day
  PROVE  DOMAIN visit' = Visits /\ \A u \in Visits : VisitTyped(visit'[u], day')
<1>1. DOMAIN visit' = Visits /\ \A u \in Visits : visit'[u] = IF u = v THEN state ELSE visit[u]
  BY DEF FlowInv, Site!VisitAt
<1>2. \A u \in Visits : VisitTyped(visit'[u], day)
  BY <1>1 DEF FlowInv
<1> QED
  BY <1>1, <1>2

LEMMA QuietVisit ==
  ASSUME FlowInv, NEW v \in Visits, NEW state, Site!VisitAt(v, state), VisitTyped(state, day),
         UNCHANGED <<day, total, daily, seen>>
  PROVE  FlowInv'
<1>1. DOMAIN visit' = Visits /\ \A u \in Visits : VisitTyped(visit'[u], day')
  BY VisitMoves
<1> QED
  BY <1>1 DEF FlowInv, Site!Count

LEMMA VisitCounted == ASSUME FlowInv, NEW v \in Visits, Site!CountVisit(v) PROVE FlowInv'
<1>1. PICK d, state : d = visit[v].day /\ state = [pc |-> "prune", day |-> d]
  OBVIOUS
<1>2. /\ visit[v].pc = "count" /\ total' = total + 1 /\ seen' = [seen EXCEPT ![d] = @ + 1]
      /\ daily' = [x \in (DOMAIN daily) \cup {d} |-> IF x = d THEN Site!Count(d) + 1 ELSE daily[x]]
      /\ Site!VisitAt(v, state) /\ day' = day
  BY <1>1 DEF Site!CountVisit
<1>3. d \in 0..day /\ d \in 0..MaxDay
  BY <1>1, <1>2, ConfigAssumption DEF FlowInv, VisitTyped
<1>4. VisitTyped(state, day)
  BY <1>1, <1>3 DEF VisitTyped
<1>5. DOMAIN visit' = Visits /\ \A u \in Visits : VisitTyped(visit'[u], day')
  BY <1>2, <1>4, VisitMoves
<1>6. Site!Count(d) \in Nat
  BY DEF FlowInv, Site!Count
<1>7. /\ seen' \in [0..MaxDay -> Nat] /\ seen'[d] = seen[d] + 1
      /\ \A x \in 0..MaxDay : x # d => seen'[x] = seen[x]
  BY <1>2, <1>3 DEF FlowInv
<1>8. DOMAIN daily' = (DOMAIN daily) \cup {d} /\ \A x \in DOMAIN daily' : daily'[x] \in Nat
  BY <1>2, <1>6 DEF FlowInv
<1>9. /\ Site!Count(d)' = Site!Count(d) + 1
      /\ \A x \in 0..MaxDay : x # d => Site!Count(x)' = Site!Count(x)
  BY <1>2, <1>8 DEF Site!Count
<1>10. ASSUME NEW x \in 0..MaxDay, x + KeepDays > day PROVE Site!Count(x)' = seen'[x]
  <2>1. Site!Count(x) = seen[x]
    BY <1>10 DEF FlowInv
  <2> QED
    BY <1>7, <1>9, <2>1
<1>11. total' \in Nat /\ day' \in 0..MaxDay /\ DOMAIN daily' \subseteq 0..MaxDay
  BY <1>2, <1>3, <1>8 DEF FlowInv
<1>12. \A x \in 0..MaxDay : x + KeepDays > day' => Site!Count(x)' = seen'[x]
  BY <1>2, <1>10
<1> QED
  BY <1>5, <1>7, <1>8, <1>11, <1>12 DEF FlowInv

LEMMA OldDeleted == ASSUME FlowInv, NEW v \in Visits, Site!DeleteExpired(v) PROVE FlowInv'
<1>1. PICK days, state : days = visit[v].days /\ state = [pc |-> "done"]
  OBVIOUS
<1>2. /\ visit[v].pc = "delete" /\ daily' = [x \in (DOMAIN daily) \ days |-> daily[x]]
      /\ Site!VisitAt(v, state) /\ UNCHANGED <<day, total, seen>>
  BY <1>1 DEF Site!DeleteExpired
<1>3. \A x \in days : x \in Nat /\ x + KeepDays <= day
  BY <1>1, <1>2 DEF FlowInv, VisitTyped
<1>4. DOMAIN visit' = Visits /\ \A u \in Visits : VisitTyped(visit'[u], day')
  BY <1>1, <1>2, VisitMoves DEF VisitTyped
<1>5. ASSUME NEW x \in 0..MaxDay, x + KeepDays > day PROVE Site!Count(x)' = seen[x]
  <2>1. x \notin days
    BY <1>3, <1>5, ConfigAssumption DEF FlowInv
  <2>2. Site!Count(x)' = Site!Count(x)
    BY <1>2, <2>1 DEF Site!Count
  <2> QED
    BY <1>5, <2>2 DEF FlowInv
<1> QED
  BY <1>2, <1>4, <1>5 DEF FlowInv

LEMMA FlowKeeps == ASSUME FlowInv, Site!FlowNext PROVE FlowInv'
<1>1. CASE Site!Midnight
  <2>1. day' = day + 1 /\ day' \in 0..MaxDay /\ UNCHANGED <<total, daily, visit, seen>> /\ day \in Nat
    BY <1>1, ConfigAssumption DEF Site!Midnight, FlowInv
  <2>2. \A v \in Visits : VisitTyped(visit'[v], day')
    BY <2>1, ConfigAssumption DEF FlowInv, VisitTyped
  <2>3. \A d \in 0..MaxDay : d + KeepDays > day' => Site!Count(d)' = seen[d]
    BY <2>1, ConfigAssumption DEF FlowInv, Site!Count
  <2> QED
    BY <2>1, <2>2, <2>3 DEF FlowInv
<1>2. ASSUME NEW v \in Visits, Site!SetFlow(v) PROVE FlowInv'
  <2>1. PICK state : state = [pc |-> "count", day |-> day]
    OBVIOUS
  <2>2. VisitTyped(state, day)
    BY <2>1 DEF FlowInv, VisitTyped
  <2> QED
    BY <1>2, <2>1, <2>2, QuietVisit DEF Site!SetFlow
<1>3. ASSUME NEW v \in Visits, Site!FindExpired(v) PROVE FlowInv'
  <2>1. PICK days, state : days = Site!ExpiredDates(visit[v].day) /\ state = [pc |-> "delete", days |-> days]
    OBVIOUS
  <2>2. visit[v].day \in 0..day
    BY <1>3 DEF Site!FindExpired, FlowInv, VisitTyped
  <2>3. \A x \in days : x \in Nat /\ x + KeepDays <= day
    BY <2>1, <2>2, ConfigAssumption DEF Site!ExpiredDates, FlowInv
  <2>4. VisitTyped(state, day)
    BY <2>1, <2>3 DEF VisitTyped
  <2>5. Site!VisitAt(v, state) /\ UNCHANGED <<day, total, daily, seen>>
    BY <1>3, <2>1 DEF Site!FindExpired
  <2> QED
    BY <2>4, <2>5, QuietVisit
<1>4. ASSUME NEW v \in Visits, Site!FlowFails(v) PROVE FlowInv'
  <2>1. VisitTyped([pc |-> "done"], day)
    BY DEF VisitTyped
  <2> QED
    BY <1>4, <2>1, QuietVisit DEF Site!FlowFails
<1> QED
  BY <1>1, <1>2, <1>3, <1>4, VisitCounted, OldDeleted DEF Site!FlowNext

LEMMA FlowStill == FlowInv /\ UNCHANGED flowVars => FlowInv'
  BY DEF FlowInv, VisitTyped, flowVars, Site!Count

LEMMA FlowStarts == Site!SiteInit => FlowInv
<1> SUFFICES ASSUME Site!SiteInit PROVE FlowInv
  OBVIOUS
<1>1. /\ day = 0 /\ total = 0 /\ daily = << >> /\ seen = [d \in 0..MaxDay |-> 0]
      /\ DOMAIN visit = Visits /\ \A v \in Visits : visit[v].pc = "idle"
  BY DEF Site!SiteInit
<1>2. DOMAIN daily = {}
  BY <1>1
<1> QED
  BY <1>1, <1>2, ConfigAssumption DEF FlowInv, VisitTyped, Site!Count

(* InitRuntimeConfig, the updates of the site and the count of visits: for   *)
(* any fields, values, requests and days, nothing is in force that was not  *)
(* committed, updates that did not overlap leave row and copies agreeing on *)
(* what was asked, secrets included, and the recent flow is what was        *)
(* counted (runtime_config.go, site_info_update.go, redis_site/enter.go).   *)
THEOREM SiteStaysKept == AllSpec => []SiteKept
<1>1. AllInit => ConfInv /\ FlowInv
  BY ConfStarts, FlowStarts DEF AllInit
<1>2. /\ ConfInv /\ FlowInv /\ [AllNext]_<<part, vars, artVars, searchVars, siteVars, signVars, scoreVars>>
      => ConfInv' /\ FlowInv'
  <2> SUFFICES ASSUME ConfInv, FlowInv, [AllNext]_<<part, vars, artVars, searchVars, siteVars, signVars, scoreVars>>
               PROVE  ConfInv' /\ FlowInv'
    OBVIOUS
  <2>1. AllNext => (Site!ConfNext /\ UNCHANGED flowVars) \/ (Site!FlowNext /\ UNCHANGED confVars) \/ UNCHANGED siteVars
    BY Zenon DEF AllNext
  <2> QED
    BY <2>1, ConfKeeps, ConfStill, FlowKeeps, FlowStill DEF siteVars
<1>3. ConfInv /\ FlowInv => SiteKept
  BY ConfTells, FlowTells DEF SiteKept
<1> QED
  BY <1>1, <1>2, <1>3, PTL DEF AllSpec

-----------------------------------------------------------------------------
(* SignUp.  A code that is still there is the one of its mail, given back   *)
(* by nobody; what an address is registered under was given back.          *)

Given(e, post) == \E m \in DOMAIN post : post[m].email = e /\ post[m].right = 1

MailsRight ==
  /\ \A m \in DOMAIN mails : /\ mails[m] = [email |-> mails[m].email, right |-> mails[m].right, wrong |-> mails[m].wrong]
                             /\ mails[m].right \in 0..1 /\ mails[m].wrong \in 0..MaxFail
  /\ DOMAIN codes \subseteq DOMAIN mails
  /\ \A m \in DOMAIN codes : /\ codes[m] = [email |-> mails[m].email, fails |-> mails[m].wrong]
                             /\ mails[m].right = 0 /\ mails[m].wrong < MaxFail

VisitorOK(r, state, post) ==
  /\ r \in DOMAIN post => state.pc = "done"
  /\ state.pc = "count" => state = [pc |-> state.pc, email |-> state.email, kind |-> state.kind,
                                    allowed |-> state.allowed, keys |-> state.keys]
  /\ state.pc \in Sign!Purposes => Given(state.email, post)
  /\ state.pc = "create" =>
       /\ state.row = [email |-> state.row.email, open |-> state.row.open, name |-> state.row.name]
       /\ state.row.email = None \/ Given(state.row.email, post)

VisitorsOK == DOMAIN signReq = Visitors /\ \A r \in Visitors : VisitorOK(r, signReq[r], mails)

UsersWhole ==
  /\ \A r \in DOMAIN letIn : letIn[r] \in DOMAIN users
  /\ DOMAIN users \subseteq profiles
  /\ \A u \in DOMAIN users : /\ users[u] = [email |-> users[u].email, open |-> users[u].open, name |-> users[u].name]
                             /\ users[u].email = None \/ Given(users[u].email, mails)

SignInv == MailsRight /\ VisitorsOK /\ UsersWhole

LEMMA SignTells == SignInv => Sign!SignUpsSound
<1> SUFFICES ASSUME SignInv PROVE Sign!CodesBounded /\ Sign!AccountsWhole
  BY DEF Sign!SignUpsSound
<1>1. Sign!CodesBounded
  BY SignUpAssumption DEF SignInv, MailsRight, Sign!CodesBounded
<1>2. Sign!AccountsWhole
  BY DEF SignInv, UsersWhole, Given, Sign!AccountsWhole
<1> QED
  BY <1>1, <1>2

(* No mail is forgotten, nor that its code was given back.                  *)
Keeps(old, new) ==
  \A m \in DOMAIN old : m \in DOMAIN new /\ new[m].email = old[m].email /\ (old[m].right = 1 => new[m].right = 1)

LEMMA GivenStays ==
  ASSUME NEW e, NEW old, NEW new, Keeps(old, new), Given(e, old)
  PROVE  Given(e, new)
  BY DEF Keeps, Given

LEMMA KeepsSame == \A post : Keeps(post, post)
  BY DEF Keeps

LEMMA VisitorSteps ==
  ASSUME SignInv, NEW r \in Visitors, NEW state, Sign!Goto(r, state), VisitorOK(r, state, mails'),
         Keeps(mails, mails'), DOMAIN mails' \subseteq (DOMAIN mails) \cup {r}
  PROVE  VisitorsOK'
<1>1. DOMAIN signReq' = Visitors /\ signReq'[r] = state /\ \A q \in Visitors \ {r} : signReq'[q] = signReq[q]
  BY DEF SignInv, VisitorsOK, Sign!Goto
<1>2. ASSUME NEW q \in Visitors \ {r} PROVE VisitorOK(q, signReq[q], mails')
  BY GivenStays DEF SignInv, VisitorsOK, VisitorOK
<1> QED
  BY <1>1, <1>2 DEF VisitorsOK

LEMMA DoneOK == \A r, post : VisitorOK(r, [pc |-> "done"], post)
  BY DEF VisitorOK, Sign!Purposes

(* A step of one request that leaves the mails alone.                       *)
LEMMA QuietVisitor ==
  ASSUME SignInv, NEW r \in Visitors, NEW state, Sign!Goto(r, state), VisitorOK(r, state, mails),
         UNCHANGED <<codes, mails>>, UsersWhole'
  PROVE  SignInv'
<1>1. VisitorsOK'
  BY KeepsSame, VisitorSteps
<1> QED
  BY <1>1 DEF SignInv, MailsRight

LEMMA UsersStill ==
  ASSUME SignInv, UNCHANGED <<users, profiles, letIn, mails>>
  PROVE  UsersWhole'
  BY DEF SignInv, UsersWhole

LEMMA FinishQuiet ==
  ASSUME SignInv, NEW r \in Visitors, Sign!Finish(r), UNCHANGED <<codes, mails>>, UsersWhole'
  PROVE  SignInv'
  BY DoneOK, QuietVisitor DEF Sign!Finish

(* The steps of the mails.                                                  *)
LEMMA MailSteps ==
  ASSUME SignInv, NEW r \in Visitors, NEW state, Sign!Goto(r, state), VisitorOK(r, state, mails'),
         Keeps(mails, mails'), DOMAIN mails' \subseteq (DOMAIN mails) \cup {r}, MailsRight',
         UNCHANGED <<users, profiles, letIn>>
  PROVE  SignInv'
<1>1. VisitorsOK'
  BY VisitorSteps
<1>2. UsersWhole'
  BY GivenStays DEF SignInv, UsersWhole
<1> QED
  BY <1>1, <1>2 DEF SignInv

LEMMA CodeStored == ASSUME SignInv, NEW r \in Visitors, Sign!Store(r) PROVE SignInv'
<1>1. PICK e, code, mail : /\ e = signReq[r].email /\ code = [email |-> e, fails |-> 0]
                           /\ mail = [email |-> e, right |-> 0, wrong |-> 0]
  OBVIOUS
<1>2. /\ signReq[r].pc = "store" /\ Sign!Goto(r, [pc |-> "done"])
      /\ codes' = [m \in (DOMAIN codes) \cup {r} |-> IF m = r THEN code ELSE codes[m]]
      /\ mails' = [m \in (DOMAIN mails) \cup {r} |-> IF m = r THEN mail ELSE mails[m]]
      /\ UNCHANGED <<users, profiles, letIn>>
  BY <1>1 DEF Sign!Store, Sign!With, Sign!At, Sign!Finish, Sign!store
<1>3. r \notin DOMAIN mails
  BY <1>2 DEF SignInv, VisitorsOK, VisitorOK
<1>4. MailsRight'
  <2>1. /\ DOMAIN codes' = (DOMAIN codes) \cup {r} /\ DOMAIN mails' = (DOMAIN mails) \cup {r}
        /\ codes'[r] = code /\ mails'[r] = mail
        /\ \A m \in DOMAIN mails : mails'[m] = mails[m]
        /\ \A m \in DOMAIN codes : codes'[m] = codes[m]
    BY <1>2, <1>3 DEF SignInv, MailsRight
  <2>2. mail.email = e /\ mail.right = 0 /\ mail.wrong = 0
    BY <1>1
  <2> QED
    BY <1>1, <2>1, <2>2, SignUpAssumption DEF SignInv, MailsRight
<1>5. Keeps(mails, mails') /\ DOMAIN mails' \subseteq (DOMAIN mails) \cup {r}
  BY <1>2, <1>3 DEF Keeps
<1> QED
  BY <1>2, <1>4, <1>5, DoneOK, MailSteps

LEMMA WrongCode == ASSUME SignInv, NEW r \in Visitors, NEW m \in DOMAIN codes, Sign!VerifyWrong(r, m) PROVE SignInv'
<1>1. PICK n, mail, code : n = mails[m].wrong /\ mail = mails[m] /\ code = codes[m]
  OBVIOUS
<1>2. /\ m \in DOMAIN mails /\ n \in 0..MaxFail /\ n < MaxFail /\ mail.right = 0
      /\ mail = [email |-> mail.email, right |-> 0, wrong |-> n]
      /\ code = [email |-> mail.email, fails |-> n] /\ code.fails = n
  BY <1>1 DEF SignInv, MailsRight
<1>3. /\ Sign!Goto(r, [pc |-> "done"]) /\ mails' = [mails EXCEPT ![m] = [mail EXCEPT !.wrong = n + 1]]
      /\ codes' = IF n + 1 >= MaxFail THEN [i \in (DOMAIN codes) \ {m} |-> codes[i]]
                  ELSE [codes EXCEPT ![m] = [code EXCEPT !.fails = n + 1]]
      /\ UNCHANGED <<users, profiles, letIn>>
  BY <1>1, <1>2 DEF Sign!VerifyWrong, Sign!Missed, Sign!Without, Sign!Finish, Sign!store
<1>4. /\ DOMAIN mails' = DOMAIN mails /\ \A i \in (DOMAIN mails) \ {m} : mails'[i] = mails[i]
      /\ mails'[m] = [email |-> mail.email, right |-> 0, wrong |-> n + 1]
      /\ DOMAIN codes' \subseteq DOMAIN codes /\ \A i \in (DOMAIN codes') \ {m} : codes'[i] = codes[i]
      /\ m \in DOMAIN codes' => n + 1 < MaxFail /\ codes'[m] = [email |-> mail.email, fails |-> n + 1]
  <2>1. [mail EXCEPT !.wrong = n + 1] = [email |-> mail.email, right |-> 0, wrong |-> n + 1]
    BY <1>2
  <2>2. [code EXCEPT !.fails = n + 1] = [email |-> mail.email, fails |-> n + 1]
    BY <1>2
  <2>3. n + 1 >= MaxFail \/ n + 1 < MaxFail
    BY <1>2, SignUpAssumption
  <2> QED
    BY <1>2, <1>3, <2>1, <2>2, <2>3
<1>5. mails'[m].email = mail.email /\ mails'[m].right = 0 /\ mails'[m].wrong = n + 1
  BY <1>4
<1>6. MailsRight'
  <2>1. n + 1 \in 0..MaxFail
    BY <1>2, SignUpAssumption
  <2> QED
    BY <1>2, <1>4, <1>5, <2>1 DEF SignInv, MailsRight
<1>7. Keeps(mails, mails')
  BY <1>1, <1>2, <1>4, <1>5 DEF Keeps
<1> QED
  BY <1>3, <1>4, <1>6, <1>7, DoneOK, MailSteps

LEMMA RightCode ==
  ASSUME SignInv, NEW r \in Visitors, NEW m \in DOMAIN codes, NEW p \in Sign!Purposes, Sign!VerifyRight(r, m, p)
  PROVE  SignInv'
<1>1. PICK mail, state : mail = mails[m] /\ state = [pc |-> p, email |-> codes[m].email]
  OBVIOUS
<1>2. /\ m \in DOMAIN mails /\ mail.right = 0 /\ mail = [email |-> mail.email, right |-> 0, wrong |-> mail.wrong]
      /\ codes[m].email = mail.email /\ mail.wrong \in 0..MaxFail
  BY <1>1 DEF SignInv, MailsRight
<1>3. /\ signReq[r].pc = "idle" /\ Sign!Goto(r, state) /\ mails' = [mails EXCEPT ![m] = [mail EXCEPT !.right = 1]]
      /\ codes' = [i \in (DOMAIN codes) \ {m} |-> codes[i]]
      /\ UNCHANGED <<users, profiles, letIn>>
  BY <1>1, <1>2 DEF Sign!VerifyRight, Sign!Without, Sign!store, Sign!At
<1>4. /\ DOMAIN mails' = DOMAIN mails /\ \A i \in (DOMAIN mails) \ {m} : mails'[i] = mails[i]
      /\ mails'[m] = [email |-> mail.email, right |-> 1, wrong |-> mail.wrong]
      /\ DOMAIN codes' = (DOMAIN codes) \ {m} /\ \A i \in DOMAIN codes' : codes'[i] = codes[i]
  <2>1. [mail EXCEPT !.right = 1] = [email |-> mail.email, right |-> 1, wrong |-> mail.wrong]
    BY <1>2
  <2> QED
    BY <1>2, <1>3, <2>1
<1>5. mails'[m].email = mail.email /\ mails'[m].right = 1 /\ mails'[m].wrong = mail.wrong
  BY <1>4
<1>6. MailsRight'
  BY <1>2, <1>4, <1>5 DEF SignInv, MailsRight
<1>7. Keeps(mails, mails')
  BY <1>1, <1>2, <1>4, <1>5 DEF Keeps
<1>8. VisitorOK(r, state, mails')
  <2>1. state.pc = p /\ state.email = mail.email /\ r \notin DOMAIN mails
    BY <1>1, <1>2, <1>3 DEF SignInv, VisitorsOK, VisitorOK
  <2>2. Given(state.email, mails')
    BY <1>2, <1>4, <1>5, <2>1 DEF Given
  <2> QED
    BY <1>4, <2>1, <2>2 DEF VisitorOK, Sign!Purposes
<1> QED
  BY <1>3, <1>4, <1>6, <1>7, <1>8, MailSteps

LEMMA CodeGone == ASSUME SignInv, NEW m \in DOMAIN codes, Sign!CodeExpires(m) PROVE SignInv'
<1>1. /\ codes' = [i \in (DOMAIN codes) \ {m} |-> codes[i]] /\ UNCHANGED <<users, profiles, mails, letIn, signReq>>
  BY DEF Sign!CodeExpires, Sign!Without, Sign!store
<1> QED
  BY <1>1 DEF SignInv, MailsRight, VisitorsOK, UsersWhole

(* The steps that send a mail.                                              *)
LEMMA MailAsked ==
  ASSUME SignInv, NEW r \in Visitors, NEW e, NEW ip, NEW k, Sign!SendEmailView(r, e, ip, k)
  PROVE  SignInv'
<1>1. PICK state : state = [pc |-> "count", email |-> e, kind |-> k, allowed |-> TRUE, keys |-> <<<<e, k>>, <<ip, k>>>>]
  OBVIOUS
<1>2. /\ signReq[r].pc = "idle" /\ Sign!Goto(r, state) /\ UNCHANGED <<users, profiles, letIn, codes, mails>>
  BY <1>1 DEF Sign!SendEmailView, Sign!At, Sign!store, Sign!mailing
<1>3. /\ state.pc = "count"
      /\ state = [pc |-> state.pc, email |-> state.email, kind |-> state.kind, allowed |-> state.allowed,
                  keys |-> state.keys]
  BY <1>1
<1>4. VisitorOK(r, state, mails)
  BY <1>2, <1>3 DEF SignInv, VisitorsOK, VisitorOK, Sign!Purposes
<1> QED
  BY <1>2, <1>4, UsersStill, QuietVisitor

LEMMA WindowCounted == ASSUME SignInv, NEW r \in Visitors, Sign!AllowWithinWindow(r) PROVE SignInv'
<1>1. PICK allowed : allowed = (signReq[r].allowed /\ window[Head(signReq[r].keys)].count + 1 <= MaxSend)
  OBVIOUS
<1>2. /\ signReq[r].pc = "count" /\ UNCHANGED <<users, profiles, letIn, codes, mails>>
      /\ \/ signReq' = [signReq EXCEPT ![r].keys = Tail(@), ![r].allowed = allowed]
         \/ Sign!Goto(r, [pc |-> "send", email |-> signReq[r].email, kind |-> signReq[r].kind])
         \/ Sign!Finish(r)
  BY <1>1 DEF Sign!AllowWithinWindow, Sign!At, Sign!store
<1>3. signReq[r] = [pc |-> signReq[r].pc, email |-> signReq[r].email, kind |-> signReq[r].kind,
                    allowed |-> signReq[r].allowed, keys |-> signReq[r].keys]
      /\ r \notin DOMAIN mails /\ DOMAIN signReq = Visitors
  BY <1>2 DEF SignInv, VisitorsOK, VisitorOK
<1>4. CASE signReq' = [signReq EXCEPT ![r].keys = Tail(@), ![r].allowed = allowed]
  <2>1. PICK keys : keys = Tail(signReq[r].keys)
    OBVIOUS
  <2>2. PICK state : state = [pc |-> "count", email |-> signReq[r].email, kind |-> signReq[r].kind,
                              allowed |-> allowed, keys |-> keys]
    OBVIOUS
  <2>0. [[signReq[r] EXCEPT !.keys = keys] EXCEPT !.allowed = allowed] = state
    <3>1. PICK old : old = signReq[r]
      OBVIOUS
    <3>2. old = [pc |-> "count", email |-> old.email, kind |-> old.kind,
                 allowed |-> old.allowed, keys |-> old.keys]
      BY <1>2, <1>3, <3>1
    <3>3. PICK rest : rest = [old EXCEPT !.keys = keys]
      OBVIOUS
    <3>4. rest = [pc |-> "count", email |-> old.email, kind |-> old.kind,
                  allowed |-> old.allowed, keys |-> keys]
      BY <3>2, <3>3
    <3>5. [rest EXCEPT !.allowed = allowed]
            = [pc |-> "count", email |-> old.email, kind |-> old.kind, allowed |-> allowed, keys |-> keys]
      BY <3>4
    <3> QED
      BY <2>2, <3>1, <3>3, <3>5
  <2>6. /\ DOMAIN signReq' = Visitors
        /\ signReq'[r] = [[signReq[r] EXCEPT !.keys = keys] EXCEPT !.allowed = allowed]
        /\ \A q \in Visitors \ {r} : signReq'[q] = signReq[q]
    BY <1>3, <1>4, <2>1
  <2>3. Sign!Goto(r, state)
    BY <1>3, <1>4, <2>0, <2>1, <2>6 DEF Sign!Goto
  <2>4. /\ state.pc = "count"
        /\ state = [pc |-> state.pc, email |-> state.email, kind |-> state.kind, allowed |-> state.allowed,
                    keys |-> state.keys]
    BY <2>2
  <2>5. VisitorOK(r, state, mails)
    BY <1>3, <2>4 DEF VisitorOK, Sign!Purposes
  <2> QED
    BY <1>2, <2>3, <2>5, UsersStill, QuietVisitor
<1>5. CASE Sign!Goto(r, [pc |-> "send", email |-> signReq[r].email, kind |-> signReq[r].kind])
  <2>1. VisitorOK(r, [pc |-> "send", email |-> signReq[r].email, kind |-> signReq[r].kind], mails)
    BY <1>3 DEF VisitorOK, Sign!Purposes
  <2> QED
    BY <1>2, <1>5, <2>1, UsersStill, QuietVisitor
<1> QED
  BY <1>2, <1>4, <1>5, UsersStill, FinishQuiet

LEMMA MailSent == ASSUME SignInv, NEW r \in Visitors, Sign!Send(r) PROVE SignInv'
<1>1. /\ signReq[r].pc = "send" /\ UNCHANGED <<users, profiles, letIn, codes, mails>>
      /\ Sign!Finish(r) \/ Sign!Goto(r, [pc |-> "store", email |-> signReq[r].email])
  BY DEF Sign!Send, Sign!At, Sign!store, Sign!mailing
<1>2. VisitorOK(r, [pc |-> "store", email |-> signReq[r].email], mails)
  BY <1>1 DEF SignInv, VisitorsOK, VisitorOK, Sign!Purposes
<1> QED
  BY <1>1, <1>2, UsersStill, FinishQuiet, QuietVisitor

(* The steps of the accounts.                                               *)
LEMMA NameTaken == ASSUME SignInv, NEW r \in Visitors, Sign!NextName(r) \/ Sign!QQNextName(r) PROVE SignInv'
<1>1. PICK row, state : /\ row = IF signReq[r].pc = "register"
                                 THEN [email |-> signReq[r].email, open |-> None, name |-> seq + 1]
                                 ELSE [email |-> None, open |-> signReq[r].open, name |-> seq + 1]
                        /\ state = [pc |-> "create", row |-> row]
  OBVIOUS
<1>2. /\ signReq[r].pc \in {"register", "qqName"} /\ Sign!Goto(r, state)
      /\ UNCHANGED <<users, profiles, letIn, codes, mails>>
  BY <1>1 DEF Sign!NextName, Sign!QQNextName, Sign!At, Sign!store, Sign!mailing
<1>3. r \notin DOMAIN mails /\ (signReq[r].pc = "register" => Given(signReq[r].email, mails))
  BY <1>2 DEF SignInv, VisitorsOK, VisitorOK, Sign!Purposes
<1>4. /\ state.pc = "create" /\ state.row = row
      /\ row = [email |-> row.email, open |-> row.open, name |-> row.name]
      /\ row.email = IF signReq[r].pc = "register" THEN signReq[r].email ELSE None
  BY <1>1
<1>5. VisitorOK(r, state, mails)
  BY <1>3, <1>4 DEF VisitorOK, Sign!Purposes
<1> QED
  BY <1>2, <1>5, UsersStill, QuietVisitor

\* Tokens for a user that is there.
LEMMA LetsIn ==
  ASSUME SignInv, NEW r \in Visitors, NEW u \in DOMAIN users, Sign!LetIn(r, u),
         UNCHANGED <<users, profiles, codes, mails>>
  PROVE  SignInv'
<1>1. letIn' = [q \in (DOMAIN letIn) \cup {r} |-> IF q = r THEN u ELSE letIn[q]] /\ Sign!Finish(r)
  BY DEF Sign!LetIn, Sign!With
<1>2. \A q \in DOMAIN letIn' : letIn'[q] \in DOMAIN users
  BY <1>1 DEF SignInv, UsersWhole
<1>3. UsersWhole'
  BY <1>2 DEF SignInv, UsersWhole
<1> QED
  BY <1>1, <1>3, FinishQuiet

LEMMA QQIn == ASSUME SignInv, NEW r \in Visitors, NEW o \in OpenIds, Sign!QQLoginView(r, o) PROVE SignInv'
<1>1. /\ signReq[r].pc = "idle" /\ UNCHANGED <<users, profiles, codes, mails>>
      /\ \/ \E u \in DOMAIN users : Sign!LetIn(r, u)
         \/ Sign!Goto(r, [pc |-> "qqName", open |-> o]) /\ UNCHANGED letIn
  BY DEF Sign!QQLoginView, Sign!HasOpenId, Sign!At, Sign!store, Sign!mailing
<1>2. VisitorOK(r, [pc |-> "qqName", open |-> o], mails)
  BY <1>1 DEF SignInv, VisitorsOK, VisitorOK, Sign!Purposes
<1> QED
  BY <1>1, <1>2, LetsIn, UsersStill, QuietVisitor

LEMMA EmailIn == ASSUME SignInv, NEW r \in Visitors, Sign!EmailLoginView(r) PROVE SignInv'
<1>1. /\ UNCHANGED <<users, profiles, codes, mails>>
      /\ (\E u \in DOMAIN users : Sign!LetIn(r, u)) \/ (Sign!Finish(r) /\ UNCHANGED letIn)
  BY DEF Sign!EmailLoginView, Sign!HasEmail, Sign!store, Sign!mailing
<1> QED
  BY <1>1, LetsIn, UsersStill, FinishQuiet

LEMMA UserCreated == ASSUME SignInv, NEW r \in Visitors, Sign!Create(r) PROVE SignInv'
<1>1. PICK row : row = signReq[r].row
  OBVIOUS
<1>2. /\ signReq[r].pc = "create" /\ profiles' = profiles \cup {r} /\ UNCHANGED <<codes, mails>> /\ Sign!Finish(r)
      /\ \/ UNCHANGED <<users, letIn>>
         \/ /\ users' = [u \in (DOMAIN users) \cup {r} |-> IF u = r THEN row ELSE users[u]]
            /\ letIn' = [q \in (DOMAIN letIn) \cup {r} |-> IF q = r THEN r ELSE letIn[q]]
  BY <1>1, Zenon DEF Sign!Create, Sign!LetIn, Sign!With, Sign!At, Sign!mailing
<1>3. /\ row = [email |-> row.email, open |-> row.open, name |-> row.name]
      /\ row.email = None \/ Given(row.email, mails)
  BY <1>1, <1>2 DEF SignInv, VisitorsOK, VisitorOK
<1>4. CASE UNCHANGED <<users, letIn>>
  <2>1. UsersWhole'
    BY <1>2, <1>4 DEF SignInv, UsersWhole
  <2> QED
    BY <1>2, <2>1, FinishQuiet
<1>5. CASE /\ users' = [u \in (DOMAIN users) \cup {r} |-> IF u = r THEN row ELSE users[u]]
           /\ letIn' = [q \in (DOMAIN letIn) \cup {r} |-> IF q = r THEN r ELSE letIn[q]]
  <2>1. DOMAIN users' = (DOMAIN users) \cup {r} /\ DOMAIN users' \subseteq profiles'
    BY <1>2, <1>5 DEF SignInv, UsersWhole
  <2>2. \A q \in DOMAIN letIn' : letIn'[q] \in DOMAIN users'
    BY <1>5, <2>1 DEF SignInv, UsersWhole
  <2>3. ASSUME NEW u \in DOMAIN users'
        PROVE  /\ users'[u] = [email |-> users'[u].email, open |-> users'[u].open, name |-> users'[u].name]
               /\ users'[u].email = None \/ Given(users'[u].email, mails)
    <3>1. CASE u = r
      <4>1. users'[u] = row
        BY <1>5, <2>1, <3>1
      <4> QED
        BY <1>3, <4>1
    <3>2. CASE u # r
      <4>1. users'[u] = users[u] /\ u \in DOMAIN users
        BY <1>5, <2>1, <3>2
      <4> QED
        BY <4>1 DEF SignInv, UsersWhole
    <3> QED
      BY <3>1, <3>2
  <2>4. UsersWhole'
    BY <1>2, <2>1, <2>2, <2>3 DEF UsersWhole
  <2> QED
    BY <1>2, <2>4, FinishQuiet
<1> QED
  BY <1>2, <1>4, <1>5

\* A row of which one column changes, and keeps its address or gets one that was given back.
LEMMA RowChanges ==
  ASSUME SignInv, NEW u \in DOMAIN users, NEW row, users' = [users EXCEPT ![u] = row],
         row = [email |-> row.email, open |-> row.open, name |-> row.name],
         row.email = None \/ Given(row.email, mails), UNCHANGED <<profiles, letIn, mails>>
  PROVE  UsersWhole'
<1>1. DOMAIN users' = DOMAIN users /\ users'[u] = row /\ \A v \in DOMAIN users : v # u => users'[v] = users[v]
  OBVIOUS
<1>2. ASSUME NEW v \in DOMAIN users
      PROVE  /\ users'[v] = [email |-> users'[v].email, open |-> users'[v].open, name |-> users'[v].name]
             /\ users'[v].email = None \/ Given(users'[v].email, mails)
  <2>1. CASE v = u
    BY <1>1, <2>1
  <2>2. CASE v # u
    <3>1. users'[v] = users[v]
      BY <1>1, <2>2
    <3> QED
      BY <3>1 DEF SignInv, UsersWhole
  <2> QED
    BY <2>1, <2>2
<1> QED
  BY <1>1, <1>2 DEF SignInv, UsersWhole

LEMMA EmailBound == ASSUME SignInv, NEW r \in Visitors, Sign!BindEmailView(r) PROVE SignInv'
<1>1. PICK e : e = signReq[r].email
  OBVIOUS
<1>2. /\ signReq[r].pc = "bind" /\ Sign!Finish(r) /\ UNCHANGED <<profiles, letIn, codes, mails>>
      /\ users' = [users EXCEPT ![Member].email = e] \/ UNCHANGED users
  BY <1>1 DEF Sign!BindEmailView, Sign!At, Sign!mailing
<1>3. Given(e, mails)
  BY <1>1, <1>2 DEF SignInv, VisitorsOK, VisitorOK, Sign!Purposes
<1>4. CASE UNCHANGED users
  BY <1>2, <1>4, UsersStill, FinishQuiet
<1>5. CASE users' = [users EXCEPT ![Member].email = e] /\ Member \in DOMAIN users
  <2>1. PICK old, row : old = users[Member] /\ row = [old EXCEPT !.email = e]
    OBVIOUS
  <2>2. old = [email |-> old.email, open |-> old.open, name |-> old.name]
    BY <1>5, <2>1 DEF SignInv, UsersWhole
  <2>3. row = [email |-> e, open |-> old.open, name |-> old.name]
    BY <2>1, <2>2
  <2>4. users' = [users EXCEPT ![Member] = row]
    BY <1>5, <2>1
  <2>5. row = [email |-> row.email, open |-> row.open, name |-> row.name] /\ row.email = e
    BY <2>3
  <2>6. UsersWhole'
    BY <1>2, <1>3, <1>5, <2>4, <2>5, RowChanges
  <2> QED
    BY <1>2, <2>6, FinishQuiet
<1>6. CASE users' = [users EXCEPT ![Member].email = e] /\ Member \notin DOMAIN users
  <2>1. DOMAIN users' = DOMAIN users /\ \A u \in DOMAIN users : users'[u] = users[u]
    BY <1>6
  <2>2. UsersWhole'
    BY <1>2, <2>1 DEF SignInv, UsersWhole
  <2> QED
    BY <1>2, <2>2, FinishQuiet
<1> QED
  BY <1>2, <1>4, <1>5, <1>6

LEMMA Renamed == ASSUME SignInv, NEW r \in Visitors, Sign!Rename(r) PROVE SignInv'
<1>1. PICK u, n, state : u = signReq[r].user /\ n = signReq[r].name /\ state = [pc |-> "stamp", user |-> u]
  OBVIOUS
<1>2. /\ signReq[r].pc = "rename" /\ UNCHANGED <<profiles, letIn, codes, mails>>
      /\ \/ users' = [users EXCEPT ![u].name = n] /\ Sign!Goto(r, state)
         \/ UNCHANGED users /\ Sign!Finish(r)
  BY <1>1 DEF Sign!Rename, Sign!At, Sign!mailing
<1>3. VisitorOK(r, state, mails)
  BY <1>1, <1>2 DEF SignInv, VisitorsOK, VisitorOK, Sign!Purposes
<1>4. CASE UNCHANGED users /\ Sign!Finish(r)
  BY <1>2, <1>4, UsersStill, FinishQuiet
<1>5. CASE users' = [users EXCEPT ![u].name = n] /\ Sign!Goto(r, state)
  <2>0. UNCHANGED <<profiles, letIn, mails>>
    BY <1>2
  <2>1. ASSUME u \in DOMAIN users PROVE UsersWhole'
    <3>1. PICK old, row : old = users[u] /\ row = [old EXCEPT !.name = n]
      OBVIOUS
    <3>2. /\ old = [email |-> old.email, open |-> old.open, name |-> old.name]
          /\ old.email = None \/ Given(old.email, mails)
      BY <2>1, <3>1 DEF SignInv, UsersWhole
    <3>3. row = [email |-> old.email, open |-> old.open, name |-> n]
      BY <3>1, <3>2
    <3>4. users' = [users EXCEPT ![u] = row]
      BY <1>5, <3>1
    <3>5. row = [email |-> row.email, open |-> row.open, name |-> row.name] /\ row.email = old.email
      BY <3>3
    <3> QED
      BY <2>0, <2>1, <3>2, <3>4, <3>5, RowChanges
  <2>2. ASSUME u \notin DOMAIN users PROVE UsersWhole'
    <3>1. DOMAIN users' = DOMAIN users /\ \A v \in DOMAIN users : users'[v] = users[v]
      BY <1>5, <2>2
    <3> QED
      BY <2>0, <3>1 DEF SignInv, UsersWhole
  <2>3. UsersWhole'
    BY <2>1, <2>2
  <2> QED
    BY <1>2, <1>3, <1>5, <2>3, QuietVisitor
<1> QED
  BY <1>2, <1>4, <1>5

LEMMA NameAsked ==
  ASSUME SignInv, NEW r \in Visitors, NEW u, NEW n, Sign!UserInfoUpdateView(r, u, n) \/ Sign!CheckName(r)
  PROVE  SignInv'
<1>1. /\ signReq[r].pc \in {"idle", "check"} /\ UNCHANGED <<users, profiles, letIn, codes, mails>>
      /\ \/ Sign!Finish(r)
         \/ \E state : Sign!Goto(r, state) /\ state.pc \in {"check", "rename"}
  BY DEF Sign!UserInfoUpdateView, Sign!CheckName, Sign!At, Sign!store, Sign!mailing
<1>2. \A state : state.pc \in {"check", "rename"} => VisitorOK(r, state, mails)
  BY <1>1 DEF SignInv, VisitorsOK, VisitorOK, Sign!Purposes
<1> QED
  BY <1>1, <1>2, UsersStill, FinishQuiet, QuietVisitor

LEMMA OthersEnd ==
  ASSUME SignInv, NEW r \in Visitors, Sign!ResetPwdByEmailView(r) \/ Sign!Stamp(r) \/ Sign!Breaks(r)
  PROVE  SignInv'
<1>1. Sign!Finish(r) /\ UNCHANGED <<users, profiles, letIn, codes, mails>>
  BY DEF Sign!ResetPwdByEmailView, Sign!Stamp, Sign!Breaks, Sign!store, Sign!mailing
<1> QED
  BY <1>1, UsersStill, FinishQuiet

LEMMA SignStill == SignInv /\ UNCHANGED <<users, profiles, codes, mails, letIn, signReq>> => SignInv'
  BY DEF SignInv, MailsRight, VisitorsOK, UsersWhole

LEMMA SignKeeps == SignInv /\ Sign!SignNext => SignInv'
<1> SUFFICES ASSUME SignInv, Sign!SignNext PROVE SignInv'
  OBVIOUS
<1>1. ASSUME NEW key \in Sign!Keys, Sign!WindowEnds(key) PROVE SignInv'
  BY <1>1, SignStill DEF Sign!WindowEnds, Sign!store
<1>2. ASSUME NEW m \in DOMAIN codes, Sign!CodeExpires(m) PROVE SignInv'
  BY <1>2, CodeGone
<1>3. ASSUME NEW r \in Visitors, NEW m \in DOMAIN codes,
             Sign!VerifyWrong(r, m) \/ \E p \in Sign!Purposes : Sign!VerifyRight(r, m, p)
      PROVE  SignInv'
  BY <1>3, WrongCode, RightCode
<1>4. ASSUME NEW r \in Visitors,
             \/ \E e \in Emails, ip \in IPs, k \in Kinds : Sign!SendEmailView(r, e, ip, k)
             \/ \E o \in OpenIds : Sign!QQLoginView(r, o)
             \/ \E u \in DOMAIN users, n \in 1..MaxName : Sign!UserInfoUpdateView(r, u, n)
      PROVE  SignInv'
  BY <1>4, MailAsked, QQIn, NameAsked
<1>5. ASSUME NEW r \in Visitors,
             \/ Sign!AllowWithinWindow(r) \/ Sign!Send(r) \/ Sign!Store(r)
             \/ Sign!NextName(r) \/ Sign!QQNextName(r) \/ Sign!Create(r)
             \/ Sign!EmailLoginView(r) \/ Sign!BindEmailView(r) \/ Sign!ResetPwdByEmailView(r)
             \/ Sign!CheckName(r) \/ Sign!Rename(r) \/ Sign!Stamp(r) \/ Sign!Breaks(r)
      PROVE  SignInv'
  BY <1>5, WindowCounted, MailSent, CodeStored, NameTaken, UserCreated, EmailIn, EmailBound, NameAsked, Renamed, OthersEnd
<1> QED
  BY <1>1, <1>2, <1>3, <1>4, <1>5 DEF Sign!SignNext

LEMMA SignStarts == Sign!SignInit => SignInv
<1> SUFFICES ASSUME Sign!SignInit PROVE SignInv
  OBVIOUS
<1>1. /\ DOMAIN users = {Member} /\ users[Member] = [email |-> None, open |-> None, name |-> 0]
      /\ profiles = {Member} /\ DOMAIN codes = {} /\ DOMAIN mails = {} /\ DOMAIN letIn = {}
      /\ DOMAIN signReq = Visitors /\ \A r \in Visitors : signReq[r] = [pc |-> "idle"]
  BY DEF Sign!SignInit
<1>2. VisitorsOK
  BY <1>1 DEF VisitorsOK, VisitorOK, Sign!Purposes
<1> QED
  BY <1>1, <1>2 DEF SignInv, MailsRight, UsersWhole

(* EmailVerifyMiddleware and the registrations: for any visitors, addresses *)
(* and identities, a code lets in at most once and stops after too many     *)
(* wrong answers, and whoever gets tokens is a user with a profile whose    *)
(* address was given back from a mail (email_verify_middleware.go, auth_api).          *)
THEOREM SignUpsAreSound == AllSpec => []SignUpsSound
<1>1. AllInit => SignInv
  BY SignStarts DEF AllInit
<1>2. SignInv /\ [AllNext]_<<part, vars, artVars, searchVars, siteVars, signVars, scoreVars>> => SignInv'
  <2>1. AllNext => Sign!SignNext \/ UNCHANGED signVars
    BY Zenon DEF AllNext
  <2>2. UNCHANGED signVars => UNCHANGED <<users, profiles, codes, mails, letIn, signReq>>
    BY DEF signVars
  <2> QED
    BY <2>1, <2>2, SignKeeps, SignStill
<1>3. SignInv => SignUpsSound
  BY SignTells DEF SignUpsSound
<1> QED
  BY <1>1, <1>2, <1>3, PTL DEF AllSpec

-----------------------------------------------------------------------------
(* Every variable of SignUp has its type, and so has what a request holds.  *)
MaybeEmail == Emails \cup {None}
MaybeOpenId == OpenIds \cup {None}

VisitorTyped(state, known) ==
  /\ state.pc \in {"send", "store"} \cup Sign!Purposes => state.email \in Emails
  /\ state.pc = "count" =>
       /\ state.email \in Emails
       /\ \E a, b \in Sign!Keys : state.keys = <<a>> \/ state.keys = <<a, b>>
  /\ state.pc = "qqName" => state.open \in OpenIds
  /\ state.pc = "create" =>
       state.row.email \in MaybeEmail /\ state.row.open \in MaybeOpenId /\ state.row.name \in Nat
  /\ state.pc \in {"check", "rename"} => state.name \in Nat
  /\ state.pc \in {"check", "rename", "stamp"} => state.user \in known

VisitorsTyped == \A r \in Visitors : VisitorTyped(signReq[r], DOMAIN users)

UsersTyped ==
  /\ Member \in DOMAIN users /\ DOMAIN users \subseteq Visitors \cup {Member}
  /\ \A u \in DOMAIN users :
       users[u].email \in MaybeEmail /\ users[u].open \in MaybeOpenId /\ users[u].name \in Nat
  /\ profiles \subseteq Visitors \cup {Member} /\ stamped \subseteq DOMAIN users /\ seq \in Nat

MailsTyped ==
  /\ window \in [Sign!Keys -> [count : Nat, ends : BOOLEAN]]
  /\ \A m \in DOMAIN mails : mails[m].email \in Emails

SignTyped == SignInv /\ UsersTyped /\ MailsTyped /\ VisitorsTyped

LEMMA SignTypesTell == SignTyped => Sign!SignTypeOK
<1> SUFFICES ASSUME SignTyped PROVE Sign!SignTypeOK
  OBVIOUS
<1>1. ASSUME NEW u \in DOMAIN users
      PROVE  users[u] \in [email : Emails \cup {None}, open : OpenIds \cup {None}, name : Nat]
  <2>1. PICK row : row = users[u]
    OBVIOUS
  <2>2. row = [email |-> row.email, open |-> row.open, name |-> row.name]
    BY <2>1 DEF SignTyped, SignInv, UsersWhole
  <2>3. row.email \in MaybeEmail /\ row.open \in MaybeOpenId /\ row.name \in Nat
    BY <2>1 DEF SignTyped, UsersTyped
  <2> QED
    BY <2>1, <2>2, <2>3 DEF MaybeEmail, MaybeOpenId
<1>2. \A m \in DOMAIN codes : codes[m].email = mails[m].email
  BY DEF SignTyped, SignInv, MailsRight
<1> QED
  BY <1>1, <1>2 DEF SignTyped, SignInv, MailsRight, UsersTyped, MailsTyped, Sign!SignTypeOK

LEMMA RestsTyped == \A known : VisitorTyped([pc |-> "done"], known)
  BY DEF VisitorTyped, Sign!Purposes

(* A step of one visitor, when no user is lost.                             *)
LEMMA VisitorMoves ==
  ASSUME SignTyped, SignInv', NEW r \in Visitors, NEW state, Sign!Goto(r, state),
         VisitorTyped(state, DOMAIN users'), DOMAIN users \subseteq DOMAIN users',
         UsersTyped', MailsTyped'
  PROVE  SignTyped'
<1>1. signReq'[r] = state /\ \A q \in Visitors \ {r} : signReq'[q] = signReq[q]
  BY DEF SignTyped, SignInv, VisitorsOK, Sign!Goto
<1>2. ASSUME NEW q \in Visitors \ {r} PROVE VisitorTyped(signReq[q], DOMAIN users')
  BY DEF SignTyped, VisitorsTyped, VisitorTyped
<1>3. VisitorsTyped'
  BY <1>1, <1>2 DEF VisitorsTyped
<1> QED
  BY <1>3 DEF SignTyped

LEMMA VisitorFinishes ==
  ASSUME SignTyped, SignInv', NEW r \in Visitors, Sign!Finish(r),
         DOMAIN users \subseteq DOMAIN users', UsersTyped', MailsTyped'
  PROVE  SignTyped'
  BY RestsTyped, VisitorMoves DEF Sign!Finish

(* A step that changes neither users nor mails.                             *)
LEMMA OnlyMoves ==
  ASSUME SignTyped, SignInv', NEW r \in Visitors, NEW state, Sign!Goto(r, state),
         VisitorTyped(state, DOMAIN users), UNCHANGED <<users, profiles, stamped, window, mails>>, seq' \in Nat
  PROVE  SignTyped'
<1>1. UsersTyped' /\ MailsTyped'
  BY DEF SignTyped, UsersTyped, MailsTyped
<1> QED
  BY <1>1, VisitorMoves

LEMMA OnlyFinishes ==
  ASSUME SignTyped, SignInv', NEW r \in Visitors, Sign!Finish(r),
         UNCHANGED <<users, profiles, stamped, window, mails, seq>>
  PROVE  SignTyped'
<1>1. seq' \in Nat
  BY DEF SignTyped, UsersTyped
<1> QED
  BY <1>1, RestsTyped, OnlyMoves DEF Sign!Finish

LEMMA Holds ==
  ASSUME SignTyped, NEW r \in Visitors
  PROVE  VisitorTyped(signReq[r], DOMAIN users)
  BY DEF SignTyped, VisitorsTyped

LEMMA QuietTyped ==
  ASSUME SignTyped, SignInv', NEW r \in Visitors,
         \/ Sign!Send(r) \/ Sign!NextName(r) \/ Sign!QQNextName(r) \/ Sign!EmailLoginView(r)
         \/ Sign!ResetPwdByEmailView(r) \/ Sign!CheckName(r) \/ Sign!Breaks(r)
         \/ \E o \in OpenIds : Sign!QQLoginView(r, o)
         \/ \E u \in DOMAIN users, n \in 1..MaxName : Sign!UserInfoUpdateView(r, u, n)
         \/ \E e \in Emails, ip \in IPs, k \in Kinds : Sign!SendEmailView(r, e, ip, k)
  PROVE  SignTyped'
<1>0. VisitorTyped(signReq[r], DOMAIN users) /\ seq \in Nat
  BY Holds DEF SignTyped, UsersTyped
<1>1. CASE Sign!Send(r)
  <2>1. PICK state : state = [pc |-> "store", email |-> signReq[r].email]
    OBVIOUS
  <2>2. /\ signReq[r].pc = "send" /\ (Sign!Goto(r, state) \/ Sign!Finish(r))
        /\ UNCHANGED <<users, profiles, stamped, window, mails, seq>>
    BY <1>1, <2>1 DEF Sign!Send, Sign!At, Sign!store, Sign!mailing
  <2>3. VisitorTyped(state, DOMAIN users)
    BY <1>0, <2>1, <2>2 DEF VisitorTyped, Sign!Purposes
  <2> QED
    BY <1>0, <2>2, <2>3, OnlyMoves, OnlyFinishes
<1>2. CASE Sign!NextName(r)
  <2>1. PICK state : state = [pc |-> "create", row |-> [email |-> signReq[r].email, open |-> None, name |-> seq + 1]]
    OBVIOUS
  <2>2. /\ signReq[r].pc = "register" /\ Sign!Goto(r, state) /\ seq' = seq + 1
        /\ UNCHANGED <<users, profiles, stamped, window, mails>>
    BY <1>2, <2>1 DEF Sign!NextName, Sign!At, Sign!store, Sign!mailing
  <2>3. VisitorTyped(state, DOMAIN users)
    BY <1>0, <2>1, <2>2 DEF VisitorTyped, Sign!Purposes, MaybeEmail, MaybeOpenId
  <2> QED
    BY <1>0, <2>2, <2>3, OnlyMoves
<1>3. CASE Sign!QQNextName(r)
  <2>1. PICK state : state = [pc |-> "create", row |-> [email |-> None, open |-> signReq[r].open, name |-> seq + 1]]
    OBVIOUS
  <2>2. /\ signReq[r].pc = "qqName" /\ Sign!Goto(r, state) /\ seq' = seq + 1
        /\ UNCHANGED <<users, profiles, stamped, window, mails>>
    BY <1>3, <2>1 DEF Sign!QQNextName, Sign!At, Sign!store, Sign!mailing
  <2>3. VisitorTyped(state, DOMAIN users)
    BY <1>0, <2>1, <2>2 DEF VisitorTyped, Sign!Purposes, MaybeEmail, MaybeOpenId
  <2> QED
    BY <1>0, <2>2, <2>3, OnlyMoves
<1>4. CASE Sign!EmailLoginView(r)
  BY <1>4, OnlyFinishes DEF Sign!EmailLoginView, Sign!LetIn, Sign!store, Sign!mailing
<1>5. CASE Sign!ResetPwdByEmailView(r) \/ Sign!Breaks(r)
  BY <1>5, OnlyFinishes DEF Sign!ResetPwdByEmailView, Sign!Breaks, Sign!store, Sign!mailing
<1>6. CASE Sign!CheckName(r)
  <2>1. PICK state : state = [pc |-> "rename", user |-> signReq[r].user, name |-> signReq[r].name]
    OBVIOUS
  <2>2. /\ signReq[r].pc = "check" /\ (Sign!Goto(r, state) \/ Sign!Finish(r))
        /\ UNCHANGED <<users, profiles, stamped, window, mails, seq>>
    BY <1>6, <2>1 DEF Sign!CheckName, Sign!At, Sign!store, Sign!mailing
  <2>3. VisitorTyped(state, DOMAIN users)
    BY <1>0, <2>1, <2>2 DEF VisitorTyped, Sign!Purposes
  <2> QED
    BY <1>0, <2>2, <2>3, OnlyMoves, OnlyFinishes
<1>7. ASSUME NEW o \in OpenIds, Sign!QQLoginView(r, o) PROVE SignTyped'
  <2>1. PICK state : state = [pc |-> "qqName", open |-> o]
    OBVIOUS
  <2>2. /\ Sign!Goto(r, state) \/ Sign!Finish(r)
        /\ UNCHANGED <<users, profiles, stamped, window, mails, seq>>
    BY <1>7, <2>1 DEF Sign!QQLoginView, Sign!LetIn, Sign!store, Sign!mailing
  <2>3. VisitorTyped(state, DOMAIN users)
    BY <2>1 DEF VisitorTyped, Sign!Purposes
  <2> QED
    BY <1>0, <2>2, <2>3, OnlyMoves, OnlyFinishes
<1>8. ASSUME NEW u \in DOMAIN users, NEW n \in 1..MaxName, Sign!UserInfoUpdateView(r, u, n) PROVE SignTyped'
  <2>1. PICK state : state = [pc |-> "check", user |-> u, name |-> n, recent |-> u \in stamped]
    OBVIOUS
  <2>2. Sign!Goto(r, state) /\ UNCHANGED <<users, profiles, stamped, window, mails, seq>> /\ n \in Nat
    BY <1>8, <2>1, SignUpAssumption DEF Sign!UserInfoUpdateView, Sign!store, Sign!mailing
  <2>3. VisitorTyped(state, DOMAIN users)
    BY <2>1, <2>2 DEF VisitorTyped, Sign!Purposes
  <2> QED
    BY <1>0, <2>2, <2>3, OnlyMoves
<1>9. ASSUME NEW e \in Emails, NEW ip \in IPs, NEW k \in Kinds, Sign!SendEmailView(r, e, ip, k) PROVE SignTyped'
  <2>1. PICK state, a, b :
          /\ a = <<e, k>> /\ b = <<ip, k>>
          /\ state = [pc |-> "count", email |-> e, kind |-> k, allowed |-> TRUE, keys |-> <<a, b>>]
    OBVIOUS
  <2>2. Sign!Goto(r, state) /\ UNCHANGED <<users, profiles, stamped, window, mails, seq>>
    BY <1>9, <2>1 DEF Sign!SendEmailView, Sign!store, Sign!mailing
  <2>3. a \in Sign!Keys /\ b \in Sign!Keys
    BY <2>1 DEF Sign!Keys
  <2>4. VisitorTyped(state, DOMAIN users)
    BY <2>1, <2>3 DEF VisitorTyped, Sign!Purposes
  <2> QED
    BY <1>0, <2>2, <2>4, OnlyMoves
<1> QED
  BY <1>1, <1>2, <1>3, <1>4, <1>5, <1>6, <1>7, <1>8, <1>9

(* The send limits.                                                         *)
LEMMA WindowTyped == ASSUME SignTyped, SignInv', NEW r \in Visitors, Sign!AllowWithinWindow(r) PROVE SignTyped'
<1>0. /\ VisitorTyped(signReq[r], DOMAIN users) /\ window \in [Sign!Keys -> [count : Nat, ends : BOOLEAN]]
      /\ signReq[r].pc = "count" /\ UNCHANGED <<users, profiles, stamped, mails, seq>>
  BY Holds DEF SignTyped, MailsTyped, Sign!AllowWithinWindow, Sign!At, Sign!store
<1>1. PICK a \in Sign!Keys, b \in Sign!Keys : signReq[r].keys = <<a>> \/ signReq[r].keys = <<a, b>>
  BY <1>0 DEF VisitorTyped
<1>2. PICK e : e = signReq[r].email /\ e \in Emails
  BY <1>0 DEF VisitorTyped
<1>3. Head(signReq[r].keys) = a
  BY <1>1
<1>4. PICK row : row = window[a] /\ row \in [count : Nat, ends : BOOLEAN]
  BY <1>0
<1>5. PICK ends \in BOOLEAN : window' = [window EXCEPT ![a] = [count |-> row.count + 1, ends |-> ends]]
  <2>1. row.ends \in BOOLEAN
    BY <1>4
  <2> QED
    BY <1>3, <1>4, <2>1 DEF Sign!AllowWithinWindow
<1>6. [count |-> row.count + 1, ends |-> ends] \in [count : Nat, ends : BOOLEAN]
  BY <1>4
<1>7. UsersTyped' /\ MailsTyped'
  BY <1>0, <1>5, <1>6 DEF SignTyped, UsersTyped, MailsTyped
<1>8. PICK state, next, c :
        /\ c = (signReq[r].allowed /\ window[a].count + 1 <= MaxSend)
        /\ state = [pc |-> "send", email |-> e, kind |-> signReq[r].kind]
        /\ next = [signReq[r] EXCEPT !.keys = Tail(@), !.allowed = c]
  OBVIOUS
<1>9. \/ signReq[r].keys = <<a, b>> /\ Sign!Goto(r, next)
      \/ Sign!Goto(r, state) \/ Sign!Finish(r)
  <2>1. CASE signReq[r].keys = <<a>>
    BY <1>2, <1>3, <1>8, <2>1 DEF Sign!AllowWithinWindow
  <2>2. CASE signReq[r].keys = <<a, b>>
    <3>1. Len(signReq[r].keys) = 2 /\ Len(signReq[r].keys) # 1
      BY <2>2
    <3>2. signReq' = [signReq EXCEPT ![r].keys = Tail(@), ![r].allowed = c]
      <4>1. signReq' = [signReq EXCEPT ![r].keys = Tail(@),
                          ![r].allowed = signReq[r].allowed /\ window[Head(signReq[r].keys)].count + 1 <= MaxSend]
        BY <3>1, Zenon DEF Sign!AllowWithinWindow
      <4> QED
        BY <1>3, <1>8, <4>1, Zenon
    <3>3. signReq' = [signReq EXCEPT ![r] = next]
      BY <1>8, <3>2
    <3> QED
      BY <2>2, <3>3 DEF Sign!Goto
  <2> QED
    BY <1>1, <2>1, <2>2
<1>10. VisitorTyped(state, DOMAIN users)
  BY <1>2, <1>8 DEF VisitorTyped, Sign!Purposes
<1>11. ASSUME signReq[r].keys = <<a, b>> PROVE VisitorTyped(next, DOMAIN users)
  <2>1. PICK old : old = signReq[r]
    OBVIOUS
  <2>2. old = [pc |-> old.pc, email |-> old.email, kind |-> old.kind, allowed |-> old.allowed, keys |-> old.keys]
    BY <1>0, <2>1 DEF SignTyped, SignInv, VisitorsOK, VisitorOK
  <2>3. Tail(old.keys) = <<b>>
    <3>1. old.keys = <<a, b>>
      BY <1>11, <2>1
    <3>2. Tail(<<a, b>>) = <<b>>
      OBVIOUS
    <3> QED
      BY <3>1, <3>2
  <2>4. next = [old EXCEPT !.keys = <<b>>, !.allowed = c]
    BY <1>8, <2>1, <2>3
  <2>5. next.pc = "count" /\ next.email = e /\ next.keys = <<b>>
    BY <1>0, <1>2, <2>1, <2>2, <2>4
  <2> QED
    BY <1>2, <2>5 DEF VisitorTyped, Sign!Purposes
<1> QED
  BY <1>0, <1>7, <1>9, <1>10, <1>11, VisitorMoves, VisitorFinishes

(* The mails.                                                               *)
LEMMA MailTyped ==
  ASSUME SignTyped, SignInv', NEW r \in Visitors,
         \/ Sign!Store(r)
         \/ \E m \in DOMAIN codes : Sign!VerifyWrong(r, m) \/ \E p \in Sign!Purposes : Sign!VerifyRight(r, m, p)
  PROVE  SignTyped'
<1>0. VisitorTyped(signReq[r], DOMAIN users) /\ MailsTyped
  BY Holds DEF SignTyped
<1>1. ASSUME UNCHANGED <<users, profiles, stamped, seq, window>>, \A m \in DOMAIN mails' : mails'[m].email \in Emails
      PROVE  UsersTyped' /\ MailsTyped'
  BY <1>1 DEF SignTyped, UsersTyped, MailsTyped
<1>2. CASE Sign!Store(r)
  <2>1. PICK mail : mail = [email |-> signReq[r].email, right |-> 0, wrong |-> 0]
    OBVIOUS
  <2>2. /\ signReq[r].pc = "store" /\ mails' = Sign!With(mails, r, mail) /\ Sign!Finish(r)
        /\ UNCHANGED <<users, profiles, stamped, seq, window>>
    BY <1>2, <2>1 DEF Sign!Store, Sign!At, Sign!store
  <2>3. mail.email \in Emails
    BY <1>0, <2>1, <2>2 DEF VisitorTyped
  <2>4. \A m \in DOMAIN mails' : mails'[m].email \in Emails
    BY <1>0, <2>2, <2>3 DEF Sign!With, MailsTyped
  <2> QED
    BY <1>1, <2>2, <2>4, VisitorFinishes
<1>3. ASSUME NEW m \in DOMAIN codes, Sign!VerifyWrong(r, m) PROVE SignTyped'
  <2>1. PICK old : old = mails[m] /\ old = [email |-> old.email, right |-> old.right, wrong |-> old.wrong] /\ m \in DOMAIN mails
    BY DEF SignTyped, SignInv, MailsRight
  <2>2. PICK new : new = [old EXCEPT !.wrong = @ + 1]
    OBVIOUS
  <2>3. mails' = [mails EXCEPT ![m] = new]
    BY <1>3, <2>1, <2>2 DEF Sign!VerifyWrong
  <2>4. new.email = old.email /\ old.email \in Emails
    BY <1>0, <2>1, <2>2 DEF MailsTyped
  <2>5. \A x \in DOMAIN mails' : mails'[x].email \in Emails
    BY <1>0, <2>1, <2>3, <2>4 DEF MailsTyped
  <2>6. Sign!Finish(r) /\ UNCHANGED <<users, profiles, stamped, seq, window>>
    BY <1>3 DEF Sign!VerifyWrong, Sign!store
  <2> QED
    BY <1>1, <2>5, <2>6, VisitorFinishes
<1>4. ASSUME NEW m \in DOMAIN codes, NEW p \in Sign!Purposes, Sign!VerifyRight(r, m, p) PROVE SignTyped'
  <2>1. PICK old : old = mails[m] /\ old = [email |-> old.email, right |-> old.right, wrong |-> old.wrong] /\ m \in DOMAIN mails
    BY DEF SignTyped, SignInv, MailsRight
  <2>2. PICK new : new = [old EXCEPT !.right = @ + 1]
    OBVIOUS
  <2>3. mails' = [mails EXCEPT ![m] = new]
    BY <1>4, <2>1, <2>2 DEF Sign!VerifyRight
  <2>4. new.email = old.email /\ old.email \in Emails
    BY <1>0, <2>1, <2>2 DEF MailsTyped
  <2>5. \A x \in DOMAIN mails' : mails'[x].email \in Emails
    BY <1>0, <2>1, <2>3, <2>4 DEF MailsTyped
  <2>6. PICK state : state = [pc |-> p, email |-> codes[m].email]
    OBVIOUS
  <2>7. Sign!Goto(r, state) /\ UNCHANGED <<users, profiles, stamped, seq, window>>
    BY <1>4, <2>6 DEF Sign!VerifyRight, Sign!store
  <2>8. codes[m].email \in Emails
    BY <2>1, <2>4 DEF SignTyped, SignInv, MailsRight
  <2>9. VisitorTyped(state, DOMAIN users')
    BY <2>6, <2>8 DEF VisitorTyped, Sign!Purposes
  <2> QED
    BY <1>1, <2>5, <2>7, <2>9, VisitorMoves
<1> QED
  BY <1>2, <1>3, <1>4

(* The users.                                                               *)
LEMMA RowTyped ==
  ASSUME SignTyped, NEW u \in DOMAIN users, NEW row, users' = [users EXCEPT ![u] = row],
         row.email \in MaybeEmail /\ row.open \in MaybeOpenId /\ row.name \in Nat,
         UNCHANGED <<profiles, stamped, seq>>
  PROVE  UsersTyped'
  BY DEF SignTyped, UsersTyped

LEMMA UserTyped ==
  ASSUME SignTyped, SignInv', NEW r \in Visitors,
         Sign!Create(r) \/ Sign!BindEmailView(r) \/ Sign!Rename(r) \/ Sign!Stamp(r)
  PROVE  SignTyped'
<1>0. VisitorTyped(signReq[r], DOMAIN users) /\ UsersTyped
  BY Holds DEF SignTyped
<1>1. ASSUME UNCHANGED <<window, mails>> PROVE MailsTyped'
  BY <1>1 DEF SignTyped, MailsTyped
<1>2. CASE Sign!Create(r)
  <2>1. PICK row : row = signReq[r].row
    OBVIOUS
  <2>2. /\ signReq[r].pc = "create" /\ profiles' = profiles \cup {r} /\ Sign!Finish(r)
        /\ UNCHANGED users \/ users' = Sign!With(users, r, row)
        /\ UNCHANGED <<stamped, seq, window, mails>>
    BY <1>2, <2>1 DEF Sign!Create, Sign!At, Sign!LetIn, Sign!mailing
  <2>3. row.email \in MaybeEmail /\ row.open \in MaybeOpenId /\ row.name \in Nat
    BY <1>0, <2>1, <2>2 DEF VisitorTyped
  <2>4. CASE UNCHANGED users
    <3>1. UsersTyped'
      BY <1>0, <2>2, <2>4 DEF UsersTyped
    <3> QED
      BY <1>1, <2>2, <2>4, <3>1, VisitorFinishes
  <2>5. CASE users' = Sign!With(users, r, row)
    <3>1. /\ DOMAIN users' = (DOMAIN users) \cup {r} /\ users'[r] = row
          /\ \A u \in DOMAIN users : u # r => users'[u] = users[u]
      BY <2>5 DEF Sign!With
    <3>2. ASSUME NEW u \in DOMAIN users'
          PROVE  users'[u].email \in MaybeEmail /\ users'[u].open \in MaybeOpenId /\ users'[u].name \in Nat
      BY <1>0, <2>3, <3>1 DEF UsersTyped
    <3>3. UsersTyped'
      BY <1>0, <2>2, <3>1, <3>2 DEF UsersTyped
    <3> QED
      BY <1>1, <2>2, <3>1, <3>3, VisitorFinishes
  <2> QED
    BY <2>2, <2>4, <2>5
<1>3. CASE Sign!BindEmailView(r)
  <2>1. PICK e, old, row : e = signReq[r].email /\ old = users[Member] /\ row = [old EXCEPT !.email = e]
    OBVIOUS
  <2>2. /\ signReq[r].pc = "bind" /\ Sign!Finish(r) /\ UNCHANGED <<profiles, stamped, seq, window, mails>>
        /\ users' = [users EXCEPT ![Member] = row] \/ UNCHANGED users
    BY <1>3, <2>1 DEF Sign!BindEmailView, Sign!At, Sign!mailing
  <2>3. e \in Emails /\ Member \in DOMAIN users
    BY <1>0, <2>1, <2>2 DEF VisitorTyped, Sign!Purposes, UsersTyped
  <2>4. /\ old = [email |-> old.email, open |-> old.open, name |-> old.name]
        /\ old.open \in MaybeOpenId /\ old.name \in Nat
    BY <1>0, <2>1, <2>3 DEF SignTyped, SignInv, UsersWhole, UsersTyped
  <2>5. row.email \in MaybeEmail /\ row.open \in MaybeOpenId /\ row.name \in Nat
    BY <2>1, <2>3, <2>4 DEF MaybeEmail
  <2>6. UsersTyped' /\ DOMAIN users' = DOMAIN users
    <3>1. CASE UNCHANGED users
      BY <1>0, <2>2, <3>1 DEF UsersTyped
    <3>2. CASE users' = [users EXCEPT ![Member] = row]
      BY <2>2, <2>3, <2>5, <3>2, RowTyped
    <3> QED
      BY <2>2, <3>1, <3>2
  <2> QED
    BY <1>1, <2>2, <2>6, VisitorFinishes
<1>4. CASE Sign!Rename(r)
  <2>1. PICK u, n, old, row, state :
          /\ u = signReq[r].user /\ n = signReq[r].name /\ old = users[u] /\ row = [old EXCEPT !.name = n]
          /\ state = [pc |-> "stamp", user |-> u]
    OBVIOUS
  <2>2. /\ signReq[r].pc = "rename" /\ UNCHANGED <<profiles, stamped, seq, window, mails>>
        /\ \/ users' = [users EXCEPT ![u] = row] /\ Sign!Goto(r, state)
           \/ UNCHANGED users /\ Sign!Finish(r)
    BY <1>4, <2>1 DEF Sign!Rename, Sign!At, Sign!mailing
  <2>3. n \in Nat /\ u \in DOMAIN users
    BY <1>0, <2>1, <2>2 DEF VisitorTyped
  <2>4. /\ old = [email |-> old.email, open |-> old.open, name |-> old.name]
        /\ old.open \in MaybeOpenId /\ old.email \in MaybeEmail
    BY <1>0, <2>1, <2>3 DEF SignTyped, SignInv, UsersWhole, UsersTyped
  <2>5. row.email \in MaybeEmail /\ row.open \in MaybeOpenId /\ row.name \in Nat
    BY <2>1, <2>3, <2>4
  <2>6. CASE UNCHANGED users /\ Sign!Finish(r)
    <3>1. UsersTyped'
      BY <1>0, <2>2, <2>6 DEF UsersTyped
    <3> QED
      BY <1>1, <2>2, <2>6, <3>1, VisitorFinishes
  <2>7. CASE users' = [users EXCEPT ![u] = row] /\ Sign!Goto(r, state)
    <3>1. UsersTyped' /\ DOMAIN users' = DOMAIN users
      BY <2>2, <2>3, <2>5, <2>7, RowTyped
    <3>2. VisitorTyped(state, DOMAIN users')
      BY <2>1, <2>3, <3>1 DEF VisitorTyped, Sign!Purposes
    <3> QED
      BY <1>1, <2>2, <2>7, <3>1, <3>2, VisitorMoves
  <2> QED
    BY <2>2, <2>6, <2>7
<1>5. CASE Sign!Stamp(r)
  <2>1. /\ signReq[r].pc = "stamp" /\ stamped' = stamped \cup {signReq[r].user} /\ Sign!Finish(r)
        /\ UNCHANGED <<users, profiles, seq, window, mails>>
    BY <1>5 DEF Sign!Stamp, Sign!At, Sign!mailing
  <2>2. signReq[r].user \in DOMAIN users
    BY <1>0, <2>1 DEF VisitorTyped
  <2>3. UsersTyped'
    BY <1>0, <2>1, <2>2 DEF UsersTyped
  <2> QED
    BY <1>1, <2>1, <2>3, VisitorFinishes
<1> QED
  BY <1>2, <1>3, <1>4, <1>5

LEMMA SignStaysTyped ==
  ASSUME SignTyped, Sign!SignNext \/ UNCHANGED signVars
  PROVE  SignTyped'
<1>1. SignInv'
  BY SignKeeps, SignStill DEF SignTyped, signVars
<1>2. ASSUME NEW r \in Visitors,
             \/ \E e \in Emails, ip \in IPs, k \in Kinds : Sign!SendEmailView(r, e, ip, k)
             \/ \E m \in DOMAIN codes : Sign!VerifyWrong(r, m) \/ \E p \in Sign!Purposes : Sign!VerifyRight(r, m, p)
             \/ \E o \in OpenIds : Sign!QQLoginView(r, o)
             \/ \E u \in DOMAIN users, n \in 1..MaxName : Sign!UserInfoUpdateView(r, u, n)
             \/ Sign!AllowWithinWindow(r) \/ Sign!Send(r) \/ Sign!Store(r)
             \/ Sign!NextName(r) \/ Sign!QQNextName(r) \/ Sign!Create(r)
             \/ Sign!EmailLoginView(r) \/ Sign!BindEmailView(r) \/ Sign!ResetPwdByEmailView(r)
             \/ Sign!CheckName(r) \/ Sign!Rename(r) \/ Sign!Stamp(r) \/ Sign!Breaks(r)
      PROVE  SignTyped'
  BY <1>1, <1>2, QuietTyped, WindowTyped, MailTyped, UserTyped
<1>3. ASSUME UNCHANGED <<users, profiles, stamped, seq, mails, signReq>>,
             window' \in [Sign!Keys -> [count : Nat, ends : BOOLEAN]]
      PROVE  SignTyped'
  BY <1>1, <1>3 DEF SignTyped, UsersTyped, MailsTyped, VisitorsTyped
<1>4. window \in [Sign!Keys -> [count : Nat, ends : BOOLEAN]]
  BY DEF SignTyped, MailsTyped
<1>5. ASSUME NEW key \in Sign!Keys, Sign!WindowEnds(key) PROVE SignTyped'
  <2>1. window' = [window EXCEPT ![key] = [count |-> 0, ends |-> FALSE]]
    BY <1>5 DEF Sign!WindowEnds
  <2>2. [count |-> 0, ends |-> FALSE] \in [count : Nat, ends : BOOLEAN]
    OBVIOUS
  <2> QED
    BY <1>3, <1>4, <1>5, <2>1, <2>2 DEF Sign!WindowEnds, Sign!store
<1>6. ASSUME NEW m \in DOMAIN codes, Sign!CodeExpires(m) PROVE SignTyped'
  BY <1>3, <1>4, <1>6 DEF Sign!CodeExpires, Sign!store
<1>7. CASE UNCHANGED signVars
  BY <1>3, <1>4, <1>7 DEF signVars
<1> QED
  BY <1>2, <1>5, <1>6, <1>7 DEF Sign!SignNext

LEMMA SignStartsTyped == Sign!SignInit => SignTyped
<1> SUFFICES ASSUME Sign!SignInit PROVE SignTyped
  OBVIOUS
<1>1. /\ DOMAIN users = {Member} /\ users[Member] = [email |-> None, open |-> None, name |-> 0]
      /\ profiles = {Member} /\ stamped = {} /\ seq = 0 /\ DOMAIN mails = {}
      /\ window = [k \in Sign!Keys |-> [count |-> 0, ends |-> FALSE]]
      /\ \A r \in Visitors : signReq[r] = [pc |-> "idle"]
  BY DEF Sign!SignInit
<1>2. UsersTyped
  BY <1>1 DEF UsersTyped, MaybeEmail, MaybeOpenId
<1>3. MailsTyped
  BY <1>1 DEF MailsTyped
<1>4. VisitorsTyped
  BY <1>1 DEF VisitorsTyped, VisitorTyped, Sign!Purposes
<1> QED
  BY <1>2, <1>3, <1>4, SignStarts DEF SignTyped

-----------------------------------------------------------------------------
(* Scoring: an article has a result exactly when it was scored.             *)
LEMMA ScoringTyped ==
  ASSUME Score!ScoringTypeOK, Score!ScoringNext \/ UNCHANGED scoreVars
  PROVE  Score!ScoringTypeOK'
<1>1. ASSUME NEW reply, NEW type \in Types \cup {Failure} PROVE Score!NormalizeType(reply, type) \in Types
  BY <1>1, ScoringAssumption DEF Score!NormalizeType
<1>2. CASE Score!ScoreArticleQuality \/ Score!ChatFails \/ UNCHANGED scoreVars
  BY <1>2 DEF Score!ScoreArticleQuality, Score!ChatFails, scoreVars, Score!ScoringTypeOK
<1>3. ASSUME NEW reply \in Replies, Score!FirstChunk(reply) \/ Score!MiddleChunk(reply)
      PROVE  Score!ScoringTypeOK'
  <2>1. /\ pc \in {"first", "middle"} /\ pc' = "middle" /\ UNCHANGED result
        /\ kind' = Score!NormalizeType(reply.type, Failure) \/ kind' = Score!NormalizeType(reply.type, kind)
    BY <1>3 DEF Score!FirstChunk, Score!MiddleChunk, Score!Chunk
  <2>2. kind' \in Types
    BY <1>1, <2>1 DEF Score!ScoringTypeOK
  <2> QED
    BY <2>1, <2>2 DEF Score!ScoringTypeOK
<1>4. ASSUME NEW reply \in Replies, Score!FinalChunk(reply) \/ Score!ShortArticle(reply)
      PROVE  Score!ScoringTypeOK'
  <2>1. /\ pc' = "scored" /\ UNCHANGED kind
        /\ result' = Score!NormalizeFinal(reply, kind) \/ result' = Score!NormalizeFinal(reply, Failure)
    BY <1>4 DEF Score!FinalChunk, Score!ShortArticle
  <2>2. result' # Failure
    BY <2>1, ScoringAssumption DEF Score!ScoringTypeOK
  <2> QED
    BY <2>1, <2>2 DEF Score!ScoringTypeOK
<1> QED
  BY <1>2, <1>3, <1>4 DEF Score!ScoringNext

(* Search: what is found is in the index.                                   *)
LEMMA FoundTyped ==
  ASSUME SearchInv, Find!SearchTypeOK, [AllNext]_<<part, vars, artVars, searchVars, siteVars, signVars, scoreVars>>
  PROVE  Find!SearchTypeOK'
<1>1. CASE UNCHANGED searchVars
  BY <1>1 DEF searchVars, Find!SearchTypeOK
<1>2. CASE Find!SearchNext
  <2>1. PICK q : answer' = [state |-> "refused"]
                 \/ answer' = [state |-> "found", list |-> {Find!Result(q, d) : d \in {e \in Index : Find!Hit(q, e)}}]
    BY <1>2 DEF Find!SearchNext, Find!SearchArticles
  <2>2. \A d : Find!Result(q, d).doc = d
    BY DEF Find!Result
  <2>3. /\ answer'.state \in {"none", "refused", "found"}
        /\ answer'.state = "found" => answer'.list = {Find!Result(q, d) : d \in {e \in Index : Find!Hit(q, e)}}
    BY <2>1
  <2>4. answer'.state = "found" => \A x \in answer'.list : x.doc \in Index
    BY <2>2, <2>3
  <2>5. UNCHANGED searchAsked
    BY <1>2 DEF Find!SearchNext, Find!SearchArticles
  <2> QED
    BY <2>3, <2>4, <2>5, SearchAssumption DEF Find!SearchTypeOK
<1>3. AllNext => Find!SearchNext \/ UNCHANGED searchVars
  BY Zenon DEF AllNext
<1> QED
  BY <1>1, <1>2, <1>3

LEMMA SearchStartsTyped == AllInit => Find!SearchTypeOK
<1>1. AnyRequest \in Find!Request
  BY DEF AnyRequest, Find!Request
<1>2. Find!SearchInit => Find!SearchTypeOK
  BY DEF Find!SearchInit, Find!SearchTypeOK
<1>3. searchAsked = [request |-> AnyRequest, by |-> Guest] /\ answer = [state |-> "none"] => Find!SearchTypeOK
  BY <1>1 DEF Find!SearchTypeOK
<1> QED
  BY <1>2, <1>3 DEF AllInit

-----------------------------------------------------------------------------
LEMMA SessionsTyped == AllSpec => []TypeOK
<1>1. AllInit => Init
  BY DEF AllInit
<1>2. [AllNext]_<<part, vars, artVars, searchVars, siteVars, signVars, scoreVars>> => [Next]_vars
  BY Zenon DEF AllNext
<1>3. AllSpec => Spec
  BY <1>1, <1>2, PTL DEF AllSpec, Spec
<1> QED
  BY <1>3, TypeCorrect, PTL

LEMMA ArticlesTyped == AllSpec => []Art!ArtTypeOK
<1>1. /\ MaxArticles \in Nat /\ Seeds \subseteq Seq(P!Article) /\ P!IsFiniteSet(Reqs)
      /\ \A seed \in Seeds : Len(seed) <= MaxArticles
  BY ArticlesAssumption DEF Art!Article, P!Article, Art!Accounts, P!Accounts, Art!Statuses, P!Statuses, P!IsFiniteSet, IsFiniteSet
<1>2. P!ArtSpec => []P!ArtTypeOK
  BY <1>1, P!TypeCorrect
<1>3. P!ArtTypeOK => Art!ArtTypeOK
  BY Zenon DEF Art!ArtTypeOK, P!ArtTypeOK, Art!Article, P!Article, Art!Accounts, P!Accounts,
       Art!Statuses, P!Statuses, Art!Ids, P!Ids, Art!Doc, P!Doc
<1> QED
  BY <1>2, <1>3, ArtImplemented, PTL

(* The types of all that the site keeps, for any values of the constants.   *)
THEOREM SiteTyped == AllSpec => []TypesOK
<1> DEFINE Inv == ConfInv /\ FlowInv /\ SignTyped /\ Score!ScoringTypeOK /\ SearchInv /\ Find!SearchTypeOK
                  /\ part \in {"sessions", "articles", "search", "config", "flow", "signup", "scoring"}
<1>1. AllInit => Inv
  <2>1. AllInit => Score!ScoringTypeOK
    BY DEF AllInit, Score!ScoringInit, Score!ScoringTypeOK
  <2> QED
    BY <2>1, ConfStarts, FlowStarts, SignStartsTyped, SearchStarts, SearchStartsTyped DEF AllInit
<1>2. Inv /\ [AllNext]_<<part, vars, artVars, searchVars, siteVars, signVars, scoreVars>> => Inv'
  <2> SUFFICES ASSUME Inv, [AllNext]_<<part, vars, artVars, searchVars, siteVars, signVars, scoreVars>>
               PROVE  Inv'
    OBVIOUS
  <2>1. /\ AllNext => (Site!ConfNext /\ UNCHANGED flowVars) \/ (Site!FlowNext /\ UNCHANGED confVars) \/ UNCHANGED siteVars
        /\ AllNext => Sign!SignNext \/ UNCHANGED signVars
        /\ AllNext => Score!ScoringNext \/ UNCHANGED scoreVars
        /\ AllNext => UNCHANGED part
    BY Zenon DEF AllNext
  <2>2. ConfInv' /\ FlowInv'
    BY <2>1, ConfKeeps, ConfStill, FlowKeeps, FlowStill DEF siteVars
  <2>3. SignTyped' /\ Score!ScoringTypeOK' /\ SearchInv' /\ Find!SearchTypeOK' /\ part' = part
    BY <2>1, SignStaysTyped, ScoringTyped, SearchKept, FoundTyped
  <2> QED
    BY <2>2, <2>3
<1>3. ConfInv /\ FlowInv => Site!SiteTypeOK
  BY DEF ConfInv, ConfTyped, FlowInv, Site!SiteTypeOK
<1>4. Inv /\ TypeOK /\ Art!ArtTypeOK => TypesOK
  BY <1>3, SignTypesTell DEF TypesOK
<1> QED
  BY <1>1, <1>2, <1>4, SessionsTyped, ArticlesTyped, PTL DEF AllSpec

-----------------------------------------------------------------------------
HIDE AuthAssumption DEF AuthAssumption

(* Scoring cuts a paper, joins its parts and weighs its dimensions with     *)
(* folds.  What a fold computes goes by induction over numbers, which the   *)
(* library's well-founded orderings give without an operator parameter.     *)
LEMMA Induct ==
  ASSUME NEW A, 0 \in A, \A n \in Nat : n \in A => n + 1 \in A
  PROVE  Nat \subseteq A
<1> SUFFICES ASSUME NEW m \in Nat, m \notin A PROVE FALSE
  OBVIOUS
<1> DEFINE T == {1 .. n : n \in Nat \ A}
<1>1. T \subseteq FiniteSubsetsOf(Nat) /\ T # {}
  <2>1. \A n \in Nat : 1 .. n \subseteq Nat /\ IsFiniteSet(1 .. n)
    BY FS_Interval
  <2> QED
    BY <2>1 DEF FiniteSubsetsOf
<1>2. IsWellFoundedOn(StrictSubsetOrdering(Nat), FiniteSubsetsOf(Nat))
  BY FS_StrictSubsetOrderingWellFounded
<1>3. PICK x \in T : \A y \in T : ~ (<<y, x>> \in StrictSubsetOrdering(Nat))
  <2> HIDE DEF T
  <2> QED
    BY <1>1, <1>2, WFMin
<1>4. PICK n \in Nat \ A : x = 1 .. n
  BY <1>3
<1>5. n # 0 /\ n - 1 \in Nat /\ n - 1 \notin A
  <2>1. n # 0
    BY <1>4
  <2>2. n - 1 \in Nat /\ (n - 1) + 1 = n
    BY <2>1
  <2> QED
    BY <2>1, <2>2, <1>4
<1>6. 1 .. (n - 1) \in T
  BY <1>5
<1>7. <<1 .. (n - 1), 1 .. n>> \in StrictSubsetOrdering(Nat)
  <2>1. 1 .. (n - 1) \subseteq 1 .. n /\ n \in 1 .. n /\ n \notin 1 .. (n - 1)
    BY <1>5
  <2> QED
    BY <2>1, <1>5 DEF StrictSubsetOrdering
<1> QED
  BY <1>3, <1>4, <1>6, <1>7

LEMMA InductTo ==
  ASSUME NEW k \in Nat, NEW A, 0 \in A, \A n \in Nat : n < k /\ n \in A => n + 1 \in A
  PROVE  \A n \in 0..k : n \in A
<1> DEFINE B == {n \in Nat : n <= k => n \in A}
<1>1. 0 \in B
  OBVIOUS
<1>2. ASSUME NEW n \in Nat, n \in B PROVE n + 1 \in B
  BY <1>2
<1>3. Nat \subseteq B
  <2> HIDE DEF B
  <2> QED
    BY <1>1, <1>2, Induct
<1> QED
  BY <1>3

(* A finite set of numbers that is not empty has a first and a last one.    *)
Bounded(s) ==
  /\ \E x \in s : \A y \in s : x >= y
  /\ \E x \in s : \A y \in s : x <= y

LEMMA Extremes ==
  ASSUME NEW S \in SUBSET Int, IsFiniteSet(S), S # {}
  PROVE  /\ Score!Max(S) \in S /\ \A y \in S : Score!Max(S) >= y
         /\ Score!Min(S) \in S /\ \A y \in S : Score!Min(S) <= y
<1> DEFINE A == {n \in Nat : \A s \in SUBSET S : s # {} /\ Cardinality(s) <= n => Bounded(s)}
<1>0. \A s \in SUBSET S : IsFiniteSet(s) /\ Cardinality(s) \in Nat /\ (Cardinality(s) = 0 => s = {})
  BY FS_Subset, FS_CardinalityType, FS_EmptySet
<1>1. 0 \in A
  <2>1. \A s \in SUBSET S : Cardinality(s) <= 0 => s = {}
    BY <1>0
  <2> QED
    BY <2>1
<1>2. ASSUME NEW n \in Nat, n \in A PROVE n + 1 \in A
  <2> SUFFICES ASSUME NEW s \in SUBSET S, s # {}, Cardinality(s) <= n + 1 PROVE Bounded(s)
    OBVIOUS
  <2>1. PICK x \in s : TRUE
    OBVIOUS
  <2>2. PICK r : r = s \ {x}
    OBVIOUS
  <2>3. r \in SUBSET S /\ Cardinality(r) <= n
    BY <1>0, <2>1, <2>2, FS_RemoveElement
  <2>4. CASE r = {}
    BY <2>1, <2>2, <2>4 DEF Bounded
  <2>5. CASE r # {}
    <3>1. Bounded(r)
      BY <1>2, <2>3, <2>5
    <3>2. PICK hi \in r, lo \in r : (\A y \in r : hi >= y) /\ (\A y \in r : lo <= y)
      BY <3>1 DEF Bounded
    <3>3. \A y \in s : y = x \/ y \in r
      BY <2>2
    <3>4. \E m \in s : \A y \in s : m >= y
      <4>1. CASE x >= hi
        BY <2>1, <2>2, <3>2, <3>3, <4>1
      <4>2. CASE ~(x >= hi)
        BY <2>1, <2>2, <3>2, <3>3, <4>2
      <4> QED
        BY <4>1, <4>2
    <3>5. \E m \in s : \A y \in s : m <= y
      <4>1. CASE x <= lo
        BY <2>1, <2>2, <3>2, <3>3, <4>1
      <4>2. CASE ~(x <= lo)
        BY <2>1, <2>2, <3>2, <3>3, <4>2
      <4> QED
        BY <4>1, <4>2
    <3> QED
      BY <3>4, <3>5 DEF Bounded
  <2> QED
    BY <2>4, <2>5
<1>3. Nat \subseteq A
  <2> HIDE DEF A
  <2> QED
    BY <1>1, <1>2, Induct
<1>4. Bounded(S)
  BY <1>0, <1>3
<1> QED
  BY <1>4 DEF Bounded, Score!Max, Score!Min

(* The folds of the module: the sum of a sequence, that of a function over  *)
(* a set, and the cutting of a paper.                                       *)
Chosen(how, s) == IF how = "sum" THEN CHOOSE x \in s : TRUE ELSE Score!Max(s)

Folded(how, t, acc, data, x) ==
  IF how = "place" THEN Score!Place(acc, data[x], t)
  ELSE IF how = "total" THEN acc + data[x] ELSE data[x] + acc

FoldSolves(it, how, t, base, data, S) ==
  it = [s \in SUBSET S |-> IF s = {} THEN base
                           ELSE Folded(how, t, it[s \ {Chosen(how, s)}], data, Chosen(how, s))]

TheFold(how, t, base, data, S) == CHOOSE it : FoldSolves(it, how, t, base, data, S)

LEMMA FoldsExist ==
  ASSUME NEW S, IsFiniteSet(S), NEW how, NEW t, NEW base, NEW data,
         \A s \in SUBSET S : s # {} => Chosen(how, s) \in s
  PROVE  FoldSolves(TheFold(how, t, base, data, S), how, t, base, data, S)
<1> DEFINE D(n) == {s \in SUBSET S : Cardinality(s) <= n}
           Nx(f, s) == IF s = {} THEN base ELSE Folded(how, t, f[s \ {Chosen(how, s)}], data, Chosen(how, s))
           Sol(f, n) == f = [s \in D(n) |-> Nx(f, s)]
           A == {n \in Nat : \E f : Sol(f, n)}
<1>0. \A s \in SUBSET S : IsFiniteSet(s) /\ Cardinality(s) \in Nat /\ (Cardinality(s) = 0 <=> s = {})
  BY FS_Subset, FS_CardinalityType, FS_EmptySet
<1>1. 0 \in A
  <2> DEFINE f == [s \in D(0) |-> base]
  <2>1. \A s \in D(0) : s = {}
    BY <1>0
  <2>2. Sol(f, 0)
    BY <2>1
  <2> QED
    BY <2>2
<1>2. ASSUME NEW n \in Nat, n \in A PROVE n + 1 \in A
  <2>1. PICK f : Sol(f, n)
    BY <1>2
  <2> DEFINE g == [s \in D(n + 1) |-> Nx(f, s)]
  <2>2. ASSUME NEW s \in D(n + 1) PROVE Nx(f, s) = Nx(g, s)
    <3>1. CASE s = {}
      BY <3>1
    <3>2. CASE s # {}
      <4>1. PICK c, r : c = Chosen(how, s) /\ r = s \ {c}
        OBVIOUS
      <4>2. c \in s
        BY <3>2, <4>1
      <4>3. r \in D(n)
        <5>1. Cardinality(r) = Cardinality(s) - 1
          BY <1>0, <4>1, <4>2, FS_RemoveElement
        <5> QED
          BY <1>0, <4>1, <5>1
      <4>4. r \in D(n + 1)
        BY <1>0, <4>3
      <4>5. g[r] = Nx(f, r)
        BY <4>4
      <4>6. f[r] = Nx(f, r)
        <5> HIDE DEF Nx, D
        <5> QED
          BY <2>1, <4>3
      <4>7. f[r] = g[r]
        BY <4>5, <4>6
      <4> HIDE DEF g
      <4> QED
        BY <3>2, <4>1, <4>7
    <3> QED
      BY <3>1, <3>2
  <2>3. Sol(g, n + 1)
    <3> HIDE DEF Nx, D
    <3> QED
      BY <2>2
  <2>4. n + 1 \in Nat /\ \E h : Sol(h, n + 1)
    <3> HIDE DEF Sol, g
    <3> QED
      BY <2>3
  <2> HIDE DEF Sol
  <2> QED
    BY <2>4
<1>3. Nat \subseteq A
  <2> HIDE DEF A
  <2> QED
    BY <1>1, <1>2, Induct
<1>4. PICK f : Sol(f, Cardinality(S))
  BY <1>0, <1>3
<1>5. D(Cardinality(S)) = SUBSET S
  BY FS_Subset
<1>6. \E it : FoldSolves(it, how, t, base, data, S)
  BY <1>4, <1>5 DEF FoldSolves
<1> DEFINE Eq(it) == FoldSolves(it, how, t, base, data, S)
<1>7. TheFold(how, t, base, data, S) = CHOOSE it : Eq(it)
  BY DEF TheFold
<1> HIDE DEF Eq, A, D, Nx, Sol
<1>8. \E it : Eq(it)
  BY <1>6 DEF Eq
<1>9. Eq(CHOOSE it : Eq(it))
  BY <1>8
<1> QED
  BY <1>7, <1>9 DEF Eq

(* A fold over a sequence is its elements, folded one after the other.      *)
LeftFold(f, k, how, t, base, data) ==
  /\ f[0] = base
  /\ \A n \in 1..k : f[n] = Folded(how, t, f[n - 1], data, n)
  /\ TheFold(how, t, base, data, 1..k)[1..k] = f[k]

LEMMA LeftSteps ==
  ASSUME NEW k \in Nat, NEW how, how # "sum", NEW t, NEW base, NEW data
  PROVE  \E f : LeftFold(f, k, how, t, base, data)
<1>1. \A s \in SUBSET (1..k) : s # {} => Chosen(how, s) = Score!Max(s) /\ Score!Max(s) \in s /\ \A y \in s : Score!Max(s) >= y
  <2> SUFFICES ASSUME NEW s \in SUBSET (1..k), s # {}
               PROVE  Chosen(how, s) = Score!Max(s) /\ Score!Max(s) \in s /\ \A y \in s : Score!Max(s) >= y
    OBVIOUS
  <2>1. IsFiniteSet(s) /\ s \in SUBSET Int
    <3>1. IsFiniteSet(1..k)
      BY FS_Interval
    <3>2. IsFiniteSet(s)
      BY <3>1, FS_Subset
    <3>3. \A y \in s : y \in Int
      OBVIOUS
    <3> QED
      BY <3>2, <3>3
  <2>2. how # "sum"
    OBVIOUS
  <2> QED
    BY <2>1, <2>2, Extremes DEF Chosen
<1>2. IsFiniteSet(1..k)
  BY FS_Interval
<1>3. PICK it : /\ it = TheFold(how, t, base, data, 1..k)
                /\ FoldSolves(it, how, t, base, data, 1..k)
  BY <1>1, <1>2, FoldsExist
<1> DEFINE f == [n \in 0..k |-> it[1..n]]
<1>4. ASSUME NEW s \in SUBSET (1..k)
      PROVE  it[s] = IF s = {} THEN base ELSE Folded(how, t, it[s \ {Chosen(how, s)}], data, Chosen(how, s))
  BY <1>3 DEF FoldSolves
<1>5. f[0] = base
  <2>1. 1..0 = {} /\ 0 \in 0..k
    OBVIOUS
  <2>2. it[{}] = base
    BY <1>4
  <2> QED
    BY <2>1, <2>2
<1>6. ASSUME NEW n \in 1..k PROVE f[n] = Folded(how, t, f[n - 1], data, n)
  <2>1. 1..n \in SUBSET (1..k) /\ 1..n # {} /\ n \in 1..n
    OBVIOUS
  <2>2. Score!Max(1..n) = n
    <3>1. Score!Max(1..n) \in 1..n /\ \A y \in 1..n : Score!Max(1..n) >= y
      BY <1>1, <2>1
    <3> QED
      BY <2>1, <3>1
  <2>3. (1..n) \ {n} = 1..n - 1
    OBVIOUS
  <2>4. it[1..n] = Folded(how, t, it[1..n - 1], data, n)
    BY <1>1, <1>4, <2>1, <2>2, <2>3
  <2>5. f[n] = it[1..n] /\ f[n - 1] = it[1..n - 1]
    OBVIOUS
  <2> QED
    BY <2>4, <2>5
<1>7. f[k] = it[1..k]
  OBVIOUS
<1> HIDE DEF f
<1>8. LeftFold(f, k, how, t, base, data)
  BY <1>3, <1>5, <1>6, <1>7 DEF LeftFold
<1> QED
  BY <1>8

(* Scoring: lengths.                                                        *)
LEMMA TotalSteps ==
  ASSUME NEW s, NEW k \in Nat, DOMAIN s = 1..k
  PROVE  \E f : f[0] = 0 /\ (\A n \in 1..k : f[n] = f[n - 1] + s[n]) /\ Score!Total(s) = f[k]
<1> DEFINE Eq(it) == it = [x \in SUBSET (1..k) |-> IF x = {} THEN 0 ELSE it[x \ {Score!Max(x)}] + s[Score!Max(x)]]
           Eq2(it) == FoldSolves(it, "total", 0, 0, s, 1..k)
<1>1. Score!Total(s) = (CHOOSE it : Eq(it))[1..k]
  BY DEF Score!Total, Score!FoldLeft, Score!MapThenFoldSet
<1>2. ASSUME NEW it PROVE Eq(it) <=> Eq2(it)
  BY DEF FoldSolves, Chosen, Folded
<1>3. Score!Total(s) = (CHOOSE it : Eq2(it))[1..k]
  <2> HIDE DEF Eq, Eq2
  <2> QED
    BY <1>1, <1>2
<1>4. PICK f : LeftFold(f, k, "total", 0, 0, s)
  <2>1. "total" # "sum"
    OBVIOUS
  <2> QED
    BY <2>1, LeftSteps
<1>5. f[0] = 0 /\ (\A n \in 1..k : f[n] = f[n - 1] + s[n]) /\ TheFold("total", 0, 0, s, 1..k)[1..k] = f[k]
  BY <1>4 DEF LeftFold, Folded
<1>6. TheFold("total", 0, 0, s, 1..k) = CHOOSE it : Eq2(it)
  BY DEF TheFold
<1> QED
  BY <1>3, <1>5, <1>6

LEMMA Totals ==
  ASSUME NEW s \in Seq(Int), NEW x \in Int
  PROVE  Score!Total(s) \in Int /\ Score!Total(Append(s, x)) = Score!Total(s) + x
<1>1. PICK k \in Nat : k = Len(s) /\ DOMAIN s = 1..k
  OBVIOUS
<1>2. PICK r : r = Append(s, x)
  OBVIOUS
<1>3. DOMAIN r = 1..k + 1 /\ (\A n \in 1..k : r[n] = s[n] /\ s[n] \in Int) /\ r[k + 1] = x
  BY <1>1, <1>2
<1>4. PICK f : f[0] = 0 /\ (\A n \in 1..k : f[n] = f[n - 1] + s[n]) /\ Score!Total(s) = f[k]
  BY <1>1, TotalSteps
<1>5. PICK g : g[0] = 0 /\ (\A n \in 1..k + 1 : g[n] = g[n - 1] + r[n]) /\ Score!Total(r) = g[k + 1]
  BY <1>1, <1>3, TotalSteps
<1> DEFINE A == {n \in Nat : f[n] \in Int /\ g[n] = f[n]}
<1>6. \A n \in 0..k : n \in A
  <2>1. 0 \in A
    BY <1>4, <1>5
  <2>2. ASSUME NEW n \in Nat, n < k, n \in A PROVE n + 1 \in A
    <3>1. n + 1 \in 1..k /\ n + 1 \in 1..k + 1 /\ (n + 1) - 1 = n
      BY <2>2
    <3>2. f[n + 1] = f[n] + s[n + 1] /\ g[n + 1] = g[n] + s[n + 1] /\ s[n + 1] \in Int
      BY <1>3, <1>4, <1>5, <3>1
    <3> QED
      BY <2>2, <3>2
  <2> HIDE DEF A
  <2> QED
    BY <2>1, <2>2, InductTo
<1>7. f[k] \in Int /\ g[k] = f[k]
  BY <1>6
<1>8. g[k + 1] = g[k] + x
  <2>1. k + 1 \in 1..k + 1 /\ (k + 1) - 1 = k
    OBVIOUS
  <2> QED
    BY <1>3, <1>5, <2>1
<1> QED
  BY <1>2, <1>4, <1>5, <1>7, <1>8

LEMMA TotalEmpty == Score!Total(<< >>) = 0
<1>1. DOMAIN << >> = 1..0
  OBVIOUS
<1> QED
  BY <1>1, TotalSteps

(* Fragments joined by an empty line, and one more.                         *)
LEMMA JoinedOne == ASSUME NEW x \in Nat PROVE Score!Joined(<<x>>) = x
<1>1. << >> \in Seq(Int) /\ Append(<< >>, x) = <<x>> /\ Len(<<x>>) = 1
  OBVIOUS
<1>2. Score!Total(<<x>>) = x
  <2>1. << >> \in Seq(Int) /\ x \in Int
    OBVIOUS
  <2>2. Score!Total(Append(<< >>, x)) = Score!Total(<< >>) + x
    BY <2>1, Totals
  <2> QED
    BY <1>1, <2>2, TotalEmpty
<1> QED
  BY <1>1, <1>2 DEF Score!Joined

LEMMA JoinedMore ==
  ASSUME NEW s \in Seq(Nat), NEW x \in Nat
  PROVE  Score!Joined(s) \in Int /\ Score!Joined(Append(s, x)) = Score!Joined(s) + 2 + x
<1>1. s \in Seq(Int) /\ x \in Int /\ Len(s) \in Nat /\ Len(Append(s, x)) = Len(s) + 1
  OBVIOUS
<1>2. Score!Total(s) \in Int /\ Score!Total(Append(s, x)) = Score!Total(s) + x
  BY <1>1, Totals
<1> QED
  BY <1>1, <1>2 DEF Score!Joined

-----------------------------------------------------------------------------
(* Scoring: sequences laid end to end.                                      *)
FlatSolves(f, s, k) == f = [i \in 1..k |-> IF i = 1 THEN s[i] ELSE f[i - 1] \o s[i]]

LEMMA FlatSteps ==
  ASSUME NEW s, NEW k \in Nat \ {0}, Len(s) = k
  PROVE  \E f : /\ f[1] = s[1] /\ \A i \in 2..k : f[i] = f[i - 1] \o s[i]
                /\ Score!FlattenSeq(s) = f[k]
<1> DEFINE Nx(f, i) == IF i = 1 THEN s[i] ELSE f[i - 1] \o s[i]
           Sol(f, n) == f = [i \in 1..n |-> Nx(f, i)]
           A == {n \in Nat : \E f : Sol(f, n)}
<1>1. 0 \in A
  <2> DEFINE f == [i \in 1..0 |-> 0]
  <2>1. Sol(f, 0)
    OBVIOUS
  <2> QED
    BY <2>1
<1>2. ASSUME NEW n \in Nat, n \in A PROVE n + 1 \in A
  <2>1. PICK f : Sol(f, n)
    BY <1>2
  <2> DEFINE g == [i \in 1..n + 1 |-> Nx(f, i)]
  <2>2. ASSUME NEW i \in 1..n + 1 PROVE Nx(f, i) = Nx(g, i)
    <3>1. CASE i = 1
      BY <3>1
    <3>2. CASE i # 1
      <4>1. i - 1 \in 1..n /\ i - 1 \in 1..n + 1
        BY <3>2
      <4>2. g[i - 1] = Nx(f, i - 1)
        BY <4>1
      <4>3. f[i - 1] = Nx(f, i - 1)
        <5> HIDE DEF Nx
        <5> QED
          BY <2>1, <4>1
      <4>4. f[i - 1] = g[i - 1]
        BY <4>2, <4>3
      <4> HIDE DEF g
      <4> QED
        BY <3>2, <4>4
    <3> QED
      BY <3>1, <3>2
  <2>3. Sol(g, n + 1)
    <3> HIDE DEF Nx
    <3> QED
      BY <2>2
  <2>4. n + 1 \in Nat /\ \E h : Sol(h, n + 1)
    <3> HIDE DEF Sol, g
    <3> QED
      BY <2>3
  <2> HIDE DEF Sol
  <2> QED
    BY <2>4
<1>3. Nat \subseteq A
  <2> HIDE DEF A
  <2> QED
    BY <1>1, <1>2, Induct
<1>4. \E f : Sol(f, k)
  BY <1>3
<1>5. PICK f : Sol(f, k) /\ f = CHOOSE h : Sol(h, k)
  <2> HIDE DEF Sol
  <2>1. Sol(CHOOSE h : Sol(h, k), k)
    BY <1>4
  <2> QED
    BY <2>1
<1>6. Score!FlattenSeq(s) = f[k]
  <2>1. Score!FlattenSeq(s) = (CHOOSE h : h = [i \in 1..k |-> IF i = 1 THEN s[i] ELSE h[i - 1] \o s[i]])[k]
    BY DEF Score!FlattenSeq
  <2> QED
    BY <1>5, <2>1
<1>7. ASSUME NEW i \in 1..k PROVE f[i] = Nx(f, i)
  <2> HIDE DEF Nx
  <2> QED
    BY <1>5
<1>8. f[1] = s[1] /\ \A i \in 2..k : f[i] = f[i - 1] \o s[i]
  <2>1. 1 \in 1..k /\ \A i \in 2..k : i \in 1..k /\ i # 1
    OBVIOUS
  <2> QED
    BY <1>7, <2>1
<1> QED
  BY <1>6, <1>8

LEMMA Flattens ==
  ASSUME NEW T, NEW s \in Seq(Seq(T)), NEW c \in Seq(T)
  PROVE  Score!FlattenSeq(s) \in Seq(T) /\ Score!FlattenSeq(Append(s, c)) = Score!FlattenSeq(s) \o c
<1>1. PICK k \in Nat : k = Len(s) /\ DOMAIN s = 1..k
  OBVIOUS
<1>2. PICK r : r = Append(s, c)
  OBVIOUS
<1>3. Len(r) = k + 1 /\ (\A n \in 1..k : r[n] = s[n] /\ s[n] \in Seq(T)) /\ r[k + 1] = c
  BY <1>1, <1>2
<1>4. PICK g : /\ g[1] = r[1] /\ \A i \in 2..k + 1 : g[i] = g[i - 1] \o r[i]
               /\ Score!FlattenSeq(r) = g[k + 1]
  <2>1. k + 1 \in Nat \ {0}
    OBVIOUS
  <2> QED
    BY <1>3, <2>1, FlatSteps
<1>5. CASE k = 0
  <2>1. s = << >> /\ Score!FlattenSeq(s) = s
    BY <1>1, <1>5 DEF Score!FlattenSeq
  <2>2. Score!FlattenSeq(r) = c
    BY <1>3, <1>4, <1>5
  <2>3. << >> \o c = c /\ << >> \in Seq(T)
    OBVIOUS
  <2> QED
    BY <1>2, <2>1, <2>2, <2>3
<1>6. CASE k # 0
  <2>1. PICK f : /\ f[1] = s[1] /\ \A i \in 2..k : f[i] = f[i - 1] \o s[i]
                 /\ Score!FlattenSeq(s) = f[k]
    <3>1. k \in Nat \ {0} /\ Len(s) = k
      BY <1>1, <1>6
    <3> QED
      BY <3>1, FlatSteps
  <2> DEFINE A == {n \in Nat : n + 1 <= k => f[n + 1] \in Seq(T) /\ g[n + 1] = f[n + 1]}
  <2>2. 0 \in A
    BY <1>3, <1>4, <2>1
  <2>3. ASSUME NEW n \in Nat, n < k, n \in A PROVE n + 1 \in A
    <3> SUFFICES ASSUME (n + 1) + 1 <= k PROVE f[(n + 1) + 1] \in Seq(T) /\ g[(n + 1) + 1] = f[(n + 1) + 1]
      OBVIOUS
    <3>1. PICK m : m = (n + 1) + 1
      OBVIOUS
    <3>2. m \in 2..k /\ m \in 2..k + 1 /\ m \in 1..k /\ m - 1 = n + 1
      BY <3>1
    <3>3. f[m] = f[n + 1] \o s[m] /\ g[m] = g[n + 1] \o s[m] /\ s[m] \in Seq(T)
      BY <1>3, <1>4, <2>1, <3>2
    <3>4. f[n + 1] \in Seq(T) /\ g[n + 1] = f[n + 1]
      BY <2>3
    <3> QED
      BY <3>1, <3>3, <3>4
  <2>4. k - 1 \in A
    <3>1. \A n \in 0..k : n \in A
      <4> HIDE DEF A
      <4> QED
        BY <2>2, <2>3, InductTo
    <3>2. k - 1 \in 0..k
      BY <1>6
    <3> HIDE DEF A
    <3> QED
      BY <3>1, <3>2
  <2>5. f[k] \in Seq(T) /\ g[k] = f[k]
    BY <1>6, <2>4
  <2>6. g[k + 1] = g[k] \o c
    <3>1. k + 1 \in 2..k + 1 /\ (k + 1) - 1 = k
      BY <1>6
    <3> QED
      BY <1>3, <1>4, <3>1
  <2> QED
    BY <1>2, <1>4, <2>1, <2>5, <2>6
<1> QED
  BY <1>5, <1>6

(* Scoring: a paragraph is cut into fragments that each fit a chunk.        *)
Length == 0..MaxChars

LEMMA Parts ==
  ASSUME NEW n \in Nat, NEW b \in Nat \ {0}
  PROVE  LET q == Score!CeilDiv(n, b) IN q \in Nat /\ (n > 0 => 0 < n - (q - 1) * b) /\ n - (q - 1) * b <= b /\ (q > 0 => n > 0)
<1>1. PICK q, d : q = Score!CeilDiv(n, b) /\ d = n + b - 1
  OBVIOUS
<1>2. q = d \div b /\ d \in Nat
  BY <1>1 DEF Score!CeilDiv
<1>3. q \in Int /\ q * b <= d /\ d < q * b + b
  BY <1>2, Z3
<1>4. q >= 0 /\ (q > 0 => n > 0)
  BY <1>1, <1>2, Z3
<1>5. (q - 1) * b = q * b - b
  BY <1>3, Z3
<1>6. PICK qb : qb = q * b /\ qb \in Int
  BY <1>3
<1>7. n - (q - 1) * b = n - qb + b
  BY <1>5, <1>6
<1>8. 0 < n - qb + b /\ n - qb + b <= b
  BY <1>1, <1>3, <1>6
<1> QED
  BY <1>1, <1>3, <1>4, <1>7, <1>8

LEMMA FragmentsFit ==
  ASSUME NEW n \in Nat
  PROVE  Score!ParagraphFragments(n) \in Seq(Length)
<1>1. MaxChars \in Nat /\ Prefix \in Nat /\ SmallLimit \in Nat /\ MaxChars > Prefix + SmallLimit
  BY ScoringAssumption
<1>2. PICK b \in Nat \ {0} : b = Score!PartLimit /\ b = MaxChars - Prefix
  BY <1>1 DEF Score!PartLimit
<1>3. PICK q : q = Score!CeilDiv(n, b)
  OBVIOUS
<1>4. q \in Nat /\ (n > 0 => 0 < n - (q - 1) * b) /\ n - (q - 1) * b <= b /\ (q > 0 => n > 0)
  BY <1>3, Parts
<1>5. PICK rest : rest = n - (q - 1) * b
  OBVIOUS
<1>6. rest \in Int /\ (q > 0 => rest > 0) /\ rest <= b
  BY <1>4, <1>5
<1>7. Score!ParagraphFragments(n) = [i \in 1..q |-> Prefix + IF i < q THEN b ELSE rest]
  BY <1>2, <1>3, <1>5 DEF Score!ParagraphFragments
<1>8. \A i \in 1..q : (Prefix + IF i < q THEN b ELSE rest) \in Length
  BY <1>1, <1>2, <1>4, <1>6 DEF Length
<1> QED
  BY <1>4, <1>7, <1>8

LEMMA Fragmented ==
  ASSUME NEW p \in Papers
  PROVE  Score!Fragments(p) \in Seq(Length)
<1>1. p.paragraphs \in Seq(Nat)
  BY ScoringAssumption
<1>2. PICK s : s = [i \in DOMAIN p.paragraphs |-> Score!ParagraphFragments(p.paragraphs[i])]
  OBVIOUS
<1>3. s \in Seq(Seq(Length))
  <2>1. PICK k \in Nat : DOMAIN p.paragraphs = 1..k /\ \A i \in 1..k : p.paragraphs[i] \in Nat
    BY <1>1
  <2>2. \A i \in 1..k : Score!ParagraphFragments(p.paragraphs[i]) \in Seq(Length)
    BY <2>1, FragmentsFit
  <2> QED
    BY <1>2, <2>1, <2>2
<1>4. << >> \in Seq(Length)
  OBVIOUS
<1>5. Score!FlattenSeq(s) \in Seq(Length)
  BY <1>3, <1>4, Flattens
<1> QED
  BY <1>2, <1>5 DEF Score!Fragments

(* Scoring: chunks with something in them, none longer than the limit.      *)
Pieces(done) ==
  /\ done \in Seq(Seq(Length))
  /\ \A i \in DOMAIN done : done[i] # << >> /\ Score!Joined(done[i]) <= MaxChars

LEMMA Lengths ==
  /\ MaxChars \in Nat /\ \A f \in Length : f \in Nat /\ f <= MaxChars
  /\ \A s \in Seq(Length) : s \in Seq(Nat)
<1>1. MaxChars \in Nat
  BY ScoringAssumption
<1> QED
  BY <1>1 DEF Length

LEMMA OnePieceMore ==
  ASSUME NEW done, Pieces(done), NEW c \in Seq(Length), c # << >>, Score!Joined(c) <= MaxChars
  PROVE  Pieces(Append(done, c))
<1>1. done \in Seq(Seq(Length)) /\ Append(done, c) \in Seq(Seq(Length))
  BY DEF Pieces
<1>2. PICK r : r = Append(done, c)
  OBVIOUS
<1>3. \A i \in DOMAIN r : r[i] = c \/ (i \in DOMAIN done /\ r[i] = done[i])
  <2>1. PICK k \in Nat : k = Len(done) /\ DOMAIN done = 1..k
    BY <1>1
  <2>2. DOMAIN r = 1..k + 1 /\ r[k + 1] = c /\ \A i \in 1..k : r[i] = done[i]
    BY <1>1, <1>2, <2>1
  <2>3. \A i \in 1..k + 1 : i = k + 1 \/ i \in 1..k
    OBVIOUS
  <2> QED
    BY <2>1, <2>2, <2>3
<1> QED
  BY <1>1, <1>2, <1>3 DEF Pieces

LEMMA PlacedSound ==
  ASSUME NEW done, Pieces(done), NEW f \in Length, NEW t
  PROVE  /\ Pieces(Score!Place(done, f, t))
         /\ Score!FlattenSeq(Score!Place(done, f, t)) = Append(Score!FlattenSeq(done), f)
<1>0. f \in Nat /\ f <= MaxChars /\ MaxChars \in Nat
  BY Lengths
<1>1. done \in Seq(Seq(Length)) /\ <<f>> \in Seq(Length)
  BY DEF Pieces
<1>2. CASE Score!Place(done, f, t) = Append(done, <<f>>)
  <2>1. Score!Joined(<<f>>) <= MaxChars /\ <<f>> # << >>
    BY <1>0, JoinedOne
  <2>2. Pieces(Append(done, <<f>>))
    BY <1>1, <2>1, OnePieceMore
  <2>3. Score!FlattenSeq(done) \in Seq(Length) /\ Score!FlattenSeq(Append(done, <<f>>)) = Score!FlattenSeq(done) \o <<f>>
    BY <1>1, Flattens
  <2>4. \A s \in Seq(Length) : s \o <<f>> = Append(s, f)
    OBVIOUS
  <2> QED
    BY <1>2, <2>2, <2>3, <2>4
<1>3. CASE /\ done # << >> /\ Score!Fits(Score!Joined(Score!Last(done)), f, t)
           /\ Score!Place(done, f, t) = Score!Front(done) \o <<Append(Score!Last(done), f)>>
  <2>1. PICK k \in Nat \ {0} : k = Len(done) /\ DOMAIN done = 1..k
    BY <1>1, <1>3
  <2>2. PICK d, c : d = SubSeq(done, 1, k - 1) /\ c = done[k]
    OBVIOUS
  <2>3. Score!Front(done) = d /\ Score!Last(done) = c
    BY <2>1, <2>2 DEF Score!Front, Score!Last
  <2>4. d \in Seq(Seq(Length)) /\ c \in Seq(Length) /\ done = Append(d, c)
    BY <1>1, <2>1, <2>2
  <2>5. Pieces(d) /\ c # << >>
    <3>1. \A i \in DOMAIN d : i \in DOMAIN done /\ d[i] = done[i]
      BY <1>1, <2>1, <2>2
    <3>2. k \in DOMAIN done
      BY <2>1
    <3> QED
      BY <2>2, <2>4, <3>1, <3>2 DEF Pieces
  <2>6. PICK e : e = Append(c, f)
    OBVIOUS
  <2>7. e \in Seq(Length) /\ e # << >>
    BY <2>4, <2>6
  <2>8. Score!Joined(e) <= MaxChars
    <3>1. c \in Seq(Nat)
      BY <2>4, Lengths
    <3>2. Score!Joined(c) \in Int /\ Score!Joined(e) = Score!Joined(c) + 2 + f
      BY <1>0, <2>6, <3>1, JoinedMore
    <3>3. Score!Joined(c) + 2 + f <= MaxChars
      BY <1>3, <2>3 DEF Score!Fits
    <3> QED
      BY <3>2, <3>3
  <2>9. Score!Place(done, f, t) = Append(d, e)
    BY <1>3, <2>3, <2>4, <2>6
  <2>10. Pieces(Append(d, e))
    BY <2>5, <2>7, <2>8, OnePieceMore
  <2>11. /\ Score!FlattenSeq(d) \in Seq(Length)
         /\ Score!FlattenSeq(Append(d, e)) = Score!FlattenSeq(d) \o e
         /\ Score!FlattenSeq(done) = Score!FlattenSeq(d) \o c
    BY <2>4, <2>7, Flattens
  <2>12. \A s \in Seq(Length) : s \o Append(c, f) = Append(s \o c, f)
    BY <2>4
  <2> QED
    BY <2>6, <2>9, <2>10, <2>11, <2>12
<1> QED
  BY <1>2, <1>3 DEF Score!Place

LEMMA SplitWhole ==
  ASSUME NEW s \in Seq(Length)
  PROVE  Pieces(Score!SplitArticleChunks(s)) /\ Score!FlattenSeq(Score!SplitArticleChunks(s)) = s
<1>1. PICK k \in Nat : k = Len(s) /\ DOMAIN s = 1..k
  OBVIOUS
<1>2. PICK t : t = Score!TargetChars(s)
  OBVIOUS
<1> DEFINE Eq(it) == it = [x \in SUBSET (1..k) |-> IF x = {} THEN << >> ELSE Score!Place(it[x \ {Score!Max(x)}], s[Score!Max(x)], t)]
           Eq2(it) == FoldSolves(it, "place", t, << >>, s, 1..k)
<1>3. Score!SplitArticleChunks(s) = (CHOOSE it : Eq(it))[1..k]
  BY <1>1, <1>2 DEF Score!SplitArticleChunks, Score!FoldLeft, Score!MapThenFoldSet
<1>4. ASSUME NEW it PROVE Eq(it) <=> Eq2(it)
  BY DEF FoldSolves, Chosen, Folded
<1>5. Score!SplitArticleChunks(s) = (CHOOSE it : Eq2(it))[1..k]
  <2> HIDE DEF Eq, Eq2
  <2> QED
    BY <1>3, <1>4
<1>6. TheFold("place", t, << >>, s, 1..k) = CHOOSE it : Eq2(it)
  BY DEF TheFold
<1>7. PICK f : LeftFold(f, k, "place", t, << >>, s)
  <2>1. "place" # "sum"
    OBVIOUS
  <2> QED
    BY <2>1, LeftSteps
<1>8. f[0] = << >> /\ (\A n \in 1..k : f[n] = Score!Place(f[n - 1], s[n], t)) /\ Score!SplitArticleChunks(s) = f[k]
  BY <1>5, <1>6, <1>7 DEF LeftFold, Folded
<1> HIDE DEF Eq, Eq2
<1> DEFINE A == {n \in Nat : Pieces(f[n]) /\ Score!FlattenSeq(f[n]) = SubSeq(s, 1, n)}
<1>9. \A n \in 0..k : n \in A
  <2>1. 0 \in A
    <3>1. << >> \in Seq(Seq(Length)) /\ DOMAIN << >> = {} /\ Len(<< >>) = 0 /\ SubSeq(s, 1, 0) = << >>
      OBVIOUS
    <3>2. Pieces(<< >>)
      BY <3>1 DEF Pieces
    <3>3. Score!FlattenSeq(<< >>) = << >>
      BY <3>1 DEF Score!FlattenSeq
    <3> QED
      BY <1>8, <3>1, <3>2, <3>3
  <2>2. ASSUME NEW n \in Nat, n < k, n \in A PROVE n + 1 \in A
    <3>1. n + 1 \in 1..k /\ (n + 1) - 1 = n
      BY <2>2
    <3>2. f[n + 1] = Score!Place(f[n], s[n + 1], t) /\ s[n + 1] \in Length
      BY <1>1, <1>8, <3>1
    <3>3. Pieces(f[n + 1]) /\ Score!FlattenSeq(f[n + 1]) = Append(SubSeq(s, 1, n), s[n + 1])
      BY <2>2, <3>2, PlacedSound
    <3>4. Append(SubSeq(s, 1, n), s[n + 1]) = SubSeq(s, 1, n + 1)
      BY <1>1, <3>1
    <3> QED
      BY <3>3, <3>4
  <2> HIDE DEF A
  <2> QED
    BY <2>1, <2>2, InductTo
<1>10. k \in A
  <2> HIDE DEF A
  <2>1. k \in 0..k
    OBVIOUS
  <2> QED
    BY <1>9, <2>1
<1>11. SubSeq(s, 1, k) = s
  BY <1>1
<1> QED
  BY <1>8, <1>10, <1>11

(* Scoring: a weighted mean lies between the lowest and the highest score.  *)
Between(S, a, b, lo, hi) ==
  \A n \in S : a[n] \in Int /\ b[n] \in Nat /\ lo * b[n] <= a[n] /\ a[n] <= hi * b[n]

LEMMA SumsBetween ==
  ASSUME NEW S, IsFiniteSet(S), NEW a, NEW b, NEW lo \in Int, NEW hi \in Int, Between(S, a, b, lo, hi),
         NEW f, FoldSolves(f, "sum", 0, 0, a, S), NEW g, FoldSolves(g, "sum", 0, 0, b, S)
  PROVE  /\ f[S] \in Int /\ g[S] \in Nat /\ lo * g[S] <= f[S] /\ f[S] <= hi * g[S]
         /\ (\E n \in S : b[n] > 0) => g[S] > 0
<1> DEFINE Mean(s) == /\ f[s] \in Int /\ g[s] \in Nat /\ lo * g[s] <= f[s] /\ f[s] <= hi * g[s]
                      /\ \A n \in s : b[n] <= g[s]
           A == {n \in Nat : \A s \in SUBSET S : Cardinality(s) <= n => Mean(s)}
<1>0. \A s \in SUBSET S : IsFiniteSet(s) /\ Cardinality(s) \in Nat /\ (Cardinality(s) = 0 => s = {})
  BY FS_Subset, FS_CardinalityType, FS_EmptySet
<1>1. Mean({})
  <2>1. {} \in SUBSET S
    OBVIOUS
  <2>2. f[{}] = 0 /\ g[{}] = 0
    BY <2>1 DEF FoldSolves
  <2>3. lo * 0 = 0 /\ hi * 0 = 0
    BY Z3
  <2> QED
    BY <2>2, <2>3
<1>2. 0 \in A
  <2>1. \A s \in SUBSET S : Cardinality(s) <= 0 => s = {}
    BY <1>0
  <2> HIDE DEF Mean
  <2> QED
    BY <1>1, <2>1
<1>3. ASSUME NEW n \in Nat, n \in A PROVE n + 1 \in A
  <2> SUFFICES ASSUME NEW s \in SUBSET S, s # {}, Cardinality(s) <= n + 1 PROVE Mean(s)
    <3> HIDE DEF Mean
    <3> QED
      BY <1>1
  <2>1. PICK c, r : c = (CHOOSE x \in s : TRUE) /\ r = s \ {c}
    OBVIOUS
  <2>2. c \in s /\ c \in S
    BY <2>1
  <2>3. r \in SUBSET S /\ Cardinality(r) <= n
    <3>1. Cardinality(r) = Cardinality(s) - 1
      BY <1>0, <2>1, <2>2, FS_RemoveElement
    <3>2. Cardinality(s) \in Nat
      BY <1>0
    <3> QED
      BY <2>1, <3>1, <3>2
  <2>4. Mean(r)
    <3> HIDE DEF Mean
    <3> QED
      BY <1>3, <2>3
  <2>5. f[s] = a[c] + f[r] /\ g[s] = b[c] + g[r]
    <3>1. Chosen("sum", s) = c /\ s \ {Chosen("sum", s)} = r
      BY <2>1 DEF Chosen
    <3>2. \A acc, data, x : Folded("sum", 0, acc, data, x) = data[x] + acc
      BY DEF Folded
    <3>3. f[s] = Folded("sum", 0, f[s \ {Chosen("sum", s)}], a, Chosen("sum", s))
      BY DEF FoldSolves
    <3>4. g[s] = Folded("sum", 0, g[s \ {Chosen("sum", s)}], b, Chosen("sum", s))
      BY DEF FoldSolves
    <3>5. f[s] = Folded("sum", 0, f[r], a, c) /\ g[s] = Folded("sum", 0, g[r], b, c)
      BY <3>1, <3>3, <3>4
    <3> QED
      BY <3>2, <3>5
  <2>6. a[c] \in Int /\ b[c] \in Nat /\ lo * b[c] <= a[c] /\ a[c] <= hi * b[c]
    BY <2>2 DEF Between
  <2>7. PICK x \in Int, y \in Nat, p \in Int, q \in Nat : x = a[c] /\ y = b[c] /\ p = f[r] /\ q = g[r]
    BY <2>4, <2>6
  <2>8. lo * (y + q) = lo * y + lo * q /\ hi * (y + q) = hi * y + hi * q
    BY Z3
  <2>9. lo * y \in Int /\ lo * q \in Int /\ hi * y \in Int /\ hi * q \in Int
    OBVIOUS
  <2>10. lo * y <= x /\ x <= hi * y /\ lo * q <= p /\ p <= hi * q
    BY <2>4, <2>6, <2>7
  <2>11. lo * (y + q) <= x + p /\ x + p <= hi * (y + q)
    BY <2>8, <2>9, <2>10
  <2>12. f[s] = x + p /\ g[s] = y + q
    BY <2>5, <2>7
  <2>13. \A m \in s : b[m] <= g[s]
    <3> SUFFICES ASSUME NEW m \in s PROVE b[m] <= y + q
      BY <2>12
    <3>1. b[m] \in Nat
      BY DEF Between
    <3>2. m = c \/ m \in r
      BY <2>1
    <3>3. m \in r => b[m] <= q
      BY <2>4, <2>7
    <3> QED
      BY <2>7, <3>1, <3>2, <3>3
  <2> QED
    BY <2>11, <2>12, <2>13
<1>4. Nat \subseteq A
  <2> HIDE DEF A
  <2> QED
    BY <1>2, <1>3, Induct
<1>5. Mean(S)
  <2> HIDE DEF Mean
  <2> QED
    BY <1>0, <1>4
<1>6. (\E n \in S : b[n] > 0) => g[S] > 0
  BY <1>5 DEF Between
<1> QED
  BY <1>5, <1>6

LEMMA Quotient ==
  ASSUME NEW a \in Int, NEW b \in Nat, b > 0, NEW lo \in Int, NEW hi \in Int, lo * b <= a, a <= hi * b
  PROVE  a \div b \in Int /\ lo <= a \div b /\ a \div b <= hi
BY Z3

LEMMA SumsExist ==
  ASSUME NEW data
  PROVE  FoldSolves(TheFold("sum", 0, 0, data, Names), "sum", 0, 0, data, Names)
<1>1. IsFiniteSet(Names)
  BY ScoringAssumption
<1>2. \A s \in SUBSET Names : s # {} => Chosen("sum", s) \in s
  BY DEF Chosen
<1> QED
  BY <1>1, <1>2, FoldsExist

LEMMA ScoreWeighed ==
  ASSUME NEW dims \in [Names -> 0..100], NEW type \in Types
  PROVE  LET scores == {dims[n] : n \in Names} IN
         /\ scores \subseteq 0..100
         /\ Score!WeightedScore(dims, type) \in Nat
         /\ Score!Min(scores) <= Score!WeightedScore(dims, type)
         /\ Score!WeightedScore(dims, type) <= Score!Max(scores)
<1>1. PICK scores : scores = {dims[n] : n \in Names}
  OBVIOUS
<1>2. scores \subseteq 0..100 /\ scores # {} /\ IsFiniteSet(scores)
  <2>1. scores \subseteq 0..100 /\ scores # {}
    <3>1. PICK m \in Names : TRUE
      BY ScoringAssumption
    <3>2. \A n \in Names : dims[n] \in 0..100
      OBVIOUS
    <3> QED
      BY <1>1, <3>1, <3>2
  <2>2. IsFiniteSet(0..100)
    <3>1. 0 \in Int /\ 100 \in Int
      OBVIOUS
    <3> QED
      BY <3>1, FS_Interval
  <2> QED
    BY <2>1, <2>2, FS_Subset
<1>3. PICK lo \in 0..100, hi \in 0..100 :
        /\ lo = Score!Min(scores) /\ hi = Score!Max(scores)
        /\ \A y \in scores : lo <= y /\ y <= hi
  <2>1. scores \in SUBSET Int
    BY <1>2
  <2> QED
    BY <1>2, <2>1, Extremes, Zenon
<1> DEFINE a == [n \in Names |-> dims[n] * Weights[type][n]]
           b == [n \in Names |-> Weights[type][n]]
<1>4. Between(Names, a, b, lo, hi) /\ \E n \in Names : b[n] > 0
  <2>1. \A n \in Names : Weights[type][n] \in Nat
    BY ScoringAssumption
  <2>2. \E n \in Names : Weights[type][n] > 0
    BY ScoringAssumption
  <2>3. ASSUME NEW n \in Names
        PROVE  LET w == Weights[type][n] IN
               dims[n] * w \in Int /\ lo * w <= dims[n] * w /\ dims[n] * w <= hi * w
    <3>1. PICK w \in Nat, d \in 0..100 : w = Weights[type][n] /\ d = dims[n]
      BY <2>1
    <3>2. lo <= d /\ d <= hi
      BY <1>1, <1>3, <3>1
    <3>3. d * w \in Int /\ lo * w <= d * w /\ d * w <= hi * w
      BY <3>2, Z3
    <3> QED
      BY <3>1, <3>3
  <2> QED
    BY <2>1, <2>2, <2>3 DEF Between
<1>5. PICK f, g : f = TheFold("sum", 0, 0, a, Names) /\ g = TheFold("sum", 0, 0, b, Names)
  OBVIOUS
<1>6. FoldSolves(f, "sum", 0, 0, a, Names) /\ FoldSolves(g, "sum", 0, 0, b, Names)
  BY <1>5, SumsExist
<1>7. f[Names] \in Int /\ g[Names] \in Nat /\ lo * g[Names] <= f[Names] /\ f[Names] <= hi * g[Names] /\ g[Names] > 0
  <2>1. IsFiniteSet(Names) /\ lo \in Int /\ hi \in Int
    BY ScoringAssumption
  <2> HIDE DEF a, b
  <2> QED
    BY <1>4, <1>6, <2>1, SumsBetween
<1>8. PICK q : q = f[Names] \div g[Names]
  OBVIOUS
<1>9. q \in Int /\ lo <= q /\ q <= hi
  BY <1>7, <1>8, Quotient
<1>10. Score!WeightedScore(dims, type) = Score!Clamp(q)
  <2> DEFINE OneOf(s) == CHOOSE x \in s : TRUE
             d(n) == dims[n] * Weights[type][n]
             e(n) == Weights[type][n]
             EqA(it) == it = [s \in SUBSET Names |-> IF s = {} THEN 0
                              ELSE d(OneOf(s)) + it[s \ {OneOf(s)}]]
             EqB(it) == it = [s \in SUBSET Names |-> IF s = {} THEN 0
                              ELSE e(OneOf(s)) + it[s \ {OneOf(s)}]]
             FA(it) == FoldSolves(it, "sum", 0, 0, a, Names)
             FB(it) == FoldSolves(it, "sum", 0, 0, b, Names)
  <2>1. Score!WeightedScore(dims, type)
          = Score!Clamp((CHOOSE it : EqA(it))[Names] \div (CHOOSE it : EqB(it))[Names])
    BY DEF Score!WeightedScore, Score!MapThenSumSet, Score!MapThenFoldSet
  <2>2. \A s \in SUBSET Names : s # {} =>
          Chosen("sum", s) = OneOf(s) /\ d(OneOf(s)) = a[OneOf(s)] /\ e(OneOf(s)) = b[OneOf(s)]
    <3>1. \A s : Chosen("sum", s) = OneOf(s)
      BY DEF Chosen
    <3>2. \A s \in SUBSET Names : s # {} => OneOf(s) \in Names
      OBVIOUS
    <3>3. \A n \in Names : d(n) = a[n] /\ e(n) = b[n]
      OBVIOUS
    <3> HIDE DEF a, b, d, e, OneOf
    <3> QED
      BY <3>1, <3>2, <3>3
  <2>3. \A acc, data, x : Folded("sum", 0, acc, data, x) = data[x] + acc
    BY DEF Folded
  <2> HIDE DEF a, b, d, e, OneOf
  <2>4. ASSUME NEW it PROVE EqA(it) <=> FA(it)
    <3>1. \A s \in SUBSET Names : s # {} =>
            d(OneOf(s)) + it[s \ {OneOf(s)}]
              = Folded("sum", 0, it[s \ {Chosen("sum", s)}], a, Chosen("sum", s))
      BY <2>2, <2>3
    <3> QED
      BY <3>1 DEF FoldSolves
  <2>5. ASSUME NEW it PROVE EqB(it) <=> FB(it)
    <3>1. \A s \in SUBSET Names : s # {} =>
            e(OneOf(s)) + it[s \ {OneOf(s)}]
              = Folded("sum", 0, it[s \ {Chosen("sum", s)}], b, Chosen("sum", s))
      BY <2>2, <2>3
    <3> QED
      BY <3>1 DEF FoldSolves
  <2>6. TheFold("sum", 0, 0, a, Names) = (CHOOSE it : FA(it)) /\ TheFold("sum", 0, 0, b, Names) = (CHOOSE it : FB(it))
    BY DEF TheFold
  <2> HIDE DEF EqA, EqB, FA, FB
  <2>7. (CHOOSE it : EqA(it)) = (CHOOSE it : FA(it)) /\ (CHOOSE it : EqB(it)) = (CHOOSE it : FB(it))
    BY <2>4, <2>5
  <2> QED
    BY <1>5, <1>8, <2>1, <2>6, <2>7
<1>11. Score!Clamp(q) = q /\ q \in Nat
  BY <1>9 DEF Score!Clamp
<1> QED
  BY <1>1, <1>2, <1>3, <1>9, <1>10, <1>11

(* Scoring: the type in force is the last one that the model named.         *)
LastType(s) ==
  LET known == {i \in DOMAIN s : s[i] \in Types} IN
  IF known = {} THEN Expository ELSE s[Score!Max(known)]

LEMMA TypeHeard ==
  ASSUME NEW X, NEW s \in Seq(X), NEW type \in X
  PROVE  /\ LastType(s) \in Types
         /\ LastType(Append(s, type)) = Score!NormalizeType(type, LastType(s))
<1> DEFINE known == {i \in DOMAIN s : s[i] \in Types}
<1>1. PICK k \in Nat : k = Len(s) /\ DOMAIN s = 1..k
  OBVIOUS
<1>2. PICK r : r = Append(s, type)
  OBVIOUS
<1>3. DOMAIN r = 1..k + 1 /\ r[k + 1] = type /\ \A i \in 1..k : r[i] = s[i]
  BY <1>1, <1>2
<1> DEFINE next == {i \in DOMAIN r : r[i] \in Types}
<1>4. /\ known \in SUBSET (1..k) /\ next \in SUBSET (1..k + 1) /\ \A i \in 1..k : i \in known <=> i \in next
      /\ k + 1 \in next <=> type \in Types
  <2>1. k + 1 \in 1..k + 1 /\ \A i \in 1..k : i \in 1..k + 1
    OBVIOUS
  <2> QED
    BY <1>1, <1>3, <2>1
<1>5. \A m \in Nat : \A t \in SUBSET (1..m) : t # {} => Score!Max(t) \in t /\ \A y \in t : Score!Max(t) >= y
  <2> SUFFICES ASSUME NEW m \in Nat, NEW t \in SUBSET (1..m), t # {}
               PROVE  Score!Max(t) \in t /\ \A y \in t : Score!Max(t) >= y
    OBVIOUS
  <2>1. IsFiniteSet(1..m)
    BY FS_Interval
  <2>2. IsFiniteSet(t)
    BY <2>1, FS_Subset
  <2>3. t \in SUBSET Int
    OBVIOUS
  <2> QED
    BY <2>2, <2>3, Extremes
<1>6. LastType(s) = (IF known = {} THEN Expository ELSE s[Score!Max(known)]) /\ LastType(r) = IF next = {} THEN Expository ELSE r[Score!Max(next)]
  BY DEF LastType
<1>7. LastType(s) \in Types
  <2>1. known # {} => Score!Max(known) \in known
    <3> HIDE DEF known
    <3> QED
      BY <1>4, <1>5
  <2> QED
    BY <1>6, <2>1, ScoringAssumption
<1>8. CASE type \in Types
  <2>1. k + 1 \in next /\ next # {}
    BY <1>4, <1>8
  <2>2. Score!Max(next) \in next /\ \A y \in next : Score!Max(next) >= y
    <3> HIDE DEF next
    <3>1. k + 1 \in Nat
      OBVIOUS
    <3> QED
      BY <1>4, <1>5, <2>1, <3>1
  <2>3. Score!Max(next) = k + 1
    <3> HIDE DEF next
    <3>1. PICK m : m = Score!Max(next)
      OBVIOUS
    <3>2. m \in 1..k + 1 /\ m >= k + 1
      BY <1>4, <2>1, <2>2, <3>1
    <3> QED
      BY <3>1, <3>2
  <2>4. LastType(r) = type
    <3> HIDE DEF next
    <3> QED
      BY <1>3, <1>6, <2>1, <2>3
  <2> QED
    BY <1>2, <1>7, <1>8, <2>4 DEF Score!NormalizeType
<1>9. CASE type \notin Types
  <2>1. next = known
    <3> HIDE DEF next, known
    <3>1. \A i \in 1..k + 1 : i = k + 1 \/ i \in 1..k
      OBVIOUS
    <3>2. \A i \in 1..k : i \in 1..k + 1
      OBVIOUS
    <3>3. k + 1 \notin known
      BY <1>4
    <3> QED
      BY <1>4, <1>9, <3>1, <3>2, <3>3
  <2>2. known # {} => Score!Max(known) \in 1..k
    <3> HIDE DEF known
    <3> QED
      BY <1>4, <1>5
  <2>3. LastType(r) = LastType(s)
    <3> HIDE DEF known, next
    <3> QED
      BY <1>3, <1>6, <2>1, <2>2
  <2> QED
    BY <1>2, <1>7, <1>9, <2>3 DEF Score!NormalizeType
<1> QED
  BY <1>8, <1>9

LEMMA NothingHeard ==
  /\ LastType(<< >>) = Expository
  /\ \A type : Score!NormalizeType(type, Failure) = Score!NormalizeType(type, Expository)
<1>1. DOMAIN << >> = {}
  OBVIOUS
<1> QED
  BY <1>1, ScoringAssumption DEF LastType, Score!NormalizeType

(* Scoring: what a reply is worth.                                          *)
FairTotal(final) ==
  LET scores == {final.dims[n] : n \in Names} IN
  /\ scores \subseteq 0..100
  /\ Score!Min(scores) <= final.total /\ final.total <= Score!Max(scores)
  /\ final.issues <= Score!IssueMax(final.total)

LEMMA ReplyFair ==
  ASSUME NEW reply \in Replies, NEW type
  PROVE  /\ Score!NormalizeFinal(reply, type).type = Score!NormalizeType(reply.type, type)
         /\ FairTotal(Score!NormalizeFinal(reply, type))
<1>1. PICK final, dims, kinds, score :
        /\ final = Score!NormalizeFinal(reply, type) /\ dims = Score!Dimensions(reply.dims)
        /\ kinds = Score!NormalizeType(reply.type, type) /\ score = Score!WeightedScore(dims, kinds)
  OBVIOUS
<1>2. final.type = kinds /\ final.dims = dims /\ final.total = score /\ final.issues = Score!LimitIssues(reply.issues, score)
  BY <1>1 DEF Score!NormalizeFinal
<1>3. dims \in [Names -> 0..100]
  <2>1. \A n \in DOMAIN reply.dims : reply.dims[n] \in Int
    BY ScoringAssumption
  <2>2. \A n \in Int : Score!Clamp(n) \in 0..100
    BY DEF Score!Clamp
  <2> QED
    BY <1>1, <2>1, <2>2 DEF Score!Dimensions
<1>4. kinds \in Types
  BY <1>1, ScoringAssumption DEF Score!NormalizeType
<1>5. PICK scores : scores = {dims[n] : n \in Names}
  OBVIOUS
<1>6. scores \subseteq 0..100 /\ score \in Nat /\ Score!Min(scores) <= score /\ score <= Score!Max(scores)
  BY <1>1, <1>3, <1>4, <1>5, ScoreWeighed
<1>7. final.issues <= Score!IssueMax(score)
  <2>1. reply.issues \in Nat /\ MaxIssues \in Nat /\ Score!IssueMax(score) \in Nat
    BY ScoringAssumption DEF Score!IssueMax
  <2>2. PICK s : s = {reply.issues, Score!IssueMax(score), MaxIssues}
    OBVIOUS
  <2>3. s \in SUBSET Int /\ s # {} /\ Score!IssueMax(score) \in s
    BY <2>1, <2>2
  <2>4. IsFiniteSet(s)
    <3>1. s = (({} \cup {reply.issues}) \cup {Score!IssueMax(score)}) \cup {MaxIssues}
      BY <2>2
    <3> QED
      BY <3>1, FS_EmptySet, FS_AddElement
  <2>5. Score!Min(s) <= Score!IssueMax(score)
    BY <2>3, <2>4, Extremes
  <2> QED
    BY <1>2, <2>2, <2>5 DEF Score!LimitIssues
<1> QED
  BY <1>1, <1>2, <1>5, <1>6, <1>7 DEF FairTotal

(* Scoring: how far an article has been read, and what was heard of it.     *)
Read(s) == s \in Seq(Seq(Length)) /\ Len(s) <= Len(chunks) /\ \A i \in 1..Len(s) : s[i] = chunks[i]

Reading ==
  /\ Pieces(chunks) /\ paper \in Papers
  /\ chunks # << >> => Score!FlattenSeq(chunks) = Score!Fragments(paper)
  /\ said \in Seq({reply.type : reply \in Replies})
  /\ pc \in {"start", "short"} => chunks = << >>
  /\ pc \in {"start", "short", "first"} => sent = << >> /\ said = << >>
  /\ pc \in {"first", "middle"} => chunks # << >>
  /\ pc = "middle" => /\ Read(sent) /\ sent # << >> /\ kind = LastType(said)
                      /\ Len(chunks) > 1 => Len(sent) < Len(chunks)
  /\ Len(chunks) > 1 => Read(sent) /\ (pc = "scored" => sent = chunks)

ScoringInv == Score!ScoringTypeOK /\ Reading /\ Score!ScoreFair

LEMMA ScoringTells == ScoringInv => Score!ScoringSound
<1> SUFFICES ASSUME Reading PROVE Score!ChunksWhole
  BY DEF ScoringInv, Score!ScoringSound
<1>1. \A i \in DOMAIN chunks : Score!Joined(chunks[i]) <= MaxChars
  BY DEF Reading, Pieces
<1>2. Read(sent) => Score!IsPrefix(sent, chunks)
  <2> SUFFICES ASSUME Read(sent) PROVE Score!IsPrefix(sent, chunks)
    OBVIOUS
  <2>1. chunks \in Seq(Seq(Length)) /\ sent \in Seq(Seq(Length))
    BY DEF Reading, Pieces, Read
  <2>2. PICK n \in Nat : n = Len(sent) /\ n <= Len(chunks) /\ \A i \in 1..n : sent[i] = chunks[i]
    <3>1. Len(sent) \in Nat
      BY <2>1
    <3> QED
      BY <3>1 DEF Read
  <2>3. SubSeq(sent, 1, n) = SubSeq(chunks, 1, n)
    BY <2>1, <2>2
  <2> QED
    BY <2>2, <2>3 DEF Score!IsPrefix
<1> QED
  BY <1>1, <1>2 DEF Reading, Score!ChunksWhole

LEMMA ScoringStarts == Score!ScoringInit => ScoringInv
<1> SUFFICES ASSUME Score!ScoringInit PROVE ScoringInv
  OBVIOUS
<1>1. Score!ScoringTypeOK /\ Score!ScoreFair
  BY DEF Score!ScoringInit, Score!ScoringTypeOK, Score!ScoreFair
<1>2. Pieces(<< >>) /\ Len(<< >>) = 0
  BY DEF Pieces
<1>3. Reading
  BY <1>2 DEF Score!ScoringInit, Reading
<1> QED
  BY <1>1, <1>3 DEF ScoringInv

LEMMA Cut ==
  ASSUME Score!ScoringTypeOK, Reading, Score!ScoreArticleQuality
  PROVE  Reading'
<1>1. /\ pc = "start" /\ UNCHANGED <<paper, sent, said, kind>> /\ pc' \in {"failed", "short", "first"}
      /\ \/ pc' # "first" /\ chunks' = chunks
         \/ chunks' = Score!SplitArticleChunks(Score!Fragments(paper)) /\ (pc' = "first" => chunks' # << >>) /\ pc' # "short"
  BY DEF Score!ScoreArticleQuality
<1>2. chunks = << >> /\ sent = << >> /\ said = << >> /\ paper \in Papers /\ Pieces(chunks)
  BY <1>1 DEF Reading
<1>3. Pieces(chunks') /\ (chunks' # << >> => Score!FlattenSeq(chunks') = Score!Fragments(paper))
  BY <1>1, <1>2, Fragmented, SplitWhole
<1>4. Read(sent)'
  <2>1. chunks' \in Seq(Seq(Length)) /\ Len(<< >>) = 0 /\ << >> \in Seq(Seq(Length))
    BY <1>3 DEF Pieces
  <2> QED
    BY <1>1, <1>2, <2>1 DEF Read
<1> QED
  BY <1>1, <1>2, <1>3, <1>4 DEF Reading, Pieces

LEMMA ReadOn ==
  ASSUME Reading, NEW i \in Nat, i = Len(sent) + 1, Read(sent), i <= Len(chunks), UNCHANGED chunks,
         sent' = Append(sent, chunks[i])
  PROVE  Read(sent)' /\ sent' # << >> /\ Len(sent') = i
<1>1. sent \in Seq(Seq(Length)) /\ chunks \in Seq(Seq(Length))
  BY DEF Read, Reading, Pieces
<1>2. PICK n \in Nat : n = Len(sent) /\ i = n + 1
  BY <1>1
<1>3. chunks[i] \in Seq(Length)
  BY <1>1, <1>2
<1>4. sent' \in Seq(Seq(Length)) /\ Len(sent') = i /\ sent'[i] = chunks[i] /\ \A j \in 1..n : sent'[j] = sent[j]
  BY <1>1, <1>2, <1>3
<1>5. \A j \in 1..i : j = i \/ j \in 1..n
  BY <1>2
<1>6. \A j \in 1..i : sent'[j] = chunks[j]
  BY <1>2, <1>4, <1>5 DEF Read
<1> QED
  BY <1>1, <1>2, <1>4, <1>6 DEF Read

LEMMA ChunkRead ==
  ASSUME Score!ScoringTypeOK, Reading, NEW reply \in Replies, Score!FirstChunk(reply) \/ Score!MiddleChunk(reply)
  PROVE  Reading'
<1>1. /\ pc \in {"first", "middle"} /\ pc' = "middle" /\ UNCHANGED <<paper, chunks>>
      /\ said' = Append(said, reply.type) /\ sent' = Append(sent, chunks[Len(sent) + 1])
      /\ pc = "middle" => Len(sent) < Len(chunks) - 1 /\ kind' = Score!NormalizeType(reply.type, kind)
      /\ pc = "first" => kind' = Score!NormalizeType(reply.type, Failure)
  <2>1. pc = "first" => Len(sent) + 1 = 1
    <3>1. Len(<< >>) + 1 = 1
      OBVIOUS
    <3> QED
      BY <3>1 DEF Reading
  <2>2. /\ pc = "first" \/ (pc = "middle" /\ Len(sent) < Len(chunks) - 1)
        /\ pc' = "middle" /\ UNCHANGED <<paper, chunks>> /\ said' = Append(said, reply.type)
        /\ pc = "first" => sent' = Append(sent, chunks[1]) /\ kind' = Score!NormalizeType(reply.type, Failure)
        /\ pc = "middle" => /\ sent' = Append(sent, chunks[Len(sent) + 1])
                            /\ kind' = Score!NormalizeType(reply.type, kind)
    BY DEF Score!FirstChunk, Score!MiddleChunk, Score!Chunk, Score!Heard
  <2> QED
    BY <2>1, <2>2
<1>2. Read(sent) /\ Len(sent) \in Nat /\ Len(chunks) \in Nat /\ Len(chunks) > 0
  <2>1. chunks \in Seq(Seq(Length)) /\ chunks # << >>
    BY <1>1 DEF Reading, Pieces
  <2>2. Len(chunks) \in Nat /\ Len(chunks) > 0
    BY <2>1
  <2>3. Read(sent)
    <3>1. << >> \in Seq(Seq(Length)) /\ Len(<< >>) = 0
      OBVIOUS
    <3>2. pc = "first" => sent = << >>
      BY DEF Reading
    <3>3. pc = "middle" => Read(sent)
      BY DEF Reading
    <3>4. Read(<< >>)
      BY <2>2, <3>1 DEF Read
    <3> QED
      BY <1>1, <3>2, <3>3, <3>4
  <2>4. Len(sent) \in Nat
    BY <2>3 DEF Read
  <2> QED
    BY <2>2, <2>3, <2>4
<1>3. Len(sent) + 1 <= Len(chunks) /\ (Len(chunks) > 1 => Len(sent) + 1 < Len(chunks))
  <2>1. pc = "first" => Len(sent) = 0
    <3>1. Len(<< >>) = 0
      OBVIOUS
    <3> QED
      BY <3>1 DEF Reading
  <2> QED
    BY <1>1, <1>2, <2>1
<1>4. Read(sent)' /\ sent' # << >> /\ Len(sent') = Len(sent) + 1
  <2>1. Len(sent) + 1 \in Nat
    BY <1>2
  <2> QED
    BY <1>1, <1>2, <1>3, <2>1, ReadOn
<1>5. kind' = LastType(said') /\ said' \in Seq({r.type : r \in Replies})
  <2>1. said \in Seq({r.type : r \in Replies}) /\ reply.type \in {r.type : r \in Replies}
    BY DEF Reading
  <2>2. LastType(said') = Score!NormalizeType(reply.type, LastType(said))
    BY <1>1, <2>1, TypeHeard
  <2>3. pc = "first" => said = << >>
    BY DEF Reading
  <2>4. pc = "middle" => kind = LastType(said)
    BY DEF Reading
  <2> QED
    BY <1>1, <2>1, <2>2, <2>3, <2>4, NothingHeard
<1>6. Pieces(chunks') /\ paper' \in Papers /\ chunks' # << >> /\ Score!FlattenSeq(chunks') = Score!Fragments(paper')
  BY <1>1 DEF Reading
<1> QED
  BY <1>1, <1>2, <1>3, <1>4, <1>5, <1>6 DEF Reading

LEMMA ScoredFair ==
  ASSUME Reading, NEW reply \in Replies, NEW type, pc' = "scored", result' = Score!NormalizeFinal(reply, type),
         said' = Append(said, reply.type),
         Score!NormalizeType(reply.type, type) = Score!NormalizeType(reply.type, LastType(said))
  PROVE  Score!ScoreFair'
<1>1. said \in Seq({r.type : r \in Replies}) /\ reply.type \in {r.type : r \in Replies}
  BY DEF Reading
<1>2. result'.type = LastType(said')
  <2>1. result'.type = Score!NormalizeType(reply.type, type)
    BY ReplyFair
  <2>2. LastType(said') = Score!NormalizeType(reply.type, LastType(said))
    BY <1>1, TypeHeard
  <2> QED
    BY <2>1, <2>2
<1>3. FairTotal(result')
  BY ReplyFair
<1> QED
  BY <1>2, <1>3 DEF Score!ScoreFair, LastType, FairTotal

LEMMA FinalRead ==
  ASSUME Score!ScoringTypeOK, Reading, NEW reply \in Replies, Score!FinalChunk(reply)
  PROVE  Reading' /\ Score!ScoreFair'
<1>1. /\ pc = "middle" /\ pc' = "scored" /\ UNCHANGED <<paper, chunks, kind>>
      /\ said' = Append(said, reply.type) /\ sent' = Append(sent, chunks[Len(chunks)])
      /\ result' = Score!NormalizeFinal(reply, kind) /\ Len(sent) >= Len(chunks) - 1
  BY DEF Score!FinalChunk, Score!Heard, Score!Last
<1>2. /\ Read(sent) /\ chunks \in Seq(Seq(Length)) /\ chunks # << >> /\ kind = LastType(said)
      /\ Len(chunks) > 1 => Len(sent) < Len(chunks)
  BY <1>1 DEF Reading, Pieces
<1>3. Score!ScoreFair'
  BY <1>1, <1>2, ScoredFair
<1>4. said' \in Seq({r.type : r \in Replies})
  <2>1. said \in Seq({r.type : r \in Replies}) /\ reply.type \in {r.type : r \in Replies}
    BY DEF Reading
  <2> QED
    BY <1>1, <2>1
<1>5. Len(chunks) > 1 => Read(sent)' /\ sent' = chunks
  <2> SUFFICES ASSUME Len(chunks) > 1 PROVE Read(sent)' /\ sent' = chunks
    BY <1>1
  <2>1. Len(sent) \in Nat /\ Len(chunks) \in Nat
    BY <1>2 DEF Read
  <2>2. Len(sent) + 1 = Len(chunks)
    BY <1>1, <1>2, <2>1
  <2>3. Read(sent)' /\ Len(sent') = Len(chunks)
    <3>1. PICK i \in Nat : i = Len(chunks) /\ i = Len(sent) + 1 /\ i <= Len(chunks)
      BY <2>1, <2>2
    <3>2. UNCHANGED chunks /\ sent' = Append(sent, chunks[i])
      BY <1>1, <3>1
    <3> QED
      BY <1>2, <3>1, <3>2, ReadOn
  <2>0. \A T : \A s \in Seq(T), t \in Seq(T) : Len(s) = Len(t) /\ (\A i \in 1..Len(s) : s[i] = t[i]) => s = t
    OBVIOUS
  <2>4. sent' \in Seq(Seq(Length)) /\ \A i \in 1..Len(sent') : sent'[i] = chunks[i]
    BY <1>1, <2>3 DEF Read
  <2>5. sent' = chunks
    <3>1. chunks' = chunks
      BY <1>1
    <3> QED
      BY <1>2, <2>0, <2>3, <2>4
  <2> QED
    BY <2>3, <2>5
<1>6. Pieces(chunks') /\ paper' \in Papers /\ Score!FlattenSeq(chunks') = Score!Fragments(paper')
  BY <1>1, <1>2 DEF Reading
<1> QED
  BY <1>1, <1>3, <1>4, <1>5, <1>6 DEF Reading

LEMMA ShortRead ==
  ASSUME Score!ScoringTypeOK, Reading, NEW reply \in Replies, Score!ShortArticle(reply)
  PROVE  Reading' /\ Score!ScoreFair'
<1>1. /\ pc = "short" /\ pc' = "scored" /\ UNCHANGED <<paper, chunks, kind, sent>>
      /\ said' = Append(said, reply.type) /\ result' = Score!NormalizeFinal(reply, Failure)
  BY DEF Score!ShortArticle, Score!Heard
<1>2. chunks = << >> /\ said = << >> /\ Len(<< >>) = 0
  BY <1>1 DEF Reading
<1>3. Score!ScoreFair'
  BY <1>1, <1>2, NothingHeard, ScoredFair
<1>4. said' \in Seq({r.type : r \in Replies})
  <2>1. said \in Seq({r.type : r \in Replies}) /\ reply.type \in {r.type : r \in Replies}
    BY DEF Reading
  <2> QED
    BY <1>1, <2>1
<1> QED
  BY <1>1, <1>2, <1>3, <1>4 DEF Reading, Pieces

LEMMA ScoringKeeps ==
  ASSUME ScoringInv, Score!ScoringNext \/ UNCHANGED scoreVars
  PROVE  ScoringInv'
<1>1. Score!ScoringTypeOK' /\ Score!ScoringTypeOK /\ Reading
  BY ScoringTyped DEF ScoringInv
<1>2. CASE UNCHANGED scoreVars
  BY <1>2, <1>1 DEF scoreVars, ScoringInv, Reading, Read, Pieces, Score!ScoreFair
<1>3. CASE Score!ScoreArticleQuality
  <2>1. pc' # "scored"
    BY <1>3 DEF Score!ScoreArticleQuality
  <2> QED
    BY <1>1, <1>3, <2>1, Cut DEF ScoringInv, Score!ScoreFair
<1>4. CASE Score!ChatFails
  BY <1>1, <1>4 DEF Score!ChatFails, ScoringInv, Reading, Read, Pieces, Score!ScoreFair
<1>5. ASSUME NEW reply \in Replies, Score!FirstChunk(reply) \/ Score!MiddleChunk(reply) PROVE ScoringInv'
  <2>1. pc' # "scored"
    BY <1>5 DEF Score!FirstChunk, Score!MiddleChunk
  <2> QED
    BY <1>1, <1>5, <2>1, ChunkRead DEF ScoringInv, Score!ScoreFair
<1>6. ASSUME NEW reply \in Replies, Score!FinalChunk(reply) \/ Score!ShortArticle(reply) PROVE ScoringInv'
  BY <1>1, <1>6, FinalRead, ShortRead DEF ScoringInv
<1> QED
  BY <1>2, <1>3, <1>4, <1>5, <1>6 DEF Score!ScoringNext

(* The chunks of an article are the article, none longer than the limit;    *)
(* they are sent in order, to the last; the score is a mean of those that   *)
(* the model gave, whatever it answers and leaves out (splitArticleChunks,  *)
(* scoreLongArticle, normalizeFinalResult).                                 *)
THEOREM ScoresAreSound == AllSpec => []ScoringSound
<1>1. AllInit => ScoringInv
  BY ScoringStarts DEF AllInit
<1>2. ScoringInv /\ [AllNext]_<<part, vars, artVars, searchVars, siteVars, signVars, scoreVars>> => ScoringInv'
  <2>1. AllNext => Score!ScoringNext \/ UNCHANGED scoreVars
    BY Zenon DEF AllNext
  <2> QED
    BY <2>1, ScoringKeeps
<1>3. ScoringInv => ScoringSound
  BY ScoringTells DEF ScoringSound
<1> QED
  BY <1>1, <1>2, <1>3, PTL DEF AllSpec
=============================================================================
