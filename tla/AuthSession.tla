----------------------------- MODULE AuthSession -----------------------------
(***************************************************************************)
(* Sessions and tokens (service/user_service).  A login creates a session  *)
(* row and returns a refresh token, whose hash the row holds, and a signed *)
(* access token that names the session and the user's token version.       *)
(* Refreshing rotates the hash; logging out and changing the password set  *)
(* revoked_at and empty the hash, the latter also raises the version.      *)
(*                                                                         *)
(* Handlers interleave between their statements.  A read of the user row   *)
(* goes through the query cache (module QueryCache) and may return an      *)
(* older row; reads of the session table carry the current time in their   *)
(* condition, so they are never served from the cache.                     *)
(*                                                                         *)
(* Refresh tokens are random and used once, so a row's hash is abstracted  *)
(* to whether it is empty.                                                 *)
(***************************************************************************)
EXTENDS Integers, FiniteSets

CONSTANTS
  Users,
  Sessions,    \* session ids, each used once
  Reqs,        \* requests, each sent once
  StaleUsers,  \* the users of whom the query cache may hold an overwritten row
  MaxChanges   \* bound on the password changes of a user

ASSUME AuthAssumption ==
  /\ StaleUsers \subseteq Users
  /\ MaxChanges \in Nat

VARIABLES
  account,  \* the user rows; password counts the changes that were committed
  cached,   \* the overwritten user rows that the query cache still holds
  sess,     \* the session rows; password is the one the login compared
  access,   \* the access tokens that were issued
  black,    \* the access tokens on the Redis blacklist
  req

vars == <<account, cached, sess, access, black, req>>

Accounts == [version : Nat, password : Nat, active : BOOLEAN]

SessionRows == [user : Users, blank : BOOLEAN, revoked : BOOLEAN,
                expired : BOOLEAN, password : Nat]

AccessTokens == [user : Users, session : Sessions, version : Nat]

\* A request carries from statement to statement only what it has read.
Requests ==
       [pc : {"idle", "done", "refused", "failed"}]
  \cup [pc : {"login", "change"}, user : Users, seen : Accounts]
  \cup [pc : {"findUser"}, user : Users, session : Sessions]
  \cup [pc : {"rotate"}, user : Users, session : Sessions, seen : Accounts]
  \cup [pc : {"logout", "logoutAll"}, token : AccessTokens]

(* Every variable has its type; only issued tokens are blacklisted.        *)
TypeOK ==
  /\ account \in [Users -> Accounts]
  /\ cached \in [Users -> SUBSET Accounts]
  /\ DOMAIN sess \subseteq Sessions
  /\ sess \in [DOMAIN sess -> SessionRows]
  /\ access \subseteq AccessTokens
  /\ black \subseteq access
  /\ req \in [Reqs -> Requests]

Init ==
  /\ account = [u \in Users |-> [version |-> 1, password |-> 0, active |-> TRUE]]
  /\ cached = [u \in Users |-> {}]
  /\ sess = [s \in {} |-> {}]
  /\ access = {}
  /\ black = {}
  /\ req = [r \in Reqs |-> [pc |-> "idle"]]

-----------------------------------------------------------------------------
(* The user row behind the query cache.                                    *)

\* The rows that a SELECT of the user may return.
Seen(u) == {account[u]} \cup cached[u]

\* A write clears the cache before it commits, so a concurrent reader may
\* put an old row back.
WriteAccount(u, new) ==
  /\ account' = [account EXCEPT ![u] = new]
  /\ \E old \in SUBSET Seen(u) :
       /\ old = {} \/ u \in StaleUsers
       /\ cached' = [cached EXCEPT ![u] = old]

\* 300 seconds after the last of them was stored.
CacheExpires(u) ==
  /\ cached[u] # {}
  /\ cached' = [cached EXCEPT ![u] = {}]
  /\ UNCHANGED <<account, sess, access, black, req>>

-----------------------------------------------------------------------------
(* The session table.                                                      *)

Live(s) == s \in DOMAIN sess /\ ~sess[s].revoked

Valid(s) == Live(s) /\ ~sess[s].expired

\* WHERE user_id = ? AND revoked_at IS NULL
LiveSessions(u) == {s \in DOMAIN sess : sess[s].user = u /\ ~sess[s].revoked}

\* refresh_token_hash has a unique index, and an empty hash is a value like
\* any other: at most one row of the table may hold it.
Revocable(rows) ==
  Cardinality(rows \cup {s \in DOMAIN sess : sess[s].blank}) <= 1

Revoke(rows) ==
  sess' = [s \in DOMAIN sess |->
             IF s \in rows THEN [sess[s] EXCEPT !.revoked = TRUE, !.blank = TRUE] ELSE sess[s]]

\* What AuthenticateAccessToken accepts: seen is the user row it reads.
Accepts(a, seen) ==
  /\ a \notin black
  /\ seen.version = a.version /\ seen.active
  /\ Valid(a.session) /\ sess[a.session].user = a.user

Goto(r, next) == req' = [req EXCEPT ![r] = next]

Finish(r, outcome) == Goto(r, [pc |-> outcome])

Issue(u, s, seen) ==
  access' = access \cup {[user |-> u, session |-> s, version |-> seen.version]}

-----------------------------------------------------------------------------
(* Login: the user is read, the password compared and the status checked,  *)
(* then CreateLoginTokens inserts the session.                             *)

PwdLogin(r, u) ==
  /\ req[r].pc = "idle"
  /\ \E seen \in Seen(u) :
       IF seen.active THEN Goto(r, [pc |-> "login", user |-> u, seen |-> seen])
                      ELSE Finish(r, "refused")
  /\ UNCHANGED <<account, cached, sess, access, black>>

CreateLoginTokens(r) ==
  /\ req[r].pc = "login"
  /\ \E s \in Sessions \ DOMAIN sess :
       /\ sess' = [x \in (DOMAIN sess) \cup {s} |->
            IF x = s THEN [user |-> req[r].user, blank |-> FALSE, revoked |-> FALSE,
                           expired |-> FALSE, password |-> req[r].seen.password]
                     ELSE sess[x]]
       /\ Issue(req[r].user, s, req[r].seen)
  /\ Finish(r, "done")
  /\ UNCHANGED <<account, cached, black>>

-----------------------------------------------------------------------------
(* RefreshTokens: the session is found by the hash, the user is read, then *)
(* the row is updated by its id alone.                                     *)

RefreshFind(r, s) ==
  /\ req[r].pc = "idle"
  /\ Valid(s)
  /\ Goto(r, [pc |-> "findUser", user |-> sess[s].user, session |-> s])
  /\ UNCHANGED <<account, cached, sess, access, black>>

RefreshReadUser(r) ==
  /\ req[r].pc = "findUser"
  /\ \E seen \in Seen(req[r].user) :
       IF seen.active
       THEN Goto(r, [pc |-> "rotate", user |-> req[r].user, session |-> req[r].session,
                     seen |-> seen])
       ELSE Finish(r, "refused")
  /\ UNCHANGED <<account, cached, sess, access, black>>

\* A defect the runs must catch: Save writes the whole row that was read.
RefreshSavesRow(r) ==
  /\ req[r].pc = "rotate"
  /\ sess' = [sess EXCEPT ![req[r].session].blank = FALSE, ![req[r].session].expired = FALSE,
                          ![req[r].session].revoked = FALSE]
  /\ Issue(req[r].user, req[r].session, req[r].seen)
  /\ Finish(r, "done")
  /\ UNCHANGED <<account, cached, black>>

RefreshRotate(r) ==
  /\ req[r].pc = "rotate"
  /\ sess' = [sess EXCEPT ![req[r].session].blank = FALSE, ![req[r].session].expired = FALSE]
  /\ Issue(req[r].user, req[r].session, req[r].seen)
  /\ Finish(r, "done")
  /\ UNCHANGED <<account, cached, black>>

-----------------------------------------------------------------------------
(* Logout of one device, and of all.  Both routes are behind the auth      *)
(* middleware; a failure to write the blacklist is only logged.            *)

LogoutAccepted(r, a) ==
  /\ req[r].pc = "idle"
  /\ \E seen \in Seen(a.user) : Accepts(a, seen)
  /\ \E pc \in {"logout", "logoutAll"} : Goto(r, [pc |-> pc, token |-> a])
  /\ UNCHANGED <<account, cached, sess, access, black>>

\* A defect: the claims are signed again, with the user's version of today.
ResignedTokenBlack(a) == black' = black \cup {[a EXCEPT !.version = @ + 1]}

SetTokenBlack(a) == black' \in {black, black \cup {a}}

\* A defect: the token is blacklisted before the revocation is known to work.
BlacklistFirst(r, rows) ==
  /\ SetTokenBlack(req[r].token)
  /\ IF Revocable(rows) THEN Revoke(rows) /\ Finish(r, "done")
                        ELSE Finish(r, "failed") /\ UNCHANGED sess
  /\ UNCHANGED <<account, cached, access>>

RevokeAndBlacklist(r, rows) ==
  /\ \/ /\ Revocable(rows)
        /\ Revoke(rows)
        /\ SetTokenBlack(req[r].token)
        /\ Finish(r, "done")
     \/ /\ ~Revocable(rows)
        /\ Finish(r, "failed")
        /\ UNCHANGED <<sess, black>>
  /\ UNCHANGED <<account, cached, access>>

UserLogout(r) ==
  /\ req[r].pc = "logout"
  /\ RevokeAndBlacklist(r, LiveSessions(req[r].token.user) \cap {req[r].token.session})

UserLogoutAll(r) ==
  /\ req[r].pc = "logoutAll"
  /\ RevokeAndBlacklist(r, LiveSessions(req[r].token.user))

-----------------------------------------------------------------------------
(* Changing or resetting the password: the user is read (and the old       *)
(* password or the mail code checked), then one transaction writes the     *)
(* password and the version that was read + 1, and revokes every session.  *)

ChangePassword(r, u) ==
  /\ req[r].pc = "idle"
  /\ \E seen \in Seen(u) : Goto(r, [pc |-> "change", user |-> u, seen |-> seen])
  /\ UNCHANGED <<account, cached, sess, access, black>>

UpdatePasswordAndRevokeSessions(r) ==
  LET u == req[r].user
      rows == LiveSessions(u)
  IN
  /\ req[r].pc = "change"
  /\ account[u].password < MaxChanges
  /\ \/ /\ Revocable(rows)
        /\ WriteAccount(u, [account[u] EXCEPT !.version = req[r].seen.version + 1,
                                              !.password = @ + 1])
        /\ Revoke(rows)
        /\ Finish(r, "done")
     \/ /\ ~Revocable(rows)
        /\ Finish(r, "failed")
        /\ UNCHANGED <<account, cached, sess>>
  /\ UNCHANGED <<access, black>>

-----------------------------------------------------------------------------
\* A defect: the version is raised and the sessions are left alone.
StatusRaisesVersion(u) ==
  /\ WriteAccount(u, [account[u] EXCEPT !.active = ~@, !.version = @ + 1])
  /\ account[u].version <= MaxChanges
  /\ UNCHANGED <<sess, access, black, req>>

\* AdminUserInfoUpdateView compares the requested status and role with the
\* model after GORM's Updates has written the same values into it, so it
\* never goes on to InvalidateUserAuthState.
SetStatus(u) ==
  /\ WriteAccount(u, [account[u] EXCEPT !.active = ~@])
  /\ UNCHANGED <<sess, access, black, req>>

SessionExpires(s) ==
  /\ Live(s) /\ ~sess[s].expired
  /\ sess' = [sess EXCEPT ![s].expired = TRUE]
  /\ UNCHANGED <<account, cached, access, black, req>>

-----------------------------------------------------------------------------
Begin(r) ==
  \/ \E u \in Users : PwdLogin(r, u) \/ ChangePassword(r, u)
  \/ \E s \in DOMAIN sess : RefreshFind(r, s)
  \/ \E a \in access : LogoutAccepted(r, a)

Continue(r) ==
  \/ CreateLoginTokens(r) \/ RefreshReadUser(r) \/ RefreshRotate(r)
  \/ UserLogout(r) \/ UserLogoutAll(r) \/ UpdatePasswordAndRevokeSessions(r)

Next ==
  \/ \E r \in Reqs : Begin(r) \/ Continue(r)
  \/ \E u \in Users : SetStatus(u) \/ CacheExpires(u)
  \/ \E s \in Sessions : SessionExpires(s)

Spec == Init /\ [][Next]_vars

-----------------------------------------------------------------------------
(* A session that was revoked never comes back: neither a refresh that had *)
(* found it before the revocation, nor a stale user row, nor any order of  *)
(* logouts and password changes makes it usable again.                     *)
RevokedStaysRevoked ==
  [][\A s \in DOMAIN sess : sess[s].revoked => sess'[s].revoked]_vars

(* A token on the blacklist belongs to a revoked session.  So the blacklist *)
(* only ever repeats what MySQL already knows: losing it (a Redis restart,  *)
(* an ignored error in SetTokenBlack) brings no session back.               *)
BlacklistIsRedundant == \A a \in black : ~Live(a.session)

(* A session opened with the user's current password is not logged out by  *)
(* the side: all its access tokens carry the user's current version.  Holds *)
(* of the users of whom no overwritten row is read.                        *)
CurrentSessionsKeepVersion ==
  \A a \in access :
    /\ a.user \notin StaleUsers
    /\ Live(a.session) /\ sess[a.session].password = account[a.user].password
    => a.version = account[a.user].version

(* Logging out and changing the password do what they were asked to: the   *)
(* revoking UPDATE is not rejected by the database.                        *)
RevocationNeverFails == \A r \in Reqs : req[r].pc # "failed"
=============================================================================
