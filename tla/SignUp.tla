-------------------------------- MODULE SignUp --------------------------------
(* How a visitor becomes a user (user_api/auth_api): codes sent by e-mail   *)
(* and checked in Redis, the registrations by e-mail and by QQ, binding an  *)
(* e-mail address, and the change of a username (profile_api).              *)
(*                                                                         *)
(* MySQL's INSERT ... ON DUPLICATE KEY UPDATE id = id, gorm's DoNothing,    *)
(* reports any duplicate key as no row and no error, and the hook that      *)
(* creates the profile runs all the same.                                  *)
EXTENDS Naturals, FiniteSets, Sequences

CONSTANTS
  Emails, OpenIds, IPs,
  Visitors,    \* requests, each made once; also the ids they would give a user
  Member,      \* the user there is at first; has neither e-mail nor open_id
  None,
  Kinds,       \* types of mail
  KnownKinds,  \* those sent only to the address of a user
  MaxFail,     \* max_fail of a code
  MaxSend,     \* EmailSendPerEmailMax, EmailSendPerIPMax
  MaxName      \* the last username a member may choose

VARIABLES
  users,     \* user_models: id -> e-mail, open_id, username
  profiles,  \* the ids in user_conf_models and user_stat_models
  stamped,   \* the users whose updated_username_date is recent
  seq,       \* seq:user:username
  window,    \* the keys of the send limits
  codes,     \* email_verify:<id>
  mails,     \* history: the codes stored, and what was tried on them
  letIn,     \* history: the user each request got tokens for
  req

signVars == <<users, profiles, stamped, seq, window, codes, mails, letIn, req>>
store == <<users, profiles, stamped>>
mailing == <<window, codes, mails>>

Keys == (Emails \cup IPs) \X Kinds
Purposes == {"register", "login", "bind", "reset"}

SignInit ==
  /\ users = [u \in {Member} |-> [email |-> None, open |-> None, name |-> 0]]
  /\ profiles = {Member} /\ stamped = {} /\ seq = 0
  /\ window = [k \in Keys |-> [count |-> 0, ends |-> FALSE]]
  /\ codes = << >> /\ mails = << >> /\ letIn = << >>
  /\ req = [r \in Visitors |-> [pc |-> "idle"]]

Goto(r, state) == req' = [req EXCEPT ![r] = state]
Finish(r) == Goto(r, [pc |-> "done"])
At(r, pc) == req[r].pc = pc
With(f, x, v) == [y \in (DOMAIN f) \cup {x} |-> IF y = x THEN v ELSE f[y]]

HasEmail(e) == {u \in DOMAIN users : users[u].email = e}
HasOpenId(o) == {u \in DOMAIN users : users[u].open = o}
HasName(n) == {u \in DOMAIN users : users[u].name = n}

-----------------------------------------------------------------------------
(* Codes.                                                                  *)

SendEmailView(r, e, ip, k) ==
  /\ At(r, "idle")
  /\ Goto(r, [pc |-> "count", email |-> e, kind |-> k, allowed |-> TRUE,
              keys |-> <<<<e, k>>, <<ip, k>>>>])
  /\ UNCHANGED <<store, seq, mailing, letIn>>

(* allowWithinWindow: INCR; EXPIRE after the first, which may get lost.     *)
AllowWithinWindow(r) ==
  LET key == Head(req[r].keys)
      count == window[key].count + 1
      allowed == req[r].allowed /\ count <= MaxSend IN
  /\ At(r, "count")
  /\ \E ends \in IF count = 1 THEN BOOLEAN ELSE {window[key].ends} :
       window' = [window EXCEPT ![key] = [count |-> count, ends |-> ends]]
  /\ \/ /\ Len(req[r].keys) > 1
        /\ req' = [req EXCEPT ![r].keys = Tail(@), ![r].allowed = allowed]
     \/ /\ Len(req[r].keys) = 1 /\ allowed
        /\ Goto(r, [pc |-> "send", email |-> req[r].email, kind |-> req[r].kind])
     \/ Len(req[r].keys) = 1 /\ ~allowed /\ Finish(r)
  /\ UNCHANGED <<store, seq, codes, mails, letIn>>

WindowEnds(key) ==
  /\ window[key].ends
  /\ window' = [window EXCEPT ![key] = [count |-> 0, ends |-> FALSE]]
  /\ UNCHANGED <<store, seq, codes, mails, letIn, req>>

ShouldSend(r) == (HasEmail(req[r].email) # {}) <=> (req[r].kind \in KnownKinds)

(* A mail that could not be sent is not noticed: SendEmail returns nil.    *)
Send(r) ==
  /\ At(r, "send")
  /\ IF ShouldSend(r) THEN Goto(r, [pc |-> "store", email |-> req[r].email])
                      ELSE Finish(r)
  /\ UNCHANGED <<store, seq, mailing, letIn>>

Store(r) ==
  /\ At(r, "store")
  /\ codes' = With(codes, r, [email |-> req[r].email, fails |-> 0])
  /\ mails' = With(mails, r, [email |-> req[r].email, right |-> 0, wrong |-> 0])
  /\ Finish(r)
  /\ UNCHANGED <<store, seq, window, letIn>>

Without(m) == [i \in (DOMAIN codes) \ {m} |-> codes[i]]
MissedTooOften(m) == [codes EXCEPT ![m].fails = @ + 1]
Missed(m) == IF codes[m].fails + 1 >= MaxFail THEN Without(m)
             ELSE [codes EXCEPT ![m].fails = @ + 1]

CodeExpires(m) ==
  /\ codes' = Without(m)
  /\ UNCHANGED <<store, seq, window, mails, letIn, req>>

(* EmailVerifyMiddleware: one script compares, counts and deletes.         *)
VerifyWrong(r, m) ==
  /\ At(r, "idle")
  /\ codes' = Missed(m)
  /\ mails' = [mails EXCEPT ![m].wrong = @ + 1]
  /\ Finish(r)
  /\ UNCHANGED <<store, seq, window, letIn>>

VerifyRight(r, m, purpose) ==
  /\ At(r, "idle")
  /\ codes' = Without(m)
  /\ mails' = [mails EXCEPT ![m].right = @ + 1]
  /\ Goto(r, [pc |-> purpose, email |-> codes[m].email])
  /\ UNCHANGED <<store, seq, window, letIn>>

-----------------------------------------------------------------------------
(* Accounts.                                                               *)

LetIn(r, u) == letIn' = With(letIn, r, u) /\ Finish(r)

(* NextAutoUsername. *)
NextName(r) ==
  /\ At(r, "register")
  /\ seq' = seq + 1
  /\ Goto(r, [pc |-> "create", row |->
       [email |-> req[r].email, open |-> None, name |-> seq + 1]])
  /\ UNCHANGED <<store, mailing, letIn>>

QQLoginView(r, o) ==
  /\ At(r, "idle")
  /\ \/ \E u \in HasOpenId(o) : LetIn(r, u)
     \/ HasOpenId(o) = {} /\ Goto(r, [pc |-> "qqName", open |-> o]) /\ UNCHANGED letIn
  /\ UNCHANGED <<store, seq, mailing>>

QQNextName(r) ==
  /\ At(r, "qqName")
  /\ seq' = seq + 1
  /\ Goto(r, [pc |-> "create", row |->
       [email |-> None, open |-> req[r].open, name |-> seq + 1]])
  /\ UNCHANGED <<store, mailing, letIn>>

Duplicate(row) ==
  \/ row.email # None /\ HasEmail(row.email) # {}
  \/ row.open # None /\ HasOpenId(row.open) # {}
  \/ HasName(row.name) # {}

(* Create, with its hooks, in one transaction.  No row means a refusal: by  *)
(* e-mail at once, and by QQ because the second Take also asks for the id   *)
(* that Create has given to the struct.                                    *)
Create(r) ==
  LET row == req[r].row IN
  /\ At(r, "create")
  /\ profiles' = profiles \cup {r}
  /\ IF Duplicate(row) THEN Finish(r) /\ UNCHANGED <<users, letIn>>
                       ELSE users' = With(users, r, row) /\ LetIn(r, r)
  /\ UNCHANGED <<stamped, seq, mailing>>

EmailLoginView(r) ==
  /\ At(r, "login")
  /\ \/ \E u \in HasEmail(req[r].email) : LetIn(r, u)
     \/ HasEmail(req[r].email) = {} /\ Finish(r) /\ UNCHANGED letIn
  /\ UNCHANGED <<store, seq, mailing>>

(* BindEmailView, of the user of the token; the unique index refuses.      *)
BindEmailView(r) ==
  /\ At(r, "bind")
  /\ \/ /\ HasEmail(req[r].email) \subseteq {Member}
        /\ users' = [users EXCEPT ![Member].email = req[r].email]
     \/ HasEmail(req[r].email) \ {Member} # {} /\ UNCHANGED users
  /\ Finish(r)
  /\ UNCHANGED <<profiles, stamped, seq, mailing, letIn>>

(* ResetPwdByEmailView: what it does to the sessions is in AuthSession.     *)
ResetPwdByEmailView(r) ==
  /\ At(r, "reset") /\ Finish(r)
  /\ UNCHANGED <<store, seq, mailing, letIn>>

(* UserInfoUpdateView with a new username: the row and the date of the last *)
(* change are read, the name is counted, then written, then the date.      *)
UserInfoUpdateView(r, u, n) ==
  /\ At(r, "idle") /\ users[u].name # n
  /\ Goto(r, [pc |-> "check", user |-> u, name |-> n, recent |-> u \in stamped])
  /\ UNCHANGED <<store, seq, mailing, letIn>>

CheckName(r) ==
  /\ At(r, "check")
  /\ IF HasName(req[r].name) # {} \/ req[r].recent THEN Finish(r)
     ELSE Goto(r, [pc |-> "rename", user |-> req[r].user, name |-> req[r].name])
  /\ UNCHANGED <<store, seq, mailing, letIn>>

Rename(r) ==
  LET u == req[r].user  n == req[r].name IN
  /\ At(r, "rename")
  /\ \/ /\ HasName(n) \subseteq {u}
        /\ users' = [users EXCEPT ![u].name = n]
        /\ Goto(r, [pc |-> "stamp", user |-> u])
     \/ HasName(n) \ {u} # {} /\ Finish(r) /\ UNCHANGED users
  /\ UNCHANGED <<profiles, stamped, seq, mailing, letIn>>

Stamp(r) ==
  /\ At(r, "stamp")
  /\ stamped' = stamped \cup {req[r].user}
  /\ Finish(r)
  /\ UNCHANGED <<users, profiles, seq, mailing, letIn>>

(* A request ends early: a database or Redis error, or a crash.            *)
Breaks(r) ==
  /\ req[r].pc \notin {"idle", "done"}
  /\ Finish(r)
  /\ UNCHANGED <<store, seq, mailing, letIn>>

SignNext ==
  \/ \E r \in Visitors, e \in Emails, ip \in IPs, k \in Kinds :
       SendEmailView(r, e, ip, k)
  \/ \E r \in Visitors, m \in DOMAIN codes :
       \/ VerifyWrong(r, m)
       \/ \E p \in Purposes : VerifyRight(r, m, p)
  \/ \E r \in Visitors, o \in OpenIds : QQLoginView(r, o)
  \/ \E r \in Visitors, u \in DOMAIN users, n \in 1..MaxName : UserInfoUpdateView(r, u, n)
  \/ \E r \in Visitors :
       \/ AllowWithinWindow(r) \/ Send(r) \/ Store(r)
       \/ NextName(r) \/ QQNextName(r) \/ Create(r)
       \/ EmailLoginView(r) \/ BindEmailView(r) \/ ResetPwdByEmailView(r)
       \/ CheckName(r) \/ Rename(r) \/ Stamp(r) \/ Breaks(r)
  \/ \E key \in Keys : WindowEnds(key)
  \/ \E m \in DOMAIN codes : CodeExpires(m)

-----------------------------------------------------------------------------
SignTypeOK ==
  /\ Member \in DOMAIN users /\ DOMAIN users \subseteq Visitors \cup {Member}
  /\ \A u \in DOMAIN users : users[u] \in
       [email : Emails \cup {None}, open : OpenIds \cup {None}, name : Nat]
  /\ profiles \subseteq Visitors \cup {Member} /\ stamped \subseteq DOMAIN users
  /\ window \in [Keys -> [count : Nat, ends : BOOLEAN]]
  /\ DOMAIN codes \subseteq DOMAIN mails
  /\ \A m \in DOMAIN codes : codes[m].email = mails[m].email

(* A code lets one request through and survives fewer than max_fail wrong   *)
(* tries (redis_email.verifyScript), whatever requests race for it.        *)
CodesBounded ==
  \A m \in DOMAIN mails :
    /\ mails[m].wrong <= MaxFail /\ mails[m].right <= 1
    /\ m \in DOMAIN codes => mails[m].right = 0 /\ mails[m].wrong < MaxFail

(* A request that got tokens got them for a user that is there, each user   *)
(* has a profile, and an e-mail address of a user is one to which a code    *)
(* was sent that somebody gave back.                                       *)
AccountsWhole ==
  /\ \A r \in DOMAIN letIn : letIn[r] \in DOMAIN users
  /\ DOMAIN users \subseteq profiles
  /\ \A u \in DOMAIN users : users[u].email # None =>
       \E m \in DOMAIN mails : mails[m].email = users[u].email /\ mails[m].right = 1

(* Registration: the two together. *)
SignUpsSound == CodesBounded /\ AccountsWhole
=============================================================================
