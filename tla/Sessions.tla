------------------------------ MODULE Sessions -------------------------------
(***************************************************************************)
(* Accounts and sessions of user-svc: registration, login, refresh and     *)
(* logout (internal/application/auth.go) and the administration of users   *)
(* (admin.go), on the tables users, user_roles and sessions.               *)
(*                                                                         *)
(* A session has one refresh token, kept as a hash; a refresh replaces it. *)
(* No operation of auth.go uses a transaction, so each statement is a step *)
(* and the requests of several clients interleave between them.            *)
(*                                                                         *)
(* A refresh token is the session's id and a fresh secret.  A request      *)
(* makes at most one secret, so the request stands for it; First is the    *)
(* secret of the session that is open at the beginning.  The access token  *)
(* is not kept anywhere and is left out.                                   *)
(***************************************************************************)
EXTENDS Naturals

CONSTANTS
  Users,      \* accounts, each with its email
  Roles,      \* names of roles, "USER" among them
  Sessions,   \* ids of sessions, given out by the database
  Requests,   \* bound: the requests that arrive, each once
  Opened,     \* the session that may be open at the beginning
  First,      \* the secret of that session
  None        \* no such row, or nothing asked for

ASSUME ConstantsAssumption ==
  /\ "USER" \in Roles
  /\ Opened \in Sessions
  /\ First \notin Requests
  /\ None \notin Users \union Sessions

VARIABLES
  status,      \* users.status; ABSENT when there is no row
  roles,       \* user_roles: rows with a role and the request that wrote it
  session,     \* the rows of sessions
  req,         \* the requests, with what each has read so far
  asked,       \* history: the roles last asked for
  overlapped   \* history: users whose roles two requests replaced at once

vars == <<status, roles, session, req, asked, overlapped>>

------------------------------------------------------------------------------
Statuses == {"ACTIVE", "BLOCKED", "DELETED"}
Secrets == Requests \union {First}

\* refresh_hash is the hash of a token, or of the bare secret while a login is
\* under way: no token has that hash.
Session == [user : Users, secret : Secrets, bare : BOOLEAN, revoked : BOOLEAN, expired : BOOLEAN]

ASSUME RowsAssumption == None \notin Session

Ops == {"register", "login", "refresh", "logout", "me", "updateUser"}
PC == {"new", "create", "delete", "replace", "session", "status", "user", "roles",
       "open", "rotate", "revoke", "close", "ok", "rejected", "failed"}

\* secret is that of the token presented; snapshot, the rows that DELETE saw.
\* History: doomed, the token was not good when the request began; barred, the
\* user has not been active since; lapsed, its revocation of the session failed.
Request == [op : Ops, pc : PC, user : Users \union {None}, session : Sessions \union {None},
            secret : Secrets \union {None}, list : (SUBSET Roles) \union {None},
            snapshot : SUBSET (Roles \X (Requests \union {First})),
            doomed : BOOLEAN, barred : BOOLEAN, lapsed : BOOLEAN]

Pending(op) ==
  [op |-> op, pc |-> "new", user |-> None, session |-> None, secret |-> None, list |-> None,
   snapshot |-> {}, doomed |-> FALSE, barred |-> FALSE, lapsed |-> FALSE]

\* Some users are registered, and one of them may have logged in.
Init ==
  /\ status \in [Users -> {"ABSENT", "ACTIVE"}]
  /\ roles = [u \in Users |-> IF status[u] = "ACTIVE" THEN {<<"USER", First>>} ELSE {}]
  /\ session \in [Sessions -> {None} \union
       {[user |-> u, secret |-> First, bare |-> FALSE, revoked |-> FALSE, expired |-> FALSE] :
          u \in {v \in Users : status[v] = "ACTIVE"}}]
  /\ \A s \in Sessions \ {Opened} : session[s] = None
  /\ req \in [Requests -> {Pending(op) : op \in Ops}]
  /\ asked = [u \in Users |-> IF status[u] = "ACTIVE" THEN {"USER"} ELSE {}]
  /\ overlapped = {}

------------------------------------------------------------------------------
(***************************************************************************)
(* Building blocks.                                                        *)
(***************************************************************************)
At(r, label) == req[r].pc = label
Op(r) == req[r].op
Goto(r, label) == req' = [req EXCEPT ![r].pc = label]

Names(rows) == {row[1] : row \in rows}

userVars == <<status, roles, asked, overlapped>>

\* A client has received the refresh token of session s with this secret.
Issued(s, secret) ==
  \/ secret = First /\ s = Opened /\ session[s] # None
  \/ \E r \in Requests : /\ r = secret
                         /\ At(r, "ok")
                         /\ Op(r) \in {"login", "refresh"}
                         /\ req[r].session = s

\* The user a request is about: that of the session, once it has one.
UserOf(r) == IF req[r].session = None THEN req[r].user ELSE session[req[r].session].user

\* User u gets status st: then the requests of an active user are not barred.
Lift(u, st) ==
  [q \in Requests |-> [req[q] EXCEPT !.barred = @ /\ ~(UserOf(q) = u /\ st = "ACTIVE")]]

\* matchTokenHash.
Matches(row, secret) == row.secret = secret /\ ~row.bare

Good(s, secret) ==
  /\ Matches(session[s], secret)
  /\ ~session[s].revoked
  /\ ~session[s].expired

------------------------------------------------------------------------------
(***************************************************************************)
(* Variants of the steps below, each with one plausible mistake.  Next     *)
(* uses none.                                                              *)
(***************************************************************************)
\* user_roles without its primary key, and a replacement that only inserts.
ReplaceRolesUnchecked(r) ==
  LET u == req[r].user
  IN  /\ At(r, "replace")
      /\ roles' = [roles EXCEPT ![u] = (@ \ req[r].snapshot) \union {<<role, r>> : role \in req[r].list}]
      /\ asked' = [asked EXCEPT ![u] = req[r].list]
      /\ Goto(r, IF Op(r) = "register" THEN "ok" ELSE "roles")
      /\ UNCHANGED <<status, session, overlapped>>

AddRoles(r) ==
  LET u == req[r].user
      new == req[r].list \ Names(roles[u])
  IN  /\ At(r, "replace")
      /\ roles' = [roles EXCEPT ![u] = @ \union {<<role, r>> : role \in new}]
      /\ asked' = [asked EXCEPT ![u] = req[r].list]
      /\ Goto(r, IF Op(r) = "register" THEN "ok" ELSE "roles")
      /\ UNCHANGED <<status, session, overlapped>>

\* Refresh without matchTokenHash, and without revoking the session when the hash
\* does not match.
GetSessionUnmatched(r) ==
  LET row == session[req[r].session]
  IN  /\ At(r, "session")
      /\ Goto(r, IF Op(r) = "logout" THEN IF row.revoked THEN "ok" ELSE "close"
                 ELSE IF row.revoked THEN "rejected" ELSE IF row.expired THEN "revoke" ELSE "user")
      /\ UNCHANGED <<userVars, session>>

GetSessionLenient(r) ==
  LET row == session[req[r].session]
  IN  /\ At(r, "session")
      /\ Goto(r, IF Op(r) = "logout" THEN IF row.revoked THEN "ok" ELSE "close"
                 ELSE IF row.revoked \/ ~Matches(row, req[r].secret) THEN "rejected"
                 ELSE IF row.expired THEN "revoke" ELSE "user")
      /\ UNCHANGED <<userVars, session>>

------------------------------------------------------------------------------
(***************************************************************************)
(* Requests arrive: what the handlers pass on to the service.              *)
(***************************************************************************)
\* A request about user u, with a list of roles to give or None.
BeginUser(r, op, label, u, list) ==
  /\ At(r, "new")
  /\ Op(r) = op
  /\ req' = [req EXCEPT ![r].user = u, ![r].list = list, ![r].pc = label,
                        ![r].barred = status[u] # "ACTIVE"]
  /\ UNCHANGED <<userVars, session>>

\* Register and Login name the email; Me is of the holder of an access token.
Register(r) == \E u \in Users : BeginUser(r, "register", "create", u, {"USER"})
Login(r) == \E u \in Users : BeginUser(r, "login", "user", u, None)
Me(r) == \E u \in Users : BeginUser(r, "me", "user", u, None)

\* From an administrator, with or without roles.
AdminUpdateUser(r) ==
  \E u \in Users, list \in (SUBSET Roles) \union {None} :
    BeginUser(r, "updateUser", "status", u, list)

\* A refresh token that some client has received is presented.
BeginToken(r, op) ==
  /\ At(r, "new")
  /\ Op(r) = op
  /\ \E s \in Sessions, secret \in Secrets :
       /\ Issued(s, secret)
       /\ req' = [req EXCEPT ![r].session = s, ![r].secret = secret, ![r].pc = "session",
                             ![r].doomed = ~Good(s, secret),
                             ![r].barred = status[session[s].user] # "ACTIVE"]
  /\ UNCHANGED <<userVars, session>>

Refresh(r) == BeginToken(r, "refresh")
Logout(r) == BeginToken(r, "logout")

------------------------------------------------------------------------------
(***************************************************************************)
(* Users and their roles.                                                  *)
(***************************************************************************)
\* UserRepository.Create.
CreateUser(r) ==
  LET u == req[r].user
  IN  /\ At(r, "create")
      /\ IF status[u] = "ABSENT"
         THEN /\ status' = [status EXCEPT ![u] = "ACTIVE"]
              /\ req' = [Lift(u, "ACTIVE") EXCEPT ![r].pc = "delete"]
         ELSE Goto(r, "rejected") /\ UNCHANGED status
      /\ UNCHANGED <<roles, session, asked, overlapped>>

\* UpdateUser: UpdateStatus, or GetByID when no status is asked for.
UpdateStatus(r) ==
  LET u == req[r].user
      next == IF req[r].list = None THEN "roles" ELSE "delete"
  IN  /\ At(r, "status")
      /\ IF status[u] = "ABSENT"
         THEN Goto(r, "rejected") /\ UNCHANGED status
         ELSE \E st \in Statuses \union {status[u]} :
                /\ status' = [status EXCEPT ![u] = st]
                /\ req' = [Lift(u, st) EXCEPT ![r].pc = next]
      /\ UNCHANGED <<roles, session, asked, overlapped>>

\* ReplaceUserRoles begins its transaction and deletes the rows it sees.  The
\* deletion is not visible to others before the commit.
DeleteRoles(r) ==
  LET u == req[r].user
      busy == \E q \in Requests \ {r} : At(q, "replace") /\ req[q].user = u
  IN  /\ At(r, "delete")
      /\ req' = [req EXCEPT ![r].snapshot = roles[u], ![r].pc = "replace"]
      /\ overlapped' = IF busy THEN overlapped \union {u} ELSE overlapped
      /\ UNCHANGED <<status, roles, session, asked>>

\* It inserts its own rows and commits.  Rows committed since it looked are still
\* there: one with the same role violates the primary key.
ReplaceRoles(r) ==
  LET u == req[r].user
      kept == roles[u] \ req[r].snapshot
  IN  /\ At(r, "replace")
      /\ Names(kept) \intersect req[r].list = {}
      /\ roles' = [roles EXCEPT ![u] = kept \union {<<role, r>> : role \in req[r].list}]
      /\ asked' = [asked EXCEPT ![u] = req[r].list]
      /\ Goto(r, IF Op(r) = "register" THEN "ok" ELSE "roles")
      /\ UNCHANGED <<status, session, overlapped>>

\* GetByEmail and the password in Login, GetByID in Refresh and Me.
GetUser(r) ==
  LET u == UserOf(r)
  IN  /\ At(r, "user")
      /\ Goto(r, IF status[u] = "ACTIVE" \/ (Op(r) = "me" /\ status[u] # "ABSENT")
                 THEN "roles" ELSE "rejected")
      /\ UNCHANGED <<userVars, session>>

\* RoleRepository.ListByUserID.
ListRoles(r) ==
  /\ At(r, "roles")
  /\ Goto(r, CASE Op(r) = "login" -> "open" [] Op(r) = "refresh" -> "rotate" [] OTHER -> "ok")
  /\ UNCHANGED <<userVars, session>>

------------------------------------------------------------------------------
(***************************************************************************)
(* Sessions.                                                               *)
(***************************************************************************)
\* Login: UpdateLastLogin, and SessionRepository.Create with the hash of the bare
\* secret, because the token needs the session's id.
OpenSession(r) ==
  /\ At(r, "open")
  /\ \E s \in Sessions :
       /\ session[s] = None /\ s # Opened
       /\ session' = [session EXCEPT ![s] = [user |-> req[r].user, secret |-> r, bare |-> TRUE,
                                              revoked |-> FALSE, expired |-> FALSE]]
       /\ req' = [req EXCEPT ![r].session = s, ![r].pc = "rotate"]
  /\ UNCHANGED userVars

\* SessionRepository.GetByID and the checks of Refresh and Logout.
GetSession(r) ==
  LET row == session[req[r].session]
  IN  /\ At(r, "session")
      /\ Goto(r, CASE row.revoked -> IF Op(r) = "logout" THEN "ok" ELSE "rejected"
                   [] ~row.revoked /\ ~Matches(row, req[r].secret) -> "revoke"
                   [] OTHER -> IF Op(r) = "logout" THEN "close"
                               ELSE IF row.expired THEN "revoke" ELSE "user")
      /\ UNCHANGED <<userVars, session>>

\* RotateRefresh, whatever has become of the session since it was read.  The
\* answer may get lost.
RotateRefresh(r) ==
  /\ At(r, "rotate")
  /\ session' = [session EXCEPT ![req[r].session].secret = r, ![req[r].session].bare = FALSE]
  /\ Goto(r, "ok") \/ Goto(r, "failed")
  /\ UNCHANGED userVars

\* The error of RotateRefresh makes Login revoke the session.
RotateFails(r) ==
  /\ At(r, "rotate")
  /\ Op(r) = "login"
  /\ Goto(r, "revoke")
  /\ UNCHANGED <<userVars, session>>

\* RevokeByID.  A logout with the right token is told when the session was revoked
\* meanwhile.
Revoke(r) ==
  LET s == req[r].session
  IN  /\ req[r].pc \in {"revoke", "close"}
      /\ session' = [session EXCEPT ![s].revoked = TRUE]
      /\ Goto(r, IF Op(r) = "logout" /\ ~(At(r, "close") /\ session[s].revoked)
                 THEN "ok" ELSE "rejected")
      /\ UNCHANGED userVars

\* The error of RevokeByID is dropped where a bad token or a failed login led to
\* it: the answer is the same, and the session stays as it is.  After a logout with
\* the right token the error is the answer (Fail).
RevokeFails(r) ==
  /\ At(r, "revoke")
  /\ req' = [req EXCEPT ![r].pc = IF Op(r) = "logout" THEN "ok" ELSE "rejected",
                        ![r].lapsed = TRUE]
  /\ UNCHANGED <<userVars, session>>

\* RefreshTTL has passed since the session was created.
Expire(s) ==
  /\ session[s] # None
  /\ ~session[s].expired
  /\ session' = [session EXCEPT ![s].expired = TRUE]
  /\ UNCHANGED <<userVars, req>>

\* A statement fails, or user-svc dies: what has been written stays, a transaction
\* is rolled back.
Fail(r) ==
  /\ req[r].pc \notin {"new", "ok", "rejected", "failed"}
  /\ Goto(r, "failed")
  /\ UNCHANGED <<userVars, session>>

------------------------------------------------------------------------------
Step(r) ==
  \/ Register(r) \/ Login(r) \/ Me(r) \/ AdminUpdateUser(r) \/ Refresh(r) \/ Logout(r)
  \/ CreateUser(r) \/ UpdateStatus(r) \/ DeleteRoles(r) \/ ReplaceRoles(r)
  \/ GetUser(r) \/ ListRoles(r)
  \/ OpenSession(r) \/ GetSession(r) \/ RotateRefresh(r) \/ RotateFails(r)
  \/ Revoke(r) \/ RevokeFails(r)
  \/ Fail(r)

Next == (\E r \in Requests : Step(r)) \/ (\E s \in Sessions : Expire(s))

Spec == Init /\ [][Next]_vars

------------------------------------------------------------------------------
(***************************************************************************)
(* Properties.                                                             *)
(***************************************************************************)
\* Every variable has its type, and there are no two rows for a role of a user.
TypeOK ==
  /\ status \in [Users -> Statuses \union {"ABSENT"}]
  /\ roles \in [Users -> SUBSET (Roles \X Secrets)]
  /\ \A u \in Users : \A x, y \in roles[u] : x[1] = y[1] => x = y
  /\ session \in [Sessions -> Session \union {None}]
  /\ req \in [Requests -> Request]
  /\ asked \in [Users -> SUBSET Roles]
  /\ overlapped \subseteq Users

\* A refresh is accepted only if its token was good when the request began: one
\* that was replaced, revoked or had expired before is refused, whatever refreshes
\* and logouts run at the same time; and neither a refresh nor a login is accepted
\* when the user was blocked before it began and has been since.
NoReplay ==
  \A r \in Requests :
    Op(r) \in {"login", "refresh"} /\ At(r, "ok") => ~req[r].doomed /\ ~req[r].barred

\* A refresh that began with a bad token and was refused finds the session revoked
\* or revokes it, and so does a logout that was answered, and no refresh that
\* overtakes them opens it again; only a revocation that itself failed leaves it
\* open, which the answer does not tell.
BadTokenRevokes ==
  \A r \in Requests :
    /\ \/ Op(r) = "refresh" /\ At(r, "rejected") /\ req[r].doomed
       \/ Op(r) = "logout" /\ At(r, "ok")
    /\ ~req[r].lapsed
    => session[req[r].session].revoked

\* However the two statements of several replacements interleave, a user has every
\* role of the list committed last, and no other unless two requests replaced the
\* roles at the same time; then there may be roles of both lists.
RolesAsAsked ==
  \A u \in Users : /\ asked[u] \subseteq Names(roles[u])
                   /\ u \notin overlapped => Names(roles[u]) \subseteq asked[u]

==============================================================================
