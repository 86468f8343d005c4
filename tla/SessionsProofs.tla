---------------------------- MODULE SessionsProofs ---------------------------
(***************************************************************************)
(* Proofs about Sessions, for any users, sessions and number of requests.  *)
(*                                                                         *)
(* NoReplay is not inductive: a refresh reads the session and writes it    *)
(* two statements later.  The invariant adds what keeps a bad token bad:   *)
(* its secret belongs to a request that has ended and is never written     *)
(* again (TokenSpent), and a request that began with it stops at the       *)
(* session (DoomedStopped) as one of a blocked user does at the user       *)
(* (BarredStopped).                                                        *)
(***************************************************************************)
EXTENDS Sessions, TLAPS

\* Each operation has its own statements.
Route(op, pc) ==
  /\ pc = "create" => op = "register"
  /\ pc = "status" => op = "updateUser"
  /\ pc \in {"delete", "replace"} => op \in {"register", "updateUser"}
  /\ pc = "session" => op \in {"refresh", "logout"}
  /\ pc = "user" => op \in {"login", "refresh", "me"}
  /\ pc = "roles" => op \in {"login", "refresh", "me", "updateUser"}
  /\ pc = "open" => op = "login"
  /\ pc = "rotate" => op \in {"login", "refresh"}
  /\ pc = "revoke" => op \in {"login", "refresh", "logout"}
  /\ pc = "close" => op = "logout"

Routed(r) == Route(req[r].op, req[r].pc)

\* A request knows its session, if it has one, and its user once it has begun.
Addressed(r) ==
  /\ req[r].op \in {"refresh", "logout"} /\ req[r].pc # "new" => req[r].session # None
  /\ req[r].op = "login" /\ req[r].pc \in {"rotate", "revoke", "ok"} => req[r].session # None
  /\ req[r].op \in {"register", "me", "updateUser"} => req[r].session = None
  /\ req[r].op = "login" /\ req[r].pc \in {"new", "user", "roles", "open"}
       => req[r].session = None
  /\ req[r].session # None => session[req[r].session] # None
  /\ req[r].pc # "new" => UserOf(r) \in Users
  /\ req[r].pc \in {"create", "delete", "replace"} => req[r].list \in SUBSET Roles

\* No step writes this secret any more.
Spent(x) == x = First \/ (x \in Requests /\ req[x].pc = "ok")

TokenSpent(r) ==
  req[r].op \in {"refresh", "logout"} /\ req[r].pc # "new" => Spent(req[r].secret)

\* A request that began with a bad token does not get past the session.
DoomedStopped(r) ==
  /\ req[r].op = "login" => ~req[r].doomed
  /\ req[r].op = "refresh" /\ req[r].pc \in {"user", "roles", "rotate", "ok"} => ~req[r].doomed
  /\ req[r].op = "refresh" /\ req[r].pc = "session" /\ req[r].doomed
       => ~Good(req[r].session, req[r].secret)

\* One whose user has not been active since it began does not get past the user.
BarredStopped(r) ==
  req[r].op \in {"login", "refresh"} =>
    /\ req[r].pc \in {"roles", "open", "rotate", "ok"} => ~req[r].barred
    /\ req[r].pc \in {"session", "user"} /\ req[r].barred => status[UserOf(r)] # "ACTIVE"

\* BadTokenRevokes, of one request.
Closes(r) ==
  /\ \/ req[r].op = "refresh" /\ req[r].pc = "rejected" /\ req[r].doomed
     \/ req[r].op = "logout" /\ req[r].pc = "ok"
  /\ ~req[r].lapsed
  => session[req[r].session].revoked

Local(r) ==
  /\ Routed(r)
  /\ Addressed(r)
  /\ TokenSpent(r)
  /\ DoomedStopped(r)
  /\ BarredStopped(r)
  /\ Closes(r)

\* Two replacements of the roles of a user at once have been noticed, and one that
\* is alone has seen all the rows there are.
Replacers ==
  \A r \in Requests : req[r].pc = "replace" /\ req[r].user \notin overlapped =>
    /\ req[r].snapshot = roles[req[r].user]
    /\ \A q \in Requests : req[q].pc = "replace" /\ req[q].user = req[r].user => q = r

IInv == TypeOK /\ (\A r \in Requests : Local(r)) /\ Replacers /\ RolesAsAsked

------------------------------------------------------------------------------
\* What a step may do to the sessions: a row stays, with its user; a revoked one
\* stays revoked, and a bad token with a spent secret stays bad.
SessionsGrow ==
  /\ session' \in [Sessions -> Session \union {None}]
  /\ \A s \in Sessions : session[s] # None =>
       /\ session'[s] # None
       /\ session'[s].user = session[s].user
       /\ session[s].revoked => session'[s].revoked
       /\ \A x \in Secrets : Spent(x) /\ ~Good(s, x) => ~Good(s, x)'

LEMMA SameSessionsGrow == TypeOK /\ UNCHANGED session => SessionsGrow
BY DEF SessionsGrow, TypeOK, Good, Matches

\* A row s that gets revoked or expires.
LEMMA WorseSessionsGrow ==
  ASSUME TypeOK, NEW s \in Sessions, session[s] # None,
         \/ session' = [session EXCEPT ![s].revoked = TRUE]
         \/ session' = [session EXCEPT ![s].expired = TRUE]
  PROVE  SessionsGrow
<1>1. session[s] \in Session
  BY DEF TypeOK
<1>2. /\ session'[s] \in Session
      /\ session'[s].user = session[s].user
      /\ session'[s].secret = session[s].secret
      /\ session'[s].bare = session[s].bare
      /\ session[s].revoked => session'[s].revoked
      /\ session[s].expired => session'[s].expired
  <2>1. CASE session' = [session EXCEPT ![s].revoked = TRUE]
    <3>1. session'[s] = [session[s] EXCEPT !.revoked = TRUE]
      BY <2>1 DEF TypeOK
    <3> QED
      BY <1>1, <3>1 DEF Session
  <2>2. CASE session' = [session EXCEPT ![s].expired = TRUE]
    <3>1. session'[s] = [session[s] EXCEPT !.expired = TRUE]
      BY <2>2 DEF TypeOK
    <3> QED
      BY <1>1, <3>1 DEF Session
  <2> QED
    BY <2>1, <2>2
<1>3. \A t \in Sessions : t # s => session'[t] = session[t]
  BY DEF TypeOK
<1>4. session' \in [Sessions -> Session \union {None}]
  BY <1>2, <1>3 DEF TypeOK
<1> QED
  BY <1>2, <1>3, <1>4, RowsAssumption DEF SessionsGrow, Good, Matches

\* A request that no step of its own moves keeps its part of the invariant.
LEMMA OthersKept ==
  ASSUME IInv, SessionsGrow, NEW q \in Requests,
         req'[q] \in Request,
         req'[q].op = req[q].op, req'[q].pc = req[q].pc, req'[q].user = req[q].user,
         req'[q].session = req[q].session, req'[q].secret = req[q].secret,
         req'[q].list = req[q].list, req'[q].doomed = req[q].doomed,
         req'[q].lapsed = req[q].lapsed,
         req'[q].barred => req[q].barred,
         req'[q].barred /\ status[UserOf(q)] # "ACTIVE" => status'[UserOf(q)] # "ACTIVE",
         \A x \in Requests : req[x].pc = "ok" => req'[x].pc = "ok"
  PROVE  Local(q)'
<1>1. Local(q) /\ req[q] \in Request
  BY DEF IInv, TypeOK
<1>2. req[q].session # None => req[q].session \in Sessions /\ session[req[q].session] # None
  BY <1>1 DEF Request, Local, Addressed
<1>3. UserOf(q)' = UserOf(q)
  BY <1>2 DEF UserOf, SessionsGrow
<1>4. Routed(q)'
  BY <1>1 DEF Local, Routed
<1>5. Addressed(q)'
  BY <1>1, <1>2, <1>3 DEF Local, Addressed, SessionsGrow
<1>6. \A x : Spent(x) => Spent(x)'
  BY DEF Spent
<1>7. TokenSpent(q)'
  BY <1>1, <1>6 DEF Local, TokenSpent
<1>8. DoomedStopped(q)'
  <2>1. req[q].op = "refresh" /\ req[q].pc = "session" /\ req[q].doomed
          => ~Good(req[q].session, req[q].secret)'
    <3> SUFFICES ASSUME req[q].op = "refresh", req[q].pc = "session", req[q].doomed
                 PROVE  ~Good(req[q].session, req[q].secret)'
      OBVIOUS
    <3>1. Spent(req[q].secret) /\ ~Good(req[q].session, req[q].secret)
      BY <1>1 DEF Local, TokenSpent, DoomedStopped
    <3>2. req[q].session # None
      BY <1>1 DEF Local, Addressed
    <3>3. req[q].secret \in Secrets
      BY <3>1 DEF Spent, Secrets
    <3> QED
      BY <1>2, <3>1, <3>2, <3>3 DEF SessionsGrow
  <2> QED
    BY <1>1, <2>1 DEF Local, DoomedStopped
<1>9. BarredStopped(q)'
  BY <1>1, <1>3 DEF Local, BarredStopped
<1>10. Closes(q)'
  BY <1>1, <1>2 DEF Local, Closes, SessionsGrow, Addressed
<1> QED
  BY <1>4, <1>5, <1>7, <1>8, <1>9, <1>10 DEF Local

\* The tables of users and roles, in the invariant, do not depend on the requests
\* that are not about to insert roles.
LEMMA MoveOn ==
  ASSUME IInv, SessionsGrow, NEW r \in Requests, NEW q \in Request,
         req' = [req EXCEPT ![r] = q], UNCHANGED userVars,
         req[r].pc # "ok", q.pc # "replace", Local(r)'
  PROVE  IInv'
<1>1. req' \in [Requests -> Request]
  BY DEF IInv, TypeOK
<1>2. \A p \in Requests : req'[p] = IF p = r THEN q ELSE req[p]
  BY DEF IInv, TypeOK
<1>3. TypeOK'
  BY <1>1 DEF IInv, TypeOK, userVars, SessionsGrow
<1>4. ASSUME NEW p \in Requests, p # r
      PROVE  Local(p)'
  <2>1. req'[p] = req[p] /\ status' = status
    BY <1>2, <1>4 DEF userVars
  <2>2. req[p] \in Request
    BY DEF IInv, TypeOK
  <2>3. \A x \in Requests : req[x].pc = "ok" => req'[x].pc = "ok"
    BY <1>2
  <2>4. status[UserOf(p)] # "ACTIVE" => status'[UserOf(p)] # "ACTIVE"
    BY <2>1
  <2> QED
    BY <2>1, <2>2, <2>3, <2>4, OthersKept
<1>5. \A p \in Requests : Local(p)'
  BY <1>4
<1>6. Replacers'
  BY <1>2 DEF IInv, Replacers, userVars
<1>7. RolesAsAsked'
  BY DEF IInv, RolesAsAsked, userVars
<1> QED
  BY <1>3, <1>5, <1>6, <1>7 DEF IInv

\* In particular one that only moves its pc, past its arrival and its session.
LEMMA GotoIInv ==
  ASSUME IInv, SessionsGrow, NEW r \in Requests, NEW label \in PC, Goto(r, label),
         UNCHANGED userVars,
         req[r].pc # "new", req[r].pc # "ok",
         label \notin {"new", "session", "create", "delete", "replace"},
         Route(req[r].op, label),
         req[r].op = "login" /\ label \in {"rotate", "revoke", "ok"} => req[r].session # None,
         req[r].op = "login" /\ label \in {"user", "roles", "open"} => req[r].session = None,
         req[r].op = "refresh" /\ label \in {"user", "roles", "rotate", "ok"}
           => ~req[r].doomed,
         req[r].op \in {"login", "refresh"} =>
           /\ label \in {"roles", "open", "rotate", "ok"} => ~req[r].barred
           /\ label = "user" /\ req[r].barred => status[UserOf(r)] # "ACTIVE",
         req[r].op = "refresh" /\ label = "rejected" /\ req[r].doomed
           => session'[req[r].session].revoked,
         req[r].op = "logout" /\ label = "ok" => session'[req[r].session].revoked
  PROVE  IInv'
<1> DEFINE q == [req[r] EXCEPT !.pc = label]
<1>1. Local(r) /\ req[r] \in Request
  BY DEF IInv, TypeOK
<1>2. /\ q \in Request
      /\ q.pc = label
      /\ q.op = req[r].op /\ q.user = req[r].user /\ q.session = req[r].session
      /\ q.secret = req[r].secret /\ q.list = req[r].list
      /\ q.doomed = req[r].doomed /\ q.barred = req[r].barred
  BY <1>1 DEF Request
<1>3. req' = [req EXCEPT ![r] = q]
  BY DEF Goto
<1> HIDE DEF q
<1>4. \A p \in Requests : req'[p] = IF p = r THEN q ELSE req[p]
  BY <1>3 DEF IInv, TypeOK
<1>5. req[r].session # None => req[r].session \in Sessions /\ session[req[r].session] # None
  BY <1>1 DEF Request, Local, Addressed
<1>6. UserOf(r)' = UserOf(r)
  BY <1>2, <1>4, <1>5 DEF UserOf, SessionsGrow
<1>7. Local(r)'
  <2>1. Routed(r)'
    BY <1>2, <1>4 DEF Routed
  <2>2. Addressed(r)'
    BY <1>1, <1>2, <1>4, <1>5, <1>6 DEF Local, Addressed, SessionsGrow
  <2>3. TokenSpent(r)'
    BY <1>1, <1>2, <1>4 DEF Local, TokenSpent, Spent
  <2>4. DoomedStopped(r)'
    BY <1>1, <1>2, <1>4 DEF Local, DoomedStopped
  <2>5. BarredStopped(r)'
    BY <1>2, <1>4, <1>6 DEF BarredStopped, userVars
  <2>6. Closes(r)'
    BY <1>2, <1>4 DEF Closes
  <2> QED
    BY <2>1, <2>2, <2>3, <2>4, <2>5, <2>6 DEF Local
<1> QED
  BY <1>2, <1>3, <1>7, MoveOn

------------------------------------------------------------------------------
\* Reading the session.
LEMMA GetSessionIInv ==
  ASSUME IInv, NEW r \in Requests, GetSession(r)
  PROVE  IInv'
<1> DEFINE row == session[req[r].session]
<1>1. Local(r) /\ req[r] \in Request /\ req[r].pc = "session" /\ TypeOK
  BY DEF IInv, TypeOK, GetSession, At
<1>2. req[r].op \in {"refresh", "logout"}
  BY <1>1 DEF Local, Routed, Route
<1>3. SessionsGrow /\ UNCHANGED userVars
  BY <1>1, SameSessionsGrow DEF GetSession
<1>4. req[r].session \in Sessions
  BY <1>1, <1>2 DEF Local, Addressed, Request
<1>5. UNCHANGED session
  BY DEF GetSession
<1>6. CASE Goto(r, "ok") /\ req[r].op = "logout" /\ row.revoked
  BY <1>1, <1>2, <1>3, <1>5, <1>6, GotoIInv DEF Route, PC
<1>7. CASE Goto(r, "rejected") /\ req[r].op = "refresh" /\ row.revoked
  BY <1>1, <1>2, <1>3, <1>5, <1>7, GotoIInv DEF Route, PC
<1>8. CASE Goto(r, "revoke") \/ (Goto(r, "close") /\ req[r].op = "logout")
  BY <1>1, <1>2, <1>3, <1>8, GotoIInv DEF Route, PC
<1>9. CASE Goto(r, "user") /\ req[r].op = "refresh" /\ Good(req[r].session, req[r].secret)
  <2>1. ~req[r].doomed
    BY <1>1, <1>9 DEF Local, DoomedStopped
  <2>2. req[r].barred => status[UserOf(r)] # "ACTIVE"
    BY <1>1, <1>9 DEF Local, BarredStopped
  <2> QED
    BY <1>1, <1>3, <1>9, <2>1, <2>2, GotoIInv DEF Route, PC
<1>10. Goto(r, CASE row.revoked -> IF Op(r) = "logout" THEN "ok" ELSE "rejected"
                 [] ~row.revoked /\ ~Matches(row, req[r].secret) -> "revoke"
                 [] OTHER -> IF Op(r) = "logout" THEN "close"
                             ELSE IF row.expired THEN "revoke" ELSE "user")
  BY Zenon DEF GetSession
<1>11. CASE row.revoked
  BY <1>2, <1>6, <1>7, <1>10, <1>11 DEF Op
<1>12. CASE ~row.revoked /\ ~Matches(row, req[r].secret)
  BY <1>8, <1>10, <1>12
<1>13. CASE ~row.revoked /\ Matches(row, req[r].secret)
  BY <1>2, <1>8, <1>9, <1>10, <1>13 DEF Op, Good
<1> QED
  BY <1>11, <1>12, <1>13

\* Reading the user and the roles, and failures.
LEMMA ReadIInv ==
  ASSUME IInv, NEW r \in Requests, GetUser(r) \/ ListRoles(r) \/ RotateFails(r) \/ Fail(r)
  PROVE  IInv'
<1>1. Local(r) /\ req[r] \in Request /\ TypeOK
  BY DEF IInv, TypeOK
<1>2. SessionsGrow /\ UNCHANGED userVars
  BY <1>1, SameSessionsGrow DEF GetUser, ListRoles, RotateFails, Fail
<1>3. CASE GetUser(r)
  <2>1. req[r].pc = "user" /\ req[r].op \in {"login", "refresh", "me"}
    BY <1>1, <1>3 DEF GetUser, At, Local, Routed, Route
  <2>2. ~(req[r].op = "refresh" /\ req[r].doomed)
    BY <1>1, <2>1 DEF Local, DoomedStopped
  <2>3. CASE Goto(r, "rejected")
    BY <1>2, <2>1, <2>2, <2>3, GotoIInv DEF Route, PC
  <2>4. CASE Goto(r, "roles") /\ (status[UserOf(r)] = "ACTIVE" \/ req[r].op = "me")
    <3>1. req[r].op \in {"login", "refresh"} => ~req[r].barred
      BY <1>1, <2>1, <2>4 DEF Local, BarredStopped
    <3>2. req[r].op = "login" => req[r].session = None
      BY <1>1, <2>1 DEF Local, Addressed
    <3> QED
      BY <1>2, <2>1, <2>2, <2>4, <3>1, <3>2, GotoIInv DEF Route, PC
  <2> QED
    BY <1>3, <2>3, <2>4 DEF GetUser, Op
<1>4. CASE ListRoles(r)
  <2>1. req[r].pc = "roles" /\ req[r].op \in {"login", "refresh", "me", "updateUser"}
    BY <1>1, <1>4 DEF ListRoles, At, Local, Routed, Route
  <2>2. ~(req[r].op = "refresh" /\ req[r].doomed)
    BY <1>1, <2>1 DEF Local, DoomedStopped
  <2>3. req[r].op \in {"login", "refresh"} => ~req[r].barred
    BY <1>1, <2>1 DEF Local, BarredStopped
  <2>4. req[r].op = "login" => req[r].session = None
    BY <1>1, <2>1 DEF Local, Addressed
  <2>5. CASE req[r].op = "login" /\ Goto(r, "open")
    BY <1>2, <2>1, <2>3, <2>4, <2>5, GotoIInv DEF Route, PC
  <2>6. CASE req[r].op = "refresh" /\ Goto(r, "rotate")
    BY <1>2, <2>1, <2>2, <2>3, <2>6, GotoIInv DEF Route, PC
  <2>7. CASE req[r].op \in {"me", "updateUser"} /\ Goto(r, "ok")
    BY <1>2, <2>1, <2>7, GotoIInv DEF Route, PC
  <2> QED
    BY <1>4, <2>1, <2>5, <2>6, <2>7 DEF ListRoles, Op
<1>5. CASE RotateFails(r)
  <2>1. req[r].pc = "rotate" /\ req[r].op = "login" /\ Goto(r, "revoke")
    BY <1>5 DEF RotateFails, At, Op
  <2>2. req[r].session # None
    BY <1>1, <2>1 DEF Local, Addressed
  <2> QED
    BY <1>2, <2>1, <2>2, GotoIInv DEF Route, PC
<1>6. CASE Fail(r)
  BY <1>2, <1>6, GotoIInv DEF Fail, Route, PC
<1> QED
  BY <1>3, <1>4, <1>5, <1>6

\* A bad token, a logout or the failure of a login revokes the session.
LEMMA RevokeIInv ==
  ASSUME IInv, NEW r \in Requests, Revoke(r)
  PROVE  IInv'
<1> DEFINE s == req[r].session
<1>1. Local(r) /\ req[r] \in Request /\ TypeOK /\ UNCHANGED userVars
  BY DEF IInv, TypeOK, Revoke
<1>2. /\ req[r].pc \in {"revoke", "close"} /\ req[r].op \in {"login", "refresh", "logout"}
      /\ req[r].pc = "close" => req[r].op = "logout"
  BY <1>1 DEF Revoke, Local, Routed, Route
<1>3. s # None
  BY <1>1, <1>2 DEF Local, Addressed
<1>4. s \in Sessions /\ session[s] # None /\ session[s] \in Session
  BY <1>1, <1>3 DEF Local, Addressed, Request, TypeOK
<1>5. session' = [session EXCEPT ![s].revoked = TRUE]
  BY DEF Revoke
<1>6. SessionsGrow
  BY <1>1, <1>4, <1>5, WorseSessionsGrow
<1>7. session'[s].revoked
  <2>1. session'[s] = [session[s] EXCEPT !.revoked = TRUE]
    BY <1>1, <1>4, <1>5 DEF TypeOK
  <2> QED
    BY <1>4, <2>1 DEF Session
<1>8. CASE req[r].op = "logout" /\ Goto(r, "ok")
  BY <1>1, <1>2, <1>6, <1>7, <1>8, GotoIInv DEF Route, PC
<1>9. CASE Goto(r, "rejected")
  BY <1>1, <1>2, <1>6, <1>7, <1>9, GotoIInv DEF Route, PC
<1> QED
  BY <1>8, <1>9 DEF Revoke, Op

\* A revocation that fails is remembered, and moves nothing but the request.
LEMMA RevokeFailsIInv ==
  ASSUME IInv, NEW r \in Requests, RevokeFails(r)
  PROVE  IInv'
<1> DEFINE label == IF req[r].op = "logout" THEN "ok" ELSE "rejected"
           q == [req[r] EXCEPT !.pc = label, !.lapsed = TRUE]
<1>1. Local(r) /\ req[r] \in Request /\ TypeOK /\ req[r].pc = "revoke" /\ UNCHANGED userVars
  BY DEF IInv, TypeOK, RevokeFails, At
<1>2. req' = [req EXCEPT ![r] = q]
  BY DEF RevokeFails, Op
<1>3. req[r].op \in {"login", "refresh", "logout"}
  BY <1>1 DEF Local, Routed, Route
<1>4. /\ q \in Request
      /\ q.pc = label /\ q.lapsed = TRUE
      /\ q.op = req[r].op /\ q.user = req[r].user /\ q.session = req[r].session
      /\ q.secret = req[r].secret /\ q.list = req[r].list
      /\ q.doomed = req[r].doomed /\ q.barred = req[r].barred
  BY <1>1 DEF Request, PC
<1> HIDE DEF q
<1>5. \A p \in Requests : req'[p] = IF p = r THEN q ELSE req[p]
  BY <1>1, <1>2 DEF TypeOK
<1>6. SessionsGrow
  BY <1>1, SameSessionsGrow DEF RevokeFails
<1>7. req[r].session # None => req[r].session \in Sessions /\ session[req[r].session] # None
  BY <1>1 DEF Request, Local, Addressed
<1>8. UserOf(r)' = UserOf(r)
  BY <1>4, <1>5, <1>7, <1>6 DEF UserOf, SessionsGrow
<1>9. Local(r)'
  <2>1. Routed(r)' /\ Closes(r)'
    BY <1>3, <1>4, <1>5 DEF Routed, Route, Closes
  <2>2. Addressed(r)'
    BY <1>1, <1>3, <1>4, <1>5, <1>6, <1>7, <1>8 DEF Local, Addressed, SessionsGrow
  <2>3. TokenSpent(r)'
    BY <1>1, <1>4, <1>5 DEF Local, TokenSpent, Spent
  <2>4. DoomedStopped(r)' /\ BarredStopped(r)'
    BY <1>1, <1>3, <1>4, <1>5 DEF Local, DoomedStopped, BarredStopped
  <2> QED
    BY <2>1, <2>2, <2>3, <2>4 DEF Local
<1> QED
  BY <1>1, <1>2, <1>4, <1>6, <1>9, MoveOn

\* A new session: no request has its id yet, and its user is that of the login.
LEMMA OpenSessionIInv ==
  ASSUME IInv, NEW r \in Requests, OpenSession(r)
  PROVE  IInv'
<1>1. /\ Local(r) /\ req[r] \in Request /\ TypeOK /\ UNCHANGED userVars
      /\ req[r].pc = "open" /\ req[r].op = "login"
  BY DEF IInv, TypeOK, OpenSession, At, Local, Routed, Route
<1>2. req[r].session = None /\ req[r].user \in Users
  BY <1>1 DEF Local, Addressed, UserOf
<1> DEFINE row == [user |-> req[r].user, secret |-> r, bare |-> TRUE,
                   revoked |-> FALSE, expired |-> FALSE]
<1>3. PICK s \in Sessions :
        /\ session[s] = None
        /\ session' = [session EXCEPT ![s] = row]
        /\ req' = [req EXCEPT ![r].session = s, ![r].pc = "rotate"]
  BY DEF OpenSession
<1>4. row \in Session /\ row.user = req[r].user
  BY <1>2 DEF Session, Secrets
<1> HIDE DEF row
<1>5. row # None /\ s # None
  BY <1>4, RowsAssumption, ConstantsAssumption
<1>6. \A t \in Sessions : session'[t] = IF t = s THEN row ELSE session[t]
  BY <1>1, <1>3 DEF TypeOK
<1>7. SessionsGrow
  BY <1>1, <1>3, <1>4, <1>6 DEF SessionsGrow, TypeOK, Good, Matches
<1> DEFINE q == [req[r] EXCEPT !.session = s, !.pc = "rotate"]
<1>8. /\ q \in Request
      /\ q.pc = "rotate" /\ q.op = "login" /\ q.session = s
      /\ q.doomed = req[r].doomed /\ q.barred = req[r].barred
  BY <1>1 DEF Request, PC
<1>9. req' = [req EXCEPT ![r] = q]
  BY <1>3
<1> HIDE DEF q
<1>10. req'[r] = q
  BY <1>1, <1>9 DEF TypeOK
<1>11. Routed(r)' /\ TokenSpent(r)' /\ Closes(r)'
  BY <1>8, <1>10 DEF Routed, Route, TokenSpent, Closes
<1>12. Addressed(r)'
  BY <1>2, <1>4, <1>5, <1>6, <1>8, <1>10 DEF Addressed, UserOf
<1>13. DoomedStopped(r)' /\ BarredStopped(r)'
  BY <1>1, <1>8, <1>10 DEF Local, DoomedStopped, BarredStopped
<1>14. Local(r)'
  BY <1>11, <1>12, <1>13 DEF Local
<1> QED
  BY <1>1, <1>7, <1>8, <1>9, <1>14, MoveOn

\* The new secret is that of a request that has not ended, so it is not spent.
LEMMA RotateRefreshIInv ==
  ASSUME IInv, NEW r \in Requests, RotateRefresh(r)
  PROVE  IInv'
<1> DEFINE s == req[r].session
<1>1. /\ Local(r) /\ req[r] \in Request /\ TypeOK /\ UNCHANGED userVars
      /\ req[r].pc = "rotate" /\ req[r].op \in {"login", "refresh"}
  BY DEF IInv, TypeOK, RotateRefresh, At, Local, Routed, Route
<1>2. s # None
  BY <1>1 DEF Local, Addressed
<1>3. s \in Sessions /\ session[s] # None /\ session[s] \in Session
  BY <1>1, <1>2 DEF Local, Addressed, Request, TypeOK
<1>4. session' = [session EXCEPT ![s] = [session[s] EXCEPT !.secret = r, !.bare = FALSE]]
  BY <1>1, <1>3 DEF RotateRefresh, TypeOK
<1> DEFINE row == [session[s] EXCEPT !.secret = r, !.bare = FALSE]
<1>5. /\ row \in Session
      /\ row.user = session[s].user
      /\ row.secret = r
      /\ row.revoked = session[s].revoked
  BY <1>3 DEF Session, Secrets
<1>6. session' = [session EXCEPT ![s] = row]
  BY <1>4
<1> HIDE DEF row
<1>7. \A t \in Sessions : session'[t] = IF t = s THEN row ELSE session[t]
  BY <1>1, <1>6 DEF TypeOK
<1>8. ~Spent(r)
  BY <1>1, ConstantsAssumption DEF Spent
<1>9. SessionsGrow
  <2>1. session' \in [Sessions -> Session \union {None}]
    BY <1>1, <1>5, <1>6 DEF TypeOK
  <2>2. ASSUME NEW t \in Sessions, session[t] # None
        PROVE  /\ session'[t] # None
               /\ session'[t].user = session[t].user
               /\ session[t].revoked => session'[t].revoked
    BY <1>5, <1>7, <2>2, RowsAssumption
  <2>3. ASSUME NEW t \in Sessions, NEW x \in Secrets, Spent(x), ~Good(t, x)
        PROVE  ~Good(t, x)'
    <3>1. x # r
      BY <1>8, <2>3
    <3> QED
      BY <1>5, <1>7, <2>3, <3>1 DEF Good, Matches
  <2> QED
    BY <2>1, <2>2, <2>3 DEF SessionsGrow
<1>10. req[r].op = "refresh" => ~req[r].doomed
  BY <1>1 DEF Local, DoomedStopped
<1>11. ~req[r].barred
  BY <1>1 DEF Local, BarredStopped
<1>12. Goto(r, "ok") \/ Goto(r, "failed")
  BY DEF RotateRefresh
<1> QED
  BY <1>1, <1>2, <1>9, <1>10, <1>11, <1>12, GotoIInv DEF Route, PC

\* Time passes.
LEMMA ExpireIInv ==
  ASSUME IInv, NEW s \in Sessions, Expire(s)
  PROVE  IInv'
<1>1. SessionsGrow
  BY WorseSessionsGrow DEF Expire, IInv
<1>2. UNCHANGED <<status, roles, asked, overlapped, req>>
  BY DEF Expire, userVars
<1>3. TypeOK'
  BY <1>1, <1>2 DEF IInv, TypeOK, SessionsGrow
<1>4. ASSUME NEW p \in Requests
      PROVE  Local(p)'
  <2>1. req[p] \in Request
    BY DEF IInv, TypeOK
  <2> QED
    BY <1>1, <1>2, <2>1, OthersKept
<1>5. Replacers' /\ RolesAsAsked'
  BY <1>2 DEF IInv, Replacers, RolesAsAsked
<1> QED
  BY <1>3, <1>4, <1>5 DEF IInv

------------------------------------------------------------------------------
\* User u gets status st, by a request r without a session.
LEMMA StatusIInv ==
  ASSUME IInv, NEW r \in Requests, NEW u \in Users, NEW st \in Statuses \union {"ABSENT"},
         NEW label \in {"roles", "delete"},
         req[r].op \in {"register", "updateUser"}, req[r].pc \in {"create", "status"},
         Route(req[r].op, label), label = "delete" => req[r].list \in SUBSET Roles,
         status' = [status EXCEPT ![u] = st],
         req' = [Lift(u, st) EXCEPT ![r].pc = label],
         UNCHANGED <<roles, session, asked, overlapped>>
  PROVE  IInv'
<1> DEFINE b(q) == req[q].barred /\ ~(UserOf(q) = u /\ st = "ACTIVE")
           mid(q) == [req[q] EXCEPT !.barred = b(q)]
<1>1. \A q \in Requests : req[q] \in Request
  BY DEF IInv, TypeOK
<1>2. \A q \in Requests : b(q) \in BOOLEAN
  BY <1>1 DEF Request
<1>3. req' = [[q \in Requests |-> mid(q)] EXCEPT ![r].pc = label]
  BY Zenon DEF Lift
<1> HIDE DEF b
<1>4. \A q \in Requests :
        /\ mid(q) \in Request
        /\ mid(q).op = req[q].op /\ mid(q).pc = req[q].pc /\ mid(q).user = req[q].user
        /\ mid(q).session = req[q].session /\ mid(q).secret = req[q].secret
        /\ mid(q).list = req[q].list /\ mid(q).snapshot = req[q].snapshot
        /\ mid(q).doomed = req[q].doomed /\ mid(q).lapsed = req[q].lapsed
        /\ mid(q).barred = b(q)
  BY <1>1, <1>2 DEF Request
<1> HIDE DEF mid
<1>5. \A q \in Requests : req'[q] = IF q = r THEN [mid(q) EXCEPT !.pc = label] ELSE mid(q)
  BY <1>3
<1>6. \A q \in Requests :
        /\ req'[q] \in Request
        /\ req'[q].op = req[q].op /\ req'[q].user = req[q].user
        /\ req'[q].pc = IF q = r THEN label ELSE req[q].pc
        /\ req'[q].session = req[q].session /\ req'[q].secret = req[q].secret
        /\ req'[q].list = req[q].list /\ req'[q].snapshot = req[q].snapshot
        /\ req'[q].doomed = req[q].doomed /\ req'[q].lapsed = req[q].lapsed
        /\ req'[q].barred = b(q)
  <2> TAKE q \in Requests
  <2>1. CASE q = r
    <3>1. req'[r] = [mid(r) EXCEPT !.pc = label] /\ mid(r) \in Request
      BY <1>4, <1>5
    <3>2. /\ req'[r] \in Request /\ req'[r].pc = label
          /\ req'[r].op = mid(r).op /\ req'[r].user = mid(r).user
          /\ req'[r].session = mid(r).session /\ req'[r].secret = mid(r).secret
          /\ req'[r].list = mid(r).list /\ req'[r].snapshot = mid(r).snapshot
          /\ req'[r].doomed = mid(r).doomed /\ req'[r].lapsed = mid(r).lapsed
          /\ req'[r].barred = mid(r).barred
      BY <3>1 DEF Request, PC
    <3>3. /\ mid(r).op = req[r].op /\ mid(r).user = req[r].user
          /\ mid(r).session = req[r].session /\ mid(r).secret = req[r].secret
          /\ mid(r).list = req[r].list /\ mid(r).snapshot = req[r].snapshot
          /\ mid(r).doomed = req[r].doomed /\ mid(r).lapsed = req[r].lapsed
          /\ mid(r).barred = b(r)
      BY <1>4
    <3> QED
      BY <2>1, <3>2, <3>3
  <2>2. CASE q # r
    <3>1. req'[q] = mid(q)
      BY <1>5, <2>2
    <3>2. /\ mid(q) \in Request
          /\ mid(q).op = req[q].op /\ mid(q).pc = req[q].pc /\ mid(q).user = req[q].user
          /\ mid(q).session = req[q].session /\ mid(q).secret = req[q].secret
          /\ mid(q).list = req[q].list /\ mid(q).snapshot = req[q].snapshot
          /\ mid(q).doomed = req[q].doomed /\ mid(q).lapsed = req[q].lapsed
        /\ mid(q).barred = b(q)
      BY <1>4
    <3> QED
      BY <2>2, <3>1, <3>2
  <2> QED
    BY <2>1, <2>2
<1>7. req' \in [Requests -> Request]
  BY <1>3, <1>6
<1>8. TypeOK'
  BY <1>7 DEF IInv, TypeOK
<1>9. SessionsGrow
  BY SameSessionsGrow DEF IInv
<1>10. \A q \in Requests : b(q) => req[q].barred /\ ~(UserOf(q) = u /\ st = "ACTIVE")
  BY DEF b
<1>11. ASSUME NEW q \in Requests, q # r
       PROVE  Local(q)'
  <2>1. b(q) /\ status[UserOf(q)] # "ACTIVE" => status'[UserOf(q)] # "ACTIVE"
    BY <1>10 DEF IInv, TypeOK
  <2>2. \A x \in Requests : req[x].pc = "ok" => req'[x].pc = "ok"
    BY <1>6
  <2>3. /\ req'[q] \in Request
        /\ req'[q].op = req[q].op /\ req'[q].user = req[q].user /\ req'[q].pc = req[q].pc
        /\ req'[q].session = req[q].session /\ req'[q].secret = req[q].secret
        /\ req'[q].list = req[q].list
        /\ req'[q].doomed = req[q].doomed /\ req'[q].lapsed = req[q].lapsed
        /\ req'[q].barred = b(q)
    BY <1>6, <1>11
  <2> QED
    BY <1>9, <1>10, <2>1, <2>2, <2>3, OthersKept
<1>12. Local(r)'
  <2>1. Local(r)
    BY DEF IInv
  <2>2. req[r].session = None /\ req[r].user \in Users
    BY <2>1 DEF Local, Addressed, UserOf
  <2>3. Routed(r)' /\ Closes(r)' /\ TokenSpent(r)' /\ BarredStopped(r)' /\ DoomedStopped(r)'
    BY <1>6 DEF Routed, Closes, TokenSpent, BarredStopped, DoomedStopped
  <2>4. Addressed(r)'
    BY <1>6, <2>2 DEF Addressed, UserOf
  <2> QED
    BY <2>3, <2>4 DEF Local
<1>13. \A q \in Requests : Local(q)'
  BY <1>11, <1>12
<1>14. Replacers'
  BY <1>6 DEF IInv, Replacers
<1>15. RolesAsAsked'
  BY DEF IInv, RolesAsAsked
<1> QED
  BY <1>8, <1>13, <1>14, <1>15 DEF IInv

\* CreateUser and UpdateStatus.
LEMMA UserIInv ==
  ASSUME IInv, NEW r \in Requests, CreateUser(r) \/ UpdateStatus(r)
  PROVE  IInv'
<1> DEFINE u == req[r].user
<1>1. /\ Local(r) /\ req[r] \in Request /\ TypeOK
      /\ req[r].pc \in {"create", "status"}
  BY DEF IInv, TypeOK, CreateUser, UpdateStatus, At
<1>2. /\ req[r].op \in {"register", "updateUser"}
      /\ req[r].pc = "create" => req[r].op = "register"
      /\ req[r].pc = "status" => req[r].op = "updateUser"
  BY <1>1 DEF Local, Routed, Route
<1>3. u \in Users
  BY <1>1, <1>2 DEF Local, Addressed, UserOf
<1>4. UNCHANGED <<roles, session, asked, overlapped>>
  BY DEF CreateUser, UpdateStatus
<1>5. CASE Goto(r, "rejected") /\ UNCHANGED status
  <2>1. SessionsGrow
    BY <1>1, <1>4, SameSessionsGrow
  <2> QED
    BY <1>1, <1>2, <1>4, <1>5, <2>1, GotoIInv DEF Route, PC, userVars
<1>6. CASE CreateUser(r) /\ status[u] = "ABSENT"
  <2>1. /\ req[r].op = "register"
        /\ status' = [status EXCEPT ![u] = "ACTIVE"]
        /\ req' = [Lift(u, "ACTIVE") EXCEPT ![r].pc = "delete"]
    BY <1>2, <1>6 DEF CreateUser, At
  <2>2. req[r].list \in SUBSET Roles
    BY <1>1, <1>2, <1>6 DEF Local, Addressed, CreateUser, At
  <2> HIDE DEF u
  <2> QED
    BY <1>1, <1>3, <1>4, <2>1, <2>2, StatusIInv DEF Route, Statuses
<1>7. CASE UpdateStatus(r) /\ status[u] # "ABSENT"
  <2>1. req[r].op = "updateUser"
    BY <1>2, <1>7 DEF UpdateStatus, At
  <2> DEFINE next == IF req[r].list = None THEN "roles" ELSE "delete"
  <2>2. PICK st \in Statuses \union {status[u]} :
          /\ status' = [status EXCEPT ![u] = st]
          /\ req' = [Lift(u, st) EXCEPT ![r].pc = next]
    BY <1>7 DEF UpdateStatus
  <2>3. st \in Statuses \union {"ABSENT"}
    BY <1>1, <1>3 DEF TypeOK
  <2>4. next \in {"roles", "delete"} /\ (next = "delete" => req[r].list \in SUBSET Roles)
    <3>1. req[r].list \in (SUBSET Roles) \union {None}
      BY <1>1 DEF Request
    <3>2. CASE req[r].list = None
      BY <3>2
    <3>3. CASE req[r].list # None
      <4>1. req[r].list \in SUBSET Roles
        BY <3>1, <3>3
      <4>2. next = "delete"
        BY <3>3
      <4> QED
        BY <4>1, <4>2
    <3> QED
      BY <3>2, <3>3
  <2> HIDE DEF u, next
  <2> QED
    BY <1>1, <1>3, <1>4, <2>1, <2>2, <2>3, <2>4, StatusIInv DEF Route
<1> QED
  BY <1>5, <1>6, <1>7 DEF CreateUser, UpdateStatus

------------------------------------------------------------------------------
\* The deletion sees all the rows there are; unless another replacement is under
\* way it stays so until the rows are inserted.
LEMMA DeleteRolesIInv ==
  ASSUME IInv, NEW r \in Requests, DeleteRoles(r)
  PROVE  IInv'
<1> DEFINE u == req[r].user
           q == [req[r] EXCEPT !.snapshot = roles[u], !.pc = "replace"]
<1>1. Local(r) /\ req[r] \in Request /\ TypeOK /\ req[r].pc = "delete"
  BY DEF IInv, TypeOK, DeleteRoles, At
<1>2. req[r].op \in {"register", "updateUser"} /\ req[r].session = None
  BY <1>1 DEF Local, Routed, Route, Addressed
<1>3. u \in Users /\ req[r].list \in SUBSET Roles
  BY <1>1, <1>2 DEF Local, Addressed, UserOf
<1>4. roles[u] \in SUBSET (Roles \X Secrets)
  BY <1>1, <1>3 DEF TypeOK
<1>5. /\ q \in Request
      /\ q.op = req[r].op /\ q.pc = "replace" /\ q.user = u /\ q.session = None
      /\ q.list = req[r].list /\ q.snapshot = roles[u]
  BY <1>1, <1>2, <1>4 DEF Request, PC, Secrets
<1>6. req' = [req EXCEPT ![r] = q] /\ UNCHANGED <<status, roles, session, asked>>
  BY DEF DeleteRoles
<1>7. overlapped' = IF \E p \in Requests \ {r} : At(p, "replace") /\ req[p].user = u
                    THEN overlapped \union {u} ELSE overlapped
  BY Zenon DEF DeleteRoles
<1> HIDE DEF q
<1>8. \A p \in Requests : req'[p] = IF p = r THEN q ELSE req[p]
  BY <1>1, <1>6 DEF TypeOK
<1>9. TypeOK'
  <2>1. req' \in [Requests -> Request]
    BY <1>1, <1>5, <1>6 DEF TypeOK
  <2>2. overlapped' \subseteq Users
    BY <1>1, <1>3, <1>7 DEF TypeOK
  <2> QED
    BY <1>1, <1>6, <2>1, <2>2 DEF TypeOK
<1>10. ASSUME NEW p \in Requests
       PROVE  Local(p)'
  <2>1. CASE p = r
    <3>1. Routed(r)' /\ TokenSpent(r)' /\ DoomedStopped(r)' /\ BarredStopped(r)' /\ Closes(r)'
      BY <1>2, <1>5, <1>8
         DEF Routed, Route, TokenSpent, DoomedStopped, BarredStopped, Closes
    <3>2. Addressed(r)'
      BY <1>2, <1>3, <1>5, <1>8 DEF Addressed, UserOf
    <3> QED
      BY <2>1, <3>1, <3>2 DEF Local
  <2>2. CASE p # r
    <3>1. req'[p] = req[p] /\ req[p] \in Request
      BY <1>1, <1>8, <2>2 DEF TypeOK
    <3>2. \A x \in Requests : req[x].pc = "ok" => req'[x].pc = "ok"
      BY <1>1, <1>8
    <3>3. SessionsGrow
      BY <1>1, <1>6, SameSessionsGrow
    <3> QED
      BY <1>6, <3>1, <3>2, <3>3, OthersKept
  <2> QED
    BY <2>1, <2>2
<1>11. Replacers'
  <2>1. ASSUME NEW p \in Requests, NEW t \in Requests,
               req'[p].pc = "replace", req'[p].user \notin overlapped',
               req'[t].pc = "replace", req'[t].user = req'[p].user
        PROVE  t = p
    <3>1. req'[p].user \notin overlapped
      BY <1>7, <2>1
    <3>2. CASE p # r /\ t # r
      BY <1>8, <2>1, <3>1, <3>2 DEF IInv, Replacers
    <3>3. CASE p = r /\ t # r
      BY <1>5, <1>7, <1>8, <2>1, <3>3 DEF At
    <3>4. CASE p # r /\ t = r
      BY <1>5, <1>7, <1>8, <2>1, <3>4 DEF At
    <3> QED
      BY <3>2, <3>3, <3>4
  <2>2. ASSUME NEW p \in Requests, req'[p].pc = "replace", req'[p].user \notin overlapped'
        PROVE  req'[p].snapshot = roles'[req'[p].user]
    <3>1. req'[p].user \notin overlapped
      BY <1>7, <2>2
    <3> QED
      BY <1>5, <1>6, <1>8, <2>2, <3>1 DEF IInv, Replacers
  <2> QED
    BY <2>1, <2>2 DEF Replacers
<1>12. RolesAsAsked'
  <2>1. \A v \in Users : v \notin overlapped' => v \notin overlapped
    BY <1>7
  <2> QED
    BY <1>6, <2>1 DEF IInv, RolesAsAsked, Names
<1> QED
  BY <1>9, <1>10, <1>11, <1>12 DEF IInv

\* The rows of a replacement that is alone are all the user has afterwards.
LEMMA ReplaceRolesIInv ==
  ASSUME IInv, NEW r \in Requests, ReplaceRoles(r)
  PROVE  IInv'
<1> DEFINE u == req[r].user
           list == req[r].list
           kept == roles[u] \ req[r].snapshot
           new == {<<role, r>> : role \in list}
           label == IF req[r].op = "register" THEN "ok" ELSE "roles"
           q == [req[r] EXCEPT !.pc = label]
<1>1. Local(r) /\ req[r] \in Request /\ TypeOK /\ req[r].pc = "replace"
  BY DEF IInv, TypeOK, ReplaceRoles, At
<1>2. req[r].op \in {"register", "updateUser"} /\ req[r].session = None
  BY <1>1 DEF Local, Routed, Route, Addressed
<1>3. u \in Users /\ list \in SUBSET Roles
  BY <1>1, <1>2 DEF Local, Addressed, UserOf
<1>4. /\ Names(kept) \intersect list = {}
      /\ roles' = [roles EXCEPT ![u] = kept \union new]
      /\ asked' = [asked EXCEPT ![u] = list]
      /\ req' = [req EXCEPT ![r] = q]
      /\ UNCHANGED <<status, session, overlapped>>
  BY DEF ReplaceRoles, Goto, Op
<1>5. /\ q \in Request
      /\ q.op = req[r].op /\ q.pc = label /\ q.user = u /\ q.session = None
  BY <1>1, <1>2 DEF Request, PC
<1> HIDE DEF q
<1>6. \A p \in Requests : req'[p] = IF p = r THEN q ELSE req[p]
  BY <1>1, <1>4 DEF TypeOK
<1>7. TypeOK'
  <2>1. req' \in [Requests -> Request]
    BY <1>1, <1>4, <1>5 DEF TypeOK
  <2>2. kept \union new \in SUBSET (Roles \X Secrets)
    BY <1>1, <1>3 DEF TypeOK, Secrets
  <2>3. ASSUME NEW x \in kept \union new, NEW y \in kept \union new, x[1] = y[1]
        PROVE  x = y
    <3>1. \A z \in kept : z[1] \in Names(kept)
      BY DEF Names
    <3>2. \A z \in new : z[1] \in list /\ z = <<z[1], r>>
      OBVIOUS
    <3>3. CASE x \in kept /\ y \in kept
      BY <1>1, <1>3, <2>3, <3>3 DEF TypeOK
    <3>4. CASE x \in new /\ y \in new
      BY <2>3, <3>2, <3>4
    <3>5. CASE (x \in kept /\ y \in new) \/ (x \in new /\ y \in kept)
      <4> HIDE DEF kept, new, list
      <4> QED
        BY <1>4, <2>3, <3>1, <3>2, <3>5
    <3> QED
      BY <3>3, <3>4, <3>5
  <2> HIDE DEF kept, new
  <2>4. roles' \in [Users -> SUBSET (Roles \X Secrets)]
    BY <1>1, <1>4, <2>2 DEF TypeOK
  <2>5. \A v \in Users : \A x, y \in roles'[v] : x[1] = y[1] => x = y
    BY <1>1, <1>4, <2>3 DEF TypeOK
  <2>6. asked' \in [Users -> SUBSET Roles]
    BY <1>1, <1>3, <1>4 DEF TypeOK
  <2> QED
    BY <1>1, <1>4, <2>1, <2>4, <2>5, <2>6 DEF TypeOK
<1>8. ASSUME NEW p \in Requests
      PROVE  Local(p)'
  <2>1. CASE p = r
    <3>1. Routed(r)' /\ TokenSpent(r)' /\ DoomedStopped(r)' /\ BarredStopped(r)' /\ Closes(r)'
      BY <1>2, <1>5, <1>6
         DEF Routed, Route, TokenSpent, DoomedStopped, BarredStopped, Closes
    <3>2. Addressed(r)'
      BY <1>2, <1>3, <1>5, <1>6 DEF Addressed, UserOf
    <3> QED
      BY <2>1, <3>1, <3>2 DEF Local
  <2>2. CASE p # r
    <3>1. req'[p] = req[p] /\ req[p] \in Request
      BY <1>1, <1>6, <2>2 DEF TypeOK
    <3>2. \A x \in Requests : req[x].pc = "ok" => req'[x].pc = "ok"
      BY <1>1, <1>6
    <3>3. SessionsGrow
      BY <1>1, <1>4, SameSessionsGrow
    <3> QED
      BY <1>4, <3>1, <3>2, <3>3, OthersKept
  <2> QED
    BY <2>1, <2>2
<1>9. Replacers'
  <2>1. ASSUME NEW p \in Requests, req'[p].pc = "replace", req'[p].user \notin overlapped'
        PROVE  /\ p # r /\ req[p] = req'[p]
               /\ req[p].user # u
    <3>1. p # r /\ req[p] = req'[p]
      BY <1>5, <1>6, <2>1
    <3> QED
      BY <1>1, <1>4, <2>1, <3>1 DEF IInv, Replacers
  <2>2. \A v \in Users : v # u => roles'[v] = roles[v]
    BY <1>1, <1>4 DEF TypeOK
  <2>3. ASSUME NEW p \in Requests, req'[p].pc = "replace", req'[p].user \notin overlapped'
        PROVE  req'[p].snapshot = roles'[req'[p].user]
    <3>1. req[p].snapshot = roles[req[p].user]
      BY <1>4, <2>1, <2>3 DEF IInv, Replacers
    <3>2. roles'[req[p].user] = roles[req[p].user]
      BY <1>1, <1>4, <2>1, <2>3 DEF TypeOK
    <3> QED
      BY <2>1, <2>3, <3>1, <3>2
  <2>4. ASSUME NEW p \in Requests, NEW t \in Requests,
               req'[p].pc = "replace", req'[p].user \notin overlapped',
               req'[t].pc = "replace", req'[t].user = req'[p].user
        PROVE  t = p
    <3>1. req'[t].user \notin overlapped'
      BY <2>4
    <3>2. req[p] = req'[p] /\ req[t] = req'[t]
      BY <2>1, <2>4, <3>1
    <3> QED
      BY <1>4, <2>4, <3>2 DEF IInv, Replacers
  <2> QED
    BY <2>3, <2>4 DEF Replacers
<1>10. RolesAsAsked'
  <2> SUFFICES ASSUME NEW v \in Users
               PROVE  /\ asked'[v] \subseteq Names(roles'[v])
                      /\ v \notin overlapped => Names(roles'[v]) \subseteq asked'[v]
    BY <1>4 DEF RolesAsAsked, Names
  <2>1. CASE v = u
    <3>1. roles'[u] = kept \union new /\ asked'[u] = list
      BY <1>1, <1>3, <1>4 DEF TypeOK
    <3>2. \A role \in list : <<role, r>> \in new /\ <<role, r>>[1] = role
      OBVIOUS
    <3>3. \A row \in new : row[1] \in list
      OBVIOUS
    <3>4. u \notin overlapped => kept = {}
      BY <1>1, <2>1 DEF IInv, Replacers
    <3> HIDE DEF kept, new, list
    <3>5. list \subseteq Names(kept \union new)
      <4> SUFFICES ASSUME NEW role \in list PROVE role \in Names(kept \union new)
        OBVIOUS
      <4>1. <<role, r>> \in kept \union new /\ role = <<role, r>>[1]
        BY <3>2
      <4> QED
        BY <4>1, Zenon DEF Names
    <3>6. u \notin overlapped => Names(kept \union new) \subseteq list
      BY <3>3, <3>4 DEF Names
    <3> QED
      BY <2>1, <3>1, <3>5, <3>6
  <2>2. CASE v # u
    BY <1>1, <1>4, <2>2 DEF IInv, TypeOK, RolesAsAsked
  <2> QED
    BY <2>1, <2>2
<1> QED
  BY <1>7, <1>8, <1>9, <1>10 DEF IInv

------------------------------------------------------------------------------
\* A request about a user arrives.
LEMMA BeginUserIInv ==
  ASSUME IInv, NEW r \in Requests, NEW u \in Users, NEW list \in (SUBSET Roles) \union {None},
         NEW op \in {"register", "login", "me", "updateUser"},
         NEW label \in {"create", "user", "status"}, Route(op, label),
         op = "register" => list \in SUBSET Roles, label = "create" => op = "register",
         BeginUser(r, op, label, u, list)
  PROVE  IInv'
<1> DEFINE barred == status[u] # "ACTIVE"
           q == [req[r] EXCEPT !.user = u, !.list = list, !.pc = label, !.barred = barred]
<1>1. /\ Local(r) /\ req[r] \in Request /\ TypeOK /\ req[r].pc = "new" /\ req[r].op = op
      /\ UNCHANGED userVars /\ UNCHANGED session
  BY DEF IInv, TypeOK, BeginUser, At, Op
<1>2. req' = [req EXCEPT ![r] = q]
  BY Zenon DEF BeginUser
<1>3. barred \in BOOLEAN /\ (barred => status[u] # "ACTIVE")
  OBVIOUS
<1> HIDE DEF barred
<1>4. /\ q \in Request
      /\ q.op = op /\ q.pc = label /\ q.user = u /\ q.list = list
      /\ q.session = req[r].session /\ q.doomed = req[r].doomed /\ q.barred = barred
  BY <1>1, <1>3 DEF Request, PC
<1> HIDE DEF q
<1>5. req'[r] = q
  BY <1>1, <1>2 DEF TypeOK
<1>6. req[r].session = None
  BY <1>1 DEF Local, Addressed
<1>7. SessionsGrow
  BY <1>1, SameSessionsGrow
<1>8. UserOf(r)' = u
  BY <1>4, <1>5, <1>6 DEF UserOf
<1>9. Local(r)'
  <2>1. Routed(r)' /\ TokenSpent(r)' /\ Closes(r)'
    BY <1>4, <1>5 DEF Routed, TokenSpent, Closes
  <2>2. Addressed(r)'
    BY <1>4, <1>5, <1>6, <1>8 DEF Addressed
  <2>3. DoomedStopped(r)'
    BY <1>1, <1>4, <1>5 DEF Local, DoomedStopped
  <2>4. BarredStopped(r)'
    BY <1>1, <1>3, <1>4, <1>5, <1>8 DEF BarredStopped, userVars
  <2> QED
    BY <2>1, <2>2, <2>3, <2>4 DEF Local
<1> QED
  BY <1>1, <1>2, <1>4, <1>7, <1>9, MoveOn

\* A refresh token is presented; it was received, so its secret is spent.
LEMMA BeginTokenIInv ==
  ASSUME IInv, NEW r \in Requests, NEW op \in {"refresh", "logout"}, BeginToken(r, op)
  PROVE  IInv'
<1>1. /\ Local(r) /\ req[r] \in Request /\ TypeOK /\ req[r].pc = "new" /\ req[r].op = op
      /\ UNCHANGED userVars /\ UNCHANGED session
  BY DEF IInv, TypeOK, BeginToken, At, Op
<1>2. PICK s \in Sessions, secret \in Secrets :
        /\ Issued(s, secret)
        /\ req' = [req EXCEPT ![r].session = s, ![r].secret = secret, ![r].pc = "session",
                              ![r].doomed = ~Good(s, secret),
                              ![r].barred = status[session[s].user] # "ACTIVE"]
  BY DEF BeginToken
<1> DEFINE doomed == ~Good(s, secret)
           barred == status[session[s].user] # "ACTIVE"
           q == [req[r] EXCEPT !.session = s, !.secret = secret, !.pc = "session",
                               !.doomed = doomed, !.barred = barred]
<1>3. req' = [req EXCEPT ![r] = q]
  BY <1>2, Zenon
<1>4. /\ doomed \in BOOLEAN /\ (doomed => ~Good(s, secret))
      /\ barred \in BOOLEAN /\ (barred => status[session[s].user] # "ACTIVE")
  OBVIOUS
<1>5. session[s] # None /\ Spent(secret)
  <2>1. CASE secret = First /\ s = Opened /\ session[s] # None
    BY <2>1 DEF Spent
  <2>2. CASE \E p \in Requests : /\ p = secret /\ req[p].pc = "ok"
                                 /\ req[p].op \in {"login", "refresh"} /\ req[p].session = s
    <3>1. PICK p \in Requests : /\ p = secret /\ req[p].pc = "ok" /\ req[p].session = s
      BY <2>2
    <3>2. s # None
      BY ConstantsAssumption
    <3>3. session[s] # None
      BY <3>1, <3>2 DEF IInv, Local, Addressed
    <3> QED
      BY <3>1, <3>3 DEF Spent
  <2> QED
    BY <1>2, <2>1, <2>2 DEF Issued, At, Op
<1>6. s # None /\ session[s].user \in Users
  BY <1>1, <1>5, ConstantsAssumption DEF TypeOK, Session
<1> HIDE DEF doomed, barred
<1>7. /\ q \in Request
      /\ q.op = op /\ q.pc = "session" /\ q.session = s /\ q.secret = secret
      /\ q.doomed = doomed /\ q.barred = barred
  BY <1>1, <1>4 DEF Request, PC
<1> HIDE DEF q
<1>8. \A p \in Requests : req'[p] = IF p = r THEN q ELSE req[p]
  BY <1>1, <1>3 DEF TypeOK
<1>9. SessionsGrow
  BY <1>1, SameSessionsGrow
<1>10. UserOf(r)' = session[s].user
  BY <1>1, <1>6, <1>7, <1>8 DEF UserOf
<1>11. Local(r)'
  <2>1. Routed(r)' /\ Closes(r)'
    BY <1>7, <1>8 DEF Routed, Route, Closes
  <2>2. Addressed(r)'
    BY <1>1, <1>5, <1>6, <1>7, <1>8, <1>10 DEF Addressed
  <2>3. TokenSpent(r)'
    BY <1>1, <1>5, <1>7, <1>8 DEF TokenSpent, Spent
  <2>4. DoomedStopped(r)'
    BY <1>1, <1>4, <1>7, <1>8 DEF DoomedStopped, Good, Matches
  <2>5. BarredStopped(r)'
    BY <1>1, <1>4, <1>7, <1>8, <1>10 DEF BarredStopped, userVars
  <2> QED
    BY <2>1, <2>2, <2>3, <2>4, <2>5 DEF Local
<1> QED
  BY <1>1, <1>3, <1>7, <1>9, <1>11, MoveOn

LEMMA StepIInv ==
  ASSUME IInv, NEW r \in Requests, Step(r)
  PROVE  IInv'
<1>1. CASE Register(r)
  BY <1>1, BeginUserIInv, ConstantsAssumption DEF Register, Route
<1>2. CASE Login(r)
  BY <1>2, BeginUserIInv DEF Login, Route
<1>3. CASE Me(r)
  BY <1>3, BeginUserIInv DEF Me, Route
<1>4. CASE AdminUpdateUser(r)
  BY <1>4, BeginUserIInv DEF AdminUpdateUser, Route
<1>5. CASE Refresh(r) \/ Logout(r)
  BY <1>5, BeginTokenIInv DEF Refresh, Logout
<1>6. CASE CreateUser(r) \/ UpdateStatus(r)
  BY <1>6, UserIInv
<1>7. CASE DeleteRoles(r)
  BY <1>7, DeleteRolesIInv
<1>8. CASE ReplaceRoles(r)
  BY <1>8, ReplaceRolesIInv
<1>9. CASE GetUser(r) \/ ListRoles(r) \/ RotateFails(r) \/ Fail(r)
  BY <1>9, ReadIInv
<1>10. CASE OpenSession(r)
  BY <1>10, OpenSessionIInv
<1>11. CASE GetSession(r)
  BY <1>11, GetSessionIInv
<1>12. CASE RotateRefresh(r)
  BY <1>12, RotateRefreshIInv
<1>13. CASE Revoke(r)
  BY <1>13, RevokeIInv
<1>14. CASE RevokeFails(r)
  BY <1>14, RevokeFailsIInv
<1> QED
  BY <1>1, <1>2, <1>3, <1>4, <1>5, <1>6, <1>7, <1>8, <1>9, <1>10, <1>11, <1>12, <1>13, <1>14
  DEF Step

LEMMA StutterIInv ==
  ASSUME IInv, UNCHANGED vars
  PROVE  IInv'
<1>1. SessionsGrow
  BY SameSessionsGrow DEF IInv, vars
<1>2. ASSUME NEW p \in Requests
      PROVE  Local(p)'
  BY <1>1, OthersKept DEF IInv, TypeOK, vars
<1> QED
  BY <1>2 DEF IInv, TypeOK, Replacers, RolesAsAsked, Names, vars

LEMMA NextIInv == IInv /\ [Next]_vars => IInv'
<1> SUFFICES ASSUME IInv, [Next]_vars PROVE IInv'
  OBVIOUS
<1>1. CASE \E r \in Requests : Step(r)
  BY <1>1, StepIInv
<1>2. CASE \E s \in Sessions : Expire(s)
  BY <1>2, ExpireIInv
<1>3. CASE UNCHANGED vars
  BY <1>3, StutterIInv
<1> QED
  BY <1>1, <1>2, <1>3 DEF Next

LEMMA InitIInv == Init => IInv
<1> SUFFICES ASSUME Init PROVE IInv
  OBVIOUS
<1>1. \A r \in Requests : \E op \in Ops : req[r] = Pending(op)
  BY DEF Init
<1>2. \A r \in Requests :
        /\ req[r] \in Request
        /\ req[r].pc = "new" /\ req[r].session = None
        /\ req[r].doomed = FALSE /\ req[r].barred = FALSE
  <2> TAKE r \in Requests
  <2>1. PICK op \in Ops : req[r] = Pending(op)
    BY <1>1
  <2> QED
    BY <2>1 DEF Pending, Request, PC
<1>3. req \in [Requests -> Request]
  BY <1>2 DEF Init
<1>4. ASSUME NEW u \in Users
      PROVE  /\ roles[u] \in SUBSET (Roles \X Secrets) /\ asked[u] \in SUBSET Roles
             /\ Names(roles[u]) = asked[u]
  <2>1. CASE status[u] = "ACTIVE"
    <3>1. roles[u] = {<<"USER", First>>} /\ asked[u] = {"USER"}
      BY <2>1 DEF Init
    <3>2. Names({<<"USER", First>>}) = {"USER"}
      <4>1. \A row \in {<<"USER", First>>} : row[1] = "USER"
        OBVIOUS
      <4> QED
        BY <4>1, Zenon DEF Names
    <3>3. <<"USER", First>> \in Roles \X Secrets
      BY ConstantsAssumption DEF Secrets
    <3> QED
      BY <3>1, <3>2, <3>3, ConstantsAssumption
  <2>2. CASE status[u] # "ACTIVE"
    <3>1. roles[u] = {} /\ asked[u] = {}
      BY <2>2 DEF Init
    <3> QED
      BY <3>1 DEF Names
  <2> QED
    BY <2>1, <2>2
<1>5. session \in [Sessions -> Session \union {None}]
  <2> DEFINE Opening == {[user |-> u, secret |-> First, bare |-> FALSE,
                          revoked |-> FALSE, expired |-> FALSE] :
                           u \in {v \in Users : status[v] = "ACTIVE"}}
  <2>1. session \in [Sessions -> {None} \union Opening]
    BY DEF Init
  <2>2. Opening \subseteq Session
    <3> SUFFICES ASSUME NEW row \in Opening PROVE row \in Session
      OBVIOUS
    <3>1. PICK u \in Users : row = [user |-> u, secret |-> First, bare |-> FALSE,
                                    revoked |-> FALSE, expired |-> FALSE]
      OBVIOUS
    <3>2. First \in Secrets
      BY DEF Secrets
    <3> QED
      BY <3>1, <3>2 DEF Session
  <2> HIDE DEF Opening
  <2> QED
    BY <2>1, <2>2
<1>6. \A u \in Users : \A x, y \in roles[u] : x[1] = y[1] => x = y
  BY DEF Init
<1>7. TypeOK
  BY <1>3, <1>4, <1>5, <1>6 DEF Init, TypeOK, Statuses
<1>8. \A r \in Requests : Local(r)
  BY <1>2 DEF Local, Routed, Route, Addressed, TokenSpent, DoomedStopped, BarredStopped, Closes
<1>9. Replacers
  BY <1>2 DEF Replacers
<1>10. RolesAsAsked
  BY <1>4 DEF RolesAsAsked
<1> QED
  BY <1>7, <1>8, <1>9, <1>10 DEF IInv

\* The invariant holds in every state of every behaviour.
THEOREM Invariance == Spec => []IInv
BY InitIInv, NextIInv, PTL DEF Spec

------------------------------------------------------------------------------
\* Every variable keeps its type, and user_roles its primary key.
THEOREM TypeCorrect == Spec => []TypeOK
<1>1. IInv => TypeOK
  BY DEF IInv
<1> QED
  BY <1>1, Invariance, PTL

\* No refresh is answered whose token was replaced, revoked or expired before it
\* began, nor is a refresh or a login of a user who was blocked throughout.
THEOREM RefreshOnce == Spec => []NoReplay
<1>1. IInv => NoReplay
  BY DEF IInv, NoReplay, Local, DoomedStopped, BarredStopped, Op, At
<1> QED
  BY <1>1, Invariance, PTL

\* The session of a refused bad token is revoked, and so is that of a logout, unless
\* their own revocation failed.
THEOREM Closed == Spec => []BadTokenRevokes
<1>1. IInv => BadTokenRevokes
  BY DEF IInv, BadTokenRevokes, Local, Closes, Op, At
<1> QED
  BY <1>1, Invariance, PTL

\* However replacements interleave, a user has every role of the list committed
\* last, and no other unless two requests replaced the roles at once.
THEOREM LastListWins == Spec => []RolesAsAsked
<1>1. IInv => RolesAsAsked
  BY DEF IInv
<1> QED
  BY <1>1, Invariance, PTL

==============================================================================
