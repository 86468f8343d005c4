----------------------------- MODULE AccessProofs ----------------------------
(***************************************************************************)
(* Proofs about Access, for any users, resources and number of requests.   *)
(*                                                                         *)
(* EntitledOnly is not inductive: it speaks of requests that have ended.   *)
(* The invariant adds that a request that is about to write is entitled    *)
(* already, that one about to check is if the check will succeed, and that *)
(* it knows whom and what it is about.                                     *)
(***************************************************************************)
EXTENDS Access, TLAPS

GrantOps == {"createGrant", "deleteGrant", "listGrants"}

\* A request on grants is entitled from the check on.
EntitledFromCheck ==
  \A r \in Requests :
    req[r].op \in GrantOps /\ req[r].pc \in {"write", "ok"} => req[r].entitled

\* One that waits for the check is entitled if its actor is the owner.
OwnersEntitled ==
  \A r \in Requests :
    req[r].pc = "owner" /\ owner[req[r].resource] = req[r].actor => req[r].entitled

\* A request that has started on a resource names it, its actor and the other user.
Addressed ==
  \A r \in Requests :
    req[r].pc \in {"insert", "select", "update", "owner", "write"}
      => req[r].resource \in Resources /\ req[r].user \in Users /\ req[r].actor \in Users

\* A check names a resource.
ChecksAddressed ==
  \A r \in Requests :
    req[r].pc = "read" /\ req[r].op = "check" => req[r].resource \in Resources

\* Only grant operations reach the write, and none of them the other statements.
Routed ==
  \A r \in Requests :
    /\ req[r].pc \in {"owner", "write"} => req[r].op \in GrantOps
    /\ req[r].pc \in {"insert", "select", "update"} => req[r].op \in {"register", "transfer"}
    /\ req[r].pc = "read" => req[r].op \in {"check", "list"}

IInv == TypeOK /\ EntitledFromCheck /\ OwnersEntitled /\ Addressed /\ ChecksAddressed /\ Routed

------------------------------------------------------------------------------
LEMMA InitIInv == Init => IInv
<1> SUFFICES ASSUME Init PROVE IInv
  OBVIOUS
<1>1. \A r \in Requests : req[r] \in {Pending(op) : op \in Ops}
  BY DEF Init
<1>2. \A r \in Requests : /\ req[r] \in Request
                          /\ req[r].pc = "new"
  <2> TAKE r \in Requests
  <2>1. PICK op \in Ops : req[r] = Pending(op)
    BY <1>1
  <2> QED
    BY <2>1 DEF Pending, Request, PC, Permissions
<1>3. req \in [Requests -> Request]
  BY <1>2 DEF Init
<1>4. TypeOK
  BY <1>3 DEF Init, TypeOK, Permissions
<1> QED
  BY <1>2, <1>4 DEF IInv, EntitledFromCheck, OwnersEntitled, Addressed, ChecksAddressed, Routed

\* A step that leaves the tables alone and moves request r on keeps the invariant
\* if the new request is what the invariant asks of it.
LEMMA MoveOn ==
  ASSUME IInv, NEW r \in Requests, NEW q \in Request,
         req' = [req EXCEPT ![r] = q], UNCHANGED <<owner, grants>>,
         q.op \in GrantOps /\ q.pc \in {"write", "ok"} => q.entitled,
         q.pc = "owner" /\ owner[q.resource] = q.actor => q.entitled,
         q.pc \in {"insert", "select", "update", "owner", "write"}
           => q.resource \in Resources /\ q.user \in Users /\ q.actor \in Users,
         q.pc \in {"owner", "write"} => q.op \in GrantOps,
         q.pc \in {"insert", "select", "update"} => q.op \in {"register", "transfer"},
         q.pc = "read" => q.op \in {"check", "list"},
         q.pc = "read" /\ q.op = "check" => q.resource \in Resources
  PROVE  IInv'
<1>1. req' \in [Requests -> Request]
  BY DEF IInv, TypeOK
<1>2. \A s \in Requests : req'[s] = IF s = r THEN q ELSE req[s]
  BY DEF IInv, TypeOK
<1>3. TypeOK'
  BY <1>1 DEF IInv, TypeOK
<1> QED
  BY <1>2, <1>3 DEF IInv, EntitledFromCheck, OwnersEntitled, Addressed, ChecksAddressed, Routed

\* In particular, one that only moves its pc.
LEMMA GotoIInv ==
  ASSUME IInv, NEW r \in Requests, NEW label \in PC, Goto(r, label), Tables,
         label \in {"write", "ok"} /\ req[r].op \in GrantOps => req[r].entitled,
         label # "new", label # "owner",
         label \in {"insert", "select", "update", "write"}
           => req[r].pc \in {"insert", "select", "update", "owner", "write"},
         label = "write" => req[r].op \in GrantOps,
         label \in {"insert", "select", "update"} => req[r].op \in {"register", "transfer"},
         label # "read"
  PROVE  IInv'
<1> DEFINE q == [req[r] EXCEPT !.pc = label]
<1>1. req[r] \in Request
  BY DEF IInv, TypeOK
<1>2. q \in Request /\ q.pc = label /\ q.op = req[r].op /\ q.entitled = req[r].entitled
      /\ q.resource = req[r].resource /\ q.user = req[r].user /\ q.actor = req[r].actor
  BY <1>1 DEF Request
<1>3. req' = [req EXCEPT ![r] = q]
  BY DEF Goto
<1>4. req[r].pc \in {"insert", "select", "update", "owner", "write"}
        => req[r].resource \in Resources /\ req[r].user \in Users /\ req[r].actor \in Users
  BY DEF IInv, Addressed
<1> HIDE DEF q
<1> QED
  BY <1>2, <1>3, <1>4, MoveOn DEF Tables

\* When resource x gets owner u, the request that did it ends, and those of u are
\* entitled.
LEMMA OwnerIInv ==
  ASSUME IInv, NEW r \in Requests, NEW x \in Resources, NEW u \in Users,
         owner' = [owner EXCEPT ![x] = u], UNCHANGED grants,
         req' = [Entitle(x, u) EXCEPT ![r].pc = "ok"],
         req[r].op \notin GrantOps
  PROVE  IInv'
<1> DEFINE mine(q) == req[q].resource = x /\ req[q].actor = u
           mid(q) == IF mine(q) THEN [req[q] EXCEPT !.entitled = TRUE] ELSE req[q]
<1>1. \A q \in Requests :
        /\ mid(q) \in Request
        /\ mid(q).op = req[q].op
        /\ mid(q).resource = req[q].resource
        /\ mid(q).user = req[q].user
        /\ mid(q).actor = req[q].actor
        /\ mid(q).pc = req[q].pc
        /\ req[q].entitled => mid(q).entitled
  BY DEF IInv, TypeOK, Request
<1>1a. req' = [[q \in Requests |-> mid(q)] EXCEPT ![r].pc = "ok"]
  BY DEF Entitle
<1> HIDE DEF mid
<1>1b. \A q \in Requests :
        req'[q] = IF q = r THEN [mid(q) EXCEPT !.pc = "ok"] ELSE mid(q)
  BY <1>1a
<1>2. \A q \in Requests :
        /\ req'[q] \in Request
        /\ req'[q].op = req[q].op
        /\ req'[q].resource = req[q].resource
        /\ req'[q].user = req[q].user
        /\ req'[q].actor = req[q].actor
        /\ req'[q].pc = IF q = r THEN "ok" ELSE req[q].pc
        /\ req[q].entitled => req'[q].entitled
  <2> TAKE q \in Requests
  <2>1. CASE q = r
    <3>1. mid(r) \in Request
      BY <1>1
    <3>2. req'[r] = [mid(r) EXCEPT !.pc = "ok"]
      BY <1>1b
    <3>3. req'[r] \in Request
      BY <3>1, <3>2 DEF Request, PC
    <3>4. /\ req'[r].op = mid(r).op
          /\ req'[r].resource = mid(r).resource
          /\ req'[r].user = mid(r).user
          /\ req'[r].actor = mid(r).actor
          /\ req'[r].pc = "ok"
          /\ req'[r].entitled = mid(r).entitled
      BY <3>1, <3>2 DEF Request
    <3>5. /\ mid(r).op = req[r].op
          /\ mid(r).resource = req[r].resource
          /\ mid(r).user = req[r].user
          /\ mid(r).actor = req[r].actor
          /\ mid(r).pc = req[r].pc
          /\ req[r].entitled => mid(r).entitled
      BY <1>1
    <3> QED
      BY <2>1, <3>3, <3>4, <3>5
  <2>2. CASE q # r
    <3>1. req'[q] = mid(q) /\ mid(q) \in Request
      BY <1>1, <1>1b, <2>2
    <3>2. /\ mid(q).op = req[q].op
          /\ mid(q).resource = req[q].resource
          /\ mid(q).user = req[q].user
          /\ mid(q).actor = req[q].actor
          /\ mid(q).pc = req[q].pc
          /\ req[q].entitled => mid(q).entitled
      BY <1>1
    <3> QED
      BY <2>2, <3>1, <3>2
  <2> QED
    BY <2>1, <2>2
<1>3. req' \in [Requests -> Request]
  BY <1>2, <1>1a
<1>4. TypeOK'
  <2>1. owner' \in [Resources -> Users \union {None}]
    BY DEF IInv, TypeOK
  <2>2. \A y \in Resources, v \in Users : grants'[y][v] # "NONE" => owner'[y] # None
    BY UsersAssumption DEF IInv, TypeOK
  <2> QED
    BY <1>3, <2>1, <2>2 DEF IInv, TypeOK
<1>5. EntitledFromCheck'
  BY <1>2 DEF IInv, EntitledFromCheck
<1>6. Addressed' /\ ChecksAddressed'
  BY <1>2 DEF IInv, Addressed, ChecksAddressed
<1>7. Routed'
  BY <1>2 DEF IInv, Routed
<1>8. OwnersEntitled'
  <2> SUFFICES ASSUME NEW q \in Requests, req'[q].pc = "owner", owner'[req[q].resource] = req[q].actor
               PROVE  req'[q].entitled
    BY <1>2 DEF OwnersEntitled
  <2>1. q # r /\ req[q].pc = "owner"
    BY <1>2
  <2>2. CASE mine(q)
    <3>1. req'[q] = [req[q] EXCEPT !.entitled = TRUE]
      BY <1>1b, <2>1, <2>2 DEF mid
    <3> QED
      BY <3>1 DEF IInv, TypeOK, Request
  <2>3. CASE ~mine(q)
    <3>1. req[q].resource # x \/ u # req[q].actor
      BY <2>3
    <3>2. owner[req[q].resource] = req[q].actor
      BY <2>1, <3>1 DEF IInv, TypeOK, Addressed
    <3> QED
      BY <1>2, <2>1, <3>2 DEF IInv, OwnersEntitled
  <2> QED
    BY <2>2, <2>3
<1> QED
  BY <1>4, <1>5, <1>6, <1>7, <1>8 DEF IInv

\* When a grant is written, the request that did it ends.
LEMMA GrantIInv ==
  ASSUME IInv, NEW r \in Requests, NEW x \in Resources, NEW u \in Users,
         NEW p \in Permissions, NEW label \in {"ok", "refused"},
         grants' = [grants EXCEPT ![x][u] = p], UNCHANGED owner,
         p # "NONE" => owner[x] # None,
         Goto(r, label), req[r].entitled
  PROVE  IInv'
<1>1. \A q \in Requests :
        /\ req'[q] = IF q = r THEN [req[r] EXCEPT !.pc = label] ELSE req[q]
        /\ req[q] \in Request
  BY DEF Goto, IInv, TypeOK
<1>2. \A q \in Requests :
        /\ req'[q] \in Request
        /\ req'[q].op = req[q].op
        /\ req'[q].resource = req[q].resource
        /\ req'[q].user = req[q].user
        /\ req'[q].actor = req[q].actor
        /\ req'[q].pc = IF q = r THEN label ELSE req[q].pc
        /\ req'[q].entitled = req[q].entitled
  BY <1>1 DEF Request, PC
<1>3. req' \in [Requests -> Request]
  BY <1>2 DEF Goto, IInv, TypeOK
<1>4. /\ grants' \in [Resources -> [Users -> Permissions]]
      /\ \A y \in Resources, v \in Users : grants'[y][v] # "NONE" => owner'[y] # None
  BY DEF IInv, TypeOK
<1>5. TypeOK'
  BY <1>3, <1>4 DEF IInv, TypeOK
<1>6. EntitledFromCheck'
  BY <1>2 DEF IInv, EntitledFromCheck
<1>7. Addressed' /\ ChecksAddressed'
  BY <1>2 DEF IInv, Addressed, ChecksAddressed
<1>8. Routed'
  BY <1>2 DEF IInv, Routed
<1>9. OwnersEntitled'
  BY <1>2 DEF IInv, OwnersEntitled
<1> QED
  BY <1>5, <1>6, <1>7, <1>8, <1>9 DEF IInv

------------------------------------------------------------------------------
\* The requests of administrators.
LEMMA BeginAdminIInv ==
  ASSUME IInv, NEW r \in Requests, NEW a \in Admins, NEW x \in Resources, NEW u \in Users,
         NEW op \in {"register", "transfer"}, NEW label \in {"insert", "update"},
         BeginAdmin(r, op, label, a, x, u)
  PROVE  IInv'
<1>1. req[r] \in Request /\ a \in Users
  BY UsersAssumption DEF IInv, TypeOK
<1> DEFINE q == [req[r] EXCEPT !.actor = a, !.resource = x, !.user = u, !.entitled = TRUE,
                               !.pc = label]
<1>2. /\ q \in Request
      /\ q.op = req[r].op
      /\ q.pc = label
      /\ q.resource = x
      /\ q.user = u
      /\ q.actor = a
  BY <1>1 DEF Request, PC
<1>3. req' = [req EXCEPT ![r] = q] /\ req[r].op = op /\ UNCHANGED <<owner, grants>>
  BY DEF BeginAdmin, Tables
<1> HIDE DEF q
<1> QED
  BY <1>1, <1>2, <1>3, MoveOn DEF GrantOps

\* The requests on grants: entitled if the actor is an administrator, or owns the
\* resource at this moment.
LEMMA BeginGrantIInv ==
  ASSUME IInv, NEW r \in Requests, NEW a \in Users, NEW x \in Resources, NEW u \in Users,
         NEW want \in Permissions, NEW op \in GrantOps, BeginGrant(r, op, a, x, u, want)
  PROVE  IInv'
<1>1. req[r] \in Request
  BY DEF IInv, TypeOK
<1> DEFINE en == EntitledNow(a, x)
           q == [req[r] EXCEPT !.actor = a, !.resource = x, !.user = u, !.want = want,
                               !.entitled = en,
                               !.pc = IF a \in Admins THEN "write" ELSE "owner"]
<1>2. req' = [req EXCEPT ![r] = q]
  BY Zenon DEF BeginGrant
<1>3. en \in BOOLEAN /\ (a \in Admins => en) /\ (owner[x] = a => en)
  BY DEF EntitledNow
<1> HIDE DEF en
<1>4. q \in Request
  BY <1>1, <1>3 DEF Request, PC
<1>5. /\ q.op = req[r].op
      /\ q.pc = IF a \in Admins THEN "write" ELSE "owner"
      /\ q.resource = x
      /\ q.user = u
      /\ q.actor = a
  BY <1>1 DEF Request
<1>6. q.entitled = en
  BY <1>1, <1>3 DEF Request
<1>7. req[r].op \in GrantOps /\ UNCHANGED <<owner, grants>>
  BY DEF BeginGrant, Tables
<1> HIDE DEF q
<1>8. q.op \in GrantOps /\ q.pc \in {"write", "ok"} => q.entitled
  BY <1>3, <1>5, <1>6
<1>9. q.pc = "owner" /\ owner[q.resource] = q.actor => q.entitled
  BY <1>3, <1>5, <1>6
<1>10. q.pc \in {"owner", "write"}
  BY <1>5
<1> QED
  BY <1>2, <1>4, <1>5, <1>7, <1>8, <1>9, <1>10, MoveOn

\* Checks and lists.
LEMMA BeginQueryIInv ==
  ASSUME IInv, NEW r \in Requests, NEW a \in Users, NEW x \in Resources \union {None},
         NEW want \in Permissions, NEW op \in {"check", "list"}, op = "check" => x \in Resources,
         BeginQuery(r, op, a, x, want)
  PROVE  IInv'
<1>1. req[r] \in Request
  BY DEF IInv, TypeOK
<1> DEFINE q == [req[r] EXCEPT !.actor = a, !.resource = x, !.want = want, !.pc = "read"]
<1>2. q \in Request /\ q.op = req[r].op /\ q.pc = "read" /\ q.resource = x
  BY <1>1 DEF Request, PC
<1>3. req' = [req EXCEPT ![r] = q] /\ req[r].op = op /\ UNCHANGED <<owner, grants>>
  BY DEF BeginQuery, Tables
<1> HIDE DEF q
<1> QED
  BY <1>2, <1>3, MoveOn

LEMMA ArriveIInv ==
  ASSUME IInv, NEW r \in Requests, Arrive(r)
  PROVE  IInv'
<1>1. CASE RegisterResource(r)
  BY <1>1, BeginAdminIInv DEF RegisterResource
<1>2. CASE AdminUpdateResource(r)
  BY <1>2, BeginAdminIInv DEF AdminUpdateResource
<1>3. CASE AskToGrant(r)
  BY <1>3, BeginGrantIInv DEF AskToGrant, GrantOps
<1>4. CASE AskToDelete(r)
  BY <1>4, BeginGrantIInv DEF AskToDelete, GrantOps, Permissions
<1>5. CASE AskForGrants(r)
  BY <1>5, BeginGrantIInv DEF AskForGrants, GrantOps, Permissions
<1>6. CASE CheckAccess(r)
  BY <1>6, BeginQueryIInv DEF CheckAccess
<1>7. CASE ListResources(r)
  BY <1>7, BeginQueryIInv DEF ListResources
<1> QED
  BY <1>1, <1>2, <1>3, <1>4, <1>5, <1>6, <1>7 DEF Arrive

\* The statements on resources.
LEMMA ResourceIInv ==
  ASSUME IInv, NEW r \in Requests, InsertResource(r) \/ SelectResource(r) \/ UpdateOwner(r)
  PROVE  IInv'
<1> DEFINE x == req[r].resource
           u == req[r].user
<1>1. /\ x \in Resources
      /\ u \in Users
      /\ req[r].op \notin GrantOps
  BY DEF IInv, Addressed, Routed, InsertResource, SelectResource, UpdateOwner, At, GrantOps
<1>2. CASE /\ owner' = [owner EXCEPT ![x] = u]
           /\ req' = [Entitle(x, u) EXCEPT ![r].pc = "ok"]
           /\ UNCHANGED grants
  <2> HIDE DEF x, u
  <2> QED
    BY <1>1, <1>2, OwnerIInv
<1>3. CASE Tables /\ Goto(r, "select") /\ InsertResource(r)
  <2>1. req[r].pc = "insert" /\ req[r].op \in {"register", "transfer"}
    BY <1>3 DEF InsertResource, At, IInv, Routed
  <2> QED
    BY <1>3, <2>1, GotoIInv DEF PC, GrantOps
<1>4. CASE Tables /\ (Goto(r, "refused") \/ Goto(r, "ok"))
  BY <1>1, <1>4, GotoIInv DEF PC
<1> QED
  BY <1>2, <1>3, <1>4 DEF InsertResource, SelectResource, UpdateOwner, Tables

\* The check, the statements on grants, the queries and failures.
LEMMA GrantStepIInv ==
  ASSUME IInv, NEW r \in Requests,
         CheckOwner(r) \/ CreateGrant(r) \/ DeleteGrant(r) \/ ListGrants(r)
  PROVE  IInv'
<1> DEFINE x == req[r].resource
           u == req[r].user
<1>1. /\ x \in Resources
      /\ u \in Users
      /\ req[r].op \in GrantOps
      /\ req[r] \in Request
  BY DEF IInv, Addressed, Routed, CheckOwner, CreateGrant, DeleteGrant, ListGrants, At, TypeOK
<1>2. CASE CheckOwner(r)
  <2>1. Tables /\ (Goto(r, "write") \/ Goto(r, "refused")) /\ req[r].pc = "owner"
    BY <1>2 DEF CheckOwner, At
  <2>2. Goto(r, "write") => req[r].entitled
    <3>1. CASE owner[x] = req[r].actor
      BY <2>1, <3>1 DEF IInv, OwnersEntitled
    <3>2. CASE owner[x] # req[r].actor
      <4>1. req' = [req EXCEPT ![r].pc = "refused"]
        BY <1>2, <3>2 DEF CheckOwner, Goto
      <4>2. req'[r].pc = "refused"
        BY <1>1, <4>1 DEF IInv, TypeOK, Request
      <4>3. Goto(r, "write") => req'[r].pc = "write"
        BY <1>1 DEF IInv, TypeOK, Request, Goto
      <4> QED
        BY <4>2, <4>3
    <3> QED
      BY <3>1, <3>2
  <2> QED
    BY <1>1, <2>1, <2>2, GotoIInv DEF PC
<1>3. req[r].pc = "write" => req[r].entitled
  BY <1>1 DEF IInv, EntitledFromCheck
<1>4. CASE CreateGrant(r)
  <2>1. CASE owner[x] # None /\ grants[x][u] = "NONE"
    <3>1. /\ grants' = [grants EXCEPT ![x][u] = req[r].want]
          /\ Goto(r, "ok")
          /\ UNCHANGED owner
          /\ req[r].pc = "write"
      BY <1>4, <2>1 DEF CreateGrant, At
    <3>2. req[r].want \in Permissions
      BY <1>1 DEF Request
    <3> HIDE DEF x, u
    <3> QED
      BY <1>1, <1>3, <2>1, <3>1, <3>2, GrantIInv
  <2>2. CASE ~(owner[x] # None /\ grants[x][u] = "NONE")
    <3>1. Tables /\ Goto(r, "refused")
      BY <1>4, <2>2 DEF CreateGrant, Tables
    <3> QED
      BY <3>1, GotoIInv DEF PC
  <2> QED
    BY <2>1, <2>2
<1>5. CASE DeleteGrant(r)
  <2> DEFINE label == IF grants[x][u] # "NONE" THEN "ok" ELSE "refused"
  <2>1. /\ grants' = [grants EXCEPT ![x][u] = "NONE"]
        /\ Goto(r, label)
        /\ UNCHANGED owner
        /\ req[r].pc = "write"
    BY <1>5 DEF DeleteGrant, At
  <2>2. label \in {"ok", "refused"} /\ "NONE" \in Permissions
    BY DEF Permissions
  <2> HIDE DEF x, u, label
  <2> QED
    BY <1>1, <1>3, <2>1, <2>2, GrantIInv
<1>6. CASE ListGrants(r)
  <2>1. Tables /\ Goto(r, "ok") /\ req[r].pc = "write"
    BY <1>6 DEF ListGrants, At
  <2> QED
    BY <1>3, <2>1, GotoIInv DEF PC
<1> QED
  BY <1>2, <1>4, <1>5, <1>6

\* Queries and failures.
LEMMA ReadIInv ==
  ASSUME IInv, NEW r \in Requests, Read(r) \/ Fail(r)
  PROVE  IInv'
<1>1. req[r] \in Request
  BY DEF IInv, TypeOK
<1>2. CASE Read(r)
  <2>1. PICK ans \in SUBSET Resources, label \in {"ok", "refused"} :
          req' = [req EXCEPT ![r].answer = ans, ![r].pc = label]
    <3>1. CASE req[r].op = "check"
      <4> DEFINE a == IF Allowed(req[r].actor, req[r].resource, req[r].want)
                      THEN {req[r].resource} ELSE {}
                 l == IF req[r].want = "NONE" /\ owner[req[r].resource] # None
                      THEN "refused" ELSE "ok"
      <4>1. req' = [req EXCEPT ![r].answer = a, ![r].pc = l]
        BY <1>2, <3>1 DEF Read
      <4>2. a \in SUBSET Resources
        BY <1>2, <3>1 DEF Read, At, IInv, ChecksAddressed
      <4> HIDE DEF a
      <4> QED
        BY <4>1, <4>2
    <3>2. CASE req[r].op # "check"
      BY <1>2, <3>2 DEF Read, ListByUser
    <3> QED
      BY <3>1, <3>2
  <2> DEFINE q == [req[r] EXCEPT !.answer = ans, !.pc = label]
  <2>2. q \in Request /\ q.op = req[r].op /\ q.pc = label
    BY <1>1 DEF Request, PC
  <2>3. req' = [req EXCEPT ![r] = q]
    BY <2>1
  <2>4. UNCHANGED <<owner, grants>> /\ req[r].op \notin GrantOps
    BY <1>2 DEF Read, Tables, At, IInv, Routed, GrantOps
  <2> HIDE DEF q
  <2> QED
    BY <2>2, <2>3, <2>4, MoveOn
<1>3. CASE Fail(r)
  BY <1>3, GotoIInv DEF Fail, PC
<1> QED
  BY <1>2, <1>3

------------------------------------------------------------------------------
LEMMA NextIInv == IInv /\ [Next]_vars => IInv'
<1> SUFFICES ASSUME IInv, [Next]_vars PROVE IInv'
  OBVIOUS
<1>1. CASE UNCHANGED vars
  BY <1>1 DEF vars, IInv, TypeOK, EntitledFromCheck, OwnersEntitled, Addressed, ChecksAddressed, Routed
<1>2. CASE Next
  <2>1. PICK r \in Requests : Step(r)
    BY <1>2 DEF Next
  <2> QED
    BY <2>1, ArriveIInv, ResourceIInv, GrantStepIInv, ReadIInv DEF Step
<1> QED
  BY <1>1, <1>2

\* The invariant holds in every state.
THEOREM Invariance == Spec => []IInv
  BY InitIInv, NextIInv, PTL DEF Spec

\* Every variable keeps its type and no grant outlives or precedes its resource:
\* the foreign key is never violated by what the code writes.
THEOREM TypeCorrect == Spec => []TypeOK
<1>1. IInv => TypeOK
  BY DEF IInv
<1> QED
  BY <1>1, Invariance, PTL

\* Only administrators and those who owned the resource during the request have
\* grants made, removed or listed.
THEOREM OnlyTheEntitled == Spec => []EntitledOnly
<1>1. IInv => EntitledOnly
  BY DEF IInv, EntitledFromCheck, EntitledOnly, At, GrantOps
<1> QED
  BY <1>1, Invariance, PTL

\* The two queries agree on who may read and edit what.
THEOREM QueriesAgree == Spec => []ListAgreesWithCheck
<1>1. IInv => ListAgreesWithCheck
  <2> SUFFICES ASSUME IInv, NEW u \in Users, NEW x \in Resources, NEW want \in {"READ", "EDIT"}
               PROVE  x \in ListByUser(u, want) <=> Allowed(u, x, want)
    BY DEF ListAgreesWithCheck
  <2>1. grants[x][u] \in Permissions
    BY DEF IInv, TypeOK
  <2> QED
    BY <2>1, UsersAssumption DEF ListByUser, Allowed, Effective, Permissions, IInv, TypeOK
<1> QED
  BY <1>1, Invariance, PTL

==============================================================================
