-------------------------------- MODULE Access -------------------------------
(***************************************************************************)
(* Who may do what with a resource (a mock or a DSL script) in user-svc:   *)
(* internal/application/authz.go on the tables resources and               *)
(* resource_grants, behind internal/http/handlers/authz.go and the part of *)
(* admin.go that changes an owner.                                         *)
(*                                                                         *)
(* An operation on grants reads the owner in one statement and writes in   *)
(* another; the owner may change between the two.  Whether the caller is   *)
(* an administrator is what the access token says, and does not change     *)
(* during a request.  mock-svc, which registers resources with the         *)
(* internal secret, counts as an administrator.                            *)
(*                                                                         *)
(* Rows of resources are never deleted, nor are users.                     *)
(***************************************************************************)
EXTENDS Naturals

CONSTANTS
  Users,       \* users that exist
  Admins,      \* those whose tokens carry the role ADMIN
  Resources,   \* resource type and id
  Requests,    \* bound: the requests that arrive, each once
  None         \* no such row, or no answer

ASSUME UsersAssumption == Admins \subseteq Users /\ None \notin Users \union Resources

VARIABLES
  owner,   \* resources.owner_user_id; None when not registered
  grants,  \* resource_grants.permission of each resource and user, NONE without a row
  req      \* the requests

vars == <<owner, grants, req>>

------------------------------------------------------------------------------
Permissions == {"NONE", "READ", "EDIT"}
Ops == {"register", "transfer", "createGrant", "deleteGrant", "listGrants", "check", "list"}
PC == {"new", "insert", "select", "update", "owner", "write", "read", "ok", "refused", "failed"}

\* user is the new owner or the grantee; want, the permission asked for or granted;
\* answer, the resources a check or a list tells the actor about.  History:
\* entitled, the actor has been an administrator or the owner at some time since
\* the request began.
Request == [op : Ops, pc : PC, actor : Users \union {None}, resource : Resources \union {None},
            user : Users \union {None}, want : Permissions, answer : SUBSET Resources,
            entitled : BOOLEAN]

Pending(op) ==
  [op |-> op, pc |-> "new", actor |-> None, resource |-> None, user |-> None, want |-> "NONE",
   answer |-> {}, entitled |-> FALSE]

\* Some resources have been registered already.
Init ==
  /\ owner \in [Resources -> Users \union {None}]
  /\ grants = [x \in Resources |-> [u \in Users |-> "NONE"]]
  /\ req \in [Requests -> {Pending(op) : op \in Ops}]

------------------------------------------------------------------------------
At(r, label) == req[r].pc = label
Goto(r, label) == req' = [req EXCEPT ![r].pc = label]
Tables == UNCHANGED <<owner, grants>>

\* ResourceRepository.GetAccess: the owner may edit, whatever was granted.
Effective(u, x) ==
  CASE owner[x] = None -> "NONE"
    [] owner[x] = u -> "EDIT"
    [] OTHER -> grants[x][u]

\* CheckAccess: the permissions that allow an action.
Allowed(u, x, want) ==
  CASE want = "READ" -> Effective(u, x) \in {"READ", "EDIT"}
    [] want = "EDIT" -> Effective(u, x) = "EDIT"
    [] OTHER -> FALSE

\* Variant of ListByUser: the clause on the owner left out for EDIT.
ListByGrant(u, want) ==
  {x \in Resources :
     /\ owner[x] # None
     /\ \/ want = "NONE"
        \/ want = "READ" /\ (owner[x] = u \/ grants[x][u] \in {"READ", "EDIT"})
        \/ want = "EDIT" /\ grants[x][u] = "EDIT"}

\* ResourceRepository.ListByUser, with the filter for minPermission; without one
\* every resource is listed.
ListByUser(u, want) ==
  {x \in Resources :
     /\ owner[x] # None
     /\ \/ want = "NONE"
        \/ want = "READ" /\ (owner[x] = u \/ grants[x][u] \in {"READ", "EDIT"})
        \/ want = "EDIT" /\ (owner[x] = u \/ grants[x][u] = "EDIT")}

EntitledNow(u, x) == u \in Admins \/ owner[x] = u

\* The requests once user u owns resource x.
Entitle(x, u) ==
  [q \in Requests |->
     IF req[q].resource = x /\ req[q].actor = u THEN [req[q] EXCEPT !.entitled = TRUE] ELSE req[q]]

------------------------------------------------------------------------------
(***************************************************************************)
(* Variants of the steps below, each with one plausible mistake.  Next     *)
(* uses none.                                                              *)
(***************************************************************************)
\* CreateGrant as an upsert of any permission, also for users who have none.
CreateGrantRaw(r) ==
  LET x == req[r].resource
      u == req[r].user
  IN  /\ At(r, "write")
      /\ req[r].op = "createGrant"
      /\ grants' = [grants EXCEPT ![x][u] = req[r].want]
      /\ Goto(r, "ok")
      /\ UNCHANGED owner

\* checkOwnerOrAdmin that lets any holder of EDIT pass.
CheckEditor(r) ==
  LET x == req[r].resource
  IN  /\ At(r, "owner")
      /\ Goto(r, IF Allowed(req[r].actor, x, "EDIT") THEN "write" ELSE "refused")
      /\ Tables

------------------------------------------------------------------------------
(***************************************************************************)
(* Requests arrive: what the handlers let through.                         *)
(***************************************************************************)
\* An administrator a registers resource x for user u, or gives it to u.
BeginAdmin(r, op, label, a, x, u) ==
  /\ At(r, "new")
  /\ req[r].op = op
  /\ req' = [req EXCEPT ![r].actor = a, ![r].resource = x, ![r].user = u,
                        ![r].entitled = TRUE, ![r].pc = label]
  /\ Tables

RegisterResource(r) ==
  \E a \in Admins, x \in Resources, u \in Users : BeginAdmin(r, "register", "insert", a, x, u)
AdminUpdateResource(r) ==
  \E a \in Admins, x \in Resources, u \in Users : BeginAdmin(r, "transfer", "update", a, x, u)

\* User a asks about the grant of u on resource x; administrators pass
\* checkOwnerOrAdmin without a look at the resource.
BeginGrant(r, op, a, x, u, want) ==
  /\ At(r, "new")
  /\ req[r].op = op
  /\ req' = [req EXCEPT ![r].actor = a, ![r].resource = x, ![r].user = u, ![r].want = want,
                        ![r].entitled = EntitledNow(a, x),
                        ![r].pc = IF a \in Admins THEN "write" ELSE "owner"]
  /\ Tables

AskToGrant(r) ==
  \E a, u \in Users, x \in Resources, want \in Permissions \ {"NONE"} :
    BeginGrant(r, "createGrant", a, x, u, want)
AskToDelete(r) ==
  \E a, u \in Users, x \in Resources : BeginGrant(r, "deleteGrant", a, x, u, "NONE")

\* ListGrants names no other user.
AskForGrants(r) ==
  \E a \in Users, x \in Resources : BeginGrant(r, "listGrants", a, x, a, "NONE")

\* User a asks what it may do with x, or with anything when x is None.
BeginQuery(r, op, a, x, want) ==
  /\ At(r, "new")
  /\ req[r].op = op
  /\ req' = [req EXCEPT ![r].actor = a, ![r].resource = x, ![r].want = want, ![r].pc = "read"]
  /\ Tables

CheckAccess(r) ==
  \E a \in Users, x \in Resources, want \in Permissions : BeginQuery(r, "check", a, x, want)
ListResources(r) ==
  \E a \in Users, want \in Permissions : BeginQuery(r, "list", a, None, want)

------------------------------------------------------------------------------
(***************************************************************************)
(* The statements.                                                         *)
(***************************************************************************)
\* Register: INSERT ... ON CONFLICT DO NOTHING.
InsertResource(r) ==
  LET x == req[r].resource
      u == req[r].user
  IN  /\ At(r, "insert")
      /\ IF owner[x] = None
         THEN /\ owner' = [owner EXCEPT ![x] = u]
              /\ req' = [Entitle(x, u) EXCEPT ![r].pc = "ok"]
         ELSE Goto(r, "select") /\ UNCHANGED owner
      /\ UNCHANGED grants

\* Register: the row that is there, with whatever owner it has by now.
SelectResource(r) ==
  /\ At(r, "select")
  /\ Goto(r, IF owner[req[r].resource] # None THEN "ok" ELSE "refused")
  /\ Tables

UpdateOwner(r) ==
  LET x == req[r].resource
      u == req[r].user
  IN  /\ At(r, "update")
      /\ IF owner[x] # None
         THEN /\ owner' = [owner EXCEPT ![x] = u]
              /\ req' = [Entitle(x, u) EXCEPT ![r].pc = "ok"]
         ELSE Goto(r, "refused") /\ UNCHANGED owner
      /\ UNCHANGED grants

\* checkOwnerOrAdmin for everyone else.
CheckOwner(r) ==
  /\ At(r, "owner")
  /\ Goto(r, IF owner[req[r].resource] = req[r].actor THEN "write" ELSE "refused")
  /\ Tables

\* GrantRepository.Create: a foreign key to the resource, and one row for a user.
CreateGrant(r) ==
  LET x == req[r].resource
      u == req[r].user
  IN  /\ At(r, "write")
      /\ req[r].op = "createGrant"
      /\ IF owner[x] # None /\ grants[x][u] = "NONE"
         THEN grants' = [grants EXCEPT ![x][u] = req[r].want] /\ Goto(r, "ok")
         ELSE Goto(r, "refused") /\ UNCHANGED grants
      /\ UNCHANGED owner

\* GrantRepository.Delete.
DeleteGrant(r) ==
  LET x == req[r].resource
      u == req[r].user
  IN  /\ At(r, "write")
      /\ req[r].op = "deleteGrant"
      /\ grants' = [grants EXCEPT ![x][u] = "NONE"]
      /\ Goto(r, IF grants[x][u] # "NONE" THEN "ok" ELSE "refused")
      /\ UNCHANGED owner

\* GrantRepository.ListByResource.
ListGrants(r) ==
  /\ At(r, "write")
  /\ req[r].op = "listGrants"
  /\ Goto(r, "ok")
  /\ Tables

\* CheckAccess and ListResources read in one statement.  An action other than read
\* and edit is refused, unless the resource is not registered.
Read(r) ==
  LET q == req[r]
  IN  /\ At(r, "read")
      /\ IF q.op = "check"
         THEN req' = [req EXCEPT
                ![r].answer = IF Allowed(q.actor, q.resource, q.want) THEN {q.resource} ELSE {},
                ![r].pc = IF q.want = "NONE" /\ owner[q.resource] # None THEN "refused" ELSE "ok"]
         ELSE req' = [req EXCEPT ![r].answer = ListByUser(q.actor, q.want), ![r].pc = "ok"]
      /\ Tables

\* A statement fails.
Fail(r) ==
  /\ req[r].pc \notin {"new", "ok", "refused", "failed"}
  /\ Goto(r, "failed")
  /\ Tables

------------------------------------------------------------------------------
Arrive(r) ==
  \/ RegisterResource(r) \/ AdminUpdateResource(r)
  \/ AskToGrant(r) \/ AskToDelete(r) \/ AskForGrants(r)
  \/ CheckAccess(r) \/ ListResources(r)

Step(r) ==
  \/ Arrive(r)
  \/ InsertResource(r) \/ SelectResource(r) \/ UpdateOwner(r)
  \/ CheckOwner(r) \/ CreateGrant(r) \/ DeleteGrant(r) \/ ListGrants(r)
  \/ Read(r) \/ Fail(r)

Next == \E r \in Requests : Step(r)

Spec == Init /\ [][Next]_vars

------------------------------------------------------------------------------
(***************************************************************************)
(* Properties.                                                             *)
(***************************************************************************)
\* Every variable has its type, and grants are only on registered resources.
TypeOK ==
  /\ owner \in [Resources -> Users \union {None}]
  /\ grants \in [Resources -> [Users -> Permissions]]
  /\ \A x \in Resources, u \in Users : grants[x][u] # "NONE" => owner[x] # None
  /\ req \in [Requests -> Request]

\* Grants are made, removed and listed only for an administrator or for someone who
\* has owned the resource since the request began, however often the owner changes
\* between the check and the write; to hold EDIT is not enough.
EntitledOnly ==
  \A r \in Requests :
    req[r].op \in {"createGrant", "deleteGrant", "listGrants"} /\ At(r, "ok") => req[r].entitled

\* The list of resources and the check agree on every resource at every moment,
\* although each has a query of its own: mock-svc lists with one and opens with the
\* other.
ListAgreesWithCheck ==
  \A u \in Users, x \in Resources, want \in {"READ", "EDIT"} :
    x \in ListByUser(u, want) <=> Allowed(u, x, want)

==============================================================================
