------------------------------ MODULE MockStore ------------------------------
(***************************************************************************)
(* The mocks of mock-svc, their families and the search index: the tables  *)
(* mocks, families and mock_search, and the requests on them (mocks.go and *)
(* families.go of internal/application, and the transaction of a           *)
(* generation in generations.go).                                          *)
(*                                                                         *)
(* A request first reads: it asks user-svc for access, then fetches rows,  *)
(* each by a statement of its own.  It writes in one transaction at the    *)
(* end, without reading again what it has checked.  Each query and each    *)
(* transaction is a step here.  A transaction is one step because its      *)
(* statements update rows they name by key, families before mocks before   *)
(* mock_search, and hold their locks until the commit.                     *)
(*                                                                         *)
(* content stands for the columns that a user may set (name, description,  *)
(* request_match, response_template, enabled).  Ids are given out in no    *)
(* particular order.  The list of mocks comes in pages; the order they are *)
(* cut from, by updated_at, is left open: that is when the last change of  *)
(* a row began, and changes need not commit in the order they began.       *)
(***************************************************************************)
EXTENDS Naturals, FiniteSets

CONSTANTS
  Mocks,      \* ids of mocks, given out by the database
  Families,   \* ids of families
  Contents,   \* what a mock can be set to
  Requests,   \* bound: the requests that arrive, each once
  Limits,     \* limits a list may be asked for with, 0 for none
  Offsets,    \* offsets likewise
  DefaultLimit,   \* the limit when none is asked for
  None,       \* NULL, or: no such row
  Absent      \* a filter that the request leaves out

ASSUME MocksAssumption == IsFiniteSet(Mocks)
ASSUME PagesAssumption ==
  Limits \subseteq Nat /\ Offsets \subseteq Nat /\ 0 \in Offsets /\ DefaultLimit \in Nat \ {0}
ASSUME NoneAssumption ==
  None \notin Mocks \union Families \union Contents /\ Absent \notin Families \union Contents

VARIABLES
  mock,      \* mocks: the row of each id, None when there is none
  search,    \* mock_search, likewise
  primary,   \* families.primary_mock_id; None when there is no such family
  req,       \* the requests, with what each has read so far
  raced,     \* history: mocks whose family a transaction overwrote, having read another
  steady,    \* history: mocks that matched a query at all times since it began
  once       \* history: mocks that matched a query at some time since it began

vars == <<mock, search, primary, req, raced, steady, once>>

------------------------------------------------------------------------------
Row == [family : Families \union {None}, content : Contents, deleted : BOOLEAN]

ASSUME RowAssumption == None \notin Row

Exists(m) == mock[m] # None
Active(m) == Exists(m) /\ ~mock[m].deleted

Reads == {"getMock", "listMocks", "getFamily"}
Ops == Reads \union {"createMock", "updateMock", "deleteMock", "derive",
                     "createFamily", "addFamilyMock", "updatePrimary"}

PC == {"new", "access", "family", "primary", "mock", "tx", "resources", "search",
       "fetch", "members", "ok", "failed"}

\* What a request asks for, a list with the limit of its page and the number of mocks
\* skipped before it, and what it has read: the primary of the family (head),
\* the row of the mock (seen), the mocks it may read (readable) and those found.
Request == [op : Ops, pc : PC, mock : Mocks \union {None},
            family : Families \union {None, Absent}, content : Contents \union {Absent},
            limit : Limits \union {DefaultLimit}, offset : Offsets,
            head : Mocks \union {None}, seen : Row \union {None},
            readable : SUBSET Mocks, found : SUBSET Mocks]

Pending(op) ==
  [op |-> op, pc |-> "new", mock |-> None, family |-> Absent, content |-> Absent,
   limit |-> DefaultLimit, offset |-> 0, head |-> None, seen |-> None, readable |-> {}, found |-> {}]

\* Some mocks have been created already.
Init ==
  /\ \E old \in SUBSET Mocks, c \in Contents :
       mock = [m \in Mocks |-> IF m \in old
                               THEN [family |-> None, content |-> c, deleted |-> FALSE]
                               ELSE None]
  /\ search = mock
  /\ primary = [f \in Families |-> None]
  /\ req \in [Requests -> {Pending(op) : op \in Ops}]
  /\ raced = {}
  /\ steady = [r \in Requests |-> {}]
  /\ once = [r \in Requests |-> {}]

------------------------------------------------------------------------------
(***************************************************************************)
(* Building blocks.                                                        *)
(***************************************************************************)
At(r, label) == req[r].pc = label
Op(r) == req[r].op

Goto(r, label) == req' = [req EXCEPT ![r].pc = label]

Tables == UNCHANGED <<mock, search, primary, raced>>

\* An error is returned and what was read is forgotten; a transaction is rolled back.
Refuse(r) ==
  /\ req' = [req EXCEPT ![r] = [Pending(Op(r)) EXCEPT !.pc = "failed"]]
  /\ Tables

\* The clauses of Search, on a row of either table.
Matches(row, q) ==
  /\ row # None
  /\ ~row.deleted
  /\ q.family \in {Absent, row.family}
  /\ q.content \in {Absent, row.content}

\* MockSearchRepository.Upsert and Update, of the row buildMockSearch makes of m.
Upsert(m) == search' = [search EXCEPT ![m] = mock'[m]]
UpdateSearch(m) == search' = [search EXCEPT ![m] = IF @ = None THEN None ELSE mock'[m]]

\* How many of n mocks that match are on the page that q asks for.
PageLength(n, q) ==
  IF n <= q.offset THEN 0 ELSE IF n <= q.offset + q.limit THEN n - q.offset ELSE q.limit

\* MockRepository.UpdateFamily and the search row, the end of three transactions.
JoinFamily(r, f) ==
  LET m == req[r].mock
  IN  /\ mock' = [mock EXCEPT ![m].family = f]
      /\ raced' = IF mock[m].family = req[r].seen.family THEN raced ELSE raced \union {m}
      /\ UpdateSearch(m)

\* A transaction starts, for the operation op.
Tx(r, op) == At(r, "tx") /\ Op(r) = op

Insert(r, m, row) ==
  /\ ~Exists(m)
  /\ mock' = [mock EXCEPT ![m] = row]
  /\ Upsert(m)
  /\ Goto(r, "ok")
  /\ UNCHANGED <<primary, raced>>

------------------------------------------------------------------------------
(***************************************************************************)
(* Variants of the steps below, each with one plausible mistake.  Next     *)
(* uses none.                                                              *)
(***************************************************************************)
\* A mock of another family may join too.
MayJoinAlways(r, row) == Op(r) = "createFamily" => row.family = None

\* FamilyRepository.Get without ErrNotFound.
GetFamilyRowUnchecked(r) ==
  /\ At(r, "family")
  /\ req' = [req EXCEPT ![r].head = primary[req[r].family],
                        ![r].pc = IF Op(r) = "getFamily" THEN "access" ELSE "primary"]
  /\ Tables

\* Search that cuts the page before it looks at what the user may read.
SearchThenFilter(r) ==
  LET all == {m \in Mocks : Matches(search[m], req[r])}
  IN  /\ At(r, "search")
      /\ \E page \in SUBSET all :
           /\ Cardinality(page) = PageLength(Cardinality(all), req[r])
           /\ req' = [req EXCEPT ![r].found = page \intersect req[r].readable, ![r].pc = "fetch"]
      /\ Tables

\* DeleteMock that leaves the search row alone.
TxDeleteMockOnly(r) ==
  /\ Tx(r, "deleteMock")
  /\ Active(req[r].mock)
  /\ mock' = [mock EXCEPT ![req[r].mock].deleted = TRUE]
  /\ Goto(r, "ok")
  /\ UNCHANGED <<search, primary, raced>>

\* UpdatePrimary alone, and UpdateFamily without the clause on deleted_at.
TxUpdatePrimaryOnly(r) ==
  /\ Tx(r, "updatePrimary")
  /\ \A f \in Families : primary[f] # req[r].mock
  /\ primary' = [primary EXCEPT ![req[r].family] = req[r].mock]
  /\ Goto(r, "ok")
  /\ UNCHANGED <<mock, search, raced>>

TxUpdatePrimaryDeleted(r) ==
  /\ Tx(r, "updatePrimary")
  /\ \A f \in Families : primary[f] # req[r].mock
  /\ primary' = [primary EXCEPT ![req[r].family] = req[r].mock]
  /\ JoinFamily(r, req[r].family)
  /\ Goto(r, "ok")

------------------------------------------------------------------------------
(***************************************************************************)
(* Requests arrive and read.                                               *)
(***************************************************************************)
\* A handler has decoded a request about mock m and family f, and the service has
\* validated it; one that is refused at once is left out.  label is the first step.
Begin(r, op, label, m, f) ==
  /\ At(r, "new")
  /\ Op(r) = op
  /\ req' = [req EXCEPT ![r].pc = label, ![r].mock = m, ![r].family = f]
  /\ Tables

CreateMock(r) == Begin(r, "createMock", "tx", None, Absent)
GetMock(r) == \E m \in Mocks : Begin(r, "getMock", "access", m, Absent)
UpdateMock(r) == \E m \in Mocks : Begin(r, "updateMock", "access", m, Absent)
DeleteMock(r) == \E m \in Mocks : Begin(r, "deleteMock", "access", m, Absent)

\* StartGeneration, for the part that concerns the tables here.
Derive(r) == \E m \in Mocks : Begin(r, "derive", "access", m, Absent)

CreateFamily(r) == \E m \in Mocks : Begin(r, "createFamily", "access", m, Absent)
AddFamilyMock(r) ==
  \E m \in Mocks, f \in Families : Begin(r, "addFamilyMock", "access", m, f)
UpdateFamilyPrimary(r) ==
  \E m \in Mocks, f \in Families : Begin(r, "updatePrimary", "access", m, f)
GetFamily(r) == \E f \in Families : Begin(r, "getFamily", "family", None, f)

\* With at most one filter, on the family or on the content, and a page.
ListMocks(r) ==
  /\ At(r, "new")
  /\ Op(r) = "listMocks"
  /\ \E f \in Families \union {Absent}, c \in Contents \union {Absent} :
       /\ Absent \in {f, c}
       /\ \E limit \in Limits, offset \in Offsets :
            req' = [req EXCEPT ![r].pc = "resources", ![r].family = f, ![r].content = c,
                               ![r].limit = IF limit = 0 THEN DefaultLimit ELSE limit,
                               ![r].offset = offset]
  /\ Tables

\* AuthClient.CheckAccess: user-svc allows it, or the request ends.
CheckAccess(r) ==
  /\ At(r, "access")
  /\ Goto(r, CASE Op(r) \in {"updateMock", "deleteMock"} -> "tx"
               [] Op(r) \in {"getMock", "derive", "createFamily"} -> "mock"
               [] Op(r) \in {"addFamilyMock", "updatePrimary"} -> "family"
               [] OTHER -> "members")
  /\ Tables

\* FamilyRepository.Get.
GetFamilyRow(r) ==
  LET head == primary[req[r].family]
  IN  /\ At(r, "family")
      /\ IF head = None THEN Refuse(r)
         ELSE /\ req' = [req EXCEPT ![r].head = head,
                                    ![r].pc = IF Op(r) = "getFamily" THEN "access" ELSE "primary"]
              /\ Tables

\* MockRepository.GetActive of the primary, and isOwnerOrAdmin, which lets the
\* creator of that mock and administrators pass.
GetPrimary(r) ==
  /\ At(r, "primary")
  /\ IF Active(req[r].head) THEN Goto(r, "mock") /\ Tables ELSE Refuse(r)

\* May the mock that was read join the family the request is about?
MayJoin(r, row) ==
  CASE Op(r) = "createFamily" -> row.family = None
    [] Op(r) \in {"addFamilyMock", "updatePrimary"} -> row.family \in {None, req[r].family}
    [] OTHER -> TRUE

\* MockRepository.GetActive of the mock itself.
GetActive(r) ==
  LET m == req[r].mock
  IN  /\ At(r, "mock")
      /\ IF Active(m) /\ MayJoin(r, mock[m])
         THEN /\ req' = [req EXCEPT ![r].seen = mock[m],
                                    ![r].pc = IF Op(r) = "getMock" THEN "ok" ELSE "tx"]
              /\ Tables
         ELSE Refuse(r)

\* AuthClient.ListResources: the mocks the user may read.
ListResources(r) ==
  /\ At(r, "resources")
  /\ \E ms \in SUBSET Mocks :
       req' = [req EXCEPT ![r].readable = ms,
                          ![r].found = IF Op(r) = "getFamily" THEN @ \intersect ms ELSE @,
                          ![r].pc = IF Op(r) = "getFamily" THEN "ok" ELSE "search"]
  /\ Tables

\* MockSearchRepository.Search: a page of what matches.
Search(r) ==
  LET all == {m \in req[r].readable : Matches(search[m], req[r])}
  IN  /\ At(r, "search")
      /\ \E page \in SUBSET all :
           /\ Cardinality(page) = PageLength(Cardinality(all), req[r])
           /\ req' = [req EXCEPT ![r].found = page, ![r].pc = "fetch"]
      /\ Tables

\* MockRepository.ListByIDs: what has been deleted meanwhile is left out.
ListByIDs(r) ==
  /\ At(r, "fetch")
  /\ req' = [req EXCEPT ![r].found = {m \in @ : Active(m)}, ![r].pc = "ok"]
  /\ Tables

\* MockRepository.ListByFamily.
ListByFamily(r) ==
  /\ At(r, "members")
  /\ req' = [req EXCEPT ![r].found = {m \in Mocks : Matches(mock[m], req[r])},
                        ![r].pc = "resources"]
  /\ Tables

------------------------------------------------------------------------------
(***************************************************************************)
(* Requests write: one transaction each.                                   *)
(***************************************************************************)
TxCreateMock(r) ==
  /\ Tx(r, "createMock")
  /\ \E m \in Mocks, c \in Contents :
       Insert(r, m, [family |-> None, content |-> c, deleted |-> FALSE])

\* The end of a generation: a derived mock gets the family of its base as it was
\* when the generation was requested.
TxDerive(r) ==
  /\ Tx(r, "derive")
  /\ \E m \in Mocks, c \in Contents :
       Insert(r, m, [family |-> req[r].seen.family, content |-> c, deleted |-> FALSE])

\* MockRepository.Update, then the search row.
TxUpdateMock(r) ==
  LET m == req[r].mock
  IN  /\ Tx(r, "updateMock")
      /\ IF Active(m)
         THEN /\ \E c \in Contents : mock' = [mock EXCEPT ![m].content = c]
              /\ UpdateSearch(m)
              /\ Goto(r, "ok")
              /\ UNCHANGED <<primary, raced>>
         ELSE Refuse(r)

\* MockRepository.SoftDelete, then the search row.
TxDeleteMock(r) ==
  LET m == req[r].mock
  IN  /\ Tx(r, "deleteMock")
      /\ IF Active(m)
         THEN /\ mock' = [mock EXCEPT ![m].deleted = TRUE]
              /\ UpdateSearch(m)
              /\ Goto(r, "ok")
              /\ UNCHANGED <<primary, raced>>
         ELSE Refuse(r)

\* The unique index on families.primary_mock_id.
PrimaryElsewhere(m, f) == \E g \in Families \ {f} : primary[g] = m

\* FamilyRepository.Create, then the mock joins the new family.
TxCreateFamily(r) ==
  LET m == req[r].mock
  IN  /\ Tx(r, "createFamily")
      /\ \/ \E f \in Families :
              /\ primary[f] = None
              /\ ~PrimaryElsewhere(m, f)
              /\ Active(m)
              /\ primary' = [primary EXCEPT ![f] = m]
              /\ JoinFamily(r, f)
              /\ Goto(r, "ok")
         \/ (~Active(m) \/ \E f \in Families : primary[f] = m) /\ Refuse(r)

TxAddFamilyMock(r) ==
  /\ Tx(r, "addFamilyMock")
  /\ IF Active(req[r].mock)
     THEN JoinFamily(r, req[r].family) /\ Goto(r, "ok") /\ UNCHANGED primary
     ELSE Refuse(r)

\* FamilyRepository.UpdatePrimary, then the new primary joins the family.
TxUpdatePrimary(r) ==
  LET m == req[r].mock
      f == req[r].family
  IN  /\ Tx(r, "updatePrimary")
      /\ IF Active(m) /\ ~PrimaryElsewhere(m, f)
         THEN /\ primary' = [primary EXCEPT ![f] = m]
              /\ JoinFamily(r, f)
              /\ Goto(r, "ok")
         ELSE Refuse(r)

\* A call fails or times out, access is denied, or mock-svc dies.
Fail(r) ==
  /\ req[r].pc \notin {"new", "ok", "failed"}
  /\ Refuse(r)

------------------------------------------------------------------------------
Write(r) ==
  \/ TxCreateMock(r) \/ TxDerive(r) \/ TxUpdateMock(r) \/ TxDeleteMock(r)
  \/ TxCreateFamily(r) \/ TxAddFamilyMock(r) \/ TxUpdatePrimary(r)

Arrive(r) ==
  \/ CreateMock(r) \/ GetMock(r) \/ UpdateMock(r) \/ DeleteMock(r) \/ ListMocks(r) \/ Derive(r)
  \/ CreateFamily(r) \/ AddFamilyMock(r) \/ UpdateFamilyPrimary(r) \/ GetFamily(r)

Step(r) ==
  \/ Arrive(r) \/ CheckAccess(r) \/ GetFamilyRow(r) \/ GetPrimary(r)
  \/ GetActive(r) \/ ListResources(r) \/ Search(r) \/ ListByIDs(r) \/ ListByFamily(r)
  \/ Write(r) \/ Fail(r)

\* The history of the queries, from their beginning to their answer.
Query(r) == req'[r].op \in {"listMocks", "getFamily"} /\ req[r].pc \notin {"ok", "failed"}
MatchingNow(r) == {m \in Mocks : Matches(mock'[m], req'[r])}

Observe ==
  /\ steady' = [r \in Requests |->
       CASE ~Query(r) -> steady[r]
         [] Query(r) /\ req'[r].pc = "failed" -> {}
         [] OTHER -> IF At(r, "new") THEN MatchingNow(r) ELSE steady[r] \intersect MatchingNow(r)]
  /\ once' = [r \in Requests |->
       CASE ~Query(r) -> once[r]
         [] Query(r) /\ req'[r].pc = "failed" -> {}
         [] OTHER -> IF At(r, "new") THEN MatchingNow(r) ELSE once[r] \union MatchingNow(r)]

Next == (\E r \in Requests : Step(r)) /\ Observe

Spec == Init /\ [][Next]_vars

------------------------------------------------------------------------------
(***************************************************************************)
(* Properties.                                                             *)
(***************************************************************************)
\* Every variable has its type, and no request goes on with a family it has not
\* found.
TypeOK ==
  /\ mock \in [Mocks -> Row \union {None}]
  /\ search \in [Mocks -> Row \union {None}]
  /\ primary \in [Families -> Mocks \union {None}]
  /\ req \in [Requests -> Request]
  /\ \A r \in Requests : At(r, "primary") => req[r].head # None
  /\ raced \subseteq Mocks
  /\ steady \in [Requests -> SUBSET Mocks]
  /\ once \in [Requests -> SUBSET Mocks]

\* The index agrees with the mocks after every transaction, although each of seven
\* operations writes its own copy of the row.
SearchAgrees == search = mock

\* The primary of a family belongs to it, unless a request moved the mock having
\* read a family that was no longer its family: the checks of families.go come
\* before the transaction.
PrimaryBelongs ==
  \A f \in Families :
    primary[f] # None /\ primary[f] \notin raced => mock[primary[f]].family = f

\* A query never answers with a mock that did not match at some time since it began
\* or that the user may not read.  The answer of GetFamily has every mock that
\* matched from the beginning to the end, although it joins reads made at different
\* times; that of ListMocks misses no more of them than it was asked to skip, as
\* long as the mocks that ever matched are few enough for the page to reach the last.
AnswersBetween ==
  \A r \in Requests :
    LET all == steady[r] \intersect req[r].readable
        some == once[r] \intersect req[r].readable
    IN  req[r].op \in {"listMocks", "getFamily"} /\ req[r].pc = "ok" =>
          /\ req[r].found \subseteq some
          /\ req[r].op = "getFamily" => all \subseteq req[r].found
          /\ req[r].op = "listMocks" /\ Cardinality(some) <= req[r].offset + req[r].limit =>
               Cardinality(all \ req[r].found) <= req[r].offset

\* A mock that is in a family is not moved to another one, unless the request
\* that moves it has read the mock before it came into the first.
MembersStay ==
  [][\A m \in Mocks :
       Exists(m) /\ mock[m].family # None /\ mock'[m].family # mock[m].family
         => m \in raced']_vars

\* A family is never given a primary that is deleted at that moment, even when the
\* mock is deleted after the request has checked it.
PrimaryIsActive ==
  [][\A f \in Families :
       primary'[f] # primary[f] => Active(primary'[f]) /\ ~mock'[primary'[f]].deleted]_vars

==============================================================================
