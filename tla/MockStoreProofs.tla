--------------------------- MODULE MockStoreProofs ---------------------------
(***************************************************************************)
(* Proofs of the safety properties of MockStore, for any number of mocks,  *)
(* families, contents and concurrent requests.                             *)
(***************************************************************************)
EXTENDS MockStore, FiniteSetTheorems, TLAPS

------------------------------------------------------------------------------
(***************************************************************************)
(* The inductive invariant.                                                *)
(***************************************************************************)
Queries == {"listMocks", "getFamily"}
Moves == {"createFamily", "addFamilyMock", "updatePrimary"}
AboutMock == Moves \union {"getMock", "updateMock", "deleteMock", "derive"}
AboutFamily == {"addFamilyMock", "updatePrimary", "getFamily"}

\* The operations that pass each point.
OpsAt(label) ==
  CASE label = "access" -> AboutMock \union {"getFamily"}
    [] label = "family" -> AboutFamily
    [] label = "primary" -> {"addFamilyMock", "updatePrimary"}
    [] label = "mock" -> Moves \union {"getMock", "derive"}
    [] label = "tx" -> Moves \union {"createMock", "updateMock", "deleteMock", "derive"}
    [] label = "members" -> {"getFamily"}
    [] label = "resources" -> Queries
    [] label \in {"search", "fetch"} -> {"listMocks"}
    [] OTHER -> Ops

\* A request q that goes on names what it is about, and one that will move a
\* mock has read a row that may join the family.
WellFormed(q) ==
  /\ q.op \in OpsAt(q.pc)
  /\ q.pc \notin {"new", "failed"} /\ q.op \in AboutMock => q.mock \in Mocks
  /\ q.pc \notin {"new", "failed"} /\ q.op \in AboutFamily => q.family \in Families
  /\ q.pc = "primary" => q.head # None
  /\ q.pc = "tx" /\ q.op \in Moves \union {"derive"} => q.seen # None
  /\ q.pc = "tx" /\ q.op = "createFamily" => q.seen.family = None
  /\ q.pc = "tx" /\ q.op \in {"addFamilyMock", "updatePrimary"} =>
       q.seen.family \in {None, q.family}

\* The mocks that match the query of r now.
Now(r) == {m \in Mocks : Matches(mock[m], req[r])}

\* The rows found answer q, when the readable mocks that matched throughout are all
\* and those that ever matched are some.
Answers(q, found, all, some) ==
  /\ found \subseteq some
  /\ q.op = "getFamily" => all \subseteq found
  /\ q.op = "listMocks" /\ Cardinality(some) <= q.offset + q.limit =>
       Cardinality(all \ found) <= q.offset

\* What has matched at all times matches now, and that has matched at some time; the
\* rows that r has found lie between the two.
Answering(r) ==
  req[r].op \in Queries =>
    /\ req[r].pc \notin {"new", "ok", "failed"} => steady[r] \subseteq Now(r) /\ Now(r) \subseteq once[r]
    /\ req[r].pc = "resources" /\ req[r].op = "getFamily" =>
         steady[r] \subseteq req[r].found /\ req[r].found \subseteq once[r]
    /\ req[r].pc \in {"fetch", "ok"} =>
         Answers(req[r], req[r].found, steady[r] \intersect req[r].readable,
                 once[r] \intersect req[r].readable)

\* A primary has a row: no new mock gets its id.
PrimaryExists == \A f \in Families : primary[f] # None => Exists(primary[f])

IInv ==
  /\ TypeOK
  /\ SearchAgrees
  /\ PrimaryBelongs
  /\ PrimaryExists
  /\ \A r \in Requests : WellFormed(req[r]) /\ Answering(r)

------------------------------------------------------------------------------
(***************************************************************************)
(* Pages.                                                                  *)
(***************************************************************************)
LEMMA PageIsNat ==
  ASSUME NEW q \in Request
  PROVE  q.limit \in Nat /\ q.offset \in Nat
BY PagesAssumption DEF Request

LEMMA MocksFinite ==
  ASSUME NEW ms \in SUBSET Mocks
  PROVE  IsFiniteSet(ms) /\ Cardinality(ms) \in Nat
BY MocksAssumption, FS_Subset, FS_CardinalityType

\* A page of the mocks in between leaves out no more than are skipped, if it reaches
\* the last of those that ever matched.
LEMMA PageAnswers ==
  ASSUME NEW q \in Request, q.op = "listMocks",
         NEW some \in SUBSET Mocks, NEW now \in SUBSET some, NEW all \in SUBSET now,
         NEW page \in SUBSET now, Cardinality(page) = PageLength(Cardinality(now), q)
  PROVE  Answers(q, page, all, some)
<1>1. Cardinality(now) \in Nat /\ Cardinality(some) \in Nat /\ Cardinality(all \ page) \in Nat
  BY MocksFinite
<1>2. Cardinality(now) <= Cardinality(some)
  BY MocksFinite, FS_Subset
<1>3. now \cap page = page
  OBVIOUS
<1>4. Cardinality(now \ page) = Cardinality(now) - Cardinality(page)
  <2>1. IsFiniteSet(now)
    BY MocksFinite
  <2>2. Cardinality(now \ page) = Cardinality(now) - Cardinality(now \cap page)
    BY <2>1, FS_Difference
  <2> QED
    BY <1>3, <2>2
<1>5. Cardinality(all \ page) <= Cardinality(now \ page)
  BY MocksFinite, FS_Subset, all \ page \subseteq now \ page
<1>6. q.limit \in Nat /\ q.offset \in Nat
  BY PageIsNat
<1>7. Cardinality(some) <= q.offset + q.limit => Cardinality(all \ page) <= q.offset
  <2> DEFINE n == Cardinality(now)
             k == Cardinality(some)
             missing == Cardinality(all \ page)
             length == Cardinality(page)
  <2>1. /\ n \in Nat /\ k \in Nat /\ missing \in Nat /\ n <= k /\ missing <= n - length
        /\ length = PageLength(n, q)
    BY <1>1, <1>2, <1>4, <1>5
  <2> HIDE DEF n, k, missing, length
  <2>2. k <= q.offset + q.limit => missing <= q.offset
    BY <1>6, <2>1 DEF PageLength
  <2> QED
    BY <2>2 DEF k, missing
<1> QED
  BY <1>7 DEF Answers

\* An answer stays one as the history goes on, even without rows that have stopped
\* matching.
LEMMA AnswersLater ==
  ASSUME NEW q \in Request, NEW all \in SUBSET Mocks, NEW some \in SUBSET Mocks,
         NEW found \in SUBSET Mocks, Answers(q, found, all, some),
         NEW all2 \in SUBSET all, NEW some2 \in SUBSET Mocks, some \subseteq some2,
         NEW found2 \in SUBSET found, all2 \intersect found \subseteq found2
  PROVE  Answers(q, found2, all2, some2)
<1>1. Cardinality(some) <= Cardinality(some2)
  BY MocksFinite, FS_Subset
<1>2. Cardinality(all2 \ found2) <= Cardinality(all \ found)
  BY MocksFinite, FS_Subset, all2 \ found2 \subseteq all \ found
<1>3. /\ Cardinality(some) \in Nat /\ Cardinality(some2) \in Nat
      /\ Cardinality(all \ found) \in Nat /\ Cardinality(all2 \ found2) \in Nat
  BY MocksFinite
<1>4. q.limit \in Nat /\ q.offset \in Nat
  BY PageIsNat
<1>5. ASSUME q.op = "listMocks", Cardinality(some2) <= q.offset + q.limit
      PROVE  Cardinality(all2 \ found2) <= q.offset
  <2>1. Cardinality(some) <= q.offset + q.limit
    BY <1>1, <1>3, <1>4, <1>5
  <2>2. Cardinality(all \ found) <= q.offset
    BY <1>5, <2>1 DEF Answers
  <2> QED
    BY <1>2, <1>3, <1>4, <2>2
<1> QED
  BY <1>5 DEF Answers

------------------------------------------------------------------------------
(***************************************************************************)
(* The history of the queries.                                             *)
(***************************************************************************)
\* What Observe does to a query that is not answered yet.
LEMMA ObserveQuery ==
  ASSUME TypeOK, Observe, NEW r \in Requests,
         req'[r].op \in Queries, req[r].pc \notin {"ok", "failed"}, req'[r].pc # "failed"
  PROVE  /\ steady'[r] \subseteq Now(r)' /\ Now(r)' \subseteq once'[r]
         /\ req[r].pc # "new" => steady'[r] \subseteq steady[r] /\ once[r] \subseteq once'[r]
<1>1. Query(r)
  BY DEF Query, Queries
<1>2. /\ steady'[r] = IF At(r, "new") THEN MatchingNow(r) ELSE steady[r] \intersect MatchingNow(r)
      /\ once'[r] = IF At(r, "new") THEN MatchingNow(r) ELSE once[r] \union MatchingNow(r)
  BY <1>1 DEF Observe
<1>3. MatchingNow(r) = Now(r)'
  BY DEF MatchingNow, Now
<1> QED
  BY <1>2, <1>3 DEF At

\* ... and to a request that is answered.
LEMMA ObserveAnswered ==
  ASSUME TypeOK, Observe, NEW r \in Requests, req[r].pc \in {"ok", "failed"}
  PROVE  steady'[r] = steady[r] /\ once'[r] = once[r]
BY DEF Observe, Query

LEMMA ObserveType ==
  ASSUME TypeOK, Observe
  PROVE  steady' \in [Requests -> SUBSET Mocks] /\ once' \in [Requests -> SUBSET Mocks]
<1>1. \A r \in Requests : MatchingNow(r) \subseteq Mocks
  BY DEF MatchingNow
<1> QED
  BY <1>1 DEF Observe, TypeOK

\* A request that does not move keeps its answer, whatever others write.
LEMMA AnswerKept ==
  ASSUME TypeOK, Observe, NEW r \in Requests, req'[r] = req[r], Answering(r)
  PROVE  Answering(r)'
<1> SUFFICES ASSUME req[r].op \in Queries
             PROVE  Answering(r)'
  BY DEF Answering
<1>1. CASE req[r].pc \in {"ok", "failed"}
  BY <1>1, ObserveAnswered DEF Answering
<1>2. CASE req[r].pc \notin {"ok", "failed"}
  <2>1. /\ req[r].pc # "new" => steady'[r] \subseteq steady[r] /\ once[r] \subseteq once'[r]
        /\ steady'[r] \subseteq Now(r)' /\ Now(r)' \subseteq once'[r]
    BY <1>2, ObserveQuery
  <2>2. CASE req[r].pc = "fetch"
    <3> DEFINE readable == req[r].readable
    <3>1. req[r] \in Request /\ steady[r] \in SUBSET Mocks /\ once[r] \in SUBSET Mocks
          /\ once'[r] \in SUBSET Mocks
      BY ObserveType DEF TypeOK
    <3>2. req[r].found \in SUBSET Mocks
      BY <3>1 DEF Request
    <3>3. Answers(req[r], req[r].found, steady[r] \intersect readable, once[r] \intersect readable)
      BY <2>2 DEF Answering
    <3>4. /\ steady'[r] \intersect readable \subseteq steady[r] \intersect readable
          /\ once[r] \intersect readable \subseteq once'[r] \intersect readable
      BY <2>1, <2>2
    <3> HIDE DEF readable
    <3>5. Answers(req[r], req[r].found, steady'[r] \intersect readable, once'[r] \intersect readable)
      BY <3>1, <3>2, <3>3, <3>4, AnswersLater
    <3> QED
      BY <2>1, <2>2, <3>5 DEF Answering, readable
  <2> QED
    BY <1>2, <2>1, <2>2 DEF Answering
<1> QED
  BY <1>1, <1>2

------------------------------------------------------------------------------
(***************************************************************************)
(* What the steps share.                                                   *)
(***************************************************************************)
\* A step of request r preserves the invariant if r stays well-formed, what it has
\* found is right, and the tables stay right.
LEMMA StepIInv ==
  ASSUME IInv, Observe, NEW r \in Requests, NEW new \in Request,
         req' = [req EXCEPT ![r] = new],
         WellFormed(new), Answering(r)',
         mock' \in [Mocks -> Row \union {None}], search' = mock',
         primary' \in [Families -> Mocks \union {None}], raced' \subseteq Mocks,
         PrimaryBelongs', PrimaryExists'
  PROVE  IInv'
<1>1. \A q \in Requests : req'[q] = IF q = r THEN new ELSE req[q]
  BY DEF IInv, TypeOK
<1>2. req' \in [Requests -> Request]
  BY DEF IInv, TypeOK
<1>3. \A q \in Requests : WellFormed(req'[q])
  BY <1>1 DEF IInv
<1>4. \A q \in Requests : Answering(q)'
  <2> SUFFICES ASSUME NEW q \in Requests, q # r PROVE Answering(q)'
    OBVIOUS
  <2> QED
    BY <1>1, AnswerKept DEF IInv
<1>5. \A q \in Requests : At(q, "primary")' => req'[q].head # None
  BY <1>3 DEF WellFormed, At
<1>6. TypeOK'
  BY <1>2, <1>5, ObserveType DEF IInv, TypeOK
<1> QED
  BY <1>3, <1>4, <1>6 DEF IInv, SearchAgrees

\* A step that only reads.
LEMMA ReadIInv ==
  ASSUME IInv, Observe, NEW r \in Requests, NEW new \in Request,
         req' = [req EXCEPT ![r] = new],
         WellFormed(new), Answering(r)', Tables
  PROVE  IInv'
<1>1. /\ mock' \in [Mocks -> Row \union {None}] /\ search' = mock'
      /\ primary' \in [Families -> Mocks \union {None}] /\ raced' \subseteq Mocks
  BY DEF IInv, TypeOK, SearchAgrees, Tables
<1>2. PrimaryBelongs' /\ PrimaryExists'
  BY DEF IInv, PrimaryBelongs, PrimaryExists, Exists, Tables
<1> QED
  BY <1>1, <1>2, StepIInv

\* The answer of a request that moves on, having found nothing new and without
\* entering a point where its answer is relied on.
LEMMA AnswerLater ==
  ASSUME TypeOK, Observe, NEW r \in Requests, req[r].pc \notin {"ok", "failed"},
         req'[r].op \in Queries =>
           \/ req'[r].pc \in {"access", "family", "members", "search"}
           \/ req'[r].pc = "resources" /\ req'[r].op # "getFamily"
  PROVE  Answering(r)'
BY ObserveQuery DEF Answering

\* A request is refused.
LEMMA RefuseIInv ==
  ASSUME IInv, Observe, NEW r \in Requests, Refuse(r), req[r].pc \notin {"new", "ok", "failed"}
  PROVE  IInv'
<1> DEFINE new == [Pending(req[r].op) EXCEPT !.pc = "failed"]
<1>1. req[r] \in Request /\ TypeOK
  BY DEF IInv, TypeOK
<1>2. new \in Request /\ new.op = req[r].op /\ new.pc = "failed"
  BY <1>1, PagesAssumption DEF Request, Pending, PC
<1>3. req' = [req EXCEPT ![r] = new] /\ Tables
  BY DEF Refuse, Op
<1>4. req'[r] = new
  BY <1>1, <1>3 DEF TypeOK
<1>5. req[r].op \in Ops
  BY <1>1 DEF Request
<1> HIDE DEF new
<1>6. WellFormed(new)
  BY <1>2, <1>5 DEF WellFormed, OpsAt
<1>7. Answering(r)'
  BY <1>2, <1>4 DEF Answering
<1> QED
  BY <1>2, <1>3, <1>6, <1>7, ReadIInv

------------------------------------------------------------------------------
(***************************************************************************)
(* Requests arrive and read.                                               *)
(***************************************************************************)
\* A request about mock m and family f arrives and goes to its first point.
LEMMA BeginIInv ==
  ASSUME IInv, Observe, NEW r \in Requests, NEW op \in Ops, NEW label \in {"tx", "access", "family"},
         NEW m \in Mocks \union {None}, NEW f \in Families \union {None, Absent},
         Begin(r, op, label, m, f),
         op \in OpsAt(label),
         op \in AboutMock => m \in Mocks /\ label # "tx",
         op \in AboutFamily => f \in Families
  PROVE  IInv'
<1> DEFINE new == [req[r] EXCEPT !.pc = label, !.mock = m, !.family = f]
<1>1. req[r] \in Request /\ req[r].op = op /\ req[r].pc = "new" /\ TypeOK
  BY DEF IInv, TypeOK, Begin, At, Op
<1>2. new \in Request /\ new.op = op /\ new.pc = label /\ new.mock = m /\ new.family = f
  <2>1. label \in PC
    BY DEF PC
  <2> QED
    BY <1>1, <2>1 DEF Request
<1>3. req' = [req EXCEPT ![r] = new] /\ Tables
  BY DEF Begin
<1>4. req'[r] = new
  BY <1>1, <1>3 DEF TypeOK
<1> HIDE DEF new
<1>5. WellFormed(new)
  BY <1>2 DEF WellFormed, AboutMock, Moves
<1>6. Answering(r)'
  <2>1. label = "tx" => op \notin Queries
    BY DEF OpsAt, Queries, Moves
  <2> QED
    BY <1>1, <1>2, <1>4, <2>1, AnswerLater
<1> QED
  BY <1>2, <1>3, <1>5, <1>6, ReadIInv

LEMMA ArriveIInv ==
  ASSUME IInv, Observe, NEW r \in Requests, Arrive(r)
  PROVE  IInv'
<1> USE DEF Ops, Reads, OpsAt, Moves, AboutMock, AboutFamily
<1>1. CASE CreateMock(r)
  BY <1>1, BeginIInv DEF CreateMock
<1>2. CASE GetMock(r) \/ UpdateMock(r) \/ DeleteMock(r) \/ Derive(r) \/ CreateFamily(r)
  <2>1. PICK op \in AboutMock \ AboutFamily, m \in Mocks : Begin(r, op, "access", m, Absent)
    BY <1>2 DEF GetMock, UpdateMock, DeleteMock, Derive, CreateFamily
  <2> QED
    BY <2>1, BeginIInv
<1>3. CASE AddFamilyMock(r) \/ UpdateFamilyPrimary(r)
  <2>1. PICK op \in {"addFamilyMock", "updatePrimary"}, m \in Mocks, f \in Families :
          Begin(r, op, "access", m, f)
    BY <1>3 DEF AddFamilyMock, UpdateFamilyPrimary
  <2> QED
    BY <2>1, BeginIInv
<1>4. CASE GetFamily(r)
  <2>1. PICK f \in Families : Begin(r, "getFamily", "family", None, f)
    BY <1>4 DEF GetFamily
  <2> QED
    BY <2>1, BeginIInv
<1>5. CASE ListMocks(r)
  <2>0. PICK f \in Families \union {Absent}, c \in Contents \union {Absent} :
          /\ Absent \in {f, c}
          /\ \E asked \in Limits, offset \in Offsets :
               req' = [req EXCEPT ![r].pc = "resources", ![r].family = f, ![r].content = c,
                                  ![r].limit = IF asked = 0 THEN DefaultLimit ELSE asked,
                                  ![r].offset = offset]
    BY <1>5, Zenon DEF ListMocks
  <2>1. PICK asked \in Limits, offset \in Offsets :
          req' = [req EXCEPT ![r].pc = "resources", ![r].family = f, ![r].content = c,
                             ![r].limit = IF asked = 0 THEN DefaultLimit ELSE asked,
                             ![r].offset = offset]
    BY <2>0, Zenon
  <2> DEFINE limit == IF asked = 0 THEN DefaultLimit ELSE asked
             new == [req[r] EXCEPT !.pc = "resources", !.family = f, !.content = c,
                                    !.limit = limit, !.offset = offset]
  <2>2. req[r] \in Request /\ req[r].op = "listMocks" /\ req[r].pc = "new" /\ TypeOK /\ Tables
    BY <1>5 DEF IInv, TypeOK, ListMocks, At, Op
  <2>3. new \in Request /\ new.op = "listMocks" /\ new.pc = "resources"
    <3>1. /\ "resources" \in PC /\ f \in Families \union {None, Absent}
          /\ c \in Contents \union {Absent} /\ limit \in Limits \union {DefaultLimit}
      BY DEF PC
    <3> HIDE DEF limit
    <3>2. new.op = req[r].op /\ new.pc = "resources"
      BY <2>2 DEF Request
    <3>3. new \in Request
      BY <2>2, <3>1 DEF Request
    <3> QED
      BY <2>2, <3>2, <3>3
  <2>4. req' = [req EXCEPT ![r] = new]
    BY <2>1
  <2>5. req'[r] = new
    BY <2>2, <2>4 DEF TypeOK
  <2> HIDE DEF new
  <2>6. WellFormed(new)
    BY <2>3 DEF WellFormed, Queries
  <2>7. Answering(r)'
    BY <2>2, <2>3, <2>5, AnswerLater
  <2> QED
    BY <2>2, <2>3, <2>4, <2>6, <2>7, ReadIInv
<1> QED
  BY <1>1, <1>2, <1>3, <1>4, <1>5 DEF Arrive

\* A request passes a point that a query does not pass, or whose answer it does not
\* keep, with the head and the row it has read there.
LEMMA PassIInv ==
  ASSUME IInv, Observe, NEW r \in Requests, NEW label \in PC,
         NEW head \in Mocks \union {None}, NEW seen \in Row \union {None}, Tables,
         req' = [req EXCEPT ![r].pc = label, ![r].head = head, ![r].seen = seen],
         req[r].pc \in {"access", "family", "primary", "mock"},
         req[r].op \in OpsAt(label),
         req[r].op \in Queries => label \in {"access", "family", "members"},
         label = "primary" => head # None,
         label = "tx" => /\ req[r].op \in Moves \union {"derive"} => seen # None
                         /\ req[r].op = "createFamily" => seen.family = None
                         /\ req[r].op \in {"addFamilyMock", "updatePrimary"} =>
                              seen.family \in {None, req[r].family}
  PROVE  IInv'
<1> DEFINE new == [req[r] EXCEPT !.pc = label, !.head = head, !.seen = seen]
<1>1. req[r] \in Request /\ WellFormed(req[r]) /\ TypeOK
  BY DEF IInv, TypeOK
<1>2. /\ new \in Request /\ new.op = req[r].op /\ new.pc = label
      /\ new.mock = req[r].mock /\ new.family = req[r].family
      /\ new.head = head /\ new.seen = seen
  BY <1>1 DEF Request
<1>3. req' = [req EXCEPT ![r] = new]
  OBVIOUS
<1>4. req'[r] = new
  BY <1>1, <1>3 DEF TypeOK
<1> HIDE DEF new
<1>5. WellFormed(new)
  BY <1>1, <1>2 DEF WellFormed
<1>6. Answering(r)'
  BY <1>1, <1>2, <1>4, AnswerLater
<1> QED
  BY <1>2, <1>3, <1>5, <1>6, ReadIInv

\* A request that passes a point and has read nothing there.
LEMMA GotoIInv ==
  ASSUME IInv, Observe, NEW r \in Requests, NEW label \in PC \ {"primary"}, Tables,
         Goto(r, label),
         req[r].pc \in {"access", "family", "primary", "mock"},
         req[r].op \in OpsAt(label),
         req[r].op \in Queries => label \in {"access", "family", "members"},
         label = "tx" => req[r].op \notin Moves \union {"derive"}
  PROVE  IInv'
<1> DEFINE head == req[r].head
           seen == req[r].seen
<1>1. req[r] \in Request /\ TypeOK
  BY DEF IInv, TypeOK
<1>2. head \in Mocks \union {None} /\ seen \in Row \union {None}
  BY <1>1 DEF Request
<1>3. req' = [req EXCEPT ![r].pc = label, ![r].head = head, ![r].seen = seen]
  BY <1>1 DEF Goto, TypeOK, Request
<1>4. label = "tx" => req[r].op \notin {"createFamily", "addFamilyMock", "updatePrimary"}
  BY DEF Moves
<1> HIDE DEF head, seen
<1> QED
  BY <1>2, <1>3, <1>4, PassIInv

LEMMA CheckAccessIInv ==
  ASSUME IInv, Observe, NEW r \in Requests, CheckAccess(r)
  PROVE  IInv'
<1> USE DEF Moves, AboutMock, AboutFamily
<1> DEFINE label == CASE req[r].op \in {"updateMock", "deleteMock"} -> "tx"
                      [] req[r].op \in {"getMock", "derive", "createFamily"} -> "mock"
                      [] req[r].op \in {"addFamilyMock", "updatePrimary"} -> "family"
                      [] OTHER -> "members"
<1>1. /\ req[r] \in Request /\ req[r].pc = "access" /\ TypeOK /\ Tables
      /\ req[r].op \in AboutMock \union {"getFamily"}
  BY DEF IInv, TypeOK, CheckAccess, At, WellFormed, OpsAt
<1>2. Goto(r, label)
  BY DEF CheckAccess, Op
<1>3. req[r].op \in OpsAt(label) /\ label \in {"tx", "mock", "family", "members"}
  BY <1>1 DEF OpsAt
<1>4. req[r].op \in Queries => label = "members"
  BY DEF Queries
<1>5. label = "tx" => req[r].op \notin Moves \union {"derive"}
  OBVIOUS
<1>6. label \in PC \ {"primary"} /\ (req[r].op \in Queries => label \in {"access", "family", "members"})
  BY <1>3, <1>4 DEF PC
<1> HIDE DEF label
<1> QED
  BY <1>1, <1>2, <1>3, <1>5, <1>6, GotoIInv

LEMMA GetFamilyRowIInv ==
  ASSUME IInv, Observe, NEW r \in Requests, GetFamilyRow(r)
  PROVE  IInv'
<1> DEFINE head == primary[req[r].family]
           label == IF req[r].op = "getFamily" THEN "access" ELSE "primary"
<1>1. /\ req[r] \in Request /\ req[r].pc = "family" /\ TypeOK
      /\ req[r].op \in AboutFamily /\ req[r].family \in Families
  BY DEF IInv, TypeOK, GetFamilyRow, At, WellFormed, OpsAt
<1>2. CASE head = None
  BY <1>1, <1>2, RefuseIInv DEF GetFamilyRow
<1>3. CASE head # None
  <2>1. /\ Tables
        /\ req' = [req EXCEPT ![r].pc = label, ![r].head = head, ![r].seen = req[r].seen]
    <3>1. Tables /\ req' = [req EXCEPT ![r].head = head, ![r].pc = label]
      BY <1>3 DEF GetFamilyRow, Op
    <3> HIDE DEF head, label
    <3> QED
      BY <1>1, <3>1 DEF TypeOK, Request
  <2>2. head \in Mocks \union {None} /\ req[r].seen \in Row \union {None}
    BY <1>1 DEF TypeOK, Request
  <2>3. req[r].op \in OpsAt(label) /\ label \in {"access", "primary"}
    BY <1>1 DEF OpsAt, AboutFamily
  <2>4. req[r].op \in Queries => label = "access"
    BY <1>1 DEF Queries, AboutFamily
  <2> HIDE DEF head, label
  <2> QED
    BY <1>1, <1>3, <2>1, <2>2, <2>3, <2>4, PassIInv DEF PC
<1> QED
  BY <1>2, <1>3

LEMMA GetPrimaryIInv ==
  ASSUME IInv, Observe, NEW r \in Requests, GetPrimary(r)
  PROVE  IInv'
<1>1. /\ req[r] \in Request /\ req[r].pc = "primary" /\ TypeOK
      /\ req[r].op \in {"addFamilyMock", "updatePrimary"}
  BY DEF IInv, TypeOK, GetPrimary, At, WellFormed, OpsAt
<1>2. CASE Refuse(r)
  BY <1>1, <1>2, RefuseIInv
<1>3. CASE Goto(r, "mock") /\ Tables
  <2>1. /\ "mock" \in PC \ {"primary"}
        /\ req[r].op \in OpsAt("mock") /\ req[r].op \notin Queries
    BY <1>1 DEF PC, OpsAt, Moves, Queries
  <2> QED
    BY <1>1, <1>3, <2>1, GotoIInv
<1> QED
  BY <1>2, <1>3 DEF GetPrimary

LEMMA GetActiveIInv ==
  ASSUME IInv, Observe, NEW r \in Requests, GetActive(r)
  PROVE  IInv'
<1> DEFINE m == req[r].mock
           label == IF req[r].op = "getMock" THEN "ok" ELSE "tx"
<1>1. /\ req[r] \in Request /\ req[r].pc = "mock" /\ TypeOK
      /\ req[r].op \in Moves \union {"getMock", "derive"} /\ req[r].mock \in Mocks
  BY DEF IInv, TypeOK, GetActive, At, WellFormed, OpsAt, AboutMock
<1>2. CASE Refuse(r)
  BY <1>1, <1>2, RefuseIInv
<1>3. CASE ~Refuse(r)
  <2>1. /\ Active(m) /\ MayJoin(r, mock[m]) /\ Tables
        /\ req' = [req EXCEPT ![r].seen = mock[m], ![r].pc = label]
    BY <1>3 DEF GetActive, Op
  <2>2. req' = [req EXCEPT ![r].pc = label, ![r].head = req[r].head, ![r].seen = mock[m]]
    <3> HIDE DEF label, m
    <3> QED
      BY <1>1, <2>1 DEF TypeOK, Request
  <2>3. mock[m] \in Row \union {None} /\ mock[m] # None /\ req[r].head \in Mocks \union {None}
    BY <1>1, <2>1 DEF TypeOK, Request, Active, Exists
  <2>4. /\ req[r].op = "createFamily" => mock[m].family = None
        /\ req[r].op \in {"addFamilyMock", "updatePrimary"} =>
             mock[m].family \in {None, req[r].family}
    <3> HIDE DEF m
    <3> QED
      BY <2>1 DEF MayJoin, Op
  <2>5. /\ req[r].op \in OpsAt(label) /\ label \in {"ok", "tx"}
        /\ req[r].op \notin Queries
    BY <1>1 DEF OpsAt, Moves, Ops, Reads, Queries
  <2> DEFINE row == mock[m]
  <2> HIDE DEF label, m
  <2>6. label \in PC /\ label # "primary" /\ Tables
    BY <2>1, <2>5 DEF PC
  <2>7. /\ row \in Row \union {None} /\ row # None
        /\ req' = [req EXCEPT ![r].pc = label, ![r].head = req[r].head, ![r].seen = row]
        /\ req[r].op = "createFamily" => row.family = None
        /\ req[r].op \in {"addFamilyMock", "updatePrimary"} => row.family \in {None, req[r].family}
    BY <2>2, <2>3, <2>4
  <2> HIDE DEF row
  <2> QED
    BY <1>1, <2>3, <2>5, <2>6, <2>7, PassIInv
<1> QED
  BY <1>2, <1>3

\* The reads of the two queries.
LEMMA ListResourcesIInv ==
  ASSUME IInv, Observe, NEW r \in Requests, ListResources(r)
  PROVE  IInv'
<1>1. /\ req[r] \in Request /\ req[r].pc = "resources" /\ TypeOK /\ Tables
      /\ req[r].op \in Queries /\ Answering(r) /\ WellFormed(req[r])
  BY DEF IInv, TypeOK, ListResources, At, WellFormed, OpsAt
<1>2. PICK ms \in SUBSET Mocks :
        req' = [req EXCEPT ![r].readable = ms,
                           ![r].found = IF req[r].op = "getFamily" THEN @ \intersect ms ELSE @,
                           ![r].pc = IF req[r].op = "getFamily" THEN "ok" ELSE "search"]
  BY DEF ListResources, Op
<1> DEFINE found == IF req[r].op = "getFamily" THEN req[r].found \intersect ms ELSE req[r].found
           label == IF req[r].op = "getFamily" THEN "ok" ELSE "search"
           new == [req[r] EXCEPT !.readable = ms, !.found = found, !.pc = label]
<1>3. req' = [req EXCEPT ![r] = new]
  BY <1>2
<1>4. req'[r] = new
  BY <1>1, <1>3 DEF TypeOK
<1>5. found \in SUBSET Mocks /\ label \in PC
  BY <1>1 DEF Request, PC
<1>6. req[r].op = "getFamily" => found = req[r].found \intersect ms /\ label = "ok"
  OBVIOUS
<1>7. req[r].op # "getFamily" => req[r].op = "listMocks" /\ label = "search"
  BY <1>1 DEF Queries
<1> HIDE DEF found, label
<1>8. /\ new \in Request /\ new.op = req[r].op /\ new.pc = label
      /\ new.mock = req[r].mock /\ new.family = req[r].family
      /\ new.readable = ms /\ new.found = found
  BY <1>1, <1>5 DEF Request
<1> HIDE DEF new
<1>9. WellFormed(new)
  BY <1>1, <1>6, <1>7, <1>8 DEF WellFormed, OpsAt, Ops, Reads
<1>10. Answering(r)'
  <2>1. CASE req[r].op = "getFamily"
    <3>1. steady'[r] \subseteq steady[r] /\ once[r] \subseteq once'[r]
      BY <1>1, <1>4, <1>6, <1>8, <2>1, ObserveQuery
    <3>2. steady[r] \subseteq req[r].found /\ req[r].found \subseteq once[r]
      BY <1>1, <2>1 DEF Answering
    <3>3. Answers(new, found, steady'[r] \intersect ms, once'[r] \intersect ms)
      BY <1>6, <1>8, <2>1, <3>1, <3>2 DEF Answers
    <3> QED
      BY <1>4, <1>6, <1>8, <2>1, <3>3 DEF Answering
  <2>2. CASE req[r].op # "getFamily"
    BY <1>1, <1>4, <1>7, <1>8, <2>2, AnswerLater
  <2> QED
    BY <2>1, <2>2
<1> QED
  BY <1>1, <1>3, <1>8, <1>9, <1>10, ReadIInv

\* A query gets a new set of rows and goes to the point label.
LEMMA FoundIInv ==
  ASSUME IInv, Observe, NEW r \in Requests, NEW found \in SUBSET Mocks,
         NEW label \in {"fetch", "ok", "resources"}, Tables,
         req' = [req EXCEPT ![r].found = found, ![r].pc = label],
         req[r].pc \in {"search", "fetch", "members"},
         req[r].op \in OpsAt(label), req[r].op \in Queries,
         label = "resources" => steady'[r] \subseteq found /\ found \subseteq once'[r],
         label # "resources" =>
           Answers(req[r], found, steady'[r] \intersect req[r].readable,
                   once'[r] \intersect req[r].readable)
  PROVE  IInv'
<1> DEFINE new == [req[r] EXCEPT !.found = found, !.pc = label]
<1>1. req[r] \in Request /\ TypeOK /\ WellFormed(req[r])
  BY DEF IInv, TypeOK
<1>2. req' = [req EXCEPT ![r] = new]
  OBVIOUS
<1>3. req'[r] = new
  BY <1>1, <1>2 DEF TypeOK
<1>4. /\ new \in Request /\ new.op = req[r].op /\ new.pc = label
      /\ new.mock = req[r].mock /\ new.family = req[r].family
      /\ new.readable = req[r].readable /\ new.found = found
      /\ new.limit = req[r].limit /\ new.offset = req[r].offset
  BY <1>1 DEF Request, PC
<1> HIDE DEF new
<1>5. WellFormed(new)
  BY <1>1, <1>4 DEF WellFormed
<1>6. steady'[r] \subseteq Now(r)' /\ Now(r)' \subseteq once'[r]
  BY <1>1, <1>3, <1>4, ObserveQuery
<1>7. label # "resources" =>
        Answers(new, found, steady'[r] \intersect new.readable, once'[r] \intersect new.readable)
  BY <1>4 DEF Answers
<1>8. Answering(r)'
  BY <1>3, <1>4, <1>6, <1>7 DEF Answering
<1> QED
  BY <1>2, <1>4, <1>5, <1>8, ReadIInv

\* The rows that match do not depend on the point where the request is.
LEMMA NowKept ==
  ASSUME NEW r \in Requests, UNCHANGED mock,
         req'[r].family = req[r].family, req'[r].content = req[r].content
  PROVE  Now(r)' = Now(r)
BY DEF Now, Matches

LEMMA SearchIInv ==
  ASSUME IInv, Observe, NEW r \in Requests, Search(r)
  PROVE  IInv'
<1> DEFINE readable == req[r].readable
           all == {m \in readable : Matches(search[m], req[r])}
<1>1. /\ req[r] \in Request /\ req[r].pc = "search" /\ TypeOK /\ Tables
      /\ req[r].op = "listMocks" /\ search = mock /\ readable \in SUBSET Mocks
  BY DEF IInv, TypeOK, SearchAgrees, Search, At, WellFormed, OpsAt, Request
<1>2. all = Now(r) \intersect readable
  BY <1>1 DEF Now
<1>3. PICK page \in SUBSET all :
        /\ Cardinality(page) = PageLength(Cardinality(all), req[r])
        /\ req' = [req EXCEPT ![r].found = page, ![r].pc = "fetch"]
  BY DEF Search
<1> HIDE DEF all
<1>4. req'[r].op = req[r].op /\ req'[r].family = req[r].family /\ req'[r].content = req[r].content
      /\ req'[r].pc = "fetch"
  BY <1>1, <1>3 DEF TypeOK, Request
<1>5. Now(r)' = Now(r)
  BY <1>1, <1>4, NowKept DEF Tables
<1>6. steady'[r] \subseteq Now(r) /\ Now(r) \subseteq once'[r]
  BY <1>1, <1>4, <1>5, ObserveQuery DEF Queries
<1>7. /\ once'[r] \intersect readable \in SUBSET Mocks
      /\ all \in SUBSET (once'[r] \intersect readable)
      /\ steady'[r] \intersect readable \in SUBSET all
  BY <1>1, <1>2, <1>6
<1>8. Answers(req[r], page, steady'[r] \intersect readable, once'[r] \intersect readable)
  BY <1>1, <1>3, <1>7, PageAnswers
<1>9. page \in SUBSET Mocks
  BY <1>1, <1>2
<1> QED
  BY <1>1, <1>3, <1>8, <1>9, FoundIInv DEF OpsAt, Queries, readable

LEMMA ListByIDsIInv ==
  ASSUME IInv, Observe, NEW r \in Requests, ListByIDs(r)
  PROVE  IInv'
<1> DEFINE found == {m \in req[r].found : Active(m)}
           readable == req[r].readable
<1>1. /\ req[r] \in Request /\ req[r].pc = "fetch" /\ TypeOK /\ Tables
      /\ req[r].op = "listMocks" /\ Answering(r)
      /\ req' = [req EXCEPT ![r].found = found, ![r].pc = "ok"]
  BY DEF IInv, TypeOK, ListByIDs, At, WellFormed, OpsAt
<1>2. /\ found \subseteq req[r].found /\ req[r].found \in SUBSET Mocks
      /\ steady[r] \in SUBSET Mocks /\ once[r] \in SUBSET Mocks /\ once'[r] \in SUBSET Mocks
  BY <1>1, ObserveType DEF TypeOK, Request
<1>3. req'[r].op = req[r].op /\ req'[r].family = req[r].family /\ req'[r].content = req[r].content
      /\ req'[r].pc = "ok"
  BY <1>1 DEF TypeOK, Request
<1>4. Now(r)' = Now(r)
  BY <1>1, <1>3, NowKept DEF Tables
<1>5. /\ steady'[r] \subseteq Now(r) /\ steady'[r] \subseteq steady[r] /\ once[r] \subseteq once'[r]
  BY <1>1, <1>3, <1>4, ObserveQuery DEF Queries
<1>6. \A m \in Now(r) : Active(m)
  BY DEF Now, Matches, Active, Exists
<1>7. Answers(req[r], req[r].found, steady[r] \intersect readable, once[r] \intersect readable)
  BY <1>1 DEF Answering, Queries
<1>8. (steady'[r] \intersect readable) \intersect req[r].found \subseteq found
  BY <1>5, <1>6
<1> HIDE DEF found, readable
<1>9. Answers(req[r], found, steady'[r] \intersect readable, once'[r] \intersect readable)
  <2>1. /\ steady'[r] \intersect readable \in SUBSET (steady[r] \intersect readable)
        /\ once[r] \intersect readable \subseteq once'[r] \intersect readable
        /\ steady[r] \intersect readable \in SUBSET Mocks
        /\ once[r] \intersect readable \in SUBSET Mocks
        /\ once'[r] \intersect readable \in SUBSET Mocks
    BY <1>2, <1>5
  <2> QED
    BY <1>1, <1>2, <1>7, <1>8, <2>1, AnswersLater
<1>10. req[r].op \in OpsAt("ok")
  BY <1>1 DEF OpsAt, Ops, Reads
<1> QED
  BY <1>1, <1>2, <1>9, <1>10, FoundIInv DEF Queries, readable

LEMMA ListByFamilyIInv ==
  ASSUME IInv, Observe, NEW r \in Requests, ListByFamily(r)
  PROVE  IInv'
<1>1. /\ req[r] \in Request /\ req[r].pc = "members" /\ TypeOK /\ Tables
      /\ req[r].op = "getFamily"
      /\ req' = [req EXCEPT ![r].found = Now(r), ![r].pc = "resources"]
  BY DEF IInv, TypeOK, ListByFamily, At, WellFormed, OpsAt, Now
<1>2. Now(r) \in SUBSET Mocks
  BY DEF Now
<1>3. req'[r].op = req[r].op /\ req'[r].family = req[r].family /\ req'[r].content = req[r].content
      /\ req'[r].pc = "resources"
  BY <1>1 DEF TypeOK, Request
<1>4. Now(r)' = Now(r)
  BY <1>1, <1>3, NowKept DEF Tables
<1>5. steady'[r] \subseteq Now(r) /\ Now(r) \subseteq once'[r]
  BY <1>1, <1>3, <1>4, ObserveQuery DEF Queries
<1> QED
  BY <1>1, <1>2, <1>5, FoundIInv DEF OpsAt, Queries

------------------------------------------------------------------------------
(***************************************************************************)
(* Requests write.                                                         *)
(***************************************************************************)
\* No mock leaves its family without being counted as raced.
Stays ==
  \A m \in Mocks :
    Exists(m) /\ mock[m].family # None /\ mock'[m].family # mock[m].family => m \in raced'

\* No primary is deleted when it is given.
GivenActive ==
  \A f \in Families :
    primary'[f] # primary[f] => Active(primary'[f]) /\ ~mock'[primary'[f]].deleted

\* What a transaction owes: the tables keep their types and agree, and primaries
\* belong to their families.
GoodWrite ==
  /\ mock' \in [Mocks -> Row \union {None}] /\ search' = mock'
  /\ primary' \in [Families -> Mocks \union {None}] /\ raced' \subseteq Mocks
  /\ PrimaryBelongs' /\ PrimaryExists'
  /\ Stays /\ GivenActive

\* A good transaction preserves the invariant.
LEMMA WriteIInv ==
  ASSUME IInv, Observe, NEW r \in Requests, req[r].pc = "tx", Goto(r, "ok"), GoodWrite
  PROVE  IInv'
<1> DEFINE new == [req[r] EXCEPT !.pc = "ok"]
<1>1. req[r] \in Request /\ WellFormed(req[r]) /\ TypeOK
  BY DEF IInv, TypeOK
<1>2. /\ new \in Request /\ new.op = req[r].op /\ new.pc = "ok"
      /\ new.mock = req[r].mock /\ new.family = req[r].family
  BY <1>1 DEF Request, PC
<1>3. req' = [req EXCEPT ![r] = new]
  BY DEF Goto
<1>4. req'[r] = new
  BY <1>1, <1>3 DEF TypeOK
<1>5. req[r].op \in Ops /\ req[r].op \notin Queries
  BY <1>1 DEF WellFormed, OpsAt, Moves, Queries, Ops, Reads
<1> HIDE DEF new
<1>6. WellFormed(new)
  BY <1>1, <1>2, <1>5 DEF WellFormed, OpsAt
<1>7. Answering(r)'
  BY <1>2, <1>4, <1>5 DEF Answering
<1> QED
  BY <1>2, <1>3, <1>6, <1>7, StepIInv DEF GoodWrite

\* A new mock takes an id that no row and no primary has.
LEMMA InsertGood ==
  ASSUME IInv, NEW r \in Requests, NEW m \in Mocks, NEW row \in Row, Insert(r, m, row)
  PROVE  GoodWrite
<1>1. /\ TypeOK /\ search = mock /\ mock[m] = None
      /\ mock' = [mock EXCEPT ![m] = row] /\ search' = [search EXCEPT ![m] = mock'[m]]
      /\ primary' = primary /\ raced' = raced
  BY DEF IInv, SearchAgrees, Insert, Upsert, Exists
<1>2. /\ mock' \in [Mocks -> Row \union {None}] /\ search' = mock'
      /\ \A x \in Mocks : mock[x] # None => mock'[x] = mock[x]
  BY <1>1 DEF TypeOK
<1>3. \A f \in Families : primary[f] # None => primary[f] \in Mocks /\ mock[primary[f]] # None
  BY <1>1 DEF IInv, TypeOK, PrimaryExists, Exists
<1>4. PrimaryBelongs' /\ PrimaryExists'
  BY <1>1, <1>2, <1>3 DEF IInv, PrimaryBelongs, PrimaryExists, Exists
<1>5. Stays /\ GivenActive
  BY <1>1, <1>2 DEF Stays, GivenActive, Exists
<1> QED
  BY <1>1, <1>2, <1>4, <1>5 DEF GoodWrite, TypeOK

\* A row that is changed but keeps its family.
LEMMA ChangeGood ==
  ASSUME IInv, NEW m \in Mocks, Active(m), NEW row \in Row, row.family = mock[m].family,
         mock' = [mock EXCEPT ![m] = row], UpdateSearch(m), UNCHANGED <<primary, raced>>
  PROVE  GoodWrite
<1>1. /\ TypeOK /\ search = mock /\ mock[m] # None
      /\ search' = [search EXCEPT ![m] = IF @ = None THEN None ELSE mock'[m]]
  BY DEF IInv, SearchAgrees, UpdateSearch, Active, Exists
<1>2. /\ mock' \in [Mocks -> Row \union {None}] /\ search' = mock'
      /\ \A x \in Mocks : /\ mock'[x].family = mock[x].family
                          /\ mock[x] # None => mock'[x] # None
  BY <1>1, RowAssumption DEF TypeOK
<1>3. \A f \in Families : primary[f] # None => primary[f] \in Mocks /\ mock[primary[f]] # None
  BY <1>1 DEF IInv, TypeOK, PrimaryExists, Exists
<1>4. PrimaryBelongs' /\ PrimaryExists'
  BY <1>2, <1>3 DEF IInv, PrimaryBelongs, PrimaryExists, Exists
<1>5. Stays /\ GivenActive
  BY <1>2 DEF Stays, GivenActive
<1> QED
  BY <1>1, <1>2, <1>4, <1>5 DEF GoodWrite, TypeOK

\* A mock joins family f, having been read in f or in none, and may become its
\* primary.
LEMMA JoinGood ==
  ASSUME IInv, NEW r \in Requests, NEW m \in Mocks, NEW f \in Families,
         m = req[r].mock, Active(m), req[r].seen.family \in {None, f}, JoinFamily(r, f),
         primary' \in {primary, [primary EXCEPT ![f] = m]}
  PROVE  GoodWrite
<1>1. /\ TypeOK /\ search = mock /\ mock[m] \in Row /\ mock[m] # None /\ ~mock[m].deleted
      /\ mock' = [mock EXCEPT ![m].family = f]
      /\ raced' = IF mock[m].family = req[r].seen.family THEN raced ELSE raced \union {m}
      /\ search' = [search EXCEPT ![m] = IF @ = None THEN None ELSE mock'[m]]
  BY DEF IInv, TypeOK, SearchAgrees, JoinFamily, UpdateSearch, Active, Exists
<1> DEFINE row == [mock[m] EXCEPT !.family = f]
<1>2. row \in Row /\ row.family = f /\ ~row.deleted
  BY <1>1 DEF Row
<1>3. mock' = [mock EXCEPT ![m] = row]
  BY <1>1
<1> HIDE DEF row
<1>4. /\ mock' \in [Mocks -> Row \union {None}] /\ search' = mock'
      /\ mock'[m] = row
      /\ \A x \in Mocks : x # m => mock'[x] = mock[x]
  <2>1. /\ mock' \in [Mocks -> Row \union {None}] /\ mock'[m] = row
        /\ \A x \in Mocks : x # m => mock'[x] = mock[x]
    BY <1>1, <1>2, <1>3 DEF TypeOK
  <2>2. search' = [search EXCEPT ![m] = row]
    <3>1. search[m] # None
      BY <1>1
    <3> QED
      BY <1>1, <2>1, <3>1
  <2> QED
    BY <1>1, <1>3, <2>1, <2>2
<1>5. raced \subseteq raced' /\ raced' \subseteq Mocks
  BY <1>1 DEF TypeOK
<1>6. \A g \in Families : primary[g] # None => primary[g] \in Mocks /\ mock[primary[g]] # None
  BY <1>1 DEF IInv, TypeOK, PrimaryExists, Exists
<1>7. /\ primary' \in [Families -> Mocks \union {None}]
      /\ \A g \in Families : primary'[g] = primary[g] \/ (g = f /\ primary'[g] = m)
  BY <1>1 DEF TypeOK
<1>8. ASSUME NEW x \in Mocks, mock[x].family \notin {None, f}, x = m
      PROVE  x \in raced'
  BY <1>1, <1>8
<1>9. PrimaryBelongs'
  <2> SUFFICES ASSUME NEW g \in Families, primary'[g] # None, primary'[g] \notin raced'
               PROVE  mock'[primary'[g]].family = g
    BY DEF PrimaryBelongs
  <2>1. CASE primary'[g] = m
    <3>1. CASE g = f
      BY <1>2, <1>4, <2>1, <3>1
    <3>2. CASE g # f
      <4>1. primary[g] = m /\ m \notin raced /\ m # None
        BY <1>5, <1>7, <2>1, <3>2
      <4>2. mock[m].family = g
        BY <4>1 DEF IInv, PrimaryBelongs
      <4>3. g # None
        BY NoneAssumption
      <4> QED
        BY <1>8, <2>1, <3>2, <4>2, <4>3
    <3> QED
      BY <3>1, <3>2
  <2>2. CASE primary'[g] # m
    <3>1. primary[g] = primary'[g] /\ primary[g] \notin raced /\ primary[g] \in Mocks
      BY <1>5, <1>6, <1>7, <2>2
    <3> QED
      BY <1>4, <2>2, <3>1 DEF IInv, PrimaryBelongs
  <2> QED
    BY <2>1, <2>2
<1>10. PrimaryExists'
  BY <1>2, <1>4, <1>6, <1>7, RowAssumption DEF PrimaryExists, Exists
<1>11. Stays
  <2> SUFFICES ASSUME NEW x \in Mocks, mock[x].family # None,
                      mock'[x].family # mock[x].family
               PROVE  x \in raced'
    BY DEF Stays
  <2>1. x = m
    BY <1>4
  <2> QED
    BY <1>2, <1>4, <1>8, <2>1
<1>12. GivenActive
  <2> SUFFICES ASSUME NEW g \in Families, primary'[g] # primary[g]
               PROVE  Active(primary'[g]) /\ ~mock'[primary'[g]].deleted
    BY DEF GivenActive
  <2> QED
    BY <1>1, <1>2, <1>4, <1>7 DEF Active, Exists
<1> QED
  BY <1>4, <1>5, <1>7, <1>9, <1>10, <1>11, <1>12 DEF GoodWrite

\* The transactions that create, change or delete a mock.
LEMMA InsertsGood ==
  ASSUME IInv, NEW r \in Requests, TxCreateMock(r) \/ TxDerive(r)
  PROVE  GoodWrite /\ req[r].pc = "tx" /\ Goto(r, "ok")
<1>1. /\ req[r] \in Request /\ WellFormed(req[r]) /\ req[r].pc = "tx"
  BY DEF IInv, TypeOK, TxCreateMock, TxDerive, Tx, At
<1>2. PICK m \in Mocks, c \in Contents, f \in Families \union {None} :
        Insert(r, m, [family |-> f, content |-> c, deleted |-> FALSE])
  <2>1. CASE TxCreateMock(r)
    BY <2>1 DEF TxCreateMock
  <2>2. CASE TxDerive(r)
    <3>1. req[r].seen \in Row
      BY <1>1, <2>2 DEF WellFormed, Request, TxDerive, Tx, Op
    <3>2. req[r].seen.family \in Families \union {None}
      BY <3>1 DEF Row
    <3> QED
      BY <2>2, <3>2 DEF TxDerive
  <2> QED
    BY <2>1, <2>2
<1>3. [family |-> f, content |-> c, deleted |-> FALSE] \in Row
  BY DEF Row
<1>4. GoodWrite
  BY <1>2, <1>3, InsertGood
<1> QED
  BY <1>1, <1>2, <1>4 DEF Insert

LEMMA UpdateMockGood ==
  ASSUME IInv, NEW r \in Requests, TxUpdateMock(r), ~Refuse(r)
  PROVE  GoodWrite /\ Goto(r, "ok")
<1> DEFINE m == req[r].mock
<1>1. /\ TypeOK /\ Active(m) /\ UpdateSearch(m) /\ Goto(r, "ok") /\ UNCHANGED <<primary, raced>>
      /\ \E c \in Contents : mock' = [mock EXCEPT ![m].content = c]
  BY DEF IInv, TxUpdateMock
<1>2. m \in Mocks
  BY DEF IInv, WellFormed, TxUpdateMock, Tx, At, Op, AboutMock
<1> HIDE DEF m
<1>3. PICK c \in Contents : mock' = [mock EXCEPT ![m].content = c]
  BY <1>1
<1> DEFINE row == [mock[m] EXCEPT !.content = c]
<1>4. mock[m] \in Row
  BY <1>1, <1>2 DEF TypeOK, Active, Exists
<1>5. row \in Row /\ row.family = mock[m].family
  BY <1>4 DEF Row
<1>6. mock' = [mock EXCEPT ![m] = row]
  BY <1>3
<1> HIDE DEF row
<1> QED
  BY <1>1, <1>2, <1>5, <1>6, ChangeGood

LEMMA DeleteMockGood ==
  ASSUME IInv, NEW r \in Requests, TxDeleteMock(r), ~Refuse(r)
  PROVE  GoodWrite /\ Goto(r, "ok")
<1> DEFINE m == req[r].mock
<1>1. /\ TypeOK /\ Active(m) /\ UpdateSearch(m) /\ Goto(r, "ok") /\ UNCHANGED <<primary, raced>>
      /\ mock' = [mock EXCEPT ![m].deleted = TRUE]
  BY DEF IInv, TxDeleteMock
<1>2. m \in Mocks
  BY DEF IInv, WellFormed, TxDeleteMock, Tx, At, Op, AboutMock
<1> HIDE DEF m
<1> DEFINE row == [mock[m] EXCEPT !.deleted = TRUE]
<1>3. mock[m] \in Row
  BY <1>1, <1>2 DEF TypeOK, Active, Exists
<1>4. row \in Row /\ row.family = mock[m].family
  BY <1>3 DEF Row
<1>5. mock' = [mock EXCEPT ![m] = row]
  BY <1>1
<1> HIDE DEF row
<1> QED
  BY <1>1, <1>2, <1>4, <1>5, ChangeGood

\* The three transactions that move a mock.
LEMMA MovesGood ==
  ASSUME IInv, NEW r \in Requests,
         TxCreateFamily(r) \/ TxAddFamilyMock(r) \/ TxUpdatePrimary(r), ~Refuse(r)
  PROVE  GoodWrite /\ Goto(r, "ok")
<1> DEFINE m == req[r].mock
<1>1. /\ WellFormed(req[r]) /\ req[r].pc = "tx"
      /\ req[r].op \in Moves
  BY DEF IInv, TxCreateFamily, TxAddFamilyMock, TxUpdatePrimary, Tx, At, Op, Moves
<1>2. m \in Mocks
  BY <1>1 DEF WellFormed, AboutMock
<1>3. CASE TxCreateFamily(r)
  <2>1. PICK f \in Families :
          /\ Active(m) /\ primary' = [primary EXCEPT ![f] = m]
          /\ JoinFamily(r, f) /\ Goto(r, "ok")
    BY <1>3 DEF TxCreateFamily
  <2>2. req[r].seen.family = None
    BY <1>1, <1>3 DEF WellFormed, TxCreateFamily, Tx, Op
  <2> HIDE DEF m
  <2>3. m = req[r].mock
    BY DEF m
  <2> QED
    BY <1>2, <2>1, <2>2, <2>3, JoinGood
<1>4. CASE TxAddFamilyMock(r) \/ TxUpdatePrimary(r)
  <2> DEFINE f == req[r].family
  <2>1. req[r].op \in {"addFamilyMock", "updatePrimary"}
    BY <1>4 DEF TxAddFamilyMock, TxUpdatePrimary, Tx, Op
  <2>2. f \in Families /\ req[r].seen.family \in {None, f}
    BY <1>1, <2>1 DEF WellFormed, AboutFamily
  <2>3. /\ Active(m) /\ JoinFamily(r, f) /\ Goto(r, "ok")
        /\ primary' \in {primary, [primary EXCEPT ![f] = m]}
    BY <1>4 DEF TxAddFamilyMock, TxUpdatePrimary
  <2> HIDE DEF m, f
  <2>4. m = req[r].mock
    BY DEF m
  <2> QED
    BY <1>2, <2>2, <2>3, <2>4, JoinGood
<1> QED
  BY <1>3, <1>4

\* Every transaction is refused, or is a good one.
LEMMA WriteGood ==
  ASSUME IInv, NEW r \in Requests, Write(r)
  PROVE  /\ req[r].pc = "tx"
         /\ Refuse(r) \/ (GoodWrite /\ Goto(r, "ok"))
<1>1. req[r].pc = "tx"
  BY DEF Write, TxCreateMock, TxDerive, TxUpdateMock, TxDeleteMock, TxCreateFamily,
         TxAddFamilyMock, TxUpdatePrimary, Tx, At
<1> QED
  BY <1>1, InsertsGood, UpdateMockGood, DeleteMockGood, MovesGood DEF Write

------------------------------------------------------------------------------
(***************************************************************************)
(* The theorems.                                                           *)
(***************************************************************************)
\* A step writes nothing, or is a good transaction.
LEMMA StepWrites ==
  ASSUME IInv, NEW r \in Requests, Step(r)
  PROVE  Tables \/ GoodWrite
<1>1. CASE Write(r)
  BY <1>1, WriteGood DEF Refuse, Tables
<1>2. CASE ~Write(r)
  BY <1>2
  DEF Step, Arrive, CreateMock, GetMock, UpdateMock, DeleteMock, ListMocks, Derive, CreateFamily,
      AddFamilyMock, UpdateFamilyPrimary, GetFamily, Begin, CheckAccess, GetFamilyRow,
      GetPrimary, GetActive, ListResources, Search, ListByIDs, ListByFamily, Fail, Refuse, Tables
<1> QED
  BY <1>1, <1>2

\* In every reachable state of MockStore the invariant holds.
LEMMA Invariant == Spec => []IInv
<1>1. Init => IInv
  <2> SUFFICES ASSUME Init PROVE IInv
    OBVIOUS
  <2>1. PICK old \in SUBSET Mocks, c \in Contents :
          mock = [m \in Mocks |-> IF m \in old
                                  THEN [family |-> None, content |-> c, deleted |-> FALSE]
                                  ELSE None]
    BY DEF Init
  <2>2. mock \in [Mocks -> Row \union {None}]
    BY <2>1 DEF Row
  <2>3. /\ search = mock /\ primary = [f \in Families |-> None]
        /\ req \in [Requests -> {Pending(op) : op \in Ops}]
        /\ raced = {}
        /\ steady = [r \in Requests |-> {}] /\ once = [r \in Requests |-> {}]
    BY DEF Init
  <2>4. \A op \in Ops : Pending(op) \in Request /\ Pending(op).pc = "new" /\ Pending(op).op = op
    BY PagesAssumption DEF Pending, Request, PC
  <2>5. \A r \in Requests : req[r] \in Request /\ req[r].pc = "new" /\ req[r].op \in Ops
    BY <2>3, <2>4
  <2>6. req \in [Requests -> Request]
    BY <2>3, <2>5
  <2>7. TypeOK
    BY <2>2, <2>3, <2>5, <2>6 DEF TypeOK, At
  <2>8. SearchAgrees /\ PrimaryBelongs /\ PrimaryExists
    BY <2>3 DEF SearchAgrees, PrimaryBelongs, PrimaryExists
  <2>9. \A r \in Requests : WellFormed(req[r]) /\ Answering(r)
    BY <2>5 DEF WellFormed, OpsAt, Answering
  <2> QED
    BY <2>7, <2>8, <2>9 DEF IInv
<1>2. IInv /\ [Next]_vars => IInv'
  <2> SUFFICES ASSUME IInv, [Next]_vars PROVE IInv'
    OBVIOUS
  <2>1. CASE UNCHANGED vars
    BY <2>1
    DEF vars, IInv, TypeOK, At, SearchAgrees, PrimaryBelongs, PrimaryExists, Exists,
        Answering, Now
  <2>2. CASE Next
    <3>1. PICK r \in Requests : Step(r)
      BY <2>2 DEF Next
    <3>2. Observe
      BY <2>2 DEF Next
    <3>3. CASE Write(r)
      BY <3>2, <3>3, WriteGood, WriteIInv, RefuseIInv
    <3>4. CASE Fail(r)
      BY <3>2, <3>4, RefuseIInv DEF Fail
    <3> QED
      BY <3>1, <3>2, <3>3, <3>4, ArriveIInv, CheckAccessIInv, GetFamilyRowIInv, GetPrimaryIInv,
         GetActiveIInv, ListResourcesIInv, SearchIInv, ListByIDsIInv, ListByFamilyIInv
      DEF Step
  <2> QED
    BY <2>1, <2>2
<1> QED
  BY <1>1, <1>2, PTL DEF Spec

\* The variables keep their types, and no request goes on with a family it has not
\* found.
THEOREM TypeCorrect == Spec => []TypeOK
<1>1. IInv => TypeOK
  BY DEF IInv
<1> QED
  BY <1>1, Invariant, PTL

\* All seven transactions leave the search index equal to the mocks.
THEOREM SearchAgreesAlways == Spec => []SearchAgrees
<1>1. IInv => SearchAgrees
  BY DEF IInv
<1> QED
  BY <1>1, Invariant, PTL

\* A primary belongs to its family, unless a request moved it that had read it
\* before another one did.
THEOREM PrimaryBelongsAlways == Spec => []PrimaryBelongs
<1>1. IInv => PrimaryBelongs
  BY DEF IInv
<1> QED
  BY <1>1, Invariant, PTL

\* ListMocks and GetFamily answer with nothing that never matched or cannot be read;
\* GetFamily misses nothing that matched throughout, ListMocks no more of it than it
\* was asked to skip when its page reaches the last of what ever matched.
THEOREM AnswersBetweenAlways == Spec => []AnswersBetween
<1>1. IInv => AnswersBetween
  BY DEF IInv, Answering, AnswersBetween, Answers, Queries
<1> QED
  BY <1>1, Invariant, PTL

\* A mock leaves its family only by a request that had read it before it came in.
THEOREM MembersStayAlways == Spec => MembersStay
<1>1. IInv /\ [Next]_vars => [Stays]_vars
  <2> SUFFICES ASSUME IInv, Next PROVE Stays
    OBVIOUS
  <2>1. PICK r \in Requests : Step(r)
    BY DEF Next
  <2> QED
    BY <2>1, StepWrites DEF GoodWrite, Tables, Stays
<1> QED
  BY <1>1, Invariant, PTL DEF Spec, MembersStay, Stays

\* A family is never given a deleted primary.
THEOREM PrimaryIsActiveAlways == Spec => PrimaryIsActive
<1>1. IInv /\ [Next]_vars => [GivenActive]_vars
  <2> SUFFICES ASSUME IInv, Next PROVE GivenActive
    OBVIOUS
  <2>1. PICK r \in Requests : Step(r)
    BY DEF Next
  <2> QED
    BY <2>1, StepWrites DEF GoodWrite, Tables, GivenActive
<1> QED
  BY <1>1, Invariant, PTL DEF Spec, PrimaryIsActive, GivenActive

==============================================================================
