---------------------------- MODULE Registration -----------------------------
(***************************************************************************)
(* How a mock gets its owner.  mock-svc stores an event in its outbox in   *)
(* the transaction that creates the mock (CreateMock in mocks.go, and      *)
(* runGeneration in generations.go for derived mocks); OutboxWorker        *)
(* (outbox.go) reads events and registers each mock as a resource of its   *)
(* creator at user-svc, whose repository keeps the owner of a resource     *)
(* that is already there (resources.go).                                   *)
(*                                                                         *)
(* The worker's calls may fail, be answered late or be cut off by a crash, *)
(* and a call it has given up may still reach user-svc after the owner was *)
(* changed there.                                                          *)
(*                                                                         *)
(* There is one event per mock.  Its attempts stay 0 and its               *)
(* next_attempt_at the time it was stored at (see MarkAttempt), so every   *)
(* event in the outbox is due and none is ever out of attempts.  A ListDue *)
(* that fails, or finds nothing, changes nothing and is left out.          *)
(* Deleting a mock touches neither its event nor its resource.             *)
(***************************************************************************)
EXTENDS Naturals, Sequences, FiniteSets, Functions

CONSTANTS
  Mocks,         \* mocks that may be created
  Users,         \* users of user-svc
  NoUser,        \* stands for: no such row
  BatchSize,     \* outbox_batch_size
  MaxTime,       \* bound: times at which transactions start
  MaxFaults,     \* bound: calls of the worker that return an error
  MaxCrashes,    \* bound: crashes and shutdowns of mock-svc
  MaxTransfers   \* bound: changes of an owner in user-svc

ASSUME NoUserAssumption == NoUser \notin Users
ASSUME BatchSizeAssumption == BatchSize \in Nat \ {0}
ASSUME BoundsAssumption == /\ MaxTime \in Nat
                           /\ MaxFaults \in Nat
                           /\ MaxCrashes \in Nat
                           /\ MaxTransfers \in Nat

VARIABLES
  creator,        \* mocks.created_by, also in the event; NoUser when there is no mock
  nextAttemptAt,  \* outbox.next_attempt_at of the event of each mock; 0 when it has none
  batch,          \* events that process has still to handle; the first is in hand
  pc,             \* where the worker is in process
  late,           \* calls of RegisterResource given up that may still be served
  owner,          \* resources.owner_user_id in user-svc; NoUser when not registered
  faults,         \* calls that have failed so far
  crashes,        \* crashes so far
  transfers,      \* changes of an owner so far
  rightful        \* history: the user last made the owner, at first the creator

workerVars == <<batch, pc>>
vars == <<creator, nextAttemptAt, workerVars, late, owner, faults, crashes,
          transfers, rightful>>

------------------------------------------------------------------------------
Created(m) == creator[m] # NoUser
Registered(m) == owner[m] # NoUser

\* The mocks with an event in the outbox.
outbox == {m \in Mocks : nextAttemptAt[m] > 0}

Init ==
  /\ creator = [m \in Mocks |-> NoUser]
  /\ nextAttemptAt = [m \in Mocks |-> 0]
  /\ batch = <<>>
  /\ pc = "idle"
  /\ late = [m \in Mocks |-> 0]
  /\ owner = [m \in Mocks |-> NoUser]
  /\ faults = 0
  /\ crashes = 0
  /\ transfers = 0
  /\ rightful = [m \in Mocks |-> NoUser]

Fault ==
  /\ faults < MaxFaults
  /\ faults' = faults + 1

\* process goes on with the next event of the batch, or waits for the ticker.
NextEvent ==
  /\ batch' = Tail(batch)
  /\ pc' = IF Len(batch) = 1 THEN "idle" ELSE "register"

\* The query of ListDue: the size events with the earliest next_attempt_at, or all
\* there are, in that order; events of one transaction have the same time.
Earliest(size) ==
  \E n \in 1 .. size : \E events \in [1 .. n -> outbox] :
    /\ IsInjective(events)
    /\ \A i, j \in 1 .. n :
         i < j => nextAttemptAt[events[i]] <= nextAttemptAt[events[j]]
    /\ \A m \in outbox \ Range(events) :
         n = size /\ nextAttemptAt[events[n]] <= nextAttemptAt[m]
    /\ batch' = events

\* Variant of InsertOrKeep: ON CONFLICT DO UPDATE.
InsertOrReplace(m) ==
  owner' = [owner EXCEPT ![m] = creator[m]]

\* ResourceRepository.Register: insert, or keep the row that is there.
InsertOrKeep(m) ==
  owner' = IF Registered(m) THEN owner ELSE [owner EXCEPT ![m] = creator[m]]

------------------------------------------------------------------------------
(***************************************************************************)
(* Variants of the actions below, each with one plausible mistake.  Next   *)
(* uses none.                                                              *)
(***************************************************************************)
\* ListDue that reads one event more than the limit.
ListDueOneMore ==
  /\ pc = "idle"
  /\ Earliest(BatchSize + 1)
  /\ pc' = "register"
  /\ UNCHANGED <<creator, nextAttemptAt, late, owner, faults, crashes, transfers, rightful>>

\* ListDue that waits for a full batch.
ListDueFull ==
  /\ pc = "idle"
  /\ Earliest(BatchSize)
  /\ Len(batch') = BatchSize
  /\ pc' = "register"
  /\ UNCHANGED <<creator, nextAttemptAt, late, owner, faults, crashes, transfers, rightful>>

\* process without the continue after a failed call: MarkDone follows.
MarkAttemptAndDone ==
  /\ pc = "attempt"
  /\ nextAttemptAt' = [nextAttemptAt EXCEPT ![Head(batch)] = 0]
  /\ NextEvent
  /\ UNCHANGED <<creator, late, owner, faults, crashes, transfers, rightful>>

------------------------------------------------------------------------------
(***************************************************************************)
(* Requests of users, at mock-svc and at user-svc.                         *)
(***************************************************************************)
\* One transaction creates mocks of one creator (CreateMock one, a generation
\* any number) and enqueues their events.  Their next_attempt_at is the time the
\* transaction started, which is not always later than that of the last to commit.
Create(ms, u) ==
  /\ ms # {}
  /\ \A m \in ms : ~Created(m)
  /\ creator' = [m \in Mocks |-> IF m \in ms THEN u ELSE creator[m]]
  /\ rightful' = [m \in Mocks |-> IF m \in ms THEN u ELSE rightful[m]]
  /\ \E t \in 1 .. MaxTime :
       nextAttemptAt' = [m \in Mocks |-> IF m \in ms THEN t ELSE nextAttemptAt[m]]
  /\ UNCHANGED <<workerVars, late, owner, faults, crashes, transfers>>

\* ResourceRepository.UpdateOwner, on the request of an administrator.
TransferOwner(m, u) ==
  /\ transfers < MaxTransfers
  /\ transfers' = transfers + 1
  /\ Registered(m)
  /\ owner' = [owner EXCEPT ![m] = u]
  /\ rightful' = [rightful EXCEPT ![m] = u]
  /\ UNCHANGED <<creator, nextAttemptAt, workerVars, late, faults, crashes>>

------------------------------------------------------------------------------
(***************************************************************************)
(* OutboxWorker.                                                           *)
(***************************************************************************)
\* The ticker fires and ListDue returns events.
ListDue ==
  /\ pc = "idle"
  /\ Earliest(BatchSize)
  /\ pc' = "register"
  /\ UNCHANGED <<creator, nextAttemptAt, late, owner, faults, crashes, transfers, rightful>>

\* RegisterResource is answered 200 or 201, or the worker gets an error and the
\* call may or may not be served some time later.
RegisterResource ==
  LET m == Head(batch)
  IN  /\ pc = "register"
      /\ \/ /\ InsertOrKeep(m)
            /\ pc' = "done"
            /\ UNCHANGED <<late, faults>>
         \/ /\ Fault
            /\ late' = [late EXCEPT ![m] = @ + 1]
            /\ pc' = "attempt"
            /\ UNCHANGED owner
      /\ UNCHANGED <<creator, nextAttemptAt, batch, crashes, transfers, rightful>>

\* MarkDone deletes the event; its error is dropped, and then the event stays.
MarkDone ==
  /\ pc = "done"
  /\ \/ /\ nextAttemptAt' = [nextAttemptAt EXCEPT ![Head(batch)] = 0]
        /\ UNCHANGED faults
     \/ UNCHANGED nextAttemptAt /\ Fault
  /\ NextEvent
  /\ UNCHANGED <<creator, late, owner, crashes, transfers, rightful>>

\* The statement that would count the attempt and postpone the event is never run:
\* PostgreSQL takes $3 in ($3 || ' seconds') for text, and pgx does not encode the
\* int it is given as text.  The error is dropped and the event stays as it is.
MarkAttempt ==
  /\ pc = "attempt"
  /\ NextEvent
  /\ UNCHANGED <<creator, nextAttemptAt, late, owner, faults, crashes, transfers, rightful>>

\* user-svc serves a call after the worker has given it up.
ServeLate(m) ==
  /\ late[m] > 0
  /\ late' = [late EXCEPT ![m] = @ - 1]
  /\ InsertOrKeep(m)
  /\ UNCHANGED <<creator, nextAttemptAt, workerVars, faults, crashes, transfers, rightful>>

\* mock-svc dies, or is shut down (cancelWorker makes the pending calls fail): the
\* batch is lost, and a call in flight may still be served.
Crash ==
  /\ crashes < MaxCrashes
  /\ crashes' = crashes + 1
  /\ batch' = <<>>
  /\ pc' = "idle"
  /\ \/ UNCHANGED late
     \/ pc = "register" /\ late' = [late EXCEPT ![Head(batch)] = @ + 1]
  /\ UNCHANGED <<creator, nextAttemptAt, owner, faults, transfers, rightful>>

------------------------------------------------------------------------------
Worker == ListDue \/ RegisterResource \/ MarkDone \/ MarkAttempt

Next ==
  \/ \E ms \in SUBSET Mocks, u \in Users : Create(ms, u)
  \/ \E m \in Mocks, u \in Users : TransferOwner(m, u)
  \/ Worker
  \/ \E m \in Mocks : ServeLate(m)
  \/ Crash

Spec == Init /\ [][Next]_vars

\* The ticker fires again and again and the worker's calls return.  Nothing is
\* assumed of calls that were given up.
FairSpec == Spec /\ WF_vars(Worker)

------------------------------------------------------------------------------
(***************************************************************************)
(* Properties.                                                             *)
(***************************************************************************)
\* Every variable has its type: the worker has an event in hand unless it is idle,
\* and a batch has at most BatchSize events, each once.
TypeOK ==
  /\ creator \in [Mocks -> Users \union {NoUser}]
  /\ nextAttemptAt \in [Mocks -> 0 .. MaxTime]
  /\ \A m \in outbox : Created(m)
  /\ batch \in Seq(Mocks)
  /\ IsInjective(batch)
  /\ Len(batch) <= BatchSize
  /\ pc \in {"idle", "register", "done", "attempt"}
  /\ pc = "idle" <=> batch = <<>>
  /\ late \in [Mocks -> 0 .. MaxFaults + MaxCrashes]
  /\ owner \in [Mocks -> Users \union {NoUser}]
  /\ faults \in 0 .. MaxFaults
  /\ crashes \in 0 .. MaxCrashes
  /\ transfers \in 0 .. MaxTransfers
  /\ rightful \in [Mocks -> Users \union {NoUser}]

\* A registered mock belongs to its creator until an administrator gives it to
\* someone else, and to that user from then on: no repeated or late registration
\* takes it back.
OwnerIsRightful ==
  \A m \in Mocks : Registered(m) => owner[m] = rightful[m]

\* A mock that is not registered still has its event, whatever calls failed and
\* whenever mock-svc died.
NoEventLost ==
  \A m \in Mocks : Created(m) /\ ~Registered(m) => m \in outbox

\* Once calls no longer fail, every created mock is registered and its event
\* removed, although a failed event goes to the front of the next batch again,
\* batches are smaller than the outbox and mock-svc may restart in the middle of
\* one.
CreatedIsRegistered ==
  \A m \in Mocks : Created(m) ~> Registered(m) /\ m \notin outbox

==============================================================================
