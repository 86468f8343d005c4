-------------------------- MODULE RegistrationProofs --------------------------
(***************************************************************************)
(* Proofs of the safety properties of Registration, for any mocks and      *)
(* users, any number of faults, crashes and transfers and any size of      *)
(* batches.                                                                *)
(***************************************************************************)
EXTENDS Registration, SequenceTheorems, TLAPS

------------------------------------------------------------------------------
(***************************************************************************)
(* The inductive invariant.                                                *)
(***************************************************************************)
\* Only a created mock is registered or in a call; until it is registered, nobody
\* but its creator has a right to it.
CreatedFirst ==
  \A m \in Mocks :
    /\ Registered(m) \/ late[m] > 0 => Created(m)
    /\ ~Registered(m) => rightful[m] = creator[m]

\* The events of a batch stay in the outbox until they are handled.
InHand ==
  \A i \in 1 .. Len(batch) : batch[i] \in outbox

\* An event is marked as done after its mock is registered.
Marked ==
  pc = "done" => Registered(Head(batch))

\* Calls that may still be served were given up for a failure or a crash.
Counted ==
  \A m \in Mocks : late[m] <= faults + crashes

IInv ==
  /\ TypeOK
  /\ CreatedFirst
  /\ InHand
  /\ Marked
  /\ Counted
  /\ OwnerIsRightful
  /\ NoEventLost

------------------------------------------------------------------------------
(***************************************************************************)
(* What the invariant says of the worker, and what its steps share.        *)
(***************************************************************************)
\* The event that the worker has in hand.
LEMMA HeadInHand ==
  ASSUME IInv, pc # "idle"
  PROVE  /\ batch # <<>> /\ Len(batch) \in Nat \ {0} /\ Head(batch) = batch[1]
         /\ Head(batch) \in Mocks /\ Head(batch) \in outbox
         /\ Created(Head(batch))
<1>1. batch \in Seq(Mocks) /\ batch # <<>>
  BY DEF IInv, TypeOK
<1>2. Len(batch) \in Nat \ {0} /\ Head(batch) = batch[1] /\ Head(batch) \in Mocks
  BY <1>1, EmptySeq, HeadTailProperties
<1>3. 1 \in 1 .. Len(batch)
  BY <1>2
<1>4. batch[1] \in outbox
  BY <1>3 DEF IInv, InHand
<1> QED
  BY <1>1, <1>2, <1>4 DEF IInv, TypeOK

\* The rest of the batch is without the event in hand.
LEMMA NextEventProperties ==
  ASSUME IInv, pc # "idle", NextEvent
  PROVE  /\ batch' \in Seq(Mocks) /\ IsInjective(batch') /\ Len(batch') <= BatchSize
         /\ pc' \in {"idle", "register"}
         /\ pc' = "idle" <=> batch' = <<>>
         /\ \A i \in 1 .. Len(batch') :
              /\ i + 1 \in 1 .. Len(batch)
              /\ batch'[i] = batch[i + 1]
              /\ batch'[i] # Head(batch)
<1>1. /\ batch \in Seq(Mocks) /\ batch # <<>> /\ Head(batch) = batch[1]
      /\ Len(batch) \in Nat \ {0}
      /\ Len(batch) <= BatchSize /\ BatchSize \in Nat
  BY HeadInHand, BatchSizeAssumption DEF IInv, TypeOK
<1>2. DOMAIN batch = 1 .. Len(batch)
  BY <1>1, LenProperties
<1>3. /\ batch' \in Seq(Mocks)
      /\ Len(batch') = Len(batch) - 1
      /\ \A i \in 1 .. Len(batch') : batch'[i] = batch[i + 1]
  BY <1>1, HeadTailProperties DEF NextEvent
<1>4. DOMAIN batch' = 1 .. Len(batch')
  BY <1>3, LenProperties
<1>5. \A i \in 1 .. Len(batch') : i + 1 \in 1 .. Len(batch) /\ i + 1 # 1
  BY <1>1, <1>3
<1>6. \A i, j \in 1 .. Len(batch) : batch[i] = batch[j] => i = j
  BY <1>2 DEF IInv, TypeOK, IsInjective
<1>7. ASSUME NEW i \in 1 .. Len(batch'), NEW j \in 1 .. Len(batch'), batch'[i] = batch'[j]
      PROVE  i = j
  <2>1. i + 1 = j + 1
    BY <1>3, <1>5, <1>6, <1>7
  <2> QED
    BY <1>1, <1>3, <2>1
<1>8. IsInjective(batch')
  BY <1>4, <1>7 DEF IsInjective
<1>9. ASSUME NEW i \in 1 .. Len(batch')
      PROVE  i + 1 \in 1 .. Len(batch) /\ batch'[i] = batch[i + 1] /\ batch'[i] # Head(batch)
  <2>1. 1 \in 1 .. Len(batch)
    BY <1>1
  <2>2. batch[i + 1] # batch[1]
    BY <1>5, <1>6, <2>1
  <2> QED
    BY <1>1, <1>3, <1>5, <2>2
<1>10. batch' = <<>> <=> Len(batch) = 1
  BY <1>1, <1>3, EmptySeq
<1>11. pc' = IF Len(batch) = 1 THEN "idle" ELSE "register"
  BY DEF NextEvent
<1> QED
  BY <1>1, <1>3, <1>8, <1>9, <1>10, <1>11

\* A mock that is registered stays so, and one that is not gets its creator.
LEMMA InsertOrKeepProperties ==
  ASSUME IInv, NEW m \in Mocks, Created(m), InsertOrKeep(m),
         UNCHANGED <<creator, rightful, nextAttemptAt>>
  PROVE  /\ owner' \in [Mocks -> Users \union {NoUser}]
         /\ Registered(m)'
         /\ \A x \in Mocks : /\ Registered(x) => Registered(x)'
                             /\ Registered(x)' => Registered(x) \/ Created(x)
         /\ OwnerIsRightful' /\ NoEventLost'
<1> USE DEF Created, Registered
<1>1. CASE Registered(m)
  BY <1>1 DEF IInv, TypeOK, InsertOrKeep, OwnerIsRightful, NoEventLost, outbox
<1>2. CASE ~Registered(m)
  BY <1>2 DEF IInv, TypeOK, InsertOrKeep, CreatedFirst, OwnerIsRightful, NoEventLost, outbox
<1> QED
  BY <1>1, <1>2

------------------------------------------------------------------------------
(***************************************************************************)
(* Every step preserves the invariant.                                     *)
(***************************************************************************)
\* Requests of users.
LEMMA CreateIInv ==
  ASSUME IInv, NEW ms \in SUBSET Mocks, NEW u \in Users, Create(ms, u)
  PROVE  IInv'
<1> USE DEF Created, Registered, outbox
<1>1. /\ \A m \in ms : creator[m] = NoUser
      /\ creator' = [m \in Mocks |-> IF m \in ms THEN u ELSE creator[m]]
      /\ rightful' = [m \in Mocks |-> IF m \in ms THEN u ELSE rightful[m]]
      /\ UNCHANGED <<batch, pc, late, owner, faults, crashes, transfers>>
  BY DEF Create, workerVars
<1>2. PICK t \in 1 .. MaxTime :
        nextAttemptAt' = [m \in Mocks |-> IF m \in ms THEN t ELSE nextAttemptAt[m]]
  BY DEF Create
<1>3. /\ t \in 0 .. MaxTime /\ t > 0
      /\ nextAttemptAt \in [Mocks -> 0 .. MaxTime]
  BY BoundsAssumption DEF IInv, TypeOK
<1>4. /\ nextAttemptAt' \in [Mocks -> 0 .. MaxTime]
      /\ outbox' = outbox \union ms
  BY <1>2, <1>3
<1> HIDE DEF outbox
<1>5. TypeOK'
  <2>1. /\ creator' \in [Mocks -> Users \union {NoUser}]
        /\ rightful' \in [Mocks -> Users \union {NoUser}]
    BY <1>1 DEF IInv, TypeOK
  <2>2. \A m \in outbox' : creator'[m] # NoUser
    BY <1>1, <1>4, NoUserAssumption DEF IInv, TypeOK, outbox
  <2> QED
    BY <1>1, <1>4, <2>1, <2>2 DEF IInv, TypeOK
<1>6. CreatedFirst'
  BY <1>1, NoUserAssumption DEF IInv, TypeOK, CreatedFirst
<1>7. InHand'
  BY <1>1, <1>4 DEF IInv, InHand
<1>8. Marked' /\ Counted'
  BY <1>1 DEF IInv, Marked, Counted
<1>9. OwnerIsRightful' /\ NoEventLost'
  BY <1>1, <1>4 DEF IInv, TypeOK, CreatedFirst, OwnerIsRightful, NoEventLost
<1> QED
  BY <1>5, <1>6, <1>7, <1>8, <1>9 DEF IInv

LEMMA TransferOwnerIInv ==
  ASSUME IInv, NEW m \in Mocks, NEW u \in Users, TransferOwner(m, u)
  PROVE  IInv'
<1> USE DEF Created, Registered
<1>0. /\ transfers < MaxTransfers /\ transfers' = transfers + 1 /\ owner[m] # NoUser
      /\ owner' = [owner EXCEPT ![m] = u] /\ rightful' = [rightful EXCEPT ![m] = u]
      /\ UNCHANGED <<creator, nextAttemptAt, batch, pc, late, faults, crashes>>
  BY DEF TransferOwner, workerVars
<1>1. outbox' = outbox
  BY <1>0 DEF outbox
<1>2. TypeOK'
  <2>1. /\ owner' \in [Mocks -> Users \union {NoUser}]
        /\ rightful' \in [Mocks -> Users \union {NoUser}]
    BY <1>0 DEF IInv, TypeOK
  <2>2. transfers' \in 0 .. MaxTransfers
    BY <1>0, BoundsAssumption DEF IInv, TypeOK
  <2> QED
    BY <1>0, <1>1, <2>1, <2>2 DEF IInv, TypeOK
<1>3. InHand' /\ Counted'
  BY <1>0, <1>1 DEF IInv, InHand, Counted
<1>4. CreatedFirst' /\ OwnerIsRightful' /\ NoEventLost'
  BY <1>0, <1>1, NoUserAssumption
  DEF IInv, TypeOK, CreatedFirst, OwnerIsRightful, NoEventLost
<1>5. Marked'
  BY <1>0, NoUserAssumption DEF IInv, TypeOK, Marked
<1> QED
  BY <1>2, <1>3, <1>4, <1>5 DEF IInv

\* A call that was given up reaches user-svc after all.
LEMMA ServeLateIInv ==
  ASSUME IInv, NEW m \in Mocks, ServeLate(m)
  PROVE  IInv'
<1>1. /\ late[m] > 0 /\ late' = [late EXCEPT ![m] = @ - 1] /\ InsertOrKeep(m)
      /\ UNCHANGED <<creator, nextAttemptAt, batch, pc, faults, crashes, transfers, rightful>>
  BY DEF ServeLate, workerVars
<1>2. Created(m) /\ outbox' = outbox
  BY <1>1 DEF IInv, CreatedFirst, outbox
<1>3. /\ owner' \in [Mocks -> Users \union {NoUser}]
      /\ \A x \in Mocks : /\ Registered(x) => Registered(x)'
                          /\ Registered(x)' => Registered(x) \/ Created(x)
      /\ OwnerIsRightful' /\ NoEventLost'
  BY <1>1, <1>2, InsertOrKeepProperties
<1>4. /\ late' \in [Mocks -> 0 .. MaxFaults + MaxCrashes]
      /\ \A x \in Mocks : late'[x] <= late[x] /\ late'[x] \in Nat /\ late[x] \in Nat
  <2>1. /\ late \in [Mocks -> 0 .. MaxFaults + MaxCrashes]
        /\ MaxFaults + MaxCrashes \in Nat
    BY BoundsAssumption DEF IInv, TypeOK
  <2> QED
    BY <1>1, <2>1
<1>5. TypeOK'
  BY <1>1, <1>2, <1>3, <1>4 DEF IInv, TypeOK, Created
<1>6. CreatedFirst'
  <2> SUFFICES ASSUME NEW x \in Mocks
               PROVE  /\ Registered(x)' \/ late'[x] > 0 => Created(x)'
                      /\ ~Registered(x)' => rightful'[x] = creator'[x]
    BY DEF CreatedFirst
  <2>1. late'[x] > 0 => late[x] > 0
    BY <1>4
  <2> QED
    BY <1>1, <1>3, <2>1 DEF IInv, CreatedFirst, Created
<1>7. InHand'
  BY <1>1, <1>2 DEF IInv, InHand
<1>8. Marked'
  <2>1. pc = "done" => Head(batch) \in Mocks
    BY HeadInHand
  <2> QED
    BY <1>1, <1>3, <2>1 DEF IInv, Marked
<1>9. Counted'
  <2>1. faults \in Nat /\ crashes \in Nat
    BY DEF IInv, TypeOK
  <2> QED
    BY <1>1, <1>4, <2>1 DEF IInv, Counted
<1> QED
  BY <1>3, <1>5, <1>6, <1>7, <1>8, <1>9 DEF IInv

\* The batch is dropped; the call in flight may still be served.
LEMMA CrashIInv ==
  ASSUME IInv, Crash
  PROVE  IInv'
<1>1. /\ crashes < MaxCrashes /\ crashes' = crashes + 1 /\ batch' = <<>> /\ pc' = "idle"
      /\ UNCHANGED <<creator, nextAttemptAt, owner, faults, transfers, rightful>>
  BY DEF Crash
<1>2. /\ late' \in [Mocks -> 0 .. MaxFaults + MaxCrashes]
      /\ \A m \in Mocks : /\ late'[m] <= faults + crashes'
                          /\ late'[m] > 0 => Created(m)
  <2>1. CASE late' = late
    BY <1>1, <2>1 DEF IInv, TypeOK, CreatedFirst, Counted
  <2>2. CASE pc = "register" /\ late' = [late EXCEPT ![Head(batch)] = @ + 1]
    <3>1. Head(batch) \in Mocks /\ Created(Head(batch))
      BY <2>2, HeadInHand
    <3>2. \A m \in Mocks :
            /\ late[m] \in 0 .. MaxFaults + MaxCrashes
            /\ late[m] <= faults + crashes
            /\ late[m] > 0 => Created(m)
      BY DEF IInv, TypeOK, CreatedFirst, Counted
    <3>3. faults + crashes + 1 <= MaxFaults + MaxCrashes
      BY <1>1, BoundsAssumption DEF IInv, TypeOK
    <3> HIDE DEF Created
    <3>4. /\ faults \in Nat /\ crashes \in Nat /\ MaxFaults + MaxCrashes \in Nat
          /\ late \in [Mocks -> 0 .. MaxFaults + MaxCrashes]
      BY BoundsAssumption DEF IInv, TypeOK
    <3> QED
      BY <1>1, <2>2, <3>1, <3>2, <3>3, <3>4
  <2> QED
    BY <2>1, <2>2 DEF Crash
<1>3. outbox' = outbox
  BY <1>1 DEF outbox
<1>4. TypeOK'
  <2>1. /\ <<>> \in Seq(Mocks) /\ Len(<<>>) <= BatchSize /\ IsInjective(<<>>)
    BY EmptySeq, BatchSizeAssumption DEF IsInjective
  <2>2. crashes' \in 0 .. MaxCrashes
    BY <1>1, BoundsAssumption DEF IInv, TypeOK
  <2> QED
    BY <1>1, <1>2, <1>3, <2>1, <2>2 DEF IInv, TypeOK, Created
<1>5. CreatedFirst'
  BY <1>1, <1>2 DEF IInv, CreatedFirst, Created, Registered
<1>6. InHand'
  BY <1>1, EmptySeq DEF InHand
<1>7. Marked'
  BY <1>1 DEF Marked
<1>8. Counted'
  BY <1>1, <1>2 DEF Counted
<1>9. OwnerIsRightful' /\ NoEventLost'
  BY <1>1, <1>3 DEF IInv, OwnerIsRightful, NoEventLost, Created, Registered
<1> QED
  BY <1>4, <1>5, <1>6, <1>7, <1>8, <1>9 DEF IInv

\* A new batch: events of the outbox, each once.
LEMMA ListDueIInv ==
  ASSUME IInv, ListDue
  PROVE  IInv'
<1>1. /\ pc' = "register"
      /\ UNCHANGED <<creator, nextAttemptAt, late, owner, faults, crashes, transfers, rightful>>
  BY DEF ListDue
<1>2. PICK n \in 1 .. BatchSize : \E events \in [1 .. n -> outbox] :
        IsInjective(events) /\ batch' = events
  BY DEF ListDue, Earliest
<1>3. n \in Nat \ {0} /\ n <= BatchSize
  BY BatchSizeAssumption
<1>4. batch' \in [1 .. n -> outbox] /\ IsInjective(batch')
  BY <1>2
<1>5. /\ batch' \in Seq(Mocks) /\ Len(batch') = n
      /\ \A i \in 1 .. n : batch'[i] \in outbox
  <2>1. batch' \in [1 .. n -> Mocks]
    BY <1>4 DEF outbox
  <2>2. batch' \in Seq(Mocks)
    BY <1>3, <2>1, SeqDef
  <2> QED
    BY <1>3, <1>4, <2>1, <2>2, LenProperties
<1>6. batch' # <<>>
  BY <1>3, <1>5, EmptySeq
<1>7. outbox' = outbox
  BY <1>1 DEF outbox
<1>8. TypeOK'
  BY <1>1, <1>3, <1>4, <1>5, <1>6, <1>7 DEF IInv, TypeOK, Created
<1>9. InHand'
  BY <1>5, <1>7 DEF InHand
<1>10. CreatedFirst' /\ Counted' /\ OwnerIsRightful' /\ NoEventLost'
  BY <1>1, <1>7
  DEF IInv, CreatedFirst, Counted, OwnerIsRightful, NoEventLost, Created, Registered
<1>11. Marked'
  BY <1>1 DEF Marked
<1> QED
  BY <1>8, <1>9, <1>10, <1>11 DEF IInv

\* The call of user-svc is answered, or given up.
LEMMA RegisterResourceIInv ==
  ASSUME IInv, RegisterResource
  PROVE  IInv'
<1> DEFINE m == Head(batch)
<1>1. /\ pc = "register"
      /\ UNCHANGED <<creator, nextAttemptAt, batch, crashes, transfers, rightful>>
      /\ outbox' = outbox
  BY DEF RegisterResource, outbox
<1>2. m \in Mocks /\ Created(m) /\ batch # <<>>
  BY <1>1, HeadInHand
<1>3. InHand'
  BY <1>1 DEF IInv, InHand
<1>4. CASE InsertOrKeep(m) /\ pc' = "done" /\ UNCHANGED <<late, faults>>
  <2>1. /\ owner' \in [Mocks -> Users \union {NoUser}]
        /\ Registered(m)'
        /\ \A x \in Mocks : /\ Registered(x) => Registered(x)'
                            /\ Registered(x)' => Registered(x) \/ Created(x)
        /\ OwnerIsRightful' /\ NoEventLost'
    BY <1>1, <1>2, <1>4, InsertOrKeepProperties
  <2>2. TypeOK'
    BY <1>1, <1>2, <1>4, <2>1 DEF IInv, TypeOK, Created
  <2>3. CreatedFirst'
    BY <1>1, <1>4, <2>1 DEF IInv, CreatedFirst, Created
  <2>4. Counted'
    BY <1>1, <1>4 DEF IInv, Counted
  <2>5. Marked'
    BY <1>1, <1>4, <2>1 DEF Marked
  <2> QED
    BY <1>3, <2>1, <2>2, <2>3, <2>4, <2>5 DEF IInv
<1>5. CASE /\ Fault
           /\ late' = [late EXCEPT ![m] = @ + 1]
           /\ pc' = "attempt"
           /\ UNCHANGED owner
  <2> HIDE DEF m
  <2>1. /\ late \in [Mocks -> 0 .. MaxFaults + MaxCrashes]
        /\ faults \in Nat /\ crashes \in Nat /\ crashes <= MaxCrashes
        /\ MaxFaults \in Nat /\ MaxCrashes \in Nat
        /\ faults < MaxFaults /\ faults' = faults + 1
    BY <1>5, BoundsAssumption DEF IInv, TypeOK, Fault
  <2>2. \A x \in Mocks : late[x] <= faults + crashes
    BY DEF IInv, Counted
  <2>3. \A x \in Mocks : late'[x] = IF x = m THEN late[x] + 1 ELSE late[x]
    BY <1>5, <2>1
  <2>4. Counted'
    BY <1>1, <2>1, <2>2, <2>3 DEF Counted
  <2>5. late' \in [Mocks -> 0 .. MaxFaults + MaxCrashes]
    BY <1>2, <1>5, <2>1, <2>2
  <2>6. TypeOK'
    <3>1. faults' \in 0 .. MaxFaults
      BY <2>1
    <3> QED
      BY <1>1, <1>2, <1>5, <2>5, <3>1 DEF IInv, TypeOK, Created
  <2>7. CreatedFirst'
    BY <1>1, <1>2, <1>5, <2>3 DEF IInv, CreatedFirst, Created, Registered
  <2>8. Marked'
    BY <1>5 DEF Marked
  <2>9. OwnerIsRightful' /\ NoEventLost'
    BY <1>1, <1>5 DEF IInv, OwnerIsRightful, NoEventLost, Created, Registered
  <2> QED
    BY <1>3, <2>4, <2>6, <2>7, <2>8, <2>9 DEF IInv
<1> QED
  BY <1>4, <1>5 DEF RegisterResource

\* The event of a registered mock is deleted, or stays if that fails.
LEMMA MarkDoneIInv ==
  ASSUME IInv, MarkDone
  PROVE  IInv'
<1> DEFINE h == Head(batch)
<1>1. /\ pc = "done" /\ NextEvent
      /\ UNCHANGED <<creator, late, owner, crashes, transfers, rightful>>
  BY DEF MarkDone
<1>2. h \in Mocks /\ Registered(h)
  BY <1>1, HeadInHand DEF IInv, Marked
<1>3. /\ batch' \in Seq(Mocks) /\ IsInjective(batch') /\ Len(batch') <= BatchSize
      /\ pc' \in {"idle", "register"}
      /\ pc' = "idle" <=> batch' = <<>>
      /\ \A i \in 1 .. Len(batch') :
           i + 1 \in 1 .. Len(batch) /\ batch'[i] = batch[i + 1] /\ batch'[i] # h
  BY <1>1, NextEventProperties
<1>4. /\ nextAttemptAt' \in [Mocks -> 0 .. MaxTime]
      /\ \A m \in Mocks : m # h => nextAttemptAt'[m] = nextAttemptAt[m]
      /\ \A m \in Mocks : nextAttemptAt'[m] > 0 => nextAttemptAt[m] > 0
      /\ faults' \in 0 .. MaxFaults /\ faults' >= faults
  <2>1. nextAttemptAt \in [Mocks -> 0 .. MaxTime] /\ 0 \in 0 .. MaxTime
    BY BoundsAssumption DEF IInv, TypeOK
  <2>2. CASE nextAttemptAt' = [nextAttemptAt EXCEPT ![h] = 0] /\ UNCHANGED faults
    BY <1>2, <2>1, <2>2 DEF IInv, TypeOK
  <2>3. CASE UNCHANGED nextAttemptAt /\ Fault
    BY <2>1, <2>3, BoundsAssumption DEF IInv, TypeOK, Fault
  <2> QED
    BY <2>2, <2>3 DEF MarkDone
<1> HIDE DEF h
<1>5. outbox' \subseteq outbox /\ \A m \in outbox : m # h => m \in outbox'
  BY <1>4 DEF outbox
<1>6. TypeOK'
  BY <1>1, <1>3, <1>4, <1>5 DEF IInv, TypeOK, Created
<1>7. CreatedFirst'
  BY <1>1 DEF IInv, CreatedFirst, Created, Registered
<1>8. InHand'
  BY <1>3, <1>5 DEF IInv, InHand
<1>9. Marked'
  BY <1>3 DEF Marked
<1>10. Counted'
  <2>1. \A x \in Mocks : late[x] <= faults + crashes /\ late[x] \in Nat
    BY BoundsAssumption DEF IInv, TypeOK, Counted
  <2>2. faults \in Nat /\ crashes \in Nat /\ faults' \in Nat /\ faults' >= faults
    BY <1>4 DEF IInv, TypeOK
  <2> QED
    BY <1>1, <2>1, <2>2 DEF Counted
<1>11. OwnerIsRightful' /\ NoEventLost'
  BY <1>1, <1>2, <1>5
  DEF IInv, OwnerIsRightful, NoEventLost, Created, Registered
<1> QED
  BY <1>6, <1>7, <1>8, <1>9, <1>10, <1>11 DEF IInv

\* The event of the failed call stays, behind the one that is in hand now.
LEMMA MarkAttemptIInv ==
  ASSUME IInv, MarkAttempt
  PROVE  IInv'
<1>1. /\ pc = "attempt" /\ NextEvent
      /\ UNCHANGED <<creator, nextAttemptAt, late, owner, faults, crashes, transfers, rightful>>
      /\ outbox' = outbox
  BY DEF MarkAttempt, outbox
<1>2. /\ batch' \in Seq(Mocks) /\ IsInjective(batch') /\ Len(batch') <= BatchSize
      /\ pc' \in {"idle", "register"}
      /\ pc' = "idle" <=> batch' = <<>>
      /\ \A i \in 1 .. Len(batch') : i + 1 \in 1 .. Len(batch) /\ batch'[i] = batch[i + 1]
  BY <1>1, NextEventProperties
<1>3. TypeOK'
  BY <1>1, <1>2 DEF IInv, TypeOK, Created
<1>4. InHand'
  BY <1>1, <1>2 DEF IInv, InHand
<1>5. Marked'
  BY <1>2 DEF Marked
<1>6. CreatedFirst' /\ Counted' /\ OwnerIsRightful' /\ NoEventLost'
  BY <1>1
  DEF IInv, CreatedFirst, Counted, OwnerIsRightful, NoEventLost, Created, Registered
<1> QED
  BY <1>3, <1>4, <1>5, <1>6 DEF IInv

------------------------------------------------------------------------------
(***************************************************************************)
(* The theorems.                                                           *)
(***************************************************************************)
\* In every reachable state of Registration the invariant holds.
LEMMA Invariant == Spec => []IInv
<1>1. Init => IInv
  <2> SUFFICES ASSUME Init PROVE IInv
    OBVIOUS
  <2>1. /\ <<>> \in Seq(Mocks) /\ IsInjective(<<>>) /\ Len(<<>>) = 0
    BY EmptySeq DEF IsInjective
  <2>2. TypeOK
    BY <2>1, BatchSizeAssumption, BoundsAssumption DEF Init, TypeOK, outbox
  <2>3. InHand
    BY <2>1 DEF Init, InHand
  <2>4. CreatedFirst /\ Marked /\ Counted /\ OwnerIsRightful /\ NoEventLost
    BY DEF Init, CreatedFirst, Marked, Counted, OwnerIsRightful, NoEventLost, Created, Registered
  <2> QED
    BY <2>2, <2>3, <2>4 DEF IInv
<1>2. IInv /\ [Next]_vars => IInv'
  <2> SUFFICES ASSUME IInv, [Next]_vars PROVE IInv'
    OBVIOUS
  <2>1. CASE UNCHANGED vars
    BY <2>1
    DEF vars, workerVars, outbox, IInv, TypeOK, CreatedFirst, InHand, Marked, Counted,
        OwnerIsRightful, NoEventLost, Created, Registered
  <2>2. CASE Next
    BY <2>2, CreateIInv, TransferOwnerIInv, ListDueIInv, RegisterResourceIInv, MarkDoneIInv,
       MarkAttemptIInv, ServeLateIInv, CrashIInv
    DEF Next, Worker
  <2> QED
    BY <2>1, <2>2
<1> QED
  BY <1>1, <1>2, PTL DEF Spec

\* The variables keep their types: the worker never holds an event twice, nor more
\* than BatchSize of them.
THEOREM TypeCorrect == Spec => []TypeOK
<1>1. IInv => TypeOK
  BY DEF IInv
<1> QED
  BY <1>1, Invariant, PTL

\* No repeated or late call of RegisterResource takes a mock from its owner.
THEOREM OwnerIsRightfulAlways == Spec => []OwnerIsRightful
<1>1. IInv => OwnerIsRightful
  BY DEF IInv
<1> QED
  BY <1>1, Invariant, PTL

\* A mock without a resource keeps its event, whatever fails and whenever mock-svc
\* dies.
THEOREM NoEventLostAlways == Spec => []NoEventLost
<1>1. IInv => NoEventLost
  BY DEF IInv
<1> QED
  BY <1>1, Invariant, PTL

==============================================================================
