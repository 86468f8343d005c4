-------------------------- MODULE JobWorkerProofs --------------------------
(***************************************************************************)
(* Proofs about JobWorker, for any jobs, consumers, partitions and bounds. *)
(***************************************************************************)
EXTENDS JobWorker, TLAPS

\* What the expansion of any action needs.
USE DEF kafkaVars, workerVars, jobVars, auxVars

------------------------------------------------------------------------------
(***************************************************************************)
(* Types.                                                                  *)
(***************************************************************************)
\* An idle consumer holds the same well-typed Nothing.
LEMMA NothingType == Nothing \in [part : Partitions, off : Nat] /\ Nothing.off = 0
  BY PartitionsAssumption DEF Nothing

\* What Fetch puts into held is well typed.
LEMMA NextMessageType ==
  ASSUME TypeOK, NEW p \in Partitions
  PROVE  [part |-> p, off |-> position[p] + 1] \in [part : Partitions, off : Nat]
<1>1. position[p] + 1 \in Nat
  BY DEF TypeOK, KafkaTypes
<1>2. QED
  BY <1>1

\* Every step keeps the types of the topic, the offsets and the assignment.
LEMMA KafkaTypesStep == ASSUME TypeOK, [Next]_vars PROVE KafkaTypes'
<1> USE DEF TypeOK, KafkaTypes
<1>1. ASSUME NEW j \in Jobs, Publish(j) PROVE KafkaTypes'
  BY <1>1, PartitionsAssumption DEF Publish
<1>2. ASSUME NEW p \in Partitions, PublishMalformed(p) PROVE KafkaTypes'
  BY <1>2 DEF PublishMalformed
<1>3. CASE Rebalance
  BY <1>3 DEF Rebalance
<1>4. CASE Crash
  BY <1>4 DEF Crash
<1>5. ASSUME NEW w \in Workers, NEW p \in Partitions, Fetch(w, p) PROVE KafkaTypes'
  BY <1>5 DEF Fetch
<1>6. ASSUME NEW w \in Workers, Commit(w) PROVE KafkaTypes'
  BY <1>6 DEF Commit, WorkerTypes
<1>7. CASE UNCHANGED kafkaVars
  BY <1>7
<1>8. QED
  BY <1>1, <1>2, <1>3, <1>4, <1>5, <1>6, <1>7
  DEF Next, Step, vars, RejectMalformed, InsertJob, ResumeJob, FindDone, FindRunning,
      MarkRunning, Execute, HandleFailure, Persist, PublishResult, CallFails,
      AnswerLost, CommitFails

\* Every step keeps the types of the consumers' local state.
LEMMA WorkerTypesStep == ASSUME TypeOK, [Next]_vars PROVE WorkerTypes'
<1> USE DEF TypeOK, WorkerTypes, PC, Goto
<1>1. CASE Crash
  BY <1>1, NothingType DEF Crash
<1>2. ASSUME NEW w \in Workers, NEW p \in Partitions, Fetch(w, p) PROVE WorkerTypes'
  <2>1. [part |-> p, off |-> position[p] + 1] \in [part : Partitions, off : Nat]
    BY NextMessageType
  <2>2. /\ held' = [held EXCEPT ![w] = [part |-> p, off |-> position[p] + 1]]
        /\ pc' = [pc EXCEPT ![w] = "create"]
        /\ try' = try
    BY <1>2 DEF Fetch
  <2>3. QED
    BY <2>1, <2>2
<1>3. ASSUME NEW w \in Workers, GoIdle(w) PROVE WorkerTypes'
  BY <1>3, NothingType DEF GoIdle
<1>4. ASSUME NEW w \in Workers, NEW n \in Nat, Proceed(w, n), UNCHANGED held
      PROVE  WorkerTypes'
  BY <1>4 DEF Proceed
<1>5. ASSUME NEW w \in Workers, NEW l \in PC, Goto(w, l), UNCHANGED <<held, try>>
      PROVE  WorkerTypes'
  BY <1>5
<1>6. CASE UNCHANGED workerVars
  BY <1>6
<1>7. ASSUME NEW w \in Workers, Step(w) PROVE WorkerTypes'
  <2>1. CASE InsertJob(w) \/ ResumeJob(w)
    BY <2>1, <1>4 DEF InsertJob, ResumeJob, JobTypes
  <2>2. CASE RejectMalformed(w) \/ FindDone(w) \/ MarkRunning(w) \/ HandleFailure(w)
             \/ Persist(w) \/ PublishResult(w)
    BY <2>2, <1>5
    DEF RejectMalformed, FindDone, MarkRunning, HandleFailure, Persist, PublishResult
  <2>3. CASE Execute(w)
    BY <2>3, <1>5 DEF Execute
  <2>4. QED
    BY <1>7, <2>1, <2>2, <2>3, <1>2, <1>3 DEF Step, FindRunning, Commit
<1>8. QED
  BY <1>1, <1>3, <1>5, <1>6, <1>7
  DEF Next, vars, Publish, PublishMalformed, Rebalance, CallFails, AnswerLost,
      CommitFails

------------------------------------------------------------------------------
(***************************************************************************)
(* The messages held.                                                      *)
(***************************************************************************)
\* Published messages stay where they are.
TopicGrows ==
  \A p \in Partitions :
    /\ Len(topic[p]) \in Nat /\ Len(topic'[p]) \in Nat
    /\ Len(topic[p]) <= Len(topic'[p])
    /\ \A i \in 1..Len(topic[p]) : topic'[p][i] = topic[p][i]

\* No step removes or replaces a published message.
LEMMA TopicStep == ASSUME TypeOK, [Next]_vars PROVE TopicGrows
<1> USE DEF TypeOK, KafkaTypes, TopicGrows
<1>1. ASSUME NEW p \in Partitions, NEW m \in Jobs \union {Malformed},
             topic' = [topic EXCEPT ![p] = Append(@, m)]
      PROVE  TopicGrows
  BY <1>1
<1>2. ASSUME NEW j \in Jobs, Publish(j) PROVE TopicGrows
  BY <1>2, <1>1, PartitionsAssumption DEF Publish
<1>3. ASSUME NEW p \in Partitions, PublishMalformed(p) PROVE TopicGrows
  BY <1>3, <1>1 DEF PublishMalformed
<1>4. CASE UNCHANGED topic
  BY <1>4
<1>5. QED
  BY <1>2, <1>3, <1>4
  DEF Next, Step, vars, Rebalance, Crash, Fetch, RejectMalformed, InsertJob, ResumeJob,
      FindDone, FindRunning, MarkRunning, Execute, HandleFailure, Persist, PublishResult,
      Commit, CallFails, AnswerLost, CommitFails

\* A consumer that does not move keeps its message, and holds it well.
LEMMA HeldFrame ==
  ASSUME TypeOK, TopicGrows, NEW v \in Workers, WellHeld(v),
         held'[v] = held[v], pc'[v] = pc[v]
  PROVE  /\ WellHeld(v)'
         /\ held[v].off # 0 => MessageOf(v)' = MessageOf(v)
<1>1. held[v].part \in Partitions /\ held[v].off \in Nat
  BY DEF TypeOK, WorkerTypes
<1>2. held[v].off # 0 => MessageOf(v)' = MessageOf(v)
  BY <1>1 DEF TopicGrows, WellHeld, MessageOf
<1>3. QED
  BY <1>1, <1>2 DEF TopicGrows, WellHeld

\* Every step keeps what is held consistent with where the consumers are.
LEMMA HeldStep == ASSUME TypeOK, HeldInv, [Next]_vars PROVE HeldInv'
<1>1. TopicGrows
  BY TopicStep
<1>2. CASE UNCHANGED <<pc, held>>
  BY <1>1, <1>2, HeldFrame DEF HeldInv
<1>3. ASSUME NEW w \in Workers, WellHeld(w)',
             \A v \in Workers \ {w} : held'[v] = held[v] /\ pc'[v] = pc[v]
      PROVE  HeldInv'
  BY <1>1, <1>3, HeldFrame DEF HeldInv
<1>4. CASE Crash
  BY <1>4, NothingType DEF Crash, HeldInv, WellHeld, TypeOK, KafkaTypes
<1>5. ASSUME NEW w \in Workers, NEW p \in Partitions, Fetch(w, p) PROVE HeldInv'
  <2> DEFINE m == [part |-> p, off |-> position[p] + 1]
  <2>1. /\ m.part = p /\ m.off = position[p] + 1
        /\ position[p] \in Nat /\ Len(topic[p]) \in Nat /\ position[p] < Len(topic[p])
    BY <1>5 DEF Fetch, TypeOK, KafkaTypes
  <2>2. held'[w] = m /\ pc'[w] = "create" /\ topic' = topic
    BY <1>5 DEF Fetch, Goto, TypeOK, WorkerTypes
  <2>3. WellHeld(w)'
    BY <2>1, <2>2 DEF WellHeld
  <2>4. QED
    BY <2>3, <1>3, <1>5 DEF Fetch, Goto, TypeOK, WorkerTypes
<1>6. ASSUME NEW w \in Workers, GoIdle(w), UNCHANGED topic PROVE HeldInv'
  <2>1. WellHeld(w)'
    BY <1>6, NothingType DEF GoIdle, WellHeld, Goto, TypeOK, WorkerTypes, KafkaTypes
  <2>2. QED
    BY <2>1, <1>3, <1>6 DEF GoIdle, Goto, TypeOK, WorkerTypes
<1>7. ASSUME NEW w \in Workers, NEW l \in PC \ {"idle"}, pc[w] # "idle", Goto(w, l),
             UNCHANGED <<held, topic>>, l = "commit" \/ MessageOf(w) \in Jobs
      PROVE  HeldInv'
  <2>1. WellHeld(w)'
    BY <1>7 DEF WellHeld, HeldInv, MessageOf, Goto, TypeOK, WorkerTypes
  <2>2. QED
    BY <2>1, <1>3, <1>7 DEF Goto, TypeOK, WorkerTypes
<1>8. ASSUME NEW w \in Workers, Step(w) PROVE HeldInv'
  <2> USE DEF PC
  <2>1. CASE RejectMalformed(w) \/ HandleFailure(w) \/ PublishResult(w)
    BY <2>1, <1>7 DEF RejectMalformed, HandleFailure, PublishResult
  <2>2. CASE InsertJob(w) \/ ResumeJob(w) \/ FindDone(w)
    BY <2>2, <1>7 DEF InsertJob, ResumeJob, FindDone, Proceed
  <2>3. CASE MarkRunning(w) \/ Execute(w) \/ Persist(w)
    BY <2>3, <1>7 DEF MarkRunning, Execute, Persist, HeldInv, WellHeld
  <2>4. CASE FindRunning(w) \/ Commit(w)
    BY <2>4, <1>6 DEF FindRunning, Commit
  <2>5. QED
    BY <1>8, <2>1, <2>2, <2>3, <2>4, <1>5 DEF Step
<1>9. ASSUME NEW w \in Workers, NEW label \in PC, CallFails(w, label) PROVE HeldInv'
  BY <1>9, <1>7 DEF CallFails, PC
<1>10. ASSUME NEW w \in Workers, AnswerLost(w) PROVE HeldInv'
  BY <1>10, <1>7 DEF AnswerLost, PC
<1>11. QED
  BY <1>2, <1>4, <1>6, <1>8, <1>9, <1>10
  DEF Next, vars, Publish, PublishMalformed, Rebalance, CommitFails

------------------------------------------------------------------------------
(***************************************************************************)
(* The types of the tables and of the counters, and the type invariant.    *)
(***************************************************************************)
\* Every step keeps the types of the two tables.
LEMMA JobTypesStep == ASSUME TypeOK, HeldInv, [Next]_vars PROVE JobTypes'
<1> USE DEF TypeOK, JobTypes, Status
<1>1. ASSUME NEW j, NEW s \in Status, NEW n \in Nat, UpdateStatus(j, s, n),
             results' \in SUBSET Jobs
      PROVE  JobTypes'
  BY <1>1 DEF UpdateStatus
<1>2. CASE UNCHANGED jobVars
  BY <1>2
<1>3. ASSUME NEW w \in Workers, InsertJob(w) PROVE JobTypes'
  BY <1>3, <1>1 DEF InsertJob
<1>4. ASSUME NEW w \in Workers, MarkRunning(w) \/ HandleFailure(w) PROVE JobTypes'
  BY <1>4, <1>1 DEF MarkRunning, HandleFailure, WorkerTypes
<1>5. ASSUME NEW w \in Workers, Persist(w) PROVE JobTypes'
  <2>1. MessageOf(w) \in Jobs /\ try[w] \in Nat
    BY <1>5 DEF Persist, HeldInv, WellHeld, WorkerTypes
  <2>2. QED
    BY <1>5, <2>1, <1>1 DEF Persist
<1>6. ASSUME NEW w \in Workers, AnswerLost(w) PROVE JobTypes'
  BY <1>6, <1>1 DEF AnswerLost, WorkerTypes
<1>7. QED
  BY <1>2, <1>3, <1>4, <1>5, <1>6
  DEF Next, Step, vars, Publish, PublishMalformed, Rebalance, Crash, Fetch,
      RejectMalformed, ResumeJob, FindDone, FindRunning, Execute, PublishResult,
      Commit, CallFails, CommitFails

\* Every step keeps the types of the announcements, counters and history.
LEMMA CounterTypesStep == ASSUME TypeOK, HeldInv, [Next]_vars PROVE CounterTypes'
<1> USE BoundsAssumption DEF TypeOK, CounterTypes
<1>1. CASE Rebalance
  BY <1>1 DEF Rebalance
<1>2. CASE Crash
  BY <1>2 DEF Crash
<1>3. ASSUME NEW w \in Workers, NEW p \in Partitions, Fetch(w, p) PROVE CounterTypes'
  BY <1>3 DEF Fetch
<1>4. ASSUME NEW w \in Workers, Execute(w) PROVE CounterTypes'
  <2>1. MessageOf(w) \in Jobs
    BY <1>4 DEF Execute, HeldInv, WellHeld
  <2>2. QED
    BY <1>4, <2>1 DEF Execute
<1>5. ASSUME NEW w \in Workers, PublishResult(w) PROVE CounterTypes'
  <2>1. MessageOf(w) \in Jobs
    BY <1>5 DEF PublishResult, HeldInv, WellHeld
  <2>2. QED
    BY <1>5, <2>1 DEF PublishResult, Fault, ResultMessage
<1>6. ASSUME Fault, UNCHANGED <<announced, crashes, rebalances, auxVars>>
      PROVE  CounterTypes'
  BY <1>6 DEF Fault
<1>7. CASE UNCHANGED <<announced, faults, crashes, rebalances, auxVars>>
  BY <1>7
<1>8. QED
  BY <1>1, <1>2, <1>3, <1>4, <1>5, <1>6, <1>7
  DEF Next, Step, vars, Publish, PublishMalformed, RejectMalformed, InsertJob, ResumeJob,
      FindDone, FindRunning, MarkRunning, HandleFailure, Persist, Commit, CallFails,
      AnswerLost, CommitFails

\* The variables of JobWorker keep their types, and a busy consumer always has
\* a published message in hand: a job, once it has read a row.
THEOREM TypeCorrect == Spec => [](TypeOK /\ HeldInv)
<1>1. Init => TypeOK /\ HeldInv
  <2> SUFFICES ASSUME Init PROVE TypeOK /\ HeldInv
    OBVIOUS
  <2>1. KafkaTypes
    BY DEF Init, KafkaTypes
  <2>2. WorkerTypes
    BY NothingType DEF Init, WorkerTypes, PC
  <2>3. JobTypes /\ CounterTypes
    BY BoundsAssumption DEF Init, JobTypes, CounterTypes, Status
  <2>4. HeldInv
    BY NothingType DEF Init, HeldInv, WellHeld
  <2>5. QED
    BY <2>1, <2>2, <2>3, <2>4 DEF TypeOK
<1>2. TypeOK /\ HeldInv /\ [Next]_vars => TypeOK' /\ HeldInv'
  BY KafkaTypesStep, WorkerTypesStep, JobTypesStep, CounterTypesStep, HeldStep DEF TypeOK
<1>3. QED
  BY <1>1, <1>2, PTL DEF Spec

------------------------------------------------------------------------------
(***************************************************************************)
(* A finished or announced job has its result stored.                      *)
(***************************************************************************)
\* A consumer that keeps its message holds the same job after any step.
LEMMA HoldsFrame ==
  ASSUME TypeOK, TopicGrows, HeldInv, NEW v \in Workers, held'[v] = held[v], NEW j
  PROVE  /\ Holds(v, j)' <=> Holds(v, j)
         /\ held[v].off # 0 => MessageOf(v)' = MessageOf(v)
<1>1. held[v].part \in Partitions /\ held[v].off \in Nat
  BY DEF TypeOK, WorkerTypes
<1>2. held[v].off # 0 => MessageOf(v)' = MessageOf(v)
  BY <1>1 DEF TopicGrows, HeldInv, WellHeld, MessageOf
<1>3. QED
  BY <1>2 DEF Holds

\* Every step stores a result before it makes anything refer to it.
LEMMA StoredStep == ASSUME TypeOK, HeldInv, StoredInv, [Next]_vars PROVE StoredInv'
<1>1. TopicGrows
  BY TopicStep
<1>2. ASSUME results \subseteq results',
             \A j \in Jobs : status'[j] = "DONE" => status[j] = "DONE" \/ j \in results',
             \A m \in announced' : m \in announced \/ m.job \in results',
             \A w \in Workers : pc'[w] = "publish" =>
               /\ held'[w] = held[w]
               /\ held[w].off # 0
               /\ pc[w] = "publish" \/ MessageOf(w) \in results'
      PROVE  StoredInv'
  <2>1. DoneIsStored'
    BY <1>2 DEF StoredInv, DoneIsStored, Announced
  <2>2. ASSUME NEW w \in Workers, pc'[w] = "publish" PROVE MessageOf(w)' \in results'
    BY <1>1, <1>2, <2>2, HoldsFrame DEF StoredInv
  <2>3. QED
    BY <2>1, <2>2 DEF StoredInv
<1> DEFINE Calm == UNCHANGED <<results, status, announced>>
<1>3. ASSUME Calm, \A w \in Workers : pc'[w] = pc[w] /\ held'[w] = held[w] PROVE StoredInv'
  BY <1>2, <1>3 DEF HeldInv, WellHeld
<1>4. CASE Crash
  BY <1>4, <1>2 DEF Crash
<1>5. ASSUME NEW w \in Workers, Calm, pc'[w] # "publish",
             \A v \in Workers \ {w} : pc'[v] = pc[v] /\ held'[v] = held[v]
      PROVE  StoredInv'
  BY <1>2, <1>5 DEF HeldInv, WellHeld
<1>6. ASSUME NEW w \in Workers, Step(w) PROVE StoredInv'
  <2> USE DEF TypeOK, WorkerTypes, JobTypes
  <2>1. ASSUME NEW p \in Partitions, Fetch(w, p) PROVE StoredInv'
    BY <2>1, <1>5 DEF Fetch, Goto
  <2>2. CASE RejectMalformed(w) \/ Execute(w) \/ ResumeJob(w)
    BY <2>2, <1>5 DEF RejectMalformed, Execute, ResumeJob, Proceed, Goto
  <2>3. CASE FindRunning(w) \/ Commit(w)
    BY <2>3, <1>5 DEF FindRunning, Commit, GoIdle, Goto
  <2>4. CASE InsertJob(w) \/ MarkRunning(w) \/ HandleFailure(w)
    <3>1. \A j \in Jobs : status'[j] = "DONE" => status[j] = "DONE"
      BY <2>4 DEF InsertJob, MarkRunning, HandleFailure, UpdateStatus
    <3>2. /\ pc'[w] # "publish"
          /\ \A v \in Workers : (v # w => pc'[v] = pc[v]) /\ held'[v] = held[v]
          /\ UNCHANGED <<results, announced>>
      BY <2>4 DEF InsertJob, MarkRunning, HandleFailure, Proceed, Goto
    <3>3. QED
      BY <3>1, <3>2, <1>2 DEF HeldInv, WellHeld
  <2>5. CASE FindDone(w)
    <3>1. PICK j \in Jobs : MessageOf(w) = j /\ status[j] = "DONE"
      BY <2>5 DEF FindDone
    <3>2. MessageOf(w) \in results
      BY <3>1 DEF StoredInv, DoneIsStored
    <3>3. pc[w] = "create" /\ Calm /\ held' = held /\ \A v \in Workers \ {w} : pc'[v] = pc[v]
      BY <2>5 DEF FindDone, Goto
    <3>4. QED
      BY <3>2, <3>3, <1>2 DEF HeldInv, WellHeld
  <2>6. CASE Persist(w)
    <3>1. MessageOf(w) \in results'
      BY <2>6 DEF Persist
    <3>2. \A j \in Jobs : status'[j] = "DONE" => status[j] = "DONE" \/ j \in results'
      BY <2>6 DEF Persist, UpdateStatus
    <3>3. /\ pc[w] = "persist" /\ held' = held /\ results \subseteq results'
          /\ announced' = announced /\ \A v \in Workers \ {w} : pc'[v] = pc[v]
      BY <2>6 DEF Persist, Goto
    <3>4. QED
      BY <3>1, <3>2, <3>3, <1>2 DEF HeldInv, WellHeld
  <2>7. CASE PublishResult(w)
    <3>1. MessageOf(w) \in results
      BY <2>7 DEF PublishResult, StoredInv
    <3>2. \A m \in announced' : m \in announced \/ m.job \in results
      BY <2>7, <3>1 DEF PublishResult
    <3>3. /\ UNCHANGED <<results, status, held>>
          /\ pc'[w] = "commit" /\ \A v \in Workers \ {w} : pc'[v] = pc[v]
      BY <2>7 DEF PublishResult, Goto
    <3>4. QED
      BY <3>2, <3>3, <1>2 DEF HeldInv, WellHeld
  <2>8. QED
    BY <1>6, <2>1, <2>2, <2>3, <2>4, <2>5, <2>6, <2>7 DEF Step
<1>7. ASSUME NEW w \in Workers, NEW label \in PC, CallFails(w, label) PROVE StoredInv'
  BY <1>7, <1>5 DEF CallFails, Goto, TypeOK, WorkerTypes
<1>8. ASSUME NEW w \in Workers, CommitFails(w) PROVE StoredInv'
  BY <1>8, <1>5 DEF CommitFails, GoIdle, Goto, TypeOK, WorkerTypes
<1>9. ASSUME NEW w \in Workers, AnswerLost(w) PROVE StoredInv'
  <2>1. /\ held' = held /\ announced' = announced /\ pc'[w] = "commit"
        /\ \A v \in Workers \ {w} : pc'[v] = pc[v]
    BY <1>9 DEF AnswerLost, Goto, TypeOK, WorkerTypes
  <2>2. /\ results \subseteq results'
        /\ \A j \in Jobs : status'[j] = "DONE" => status[j] = "DONE" \/ j \in results'
    BY <1>9 DEF AnswerLost, UpdateStatus, TypeOK, JobTypes
  <2>3. QED
    BY <2>1, <2>2, <1>2 DEF HeldInv, WellHeld
<1>10. QED
  BY <1>3, <1>4, <1>6, <1>7, <1>8, <1>9 DEF Next, vars, Publish, PublishMalformed, Rebalance

\* In every reachable state a result is stored before anything refers to it.
LEMMA StoredCorrect == Spec => []StoredInv
<1>1. Init => StoredInv
  BY DEF Init, StoredInv, DoneIsStored, Announced
<1>2. TypeOK /\ HeldInv /\ StoredInv /\ [Next]_vars => StoredInv'
  BY StoredStep
<1> QED
  BY <1>1, <1>2, TypeCorrect, PTL DEF Spec

\* A job that is DONE, or was ever announced, has its result in the table: in
\* every state, whatever crashes, rebalances and failed calls came before.
THEOREM DoneIsStoredAlways == Spec => []DoneIsStored
<1>1. StoredInv => DoneIsStored
  BY DEF StoredInv
<1> QED
  BY <1>1, StoredCorrect, PTL

------------------------------------------------------------------------------
(***************************************************************************)
(* A stored result comes from an execution.                                *)
(***************************************************************************)
\* A job with a result, or about to get one, has been executed.
ExecutedInv ==
  /\ \A j \in results : executions[j] # 0
  /\ \A w \in Workers : pc[w] = "persist" => executions[MessageOf(w)] # 0

\* Only the consumer that has executed a job stores a result for it, also after
\* other consumers, redeliveries and failed calls.
LEMMA ExecutedStep == ASSUME TypeOK, HeldInv, ExecutedInv, [Next]_vars PROVE ExecutedInv'
<1>1. TopicGrows
  BY TopicStep
<1>2. ASSUME NEW w \in Workers, pc[w] \in {"execute", "persist"} PROVE MessageOf(w) \in Jobs
  BY <1>2 DEF HeldInv, WellHeld
<1>3. ASSUME executions' = executions,
             \A j \in results' : j \in results \/ executions[j] # 0,
             \A w \in Workers : pc'[w] = "persist" => pc[w] = "persist" /\ held'[w] = held[w]
      PROVE  ExecutedInv'
  <2>1. ASSUME NEW w \in Workers, pc'[w] = "persist" PROVE MessageOf(w)' = MessageOf(w)
    BY <1>1, <1>3, <2>1, HoldsFrame DEF HeldInv, WellHeld
  <2> QED
    BY <1>3, <2>1 DEF ExecutedInv
<1>4. CASE Crash
  BY <1>4, <1>3 DEF Crash
<1>5. ASSUME NEW w \in Workers, Execute(w) PROVE ExecutedInv'
  <2>1. MessageOf(w) \in Jobs
    BY <1>2, <1>5 DEF Execute
  <2>2. /\ executions[MessageOf(w)] \in Nat
        /\ executions' = [executions EXCEPT ![MessageOf(w)] = executions[MessageOf(w)] + 1]
        /\ executions \in [Jobs -> Nat]
    BY <1>5, <2>1 DEF Execute, TypeOK, CounterTypes
  <2>3. \A j \in Jobs : executions[j] # 0 \/ j = MessageOf(w) => executions'[j] # 0
    BY <2>1, <2>2
  <2>4. /\ results' = results /\ results \subseteq Jobs
        /\ UNCHANGED <<held, topic>>
        /\ \A v \in Workers \ {w} : pc'[v] = pc[v]
    BY <1>5 DEF Execute, Goto, TypeOK, WorkerTypes, JobTypes
  <2>5. \A v \in Workers : MessageOf(v)' = MessageOf(v)
    BY <2>4 DEF MessageOf
  <2>6. \A v \in Workers : pc'[v] = "persist" => executions'[MessageOf(v)] # 0
    BY <1>2, <2>1, <2>3, <2>4 DEF ExecutedInv
  <2> QED
    BY <2>3, <2>4, <2>5, <2>6 DEF ExecutedInv
<1>6. ASSUME NEW w \in Workers, Persist(w) \/ (AnswerLost(w) /\ pc[w] = "persist")
      PROVE  ExecutedInv'
  <2>1. results' = results \union {MessageOf(w)} /\ executions[MessageOf(w)] # 0
    BY <1>6 DEF Persist, AnswerLost, ExecutedInv
  <2>2. UNCHANGED <<executions, held>> /\ pc'[w] # "persist"
        /\ \A v \in Workers \ {w} : pc'[v] = pc[v]
    BY <1>6 DEF Persist, AnswerLost, Goto, TypeOK, WorkerTypes
  <2> QED
    BY <1>3, <2>1, <2>2
<1>7. ASSUME NEW w \in Workers, UNCHANGED <<executions, results>>, pc'[w] # "persist",
             \A v \in Workers \ {w} : pc'[v] = pc[v] /\ held'[v] = held[v]
      PROVE  ExecutedInv'
  BY <1>3, <1>7
<1>8. ASSUME NEW w \in Workers, Step(w) PROVE ExecutedInv'
  <2> USE DEF TypeOK, WorkerTypes
  <2>1. ASSUME NEW p \in Partitions, Fetch(w, p) PROVE ExecutedInv'
    BY <2>1, <1>7 DEF Fetch, Goto
  <2>2. CASE RejectMalformed(w) \/ InsertJob(w) \/ ResumeJob(w) \/ FindDone(w)
    BY <2>2, <1>7 DEF RejectMalformed, InsertJob, ResumeJob, FindDone, Proceed, Goto
  <2>3. CASE FindRunning(w) \/ Commit(w)
    BY <2>3, <1>7 DEF FindRunning, Commit, GoIdle, Goto
  <2>4. CASE MarkRunning(w) \/ HandleFailure(w) \/ PublishResult(w)
    BY <2>4, <1>7 DEF MarkRunning, HandleFailure, PublishResult, Goto
  <2> QED
    BY <1>5, <1>6, <1>8, <2>1, <2>2, <2>3, <2>4 DEF Step
<1>9. ASSUME NEW w \in Workers, NEW label \in PC, CallFails(w, label) PROVE ExecutedInv'
  BY <1>7, <1>9 DEF CallFails, Goto, TypeOK, WorkerTypes
<1>10. ASSUME NEW w \in Workers, AnswerLost(w), pc[w] # "persist" PROVE ExecutedInv'
  BY <1>7, <1>10 DEF AnswerLost, Goto, TypeOK, WorkerTypes
<1>11. ASSUME NEW w \in Workers, CommitFails(w) PROVE ExecutedInv'
  BY <1>7, <1>11 DEF CommitFails, GoIdle, Goto, TypeOK, WorkerTypes
<1>12. CASE UNCHANGED <<executions, results, pc, held>>
  BY <1>3, <1>12
<1> QED
  BY <1>4, <1>6, <1>8, <1>9, <1>10, <1>11, <1>12
  DEF Next, vars, Publish, PublishMalformed, Rebalance

\* No result is stored for a job that was never executed: not by a redelivery, nor
\* by a retry after an attempt whose calls failed.
LEMMA ExecutedCorrect == Spec => []ExecutedInv
<1>1. Init => ExecutedInv
  BY DEF Init, ExecutedInv
<1>2. TypeOK /\ HeldInv /\ ExecutedInv /\ [Next]_vars => ExecutedInv'
  BY ExecutedStep
<1> QED
  BY <1>1, <1>2, TypeCorrect, PTL DEF Spec

------------------------------------------------------------------------------
(***************************************************************************)
(* Jobs that two consumers never held at once.                             *)
(***************************************************************************)
\* The row of j and the count of its executions are left alone.
SameRow(j) ==
  status'[j] = status[j] /\ attempt'[j] = attempt[j] /\ executions'[j] = executions[j]

\* A step of one busy consumer, which keeps its message and touches the row of
\* no other job, keeps the invariant when it keeps it for its own job.
LEMMA SoleHolderOwn ==
  ASSUME TypeOK, TopicGrows, HeldInv, SoleHolderInv, NEW w \in Workers,
         held' = held, held[w].off # 0, contended' = contended,
         \A v \in Workers \ {w} : pc'[v] = pc[v] /\ try'[v] = try[v],
         \A j \in Jobs : j # MessageOf(w) => SameRow(j),
         \A j \in Jobs \ contended : j = MessageOf(w) =>
           RowOf(w, j)' /\ executions'[j] <= attempt'[j] /\ executions'[j] <= MaxAttempts
  PROVE  SoleHolderInv'
<1> SUFFICES ASSUME NEW j \in Jobs \ contended
             PROVE  /\ \A u, v \in Workers : Holds(u, j)' /\ Holds(v, j)' => u = v
                    /\ \A v \in Workers : Holds(v, j)' => RowOf(v, j)'
                    /\ executions'[j] <= attempt'[j]
                    /\ executions'[j] <= MaxAttempts
  BY DEF SoleHolderInv
<1>1. \A v \in Workers : Holds(v, j)' <=> Holds(v, j)
  BY HoldsFrame
<1>2. CASE j = MessageOf(w)
  <2>1. Holds(w, j)
    BY <1>2 DEF Holds
  <2>2. QED
    BY <1>1, <1>2, <2>1 DEF SoleHolderInv
<1>3. CASE j # MessageOf(w)
  <2>1. ~Holds(w, j)
    BY <1>3 DEF Holds
  <2>2. \A v \in Workers \ {w} : RowOf(v, j) => RowOf(v, j)'
    BY <1>3 DEF RowOf, SameRow
  <2>3. QED
    BY <1>1, <1>3, <2>1, <2>2 DEF SoleHolderInv, SameRow
<1>4. QED
  BY <1>2, <1>3

\* A step that leaves the tables alone and after which every consumer either is
\* where it was or has no claim on a row keeps the invariant.
LEMMA SoleHolderCalm ==
  ASSUME TypeOK, TopicGrows, HeldInv, SoleHolderInv, contended \subseteq contended',
         UNCHANGED <<status, attempt, executions>>,
         \A v \in Workers :
           \/ held'[v] = held[v] /\ pc'[v] = pc[v] /\ try'[v] = try[v]
           \/ held'[v] = held[v] /\ pc'[v] = "commit"
           \/ held'[v].off = 0
  PROVE  SoleHolderInv'
<1> SUFFICES ASSUME NEW j \in Jobs \ contended'
             PROVE  /\ \A u, v \in Workers : Holds(u, j)' /\ Holds(v, j)' => u = v
                    /\ \A v \in Workers : Holds(v, j)' => RowOf(v, j)'
                    /\ executions'[j] <= attempt'[j]
                    /\ executions'[j] <= MaxAttempts
  BY DEF SoleHolderInv
<1>1. \A v \in Workers : Holds(v, j)' => Holds(v, j)
  BY HoldsFrame DEF Holds
<1>2. ASSUME NEW v \in Workers, Holds(v, j)' PROVE RowOf(v, j)'
  <2>1. RowOf(v, j)
    BY <1>1, <1>2 DEF SoleHolderInv
  <2>2. QED
    BY <1>2, <2>1 DEF RowOf, Holds
<1>3. QED
  BY <1>1, <1>2 DEF SoleHolderInv

\* No step takes a job back to before its first attempt.
LEMMA FreshStep ==
  ASSUME TypeOK, FreshInv, [Next]_vars
  PROVE  FreshInv' /\ \A j \in Jobs : Started(j) => Started(j)'
<1> USE DEF TypeOK, JobTypes, FreshInv, Started
<1> DEFINE Goal == FreshInv' /\ \A j \in Jobs : Started(j) => Started(j)'
<1>1. CASE UNCHANGED jobVars
  BY <1>1
<1>2. ASSUME NEW w \in Workers, InsertJob(w) PROVE Goal
  BY <1>2 DEF InsertJob, UpdateStatus
<1>3. ASSUME NEW w \in Workers, MarkRunning(w) \/ HandleFailure(w) \/ Persist(w) PROVE Goal
  BY <1>3 DEF MarkRunning, HandleFailure, Persist, UpdateStatus
<1>4. ASSUME NEW w \in Workers, AnswerLost(w) PROVE Goal
  BY <1>4 DEF AnswerLost, UpdateStatus
<1>5. QED
  BY <1>1, <1>2, <1>3, <1>4
  DEF Next, Step, vars, Publish, PublishMalformed, Rebalance, Crash, Fetch,
      RejectMalformed, ResumeJob, FindDone, FindRunning, Execute, PublishResult,
      Commit, CallFails, CommitFails

\* Every step keeps the row of an uncontended job what its holder believes.
LEMMA SoleHolderStep ==
  ASSUME TypeOK, HeldInv, FreshInv, SoleHolderInv, [Next]_vars PROVE SoleHolderInv'
<1> USE AttemptsAssumption
<1>1. TopicGrows
  BY TopicStep
<1>2. CASE UNCHANGED <<workerVars, jobVars, auxVars>>
  BY <1>1, <1>2, SoleHolderCalm
<1>3. CASE Crash
  BY <1>1, <1>3, SoleHolderCalm, NothingType DEF Crash
<1>4. ASSUME NEW w \in Workers, GoIdle(w), UNCHANGED <<jobVars, auxVars>>
      PROVE  SoleHolderInv'
  BY <1>1, <1>4, SoleHolderCalm, NothingType DEF GoIdle, Goto, TypeOK, WorkerTypes
<1>5. ASSUME NEW w \in Workers, Goto(w, "commit"), UNCHANGED <<held, try, jobVars, auxVars>>
      PROVE  SoleHolderInv'
  BY <1>1, <1>5, SoleHolderCalm DEF Goto, TypeOK, WorkerTypes
<1>6. ASSUME NEW w \in Workers, NEW p \in Partitions, Fetch(w, p) PROVE SoleHolderInv'
  <2>1. /\ pc'[w] = "create"
        /\ \A v \in Workers \ {w} : held'[v] = held[v] /\ pc'[v] = pc[v] /\ try'[v] = try[v]
        /\ UNCHANGED <<status, attempt, executions>>
        /\ contended \subseteq contended'
    BY <1>6 DEF Fetch, Goto, TypeOK, WorkerTypes
  <2>2. ASSUME NEW j \in Jobs \ contended', Holds(w, j)', NEW v \in Workers \ {w}
        PROVE  ~Holds(v, j)
    <3>1. held'[w] = [part |-> p, off |-> position[p] + 1] /\ topic' = topic
      BY <1>6 DEF Fetch, TypeOK, WorkerTypes
    <3>2. topic[p][position[p] + 1] = j
      BY <2>2, <3>1 DEF Holds, MessageOf
    <3>3. QED
      BY <1>6, <3>2 DEF Fetch
  <2> SUFFICES ASSUME NEW j \in Jobs \ contended'
               PROVE  /\ \A u, v \in Workers : Holds(u, j)' /\ Holds(v, j)' => u = v
                      /\ \A v \in Workers : Holds(v, j)' => RowOf(v, j)'
                      /\ executions'[j] <= attempt'[j]
                      /\ executions'[j] <= MaxAttempts
    BY DEF SoleHolderInv
  <2>3. \A v \in Workers \ {w} : Holds(v, j)' <=> Holds(v, j)
    BY <1>1, <2>1, HoldsFrame
  <2>4. ASSUME NEW v \in Workers, Holds(v, j)' PROVE RowOf(v, j)'
    <3>1. CASE v = w
      BY <3>1, <2>1 DEF RowOf
    <3>2. CASE v # w
      <4>1. RowOf(v, j)
        BY <2>1, <2>3, <2>4, <3>2 DEF SoleHolderInv
      <4>2. QED
        BY <2>1, <3>2, <4>1 DEF RowOf
    <3>3. QED
      BY <3>1, <3>2
  <2>5. QED
    BY <2>1, <2>2, <2>3, <2>4 DEF SoleHolderInv
<1>7. ASSUME NEW w \in Workers, Step(w) PROVE SoleHolderInv'
  <2> USE DEF TypeOK, WorkerTypes, JobTypes
  <2>1. CASE RejectMalformed(w) \/ PublishResult(w)
    BY <2>1, <1>5 DEF RejectMalformed, PublishResult
  <2>2. CASE FindRunning(w) \/ Commit(w)
    BY <2>2, <1>4 DEF FindRunning, Commit
  <2> DEFINE k == MessageOf(w)
  <2>3. SUFFICES ASSUME /\ InsertJob(w) \/ ResumeJob(w) \/ FindDone(w) \/ MarkRunning(w)
                           \/ Execute(w) \/ HandleFailure(w) \/ Persist(w)
        PROVE  SoleHolderInv'
    BY <1>6, <1>7, <2>1, <2>2 DEF Step
  <2>4. /\ held' = held /\ contended' = contended
        /\ \A v \in Workers \ {w} : pc'[v] = pc[v] /\ try'[v] = try[v]
        /\ pc[w] # "idle"
    BY <2>3 DEF InsertJob, ResumeJob, FindDone, MarkRunning, Execute, HandleFailure,
                Persist, Proceed, Goto
  <2>5. k \in Jobs /\ held[w].off # 0
    BY <2>3, <2>4 DEF InsertJob, ResumeJob, FindDone, MarkRunning, Execute, HandleFailure,
                Persist, HeldInv, WellHeld
  <2>6. \A j \in Jobs : j # k => SameRow(j)
    <3>1. CASE InsertJob(w) \/ MarkRunning(w) \/ HandleFailure(w) \/ Persist(w)
      BY <3>1 DEF InsertJob, MarkRunning, HandleFailure, Persist, UpdateStatus, SameRow
    <3>2. CASE ResumeJob(w) \/ FindDone(w)
      BY <3>2 DEF ResumeJob, FindDone, SameRow
    <3>3. CASE Execute(w)
      BY <3>3 DEF Execute, SameRow, CounterTypes
    <3>4. QED
      BY <2>3, <3>1, <3>2, <3>3
  <2>7. ASSUME NEW j \in Jobs \ contended, j = k
        PROVE  RowOf(w, j)' /\ executions'[j] <= attempt'[j] /\ executions'[j] <= MaxAttempts
    <3>1. RowOf(w, j) /\ executions[j] <= attempt[j] /\ executions[j] <= MaxAttempts
      BY <2>5, <2>7 DEF SoleHolderInv, Holds
    <3>2. executions[j] \in Nat /\ attempt[j] \in Nat /\ try[w] \in Nat
      BY DEF CounterTypes
    <3>3. CASE InsertJob(w)
      BY <3>3, <2>7, <3>1, <3>2 DEF InsertJob, FreshInv, RowOf, UpdateStatus, Proceed, Goto
    <3>4. CASE ResumeJob(w)
      BY <3>4, <2>7, <3>1, <3>2 DEF ResumeJob, FreshInv, RowOf, Proceed, Goto
    <3>5. CASE FindDone(w)
      BY <3>5, <2>7, <3>1, <3>2 DEF FindDone, RowOf, Goto
    <3>6. CASE MarkRunning(w)
      BY <3>6, <2>7, <3>1, <3>2 DEF MarkRunning, RowOf, UpdateStatus, Goto
    <3>7. CASE Execute(w)
      BY <3>7, <2>7, <3>1, <3>2 DEF Execute, RowOf, Goto, CounterTypes
    <3>8. CASE HandleFailure(w)
      BY <3>8, <2>7, <3>1, <3>2 DEF HandleFailure, RowOf, UpdateStatus, Goto
    <3>9. CASE Persist(w)
      BY <3>9, <2>7, <3>1, <3>2 DEF Persist, RowOf, UpdateStatus, Goto
    <3>10. QED
      BY <2>3, <3>3, <3>4, <3>5, <3>6, <3>7, <3>8, <3>9
  <2>8. QED
    BY <1>1, <2>4, <2>5, <2>6, <2>7, SoleHolderOwn
<1>8. ASSUME NEW w \in Workers, AnswerLost(w) PROVE SoleHolderInv'
  <2>1. PICK k \in Jobs : /\ MessageOf(w) = k
                          /\ \/ pc[w] = "create" /\ UpdateStatus(k, "QUEUED", 0)
                                /\ status[k] = "ABSENT"
                             \/ pc[w] = "start" /\ UpdateStatus(k, "RUNNING", try[w])
                             \/ pc[w] = "persist" /\ UpdateStatus(k, "DONE", try[w])
    BY <1>8 DEF AnswerLost
  <2>2. /\ held' = held /\ try' = try /\ pc'[w] = "commit" /\ UNCHANGED auxVars
        /\ \A v \in Workers \ {w} : pc'[v] = pc[v]
    BY <1>8 DEF AnswerLost, Goto, TypeOK, WorkerTypes
  <2>3. held[w].off # 0
    BY <2>1 DEF HeldInv, WellHeld
  <2>4. \A j \in Jobs : j # k => SameRow(j)
    BY <2>1, <2>2 DEF UpdateStatus, SameRow, TypeOK, JobTypes
  <2>5. ASSUME NEW j \in Jobs \ contended, j = k
        PROVE  RowOf(w, j)' /\ executions'[j] <= attempt'[j] /\ executions'[j] <= MaxAttempts
    <3>1. RowOf(w, j) /\ executions[j] <= attempt[j] /\ executions[j] <= MaxAttempts
      BY <2>1, <2>3, <2>5 DEF SoleHolderInv, Holds
    <3>2. executions[j] \in Nat /\ attempt[j] \in Nat /\ try[w] \in Nat
      BY DEF TypeOK, CounterTypes, JobTypes, WorkerTypes
    <3>3. attempt'[j] \in {attempt[j], attempt[j] + 1}
      BY <2>1, <2>5, <3>1, <3>2 DEF UpdateStatus, RowOf, FreshInv, TypeOK, JobTypes
    <3>4. QED
      BY <2>2, <3>1, <3>2, <3>3 DEF RowOf
  <2>6. QED
    BY <1>1, <2>1, <2>2, <2>3, <2>4, <2>5, SoleHolderOwn
<1>9. QED
  BY <1>2, <1>3, <1>4, <1>5, <1>7, <1>8
  DEF Next, vars, Publish, PublishMalformed, Rebalance, CallFails, CommitFails

\* In every reachable state the rows are what their sole holders believe.
LEMMA SoleHolderCorrect == Spec => [](FreshInv /\ SoleHolderInv)
<1>1. Init => FreshInv /\ SoleHolderInv
  BY NothingType, AttemptsAssumption
  DEF Init, FreshInv, SoleHolderInv, Holds
<1>2. TypeOK /\ HeldInv /\ FreshInv /\ SoleHolderInv /\ [Next]_vars
      => FreshInv' /\ SoleHolderInv'
  BY FreshStep, SoleHolderStep
<1>3. QED
  BY <1>1, <1>2, TypeCorrect, PTL DEF Spec

\* A job that two consumers never held at once is executed at most MaxAttempts
\* times, for any number of requests, redeliveries, crashes and failed calls.
THEOREM ExecutionsBoundedAlways == Spec => []ExecutionsBounded
<1>1. SoleHolderInv => ExecutionsBounded
  BY DEF SoleHolderInv, ExecutionsBounded
<1>2. QED
  BY <1>1, SoleHolderCorrect, PTL

\* The row of a job changes only by a consumer that holds the job, at one of the
\* four points where Process writes the row.
LEMMA RowChange ==
  ASSUME TypeOK, HeldInv, [Next]_vars, NEW j \in Jobs, status'[j] # status[j]
  PROVE  \E w \in Workers :
           /\ Holds(w, j)
           /\ \/ pc[w] = "create" /\ status[j] = "ABSENT" /\ status'[j] = "QUEUED"
              \/ pc[w] = "start" /\ status'[j] = "RUNNING"
              \/ pc[w] = "fail" /\ status'[j] = "FAILED"
              \/ pc[w] = "persist" /\ status'[j] = "DONE"
<1>1. PICK w \in Workers : \/ InsertJob(w) \/ MarkRunning(w) \/ HandleFailure(w)
                           \/ Persist(w) \/ AnswerLost(w)
  BY DEF Next, Step, vars, Publish, PublishMalformed, Rebalance, Crash, Fetch,
         RejectMalformed, ResumeJob, FindDone, FindRunning, Execute, PublishResult,
         Commit, CallFails, CommitFails
<1>2. pc[w] # "idle" /\ held[w].off # 0
  BY <1>1 DEF InsertJob, MarkRunning, HandleFailure, Persist, AnswerLost, HeldInv, WellHeld
<1>3. MessageOf(w) = j
  BY <1>1 DEF InsertJob, MarkRunning, HandleFailure, Persist, AnswerLost, UpdateStatus,
              TypeOK, JobTypes
<1>4. Holds(w, j)
  BY <1>2, <1>3 DEF Holds
<1>5. CASE InsertJob(w)
  BY <1>3, <1>4, <1>5 DEF InsertJob, UpdateStatus, TypeOK, JobTypes
<1>6. CASE MarkRunning(w)
  BY <1>3, <1>4, <1>6 DEF MarkRunning, UpdateStatus, TypeOK, JobTypes
<1>7. CASE HandleFailure(w)
  BY <1>3, <1>4, <1>7 DEF HandleFailure, UpdateStatus, TypeOK, JobTypes
<1>8. CASE Persist(w)
  BY <1>3, <1>4, <1>8 DEF Persist, UpdateStatus, TypeOK, JobTypes
<1>9. CASE AnswerLost(w)
  BY <1>3, <1>4, <1>9 DEF AnswerLost, UpdateStatus, TypeOK, JobTypes
<1>10. QED
  BY <1>1, <1>5, <1>6, <1>7, <1>8, <1>9

\* A job that two consumers never held at once and that is DONE stays DONE.
THEOREM DoneIsFinalAlways == Spec => DoneIsFinal
<1> DEFINE Final == \A j \in Jobs \ contended : status[j] = "DONE" => status'[j] = "DONE"
<1>1. ASSUME TypeOK, HeldInv, SoleHolderInv, [Next]_vars PROVE Final
  <2> SUFFICES ASSUME NEW j \in Jobs \ contended, status[j] = "DONE", status'[j] # "DONE"
               PROVE  FALSE
    OBVIOUS
  <2>1. PICK w \in Workers : Holds(w, j) /\ pc[w] \in {"start", "fail"}
    BY <1>1, RowChange
  <2>2. RowOf(w, j)
    BY <1>1, <2>1 DEF SoleHolderInv
  <2>3. QED
    BY <2>1, <2>2 DEF RowOf
<1>2. TypeOK /\ HeldInv /\ SoleHolderInv /\ [Next]_vars => [Final]_vars
  BY <1>1
<1>3. QED
  BY <1>2, TypeCorrect, SoleHolderCorrect, PTL DEF Spec, DoneIsFinal

------------------------------------------------------------------------------
(***************************************************************************)
(* Orphans.                                                                *)
(***************************************************************************)
\* A consumer comes to work on a job only by reading, with create, a row that
\* does not say RUNNING, or by going on with what it works on.
LEMMA WorkingBefore ==
  ASSUME TypeOK, HeldInv, [Next]_vars, NEW w \in Workers, NEW j \in Jobs, Working(w, j)'
  PROVE  \/ Working(w, j)
         \/ Holds(w, j) /\ pc[w] = "create" /\ status[j] # "RUNNING"
<1>1. TopicGrows
  BY TopicStep
<1> DEFINE busy == {"start", "execute", "fail", "persist"}
           Before == \/ Working(w, j)
                     \/ Holds(w, j) /\ pc[w] = "create" /\ status[j] # "RUNNING"
<1>2. held'[w] = held[w] => Holds(w, j)
  BY <1>1, HoldsFrame DEF Working
<1>3. pc'[w] \in busy
  BY DEF Working
<1>4. ASSUME held'[w] = held[w] /\ pc'[w] = pc[w] PROVE Before
  <2>1. held'[w] = held[w] /\ pc[w] \in busy
    BY <1>3, <1>4
  <2>2. QED
    BY <2>1, <1>2 DEF Working
<1>5. CASE Crash
  BY <1>3, <1>5 DEF Crash
<1>6. ASSUME NEW v \in Workers, NEW l \in {"idle", "create", "commit", "publish"},
             Goto(v, l), \A u \in Workers \ {v} : held'[u] = held[u]
      PROVE  held'[w] = held[w] /\ pc'[w] = pc[w]
  BY <1>3, <1>6 DEF Goto, TypeOK, WorkerTypes
<1>7. ASSUME NEW v \in Workers, GoIdle(v) PROVE held'[w] = held[w] /\ pc'[w] = pc[w]
  BY <1>6, <1>7 DEF GoIdle, TypeOK, WorkerTypes
<1>8. ASSUME NEW v \in Workers, NEW p \in Partitions, Fetch(v, p)
      PROVE  held'[w] = held[w] /\ pc'[w] = pc[w]
  BY <1>6, <1>8 DEF Fetch, TypeOK, WorkerTypes
<1>9. ASSUME NEW v \in Workers, pc[v] \in {"start", "execute"}, NEW l \in PC, Goto(v, l), held' = held
      PROVE  Before
  BY <1>2, <1>3, <1>9 DEF Working, Goto, TypeOK, WorkerTypes
<1>10. ASSUME NEW v \in Workers, InsertJob(v) \/ ResumeJob(v)
       PROVE  Before
  <2>1. CASE v # w
    BY <1>2, <1>3, <1>10, <2>1
    DEF Working, InsertJob, ResumeJob, Proceed, Goto, TypeOK, WorkerTypes
  <2>2. CASE v = w
    <3>1. held'[w] = held[w]
      BY <1>10, <2>2 DEF InsertJob, ResumeJob
    <3>2. MessageOf(w) = j
      BY <1>1, <3>1, <1>10, <2>2, HoldsFrame DEF Working, Holds
    <3>3. pc[w] = "create" /\ status[j] # "RUNNING"
      BY <3>2, <1>10, <2>2 DEF InsertJob, ResumeJob
    <3>4. QED
      BY <1>2, <3>1, <3>3
  <2>3. QED
    BY <2>1, <2>2
<1>11. ASSUME NEW v \in Workers, Step(v)
       PROVE  Before
  <2>1. CASE RejectMalformed(v) \/ FindDone(v) \/ HandleFailure(v) \/ Persist(v) \/ PublishResult(v)
    BY <2>1, <1>6, <1>4 DEF RejectMalformed, FindDone, HandleFailure, Persist, PublishResult
  <2>2. CASE MarkRunning(v) \/ Execute(v)
    BY <2>2, <1>9 DEF MarkRunning, Execute, PC
  <2>3. QED
    BY <1>11, <1>4, <1>7, <1>8, <1>10, <2>1, <2>2 DEF Step, FindRunning, Commit
<1>12. ASSUME NEW v \in Workers, NEW l \in PC, CallFails(v, l)
       PROVE  held'[w] = held[w] /\ pc'[w] = pc[w]
  BY <1>6, <1>12 DEF CallFails
<1>13. ASSUME NEW v \in Workers, AnswerLost(v)
       PROVE  held'[w] = held[w] /\ pc'[w] = pc[w]
  BY <1>6, <1>13 DEF AnswerLost
<1>14. QED
  BY <1>4, <1>5, <1>7, <1>11, <1>12, <1>13
  DEF Next, vars, Publish, PublishMalformed, Rebalance, CommitFails

\* No step of any consumer, crash, rebalance or request repairs a job that is
\* RUNNING while no consumer works on it.
THEOREM OrphanIsStuckAlways == Spec => OrphanIsStuck
<1> DEFINE Stuck == \A j \in Jobs : Orphaned(j) => Orphaned(j)'
<1>1. ASSUME TypeOK, HeldInv, [Next]_vars PROVE Stuck
  <2> SUFFICES ASSUME NEW j \in Jobs, Orphaned(j) PROVE Orphaned(j)'
    OBVIOUS
  <2>1. status'[j] = status[j]
    BY <1>1, RowChange DEF Orphaned, Working
  <2>2. ASSUME NEW w \in Workers PROVE ~Working(w, j)'
    BY <1>1, <2>2, WorkingBefore DEF Orphaned
  <2>3. QED
    BY <2>1, <2>2 DEF Orphaned
<1>2. TypeOK /\ HeldInv /\ [Next]_vars => [Stuck]_vars
  BY <1>1
<1>3. QED
  BY <1>2, TypeCorrect, PTL DEF Spec, OrphanIsStuck




------------------------------------------------------------------------------
(***************************************************************************)
(* Offsets: what is committed was attempted.                               *)
(***************************************************************************)
\* Without failed calls no started job is unstarted, so what was started up to
\* an offset stays so.
LEMMA StartedStays ==
  ASSUME TopicGrows, \A j \in Jobs : Started(j) => Started(j)',
         NEW p \in Partitions, NEW n \in Int, n <= Len(topic[p]), StartedUpTo(p, n)
  PROVE  StartedUpTo(p, n)'
<1> SUFFICES ASSUME NEW i \in 1..n, topic'[p][i] \in Jobs PROVE Started(topic[p][i])'
  BY DEF StartedUpTo
<1>1. topic'[p][i] = topic[p][i]
  BY DEF TopicGrows
<1>2. topic[p][i] \in Jobs => Started(topic[p][i])
  BY DEF StartedUpTo
<1>3. QED
  BY <1>1, <1>2 DEF Started

\* The offsets never pass the end of their partition.
OffsetBounds ==
  \A p \in Partitions : committed[p] <= Len(topic[p]) /\ position[p] <= Len(topic[p])

LEMMA BoundsStep ==
  ASSUME TypeOK, HeldInv, OffsetBounds, [Next]_vars PROVE OffsetBounds'
<1>1. TopicGrows
  BY TopicStep
<1>2. KafkaTypes
  BY DEF TypeOK
<1>3. CASE UNCHANGED <<committed, position>>
  BY <1>1, <1>2, <1>3 DEF OffsetBounds, TopicGrows, KafkaTypes
<1>4. CASE position' = committed /\ committed' = committed
  BY <1>1, <1>2, <1>4 DEF OffsetBounds, TopicGrows, KafkaTypes
<1>5. ASSUME NEW w \in Workers, NEW p \in Partitions, Fetch(w, p) PROVE OffsetBounds'
  <2>1. /\ position' = [position EXCEPT ![p] = position[p] + 1]
        /\ position[p] < Len(topic[p]) /\ topic' = topic /\ committed' = committed
    BY <1>5 DEF Fetch
  <2>2. QED
    BY <1>1, <1>2, <2>1 DEF OffsetBounds, TopicGrows, KafkaTypes
<1>6. ASSUME NEW w \in Workers, Commit(w) PROVE OffsetBounds'
  <2>1. /\ committed' = [committed EXCEPT ![held[w].part] = held[w].off]
        /\ topic' = topic /\ position' = position
    BY <1>6 DEF Commit
  <2>2. held[w].off <= Len(topic[held[w].part])
    BY DEF HeldInv, WellHeld
  <2>3. QED
    BY <1>1, <1>2, <2>1, <2>2 DEF OffsetBounds, TopicGrows, KafkaTypes
<1>7. QED
  BY <1>3, <1>4, <1>5, <1>6
  DEF Next, Step, vars, Publish, PublishMalformed, Rebalance, Crash, RejectMalformed,
      InsertJob, ResumeJob, FindDone, FindRunning, MarkRunning, Execute, HandleFailure,
      Persist, PublishResult, CallFails, AnswerLost, CommitFails

\* The two parts of OffsetInv, for one partition and for one consumer.
PartitionDone(p) ==
  /\ StartedUpTo(p, committed[p])
  /\ \/ StartedUpTo(p, position[p])
     \/ Unmarked(owner[p], p) /\ StartedUpTo(p, position[p] - 1)

WorkerDone(w) ==
  /\ StartedUpTo(held[w].part, held[w].off - 1)
  /\ pc[w] \in {"execute", "fail", "persist", "publish", "commit"} =>
       StartedUpTo(held[w].part, held[w].off)

OffsetParts ==
  (\A p \in Partitions : PartitionDone(p)) /\ (\A w \in Workers : WorkerDone(w))

LEMMA OffsetSplit == OffsetInv <=> OffsetBounds /\ (faults = 0 => OffsetParts)
  BY DEF OffsetInv, OffsetBounds, OffsetParts, PartitionDone, WorkerDone

\* With the message that w holds, all messages up to it were started.
LEMMA StartedThis ==
  ASSUME TypeOK, HeldInv, NEW w \in Workers, pc[w] # "idle",
         StartedUpTo(held[w].part, held[w].off - 1),
         MessageOf(w) \in Jobs => Started(MessageOf(w))
  PROVE  StartedUpTo(held[w].part, held[w].off)
<1>1. held[w].off \in Nat /\ held[w].off # 0
  BY DEF TypeOK, WorkerTypes, HeldInv, WellHeld
<1>2. \A i \in 1..held[w].off : i \in 1..(held[w].off - 1) \/ i = held[w].off
  BY <1>1
<1>3. QED
  BY <1>2 DEF StartedUpTo, MessageOf

\* A consumer that is where it was, or holds nothing, keeps its part.
LEMMA WorkerDoneFrame ==
  ASSUME TypeOK, HeldInv, TopicGrows, \A j \in Jobs : Started(j) => Started(j)',
         NEW v \in Workers, WorkerDone(v),
         held'[v] = held[v] /\ pc'[v] = pc[v]
  PROVE  WorkerDone(v)'
<1>1. /\ held[v].part \in Partitions /\ held[v].off \in Int /\ held[v].off - 1 \in Int
      /\ Len(topic[held[v].part]) \in Nat
      /\ held[v].off <= Len(topic[held[v].part])
      /\ held[v].off - 1 <= Len(topic[held[v].part])
  BY DEF TypeOK, WorkerTypes, HeldInv, WellHeld, TopicGrows
<1>2. StartedUpTo(held[v].part, held[v].off - 1)'
  BY <1>1, StartedStays DEF WorkerDone
<1>3. pc[v] \in {"execute", "fail", "persist", "publish", "commit"} =>
        StartedUpTo(held[v].part, held[v].off)'
  BY <1>1, StartedStays DEF WorkerDone
<1>4. QED
  BY <1>2, <1>3 DEF WorkerDone

\* A partition whose offsets and owner do not change keeps its part, unless its
\* owner moves on from create or start.
LEMMA PartitionDoneFrame ==
  ASSUME TypeOK, HeldInv, TopicGrows, OffsetBounds,
         \A j \in Jobs : Started(j) => Started(j)',
         NEW p \in Partitions, PartitionDone(p),
         committed'[p] = committed[p], position'[p] = position[p], owner'[p] = owner[p],
         \/ StartedUpTo(p, position[p])'
         \/ Unmarked(owner[p], p) => Unmarked(owner[p], p)'
  PROVE  PartitionDone(p)'
<1>1. /\ position[p] \in Int /\ position[p] - 1 \in Int /\ committed[p] \in Int
      /\ Len(topic[p]) \in Nat
      /\ committed[p] <= Len(topic[p]) /\ position[p] <= Len(topic[p])
      /\ position[p] - 1 <= Len(topic[p])
  BY DEF TypeOK, KafkaTypes, OffsetBounds, TopicGrows
<1>2. StartedUpTo(p, committed[p])'
  BY <1>1, StartedStays DEF PartitionDone
<1>3. StartedUpTo(p, position[p]) => StartedUpTo(p, position[p])'
  BY <1>1, StartedStays
<1>4. StartedUpTo(p, position[p] - 1) => StartedUpTo(p, position[p] - 1)'
  BY <1>1, StartedStays
<1>5. QED
  BY <1>2, <1>3, <1>4 DEF PartitionDone

\* A busy consumer that stays between create and start, or whose message has been
\* started or is no job, keeps the invariant.
LEMMA OffsetMove ==
  ASSUME TypeOK, HeldInv, TopicGrows, OffsetBounds, OffsetParts,
         \A j \in Jobs : Started(j) => Started(j)',
         NEW w \in Workers, held' = held, UNCHANGED kafkaVars, pc[w] # "idle",
         \A v \in Workers \ {w} : pc'[v] = pc[v],
         \/ pc[w] \in {"create", "start"} /\ pc'[w] \in {"create", "start"}
         \/ MessageOf(w) \in Jobs => Started(MessageOf(w))'
  PROVE  OffsetParts'
<1>1. CASE pc[w] \in {"create", "start"} /\ pc'[w] \in {"create", "start"}
  <2>1. ASSUME NEW p \in Partitions PROVE PartitionDone(p)'
    <3>1. Unmarked(owner[p], p) => Unmarked(owner[p], p)'
      BY <1>1 DEF Unmarked, TypeOK, KafkaTypes
    <3>2. QED
      BY <3>1, PartitionDoneFrame DEF OffsetParts
  <2>2. ASSUME NEW v \in Workers \ {w} PROVE WorkerDone(v)'
    BY WorkerDoneFrame DEF OffsetParts
  <2>3. WorkerDone(w)'
    <3>1. /\ held[w].part \in Partitions /\ held[w].off - 1 \in Int
          /\ held[w].off - 1 <= Len(topic[held[w].part])
      BY DEF TypeOK, WorkerTypes, HeldInv, WellHeld, TopicGrows
    <3>2. StartedUpTo(held[w].part, held[w].off - 1)'
      BY <3>1, StartedStays DEF OffsetParts, WorkerDone
    <3>3. QED
      BY <1>1, <3>2 DEF WorkerDone
  <2>4. QED
    BY <2>1, <2>2, <2>3 DEF OffsetParts
<1>2. CASE MessageOf(w) \in Jobs => Started(MessageOf(w))'
  <2>1. /\ held[w].part \in Partitions /\ held[w].off \in Nat /\ held[w].off # 0
        /\ Len(topic[held[w].part]) \in Nat /\ held[w].off <= Len(topic[held[w].part])
        /\ held[w].off - 1 \in Int /\ held[w].off - 1 <= Len(topic[held[w].part])
    BY DEF TypeOK, WorkerTypes, HeldInv, WellHeld, TopicGrows
  <2>2. StartedUpTo(held[w].part, held[w].off - 1)'
    BY <2>1, StartedStays DEF OffsetParts, WorkerDone
  <2>3. StartedUpTo(held[w].part, held[w].off)'
    <3>1. \A i \in 1..held[w].off : i \in 1..(held[w].off - 1) \/ i = held[w].off
      BY <2>1
    <3>2. QED
      BY <1>2, <2>2, <3>1 DEF StartedUpTo, MessageOf, Started
  <2>4. WorkerDone(w)'
    BY <2>2, <2>3 DEF WorkerDone
  <2>5. ASSUME NEW v \in Workers \ {w} PROVE WorkerDone(v)'
    BY WorkerDoneFrame DEF OffsetParts
  <2>6. ASSUME NEW p \in Partitions PROVE PartitionDone(p)'
    <3>1. CASE owner[p] = w /\ Unmarked(w, p)
      <4>1. StartedUpTo(p, position[p])'
        BY <3>1, <2>3 DEF Unmarked
      <4>2. QED
        BY <4>1, PartitionDoneFrame DEF OffsetParts
    <3>2. CASE ~(owner[p] = w /\ Unmarked(w, p))
      <4>1. Unmarked(owner[p], p) => Unmarked(owner[p], p)'
        BY <3>2 DEF Unmarked, TypeOK, KafkaTypes
      <4>2. QED
        BY <4>1, PartitionDoneFrame DEF OffsetParts
    <3>3. QED
      BY <3>1, <3>2
  <2>7. QED
    BY <2>4, <2>5, <2>6 DEF OffsetParts
<1>3. QED
  BY <1>1, <1>2

\* A consumer whose message has been started or is no job drops it, after
\* committing its offset or without.
LEMMA OffsetDrop ==
  ASSUME TypeOK, HeldInv, TopicGrows, OffsetBounds, OffsetParts,
         \A j \in Jobs : Started(j) => Started(j)',
         NEW w \in Workers, GoIdle(w), pc[w] # "idle",
         UNCHANGED <<topic, position, owner, status>>,
         MessageOf(w) \in Jobs => Started(MessageOf(w)),
         \A p \in Partitions :
           \/ committed'[p] = committed[p]
           \/ p = held[w].part /\ committed'[p] = held[w].off
  PROVE  OffsetParts'
<1>1. StartedUpTo(held[w].part, held[w].off)
  BY StartedThis DEF OffsetParts, WorkerDone
<1>2. /\ pc'[w] = "idle" /\ held'[w] = Nothing
      /\ \A v \in Workers \ {w} : held'[v] = held[v] /\ pc'[v] = pc[v]
  BY DEF GoIdle, Goto, TypeOK, WorkerTypes
<1>3. WorkerDone(w)'
  BY <1>2, NothingType DEF WorkerDone, StartedUpTo
<1>4. ASSUME NEW v \in Workers \ {w} PROVE WorkerDone(v)'
  BY <1>2, WorkerDoneFrame DEF OffsetParts
<1>5. ASSUME NEW p \in Partitions PROVE PartitionDone(p)'
  <2>1. \A n : StartedUpTo(p, n) => StartedUpTo(p, n)'
    BY DEF StartedUpTo, Started
  <2>2. StartedUpTo(p, committed[p])'
    BY <1>1, <2>1 DEF OffsetParts, PartitionDone
  <2>4. CASE owner[p] = w /\ Unmarked(w, p)
    <3>1. StartedUpTo(p, position[p])'
      BY <2>4, <1>1, <2>1 DEF Unmarked
    <3>2. QED
      BY <2>2, <3>1 DEF PartitionDone
  <2>5. CASE ~(owner[p] = w /\ Unmarked(w, p))
    <3>1. Unmarked(owner[p], p) => Unmarked(owner[p], p)'
      BY <1>2, <2>5 DEF Unmarked, TypeOK, KafkaTypes
    <3>2. QED
      BY <2>1, <2>2, <3>1 DEF PartitionDone, OffsetParts
  <2>6. QED
    BY <2>4, <2>5
<1>6. QED
  BY <1>3, <1>4, <1>5 DEF OffsetParts

\* Every step keeps what was handed out and committed behind what was started.
LEMMA OffsetStep ==
  ASSUME TypeOK, HeldInv, FreshInv, OffsetInv, [Next]_vars PROVE OffsetInv'
<1>1. TopicGrows
  BY TopicStep
<1>2. \A j \in Jobs : Started(j) => Started(j)'
  BY FreshStep
<1>3. OffsetBounds
  BY OffsetSplit
<1>4. OffsetBounds'
  BY <1>3, BoundsStep
<1> SUFFICES ASSUME faults' = 0 PROVE OffsetParts'
  BY <1>4 DEF OffsetInv, OffsetBounds, OffsetParts, PartitionDone, WorkerDone
<1>5. ~Fault
  BY DEF Fault, TypeOK, CounterTypes
<1>6. faults' = faults
  BY <1>5 DEF Next, Step, vars, Publish, PublishMalformed, Rebalance, Crash, Fetch,
      RejectMalformed, InsertJob, ResumeJob, FindDone, FindRunning, MarkRunning, Execute,
      HandleFailure, Persist, PublishResult, Commit, CallFails, AnswerLost, CommitFails
<1>7. OffsetParts
  BY <1>6, OffsetSplit
<1>8. CASE UNCHANGED <<committed, position, owner, pc, held>>
  <2>1. ASSUME NEW v \in Workers PROVE WorkerDone(v)'
    BY <1>1, <1>2, <1>7, <1>8, WorkerDoneFrame DEF OffsetParts
  <2>2. ASSUME NEW p \in Partitions PROVE PartitionDone(p)'
    <3>1. Unmarked(owner[p], p) => Unmarked(owner[p], p)'
      BY <1>8 DEF Unmarked
    <3>2. QED
      BY <1>1, <1>2, <1>3, <1>7, <1>8, <3>1, PartitionDoneFrame DEF OffsetParts
  <2>3. QED
    BY <2>1, <2>2 DEF OffsetParts
<1>9. ASSUME position' = committed, UNCHANGED <<topic, committed, status>>,
             \A v \in Workers :
               \/ held'[v] = held[v] /\ pc'[v] = pc[v]
               \/ held'[v] = Nothing /\ pc'[v] = "idle"
      PROVE  OffsetParts'
  <2>1. ASSUME NEW v \in Workers PROVE WorkerDone(v)'
    <3>1. CASE held'[v] = held[v] /\ pc'[v] = pc[v]
      BY <1>1, <1>2, <1>7, <3>1, WorkerDoneFrame DEF OffsetParts
    <3>2. CASE held'[v] = Nothing /\ pc'[v] = "idle"
      BY <3>2, NothingType DEF WorkerDone, StartedUpTo
    <3>3. QED
      BY <1>9, <3>1, <3>2
  <2>2. ASSUME NEW p \in Partitions PROVE PartitionDone(p)'
    <3>1. StartedUpTo(p, committed[p])'
      BY <1>9, <1>7 DEF OffsetParts, PartitionDone, StartedUpTo, Started
    <3>2. QED
      BY <1>9, <3>1 DEF PartitionDone
  <2>3. QED
    BY <2>1, <2>2 DEF OffsetParts
<1>10. CASE Rebalance \/ Crash
  BY <1>9, <1>10 DEF Rebalance, Crash
<1>11. ASSUME NEW w \in Workers, NEW p \in Partitions, Fetch(w, p) PROVE OffsetParts'
  <2>1. /\ pc'[w] = "create" /\ held'[w] = [part |-> p, off |-> position[p] + 1]
        /\ \A v \in Workers \ {w} : pc'[v] = pc[v] /\ held'[v] = held[v]
        /\ position'[p] = position[p] + 1
        /\ \A q \in Partitions \ {p} : position'[q] = position[q]
        /\ UNCHANGED <<topic, committed, owner, status>>
        /\ pc[w] = "idle" /\ owner[p] = w /\ position[p] \in Nat
    BY <1>11 DEF Fetch, Goto, TypeOK, WorkerTypes, KafkaTypes
  <2>2. \A q, n : StartedUpTo(q, n) => StartedUpTo(q, n)'
    BY <2>1 DEF StartedUpTo, Started
  <2>3. StartedUpTo(p, position[p])
    BY <1>7, <2>1 DEF OffsetParts, PartitionDone, Unmarked
  <2>4. position[p] + 1 - 1 = position[p]
    BY <2>1
  <2>5. WorkerDone(w)'
    BY <2>1, <2>2, <2>3, <2>4 DEF WorkerDone
  <2>6. ASSUME NEW v \in Workers \ {w} PROVE WorkerDone(v)'
    BY <1>1, <1>2, <1>7, <2>1, WorkerDoneFrame DEF OffsetParts
  <2>7. PartitionDone(p)'
    <3>1. StartedUpTo(p, committed[p])'
      BY <1>7, <2>1, <2>2 DEF OffsetParts, PartitionDone
    <3>2. Unmarked(owner[p], p)'
      BY <2>1 DEF Unmarked
    <3>3. StartedUpTo(p, position[p] - 1)'
      BY <2>1, <2>2, <2>3, <2>4 DEF StartedUpTo, Started
    <3>4. QED
      BY <3>1, <3>2, <3>3 DEF PartitionDone
  <2>8. ASSUME NEW q \in Partitions \ {p} PROVE PartitionDone(q)'
    <3>1. Unmarked(owner[q], q) => Unmarked(owner[q], q)'
      BY <2>1 DEF Unmarked, TypeOK, KafkaTypes
    <3>2. QED
      BY <1>1, <1>2, <1>3, <1>7, <2>1, <3>1, PartitionDoneFrame DEF OffsetParts
  <2>9. QED
    BY <2>5, <2>6, <2>7, <2>8 DEF OffsetParts
<1>12. ASSUME NEW w \in Workers, Step(w) PROVE OffsetParts'
  <2> SUFFICES ASSUME \A p \in Partitions : ~Fetch(w, p) PROVE OffsetParts'
    BY <1>11
  <2>1. WorkerDone(w)
    BY <1>7 DEF OffsetParts
  <2>2. pc[w] # "idle"
    BY <1>12 DEF Step, RejectMalformed, InsertJob, ResumeJob, FindDone, FindRunning,
      MarkRunning, Execute, HandleFailure, Persist, PublishResult, Commit
  <2>3. /\ pc[w] \in {"execute", "fail", "persist", "publish", "commit"}
        /\ MessageOf(w) \in Jobs
        => Started(MessageOf(w))
    BY <2>1, <2>2 DEF WorkerDone, StartedUpTo, MessageOf, HeldInv, WellHeld, TypeOK, WorkerTypes
  <2>4. ASSUME UNCHANGED <<kafkaVars, held>>, \A v \in Workers \ {w} : pc'[v] = pc[v],
               \/ pc[w] \in {"create", "start"} /\ pc'[w] \in {"create", "start"}
               \/ MessageOf(w) \in Jobs => Started(MessageOf(w))'
        PROVE  OffsetParts'
    BY <1>1, <1>2, <1>3, <1>7, <2>2, <2>4, OffsetMove
  <2>5. CASE RejectMalformed(w)
    BY <2>5, <2>4, JobsAssumption DEF RejectMalformed, Goto
  <2>6. CASE InsertJob(w) \/ ResumeJob(w)
    <3>1. PICK j \in Jobs : MessageOf(w) = j /\
            \/ try' = [try EXCEPT ![w] = 1] /\ Proceed(w, 0)
            \/ status[j] = "FAILED" /\ UNCHANGED status
      BY <2>6 DEF InsertJob, ResumeJob, Proceed, FreshInv
    <3>2. UNCHANGED <<kafkaVars, held>> /\ \A v \in Workers \ {w} : pc'[v] = pc[v]
      BY <2>6 DEF InsertJob, ResumeJob, Proceed, Goto, TypeOK, WorkerTypes
    <3>3. CASE Proceed(w, 0)
      <4>1. pc[w] = "create"
        BY <2>6 DEF InsertJob, ResumeJob
      <4>2. pc'[w] = "start"
        BY <3>3, AttemptsAssumption DEF Proceed, Goto, TypeOK, WorkerTypes
      <4>3. QED
        BY <3>2, <4>1, <4>2, <2>4
    <3>4. CASE status[MessageOf(w)] = "FAILED" /\ UNCHANGED status
      <4>1. Started(MessageOf(w))'
        BY <3>2, <3>4 DEF Started, MessageOf
      <4>2. QED
        BY <3>2, <4>1, <2>4
    <3>5. QED
      BY <3>1, <3>3, <3>4
  <2>7. CASE FindDone(w)
    <3>1. Started(MessageOf(w))'
      BY <2>7 DEF FindDone, Started, MessageOf
    <3>2. QED
      BY <3>1, <2>7, <2>4 DEF FindDone, Goto
  <2>8. CASE MarkRunning(w)
    <3>1. MessageOf(w) \in Jobs => Started(MessageOf(w))'
      BY <2>8 DEF MarkRunning, UpdateStatus, Started, MessageOf, TypeOK, JobTypes
    <3>2. QED
      BY <3>1, <2>8, <2>4 DEF MarkRunning, Goto
  <2>9. CASE Execute(w) \/ HandleFailure(w) \/ Persist(w) \/ PublishResult(w)
    <3>1. /\ pc[w] \in {"execute", "fail", "persist", "publish", "commit"}
          /\ UNCHANGED <<kafkaVars, held>> /\ \A v \in Workers \ {w} : pc'[v] = pc[v]
      BY <2>9 DEF Execute, HandleFailure, Persist, PublishResult, Goto, TypeOK, WorkerTypes
    <3>2. MessageOf(w) \in Jobs => Started(MessageOf(w))'
      BY <1>2, <2>3, <3>1 DEF MessageOf, Started
    <3>3. QED
      BY <3>1, <3>2, <2>4
  <2>10. CASE FindRunning(w)
    <3>1. /\ GoIdle(w) /\ UNCHANGED <<topic, position, owner, status>>
          /\ MessageOf(w) \in Jobs => Started(MessageOf(w))
          /\ committed' = committed
      BY <2>10 DEF FindRunning, Started
    <3>2. QED
      BY <1>1, <1>2, <1>3, <1>7, <2>2, <3>1, OffsetDrop
  <2>11. CASE Commit(w)
    <3>1. /\ GoIdle(w) /\ UNCHANGED <<topic, position, owner, status>>
          /\ MessageOf(w) \in Jobs => Started(MessageOf(w))
      BY <2>11, <2>3 DEF Commit
    <3>2. ASSUME NEW p \in Partitions
          PROVE  \/ committed'[p] = committed[p]
                 \/ p = held[w].part /\ committed'[p] = held[w].off
      <4>1. committed' = [committed EXCEPT ![held[w].part] = held[w].off]
        BY <2>11 DEF Commit
      <4>2. committed \in [Partitions -> Nat]
        BY DEF TypeOK, KafkaTypes
      <4>3. QED
        BY <4>1, <4>2
    <3>3. QED
      BY <1>1, <1>2, <1>3, <1>7, <2>2, <3>1, <3>2, OffsetDrop
  <2>12. QED
    BY <1>12, <2>5, <2>6, <2>7, <2>8, <2>9, <2>10, <2>11 DEF Step
<1>13. QED
  BY <1>5, <1>8, <1>10, <1>12
  DEF Next, vars, Publish, PublishMalformed, CallFails, AnswerLost, CommitFails

\* In every reachable state the offsets point behind attempted jobs.
LEMMA OffsetCorrect == Spec => []OffsetInv
<1>1. Init => OffsetInv
  BY NothingType DEF Init, OffsetInv, StartedUpTo
<1>2. TypeOK /\ HeldInv /\ FreshInv /\ OffsetInv /\ [Next]_vars => OffsetInv'
  BY OffsetStep
<1> QED
  BY <1>1, <1>2, TypeCorrect, SoleHolderCorrect, PTL DEF Spec

\* Without failed calls the group's offset never passes a job that was not
\* attempted, for any number of crashes and rebalances.
THEOREM CommittedWasStartedAlways == Spec => []CommittedWasStarted
<1>1. OffsetInv => CommittedWasStarted
  BY DEF OffsetInv, CommittedWasStarted, StartedUpTo, Started
<1> QED
  BY <1>1, OffsetCorrect, PTL

------------------------------------------------------------------------------
(***************************************************************************)
(* Contention.                                                             *)
(***************************************************************************)
\* A job is published on the partition of its key only.
LEMMA RouteStep == ASSUME TypeOK, RouteInv, [Next]_vars PROVE RouteInv'
<1> USE DEF RouteInv, TypeOK, KafkaTypes
<1>1. ASSUME NEW j \in Jobs, Publish(j) PROVE RouteInv'
  BY <1>1, PartitionsAssumption DEF Publish
<1>2. ASSUME NEW p \in Partitions, PublishMalformed(p) PROVE RouteInv'
  BY <1>2, JobsAssumption DEF PublishMalformed
<1>3. CASE UNCHANGED topic
  BY <1>3
<1>4. QED
  BY <1>1, <1>2, <1>3
  DEF Next, Step, vars, Rebalance, Crash, Fetch, RejectMalformed, InsertJob, ResumeJob,
      FindDone, FindRunning, MarkRunning, Execute, HandleFailure, Persist, PublishResult,
      Commit, CallFails, AnswerLost, CommitFails

\* Until the group rebalances, only the owner of a partition holds its messages.
LEMMA OwnerStep ==
  ASSUME TypeOK, HeldInv, RouteInv, OwnerInv, [Next]_vars PROVE OwnerInv'
<1>1. CASE Rebalance
  BY <1>1 DEF Rebalance, OwnerInv, TypeOK, CounterTypes
<1>2. CASE Crash
  BY <1>2, NothingType DEF Crash, OwnerInv
<1>3. ASSUME NEW w \in Workers, GoIdle(w), UNCHANGED <<owner, rebalances, contended>>
      PROVE  OwnerInv'
  BY <1>3, NothingType DEF GoIdle, OwnerInv, TypeOK, WorkerTypes
<1>4. ASSUME NEW w \in Workers, NEW p \in Partitions, Fetch(w, p) PROVE OwnerInv'
  <2> SUFFICES ASSUME rebalances = 0
               PROVE  /\ contended' = {}
                      /\ \A v \in Workers : held'[v].off # 0 => owner[held'[v].part] = v
    BY <1>4 DEF Fetch, OwnerInv
  <2>1. /\ contended = {} /\ owner[p] = w
        /\ \A v \in Workers : held[v].off # 0 => owner[held[v].part] = v
    BY <1>4 DEF Fetch, OwnerInv
  <2>2. position[p] + 1 \in 1..Len(topic[p])
    BY <1>4 DEF Fetch, TypeOK, KafkaTypes
  <2>3. ASSUME NEW j \in Jobs, topic[p][position[p] + 1] = j,
               NEW v \in Workers \ {w}, Holds(v, j)
        PROVE  FALSE
    <3>1. held[v].part \in Partitions /\ held[v].off \in 1..Len(topic[held[v].part])
      <4>1. held[v].part \in Partitions /\ held[v].off \in Nat
        BY DEF TypeOK, WorkerTypes
      <4>2. Len(topic[held[v].part]) \in Nat
        BY <4>1 DEF TypeOK, KafkaTypes
      <4>3. held[v].off # 0 /\ held[v].off <= Len(topic[held[v].part])
        BY <2>3 DEF Holds, HeldInv, WellHeld
      <4>4. QED
        BY <4>1, <4>2, <4>3
    <3>2. PartitionOf[j] = held[v].part /\ PartitionOf[j] = p
      BY <2>2, <2>3, <3>1 DEF RouteInv, Holds, MessageOf
    <3>3. QED
      BY <2>1, <2>3, <3>2 DEF Holds
  <2>4. contended' = {}
    BY <1>4, <2>1, <2>3 DEF Fetch
  <2>5. ASSUME NEW v \in Workers, held'[v].off # 0 PROVE owner[held'[v].part] = v
    BY <1>4, <2>1, <2>5 DEF Fetch, TypeOK, WorkerTypes
  <2>6. QED
    BY <2>4, <2>5
<1>5. CASE UNCHANGED <<owner, held, rebalances, contended>>
  BY <1>5 DEF OwnerInv
<1>6. QED
  BY <1>1, <1>2, <1>3, <1>4, <1>5
  DEF Next, Step, vars, Publish, PublishMalformed, RejectMalformed, InsertJob, ResumeJob,
      FindDone, FindRunning, MarkRunning, Execute, HandleFailure, Persist, PublishResult,
      Commit, CallFails, AnswerLost, CommitFails

LEMMA OwnerCorrect == Spec => [](RouteInv /\ OwnerInv)
<1>1. Init => RouteInv /\ OwnerInv
  BY NothingType DEF Init, RouteInv, OwnerInv
<1>2. TypeOK /\ HeldInv /\ RouteInv /\ OwnerInv /\ [Next]_vars => RouteInv' /\ OwnerInv'
  BY RouteStep, OwnerStep
<1>3. QED
  BY <1>1, <1>2, TypeCorrect, PTL DEF Spec

\* As long as the group has not rebalanced, no two consumers ever held the same
\* job at once: the excuse of DoneIsFinal and ExecutionsBounded needs a rebalance.
THEOREM ContentionNeedsRebalanceAlways == Spec => []ContentionNeedsRebalance
<1>1. TypeOK /\ OwnerInv => ContentionNeedsRebalance
  BY DEF TypeOK, CounterTypes, OwnerInv, ContentionNeedsRebalance
<1>2. QED
  BY <1>1, TypeCorrect, OwnerCorrect, PTL

\* The strengthening that every step preserves holds in every state: what the
\* consumers hold, the rows they read, the stored results, the offsets and the
\* assignment of partitions stay in step with each other.
THEOREM InductiveAlways == Spec => []Inductive
<1>1. HeldInv /\ FreshInv /\ SoleHolderInv /\ StoredInv /\ OffsetInv /\ RouteInv /\ OwnerInv
      => Inductive
  BY DEF Inductive
<1> QED
  BY <1>1, TypeCorrect, StoredCorrect, SoleHolderCorrect, OffsetCorrect, OwnerCorrect, PTL

------------------------------------------------------------------------------
(***************************************************************************)
(* Refinement.                                                             *)
(***************************************************************************)
\* In a state in which no job is contended, a step of the consumers is a step of
\* the lifecycle or leaves the tables alone.
LEMMA LifecycleStep ==
  ASSUME TypeOK, HeldInv, SoleHolderInv, contended = {}, [Next]_vars
  PROVE  [Lifecycle!Next]_(Lifecycle!vars)
<1> USE DEF Lifecycle!Next, Lifecycle!vars
<1>1. CASE UNCHANGED jobVars
  BY <1>1
<1>2. ASSUME NEW w \in Workers, InsertJob(w) PROVE Lifecycle!Next
  <2>1. PICK j \in Jobs : status[j] = "ABSENT" /\ UpdateStatus(j, "QUEUED", 0) /\ results' = results
    BY <1>2 DEF InsertJob
  <2>2. Lifecycle!Create(j)
    BY <2>1 DEF UpdateStatus, Lifecycle!Create, Lifecycle!Become
  <2>3. QED
    BY <2>2
<1>3. ASSUME NEW w \in Workers, pc[w] \in {"start", "fail", "persist"}
      PROVE  MessageOf(w) \in Jobs /\ RowOf(w, MessageOf(w))
  BY <1>3 DEF HeldInv, WellHeld, SoleHolderInv, Holds
<1>4. ASSUME NEW w \in Workers, MarkRunning(w) PROVE Lifecycle!Next
  <2> DEFINE j == MessageOf(w)
  <2>1. j \in Jobs /\ status[j] \in {"QUEUED", "FAILED"} /\ try[w] = attempt[j] + 1
        /\ try[w] <= MaxAttempts
    BY <1>3, <1>4 DEF MarkRunning, RowOf
  <2>2. attempt[j] \in Nat /\ MaxAttempts \in Nat
    BY <2>1, AttemptsAssumption DEF TypeOK, JobTypes
  <2>3. UpdateStatus(j, "RUNNING", attempt[j] + 1) /\ results' = results
    BY <1>4, <2>1 DEF MarkRunning
  <2>4. Lifecycle!Start(j)
    BY <2>1, <2>2, <2>3 DEF UpdateStatus, Lifecycle!Start, Lifecycle!Become
  <2>5. QED
    BY <2>1, <2>4
<1>5. ASSUME NEW w \in Workers, HandleFailure(w) PROVE Lifecycle!Next
  <2> DEFINE j == MessageOf(w)
  <2>1. j \in Jobs /\ RowOf(w, j) /\ pc[w] = "fail"
    BY <1>3, <1>5 DEF HandleFailure
  <2>2. attempt[j] \in Nat /\ MaxAttempts \in Nat
    BY <2>1, AttemptsAssumption DEF TypeOK, JobTypes
  <2>3. UpdateStatus(j, "FAILED", try[w]) /\ results' = results
    BY <1>5 DEF HandleFailure
  <2>4. CASE status[j] = "RUNNING" /\ try[w] = attempt[j]
    <3>1. Lifecycle!Fail(j)
      BY <2>3, <2>4 DEF UpdateStatus, Lifecycle!Fail, Lifecycle!Become
    <3>2. QED
      BY <2>1, <3>1
  <2>5. CASE status[j] = "FAILED" /\ try[w] = attempt[j] + 1 /\ try[w] > MaxAttempts
    <3>1. attempt[j] >= MaxAttempts
      BY <2>2, <2>5
    <3>2. Lifecycle!Refuse(j)
      BY <2>3, <2>5, <3>1 DEF UpdateStatus, Lifecycle!Refuse, Lifecycle!Become
    <3>3. QED
      BY <2>1, <3>2
  <2>6. QED
    BY <2>1, <2>4, <2>5 DEF RowOf
<1>6. ASSUME NEW w \in Workers, Persist(w) PROVE Lifecycle!Next
  <2> DEFINE j == MessageOf(w)
  <2>1. j \in Jobs /\ status[j] = "RUNNING" /\ try[w] = attempt[j]
    BY <1>3, <1>6 DEF Persist, RowOf
  <2>2. UpdateStatus(j, "DONE", attempt[j]) /\ results' = results \union {j}
    BY <1>6, <2>1 DEF Persist
  <2>3. Lifecycle!Finish(j)
    BY <2>1, <2>2 DEF UpdateStatus, Lifecycle!Finish, Lifecycle!Become
  <2>4. QED
    BY <2>1, <2>3
<1>7. ASSUME NEW w \in Workers, AnswerLost(w) PROVE Lifecycle!Next
  <2>1. PICK j \in Jobs :
          /\ MessageOf(w) = j
          /\ \/ /\ status[j] = "ABSENT"
                /\ UpdateStatus(j, "QUEUED", 0) /\ results' = results
             \/ /\ pc[w] = "start"
                /\ UpdateStatus(j, "RUNNING", try[w]) /\ results' = results
             \/ /\ pc[w] = "persist"
                /\ UpdateStatus(j, "DONE", try[w]) /\ results' = results \union {j}
    BY <1>7 DEF AnswerLost
  <2>2. attempt[j] \in Nat /\ MaxAttempts \in Nat
    BY AttemptsAssumption DEF TypeOK, JobTypes
  <2>3. CASE status[j] = "ABSENT" /\ UpdateStatus(j, "QUEUED", 0) /\ results' = results
    <3>1. Lifecycle!Create(j)
      BY <2>3 DEF UpdateStatus, Lifecycle!Create, Lifecycle!Become
    <3>2. QED
      BY <3>1
  <2>4. CASE pc[w] = "start" /\ UpdateStatus(j, "RUNNING", try[w]) /\ results' = results
    <3>1. /\ status[j] \in {"QUEUED", "FAILED"} /\ try[w] = attempt[j] + 1
          /\ try[w] <= MaxAttempts
      BY <1>3, <2>1, <2>4 DEF RowOf
    <3>2. Lifecycle!Start(j)
      BY <2>2, <2>4, <3>1 DEF UpdateStatus, Lifecycle!Start, Lifecycle!Become
    <3>3. QED
      BY <3>2
  <2>5. CASE pc[w] = "persist" /\ UpdateStatus(j, "DONE", try[w]) /\ results' = results \union {j}
    <3>1. status[j] = "RUNNING" /\ try[w] = attempt[j]
      BY <1>3, <2>1, <2>5 DEF RowOf
    <3>2. Lifecycle!Finish(j)
      BY <2>5, <3>1 DEF UpdateStatus, Lifecycle!Finish, Lifecycle!Become
    <3>3. QED
      BY <3>2
  <2>6. QED
    BY <2>1, <2>3, <2>4, <2>5
<1>8. QED
  BY <1>1, <1>2, <1>4, <1>5, <1>6, <1>7
  DEF Next, Step, vars, Publish, PublishMalformed, Rebalance, Crash, Fetch,
      RejectMalformed, ResumeJob, FindDone, FindRunning, Execute, PublishResult,
      Commit, CallFails, CommitFails

\* Where the group never rebalances, the consumers implement the lifecycle that
\* the HTTP API shows: with crashes, failed calls and repeated requests anywhere.
THEOREM Refinement ==
  ASSUME MaxRebalances = 0 PROVE Spec => ImplementsLifecycle
<1>1. Init => Lifecycle!Init
  BY DEF Init, Lifecycle!Init
<1>2. TypeOK /\ OwnerInv => contended = {}
  BY DEF TypeOK, CounterTypes, OwnerInv
<1>3. TypeOK /\ HeldInv /\ SoleHolderInv /\ OwnerInv /\ [Next]_vars
      => [Lifecycle!Next]_(Lifecycle!vars)
  BY <1>2, LifecycleStep
<1>4. QED
  BY <1>1, <1>3, TypeCorrect, SoleHolderCorrect, OwnerCorrect, PTL
  DEF Spec, ImplementsLifecycle, Lifecycle!Spec

==============================================================================
