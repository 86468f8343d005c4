--------------------------- MODULE PipelineProofs ----------------------------
(***************************************************************************)
(* Proofs about mock-svc and dsl-runner-svc together, for any generations, *)
(* jobs, consumers, partitions and bounds.                                 *)
(***************************************************************************)
EXTENDS Pipeline, JobWorkerProofs

------------------------------------------------------------------------------
(***************************************************************************)
(* dsl-runner-svc does not notice that mock-svc is there.                  *)
(***************************************************************************)
\* A step of the system is one of the consumers, the topic and the tables, or
\* leaves them alone.
LEMMA WorkerStep == ASSUME [SystemNext]_allVars PROVE [Next]_vars
<1>1. ASSUME NEW g \in Generations, ClientStep(g) PROVE UNCHANGED vars
  BY <1>1 DEF ClientStep
<1>2. ASSUME NEW g \in Generations, Ask(g) PROVE [Next]_vars
  <2>1. JobOf[g] \in Jobs
    BY ClientAssumption
  <2>2. Publish(JobOf[g]) \/ UNCHANGED vars
    BY <1>2 DEF Ask
  <2> QED
    BY <2>1, <2>2 DEF Next
<1>3. CASE ClientCrash
  BY <1>3 DEF ClientCrash
<1>4. CASE RunnerStep
  BY <1>4 DEF RunnerStep, WorkerNext, Repeat, Next
<1>5. CASE UNCHANGED allVars
  BY <1>5 DEF allVars
<1> QED
  BY <1>1, <1>2, <1>3, <1>4, <1>5 DEF SystemNext

\* What is proved of the consumers for any producer holds with mock-svc as the
\* producer.
THEOREM ImplementsJobWorker == SystemSpec => Spec
<1>1. SystemInit => Init
  BY DEF SystemInit
<1> QED
  BY <1>1, WorkerStep, PTL DEF SystemSpec, Spec

\* No step of the system is a rebalance.
LEMMA NoRebalance == SystemSpec => [](rebalances = 0)
<1>1. SystemInit => rebalances = 0
  BY DEF SystemInit, Init
<1>2. ASSUME [SystemNext]_allVars PROVE rebalances' = rebalances
  <2>1. ASSUME NEW g \in Generations, ClientStep(g) \/ Ask(g) PROVE rebalances' = rebalances
    BY <2>1 DEF ClientStep, Ask, Publish, vars
  <2>2. CASE ClientCrash \/ UNCHANGED allVars
    BY <2>2 DEF ClientCrash, allVars, vars
  <2>3. CASE RunnerStep
    BY <2>3
    DEF RunnerStep, WorkerNext, Repeat, Publish, PublishMalformed, Crash, Step, Fetch,
        RejectMalformed, InsertJob, ResumeJob, FindDone, FindRunning, MarkRunning,
        Execute, HandleFailure, Persist, PublishResult, Commit, CallFails, AnswerLost,
        CommitFails
  <2> QED
    BY <1>2, <2>1, <2>2, <2>3 DEF SystemNext
<1>3. rebalances = 0 /\ [SystemNext]_allVars => (rebalances = 0)'
  BY <1>2
<1> QED
  BY <1>1, <1>3, PTL DEF SystemSpec

\* So no job is ever contended, and the consumers are in the states that their
\* invariant describes.
Calm == TypeOK /\ HeldInv /\ SoleHolderInv /\ RouteInv /\ contended = {}

\* They are so in every state of the system.
LEMMA CalmCorrect == SystemSpec => []Calm
<1>1. TypeOK /\ HeldInv /\ SoleHolderInv /\ RouteInv /\ OwnerInv /\ rebalances = 0 => Calm
  BY DEF OwnerInv, Calm
<1> QED
  BY <1>1, ImplementsJobWorker, NoRebalance, TypeCorrect, SoleHolderCorrect, OwnerCorrect,
     PTL

------------------------------------------------------------------------------
(***************************************************************************)
(* What the consumers do is what mock-svc was promised.                    *)
(***************************************************************************)
\* A job that a consumer holds was asked for.
LEMMA HeldRequested ==
  ASSUME Calm, NEW w \in Workers, NEW j \in Jobs, Holds(w, j)
  PROVE  j \in requested
<1> DEFINE p == held[w].part
           i == held[w].off
<1>1. p \in Partitions /\ i \in Nat /\ i # 0 /\ topic[p][i] = j
  BY DEF Calm, TypeOK, WorkerTypes, Holds, MessageOf
<1>2. topic[p] \in Seq(Jobs \union {Malformed})
  BY <1>1 DEF Calm, TypeOK, KafkaTypes
<1>3. i \in 1 .. Len(topic[p])
  BY <1>1, <1>2 DEF Calm, HeldInv, WellHeld
<1>4. PartitionOf[j] = p
  BY <1>1, <1>3 DEF Calm, RouteInv
<1> QED
  BY <1>1, <1>2, <1>3, <1>4 DEF requested, Published

\* Neither the consumers nor a repeated message nor one that is refused asks for
\* another job.
LEMMA RequestedStays ==
  ASSUME Calm, WorkerNext
  PROVE  requested' = requested
<1>1. ASSUME NEW p \in Partitions, NEW m, topic' = [topic EXCEPT ![p] = Append(@, m)],
             m \in Jobs => PartitionOf[m] = p /\ Published(m), m \in Jobs \union {Malformed}
      PROVE  requested' = requested
  <2>1. \A q \in Partitions : topic[q] \in Seq(Jobs \union {Malformed})
    BY DEF Calm, TypeOK, KafkaTypes
  <2>2. topic \in [Partitions -> Seq(Jobs \union {Malformed})]
    BY DEF Calm, TypeOK, KafkaTypes
  <2>3. /\ \A q \in Partitions \ {p} : topic'[q] = topic[q]
        /\ topic'[p] = Append(topic[p], m)
    BY <1>1, <2>2
  <2>4. /\ topic'[p] \in Seq(Jobs \union {Malformed})
        /\ Len(topic'[p]) = Len(topic[p]) + 1
        /\ \A i \in 1 .. Len(topic[p]) : topic'[p][i] = topic[p][i]
        /\ topic'[p][Len(topic[p]) + 1] = m
    BY <1>1, <2>1, <2>3
  <2>5. ASSUME NEW j \in Jobs PROVE Published(j)' <=> Published(j)
    <3>1. PartitionOf[j] \in Partitions
      BY PartitionsAssumption
    <3>2. CASE PartitionOf[j] # p
      BY <2>3, <3>1, <3>2 DEF Published
    <3>3. CASE PartitionOf[j] = p
      <4>1. DOMAIN topic[p] = 1 .. Len(topic[p]) /\ DOMAIN topic'[p] = 1 .. Len(topic[p]) + 1
            /\ Len(topic[p]) \in Nat
        BY <2>1, <2>4
      <4>2. Published(j) => Published(j)'
        BY <2>4, <3>3, <4>1 DEF Published
      <4>3. ASSUME Published(j)' PROVE Published(j)
        <5>1. PICK i \in 1 .. Len(topic[p]) + 1 : topic'[p][i] = j
          BY <3>3, <4>1, <4>3 DEF Published
        <5>2. CASE i = Len(topic[p]) + 1
          BY <1>1, <2>4, <5>1, <5>2
        <5>3. CASE i \in 1 .. Len(topic[p])
          BY <2>4, <3>3, <4>1, <5>1, <5>3 DEF Published
        <5> QED
          BY <4>1, <5>2, <5>3
      <4> QED
        BY <4>2, <4>3
    <3> QED
      BY <3>2, <3>3
  <2> QED
    BY <2>5 DEF requested
<1>2. ASSUME NEW j \in Jobs, Repeat(j) PROVE requested' = requested
  BY <1>1, <1>2, PartitionsAssumption DEF Repeat, Publish
<1>3. ASSUME NEW p \in Partitions, PublishMalformed(p) PROVE requested' = requested
  BY <1>1, <1>3, JobsAssumption DEF PublishMalformed
<1>4. CASE UNCHANGED topic
  BY <1>4 DEF requested, Published
<1> QED
  BY <1>2, <1>3, <1>4
  DEF WorkerNext, Crash, Step, Fetch, RejectMalformed, InsertJob, ResumeJob, FindDone,
      FindRunning, MarkRunning, Execute, HandleFailure, Persist, PublishResult, Commit,
      CallFails, AnswerLost, CommitFails, kafkaVars

\* The attempts that mock-svc could tell apart follow those in the table.
Capped(n) == IF n < MaxAttempts THEN n ELSE MaxAttempts

\* What is written to the table is what mock-svc could see of it.
LEMMA AttemptedStep ==
  ASSUME Calm, NEW j \in Jobs, NEW n, attempt' = [attempt EXCEPT ![j] = n]
  PROVE  attempted' = [attempted EXCEPT ![j] = Capped(n)]
BY DEF Calm, TypeOK, JobTypes, attempted, Capped

\* Every failure in the table is remembered.
FailuresKnown == \A j \in Jobs : status[j] = "FAILED" => j \in failedOnce

\* A step of the consumers leaves mock-svc's view alone or is one that JobLifecycle
\* takes with a job that was asked for.
LEMMA RunnerRefines ==
  ASSUME Calm, FailuresKnown, RunnerStep
  PROVE  [Client!Next]_(Client!vars)
<1> USE DEF Client!runnerVars, Client!history
<1>1. [Next]_vars
  BY DEF RunnerStep, WorkerNext, Repeat, Next
<1>2. [Lifecycle!Next]_(Lifecycle!vars)
  BY <1>1, LifecycleStep DEF Calm
<1>3. /\ requested' = requested
      /\ UNCHANGED clientVars
      /\ failedOnce' = failedOnce \union {j \in Jobs : status'[j] = "FAILED"}
  BY RequestedStays DEF RunnerStep
<1>4. ASSUME status' = status, attempted' = attempted, results' = results
      PROVE  UNCHANGED Client!vars
  <2>1. failedOnce' = failedOnce
    BY <1>3, <1>4 DEF FailuresKnown
  <2> QED
    BY <1>3, <1>4, <2>1 DEF Client!vars, clientVars
<1>5. CASE UNCHANGED Lifecycle!vars
  <2>1. attempted' = attempted
    BY <1>5 DEF Lifecycle!vars, attempted
  <2> QED
    BY <1>4, <1>5, <2>1 DEF Lifecycle!vars
<1>6. ASSUME NEW j \in Jobs,
             Lifecycle!Create(j) \/ Lifecycle!Start(j) \/ Lifecycle!Finish(j) \/ Lifecycle!Fail(j)
      PROVE  Client!RunnerStep(j)
  <2> USE DEF Lifecycle!Become, Client!Runner!Become
  <2>1. /\ status \in [Jobs -> Status] /\ attempt \in [Jobs -> Nat]
        /\ MaxAttempts \in Nat \ {0}
    BY AttemptsAssumption DEF Calm, TypeOK, JobTypes
  <2>2. status'[j] # status[j]
    BY <1>6, <2>1 DEF Lifecycle!Create, Lifecycle!Start, Lifecycle!Finish, Lifecycle!Fail
  <2>3. j \in requested
    BY <1>1, <2>2, RowChange, HeldRequested DEF Calm
  <2>4. attempted[j] = Capped(attempt[j])
    BY DEF attempted, Capped
  <2>5. CASE Lifecycle!Create(j)
    <3>1. attempted' = [attempted EXCEPT ![j] = Capped(0)]
      BY <2>5, AttemptedStep DEF Lifecycle!Create
    <3>2. Capped(0) = 0
      BY <2>1 DEF Capped
    <3>3. Client!Runner!Create(j)
      BY <2>5, <3>1, <3>2 DEF Lifecycle!Create, Client!Runner!Create
    <3> QED
      BY <1>3, <2>3, <3>3 DEF Client!RunnerStep, clientVars
  <2>6. CASE Lifecycle!Start(j)
    <3>1. attempted' = [attempted EXCEPT ![j] = Capped(attempt[j] + 1)]
      BY <2>6, AttemptedStep DEF Lifecycle!Start
    <3>2. attempted[j] = attempt[j] /\ Capped(attempt[j] + 1) = attempted[j] + 1
      BY <2>1, <2>4, <2>6 DEF Lifecycle!Start, Capped
    <3>3. Client!Runner!Start(j)
      BY <2>6, <3>1, <3>2 DEF Lifecycle!Start, Client!Runner!Start
    <3> QED
      BY <1>3, <2>3, <3>3 DEF Client!RunnerStep, clientVars
  <2>7. CASE Lifecycle!Finish(j)
    <3>1. attempted' = [attempted EXCEPT ![j] = attempted[j]]
      BY <2>4, <2>7, AttemptedStep DEF Lifecycle!Finish
    <3>2. Client!Runner!Finish(j)
      BY <2>7, <3>1 DEF Lifecycle!Finish, Client!Runner!Finish
    <3> QED
      BY <1>3, <2>3, <3>2 DEF Client!RunnerStep, clientVars
  <2>8. CASE Lifecycle!Fail(j)
    <3>1. attempted' = [attempted EXCEPT ![j] = attempted[j]]
      BY <2>4, <2>8, AttemptedStep DEF Lifecycle!Fail
    <3>2. Client!Runner!Fail(j)
      BY <2>8, <3>1 DEF Lifecycle!Fail, Client!Runner!Fail
    <3> QED
      BY <1>3, <2>3, <3>2 DEF Client!RunnerStep, clientVars
  <2> QED
    BY <1>6, <2>5, <2>6, <2>7, <2>8
<1>7. ASSUME NEW j \in Jobs, Lifecycle!Refuse(j) PROVE UNCHANGED Client!vars
  <2>1. status' = status /\ results' = results
    BY <1>7 DEF Lifecycle!Refuse, Lifecycle!Become, Calm, TypeOK, JobTypes
  <2>2. attempted' = [attempted EXCEPT ![j] = Capped(attempt[j] + 1)]
    BY <1>7, AttemptedStep DEF Lifecycle!Refuse, Lifecycle!Become
  <2>3. Capped(attempt[j] + 1) = attempted[j]
    BY <1>7, AttemptsAssumption
    DEF Lifecycle!Refuse, Capped, attempted, Calm, TypeOK, JobTypes
  <2>4. attempted' = attempted
    BY <2>2, <2>3 DEF attempted
  <2> QED
    BY <1>4, <2>1, <2>4
<1> QED
  BY <1>2, <1>5, <1>6, <1>7 DEF Lifecycle!Next, Client!Next

\* A step of the system is a step of mock-svc over the promise, or one that it does
\* not notice.
LEMMA SystemRefines ==
  ASSUME Calm, FailuresKnown, [SystemNext]_allVars
  PROVE  [Client!Next]_(Client!vars)
<1>1. ASSUME NEW g \in Generations, ClientStep(g) PROVE Client!Next
  BY <1>1 DEF ClientStep, Client!Next, Client!Run
<1>2. ASSUME NEW g \in Generations, Ask(g) PROVE Client!Next
  BY <1>2 DEF Ask, Client!Next, Client!Run
<1>3. CASE ClientCrash
  BY <1>3 DEF ClientCrash, Client!Next
<1>4. CASE RunnerStep
  BY <1>4, RunnerRefines
<1>5. CASE UNCHANGED allVars
  BY <1>5
  DEF allVars, clientVars, vars, jobVars, kafkaVars, Client!vars, Client!runnerVars,
      Client!history, attempted, requested, Published
<1> QED
  BY <1>1, <1>2, <1>3, <1>4, <1>5 DEF SystemNext

\* No step forgets or misses a failure.
LEMMA FailuresStep ==
  ASSUME FailuresKnown, [SystemNext]_allVars
  PROVE  FailuresKnown'
<1> USE DEF FailuresKnown
<1>1. ASSUME NEW g \in Generations, ClientStep(g) \/ Ask(g) PROVE FailuresKnown'
  <2>1. status' = status
    BY <1>1 DEF ClientStep, Ask, Publish, vars, jobVars
  <2>2. failedOnce' = failedOnce
    BY <1>1
    DEF ClientStep, Ask, Client!Start, Client!MarkRunning, Client!Publish, Client!Poll,
        Client!ReadStatus, Client!Wait, Client!Expire, Client!Apply, Client!Fail,
        Client!history
  <2> QED
    BY <2>1, <2>2
<1>2. CASE ClientCrash
  BY <1>2 DEF ClientCrash, Client!Crash, Client!history, vars, jobVars
<1>3. CASE RunnerStep
  BY <1>3 DEF RunnerStep
<1>4. CASE UNCHANGED allVars
  BY <1>4 DEF allVars, vars, jobVars
<1> QED
  BY <1>1, <1>2, <1>3, <1>4 DEF SystemNext

\* mock-svc over the consumers, the topic and the tables behaves as mock-svc over the
\* promise: the runs and theorems about Generation speak of the real runner.
THEOREM SystemRefinement == SystemSpec => ImplementsGeneration
<1>1. SystemInit => Client!Init /\ FailuresKnown
  BY DEF SystemInit, Init, FailuresKnown
<1>2. Calm /\ FailuresKnown /\ [SystemNext]_allVars
        => FailuresKnown' /\ [Client!Next]_(Client!vars)
  BY SystemRefines, FailuresStep
<1> QED
  BY <1>1, <1>2, CalmCorrect, PTL DEF SystemSpec, ImplementsGeneration, Client!Spec

------------------------------------------------------------------------------
(***************************************************************************)
(* What follows for the mocks of the system.                               *)
(***************************************************************************)
\* The theorems about Generation, for the Client of the system.
ClientProofs == INSTANCE GenerationProofs WITH
  attempt <- attempted, MaxRefusals <- 0,
  faults <- clientFaults, MaxFaults <- MaxClientFaults,
  crashes <- clientCrashes, MaxCrashes <- MaxClientCrashes

\* It is the same specification.
LEMMA SameClient == Client!Spec <=> ClientProofs!Spec
BY DEF Client!Spec, Client!Init, Client!Next, Client!vars, Client!runnerVars, Client!history,
       Client!Start, Client!Run, Client!MarkRunning, Client!Publish, Client!Poll,
       Client!ReadStatus, Client!Wait, Client!Expire, Client!Apply, Client!Fail, Client!Crash,
       Client!RunnerStep, Client!Goto, Client!SetStatus, Client!Fault, Client!NoFault,
       Client!Polling, Client!Runner!Init, Client!Runner!Create, Client!Runner!Start,
       Client!Runner!Finish, Client!Runner!Fail, Client!Runner!Refuse, Client!Runner!Become,
       ClientProofs!Spec, ClientProofs!Init, ClientProofs!Next, ClientProofs!vars,
       ClientProofs!runnerVars, ClientProofs!history, ClientProofs!Start, ClientProofs!Run,
       ClientProofs!MarkRunning, ClientProofs!Publish, ClientProofs!Poll,
       ClientProofs!ReadStatus, ClientProofs!Wait, ClientProofs!Expire, ClientProofs!Apply,
       ClientProofs!Fail, ClientProofs!Crash, ClientProofs!RunnerStep, ClientProofs!Goto,
       ClientProofs!SetStatus, ClientProofs!Fault, ClientProofs!NoFault,
       ClientProofs!Polling, ClientProofs!Runner!Init, ClientProofs!Runner!Create,
       ClientProofs!Runner!Start, ClientProofs!Runner!Finish, ClientProofs!Runner!Fail,
       ClientProofs!Runner!Refuse, ClientProofs!Runner!Become

\* What the theorems about Generation assume is assumed here.
LEMMA ClientAssumptions ==
  /\ JobOf \in [Generations -> Jobs]
  /\ InvalidJobs \subseteq Jobs
  /\ MaxAttempts \in Nat \ {0}
  /\ 0 \in Nat
  /\ MaxClientFaults \in Nat
  /\ MaxClientCrashes \in Nat
BY ClientAssumption, AttemptsAssumption

\* In the system as a whole, mocks are stored exactly for the generations that are
\* DONE, but for those whose transaction was committed without an answer.
THEOREM SystemAllOrNothing == SystemSpec => []Client!AllOrNothing
<1>1. ClientProofs!Spec => []ClientProofs!AllOrNothing
  BY ClientProofs!AllOrNothingAlways, ClientAssumptions
<1>2. ClientProofs!AllOrNothing <=> Client!AllOrNothing
  BY DEF ClientProofs!AllOrNothing, Client!AllOrNothing
<1> QED
  BY <1>1, <1>2, SystemRefinement, SameClient, PTL DEF ImplementsGeneration

\* Every mock that mock-svc derives comes from a script that a consumer has run, and
\* that was run at most MaxAttempts times: through all repeated requests,
\* redeliveries, lost answers and crashes of the two services.
DerivedFromExecution == \A g \in derived : executions[JobOf[g]] \in 1 .. MaxAttempts

\* mock-svc sees the result of a DONE job, and the consumers store one only after
\* they have executed it.
THEOREM DerivedFromExecutionAlways == SystemSpec => []DerivedFromExecution
<1>1. ClientProofs!Spec => []ClientProofs!DerivedFromDoneJob
  BY ClientProofs!DerivedFromDoneJobAlways, ClientAssumptions
<1>2. ASSUME Calm, ExecutedInv, ExecutionsBounded, ClientProofs!DerivedFromDoneJob
      PROVE  DerivedFromExecution
  <2>1. ASSUME NEW g \in derived PROVE executions[JobOf[g]] \in 1 .. MaxAttempts
    <3> DEFINE j == JobOf[g]
    <3>1. j \in results /\ j \in Jobs
      BY <1>2, <2>1 DEF ClientProofs!DerivedFromDoneJob, Calm, TypeOK, JobTypes
    <3>2. executions[j] \in Nat /\ executions[j] # 0 /\ executions[j] <= MaxAttempts
      BY <1>2, <3>1 DEF Calm, TypeOK, CounterTypes, ExecutedInv, ExecutionsBounded
    <3> QED
      BY <3>2, AttemptsAssumption
  <2> QED
    BY <2>1 DEF DerivedFromExecution
<1> QED
  BY <1>1, <1>2, SystemRefinement, SameClient, CalmCorrect, ImplementsJobWorker,
     ExecutedCorrect, ExecutionsBoundedAlways, PTL
  DEF ImplementsGeneration

\* A generation that fails without a failed call or a passed deadline has an invalid
\* result, or its job was FAILED in the consumers' table at some time and not DONE
\* when the generation was started.
THEOREM SystemFailureHasCause == SystemSpec => []Client!FailureHasCause
<1>1. ClientProofs!Spec => []ClientProofs!FailureHasCause
  BY ClientProofs!FailureHasCauseAlways, ClientAssumptions
<1>2. ClientProofs!FailureHasCause <=> Client!FailureHasCause
  BY DEF ClientProofs!FailureHasCause, Client!FailureHasCause, ClientProofs!HasCause,
         Client!HasCause
<1> QED
  BY <1>1, <1>2, SystemRefinement, SameClient, PTL DEF ImplementsGeneration

==============================================================================
