------------------------------ MODULE Pipeline -------------------------------
(***************************************************************************)
(* mock-svc and dsl-runner-svc together: the goroutines of Generation ask  *)
(* for jobs on the topic that the consumers of JobWorker read, and poll    *)
(* the tables that the consumers write.                                    *)
(*                                                                         *)
(* The state is that of JobWorker with what mock-svc keeps; Client is      *)
(* Generation, whose runner is seen through the tables.  A step is one of  *)
(* a single service, but for the publication of a job, which both see.     *)
(***************************************************************************)
EXTENDS JobWorker

CONSTANTS
  Generations, JobOf, InvalidJobs,    \* see Generation
  MaxClientFaults,    \* bound: calls of mock-svc that return an error
  MaxClientCrashes    \* bound: crashes and shutdowns of mock-svc

ASSUME ClientAssumption == /\ JobOf \in [Generations -> Jobs]
                           /\ InvalidJobs \subseteq Jobs
                           /\ MaxClientFaults \in Nat
                           /\ MaxClientCrashes \in Nat

VARIABLES
  gen, step, derived,              \* see Generation
  clientFaults, clientCrashes,     \* faults and crashes of mock-svc
  expired, unanswered, ready,      \* history, see Generation
  failedOnce                       \* history: jobs that have been FAILED

clientVars == <<gen, step, derived, clientFaults, clientCrashes, expired,
                unanswered, ready>>
allVars == <<vars, clientVars, failedOnce>>

------------------------------------------------------------------------------
\* The jobs with a message, and the attempts as far as mock-svc could tell them
\* apart: a job that is refused again and again stays FAILED.
requested == {j \in Jobs : Published(j)}
attempted == [j \in Jobs |-> IF attempt[j] < MaxAttempts THEN attempt[j] ELSE MaxAttempts]

Client == INSTANCE Generation WITH
  attempt <- attempted, MaxRefusals <- 0,
  faults <- clientFaults, MaxFaults <- MaxClientFaults,
  crashes <- clientCrashes, MaxCrashes <- MaxClientCrashes

SystemInit == Init /\ Client!Init

------------------------------------------------------------------------------
\* A step of a goroutine, or of StartGeneration, that dsl-runner-svc cannot see.
ClientStep(g) ==
  /\ UNCHANGED vars
  /\ \/ Client!Start(g) \/ Client!MarkRunning(g) \/ Client!Poll(g) \/ Client!ReadStatus(g)
     \/ Client!Wait(g) \/ Client!Expire(g) \/ Client!Apply(g) \/ Client!Fail(g)

\* DSLRunnerClient.run publishes the job: whatever the writer answers, the message is
\* on the topic or it is not.
Ask(g) ==
  /\ Publish(JobOf[g]) \/ UNCHANGED vars
  /\ Client!Publish(g)

ClientCrash == UNCHANGED vars /\ Client!Crash

\* The writer sends a message again after an error of the connection.
Repeat(j) == Published(j) /\ Publish(j)

\* Everything in JobWorker that is not asked for by a goroutine, but for Rebalance.
WorkerNext ==
  \/ \E j \in Jobs : Repeat(j)
  \/ \E p \in Partitions : PublishMalformed(p)
  \/ Crash
  \/ \E w \in Workers : Step(w)
  \/ \E w \in Workers, label \in PC : CallFails(w, label)
  \/ \E w \in Workers : AnswerLost(w) \/ CommitFails(w)

RunnerStep ==
  /\ WorkerNext
  /\ failedOnce' = failedOnce \union {j \in Jobs : status'[j] = "FAILED"}
  /\ UNCHANGED clientVars

SystemNext ==
  \/ \E g \in Generations : ClientStep(g) \/ Ask(g)
  \/ ClientCrash
  \/ RunnerStep

SystemSpec == SystemInit /\ [][SystemNext]_allVars

------------------------------------------------------------------------------
(***************************************************************************)
(* Properties.                                                             *)
(***************************************************************************)
\* While the group's assignment does not change, mock-svc over the consumers, the
\* topic and the tables behaves as mock-svc over the promise of dsl-runner-svc: no
\* crash, redelivery or lost answer on the other side shows it anything else.
ImplementsGeneration == Client!Spec

==============================================================================
