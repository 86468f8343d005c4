------------------------------ MODULE JobWorker ------------------------------
(***************************************************************************)
(* The job pipeline of dsl-runner-svc.  mock-svc publishes jobs, keyed by  *)
(* job key, on a Kafka topic; the consumers of one consumer group          *)
(* (internal/kafka/consumer.go, started by cmd/dsl-runner-svc/main.go)     *)
(* fetch them and run JobHandler.Process (internal/application/worker.go)  *)
(* against the tables dsl_jobs and dsl_job_results, then publish a result  *)
(* message and commit the offset.                                          *)
(*                                                                         *)
(* Every call to the database or to Kafka is a step of its own, because    *)
(* another consumer, a rebalance or a crash may come between two of them.  *)
(* What is computed between two calls (decoding, hashing, the switch on    *)
(* the status) belongs to the step that precedes it.                       *)
(*                                                                         *)
(* A job key determines the job id (deterministicUUID in mock-svc), so     *)
(* both are the job here.  Columns that no decision reads (mode, hashes,   *)
(* timestamps, error text) are left out.                                   *)
(***************************************************************************)
EXTENDS Integers, Sequences, FiniteSets

CONSTANTS
  Jobs,           \* job keys
  Workers,        \* consumer goroutines of the group
  Partitions,     \* partitions of the jobs topic
  PartitionOf,    \* the Kafka hash balancer: the partition of each key
  Malformed,      \* a message that Process refuses before touching the database
  MaxAttempts,    \* Service.MaxAttempts (worker_max_attempts)
  MaxMessages,    \* bound: messages ever published on a partition
  MaxCrashes,     \* bound: crashes (and shutdowns) of the process
  MaxFaults,      \* bound: database and Kafka calls that return an error
  MaxRebalances   \* bound: rebalances of the consumer group

ASSUME JobsAssumption == Malformed \notin Jobs
ASSUME WorkersAssumption == Workers # {}
ASSUME PartitionsAssumption == /\ Partitions # {}
                               /\ PartitionOf \in [Jobs -> Partitions]
ASSUME AttemptsAssumption == MaxAttempts \in Nat \ {0}
ASSUME BoundsAssumption == /\ MaxMessages \in Nat
                           /\ MaxCrashes \in Nat
                           /\ MaxFaults \in Nat
                           /\ MaxRebalances \in Nat

VARIABLES
  topic,       \* the jobs topic: per partition, the keys in the order published
  committed,   \* offset of the last message committed by the group
  position,    \* offset of the last message handed to the partition's owner
  owner,       \* the consumer each partition is assigned to
  pc,          \* where each consumer is in Consumer.Run / JobHandler.Process
  held,        \* the message each consumer works on: partition and offset
  try,         \* the local variable attempt of Process
  status,      \* dsl_jobs.status; ABSENT when there is no row
  attempt,     \* dsl_jobs.attempt
  results,     \* the jobs with a row in dsl_job_results
  announced,   \* the messages sent to the results topic; the writer waits for
               \* no acknowledgement, and nobody reads them
  faults,      \* calls that have failed so far
  crashes,     \* crashes so far
  rebalances,  \* rebalances so far
  executions,  \* history: calls of Executor.Run per job
  contended    \* history: jobs that two consumers have held at once

kafkaVars == <<topic, committed, position, owner>>
workerVars == <<pc, held, try>>
jobVars == <<status, attempt, results>>
auxVars == <<executions, contended>>
vars == <<kafkaVars, workerVars, jobVars, announced, faults, crashes,
          rebalances, auxVars>>

------------------------------------------------------------------------------
Status == {"ABSENT", "QUEUED", "RUNNING", "DONE", "FAILED"}
PC == {"idle", "create", "start", "execute", "fail", "persist", "publish", "commit"}

\* domain.ResultMessage: "counted" tells whether generatedCount and resultBytes
\* were filled in from the stored result.
ResultMessage == [job : Jobs, status : {"DONE", "FAILED"}, counted : BOOLEAN]

\* What an idle consumer holds: offsets count from 1.
Nothing == [part |-> CHOOSE p \in Partitions : TRUE, off |-> 0]

MessageOf(w) == topic[held[w].part][held[w].off]
Holds(w, j) == held[w].off # 0 /\ MessageOf(w) = j
Terminal(j) == status[j] \in {"DONE", "FAILED"}
Published(j) == \E i \in DOMAIN topic[PartitionOf[j]] : topic[PartitionOf[j]][i] = j

\* All consumers start and the group assigns the partitions in some way.
Init ==
  /\ topic = [p \in Partitions |-> <<>>]
  /\ committed = [p \in Partitions |-> 0]
  /\ position = [p \in Partitions |-> 0]
  /\ owner \in [Partitions -> Workers]
  /\ pc = [w \in Workers |-> "idle"]
  /\ held = [w \in Workers |-> Nothing]
  /\ try = [w \in Workers |-> 0]
  /\ status = [j \in Jobs |-> "ABSENT"]
  /\ attempt = [j \in Jobs |-> 0]
  /\ results = {}
  /\ announced = {}
  /\ faults = 0
  /\ crashes = 0
  /\ rebalances = 0
  /\ executions = [j \in Jobs |-> 0]
  /\ contended = {}

------------------------------------------------------------------------------
(***************************************************************************)
(* Building blocks of the consumers' steps.                                *)
(***************************************************************************)
Goto(w, label) == pc' = [pc EXCEPT ![w] = label]

\* The end of an iteration of the consumer's loop: everything local is dropped.
GoIdle(w) ==
  /\ Goto(w, "idle")
  /\ held' = [held EXCEPT ![w] = Nothing]
  /\ try' = [try EXCEPT ![w] = 0]

\* A call of consumer w that returns an error and changes nothing.
Fault ==
  /\ faults < MaxFaults
  /\ faults' = faults + 1

\* JobRepository.UpdateStatus: an unconditional overwrite of the row.
UpdateStatus(j, s, n) ==
  /\ status' = [status EXCEPT ![j] = s]
  /\ attempt' = [attempt EXCEPT ![j] = n]

\* Variant of Proceed: the check comes before the increment.
ProceedOnceMore(w, n) ==
  /\ try' = [try EXCEPT ![w] = n + 1]
  /\ Goto(w, IF n > MaxAttempts THEN "fail" ELSE "start")

\* Process after CreateIfAbsent with a row to work on: one attempt more than
\* the row counts, and a failure at once when that is more than MaxAttempts.
Proceed(w, n) ==
  /\ try' = [try EXCEPT ![w] = n + 1]
  /\ Goto(w, IF n + 1 > MaxAttempts THEN "fail" ELSE "start")

------------------------------------------------------------------------------
(***************************************************************************)
(* Variants of the actions below, each with one plausible mistake: a       *)
(* property is worth stating when one of these breaks it.  Next uses none. *)
(***************************************************************************)
\* Fetch that commits what it fetches (ReadMessage for FetchMessage).
FetchAndCommit(w, p) ==
  /\ pc[w] = "idle"
  /\ owner[p] = w
  /\ position[p] < Len(topic[p])
  /\ position' = [position EXCEPT ![p] = @ + 1]
  /\ committed' = [committed EXCEPT ![p] = position[p] + 1]
  /\ held' = [held EXCEPT ![w] = [part |-> p, off |-> position[p] + 1]]
  /\ Goto(w, "create")
  /\ UNCHANGED <<topic, owner, try, jobVars, announced, faults, crashes,
                 rebalances, auxVars>>

\* RejectMalformed that publishes a result for the message it refuses.
RejectAndPublish(w) ==
  /\ pc[w] = "create"
  /\ MessageOf(w) = Malformed
  /\ Goto(w, "publish")
  /\ UNCHANGED <<kafkaVars, held, try, jobVars, announced, faults, crashes,
                 rebalances, auxVars>>

\* ResumeJob that takes a QUEUED row for a job another consumer has in hand.
ResumeFailedOnly(w) ==
  \E j \in Jobs :
    /\ pc[w] = "create"
    /\ MessageOf(w) = j
    /\ \/ status[j] = "FAILED" /\ Proceed(w, attempt[j])
       \/ status[j] = "QUEUED" /\ Goto(w, "commit") /\ UNCHANGED try
    /\ UNCHANGED <<kafkaVars, held, jobVars, announced, faults, crashes,
                   rebalances, auxVars>>

\* FindDone without publishing the result again.
FindDoneAndCommit(w) ==
  \E j \in Jobs :
    /\ pc[w] = "create"
    /\ MessageOf(w) = j
    /\ status[j] = "DONE"
    /\ Goto(w, "commit")
    /\ UNCHANGED <<kafkaVars, held, try, jobVars, announced, faults, crashes,
                   rebalances, auxVars>>

\* FindDone that executes the job again.
FindDoneAndRetry(w) ==
  \E j \in Jobs :
    /\ pc[w] = "create"
    /\ MessageOf(w) = j
    /\ status[j] = "DONE"
    /\ Proceed(w, attempt[j])
    /\ UNCHANGED <<kafkaVars, held, jobVars, announced, faults, crashes,
                   rebalances, auxVars>>

\* FindRunning that takes the row for one left behind by a crash.
FindRunningAndRetry(w) ==
  \E j \in Jobs :
    /\ pc[w] = "create"
    /\ MessageOf(w) = j
    /\ status[j] = "RUNNING"
    /\ Proceed(w, attempt[j])
    /\ UNCHANGED <<kafkaVars, held, jobVars, announced, faults, crashes,
                   rebalances, auxVars>>

\* HandleFailure that forgets the attempts.
HandleFailureAfresh(w) ==
  /\ pc[w] = "fail"
  /\ UpdateStatus(MessageOf(w), "FAILED", 0)
  /\ Goto(w, "commit")
  /\ UNCHANGED <<kafkaVars, held, try, results, announced, faults, crashes,
                 rebalances, auxVars>>

\* Persist whose transaction leaves the result out.
PersistStatusOnly(w) ==
  /\ pc[w] = "persist"
  /\ UpdateStatus(MessageOf(w), "DONE", try[w])
  /\ Goto(w, "publish")
  /\ UNCHANGED <<kafkaVars, held, try, results, announced, faults, crashes,
                 rebalances, auxVars>>

\* Crash whose old process goes on for a while beside the new one.
CrashAndContinue ==
  /\ crashes < MaxCrashes
  /\ crashes' = crashes + 1
  /\ position' = committed
  /\ owner' \in [Partitions -> Workers]
  /\ UNCHANGED <<topic, committed, workerVars, jobVars, announced, faults,
                 rebalances, auxVars>>

------------------------------------------------------------------------------
(***************************************************************************)
(* The producer and the broker.                                            *)
(***************************************************************************)
\* DSLRunnerClient.run publishes a job under its key; asking for the same
\* script, base mock and parameters again publishes the same job again.  A
\* message that does not get to the topic is no step here.
Publish(j) ==
  LET p == PartitionOf[j]
  IN  /\ Len(topic[p]) < MaxMessages
      /\ topic' = [topic EXCEPT ![p] = Append(@, j)]
      /\ UNCHANGED <<committed, position, owner, workerVars, jobVars, announced,
                     faults, crashes, rebalances, auxVars>>

\* A message that cannot be decoded or that validateJobMessage refuses.
PublishMalformed(p) ==
  /\ Len(topic[p]) < MaxMessages
  /\ topic' = [topic EXCEPT ![p] = Append(@, Malformed)]
  /\ UNCHANGED <<committed, position, owner, workerVars, jobVars, announced,
                 faults, crashes, rebalances, auxVars>>

\* The group rebalances: the partitions are assigned anew and every consumer
\* reads on from the committed offsets.  No consumer is stopped by it: one that
\* is in the middle of Process finishes with the message it holds.
Rebalance ==
  /\ rebalances < MaxRebalances
  /\ rebalances' = rebalances + 1
  /\ owner' \in [Partitions -> Workers]
  /\ position' = committed
  /\ UNCHANGED <<topic, committed, workerVars, jobVars, announced, faults,
                 crashes, auxVars>>

\* The process dies or is shut down (the cancelled context makes every pending
\* call fail) and is started again: all goroutines lose their place, and the
\* new ones read on from the committed offsets.
Crash ==
  /\ crashes < MaxCrashes
  /\ crashes' = crashes + 1
  /\ pc' = [w \in Workers |-> "idle"]
  /\ held' = [w \in Workers |-> Nothing]
  /\ try' = [w \in Workers |-> 0]
  /\ position' = committed
  /\ owner' \in [Partitions -> Workers]
  /\ UNCHANGED <<topic, committed, jobVars, announced, faults, rebalances, auxVars>>

------------------------------------------------------------------------------
(***************************************************************************)
(* The consumer: Consumer.Run fetches, handleMessage calls Process.        *)
(***************************************************************************)
\* Consumer.Run: FetchMessage hands the owner of a partition the next message
\* and does not wait for the one before it to be committed.
Fetch(w, p) ==
  /\ pc[w] = "idle"
  /\ owner[p] = w
  /\ position[p] < Len(topic[p])
  /\ position' = [position EXCEPT ![p] = @ + 1]
  /\ held' = [held EXCEPT ![w] = [part |-> p, off |-> position[p] + 1]]
  /\ contended' = contended \union
       {j \in Jobs : /\ topic[p][position[p] + 1] = j
                     /\ \E v \in Workers \ {w} : Holds(v, j)}
  /\ Goto(w, "create")
  /\ UNCHANGED <<topic, committed, owner, try, jobVars, announced, faults, crashes,
                 rebalances, executions>>

\* handleMessage or validateJobMessage refuses the message; the error is not
\* transient, so the offset is committed.
RejectMalformed(w) ==
  /\ pc[w] = "create"
  /\ MessageOf(w) = Malformed
  /\ Goto(w, "commit")
  /\ UNCHANGED <<kafkaVars, held, try, jobVars, announced, faults, crashes,
                 rebalances, auxVars>>

\* CreateIfAbsent inserts the row.
InsertJob(w) ==
  \E j \in Jobs :
    /\ pc[w] = "create"
    /\ MessageOf(w) = j
    /\ status[j] = "ABSENT"
    /\ UpdateStatus(j, "QUEUED", 0)
    /\ Proceed(w, 0)
    /\ UNCHANGED <<kafkaVars, held, results, announced, faults, crashes,
                   rebalances, auxVars>>

\* CreateIfAbsent finds a row that is QUEUED (its insert was not followed by an
\* attempt) or FAILED (the job is asked for again): Process tries it again.
ResumeJob(w) ==
  \E j \in Jobs :
    /\ pc[w] = "create"
    /\ MessageOf(w) = j
    /\ status[j] \in {"QUEUED", "FAILED"}
    /\ Proceed(w, attempt[j])
    /\ UNCHANGED <<kafkaVars, held, jobVars, announced, faults, crashes,
                   rebalances, auxVars>>

\* CreateIfAbsent finds a finished job: Process publishes its result again.
FindDone(w) ==
  \E j \in Jobs :
    /\ pc[w] = "create"
    /\ MessageOf(w) = j
    /\ status[j] = "DONE"
    /\ Goto(w, "publish")
    /\ UNCHANGED <<kafkaVars, held, try, jobVars, announced, faults, crashes,
                   rebalances, auxVars>>

\* CreateIfAbsent finds a running job: Process returns a transient error, and
\* Consumer.Run goes on to the next message without committing this one.
FindRunning(w) ==
  \E j \in Jobs :
    /\ pc[w] = "create"
    /\ MessageOf(w) = j
    /\ status[j] = "RUNNING"
    /\ GoIdle(w)
    /\ UNCHANGED <<kafkaVars, jobVars, announced, faults, crashes, rebalances,
                   auxVars>>

\* UpdateStatus to RUNNING with the attempt computed when the row was read.
MarkRunning(w) ==
  /\ pc[w] = "start"
  /\ UpdateStatus(MessageOf(w), "RUNNING", try[w])
  /\ Goto(w, "execute")
  /\ UNCHANGED <<kafkaVars, held, try, results, announced, faults, crashes,
                 rebalances, auxVars>>

\* Executor.Run returns: with the generated mocks, or with an error (the script,
\* its limits, its time); a result that cannot be marshalled ends the same way.
Execute(w) ==
  /\ pc[w] = "execute"
  /\ executions' = [executions EXCEPT ![MessageOf(w)] = @ + 1]
  /\ \/ Goto(w, "persist")
     \/ Goto(w, "fail")
  /\ UNCHANGED <<kafkaVars, held, try, jobVars, announced, faults, crashes,
                 rebalances, contended>>

\* handleFailure: UpdateStatus to FAILED, whatever the row says.  Process then
\* returns nil or an error that is not transient, so the offset is committed.
HandleFailure(w) ==
  /\ pc[w] = "fail"
  /\ UpdateStatus(MessageOf(w), "FAILED", try[w])
  /\ Goto(w, "commit")
  /\ UNCHANGED <<kafkaVars, held, try, results, announced, faults, crashes,
                 rebalances, auxVars>>

\* The transaction that stores the result and marks the job DONE.
Persist(w) ==
  /\ pc[w] = "persist"
  /\ results' = results \union {MessageOf(w)}
  /\ UpdateStatus(MessageOf(w), "DONE", try[w])
  /\ Goto(w, "publish")
  /\ UNCHANGED <<kafkaVars, held, try, announced, faults, crashes, rebalances,
                 auxVars>>

\* publishResult, always called for a job that is DONE.  It reads the stored
\* result for its counts and goes on without them when that read fails.
PublishResult(w) ==
  /\ pc[w] = "publish"
  /\ \E counted \in BOOLEAN :
       /\ announced' = announced \union
            {[job |-> MessageOf(w), status |-> "DONE", counted |-> counted]}
       /\ \/ (counted <=> MessageOf(w) \in results) /\ UNCHANGED faults
          \/ ~counted /\ Fault
  /\ Goto(w, "commit")
  /\ UNCHANGED <<kafkaVars, held, try, jobVars, crashes, rebalances, auxVars>>

\* A call of Process fails without effect.  CreateIfAbsent, UpdateStatus to
\* RUNNING, the transaction and Publish make Process return the error, which is
\* not transient; handleFailure drops the error of its update.  In every case
\* the job is left as it is and the offset is committed.
CallFails(w, label) ==
  /\ label \in {"create", "start", "fail", "persist", "publish"}
  /\ pc[w] = label
  /\ MessageOf(w) \in Jobs
  /\ Fault
  /\ Goto(w, "commit")
  /\ UNCHANGED <<kafkaVars, held, try, jobVars, announced, crashes, rebalances,
                 auxVars>>

\* A call of Process takes effect but its answer is lost, so that Process returns
\* the error of a call that succeeded.  (For publishResult, handleFailure and
\* the commit the consumer goes on in the same way as if the answer had come.)
AnswerLost(w) ==
  \E j \in Jobs :
    /\ pc[w] \in {"create", "start", "persist"}
    /\ MessageOf(w) = j
    /\ \/ /\ pc[w] = "create"
          /\ status[j] = "ABSENT"
          /\ UpdateStatus(j, "QUEUED", 0)
          /\ UNCHANGED results
       \/ /\ pc[w] = "start"
          /\ UpdateStatus(j, "RUNNING", try[w])
          /\ UNCHANGED results
       \/ /\ pc[w] = "persist"
          /\ UpdateStatus(j, "DONE", try[w])
          /\ results' = results \union {j}
    /\ Fault
    /\ Goto(w, "commit")
    /\ UNCHANGED <<kafkaVars, held, try, announced, crashes, rebalances, auxVars>>

\* CommitMessages: the group's offset becomes this message's, also when the
\* offset committed before was another one.
Commit(w) ==
  /\ pc[w] = "commit"
  /\ committed' = [committed EXCEPT ![held[w].part] = held[w].off]
  /\ GoIdle(w)
  /\ UNCHANGED <<topic, position, owner, jobVars, announced, faults, crashes,
                 rebalances, auxVars>>

\* The commit fails; Consumer.Run logs the error and fetches the next message.
CommitFails(w) ==
  /\ pc[w] = "commit"
  /\ Fault
  /\ GoIdle(w)
  /\ UNCHANGED <<kafkaVars, jobVars, announced, crashes, rebalances, auxVars>>

------------------------------------------------------------------------------
\* What a consumer does when no call fails.
Step(w) ==
  \/ \E p \in Partitions : Fetch(w, p)
  \/ RejectMalformed(w)
  \/ InsertJob(w)
  \/ ResumeJob(w)
  \/ FindDone(w)
  \/ FindRunning(w)
  \/ MarkRunning(w)
  \/ Execute(w)
  \/ HandleFailure(w)
  \/ Persist(w)
  \/ PublishResult(w)
  \/ Commit(w)

Next ==
  \/ \E j \in Jobs : Publish(j)
  \/ \E p \in Partitions : PublishMalformed(p)
  \/ Rebalance
  \/ Crash
  \/ \E w \in Workers : Step(w)
  \/ \E w \in Workers, label \in PC : CallFails(w, label)
  \/ \E w \in Workers : AnswerLost(w) \/ CommitFails(w)

Spec == Init /\ [][Next]_vars

\* A consumer goroutine that can take a step takes one: nothing in its loop
\* waits for another consumer, and the Go scheduler runs every goroutine.
\* Crashes, rebalances, failures and the producer owe nothing.
FairSpec == Spec /\ \A w \in Workers : WF_vars(Step(w))

------------------------------------------------------------------------------
\* The types of the variables; attempts and executions have no bound here.
KafkaTypes ==
  /\ topic \in [Partitions -> Seq(Jobs \union {Malformed})]
  /\ committed \in [Partitions -> Nat]
  /\ position \in [Partitions -> Nat]
  /\ owner \in [Partitions -> Workers]

WorkerTypes ==
  /\ pc \in [Workers -> PC]
  /\ held \in [Workers -> [part : Partitions, off : Nat]]
  /\ try \in [Workers -> Nat]

JobTypes ==
  /\ status \in [Jobs -> Status]
  /\ attempt \in [Jobs -> Nat]
  /\ results \in SUBSET Jobs

CounterTypes ==
  /\ announced \in SUBSET ResultMessage
  /\ faults \in 0..MaxFaults
  /\ crashes \in 0..MaxCrashes
  /\ rebalances \in 0..MaxRebalances
  /\ executions \in [Jobs -> Nat]
  /\ contended \in SUBSET Jobs

TypeOK == KafkaTypes /\ WorkerTypes /\ JobTypes /\ CounterTypes

------------------------------------------------------------------------------
(***************************************************************************)
(* Properties.                                                             *)
(***************************************************************************)
Announced(j) == \E m \in announced : m.job = j

\* Consumer w has read the row of j, or decided on it, and will write it.
Working(w, j) == Holds(w, j) /\ pc[w] \in {"start", "execute", "fail", "persist"}

\* A job left RUNNING by a crash or a failed call: no consumer works on it.
Orphaned(j) == status[j] = "RUNNING" /\ \A w \in Workers : ~Working(w, j)

\* Two consumers hold the same job at once only after the group has
\* rebalanced: jobs are hashed to partitions by key (kafka.Hash in mock-svc's
\* publisher), a partition has one owner, and a crash ends every consumer.
ContentionNeedsRebalance == contended # {} => rebalances > 0

\* A job that two consumers never held at once stays DONE: neither a repeated
\* request, a redelivery, a late handleFailure nor a restart reopens it.
\* (UpdateStatus itself overwrites any row.)
DoneIsFinal ==
  [][\A j \in Jobs \ contended : status[j] = "DONE" => status'[j] = "DONE"]_vars

\* A job that two consumers never held at once is executed at most MaxAttempts
\* times, however often it is asked for, redelivered after a crash, or its row
\* updates fail.
ExecutionsBounded == \A j \in Jobs \ contended : executions[j] <= MaxAttempts

\* A job that is DONE, or that was announced on the results topic at any time
\* before, has its result stored: the status and the result are one transaction
\* and the message comes after it.
DoneIsStored == \A j \in Jobs : status[j] = "DONE" \/ Announced(j) => j \in results

\* As long as no call has failed, the group's offset never passes a job that was
\* not attempted: a job whose row is missing or still QUEUED is delivered again
\* after any crash or rebalance.  (A failed call breaks this: see CallFails.)
CommittedWasStarted ==
  faults = 0 =>
    \A p \in Partitions : \A i \in 1..committed[p] :
      topic[p][i] \in Jobs => status[topic[p][i]] \in {"RUNNING", "DONE", "FAILED"}

\* Nothing repairs an orphaned job: neither a redelivery nor a new request for
\* the same key makes a consumer work on a row that says RUNNING.
OrphanIsStuck == [][\A j \in Jobs : Orphaned(j) => Orphaned(j)']_vars

\* When no call fails, every published job is eventually DONE or FAILED or, when
\* a crash came in the middle of an attempt, orphaned.  Crashes at any other
\* point and rebalances lose nothing.
JobsSettleOrAreOrphaned ==
  \A j \in Jobs : Published(j) ~> (Terminal(j) \/ Orphaned(j))

\* When no call fails, the result message of a finished job is eventually sent
\* even if the process dies between the transaction and the publication: the
\* redelivered message finds the job DONE and announces it.  A rebalance breaks
\* this: the message may be committed by its old holder, or be passed by a later
\* commit of the new one, while the other is still at work on the job.
DoneIsAnnounced ==
  \A j \in Jobs : status[j] = "DONE" ~> (Announced(j) \/ rebalances > 0)

\* What the schema of the results topic says: a job that has FAILED, and that no
\* consumer holds any more, was announced as FAILED.
FailureIsAnnounced ==
  \A j \in Jobs :
    status[j] = "FAILED" /\ (\A w \in Workers : ~Holds(w, j)) /\ faults = 0 /\ crashes = 0
      => \E m \in announced : m.job = j /\ m.status = "FAILED"

\* While the group's assignment does not change, the table is a JobLifecycle:
\* with crashes, failed calls and repeated requests at any point.
Lifecycle == INSTANCE JobLifecycle WITH
  Jobs <- Jobs, MaxAttempts <- MaxAttempts,
  status <- status, attempt <- attempt, results <- results
ImplementsLifecycle == Lifecycle!Spec

------------------------------------------------------------------------------
(***************************************************************************)
(* The inductive invariant behind the safety properties.                   *)
(***************************************************************************)
\* An idle consumer holds nothing; a busy one holds a published message, which
\* is a job once Process has read a row for it.
WellHeld(w) ==
  /\ held[w].off <= Len(topic[held[w].part])
  /\ pc[w] = "idle" <=> held[w].off = 0
  /\ pc[w] \notin {"idle", "create", "commit"} => MessageOf(w) \in Jobs

HeldInv == \A w \in Workers : WellHeld(w)

\* A job that was never attempted counts no attempt.
FreshInv == \A j \in Jobs : status[j] \in {"ABSENT", "QUEUED"} => attempt[j] = 0

\* The row of a job that only consumer w has held is what w read or wrote last.
RowOf(w, j) ==
  /\ pc[w] = "start" => /\ status[j] \in {"QUEUED", "FAILED"}
                        /\ try[w] = attempt[j] + 1
                        /\ try[w] <= MaxAttempts
  /\ pc[w] = "execute" => /\ status[j] = "RUNNING"
                          /\ try[w] = attempt[j]
                          /\ try[w] <= MaxAttempts
                          /\ executions[j] < try[w]
  /\ pc[w] = "persist" => status[j] = "RUNNING" /\ try[w] = attempt[j]
  /\ pc[w] = "fail" => \/ status[j] = "RUNNING" /\ try[w] = attempt[j]
                       \/ /\ status[j] = "FAILED"
                          /\ try[w] = attempt[j] + 1
                          /\ try[w] > MaxAttempts
  /\ pc[w] = "publish" => status[j] = "DONE"

SoleHolderInv ==
  \A j \in Jobs \ contended :
    /\ \A v, w \in Workers : Holds(v, j) /\ Holds(w, j) => v = w
    /\ \A w \in Workers : Holds(w, j) => RowOf(w, j)
    /\ executions[j] <= attempt[j]
    /\ executions[j] <= MaxAttempts

\* The result is stored before anybody can see or announce that it is.
StoredInv ==
  /\ DoneIsStored
  /\ \A w \in Workers : pc[w] = "publish" => MessageOf(w) \in results

\* Every message handed out before the one the owner of its partition has just
\* fetched, and every message before the one any consumer holds, was attempted.
Started(j) == status[j] \in {"RUNNING", "DONE", "FAILED"}
StartedUpTo(p, n) == \A i \in 1..n : topic[p][i] \in Jobs => Started(topic[p][i])

\* Consumer w, the owner of p, has not yet marked the last message it fetched.
Unmarked(w, p) ==
  held[w] = [part |-> p, off |-> position[p]] /\ pc[w] \in {"create", "start"}

OffsetInv ==
  /\ \A p \in Partitions : committed[p] <= Len(topic[p]) /\ position[p] <= Len(topic[p])
  /\ faults = 0 =>
       /\ \A p \in Partitions :
            /\ StartedUpTo(p, committed[p])
            /\ \/ StartedUpTo(p, position[p])
               \/ Unmarked(owner[p], p) /\ StartedUpTo(p, position[p] - 1)
       /\ \A w \in Workers :
            /\ StartedUpTo(held[w].part, held[w].off - 1)
            /\ pc[w] \in {"execute", "fail", "persist", "publish", "commit"} =>
                 StartedUpTo(held[w].part, held[w].off)

\* Every key lies on its own partition; until the first rebalance a message is
\* held only by the owner of its partition, and no job was held twice at once.
RouteInv ==
  \A p \in Partitions : \A i \in 1..Len(topic[p]) :
    topic[p][i] \in Jobs => PartitionOf[topic[p][i]] = p

OwnerInv ==
  rebalances = 0 =>
    /\ contended = {}
    /\ \A w \in Workers : held[w].off # 0 => owner[held[w].part] = w

\* The strengthening that every step preserves.
Inductive ==
  /\ HeldInv
  /\ FreshInv
  /\ SoleHolderInv
  /\ StoredInv
  /\ OffsetInv
  /\ RouteInv
  /\ OwnerInv

==============================================================================
