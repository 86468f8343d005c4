----------------------------- MODULE Generation ------------------------------
(***************************************************************************)
(* Generations of mock-svc (internal/application/generations.go): a user   *)
(* asks for a DSL script to be applied to a base mock; StartGeneration     *)
(* stores a QUEUED generation and starts the goroutine runGeneration, which *)
(* asks dsl-runner-svc for the job (internal/service/dsl_runner_kafka.go), *)
(* polls for its result and stores the derived mocks.                      *)
(*                                                                         *)
(* dsl-runner-svc is JobLifecycle, the promise that JobWorker is shown to  *)
(* keep.  Every call of the goroutine to the database, to Kafka and to     *)
(* dsl-runner-svc is a step of its own; the runner, the deadline of the    *)
(* polling and a crash of mock-svc may come between any two of them.       *)
(*                                                                         *)
(* The base mock a goroutine works on is the snapshot StartGeneration      *)
(* read, so the job it asks for is fixed from the start: JobOf.  Requests  *)
(* refused before the generation is stored (validation, access, no such    *)
(* mock) change nothing and are left out, like previews, which store       *)
(* nothing in mock-svc: their jobs have other keys.                        *)
(***************************************************************************)
EXTENDS Naturals, FiniteSets

CONSTANTS
  Generations,    \* generations that may be asked for
  Jobs,           \* jobs of dsl-runner-svc
  JobOf,          \* the job of each generation: script, snapshot and parameters
  InvalidJobs,    \* jobs whose result has a mock that validateGeneratedMock refuses
  MaxAttempts,    \* worker_max_attempts of dsl-runner-svc
  MaxRefusals,    \* bound: requests counted for a job after its last attempt
  MaxFaults,      \* bound: calls of mock-svc that return an error
  MaxCrashes      \* bound: crashes and shutdowns of mock-svc

ASSUME JobOfAssumption == JobOf \in [Generations -> Jobs]
ASSUME InvalidJobsAssumption == InvalidJobs \subseteq Jobs
ASSUME BoundsAssumption == /\ MaxAttempts \in Nat \ {0}
                           /\ MaxRefusals \in Nat
                           /\ MaxFaults \in Nat
                           /\ MaxCrashes \in Nat

VARIABLES
  status, attempt, results,   \* the jobs of dsl-runner-svc, see JobLifecycle
  requested,   \* jobs with a message on the jobs topic
  gen,         \* generations.status; ABSENT when there is no row
  step,        \* where each goroutine runGeneration is; none when there is none
  derived,     \* generations whose derived mocks are stored, with their search
               \* rows, outbox events and derived_relationships
  faults,      \* calls that have failed so far
  crashes,     \* crashes so far
  expired,     \* history: generations whose polling reached its deadline
  unanswered,  \* history: generations with a call that failed
  ready,       \* history: generations whose job was DONE when they were started
  failedOnce   \* history: jobs that have been FAILED

runnerVars == <<status, attempt, results>>
history == <<expired, unanswered, ready, failedOnce>>
vars == <<runnerVars, requested, gen, step, derived, faults, crashes, history>>

Runner == INSTANCE JobLifecycle WITH
  Jobs <- Jobs, MaxAttempts <- MaxAttempts,
  status <- status, attempt <- attempt, results <- results

------------------------------------------------------------------------------
GenerationStatus == {"ABSENT", "QUEUED", "RUNNING", "DONE", "FAILED"}
Steps == {"none", "mark", "publish", "poll", "status", "wait", "apply", "fail"}

Settled(g) == gen[g] \in {"DONE", "FAILED"}

\* The row says that the generation is on its way, and nobody works on it.
Stranded(g) == gen[g] \in {"QUEUED", "RUNNING"} /\ step[g] = "none"

Polling(g) == step[g] \in {"poll", "status", "wait"}

Init ==
  /\ Runner!Init
  /\ requested = {}
  /\ gen = [g \in Generations |-> "ABSENT"]
  /\ step = [g \in Generations |-> "none"]
  /\ derived = {}
  /\ faults = 0
  /\ crashes = 0
  /\ expired = {}
  /\ unanswered = {}
  /\ ready = {}
  /\ failedOnce = {}

------------------------------------------------------------------------------
Goto(g, label) == step' = [step EXCEPT ![g] = label]

\* Generations.UpdateStatus, or the insert of Generations.Create.
SetStatus(g, s) == gen' = [gen EXCEPT ![g] = s]

\* A call made for generation g returns an error.
Fault(g) ==
  /\ faults < MaxFaults
  /\ faults' = faults + 1
  /\ unanswered' = unanswered \union {g}

NoFault == UNCHANGED <<faults, unanswered>>

------------------------------------------------------------------------------
(***************************************************************************)
(* Variants of the actions below, each with one plausible mistake.  Next   *)
(* uses none.                                                              *)
(***************************************************************************)
\* StartGeneration that starts the goroutine whatever the insert returned.
StartRegardless(g) ==
  /\ gen[g] = "ABSENT"
  /\ step[g] = "none"
  /\ \/ SetStatus(g, "QUEUED") /\ NoFault
     \/ UNCHANGED gen /\ Fault(g)
  /\ Goto(g, "mark")
  /\ ready' = IF status[JobOf[g]] = "DONE" THEN ready \union {g} ELSE ready
  /\ UNCHANGED <<runnerVars, requested, derived, crashes, expired, failedOnce>>

\* ReadStatus that takes a job nobody has stored yet for a failed one.
ReadStatusStrictly(g) ==
  /\ step[g] = "status"
  /\ Goto(g, IF status[JobOf[g]] \in {"ABSENT", "FAILED"} THEN "fail" ELSE "wait")
  /\ NoFault
  /\ UNCHANGED <<runnerVars, requested, gen, derived, crashes, expired, ready,
                 failedOnce>>

\* Poll that takes the answer 409 for a result.
PollAnything(g) ==
  /\ step[g] = "poll"
  /\ Goto(g, IF status[JobOf[g]] = "ABSENT" THEN "status" ELSE "apply")
  /\ NoFault
  /\ UNCHANGED <<runnerVars, requested, gen, derived, crashes, expired, ready,
                 failedOnce>>

\* Poll with a goroutine that just returns when the result has an invalid mock.
PollUnlessInvalid(g) ==
  /\ step[g] = "poll"
  /\ Goto(g, IF status[JobOf[g]] # "DONE" THEN "status"
             ELSE IF JobOf[g] \in InvalidJobs THEN "none" ELSE "apply")
  /\ NoFault
  /\ UNCHANGED <<runnerVars, requested, gen, derived, crashes, expired, ready,
                 failedOnce>>

\* Apply with the status updated after the transaction instead of in it.
ApplyThenMark(g) ==
  /\ step[g] = "apply"
  /\ derived' = derived \union {g}
  /\ \/ SetStatus(g, "DONE") /\ Goto(g, "none") /\ NoFault
     \/ UNCHANGED <<gen, faults, unanswered>> /\ Goto(g, "fail")
  /\ UNCHANGED <<runnerVars, requested, crashes, expired, ready, failedOnce>>

\* A deadline that only ends the sleep between two requests.
ExpireAsleep(g) ==
  /\ step[g] = "wait"
  /\ Goto(g, "fail")
  /\ expired' = expired \union {g}
  /\ UNCHANGED <<runnerVars, requested, gen, derived, faults, crashes,
                 unanswered, ready, failedOnce>>

------------------------------------------------------------------------------
(***************************************************************************)
(* mock-svc.                                                               *)
(***************************************************************************)
\* StartGeneration: the row is inserted and the goroutine started; when the
\* insert fails, or only its answer is lost, there is no goroutine.
Start(g) ==
  /\ gen[g] = "ABSENT"
  /\ step[g] = "none"
  /\ \/ SetStatus(g, "QUEUED") /\ Goto(g, "mark") /\ NoFault
     \/ SetStatus(g, "QUEUED") /\ UNCHANGED step /\ Fault(g)
     \/ UNCHANGED <<gen, step>> /\ Fault(g)
  /\ ready' = IF status[JobOf[g]] = "DONE" THEN ready \union {g} ELSE ready
  /\ UNCHANGED <<runnerVars, requested, derived, crashes, expired, failedOnce>>

\* The transaction that marks the generation RUNNING; its error is dropped.
MarkRunning(g) ==
  /\ step[g] = "mark"
  /\ \/ SetStatus(g, "RUNNING") /\ NoFault
     \/ UNCHANGED gen /\ Fault(g)
  /\ Goto(g, "publish")
  /\ UNCHANGED <<runnerVars, requested, derived, crashes, expired, ready, failedOnce>>

\* DSLRunnerClient.run publishes the job.  The writer of kafka_publisher.go leaves
\* RequiredAcks unset and waits for no acknowledgement: the message may be lost
\* without an error, and an error may come with the message written.
Publish(g) ==
  /\ step[g] = "publish"
  /\ requested' \in {requested, requested \union {JobOf[g]}}
  /\ \/ Goto(g, "poll") /\ NoFault
     \/ Goto(g, "fail") /\ Fault(g)
  /\ UNCHANGED <<runnerVars, gen, derived, crashes, expired, ready, failedOnce>>

\* waitForResult asks for the result: 200 with the generated mocks once the job
\* is DONE, and 404 or 409 before.  runGeneration checks the mocks it got.
Poll(g) ==
  /\ step[g] = "poll"
  /\ \/ /\ status[JobOf[g]] = "DONE"
        /\ JobOf[g] \in results
        /\ Goto(g, IF JobOf[g] \in InvalidJobs THEN "fail" ELSE "apply")
        /\ NoFault
     \/ /\ status[JobOf[g]] # "DONE"
        /\ Goto(g, "status")
        /\ NoFault
     \/ Goto(g, "fail") /\ Fault(g)
  /\ UNCHANGED <<runnerVars, requested, gen, derived, crashes, expired, ready,
                 failedOnce>>

\* getJobStatus: the polling ends when the job is FAILED, were it by an attempt
\* made for an earlier generation; a job that is not there yet is waited for.
ReadStatus(g) ==
  /\ step[g] = "status"
  /\ \/ /\ Goto(g, IF status[JobOf[g]] = "FAILED" THEN "fail" ELSE "wait")
        /\ NoFault
     \/ Goto(g, "fail") /\ Fault(g)
  /\ UNCHANGED <<runnerVars, requested, gen, derived, crashes, expired, ready,
                 failedOnce>>

\* waitForResult sleeps for the poll interval and asks again.
Wait(g) ==
  /\ step[g] = "wait"
  /\ Goto(g, "poll")
  /\ UNCHANGED <<runnerVars, requested, gen, derived, faults, crashes, history>>

\* The deadline of pollCtx passes during a request or the sleep.
Expire(g) ==
  /\ Polling(g)
  /\ Goto(g, "fail")
  /\ expired' = expired \union {g}
  /\ UNCHANGED <<runnerVars, requested, gen, derived, faults, crashes,
                 unanswered, ready, failedOnce>>

\* One transaction stores everything derived and marks the generation DONE.  An
\* error leads to failGeneration, also when the transaction was committed.
Apply(g) ==
  /\ step[g] = "apply"
  /\ \/ derived' = derived \union {g} /\ SetStatus(g, "DONE") /\ Goto(g, "none") /\ NoFault
     \/ derived' = derived \union {g} /\ SetStatus(g, "DONE") /\ Goto(g, "fail") /\ Fault(g)
     \/ UNCHANGED <<derived, gen>> /\ Goto(g, "fail") /\ Fault(g)
  /\ UNCHANGED <<runnerVars, requested, crashes, expired, ready, failedOnce>>

\* failGeneration, whatever the row says; its error is dropped.
Fail(g) ==
  /\ step[g] = "fail"
  /\ \/ SetStatus(g, "FAILED") /\ NoFault
     \/ UNCHANGED gen /\ Fault(g)
  /\ Goto(g, "none")
  /\ UNCHANGED <<runnerVars, requested, derived, crashes, expired, ready, failedOnce>>

\* mock-svc dies, or is shut down: main does not wait for the goroutines, and
\* nothing takes their generations up after the restart.
Crash ==
  /\ crashes < MaxCrashes
  /\ crashes' = crashes + 1
  /\ step' = [g \in Generations |-> "none"]
  /\ UNCHANGED <<runnerVars, requested, gen, derived, faults, history>>

------------------------------------------------------------------------------
(***************************************************************************)
(* dsl-runner-svc works on the jobs it was asked for, and may be handed a  *)
(* message more than once.                                                 *)
(***************************************************************************)
RunnerStep(j) ==
  /\ j \in requested
  /\ \/ Runner!Create(j)
     \/ Runner!Start(j)
     \/ Runner!Finish(j)
     \/ Runner!Fail(j)
     \/ attempt[j] < MaxAttempts + MaxRefusals /\ Runner!Refuse(j)
  /\ failedOnce' = failedOnce \union {k \in Jobs : status'[k] = "FAILED"}
  /\ UNCHANGED <<requested, gen, step, derived, faults, crashes, expired,
                 unanswered, ready>>

------------------------------------------------------------------------------
Run(g) == MarkRunning(g) \/ Publish(g) \/ Poll(g) \/ ReadStatus(g) \/ Wait(g)
          \/ Apply(g) \/ Fail(g)

Next ==
  \/ \E g \in Generations : Start(g) \/ Run(g) \/ Expire(g)
  \/ \E j \in Jobs : RunnerStep(j)
  \/ Crash

Spec == Init /\ [][Next]_vars

\* A goroutine keeps running, and the deadline of its polling passes some time.
\* Nothing is assumed of dsl-runner-svc.
Fairness == \A g \in Generations : WF_vars(Run(g)) /\ WF_vars(Expire(g))

FairSpec == Spec /\ Fairness

------------------------------------------------------------------------------
(***************************************************************************)
(* Properties.                                                             *)
(***************************************************************************)
\* Every variable has its type, only a stored generation has a goroutine, and a
\* row that a goroutine may still change is not settled unless the answer of a
\* call for it was lost.
TypeOK ==
  /\ status \in [Jobs -> {"ABSENT", "QUEUED", "RUNNING", "DONE", "FAILED"}]
  /\ attempt \in [Jobs -> 0 .. MaxAttempts + MaxRefusals]
  /\ results \subseteq Jobs
  /\ requested \subseteq Jobs
  /\ gen \in [Generations -> GenerationStatus]
  /\ step \in [Generations -> Steps]
  /\ derived \subseteq Generations
  /\ faults \in 0 .. MaxFaults
  /\ crashes \in 0 .. MaxCrashes
  /\ expired \subseteq Generations
  /\ unanswered \subseteq Generations
  /\ ready \subseteq Generations
  /\ failedOnce \subseteq Jobs
  /\ \A g \in Generations : step[g] # "none" => gen[g] # "ABSENT"

\* A generation is DONE exactly when its derived mocks are stored, except for one
\* whose transaction was committed without an answer: runGeneration then marks
\* it FAILED and the mocks stay.
AllOrNothing ==
  \A g \in Generations :
    /\ gen[g] = "DONE" => g \in derived
    /\ g \in derived => gen[g] = "DONE" \/ g \in unanswered

\* Mocks are only ever derived from the valid result of a job that was asked for
\* and is DONE, however the polling and the runner's retries interleave.
DerivedFromDoneJob ==
  \A g \in derived :
    /\ JobOf[g] \in requested \ InvalidJobs
    /\ status[JobOf[g]] = "DONE"
    /\ JobOf[g] \in results

\* Why a generation may fail although none of its calls failed and its deadline
\* did not pass: its result is invalid, or its job has been FAILED and was not
\* DONE yet when the generation was started.
HasCause(g) ==
  \/ JobOf[g] \in InvalidJobs
  \/ JobOf[g] \in failedOnce /\ g \notin ready

\* Every generation that fails, without a failed call or a passed deadline, has
\* a cause: waitForResult never takes a job that is late or finished for a
\* failed one.
FailureHasCause ==
  \A g \in Generations \ (expired \union unanswered) :
    gen[g] = "FAILED" => HasCause(g)

\* Every generation is settled or stranded in the end, even if dsl-runner-svc
\* never answers.
GenerationsSettle ==
  \A g \in Generations : gen[g] = "QUEUED" ~> Settled(g) \/ Stranded(g)

\* Only a crash or a failed call strands a generation.
StrandingHasCause ==
  crashes = 0 => \A g \in Generations : Stranded(g) => g \in unanswered

\* What a goroutine has established when it is at a step.
StepInv(g) ==
  /\ step[g] = "apply" => /\ JobOf[g] \in requested \ InvalidJobs
                          /\ status[JobOf[g]] = "DONE"
                          /\ JobOf[g] \in results
  /\ step[g] = "fail" => g \in expired \union unanswered \/ HasCause(g)

\* What is stored of a generation, whoever works on it.
StoredInv(g) ==
  /\ gen[g] = "ABSENT" => g \notin derived
  /\ g \in derived => step[g] = "none" \/ (step[g] = "fail" /\ g \in unanswered)
  /\ g \in ready => status[JobOf[g]] = "DONE"

\* A job has a row only when its message got to the topic, and its failures are
\* remembered.
JobsKnown ==
  \A j \in Jobs :
    /\ status[j] # "ABSENT" => j \in requested
    /\ status[j] = "FAILED" => j \in failedOnce

\* With TypeOK, AllOrNothing, DerivedFromDoneJob and FailureHasCause, what every
\* step preserves: a goroutine derives mocks from a result it has seen finished
\* and valid, although its own message may have been lost, has derived nothing
\* before its transaction, and gives up only for a cause.
Inductive == JobsKnown /\ \A g \in Generations : StepInv(g) /\ StoredInv(g)

==============================================================================
