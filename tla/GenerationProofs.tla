-------------------------- MODULE GenerationProofs ---------------------------
(***************************************************************************)
(* Proofs about Generation, for any generations, jobs and bounds, and      *)
(* whatever dsl-runner-svc does within JobLifecycle.                       *)
(***************************************************************************)
EXTENDS Generation, TLAPS

\* What the expansion of any action needs.
USE DEF runnerVars, history, NoFault, Fault, Goto, SetStatus

------------------------------------------------------------------------------
(***************************************************************************)
(* Types.                                                                  *)
(***************************************************************************)
\* The runner's steps keep the types of its tables.
LEMMA RunnerTypeStep ==
  ASSUME TypeOK, NEW j \in Jobs, RunnerStep(j) PROVE TypeOK'
<1> USE BoundsAssumption DEF TypeOK, RunnerStep, Runner!Become
<1>1. CASE Runner!Create(j)
  BY <1>1 DEF Runner!Create
<1>2. CASE Runner!Start(j)
  BY <1>2 DEF Runner!Start
<1>3. CASE Runner!Finish(j)
  BY <1>3 DEF Runner!Finish
<1>4. CASE Runner!Fail(j)
  BY <1>4 DEF Runner!Fail
<1>5. CASE attempt[j] < MaxAttempts + MaxRefusals /\ Runner!Refuse(j)
  BY <1>5 DEF Runner!Refuse
<1>6. QED
  BY <1>1, <1>2, <1>3, <1>4, <1>5

\* Every step keeps the types.
LEMMA TypeStep == ASSUME TypeOK, [Next]_vars PROVE TypeOK'
<1> USE BoundsAssumption, JobOfAssumption DEF TypeOK, GenerationStatus, Steps
<1>1. ASSUME NEW g \in Generations, Start(g) PROVE TypeOK'
  BY <1>1 DEF Start
<1>2. ASSUME NEW g \in Generations, MarkRunning(g) PROVE TypeOK'
  BY <1>2 DEF MarkRunning
<1>3. ASSUME NEW g \in Generations, Publish(g) PROVE TypeOK'
  BY <1>3 DEF Publish
<1>4. ASSUME NEW g \in Generations, Poll(g) PROVE TypeOK'
  BY <1>4 DEF Poll
<1>5. ASSUME NEW g \in Generations, ReadStatus(g) PROVE TypeOK'
  BY <1>5 DEF ReadStatus
<1>6. ASSUME NEW g \in Generations, Wait(g) \/ Expire(g) PROVE TypeOK'
  BY <1>6 DEF Wait, Expire, Polling
<1>7. ASSUME NEW g \in Generations, Apply(g) PROVE TypeOK'
  BY <1>7 DEF Apply
<1>8. ASSUME NEW g \in Generations, Fail(g) PROVE TypeOK'
  BY <1>8 DEF Fail
<1>9. CASE Crash
  BY <1>9 DEF Crash
<1>10. CASE UNCHANGED vars
  BY <1>10 DEF vars
<1>11. QED
  BY <1>1, <1>2, <1>3, <1>4, <1>5, <1>6, <1>7, <1>8, <1>9, <1>10, RunnerTypeStep
  DEF Next, Run

\* The types and bounds of all variables hold in every reachable state.
THEOREM TypeCorrect == Spec => []TypeOK
<1>1. Init => TypeOK
  BY BoundsAssumption DEF Init, Runner!Init, TypeOK, GenerationStatus, Steps
<1>2. QED
  BY <1>1, TypeStep, PTL DEF Spec

------------------------------------------------------------------------------
(***************************************************************************)
(* Mocks are derived all or not at all, from finished valid results, and   *)
(* generations fail for a cause.                                           *)
(***************************************************************************)
\* What the jobs may lose in a step: nothing that a goroutine has read of them.  No
\* job gets a row without a message, and no failure goes unrecorded.
JobsAdvance ==
  /\ \A j \in Jobs : status[j] = "DONE" => status'[j] = "DONE"
  /\ results \subseteq results'
  /\ requested \subseteq requested'
  /\ failedOnce \subseteq failedOnce'
  /\ JobsKnown => JobsKnown'

\* The runner finishes a job once, and no other step touches the jobs.
LEMMA JobsAdvanceStep == ASSUME TypeOK, [Next]_vars PROVE JobsAdvance
<1>1. ASSUME NEW j \in Jobs, RunnerStep(j) PROVE JobsAdvance
  <2> USE <1>1 DEF TypeOK, RunnerStep, JobsAdvance, JobsKnown, Runner!Become
  <2>1. CASE Runner!Create(j)
    BY <2>1 DEF Runner!Create
  <2>2. CASE Runner!Start(j)
    BY <2>2 DEF Runner!Start
  <2>3. CASE Runner!Finish(j)
    BY <2>3 DEF Runner!Finish
  <2>4. CASE Runner!Fail(j)
    BY <2>4 DEF Runner!Fail
  <2>5. CASE Runner!Refuse(j)
    BY <2>5 DEF Runner!Refuse
  <2>6. QED
    BY <2>1, <2>2, <2>3, <2>4, <2>5
<1>2. ASSUME NEW g \in Generations, Publish(g) PROVE JobsAdvance
  <2>1. UNCHANGED <<status, results, failedOnce>> /\ requested \subseteq requested'
    BY <1>2 DEF Publish, runnerVars
  <2>2. JobsKnown => JobsKnown'
    BY <2>1 DEF JobsKnown
  <2> QED
    BY <2>1, <2>2 DEF JobsAdvance
<1>3. CASE UNCHANGED <<runnerVars, requested, failedOnce>>
  BY <1>3 DEF JobsAdvance, JobsKnown
<1>4. QED
  BY <1>1, <1>2, <1>3
  DEF Next, Run, vars, Start, MarkRunning, Poll, ReadStatus, Wait, Expire, Apply,
      Fail, Crash

\* Everything that is claimed of one generation.
Safe(g) ==
  /\ StepInv(g)
  /\ StoredInv(g)
  /\ gen[g] = "DONE" => g \in derived
  /\ g \in derived => /\ gen[g] = "DONE" \/ g \in unanswered
                      /\ JobOf[g] \in requested \ InvalidJobs
                      /\ status[JobOf[g]] = "DONE"
                      /\ JobOf[g] \in results
  /\ gen[g] = "FAILED" => g \in expired \union unanswered \/ HasCause(g)

\* The claims of single generations are the invariants of the runs.
LEMMA SafeIsInvariants ==
  ASSUME TypeOK
  PROVE  (\A g \in Generations : Safe(g)) /\ JobsKnown
           <=> AllOrNothing /\ DerivedFromDoneJob /\ FailureHasCause /\ Inductive
  BY DEF TypeOK, Safe, AllOrNothing, DerivedFromDoneJob, FailureHasCause, Inductive

\* A generation whose goroutine does not move keeps what is claimed of it, while
\* the jobs advance.
LEMMA SafeWhileIdle ==
  ASSUME TypeOK, JobsAdvance, NEW g \in Generations, Safe(g),
         gen'[g] = gen[g], step'[g] = step[g],
         g \in derived' <=> g \in derived, g \in ready' <=> g \in ready,
         expired \subseteq expired', unanswered \subseteq unanswered'
  PROVE  Safe(g)'
  BY JobOfAssumption DEF Safe, StepInv, StoredInv, JobsAdvance, HasCause, TypeOK

\* A step of one goroutine keeps what is claimed of its generation.
LEMMA SafeWhileRunning ==
  ASSUME TypeOK, TypeOK', JobsAdvance, NEW g \in Generations, Safe(g), JobsKnown,
         Start(g) \/ Run(g) \/ Expire(g)
  PROVE  Safe(g)'
<1>1. /\ status[JobOf[g]] # "ABSENT" => JobOf[g] \in requested
      /\ status[JobOf[g]] = "FAILED" => JobOf[g] \in failedOnce
  <2>1. JobOf[g] \in Jobs
    BY JobOfAssumption
  <2> QED
    BY <2>1 DEF JobsKnown
<1> USE JobOfAssumption DEF Safe, StepInv, StoredInv, HasCause, TypeOK
<1>2. CASE Start(g)
  BY <1>2 DEF Start
<1>3. CASE MarkRunning(g)
  BY <1>3 DEF MarkRunning
<1>4. CASE Publish(g)
  BY <1>4 DEF Publish
<1>5. CASE Poll(g)
  BY <1>1, <1>5 DEF Poll
<1>6. CASE ReadStatus(g)
  BY <1>1, <1>6 DEF ReadStatus
<1>7. CASE Wait(g) \/ Expire(g)
  BY <1>7 DEF Wait, Expire, Polling
<1>8. CASE Apply(g)
  BY <1>8 DEF Apply
<1>9. CASE Fail(g)
  BY <1>9 DEF Fail
<1> QED
  BY <1>2, <1>3, <1>4, <1>5, <1>6, <1>7, <1>8, <1>9 DEF Run

\* No step disturbs what is claimed of any generation.
LEMMA SafeStep ==
  ASSUME TypeOK, [Next]_vars, \A g \in Generations : Safe(g),
         JobsKnown
  PROVE  /\ \A g \in Generations : Safe(g)'
         /\ JobsKnown'
<1>1. JobsAdvance /\ TypeOK'
  BY JobsAdvanceStep, TypeStep
<1>2. JobsKnown'
  BY <1>1 DEF JobsAdvance
<1>3. ASSUME NEW g \in Generations PROVE Safe(g)'
  <2>1. CASE Start(g) \/ Run(g) \/ Expire(g)
    BY <1>1, <2>1, SafeWhileRunning
  <2>2. ASSUME NEW h \in Generations, h # g, Start(h) \/ Run(h) \/ Expire(h)
        PROVE  Safe(g)'
    <3>1. /\ gen'[g] = gen[g] /\ step'[g] = step[g]
          /\ g \in derived' <=> g \in derived
          /\ g \in ready' <=> g \in ready
          /\ expired \subseteq expired' /\ unanswered \subseteq unanswered'
      BY <2>2 DEF TypeOK, Run, Start, MarkRunning, Publish, Poll, ReadStatus, Wait,
                  Expire, Apply, Fail
    <3>2. QED
      BY <1>1, <3>1, SafeWhileIdle
  <2>3. CASE (\E j \in Jobs : RunnerStep(j)) \/ UNCHANGED vars
    <3>1. UNCHANGED <<gen, step, derived, ready, expired, unanswered>>
      BY <2>3 DEF RunnerStep, vars
    <3>2. QED
      BY <1>1, <3>1, SafeWhileIdle
  <2>4. CASE Crash
    BY <2>4 DEF Crash, Safe, StepInv, StoredInv, HasCause, JobsKnown, TypeOK
  <2>5. QED
    BY <2>1, <2>2, <2>3, <2>4 DEF Next
<1>4. QED
  BY <1>2, <1>3

\* The invariants of the runs, with the inductive one, hold in every reachable
\* state.
THEOREM SafetyCorrect ==
  Spec => [](AllOrNothing /\ DerivedFromDoneJob /\ FailureHasCause /\ Inductive)
<1> DEFINE AllSafe == /\ \A g \in Generations : Safe(g)
                      /\ JobsKnown
<1>1. Init => AllSafe
  BY JobOfAssumption
  DEF Init, Runner!Init, Safe, StepInv, StoredInv, HasCause, JobsKnown
<1>2. TypeOK /\ AllSafe /\ [Next]_vars => AllSafe'
  BY SafeStep
<1>3. TypeOK /\ AllSafe
        => AllOrNothing /\ DerivedFromDoneJob /\ FailureHasCause /\ Inductive
  BY SafeIsInvariants
<1> HIDE DEF AllSafe
<1>4. QED
  BY <1>1, <1>2, <1>3, TypeCorrect, PTL DEF Spec

\* Mocks are derived exactly for the generations that are DONE, but for those
\* whose transaction was committed without an answer.
THEOREM AllOrNothingAlways == Spec => []AllOrNothing
  BY SafetyCorrect, PTL

\* Mocks are only derived from the valid result of a finished job.
THEOREM DerivedFromDoneJobAlways == Spec => []DerivedFromDoneJob
  BY SafetyCorrect, PTL

\* A generation fails for a failed call, a passed deadline, an invalid result or
\* a job that has failed.
THEOREM FailureHasCauseAlways == Spec => []FailureHasCause
  BY SafetyCorrect, PTL

------------------------------------------------------------------------------
(***************************************************************************)
(* Stranded generations.                                                   *)
(***************************************************************************)
\* A goroutine is lost only in a crash or after a failed call.
THEOREM StrandingHasCauseAlways == Spec => []StrandingHasCause
<1> USE DEF TypeOK, StrandingHasCause, Stranded
<1>1. Init => StrandingHasCause
  BY DEF Init
<1>2. ASSUME TypeOK, StrandingHasCause, [Next]_vars PROVE StrandingHasCause'
  <2>1. ASSUME NEW h \in Generations, Start(h) PROVE StrandingHasCause'
    BY <1>2, <2>1 DEF Start
  <2>2. ASSUME NEW h \in Generations, Run(h) \/ Expire(h) PROVE StrandingHasCause'
    <3>1. CASE MarkRunning(h) \/ Publish(h) \/ Poll(h) \/ ReadStatus(h)
      BY <1>2, <3>1 DEF MarkRunning, Publish, Poll, ReadStatus
    <3>2. CASE Wait(h) \/ Expire(h)
      BY <1>2, <3>2 DEF Wait, Expire
    <3>3. CASE Apply(h) \/ Fail(h)
      BY <1>2, <3>3 DEF Apply, Fail
    <3>4. QED
      BY <2>2, <3>1, <3>2, <3>3 DEF Run
  <2>3. CASE \E j \in Jobs : RunnerStep(j)
    BY <1>2, <2>3 DEF RunnerStep
  <2>4. CASE Crash
    BY <1>2, <2>4, BoundsAssumption DEF Crash
  <2>5. CASE UNCHANGED vars
    BY <1>2, <2>5 DEF vars
  <2>6. QED
    BY <1>2, <2>1, <2>2, <2>3, <2>4, <2>5 DEF Next
<1>3. QED
  BY <1>1, <1>2, TypeCorrect, PTL DEF Spec

==============================================================================
