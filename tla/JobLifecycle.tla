---------------------------- MODULE JobLifecycle ----------------------------
(***************************************************************************)
(* What dsl-runner-svc promises about a job, as its HTTP API shows it      *)
(* (GET jobs/{id} and GET jobs/{id}/result): a job is created QUEUED, is   *)
(* attempted at most MaxAttempts times, each attempt taking it through     *)
(* RUNNING, and is finished for good when it is DONE, at which moment its  *)
(* result can be read.  A FAILED job may be attempted again; once the      *)
(* attempts are used up, each further request only counts one more.        *)
(***************************************************************************)
EXTENDS Naturals

CONSTANTS Jobs, MaxAttempts

VARIABLES status, attempt, results

vars == <<status, attempt, results>>

Init ==
  /\ status = [j \in Jobs |-> "ABSENT"]
  /\ attempt = [j \in Jobs |-> 0]
  /\ results = {}

Become(j, s, n) ==
  /\ status' = [status EXCEPT ![j] = s]
  /\ attempt' = [attempt EXCEPT ![j] = n]

Create(j) ==
  /\ status[j] = "ABSENT"
  /\ Become(j, "QUEUED", 0)
  /\ UNCHANGED results

Start(j) ==
  /\ status[j] \in {"QUEUED", "FAILED"}
  /\ attempt[j] < MaxAttempts
  /\ Become(j, "RUNNING", attempt[j] + 1)
  /\ UNCHANGED results

Finish(j) ==
  /\ status[j] = "RUNNING"
  /\ Become(j, "DONE", attempt[j])
  /\ results' = results \union {j}

Fail(j) ==
  /\ status[j] = "RUNNING"
  /\ Become(j, "FAILED", attempt[j])
  /\ UNCHANGED results

Refuse(j) ==
  /\ status[j] = "FAILED"
  /\ attempt[j] >= MaxAttempts
  /\ Become(j, "FAILED", attempt[j] + 1)
  /\ UNCHANGED results

Next == \E j \in Jobs : Create(j) \/ Start(j) \/ Finish(j) \/ Fail(j) \/ Refuse(j)

Spec == Init /\ [][Next]_vars

==============================================================================
