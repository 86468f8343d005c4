# A TLA+ model of mock-system

mock-system keeps HTTP mocks and derives new ones from them with a small DSL.
Three Go services do the work: `user-svc` (accounts, sessions, ownership and
grants), `mock-svc` (mocks, families, generations) and `dsl-runner-svc` (runs
DSL scripts). A Next.js frontend calls them. This directory holds TLA+
specifications of the parts whose correctness depends on the order of steps,
the TLC configurations that check them, and proofs that TLAPS checks.

    tlc -workers 2 -config MCJobWorkerFaults.cfg MCJobWorker
    tlapm JobWorkerProofs.tla

- [1. The system](#1-the-system)
- [2. The modules](#2-the-modules)
- [3. What the runs show](#3-what-the-runs-show)
- [4. What is proved](#4-what-is-proved)
- [5. Plan](#5-plan)
- [6. Not modelled](#6-not-modelled)

## 1. The system

How one generation goes through the system:

    user -> mock-svc StartGeneration: row QUEUED, goroutine runGeneration
              |  publish, key = job key          ^ poll result and status, 5 s
              v                                  |
            Kafka topic of jobs             HTTP API of dsl-runner-svc
              |                                  ^
              v                                  |
            dsl-runner-svc Consumer -> Process -> dsl_jobs, dsl_job_results
                                        -> Kafka topic of results (nobody reads it)
    mock-svc: one transaction stores mocks, search rows, outbox events, DONE
              |
              v
            OutboxWorker -> user-svc RegisterResource: owner of each mock

### Components

| component | state | operations | hard behaviour | what makes it correct |
|---|---|---|---|---|
| dsl-runner: consumer and worker (`kafka/consumer.go`, `application/worker.go`, `postgres/jobs.go`) | Kafka offsets and ownership of partitions; `dsl_jobs.status`, `attempt`; `dsl_job_results` | fetch, `CreateIfAbsent`, mark RUNNING, run, store result, publish, commit | eight consumers, redelivery, rebalances, crashes, calls that fail or whose answer is lost | attempts bounded; a DONE job has its result and stays DONE; every published job comes to an end |
| dsl-runner: HTTP API (`handlers/jobs.go`, `application/service.go`) | none | `GetJob`, `GetJobResult` | read while the worker writes | a result is shown exactly for a DONE job |
| dsl-runner: executor, expressions, parsers (`internal/dsl`) | loop variables, emitted mocks and bytes, random state of one run | `Run`, `runSteps`, `emit`, `EvalExpr`, `ParseScript` | nested loops, limits, time-out, determinism | loop variables, limits, seeds and the order of errors as the script says; a text is read as the steps it stands for |
| mock-svc: generations (`application/generations.go`, `service/dsl_runner_kafka.go`) | `generations.status`; a goroutine per generation | `StartGeneration`, `runGeneration`, `waitForResult`, `failGeneration` | the runner's retries, deadline, crash, lost answer to a commit | mocks all or not at all, from a finished valid result; settles |
| mock-svc: outbox (`application/outbox.go`, `postgres/outbox.go`, `service/auth_client.go`) | `outbox` rows, in the order of `next_attempt_at` | enqueue, `ListDue`, `RegisterResource`, `MarkDone`, `MarkAttempt` | crash between call and removal, late calls, dropped errors, retries without delay or end | no registration lost; a repeated one harmless; every mock registered in the end |
| mock-svc: mocks, families, search (`application/mocks.go`, `families.go`, `postgres/mock_search.go`) | `mocks`, `families`, `mock_search` | create, update, delete, list; create family, add mock, change primary | checks made before the transaction | the search row agrees with the mock; a primary belongs to its family |
| user-svc: accounts and sessions (`application/auth.go`, `postgres/sessions.go`) | `users`, `user_roles`, `sessions.refresh_hash`, `revoked_at` | register, log in, refresh, log out, `UpdateUser` | concurrent refreshes, refresh against logout, tokens older than a change | a replaced or revoked refresh token is refused |
| user-svc: resources and grants (`application/authz.go`, `postgres/resources.go`, `grants.go`) | `resources.owner_user_id`, `resource_grants` | register, check, list, grant, transfer | check of the owner and write apart | check and list agree; a repeated registration keeps the owner |
| frontend, Swagger, CORS, configuration, deployment | none of the server's | | | |

The hazards of this code, each at its line and with the properties that watch
it, are listed in `PROJECT.json`; those without a property say why there is none.

## 2. The modules

| module | what it is |
|---|---|
| `JobLifecycle` | abstract: what dsl-runner-svc promises about a job |
| `JobWorker` | producer, topic, consumer group, `JobHandler.Process`, the job tables |
| `JobWorkerProofs` | theorems about `JobWorker` |
| `Generation` | `runGeneration` of mock-svc on top of `JobLifecycle` |
| `GenerationProofs` | theorems about `Generation` |
| `Registration` | creation of mocks, outbox, `OutboxWorker`, resources of user-svc |
| `RegistrationProofs` | theorems about `Registration` |
| `MockStore` | mocks, families and the search index of mock-svc under concurrent requests |
| `MockStoreProofs` | theorems about `MockStore` |
| `Sessions` | users, roles and sessions of user-svc under concurrent requests |
| `SessionsProofs` | theorems about `Sessions` |
| `Access` | resources and grants of user-svc under concurrent requests |
| `AccessProofs` | theorems about `Access` |
| `ScriptValues` | the values of the language and their conversions |
| `ScriptParser` | the two parsers of scripts, as operators |
| `ScriptExpr` | the evaluation of expressions and paths, as operators |
| `ScriptExec` | `Executor.Run` over any parser and evaluator: the steps, the limits, the deadline |
| `ScriptExecProofs` | theorems about `ScriptExec` |
| `ScriptText` | what the text form is: the lexemes that stand for given steps |
| `ScriptMeaning` | what a script means, and what its answer has to be |
| `Pipeline` | mock-svc and dsl-runner-svc together: `JobWorker` with `Generation` over its tables |
| `PipelineProofs` | theorems about `Pipeline` |
| `MCJobWorker`, `MCPipeline`, `MCGeneration`, `MCRegistration`, `MCMockStore`, `MCSessions`, `MCAccess`, `MCScriptExec` | small instances for TLC |

`JobWorker` implements `JobLifecycle` (checked and proved); `Generation` uses
`JobLifecycle` as its runner (`Runner == INSTANCE JobLifecycle WITH ...`), so that what is
shown of generations rests on the promise and not on the details of the worker.
`Pipeline` closes the gap: the two together, with the real consumers in the place of
the promise, implement `Generation` (checked and proved), so that what holds of
generations over the promise holds of the system.
The promise is kept as long as the consumer group does not rebalance while messages
are processed; `Init` and `Crash` of `JobWorker` are the moment when all members
have joined. Section 3 says what a rebalance can break.

Each module has a section of *variants*: actions with one plausible mistake
each, which `Next` does not use. `PROJECT.json` pairs every property of every
passing run with a variant that breaks it.

### JobWorker and the code

- Every call to PostgreSQL or Kafka is a step; what happens between two calls
  belongs to the first. `pc[w]` says which call consumer `w` makes next: `create`
  (`CreateIfAbsent`), `start` (UpdateStatus to RUNNING), `execute`
  (`Executor.Run`), `fail` (`handleFailure`), `persist` (the transaction),
  `publish` (`publishResult`), `commit` (`CommitMessages`).
- A message is its job, or `Malformed` for what `handleMessage` and
  `validateJobMessage` refuse. The job id is derived from the job key, so both
  are one.
- `CreateIfAbsent` inserts, and reads the row on a conflict. Rows are never
  deleted, so both are one step: `InsertJob`, or `ResumeJob`, `FindDone`,
  `FindRunning` by the status found. `FindRunning` is the `continue` of
  `Consumer.Run`: the message is neither committed nor handed out again before
  a restart, but the commit of a later one passes it.
- `UpdateStatus` overwrites whatever is there, as its SQL does.
- `CallFails` is an error without effect, `AnswerLost` one after the call took
  effect. In both cases `Process` returns an error that is not transient, so
  the message is committed (`errors.go`, `IsTransient`).
- `Commit` of a consumer that lost its partition may still take effect.
- `Crash` is the end of the process, with all its consumers, by SIGTERM or
  otherwise: the cancelled context makes the pending calls fail. `Rebalance`
  assigns the partitions anew and re-reads from the committed offsets, while
  the consumers finish what they hold.
- `Publish` appends a job any number of times (within the bound): a user may ask
  for the same thing again, and the writer may repeat a message.
- The results topic is a set: no property is about order or copies in it. It holds what
  was sent: its writer waits for no acknowledgement, and nobody reads it.

### Generation and the code

- `gen` is `generations.status`, `step` the place of the goroutine: `mark`,
  `publish`, `poll` (GET result), `status` (GET job), `wait` (poll interval),
  `apply` (the transaction), `fail` (`failGeneration`).
- `derived` holds the generations whose transaction was committed. That one
  transaction stores every derived mock with its search row, its outbox event
  and its relationship, and the status DONE.
- The errors of the updates to RUNNING and FAILED are dropped, as in the code. A
  transaction that returns an error may have been committed: then `failGeneration`
  writes FAILED over DONE and the mocks stay. `AllOrNothing` names that exception
  and no other.
- `Expire` is the deadline of `pollCtx`; it ends the polling at any request or
  during the sleep. (With `dsl_runner_poll_timeout` below zero there is none;
  the default is 5 s.)
- The writer of `kafka_publisher.go` leaves `RequiredAcks` at its zero value, for which
  kafka-go waits for no acknowledgement. So `Publish` may lose the message and go on to
  poll, as well as return an error with the message written.
- `RunnerStep` lets the runner take any step of `JobLifecycle` on a job that was
  published. It may fail a job, be asked for it again, or never answer.

### Pipeline and the code

- The state is that of `JobWorker` with the goroutines of mock-svc. `Client` is
  `Generation` seen through the tables: `requested` is what has a message on the topic,
  `attempted` is `dsl_jobs.attempt` up to `MaxAttempts`. mock-svc reads the status and
  the result only, so a job that is refused once more looks the same to it.
- `ClientStep` is a step of `Generation` that leaves dsl-runner-svc alone; what the
  goroutine reads of a job is what is in the tables at that moment. `Ask` is the one
  step both see: the publication, with the message on the topic or without it.
- `RunnerStep` is a step of `JobWorker` that no goroutine asks for: the consumers,
  their crashes and failed calls, a message that cannot be decoded, and a job that the
  writer sends again (`Repeat`).
- `Rebalance` is left out: after one, a DONE job may be reopened (section 3), and
  nothing that mock-svc relies on is left. So is `PreviewGeneration`, whose jobs have
  other keys.

### Registration and the code

- `Create` is the transaction of `CreateMock` (one mock) or of a generation (any
  number). The owner in the event is `created_by`, which for a derived mock is
  the creator of its base.
- `nextAttemptAt` is the column of that name for the one event of each mock, and
  `outbox` the mocks that have one. `ListDue` takes the earliest `BatchSize` events
  (`Earliest`); those of one transaction have the same time and come in any order.
  `Create` picks any time, because `now()` is that of the start of a transaction and
  not of its commit.
- `MarkAttempt` changes nothing. Its UPDATE (`postgres/outbox.go:56-63`) has
  `($3 || ' seconds')::interval`, so PostgreSQL takes `$3` for text, and pgx does not
  encode the Go `int` it gets as text: the statement fails at every call, and
  `application/outbox.go:40` drops the error. So `attempts` stays 0, no event is
  postponed, `attempts < max_attempts` is always true, and an event is tried at every
  tick until it succeeds. Neither the attempts nor `max_attempts` are variables of the
  module.
- `RegisterResource` ends with success, or with an error after which the call may
  still be served (`ServeLate`): a time-out of the client, a lost answer and a
  call that never arrived are the same to the worker. Each such call may be
  served at any time later, or never.
- `InsertOrKeep` is the SQL of `ResourceRepository.Register`.
- `TransferOwner` is the administrators' `UpdateOwner`; it is what makes a late or
  repeated registration dangerous.

### MockStore and the code

- A request is a record in `req`: what it asks for and what it has read so far.
  Its `pc` names the next call: `access` (`AuthClient.CheckAccess`), `family`,
  `primary`, `mock` (single-row reads), `tx` (the transaction at the end), and for
  the queries `resources`, `search`, `fetch` and `members`. A transaction is one
  step, every read outside of one is another, as in `mocks.go` and `families.go`.
- What user-svc answers is free: any set of mocks may be readable, any check may be
  refused. Rights are the subject of `Access`.
- `Search` answers with a page: of what matches and may be read, as many as
  `PageLength` says for the `LIMIT` (50 when none is asked for, here `DefaultLimit`)
  and the `OFFSET`. Which ones is left open. The code orders by `updated_at`, which
  every write changes, and no property is about the order.
- A request that is refused forgets what it has read (`Refuse`).
- `Derive` is the transaction of `runGeneration`, with the row of the base mock as
  `StartGeneration` read it, however long ago.
- `JoinFamily`, `Insert`, `Upsert` and `UpdateSearch` are the SQL statements. The
  unique index on `families.primary_mock_id` is `PrimaryElsewhere`: it turns a
  transaction into `Refuse`.
- `raced`, `steady` and `once` are history. `raced` holds the mocks whose family was
  overwritten by a request that had read another one.

### Sessions and the code

- No operation of `auth.go` uses a transaction: each statement is a step. The only
  transaction, `ReplaceUserRoles`, is two steps, because under READ COMMITTED its
  DELETE sees the rows committed before it and its INSERT meets those committed
  since; the primary key of `user_roles` is the guard of `ReplaceRoles`.
- A refresh token is a session and a secret. A login stores the hash of the bare
  secret first and rotates it to that of the token, as `Login` does; `bare` tells
  the two apart, and no token matches a bare hash.
- `RotateRefresh` writes without looking at the row again. `Fail` is an error of a
  statement, or the end of the process.
- `RevokeFails` is an error of `RevokeByID` where the code drops it (`auth.go:77`, `110`,
  `114`, `171`): the answer is that of a revocation that succeeded, and the session
  stays open. Only a logout with the right token returns the error, which is `Fail`.
- `doomed` and `barred` remember that the token was bad when the request began, and
  that the user has not been active since; `lapsed`, that the request's own revocation
  failed.

### Access and the code

- `checkOwnerOrAdmin` is the step `CheckOwner`, the write or the list another, and the
  owner may change in between. An administrator passes without a look at the owner.
- `Effective` is the CASE of `GetAccess`, `ListByUser` the query of that name, a
  definition of its own because it is a query of its own.
- `InsertResource` and `SelectResource` are the two statements of `Register`. An
  insert that meets a row keeps it.
- `entitled` remembers whether the actor has owned the resource, or has been an
  administrator, at some time since the request began.

### Scripts and the code

- `ScriptParser` has one operator per parse function; what it returns is an error,
  or a value and the tokens left (`Try` is `if err != nil`). The lexer works on
  lexemes: words, numbers, strings, signs, blanks and comments, and `odd` for what
  it refuses. A negative number is no lexeme, as there is no minus sign (`Readable`).
  `ParseJSONStep` has the fields of each step and which are required.
- `ScriptExec` takes `ReadScript` and `EvalExpr` as constants; the configurations
  give them the values `ParseScript` of `ScriptParser` and `Eval` of `ScriptExpr`
  (through `MCEvalExpr`, which is the same). So what is proved of the executor rests on nothing in the parser or the evaluator, and
  on none of their recursion.
- `ScriptExec` keeps the calls of `runSteps` as a stack. A frame of a loop has the
  items still to come; `EndBlock` is what happens after a body: the next round with
  new loop variables, or the end, which clears them. `RunLet` .. `Emit` are the cases
  of `runSteps`.
- `Eval` of `ScriptExpr` is `evalValue`. What the generator draws is the parameter `Draw`
  of seed, number of the draw and range; a text made of draws (`randString`,
  `randUUID`) is told by its call and place. `get` takes a path or a string that spells
  one; which strings do is the parameter `Spelled`. `MockOf` keeps the order of `emit`: the name is evaluated
  and looked at before the other fields.
- `Parse` is `Run` up to `withTimeout`. An empty seed is a validation error. An empty
  script, and base and parameters that are not JSON, are refused by `Process` before
  it calls `Run` (`worker.go:27-43`), so no source has them.
- `Timeout` is the deadline of `withTimeout`. The goroutine goes on after it, and its
  steps are still those of `Next`; `Return` is what `Run` reads from the channel.
- `Meaning` and `Owed` of `ScriptMeaning` are the reference: loops bind their variables for the body
  only, and the limits cut what the script emits without them. They share the
  evaluation of an expression with the executor, and nothing of its control.

## 3. What the runs show

| run | question | instance |
|---|---|---|
| `worker_faults` | are the worker's safety properties kept with a crash, a failed or unanswered call and a rebalance at any point? | 2 jobs, 2 consumers, 1 partition, 2 attempts |
| `pipeline` | without rebalances, do the tables follow `JobLifecycle`, and does mock-svc over the real consumers behave as over that promise? | 2 generations of 1 job, 2 consumers |
| `worker_live` | does every published job settle, or is it orphaned by a crash, and is a DONE job announced? | 2 jobs, 2 consumers, a crash, a rebalance |
| `worker_failure_message` | is a FAILED job announced, as the schema of the results topic has it? **No.** | 1 finding |
| `generation_faults` | are generations safe with a shared job, an invalid result, a failed or unanswered call, a deadline and a crash? | 3 generations, 2 jobs |
| `generation_live` | does every generation settle, even if the runner never answers? | 2 generations of 1 job |
| `registration` | is no registration lost or reverted, and is every mock registered in the end? | 3 mocks, batches of 2, 2 users, 2 failed calls |
| `mock_store` | do mocks, families and index agree whatever requests overlap, and what does a list show? | 2 mocks, 2 families, any 3 requests, one of which may read |
| `sessions` | is a bad token never accepted, does it close its session, and are the roles those asked for? | 1 user, 2 sessions, any 3 requests |
| `access` | are grants changed only for those entitled, and do the two queries agree? | 3 users, 1 resource, any 3 requests |
| `scripts` | is the text read as the script, do loop variables belong to the loop that runs, and is the answer the one owed? | about 1,400 scripts, 3 pairs of limits |
| `script_loop_item` | does a path go on into `loop.item`? **No.** | 1 finding |

**Worker.** `ExecutionsBounded`, `DoneIsStored` and `DoneIsFinal` are what a user
of the API relies on. `ExecutionsBounded` and `DoneIsFinal` speak of jobs that two
consumers have never held at once: when the group rebalances while a consumer is
inside `Process`, another may get the same message, and since `UpdateStatus` is
unconditional a DONE job may go back to RUNNING or FAILED. `contended` records such
jobs, and `ContentionNeedsRebalance` shows that nothing but a rebalance makes one.
`CommittedWasStarted` says that offsets pass a job only once it was attempted,
as long as no call failed. `OrphanIsStuck` says what the code does *not* do: a row
left RUNNING by a crash or by a failed call is never repaired, because every
later message for it is taken for one that is being worked on.

**The findings.** The schema `dsl.results.v1.json:19` has results with status FAILED
and `publishResult` has a branch for them, but `Process` never calls it for a
failed job: the branch cannot be reached. The language document lists `loop.item`
among the roots of paths (`dsl-language.md:75`), but `ResolvePath` returns the item
at once and ignores what follows: `loop.item.name` is the whole item, without an
error. (The variable that a `for` binds does not have this problem.)

**Generations.** `FailureHasCause` covers the two readings of the polling loop: a
job that is not there yet (404) or is running (409) is waited for, and the status
FAILED ends it. That FAILED may be of an attempt made for an earlier generation
while the new request is about to be tried, so a retry by the user can fail at
once; the property allows for it (`failedOnce`) and shows that nothing else is
mistaken for a failure, and that a job DONE at the start never is. A generation
whose goroutine is lost stays QUEUED or RUNNING: no operation of mock-svc takes it up
again. `StrandingHasCause` says that only a crash or a failed call does that.

**The two services together.** `ImplementsGeneration` says that whatever happens to
the consumers (a crash in the middle of an attempt, a redelivered or repeated message,
a call that fails or whose answer is lost) looks to a polling goroutine like something
the lifecycle allows: a status that goes on, or that stays as it is. It would not if,
for instance, the status DONE and the result were two transactions: a goroutine could
then read DONE and find no result (`PersistStatusOnly`). A request whose message was
lost is no different from one that is never served, unless another generation asks
for the same job: then the goroutine takes that result.

**Registration.** `OwnerIsRightful` holds because `Register` keeps an existing row:
with `ON CONFLICT DO UPDATE` instead, TLC shows a late call taking a mock back
from its new owner. `NoEventLost` relates the two services: what user-svc has not
registered mock-svc still has an event for, although a call's answer may be lost, the
error of `MarkDone` is dropped and the batch in memory dies with the process.
`CreatedIsRegistered` is what an owner waits for. Since `MarkAttempt` never postpones
anything, a failed event is the earliest again in the next batch; batches are smaller
than the outbox here, and the younger events still get their turn once calls no longer
fail. The limit and the delay that the code means to put on retries have no effect
(section 2), so no property is about them.

**Mocks and families.** `SearchAgrees` holds after every transaction. The checks
of `families.go` come before the transaction, so a mock can be moved from the family
it has just joined: `MembersStay` and `PrimaryBelongs` say that this takes a request
that read the mock before, and is the only way a family gets a primary that is not
its own. `PrimaryIsActive` holds because the transaction itself updates the active
mock only. `AnswersBetween` is what a query can promise that joins three reads: nothing
that never matched or may not be read, and, for a family, all that matched throughout.
A list is a page. If all that ever matched fit up to the end of the page, it misses no
more of what matched throughout than it was asked to skip. If more match, which by
default takes more than 50, the rest is not on the page, and that is all that can be said: the
order is by `updated_at`, so writes between two pages may show a mock twice or never.

**Sessions.** Two refreshes with one token at the same time may both be answered,
since `RotateRefresh` does not compare the old hash; the later one wins. `NoReplay`
is what remains true: a request that begins with a token that is already replaced,
revoked or expired is refused in every interleaving. `BadTokenRevokes`: presenting
such a token closes the session, and so does a logout, unless the revocation itself
failed. The code drops that error, so a client whose bad token was rejected, or whose
logout with a replaced token succeeded, may leave the session open without being told.
`RolesAsAsked`: the second of two replacements at the same time does not see what the
first inserts, so both lists may be left; but the list committed last is always there
in full, and without an overlap nothing else is.

**Access.** `EntitledOnly` tolerates exactly the window between check and write: who
was the owner at some moment of the request may still succeed.

**Scripts.** `TextMeansScript` prints each script in a style with every optional
sign and in one with none and parses both back; for the texts, it also removes each
lexeme in turn, and what is still accepted must be the text of other steps. Steps with
a negative number have no text (`HasText`): both styles of them are refused.
`RunsAsWritten` compares the executor with `Owed` on every answered script. It
excepts scripts that read `loop.index` or `loop.item` after an inner loop
(`InScope`): there the executor has cleared the variables, `loop.index` is an error
and `loop.item` silently null. The names bound by a `for` of the text form are not
affected. TLC finds the difference at once when the exception is dropped.
`LoopVariables` is what the executor keeps in every script, the excepted ones
included: when a loop variable is set, it is the one of the innermost loop that is
running, at the round it is in. So a script can miss its own variable after an inner
loop, but never read that of another.

### Bounds

Two jobs and two consumers are enough for contention, for commits that pass
another message, and for redelivery behind a finished job. Two attempts distinguish
the first, a retry and a refused one. Two messages per partition give a repeated
request or two different ones; the order between them is free. One crash, one
fault and one rebalance may fall between any two steps. The same
instance with more of each is beyond a short run, and the theorems do not
depend on them. Generations: three with two jobs, so that two share a job and one
gets an invalid result. In `pipeline` two generations share the only job, with one
crash and one failed call on each side, so that a result asked for by one may serve the
other, and a retry may meet any state of the row. Registration: three mocks and batches of two, so that an event
may have to wait for failed ones; two times, so that events come in an order, or two at
the same time; two failed calls, so that a batch may fail as a whole or an event
twice; two users make a transfer visible. Requests on mocks, sessions and
resources: any three of all kinds at once, which is one more than any of the races
needs (of those on mocks at most one reads, since a read changes nothing for the others;
its page has one mock or two, and may skip one), over the smallest tables in which they can meet (two families to move between;
two sessions, one of them open at the beginning or opened by a login; a user who
owns, one who does not and an administrator). Scripts: every pair of nested loops of
three kinds with each of five statements before, inside and after the inner loop,
two rounds each, and a list of scripts for errors, limits, paths and functions. `MaxRefusals` only bounds how
far a used-up job goes on counting requests.

`CHECK_DEADLOCK FALSE`: the systems come to rest. When the bounded producers,
users, crashes and faults are used up, consumers wait in `FetchMessage`, the
outbox worker for the ticker, and no goroutine is left. Requests and scripts end.

### Fairness

- `worker_live`: weak fairness of each consumer's fetch and of its steps. The
  calls return (they have time-outs, the executor too), and a goroutine that is
  ready runs. Crashes, rebalances, publishing and failing calls are not fair. The
  instance has no failing call, since one can end a job RUNNING.
- `generation_live`: weak fairness of each goroutine and of its deadline. Time
  passes, so the deadline of `pollCtx` comes while the polling goes on. Nothing is
  assumed of dsl-runner-svc, and calls may fail.
- `registration`: weak fairness of the worker (the ticker goes on firing, the
  HTTP client has a time-out). At most `MaxFaults` calls fail. Calls given up need not be
  served.

## 4. What is proved

TLAPS checks the following for all values of the constants (any jobs, consumers,
partitions, generations and bounds) under the named assumptions of the modules:
at least one consumer and one partition, a balancer that maps every job to a
partition, a positive number of attempts, bounds that are natural numbers.

`JobWorkerProofs`:

| theorem | says |
|---|---|
| `TypeCorrect` | types, and that a busy consumer holds a published message |
| `DoneIsStoredAlways` | a DONE or announced job has its result |
| `ExecutionsBoundedAlways` | a job never held twice is executed at most `MaxAttempts` times |
| `DoneIsFinalAlways` | no step reopens a DONE job never held twice |
| `InductiveAlways` | the inductive invariant itself |
| `CommittedWasStartedAlways` | without failed calls, a committed job was attempted |
| `OrphanIsStuckAlways` | nothing repairs an orphaned row |
| `ContentionNeedsRebalanceAlways` | only a rebalance makes two consumers hold a job |
| `Refinement` | with `MaxRebalances = 0`, `Spec => ImplementsLifecycle` |

The argument. The invariants above are not inductive; `Inductive` is, with `TypeOK`.
Its parts, each with a lemma per step: `HeldInv` (a busy consumer holds a published
message, and past `create` that message is a job), `FreshInv` (a job never
attempted counts no attempt), `RouteInv` (a job is only in its own partition), `OwnerInv` (until a rebalance, who holds a message of a
partition owns it, so nobody else can fetch), `SoleHolderInv` (for a job never held
twice, the local attempt of its only holder agrees with the row, and executions
with attempts), `StoredInv` (the result is stored before anyone announces it) and
`OffsetInv` (while no call has failed, what lies before an offset was attempted, but
for the message its owner has just fetched). The refinement takes `TypeOK`, `HeldInv`, `SoleHolderInv` and `OwnerInv`:
without a rebalance every job has one holder, its local attempt is the row's, and
each of its updates is a step of `JobLifecycle`.

`GenerationProofs`:

| theorem | says |
|---|---|
| `TypeCorrect` | types; only a stored generation has a goroutine |
| `SafetyCorrect` | the three invariants below with the inductive one |
| `AllOrNothingAlways` | DONE exactly when the mocks are stored, but for a lost answer |
| `DerivedFromDoneJobAlways` | mocks come from valid results of finished jobs |
| `FailureHasCauseAlways` | no failure without a cause |
| `StrandingHasCauseAlways` | while nothing has crashed, only a failed call strands a generation |

The argument. `StepInv` records what the goroutine has established at each step (a
finished valid result at `apply`, a cause at `fail`), `StoredInv` that nothing is
derived before the transaction and that a job seen DONE at the start is DONE.
`JobsKnown` says that a job with a row was asked for: not always by the goroutine that
polls for it, whose own message may have been lost. `JobsAdvanceStep` is the only lemma about the
runner: a job that is DONE stays DONE, results and requests are never removed, and
`JobsKnown` is kept. It follows from `JobLifecycle`, and gives
`SafeWhileIdle` (generations that do not move) and, action by action,
`SafeWhileRunning`.

`PipelineProofs`:

| theorem | says |
|---|---|
| `ImplementsJobWorker` | the system implements `JobWorker`: all that is proved of the consumers for any producer holds with mock-svc as the producer |
| `SystemRefinement` | the system implements `Generation` (`ImplementsGeneration`) |
| `SystemAllOrNothing`, `SystemFailureHasCause` | two theorems about `Generation`, for the system |
| `DerivedFromExecutionAlways` | every derived mock comes from a script that a consumer has run, at least once and at most `MaxAttempts` times |

The argument. A step of mock-svc leaves the variables of `JobWorker` alone, but for the
publication, which is its `Publish` or nothing (`WorkerStep`). So the invariants of the
consumers hold, and since the system has no `Rebalance` no job is contended (`Calm`). A
consumer's update is then a step of `JobLifecycle` (`LifecycleStep`). For it to be
one of `Client`, the job must have been asked for, which is so because its consumer
holds a message of it (`HeldRequested`), and no other step of the consumers may ask for
a job (`RequestedStays`). Attempts are counted up to `MaxAttempts` (`AttemptedStep`),
so that a refusal is a stuttering step: `Client` has no bound on refusals to run into.
`FailuresKnown` is needed for the history `failedOnce` to stutter with the tables. The
theorems about `Generation` then hold of `Client` (`ClientProofs`, an instance of
`GenerationProofs`; `SameClient` says that it is the same specification).
`DerivedFromExecutionAlways` takes the result of a derived mock from `Generation`, its
execution from `ExecutedInv` of `JobWorkerProofs` and the bound from
`ExecutionsBounded`: it joins the two services and neither could state it alone. The
assumption, beside those of `JobWorker`, is that every generation has a job.

`AccessProofs`:

| theorem | says |
|---|---|
| `TypeCorrect` | types; grants only on registered resources |
| `OnlyTheEntitled` | `EntitledOnly` for any users, resources and requests |
| `QueriesAgree` | the list and the check agree |

The argument. `IInv` is `TypeOK` with: a request that has passed the check is entitled
(`EntitledFromCheck`), the owner is entitled in every request of his on the resource
(`OwnersEntitled`, which a transfer keeps because it marks the new owner's requests),
a request past its arrival names its resource and user (`Addressed`,
`ChecksAddressed`), and no request is at a step of another kind of operation
(`Routed`). `QueriesAgree` follows from the definitions of the two queries and the
types.

`SessionsProofs`:

| theorem | says |
|---|---|
| `TypeCorrect` | types; no two rows for a role of a user |
| `RefreshOnce` | `NoReplay` for any users, sessions and requests |
| `Closed` | `BadTokenRevokes`: a bad token closes its session, unless that revocation failed |
| `LastListWins` | `RolesAsAsked`: the list committed last is there in full, and alone without an overlap |

The argument. A refresh reads the session in one statement and writes it three later,
so `NoReplay` needs to know why a token that was bad stays bad in between. Its secret
is that of a request that has ended (`TokenSpent`), `RotateRefresh` only writes the
secret of one that has not, and a row is never made unrevoked or unexpired
(`SessionsGrow`, which every step satisfies). So a request that began with a bad token
is still at the session or has been turned away (`DoomedStopped`), and one whose user
has not been active since it began is still at the session or the user
(`BarredStopped`; a step that makes the user active ends the "since"). `Routed` and
`Addressed` say which statements belong to which operation and that a request knows
its session and user. For the roles, `Replacers` says that a replacement which is
alone for its user has seen all the rows there are; what one that is not alone keeps
comes on top of its own list.

The assumptions are that `USER` is a role, that `First` is no request, that `None` is
no user, session or row of `sessions`, and nothing on how many of each there are.

`RegistrationProofs`:

| theorem | says |
|---|---|
| `TypeCorrect` | types; events only of created mocks, and batches of at most `BatchSize` different ones |
| `OwnerIsRightfulAlways` | a late or repeated registration never takes a mock back |
| `NoEventLostAlways` | a created mock is registered or has its event |

The argument. `OwnerIsRightful` speaks of registered mocks; what a late call may
write is known only from `CreatedFirst`: until a mock is registered nobody but its
creator has a right to it, so the first call to arrive, whichever it is, writes the
right owner and all others find a row. `InHand` says that an event of the current
batch is still in the outbox, so that `MarkDone` meets the event it was read for; here
it matters that a batch has no event twice. `Marked` says that an event is marked done only after its mock was
registered. `Counted` bounds the late calls by the faults and crashes, which is what
their type needs. The assumptions are that a batch is at least 1, that the bounds are
natural numbers and that `NoUser` is no user.

`MockStoreProofs`:

| theorem | says |
|---|---|
| `TypeCorrect` | types |
| `SearchAgreesAlways` | the search row of a mock is the one its row asks for |
| `PrimaryBelongsAlways` | a primary that is not of its family was moved by a request that had read it before |
| `MembersStayAlways` | a mock leaves a family only by a request that read it before it came there |
| `PrimaryIsActiveAlways` | a mock becomes primary only while it is active |
| `AnswersBetweenAlways` | a query shows nothing that never matched, a family all that matched throughout, a page that reaches far enough all but those it was to skip |

The argument. `WellFormed` says what a request knows at each point: it names its
mock and its family, and one that is about to move a mock has read a row in no
family or in the one it is to join. That row may be out of date; a transaction that
contradicts the row of now enters the mock in `raced`, which is the exception of both
properties. `GoodWrite` is what a transaction may do to rows, primaries and index,
proved of each statement (`InsertGood`, `ChangeGood`, `JoinGood`), and `WriteIInv`
that such a write keeps the invariant whoever else is under way. `Answering` is the
inductive form of `AnswersBetween`: before the answer, what matched throughout
matches now, what matches now has matched, and the rows found so far lie between the
two, or miss what the page does. A page is counted, so `PageAnswers` needs the
cardinalities of `FiniteSetTheorems`, and with them that there are finitely many mocks. `PrimaryExists` keeps a new mock from getting the id of a primary. The
other assumptions are that `None` is not a row and that limits and offsets are natural
numbers, the default limit a positive one.

`ScriptExecProofs`:

| theorem | says |
|---|---|
| `TypeCorrect` | types, and that an answer keeps the limits on mocks and bytes, with seeds in order |
| `LoopVariablesAlways` | a loop variable that is set is that of the innermost loop |

The argument. `Emitted` has the limits as the executor keeps them: the count before
each emit, the bytes after it, with `result_too_large` as the only way past
`MaxBytes`. That `bytes` is the size of all mocks needs the sum over a sequence with
one more mock; the sum is a recursive function, and `SumsAgree` and `SumsExist` prove
what it yields from the least number for which they would fail (`LeastNumber`, from
the well-foundedness of the naturals). `Loops` has the frames and
`LoopVariables`: a block that is entered or left inside a loop keeps its variables,
a loop entered or at its next round sets them, and one that ends clears them
(`EnterBlock`, `EnterLoop`, `EndBlockLoops`). The theorems hold of any `ReadScript` and
`EvalExpr`; the assumptions are that limits are integers, and that the defaults are
positive and within the caps.

Only model-checked, and why:

- `JobsSettleOrAreOrphaned`, `DoneIsAnnounced`, `GenerationsSettle` and
  `CreatedIsRegistered` are liveness under fairness, which TLAPS does not prove.
- `TextMeansScript` and `RunsAsWritten` compare recursive operators on scripts
  (`ParseScript`, `Eval`, `Meaning`), so what they compute for every script is
  induction over data.
- That the instances of section 3 are large enough is an argument, not a theorem. The
  theorems above do not depend on it.

## 5. Plan

1. *(done)* `JobLifecycle`, `JobWorker`, their runs, invariant and refinement.
2. *(done)* `Generation` over `JobLifecycle`, with proofs. `Registration`.
3. *(done)* `MockStore`, `Sessions`, `Access`, each with a run; proofs about `Access`
   and `Sessions`.
4. *(done)* `ScriptParser`, `ScriptText` and `ScriptExec` with a reference semantics.
5. *(done)* Proofs about `Registration`, `MockStore` and `ScriptExec`.
6. *(done)* `Pipeline`: the two services together, with the refinement proved.
7. Left: an abstract store of mocks with atomic requests, and which races refine it;
   `Access` composed with `Registration` through the owner.

## 6. Not modelled

- Data that decides nothing: names, payloads, hashes, timestamps other than the
  order they give, error texts, logging.
- `PreviewGeneration`: it publishes a job with its own key and stores nothing in
  mock-svc. To dsl-runner-svc it is one more `Publish`.
- Access checks before a generation is stored: they change nothing.
- Fractions, the characters of a text below its lexemes, `join`, `lower`, `upper` and
  `sha256` of the DSL: computation over texts and numbers. The xorshift generator and
  the canonical hashes: a value is told by its inputs.
- Access tokens: a request has a caller; when the token expires is not modelled.
- The frontend, Swagger, CORS, configuration, start-up, deployment: presentation,
  static documents or pure I/O. One process per service is assumed, as in the
  repository's task and compose files.
- `audit_log`: no code writes to it.
