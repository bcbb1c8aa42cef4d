# TLA+ verification of cn_backend

`cn_backend` is the backend of an online code judge: a NestJS API over one
relational database (Prisma), a BullMQ queue in Redis, and judge workers that run
submitted code in docker. This directory holds TLA+ modules translated from
its source, the TLC configurations that check them on small instances, and
theorems proved with TLAPS. Paths below are relative to the repository.

- [The system](#the-system)
- [What is modelled, and how](#what-is-modelled-and-how)
- [Properties](#properties)
- [Runs](#runs)
- [Where the code and its documentation differ](#where-the-code-and-its-documentation-differ)
- [Fairness](#fairness)
- [Proofs](#proofs)
- [Not modelled](#not-modelled)
- [Plan](#plan)

## The system

| Component | State it keeps | Operations | Talks to |
|---|---|---|---|
| submissions API (`src/submissions`) | a row per submission | create, read | queue producer, database |
| queue producer (`src/judge/judge-queue.service.ts`) | drivers `redis` and `inline`, active count | enqueueSubmission, runSample, getStats | BullMQ, or the processor directly |
| BullMQ/Redis (library) | jobs: state, attempts, stalled count, lock | add, take, complete, fail, promote, stall, remove | workers |
| judge worker (`judge-worker.service.ts`) | `JUDGE_CONCURRENCY` executions | job callback | BullMQ, processor |
| job processor (`judge-job.processor.ts`) | per execution: position, verdict so far | processSubmission, runSample | database, sandbox |
| recovery (`judge-recovery.service.ts`) | the list of stuck rows it read | on boot of every process | database, queue producer |
| sandbox (`judge.service.ts`) | a docker child process, a timer, output buffers | run | docker |
| problems (`src/problems`) | problems, test cases, assignments | CRUD, assign, analytics | database |
| interviews, candidates, assignments (`src/interviews`, `src/interview-candidates`, `src/assignments`) | interviews, who takes part and when, problems assigned | create with drawn problems, times, removal with cascade | database |
| accounts (`src/auth`, `src/users`) | users, unique names and e-mails, roles | sign-up, login, listings | database |
| leaderboard (`src/leaderboard`) | reads `solvedCount`, `rating` | getRankings | database |
| configuration (`src/config/env.ts`) | environment | validation, driver choice | all |
| metrics, health, stress reports, internal API, HTTP plumbing | counters, reports | reads and reports | queue, database |

Processes are the API and the workers; each runs the recovery on boot
(`JudgeModule` is part of both). They share the database and Redis and nothing
else. There is no transaction over both, and within the database only the
credit of an accepted submission, the update of a problem and the creation of an
interview are transactions: every other pair of awaits may be separated by
another process's step, another request's step, a crash or a failure.

**Hard behaviours.** The row of a submission is written by four actors that do
not lock it: the POST handler, its catch block, the execution that judges it, and
the recovery of whatever process boots. Jobs are delivered at least once, retried
after errors, redelivered after a crash, and remembered in Redis after they
ended. The statistics of a user are written after the verdict and not with it.
A sandbox run is a child process that ends when it likes. Handlers check first and
write later, and the tables can change at every await between the two. The API
container starts with a script that wipes the database while the worker goes on,
and everything that looks at the system from outside (docker's health check,
Prometheus) sees it through dependencies that are away at times.

**What makes each component right.** *Pipeline*: a submission accepted for
judging gets one verdict, with its score and time; nobody judges it twice at the
same time; a problem counts once for its solver; nothing is lost unless BullMQ
gave up. *Sandbox*: one result per run, nothing left behind, and only the host's
failures fail a job. *Sample runs*: every call is answered, and with the result its
job keeps. *Problems*: no problem is ever without test cases; no assignment or
submission for a problem deleted before it was asked for. *Interviews*: whole or not
there at all; an end is before its start only after a race; no candidate or
assignment survives its interview. *Accounts*: unique names and e-mails. *Views*: a
page is a page of its total. *Stress reports*: what is counted is assessed.
*Deployment*: the seed script restores its state from wherever it was stopped; an
outage shows in the health status, and so does its end; a scrape shows what was the
case.

## What is modelled, and how

Three compositions, with little in common but the ids: the judge pipeline, the run
of a sample in the sandbox, and the API's requests; and the deployment's monitoring.

| Module | Lines it models | Contents |
|---|---|---|
| `JudgeBase` | – | submissions, executors, and the fault budget every judge module uses |
| `SubmissionStatus` | `submission-status.ts`, `mapJudgeStatus` | statuses, the terminal set, the mapping of sandbox results |
| `JudgeProcessor` | `judge-job.processor.ts` | the columns `status`, `finishedAt`, `score`, the user's `solvedCount`, and one execution per executor |
| `BullQueue` | `enqueueSubmission`, `defaultJobOptions`; the rest is the library | job state, attempts, stalls, lock |
| `JudgePipeline` | `SubmissionsService.create`, `JudgeWorkerService`, `JudgeRecoveryService` | composes the two above with the processes |
| `SubmissionLifecycle` | – | the abstract specification of the pipeline |
| `Sandbox` | `judge.service.ts` | one run per executor: directory, docker child, timer, SIGTERM, output limit, result |
| `SampleRun` | `JudgeController.runSample`, `JudgeQueueService.runSample`, the worker's callback and close | composes `BullQueue` and `Sandbox` with the calls and the worker process |
| `Requests` | `LoggingInterceptor`, `GlobalHttpExceptionFilter` | what all handlers share: awaits, replies, the counted status |
| `Accounts` | `src/auth`, `internal-auth.guard.ts` | users, sign-up, log-in, guards and roles |
| `Problems` | `src/problems`, the lookup of `SubmissionsService.create`, `src/internal` | problems, test cases, assignments, submissions |
| `Interviews` | `src/interviews`, `src/interview-candidates`, `src/assignments` | interviews, candidates with their windows, assignments |
| `StressReports` | `src/stress-test-reports` | reports, their assessment, the summary |
| `Views` | `findAll` of users, problems and interviews, `LeaderboardService`, `ProblemsService.findOne`, `pagination.ts` | pages with their totals, analytics |
| `SeedScript` | `prisma/seed.ts`, `docker-compose.yml` | the start of the API container |
| `Backend` | – | composes the seven above; their properties |
| `Monitoring` | `HealthController.readiness`, `isReady`, `MetricsController`, `docker-compose.yml` | the container's health status, scrapes and gauges |
| `MCJudgePipeline`, `MCSampleRun`, `MCBackend`, `MCMonitoring` | – | constants of the runs |
| `JudgePipelineProofs`, `JudgeDeploymentProofs`, `JudgeRefinementProofs`, `SampleRunProofs`, `MonitoringProofs`, `BackendProofs`, `BackendCountProofs` | – | theorems |

Definitions commented as *variants* are what the code would be with a plausible
mistake; no specification uses them. Each property is violated by one of them,
which shows that it says something about the code.

### The judge pipeline

**State.** `status[s]`, `finished[s]` (finishedAt is set) and `score[s]` are the
row; `Absent` means it has not been inserted. `solvedCount[u]` is the user's
column; `rating` is always ten times it (they are incremented by the same
statement) and left out. `pc`, `cur`, `left`, `final` are the local state of one
execution of `processSubmission`: where it is, its submission, the test cases
left, `finalStatus`. `api[s]` is where the POST handler of `s` is (`answered`
202, `refused` 503, `errored` an unhandled database error, `dropped` by a crash).
`proc[p]` and `stuck[p]` are a process and the list its recovery holds.

**Steps.** Each await that touches shared state is one action, so everything may
happen between two of them. What is merged: the load of the test cases with
the marking of the row as RUNNING (nothing in the model writes test cases); the
lookup of the problem and the insert of the row; the credit transaction, which is
one step at its count (its increment is atomic in the database, so it commutes
with every other action). The guard of `processSubmission` is evaluated when the row is
read (`SkipTerminal`, `ReadOpen`) and never again, as in the code. `RunCase` is
one sandbox run; its result is any member of `JudgeResults`, and the first that is
not ACCEPTED ends the loop. `JudgingThrows`, `WriteFailure` and
`FailureWriteThrows` are the try/catch; a failure in `credit` is one after the
verdict was committed. `EarlyFailure` is a failure before the try block.

**Queue.** The job id is the submission id; `AddJob` does nothing when a job
with the id exists in any state, also `completed` or `failed` until it is removed
(`removeOnComplete`, `removeOnFail`). `EndJob` completes or fails a job only for
the executor that still owns its lock. A failed attempt goes to `delayed` while
attempts are left. `StallJob` moves an active job whose lock expired back to
waiting, or to `failed` when it stalled more than `MaxStalled` (BullMQ's default
1) times. These are the semantics of the locked version, BullMQ 5.77.6.

**Faults.** `FaultLimit[k]` bounds how often each kind strikes: crashes of the API
and of a worker, database errors seen by either, a rejected `queue.add` (with the
job added or not), a lock that expires under a running execution, the removal of
an ended job. The proofs leave the limits arbitrary. A crash of a worker stops its
executions at any await and leaves their jobs active. `Boot` is docker's
`restart: unless-stopped`; the recovery then scans once and resets and requeues
row by row before the process is up (Nest awaits `onModuleInit` of `JudgeModule`
before the worker takes jobs or the API listens). The cutoff of the scan is any point in
creation order, so every `JUDGE_STUCK_AFTER_SECONDS` is covered; submissions are
numbered in creation order. An error in the recovery ends the process: a crash.

**Left out of these modules.** `judgeJobId`, `startedAt`, `queuedAt`,
`attempts`, `lastError`, messages and times are written and never read by the
control flow. The NotFound branch of the processor is unreachable, since rows are
never deleted. A database call that fails is not committed (the queue's is allowed both
outcomes). There is one API process.

### Sample runs and the sandbox

**State.** `run[e]` is where the run of an executor is in `JudgeService.run`; `timer`,
`term`, `tooLarge` are the locals of `runDocker`, `workdir[e]` the run's temporary
directory, `result[e]` the status of its `JudgeResult`, and `litter` counts directories
nobody will remove. `call[c]` and `answer[c]` are a POST /judge/run; `value[c]` is the
return value Redis keeps; `worker` is the worker process; `tally` is
`judge_jobs_total` started minus completed minus failed.

**Steps.** `mkdtemp` is outside the try block, so its failure makes the run throw
(`MakeWorkdirFails`); a failed write or spawn is a result (`PrepareFails`); a failed
`rm` in the finally block loses the result and throws (`RemoveWorkdirFails`). The
timer and the output limit send SIGTERM and change nothing else; only `ChildCloses`
settles the run, and how the child closes is its own business. From the code it
follows, and is in the model, that a program that is stopped and exits with 143 is a
RUNTIME_ERROR and not a time-out, that an exit code 0 after the limit counts, and that
a run stopped for its output is reported as a time-out if the signal ends the client.
`SampleTimesOut` leaves the job as it is. With the inline driver the API process runs
the sandbox itself and has no time limit for the call.

**Faults.** `host` is a failing file operation or spawn; `workerCrash`, `lockLoss`,
`queue` are as above; `shutdown` is the graceful close; `apiCrash` is a crash of an API
that has inline runs; `unreadInput` (`InputUnread`) is a program that ends before it has
taken its input: `runDocker` writes to `child.stdin` without a listener for its 'error'
(`judge.service.ts:355`), so the process that runs the sandbox goes down, the worker with
its jobs left active or the API with its inline runs. In the pipeline it is one of the
causes of `WorkerCrash`.

### Requests

**State.** The tables with the columns that guards, keys and other requests look at;
`at[r]` and `local[r]` are where a handler is and what it has read; `answer[r]` and
`counted[r]` are the status of the response and the status it is counted under;
`raced[r]` remembers whether another request wrote since this one's first read;
`gone[r]` the problems that were deleted when it began; `boot` is the step of the
start-up script.

**Steps.** A handler's database calls are a step each, transactions and the
insert with its unique and foreign keys included: SQLite runs one at a time. An
error code (P2002, P2003, P2025) is the answer the handler's catch block makes of it, or
500 if nothing catches it. The ids of rows are the requests that made them.
Promise.all is a choice of order (`DrawProblems`, `ListCounts`, `ListTakes`). Who else
writes the status of a submission is `StatusWritten`: the processor (`MarkedRunning`,
`Judged`), its catch block or that of a POST (`Failed`) and a recovery (`Requeued`), each
at any time and over any status, so that a verdict may be taken back or replaced as often
as the pipeline's faults allow and more; their order is the pipeline's subject. Seeded
submissions are terminal and have no job, so none of these writes them. A request may ask
for any number of problems of a difficulty in `GivenCounts`, an arbitrary set of natural
numbers (as `normalizeProblemCounts` admits any); the runs take 0, 1 and 2. Values that no guard
looks at (titles, texts, names of job roles) are left out. `update` of a problem
writes fields only; a deleted problem can be updated and deleted again. That an interview's
candidate has the role CANDIDATE is checked by two of the three handlers that ask for one,
and so in the model.

**Seed.** `SeedStep` follows the script's calls: one step deletes a table's rows or creates
one row (the test cases of one problem are a single `createMany`), so the script may be
stopped between any two of them, in the middle of a table too. Tables come in the script's
order, rows of one table in any. The sample submissions and assignments are the constants
`SampleSubmissions` and `SampleAssignments`; a database that was seeded already holds them
initially. Handlers in flight are dropped with the process; reports
are not wiped.

### Monitoring

**State.** `redis`, `db`: whether they are reached; `open`: submissions that wait, each
with a job; `schema`; `api`: the step of the container's command; `health`: docker's
status, failed probes and start_period; `probe`: where the readiness handler is;
`gauge`: the registry; `scrape[s]`: the refreshes a scrape still waits for and, as a
history, the gauges that were right at some time since it began.

**Steps.** The readiness handler counts rows in a try block and then pings Redis. The
connection is made with `maxRetriesPerRequest: null`, so the ping waits until Redis is
back: the handler never answers DOWN for Redis, docker's five seconds end the probe
(`ProbeTimesOut`, only while something is away, since the handler takes
milliseconds otherwise). The queue's own connection has the default of 20 retries, so
`getStats` fails and keeps the old gauges (`QueueRefreshFails`); until then the scrape
waits. A database that is away sets its gauges to 0.

## Properties

| Property | Kind | Says |
|---|---|---|
| `TypeOK` | type | includes: a job is active exactly while an executor holds its lock, a live job has attempts and stalls left |
| `ExclusiveExecution` | invariant | no two executors hold one submission (while locks are renewed) |
| `ScoreMatchesVerdict` | invariant | a finished row scores 100 iff ACCEPTED, also after the credit failed |
| `CompletedJobIsJudged` | invariant | a completed job left a terminal row with finishedAt |
| `NoOvercredit` | invariant | solvedCount never exceeds the problems solved, across crashes, retries, redeliveries |
| `NothingForgotten` | invariant | an open row has a running POST or a live job, unless BullMQ gave up or the POST was cut off |
| `AcceptedIsEarned` | invariant | nothing is accepted with a test case left or with no test case |
| `VerdictIsFinal` | action | a finished row only changes when the credit of its own accepted run failed |
| `ImplementsLifecycle` | refinement | verdicts and credits behave as `SubmissionLifecycle` |
| `AnsweredIsJudged` | liveness | 202 leads to a verdict that stays, for a submission whose programs end and as long as those of the others leave a slot |
| `SampleTypeOK` | type | includes: an executor is idle iff it has no job; a run that is cleaned up or returned has a result |
| `NothingLeftBehind` | invariant | no timer or directory outlives its run; directories that stay are accounted for by failed removals and processes that died |
| `OnlyHostFailsJobs` | invariant | attempts are used up by failures of the host only, never by what a program does |
| `CloseDrains` | invariant | jobs are redelivered only after the worker died (also of an unread input) or lost a lock, never after a close |
| `CountersAddUp` | invariant | started = completed + failed + running |
| `AnswerIsKept` | invariant | a call's answer stays the result its job keeps, whatever runs again |
| `CallsEnd`, `JobsEnd` | liveness | queued calls are answered; queued jobs end if programs obey SIGTERM |
| `BackendTypeOK` | type | includes: a settled request keeps nothing |
| `TablesConsistent` | invariant | no dangling reference and no duplicate key, whatever races and wherever the seed script stops |
| `ServerErrorsAreRaces` | action | a 500 takes another request's write between the handler's read and its own |
| `DeletedProblemsRest` | invariant | no row is made for a problem by a request that came after its deletion |
| `TestsNeverEmpty` | invariant | no problem is without test cases while the API is up, and no reader gets none |
| `InterviewIsWhole` | action | an interview is made with its candidate and as many different problems of each difficulty as were asked for, or not at all |
| `WindowNeedsStaleRead` | action | an invalid window takes an update that read an older row; shown times always add up |
| `SeedRestores` | action | no wipe is blocked, and a script that ends has restored the seeded rows and only them |
| `SummaryIsCovered` | invariant | every endpoint counted is assessed over no fewer reports; the assessment is monotone in the figures |
| `ViewsAreConsistent` | invariant | pages agree with totals unless another request wrote between; analytics miss no submission and count none twice, though statuses are written and taken back meanwhile |
| `MonitoringTypeOK` | type | includes: no probe or scrape without a listening process |
| `WorkerNeedsSchema` | invariant | the worker starts on a migrated database only |
| `GaugesAreFresh` | action | an answered scrape shows values that were right while it was in flight |
| `OutageIsNoticed`, `RecoveryIsNoticed` | liveness | a lasting outage ends the healthy status; its end, with the process staying up, restores it |

`SubmissionLifecycle` is what the owner of a submission can rely on: *open*, then
one verdict; a rejection is final; an acceptance is *provisional* until its credit is
settled, lost with the worker, or taken back. The refinement mapping derives the
verdict from the row and, for the provisional part, from the execution that is still
at it.

## Runs

The pipeline's runs have two submissions and two executors, numbers that let two
executions of the same row, or of two rows of the same user, overlap; a third
submission adds no new pair of actors. Deadlock is checked in all runs: `Rest`
is enabled only when every POST, call or request is over, every job ended and every
process is up; `Monitoring` never stops.

| Run | Instance | Shows |
|---|---|---|
| `worker_faults` | one worker with two slots, one problem, two attempts; one worker crash, two database errors, one job removed | all safety properties of the worker's side and the refinement, through a crash, its recovery, redelivery and a retry |
| `liveness` | three attempts, two database errors, one crash, runs accepted or not, or going on for ever | `AnsweredIsJudged` under fairness, whose premises are about programs; with three attempts two errors cannot exhaust a job, with fewer they can and the row is then left to the recovery |
| `restarts` | two workers, one API, the API and one of the workers crash once, one job removed; the workers are symmetric, each with its slot (safety only, and `WorkerOf` is preserved) | exclusiveness and scores while recoveries of two processes write rows another worker judges |
| `api_faults` | a problem with two cases and one with none, all five sandbox results; two database errors and a rejected add in the API, two database errors in the worker | no row is forgotten, nothing unearned is accepted |
| `sandbox` | one call with two slots (a lost lock lets both run its job) and two attempts, either driver, every fault once | the properties of `SampleRun`, safety and liveness |
| `requests` | three requests of any operations of one mix, two seeded problems with two sample submissions, one seeded interview, two seeded users (an admin, who may do everything, and a candidate), two difficulties of each of which none, one or two problems are asked for, two test cases, three times | the properties of `Backend` |
| `health` | the health check with a scrape, or two scrapes; two failed probes make a container unhealthy | the properties of `Monitoring` |
| `solved_count`, `finished_at`, `requeue`, `time_limit`, `status_code` | the smallest instance for each | the findings below |

Fault bounds are one or two because each fault enables the same steps again; two
database errors are the least that fail both a judging and its catch block. What
each property excludes on purpose is in its definition, not in the
bounds: the properties of `worker_faults` do not hold when the API's
recovery may write rows a worker judges (see the findings), so that run keeps the API up.

One sample job suffices because jobs share nothing but slots, and the slots' own
sums are proved for any number of calls (`CountersAddUp`, `NothingLeftBehind`). A *mix*
is a set of operations that share a table; three requests of a mix are two that race
and one that made the row they race for. The mixes (`MCBackend`) cover every pair of
operations where one writes what the other has read and goes on with; requests are
symmetric, and the properties of that run are safety properties. Two problems, of the same
or of two difficulties, are the least with which a draw of two can succeed, return too few or
take a problem twice; the proofs have any number. `Times` has three values: before,
within and after a window. `MCFigures` are the figures on both sides of each threshold
of `calculateAssessment`. `MaxOpen` is one waiting submission: the gauges tell it from
none.

## Where the code and its documentation differ

1. **solvedCount** (`judge-job.processor.ts:174`, `SolvedCountIsSolved`). Both of
   two concurrent first acceptances are written before either counts; each sees
   the other and neither credits. No fault is needed. `docs/DATABASE_SCHEMA.md:47`
   calls the column the number of problems solved.
   The same property is violated in two more ways, for which `MCJudgePipeline_LostLock.cfg`
   and `MCJudgePipeline_Refused.cfg` hold an instance each. A worker that loses the lock of a
   job has it run twice: the count leaves out the row itself, so both executions credit it.
   And a POST whose `judgeJobId` update fails (`submissions.service.ts:49`) writes
   RUNTIME_ERROR over a row that was accepted and credited.
2. **finishedAt** (`judge-recovery.service.ts:52`, `FinishedIsTerminal`). The
   recovery resets rows from a list it read before; a row judged meanwhile becomes
   PENDING, keeps finishedAt and loses its verdict. `docs/DATABASE_SCHEMA.md:194`
   ties finishedAt to a terminal status.
3. **requeue** (`judge-recovery.service.ts:60`, `RequeuedIsLive`). The failed job
   of a stuck row is kept for seven days under the same id, so the recovery's add
   does nothing. `docs/ARCHITECTURE_OVERVIEW.md:90` says stuck rows are requeued.
4. **time limit** (`judge.service.ts:305`, `TimeIsLimited`). SIGTERM is sent once; a
   program that ignores it keeps its slot. `README.md:171` says the time is limited.
   `JobsEnd` is what holds instead: jobs end if programs obey SIGTERM.
5. **status code** (`logging.interceptor.ts:48`, `ErrorsAreCounted`). A failed request is
   counted before the exception filter sets its status, so under the route's success
   status. The 5xx alert of `observability/prometheus/alerts/code-judge.rules.yml:4` is
   computed from that label.

Met while translating, and in the models as the code has them, without a run of
their own: a sign-up that loses the race on a unique column is answered 500 where
`docs/API_SPECIFICATION.md:139` has 409 (one of the races `ServerErrorsAreRaces` speaks
of); overlapping updates of a window can leave its end before its start, which
`docs/DATABASE_SCHEMA.md:299` excludes (`WindowNeedsStaleRead` says exactly how);
readiness does not answer DOWN while Redis is away, as `docs/TROUBLESHOOTING.md:55` has
it, but not at all; the message of a WARNING report may name no issue; and
`getQueueDriver` trims its variable where `validateRuntimeEnv` does not.

## Fairness

**Pipeline.** `Fairness` is weak fairness of: each step of an execution and of the job's end
that the code takes by itself (`StepsOn`; the node event loop goes on); taking a waiting
job by an idle slot (the worker polls); promotion of delayed jobs and the stalled check, which
BullMQ runs on timers in a running worker, the latter only for jobs whose holder
is gone; the steps of a POST handler; and boot and recovery (`restart:
unless-stopped`). No fairness is assumed of faults, of new submissions, of
removal, or of a lock's expiry under a running execution. None, above all, of the end of a
test case's run: `judge.service.ts:305` sends SIGTERM once to the docker client, the container
has no `--init` and nothing kills it, so a program may hold its row RUNNING and its slot for
ever. `AnsweredIsJudged` therefore has two premises, about programs and not about the code:
`RunsEnd(s)`, that no run of the submission in question goes on for ever, and `SlotIsLeft(s)`,
that programs of other submissions do not hold every slot for ever. Without the first TLC finds the
property violated in `liveness`. Two slots and one other submission always grant the second, so
that run shows the property without it; with a single slot (`MCJudgePipeline_OneSlot.cfg`, which
TLC passes too) it is violated without.

**Sample runs.** The same, for the steps of `JudgeService.run` and its timer. None for the
child: `JobsEnd` says under which condition on programs it holds, and `CallsEnd`
needs none, because `waitUntilFinished` has a timer of its own.

**Monitoring.** The container's command goes on while what it needs is there; docker keeps
probing, and a probe in flight ends: the handler answers within milliseconds or
docker's timeout of 5 s ends it. None for outages and for exits; the liveness properties
have their duration as a premise. `Backend` has no liveness: every handler is a short
sequence of calls.

## Proofs

`JudgePipelineProofs` (every set of submissions, users, problems, workers and
executors; every number of attempts and fault limit):

- `TypeCorrect`: `Spec => []TypeOK`.
- `Exclusive`: with `FaultLimit["lockLoss"] = 0`, `[]ExclusiveExecution`.
  The inductive invariant `LockInv` says that whoever runs a submission holds its
  job's lock; the property alone is not inductive, because taking a job looks at
  the job's state and not at the executors.
- `Earned`: `[]AcceptedIsEarned`, without any condition. `EarnedInv` adds that
  whoever is about to write a verdict ran at least one case of its problem.
- `ScoreCorrect`: while the API's queue and database calls succeed
  (`NoApiFailure`), `[]ScoreMatchesVerdict`, with lost locks, crashes and stale
  recoveries allowed. The catch block of `create` writes no score, which is why the
  condition is needed.

`JudgeDeploymentProofs` is about a pipeline in which no recovery runs beside an execution
(`QuietRecovery`): locks are renewed, and there is either one worker with any number of
slots and an API that stays up (`SingleWorker`, as docker-compose deploys it) or no startup
recovery at all (`Recoverless`: `JUDGE_RECOVERY_ON_START=false`, then with any number of
workers and any number of crashes of all processes). `Deployment` adds that the API's queue
and database calls succeed (`NoApiFailure`). Whatever else fails or restarts does so any
number of times. `QuietInv` conjoins the types, the locks, what a row must look like next to
its POST and its job (`RowInv`), that an execution about to credit or return leaves a finished
row (`VerdictInv`) and that nobody judges while a process is down or recovers
(`RecoveryInv`). `DeploymentInv` adds, for an API that does not fail, what an
execution knows of its row at each point (`ExecInv`) and that what a recovery found stuck is
still open (`StuckOpen`).

- `CompletedIsJudged`: `[]CompletedJobIsJudged` under `QuietRecovery`, so also while POST
  handlers fail and overwrite rows that are being judged.
- `NothingIsForgotten`: `[]NothingForgotten` under `QuietRecovery` and
  (`NoApiFailure` or `Recoverless`). Its strengthening `QueuedInv` says of
  a row whose job is gone from Redis that the job had completed and the row is
  finished, or that it had given up. A failing POST and a recovery together break it: the
  handler finishes a row the recovery has in hand, and the recovery reopens it.
- `VerdictsAreFinal`: `VerdictIsFinal` under `Deployment`, an action property that follows
  from `DeploymentInv` step by step.
- `NeverOvercredits`: `[]NoOvercredit` under `Deployment`. The strengthening `CreditInv`
  counts only problems whose accepted submission is settled; an execution about to credit is
  the reason the bound has room, and the step needs the cardinality of a union.

No condition can be dropped. With a lock lost under a running execution, or a recovery of the
API or of a second worker beside a running execution, TLC finds each of the four facts
violated on two submissions; with a failing `queue.add` it finds the last two violated, and
`NothingForgotten` when a worker also crashes.

`JudgeRefinementProofs`, under `Deployment`:

- `Implements`: `Spec => ImplementsLifecycle`. Initial states map to
  `LifecycleInit`; for the steps, `JudgeSettles` shows that a step of an execution
  settles its own submission only (by `LockInv`), so that each action moves one
  verdict, except that a crash of a worker is `Lose(S)` for every row its executions were
  settling. `CreditSettles` identifies `AcceptedBefore` with `SolvedElsewhere`.

`SampleRunProofs` (every number of calls, slots, attempts and fault limit, both drivers):
`SampleTypes`, `RunsLeaveNothing`, `JobCountersAddUp`, `AnswersAreKept`. The inductive
invariant `SampleInv` conjoins `RunInv` (what a run has at each of its points),
the queue's types, `Counted` (the tally is the number of busy slots, so it never goes
below zero), `LitterBound` (each crash leaves at most a directory per slot) and `Kept` (a
completed job has a value and nothing writes it again, because a result without the job's
lock is refused; that is why a second run cannot change an answer). A second invariant,
`FaultInv`, accounts for failures: the attempts used up and the runs that threw and were not
reported yet are together no more than the faults of the host (`HostBound`); so are the
redeliveries, those to come of the jobs whose worker is gone included, and the crashes and lost
locks (`StallBound`); and the inline driver has no queue (`InlineQueue`). It gives
`OnlyTheHostFailsJobs` (`OnlyHostFailsJobs`) and `ClosingDrains` (`CloseDrains`).

`MonitoringProofs` (every number of scrapes and retries): `MonitoringTypes`, `WorkerWaits`
from `HealthyIsMigrated` (a healthy status or a probe in flight implies the schema), and
`ScrapesAreFresh` from `RefreshedIsRight`: what a scrape no longer waits for was right at
some time since it began. The lemmas about `Witnessed` carry that through every other step.

`BackendProofs` (every number of requests, every set of operations, users, problems and
test cases): the inductive invariant `Inv` conjoins

- `Knows(r)`: what the handler of each request is sure of at each of its awaits. Some of
  it holds whatever others do (a problem, once found, keeps existing and has never been
  deleted before the request came; a window that was checked is valid with what was read);
  the rest only as long as no other request has written (`~raced[r]`), such as the row that
  is to be updated still being there;
- `Makers`: a row is made by a request that has been answered, so a request's own id is
  free when it inserts; `GoneIsDeleted`: nobody undeletes a problem;
- `TablesConsistent` itself, and `SeedInv`: no handler is in flight while the seed script
  runs, and what the script relies on at each of its calls.

`RequestKeeps` shows it for the step of each handler, with the fact that 500 is answered only
if the request was raced; `OthersKnow` is why the other requests lose nothing but what a race
takes. From it: `BackendTypes`, `TablesStayConsistent`, `DeletedStayAtRest`, `TestsStay` and
`FailuresAreRaces` (`ServerErrorsAreRaces`). Two strengthenings of their own: `CandidatesInv`
(a candidate's id identifies one row) for `StaleWindows` (`WindowNeedsStaleRead`), and
`Restored` (what is wiped stays wiped until the script fills it) for `SeedIsRestoring`
(`SeedRestores`).

`BackendCountProofs` (as `BackendProofs`) proves the three properties that count rows. Its
invariant `CountInv` conjoins

- `TablesFinite`: rows are made one by one or by the script, so what a query counts is finite;
- `SubmittedOnce`: a row that is written to takes the place of the one row with that id, so a
  problem has as many submissions after it as before;
- `Counted(r)`: what each request is sure of that has counted: a page's two numbers equal those
  of the table until it is raced (`ListCounted`); those of a view and of a summary are at
  most what the tables hold (`ViewCounted`, `SummaryCounted`); each difficulty has drawn the
  number asked for (`DrawsCounted`). Until it is raced, a view has counted all there are.

`StepShapes` sorts the steps of all handlers: a step counts, only looks, or writes at
most one row into each table, after which every other request is raced (removals only ever
come to interviews, candidates and assignments, which no view counts). `StatusKeepsCounts` is
the step of whoever writes a status, whichever it writes over (from `StatusCounts`: the row
keeps its problem and its place). Hence `SummariesAreCovered`
(`SummaryIsCovered`) with `AssessmentsAreFair`, true of any figures; `ViewsStayConsistent`
(`ViewsAreConsistent`); and `InterviewsAreWhole` (`InterviewIsWhole`), where `DrawsAsAsked`
shows that the problems drawn split into as many of each difficulty as were asked for; draws
that overlap violate the unique key and leave nothing.

Assumptions on constants are the named `ASSUME`s of the modules; TLC evaluates them
in every run. Beside what keeps ids apart they say that the seeded rows and the difficulties
are finitely many, that sample submissions are terminal with an id each, that numbers of
problems asked for are natural and that what `parseInt` returns for a page or a limit is an
integer.
Only model-checked: liveness (`AnsweredIsJudged`, `CallsEnd`, `JobsEnd`, `OutageIsNoticed`,
`RecoveryIsNoticed`), which is out of the prover's reach, and that the code violates the
properties of the findings.

## Not modelled

- The inline driver of `enqueueSubmission`, meant for development: an execution in the
  API process without a job id (the inline driver of sample runs is modelled).
- Reads that return one row or the rows of one user (`SubmissionsService.findOne`, the
  histories, the lists of candidates, assignments and reports), `/health/stats` and the
  dashboard, `/judge/queue`: nothing is kept and nothing else depends on them.
- `config/env.ts`: parsing of strings before there is any state.
- Token signing, password hashing, routing, CORS, the throttler, request ids, the
  validation of bodies, logging, and the text formats of metrics and pages: libraries,
  or wording.
- The order of a page's rows and hence what two pages of different requests have in
  common: no state relates them.
- Time: cut-offs, time limits and intervals are choices of when.

## Plan

Done: the pipeline, the sandbox with sample runs, the requests of all controllers, the
seed script, monitoring. What would come next:

1. `enqueueSubmission` with the inline driver on top of `JudgeProcessor`, with recovery
   in the same process and `inlineActive`.
2. A weaker `NothingForgotten` that holds with failing POSTs beside recoveries: every such row
   is in the hands of a recovery or left to the next one.
