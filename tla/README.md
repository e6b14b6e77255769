# AWSops: the asynchronous tier, in TLA+

AWSops is a dashboard for an AWS estate: a Next.js web tier on ECS (`web/`), an
asynchronous worker tier of Lambdas, Fargate tasks and Step Functions
(`scripts/v2/`), an Aurora PostgreSQL database they share, and the Terraform
that deploys them (`terraform/v2/foundation`). Most of the web tier reads and
renders. What is hard to get right is the part where several programs that know
nothing of each other write the same rows: jobs, reports, schedules, incidents.
This project models that part, checks it with TLC on small instances and proves
its main properties with TLAPS for every value of the constants: any number of jobs,
reports, incidents, collections and overlapping runs, and every retry policy.

## 1. Inventory

### 1.1 Components that keep state others depend on

**Job ledger** - `worker_jobs`, `scripts/v2/workers/db.py`. One row per job:
status (`queued`, `running`, four terminal ones), attempt, `updated_at` (stamped
by a trigger on every UPDATE), payload, idempotency key. Operations:
`claim_running` (queued or running to running, attempt + 1) and `finish_job` (any
non-terminal to the given outcome; success only out of running), each one
conditional UPDATE. *Correct when*: a terminal status never changes; success is
recorded only by someone who claimed.

**Enqueue** - `web/lib/jobs.ts`. `enqueueJob`: INSERT ... ON CONFLICT of the
idempotency key, the row that is found on a conflict, then SendMessage, whose
failure is `EnqueueDeliveryError`: the row is durable, the message may not be.
*Correct when*: a lost message does not leave the job queued for ever; one key
is one job.

**Dispatcher and kill switch** - `dispatcher.py`, the SQS queue and its event
source mapping. Starts the execution named after the job, so a second start is a
no-op; drops job types it does not know; reports other errors for redelivery.
The operator pauses all dispatch by disabling the mapping.

**Job execution** - `sfn.asl.json`, `worker_lambda.py`, `fargate_worker.py`,
`status_updater.py`. One execution runs a Lambda or Fargate worker, retries
service errors (and, for the Lambda, timeouts), catches the rest and has the
failure recorded. *Hard*: a retry does not stop the invocation it replaces; an
invocation can be killed between any two of its statements; the recording of a
failure can itself fail. *Correct when*: an execution that ended has left its
job settled.

**Reaper** - `reaper.py`, every five minutes: fails stale running jobs, then
stale queued jobs if the mapping is enabled, then stale reports and the reports
of failed jobs (and reconciles three other kinds of run). *Correct when*:
everything settles; nothing that still works is failed; jobs held back by a
pause survive.

**Diagnosis submission** - `web/app/api/diagnosis/route.ts`, `[id]/route.ts`,
`web/lib/diagnosis.ts`. A POST looks its idempotency key up, creates a report
row, enqueues the job whose payload names the row, and finds out afterwards
whether a concurrent request won. *Correct when*: every request that is answered
202 is given the report the job will render, and all of them the same; losers
retire their own row and nobody else's; no live row is left running without a job.

**Diagnosis rendering** - `handlers.py` `_report`, `diagnosis/db.py`. The worker
renders the report of its payload, section by section with a heartbeat, and
finishes it before it finishes the job: two statements in two connections.
*Correct when*: the report settles at most once, and always.

**Diagnosis digest** - `diagnosis_digest.py`, `diagnosis/notify.py`. Every fifteen
minutes emails the finished reports that are not stamped, then stamps them with
the outcome. *Hard*: a crash or an overlapping run between the two. *Correct
when*: the backlog drains, nothing is emailed again and again, and the recorded
outcome is true.

**Scheduled diagnosis** - `schedule_dispatcher.py`, `web/lib/diagnosis-schedule.ts`.
A save computes the first run; each hour the dispatcher claims the due rows by
advancing `next_run_at` before it enqueues, creates the report, the job, the link
and the message in statements of their own, and refines `next_run_at` by
compare-and-set. *Hard*: the same dates computed in two languages, across two
calendars nine hours apart; a late claim; a crash after the claim; a user's save
during it; a delivery whose answer is lost. (The module's docstring, lines 10-11,
says that it does not create the report row; the code does, lines 205-216.)

**Incident lifecycle** - `web/lib/incident.ts`, `scripts/v2/incident/*`,
`incident.asl.json`. An alert becomes an incident by an INSERT whose
`correlation_key` is unique; the web tier then enqueues a job, whose execution
runs Triage (which inserts, or finds the incident and ends), Lead, a Map of
sub-agents, RootCause, MitigationPlan and Prevention, each a Lambda of several
committed statements. A failure that is caught goes to StageFailed, and a
watchdog, every minute, stalls the stages that have been silent for too long. *Hard*: alerts of one condition at once, by two entrances; an
invocation retried after it has written, or while it is still at work; a stage that
finishes after the watchdog gave it up. *Correct when*: one execution investigates
an incident; a repeated sub-agent adds a finding only if it overlapped the one it
repeats; what is stalled stays stalled; no stage runs for ever.

**Remediation** - `scripts/v2/remediation/*`. Approval by task token, SSM
execution, kill switch and locks. Frozen in the code (`db.py:58-61`).

**Inventory sync** - `scripts/v2/steampipe/sync_lambda.py`. Per resource type: an
advisory lock, a ledger row (`inventory_sync_runs`) marked running under the
run's token, a query of all connected accounts, an upsert per row, a prune of the
accounts out of scope, a probe of the accounts that gave no row, a prune of what
the answer did not name, today's counts (`inventory_snapshots`), the unlock, and
only then the ledger's conditional finalization. *Hard*: killed or failing
anywhere, rows half written; the next run begins before the previous one is
finalized; accounts that come, go and stop answering between two statements.
*Correct when*: a ledger row that says succeeded describes the table.

**Graph store** - `web/lib/graph-store.ts`, `graph-inventory.ts`,
`graph-state.ts`. A rebuild takes a bounded set of accounts, reads each one's
rows in a snapshot, decides from ledger and counts whether they may replace the
graph, and publishes graph and state in one transaction; out of time, it records
the rest as not attempted. *Hard*: the inventory is being written while it is
read; several processes rebuild at once, with old rows in hand. *Correct when*:
what is shown is a whole collection; a graph that is older than the last attempt
says so; a slow rebuild does not put an outdated collection back.

**Datasource index** - `datasource_index*.py`: wall-clock and query budgets of one
job. **Other jobs** - compliance, FinOps, insight, security-group-rule and
network-path scans: each one job of the backbone with a run row of its own.

### 1.2 Components without such state

Chat and the agent runtime, pages, topology and cost views, and the Terraform,
whose thresholds, schedules and retry policies enter the models as constants.

### 1.3 How they meet

```
 POST /api/diagnosis --INSERT--> diagnosis_reports <----- report worker (handlers._report)
        |                          ^        ^                   ^
        +--INSERT--> worker_jobs <-|--------|--- claim, finish -+
        |               ^  ^  ^    |        |                   |
        |               |  |  +----+- reaper (every 5 min)      | runs
        |               |  +- status_updater <- catch -+        |
        |               |                              |        |
        +--SendMessage-> SQS -> mapping -> dispatcher -> Step Functions
                                 (kill switch)

 webhook --INSERT--> incidents <-- stages of incident.asl.json, watchdog
    +--> worker_jobs, SQS --> dispatcher (incident_stage route) --> execution

 sync_lambda --> inventory_resources, _sync_runs, _snapshots --> graph rebuild
                 (per-type lock)                 (one snapshot)   --> topology
```

No program calls another one's code, and the only lock held across calls is the
sync's. They meet in conditional UPDATEs, each atomic, and everything between two
UPDATEs interleaves. So the modules have one action per statement that others can
observe, and one actor per program.

## 2. Plan

| step | module | role | state |
|---|---|---|---|
| 1 | `JobLedger` | abstract specification of the ledger | done |
| 1 | `WorkerBackbone` | web enqueue, SQS, dispatcher, execution, workers, reaper, pause; implements `JobLedger` | done |
| 1 | `WorkerBackboneProofs` | theorems about it | done |
| 1 | `DiagnosisSubmit` | the POST and DELETE handlers over `JobLedger` | done |
| 1 | `ReportPipeline` | `WorkerBackbone` composed with the report row | done |
| 1 | `DiagnosisDigest`, `DiagnosisDigestProofs` | emailing finished reports: publish, stamp, pause, overlapping runs; theorems about it | done |
| 1 | `ScheduleCalendar` | the next run of a schedule, as both programs compute it | done |
| 1 | `ScheduleDispatcher`, `ScheduleDispatcherProofs` | saves lock by lock against the dispatcher's claim and refinement; theorems about it | done |
| 2 | `ReportPipeline`, extended | the schedule dispatcher as a second origin of reports, and createReport as a statement of its own | done |
| 2 | `InventorySync` | one type's collection, statement by statement | done |
| 2 | `InventoryGraph`, `InventoryGraphProofs` | composed with the sync: concurrent rebuilds of the graph; theorems about both: the ledger is true of the table, the graph of the ledger | done |
| 2 | `IncidentLifecycle`, `IncidentLifecycleProofs` | two entrances, the machine's stages, retries and catches, watchdog; theorems about it | done |
| 3 | `ReportPipelineProofs` | the pipeline implements the backbone; its three safety properties | done |
| 3 | `ScheduleDispatcherProofs`, extended | `ActiveIsAsSaved` and `ConflictMeansConcurrent` from an invariant of the locks and the index | done |
| 3 | `DiagnosisSubmitProofs` | all five properties of the protocol, and its types | done |
| 3 | `ScheduleCalendarProofs` | both programs agree on every calendar; the dates are as configured, never double, never adrift | done |
| 4 | `IncidentLifecycle`, extended | the invocations that are still at work after the machine has given them up; its theorems again | done |
| 5 | an abstract specification of a report's life | what `ReportPipeline` and `DiagnosisSubmit` both promise of `diagnosis_reports`, as `JobLedger` says it of the jobs; both shown to implement it | next |
| 5 | `DatasourceIndex`, `Remediation` | budgets; approval | if they repay it |

The order follows how much depends on a part: every other job is a client of
the backbone, the diagnosis report is the client with the most writers, the
inventory is what most pages read, and the incident machine is the longest chain
of stages.

## 3. The modules

### 3.1 `JobLedger`

What everyone who reads `worker_jobs` may rely on: a job is submitted once, can
be claimed any number of times while it is not settled, succeeds only out of
`running`, fails in sets (the reaper's UPDATE is set-oriented), and is final once
settled. `DiagnosisSubmit` is written over it; `WorkerBackbone` implements it.

### 3.2 `WorkerBackbone`

| state | code |
|---|---|
| `status`, `attempt`, `rowAge` | the row and the time since its `updated_at` |
| `kind` | the runtime of the job's type, or a type the dispatcher does not know |
| `openTicks` | history: how long the job was queued with dispatch enabled |
| `sends`, `pending`, `visible`, `inflight` | calls of `enqueueJob`; calls between the ledger and SendMessage; copies of the message in SQS and at the dispatcher |
| `esm`, `pauses` | the event source mapping |
| `exec`, `svcUsed`, `toUsed`, `taskAge` | the execution, its retry counters, the age of its task |
| `att[j][k]` | the `k`th invocation of the worker: invoked, working, handled or errored, written, exited |
| `reaper` | the next statement of the reaper's pass |

Actions, by the program that takes them: `Insert`, `Replay`, `Send` (jobs.ts);
`Pause`, `Resume` (operator); `Receive`, `StartExecution`, `Drop`,
`DispatchError` (SQS and dispatcher.py); `TaskSucceeds`, `TaskFails`,
`ServiceError`, `TaskTimesOut`, `MarkFailed`, `MarkExhausted` (sfn.asl.json with
status_updater.py); `ClaimRunning`, `SkipClaim`, `Handle`, `FinishSucceeded`,
`FinishFailed`, `Exit`, `Die` (both workers); `ReapRunning`, `Describe`,
`ReapQueued`, `ReaperDies` (reaper.py); `Tick` (time).

What the model keeps of failures: SendMessage may lose the message or its
answer; SQS redelivers, and a message may go to the dead-letter queue at any
receipt (maxReceiveCount is not counted, so every count is covered); a request
to run a task may be refused, or served with its answer lost; an invocation that
was given up on goes on running; every invocation can die before, between and
after its statements; MarkFailed may be served and retried, or used up; a reaper
pass can die after each statement; the describe call may fail
(`DescribeMayFail`).

What it abstracts: payloads, results and messages; idempotency keys other than
the job's own; `maxReceiveCount`; the dispatcher's other two routes. Time is
counted in quarters of an hour, the granularity in which the thresholds (30, 60,
75 minutes) differ.

### 3.3 `DiagnosisSubmit`

Several requests with one idempotency key run `POST /api/diagnosis` at once, over
the ledger as `JobLedger` promises it. `pc[r]` is the next statement of request
`r`; `row`, `deleted`, `linked` are the columns of the report rows, named by their
creators; `named` is the `report_id` of the job's payload. The worker appears as
far as it touches rows: claim, `ensure_report`, `finish_report`, `finish_job`,
`_fail_report`. Time is abstracted: the reaper may consider any running row
stale. The initial states include a job left under the key by an earlier
deployment, whose payload names no report (route.ts:131-144); the row that its worker
then creates for itself (handlers.py:83-86) is named by the worker. A handler can die
before each statement. The second lookup of the route, under the key format before
`lang` (route.ts:97-100), is left out: it reads another key's job, and ends the request
when it finds a report.

### 3.4 `ReportPipeline`

`WorkerBackbone` with the report row beside each job. Every action of the backbone
is either taken together with its effect on the report (`Render`, `FailBoth`, the
reaper's pass) or leaves the report alone (`Elsewhere`); new actions are the
statements of the report's origin, the heartbeat (`Progress`) and the pass' reports
statement. As every step is a step of the backbone or leaves its variables alone,
what is proved of the backbone holds here.

A report has one of two origins, `origin[j]`: a web request or the schedule
dispatcher. Both create the report (`CreateReport`), insert the job (`InsertJob`),
send its message and link the report, the web in this order and the dispatcher with
the last two exchanged (`SendOrFail`, `LinkReport`). After a failed delivery, which
may have been one, the web fails the report if it is running (`MarkReportFailed`),
the dispatcher in any case (`DeliveryFailed`); the web also does so when the INSERT
fails (`InsertFails`). Either dies anywhere (`OriginDies`); an error of the
dispatcher outside its `try` is that. `finish_report` and the return of the handler
are one step, as are the worker's `finish_job(failed)` and `_fail_report`, each with
the outcome in which the second of the two was lost.

### 3.5 `DiagnosisDigest`

A run is its four statements: `ReadFlag`, `ListPending`, `Publish`,
`MarkNotified`; `local[i]` is what run `i` has read. Up to `Runs` of them overlap
(an event delivered twice, or retried after a failure), `Die` stops one anywhere.
`stamp` is `notified_at` and `notify_outcome` in one; `emails` is a history: the
messages that name the report which SNS has accepted. A publication may be
accepted and unanswered (`LostAnswers`). Until `Migrate` the stamp's first
statement fails and its second writes `notified_at` alone. The statuses
`succeeded` and `partial`, treated alike by every statement, are one here.

### 3.6 `ScheduleCalendar`

Times are hours of UTC on a calendar given by the first days of its months.
`ComputeNextRun` is the TypeScript, `DispatcherNext` the claim's interval and the
Python on top of it, each following its own program's arithmetic: JavaScript's
weekdays begin on Sunday and its months overflow, Python's begin on Monday and it
hops 32 days; the plain interval is added to the UTC date, the configured fields
are read in KST. A behaviour is one schedule: its save (`Init`), and its claims,
punctual or late, with the refinement (`Claim`) or, when the enqueue failed or
the invocation died, without (`ClaimOnly`). Minutes are not represented: a run is
claimed within the hour in which it is due or later, so a candidate in the hour
of the claim is past, in the model and in both programs.

### 3.7 `ScheduleDispatcher`

| state | code |
|---|---|
| `row`, `due` | `report_schedules` as committed; the rows whose `next_run_at` has come |
| `saver` | a PUT's transaction: its input, the statement it is at, the rows it has locked |
| `run` | an invocation of the dispatcher: the claimed rows still to come, the current one |
| `asked`, `overlapped` | histories: what the latest saves asked for; the saves that were not alone |

`upsertSchedule` is taken lock by lock, because its two statements lock several
rows: the disabling UPDATE locks the other frequencies in any order (`DisableRow`)
and only those its snapshot has (`OtherRows`), the upsert locks or inserts its own
(`UpsertRow`), and the entry in `uq_schedule_one_active` (`EnterIndex`) waits for
whoever holds a rival row and is refused by one that has committed (`SlotTaken`).
Row locks, the waiting of a unique index and deadlock detection are PostgreSQL's
(external in the map). What the transaction writes is seen by the others at
`CommitSave`. The claim is one UPDATE: it is enabled when no save holds a row it
claims. The enqueue is one step with an outcome, since nothing of the schedule
depends on which of its statements failed (they are in `ReportPipeline`); an invocation may die at any step. A
next run is represented by where it came from: the configuration, and the serial
number of the `now()` that an interval was added to; that is what the guard
`next_run_at = :c` of the refinement can tell apart.

### 3.8 `InventorySync`

| state | code |
|---|---|
| `lock`, `ledger` | the type's advisory lock; its row of `inventory_sync_runs`, with the token (`run`) and, as history, the last run that succeeded (`ok`) |
| `res` | `inventory_resources`: for each account and id, the run that last wrote the row |
| `point` | the day's row of `inventory_snapshots` of each account |
| `inScope`, `up` | the accounts table as the scan reads it; the connections that answer |
| `run[r]` | an invocation of `sync()`: its statement, what the query returned (`seen`), the rows or accounts still to come (`todo`, `ask`), the accounts it vouches for (`present`), its outcome |

One resource type: types share the accounts table and nothing else. Each upsert,
each probe, each deletion and each count is a step; `Fail` is any exception, after
which the `finally` unlocks and finalizes; `Crash` is the end of the process, with
which the session's lock goes and the ledger row stays `running`. The lock is
released by `Close`, before `Finalize` writes the ledger on a connection of its
own: in between another invocation can begin. Which resources exist is the
query's choice, so every answer is possible, with an account left out because its
connection is down or because it has nothing. The rows' content, the errors' text
and `captured_at` are left out; of the two kinds of collection the SDK's covers
the host only and may be incomplete.

### 3.9 `InventoryGraph`

Extends `InventorySync` with the rebuilds of several processes. `graph[a]` is an
account's state row and its topology rows together, since they are written in one
transaction; `builder[b]` is a rebuild: the accounts it has still to attempt, the
one it is at, the instant at which that attempt began and what it plans to
publish. `clock` is the instants that attempts read; two may read the same one.
`old` and `startOld` are histories: the collections that had been replaced when
an attempt began. `inventoryAttempt`, `Safe`, `Participated` and `CountConfirmed`
are the decision of graph-inventory.ts over one snapshot. `Publish` is
`writeGraphState` with `replaceGraph`: an attempt that is not newer than the state
writes nothing, and one that may not publish leaves the rows alone. The
transaction can be rolled back, or committed with its answer lost. A graph is
represented by the rows it was built from; limits on rows and edges, and the
parsing of attributes, are the free choices `fits` and `unknown`. All processes
read one clock.

### 3.10 `IncidentLifecycle`

| state | code |
|---|---|
| `incident` | `incidents.status`, by correlation key: the column is UNIQUE |
| `stage`, `rcaStage`, `found` | `incident_stages`: the triage row, the only one ever `running`, and the root-cause row; the number of findings of each sub-agent |
| `overlapped` | history: the sub-agents of which one invocation has begun to consult while another one was consulting |
| `accepted`, `message` | an incident that the web tier has inserted and not yet enqueued; a job's message, from the web tier or with the alert in it |
| `exec[j]` | a job's execution: its statement, its incident, whether the machine's input names the incident (`told`), the retries used, its Map's items |
| `late` | the invocations that the machine no longer awaits and that are still at work: their execution, their sub-agent if any, the statement they are at |
| `rolling` | incidents whose stage the watchdog has stalled and which it has not yet rolled |
| `admitsInfo`, `orchestrator` | two parameters of the deployment that decide what is run |

Each committed statement is an action. `Fault`, and `SubAgentFault` for one item of
the Map, is an invocation whose answer is an error or is lost, after which the machine
invokes the stage again from its beginning (`First`) or takes its Catch. The errors
that are retried (incident.asl.json:61-66) say nothing of the invocation, so it goes
into `late`, where it may be dead (`LateEnds`) or at work: `LateStep` takes the
statements of every handler once more, beside the retry, the stages that follow and
StageFailed. A late Triage that wins the incident makes it its execution's, though
the machine does not hear of it. A sub-agent's look and its insert are two steps, and
no constraint refuses a second insert. The watchdog may find any running stage
overdue, and `StageFailed` may fail, since nothing catches it.
Left out: the content of findings, plans and recommendations, `incident_links` (a
linked alert changes no status), the fan-out limit (the roster is the set of
agents), the write-back, and the job's `worker_jobs` row.

## 4. What is checked

| run | instance | distinct states | shows |
|---|---|---|---|
| `backbone_safety` | 1 job of any kind, 3 invocations (1 service retry, 1 Lambda timeout retry), 1 pause | 3.5 M | types; `EndedMeansSettled`, `PausedNeverReaped`, `TerminalIsFinal`, `SfnDecidesBeforeReaper` |
| `backbone_ledger` | 1 job, 2 sends, 1 invocation, 1 pause | 0.3 M | the backbone implements `JobLedger`; `RunningSettles`, `QueuedSettles` |
| `submit` | 3 requests, 1 worker | 1.0 M | `AnswerNamesTheJobsReport`, `OneReportAtATime`, `HandedOutIsKept`, `NoOrphans`, `GoneIsTrue` |
| `report_safety` | 1 report of either origin, 2 invocations, 1 heartbeat each | 2.9 M | `SuccessSettlesReport`, `ReportIsFinal`, `RenderingNotReaped` |
| `report_liveness` | 1 report of either origin, 1 invocation, 1 pause | 0.5 M | `ReportSettles` |
| `digest` | 2 reports, 2 runs, 1 death, 1 change of the pause flag | 0.2 M | `EmailedIsTrue`, `RepeatsAreExplained`, `StampedIsDone`, `BacklogDrains` |
| `calendar` | 70 schedules, saved at 55 times, over 14 months | 0.4 M | `FirstAndNextAgree`, `AsConfigured`, `NoDoubleRun`, `NoDrift` |
| `schedule` | 2 users, 2 frequencies, 2 saves of one user, 1 invocation, 2 dates that come | 0.6 M | `ActiveIsAsSaved`, `NextMatchesConfig`, `ConflictMeansConcurrent`, `DueIsClaimed` |
| `inventory_graph` | 2 collections of the host and a member, 1 change of scope or connection, 1 rebuild | 1.4 M | `SucceededIsSnapshot`, `GraphIsWhole` |
| `inventory_race` | 2 collections of the host, 2 rebuilds, 2 instants | 0.6 M | `RetainedIsTold`, `NoStepBack` |
| `incident` | 2 jobs and the web tier for 1 condition, 1 sub-agent, 1 retry of each task, 1 invocation at a time given up on and at work | 1.8 M | `SingleInvestigation`, `SecondNeedsOverlap`, `SettledIsFinal`, `RunningStageSettles` |
| `never_investigated` | 1 job from the web tier | | a counterexample: section 6 |

The properties, in words:

- `TerminalIsFinal`: no late worker, retried invocation, catch, reaper or
  replayed request changes a settled status.
- `EndedMeansSettled`: an execution that Step Functions reports as ended has left
  its job settled. This is not obvious: a retried invocation may find the row
  claimed by the one it replaces, which may be dead; it works because
  `claim_running` accepts a running row.
- `PausedNeverReaped`: a job submitted while dispatch is disabled is not failed
  before dispatch has been enabled again, although the reaper reads the mapping
  and updates the rows in two steps.
- `SfnDecidesBeforeReaper`: the reaper never fails a job whose awaited invocation
  is at work (workers.tf:656-661); with a threshold one tick lower it would.
- `RunningSettles`, `QueuedSettles`: every job settles whatever is lost; a queued
  one, if dispatch is not left disabled.
- `AnswerNamesTheJobsReport`: if the job's payload names a report, a request answered
  202 is given the one that every worker of the job renders. It says nothing of the
  job whose payload names none, for which the code does not do it (section 6).
  `OneReportAtATime` covers both: two requests are not given two reports, unless the
  user has deleted one of them. `HandedOutIsKept`: the handlers retire none that the job will write
  or that a request was given. `NoOrphans`: an answered request leaves no live
  running row without a job. `GoneIsTrue`: the answer "deleted" is true.
- `SuccessSettlesReport`, `ReportIsFinal`, `ReportSettles`: the report settles
  with its job, once, and always; "once" but for the dispatcher's UPDATE after a
  failed delivery, which the property names (section 6). `RenderingNotReaped`: a worker that keeps its
  heartbeat is not taken for dead.
- `EmailedIsTrue`: what is recorded as emailed was. `RepeatsAreExplained`: a report
  is emailed at most once for each run that can overlap and each that died.
  `StampedIsDone`: once stamped and held by no run, it is never emailed again.
  `BacklogDrains`: every completed report is stamped.
- `FirstAndNextAgree`: both programs compute the same next run. `AsConfigured`: it
  falls on the configured weekday or date and hour in KST. `NoDoubleRun`: no run
  follows a configured one within four days, with or without the refinement.
  `NoDrift`: a late claim does not move the runs after it.
- `ActiveIsAsSaved`: a user's active schedule is what one of the latest saves asked
  for, never two and never none by accident. `ConflictMeansConcurrent`: only a save
  that had company is answered 409. `NextMatchesConfig`: no row has a date computed
  from an earlier configuration. `DueIsClaimed`: no save, and no deadlock of two,
  keeps the claim waiting for ever.
- `SucceededIsSnapshot`: while the ledger says succeeded, the rows of every account
  that its run vouches for are what that run saw, all written by it, or none, for
  an account taken out of the scan meanwhile. It is the reason for the token:
  a late finalization of an older run would say it of a table in the making.
- `GraphIsWhole`: the graph of an account is the whole of what one run saw of it,
  although the rebuild reads while others write, prune and die. `RetainedIsTold`: a
  state that does not say "retained" belongs to the attempt that published the rows.
  `NoStepBack`: a publication never shows a collection that had been replaced
  already when the attempt recorded before it began.
- `SingleInvestigation`: of all the alerts, messages and retries of one condition,
  one execution has the incident, although a first Triage may still be at work beside
  its retry. `SecondNeedsOverlap`: a sub-agent has a second finding only if two of its
  invocations consulted at once; that they can is in section 6. `SettledIsFinal`: a stalled incident
  stays stalled whatever stage is still on its way, and a stage ends once.
  `RunningStageSettles`: no stage stays running, whatever becomes of its execution.

**Bounds.** Jobs share nothing but the mapping and the reaper's statements,
which treat each row by its own predicate, so one job meets all interleavings
that matter; the theorems hold for any set of jobs. `MaxTries` is the retries plus
one. The tick thresholds keep the order of the deployed ones: queued stale (30
min) below the running one (75 min), task timeouts (15 and 60 min) below that. In
the report runs the task timeout is one tick and the threshold two, so that a
report's wait in the queue and its task together still reach the threshold.
`MaxSends` = 2 covers a replay; `MaxPauses` = 1 covers a pause before, during and
after every other step, and the resume is not bounded. `MaxBeats` = 1 separates a
report with a heartbeat from one without. Three requests are needed for a winner,
a loser and a third that arrives between their steps. Two overlapping digest runs
and one death reach the bound of `RepeatsAreExplained`; the theorem holds for any
number. The calendar has both lengths of February, four of the fields' boundary
values (the hours at which the KST and the UTC day begin among them), and claims
in the hour, across midnight and sixty hours late; the theorems give the exact
lateness up to which `NoDoubleRun` and `NoDrift` hold, three days and a week. Two saves of one user are needed for a conflict and for a
deadlock, a second user for a claim of two rows; the tables at the start are those
with at most one active row, up to an exchange of the two frequencies. Two
collections are needed for one to begin between another's unlock and its
finalization, or to follow one that was killed; a member for what the query leaves
out; one change for a scope or a connection that is not what it was at the query.
With `Limit` = 1 a rebuild has accounts it does not attempt. Two instants tell an
attempt that is older from one that is as old. Two jobs and the web tier are the
two entrances and a repetition; one retry a second invocation after every statement
of the first; `MaxLate` = 1 the first one still at work beside it and beside all that
follows. Sub-agents write to rows of their own, so one meets all that a Map adds. The
theorems hold for any number of each.
Deadlock checking is off in `DiagnosisSubmit`, where all requests and workers really
end, in `ScheduleCalendar`, whose calendar ends, in `ScheduleDispatcher`, where the
saves and the dates that come are bounded, and in the inventory and incident runs,
whose invocations are spent.

**Fairness.** Time passes (`Tick`, strong: it is disabled while a pass runs). Step
Functions times tasks out. EventBridge invokes the reaper every five minutes, and
not every pass dies before its later statements (strong fairness, because each is
disabled again when a pass dies). Nothing is assumed of the web tier, SQS, the
dispatcher, the workers, `MarkFailed` or the operator, and `QueuedSettles` has the
operator's part as its hypothesis. In `ReportPipeline` the origin of a report also
ends, normally or not (weak fairness of `OriginStep`), because `Tick` is taken only
when it has: a request, or an invocation of the dispatcher, lasts seconds. In `DiagnosisDigest` the event rule keeps starting runs and a run that is
not stopped goes on (weak fairness of each run); the deaths are finitely many, and
nothing is assumed of SNS. In `ScheduleDispatcher` a transaction that can go on goes
on, PostgreSQL breaks deadlocks, and the hourly rule keeps invoking the dispatcher
(weak fairness of each save and each invocation). Weak fairness is enough for the
claim because the saves of the run are finitely many; in the database a waiting
UPDATE keeps its place in the queue for a row, which the model does not have. In
`IncidentLifecycle` EventBridge invokes the watchdog every minute (weak fairness of
its statement for each stage); nothing is assumed of the executions, of the
invocations nobody awaits, of StageFailed or of the watchdog's second statement. `InventorySync` and `InventoryGraph` state no
fairness and no liveness.

## 5. What is proved

`WorkerBackboneProofs`, for every set of jobs, retry policy, set of thresholds,
number of sends and pauses that satisfies `BackboneAssumption` (types, and enough
invocation slots for the retries):

| theorem | property | argument |
|---|---|---|
| `TypeCorrect` | `TypeOK` | inductive as it stands: the retry counters are part of it |
| `TerminalFinal` | `TerminalIsFinal` | every step of every actor is one of four changes to a row, none of which touches a settled one |
| `ImplementsJobLedger` | `ImplementsLedger` | the same four changes are `JobLedger`'s actions; the rest stutters |
| `EndedIsSettled` | `EndedMeansSettled` | `SettledInv`: an invocation past its claim finds the row running or settled, one past its last write finds it settled |
| `PausedSurvives` | `PausedNeverReaped` | `PausedInv`, on top of `SettledInv`: nothing happens to a row beyond its INSERT before dispatch was enabled, and once the reaper has read an enabled mapping, rows submitted after a later pause are fresh because time does not pass within a pass. Assumes that describe never fails |
| `SfnDecides` | `SfnDecidesBeforeReaper` | `AgeInv`: the row of an awaited invocation at work is no older than its task, which is no older than its timeout. Uses `ThresholdAssumption`, the inequality workers.tf states |

`EndedMeansSettled` alone is not inductive: from a state where a worker has
"written" but its row is running, the next two steps violate it. `SettledInv`
excludes that state; `PausedInv` and `AgeInv` do the same for theirs.

`DiagnosisDigestProofs`, for every set of reports and every finite set of runs
(`DigestAssumption`: types; `NoRunAssumption`: an idle run is told from a working one):

| theorem | property | argument |
|---|---|---|
| `TypeCorrect` | `TypeOK` | inductive as it stands |
| `DeliveriesAreTrue` | `EmailedIsTrue` | `AnsweredIsTrue`: a run with a MessageId has emailed everything that it is about to stamp |
| `StampedStaysDone` | `StampedIsDone` | of the actions only `ListPending` gives a run a report, and not a stamped one |
| `RepeatsBounded` | `RepeatsAreExplained` | `Explained`: before the stamp each email belongs to a run that is still to stamp or to one that died; after it, the runs that may still send are what is left of `Runs`. The two counts change places at the stamp because a run is at one step only |

`RepeatsAreExplained` alone is not inductive: with as many emails as it allows and
a run about to publish, the next step violates it; `Explained` counts that run.

`ScheduleDispatcherProofs`, for every set of users, frequencies and configurations,
any number of tabs, saves and overlapping invocations, and every table whose dates
come from their rows' configurations (`ScheduleAssumption`):

| theorem | property | argument |
|---|---|---|
| `TypeCorrect` | | with `Inv`: the rows that a save has locked and those that an invocation has claimed exist, because no row disappears; nothing else states the types |
| `SaveWins` | `NextMatchesConfig` | `Inv`: the date in a claim, and in a save under way, was computed from the configuration beside it. So when the refinement finds the claim's date in the row, the row's configuration is the claim's, and the refined date is right |
| `ActiveAsSaved` | `ActiveIsAsSaved` | `LockInv`: each stage of a save says which rows it has locked (`StageOK`), no two saves lock one row (`LocksOK`), and a save with an entry in the index holds every other active row of its user and is the only one with an entry (`EntryOK`). So its commit leaves one active row, its own; and no save that came after the one that decided is unaware of what it left active (`Decided`) |
| `OnlyOverlappingSavesConflict` | `ConflictMeansConcurrent` | `AloneOK`: a save that nobody overlapped has locked, and will disable, every active row that its snapshot could have; so nothing in the index is in its way |

`NextMatchesConfig` alone is not inductive: with a claim whose date and configuration
disagree, the refinement would break it. Nor is `ActiveIsAsSaved`: a save about to
commit beside an active row that it has not locked would leave two. The assumption
says of the tables at the start that `uq_schedule_one_active` holds of them, which
the database enforces.

`DiagnosisSubmitProofs`, for every set of requests with one key and every set of
worker invocations (`SubmitAssumption`: the names are different):

| theorem | property | argument |
|---|---|---|
| `TypeCorrect` | `TypeOK` | part of `Inv` |
| `AnswersNameTheJobsReport` | `AnswerNamesTheJobsReport` | the payload names a report from the INSERT of the job on and never another, and that is what every worker renders; before it nobody has been given one (`UnsubmittedPart`), and what a handler has read of it stays true (`RivalPart`) |
| `OneReportIsShared` | `OneReportAtATime` | an answer names the payload's report or, where there is none, a linked one (`GivenPart`); of the linked rows one at most is not deleted (`RetiredPart`, the partial unique index), and the handlers delete none that was handed out |
| `NothingHandedOutIsRetired` | `HandedOutIsKept` | a handler retires its own row only, after it has read that the payload names another (`OwnPart`), and before any link to it could be made |
| `NoReportIsOrphaned` | `NoOrphans` | every way to an answer that leaves a row running leads through the job's payload or a link; a handler that lost retires its row first |
| `GoneOnlyIfDeleted` | `GoneIsTrue` | the report a handler finds deleted is named by the payload or linked, and of those the handlers delete none, so the user did |

The five properties hold only together: who retires what depends on who was given
what. Workers, the reaper and the ledger enter by three facts (`RowsSettle`,
`JobStays`): rows settle, the job stays, and neither touches a payload or a link.

`ScheduleCalendarProofs`, for every calendar whose months have 28 to 31 days, every
set of schedules whose partner field fits the cadence (`CalendarAssumption`), every
hour of a save (`SavesAssumption`: the calendar lasts for another run) and every
lateness, except where the theorem bounds it:

| theorem | property | argument |
|---|---|---|
| `TypeCorrect` | `TypeOK` | `RunIsAhead`: each branch computes a later hour; `IntervalAhead`: so does the interval of a claim whose refinement is lost, by a week at least |
| `ProgramsNeverDiffer` | `FirstAndNextAgree` | `ProgramsAgree`: Monday-first and Sunday-first weekdays are the same distance apart (`SundayAndMonday`); 32 days from the first of a month are in the next (`HopIsNext`) |
| `RunsAsConfigured` | `AsConfigured` | `RunIsConfigured`: hour and day of KST are remainder and quotient (`AtParts`), and a date up to 28 is in its month (`DateInMonth`) |
| `NeverADoubleRun` | `NoDoubleRun` | if no claim is more than three days late. Three days are exact for a weekly run |
| `LatenessDoesNotAddUp` | `NoDrift` | if no claim is a week late. `WeekLater`: the run of a weekday is the only hour of that weekday in the seven days from the claim (`WeeklyRun`, `OneWeekdayPerWeek`); `MonthLater`: the claim is made in the month of the run or in the next, before that month's date |

The two bounds on lateness are hypotheses of the theorems, not assumptions of the
module; the rule invokes the dispatcher every hour. A lateness of a week really
leaves a run out, and `NoDrift` is not true of it. None of the four needs more than
the other facts of the same step: the invariant is that a refined `next` is the run
computed at `now` (`CalInv`), and the rest is arithmetic. The calendar is given by
the first days of its months because what a recursive sum of their lengths yields
cannot be proved; that later months start later is proved by the least month that
would not (`LeastNumber`, from the library's theorem that the order of the naturals
is well-founded).

`InventoryGraphProofs`, for the sync and the graph store together, for every finite set of accounts
and resources, every number of collections, rebuilds and changes, every `Limit` and
every `MaxClock` (`InventoryAssumption`, `GraphAssumption`: types, finiteness, and
`None` and `Self` told from the rest):

| theorem | property | argument |
|---|---|---|
| `TypeCorrect` | | the types of the inventory, the ledger, the rebuilds and the graphs; nothing else states them |
| `LedgerIsTrue` | `SucceededIsSnapshot` | `SyncInv`: who holds the lock owns the ledger row, which reads running (`Owner`), so nobody writes the table while it reads succeeded; each phase says how far the table agrees with the answer (`PhaseOK`: written after the upserts, nothing else after the prune); a run that has unlocked and still has the token may finalize, because nobody began in between (`FinalOK`) |
| `PublishedIsWhole` | `GraphIsWhole` | `SafeIsWhole`: what a rebuild is allowed to publish is exactly what the ledger's run saw. For a member the count of its snapshot row is the bridge: an account that was deleted meanwhile has no rows, so its count is zero, and so is what the run saw (`PointOK`, and that a finite set without elements is the only one of size zero). A run that is done stays as it is (`DoneStays`) |
| `RetainedIsShown` | `RetainedIsTold` | inductive with the types (`Told`) |
| `NeverBack` | `NoStepBack` | `Fresh`: a plan that may be published is of no collection that was outdated when an earlier attempt began, by any rebuild's memory and by any state row. Kept because the instant is read before the rows, and `old` only grows with the clock (`OutdatedStays`, `Past`) |

`SucceededIsSnapshot` alone is not inductive: a ledger that reads succeeded and a
run in its prune phase may do what they like; `Owner` excludes their meeting.

`IncidentLifecycleProofs`, for every set of correlation keys, jobs and sub-agents,
any number of retries and of invocations at work that nobody awaits
(`IncidentAssumption`: types):

| theorem | property | argument |
|---|---|---|
| `TypeCorrect` | | every variable keeps its type; nothing else states it |
| `OneInvestigates` | `SingleInvestigation` | `Opened`: the incident of an execution exists, and only one that does not exist can be won. `OfMessage`: an execution's incident is that of its message, so a Triage that wins beside its retry had none (`WinKeeps`) |
| `RepeatNeedsOverlap` | `SecondNeedsOverlap` | `OverlapOK`: as long as no two invocations of a sub-agent have overlapped, one at most consults, awaited or not, and while it does nothing is recorded. An invocation that is given up on stays the only one (`Calm`); one that looks is alone or is put down as overlapping (`LookKeeps`); one that records was alone (`RecordKeeps`) |
| `SettledStays` | `SettledIsFinal` | from the types alone: each statement keeps the two conditions, by the rows it names, whoever takes it |

`SecondNeedsOverlap` holds only together with `SingleInvestigation`: two executions of
one incident could consult at once without anything being retried.

`ReportPipelineProofs`, for every set of reports, retry policy, number of heartbeats
and choice of timeouts (`BackboneAssumption`, `PipelineAssumption`):

| theorem | property | argument |
|---|---|---|
| `ReportTypeCorrect` | `ReportTypeOK` | with the backbone's types; a row has a report from its submission on |
| `PipelineKeepsBackbone` | `EndedMeansSettled`, `TerminalIsFinal` | every step of the pipeline is a step of the backbone or leaves it alone, so the backbone's own invariants carry over with their proofs |
| `SuccessSettles` | `SuccessSettlesReport` | `HandledPart`: an invocation that has returned has finished its report, and success is only written by one that has |
| `ReportStays` | `ReportIsFinal` | every UPDATE of a report names running rows only, except `DeliveryFailed` (`ReportMoves`) |
| `RenderingStays` | `RenderingNotReaped` | `BeatPart` and `FreshPart`, on top of `AgeInv`: the report of an invocation that beats and is awaited is no older than its task, which is younger than its timeout. Uses `ThresholdAssumption` |

`SuccessSettlesReport` alone is not inductive: a worker that has returned without
finishing its report would break it with its next write.

Only model-checked: the liveness properties (`RunningSettles`, `QueuedSettles`,
`ReportSettles`, `BacklogDrains`, `DueIsClaimed`, `RunningStageSettles`), which are
outside the prover's reach. Every invariant and every action property that a passing
run checks is also the property of a theorem.

## 6. Where the code and its documentation disagree

`never_investigated`, a run that TLC ends with a counterexample: the webhook says
that on accept it opens the incident and enqueues its first stage, and that "the
heavy/long investigation runs in the worker/SM tier" (route.ts:14-16). The message
it sends has the incident's id inside `payload` (incident.ts:120); the dispatcher
looks for it beside `payload` (dispatcher.py:64-68). So the execution gets neither
the incident nor a severity, which ranks below the default minimum: Triage answers
Skipped (triage.py:167-169) and the machine ends with the incident still triaged.
With the minimum lowered to info it opens a second, empty incident instead.

Other observations, without a run:

- The docstring of reaper.py says that queued jobs are not reaped during a pause;
  one failed describe call and they are (lines 19-20 answer "enabled"). The reason
  its comment gives does not apply: running jobs were reaped before the call. Hence
  the hypothesis of `PausedSurvives`.
- "so paused jobs survive": a job that has waited out a pause longer than 30 minutes
  is failed by the first pass after the resume, which counts its age from before the
  pause. `PausedNeverReaped` is what does hold.
- The reaper's reports statement (reaper.py:58-64) is not gated at all: during a pause
  of more than 75 minutes the report of a queued job is failed; after the resume the
  job runs and succeeds, and its report stays failed.
- route.ts:128-131 says that "the LEDGER payload decides who owns it, because the
  worker obeys the payload". Where the payload names no report (lines 132-135), the
  route links its own row and answers 202 with it; but the worker of such a job
  creates and renders a row of its own (handlers.py:83-86), which no answer names,
  and the row that was handed out stays running until the reaper fails it. TLC shows
  this in six states (`Lookup`, `CreateReport`, `FindOwnJob`, `SendMessage`,
  `LinkReportJob`) if `AnswerNamesTheJobsReport` is stated without its hypothesis.
- subagent.py:4-6 says that a sub-agent writes "exactly ONE" row, "never a duplicate
  finding". It looks (line 71), consults for minutes and inserts (lines 91-95), and
  `incident_findings` has no unique key (schema.sql:565-574). An invocation whose
  answer was lost is retried (incident.asl.json:61-66) while it consults; both find
  nothing and both insert. TLC shows two findings in thirteen states if
  `SecondNeedsOverlap` is stated without its exception.
- A stage that is given up on and goes on writes its status after a later one: an
  incident whose mitigation is planned is set back to root_cause (fifteen states). The
  UPDATEs ask only that the incident is not stalled, resolved or skipped; the next
  stage sets the status again, unless the late one was the last.
- jobs.ts:34-36 says a failed delivery is recovered by a redrive; the diagnosis route
  has failed the report by then (route.ts:117-118).
- The month that a schedule without a date adds is clamped on the UTC date
  (diagnosis-schedule.ts:52-56 and the claim's interval alike). Between midnight and
  nine in Korea that is the day before, so a monthly schedule saved then on the 29th
  of January first runs on the 1st of March.
- diagnosis_digest.py:91-93 calls `notify_outcome` the record of whether a report was
  ever emailed. A run that dies between the publication and the stamp leaves the
  stamp to a later one, which records what that one did, `dropped_paused` for
  instance. `EmailedIsTrue` is the direction that holds: `emailed` is never untrue.
- schedule_dispatcher.py:222-226 says that it handles a failed delivery as the web
  tier does; the web tier's UPDATE asks for `status = 'running'` (diagnosis.ts:222),
  the dispatcher's does not. A message that was delivered although SendMessage
  raised can have been rendered by then: the finished report is set to failed, with
  its job succeeded. Without the exception in `ReportIsFinal` TLC shows this in ten
  states.
- diagnosis-schedule.ts:174-178 expects a 23505 from the backfill only; two saves of
  a user without any row, for different frequencies, lead to it as well: neither has a
  row to lock. They get the same 409.
- sync_lambda.py:1633-1634 says that a failed run leaves the earlier disclosure of
  unknown attributes untouched; the running mark has set it to NULL (1352-1357).
- An account whose rows the query left out, and which answers the probe afterwards,
  is pruned: it counts as present with nothing. `SucceededIsSnapshot` is about what
  the run saw, which is all a ledger row can vouch for.
- `NoStepBack` is about attempts that began before. Two rebuilds may still leave the
  older of two collections when the attempt that began first reads second. The graph
  of a disabled account is retained, as `retained`, for ever.
- A Triage that is retried after its own INSERT finds the incident, answers Linked and
  ends the execution: the incident stays triaged, and the watchdog looks only at
  running stages, of which there may be none. The watchdog itself may stall a stage
  and die before it rolls the incident.
- With the orchestrator, the stage row is inserted before the incident is updated: an
  invocation that dies in between makes its retry answer with an empty root cause
  (rootcause.py:132-158). Without it, a repeated Prevention inserts a second
  recommendation, which its docstring calls ONE row.
- Nothing sets an incident to resolved, and its correlation key is unique: an alert of
  the same condition, however much later, is linked to the first incident.
- The ledger row of an incident job is never claimed: the reaper fails it as stale.
- A report deleted between its completion and the digest is still emailed: the pending
  list does not ask for `deleted_at` (diagnosis/db.py:75).

## 7. What is not modelled, and why

The open steps of section 2, with their hazards listed in `PROJECT.json`. The
content of reports, insights, findings, graphs and queries: data. Authentication,
limits and validation of requests: they precede the protocols and keep no state in
them. The S3 artifact of a report: written before the row names it, never changed.
The reaper's reconciliation of FinOps, security-group-rule and network-path runs:
further statements of the same pass and form. The trace class of the graph: its
sources are traces, not the inventory. The content of an incident's stages, and its
write-back to the ticket: calls to a language model and to another system, whose
answers decide no status. Remediation: frozen in the code, `awaiting_approval`
cannot be claimed. By size the repository is mostly pages, translations,
collectors, chat and Terraform: rendering, wording, read-only calls and
declarations, which keep no state that two programs share, so the definitions here
stand for a small share of its lines.
