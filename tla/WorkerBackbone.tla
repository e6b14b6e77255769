--------------------------- MODULE WorkerBackbone ---------------------------
(***************************************************************************)
(* The asynchronous job backbone of AWSops: the web tier writes a          *)
(* worker_jobs row and sends an SQS message (web/lib/jobs.ts); the         *)
(* dispatcher starts one Step Functions execution per job id               *)
(* (dispatcher.py); the execution runs a Lambda or Fargate worker with     *)
(* retries and a catch (sfn.asl.json, worker_lambda.py, fargate_worker.py, *)
(* status_updater.py); the reaper fails stale rows (reaper.py).  All of    *)
(* them meet only in the worker_jobs row, through the conditional UPDATEs  *)
(* of db.py.                                                               *)
(*                                                                         *)
(* Time is counted in ticks of a quarter of an hour: the row's age since   *)
(* its last UPDATE and the time the execution has spent in its task state. *)
(***************************************************************************)
EXTENDS Integers

CONSTANTS
  Jobs,            \* the job ids
  MaxTries,        \* slots for the invocations of one execution's task state
  SvcRetries,      \* per runtime: retries after a service error (sfn.asl.json)
  TimeoutRetries,  \* per runtime: retries after States.Timeout
  TaskTimeout,     \* per runtime: TimeoutSeconds of the task state, in ticks
  QueuedStale,     \* QUEUED_STALE_MIN, in ticks
  RunningStale,    \* RUNNING_STALE_MIN, in ticks
  MaxSends,        \* bound: calls of enqueueJob per job (the first and the replays)
  MaxPauses,       \* bound: times the operator disables the event source mapping
  DescribeMayFail  \* may get_event_source_mapping raise in the reaper?

Runtimes == {"lambda", "fargate"}
Tries    == 1..MaxTries

ASSUME BackboneAssumption ==
  /\ MaxTries \in Nat \ {0}
  /\ SvcRetries \in [Runtimes -> Nat]
  /\ TimeoutRetries \in [Runtimes -> Nat]
  /\ TaskTimeout \in [Runtimes -> Nat \ {0}]
  /\ \A r \in Runtimes : 1 + SvcRetries[r] + TimeoutRetries[r] <= MaxTries
  /\ QueuedStale \in Nat \ {0}
  /\ RunningStale \in Nat \ {0}
  /\ MaxSends \in Nat \ {0}
  /\ MaxPauses \in Nat
  /\ DescribeMayFail \in BOOLEAN

(* workers.tf:656-662: the running threshold exceeds every task timeout.   *)
ASSUME ThresholdAssumption == \A r \in Runtimes : TaskTimeout[r] < RunningStale

(* The kinds of job: the runtime of an allowed type, or a type that the    *)
(* deployed dispatcher does not know and drops.                            *)
Kinds == Runtimes \cup {"disallowed"}

Terminal == {"succeeded", "failed", "canceled", "manual_intervention"}
Statuses == {"absent", "queued", "running"} \cup Terminal

VARIABLES
  (* the worker_jobs row *)
  status,     \* its status; "absent" before the INSERT
  kind,       \* the job's type, as what it is to the dispatcher
  attempt,    \* accepted claims
  rowAge,     \* ticks since updated_at, up to RunningStale
  openTicks,  \* history: ticks spent queued with dispatch enabled; -1: it never was
  (* web tier and SQS *)
  sends,      \* calls of enqueueJob made for the job
  pending,    \* calls between the ledger write and SendMessage
  visible,    \* copies of the message that can be received
  inflight,   \* copies received and not yet deleted or returned
  (* dispatcher event source mapping: the kill switch *)
  esm,        \* is it enabled?
  pauses,     \* times it was disabled
  (* Step Functions *)
  exec,       \* the execution named after the job
  svcUsed,    \* service-error retries used
  toUsed,     \* timeout retries used
  taskAge,    \* ticks in the current invocation of the task state
  (* worker invocations *)
  att,        \* what each invocation of the job is doing
  (* reaper *)
  reaper      \* the next statement of the reaper's pass

ledgerVars == <<status, kind, attempt, rowAge, openTicks>>
sqsVars    == <<sends, pending, visible, inflight>>
esmVars    == <<esm, pauses>>
sfnVars    == <<exec, svcUsed, toUsed, taskAge>>
vars       == <<ledgerVars, sqsVars, esmVars, sfnVars, att, reaper>>

ExecStates == {"none", "task", "marking", "succeeded", "failed", "unmarked"}

(* An invocation claims the row, runs the handler ("working"), writes the  *)
(* outcome and exits.  "unused" also stands for a request the service      *)
(* refused; "err" for a raised exception, a non-zero exit, a kill or an    *)
(* out-of-memory stop.                                                     *)
Live      == {"invoked", "working", "handled", "errored", "written"}
AttStates == {"unused", "ok", "err"} \cup Live

LedgerTypeOK ==
  /\ status \in [Jobs -> Statuses]
  /\ kind \in [Jobs -> Kinds]
  /\ attempt \in [Jobs -> Nat]
  /\ rowAge \in [Jobs -> 0..RunningStale]
  /\ openTicks \in [Jobs -> -1..QueuedStale]

SqsTypeOK ==
  /\ sends \in [Jobs -> 0..MaxSends]
  /\ pending \in [Jobs -> Nat]
  /\ visible \in [Jobs -> Nat]
  /\ inflight \in [Jobs -> Nat]

SfnTypeOK ==
  /\ exec \in [Jobs -> ExecStates]
  /\ svcUsed \in [Jobs -> Nat]
  /\ toUsed \in [Jobs -> Nat]
  /\ taskAge \in [Jobs -> Nat]
  /\ \A j \in Jobs : exec[j] = "none" => svcUsed[j] = 0 /\ toUsed[j] = 0
  /\ \A j \in Jobs : exec[j] # "none" => /\ kind[j] \in Runtimes
                                        /\ svcUsed[j] <= SvcRetries[kind[j]]
                                        /\ toUsed[j] <= TimeoutRetries[kind[j]]

TypeOK ==
  /\ LedgerTypeOK
  /\ SqsTypeOK
  /\ esm \in BOOLEAN /\ pauses \in 0..MaxPauses
  /\ SfnTypeOK
  /\ att \in [Jobs -> [Tries -> AttStates]]
  /\ reaper \in {"running", "describe", "queued"}

Init ==
  /\ status = [j \in Jobs |-> "absent"]
  /\ kind \in [Jobs -> Kinds]
  /\ attempt = [j \in Jobs |-> 0]
  /\ rowAge = [j \in Jobs |-> 0]
  /\ openTicks = [j \in Jobs |-> -1]
  /\ sends = [j \in Jobs |-> 0]
  /\ pending = [j \in Jobs |-> 0]
  /\ visible = [j \in Jobs |-> 0]
  /\ inflight = [j \in Jobs |-> 0]
  /\ esm = TRUE
  /\ pauses = 0
  /\ exec = [j \in Jobs |-> "none"]
  /\ svcUsed = [j \in Jobs |-> 0]
  /\ toUsed = [j \in Jobs |-> 0]
  /\ taskAge = [j \in Jobs |-> 0]
  /\ att = [j \in Jobs |-> [k \in Tries |-> "unused"]]
  /\ reaper = "running"

-----------------------------------------------------------------------------
(* UPDATE worker_jobs SET status = s for the rows of S; the                *)
(* touch_updated_at trigger stamps every updated row.                      *)
UpdateRows(S, s) ==
  /\ status' = [j \in Jobs |-> IF j \in S THEN s ELSE status[j]]
  /\ rowAge' = [j \in Jobs |-> IF j \in S THEN 0 ELSE rowAge[j]]
  /\ UNCHANGED kind

(* Two ways to get claim_running's predicate wrong: a retried invocation   *)
(* cannot claim again; a failed job can be claimed.                        *)
ClaimableOnce(j)       == status[j] = "queued"
ClaimableIfFailed(j)   == status[j] \in {"queued", "running", "failed"}

(* The predicate of claim_running's UPDATE.                                *)
Claimable(j) == status[j] \in {"queued", "running"}

(* finish_job without its guard against terminal rows.                     *)
FinishableAlways(j, s) == s = "succeeded" => status[j] = "running"

(* The predicate of finish_job's UPDATE.                                   *)
Finishable(j, s) ==
  /\ status[j] \notin Terminal \cup {"absent"}
  /\ s = "succeeded" => status[j] = "running"

FinishJob(j, s) ==
  /\ UpdateRows({i \in {j} : Finishable(i, s)}, s)
  /\ UNCHANGED <<attempt, openTicks>>

SetAtt(j, k, a) == att' = [att EXCEPT ![j][k] = a]

-----------------------------------------------------------------------------
(* enqueueJob: the INSERT of the job's row, or, on a replay of its         *)
(* idempotency key, the row that is found; SendMessage is a later step.    *)
Insert(j) ==
  /\ status[j] = "absent"
  /\ sends[j] < MaxSends
  /\ UpdateRows({j}, "queued")
  /\ openTicks' = [openTicks EXCEPT ![j] = IF esm THEN 0 ELSE @]
  /\ UNCHANGED attempt
  /\ sends' = [sends EXCEPT ![j] = @ + 1]
  /\ pending' = [pending EXCEPT ![j] = @ + 1]
  /\ UNCHANGED <<visible, inflight, esmVars, sfnVars, att, reaper>>

Replay(j) ==
  /\ status[j] # "absent"
  /\ sends[j] < MaxSends
  /\ sends' = [sends EXCEPT ![j] = @ + 1]
  /\ pending' = [pending EXCEPT ![j] = @ + 1]
  /\ UNCHANGED <<ledgerVars, visible, inflight, esmVars, sfnVars, att, reaper>>

(* SendMessage delivers a copy, or fails (EnqueueDeliveryError, or the web *)
(* task dies before it): the row stays queued without a message.           *)
Send(j) ==
  /\ pending[j] > 0
  /\ pending' = [pending EXCEPT ![j] = @ - 1]
  /\ \/ visible' = [visible EXCEPT ![j] = @ + 1]
     \/ UNCHANGED visible
  /\ UNCHANGED <<ledgerVars, sends, inflight, esmVars, sfnVars, att, reaper>>

-----------------------------------------------------------------------------
(* The operator disables and enables the event source mapping.             *)
Pause ==
  /\ esm
  /\ pauses < MaxPauses
  /\ esm' = FALSE
  /\ pauses' = pauses + 1
  /\ UNCHANGED <<ledgerVars, sqsVars, sfnVars, att, reaper>>

Resume ==
  /\ ~esm
  /\ esm' = TRUE
  /\ openTicks' = [j \in Jobs |->
       IF status[j] = "queued" /\ openTicks[j] < 0 THEN 0 ELSE openTicks[j]]
  /\ UNCHANGED <<status, kind, attempt, rowAge, pauses, sqsVars, sfnVars, att, reaper>>

(* The enabled mapping hands a copy to the dispatcher, which may still be  *)
(* working on it when the mapping is disabled.                             *)
Receive(j) ==
  /\ esm
  /\ visible[j] > 0
  /\ visible' = [visible EXCEPT ![j] = @ - 1]
  /\ inflight' = [inflight EXCEPT ![j] = @ + 1]
  /\ UNCHANGED <<ledgerVars, sends, pending, esmVars, sfnVars, att, reaper>>

(* What happens to a received copy: the batch response deletes it, or it   *)
(* returns to the queue (a reported item failure, a dispatcher that died   *)
(* before its response, an expired visibility timeout), or, once           *)
(* maxReceiveCount is used up, it goes to the dead-letter queue.           *)
Deleted(j)  == inflight' = [inflight EXCEPT ![j] = @ - 1] /\ UNCHANGED visible
Returned(j) == /\ inflight' = [inflight EXCEPT ![j] = @ - 1]
               /\ visible' = [visible EXCEPT ![j] = @ + 1]

(* The request of the task state: accepted, or refused by the service.     *)
Invoke(j, k) ==
  /\ \/ SetAtt(j, k, "invoked")
     \/ UNCHANGED att
  /\ taskAge' = [taskAge EXCEPT ![j] = 0]

(* StartExecution with the job id as the execution's name.                 *)
StartExecution(j) ==
  /\ inflight[j] > 0
  /\ kind[j] \in Runtimes
  /\ exec[j] = "none"
  /\ exec' = [exec EXCEPT ![j] = "task"]
  /\ Invoke(j, 1)
  /\ Deleted(j) \/ Returned(j)
  /\ UNCHANGED <<ledgerVars, sends, pending, esmVars, svcUsed, toUsed, reaper>>

(* ExecutionAlreadyExists, or a type that is not allowed: success for SQS. *)
Drop(j) ==
  /\ inflight[j] > 0
  /\ exec[j] # "none" \/ kind[j] = "disallowed"
  /\ Deleted(j) \/ Returned(j)
  /\ UNCHANGED <<ledgerVars, sends, pending, esmVars, sfnVars, att, reaper>>

(* Any other error of StartExecution: the message is retried or dead.      *)
DispatchError(j) ==
  /\ inflight[j] > 0
  /\ kind[j] \in Runtimes
  /\ Deleted(j) \/ Returned(j)
  /\ UNCHANGED <<ledgerVars, sends, pending, esmVars, sfnVars, att, reaper>>

-----------------------------------------------------------------------------
(* The execution.  The invocation it waits for is the last one it made:    *)
(* after a retry the earlier ones may still be alive, unobserved.          *)
Current(j) == 1 + svcUsed[j] + toUsed[j]
Waiting(j) == exec[j] = "task"

EndTask(j, state) ==
  /\ exec' = [exec EXCEPT ![j] = state]
  /\ UNCHANGED <<svcUsed, toUsed, taskAge, att>>

TaskSucceeds(j) ==
  /\ Waiting(j)
  /\ att[j][Current(j)] = "ok"
  /\ EndTask(j, "succeeded")
  /\ UNCHANGED <<ledgerVars, sqsVars, esmVars, reaper>>

(* A raised handler error, a killed function or a container that exits     *)
(* non-zero matches no Retry and is caught.                                *)
TaskFails(j) ==
  /\ Waiting(j)
  /\ att[j][Current(j)] = "err"
  /\ EndTask(j, "marking")
  /\ UNCHANGED <<ledgerVars, sqsVars, esmVars, reaper>>

(* Retry counted one too far, and as MaxAttempts counts it.                *)
OneRetryTooMany(j) == svcUsed[j] <= SvcRetries[kind[j]]
SvcRetryLeft(j)    == svcUsed[j] < SvcRetries[kind[j]]

(* A Lambda or ECS service error, whatever became of the invocation: the   *)
(* request was refused, or it was served and the answer was lost.  It is   *)
(* caught when no retry is left, or when Retry does not list it.           *)
ServiceError(j) ==
  /\ Waiting(j)
  /\ \/ /\ SvcRetryLeft(j)
        /\ svcUsed' = [svcUsed EXCEPT ![j] = @ + 1]
        /\ Invoke(j, Current(j) + 1)
        /\ UNCHANGED <<exec, toUsed>>
     \/ EndTask(j, "marking")
  /\ UNCHANGED <<ledgerVars, sqsVars, esmVars, reaper>>

TimedOut(j) == Waiting(j) /\ taskAge[j] = TaskTimeout[kind[j]]

TaskTimesOut(j) ==
  /\ TimedOut(j)
  /\ IF toUsed[j] < TimeoutRetries[kind[j]]
       THEN /\ toUsed' = [toUsed EXCEPT ![j] = @ + 1]
            /\ Invoke(j, Current(j) + 1)
            /\ UNCHANGED <<exec, svcUsed>>
       ELSE EndTask(j, "marking")
  /\ UNCHANGED <<ledgerVars, sqsVars, esmVars, reaper>>

(* MarkFailed: status_updater's finish_job; its answer may be lost, and    *)
(* the state retried.                                                      *)
MarkFailed(j) ==
  /\ exec[j] = "marking"
  /\ FinishJob(j, "failed")
  /\ \/ exec' = [exec EXCEPT ![j] = "failed"]
     \/ UNCHANGED exec
  /\ UNCHANGED <<svcUsed, toUsed, taskAge, sqsVars, esmVars, att, reaper>>

(* The six retries of MarkFailed are used up; it has no Catch.             *)
MarkExhausted(j) ==
  /\ exec[j] = "marking"
  /\ exec' = [exec EXCEPT ![j] = "unmarked"]
  /\ UNCHANGED <<svcUsed, toUsed, taskAge, ledgerVars, sqsVars, esmVars, att, reaper>>

-----------------------------------------------------------------------------
(* A worker invocation k of job j (worker_lambda.py, fargate_worker.py).   *)
ClaimRunning(j, k) ==
  /\ att[j][k] = "invoked"
  /\ Claimable(j)
  /\ UpdateRows({j}, "running")
  /\ attempt' = [attempt EXCEPT ![j] = @ + 1]
  /\ SetAtt(j, k, "working")
  /\ UNCHANGED <<openTicks, sqsVars, esmVars, sfnVars, reaper>>

(* claim_running updated no row: the worker returns at once.               *)
SkipClaim(j, k) ==
  /\ att[j][k] = "invoked"
  /\ ~Claimable(j)
  /\ SetAtt(j, k, "ok")
  /\ UNCHANGED <<ledgerVars, sqsVars, esmVars, sfnVars, reaper>>

(* The handler returns, or raises (an unknown type raises too).            *)
Handle(j, k) ==
  /\ att[j][k] = "working"
  /\ \E a \in {"handled", "errored"} : SetAtt(j, k, a)
  /\ UNCHANGED <<ledgerVars, sqsVars, esmVars, sfnVars, reaper>>

(* finish_job(succeeded); its row count changes the answer of the Lambda   *)
(* worker and is ignored by the Fargate one: both exit normally.  If it    *)
(* raises, before or after its commit, the worker goes the way of a        *)
(* handler error.                                                          *)
FinishSucceeded(j, k) ==
  /\ att[j][k] = "handled"
  /\ \/ FinishJob(j, "succeeded") /\ SetAtt(j, k, "written")
     \/ FinishJob(j, "succeeded") /\ SetAtt(j, k, "errored")
     \/ UNCHANGED ledgerVars /\ SetAtt(j, k, "errored")
  /\ UNCHANGED <<sqsVars, esmVars, sfnVars, reaper>>

(* After a handler error the Fargate worker writes 'failed', if it can,    *)
(* and raises; the Lambda worker only raises.                              *)
FinishFailed(j, k) ==
  /\ att[j][k] = "errored"
  /\ kind[j] = "fargate"
  /\ FinishJob(j, "failed")
  /\ SetAtt(j, k, "err")
  /\ UNCHANGED <<sqsVars, esmVars, sfnVars, reaper>>

Exit(j, k) ==
  /\ att[j][k] = "written"
  /\ SetAtt(j, k, "ok")
  /\ UNCHANGED <<ledgerVars, sqsVars, esmVars, sfnVars, reaper>>

(* The invocation is killed, runs out of memory, loses its database        *)
(* connection or raises, anywhere between two of its statements.           *)
Die(j, k) ==
  /\ att[j][k] \in Live
  /\ SetAtt(j, k, "err")
  /\ UNCHANGED <<ledgerVars, sqsVars, esmVars, sfnVars, reaper>>

-----------------------------------------------------------------------------
(* The reaper: one pass fails stale running rows, asks for the state of    *)
(* the mapping, and fails stale queued rows if dispatch is on.  A pass     *)
(* that dies starts again at the next schedule.                            *)
(* Its predicates with a threshold a tick too low, and with the status of  *)
(* the other statement.                                                    *)
StaleRunningEarly(j) == status[j] = "running" /\ rowAge[j] >= RunningStale - 1
StaleRunningSwap(j)  == status[j] = "queued" /\ rowAge[j] >= RunningStale

StaleRunning(j) == status[j] = "running" /\ rowAge[j] >= RunningStale
StaleQueued(j)  == status[j] = "queued" /\ rowAge[j] >= QueuedStale

(* The kill switch ignored, and read the wrong way round.                  *)
DispatchAlways(answer)   == answer \in {"enabled", "disabled", "error"}
DispatchInverted(answer) == answer = "disabled"

(* _dispatch_enabled: a describe error counts as enabled.                  *)
DispatchEnabled(answer) == answer \in {"enabled", "error"}
DescribeAnswers == (IF esm THEN {"enabled"} ELSE {"disabled"})
                     \cup (IF DescribeMayFail THEN {"error"} ELSE {})

ReapRunning ==
  /\ reaper = "running"
  /\ UpdateRows({j \in Jobs : StaleRunning(j)}, "failed")
  /\ reaper' = "describe"
  /\ UNCHANGED <<attempt, openTicks, sqsVars, esmVars, sfnVars, att>>

Describe ==
  /\ reaper = "describe"
  /\ \E answer \in DescribeAnswers :
       reaper' = IF DispatchEnabled(answer) THEN "queued" ELSE "running"
  /\ UNCHANGED <<ledgerVars, sqsVars, esmVars, sfnVars, att>>

ReapQueued ==
  /\ reaper = "queued"
  /\ UpdateRows({j \in Jobs : StaleQueued(j)}, "failed")
  /\ reaper' = "running"
  /\ UNCHANGED <<attempt, openTicks, sqsVars, esmVars, sfnVars, att>>

ReaperDies ==
  /\ reaper # "running"
  /\ reaper' = "running"
  /\ UNCHANGED <<ledgerVars, sqsVars, esmVars, sfnVars, att>>

-----------------------------------------------------------------------------
(* A quarter of an hour passes.  Step Functions times a task out on time,  *)
(* and a pass of the reaper (120 s at most) ends within a tick.            *)
Older(age, limit) == IF age < limit THEN age + 1 ELSE age

Tick ==
  /\ \A j \in Jobs : ~TimedOut(j)
  /\ reaper = "running"
  /\ rowAge' = [j \in Jobs |->
       IF status[j] = "absent" THEN rowAge[j] ELSE Older(rowAge[j], RunningStale)]
  /\ taskAge' = [j \in Jobs |-> IF Waiting(j) THEN taskAge[j] + 1 ELSE taskAge[j]]
  /\ openTicks' = [j \in Jobs |->
       IF status[j] = "queued" /\ esm THEN Older(openTicks[j], QueuedStale) ELSE openTicks[j]]
  /\ UNCHANGED <<status, kind, attempt, sqsVars, esmVars, exec, svcUsed, toUsed, att, reaper>>

WebStep(j)        == Insert(j) \/ Replay(j) \/ Send(j)
DispatcherStep(j) == Receive(j) \/ StartExecution(j) \/ Drop(j) \/ DispatchError(j)
SfnStep(j)        == \/ TaskSucceeds(j) \/ TaskFails(j) \/ ServiceError(j)
                     \/ TaskTimesOut(j) \/ MarkFailed(j) \/ MarkExhausted(j)
WorkerStep(j, k)  == \/ ClaimRunning(j, k) \/ SkipClaim(j, k) \/ Handle(j, k)
                     \/ FinishSucceeded(j, k) \/ FinishFailed(j, k)
                     \/ Exit(j, k) \/ Die(j, k)
ReaperStep        == ReapRunning \/ Describe \/ ReapQueued \/ ReaperDies

Next ==
  \/ \E j \in Jobs : WebStep(j) \/ DispatcherStep(j) \/ SfnStep(j)
  \/ \E j \in Jobs, k \in Tries : WorkerStep(j, k)
  \/ ReaperStep
  \/ Pause \/ Resume \/ Tick

(* Fairness: time passes, Step Functions times tasks out, and EventBridge  *)
(* invokes the reaper every five minutes and not every pass dies.  Nothing *)
(* is assumed of the web tier, of delivery, of the workers or the operator.*)
Fairness ==
  /\ SF_vars(Tick)
  /\ \A j \in Jobs : WF_vars(TaskTimesOut(j))
  /\ WF_vars(ReapRunning)
  /\ SF_vars(Describe)
  /\ SF_vars(ReapQueued)

Spec == Init /\ [][Next]_vars /\ Fairness
-----------------------------------------------------------------------------
(* db.py:6-8: terminal states are immutable.  No step of any actor - a     *)
(* late worker, a retried invocation, the catch's status_updater, the      *)
(* reaper, a replayed request - changes a terminal status.                 *)
TerminalIsFinal ==
  [][\A j \in Jobs : status[j] \in Terminal => status'[j] = status[j]]_vars

(* An execution that Step Functions reports as ended, in success or after  *)
(* a MarkFailed that was served, has left its job settled: no worker exits *)
(* normally over a row that is still running, whichever invocation of the  *)
(* retried task claimed it first.                                          *)
EndedMeansSettled ==
  \A j \in Jobs : exec[j] \in {"succeeded", "failed"} => status[j] \in Terminal

(* workers.tf:656-661: the running threshold exceeds the longest task      *)
(* timeout so that Step Functions, and not the reaper, decides about a job *)
(* whose awaited invocation is still at work.                              *)
SfnDecidesBeforeReaper ==
  [][\A j \in Jobs : reaper = "running" /\ reaper' # "running"
       /\ status[j] = "running" /\ status'[j] = "failed"
         => ~(Waiting(j) /\ att[j][Current(j)] \in {"working", "handled"})]_vars

(* reaper.py:1-3: a job submitted while dispatch is disabled is not failed *)
(* before dispatch has been enabled again (or the job has run).            *)
PausedNeverReaped ==
  \A j \in Jobs : status[j] = "failed" => openTicks[j] >= 0

(* The inductive strengthenings of EndedMeansSettled, PausedNeverReaped    *)
(* and SfnDecidesBeforeReaper.  A worker past its claim finds the row      *)
(* running or settled; one that is past its last write finds it settled;   *)
(* nothing is sent, received or started for a row that does not exist.     *)
SettledInv ==
  \A j \in Jobs :
    /\ exec[j] \in {"succeeded", "failed"} => status[j] \in Terminal
    /\ status[j] = "absent" =>
         /\ exec[j] = "none" /\ inflight[j] = 0 /\ visible[j] = 0 /\ pending[j] = 0
         /\ \A k \in Tries : att[j][k] = "unused"
    /\ \A k \in Tries :
         /\ att[j][k] \in {"working", "handled", "errored"}
              => status[j] \in Terminal \cup {"running"}
         /\ att[j][k] \in {"written", "ok"} => status[j] \in Terminal

(* Whatever has happened to a job beyond its submission happened after     *)
(* dispatch was enabled; and the reaper, once past its check, finds only   *)
(* fresh rows among those submitted after a pause began.                   *)
PausedInv ==
  \A j \in Jobs :
    /\ status[j] \notin {"absent", "queued"} => openTicks[j] >= 0
    /\ esm /\ status[j] # "absent" => openTicks[j] >= 0
    /\ inflight[j] > 0 \/ exec[j] # "none" => openTicks[j] >= 0
    /\ \A k \in Tries : att[j][k] # "unused" => openTicks[j] >= 0
    /\ reaper = "queued" /\ status[j] = "queued" /\ openTicks[j] < 0 => rowAge[j] = 0

(* A row claimed by the awaited invocation is not older than its task.     *)
AgeInv ==
  \A j \in Jobs :
    /\ Waiting(j) => taskAge[j] <= TaskTimeout[kind[j]]
    /\ \A k \in Tries : exec[j] = "none" \/ k > Current(j) => att[j][k] = "unused"
    /\ /\ Waiting(j)
       /\ att[j][Current(j)] \in {"working", "handled"}
       /\ status[j] = "running"
       => rowAge[j] <= taskAge[j]

(* A running job settles although its workers, its execution and the       *)
(* recording of its failure may all die (the reaper is the backstop of     *)
(* sfn.asl.json:127).                                                      *)
RunningSettles == \A j \in Jobs : status[j] = "running" ~> status[j] \in Terminal

(* A queued job settles even if its message was never delivered, unless    *)
(* the operator leaves dispatch disabled (jobs.ts:34-36).                  *)
QueuedSettles ==
  <>[]esm => \A j \in Jobs : status[j] = "queued" ~> status[j] \in Terminal

(* The ledger, seen through its status and its claims, is JobLedger.       *)
Ledger == INSTANCE JobLedger WITH claims <- attempt
ImplementsLedger == Ledger!Spec

=============================================================================
