---------------------------- MODULE ReportPipeline ----------------------------
(***************************************************************************)
(* A diagnosis report on its way through the job backbone: WorkerBackbone  *)
(* composed with the diagnosis_reports row that the job's payload names.   *)
(* The row is written by its origin, which is a web request (route.ts) or  *)
(* the schedule dispatcher (schedule_dispatcher.py), by every invocation   *)
(* of the report worker (handlers._report, diagnosis/db.py,                *)
(* fargate_worker.py) and by the last statement of the reaper's pass: each *)
(* UPDATE but the dispatcher's is conditional on the row being "running".  *)
(*                                                                         *)
(* All jobs are reports; DiagnosisSubmit has settled which request owns    *)
(* the row, so each job is enqueued once (MaxSends = 1).  "partial" counts *)
(* as "succeeded", and deleting a report does not touch its status.        *)
(***************************************************************************)
EXTENDS WorkerBackbone

CONSTANT MaxBeats   \* bound: progress writes of one invocation (one per section)

ASSUME PipelineAssumption == MaxBeats \in Nat \ {0} /\ MaxSends = 1

VARIABLES
  report,   \* status of the row; "absent" before its INSERT
  repAge,   \* ticks since its updated_at, up to RunningStale
  linked,   \* is its worker_job_id set?
  origin,   \* who is submitting the report, and the statement it is at
  beats,    \* progress writes of each invocation
  due       \* has the reaper's pass its reports statement before it?

reportVars == <<report, repAge, linked, origin>>
pipeVars   == <<reportVars, beats, due>>
allVars    == <<vars, pipeVars>>

RepStates == {"absent", "running", "succeeded", "failed"}

(* Both origins create the report, insert the job, send its message and    *)
(* link the report: the web sends before it links, the dispatcher after.   *)
Idle  == [by |-> "nobody", at |-> "idle"]
Steps == {"inserting", "sending", "linking", "failing"}
Busy  == [by : {"web", "schedule"}, at : Steps]

ReportTypeOK ==
  /\ report \in [Jobs -> RepStates]
  /\ repAge \in [Jobs -> 0..RunningStale]
  /\ linked \in [Jobs -> BOOLEAN]
  /\ origin \in [Jobs -> {Idle} \cup Busy]
  /\ beats \in [Jobs -> [Tries -> 0..MaxBeats]]
  /\ due \in BOOLEAN
  /\ \A j \in Jobs : report[j] = "absent" => status[j] = "absent" /\ origin[j] = Idle

PipeInit ==
  /\ Init
  /\ kind = [j \in Jobs |-> "fargate"]
  /\ report = [j \in Jobs |-> "absent"]
  /\ repAge = [j \in Jobs |-> 0]
  /\ linked = [j \in Jobs |-> FALSE]
  /\ origin = [j \in Jobs |-> Idle]
  /\ beats = [j \in Jobs |-> [k \in Tries |-> 0]]
  /\ due = FALSE

-----------------------------------------------------------------------------
(* UPDATE diagnosis_reports SET status = s for the rows of S; the trigger  *)
(* stamps them.                                                            *)
UpdateReports(S, s) ==
  /\ report' = [j \in Jobs |-> IF j \in S THEN s ELSE report[j]]
  /\ repAge' = [j \in Jobs |-> IF j \in S THEN 0 ELSE repAge[j]]

(* The predicate of markReportFailed's, update_progress' and               *)
(* finish_report's UPDATE; and the UPDATE by id alone.                     *)
AnyReport(j)     == report[j] # "absent"
RunningReport(j) == report[j] = "running"

FinishReport(j, s) == UpdateReports({i \in {j} : RunningReport(i)}, s)

(* Steps of the backbone that leave the report alone.                      *)
Elsewhere(step) == step /\ UNCHANGED pipeVars

-----------------------------------------------------------------------------
(* The origin of a report.                                                 *)
At(j, b, step) == origin[j] = [by |-> b, at |-> step]
Go(j, b, step) == origin' = [origin EXCEPT ![j] = [by |-> b, at |-> step]]
Leave(j)       == origin' = [origin EXCEPT ![j] = Idle]

(* createReport, _create_report: the row is there before its job.          *)
CreateReport(j, b) ==
  /\ report[j] = "absent"
  /\ Go(j, b, "inserting")
  /\ UpdateReports({j}, "running")
  /\ UNCHANGED <<vars, linked, beats, due>>

(* The ledger half of enqueueJob, or insert_job.                           *)
InsertJob(j) ==
  /\ Insert(j)
  /\ \/ At(j, "web", "inserting") /\ Go(j, "web", "sending")
     \/ At(j, "schedule", "inserting") /\ Go(j, "schedule", "linking")
  /\ UNCHANGED <<report, repAge, linked, beats, due>>

(* The INSERT fails: the web fails its report; the dispatcher leaves, as   *)
(* after any error outside its try.                                        *)
InsertFails(j) ==
  /\ At(j, "web", "inserting")
  /\ Go(j, "web", "failing")
  /\ UNCHANGED <<vars, report, repAge, linked, beats, due>>

(* SendMessage.  A delivery whose answer is lost counts as failed.         *)
SendOrFail(j) ==
  /\ origin[j].at = "sending"
  /\ Send(j)
  /\ \/ visible'[j] > visible[j] /\ At(j, "web", "sending") /\ Go(j, "web", "linking")
     \/ visible'[j] > visible[j] /\ At(j, "schedule", "sending") /\ Leave(j)
     \/ Go(j, origin[j].by, "failing")
  /\ UNCHANGED <<report, repAge, linked, beats, due>>

LinkReport(j) ==
  /\ \/ At(j, "web", "linking") /\ Leave(j)
     \/ At(j, "schedule", "linking") /\ Go(j, "schedule", "sending")
  /\ linked' = [linked EXCEPT ![j] = TRUE]
  /\ repAge' = [repAge EXCEPT ![j] = 0]
  /\ UNCHANGED <<vars, report, beats, due>>

MarkReportFailed(j) ==
  /\ At(j, "web", "failing")
  /\ Leave(j)
  /\ FinishReport(j, "failed")
  /\ UNCHANGED <<vars, linked, beats, due>>

(* The dispatcher's UPDATE, by id alone.                                   *)
DeliveryFailed(j) ==
  /\ At(j, "schedule", "failing")
  /\ Leave(j)
  /\ UpdateReports({j}, "failed")
  /\ UNCHANGED <<vars, linked, beats, due>>

(* The origin stops between two statements: what it has not sent, it never *)
(* will.                                                                   *)
OriginDies(j) ==
  /\ origin[j] # Idle
  /\ Leave(j)
  /\ IF pending[j] > 0 THEN Send(j) /\ UNCHANGED visible ELSE UNCHANGED vars
  /\ UNCHANGED <<report, repAge, linked, beats, due>>

-----------------------------------------------------------------------------
(* update_progress, the heartbeat; it touches no row that is not running.  *)
Progress(j, k) ==
  /\ att[j][k] = "working"
  /\ beats[j][k] < MaxBeats
  /\ beats' = [beats EXCEPT ![j][k] = @ + 1]
  /\ UpdateReports({i \in {j} : RunningReport(i)}, "running")
  /\ UNCHANGED <<vars, linked, origin, due>>

(* finish_report left to someone else.  And: _report returns after         *)
(* finish_report, or raises, after it has failed the report or, with its   *)
(* connection gone, without having done so.                                *)
RenderOnly(j, k) == Elsewhere(Handle(j, k))

Render(j, k) ==
  /\ Handle(j, k)
  /\ \/ att'[j][k] = "handled" /\ FinishReport(j, "succeeded")
     \/ att'[j][k] = "errored" /\ FinishReport(j, "failed")
     \/ att'[j][k] = "errored" /\ UNCHANGED <<report, repAge>>
  /\ UNCHANGED <<linked, origin, beats, due>>

(* finish_job(failed), then _fail_report, which is best effort.            *)
FailBoth(j, k) ==
  /\ FinishFailed(j, k)
  /\ \/ FinishReport(j, "failed")
     \/ UNCHANGED <<report, repAge>>
  /\ UNCHANGED <<linked, origin, beats, due>>

-----------------------------------------------------------------------------
(* The reaper's pass, now with its reports statement, which runs whether   *)
(* or not dispatch is enabled.                                             *)
PassRunning == ReapRunning /\ ~due /\ UNCHANGED pipeVars

PassDescribe ==
  /\ Describe
  /\ due' = (reaper' = "running")
  /\ UNCHANGED <<reportVars, beats>>

PassQueued ==
  /\ ReapQueued
  /\ due' = TRUE
  /\ UNCHANGED <<reportVars, beats>>

(* The failed jobs only; a threshold a tick too low; and the predicate of  *)
(* the code: the report's job has failed, or the report is stale.          *)
JobFailedOnly(j)  == linked[j] /\ status[j] = "failed"
ReapableEarly(j)  == (linked[j] /\ status[j] = "failed") \/ repAge[j] >= RunningStale - 1
ReportReapable(j) == (linked[j] /\ status[j] = "failed") \/ repAge[j] >= RunningStale

PassReports ==
  /\ due
  /\ UpdateReports({j \in Jobs : RunningReport(j) /\ ReportReapable(j)}, "failed")
  /\ due' = FALSE
  /\ UNCHANGED <<vars, linked, origin, beats>>

PassDies ==
  /\ IF due THEN UNCHANGED vars ELSE ReaperDies
  /\ due' = FALSE
  /\ UNCHANGED <<reportVars, beats>>

(* A pass ends within a tick, and so does a handler.                       *)
PipeTick ==
  /\ Tick
  /\ ~due
  /\ \A j \in Jobs : origin[j] = Idle
  /\ repAge' = [j \in Jobs |->
       IF report[j] = "absent" THEN repAge[j] ELSE Older(repAge[j], RunningStale)]
  /\ UNCHANGED <<report, linked, origin, beats, due>>

-----------------------------------------------------------------------------
OriginStep(j) == \/ InsertJob(j) \/ InsertFails(j) \/ SendOrFail(j) \/ LinkReport(j)
                 \/ MarkReportFailed(j) \/ DeliveryFailed(j) \/ OriginDies(j)

OriginSide(j) == (\E b \in {"web", "schedule"} : CreateReport(j, b)) \/ OriginStep(j)

WorkerSide(j, k) ==
  \/ Progress(j, k) \/ Render(j, k) \/ FailBoth(j, k)
  \/ Elsewhere(ClaimRunning(j, k)) \/ Elsewhere(SkipClaim(j, k))
  \/ Elsewhere(FinishSucceeded(j, k)) \/ Elsewhere(Exit(j, k)) \/ Elsewhere(Die(j, k))

PassStep == PassRunning \/ PassDescribe \/ PassQueued \/ PassReports \/ PassDies

PipeNext ==
  \/ \E j \in Jobs :
       \/ OriginSide(j)
       \/ Elsewhere(Receive(j)) \/ Elsewhere(StartExecution(j))
       \/ Elsewhere(Drop(j)) \/ Elsewhere(DispatchError(j))
       \/ Elsewhere(SfnStep(j))
  \/ \E j \in Jobs, k \in Tries : WorkerSide(j, k)
  \/ PassStep
  \/ Elsewhere(Pause) \/ Elsewhere(Resume)
  \/ PipeTick

(* As in WorkerBackbone, with the reports statement of the pass: not every *)
(* pass dies before it.  A request, and an invocation of the schedule      *)
(* dispatcher, ends one way or another.                                    *)
PipeFairness ==
  /\ SF_allVars(PipeTick)
  /\ \A j \in Jobs : WF_allVars(TaskTimesOut(j) /\ UNCHANGED pipeVars)
  /\ WF_allVars(PassRunning)
  /\ SF_allVars(PassDescribe)
  /\ SF_allVars(PassQueued)
  /\ SF_allVars(PassReports)
  /\ \A j \in Jobs : WF_allVars(OriginStep(j))

PipeSpec == PipeInit /\ [][PipeNext]_allVars /\ PipeFairness
-----------------------------------------------------------------------------
(* handlers.py:102 before fargate_worker.py:98: a job that the ledger      *)
(* calls succeeded has left no report running, whichever of two            *)
(* overlapping invocations of the task wrote which row.                    *)
SuccessSettlesReport ==
  \A j \in Jobs : status[j] = "succeeded" => report[j] \in {"succeeded", "failed"}

(* diagnosis/db.py:51,130: a settled report is not rewritten: not by a     *)
(* worker that returns after the reaper gave it up, not by the reaper, not *)
(* by the request whose delivery failed.  schedule_dispatcher.py:224 is    *)
(* the one exception: its delivery failed, so it says, and it fails the    *)
(* report whatever has become of it.                                       *)
ReportIsFinal ==
  [][\A j \in Jobs : report[j] \in {"succeeded", "failed"} /\ report'[j] # report[j]
       => At(j, "schedule", "failing") /\ report'[j] = "failed"]_allVars

(* diagnosis/db.py:51-52: a worker that keeps emitting progress looks      *)
(* alive.  The reaper does not fail the report of a running job whose      *)
(* awaited invocation has emitted progress and is still at work.           *)
RenderingNotReaped ==
  [][\A j \in Jobs : due /\ ~due' /\ report[j] = "running" /\ report'[j] = "failed"
       /\ status[j] = "running" /\ Waiting(j)
         => ~(att[j][Current(j)] = "working" /\ beats[j][Current(j)] > 0)]_allVars

(* reaper.py:53-57: no report stays "running" for ever, whatever died on   *)
(* the way: the handler, the worker, the execution or the recording of its *)
(* failure, with dispatch enabled or not.                                  *)
ReportSettles == \A j \in Jobs : report[j] = "running" ~> report[j] # "running"

=============================================================================
