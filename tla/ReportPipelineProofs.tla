------------------------ MODULE ReportPipelineProofs ------------------------
(***************************************************************************)
(* The report beside its job, for every set of reports, every retry        *)
(* policy, every number of heartbeats and every choice of the timeouts:    *)
(* the pipeline implements the backbone, a report settles with its job and *)
(* once, and one that is being rendered is not given up.                   *)
(***************************************************************************)
EXTENDS ReportPipeline, WorkerBackboneProofs

BackboneInv == TypeOK /\ SettledInv /\ AgeInv

(* A worker that has returned has finished its report.                     *)
HandledPart(j, k) == att[j][k] = "handled" => report[j] \in {"succeeded", "failed"}

(* An invocation beats only while it is at work, and not before.           *)
BeatPart(j, k) == att[j][k] \in {"unused", "invoked"} => beats[j][k] = 0

(* The awaited invocation, with a heartbeat.                               *)
Beating(j) ==
  Waiting(j) /\ att[j][Current(j)] = "working" /\ beats[j][Current(j)] > 0

(* The report of such an invocation is no older than its task.             *)
FreshPart(j) == Beating(j) /\ report[j] = "running" => repAge[j] <= taskAge[j]

PipeInv ==
  /\ BackboneInv
  /\ ReportTypeOK
  /\ SuccessSettlesReport
  /\ \A j \in Jobs : FreshPart(j) /\ \A k \in Tries : HandledPart(j, k) /\ BeatPart(j, k)

USE BackboneAssumption, PipelineAssumption

-----------------------------------------------------------------------------
(* The backbone under the reports.                                         *)

LEMMA BackboneStep == ASSUME [PipeNext]_allVars PROVE [Next]_vars
<1>1. ASSUME NEW j \in Jobs, OriginSide(j) PROVE [Next]_vars
  <2>1. CASE InsertJob(j) \/ SendOrFail(j) \/ OriginDies(j)
    BY <2>1 DEF InsertJob, SendOrFail, OriginDies, Next, WebStep
  <2> QED
    BY <1>1, <2>1 DEF OriginSide, OriginStep, CreateReport, InsertFails, LinkReport,
       MarkReportFailed, DeliveryFailed
<1>2. ASSUME NEW j \in Jobs,
             \/ Elsewhere(Receive(j)) \/ Elsewhere(StartExecution(j)) \/ Elsewhere(Drop(j))
             \/ Elsewhere(DispatchError(j)) \/ Elsewhere(SfnStep(j))
      PROVE  Next
  BY <1>2 DEF Elsewhere, Next, DispatcherStep
<1>3. ASSUME NEW j \in Jobs, NEW k \in Tries, WorkerSide(j, k) PROVE [Next]_vars
  <2>1. CASE Progress(j, k)
    BY <2>1 DEF Progress
  <2>2. CASE ~Progress(j, k)
    <3>1. WorkerStep(j, k)
      BY <1>3, <2>2 DEF WorkerSide, Render, FailBoth, Elsewhere, WorkerStep
    <3> QED
      BY <3>1 DEF Next
  <2> QED
    BY <2>1, <2>2
<1>4. CASE PassStep
  BY <1>4 DEF PassStep, PassRunning, PassDescribe, PassQueued, PassReports, PassDies,
     Next, ReaperStep
<1>5. CASE Elsewhere(Pause) \/ Elsewhere(Resume) \/ PipeTick
  BY <1>5 DEF Elsewhere, PipeTick, Next
<1>6. CASE UNCHANGED allVars
  BY <1>6 DEF allVars
<1> QED
  BY <1>1, <1>2, <1>3, <1>4, <1>5, <1>6 DEF PipeNext

LEMMA BackboneInit == Init => BackboneInv
<1> SUFFICES ASSUME Init PROVE SettledInv /\ AgeInv
  BY InitTyped DEF BackboneInv
<1>1. ASSUME NEW j \in Jobs
      PROVE  /\ exec[j] = "none" /\ inflight[j] = 0 /\ visible[j] = 0 /\ pending[j] = 0
             /\ \A k \in Tries : att[j][k] = "unused"
  BY DEF Init
<1>2. \A j \in Jobs : EndedPart(j) /\ AbsentPart(j) /\ \A k \in Tries : WorkerPart(j, k)
  BY <1>1 DEF EndedPart, AbsentPart, WorkerPart
<1>3. \A j \in Jobs : TaskPart(j) /\ LaterPart(j) /\ RowPart(j)
  BY <1>1 DEF TaskPart, LaterPart, RowPart, AwaitedAtWork, Waiting
<1> QED
  BY <1>2, <1>3, SettledParts, AgeParts

LEMMA BackboneKept == ASSUME BackboneInv, [Next]_vars PROVE BackboneInv'
<1>1. TypeOK'
  BY LedgerTyped, SqsTyped, SfnTyped, ReaperTyped DEF BackboneInv, TypeOK
<1>2. SettledInv'
  <2>1. \A j \in Jobs : EndedPart(j)' /\ AbsentPart(j)' /\ \A k \in Tries : WorkerPart(j, k)'
    BY EndedKept, AbsentKept, WorkersKept DEF BackboneInv
  <2> QED
    BY <2>1 DEF SettledInv, EndedPart, AbsentPart, WorkerPart
<1>3. AgeInv'
  <2>1. \A j \in Jobs : TaskPart(j)' /\ LaterPart(j)' /\ RowPart(j)'
    BY AgeStep DEF BackboneInv
  <2> QED
    BY <2>1 DEF AgeInv, TaskPart, LaterPart, RowPart, AwaitedAtWork
<1> QED
  BY <1>1, <1>2, <1>3 DEF BackboneInv

-----------------------------------------------------------------------------
(* What a step does to a row of the ledger, to an invocation and to an     *)
(* execution.                                                              *)

LEMMA RowStep ==
  ASSUME TypeOK, [PipeNext]_allVars, NEW i \in Jobs
  PROVE  /\ status[i] = "absent" => status'[i] = "absent" \/ InsertJob(i)
         /\ status'[i] = "succeeded" =>
              status[i] = "succeeded" \/ \E k \in Tries : FinishSucceeded(i, k)
<1> DEFINE Goal == /\ status[i] = "absent" => status'[i] = "absent" \/ InsertJob(i)
                   /\ status'[i] = "succeeded" =>
                        status[i] = "succeeded" \/ \E k \in Tries : FinishSucceeded(i, k)
<1>1. ASSUME UNCHANGED status PROVE Goal
  BY <1>1
<1>2. ASSUME NEW j \in Jobs, FinishJob(j, "failed") PROVE Goal
  BY <1>2 DEF FinishJob, Finishable, UpdateRows
<1>3. ASSUME NEW j \in Jobs, OriginSide(j) PROVE Goal
  <2>1. CASE InsertJob(j)
    BY <2>1 DEF InsertJob, Insert, UpdateRows
  <2>2. CASE ~InsertJob(j)
    BY <1>1, <1>3, <2>2 DEF OriginSide, OriginStep, CreateReport, InsertFails, SendOrFail, Send,
       LinkReport, MarkReportFailed, DeliveryFailed, OriginDies, vars, ledgerVars
  <2> QED
    BY <2>1, <2>2
<1>4. ASSUME NEW j \in Jobs,
             \/ Elsewhere(Receive(j)) \/ Elsewhere(StartExecution(j)) \/ Elsewhere(Drop(j))
             \/ Elsewhere(DispatchError(j))
      PROVE  Goal
  BY <1>1, <1>4 DEF Elsewhere, Receive, StartExecution, Drop, DispatchError, ledgerVars
<1>5. ASSUME NEW j \in Jobs, Elsewhere(SfnStep(j)) PROVE Goal
  BY <1>1, <1>2, <1>5 DEF Elsewhere, SfnStep, TaskSucceeds, TaskFails, ServiceError,
     TaskTimesOut, MarkFailed, MarkExhausted, ledgerVars
<1>6. ASSUME NEW j \in Jobs, NEW k \in Tries, WorkerSide(j, k) PROVE Goal
  <2>1. CASE Elsewhere(FinishSucceeded(j, k))
    <3>1. FinishSucceeded(j, k)
      BY <2>1 DEF Elsewhere
    <3>2. FinishJob(j, "succeeded") \/ UNCHANGED status
      BY <3>1 DEF FinishSucceeded, ledgerVars
    <3>3. CASE FinishJob(j, "succeeded")
      BY <3>1, <3>3 DEF FinishJob, Finishable, UpdateRows
    <3> QED
      BY <1>1, <3>2, <3>3
  <2>2. CASE Elsewhere(ClaimRunning(j, k))
    BY <2>2 DEF Elsewhere, ClaimRunning, Claimable, UpdateRows
  <2>3. CASE FailBoth(j, k)
    BY <1>2, <2>3 DEF FailBoth, FinishFailed
  <2> QED
    BY <1>1, <1>6, <2>1, <2>2, <2>3 DEF WorkerSide, Progress, Render, Handle, Elsewhere,
       SkipClaim, Exit, Die, vars, ledgerVars
<1>7. CASE PassStep
  <2>1. ASSUME NEW S, \A h \in S : status[h] # "absent", UpdateRows(S, "failed") PROVE Goal
    BY <2>1 DEF UpdateRows
  <2>2. CASE PassRunning
    BY <2>1, <2>2 DEF PassRunning, ReapRunning, StaleRunning
  <2>3. CASE PassQueued
    BY <2>1, <2>3 DEF PassQueued, ReapQueued, StaleQueued
  <2> QED
    BY <1>1, <1>7, <2>2, <2>3 DEF PassStep, PassDescribe, Describe, PassReports, PassDies,
       ReaperDies, vars, ledgerVars
<1>8. CASE Elsewhere(Pause) \/ Elsewhere(Resume) \/ PipeTick \/ UNCHANGED allVars
  BY <1>1, <1>8 DEF Elsewhere, Pause, Resume, PipeTick, Tick, allVars, vars, ledgerVars
<1> QED
  BY <1>3, <1>4, <1>5, <1>6, <1>7, <1>8 DEF PipeNext

(* An invocation of i begins, goes to work and returns at these steps only. *)
LEMMA AttStep ==
  ASSUME BackboneInv, [PipeNext]_allVars, NEW i \in Jobs, NEW h \in Tries
  PROVE  /\ att'[i][h] \in {"unused", "invoked"} => att[i][h] \in {"unused", "invoked"}
         /\ att'[i][h] = "working" => att[i][h] = "working" \/ Elsewhere(ClaimRunning(i, h))
         /\ att'[i][h] = "handled" => att[i][h] = "handled" \/ Render(i, h)
<1> DEFINE Goal ==
      /\ att'[i][h] \in {"unused", "invoked"} => att[i][h] \in {"unused", "invoked"}
      /\ att'[i][h] = "working" => att[i][h] = "working" \/ Elsewhere(ClaimRunning(i, h))
      /\ att'[i][h] = "handled" => att[i][h] = "handled" \/ Render(i, h)
<1>0. att \in [Jobs -> [Tries -> AttStates]] /\ SfnTypeOK /\ \A j \in Jobs : LaterPart(j)
  BY AgeParts DEF BackboneInv, TypeOK
<1>1. ASSUME att'[i][h] = att[i][h] PROVE Goal
  BY <1>1
<1>2. ASSUME NEW j \in Jobs, NEW n \in Tries, Invoke(j, n), att[j][n] = "unused" PROVE Goal
  <2>1. att'[i][h] = att[i][h] \/ (j = i /\ n = h /\ att'[i][h] = "invoked")
    BY <1>0, <1>2 DEF Invoke, SetAtt
  <2> QED
    BY <1>1, <1>2, <2>1
<1>3. ASSUME NEW j \in Jobs, OriginSide(j) PROVE Goal
  BY <1>1, <1>3 DEF OriginSide, OriginStep, CreateReport, InsertJob, Insert, InsertFails,
     SendOrFail, Send, LinkReport, MarkReportFailed, DeliveryFailed, OriginDies, vars
<1>4. ASSUME NEW j \in Jobs,
             \/ Elsewhere(Receive(j)) \/ Elsewhere(StartExecution(j)) \/ Elsewhere(Drop(j))
             \/ Elsewhere(DispatchError(j))
      PROVE  Goal
  <2>1. CASE StartExecution(j)
    <3>1. exec[j] = "none" /\ Invoke(j, 1) /\ 1 \in Tries
      BY <2>1 DEF StartExecution, Tries
    <3>2. att[j][1] = "unused"
      BY <1>0, <3>1 DEF LaterPart
    <3> QED
      BY <1>2, <3>1, <3>2
  <2> QED
    BY <1>1, <1>4, <2>1 DEF Elsewhere, Receive, Drop, DispatchError
<1>5. ASSUME NEW j \in Jobs, Elsewhere(SfnStep(j)) PROVE Goal
  <2>1. ASSUME Waiting(j), Invoke(j, Current(j) + 1), Current(j) + 1 \in Tries PROVE Goal
    <3>1. Current(j) \in Int
      BY <1>0 DEF Current, SfnTypeOK
    <3>2. att[j][Current(j) + 1] = "unused"
      BY <1>0, <2>1, <3>1 DEF LaterPart
    <3> QED
      BY <1>2, <2>1, <3>2
  <2>2. CASE ServiceError(j) /\ ~EndTask(j, "marking")
    <3>1. Waiting(j) /\ svcUsed[j] < SvcRetries[kind[j]] /\ Invoke(j, Current(j) + 1)
      BY <2>2 DEF ServiceError, SvcRetryLeft
    <3> QED
      BY <1>0, <2>1, <3>1, CurrentIsTry DEF Waiting
  <2>3. CASE TaskTimesOut(j) /\ toUsed[j] < TimeoutRetries[kind[j]]
    <3>1. Waiting(j) /\ Invoke(j, Current(j) + 1)
      BY <2>3 DEF TaskTimesOut, TimedOut
    <3> QED
      BY <1>0, <2>1, <2>3, <3>1, CurrentIsTry DEF Waiting
  <2> QED
    BY <1>1, <1>5, <2>2, <2>3 DEF Elsewhere, SfnStep, TaskSucceeds, TaskFails, ServiceError,
       TaskTimesOut, MarkFailed, MarkExhausted, EndTask
<1>6. ASSUME NEW j \in Jobs, NEW k \in Tries, WorkerSide(j, k) PROVE Goal
  <2>1. CASE j = i /\ k = h
    BY <1>0, <1>6, <2>1 DEF WorkerSide, Progress, Render, Handle, FailBoth, FinishFailed, Elsewhere,
       ClaimRunning, SkipClaim, FinishSucceeded, Exit, Die, SetAtt, Live, vars
  <2>2. CASE ~(j = i /\ k = h)
    <3>1. UNCHANGED att \/ \E a : SetAtt(j, k, a)
      BY <1>6 DEF WorkerSide, Progress, Render, Handle, FailBoth, FinishFailed, Elsewhere,
         ClaimRunning, SkipClaim, FinishSucceeded, Exit, Die, vars
    <3>2. att'[i][h] = att[i][h]
      BY <1>0, <2>2, <3>1 DEF SetAtt
    <3> QED
      BY <1>1, <3>2
  <2> QED
    BY <2>1, <2>2
<1>7. CASE PassStep
  BY <1>1, <1>7 DEF PassStep, PassRunning, ReapRunning, PassDescribe, Describe, PassQueued,
     ReapQueued, PassReports, PassDies, ReaperDies, vars
<1>8. CASE Elsewhere(Pause) \/ Elsewhere(Resume) \/ PipeTick \/ UNCHANGED allVars
  BY <1>1, <1>8 DEF Elsewhere, Pause, Resume, PipeTick, Tick, allVars, vars
<1> QED
  BY <1>3, <1>4, <1>5, <1>6, <1>7, <1>8 DEF PipeNext

(* An execution keeps waiting for an invocation, time passes, or what it   *)
(* waits for then has not begun to work.                                   *)
Resting(i) == UNCHANGED <<exec[i], svcUsed[i], toUsed[i], taskAge[i]>>

LEMMA ExecStep ==
  ASSUME BackboneInv, [PipeNext]_allVars, NEW i \in Jobs
  PROVE  \/ Resting(i)
         \/ PipeTick
         \/ exec'[i] # "task"
         \/ att'[i][Current(i)'] \in {"unused", "invoked"}
<1> DEFINE Goal == \/ Resting(i) \/ PipeTick \/ exec'[i] # "task"
                   \/ att'[i][Current(i)'] \in {"unused", "invoked"}
<1>0. TypeOK /\ SfnTypeOK /\ \A j \in Jobs : LaterPart(j)
  BY AgeParts DEF BackboneInv, TypeOK
<1>1. ASSUME UNCHANGED sfnVars PROVE Goal
  BY <1>1 DEF Resting, sfnVars
<1>2. ASSUME NEW n \in Tries, Invoke(i, n), att[i][n] = "unused", Current(i)' = n PROVE Goal
  BY <1>0, <1>2 DEF Invoke, SetAtt, TypeOK
<1>3. ASSUME NEW j \in Jobs, OriginSide(j) PROVE Goal
  BY <1>1, <1>3 DEF OriginSide, OriginStep, CreateReport, InsertJob, Insert, InsertFails,
     SendOrFail, Send, LinkReport, MarkReportFailed, DeliveryFailed, OriginDies, vars
<1>4. ASSUME NEW j \in Jobs,
             \/ Elsewhere(Receive(j)) \/ Elsewhere(StartExecution(j)) \/ Elsewhere(Drop(j))
             \/ Elsewhere(DispatchError(j))
      PROVE  Goal
  <2>1. CASE StartExecution(j) /\ j = i
    <3>1. exec[i] = "none" /\ Invoke(i, 1) /\ 1 \in Tries /\ UNCHANGED <<svcUsed, toUsed>>
      BY <2>1 DEF StartExecution, Tries
    <3>2. att[i][1] = "unused" /\ Current(i)' = 1
      BY <1>0, <3>1 DEF LaterPart, Current, SfnTypeOK
    <3> QED
      BY <1>2, <3>1, <3>2
  <2>2. CASE StartExecution(j) /\ j # i
    BY <1>0, <2>2 DEF StartExecution, Invoke, Resting, SfnTypeOK
  <2> QED
    BY <1>1, <1>4, <2>1, <2>2 DEF Elsewhere, Receive, Drop, DispatchError
<1>5. ASSUME NEW j \in Jobs, Elsewhere(SfnStep(j)) PROVE Goal
  <2>1. SfnStep(j)
    BY <1>5 DEF Elsewhere
  <2>2. CASE j # i
    BY <1>0, <2>1, <2>2 DEF SfnStep, TaskSucceeds, TaskFails, ServiceError, TaskTimesOut,
       MarkFailed, MarkExhausted, EndTask, Invoke, Resting, SfnTypeOK
  <2>3. ASSUME Waiting(i), Invoke(i, Current(i) + 1), Current(i) + 1 \in Tries,
               Current(i)' = Current(i) + 1
        PROVE  Goal
    <3>1. Current(i) \in Int
      BY <1>0 DEF Current, SfnTypeOK
    <3>2. att[i][Current(i) + 1] = "unused"
      BY <1>0, <2>3, <3>1 DEF LaterPart
    <3> QED
      BY <1>2, <2>3, <3>2
  <2>4. CASE j = i /\ ServiceError(j) /\ ~EndTask(j, "marking")
    <3>1. /\ Waiting(i) /\ svcUsed[i] < SvcRetries[kind[i]] /\ Invoke(i, Current(i) + 1)
          /\ svcUsed' = [svcUsed EXCEPT ![i] = @ + 1] /\ UNCHANGED toUsed
      BY <2>4 DEF ServiceError, SvcRetryLeft
    <3>2. Current(i)' = Current(i) + 1
      BY <1>0, <3>1 DEF Current, SfnTypeOK
    <3> QED
      BY <1>0, <2>3, <3>1, <3>2, CurrentIsTry DEF Waiting
  <2>5. CASE j = i /\ TaskTimesOut(j) /\ toUsed[j] < TimeoutRetries[kind[j]]
    <3>1. /\ Waiting(i) /\ toUsed[i] < TimeoutRetries[kind[i]] /\ Invoke(i, Current(i) + 1)
          /\ toUsed' = [toUsed EXCEPT ![i] = @ + 1] /\ UNCHANGED svcUsed
      BY <2>5 DEF TaskTimesOut, TimedOut
    <3>2. Current(i)' = Current(i) + 1
      BY <1>0, <3>1 DEF Current, SfnTypeOK
    <3> QED
      BY <1>0, <2>3, <3>1, <3>2, CurrentIsTry DEF Waiting
  <2>6. ASSUME j = i,
               \/ TaskSucceeds(j) \/ TaskFails(j)
               \/ ServiceError(j) /\ EndTask(j, "marking")
               \/ TaskTimesOut(j) /\ ~(toUsed[j] < TimeoutRetries[kind[j]])
               \/ MarkFailed(j) \/ MarkExhausted(j)
        PROVE  exec'[i] # "task"
    BY <1>0, <2>6 DEF TaskSucceeds, TaskFails, ServiceError, TaskTimesOut, EndTask,
       MarkFailed, MarkExhausted, SfnTypeOK
  <2> QED
    BY <2>1, <2>2, <2>4, <2>5, <2>6 DEF SfnStep
<1>6. ASSUME NEW j \in Jobs, NEW k \in Tries, WorkerSide(j, k) PROVE Goal
  BY <1>1, <1>6 DEF WorkerSide, Progress, Render, Handle, FailBoth, FinishFailed, Elsewhere,
     ClaimRunning, SkipClaim, FinishSucceeded, Exit, Die, vars
<1>7. CASE PassStep
  BY <1>1, <1>7 DEF PassStep, PassRunning, ReapRunning, PassDescribe, Describe, PassQueued,
     ReapQueued, PassReports, PassDies, ReaperDies, vars
<1>8. CASE Elsewhere(Pause) \/ Elsewhere(Resume) \/ UNCHANGED allVars
  BY <1>1, <1>8 DEF Elsewhere, Pause, Resume, allVars, vars
<1> QED
  BY <1>3, <1>4, <1>5, <1>6, <1>7, <1>8 DEF PipeNext

-----------------------------------------------------------------------------
(* What a step does to a report: it creates one, updates some that are     *)
(* running, links one, fails one whatever it is, or lets time pass.        *)

Created(j) == \E b \in {"web", "schedule"} : CreateReport(j, b)

Updating == \E S \in SUBSET {j \in Jobs : RunningReport(j)}, s \in RepStates \ {"absent"} :
              UpdateReports(S, s)

LEMMA ReportStep ==
  ASSUME ReportTypeOK, [PipeNext]_allVars
  PROVE  \/ UNCHANGED <<report, repAge>>
         \/ Updating
         \/ \E j \in Jobs : Created(j) \/ LinkReport(j) \/ DeliveryFailed(j)
         \/ PipeTick
<1> DEFINE Goal == \/ UNCHANGED <<report, repAge>> \/ Updating
                   \/ \E j \in Jobs : Created(j) \/ LinkReport(j) \/ DeliveryFailed(j)
                   \/ PipeTick
<1>1. ASSUME NEW j \in Jobs, NEW s \in RepStates \ {"absent"}, FinishReport(j, s) PROVE Updating
  BY <1>1 DEF FinishReport, Updating
<1>2. ASSUME NEW j \in Jobs, OriginSide(j) PROVE Goal
  BY <1>1, <1>2 DEF OriginSide, OriginStep, Created, InsertJob, InsertFails, SendOrFail,
     MarkReportFailed, OriginDies, RepStates
<1>3. ASSUME NEW j \in Jobs, NEW k \in Tries, WorkerSide(j, k) PROVE Goal
  <2>1. CASE Progress(j, k)
    <3>1. UpdateReports({i \in {j} : RunningReport(i)}, "running")
      BY <2>1 DEF Progress
    <3> QED
      BY <3>1 DEF Updating, RepStates
  <2>2. CASE Render(j, k) \/ FailBoth(j, k)
    BY <1>1, <2>2 DEF Render, FailBoth, RepStates
  <2> QED
    BY <1>3, <2>1, <2>2 DEF WorkerSide, Elsewhere, pipeVars, reportVars
<1>4. CASE PassStep
  <2>1. CASE PassReports
    BY <2>1 DEF PassReports, Updating, RepStates
  <2> QED
    BY <1>4, <2>1 DEF PassStep, PassRunning, PassDescribe, PassQueued, PassDies,
       pipeVars, reportVars
<1> QED
  BY <1>2, <1>3, <1>4 DEF PipeNext, Elsewhere, allVars, pipeVars, reportVars

(* A settled report stays as it is, unless the dispatcher fails it; one    *)
(* that is running was running, or has just been created.                  *)
LEMMA ReportMoves ==
  ASSUME ReportTypeOK, [PipeNext]_allVars, NEW i \in Jobs
  PROVE  /\ report'[i] \in RepStates
         /\ report[i] \in {"succeeded", "failed"} /\ report'[i] # report[i]
              => DeliveryFailed(i) /\ report'[i] = "failed"
         /\ report'[i] = "running" => report[i] = "running" \/ Created(i)
         /\ report[i] = "absent" <=> report'[i] = "absent" \/ Created(i)
<1> DEFINE Goal == /\ report'[i] \in RepStates
                   /\ report[i] \in {"succeeded", "failed"} /\ report'[i] # report[i]
                        => DeliveryFailed(i) /\ report'[i] = "failed"
                   /\ report'[i] = "running" => report[i] = "running" \/ Created(i)
                   /\ report[i] = "absent" <=> report'[i] = "absent" \/ Created(i)
<1>0. report[i] \in RepStates /\ (report[i] = "absent" => origin[i] = Idle)
  BY DEF ReportTypeOK
<1>1. CASE Created(i)
  <2>1. report'[i] = "running" /\ report[i] = "absent"
    BY <1>0, <1>1 DEF Created, CreateReport, UpdateReports
  <2> QED
    BY <1>1, <2>1 DEF RepStates
<1>2. CASE ~Created(i)
  <2>1. ASSUME report'[i] = report[i] PROVE Goal
    BY <1>0, <1>2, <2>1
  <2>2. CASE Updating
    <3>1. PICK S \in SUBSET {j \in Jobs : RunningReport(j)}, s \in RepStates \ {"absent"} :
            UpdateReports(S, s)
      BY <2>2 DEF Updating
    <3>2. CASE i \in S
      <4>1. report[i] = "running" /\ report'[i] = s /\ s \in RepStates \ {"absent"}
        BY <3>1, <3>2 DEF UpdateReports, RunningReport
      <4> QED
        BY <1>2, <4>1
    <3>3. CASE i \notin S
      BY <2>1, <3>1, <3>3 DEF UpdateReports
    <3> QED
      BY <3>2, <3>3
  <2>3. ASSUME NEW j \in Jobs, Created(j) \/ LinkReport(j) PROVE Goal
    BY <1>2, <2>1, <2>3 DEF Created, CreateReport, LinkReport, UpdateReports
  <2>4. ASSUME NEW j \in Jobs, DeliveryFailed(j) PROVE Goal
    <3>1. CASE j = i
      <4>1. report'[i] = "failed" /\ report[i] # "absent"
        BY <1>0, <2>4, <3>1 DEF DeliveryFailed, At, Idle, UpdateReports
      <4> QED
        BY <1>2, <2>4, <3>1, <4>1 DEF RepStates
    <3>2. CASE j # i
      BY <2>1, <2>4, <3>2 DEF DeliveryFailed, UpdateReports
    <3> QED
      BY <3>1, <3>2
  <2> QED
    BY <2>1, <2>2, <2>3, <2>4, ReportStep DEF PipeTick
<1> QED
  BY <1>1, <1>2

(* Who is not at a report begins by creating it.                           *)
LEMMA OriginStays ==
  ASSUME ReportTypeOK, [PipeNext]_allVars, NEW i \in Jobs, origin[i] = Idle
  PROVE  origin'[i] = Idle \/ Created(i)
<1>1. origin \in [Jobs -> {Idle} \cup Busy]
  BY DEF ReportTypeOK
<1>2. ASSUME NEW j \in Jobs, OriginSide(j) PROVE origin'[i] = Idle \/ Created(i)
  <2>1. CASE j = i
    BY <1>1, <1>2, <2>1 DEF OriginSide, OriginStep, Created, InsertJob, InsertFails, SendOrFail,
       LinkReport, MarkReportFailed, DeliveryFailed, OriginDies, At, Idle
  <2>2. CASE j # i
    BY <1>1, <1>2, <2>2 DEF OriginSide, OriginStep, CreateReport, InsertJob, InsertFails,
       SendOrFail, LinkReport, MarkReportFailed, DeliveryFailed, OriginDies, Go, Leave
  <2> QED
    BY <2>1, <2>2
<1>3. ASSUME NEW j \in Jobs, NEW k \in Tries, WorkerSide(j, k) PROVE UNCHANGED origin
  BY <1>3 DEF WorkerSide, Progress, Render, FailBoth, Elsewhere, pipeVars, reportVars
<1>4. CASE PassStep
  BY <1>4 DEF PassStep, PassRunning, PassDescribe, PassQueued, PassReports, PassDies,
     pipeVars, reportVars
<1> QED
  BY <1>2, <1>3, <1>4 DEF PipeNext, Elsewhere, PipeTick, allVars, pipeVars, reportVars

(* An UPDATE of a report stamps it; only time makes it older.              *)
LEMMA AgeMoves ==
  ASSUME ReportTypeOK, [PipeNext]_allVars, NEW i \in Jobs
  PROVE  /\ repAge'[i] \in 0..RunningStale
         /\ Created(i) => repAge'[i] = 0
         /\ repAge'[i] \in {0, repAge[i]} \/ PipeTick
         /\ repAge'[i] <= repAge[i] + 1
<1>0. repAge \in [Jobs -> 0..RunningStale]
  BY DEF ReportTypeOK
<1>1. CASE Updating
  BY <1>0, <1>1 DEF Updating, UpdateReports, Created, CreateReport
<1>2. CASE \E j \in Jobs : Created(j) \/ LinkReport(j) \/ DeliveryFailed(j)
  BY <1>0, <1>2 DEF Created, CreateReport, LinkReport, DeliveryFailed, UpdateReports
<1>3. CASE PipeTick
  <2>1. repAge'[i] = repAge[i] \/ repAge'[i] = Older(repAge[i], RunningStale)
    BY <1>3 DEF PipeTick
  <2>2. repAge[i] \in 0..RunningStale
    BY <1>0
  <2>3. repAge'[i] \in 0..RunningStale /\ repAge'[i] <= repAge[i] + 1
    BY <2>1, <2>2 DEF Older
  <2>4. ~Created(i)
    BY <1>0, <1>3 DEF PipeTick, ReportTypeOK, Created, CreateReport, Go, Idle
  <2> QED
    BY <1>3, <2>3, <2>4
<1>4. CASE UNCHANGED <<report, repAge>>
  BY <1>0, <1>4 DEF Created, CreateReport, UpdateReports
<1> QED
  BY <1>1, <1>2, <1>3, <1>4, ReportStep

-----------------------------------------------------------------------------
(* The invariant.                                                          *)

LEMMA ReportTyped ==
  ASSUME BackboneInv, ReportTypeOK, [PipeNext]_allVars PROVE ReportTypeOK'
<1>1. report' \in [Jobs -> RepStates] /\ repAge' \in [Jobs -> 0..RunningStale]
  <2>1. /\ report' = [j \in Jobs |-> report'[j]]
        /\ repAge' = [j \in Jobs |-> repAge'[j]]
    <3>1. CASE \E j \in Jobs : LinkReport(j)
      BY <3>1 DEF LinkReport, ReportTypeOK
    <3>2. CASE Updating \/ (\E j \in Jobs : Created(j) \/ DeliveryFailed(j)) \/ PipeTick
      BY <3>2 DEF Updating, Created, CreateReport, DeliveryFailed, UpdateReports, PipeTick,
         ReportTypeOK
    <3> QED
      BY <3>1, <3>2, ReportStep DEF ReportTypeOK
  <2> QED
    BY <2>1, ReportMoves, AgeMoves
<1>2. \A j \in Jobs : report'[j] = "absent" => status'[j] = "absent" /\ origin'[j] = Idle
  <2> SUFFICES ASSUME NEW j \in Jobs, report'[j] = "absent"
               PROVE  status'[j] = "absent" /\ origin'[j] = Idle
    OBVIOUS
  <2>1. report[j] = "absent" /\ status[j] = "absent" /\ origin[j] = Idle /\ ~Created(j)
    BY ReportMoves, AgeMoves DEF ReportTypeOK, Created, CreateReport, UpdateReports
  <2>2. status'[j] = "absent"
    BY <2>1, RowStep DEF BackboneInv, InsertJob, At, Idle
  <2>3. origin'[j] = Idle
    BY <2>1, OriginStays
  <2> QED
    BY <2>2, <2>3
<1>3. linked' \in [Jobs -> BOOLEAN] /\ origin' \in [Jobs -> {Idle} \cup Busy]
      /\ beats' \in [Jobs -> [Tries -> 0..MaxBeats]] /\ due' \in BOOLEAN
  <2> DEFINE Goal == /\ linked' \in [Jobs -> BOOLEAN]
                     /\ origin' \in [Jobs -> {Idle} \cup Busy]
                     /\ beats' \in [Jobs -> [Tries -> 0..MaxBeats]] /\ due' \in BOOLEAN
  <2>0. /\ linked \in [Jobs -> BOOLEAN]
        /\ origin \in [Jobs -> {Idle} \cup Busy]
        /\ beats \in [Jobs -> [Tries -> 0..MaxBeats]] /\ due \in BOOLEAN
    BY DEF ReportTypeOK
  <2>1. ASSUME UNCHANGED <<linked, origin, beats, due>> PROVE Goal
    BY <2>0, <2>1
  <2>2. ASSUME NEW j \in Jobs, OriginSide(j) PROVE Goal
    <3>1. origin' \in [Jobs -> {Idle} \cup Busy]
      <4>1. ASSUME NEW b \in {"web", "schedule"}, NEW step \in Steps, Go(j, b, step)
            PROVE  origin' \in [Jobs -> {Idle} \cup Busy]
        BY <2>0, <4>1 DEF Go, Busy
      <4>2. ASSUME Leave(j) PROVE origin' \in [Jobs -> {Idle} \cup Busy]
        BY <2>0, <4>2 DEF Leave
      <4>3. CASE SendOrFail(j)
        <5>1. origin[j].by \in {"web", "schedule"}
          BY <2>0, <4>3 DEF SendOrFail, Idle, Busy
        <5> QED
          BY <4>1, <4>2, <4>3, <5>1 DEF SendOrFail, Steps
      <4> QED
        BY <2>2, <4>1, <4>2, <4>3 DEF OriginSide, OriginStep, CreateReport, InsertJob, InsertFails,
           LinkReport, MarkReportFailed, DeliveryFailed, OriginDies, Steps
    <3>2. linked' \in [Jobs -> BOOLEAN] /\ UNCHANGED <<beats, due>>
      BY <2>0, <2>2 DEF OriginSide, OriginStep, CreateReport, InsertJob, InsertFails, SendOrFail,
         LinkReport, MarkReportFailed, DeliveryFailed, OriginDies
    <3> QED
      BY <2>0, <3>1, <3>2
  <2>3. ASSUME NEW j \in Jobs, NEW k \in Tries, WorkerSide(j, k) PROVE Goal
    <3>1. CASE Progress(j, k)
      <4>1. beats[j][k] \in 0..MaxBeats /\ beats[j][k] < MaxBeats
        BY <2>0, <3>1 DEF Progress
      <4>2. beats[j][k] + 1 \in 0..MaxBeats
        BY <4>1
      <4> QED
        BY <2>0, <3>1, <4>2 DEF Progress
    <3> QED
      BY <2>1, <2>3, <3>1 DEF WorkerSide, Render, FailBoth, Elsewhere, pipeVars, reportVars
  <2>4. CASE PassStep
    BY <2>0, <2>4 DEF PassStep, PassRunning, PassDescribe, PassQueued, PassReports, PassDies,
       pipeVars, reportVars
  <2> QED
    BY <2>1, <2>2, <2>3, <2>4 DEF PipeNext, Elsewhere, PipeTick, allVars, pipeVars, reportVars
<1> QED
  BY <1>1, <1>2, <1>3 DEF ReportTypeOK

LEMMA HandledKept ==
  ASSUME PipeInv, [PipeNext]_allVars, NEW i \in Jobs, NEW h \in Tries
  PROVE  HandledPart(i, h)'
<1> SUFFICES ASSUME att'[i][h] = "handled" PROVE report'[i] \in {"succeeded", "failed"}
  BY DEF HandledPart
<1>0. ReportTypeOK /\ BackboneInv /\ TypeOK
  BY DEF PipeInv, BackboneInv
<1>1. CASE att[i][h] = "handled"
  BY <1>0, <1>1, ReportMoves DEF PipeInv, HandledPart
<1>2. CASE Render(i, h)
  <2>1. att[i][h] = "working"
    BY <1>2 DEF Render, Handle
  <2>2. status[i] \in Terminal \cup {"running"}
    BY <1>0, <2>1, SettledParts DEF WorkerPart, BackboneInv
  <2>3. report[i] \in RepStates /\ report[i] # "absent"
    BY <1>0, <2>2 DEF ReportTypeOK, Terminal
  <2>4. FinishReport(i, "succeeded")
    BY <1>2 DEF Render
  <2>5. CASE report[i] = "running"
    BY <2>4, <2>5 DEF FinishReport, UpdateReports, RunningReport
  <2>6. CASE report[i] # "running"
    BY <1>0, <2>3, <2>6, ReportMoves DEF RepStates
  <2> QED
    BY <2>5, <2>6
<1> QED
  BY <1>0, <1>1, <1>2, AttStep

LEMMA SuccessKept ==
  ASSUME PipeInv, [PipeNext]_allVars, NEW i \in Jobs, status'[i] = "succeeded"
  PROVE  report'[i] \in {"succeeded", "failed"}
<1>0. ReportTypeOK /\ TypeOK
  BY DEF PipeInv, BackboneInv
<1>1. report[i] \in {"succeeded", "failed"}
  <2>1. CASE status[i] = "succeeded"
    BY <2>1 DEF PipeInv, SuccessSettlesReport
  <2>2. ASSUME NEW k \in Tries, FinishSucceeded(i, k) PROVE report[i] \in {"succeeded", "failed"}
    BY <2>2 DEF FinishSucceeded, PipeInv, HandledPart
  <2> QED
    BY <1>0, <2>1, <2>2, RowStep
<1> QED
  BY <1>0, <1>1, ReportMoves

(* Only a heartbeat counts one.                                            *)
LEMMA BeatStep ==
  ASSUME ReportTypeOK, [PipeNext]_allVars, NEW i \in Jobs, NEW h \in Tries
  PROVE  beats'[i][h] = beats[i][h] \/ Progress(i, h)
<1>1. ASSUME NEW j \in Jobs, NEW k \in Tries, WorkerSide(j, k)
      PROVE  beats'[i][h] = beats[i][h] \/ Progress(i, h)
  <2>1. CASE Progress(j, k)
    BY <2>1 DEF Progress, ReportTypeOK
  <2> QED
    BY <1>1, <2>1 DEF WorkerSide, Render, FailBoth, Elsewhere, pipeVars, reportVars
<1> QED
  BY <1>1 DEF PipeNext, OriginSide, OriginStep, CreateReport, InsertJob, InsertFails, SendOrFail,
     LinkReport, MarkReportFailed, DeliveryFailed, OriginDies, PassStep, PassRunning, PassDescribe, PassQueued, PassReports, PassDies, PipeTick,
     Elsewhere, allVars, pipeVars, reportVars

LEMMA BeatKept ==
  ASSUME PipeInv, [PipeNext]_allVars, NEW i \in Jobs, NEW h \in Tries
  PROVE  BeatPart(i, h)'
<1>1. ReportTypeOK /\ BackboneInv /\ BeatPart(i, h)
  BY DEF PipeInv
<1>2. CASE Progress(i, h)
  BY <1>2 DEF Progress, BeatPart, vars
<1>3. CASE beats'[i][h] = beats[i][h]
  BY <1>1, <1>3, AttStep DEF BeatPart
<1> QED
  BY <1>1, <1>2, <1>3, BeatStep

LEMMA FreshKept ==
  ASSUME PipeInv, [PipeNext]_allVars, NEW i \in Jobs
  PROVE  FreshPart(i)'
<1> SUFFICES ASSUME Waiting(i)', att'[i][Current(i)'] = "working",
                    beats'[i][Current(i)'] > 0, report'[i] = "running"
             PROVE  repAge'[i] <= taskAge'[i]
  BY DEF FreshPart, Beating
<1>0. ReportTypeOK /\ BackboneInv /\ TypeOK /\ SfnTypeOK /\ FreshPart(i)
  BY DEF PipeInv, BackboneInv, TypeOK
<1>1. /\ repAge[i] \in Nat /\ repAge'[i] \in Nat
      /\ taskAge[i] \in Nat /\ taskAge'[i] \in Nat
  <2>1. SfnTypeOK'
    BY <1>0, BackboneStep, SfnTyped
  <2>2. repAge[i] \in 0..RunningStale /\ repAge'[i] \in 0..RunningStale
    BY <1>0, AgeMoves DEF ReportTypeOK
  <2> QED
    BY <1>0, <2>1, <2>2 DEF SfnTypeOK
<1>2. Resting(i) \/ PipeTick
  BY <1>0, ExecStep DEF Waiting
<1>3. CASE repAge'[i] = 0
  BY <1>1, <1>3
<1>4. CASE repAge'[i] # 0
  <2>1. Current(i)' = Current(i) /\ Waiting(i) /\ report[i] = "running"
    <3>1. exec'[i] = exec[i] /\ svcUsed'[i] = svcUsed[i] /\ toUsed'[i] = toUsed[i]
      BY <1>2 DEF Resting, PipeTick, Tick
    <3> QED
      BY <1>0, <1>4, <3>1, ReportMoves, AgeMoves DEF Current, Waiting
  <2> DEFINE h == Current(i)
  <2>2. h \in Tries
    BY <1>0, <2>1, CurrentIsTry DEF Waiting
  <2>3. ~Progress(i, h)
    BY <1>4, <2>1 DEF Progress, UpdateReports, RunningReport
  <2>4. beats[i][h] > 0
    BY <1>0, <2>1, <2>2, <2>3, BeatStep
  <2>5. att[i][h] = "working"
    <3>1. att[i][h] # "invoked"
      BY <2>2, <2>4 DEF PipeInv, BeatPart
    <3> QED
      BY <1>0, <2>1, <2>2, <3>1, AttStep DEF Elsewhere, ClaimRunning
  <2>6. repAge[i] <= taskAge[i]
    BY <1>0, <2>1, <2>4, <2>5 DEF FreshPart, Beating
  <2>7. CASE PipeTick
    <3>1. taskAge'[i] = taskAge[i] + 1 /\ repAge'[i] <= repAge[i] + 1
      BY <1>0, <2>1, <2>7, AgeMoves DEF PipeTick, Tick
    <3> QED
      BY <1>1, <2>6, <3>1
  <2>8. CASE Resting(i) /\ ~PipeTick
    BY <1>0, <1>4, <2>6, <2>8, AgeMoves DEF Resting
  <2> QED
    BY <1>2, <2>7, <2>8
<1> QED
  BY <1>3, <1>4

LEMMA PipeStart == PipeInit => PipeInv
<1> SUFFICES ASSUME PipeInit PROVE PipeInv
  OBVIOUS
<1>1. BackboneInv
  BY BackboneInit DEF PipeInit
<1>2. ReportTypeOK
  <2>1. 0 \in 0..MaxBeats /\ 0 \in 0..RunningStale
    OBVIOUS
  <2>2. \A j \in Jobs : report[j] = "absent" /\ status[j] = "absent"
    BY DEF PipeInit, Init
  <2> QED
    BY <2>1, <2>2 DEF PipeInit, ReportTypeOK, RepStates
<1>3. SuccessSettlesReport
  BY DEF PipeInit, Init, SuccessSettlesReport
<1>4. ASSUME NEW j \in Jobs
      PROVE  FreshPart(j) /\ \A k \in Tries : HandledPart(j, k) /\ BeatPart(j, k)
  <2>1. report[j] = "absent" /\ \A k \in Tries : att[j][k] = "unused" /\ beats[j][k] = 0
    BY DEF PipeInit, Init
  <2> QED
    BY <2>1 DEF FreshPart, HandledPart, BeatPart
<1> QED
  BY <1>1, <1>2, <1>3, <1>4 DEF PipeInv

LEMMA PipeKept == PipeInv /\ [PipeNext]_allVars => PipeInv'
<1> SUFFICES ASSUME PipeInv, [PipeNext]_allVars PROVE PipeInv'
  OBVIOUS
<1>1. BackboneInv'
  BY BackboneStep, BackboneKept DEF PipeInv
<1>2. ReportTypeOK'
  BY ReportTyped DEF PipeInv
<1>3. SuccessSettlesReport'
  BY SuccessKept DEF SuccessSettlesReport
<1>4. \A j \in Jobs : FreshPart(j)' /\ \A k \in Tries : HandledPart(j, k)' /\ BeatPart(j, k)'
  BY FreshKept, HandledKept, BeatKept
<1> QED
  BY <1>1, <1>2, <1>3, <1>4 DEF PipeInv

LEMMA PipeInvariant == PipeSpec => []PipeInv
BY PipeStart, PipeKept, PTL DEF PipeSpec

-----------------------------------------------------------------------------
(* The reports' tables are well typed, and a job has a report from its     *)
(* submission on (db.py, route.ts).                                        *)
THEOREM ReportTypeCorrect == PipeSpec => [](TypeOK /\ ReportTypeOK)
<1>1. PipeInv => TypeOK /\ ReportTypeOK
  BY DEF PipeInv, BackboneInv
<1> QED
  BY <1>1, PipeInvariant, PTL

(* Every behaviour of the pipeline is one of the backbone, so that what is *)
(* proved of the backbone's steps holds beside the reports: an execution   *)
(* that ended has settled its job, and what has settled stays so           *)
(* (db.py, sfn.asl.json).                                                  *)
THEOREM PipelineKeepsBackbone ==
  PipeSpec => Init /\ [][Next]_vars /\ []EndedMeansSettled /\ TerminalIsFinal
<1>1. PipeInit => Init
  BY DEF PipeInit
<1>2. [PipeNext]_allVars => [Next]_vars
  BY BackboneStep
<1>3. PipeInv => TypeOK /\ EndedMeansSettled
  BY DEF PipeInv, BackboneInv, SettledInv, EndedMeansSettled
<1>4. TypeOK /\ [Next]_vars =>
        [\A j \in Jobs : status[j] \in Terminal => status'[j] = status[j]]_vars
  BY StepKeepsTerminal
<1> QED
  BY <1>1, <1>2, <1>3, <1>4, PipeInvariant, PTL DEF PipeSpec, TerminalIsFinal

(* A job that the ledger calls succeeded has left no report running,       *)
(* whichever of any number of overlapping invocations wrote which row      *)
(* (handlers.py:102 before fargate_worker.py:98).                          *)
THEOREM SuccessSettles == PipeSpec => []SuccessSettlesReport
<1>1. PipeInv => SuccessSettlesReport
  BY DEF PipeInv
<1> QED
  BY <1>1, PipeInvariant, PTL

(* A settled report is not rewritten by a late worker, the reaper or the   *)
(* request whose delivery failed (diagnosis/db.py:51,130), but only by the *)
(* dispatcher whose delivery failed (schedule_dispatcher.py:224).          *)
THEOREM ReportStays == PipeSpec => ReportIsFinal
<1>1. PipeInv /\ [PipeNext]_allVars =>
        [\A j \in Jobs : report[j] \in {"succeeded", "failed"} /\ report'[j] # report[j]
           => At(j, "schedule", "failing") /\ report'[j] = "failed"]_allVars
  BY ReportMoves DEF PipeInv, DeliveryFailed
<1> QED
  BY <1>1, PipeInvariant, PTL DEF PipeSpec, ReportIsFinal

(* As long as the stale threshold exceeds every task timeout, a worker     *)
(* that has emitted progress and is still at work does not lose its report *)
(* to the reaper (diagnosis/db.py:51-52, workers.tf:656-662).              *)
THEOREM RenderingStays == PipeSpec => RenderingNotReaped
<1> DEFINE Spared == \A j \in Jobs :
             due /\ ~due' /\ report[j] = "running" /\ report'[j] = "failed"
             /\ status[j] = "running" /\ Waiting(j)
               => ~(att[j][Current(j)] = "working" /\ beats[j][Current(j)] > 0)
<1>1. PipeInv /\ [PipeNext]_allVars => [Spared]_allVars
  <2> SUFFICES ASSUME PipeInv, [PipeNext]_allVars, NEW j \in Jobs,
                      due, ~due', report[j] = "running", report'[j] = "failed",
                      status[j] = "running", Waiting(j), Beating(j)
               PROVE  FALSE
    BY DEF Beating
  <2>1. PassReports
    BY DEF PipeNext, OriginSide, OriginStep, CreateReport, InsertJob, InsertFails, SendOrFail,
       LinkReport, MarkReportFailed, DeliveryFailed, OriginDies, WorkerSide, Progress, Render, FailBoth, Elsewhere, PassStep, PassRunning, PassDescribe,
       PassQueued, PassDies, PipeTick, allVars, pipeVars, reportVars
  <2>2. repAge[j] >= RunningStale
    BY <2>1 DEF PassReports, UpdateReports, ReportReapable
  <2>3. SfnTypeOK /\ TaskPart(j) /\ FreshPart(j) /\ ReportTypeOK
    BY AgeParts DEF PipeInv, BackboneInv, TypeOK
  <2>4. repAge[j] <= taskAge[j] /\ taskAge[j] <= TaskTimeout[kind[j]] /\ kind[j] \in Runtimes
    BY <2>3 DEF FreshPart, TaskPart, SfnTypeOK, Waiting
  <2>5. /\ repAge[j] \in 0..RunningStale /\ taskAge[j] \in Nat
        /\ TaskTimeout[kind[j]] \in Nat /\ TaskTimeout[kind[j]] < RunningStale
    BY <2>3, <2>4, ThresholdAssumption DEF ReportTypeOK, SfnTypeOK
  <2> QED
    BY <2>2, <2>4, <2>5
<1> QED
  BY <1>1, PipeInvariant, PTL DEF PipeSpec, RenderingNotReaped
=============================================================================
