------------------------ MODULE WorkerBackboneProofs ------------------------
(***************************************************************************)
(* Theorems about WorkerBackbone, for every set of jobs, every number of   *)
(* retries and every choice of the timeouts.                               *)
(***************************************************************************)
EXTENDS WorkerBackbone, TLAPS

-----------------------------------------------------------------------------
(* Typing, one part of the state at a time.                                *)
LEMMA InitTyped == Init => TypeOK
  BY BackboneAssumption DEF Init, TypeOK, LedgerTypeOK, SqsTypeOK, SfnTypeOK,
     Statuses, Kinds, ExecStates, AttStates

(* The ledger stays well typed whatever rows a statement updates.          *)
LEMMA UpdateTyped ==
  ASSUME LedgerTypeOK, NEW S, NEW s \in Statuses, UpdateRows(S, s)
  PROVE  /\ status' \in [Jobs -> Statuses]
         /\ kind' \in [Jobs -> Kinds]
         /\ rowAge' \in [Jobs -> 0..RunningStale]
  BY BackboneAssumption DEF LedgerTypeOK, UpdateRows

LEMMA FinishTyped ==
  ASSUME LedgerTypeOK, NEW j, NEW s \in Statuses, FinishJob(j, s)
  PROVE  LedgerTypeOK'
  BY UpdateTyped DEF FinishJob, LedgerTypeOK

LEMMA LedgerTyped == TypeOK /\ [Next]_vars => LedgerTypeOK'
<1> SUFFICES ASSUME TypeOK, [Next]_vars PROVE LedgerTypeOK'
  OBVIOUS
<1> USE DEF TypeOK
<1>0. /\ "queued" \in Statuses /\ "running" \in Statuses
      /\ "failed" \in Statuses /\ "succeeded" \in Statuses
  BY DEF Statuses, Terminal
<1>1. ASSUME UNCHANGED ledgerVars PROVE LedgerTypeOK'
  BY <1>1 DEF ledgerVars, LedgerTypeOK
<1>2. ASSUME NEW j \in Jobs, WebStep(j) PROVE LedgerTypeOK'
  <2>1. CASE Insert(j)
    BY <2>1, <1>0, UpdateTyped, BackboneAssumption DEF Insert, LedgerTypeOK
  <2>2. QED
    BY <1>1, <1>2, <2>1 DEF WebStep, Replay, Send
<1>3. ASSUME NEW j \in Jobs, DispatcherStep(j) PROVE LedgerTypeOK'
  BY <1>1, <1>3 DEF DispatcherStep, Receive, StartExecution, Drop, DispatchError
<1>4. ASSUME NEW j \in Jobs, SfnStep(j) PROVE LedgerTypeOK'
  BY <1>0, <1>1, <1>4, FinishTyped DEF SfnStep, TaskSucceeds, TaskFails, ServiceError,
     TaskTimesOut, MarkFailed, MarkExhausted
<1>5. ASSUME NEW j \in Jobs, NEW k \in Tries, WorkerStep(j, k) PROVE LedgerTypeOK'
  <2>1. CASE ClaimRunning(j, k)
    BY <2>1, <1>0, UpdateTyped DEF ClaimRunning, LedgerTypeOK
  <2>2. QED
    BY <1>0, <1>1, <1>5, <2>1, FinishTyped DEF WorkerStep, SkipClaim, Handle,
       FinishSucceeded, FinishFailed, Exit, Die
<1>6. CASE ReaperStep
  BY <1>0, <1>1, <1>6, UpdateTyped DEF ReaperStep, ReapRunning, Describe, ReapQueued,
     ReaperDies, LedgerTypeOK
<1>7. CASE Resume
  BY <1>7, BackboneAssumption DEF Resume, LedgerTypeOK
<1>8. CASE Tick
  BY <1>8, BackboneAssumption DEF Tick, Older, LedgerTypeOK
<1>9. CASE Pause \/ UNCHANGED vars
  BY <1>1, <1>9 DEF Pause, vars
<1>10. QED
  BY <1>2, <1>3, <1>4, <1>5, <1>6, <1>7, <1>8, <1>9 DEF Next

LEMMA SqsTyped == TypeOK /\ [Next]_vars => SqsTypeOK' /\ esm' \in BOOLEAN /\ pauses' \in 0..MaxPauses
<1> SUFFICES ASSUME TypeOK, [Next]_vars
             PROVE  SqsTypeOK' /\ esm' \in BOOLEAN /\ pauses' \in 0..MaxPauses
  OBVIOUS
<1> USE BackboneAssumption DEF TypeOK
<1> DEFINE Goal == SqsTypeOK' /\ esm' \in BOOLEAN /\ pauses' \in 0..MaxPauses
<1>1. ASSUME UNCHANGED <<sqsVars, esmVars>> PROVE Goal
  BY <1>1 DEF sqsVars, esmVars, SqsTypeOK
<1>2. ASSUME NEW j \in Jobs, WebStep(j) PROVE Goal
  <2>1. CASE Insert(j) \/ Replay(j)
    <3>1. /\ sends[j] < MaxSends
          /\ sends' = [sends EXCEPT ![j] = @ + 1]
          /\ pending' = [pending EXCEPT ![j] = @ + 1]
          /\ UNCHANGED <<visible, inflight, esm, pauses>>
      BY <2>1 DEF Insert, Replay, esmVars
    <3>2. QED
      BY <3>1 DEF SqsTypeOK
  <2>2. CASE Send(j)
    <3>1. pending' \in [Jobs -> Nat] /\ visible' \in [Jobs -> Nat]
      BY <2>2 DEF Send, SqsTypeOK
    <3>2. QED
      BY <2>2, <3>1 DEF Send, SqsTypeOK, esmVars
  <2>3. QED
    BY <1>2, <2>1, <2>2 DEF WebStep
<1>3. ASSUME NEW j \in Jobs, DispatcherStep(j) PROVE Goal
  <2>1. ASSUME inflight[j] > 0, Deleted(j) \/ Returned(j), UNCHANGED <<sends, pending, esmVars>>
        PROVE  Goal
    BY <2>1 DEF Deleted, Returned, SqsTypeOK, esmVars
  <2>2. CASE Receive(j)
    BY <2>2 DEF Receive, SqsTypeOK, esmVars
  <2>3. QED
    BY <1>3, <2>1, <2>2 DEF DispatcherStep, StartExecution, Drop, DispatchError
<1>4. ASSUME NEW j \in Jobs, SfnStep(j) PROVE Goal
  BY <1>1, <1>4 DEF SfnStep, TaskSucceeds, TaskFails, ServiceError, TaskTimesOut,
     MarkFailed, MarkExhausted
<1>5. ASSUME NEW j \in Jobs, NEW k \in Tries, WorkerStep(j, k) PROVE Goal
  BY <1>1, <1>5 DEF WorkerStep, ClaimRunning, SkipClaim, Handle, FinishSucceeded,
     FinishFailed, Exit, Die
<1>6. CASE ReaperStep \/ Tick
  BY <1>1, <1>6 DEF ReaperStep, ReapRunning, Describe, ReapQueued, ReaperDies, Tick
<1>7. CASE Pause \/ Resume
  <2>1. SqsTypeOK'
    BY <1>7 DEF Pause, Resume, sqsVars, SqsTypeOK
  <2>2. pauses' \in 0..MaxPauses
    BY <1>7 DEF Pause, Resume
  <2>3. esm' \in BOOLEAN
    BY <1>7 DEF Pause, Resume
  <2>4. QED
    BY <2>1, <2>2, <2>3
<1>8. CASE UNCHANGED vars
  BY <1>1, <1>8 DEF vars
<1>9. QED
  BY <1>2, <1>3, <1>4, <1>5, <1>6, <1>7, <1>8 DEF Next

(* The last invocation an execution may make still has a slot.             *)
LEMMA CurrentIsTry ==
  ASSUME SfnTypeOK, NEW j \in Jobs, exec[j] # "none"
  PROVE  /\ Current(j) \in Tries
         /\ svcUsed[j] < SvcRetries[kind[j]] => Current(j) + 1 \in Tries
         /\ toUsed[j] < TimeoutRetries[kind[j]] => Current(j) + 1 \in Tries
  BY BackboneAssumption DEF SfnTypeOK, Current, Tries, Runtimes

LEMMA SfnTyped ==
  TypeOK /\ [Next]_vars =>
    SfnTypeOK' /\ att' \in [Jobs -> [Tries -> AttStates]]
<1> SUFFICES ASSUME TypeOK, [Next]_vars
             PROVE  SfnTypeOK' /\ att' \in [Jobs -> [Tries -> AttStates]]
  OBVIOUS
<1> USE DEF TypeOK
<1> DEFINE Goal == SfnTypeOK' /\ att' \in [Jobs -> [Tries -> AttStates]]
<1>1. ASSUME UNCHANGED <<kind, sfnVars>>, att' \in [Jobs -> [Tries -> AttStates]] PROVE Goal
  BY <1>1 DEF sfnVars, SfnTypeOK
<1>2. ASSUME NEW j \in Jobs, WebStep(j) PROVE Goal
  BY <1>1, <1>2 DEF WebStep, Insert, Replay, Send, ledgerVars, UpdateRows
<1>3. ASSUME NEW j, NEW k, NEW a \in AttStates, SetAtt(j, k, a)
      PROVE  att' \in [Jobs -> [Tries -> AttStates]]
  BY <1>3 DEF SetAtt
<1>4. ASSUME NEW j \in Jobs, NEW k, Invoke(j, k)
      PROVE  taskAge' \in [Jobs -> Nat] /\ att' \in [Jobs -> [Tries -> AttStates]]
  BY <1>3, <1>4 DEF Invoke, SfnTypeOK, AttStates, Live
<1>5. ASSUME NEW j \in Jobs, NEW s \in ExecStates \ {"none"}, exec[j] # "none",
             EndTask(j, s), UNCHANGED kind
      PROVE  Goal
  BY <1>5 DEF EndTask, SfnTypeOK
<1>6. ASSUME NEW j \in Jobs, DispatcherStep(j) PROVE Goal
  <2>1. CASE StartExecution(j)
    BY <2>1, <1>4, BackboneAssumption DEF StartExecution, SfnTypeOK, ExecStates, ledgerVars
  <2>2. QED
    BY <1>1, <1>6, <2>1 DEF DispatcherStep, Receive, Drop, DispatchError, ledgerVars
<1>7. ASSUME NEW j \in Jobs, SfnStep(j) PROVE Goal
  <2> USE DEF ExecStates, ledgerVars
  <2>1. CASE TaskSucceeds(j) \/ TaskFails(j)
    BY <2>1, <1>5 DEF TaskSucceeds, TaskFails, Waiting
  <2>2. CASE ServiceError(j)
    <3>1. ASSUME ~EndTask(j, "marking") PROVE Goal
      <4>1. /\ svcUsed[j] < SvcRetries[kind[j]]
            /\ svcUsed' = [svcUsed EXCEPT ![j] = @ + 1]
            /\ Invoke(j, Current(j) + 1)
            /\ UNCHANGED <<kind, exec, toUsed>>
            /\ exec[j] # "none"
        BY <2>2, <3>1 DEF ServiceError, SvcRetryLeft, Waiting
      <4>2. SvcRetries[kind[j]] \in Nat
        BY <4>1, BackboneAssumption DEF SfnTypeOK
      <4>3. QED
        BY <4>1, <4>2, <1>4 DEF SfnTypeOK
    <3>2. QED
      BY <2>2, <3>1, <1>5 DEF ServiceError, Waiting
  <2>3. CASE TaskTimesOut(j)
    <3>1. CASE toUsed[j] < TimeoutRetries[kind[j]]
      <4>1. /\ toUsed' = [toUsed EXCEPT ![j] = @ + 1]
            /\ Invoke(j, Current(j) + 1)
            /\ UNCHANGED <<kind, exec, svcUsed>>
            /\ exec[j] # "none"
        BY <2>3, <3>1 DEF TaskTimesOut, TimedOut, Waiting
      <4>2. TimeoutRetries[kind[j]] \in Nat
        BY <4>1, BackboneAssumption DEF SfnTypeOK
      <4>3. QED
        BY <3>1, <4>1, <4>2, <1>4 DEF SfnTypeOK
    <3>2. QED
      BY <2>3, <3>1, <1>5 DEF TaskTimesOut, TimedOut, Waiting
  <2>4. CASE MarkFailed(j) \/ MarkExhausted(j)
    BY <2>4 DEF MarkFailed, MarkExhausted, FinishJob, UpdateRows, SfnTypeOK
  <2>5. QED
    BY <1>7, <2>1, <2>2, <2>3, <2>4 DEF SfnStep
<1>8. ASSUME NEW j \in Jobs, NEW k \in Tries, WorkerStep(j, k) PROVE Goal
  <2>1. UNCHANGED <<kind, sfnVars>>
    BY <1>8 DEF WorkerStep, ClaimRunning, SkipClaim, Handle, FinishSucceeded,
       FinishFailed, Exit, Die, FinishJob, UpdateRows, ledgerVars
  <2>2. \E a \in AttStates : SetAtt(j, k, a)
    BY <1>8 DEF WorkerStep, ClaimRunning, SkipClaim, Handle, FinishSucceeded,
       FinishFailed, Exit, Die, AttStates, Live
  <2>3. QED
    BY <1>1, <1>3, <2>1, <2>2
<1>9. CASE ReaperStep
  BY <1>1, <1>9 DEF ReaperStep, ReapRunning, Describe, ReapQueued, ReaperDies,
     UpdateRows, ledgerVars
<1>10. CASE Tick
  BY <1>10 DEF Tick, SfnTypeOK
<1>11. CASE Pause \/ Resume \/ UNCHANGED vars
  BY <1>1, <1>11 DEF Pause, Resume, vars, ledgerVars
<1>12. QED
  BY <1>2, <1>6, <1>7, <1>8, <1>9, <1>10, <1>11 DEF Next

LEMMA ReaperTyped == TypeOK /\ [Next]_vars => reaper' \in {"running", "describe", "queued"}
  BY DEF TypeOK, Next, WebStep, Insert, Replay, Send, DispatcherStep, Receive, StartExecution,
     Drop, DispatchError, SfnStep, TaskSucceeds, TaskFails, ServiceError, TaskTimesOut,
     MarkFailed, MarkExhausted, WorkerStep, ClaimRunning, SkipClaim, Handle,
     FinishSucceeded, FinishFailed, Exit, Die, ReaperStep, ReapRunning, Describe,
     ReapQueued, ReaperDies, Pause, Resume, Tick, vars

(* The variables are well typed, and an execution never uses more retries  *)
(* than its task state grants it (sfn.asl.json).                           *)
THEOREM TypeCorrect == Spec => []TypeOK
<1>1. TypeOK /\ [Next]_vars => TypeOK'
  BY LedgerTyped, SqsTyped, SfnTyped, ReaperTyped DEF TypeOK
<1>2. QED
  BY <1>1, InitTyped, PTL DEF Spec

-----------------------------------------------------------------------------
(* What a step may do to the rows of the ledger: submit one, claim one     *)
(* that is not settled, or settle some that are not.                       *)
LedgerStep(j) ==
  \/ UNCHANGED <<status, attempt>>
  \/ status[j] = "absent" /\ UpdateRows({j}, "queued") /\ UNCHANGED attempt
  \/ /\ Claimable(j)
     /\ UpdateRows({j}, "running")
     /\ attempt' = [attempt EXCEPT ![j] = @ + 1]
  \/ status[j] = "running" /\ UpdateRows({j}, "succeeded") /\ UNCHANGED attempt
  \/ /\ \E S \in SUBSET {i \in Jobs : Claimable(i)} : UpdateRows(S, "failed")
     /\ UNCHANGED attempt

LEMMA FinishIsLedgerStep ==
  ASSUME TypeOK, NEW j \in Jobs, NEW s \in {"succeeded", "failed"}, FinishJob(j, s)
  PROVE  LedgerStep(j)
<1>1. CASE ~Finishable(j, s)
  BY <1>1 DEF FinishJob, UpdateRows, LedgerStep, TypeOK, LedgerTypeOK
<1>2. CASE Finishable(j, s)
  <2>1. UpdateRows({j}, s) /\ UNCHANGED attempt
    BY <1>2 DEF FinishJob, UpdateRows
  <2>2. Claimable(j) /\ (s = "succeeded" => status[j] = "running")
    BY <1>2 DEF Finishable, Claimable, Terminal, Statuses, TypeOK, LedgerTypeOK
  <2>3. QED
    BY <2>1, <2>2 DEF LedgerStep
<1>3. QED
  BY <1>1, <1>2

LEMMA EveryLedgerStep ==
  ASSUME TypeOK, [Next]_vars
  PROVE  UNCHANGED <<status, attempt>> \/ \E j \in Jobs : LedgerStep(j)
<1>1. ASSUME NEW j \in Jobs, WebStep(j) PROVE LedgerStep(j)
  BY <1>1 DEF WebStep, Insert, Replay, Send, LedgerStep, ledgerVars
<1>2. ASSUME NEW j \in Jobs, DispatcherStep(j) PROVE LedgerStep(j)
  BY <1>2 DEF DispatcherStep, Receive, StartExecution, Drop, DispatchError, LedgerStep, ledgerVars
<1>3. ASSUME NEW j \in Jobs, SfnStep(j) PROVE LedgerStep(j)
  <2>1. CASE MarkFailed(j)
    BY <2>1, FinishIsLedgerStep DEF MarkFailed
  <2>2. QED
    BY <1>3, <2>1 DEF SfnStep, TaskSucceeds, TaskFails, ServiceError, TaskTimesOut,
       MarkExhausted, LedgerStep, ledgerVars
<1>4. ASSUME NEW j \in Jobs, NEW k \in Tries, WorkerStep(j, k) PROVE LedgerStep(j)
  <2>1. CASE FinishSucceeded(j, k) \/ FinishFailed(j, k)
    <3>1. \/ \E s \in {"succeeded", "failed"} : FinishJob(j, s)
          \/ UNCHANGED ledgerVars
      BY <2>1 DEF FinishSucceeded, FinishFailed
    <3>2. QED
      BY <3>1, FinishIsLedgerStep DEF LedgerStep, ledgerVars
  <2>2. QED
    BY <1>4, <2>1 DEF WorkerStep, ClaimRunning, SkipClaim, Handle, Exit, Die,
       LedgerStep, ledgerVars
<1>5. ASSUME NEW S \in SUBSET Jobs, \A i \in S : Claimable(i), UpdateRows(S, "failed"),
             UNCHANGED attempt
      PROVE  UNCHANGED <<status, attempt>> \/ \E j \in Jobs : LedgerStep(j)
  <2>1. CASE Jobs = {}
    BY <1>5, <2>1 DEF UpdateRows, TypeOK, LedgerTypeOK
  <2>2. CASE Jobs # {}
    BY <1>5, <2>2 DEF LedgerStep
  <2>3. QED
    BY <2>1, <2>2
<1>6. CASE ReaperStep
  <2>1. CASE ReapRunning
    BY <2>1, <1>5 DEF ReapRunning, StaleRunning, Claimable
  <2>2. CASE ReapQueued
    BY <2>2, <1>5 DEF ReapQueued, StaleQueued, Claimable
  <2>3. QED
    BY <1>6, <2>1, <2>2 DEF ReaperStep, Describe, ReaperDies, ledgerVars
<1>7. CASE Pause \/ Resume \/ Tick \/ UNCHANGED vars
  BY <1>7 DEF Pause, Resume, Tick, vars, ledgerVars
<1>8. QED
  BY <1>1, <1>2, <1>3, <1>4, <1>6, <1>7 DEF Next

(* No step of any actor changes a settled row, whatever its statement's    *)
(* other effects (db.py:6-8).                                              *)
LEMMA StepKeepsTerminal ==
  ASSUME TypeOK, [Next]_vars, NEW j \in Jobs, status[j] \in Terminal
  PROVE  status'[j] = status[j]
<1>1. ASSUME NEW i \in Jobs, LedgerStep(i) PROVE status'[j] = status[j]
  BY <1>1 DEF LedgerStep, UpdateRows, Claimable, Terminal, TypeOK, LedgerTypeOK
<1>2. QED
  BY <1>1, EveryLedgerStep

(* db.py:6-8: no step of any actor changes a terminal status, for any set  *)
(* of jobs, any number of retries and any delivery of the messages.        *)
THEOREM TerminalFinal == Spec => TerminalIsFinal
<1>1. TypeOK /\ [Next]_vars => [\A j \in Jobs : status[j] \in Terminal => status'[j] = status[j]]_vars
  BY StepKeepsTerminal
<1>2. QED
  BY <1>1, TypeCorrect, PTL DEF Spec, TerminalIsFinal

(* The rows of worker_jobs, whichever of the six programs updates them,    *)
(* behave as the abstract ledger.                                          *)
THEOREM ImplementsJobLedger == Spec => ImplementsLedger
<1>1. Init => Ledger!Init
  BY DEF Init, Ledger!Init
<1>2. TypeOK /\ [Next]_vars => [Ledger!Next]_(Ledger!vars)
  <2> SUFFICES ASSUME TypeOK, [Next]_vars
               PROVE  UNCHANGED <<status, attempt>> \/ Ledger!Next
    BY DEF Ledger!vars
  <2>1. ASSUME NEW j \in Jobs, LedgerStep(j) PROVE UNCHANGED <<status, attempt>> \/ Ledger!Next
    <3>1. CASE status[j] = "absent" /\ UpdateRows({j}, "queued") /\ UNCHANGED attempt
      <4>1. Ledger!Submit(j)
        BY <3>1 DEF UpdateRows, Ledger!Submit, TypeOK, LedgerTypeOK
      <4>2. QED
        BY <4>1 DEF Ledger!Next
    <3>2. CASE /\ Claimable(j)
               /\ UpdateRows({j}, "running")
               /\ attempt' = [attempt EXCEPT ![j] = @ + 1]
      <4>1. Ledger!Claim(j)
        BY <3>2 DEF UpdateRows, Claimable, Ledger!Claim, Ledger!Unsettled, TypeOK, LedgerTypeOK
      <4>2. QED
        BY <4>1 DEF Ledger!Next
    <3>3. CASE status[j] = "running" /\ UpdateRows({j}, "succeeded") /\ UNCHANGED attempt
      <4>1. Ledger!Succeed(j)
        BY <3>3 DEF UpdateRows, Ledger!Succeed, TypeOK, LedgerTypeOK
      <4>2. QED
        BY <4>1 DEF Ledger!Next
    <3>4. CASE /\ \E S \in SUBSET {i \in Jobs : Claimable(i)} : UpdateRows(S, "failed")
               /\ UNCHANGED attempt
      <4>1. PICK S \in SUBSET {i \in Jobs : Claimable(i)} : UpdateRows(S, "failed")
        BY <3>4
      <4>2. Ledger!Fail(S)
        BY <3>4, <4>1 DEF UpdateRows, Claimable, Ledger!Fail, Ledger!Unsettled
      <4>3. QED
        BY <4>2 DEF Ledger!Next
    <3>5. QED
      BY <2>1, <3>1, <3>2, <3>3, <3>4 DEF LedgerStep
  <2>2. QED
    BY <2>1, EveryLedgerStep
<1>3. QED
  BY <1>1, <1>2, TypeCorrect, PTL DEF Spec, ImplementsLedger, Ledger!Spec

-----------------------------------------------------------------------------
(* The life of a row only goes forward.                                    *)
LEMMA Onward ==
  ASSUME TypeOK, [Next]_vars, NEW j \in Jobs
  PROVE  /\ status[j] # "absent" => status'[j] # "absent"
         /\ status[j] \in Terminal \cup {"running"} => status'[j] \in Terminal \cup {"running"}
         /\ status[j] \in Terminal => status'[j] \in Terminal
<1>1. ASSUME NEW i \in Jobs, LedgerStep(i)
      PROVE  /\ status[j] # "absent" => status'[j] # "absent"
             /\ status[j] \in Terminal \cup {"running"} => status'[j] \in Terminal \cup {"running"}
  BY <1>1 DEF LedgerStep, UpdateRows, Claimable, Terminal, TypeOK, LedgerTypeOK
<1>2. QED
  BY <1>1, EveryLedgerStep, StepKeepsTerminal

(* finish_job settles every row that exists, except that a success needs   *)
(* a row that was claimed.                                                 *)
LEMMA FinishSettles ==
  ASSUME TypeOK, NEW j \in Jobs, NEW s \in {"succeeded", "failed"}, FinishJob(j, s),
         status[j] # "absent", s = "succeeded" => status[j] # "queued"
  PROVE  status'[j] \in Terminal
  BY DEF FinishJob, Finishable, UpdateRows, Terminal, Statuses, TypeOK, LedgerTypeOK

(* The invariant's four parts, for one job.                                *)
EndedPart(j)  == exec[j] \in {"succeeded", "failed"} => status[j] \in Terminal
AbsentPart(j) == status[j] = "absent" =>
                   /\ exec[j] = "none" /\ inflight[j] = 0 /\ visible[j] = 0 /\ pending[j] = 0
                   /\ \A k \in Tries : att[j][k] = "unused"
WorkerPart(j, k) ==
  /\ att[j][k] \in {"working", "handled", "errored"} => status[j] \in Terminal \cup {"running"}
  /\ att[j][k] \in {"written", "ok"} => status[j] \in Terminal

LEMMA SettledParts ==
  SettledInv <=> \A j \in Jobs : EndedPart(j) /\ AbsentPart(j) /\ \A k \in Tries : WorkerPart(j, k)
  BY DEF SettledInv, EndedPart, AbsentPart, WorkerPart

(* A step that leaves the executions alone and moves no invocation past    *)
(* its claim keeps the invariant of every existing row.                    *)
LEMMA EndedKept ==
  ASSUME TypeOK, SettledInv, [Next]_vars, NEW i \in Jobs
  PROVE  EndedPart(i)'
<1> USE SettledParts DEF EndedPart
<1>1. ASSUME exec'[i] = exec[i] \/ exec'[i] \notin {"succeeded", "failed"} PROVE EndedPart(i)'
  BY <1>1, Onward
<1>2. ASSUME NEW j \in Jobs, SfnStep(j) PROVE EndedPart(i)'
  <2>1. CASE TaskSucceeds(j)
    <3>1. SfnTypeOK /\ exec[j] # "none"
      BY <2>1 DEF TaskSucceeds, Waiting, TypeOK
    <3>2. Current(j) \in Tries
      BY <3>1, CurrentIsTry
    <3>3. status[j] \in Terminal /\ UNCHANGED status
      BY <2>1, <3>2 DEF TaskSucceeds, WorkerPart, ledgerVars
    <3>4. QED
      BY <2>1, <3>3, <1>1 DEF TaskSucceeds, EndTask, TypeOK, SfnTypeOK
  <2>2. CASE MarkFailed(j)
    <3>1. status[j] # "absent"
      BY <2>2 DEF MarkFailed, AbsentPart
    <3>2. status'[j] \in Terminal
      BY <2>2, <3>1, FinishSettles DEF MarkFailed
    <3>3. QED
      BY <2>2, <3>2, <1>1 DEF MarkFailed, TypeOK, SfnTypeOK
  <2>3. CASE TaskFails(j) \/ ServiceError(j) \/ TaskTimesOut(j) \/ MarkExhausted(j)
    BY <2>3, <1>1 DEF TaskFails, ServiceError, TaskTimesOut, MarkExhausted, EndTask,
       TypeOK, SfnTypeOK
  <2>4. QED
    BY <1>2, <2>1, <2>2, <2>3 DEF SfnStep
<1>3. ASSUME NEW j \in Jobs, WebStep(j) PROVE EndedPart(i)'
  BY <1>1, <1>3 DEF WebStep, Insert, Replay, Send, sfnVars
<1>4. ASSUME NEW j \in Jobs, DispatcherStep(j) PROVE EndedPart(i)'
  BY <1>1, <1>4 DEF DispatcherStep, Receive, StartExecution, Drop, DispatchError, sfnVars,
     TypeOK, SfnTypeOK
<1>5. ASSUME NEW j \in Jobs, NEW k \in Tries, WorkerStep(j, k) PROVE EndedPart(i)'
  BY <1>1, <1>5 DEF WorkerStep, ClaimRunning, SkipClaim, Handle, FinishSucceeded,
     FinishFailed, Exit, Die, sfnVars
<1>6. CASE ReaperStep \/ Pause \/ Resume \/ Tick \/ UNCHANGED vars
  BY <1>1, <1>6 DEF ReaperStep, ReapRunning, Describe, ReapQueued, ReaperDies, Pause,
     Resume, Tick, vars, sfnVars
<1>7. QED
  BY <1>2, <1>3, <1>4, <1>5, <1>6 DEF Next

LEMMA AbsentKept ==
  ASSUME TypeOK, SettledInv, [Next]_vars, NEW i \in Jobs
  PROVE  AbsentPart(i)'
<1> SUFFICES ASSUME status'[i] = "absent"
             PROVE  /\ exec'[i] = "none" /\ inflight'[i] = 0 /\ visible'[i] = 0 /\ pending'[i] = 0
                    /\ \A k \in Tries : att'[i][k] = "unused"
  BY DEF AbsentPart
<1> DEFINE Goal == /\ exec'[i] = "none" /\ inflight'[i] = 0 /\ visible'[i] = 0 /\ pending'[i] = 0
                   /\ \A k \in Tries : att'[i][k] = "unused"
<1>1. /\ status[i] = "absent"
      /\ exec[i] = "none" /\ inflight[i] = 0 /\ visible[i] = 0 /\ pending[i] = 0
      /\ \A k \in Tries : att[i][k] = "unused"
  BY Onward, SettledParts DEF AbsentPart
<1>2. ASSUME UNCHANGED <<exec, inflight, visible, pending, att>> PROVE Goal
  BY <1>1, <1>2
<1> USE DEF TypeOK, SfnTypeOK, SqsTypeOK
<1>3. ASSUME NEW j \in Jobs, WebStep(j) PROVE Goal
  <2>1. CASE Insert(j)
    BY <2>1, <1>1 DEF Insert, UpdateRows, sfnVars
  <2>2. CASE Replay(j) \/ Send(j)
    BY <2>2, <1>1 DEF Replay, Send, sfnVars
  <2>3. QED
    BY <1>3, <2>1, <2>2 DEF WebStep
<1>4. ASSUME NEW j \in Jobs, DispatcherStep(j) PROVE Goal
  <2>1. j # i
    BY <1>1, <1>4 DEF DispatcherStep, Receive, StartExecution, Drop, DispatchError
  <2>2. exec'[i] = exec[i] /\ att'[i] = att[i] /\ pending' = pending
    BY <2>1, <1>4 DEF DispatcherStep, Receive, StartExecution, Drop, DispatchError, Invoke,
       SetAtt, sfnVars
  <2>3. inflight'[i] = inflight[i] /\ visible'[i] = visible[i]
    BY <2>1, <1>4 DEF DispatcherStep, Receive, StartExecution, Drop, DispatchError,
       Deleted, Returned
  <2>4. QED
    BY <1>1, <2>2, <2>3
<1>5. ASSUME NEW j \in Jobs, SfnStep(j) PROVE Goal
  <2>1. j # i
    BY <1>1, <1>5 DEF SfnStep, TaskSucceeds, TaskFails, ServiceError, TimedOut, TaskTimesOut,
       MarkFailed, MarkExhausted, Waiting
  <2>2. UNCHANGED sqsVars
    BY <1>5 DEF SfnStep, TaskSucceeds, TaskFails, ServiceError, TaskTimesOut, MarkFailed,
       MarkExhausted
  <2>3. exec'[i] = exec[i] /\ att'[i] = att[i]
    BY <2>1, <1>5 DEF SfnStep, TaskSucceeds, TaskFails, ServiceError, TaskTimesOut, MarkFailed,
       MarkExhausted, EndTask, Invoke, SetAtt
  <2>4. QED
    BY <1>1, <2>2, <2>3 DEF sqsVars
<1>6. ASSUME NEW j \in Jobs, NEW k \in Tries, WorkerStep(j, k) PROVE Goal
  <2>1. j # i
    BY <1>1, <1>6 DEF WorkerStep, ClaimRunning, SkipClaim, Handle, FinishSucceeded,
       FinishFailed, Exit, Die, Live
  <2>2. att'[i] = att[i] /\ UNCHANGED <<sqsVars, sfnVars>>
    BY <2>1, <1>6 DEF WorkerStep, ClaimRunning, SkipClaim, Handle, FinishSucceeded,
       FinishFailed, Exit, Die, SetAtt
  <2>3. QED
    BY <1>1, <2>2 DEF sqsVars, sfnVars
<1>7. CASE ReaperStep \/ Pause \/ Resume \/ Tick \/ UNCHANGED vars
  BY <1>2, <1>7 DEF ReaperStep, ReapRunning, Describe, ReapQueued, ReaperDies, Pause,
     Resume, Tick, vars, sfnVars, sqsVars
<1>8. QED
  BY <1>3, <1>4, <1>5, <1>6, <1>7 DEF Next

LEMMA WorkersKept ==
  ASSUME TypeOK, SettledInv, [Next]_vars, NEW i \in Jobs, NEW h \in Tries
  PROVE  WorkerPart(i, h)'
<1> USE SettledParts DEF WorkerPart
<1>1. ASSUME att'[i][h] \in {att[i][h], "unused", "invoked", "err"} PROVE WorkerPart(i, h)'
  BY <1>1, Onward
<1>2. ASSUME NEW j \in Jobs, WebStep(j) PROVE WorkerPart(i, h)'
  BY <1>1, <1>2 DEF WebStep, Insert, Replay, Send
<1>3. ASSUME NEW j \in Jobs, NEW k, Invoke(j, k) PROVE WorkerPart(i, h)'
  BY <1>1, <1>3 DEF Invoke, SetAtt, TypeOK
<1>4. ASSUME NEW j \in Jobs, DispatcherStep(j) PROVE WorkerPart(i, h)'
  BY <1>1, <1>3, <1>4 DEF DispatcherStep, Receive, StartExecution, Drop, DispatchError
<1>5. ASSUME NEW j \in Jobs, SfnStep(j) PROVE WorkerPart(i, h)'
  <2>1. UNCHANGED att \/ Invoke(j, Current(j) + 1)
    BY <1>5 DEF SfnStep, TaskSucceeds, TaskFails, ServiceError, TaskTimesOut,
       MarkFailed, MarkExhausted, EndTask
  <2>2. QED
    BY <2>1, <1>1, <1>3
<1>6. ASSUME NEW j \in Jobs, NEW k \in Tries, WorkerStep(j, k) PROVE WorkerPart(i, h)'
  <2> USE DEF SetAtt, TypeOK
  <2>1. CASE ~(j = i /\ k = h)
    <3>1. \E a : SetAtt(j, k, a)
      BY <1>6 DEF WorkerStep, ClaimRunning, SkipClaim, Handle, FinishSucceeded,
         FinishFailed, Exit, Die
    <3>2. att'[i][h] = att[i][h]
      BY <2>1, <3>1
    <3>3. QED
      BY <3>2, <1>1
  <2>2. CASE j = i /\ k = h
    <3>1. CASE ClaimRunning(i, h)
      <4>1. status'[i] = "running" /\ att'[i][h] = "working"
        BY <3>1 DEF ClaimRunning, UpdateRows
      <4>2. QED
        BY <4>1
    <3>2. CASE SkipClaim(i, h)
      <4>1. status[i] # "absent"
        BY <3>2 DEF SkipClaim, AbsentPart
      <4>2. status[i] \in Terminal
        BY <3>2, <4>1 DEF SkipClaim, Claimable, Statuses, Terminal, LedgerTypeOK
      <4>3. QED
        BY <4>2, Onward
    <3>3. CASE Handle(i, h)
      BY <3>3, Onward DEF Handle
    <3>4. CASE FinishSucceeded(i, h)
      <4>1. status[i] \in Terminal \cup {"running"}
        BY <3>4 DEF FinishSucceeded
      <4>2. CASE FinishJob(i, "succeeded")
        <5>1. status'[i] \in Terminal
          BY <4>1, <4>2, FinishSettles DEF Terminal
        <5>2. QED
          BY <5>1
      <4>3. CASE UNCHANGED ledgerVars /\ SetAtt(i, h, "errored")
        <5>1. att'[i][h] = "errored"
          BY <4>3 DEF SetAtt
        <5>2. QED
          BY <4>1, <4>3, <5>1 DEF ledgerVars
      <4>4. QED
        BY <3>4, <4>2, <4>3 DEF FinishSucceeded
    <3>5. CASE FinishFailed(i, h) \/ Exit(i, h) \/ Die(i, h)
      BY <3>5, Onward DEF FinishFailed, Exit, Die
    <3>6. QED
      BY <1>6, <2>2, <3>1, <3>2, <3>3, <3>4, <3>5 DEF WorkerStep
  <2>3. QED
    BY <2>1, <2>2
<1>7. CASE ReaperStep \/ Pause \/ Resume \/ Tick \/ UNCHANGED vars
  BY <1>1, <1>7 DEF ReaperStep, ReapRunning, Describe, ReapQueued, ReaperDies, Pause,
     Resume, Tick, vars
<1>8. QED
  BY <1>2, <1>4, <1>5, <1>6, <1>7 DEF Next

(* The inductive invariant behind EndedMeansSettled: what a worker at each *)
(* point of its run, and an execution at each state, know of the row.      *)
THEOREM SettledCorrect == Spec => []SettledInv
<1>1. Init => SettledInv
  <2> SUFFICES ASSUME Init, NEW j \in Jobs PROVE EndedPart(j) /\ AbsentPart(j) /\ \A k \in Tries : WorkerPart(j, k)
    BY SettledParts
  <2>1. exec[j] = "none" /\ inflight[j] = 0 /\ visible[j] = 0 /\ pending[j] = 0
    BY DEF Init
  <2>2. \A k \in Tries : att[j][k] = "unused"
    BY DEF Init
  <2>3. QED
    BY <2>1, <2>2 DEF EndedPart, AbsentPart, WorkerPart
<1>2. TypeOK /\ SettledInv /\ [Next]_vars => SettledInv'
  <2> SUFFICES ASSUME TypeOK, SettledInv, [Next]_vars PROVE SettledInv'
    OBVIOUS
  <2>1. \A j \in Jobs : EndedPart(j)' /\ AbsentPart(j)' /\ \A k \in Tries : WorkerPart(j, k)'
    BY EndedKept, AbsentKept, WorkersKept
  <2>2. QED
    BY <2>1 DEF SettledInv, EndedPart, AbsentPart, WorkerPart
<1>3. QED
  BY <1>1, <1>2, TypeCorrect, PTL DEF Spec

(* An execution that Step Functions reports as ended has left its job      *)
(* settled, however its invocations were retried, orphaned or killed.      *)
THEOREM EndedIsSettled == Spec => []EndedMeansSettled
<1>1. SettledInv => EndedMeansSettled
  BY DEF SettledInv, EndedMeansSettled
<1>2. QED
  BY <1>1, SettledCorrect, PTL

-----------------------------------------------------------------------------
(* Pausing: whatever has happened to a job beyond its submission happened  *)
(* after dispatch was enabled.                                             *)
LEMMA OpenKept ==
  ASSUME TypeOK, [Next]_vars, NEW i \in Jobs, openTicks[i] >= 0
  PROVE  openTicks'[i] >= 0
<1> USE DEF TypeOK, LedgerTypeOK
<1>1. ASSUME NEW j \in Jobs, WebStep(j) PROVE openTicks'[i] >= 0
  <2>1. CASE Insert(j)
    BY <2>1 DEF Insert
  <2>2. QED
    BY <1>1, <2>1 DEF WebStep, Replay, Send, ledgerVars
<1>2. ASSUME NEW j \in Jobs, DispatcherStep(j) PROVE openTicks'[i] >= 0
  BY <1>2 DEF DispatcherStep, Receive, StartExecution, Drop, DispatchError, ledgerVars
<1>3. ASSUME NEW j \in Jobs, SfnStep(j) PROVE openTicks'[i] >= 0
  BY <1>3 DEF SfnStep, TaskSucceeds, TaskFails, ServiceError, TaskTimesOut, MarkFailed,
     MarkExhausted, FinishJob, ledgerVars
<1>4. ASSUME NEW j \in Jobs, NEW k \in Tries, WorkerStep(j, k) PROVE openTicks'[i] >= 0
  BY <1>4 DEF WorkerStep, ClaimRunning, SkipClaim, Handle, FinishSucceeded, FinishFailed,
     Exit, Die, FinishJob, ledgerVars
<1>5. CASE ReaperStep \/ Pause \/ UNCHANGED vars
  BY <1>5 DEF ReaperStep, ReapRunning, Describe, ReapQueued, ReaperDies, Pause, vars, ledgerVars
<1>6. CASE Resume
  BY <1>6 DEF Resume
<1>7. CASE Tick
  BY <1>7, BackboneAssumption DEF Tick, Older
<1>8. QED
  BY <1>1, <1>2, <1>3, <1>4, <1>5, <1>6, <1>7 DEF Next

(* The part of PausedInv about one job, and the case of a step after which *)
(* the job's history is open.                                              *)
PausedPart(j) ==
  /\ status[j] \notin {"absent", "queued"} => openTicks[j] >= 0
  /\ esm /\ status[j] # "absent" => openTicks[j] >= 0
  /\ inflight[j] > 0 \/ exec[j] # "none" => openTicks[j] >= 0
  /\ \A k \in Tries : att[j][k] # "unused" => openTicks[j] >= 0
  /\ reaper = "queued" /\ status[j] = "queued" /\ openTicks[j] < 0 => rowAge[j] = 0

(* A step that touches nothing of a job whose history is not open yet.     *)
LEMMA PausedStep ==
  ASSUME TypeOK, SettledInv, PausedInv, [Next]_vars, NEW i \in Jobs, ~DescribeMayFail,
         openTicks[i] < 0
  PROVE  PausedPart(i)'
<1> SUFFICES ASSUME ~(openTicks'[i] >= 0) PROVE PausedPart(i)'
  BY LedgerTyped DEF PausedPart, LedgerTypeOK
<1> USE DEF TypeOK, LedgerTypeOK
<1>0. /\ status[i] \in {"absent", "queued"}
      /\ status[i] = "queued" => ~esm
      /\ inflight[i] = 0 /\ exec[i] = "none" /\ \A k \in Tries : att[i][k] = "unused"
      /\ reaper = "queued" /\ status[i] = "queued" => rowAge[i] = 0
      /\ status[i] = "absent" => visible[i] = 0
  BY DEF PausedInv, SettledInv, SqsTypeOK
<1>1. ASSUME UNCHANGED <<status, inflight, exec, att, openTicks, esm>>,
             rowAge' = rowAge, reaper' # "queued" \/ reaper = "queued"
      PROVE  PausedPart(i)'
  BY <1>0, <1>1 DEF PausedPart
<1>2. ASSUME NEW j \in Jobs, WebStep(j) PROVE PausedPart(i)'
  <2>1. CASE Insert(j)
    <3>1. CASE i = j
      <4>1. status'[i] = "queued" /\ rowAge'[i] = 0 /\ ~esm /\ esm' = esm
        BY <2>1, <3>1 DEF Insert, UpdateRows, esmVars
      <4>2. UNCHANGED <<inflight, exec, att>>
        BY <2>1 DEF Insert, sfnVars
      <4>3. QED
        BY <1>0, <4>1, <4>2 DEF PausedPart
    <3>2. CASE i # j
      <4>1. status'[i] = status[i] /\ rowAge'[i] = rowAge[i] /\ UNCHANGED <<inflight, exec, att, esm, reaper>>
        BY <2>1, <3>2 DEF Insert, UpdateRows, sfnVars, esmVars
      <4>2. QED
        BY <1>0, <4>1 DEF PausedPart
    <3>3. QED
      BY <3>1, <3>2
  <2>2. QED
    BY <1>1, <1>2, <2>1 DEF WebStep, Replay, Send, ledgerVars, sfnVars, esmVars
<1>3. ASSUME NEW j \in Jobs, DispatcherStep(j) PROVE PausedPart(i)'
  <2>1. j # i
    <3>1. CASE Receive(i)
      BY <3>1, <1>0 DEF Receive
    <3>2. QED
      BY <3>1, <1>3, <1>0 DEF DispatcherStep, StartExecution, Drop, DispatchError
  <2>2. inflight'[i] = inflight[i]
    BY <2>1, <1>3 DEF DispatcherStep, Receive, StartExecution, Drop, DispatchError,
       Deleted, Returned, SqsTypeOK
  <2>3. exec'[i] = exec[i] /\ att'[i] = att[i] /\ UNCHANGED <<status, rowAge, esm, reaper>>
    BY <2>1, <1>3 DEF DispatcherStep, Receive, StartExecution, Drop, DispatchError, Invoke,
       SetAtt, SfnTypeOK, sfnVars, ledgerVars, esmVars
  <2>4. QED
    BY <1>0, <2>2, <2>3 DEF PausedPart
<1>4. ASSUME NEW j \in Jobs, SfnStep(j) PROVE PausedPart(i)'
  <2>1. j # i
    BY <1>4, <1>0 DEF SfnStep, TaskSucceeds, TaskFails, ServiceError, TaskTimesOut, TimedOut,
       MarkFailed, MarkExhausted, Waiting
  <2>2. exec'[i] = exec[i] /\ att'[i] = att[i] /\ UNCHANGED <<inflight, esm, reaper>>
    BY <2>1, <1>4 DEF SfnStep, TaskSucceeds, TaskFails, ServiceError, TaskTimesOut,
       MarkFailed, MarkExhausted, EndTask, Invoke, SetAtt, SfnTypeOK, sqsVars, esmVars
  <2>3. status'[i] = status[i] /\ rowAge'[i] = rowAge[i]
    BY <2>1, <1>4 DEF SfnStep, TaskSucceeds, TaskFails, ServiceError, TaskTimesOut,
       MarkFailed, MarkExhausted, FinishJob, UpdateRows, ledgerVars
  <2>4. QED
    BY <1>0, <2>2, <2>3 DEF PausedPart
<1>5. ASSUME NEW j \in Jobs, NEW k \in Tries, WorkerStep(j, k) PROVE PausedPart(i)'
  <2>1. j # i
    BY <1>5, <1>0 DEF WorkerStep, ClaimRunning, SkipClaim, Handle, FinishSucceeded,
       FinishFailed, Exit, Die, Live
  <2>2. att'[i] = att[i] /\ UNCHANGED <<exec, inflight, esm, reaper>>
    BY <2>1, <1>5 DEF WorkerStep, ClaimRunning, SkipClaim, Handle, FinishSucceeded,
       FinishFailed, Exit, Die, SetAtt, sfnVars, sqsVars, esmVars
  <2>3. status'[i] = status[i] /\ rowAge'[i] = rowAge[i]
    BY <2>1, <1>5 DEF WorkerStep, ClaimRunning, SkipClaim, Handle, FinishSucceeded,
       FinishFailed, Exit, Die, FinishJob, UpdateRows, ledgerVars
  <2>4. QED
    BY <1>0, <2>2, <2>3 DEF PausedPart
<1>6. CASE ReaperStep
  <2> USE DEF sfnVars, sqsVars, esmVars, ledgerVars
  <2>1. CASE ReapRunning
    <3>1. status'[i] = status[i] /\ rowAge'[i] = rowAge[i] /\ reaper' = "describe"
      BY <2>1, <1>0 DEF ReapRunning, StaleRunning, UpdateRows
    <3>2. QED
      BY <2>1, <3>1, <1>0 DEF ReapRunning, PausedPart
  <2>2. CASE Describe
    <3>1. status[i] = "queued" => reaper' = "running"
      BY <2>2, <1>0 DEF Describe, DescribeAnswers, DispatchEnabled
    <3>2. QED
      BY <2>2, <3>1, <1>0 DEF Describe, PausedPart
  <2>3. CASE ReapQueued
    <3>1. ~StaleQueued(i)
      BY <2>3, <1>0, BackboneAssumption DEF ReapQueued, StaleQueued
    <3>2. status'[i] = status[i] /\ reaper' = "running"
      BY <2>3, <3>1 DEF ReapQueued, UpdateRows
    <3>3. QED
      BY <2>3, <3>2, <1>0 DEF ReapQueued, PausedPart
  <2>4. QED
    BY <1>1, <1>6, <2>1, <2>2, <2>3 DEF ReaperStep, ReaperDies
<1>7. CASE Pause
  BY <1>7, <1>0 DEF Pause, PausedPart, ledgerVars, sqsVars, sfnVars
<1>8. CASE Resume
  BY <1>8, <1>0 DEF Resume, PausedPart, sqsVars, sfnVars
<1>9. CASE Tick
  BY <1>9, <1>0 DEF Tick, PausedPart, sqsVars, esmVars
<1>10. CASE UNCHANGED vars
  BY <1>1, <1>10 DEF vars, ledgerVars, sqsVars, sfnVars, esmVars
<1>11. QED
  BY <1>2, <1>3, <1>4, <1>5, <1>6, <1>7, <1>8, <1>9, <1>10 DEF Next

(* A job submitted while dispatch is disabled is not failed before         *)
(* dispatch has been enabled (reaper.py:1-3), provided that the reaper's   *)
(* describe call answers: with a failing call the property is false.       *)
THEOREM PausedSurvives ==
  ASSUME ~DescribeMayFail
  PROVE  Spec => []PausedNeverReaped
<1>1. Init => PausedInv
  <2> SUFFICES ASSUME Init, NEW j \in Jobs PROVE PausedPart(j)
    BY DEF PausedInv, PausedPart
  <2>1. status[j] = "absent" /\ exec[j] = "none" /\ inflight[j] = 0
    BY DEF Init
  <2>2. \A k \in Tries : att[j][k] = "unused"
    BY DEF Init
  <2>3. QED
    BY <2>1, <2>2 DEF PausedPart
<1>2. TypeOK /\ SettledInv /\ PausedInv /\ [Next]_vars => PausedInv'
  <2> SUFFICES ASSUME TypeOK, SettledInv, PausedInv, [Next]_vars, NEW i \in Jobs
               PROVE  PausedPart(i)'
    BY DEF PausedInv, PausedPart
  <2>1. CASE openTicks[i] < 0
    BY <2>1, PausedStep
  <2>2. CASE ~(openTicks[i] < 0)
    <3>1. openTicks'[i] >= 0
      BY <2>2, OpenKept DEF TypeOK, LedgerTypeOK
    <3>2. ~(openTicks'[i] < 0)
      BY <3>1, LedgerTyped DEF LedgerTypeOK
    <3>3. QED
      BY <3>1, <3>2 DEF PausedPart
  <2>3. QED
    BY <2>1, <2>2
<1>3. PausedInv => PausedNeverReaped
  BY DEF PausedInv, PausedNeverReaped
<1>4. QED
  BY <1>1, <1>2, <1>3, TypeCorrect, SettledCorrect, PTL DEF Spec

-----------------------------------------------------------------------------
(* The reaper and the timeouts.                                            *)
TaskPart(j)  == Waiting(j) => taskAge[j] <= TaskTimeout[kind[j]]
LaterPart(j) == \A k \in Tries : exec[j] = "none" \/ k > Current(j) => att[j][k] = "unused"
AwaitedAtWork(j) == Waiting(j) /\ att[j][Current(j)] \in {"working", "handled"}
RowPart(j)   == AwaitedAtWork(j) /\ status[j] = "running" => rowAge[j] <= taskAge[j]

LEMMA AgeParts == AgeInv <=> \A j \in Jobs : TaskPart(j) /\ LaterPart(j) /\ RowPart(j)
  BY DEF AgeInv, TaskPart, LaterPart, RowPart, AwaitedAtWork

(* An UPDATE stamps the row it changes; only time makes a row older.       *)
RowsStamped == UNCHANGED <<status, rowAge>> \/ \E S, s : UpdateRows(S, s)

LEMMA Stamped ==
  /\ UNCHANGED ledgerVars => RowsStamped /\ UNCHANGED kind
  /\ \A S, s : UpdateRows(S, s) => RowsStamped /\ UNCHANGED kind
  /\ \A j, s : FinishJob(j, s) => RowsStamped /\ UNCHANGED kind
<1>1. ASSUME NEW S, NEW s, UpdateRows(S, s) PROVE RowsStamped /\ UNCHANGED kind
  <2>1. RowsStamped
    BY <1>1 DEF RowsStamped
  <2>2. UNCHANGED kind
    BY <1>1 DEF UpdateRows
  <2>3. QED
    BY <2>1, <2>2
<1>2. QED
  BY <1>1 DEF FinishJob, RowsStamped, ledgerVars

LEMMA RowFresh ==
  ASSUME TypeOK, RowsStamped, NEW i \in Jobs, status'[i] = "running"
  PROVE  rowAge'[i] = 0 \/ (status[i] = "running" /\ rowAge'[i] = rowAge[i])
  BY DEF RowsStamped, UpdateRows, TypeOK, LedgerTypeOK

LEMMA AgeStep ==
  ASSUME TypeOK, AgeInv, [Next]_vars, NEW i \in Jobs
  PROVE  TaskPart(i)' /\ LaterPart(i)' /\ RowPart(i)'
<1> USE DEF TypeOK
<1>0. /\ taskAge[i] \in Nat /\ rowAge[i] \in Nat /\ SfnTypeOK
      /\ TaskPart(i) /\ LaterPart(i) /\ RowPart(i)
  BY AgeParts, BackboneAssumption DEF LedgerTypeOK, SfnTypeOK
<1> USE <1>0
(* The execution of i and its invocations are left alone.                  *)
<1>1. ASSUME UNCHANGED <<kind, sfnVars>>, att'[i] = att[i], RowsStamped
      PROVE  TaskPart(i)' /\ LaterPart(i)' /\ RowPart(i)'
  <2>1. UNCHANGED <<exec, svcUsed, toUsed, taskAge>>
    BY <1>1 DEF sfnVars
  <2>2. TaskPart(i)' /\ LaterPart(i)'
    BY <1>1, <2>1 DEF TaskPart, LaterPart, Waiting, Current
  <2>3. RowPart(i)'
    BY <1>0, <1>1, <2>1, RowFresh DEF RowPart, AwaitedAtWork, Waiting, Current
  <2>4. QED
    BY <2>2, <2>3
(* Its execution enters the task state, again or for the first time.       *)
<1>2. ASSUME NEW n \in Tries, Current(i)' = n, Invoke(i, n),
             \A k \in Tries : k >= n => att[i][k] = "unused",
             exec'[i] # "none", UNCHANGED kind
      PROVE  TaskPart(i)' /\ LaterPart(i)' /\ RowPart(i)'
  <2>1. taskAge'[i] = 0 /\ kind'[i] = kind[i]
    BY <1>2 DEF Invoke, SfnTypeOK
  <2>2. TaskPart(i)'
    <3>1. exec'[i] = "task" => TaskTimeout[kind'[i]] \in Nat
      BY SfnTyped, BackboneAssumption DEF SfnTypeOK
    <3>2. QED
      BY <2>1, <3>1 DEF TaskPart, Waiting
  <2>3. n \in Int /\ Tries \subseteq Int
    BY BackboneAssumption DEF Tries
  <2>4. att'[i][n] \in {"invoked", "unused"} /\ \A k \in Tries : k # n => att'[i][k] = att[i][k]
    BY <1>2, <2>3 DEF Invoke, SetAtt
  <2>5. \A k \in Tries : k > n => att'[i][k] = "unused"
    BY <1>2, <2>3, <2>4
  <2>6. LaterPart(i)'
    BY <1>2, <2>5 DEF LaterPart
  <2>7. RowPart(i)'
    BY <1>2, <2>4 DEF RowPart, AwaitedAtWork
  <2>8. QED
    BY <2>2, <2>6, <2>7
(* It leaves the task state, or an invocation of i takes a step.           *)
<1>3. ASSUME exec[i] # "none", exec'[i] \notin {"none", "task"},
             svcUsed'[i] = svcUsed[i], toUsed'[i] = toUsed[i], att'[i] = att[i]
      PROVE  TaskPart(i)' /\ LaterPart(i)' /\ RowPart(i)'
  <2>1. TaskPart(i)' /\ RowPart(i)'
    BY <1>3 DEF TaskPart, RowPart, AwaitedAtWork, Waiting
  <2>2. LaterPart(i)'
    BY <1>0, <1>3 DEF LaterPart, Current
  <2>3. QED
    BY <2>1, <2>2
<1>4. ASSUME NEW j \in Jobs, WebStep(j) PROVE TaskPart(i)' /\ LaterPart(i)' /\ RowPart(i)'
  <2>1. UNCHANGED <<kind, sfnVars>> /\ att' = att /\ RowsStamped
    BY <1>4, Stamped DEF WebStep, Insert, Replay, Send
  <2>2. QED
    BY <1>1, <2>1
<1>5. ASSUME NEW j \in Jobs, DispatcherStep(j) PROVE TaskPart(i)' /\ LaterPart(i)' /\ RowPart(i)'
  <2>1. UNCHANGED ledgerVars /\ RowsStamped
    BY <1>5 DEF DispatcherStep, Receive, StartExecution, Drop, DispatchError, RowsStamped, ledgerVars
  <2>2. CASE StartExecution(j)
    <3>1. CASE i = j
      <4>1. exec[i] = "none" /\ exec'[i] = "task" /\ UNCHANGED <<svcUsed, toUsed>> /\ Invoke(i, 1)
        BY <2>2, <3>1, <1>0 DEF StartExecution, SfnTypeOK
      <4>2. Current(i)' = 1 /\ 1 \in Tries
        BY <4>1, <1>0, BackboneAssumption DEF SfnTypeOK, Current, Tries
      <4>3. \A k \in Tries : att[i][k] = "unused"
        BY <4>1 DEF LaterPart
      <4>4. QED
        BY <1>2, <2>1, <4>1, <4>2, <4>3 DEF ledgerVars
    <3>2. CASE i # j
      <4>1. exec'[i] = exec[i] /\ taskAge'[i] = taskAge[i] /\ att'[i] = att[i]
            /\ UNCHANGED <<svcUsed, toUsed>>
        BY <2>2, <3>2, <1>0 DEF StartExecution, Invoke, SetAtt, SfnTypeOK
      <4>2. QED
        BY <2>1, <4>1 DEF ledgerVars, TaskPart, LaterPart, RowPart, AwaitedAtWork, Waiting, Current
    <3>3. QED
      BY <3>1, <3>2
  <2>3. QED
    BY <1>1, <1>5, <2>1, <2>2 DEF DispatcherStep, Receive, Drop, DispatchError, ledgerVars
<1>6. ASSUME NEW j \in Jobs, SfnStep(j) PROVE TaskPart(i)' /\ LaterPart(i)' /\ RowPart(i)'
  <2>1. UNCHANGED kind /\ RowsStamped /\ exec[j] # "none"
    BY <1>6, Stamped DEF SfnStep, TaskSucceeds, TaskFails, ServiceError, TaskTimesOut, TimedOut,
       Waiting, MarkFailed, MarkExhausted
  <2>2. CASE i # j
    <3>1. /\ exec'[i] = exec[i] /\ svcUsed'[i] = svcUsed[i] /\ toUsed'[i] = toUsed[i]
          /\ taskAge'[i] = taskAge[i] /\ att'[i] = att[i]
      BY <1>6, <2>2 DEF SfnStep, TaskSucceeds, TaskFails, ServiceError, TaskTimesOut,
         MarkFailed, MarkExhausted, EndTask, Invoke, SetAtt, SfnTypeOK
    <3>2. TaskPart(i)'
      BY <2>1, <3>1, <1>0 DEF TaskPart, Waiting
    <3>3. LaterPart(i)'
      BY <3>1, <1>0 DEF LaterPart, Current
    <3>4. RowPart(i)'
      BY <2>1, <3>1, <1>0, RowFresh DEF RowPart, AwaitedAtWork, Waiting, Current
    <3>5. QED
      BY <3>2, <3>3, <3>4
  <2>3. ASSUME i = j, Waiting(i), Invoke(i, Current(i) + 1), UNCHANGED exec,
               Current(i)' = Current(i) + 1, Current(i) + 1 \in Tries
        PROVE  TaskPart(i)' /\ LaterPart(i)' /\ RowPart(i)'
    <3>1. \A k \in Tries : k >= Current(i) + 1 => att[i][k] = "unused"
      BY <1>0 DEF LaterPart, Current, SfnTypeOK, Tries
    <3>2. QED
      BY <1>2, <2>1, <2>3, <3>1
  <2>4. CASE i = j /\ (ServiceError(j) /\ ~EndTask(j, "marking"))
    <3>0. svcUsed[j] < SvcRetries[kind[j]]
      BY <2>4 DEF ServiceError, SvcRetryLeft
    <3>1. Waiting(i) /\ Invoke(i, Current(i) + 1) /\ UNCHANGED exec
      BY <2>4 DEF ServiceError, SvcRetryLeft
    <3>2. Current(i)' = Current(i) + 1
      BY <2>4, <1>0 DEF ServiceError, SvcRetryLeft, Current, SfnTypeOK
    <3>3. Current(i) + 1 \in Tries
      BY <2>1, <2>4, <3>0, <1>0, CurrentIsTry
    <3>4. QED
      BY <2>3, <2>4, <3>1, <3>2, <3>3
  <2>5. CASE i = j /\ (TaskTimesOut(j) /\ toUsed[j] < TimeoutRetries[kind[j]])
    <3>1. Waiting(i) /\ Invoke(i, Current(i) + 1) /\ UNCHANGED exec
      BY <2>5 DEF TaskTimesOut, TimedOut
    <3>2. Current(i)' = Current(i) + 1
      BY <2>5, <1>0 DEF TaskTimesOut, Current, SfnTypeOK
    <3>3. Current(i) + 1 \in Tries
      BY <2>1, <2>5, <1>0, CurrentIsTry
    <3>4. QED
      BY <2>3, <2>5, <3>1, <3>2, <3>3
  <2>6. ASSUME i = j,
               \/ TaskSucceeds(j) \/ TaskFails(j)
               \/ ServiceError(j) /\ EndTask(j, "marking")
               \/ TaskTimesOut(j) /\ ~(toUsed[j] < TimeoutRetries[kind[j]])
               \/ MarkFailed(j) \/ MarkExhausted(j)
        PROVE  TaskPart(i)' /\ LaterPart(i)' /\ RowPart(i)'
    <3>1. exec'[i] \notin {"none", "task"} /\ UNCHANGED <<svcUsed, toUsed, att>>
      BY <2>6, <1>0 DEF TaskSucceeds, TaskFails, ServiceError, SvcRetryLeft, TaskTimesOut, EndTask,
         MarkFailed, MarkExhausted, SfnTypeOK
    <3>2. QED
      BY <1>3, <2>1, <2>6, <3>1
  <2>7. QED
    BY <1>6, <2>2, <2>4, <2>5, <2>6 DEF SfnStep
<1>7. ASSUME NEW j \in Jobs, NEW k \in Tries, WorkerStep(j, k)
      PROVE  TaskPart(i)' /\ LaterPart(i)' /\ RowPart(i)'
  <2> USE DEF WorkerStep, ClaimRunning, SkipClaim, Handle, FinishSucceeded, FinishFailed,
       Exit, Die
  <2>0. UNCHANGED <<kind, sfnVars>> /\ RowsStamped
    BY <1>7, Stamped
  <2>1. /\ UNCHANGED <<kind, sfnVars>> /\ RowsStamped
        /\ att[j][k] # "unused"
        /\ \E a \in AttStates : SetAtt(j, k, a)
    BY <1>7, <2>0 DEF AttStates, Live
  <2>2. CASE i # j
    <3>1. att'[i] = att[i]
      BY <2>1, <2>2 DEF SetAtt
    <3>2. QED
      BY <1>1, <2>1, <3>1
  <2>3. CASE i = j
    <3>1. UNCHANGED <<exec, svcUsed, toUsed, taskAge>>
      BY <2>1 DEF sfnVars
    <3>2. TaskPart(i)'
      BY <2>1, <3>1 DEF TaskPart, Waiting
    <3>3. \A h \in Tries : h # k => att'[i][h] = att[i][h]
      BY <2>1, <2>3 DEF SetAtt
    <3>4. LaterPart(i)'
      BY <2>1, <2>3, <3>1, <3>3 DEF LaterPart, Current
    <3>5. RowPart(i)'
      <4> SUFFICES ASSUME AwaitedAtWork(i)', status'[i] = "running"
                   PROVE  rowAge'[i] <= taskAge'[i]
        BY DEF RowPart
      <4>1. CASE rowAge'[i] = 0
        BY <4>1, <3>1, <1>0
      <4>2. CASE rowAge'[i] # 0
        <5>1. status[i] = "running" /\ rowAge'[i] = rowAge[i]
          BY <2>1, <4>2, RowFresh
        <5>2. Waiting(i) /\ att'[i][Current(i)] \in {"working", "handled"}
          BY <3>1 DEF AwaitedAtWork, Waiting, Current
        <5>3. ~ClaimRunning(j, k)
          BY <2>3, <4>2 DEF ClaimRunning, UpdateRows
        <5>4. Current(i) = k => att[i][k] \in {"working", "handled"}
          BY <1>7, <2>1, <2>3, <5>2, <5>3 DEF WorkerStep, SkipClaim, Handle, FinishSucceeded,
             FinishFailed, Exit, Die, SetAtt
        <5>5. Current(i) \in Tries
          BY <5>2, <1>0, CurrentIsTry DEF Waiting
        <5>6. AwaitedAtWork(i)
          BY <3>3, <5>2, <5>4, <5>5 DEF AwaitedAtWork
        <5>7. QED
          BY <3>1, <5>1, <5>6 DEF RowPart
      <4>3. QED
        BY <4>1, <4>2
    <3>6. QED
      BY <3>2, <3>4, <3>5
  <2>4. QED
    BY <2>2, <2>3
<1>8. CASE ReaperStep \/ Pause \/ Resume \/ UNCHANGED vars
  <2>1. UNCHANGED <<kind, sfnVars>> /\ att' = att /\ RowsStamped
    BY <1>8 DEF ReaperStep, ReapRunning, Describe, ReapQueued, ReaperDies, Pause, Resume,
       vars, UpdateRows, RowsStamped, ledgerVars
  <2>2. QED
    BY <1>1, <2>1
<1>9. CASE Tick
  <2>1. /\ UNCHANGED <<kind, status, exec, svcUsed, toUsed, att>>
        /\ ~TimedOut(i)
        /\ taskAge'[i] = IF Waiting(i) THEN taskAge[i] + 1 ELSE taskAge[i]
    BY <1>9 DEF Tick
  <2>2. rowAge'[i] <= rowAge[i] + 1
    BY <1>9, <1>0, BackboneAssumption DEF Tick, Older
  <2>3. TaskPart(i)'
    <3>1. Waiting(i) => TaskTimeout[kind[i]] \in Nat
      BY <1>0, BackboneAssumption DEF SfnTypeOK, Waiting
    <3>2. Waiting(i) => taskAge[i] + 1 <= TaskTimeout[kind[i]]
      BY <2>1, <3>1, <1>0 DEF TaskPart, TimedOut
    <3>3. QED
      BY <2>1, <3>2 DEF TaskPart, Waiting
  <2>4. LaterPart(i)'
    BY <2>1 DEF LaterPart, Current
  <2>5. RowPart(i)'
    <3>1. rowAge'[i] \in Nat
      BY LedgerTyped, BackboneAssumption DEF LedgerTypeOK
    <3>2. QED
      BY <2>1, <2>2, <3>1, <1>0 DEF RowPart, AwaitedAtWork, Waiting, Current
  <2>6. QED
    BY <2>3, <2>4, <2>5
<1>10. QED
  BY <1>4, <1>5, <1>6, <1>7, <1>8, <1>9 DEF Next

(* The inductive invariant behind SfnDecidesBeforeReaper: a running row    *)
(* whose awaited invocation is at work is never older than its task.       *)
THEOREM AgeCorrect == Spec => []AgeInv
<1>1. Init => AgeInv
  <2> SUFFICES ASSUME Init, NEW j \in Jobs PROVE TaskPart(j) /\ LaterPart(j) /\ RowPart(j)
    BY AgeParts
  <2>1. exec[j] = "none" /\ \A k \in Tries : att[j][k] = "unused"
    BY DEF Init
  <2>2. QED
    BY <2>1 DEF TaskPart, LaterPart, RowPart, AwaitedAtWork, Waiting
<1>2. TypeOK /\ AgeInv /\ [Next]_vars => AgeInv'
  <2> SUFFICES ASSUME TypeOK, AgeInv, [Next]_vars PROVE AgeInv'
    OBVIOUS
  <2>1. \A j \in Jobs : TaskPart(j)' /\ LaterPart(j)' /\ RowPart(j)'
    BY AgeStep
  <2>2. QED
    BY <2>1 DEF AgeInv, TaskPart, LaterPart, RowPart, AwaitedAtWork
<1>3. QED
  BY <1>1, <1>2, TypeCorrect, PTL DEF Spec

(* As long as RUNNING_STALE_MIN exceeds every task timeout                 *)
(* (ThresholdAssumption, workers.tf:656-662), the reaper never fails a job *)
(* whose awaited invocation is at work, however often it was retried.      *)
THEOREM SfnDecides == Spec => SfnDecidesBeforeReaper
<1> DEFINE Decides == \A j \in Jobs : reaper = "running" /\ reaper' # "running"
                        /\ status[j] = "running" /\ status'[j] = "failed"
                          => ~(Waiting(j) /\ att[j][Current(j)] \in {"working", "handled"})
<1>1. TypeOK /\ AgeInv /\ [Next]_vars => [Decides]_vars
  <2> SUFFICES ASSUME TypeOK, AgeInv, [Next]_vars, NEW j \in Jobs,
                      reaper = "running", reaper' # "running",
                      status[j] = "running", status'[j] = "failed",
                      AwaitedAtWork(j)
               PROVE  FALSE
    BY DEF AwaitedAtWork
  <2>1. ReapRunning
    BY DEF Next, WebStep, Insert, Replay, Send, DispatcherStep, Receive, StartExecution, Drop,
       DispatchError, SfnStep, TaskSucceeds, TaskFails, ServiceError, TaskTimesOut, MarkFailed,
       MarkExhausted, WorkerStep, ClaimRunning, SkipClaim, Handle, FinishSucceeded,
       FinishFailed, Exit, Die, ReaperStep, Describe, ReapQueued, ReaperDies, Pause, Resume,
       Tick, vars
  <2>2. rowAge[j] >= RunningStale
    BY <2>1 DEF ReapRunning, StaleRunning, UpdateRows
  <2>3. rowAge[j] <= taskAge[j] /\ taskAge[j] <= TaskTimeout[kind[j]] /\ kind[j] \in Runtimes
    BY AgeParts DEF TaskPart, RowPart, AwaitedAtWork, Waiting, TypeOK, SfnTypeOK
  <2>4. /\ TaskTimeout[kind[j]] \in Nat /\ RunningStale \in Nat /\ rowAge[j] \in Nat
        /\ taskAge[j] \in Nat
        /\ TaskTimeout[kind[j]] < RunningStale
    BY <2>3, BackboneAssumption, ThresholdAssumption DEF TypeOK, LedgerTypeOK, SfnTypeOK
  <2>5. QED
    BY <2>2, <2>3, <2>4
<1>2. QED
  BY <1>1, TypeCorrect, AgeCorrect, PTL DEF Spec, SfnDecidesBeforeReaper
=============================================================================
