------------------------ MODULE DiagnosisSubmitProofs ------------------------
(***************************************************************************)
(* Who owns a report, for every set of concurrent requests and of worker   *)
(* invocations: what TLC checks of three requests and one worker holds of  *)
(* any number of them.                                                     *)
(***************************************************************************)
EXTENDS DiagnosisSubmit, TLAPS

(* Handlers that have not seen the ledger write the job, or never will.    *)
Early == {"arrived", "fresh", "created", "undelivered", "done", "died"}

(* Before the job there is no payload and no link, nobody is past the      *)
(* ledger, and no request was given a report.                              *)
UnsubmittedPart ==
  status[Job] = "absent" =>
    /\ named = NoReport /\ linked = {}
    /\ \A r \in Requests : pc[r] \in Early /\ answer[r].code \in {"none", "undelivered"}

(* A handler has a row of its own from createReport on.                    *)
RowPart(r) ==
  /\ pc[r] \in {"arrived", "fresh"} => row[r] = "absent"
  /\ pc[r] \notin {"arrived", "fresh", "done", "died"} => row[r] # "absent"

(* What a handler read of the ledger's payload is still true when it acts. *)
RivalPart(r) ==
  /\ pc[r] \in {"duplicate", "pointless"} => named \notin {NoReport, r}
  /\ pc[r] = "pointless" => named \in deleted
  /\ pc[r] = "beaten" => named = NoReport

(* A link is the handler's last statement, a retired row its last but one. *)
OwnPart(r) ==
  /\ r \in linked => pc[r] = "done"
  /\ pc[r] = "outranked" => r \in deleted
  /\ r \in deleted \ userDeleted => pc[r] \in {"outranked", "done", "died"}

(* Only requests link rows, or retire them, and of the linked rows one at  *)
(* most is live.                                                           *)
RetiredPart ==
  /\ linked \cup (deleted \ userDeleted) \subseteq Requests
  /\ \A p, q \in linked \ deleted : p = q

(* What a request was given is named by the payload or, if that names      *)
(* none, linked.                                                           *)
GivenPart ==
  \A r \in Requests : answer[r].code \in {"accepted", "deduped"} =>
    IF named # NoReport THEN answer[r].report = named ELSE answer[r].report \in linked

HandlerPart == \A r \in Requests : RowPart(r) /\ RivalPart(r) /\ OwnPart(r)

Promises ==
  /\ GivenPart
  /\ HandedOutIsKept
  /\ NoOrphans
  /\ GoneIsTrue

Inv ==
  /\ TypeOK
  /\ UnsubmittedPart
  /\ HandlerPart
  /\ RetiredPart
  /\ Promises

-----------------------------------------------------------------------------
USE SubmitAssumption DEF Reports

LEMMA InitInv == Init => Inv
  BY DEF Init, Inv, TypeOK, UnsubmittedPart, HandlerPart, RowPart, RivalPart, OwnPart,
         RetiredPart, Promises, GivenPart, HandedOutIsKept, NoOrphans,
         GoneIsTrue, RowStates, Codes, Steps, WorkerSteps, Early, Ledger!Unsettled,
         Ledger!Settled

-----------------------------------------------------------------------------
(* What the workers, the reaper and the backbone do: rows come into being  *)
(* or settle, and a job that exists goes on existing.                      *)
RowsSettle ==
  /\ row' \in [Reports -> RowStates]
  /\ \A q \in Reports : row[q] # "absent" => row'[q] # "absent"
  /\ \A r \in Requests :
       /\ row[r] = "absent" => row'[r] = "absent"
       /\ row'[r] = "running" => row[r] = "running"

JobStays ==
  /\ status' \in [{Job} -> {"absent"} \cup Ledger!Unsettled \cup Ledger!Settled]
  /\ claims' \in [{Job} -> Nat]
  /\ status'[Job] = "absent" => status[Job] = "absent"

LEMMA BackgroundStep ==
  ASSUME Inv, RowsSettle, JobStays, wpc' \in [Workers -> WorkerSteps],
         UNCHANGED <<named, sent, deleted, linked, userDeleted, pc, answer>>
  PROVE  Inv'
  <1>1. TypeOK'
    BY DEF Inv, TypeOK, RowsSettle, JobStays
  <1>2. UnsubmittedPart'
    BY DEF Inv, UnsubmittedPart, JobStays
  <1>3. HandlerPart'
    BY DEF Inv, HandlerPart, RowPart, RivalPart, OwnPart, RowsSettle
  <1>4. RetiredPart'
    BY DEF Inv, RetiredPart
  <1>5. Promises'
    BY DEF Inv, Promises, GivenPart, HandedOutIsKept, NoOrphans, GoneIsTrue,
           RowsSettle
  <1> QED BY <1>1, <1>2, <1>3, <1>4, <1>5 DEF Inv

LEMMA RowsStay == ASSUME Inv, UNCHANGED row PROVE RowsSettle
  BY DEF Inv, TypeOK, RowsSettle

LEMMA JobUnchanged == ASSUME Inv, UNCHANGED <<status, claims>> PROVE JobStays
  BY DEF Inv, TypeOK, JobStays

(* A report that settles, and the row of a worker that was given none.     *)
LEMMA FinishSettles ==
  ASSUME Inv, NEW q \in Reports, NEW s \in RowStates \ {"absent", "running"}, Finish(q, s)
  PROVE  RowsSettle
  BY DEF Inv, TypeOK, RowsSettle, Finish, RowStates

LEMMA TargetIsReport == ASSUME Inv, NEW w \in Workers PROVE Target(w) \in Reports
  BY DEF Inv, TypeOK, Target

LEMMA EnsureSettles ==
  ASSUME Inv, NEW w \in Workers, EnsureReport(w) PROVE RowsSettle
  <1>1. row' = [row EXCEPT ![Target(w)] = IF @ = "absent" THEN "running" ELSE @]
    BY DEF EnsureReport
  <1>2. Target(w) \in Reports
    BY TargetIsReport
  <1>3. row[Target(w)] = "absent" => Target(w) \notin Requests
    BY DEF Inv, TypeOK, Target
  <1> QED BY <1>1, <1>2, <1>3 DEF Inv, TypeOK, RowsSettle, RowStates

LEMMA ReapSettles == ASSUME Inv, ReapReports PROVE RowsSettle
  <1> PICK Stale \in SUBSET Reports : row' = [q \in Reports |->
        IF row[q] = "running" /\ (q \in Stale \/ (q \in linked /\ status[Job] = "failed"))
          THEN "failed" ELSE row[q]]
    BY DEF ReapReports
  <1> QED BY DEF Inv, TypeOK, RowsSettle, RowStates

(* The ledger's promises about one job.                                    *)
LEMMA ClaimStays == ASSUME Inv, Ledger!Claim(Job) PROVE JobStays
  BY DEF Inv, TypeOK, JobStays, Ledger!Claim, Ledger!Unsettled, Ledger!Settled

LEMMA SucceedStays == ASSUME Inv, Ledger!Succeed(Job) PROVE JobStays
  BY DEF Inv, TypeOK, JobStays, Ledger!Succeed, Ledger!Unsettled, Ledger!Settled

LEMMA FailStays == ASSUME Inv, Ledger!Fail({Job}) PROVE JobStays
  BY DEF Inv, TypeOK, JobStays, Ledger!Fail, Ledger!Unsettled, Ledger!Settled

(* A worker moves on.                                                      *)
LEMMA WorkerMoves ==
  ASSUME Inv, NEW w \in Workers, NEW step \in WorkerSteps, Step(w, step)
  PROVE  wpc' \in [Workers -> WorkerSteps]
  BY DEF Inv, TypeOK, Step

LEMMA WorkerInv == ASSUME Inv, NEW w \in Workers, WorkerStep(w) PROVE Inv'
  <1>w. {"claimed", "rendering", "rendered", "raised", "failing", "ended"} \subseteq WorkerSteps
    BY DEF WorkerSteps
  <1>1. CASE ClaimJob(w)
    BY <1>1, <1>w, ClaimStays, RowsStay, WorkerMoves, BackgroundStep DEF ClaimJob, reportVars
  <1>2. CASE EnsureReport(w)
    BY <1>2, <1>w, EnsureSettles, JobUnchanged, WorkerMoves, BackgroundStep
       DEF EnsureReport, jobVars
  <1>3. CASE FinishReport(w)
    <2>1. RowsSettle
      BY <1>3, TargetIsReport, FinishSettles DEF FinishReport, RowStates
    <2>2. wpc' \in [Workers -> WorkerSteps]
      BY <1>3, <1>w, WorkerMoves DEF FinishReport
    <2> QED BY <1>3, <2>1, <2>2, JobUnchanged, BackgroundStep DEF FinishReport, jobVars
  <1>4. CASE FinishJobSucceeded(w)
    <2>1. JobStays
      BY <1>4, SucceedStays, JobUnchanged DEF FinishJobSucceeded
    <2>2. wpc' \in [Workers -> WorkerSteps]
      BY <1>4, <1>w, WorkerMoves DEF FinishJobSucceeded
    <2> QED BY <1>4, <2>1, <2>2, RowsStay, BackgroundStep DEF FinishJobSucceeded, reportVars
  <1>5. CASE FinishJobFailed(w)
    <2>1. JobStays
      BY <1>5, FailStays, JobUnchanged DEF FinishJobFailed
    <2> QED BY <1>5, <1>w, <2>1, WorkerMoves, RowsStay, BackgroundStep
            DEF FinishJobFailed, reportVars
  <1>6. CASE FailReport(w)
    <2>1. CASE named = NoReport
      BY <1>6, <2>1, <1>w, RowsStay, JobUnchanged, WorkerMoves, BackgroundStep
         DEF FailReport, jobVars
    <2>2. CASE named # NoReport
      <3>1. named \in Reports
        BY <2>2 DEF Inv, TypeOK
      <3>2. RowsSettle
        BY <1>6, <2>2, <3>1, FinishSettles DEF FailReport, RowStates
      <3> QED BY <1>6, <1>w, <3>2, JobUnchanged, WorkerMoves, BackgroundStep
              DEF FailReport, jobVars
    <2> QED BY <2>1, <2>2
  <1>7. CASE WorkerRaises(w)
    BY <1>7, <1>w, RowsStay, JobUnchanged, WorkerMoves, BackgroundStep
       DEF WorkerRaises, jobVars, reportVars
  <1>8. CASE WorkerDies(w)
    BY <1>8, <1>w, RowsStay, JobUnchanged, WorkerMoves, BackgroundStep
       DEF WorkerDies, jobVars, reportVars
  <1> QED BY <1>1, <1>2, <1>3, <1>4, <1>5, <1>6, <1>7, <1>8 DEF WorkerStep

LEMMA JobFailsInv == ASSUME Inv, JobFails PROVE Inv'
  <1>1. wpc' \in [Workers -> WorkerSteps]
    BY DEF Inv, TypeOK, JobFails
  <1> QED BY <1>1, FailStays, RowsStay, BackgroundStep DEF JobFails, reportVars

LEMMA ReapReportsInv == ASSUME Inv, ReapReports PROVE Inv'
  <1>1. wpc' \in [Workers -> WorkerSteps]
    BY DEF Inv, TypeOK, ReapReports
  <1> QED BY <1>1, ReapSettles, JobUnchanged, BackgroundStep DEF ReapReports, jobVars

-----------------------------------------------------------------------------
(* A handler that only goes on: to where what it knows of the payload, of  *)
(* its row and of its link is still so.                                    *)
GoesOn(r, step) ==
  /\ Goto(r, step)
  /\ sent' \in BOOLEAN
  /\ UNCHANGED <<status, claims, named, reportVars, answer, wpc>>

LEMMA GoesOnInv ==
  ASSUME Inv, NEW r \in Requests, NEW step \in Steps \ {"done"}, GoesOn(r, step),
         status[Job] = "absent" => step \in Early,
         RowPart(r)', RivalPart(r)', OwnPart(r)'
  PROVE  Inv'
  <1> USE DEF GoesOn, Goto, reportVars
  <1>1. TypeOK'
    BY DEF Inv, TypeOK
  <1>2. UnsubmittedPart'
    BY DEF Inv, TypeOK, UnsubmittedPart
  <1>3. HandlerPart'
    BY DEF Inv, TypeOK, HandlerPart, RowPart, RivalPart, OwnPart
  <1>4. RetiredPart'
    BY DEF Inv, RetiredPart
  <1>5. Promises'
    BY DEF Inv, TypeOK, Promises, GivenPart, HandedOutIsKept, NoOrphans,
           GoneIsTrue
  <1> QED BY <1>1, <1>2, <1>3, <1>4, <1>5 DEF Inv

LEMMA GoesOnHandlers ==
  ASSUME Inv, NEW r \in Requests,
         FindOwnJob(r) \/ EnqueueFails(r) \/ SendMessage(r) \/ GetLedgerReport(r)
           \/ HandlerDies(r)
  PROVE  Inv'
  <1> USE DEF Inv, TypeOK, GoesOn, Goto, jobVars, reportVars, Steps, Early, HandlerPart,
              RowPart, RivalPart, OwnPart, UnsubmittedPart
  <1>1. CASE FindOwnJob(r)
    BY <1>1, GoesOnInv DEF FindOwnJob
  <1>2. CASE EnqueueFails(r)
    BY <1>2, GoesOnInv DEF EnqueueFails
  <1>3. CASE SendMessage(r)
    <2>1. PICK step \in {"enqueued", "undelivered"} : Goto(r, step)
      BY <1>3 DEF SendMessage
    <2>2. sent' \in BOOLEAN
      BY <1>3 DEF SendMessage
    <2> QED BY <1>3, <2>1, <2>2, GoesOnInv DEF SendMessage
  <1>4. CASE GetLedgerReport(r)
    <2>1. PICK step \in {"duplicate", "pointless"} :
            Goto(r, step) /\ (step = "pointless" => named \in deleted)
      BY <1>4 DEF GetLedgerReport, LiveReport
    <2>2. /\ named \notin {NoReport, r} /\ pc[r] = "enqueued"
          /\ UNCHANGED <<jobVars, reportVars, answer, wpc>>
      BY <1>4 DEF GetLedgerReport, LedgerNamesOther
    <2>3. RowPart(r)' /\ RivalPart(r)' /\ OwnPart(r)'
      BY <2>1, <2>2
    <2>4. status[Job] # "absent"
      BY <2>2
    <2>5. GoesOn(r, step)
      BY <2>1, <2>2
    <2> HIDE DEF Inv, GoesOn, RowPart, RivalPart, OwnPart
    <2> QED BY <2>1, <2>3, <2>4, <2>5, GoesOnInv
  <1>5. CASE HandlerDies(r)
    BY <1>5, GoesOnInv DEF HandlerDies
  <1> QED BY <1>1, <1>2, <1>3, <1>4, <1>5

(* What it answers is live, and named by the payload if that names any.    *)
LEMMA LookupInv == ASSUME Inv, NEW r \in Requests, Lookup(r) PROVE Inv'
  <1> USE DEF Inv, TypeOK, Lookup, Goto, Respond, jobVars, reportVars, ReportForKey
  <1>1. TypeOK'
    BY DEF Steps, Codes
  <1>2. UnsubmittedPart'
    BY DEF UnsubmittedPart, Early
  <1>3. HandlerPart'
    BY DEF HandlerPart, RowPart, RivalPart, OwnPart
  <1>4. RetiredPart'
    BY DEF RetiredPart
  <1>5. Promises'
    <2>1. GivenPart'
      BY DEF Promises, GivenPart
    <2>2. HandedOutIsKept'
      BY DEF Promises, HandedOutIsKept
    <2>3. NoOrphans'
      BY DEF Promises, NoOrphans, HandlerPart, RowPart
    <2>4. GoneIsTrue'
      BY DEF Promises, GoneIsTrue
    <2> QED BY <2>1, <2>2, <2>3, <2>4 DEF Promises
  <1> QED BY <1>1, <1>2, <1>3, <1>4, <1>5

(* A row that was not there is neither handed out, linked nor deleted.     *)
LEMMA CreateReportInv == ASSUME Inv, NEW r \in Requests, CreateReport(r) PROVE Inv'
  <1> USE DEF Inv, TypeOK, CreateReport, Goto, Respond, jobVars, reportVars
  <1>1. TypeOK'
    BY DEF Steps, RowStates
  <1>2. UnsubmittedPart'
    BY DEF UnsubmittedPart, Early
  <1>3. HandlerPart'
    BY DEF HandlerPart, RowPart, RivalPart, OwnPart
  <1>4. RetiredPart'
    BY DEF RetiredPart
  <1>5. Promises'
    <2>1. GivenPart'
      BY DEF Promises, GivenPart
    <2>2. HandedOutIsKept'
      BY DEF Promises, HandedOutIsKept
    <2>3. NoOrphans'
      BY DEF Promises, NoOrphans
    <2>4. GoneIsTrue'
      BY DEF Promises, GoneIsTrue
    <2> QED BY <2>1, <2>2, <2>3, <2>4 DEF Promises
  <1> QED BY <1>1, <1>2, <1>3, <1>4, <1>5

(* The job is inserted once, while nobody has been given a report.         *)
LEMMA InsertJobInv == ASSUME Inv, NEW r \in Requests, InsertJob(r) PROVE Inv'
  <1> USE DEF Inv, TypeOK, InsertJob, Goto, Respond, jobVars, reportVars,
              Ledger!Submit, Ledger!Unsettled, Ledger!Settled
  <1>1. TypeOK'
    BY DEF Steps, HandlerPart, RowPart
  <1>2. UnsubmittedPart'
    BY DEF UnsubmittedPart
  <1>3. HandlerPart'
    BY DEF HandlerPart, RowPart, RivalPart, OwnPart, UnsubmittedPart, Early
  <1>4. RetiredPart'
    BY DEF RetiredPart
  <1>5. Promises'
    <2>1. GivenPart'
      BY DEF Promises, GivenPart, UnsubmittedPart, Early
    <2>2. HandedOutIsKept'
      BY DEF Promises, HandedOutIsKept, HandlerPart, OwnPart, UnsubmittedPart, Early
    <2>3. NoOrphans'
      BY DEF Promises, NoOrphans, UnsubmittedPart, Early
    <2>4. GoneIsTrue'
      BY DEF Promises, GoneIsTrue
    <2> QED BY <2>1, <2>2, <2>3, <2>4 DEF Promises
  <1> QED BY <1>1, <1>2, <1>3, <1>4, <1>5

(* A request whose delivery failed is given nothing.                       *)
LEMMA MarkReportFailedInv == ASSUME Inv, NEW r \in Requests, MarkReportFailed(r) PROVE Inv'
  <1> USE DEF Inv, TypeOK, MarkReportFailed, Goto, Respond, jobVars, reportVars, Finish
  <1>1. TypeOK'
    BY DEF Steps, Codes, RowStates
  <1>2. UnsubmittedPart'
    BY DEF UnsubmittedPart, Early
  <1>3. HandlerPart'
    BY DEF HandlerPart, RowPart, RivalPart, OwnPart
  <1>4. RetiredPart'
    BY DEF RetiredPart
  <1>5. Promises'
    <2>1. GivenPart'
      BY DEF Promises, GivenPart
    <2>2. HandedOutIsKept'
      BY DEF Promises, HandedOutIsKept
    <2>3. NoOrphans'
      BY DEF Promises, NoOrphans
    <2>4. GoneIsTrue'
      BY DEF Promises, GoneIsTrue
    <2> QED BY <2>1, <2>2, <2>3, <2>4 DEF Promises
  <1> QED BY <1>1, <1>2, <1>3, <1>4, <1>5

(* Only a row that the payload does not name and that is not linked is     *)
(* retired: nobody was given it.                                           *)
LEMMA RetireOwnInv == ASSUME Inv, NEW r \in Requests, RetireOwn(r) PROVE Inv'
  <1> USE DEF Inv, TypeOK, RetireOwn, Goto, Respond, jobVars, reportVars, Retire
  <1>1. TypeOK'
    BY DEF Steps, Codes, HandlerPart, RowPart
  <1>2. UnsubmittedPart'
    BY DEF UnsubmittedPart, Early
  <1>3. HandlerPart'
    BY DEF HandlerPart, RowPart, RivalPart, OwnPart
  <1>4. RetiredPart'
    BY DEF RetiredPart
  <1>5. Promises'
    <2>1. GivenPart'
      BY DEF Promises, GivenPart, HandlerPart, RivalPart
    <2>2. HandedOutIsKept'
      BY DEF Promises, GivenPart, HandedOutIsKept, HandlerPart, RivalPart, OwnPart
    <2>3. NoOrphans'
      BY DEF Promises, NoOrphans
    <2>4. GoneIsTrue'
      BY DEF Promises, GoneIsTrue, HandedOutIsKept, HandlerPart, RivalPart
    <2> QED BY <2>1, <2>2, <2>3, <2>4 DEF Promises
  <1> QED BY <1>1, <1>2, <1>3, <1>4, <1>5

(* The row that is linked is the one that the payload names, or the        *)
(* payload names none.                                                     *)
LEMMA LinkReportJobInv == ASSUME Inv, NEW r \in Requests, LinkReportJob(r) PROVE Inv'
  <1> USE DEF Inv, TypeOK, LinkReportJob, Goto, Respond, jobVars, reportVars,
              LedgerNamesOther, AlreadyLinked
  <1>1. TypeOK'
    BY DEF Steps, Codes, HandlerPart, RowPart
  <1>2. UnsubmittedPart'
    BY DEF UnsubmittedPart, Early
  <1>3. HandlerPart'
    BY DEF HandlerPart, RowPart, RivalPart, OwnPart
  <1>4. RetiredPart'
    BY DEF RetiredPart
  <1>5. Promises'
    <2>1. GivenPart'
      BY DEF Promises, GivenPart
    <2>2. HandedOutIsKept'
      BY DEF Promises, HandedOutIsKept, HandlerPart, OwnPart
    <2>3. NoOrphans'
      BY DEF Promises, NoOrphans
    <2>4. GoneIsTrue'
      BY DEF Promises, GoneIsTrue
    <2> QED BY <2>1, <2>2, <2>3, <2>4 DEF Promises
  <1> QED BY <1>1, <1>2, <1>3, <1>4, <1>5

(* The loser's own row is retired by now.                                  *)
LEMMA LookupWinnerInv == ASSUME Inv, NEW r \in Requests, LookupWinner(r) PROVE Inv'
  <1> USE DEF Inv, TypeOK, LookupWinner, Goto, Respond, jobVars, reportVars, ReportForKey
  <1>1. TypeOK'
    BY DEF Steps, Codes
  <1>2. UnsubmittedPart'
    BY DEF UnsubmittedPart, Early
  <1>3. HandlerPart'
    BY DEF HandlerPart, RowPart, RivalPart, OwnPart
  <1>4. RetiredPart'
    BY DEF RetiredPart
  <1>5. Promises'
    <2>1. GivenPart'
      BY DEF Promises, GivenPart
    <2>2. HandedOutIsKept'
      BY DEF Promises, HandedOutIsKept
    <2>3. NoOrphans'
      BY DEF Promises, NoOrphans, HandlerPart, OwnPart
    <2>4. GoneIsTrue'
      BY DEF Promises, GoneIsTrue
    <2> QED BY <2>1, <2>2, <2>3, <2>4 DEF Promises
  <1> QED BY <1>1, <1>2, <1>3, <1>4, <1>5

(* The user deletes whatever is there; what was retired is not there.      *)
LEMMA UserDeletesInv == ASSUME Inv, NEW q \in Reports, UserDeletes(q) PROVE Inv'
  <1> USE DEF Inv, TypeOK, UserDeletes, jobVars
  <1>0. deleted' \ userDeleted' = deleted \ userDeleted
    OBVIOUS
  <1>1. TypeOK'
    OBVIOUS
  <1>2. UnsubmittedPart'
    BY DEF UnsubmittedPart
  <1>3. HandlerPart'
    BY <1>0 DEF HandlerPart, RowPart, RivalPart, OwnPart
  <1>4. RetiredPart'
    BY <1>0 DEF RetiredPart
  <1>5. Promises'
    BY <1>0 DEF Promises, GivenPart, HandedOutIsKept, NoOrphans, GoneIsTrue
  <1> QED BY <1>1, <1>2, <1>3, <1>4, <1>5

LEMMA StepInv == Inv /\ [Next]_vars => Inv'
  <1> SUFFICES ASSUME Inv, [Next]_vars PROVE Inv'
    OBVIOUS
  <1>1. CASE UNCHANGED vars
    <2>1. wpc' \in [Workers -> WorkerSteps]
      BY <1>1 DEF Inv, TypeOK, vars
    <2> QED BY <1>1, <2>1, RowsStay, JobUnchanged, BackgroundStep DEF vars, jobVars, reportVars
  <1>2. ASSUME NEW r \in Requests, HandlerStep(r) PROVE Inv'
    BY <1>2, LookupInv, CreateReportInv, InsertJobInv, MarkReportFailedInv, RetireOwnInv,
       LinkReportJobInv, LookupWinnerInv, GoesOnHandlers DEF HandlerStep
  <1> QED BY <1>1, <1>2, WorkerInv, UserDeletesInv, JobFailsInv, ReapReportsInv DEF Next

LEMMA InvInvariant == Spec => []Inv
  BY InitInv, StepInv, PTL DEF Spec

-----------------------------------------------------------------------------
(* Every payload, link and deletion is of a row that exists, the order     *)
(* that diagnosis.ts:79-82 keeps for the foreign key.                      *)
THEOREM TypeCorrect == Spec => []TypeOK
  BY InvInvariant, PTL DEF Inv

(* route.ts:128-167: whoever is answered 202 is given the report that the  *)
(* workers of the job render, provided that the job's payload names one.   *)
THEOREM AnswersNameTheJobsReport == Spec => []AnswerNamesTheJobsReport
  <1>1. Inv => AnswerNamesTheJobsReport
    BY DEF Inv, Promises, GivenPart, AnswerNamesTheJobsReport, Target
  <1> QED BY <1>1, InvInvariant, PTL

(* route.ts:135-144,163-185: no two requests are given two reports, but    *)
(* for one that the user has deleted.                                      *)
THEOREM OneReportIsShared == Spec => []OneReportAtATime
  <1>1. ASSUME Inv PROVE OneReportAtATime
    <2> SUFFICES ASSUME NEW r \in Requests, NEW s \in Requests,
                        answer[r].code \in {"accepted", "deduped"},
                        answer[s].code \in {"accepted", "deduped"},
                        answer[r].report \notin userDeleted, answer[s].report \notin userDeleted
                 PROVE  answer[r].report = answer[s].report
      BY DEF OneReportAtATime
    <2>1. answer[r].report \notin deleted /\ answer[s].report \notin deleted
      BY <1>1 DEF Inv, Promises, HandedOutIsKept
    <2> QED BY <1>1, <2>1 DEF Inv, Promises, GivenPart, RetiredPart
  <1> QED BY <1>1, InvInvariant, PTL

(* route.ts:174-183: of the rows that the job will write, and of those     *)
(* that some request was given, the handlers retire none.                  *)
THEOREM NothingHandedOutIsRetired == Spec => []HandedOutIsKept
  BY InvInvariant, PTL DEF Inv, Promises

(* route.ts:119,131: no request that was answered leaves a live running    *)
(* row that no job knows of.                                               *)
THEOREM NoReportIsOrphaned == Spec => []NoOrphans
  BY InvInvariant, PTL DEF Inv, Promises

(* route.ts:149-165: only for a report that the user deleted is the answer *)
(* 409 that it is gone.                                                    *)
THEOREM GoneOnlyIfDeleted == Spec => []GoneIsTrue
  BY InvInvariant, PTL DEF Inv, Promises

=============================================================================
