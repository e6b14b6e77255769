--------------------------- MODULE DiagnosisSubmit ---------------------------
(***************************************************************************)
(* POST /api/diagnosis: who owns a report (web/app/api/diagnosis/route.ts, *)
(* web/lib/diagnosis.ts, web/lib/jobs.ts).  Concurrent requests carry the  *)
(* same idempotency key (same user, options and hour).  Each creates a     *)
(* report row of its own and then learns from the worker_jobs ledger whose *)
(* row the single job will render; the losers retire theirs.  The worker   *)
(* obeys the job's payload, never the link from the report to the job.     *)
(*                                                                         *)
(* The job is known here only as JobLedger promises it.  A report row is   *)
(* known by its creator: a request, or a worker whose payload names none.  *)
(* Time is abstracted: a running report may turn stale at any moment.      *)
(***************************************************************************)
EXTENDS Naturals

CONSTANTS
  Requests,   \* the concurrent requests
  Workers,    \* the invocations of the job's worker
  Job,        \* the job of the idempotency key
  NoReport    \* a payload, or an answer, that names no report

Reports == Requests \cup Workers

ASSUME SubmitAssumption ==
  /\ Requests \cap Workers = {}
  /\ NoReport \notin Reports

VARIABLES
  (* diagnosis_reports *)
  row,          \* the status of each row; "absent" before its INSERT
  deleted,      \* rows whose deleted_at is set
  linked,       \* rows whose worker_job_id is the job
  userDeleted,  \* history: rows deleted through DELETE /api/diagnosis/[id]
  (* worker_jobs and SQS *)
  status,       \* JobLedger's
  claims,       \* JobLedger's
  named,        \* the report_id of the job's payload
  sent,         \* has a message of the job been delivered?
  (* request handlers and workers *)
  pc,           \* the next statement of each handler
  answer,       \* its response: a code and the report it names
  wpc           \* the next statement of each worker invocation

Ledger == INSTANCE JobLedger WITH Jobs <- {Job}

jobVars    == <<status, claims, named, sent>>
reportVars == <<row, deleted, linked, userDeleted>>
vars       == <<jobVars, reportVars, pc, answer, wpc>>

RowStates == {"absent", "running", "succeeded", "partial", "failed"}
Codes == {"none", "accepted", "deduped", "gone", "taken", "undelivered"}
Steps == {"arrived", "fresh", "created", "ledgered", "enqueued", "undelivered",
          "duplicate", "pointless", "beaten", "outranked", "done", "died"}
WorkerSteps == {"idle", "claimed", "rendering", "rendered", "raised", "failing", "ended"}

(* Typing, with what the statements' order must give: the payload, a link  *)
(* and a deletion are of rows that exist (the foreign key's ordering,      *)
(* diagnosis.ts:79-82).                                                    *)
TypeOK ==
  /\ row \in [Reports -> RowStates]
  /\ deleted \subseteq Reports /\ linked \subseteq Reports /\ userDeleted \subseteq deleted
  /\ status \in [{Job} -> {"absent"} \cup Ledger!Unsettled \cup Ledger!Settled]
  /\ claims \in [{Job} -> Nat]
  /\ named \in Reports \cup {NoReport}
  /\ sent \in BOOLEAN
  /\ pc \in [Requests -> Steps]
  /\ answer \in [Requests -> [code : Codes, report : Reports \cup {NoReport}]]
  /\ wpc \in [Workers -> WorkerSteps]
  /\ \A q \in deleted \cup linked \cup ({named} \ {NoReport}) : row[q] # "absent"

(* The key is new, or an earlier deployment has left a job under it whose  *)
(* payload names no report (route.ts:131-144, handlers.py:84-86).          *)
Init ==
  /\ row = [q \in Reports |-> "absent"]
  /\ deleted = {} /\ linked = {} /\ userDeleted = {}
  /\ status \in {[j \in {Job} |-> s] : s \in {"absent", "queued"}}
  /\ claims = [j \in {Job} |-> 0]
  /\ named = NoReport
  /\ sent = (status[Job] = "queued")
  /\ pc = [r \in Requests |-> "arrived"]
  /\ answer = [r \in Requests |-> [code |-> "none", report |-> NoReport]]
  /\ wpc = [w \in Workers |-> "idle"]

-----------------------------------------------------------------------------
(* UPDATE diagnosis_reports SET status = s WHERE id = q AND status =       *)
(* 'running': markReportFailed, finish_report.                             *)
Finish(q, s) ==
  row' = [row EXCEPT ![q] = IF @ = "running" THEN s ELSE @]

(* softDeleteReport of the handler's own row, and the same forgotten.      *)
KeepOwn(r) == UNCHANGED reportVars
Retire(r)  == deleted' = deleted \cup {r} /\ UNCHANGED <<row, linked, userDeleted>>

Goto(r, step) == pc' = [pc EXCEPT ![r] = step]

Respond(r, code, q) ==
  /\ Goto(r, "done")
  /\ answer' = [answer EXCEPT ![r] = [code |-> code, report |-> q]]

(* reportForIdempotencyKey: the live report the payload names; the link    *)
(* only if the payload names none.                                         *)
ReportForKey ==
  IF named # NoReport THEN {named} \ deleted ELSE linked \ deleted

(* The two ways route.ts:141-150 could get its comparison wrong, and it:   *)
(* the ledger's payload names a report other than the handler's own.       *)
NeverOther(r)    == FALSE
AnyLedgerReport(r) == named # NoReport
LedgerNamesOther(r) == named \notin {NoReport, r}

(* getReport(ledgerReportId), which filters deleted rows and nothing else. *)
StillRunning(q) == q \notin deleted /\ row[q] = "running"
LiveReport(q)   == q \notin deleted

(* The link without the partial unique index, and with it: one live report *)
(* per job.                                                                *)
NeverLinked(r)   == FALSE
AlreadyLinked(r) == r \notin deleted /\ (linked \ deleted) \ {r} # {}

-----------------------------------------------------------------------------
(* The second lookup, under the key format of an earlier release, is of    *)
(* another key's job and ends the request when it finds a report.          *)
Lookup(r) ==
  /\ pc[r] = "arrived"
  /\ \/ \E q \in ReportForKey : Respond(r, "deduped", q)
     \/ ReportForKey = {} /\ Goto(r, "fresh") /\ UNCHANGED answer
  /\ UNCHANGED <<jobVars, reportVars, wpc>>

(* createReport forgotten until after the enqueue, and createReport.       *)
CreateNothing(r) ==
  /\ pc[r] = "fresh"
  /\ Goto(r, "created")
  /\ UNCHANGED <<jobVars, reportVars, answer, wpc>>

CreateReport(r) ==
  /\ pc[r] = "fresh"
  /\ row' = [row EXCEPT ![r] = "running"]
  /\ Goto(r, "created")
  /\ UNCHANGED <<jobVars, deleted, linked, userDeleted, answer, wpc>>

(* enqueueJob, ledger: the INSERT, or findOwnJob after ON CONFLICT.        *)
InsertJob(r) ==
  /\ pc[r] = "created"
  /\ Ledger!Submit(Job)
  /\ named' = r
  /\ Goto(r, "ledgered")
  /\ UNCHANGED <<sent, reportVars, answer, wpc>>

FindOwnJob(r) ==
  /\ pc[r] = "created"
  /\ status[Job] # "absent"
  /\ Goto(r, "ledgered")
  /\ UNCHANGED <<jobVars, reportVars, answer, wpc>>

(* enqueueJob throws before it has written the ledger.                     *)
EnqueueFails(r) ==
  /\ pc[r] = "created"
  /\ Goto(r, "undelivered")
  /\ UNCHANGED <<jobVars, reportVars, answer, wpc>>

(* enqueueJob, SendMessage: delivered, or EnqueueDeliveryError, which also *)
(* a delivery whose answer is lost ends in.                                *)
SendMessage(r) ==
  /\ pc[r] = "ledgered"
  /\ \/ sent' = TRUE /\ Goto(r, "enqueued")
     \/ sent' \in {sent, TRUE} /\ Goto(r, "undelivered")
  /\ UNCHANGED <<status, claims, named, reportVars, answer, wpc>>

(* The route's catch: markReportFailed, then 500.                          *)
MarkReportFailed(r) ==
  /\ pc[r] = "undelivered"
  /\ Finish(r, "failed")
  /\ Respond(r, "undelivered", NoReport)
  /\ UNCHANGED <<jobVars, deleted, linked, userDeleted, wpc>>

(* The ledger's payload names another report: is it still there?           *)
GetLedgerReport(r) ==
  /\ pc[r] = "enqueued"
  /\ LedgerNamesOther(r)
  /\ Goto(r, IF LiveReport(named) THEN "duplicate" ELSE "pointless")
  /\ UNCHANGED <<jobVars, reportVars, answer, wpc>>

RetireOwn(r) ==
  /\ \/ pc[r] = "duplicate" /\ Respond(r, "deduped", named)
     \/ pc[r] = "pointless" /\ Respond(r, "gone", named)
     \/ pc[r] = "beaten" /\ Goto(r, "outranked") /\ UNCHANGED answer
  /\ Retire(r)
  /\ UNCHANGED <<jobVars, wpc>>

(* linkReportJob: the UPDATE, or the unique violation.  A violation over a *)
(* row that the payload names costs only the link.                         *)
LinkReportJob(r) ==
  /\ pc[r] = "enqueued"
  /\ ~LedgerNamesOther(r)
  /\ IF AlreadyLinked(r)
       THEN /\ UNCHANGED linked
            /\ IF named = r THEN Respond(r, "accepted", r)
                            ELSE Goto(r, "beaten") /\ UNCHANGED answer
       ELSE linked' = linked \cup {r} /\ Respond(r, "accepted", r)
  /\ UNCHANGED <<jobVars, row, deleted, userDeleted, wpc>>

LookupWinner(r) ==
  /\ pc[r] = "outranked"
  /\ \/ \E q \in ReportForKey : Respond(r, "deduped", q)
     \/ ReportForKey = {} /\ Respond(r, "taken", NoReport)
  /\ UNCHANGED <<jobVars, reportVars, wpc>>

(* The web task dies, or a query throws outside the route's catch.         *)
HandlerDies(r) ==
  /\ pc[r] \notin {"done", "died"}
  /\ Goto(r, "died")
  /\ UNCHANGED <<jobVars, reportVars, answer, wpc>>

-----------------------------------------------------------------------------
(* DELETE /api/diagnosis/[id].                                             *)
UserDeletes(q) ==
  /\ row[q] # "absent"
  /\ q \notin deleted
  /\ deleted' = deleted \cup {q}
  /\ userDeleted' = userDeleted \cup {q}
  /\ UNCHANGED <<jobVars, row, linked, pc, answer, wpc>>

(* The backbone fails the job: a stale row, or the catch of its execution. *)
JobFails ==
  /\ Ledger!Fail({Job})
  /\ UNCHANGED <<named, sent, reportVars, pc, answer, wpc>>

(* The reaper fails the running reports of a failed job, and stale ones.   *)
ReapReports ==
  /\ \E Stale \in SUBSET Reports :
       row' = [q \in Reports |->
         IF row[q] = "running" /\ (q \in Stale \/ (q \in linked /\ status[Job] = "failed"))
           THEN "failed" ELSE row[q]]
  /\ UNCHANGED <<jobVars, deleted, linked, userDeleted, pc, answer, wpc>>

-----------------------------------------------------------------------------
(* The report worker: handlers._report inside fargate_worker.main.         *)
Step(w, step) == wpc' = [wpc EXCEPT ![w] = step]
Target(w) == IF named = NoReport THEN w ELSE named

ClaimJob(w) ==
  /\ wpc[w] = "idle"
  /\ sent
  /\ Ledger!Claim(Job)
  /\ Step(w, "claimed")
  /\ UNCHANGED <<named, sent, reportVars, pc, answer>>

(* A payload without a report_id: the worker creates the row, unlinked.    *)
EnsureReport(w) ==
  /\ wpc[w] = "claimed"
  /\ row' = [row EXCEPT ![Target(w)] = IF @ = "absent" THEN "running" ELSE @]
  /\ Step(w, "rendering")
  /\ UNCHANGED <<jobVars, deleted, linked, userDeleted, pc, answer>>

FinishReport(w) ==
  /\ wpc[w] = "rendering"
  /\ \/ \E s \in {"succeeded", "partial"} : Finish(Target(w), s) /\ Step(w, "rendered")
     \/ Finish(Target(w), "failed") /\ Step(w, "raised")
  /\ UNCHANGED <<jobVars, deleted, linked, userDeleted, pc, answer>>

(* finish_job; if its answer is lost, the worker takes it for an error.    *)
FinishJobSucceeded(w) ==
  /\ wpc[w] = "rendered"
  /\ IF status[Job] = "running" THEN Ledger!Succeed(Job) ELSE UNCHANGED <<status, claims>>
  /\ \E step \in {"ended", "raised"} : Step(w, step)
  /\ UNCHANGED <<named, sent, reportVars, pc, answer>>

FinishJobFailed(w) ==
  /\ wpc[w] = "raised"
  /\ IF status[Job] \in Ledger!Unsettled THEN Ledger!Fail({Job}) ELSE UNCHANGED <<status, claims>>
  /\ Step(w, "failing")
  /\ UNCHANGED <<named, sent, reportVars, pc, answer>>

(* _fail_report of the payload's report_id, best effort.                   *)
FailReport(w) ==
  /\ wpc[w] = "failing"
  /\ IF named = NoReport THEN UNCHANGED row ELSE Finish(named, "failed")
  /\ Step(w, "ended")
  /\ UNCHANGED <<jobVars, deleted, linked, userDeleted, pc, answer>>

(* The worker raises outside _report's own handler, or is killed.          *)
WorkerRaises(w) ==
  /\ wpc[w] \in {"claimed", "rendered"}
  /\ Step(w, "raised")
  /\ UNCHANGED <<jobVars, reportVars, pc, answer>>

WorkerDies(w) ==
  /\ wpc[w] \notin {"idle", "ended"}
  /\ Step(w, "ended")
  /\ UNCHANGED <<jobVars, reportVars, pc, answer>>

-----------------------------------------------------------------------------
HandlerStep(r) ==
  \/ Lookup(r) \/ CreateReport(r) \/ InsertJob(r) \/ FindOwnJob(r) \/ EnqueueFails(r)
  \/ SendMessage(r) \/ MarkReportFailed(r) \/ GetLedgerReport(r) \/ RetireOwn(r)
  \/ LinkReportJob(r) \/ LookupWinner(r) \/ HandlerDies(r)

WorkerStep(w) ==
  \/ ClaimJob(w) \/ EnsureReport(w) \/ FinishReport(w) \/ FinishJobSucceeded(w)
  \/ FinishJobFailed(w) \/ FailReport(w) \/ WorkerRaises(w) \/ WorkerDies(w)

Next ==
  \/ \E r \in Requests : HandlerStep(r)
  \/ \E w \in Workers : WorkerStep(w)
  \/ \E q \in Reports : UserDeletes(q)
  \/ JobFails
  \/ ReapReports

Spec == Init /\ [][Next]_vars
-----------------------------------------------------------------------------
(* route.ts:128-167: if the payload of the job names a report, a request   *)
(* that is answered 202 is given the one that every worker of the job      *)
(* renders.  (A job of an earlier deployment, whose payload names none, is *)
(* excluded: its worker renders a row of its own, handlers.py:84-86, which *)
(* no answer names.)                                                       *)
AnswerNamesTheJobsReport ==
  named # NoReport =>
    \A r \in Requests : answer[r].code \in {"accepted", "deduped"} =>
      \A w \in Workers : answer[r].report = Target(w)

(* route.ts:135-144,163-185: whatever the payload names, two requests are  *)
(* never given two reports, unless the user has deleted one of them: the   *)
(* key is one report, shared, and no two reports share one job.            *)
OneReportAtATime ==
  \A r, s \in Requests :
    /\ answer[r].code \in {"accepted", "deduped"}
    /\ answer[s].code \in {"accepted", "deduped"}
    /\ {answer[r].report, answer[s].report} \cap userDeleted = {}
    => answer[r].report = answer[s].report

(* route.ts:174-183: the handlers retire no row that the job will write,   *)
(* and none that some request was given: only the user deletes those.      *)
HandedOutIsKept ==
  \A q \in deleted \ userDeleted :
    /\ q # named
    /\ \A r \in Requests : answer[r].code \in {"accepted", "deduped"} => answer[r].report # q

(* route.ts:119,131: a request that was answered leaves no live running    *)
(* row behind that no job knows of.                                        *)
NoOrphans ==
  \A r \in Requests :
    pc[r] = "done" /\ row[r] = "running" => r \in deleted \cup linked \cup {named}

(* route.ts:149-165: the 409 that says the window's report was deleted is  *)
(* given only when the user has deleted it.                                *)
GoneIsTrue ==
  \A r \in Requests : answer[r].code = "gone" => answer[r].report \in userDeleted

=============================================================================
