------------------------------ MODULE JobLedger ------------------------------
(***************************************************************************)
(* What the worker_jobs ledger promises to everyone who reads or updates   *)
(* it (scripts/v2/workers/db.py): a job is submitted once, may be claimed  *)
(* any number of times while it is not settled, succeeds only out of       *)
(* "running", and once settled never changes again.                        *)
(***************************************************************************)
EXTENDS Naturals

CONSTANT Jobs

VARIABLES
  status,  \* the job's status
  claims   \* how often a worker was given the job

vars == <<status, claims>>

Settled   == {"succeeded", "failed", "canceled", "manual_intervention"}
Unsettled == {"queued", "running"}

Init ==
  /\ status = [j \in Jobs |-> "absent"]
  /\ claims = [j \in Jobs |-> 0]

Submit(j) ==
  /\ status[j] = "absent"
  /\ status' = [status EXCEPT ![j] = "queued"]
  /\ UNCHANGED claims

Claim(j) ==
  /\ status[j] \in Unsettled
  /\ status' = [status EXCEPT ![j] = "running"]
  /\ claims' = [claims EXCEPT ![j] = @ + 1]

Succeed(j) ==
  /\ status[j] = "running"
  /\ status' = [status EXCEPT ![j] = "succeeded"]
  /\ UNCHANGED claims

(* Failing is a set-oriented statement in the reaper: it may settle many.  *)
Fail(S) ==
  /\ \A j \in S : status[j] \in Unsettled
  /\ status' = [j \in Jobs |-> IF j \in S THEN "failed" ELSE status[j]]
  /\ UNCHANGED claims

Next ==
  \/ \E j \in Jobs : Submit(j) \/ Claim(j) \/ Succeed(j)
  \/ \E S \in SUBSET Jobs : Fail(S)

Spec == Init /\ [][Next]_vars
=============================================================================
