--------------------------- MODULE DiagnosisDigest ----------------------------
(***************************************************************************)
(* The email digest (diagnosis_digest.py, diagnosis/db.py,                 *)
(* diagnosis/notify.py).  Every quarter of an hour a run reads the pause   *)
(* flag, lists the completed reports that are not stamped, publishes them  *)
(* as one email and stamps them with the outcome: four statements that     *)
(* nothing holds together.  A run may stop after each of them, a retried   *)
(* or twice delivered event starts a second run beside the first, and the  *)
(* administrator may pause notifications at any moment.                    *)
(***************************************************************************)
EXTENDS Integers, FiniteSets

CONSTANTS
  Reports,      \* diagnosis_reports rows
  Runs,         \* runs that may overlap
  Topic,        \* whether the deployment has an SNS topic
  Migrated,     \* whether notify_outcome has been migrated at the start
  MaxDeaths,    \* runs that stop half way
  MaxToggles,   \* changes of the pause flag
  LostAnswers,  \* whether SNS may take a message and the call still fail
  NoRun         \* a run's local variables when it is not at work

ASSUME DigestAssumption ==
  /\ IsFiniteSet(Runs)
  /\ Topic \in BOOLEAN /\ Migrated \in BOOLEAN /\ LostAnswers \in BOOLEAN
  /\ MaxDeaths \in Nat /\ MaxToggles \in Nat

Delivered == {"emailed", "emailed_failopen"}
Outcomes  == Delivered \cup {"publish_failed", "dropped_paused", "skipped_no_topic"}

VARIABLES
  status,    \* diagnosis_reports.status
  stamp,     \* "pending", the notify_outcome, or "unrecorded" if only notified_at is set
  setting,   \* app_settings.diagnosis_notify_paused
  migrated,  \* the notify_outcome column exists
  local,     \* the run's step and what it has read
  emails,    \* how many messages that name the report SNS has accepted
  deaths, toggles

vars == <<status, stamp, setting, migrated, local, emails, deaths, toggles>>

(* A run: where it is, the flag as it read it or "unread", the pending     *)
(* ids, and the MessageId, or "None".                                      *)
Steps  == {"listing", "publishing", "marking"}
Flags  == {"true", "false", "unread"}
Local(at, flag, pending, messageId) ==
  [at |-> at, flag |-> flag, pending |-> pending, messageId |-> messageId]
Locals ==
  [at : Steps, flag : Flags, pending : SUBSET Reports, messageId : {"None", "id"}]

ASSUME NoRunAssumption == NoRun \notin Locals

TypeOK ==
  /\ status \in [Reports -> {"running", "succeeded", "failed"}]
  /\ stamp \in [Reports -> Outcomes \cup {"pending", "unrecorded"}]
  /\ setting \in {"true", "false"}
  /\ migrated \in BOOLEAN
  /\ local \in [Runs -> Locals \cup {NoRun}]
  /\ \A i \in Runs : local[i] # NoRun /\ local[i].at # "listing" => local[i].pending # {}
  /\ emails \in [Reports -> Nat]
  /\ deaths \in 0..MaxDeaths
  /\ toggles \in 0..MaxToggles

Init ==
  /\ status = [r \in Reports |-> "running"]
  /\ stamp = [r \in Reports |-> "pending"]
  /\ setting = "false"
  /\ migrated = Migrated
  /\ local = [i \in Runs |-> NoRun]
  /\ emails = [r \in Reports |-> 0]
  /\ deaths = 0
  /\ toggles = 0

-----------------------------------------------------------------------------
(* Around the digest: a worker finishes a report, the administrator sets   *)
(* the flag, and the migration is applied.                                 *)
FinishReport(r) ==
  /\ status[r] = "running"
  /\ \E s \in {"succeeded", "failed"} : status' = [status EXCEPT ![r] = s]
  /\ UNCHANGED <<stamp, setting, migrated, local, emails, deaths, toggles>>

TogglePause ==
  /\ toggles < MaxToggles
  /\ toggles' = toggles + 1
  /\ setting' = IF setting = "true" THEN "false" ELSE "true"
  /\ UNCHANGED <<status, stamp, migrated, local, emails, deaths>>

Migrate ==
  /\ ~migrated
  /\ migrated' = TRUE
  /\ UNCHANGED <<status, stamp, setting, local, emails, deaths, toggles>>

-----------------------------------------------------------------------------
(* lambda_handler, one statement at a time.                                *)
At(i, step) == local[i] # NoRun /\ local[i].at = step

(* A flag that cannot be read counts as not set.                           *)
ReadFlag(i) ==
  /\ local[i] = NoRun
  /\ \E flag \in {setting, "unread"} :
       local' = [local EXCEPT ![i] = Local("listing", flag, {}, "None")]
  /\ UNCHANGED <<status, stamp, setting, migrated, emails, deaths, toggles>>

(* The pending list, and one that forgets the stamp.                       *)
Completed == {r \in Reports : status[r] = "succeeded"}
Pending   == {r \in Completed : stamp[r] = "pending"}

(* Paused, or without a topic, a run goes straight to the stamps.          *)
AfterListing(l) == IF Topic /\ l.flag # "true" THEN "publishing" ELSE "marking"

Listed(l) == Local(AfterListing(l), l.flag, Pending, "None")

(* Nothing pending is the end of the run.                                  *)
ListAll(i) ==
  /\ At(i, "listing")
  /\ local' = [local EXCEPT ![i] = Listed(local[i])]
  /\ UNCHANGED <<status, stamp, setting, migrated, emails, deaths, toggles>>

ListPending(i) ==
  /\ At(i, "listing")
  /\ local' = [local EXCEPT ![i] = IF Pending = {} THEN NoRun ELSE Listed(local[i])]
  /\ UNCHANGED <<status, stamp, setting, migrated, emails, deaths, toggles>>

(* The call answers a MessageId, or None after an error.                   *)
Publish(i) ==
  /\ At(i, "publishing")
  /\ \E accepted, answered \in BOOLEAN :
       /\ answered => accepted
       /\ ~LostAnswers => (accepted => answered)
       /\ emails' = [r \in Reports |-> emails[r] + IF accepted /\ r \in local[i].pending THEN 1 ELSE 0]
       /\ local' = [local EXCEPT ![i] = Local("marking", local[i].flag, local[i].pending,
                                             IF answered THEN "id" ELSE "None")]
  /\ UNCHANGED <<status, stamp, setting, migrated, deaths, toggles>>

(* The outcome of a run, and one that takes the call for a delivery.       *)
HopefulOutcome(l) ==
  IF ~Topic THEN "skipped_no_topic" ELSE IF l.flag = "true" THEN "dropped_paused" ELSE "emailed"

Outcome(l) ==
  IF ~Topic THEN "skipped_no_topic"
  ELSE IF l.flag = "true" THEN "dropped_paused"
  ELSE IF l.messageId = "None" THEN "publish_failed"
  ELSE IF l.flag = "unread" THEN "emailed_failopen" ELSE "emailed"

(* WHERE id = ANY(:ids), and nothing else.  Without the column, the second *)
(* statement sets notified_at alone.                                       *)
(* The first two operators omit that statement, and keep a report whose    *)
(* publication failed for another attempt.                                 *)
OnlyMigrated(l) == IF migrated THEN Outcome(l) ELSE "pending"
OnlySent(l)     == IF Outcome(l) = "publish_failed" THEN "pending" ELSE Outcome(l)
Stamped(l)      == IF migrated THEN Outcome(l) ELSE "unrecorded"

MarkNotified(i) ==
  /\ At(i, "marking")
  /\ stamp' = [r \in Reports |-> IF r \in local[i].pending THEN Stamped(local[i]) ELSE stamp[r]]
  /\ local' = [local EXCEPT ![i] = NoRun]
  /\ UNCHANGED <<status, setting, migrated, emails, deaths, toggles>>

(* The function is stopped, or one of its statements raises.               *)
Die(i) ==
  /\ local[i] # NoRun
  /\ deaths < MaxDeaths
  /\ deaths' = deaths + 1
  /\ local' = [local EXCEPT ![i] = NoRun]
  /\ UNCHANGED <<status, stamp, setting, migrated, emails, toggles>>

Run(i) == ReadFlag(i) \/ ListPending(i) \/ Publish(i) \/ MarkNotified(i)

Next ==
  \/ \E r \in Reports : FinishReport(r)
  \/ TogglePause \/ Migrate
  \/ \E i \in Runs : Run(i) \/ Die(i)

(* The event rule keeps starting runs, and a run that is not stopped goes  *)
(* on.                                                                     *)
Spec == Init /\ [][Next]_vars /\ \A i \in Runs : WF_vars(Run(i))

-----------------------------------------------------------------------------
(* diagnosis_digest.py:94-96, 'emailed' requires a real MessageId: what is *)
(* recorded as delivered has been, whichever runs overlapped or died.      *)
EmailedIsTrue == \A r \in Reports : stamp[r] \in Delivered => emails[r] > 0

(* db.py:102-104: a report is not emailed again every quarter of an hour.  *)
(* Only a run that overlaps and a run that died can account for a second   *)
(* email, each for one.                                                    *)
RepeatsAreExplained == \A r \in Reports : emails[r] <= Cardinality(Runs) + deaths

(* Once a report is stamped and no run that listed it is under way, it     *)
(* stays stamped, is never listed and never emailed again: no stale email  *)
(* when the pause ends (diagnosis_digest.py:51-52) or the topic is back.   *)
Done(r) == stamp[r] # "pending" /\ \A i \in Runs : local[i] # NoRun => r \notin local[i].pending

StampedIsDone ==
  [][\A r \in Reports : Done(r) => Done(r)' /\ emails'[r] = emails[r]]_vars

(* Every completed report is stamped in the end, paused or not, emailed or *)
(* not: the backlog drains.                                                *)
BacklogDrains == \A r \in Reports : status[r] = "succeeded" ~> stamp[r] # "pending"
=============================================================================
