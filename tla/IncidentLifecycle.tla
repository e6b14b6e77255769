------------------------- MODULE IncidentLifecycle -------------------------
(***************************************************************************)
(* The analysis-only incident lifecycle: alerts enter through the web tier *)
(* (web/lib/incident.ts) or as a message that carries the alert itself,    *)
(* the dispatcher starts one execution per job, and the stages of          *)
(* incident.asl.json run as Lambdas (scripts/v2/incident) whose statements *)
(* commit one by one.  The machine may give an invocation up between any   *)
(* two of them, and then invokes the stage again or takes the failure      *)
(* path; the invocation that was given up on ends there or goes on, beside *)
(* its successor.                                                          *)
(*                                                                         *)
(* A correlation key stands for its incident: the column is UNIQUE.        *)
(***************************************************************************)
EXTENDS Naturals, FiniteSets

CONSTANTS
  Keys,       \* the correlation keys of the alerts
  Blank,      \* the key of a payload without an alert
  Jobs,       \* the incident_stage jobs, each an execution
  Agents,     \* the roster of an investigation
  None,
  MaxTries,   \* bound: the retries of one Task, or of a Map's items together
  MaxLate     \* bound: the invocations given up on that are at work at once

ASSUME IncidentAssumption ==
  /\ Blank \notin Keys
  /\ None \notin Keys \cup {Blank}
  /\ MaxTries \in Nat /\ MaxLate \in Nat

AllKeys == Keys \cup {Blank}

VARIABLES
  admitsInfo,    \* min-severity is 'info': an alert without one passes
  orchestrator,  \* RCA_ORCHESTRATOR_ENABLED
  incident,      \* the status of incidents
  stage,         \* the 'triage' row of incident_stages
  rcaStage,      \* the 'root_cause' rows
  found,         \* incident_findings: how many, by sub-agent
  overlapped,    \* history: sub-agents two of whose invocations consulted at once
  accepted,      \* incidents the web tier has opened and not yet enqueued
  message,       \* per job: what its message carries
  exec,          \* per job: its execution
  late,          \* invocations at work that their execution does not await
  rolling        \* incidents the watchdog has yet to roll

vars == <<admitsInfo, orchestrator, incident, stage, rcaStage, found, overlapped,
          accepted, message, exec, late, rolling>>
config == <<admitsInfo, orchestrator>>
findings == <<found, overlapped>>

Statuses == {"none", "triaged", "investigating", "root_cause",
             "mitigation_planned", "prevention", "stalled"}

AtTriage == {"triage", "openStage", "closeStage", "investigate"}
AtWork == AtTriage \cup {"lead", "rootCause", "writeRca", "plan", "prevention"}

\* An invocation is known by its execution, its sub-agent if it is one's, the
\* statement it is at and the number of its attempt.
Invocations ==
  [job : Jobs, who : Agents \cup {None}, try : 0..MaxTries,
   at : AtWork \cup {"todo", "asking", "failStage", "stall"}]

TypeOK ==
  /\ admitsInfo \in BOOLEAN /\ orchestrator \in BOOLEAN
  /\ incident \in [AllKeys -> Statuses]
  /\ stage \in [AllKeys -> {"none", "running", "succeeded", "failed", "stalled"}]
  /\ rcaStage \subseteq AllKeys
  /\ found \in [AllKeys -> [Agents -> Nat]]
  /\ overlapped \subseteq AllKeys \X Agents
  /\ accepted \subseteq Keys
  /\ message \in [Jobs -> [from : {"none", "web", "direct"},
                           key : Keys \cup {None}, named : BOOLEAN]]
  /\ exec \in [Jobs ->
       [pc : AtWork \cup {"idle", "consult", "failStage", "stall", "done", "failed"},
        key : AllKeys \cup {None}, told : BOOLEAN, tries : 0..MaxTries,
        sub : [Agents -> {"todo", "asking", "ended"}]]]
  /\ late \subseteq Invocations
  /\ rolling \subseteq AllKeys

NotStarted == [pc |-> "idle", key |-> None, told |-> FALSE, tries |-> 0,
               sub |-> [a \in Agents |-> "todo"]]

Init ==
  /\ admitsInfo \in BOOLEAN /\ orchestrator \in BOOLEAN
  /\ incident = [k \in AllKeys |-> "none"]
  /\ stage = [k \in AllKeys |-> "none"]
  /\ rcaStage = {}
  /\ found = [k \in AllKeys |-> [a \in Agents |-> 0]]
  /\ overlapped = {}
  /\ accepted = {}
  /\ message = [j \in Jobs |-> [from |-> "none", key |-> None, named |-> FALSE]]
  /\ exec = [j \in Jobs |-> NotStarted]
  /\ late = {}
  /\ rolling = {}

----------------------------------------------------------------------------
(* Ingress *)

\* triageAndCreateOrLink: the first alert of a condition opens its incident;
\* what a later one links leaves the incident as it is.
Accept(k) ==
  /\ incident[k] = "none"
  /\ incident' = [incident EXCEPT ![k] = "triaged"]
  /\ accepted' = accepted \cup {k}
  /\ UNCHANGED <<config, stage, rcaStage, findings, message, exec, late, rolling>>

\* enqueueInitialStage: the message names the incident and no alert.  The
\* request may also end before it is sent.
Enqueue(k, j) ==
  /\ k \in accepted /\ message[j].from = "none"
  /\ accepted' = accepted \ {k}
  /\ \/ message' = [message EXCEPT ![j] = [from |-> "web", key |-> k, named |-> FALSE]]
     \/ UNCHANGED message
  /\ UNCHANGED <<config, incident, stage, rcaStage, findings, exec, late, rolling>>

\* A message with the alert in it, and perhaps the id its incident is to have.
EnqueueDirect(k, j) ==
  /\ message[j].from = "none"
  /\ \E named \in BOOLEAN :
       message' = [message EXCEPT ![j] = [from |-> "direct", key |-> k, named |-> named]]
  /\ UNCHANGED <<config, incident, stage, rcaStage, findings, accepted, exec, late, rolling>>

Goes(j, pc) == exec' = [exec EXCEPT ![j].pc = pc, ![j].tries = 0]

\* The dispatcher: the execution is named for the job, a second start is none.
Start(j) ==
  /\ message[j].from # "none" /\ exec[j].pc = "idle"
  /\ exec' = [exec EXCEPT ![j].pc = "triage", ![j].told = message[j].named]
  /\ UNCHANGED <<config, incident, stage, rcaStage, findings, accepted, message, late, rolling>>

----------------------------------------------------------------------------
(* Triage *)

\* The dispatcher passes on the payload of the message: from the web it holds
\* no alert, and neither a severity nor anything to correlate by.
HasAlert(j) == message[j].from = "direct"
Correlates(j) == IF HasAlert(j) THEN message[j].key ELSE Blank

Skip(j) ==
  /\ exec[j].pc = "triage"
  /\ ~HasAlert(j) /\ ~admitsInfo
  /\ Goes(j, "done")
  /\ UNCHANGED <<config, incident, stage, rcaStage, findings, accepted, message, late, rolling>>

\* Mutant: the conflict is taken for a success.
Wins(k) == TRUE

\* _dedup_insert: ON CONFLICT (correlation_key) DO NOTHING.
Won(k) == incident[k] = "none"

Triage(j) ==
  LET k == Correlates(j) IN
  /\ exec[j].pc = "triage"
  /\ HasAlert(j) \/ admitsInfo
  /\ IF Won(k)
       THEN /\ incident' = [incident EXCEPT ![k] = "triaged"]
            /\ exec' = [exec EXCEPT ![j].pc = "openStage", ![j].key = k]
       ELSE /\ exec' = [exec EXCEPT ![j].pc = "done"]
            /\ UNCHANGED incident
  /\ UNCHANGED <<config, stage, rcaStage, findings, accepted, message, late, rolling>>

\* _create_stage: INSERT ... ON CONFLICT DO NOTHING.
Opens(k) == stage' = [stage EXCEPT ![k] = IF @ = "none" THEN "running" ELSE @]

OpenStage(j) ==
  /\ exec[j].pc = "openStage"
  /\ Opens(exec[j].key)
  /\ exec' = [exec EXCEPT ![j].pc = "closeStage"]
  /\ UNCHANGED <<config, incident, rcaStage, findings, accepted, message, late, rolling>>

\* transition_stage, and the same condition in the watchdog and in StageFailed.
Transition(old, new) == IF old = "running" THEN new ELSE old

Closes(k, outcome) == stage' = [stage EXCEPT ![k] = Transition(@, outcome)]

CloseStage(j) ==
  /\ exec[j].pc = "closeStage"
  /\ Closes(exec[j].key, "succeeded")
  /\ exec' = [exec EXCEPT ![j].pc = "investigate"]
  /\ UNCHANGED <<config, incident, rcaStage, findings, accepted, message, late, rolling>>

Investigates(k) ==
  incident' = [incident EXCEPT ![k] =
    IF @ \in {"triaged", "investigating"} THEN "investigating" ELSE @]

Investigate(j) ==
  /\ exec[j].pc = "investigate"
  /\ Investigates(exec[j].key)
  /\ exec' = [exec EXCEPT ![j].pc = "lead", ![j].told = TRUE, ![j].tries = 0]
  /\ UNCHANGED <<config, stage, rcaStage, findings, accepted, message, late, rolling>>

----------------------------------------------------------------------------
(* Investigation *)

Lead(j) ==
  /\ exec[j].pc = "lead"
  /\ exec' = [exec EXCEPT ![j].pc = "consult", ![j].tries = 0,
                          ![j].sub = [a \in Agents |-> "todo"]]
  /\ UNCHANGED <<config, incident, stage, rcaStage, findings, accepted, message, late, rolling>>

\* Mutant: the sub-agent does not look for its finding first.
NeverRecorded(k, a) == FALSE

Recorded(k, a) == found[k][a] > 0

\* Is an invocation of the sub-agent past its look and not yet at its INSERT?
Asking(k, a) ==
  \/ \E j \in Jobs :
       exec[j].pc = "consult" /\ exec[j].key = k /\ exec[j].sub[a] = "asking"
  \/ \E i \in late : i.at = "asking" /\ i.who = a /\ exec[i.job].key = k

\* Nothing is recorded: the agent is asked, for minutes.
Consults(k, a) ==
  /\ ~Recorded(k, a)
  /\ overlapped' = overlapped \cup {p \in {<<k, a>>} : Asking(k, a)}
  /\ UNCHANGED found

\* The INSERT, which no constraint of incident_findings refuses.
Records(k, a) == found' = [found EXCEPT ![k][a] = @ + 1] /\ UNCHANGED overlapped

\* A sub-agent looks for its finding, consults and inserts: two statements with
\* nothing that holds them together.
SubAgent(j, a) ==
  LET k == exec[j].key
      To(s) == exec' = [exec EXCEPT ![j].sub[a] = s]
  IN
  /\ exec[j].pc = "consult"
  /\ \/ exec[j].sub[a] = "todo" /\ Recorded(k, a) /\ To("ended") /\ UNCHANGED findings
     \/ exec[j].sub[a] = "todo" /\ Consults(k, a) /\ To("asking")
     \/ exec[j].sub[a] = "asking" /\ Records(k, a) /\ To("ended")
  /\ UNCHANGED <<config, incident, stage, rcaStage, accepted, message, late, rolling>>

EndConsult(j) ==
  /\ exec[j].pc = "consult" /\ \A a \in Agents : exec[j].sub[a] = "ended"
  /\ Goes(j, "rootCause")
  /\ UNCHANGED <<config, incident, stage, rcaStage, findings, accepted, message, late, rolling>>

\* Mutant: a stalled incident moves on with the stage that was late.
AdvancesAll(k, status) == incident' = [incident EXCEPT ![k] = status]

\* UPDATE incidents ... WHERE status NOT IN ('resolved','stalled','skipped')
Advances(k, status) ==
  incident' = [incident EXCEPT ![k] = IF @ = "stalled" THEN @ ELSE status]

\* One statement without the orchestrator.  With it, the stage row comes first,
\* and an invocation that finds the row answers with what is stored.
RootCause(j) ==
  LET k == exec[j].key IN
  /\ exec[j].pc = "rootCause"
  /\ \/ /\ ~orchestrator
        /\ Advances(k, "root_cause")
        /\ Goes(j, "plan")
        /\ UNCHANGED rcaStage
     \/ /\ orchestrator /\ k \in rcaStage
        /\ Goes(j, "plan")
        /\ UNCHANGED <<incident, rcaStage>>
     \/ /\ orchestrator /\ k \notin rcaStage
        /\ rcaStage' = rcaStage \cup {k}
        /\ exec' = [exec EXCEPT ![j].pc = "writeRca"]
        /\ UNCHANGED incident
  /\ UNCHANGED <<config, stage, findings, accepted, message, late, rolling>>

WriteRca(j) ==
  /\ exec[j].pc = "writeRca"
  /\ Advances(exec[j].key, "root_cause")
  /\ Goes(j, "plan")
  /\ UNCHANGED <<config, stage, rcaStage, findings, accepted, message, late, rolling>>

Reaches(j, status, pc) ==
  /\ Advances(exec[j].key, status)
  /\ Goes(j, pc)
  /\ UNCHANGED <<config, stage, rcaStage, findings, accepted, message, late, rolling>>

MitigationPlan(j) == exec[j].pc = "plan" /\ Reaches(j, "mitigation_planned", "prevention")

Prevention(j) == exec[j].pc = "prevention" /\ Reaches(j, "prevention", "done")

----------------------------------------------------------------------------
(* Failure *)

AtFailure == {"failStage", "stall"}

\* Where a handler begins.
First(pc) == CASE pc \in AtTriage -> "triage"
               [] pc = "writeRca" -> "rootCause"
               [] pc = "stall" -> "failStage"
               [] OTHER -> pc

\* The invocations that an execution awaits.
Invocation(j, who, at) == [job |-> j, who |-> who, try |-> exec[j].tries, at |-> at]

Awaited(j) ==
  IF exec[j].pc = "consult"
    THEN {Invocation(j, a, exec[j].sub[a]) : a \in {b \in Agents : exec[j].sub[b] # "ended"}}
    ELSE {Invocation(j, None, exec[j].pc)}

\* The answer of an invocation is an error, or is lost: nothing stops the
\* invocation, which may be dead (LateEnds) or at work.
GivesUp(invocations) ==
  /\ late' = late \cup invocations
  /\ Cardinality(late') <= MaxLate

\* Retry, and Catch; StageFailed has no Catch.
Fault(j) ==
  /\ GivesUp(Awaited(j))
  /\ \/ /\ exec[j].pc \in AtWork \cup AtFailure /\ exec[j].tries < MaxTries
        /\ exec' = [exec EXCEPT ![j].pc = First(@), ![j].tries = @ + 1]
     \/ exec[j].pc \in AtWork \cup {"consult"} /\ Goes(j, "failStage")
     \/ exec[j].pc \in AtFailure /\ Goes(j, "failed")
  /\ UNCHANGED <<config, incident, stage, rcaStage, findings, accepted, message, rolling>>

\* The same of one item of the Map, whose Catch ends the item only.
SubAgentFault(j, a) ==
  /\ exec[j].pc = "consult" /\ exec[j].sub[a] # "ended"
  /\ GivesUp({Invocation(j, a, exec[j].sub[a])})
  /\ \/ /\ exec[j].tries < MaxTries
        /\ exec' = [exec EXCEPT ![j].sub[a] = "todo", ![j].tries = @ + 1]
     \/ exec' = [exec EXCEPT ![j].sub[a] = "ended"]
  /\ UNCHANGED <<config, incident, stage, rcaStage, findings, accepted, message, rolling>>

\* incident_stage_failed, if it is told an incident: two statements, which find
\* nothing as long as Triage has not inserted it.
Fails(k) == IF k = None THEN UNCHANGED stage ELSE Closes(k, "failed")

FailStage(j) ==
  /\ exec[j].pc = "failStage"
  /\ \/ exec[j].told /\ Fails(exec[j].key) /\ exec' = [exec EXCEPT ![j].pc = "stall"]
     \/ ~exec[j].told /\ Goes(j, "failed") /\ UNCHANGED stage
  /\ UNCHANGED <<config, incident, rcaStage, findings, accepted, message, late, rolling>>

Stalls(k) ==
  IF k = None THEN UNCHANGED incident ELSE incident' = [incident EXCEPT ![k] = "stalled"]

StallIncident(j) ==
  /\ exec[j].pc = "stall"
  /\ Stalls(exec[j].key)
  /\ Goes(j, "failed")
  /\ UNCHANGED <<config, stage, rcaStage, findings, accepted, message, late, rolling>>

----------------------------------------------------------------------------
(* The invocations that were given up on: the same statements, without     *)
(* anyone who waits for the answer.                                        *)
Last(i) == late' = late \ {i}
Then(i, at) == late' = (late \ {i}) \cup {[i EXCEPT !.at = at]}

\* It ends, killed or with nothing more to write.
LateEnds(i) ==
  /\ Last(i)
  /\ UNCHANGED <<config, incident, stage, rcaStage, findings, accepted, message, exec, rolling>>

\* An INSERT that wins makes the incident this execution's, though the machine
\* does not hear of it.
LateTriage(i) ==
  LET k == Correlates(i.job) IN
  /\ i.at = "triage"
  /\ HasAlert(i.job) \/ admitsInfo
  /\ Won(k)
  /\ incident' = [incident EXCEPT ![k] = "triaged"]
  /\ exec' = [exec EXCEPT ![i.job].key = k]
  /\ Then(i, "openStage")
  /\ UNCHANGED <<config, stage, rcaStage, findings, accepted, message, rolling>>

LateStage(i) ==
  LET k == exec[i.job].key IN
  /\ \/ i.at = "openStage" /\ Opens(k) /\ Then(i, "closeStage")
     \/ i.at = "closeStage" /\ Closes(k, "succeeded") /\ Then(i, "investigate")
     \/ i.at = "failStage" /\ exec[i.job].told /\ Fails(k) /\ Then(i, "stall")
  /\ UNCHANGED <<config, incident, rcaStage, findings, accepted, message, exec, rolling>>

LateSubAgent(i) ==
  LET k == exec[i.job].key IN
  /\ \/ i.at = "todo" /\ Consults(k, i.who) /\ Then(i, "asking")
     \/ i.at = "asking" /\ Records(k, i.who) /\ Last(i)
  /\ UNCHANGED <<config, incident, stage, rcaStage, accepted, message, exec, rolling>>

LateRootCause(i) ==
  LET k == exec[i.job].key IN
  /\ i.at = "rootCause" /\ orchestrator /\ k \notin rcaStage
  /\ rcaStage' = rcaStage \cup {k}
  /\ Then(i, "writeRca")
  /\ UNCHANGED <<config, incident, stage, findings, accepted, message, exec, rolling>>

LateStatus(i) ==
  LET k == exec[i.job].key IN
  /\ \/ i.at = "investigate" /\ Investigates(k)
     \/ i.at = "rootCause" /\ ~orchestrator /\ Advances(k, "root_cause")
     \/ i.at = "writeRca" /\ Advances(k, "root_cause")
     \/ i.at = "plan" /\ Advances(k, "mitigation_planned")
     \/ i.at = "prevention" /\ Advances(k, "prevention")
     \/ i.at = "stall" /\ Stalls(k)
  /\ Last(i)
  /\ UNCHANGED <<config, stage, rcaStage, findings, accepted, message, exec, rolling>>

LateStep(i) ==
  LateEnds(i) \/ LateTriage(i) \/ LateStage(i) \/ LateSubAgent(i) \/ LateRootCause(i)
  \/ LateStatus(i)

----------------------------------------------------------------------------
(* The watchdog *)

\* Mutant: only the stages of an execution that has failed are looked at.
OverdueIfFailed(k) ==
  stage[k] = "running" /\ \E j \in Jobs : exec[j].key = k /\ exec[j].pc = "failed"

\* A stage without a checkpoint for its timeout_seconds, whatever the reason.
Overdue(k) == stage[k] = "running"

\* incident_watchdog: the stage, then its incident; the invocation may end
\* between the two.
StallStage(k) ==
  /\ Overdue(k)
  /\ Closes(k, "stalled")
  /\ rolling' = rolling \cup {k}
  /\ UNCHANGED <<config, incident, rcaStage, findings, accepted, message, exec, late>>

Roll(k) ==
  /\ k \in rolling
  /\ Stalls(k) \/ UNCHANGED incident
  /\ rolling' = rolling \ {k}
  /\ UNCHANGED <<config, stage, rcaStage, findings, accepted, message, exec, late>>

Step(j) ==
  \/ Start(j) \/ Skip(j) \/ Triage(j) \/ OpenStage(j) \/ CloseStage(j)
  \/ Investigate(j) \/ Lead(j) \/ EndConsult(j) \/ RootCause(j) \/ WriteRca(j)
  \/ MitigationPlan(j) \/ Prevention(j) \/ Fault(j) \/ FailStage(j)
  \/ StallIncident(j) \/ \E a \in Agents : SubAgent(j, a) \/ SubAgentFault(j, a)
  \/ \E k \in Keys : Enqueue(k, j) \/ EnqueueDirect(k, j)

Next ==
  \/ \E j \in Jobs : Step(j)
  \/ \E i \in late : LateStep(i)
  \/ \E k \in Keys : Accept(k)
  \/ \E k \in AllKeys : StallStage(k) \/ Roll(k)

\* The watchdog is scheduled.
Fairness == \A k \in AllKeys : WF_vars(StallStage(k))

Spec == Init /\ [][Next]_vars /\ Fairness

----------------------------------------------------------------------------
(* Properties *)

\* A stalled incident stays stalled, whatever its execution still writes, and
\* the end of its stage is decided once, by the stage, by StageFailed or by the
\* watchdog (lifecycle.transition_stage, incident_watchdog).
SettledIsFinal ==
  [][\A k \in AllKeys :
       /\ incident[k] = "stalled" => incident'[k] = "stalled"
       /\ stage[k] \notin {"none", "running"} => stage'[k] = stage[k]]_vars

\* One execution at most investigates an incident: of the alerts of one
\* condition that the web tier and the jobs insert, one wins, and an execution
\* that is retried after it has won does not win again (_dedup_insert).
SingleInvestigation ==
  \A j, l \in Jobs :
    exec[j].key # None /\ exec[j].key = exec[l].key => j = l

\* A sub-agent has a second finding in an incident only if two of its
\* invocations consulted at once: one that looks after a finding was written, or
\* after the one before it is dead, adds none beyond the first
\* (subagent._already_recorded, the key in findings->>'idem').
SecondNeedsOverlap ==
  \A k \in AllKeys, a \in Agents : found[k][a] > 1 => <<k, a>> \in overlapped

\* A stage does not run for ever: whatever becomes of its execution, it
\* succeeds, fails or is stalled (incident_watchdog).
RunningStageSettles ==
  \A k \in AllKeys : stage[k] = "running" ~> stage[k] # "running"

\* What route.ts says of an accepted alert, and the code does not do: the
\* execution enqueued for the incident investigates it.
NewIsInvestigated ==
  \A j \in Jobs :
    message[j].from = "web" /\ exec[j].pc = "done"
      => incident[message[j].key] # "triaged"
============================================================================
