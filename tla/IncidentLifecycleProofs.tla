----------------------- MODULE IncidentLifecycleProofs -----------------------
(***************************************************************************)
(* The incident lifecycle, for every set of alerts, jobs and sub-agents,   *)
(* every number of retries and of invocations that nobody awaits, and any  *)
(* interleaving of the stages with the web tier and the watchdog.          *)
(***************************************************************************)
EXTENDS IncidentLifecycle, TLAPS

PCs == AtWork \cup {"idle", "consult", "failStage", "stall", "done", "failed"}

Execs == [pc : PCs, key : AllKeys \cup {None}, told : BOOLEAN, tries : 0..MaxTries,
          sub : [Agents -> {"todo", "asking", "ended"}]]

(* Where an execution writes to its incident. *)
AtIncident == PCs \ {"idle", "triage", "failStage", "stall", "done", "failed"}

(* An execution has its incident before it writes to it. *)
Placed(j) == exec[j].pc \in AtIncident => exec[j].key # None

(* The incident of an execution exists. *)
Opened(j) == exec[j].key # None => incident[exec[j].key] # "none"

(* A message that was sent names its alert or its incident. *)
Addressed(j) == message[j].from # "none" => message[j].key \in Keys

(* A message starts its execution, whose incident is that of the message. *)
Started(j) == exec[j].pc # "idle" => message[j].from # "none"
OfMessage(j) ==
  exec[j].key # None => message[j].from # "none" /\ exec[j].key = Correlates(j)

(* The same of an invocation that nobody awaits. *)
LateOK(i) ==
  /\ message[i.job].from # "none"
  /\ i.at \in AtIncident \cup {"todo", "asking"} => exec[i.job].key # None
  /\ i.at \in {"todo", "asking"} => i.who \in Agents

(* Who asks: the execution awaits it, or nobody does.  Unless two of them  *)
(* have overlapped, one asks at a time, and while it asks none has         *)
(* answered.                                                               *)
Awaits(k, a) ==
  \E j \in Jobs : exec[j].pc = "consult" /\ exec[j].key = k /\ exec[j].sub[a] = "asking"

LateAsker(i, k, a) ==
  i \in late /\ i.at = "asking" /\ i.who = a /\ exec[i.job].key = k

OneByOne(k, a) ==
  /\ found[k][a] <= 1
  /\ Asking(k, a) => found[k][a] = 0
  /\ \A i \in Invocations : LateAsker(i, k, a) =>
       ~Awaits(k, a) /\ \A n \in Invocations : LateAsker(n, k, a) => n = i

OverlapOK(k, a) == <<k, a>> \notin overlapped => OneByOne(k, a)

Inv ==
  /\ TypeOK
  /\ SingleInvestigation
  /\ \A j \in Jobs : Placed(j) /\ Opened(j) /\ Addressed(j) /\ Started(j) /\ OfMessage(j)
  /\ \A i \in late : LateOK(i)
  /\ \A k \in AllKeys, a \in Agents : OverlapOK(k, a)

USE IncidentAssumption

-----------------------------------------------------------------------------
(* What a step does to an execution.                                       *)
Only(j) ==
  /\ exec' \in [Jobs -> Execs]
  /\ \A l \in Jobs \ {j} : exec'[l] = exec[l]

LEMMA ExecsTyped == ASSUME TypeOK PROVE exec \in [Jobs -> Execs]
BY DEF TypeOK, Execs, PCs

LEMMA ExecTyped ==
  ASSUME NEW e \in Execs, NEW pc \in PCs, NEW told \in BOOLEAN
  PROVE  /\ [e EXCEPT !.pc = pc] \in Execs
         /\ [e EXCEPT !.pc = pc].pc = pc
         /\ [e EXCEPT !.pc = pc].key = e.key /\ [e EXCEPT !.pc = pc].sub = e.sub
         /\ [e EXCEPT !.pc = pc].tries = e.tries
         /\ [e EXCEPT !.told = told] \in Execs
         /\ [e EXCEPT !.told = told].pc = e.pc
         /\ [e EXCEPT !.told = told].key = e.key /\ [e EXCEPT !.told = told].sub = e.sub
BY DEF Execs

LEMMA TriesTyped ==
  ASSUME NEW e \in Execs, NEW n \in 0..MaxTries
  PROVE  /\ [e EXCEPT !.tries = n] \in Execs
         /\ [e EXCEPT !.tries = n].pc = e.pc
         /\ [e EXCEPT !.tries = n].key = e.key /\ [e EXCEPT !.tries = n].sub = e.sub
BY DEF Execs

LEMMA KeyTyped ==
  ASSUME NEW e \in Execs, NEW k \in AllKeys
  PROVE  /\ [e EXCEPT !.key = k] \in Execs
         /\ [e EXCEPT !.key = k].pc = e.pc
         /\ [e EXCEPT !.key = k].key = k /\ [e EXCEPT !.key = k].sub = e.sub
BY DEF Execs

LEMMA SubTyped ==
  ASSUME NEW e \in Execs, NEW s \in [Agents -> {"todo", "asking", "ended"}]
  PROVE  /\ [e EXCEPT !.sub = s] \in Execs
         /\ [e EXCEPT !.sub = s].pc = e.pc /\ [e EXCEPT !.sub = s].tries = e.tries
         /\ [e EXCEPT !.sub = s].key = e.key /\ [e EXCEPT !.sub = s].sub = s
BY DEF Execs

(* A step that gives one execution a new record. *)
LEMMA Takes ==
  ASSUME TypeOK, NEW j \in Jobs, NEW e \in Execs, exec' = [exec EXCEPT ![j] = e]
  PROVE  Only(j) /\ exec'[j] = e
BY ExecsTyped DEF Only

LEMMA MovesTo ==
  ASSUME TypeOK, NEW j \in Jobs, NEW pc \in PCs, exec' = [exec EXCEPT ![j].pc = pc]
  PROVE  /\ Only(j) /\ exec'[j].pc = pc
         /\ exec'[j].key = exec[j].key /\ exec'[j].sub = exec[j].sub
<1> DEFINE d == [exec[j] EXCEPT !.pc = pc]
<1>1. exec[j] \in Execs
  BY ExecsTyped
<1>2. d \in Execs /\ d.pc = pc /\ d.key = exec[j].key /\ d.sub = exec[j].sub
  BY <1>1, ExecTyped
<1>3. exec' = [exec EXCEPT ![j] = d]
  OBVIOUS
<1> HIDE DEF d
<1> QED
  BY <1>2, <1>3, Takes

LEMMA TriesTo ==
  ASSUME TypeOK, NEW j \in Jobs, NEW pc \in PCs, NEW n \in 0..MaxTries,
         exec' = [exec EXCEPT ![j].pc = pc, ![j].tries = n]
  PROVE  /\ Only(j) /\ exec'[j].pc = pc
         /\ exec'[j].key = exec[j].key /\ exec'[j].sub = exec[j].sub
<1> DEFINE d == [exec[j] EXCEPT !.pc = pc]
           e == [d EXCEPT !.tries = n]
<1>1. exec[j] \in Execs
  BY ExecsTyped
<1>2. d \in Execs /\ d.pc = pc /\ d.key = exec[j].key /\ d.sub = exec[j].sub
  BY <1>1, ExecTyped
<1>3. exec' = [exec EXCEPT ![j] = e]
  OBVIOUS
<1> HIDE DEF d
<1>4. e \in Execs /\ e.pc = d.pc /\ e.key = d.key /\ e.sub = d.sub
  BY <1>2, TriesTyped
<1> HIDE DEF e
<1> QED
  BY <1>2, <1>3, <1>4, Takes

LEMMA GoesTo ==
  ASSUME TypeOK, NEW j \in Jobs, NEW pc \in PCs, Goes(j, pc)
  PROVE  /\ Only(j) /\ exec'[j].pc = pc
         /\ exec'[j].key = exec[j].key /\ exec'[j].sub = exec[j].sub
<1>1. 0 \in 0..MaxTries
  OBVIOUS
<1>2. exec' = [exec EXCEPT ![j].pc = pc, ![j].tries = 0]
  BY DEF Goes
<1> QED
  BY <1>1, <1>2, TriesTo

-----------------------------------------------------------------------------
(* Who asks does not change, but for one that is given up on.              *)
Calm(k, a) ==
  /\ Awaits(k, a)' => Awaits(k, a)
  /\ \/ \A i \in Invocations : LateAsker(i, k, a)' => LateAsker(i, k, a)
     \/ /\ Awaits(k, a) /\ ~Awaits(k, a)'
        /\ \E n \in Invocations : \A i \in Invocations :
             LateAsker(i, k, a)' => LateAsker(i, k, a) \/ i = n

LEMMA AskingIs ==
  ASSUME TypeOK, NEW k, NEW a
  PROVE  Asking(k, a) <=> Awaits(k, a) \/ \E i \in Invocations : LateAsker(i, k, a)
BY DEF Asking, Awaits, LateAsker, TypeOK

LEMMA CalmKeeps ==
  ASSUME TypeOK, TypeOK', NEW k \in AllKeys, NEW a \in Agents, OverlapOK(k, a),
         Calm(k, a), found'[k][a] = found[k][a], overlapped \subseteq overlapped'
  PROVE  OverlapOK(k, a)'
<1> SUFFICES ASSUME <<k, a>> \notin overlapped' PROVE OneByOne(k, a)'
  BY DEF OverlapOK
<1>1. OneByOne(k, a)
  BY DEF OverlapOK
<1>2. Asking(k, a)' => Asking(k, a)
  <2>1. Asking(k, a)' <=> Awaits(k, a)' \/ \E i \in Invocations : LateAsker(i, k, a)'
    BY DEF Asking, Awaits, LateAsker, TypeOK
  <2> QED
    BY <2>1, AskingIs DEF Calm
<1>3. CASE \A i \in Invocations : LateAsker(i, k, a)' => LateAsker(i, k, a)
  <2>1. Awaits(k, a)' => Awaits(k, a)
    BY DEF Calm
  <2> QED
    BY <1>1, <1>2, <1>3, <2>1 DEF OneByOne
<1>4. CASE /\ Awaits(k, a) /\ ~Awaits(k, a)'
           /\ \E n \in Invocations : \A i \in Invocations :
                LateAsker(i, k, a)' => LateAsker(i, k, a) \/ i = n
  BY <1>1, <1>2, <1>4 DEF OneByOne
<1> QED
  BY <1>3, <1>4 DEF Calm

-----------------------------------------------------------------------------
(* The steps of an execution that neither win an incident nor consult.     *)
Quiet(j) ==
  /\ Only(j)
  /\ exec'[j].key = exec[j].key
  /\ exec'[j].pc # "idle" => message[j].from # "none"
  /\ exec'[j].pc \in AtIncident => exec[j].key # None
  /\ exec'[j].pc = "consult" =>
       \A a \in Agents : exec'[j].sub[a] = "asking" =>
         exec[j].pc = "consult" /\ exec[j].sub[a] = "asking"

(* Messages are sent once. *)
Posted ==
  \A l \in Jobs : Addressed(l)' /\ (message[l].from # "none" => message'[l] = message[l])

(* An invocation that nobody awaits any more, or that goes on: none starts *)
(* to ask.                                                                 *)
Leaves(j, i) ==
  /\ LateOK(i)
  /\ i.at = "asking" =>
       /\ exec[j].pc = "consult" /\ exec[j].sub[i.who] = "asking"
       /\ ~(exec'[j].pc = "consult" /\ exec'[j].sub[i.who] = "asking")
       /\ i = Invocation(j, i.who, "asking")

LEMMA QuietCalm ==
  ASSUME Inv, NEW j \in Jobs, Quiet(j) \/ UNCHANGED exec, TypeOK',
         \A i \in late' \ late : Leaves(j, i),
         NEW k \in AllKeys, NEW a \in Agents
  PROVE  Calm(k, a)
<1>1. \A l \in Jobs : exec'[l].key = exec[l].key
  BY DEF Quiet, Only
<1>2. Awaits(k, a)' => Awaits(k, a)
  BY <1>1 DEF Awaits, Quiet, Only
<1>3. TypeOK /\ \A i \in Invocations : i.job \in Jobs
  BY DEF Inv, Invocations
<1>4. CASE \A i \in Invocations : LateAsker(i, k, a)' => i \in late
  BY <1>1, <1>2, <1>3, <1>4 DEF Calm, LateAsker
<1>5. ASSUME NEW i \in Invocations, LateAsker(i, k, a)', i \notin late
      PROVE  /\ i = Invocation(j, a, "asking")
             /\ exec[j].key = k /\ Awaits(k, a) /\ ~Awaits(k, a)'
  <2>1. i \in late' \ late /\ i.at = "asking" /\ i.who = a /\ exec'[i.job].key = k
    BY <1>5 DEF LateAsker
  <2>2. /\ exec[j].pc = "consult" /\ exec[j].sub[a] = "asking"
        /\ ~(exec'[j].pc = "consult" /\ exec'[j].sub[a] = "asking")
        /\ i = Invocation(j, a, "asking")
    BY <2>1 DEF Leaves
  <2>3. i.job = j
    BY <2>2 DEF Invocation
  <2>4. exec[j].key = k /\ k # None
    BY <1>1, <2>1, <2>3 DEF AllKeys
  <2>5. \A l \in Jobs : exec'[l].key = k => l = j
    BY <1>1, <2>4 DEF Inv, SingleInvestigation
  <2> QED
    BY <2>2, <2>4, <2>5 DEF Awaits
<1>6. CASE \E i \in Invocations : LateAsker(i, k, a)' /\ i \notin late
  <2>1. PICK n \in Invocations : LateAsker(n, k, a)' /\ n \notin late
    BY <1>6
  <2>2. n = Invocation(j, a, "asking") /\ Awaits(k, a) /\ ~Awaits(k, a)'
    BY <1>5, <2>1
  <2>3. ASSUME NEW i \in Invocations, LateAsker(i, k, a)' PROVE LateAsker(i, k, a) \/ i = n
    <3>1. CASE i \in late
      BY <1>1, <1>3, <2>3, <3>1 DEF LateAsker
    <3>2. CASE i \notin late
      BY <1>5, <2>2, <2>3, <3>2
    <3> QED
      BY <3>1, <3>2
  <2> QED
    BY <2>2, <2>3 DEF Calm
<1> QED
  BY <1>4, <1>6

LEMMA QuietKeeps ==
  ASSUME Inv, TypeOK', NEW j \in Jobs, Quiet(j) \/ UNCHANGED exec,
         UNCHANGED message \/ Posted, \A i \in late' \ late : Leaves(j, i),
         UNCHANGED findings, \A k \in AllKeys : incident[k] # "none" => incident'[k] # "none"
  PROVE  Inv'
<1>0. TypeOK /\ exec \in [Jobs -> Execs] /\ exec' \in [Jobs -> Execs]
  BY ExecsTyped DEF Inv, Quiet, Only
<1>1. \A l \in Jobs : exec'[l].key = exec[l].key
  BY DEF Quiet, Only
<1>2. SingleInvestigation'
  BY <1>1 DEF Inv, SingleInvestigation
<1>3. ASSUME NEW l \in Jobs PROVE Placed(l)'
  <2>1. CASE exec'[l] = exec[l]
    BY <2>1 DEF Inv, Placed
  <2>2. CASE Quiet(j) /\ l = j
    BY <2>2, <1>1 DEF Inv, Placed, Quiet
  <2> QED
    BY <2>1, <2>2 DEF Quiet, Only
<1>4. ASSUME NEW l \in Jobs PROVE Opened(l)'
  <2>1. exec[l].key \in AllKeys \cup {None}
    BY <1>0 DEF Execs
  <2> QED
    BY <1>1, <2>1 DEF Inv, Opened
<1>5. \A l \in Jobs : Addressed(l)' /\ (message[l].from # "none" => message'[l] = message[l])
  BY DEF Inv, Addressed, Posted
<1>6. ASSUME NEW l \in Jobs PROVE Started(l)' /\ OfMessage(l)'
  <2>1. exec'[l].pc # "idle" => message[l].from # "none"
    <3>1. CASE exec'[l] = exec[l]
      BY <3>1 DEF Inv, Started
    <3>2. CASE Quiet(j) /\ l = j
      BY <3>2 DEF Quiet
    <3> QED
      BY <3>1, <3>2 DEF Quiet, Only
  <2>2. message[l].from # "none" => message'[l].from # "none" /\ Correlates(l)' = Correlates(l)
    BY <1>5 DEF Correlates, HasAlert
  <2> QED
    BY <1>1, <2>1, <2>2 DEF Inv, Started, OfMessage
<1>7. ASSUME NEW i \in late' PROVE LateOK(i)'
  <2>1. LateOK(i)
    BY DEF Inv, Leaves
  <2>2. i.job \in Jobs
    BY DEF TypeOK, Invocations
  <2> QED
    BY <1>1, <1>5, <2>1, <2>2 DEF LateOK
<1>8. ASSUME NEW k \in AllKeys, NEW a \in Agents PROVE OverlapOK(k, a)'
  BY <1>0, QuietCalm, CalmKeeps DEF Inv, findings
<1> QED
  BY <1>2, <1>3, <1>4, <1>5, <1>6, <1>7, <1>8 DEF Inv

(* What a step leaves alone, beside executions and incidents.              *)
Rest == <<config, stage, rcaStage, findings, accepted, message, late, rolling>>

LEMMA IncidentTyped ==
  ASSUME TypeOK, NEW k \in AllKeys, NEW s \in Statuses
  PROVE  [incident EXCEPT ![k] = s] \in [AllKeys -> Statuses]
BY DEF TypeOK

(* A quiet step that changes at most the status of incidents, and none to  *)
(* "none".                                                                 *)
LEMMA WritesKeep ==
  ASSUME Inv, NEW j \in Jobs, Quiet(j), UNCHANGED Rest,
         incident' \in [AllKeys -> Statuses],
         \A k \in AllKeys : incident[k] # "none" => incident'[k] # "none"
  PROVE  Inv'
<1>1. TypeOK'
  BY DEF Inv, TypeOK, Rest, findings, config, Quiet, Only, Execs, PCs
<1> QED
  BY <1>1, QuietKeeps DEF Rest

LEMMA GoesQuietly ==
  ASSUME Inv, NEW j \in Jobs, NEW pc \in PCs \ {"consult"}, Goes(j, pc),
         exec[j].pc # "idle", pc \in AtIncident => exec[j].key # None
  PROVE  Quiet(j)
BY GoesTo DEF Inv, Started, Quiet

LEMMA SameIncidents ==
  ASSUME Inv, NEW j \in Jobs, Quiet(j), UNCHANGED <<Rest, incident>>
  PROVE  Inv'
BY WritesKeep DEF Inv, TypeOK

LEMMA ActorTyped ==
  ASSUME Inv, NEW j \in Jobs, exec[j].pc \in AtIncident
  PROVE  /\ exec[j].key \in AllKeys /\ exec[j].key # None
         /\ exec[j].pc # "idle" /\ message[j].from # "none"
BY ExecsTyped DEF Inv, Placed, Started, Execs, AtIncident

LEMMA AdvanceKeeps ==
  ASSUME Inv, NEW j \in Jobs, exec[j].pc \in AtIncident, Quiet(j), UNCHANGED Rest,
         NEW s \in Statuses \ {"none"}, Advances(exec[j].key, s)
  PROVE  Inv'
<1> DEFINE k == exec[j].key
<1>1. k \in AllKeys
  BY ActorTyped
<1>2. incident \in [AllKeys -> Statuses]
  BY DEF Inv, TypeOK
<1>3. incident' = [incident EXCEPT ![k] = IF incident[k] = "stalled" THEN incident[k] ELSE s]
  BY DEF Advances
<1> HIDE DEF k
<1>4. /\ incident' \in [AllKeys -> Statuses]
      /\ \A i \in AllKeys : incident[i] # "none" => incident'[i] # "none"
  BY <1>1, <1>2, <1>3
<1> QED
  BY <1>4, WritesKeep

-----------------------------------------------------------------------------
(* The steps of an execution. *)
LEMMA StartKeeps == ASSUME Inv, NEW j \in Jobs, Start(j) PROVE Inv'
<1> DEFINE told == message[j].named
           d == [exec[j] EXCEPT !.pc = "triage"]
           e == [d EXCEPT !.told = told]
<1>1. TypeOK /\ exec[j] \in Execs /\ told \in BOOLEAN /\ "triage" \in PCs
  BY ExecsTyped DEF Inv, TypeOK, PCs, AtWork, AtTriage
<1> HIDE DEF told
<1>2. d \in Execs /\ d.pc = "triage" /\ d.key = exec[j].key /\ d.sub = exec[j].sub
  BY <1>1, ExecTyped
<1>3. exec' = [exec EXCEPT ![j] = e]
  BY DEF Start, told
<1> HIDE DEF d
<1>4. e \in Execs /\ e.pc = d.pc /\ e.key = d.key
  BY <1>1, <1>2, ExecTyped
<1> HIDE DEF e
<1>5. Only(j) /\ exec'[j] = e
  BY <1>1, <1>3, <1>4, Takes
<1>6. Quiet(j)
  BY <1>2, <1>4, <1>5 DEF Quiet, AtIncident, Start
<1> QED
  BY <1>6, SameIncidents DEF Start, Rest

LEMMA SkipKeeps == ASSUME Inv, NEW j \in Jobs, Skip(j) PROVE Inv'
<1>1. Quiet(j)
  BY GoesQuietly DEF Skip, PCs, AtIncident
<1> QED
  BY <1>1, SameIncidents DEF Skip, Rest

LEMMA CloseStageKeeps == ASSUME Inv, NEW j \in Jobs, CloseStage(j) PROVE Inv'
<1>1. TypeOK /\ exec[j].pc = "closeStage" /\ "investigate" \in PCs
  BY DEF Inv, CloseStage, PCs, AtWork, AtTriage
<1>2. exec[j].key \in AllKeys /\ exec[j].key # None /\ message[j].from # "none"
  BY <1>1, ActorTyped DEF AtIncident, PCs, AtWork, AtTriage
<1>3. /\ Only(j) /\ exec'[j].pc = "investigate"
      /\ exec'[j].key = exec[j].key /\ exec'[j].sub = exec[j].sub
  BY <1>1, MovesTo DEF CloseStage
<1>4. Quiet(j)
  BY <1>2, <1>3 DEF Quiet
<1>5. TypeOK'
  BY <1>1, <1>2, <1>3 DEF TypeOK, CloseStage, Closes, findings, Only, Transition, config, Execs, PCs
<1> QED
  BY <1>4, <1>5, QuietKeeps DEF CloseStage

LEMMA OpenStageKeeps == ASSUME Inv, NEW j \in Jobs, OpenStage(j) PROVE Inv'
<1>1. TypeOK /\ exec[j].pc = "openStage" /\ "closeStage" \in PCs
  BY DEF Inv, OpenStage, PCs, AtWork, AtTriage
<1>2. exec[j].key \in AllKeys /\ exec[j].key # None /\ message[j].from # "none"
  BY <1>1, ActorTyped DEF AtIncident, PCs, AtWork, AtTriage
<1>3. /\ Only(j) /\ exec'[j].pc = "closeStage"
      /\ exec'[j].key = exec[j].key /\ exec'[j].sub = exec[j].sub
  BY <1>1, MovesTo DEF OpenStage
<1>4. Quiet(j)
  BY <1>2, <1>3 DEF Quiet
<1>5. TypeOK'
  BY <1>1, <1>2, <1>3 DEF TypeOK, OpenStage, Opens, findings, Only, config, Execs, PCs
<1> QED
  BY <1>4, <1>5, QuietKeeps DEF OpenStage

LEMMA InvestigateKeeps == ASSUME Inv, NEW j \in Jobs, Investigate(j) PROVE Inv'
<1> DEFINE k == exec[j].key
           d == [exec[j] EXCEPT !.pc = "lead"]
           c == [d EXCEPT !.told = TRUE]
           e == [c EXCEPT !.tries = 0]
<1>1. TypeOK /\ exec[j] \in Execs /\ "lead" \in PCs /\ 0 \in 0..MaxTries
  BY ExecsTyped DEF Inv, PCs, AtWork
<1>2. k \in AllKeys /\ k # None /\ message[j].from # "none"
  BY ActorTyped DEF Investigate, AtIncident, PCs, AtWork, AtTriage
<1>3. d \in Execs /\ d.pc = "lead" /\ d.key = k
  BY <1>1, ExecTyped
<1>4. exec' = [exec EXCEPT ![j] = e]
  BY DEF Investigate
<1> HIDE DEF d
<1>5. c \in Execs /\ c.pc = d.pc /\ c.key = d.key
  BY <1>1, <1>3, TRUE \in BOOLEAN, ExecTyped
<1> HIDE DEF c
<1>6. e \in Execs /\ e.pc = c.pc /\ e.key = c.key
  BY <1>1, <1>5, TriesTyped
<1> HIDE DEF e
<1>7. Only(j) /\ exec'[j] = e
  BY <1>1, <1>4, <1>6, Takes
<1>8. Quiet(j)
  BY <1>2, <1>3, <1>5, <1>6, <1>7 DEF Quiet
<1>9. /\ incident' \in [AllKeys -> Statuses]
      /\ \A i \in AllKeys : incident[i] # "none" => incident'[i] # "none"
  <2>1. incident \in [AllKeys -> Statuses] /\ "investigating" \in Statuses
    BY <1>1 DEF TypeOK, Statuses
  <2>2. incident' = [incident EXCEPT ![k] =
          IF incident[k] \in {"triaged", "investigating"} THEN "investigating"
          ELSE incident[k]]
    BY DEF Investigate, Investigates
  <2> HIDE DEF k
  <2> QED
    BY <1>2, <2>1, <2>2
<1> QED
  BY <1>8, <1>9, WritesKeep DEF Investigate, Rest

LEMMA LeadKeeps == ASSUME Inv, NEW j \in Jobs, Lead(j) PROVE Inv'
<1> DEFINE s == [a \in Agents |-> "todo"]
           d == [exec[j] EXCEPT !.pc = "consult"]
           c == [d EXCEPT !.tries = 0]
           e == [c EXCEPT !.sub = s]
<1>1. TypeOK /\ exec[j] \in Execs /\ "consult" \in PCs /\ 0 \in 0..MaxTries
  BY ExecsTyped DEF Inv, PCs
<1>2. exec[j].key # None /\ message[j].from # "none"
  BY ActorTyped DEF Lead, AtIncident, PCs, AtWork, AtTriage
<1>3. d \in Execs /\ d.pc = "consult" /\ d.key = exec[j].key
  BY <1>1, ExecTyped
<1>4. exec' = [exec EXCEPT ![j] = e]
  BY DEF Lead
<1> HIDE DEF d
<1>5. c \in Execs /\ c.pc = d.pc /\ c.key = d.key
  BY <1>1, <1>3, TriesTyped
<1> HIDE DEF c
<1>6. s \in [Agents -> {"todo", "asking", "ended"}] /\ \A a \in Agents : s[a] # "asking"
  OBVIOUS
<1> HIDE DEF s
<1>7. e \in Execs /\ e.pc = c.pc /\ e.key = c.key /\ e.sub = s
  BY <1>5, <1>6, SubTyped
<1> HIDE DEF e
<1>8. Only(j) /\ exec'[j] = e
  BY <1>1, <1>4, <1>7, Takes
<1>9. Quiet(j)
  BY <1>2, <1>3, <1>5, <1>6, <1>7, <1>8 DEF Quiet
<1> QED
  BY <1>9, SameIncidents DEF Lead, Rest

LEMMA EndConsultKeeps == ASSUME Inv, NEW j \in Jobs, EndConsult(j) PROVE Inv'
<1>1. exec[j].key # None /\ exec[j].pc # "idle"
  BY ActorTyped DEF EndConsult, AtIncident, PCs, AtWork, AtTriage
<1>2. Quiet(j)
  BY <1>1, GoesQuietly DEF EndConsult, PCs, AtWork
<1> QED
  BY <1>2, SameIncidents DEF EndConsult, Rest

LEMMA RootCauseKeeps == ASSUME Inv, NEW j \in Jobs, RootCause(j) PROVE Inv'
<1> DEFINE k == exec[j].key
<1>1. TypeOK /\ exec[j].pc \in AtIncident /\ {"plan", "writeRca"} \subseteq PCs \ {"consult"}
  BY DEF Inv, RootCause, AtIncident, PCs, AtWork, AtTriage
<1>2. k \in AllKeys /\ k # None /\ exec[j].pc # "idle" /\ message[j].from # "none"
  BY <1>1, ActorTyped
<1>3. CASE Goes(j, "plan") /\ UNCHANGED rcaStage /\ (Advances(k, "root_cause") \/ UNCHANGED incident)
  <2>1. Quiet(j)
    BY <1>1, <1>2, <1>3, GoesQuietly
  <2>2. UNCHANGED Rest
    BY <1>3 DEF RootCause, Rest
  <2>3. "root_cause" \in Statuses \ {"none"}
    BY DEF Statuses
  <2> QED
    BY <1>1, <1>3, <2>1, <2>2, <2>3, AdvanceKeeps, SameIncidents
<1>4. CASE /\ rcaStage' = rcaStage \cup {k}
           /\ exec' = [exec EXCEPT ![j].pc = "writeRca"]
           /\ UNCHANGED incident
  <2>1. /\ Only(j) /\ exec'[j].pc = "writeRca"
        /\ exec'[j].key = exec[j].key /\ exec'[j].sub = exec[j].sub
    BY <1>1, <1>4, MovesTo
  <2>2. Quiet(j)
    BY <1>2, <2>1 DEF Quiet
  <2>3. TypeOK'
    BY <1>1, <1>2, <1>4, <2>1 DEF TypeOK, RootCause, findings, Only, config, Execs, PCs
  <2> QED
    BY <1>4, <2>2, <2>3, QuietKeeps DEF RootCause
<1> QED
  BY <1>3, <1>4 DEF RootCause

LEMMA StageKeeps ==
  ASSUME Inv, NEW j \in Jobs, exec[j].pc \in AtIncident,
         NEW s \in Statuses \ {"none"}, NEW pc \in PCs \ {"consult"}, Reaches(j, s, pc)
  PROVE  Inv'
<1>1. exec[j].key # None /\ exec[j].pc # "idle"
  BY ActorTyped
<1>2. Quiet(j)
  BY <1>1, GoesQuietly DEF Reaches
<1> QED
  BY <1>2, AdvanceKeeps DEF Reaches, Rest

LEMMA WriteRcaKeeps == ASSUME Inv, NEW j \in Jobs, WriteRca(j) PROVE Inv'
BY StageKeeps DEF WriteRca, Reaches, Statuses, AtIncident, PCs, AtWork, AtTriage

LEMMA MitigationPlanKeeps == ASSUME Inv, NEW j \in Jobs, MitigationPlan(j) PROVE Inv'
BY StageKeeps DEF MitigationPlan, Statuses, AtIncident, PCs, AtWork, AtTriage

LEMMA PreventionKeeps == ASSUME Inv, NEW j \in Jobs, Prevention(j) PROVE Inv'
BY StageKeeps DEF Prevention, Statuses, AtIncident, PCs, AtWork, AtTriage

LEMMA SubTo ==
  ASSUME TypeOK, NEW j \in Jobs, NEW a \in Agents, NEW s \in {"todo", "asking", "ended"},
         NEW n \in 0..MaxTries,
         \/ exec' = [exec EXCEPT ![j].sub[a] = s]
         \/ exec' = [exec EXCEPT ![j].sub[a] = s, ![j].tries = n]
  PROVE  /\ Only(j) /\ exec'[j].pc = exec[j].pc /\ exec'[j].key = exec[j].key
         /\ exec'[j].sub = [exec[j].sub EXCEPT ![a] = s]
<1> DEFINE t == [exec[j].sub EXCEPT ![a] = s]
           d == [exec[j] EXCEPT !.sub = t]
           e == [d EXCEPT !.tries = n]
<1>1. exec[j] \in Execs /\ exec[j].sub \in [Agents -> {"todo", "asking", "ended"}]
  BY ExecsTyped DEF Execs
<1>2. t \in [Agents -> {"todo", "asking", "ended"}]
  BY <1>1
<1>3. exec' = [exec EXCEPT ![j] = d] \/ exec' = [exec EXCEPT ![j] = e]
  OBVIOUS
<1> HIDE DEF t
<1>4. d \in Execs /\ d.pc = exec[j].pc /\ d.key = exec[j].key /\ d.sub = t
  BY <1>1, <1>2, SubTyped
<1> HIDE DEF d
<1>5. e \in Execs /\ e.pc = d.pc /\ e.key = d.key /\ e.sub = d.sub
  BY <1>4, TriesTyped
<1> HIDE DEF e
<1>6. Only(j) /\ (exec'[j] = d \/ exec'[j] = e)
  BY <1>3, <1>4, <1>5, Takes
<1> QED
  BY <1>4, <1>5, <1>6 DEF t

(* An invocation that is given up on: it is one that the execution awaits. *)
LEMMA AwaitedTyped ==
  ASSUME TypeOK, NEW j \in Jobs, NEW who \in Agents \cup {None},
         NEW at \in AtWork \cup {"todo", "asking", "failStage", "stall"}
  PROVE  /\ Invocation(j, who, at) \in Invocations
         /\ Invocation(j, who, at).job = j /\ Invocation(j, who, at).who = who
         /\ Invocation(j, who, at).at = at
<1>1. exec[j].tries \in 0..MaxTries
  BY ExecsTyped DEF Execs
<1> QED
  BY <1>1 DEF Invocation, Invocations

LEMMA GivesUpKeeps ==
  ASSUME Inv, NEW j \in Jobs, Quiet(j), NEW S, late' = late \cup S,
         S \subseteq Invocations, \A i \in S : Leaves(j, i),
         UNCHANGED <<config, incident, stage, rcaStage, findings, accepted, message, rolling>>
  PROVE  Inv'
<1>1. TypeOK'
  BY DEF Inv, TypeOK, findings, config, Quiet, Only, Execs, PCs
<1>2. \A i \in late' \ late : Leaves(j, i)
  OBVIOUS
<1> QED
  BY <1>1, <1>2, QuietKeeps

LEMMA AwaitedLeaves ==
  ASSUME Inv, NEW j \in Jobs, exec[j].pc \in AtWork \cup AtFailure \cup {"consult"},
         exec'[j].pc # "consult", NEW i \in Awaited(j)
  PROVE  i \in Invocations /\ Leaves(j, i)
<1>1. /\ TypeOK /\ message[j].from # "none" /\ exec[j].sub \in [Agents -> {"todo", "asking", "ended"}]
      /\ exec[j].pc \in AtIncident => exec[j].key # None
  BY ExecsTyped DEF Inv, Started, Placed, Execs, AtWork, AtTriage, AtFailure
<1>2. CASE exec[j].pc = "consult"
  <2>1. PICK a \in Agents : exec[j].sub[a] # "ended" /\ i = Invocation(j, a, exec[j].sub[a])
    BY <1>2 DEF Awaited
  <2>2. exec[j].sub[a] \in {"todo", "asking"}
    BY <1>1, <2>1
  <2>3. i \in Invocations /\ i.job = j /\ i.who = a /\ i.at = exec[j].sub[a]
    BY <1>1, <2>1, <2>2, AwaitedTyped
  <2>4. LateOK(i)
    BY <1>1, <1>2, <2>3 DEF LateOK, AtIncident, PCs
  <2> QED
    BY <1>2, <2>1, <2>3, <2>4 DEF Leaves
<1>3. CASE exec[j].pc # "consult"
  <2>1. i = Invocation(j, None, exec[j].pc) /\ exec[j].pc \in AtWork \cup {"failStage", "stall"}
    BY <1>3 DEF Awaited, AtFailure
  <2>2. i \in Invocations /\ i.job = j /\ i.at = exec[j].pc
    BY <1>1, <2>1, AwaitedTyped
  <2>3. i.at \notin {"todo", "asking"}
    BY <2>1, <2>2 DEF AtWork, AtTriage
  <2> QED
    BY <1>1, <2>2, <2>3 DEF Leaves, LateOK
<1> QED
  BY <1>2, <1>3

(* A repeated invocation starts where its handler does, with the incident  *)
(* it had: only triage may not have one.                                   *)
LEMMA FaultKeeps == ASSUME Inv, NEW j \in Jobs, Fault(j) PROVE Inv'
<1>1. TypeOK /\ exec[j] \in Execs
  BY ExecsTyped DEF Inv
<1>2. /\ exec[j].pc \in AtWork \cup AtFailure \cup {"consult"} /\ exec[j].pc # "idle"
  BY DEF Fault, AtWork, AtTriage, AtFailure
<1>3. Quiet(j) /\ exec'[j].pc # "consult"
  <2>1. CASE /\ exec[j].pc \in AtWork \cup AtFailure /\ exec[j].tries < MaxTries
             /\ exec' = [exec EXCEPT ![j].pc = First(@), ![j].tries = @ + 1]
    <3> DEFINE pc == First(exec[j].pc)
               n == exec[j].tries + 1
    <3>1. n \in 0..MaxTries
      BY <1>1, <2>1 DEF Execs
    <3>2. /\ pc \in PCs \ {"consult"}
          /\ pc \in AtIncident => exec[j].pc \in AtIncident
      BY <2>1 DEF First, AtIncident, PCs, AtWork, AtTriage, AtFailure
    <3>3. exec' = [exec EXCEPT ![j].pc = pc, ![j].tries = n]
      BY <2>1
    <3> HIDE DEF pc, n
    <3>4. /\ Only(j) /\ exec'[j].pc = pc
          /\ exec'[j].key = exec[j].key /\ exec'[j].sub = exec[j].sub
      BY <1>1, <3>1, <3>2, <3>3, TriesTo
    <3> QED
      BY <1>2, <3>2, <3>4 DEF Inv, Placed, Started, Quiet
  <2>2. ASSUME NEW pc \in {"failStage", "failed"}, Goes(j, pc)
        PROVE  Quiet(j) /\ exec'[j].pc # "consult"
    <3>1. pc \in PCs \ {"consult"} /\ pc \notin AtIncident
      BY DEF PCs, AtIncident
    <3> QED
      BY <1>1, <1>2, <2>2, <3>1, GoesQuietly, GoesTo
  <2> QED
    BY <2>1, <2>2 DEF Fault
<1>4. \A i \in Awaited(j) : i \in Invocations /\ Leaves(j, i)
  BY <1>2, <1>3, AwaitedLeaves
<1> QED
  BY <1>3, <1>4, GivesUpKeeps DEF Fault, GivesUp

LEMMA SubAgentFaultKeeps ==
  ASSUME Inv, NEW j \in Jobs, NEW a \in Agents, SubAgentFault(j, a) PROVE Inv'
<1> DEFINE i == Invocation(j, a, exec[j].sub[a])
<1>1. /\ TypeOK /\ exec[j] \in Execs /\ exec[j].pc = "consult"
      /\ exec[j].sub \in [Agents -> {"todo", "asking", "ended"}]
  BY ExecsTyped DEF Inv, SubAgentFault, Execs
<1>2. exec[j].key # None /\ message[j].from # "none"
  BY <1>1, ActorTyped DEF AtIncident, PCs
<1>3. PICK s \in {"todo", "ended"} :
        /\ Only(j) /\ exec'[j].pc = exec[j].pc /\ exec'[j].key = exec[j].key
        /\ exec'[j].sub = [exec[j].sub EXCEPT ![a] = s]
  <2>1. CASE /\ exec[j].tries < MaxTries
             /\ exec' = [exec EXCEPT ![j].sub[a] = "todo", ![j].tries = @ + 1]
    <3> DEFINE n == exec[j].tries + 1
    <3>1. n \in 0..MaxTries
      BY <1>1, <2>1 DEF Execs
    <3>2. exec' = [exec EXCEPT ![j].sub[a] = "todo", ![j].tries = n]
      BY <2>1
    <3> HIDE DEF n
    <3> QED
      BY <1>1, <3>1, <3>2, SubTo
  <2>2. CASE exec' = [exec EXCEPT ![j].sub[a] = "ended"]
    <3>1. 0 \in 0..MaxTries
      OBVIOUS
    <3> QED
      BY <1>1, <2>2, <3>1, SubTo
  <2> QED
    BY <2>1, <2>2 DEF SubAgentFault
<1>4. Quiet(j)
  BY <1>1, <1>2, <1>3 DEF Quiet
<1>5. exec[j].sub[a] \in {"todo", "asking"}
  BY <1>1 DEF SubAgentFault
<1>6. i \in Invocations /\ i.job = j /\ i.who = a /\ i.at = exec[j].sub[a]
  BY <1>1, <1>5, AwaitedTyped
<1>7. LateOK(i)
  BY <1>2, <1>6 DEF LateOK
<1>8. i.at = "asking" => i = Invocation(j, i.who, "asking")
  BY <1>6
<1>9. exec'[j].sub[a] # "asking"
  BY <1>1, <1>3
<1> HIDE DEF i
<1>10. Leaves(j, i)
  BY <1>1, <1>6, <1>7, <1>8, <1>9 DEF Leaves
<1> DEFINE S == {i}
<1>11. late' = late \cup S
  BY DEF SubAgentFault, GivesUp, i
<1>12. S \subseteq Invocations /\ \A n \in S : Leaves(j, n)
  BY <1>6, <1>10
<1> HIDE DEF S
<1>13. UNCHANGED <<config, incident, stage, rcaStage, findings, accepted, message, rolling>>
  BY DEF SubAgentFault
<1> QED
  BY <1>4, <1>11, <1>12, <1>13, GivesUpKeeps

LEMMA FailStageKeeps == ASSUME Inv, NEW j \in Jobs, FailStage(j) PROVE Inv'
<1>1. CASE Goes(j, "failed") /\ UNCHANGED stage
  <2>1. Quiet(j)
    BY <1>1, GoesQuietly DEF FailStage, PCs, AtIncident
  <2> QED
    BY <1>1, <2>1, SameIncidents DEF FailStage, Rest
<1>2. CASE Fails(exec[j].key) /\ exec' = [exec EXCEPT ![j].pc = "stall"]
  <2>1. TypeOK /\ exec[j].key \in AllKeys \cup {None} /\ "stall" \in PCs
    BY ExecsTyped DEF Inv, Execs, PCs
  <2>2. /\ Only(j) /\ exec'[j].pc = "stall"
        /\ exec'[j].key = exec[j].key /\ exec'[j].sub = exec[j].sub
    BY <1>2, <2>1, MovesTo
  <2>3. message[j].from # "none"
    BY DEF Inv, Started, FailStage
  <2>4. Quiet(j)
    BY <2>2, <2>3 DEF Quiet, AtIncident
  <2>5. stage' \in [AllKeys -> {"none", "running", "succeeded", "failed", "stalled"}]
    <3> DEFINE k == exec[j].key
    <3>1. Fails(k) /\ k \in AllKeys \cup {None}
      BY <1>2, <2>1
    <3> HIDE DEF k
    <3> QED
      BY <2>1, <3>1 DEF TypeOK, Fails, Closes, Transition
  <2>6. TypeOK'
    BY <2>1, <2>2, <2>5 DEF TypeOK, FailStage, findings, Only, config, Execs, PCs
  <2> QED
    BY <2>4, <2>6, QuietKeeps DEF FailStage
<1> QED
  BY <1>1, <1>2 DEF FailStage

LEMMA StallsTyped ==
  ASSUME Inv, NEW k \in AllKeys \cup {None}, Stalls(k) \/ UNCHANGED incident
  PROVE  /\ incident' \in [AllKeys -> Statuses]
         /\ \A i \in AllKeys : incident[i] # "none" => incident'[i] # "none"
BY DEF Inv, TypeOK, Stalls, Statuses

LEMMA StallIncidentKeeps == ASSUME Inv, NEW j \in Jobs, StallIncident(j) PROVE Inv'
<1>1. exec[j].key \in AllKeys \cup {None}
  BY ExecsTyped DEF Inv, Execs
<1>2. Quiet(j)
  BY GoesQuietly DEF StallIncident, AtIncident, PCs
<1> QED
  BY <1>1, <1>2, StallsTyped, WritesKeep DEF StallIncident, Rest

-----------------------------------------------------------------------------
(* Whoever wins an incident is the first: an execution with the same one   *)
(* would have found it there.  The execution had none, so that nothing of  *)
(* it was at an incident.                                                  *)
LEMMA WinKeeps ==
  ASSUME Inv, NEW j \in Jobs, NEW k \in AllKeys, k = Correlates(j), Won(k),
         message[j].from # "none", incident' = [incident EXCEPT ![k] = "triaged"],
         Only(j), exec'[j].key = k, exec'[j].pc \in {"openStage", exec[j].pc},
         late' \subseteq Invocations,
         \A i \in late' \ late : i.job = j /\ i.at = "openStage",
         UNCHANGED <<config, stage, rcaStage, findings, accepted, message, rolling>>
  PROVE  Inv'
<1>1. /\ TypeOK /\ exec \in [Jobs -> Execs] /\ exec' \in [Jobs -> Execs]
      /\ incident[k] = "none" /\ k # None
  BY ExecsTyped DEF Inv, Only, Won, AllKeys
<1>2. TypeOK'
  BY <1>1 DEF TypeOK, findings, config, Statuses, Execs, PCs
<1>3. \A l \in Jobs : exec[l].key # k
  BY <1>1 DEF Inv, Opened
<1>4. exec[j].key = None
  BY <1>3 DEF Inv, OfMessage
<1>5. exec[j].pc \notin AtIncident
  BY <1>4 DEF Inv, Placed
<1>6. \A l \in Jobs \ {j} : exec'[l] = exec[l]
  BY DEF Only
<1>7. SingleInvestigation'
  BY <1>3, <1>6 DEF Inv, SingleInvestigation
<1>8. \A l \in Jobs : Placed(l)' /\ Addressed(l)'
  BY <1>1, <1>6 DEF Inv, Placed, Addressed
<1>9. ASSUME NEW l \in Jobs PROVE Opened(l)'
  <2>1. CASE l = j
    BY <1>1, <2>1 DEF Opened, TypeOK
  <2>2. CASE l # j
    <3>1. exec'[l].key = exec[l].key /\ exec[l].key \in AllKeys \cup {None}
      BY <1>1, <1>6, <2>2 DEF Execs
    <3> QED
      BY <1>1, <3>1 DEF Inv, Opened, TypeOK
  <2> QED
    BY <2>1, <2>2
<1>10. \A l \in Jobs : Started(l)' /\ OfMessage(l)'
  BY <1>6 DEF Inv, Started, OfMessage, Correlates, HasAlert
<1>11. ASSUME NEW i \in late' PROVE LateOK(i)'
  <2>1. i.job \in Jobs
    BY DEF Invocations
  <2>2. CASE i.job = j
    <3>1. i.at \in {"todo", "asking"} => i.who \in Agents
      BY DEF Inv, LateOK
    <3> QED
      BY <1>1, <2>2, <3>1 DEF LateOK
  <2>3. CASE i.job # j
    <3>1. LateOK(i)
      BY <2>3 DEF Inv
    <3> QED
      BY <1>6, <2>1, <2>3, <3>1 DEF LateOK
  <2> QED
    BY <2>2, <2>3
<1>12. ASSUME NEW x \in AllKeys, NEW a \in Agents PROVE Calm(x, a)
  <2>1. exec'[j].pc # "consult"
    BY <1>5 DEF AtIncident, PCs
  <2>2. Awaits(x, a)' => Awaits(x, a)
    BY <1>6, <2>1 DEF Awaits
  <2>3. ASSUME NEW i \in Invocations, LateAsker(i, x, a)' PROVE LateAsker(i, x, a)
    <3>1. i \in late /\ i.at = "asking" /\ i.job \in Jobs
      BY <2>3 DEF LateAsker, Invocations
    <3>2. LateOK(i)
      BY <3>1 DEF Inv
    <3>3. i.job # j
      BY <1>4, <3>1, <3>2 DEF LateOK
    <3> QED
      BY <1>6, <2>3, <3>1, <3>3 DEF LateAsker
  <2> QED
    BY <2>2, <2>3 DEF Calm
<1>13. \A x \in AllKeys, a \in Agents : OverlapOK(x, a)'
  BY <1>1, <1>2, <1>12, CalmKeeps DEF Inv, findings
<1> QED
  BY <1>2, <1>7, <1>8, <1>9, <1>10, <1>11, <1>13 DEF Inv

LEMMA CorrelatesTyped ==
  ASSUME Inv, NEW j \in Jobs PROVE Correlates(j) \in AllKeys
BY DEF Inv, Addressed, Correlates, HasAlert, AllKeys

LEMMA TriageKeeps == ASSUME Inv, NEW j \in Jobs, Triage(j) PROVE Inv'
<1> DEFINE k == Correlates(j)
           d == [exec[j] EXCEPT !.pc = "openStage"]
           e == [d EXCEPT !.key = k]
<1>1. /\ TypeOK /\ exec \in [Jobs -> Execs] /\ "openStage" \in PCs
      /\ "done" \in PCs \ AtIncident /\ "done" # "consult"
      /\ message[j].from # "none" /\ k \in AllKeys
  BY ExecsTyped, CorrelatesTyped
  DEF Inv, Started, Triage, PCs, AtWork, AtTriage, AtIncident
<1>2. CASE exec' = [exec EXCEPT ![j].pc = "done"] /\ UNCHANGED incident
  <2>1. Quiet(j)
    BY <1>1, <1>2, MovesTo DEF Quiet
  <2> QED
    BY <1>2, <2>1, SameIncidents DEF Triage, Rest
<1>3. CASE /\ Won(k) /\ incident' = [incident EXCEPT ![k] = "triaged"]
           /\ exec' = [exec EXCEPT ![j].pc = "openStage", ![j].key = k]
  <2>1. d \in Execs /\ d.pc = "openStage"
    BY <1>1, ExecTyped
  <2>2. exec' = [exec EXCEPT ![j] = e]
    BY <1>3
  <2> HIDE DEF d
  <2>3. e \in Execs /\ e.pc = "openStage" /\ e.key = k
    BY <1>1, <2>1, KeyTyped
  <2> HIDE DEF e
  <2>4. Only(j) /\ exec'[j].pc = "openStage" /\ exec'[j].key = k
    BY <1>1, <2>2, <2>3, Takes
  <2>5. late' \subseteq Invocations /\ late' \ late = {}
    BY <1>1 DEF Triage, TypeOK
  <2>6. UNCHANGED <<config, stage, rcaStage, findings, accepted, message, rolling>>
    BY DEF Triage
  <2> QED
    BY <1>1, <1>3, <2>4, <2>5, <2>6, WinKeeps
<1> QED
  BY <1>2, <1>3 DEF Triage

-----------------------------------------------------------------------------
(* A sub-agent and its finding. *)
LEMMA ConsultKeeps ==
  ASSUME Inv, TypeOK',
         \A l \in Jobs : exec'[l].pc = exec[l].pc /\ exec'[l].key = exec[l].key,
         \A i \in late' : LateOK(i), UNCHANGED <<incident, message>>,
         \A k \in AllKeys, a \in Agents : OverlapOK(k, a)'
  PROVE  Inv'
<1>1. SingleInvestigation'
  BY DEF Inv, SingleInvestigation
<1>2. ASSUME NEW l \in Jobs PROVE Placed(l)' /\ Opened(l)' /\ Addressed(l)'
  BY DEF Inv, Placed, Opened, Addressed
<1>3. \A l \in Jobs : Started(l)' /\ OfMessage(l)'
  BY DEF Inv, Started, OfMessage, Correlates, HasAlert
<1>4. \A i \in late' : i.job \in Jobs
  BY DEF TypeOK, Invocations
<1>5. \A i \in late' : LateOK(i)'
  BY <1>4 DEF LateOK
<1> QED
  BY <1>1, <1>2, <1>3, <1>5 DEF Inv

(* Who looks and finds nothing asks alone, or overlaps.                    *)
LEMMA LookKeeps ==
  ASSUME TypeOK, TypeOK', NEW k \in AllKeys, NEW a \in Agents, Consults(k, a),
         \/ \A i \in Invocations : LateAsker(i, k, a)' => LateAsker(i, k, a)
         \/ /\ Awaits(k, a)' => Awaits(k, a)
            /\ \E n \in Invocations : \A i \in Invocations :
                 LateAsker(i, k, a)' => LateAsker(i, k, a) \/ i = n
  PROVE  OverlapOK(k, a)'
<1> SUFFICES ASSUME <<k, a>> \notin overlapped' PROVE OneByOne(k, a)'
  BY DEF OverlapOK
<1>1. ~Asking(k, a)
  BY DEF Consults
<1>2. ~Awaits(k, a) /\ \A i \in Invocations : ~LateAsker(i, k, a)
  BY <1>1, AskingIs
<1>3. found[k][a] = 0 /\ found'[k][a] = 0
  BY DEF Consults, Recorded, TypeOK
<1> QED
  BY <1>2, <1>3 DEF OneByOne

(* Who records was the only one to ask, or has overlapped.                 *)
LEMMA RecordKeeps ==
  ASSUME TypeOK, TypeOK', NEW k \in AllKeys, NEW a \in Agents, OverlapOK(k, a),
         UNCHANGED overlapped, found'[k][a] = found[k][a] + 1,
         \A i \in Invocations : LateAsker(i, k, a)' => LateAsker(i, k, a),
         \/ Awaits(k, a) /\ ~Awaits(k, a)'
         \/ /\ Awaits(k, a)' => Awaits(k, a)
            /\ \E n \in Invocations : LateAsker(n, k, a) /\ ~LateAsker(n, k, a)'
  PROVE  OverlapOK(k, a)'
<1> SUFFICES ASSUME <<k, a>> \notin overlapped' PROVE OneByOne(k, a)'
  BY DEF OverlapOK
<1>1. OneByOne(k, a)
  BY DEF OverlapOK
<1>2. Asking(k, a) /\ found[k][a] = 0
  BY <1>1, AskingIs DEF OneByOne
<1>3. ~Awaits(k, a)' /\ \A i \in Invocations : ~LateAsker(i, k, a)'
  BY <1>1 DEF OneByOne
<1>4. ~Asking(k, a)'
  <2>1. Asking(k, a)' <=> Awaits(k, a)' \/ \E i \in Invocations : LateAsker(i, k, a)'
    BY DEF Asking, Awaits, LateAsker, TypeOK
  <2> QED
    BY <1>3, <2>1
<1> QED
  BY <1>2, <1>3, <1>4 DEF OneByOne

LEMMA RecordsTyped ==
  ASSUME TypeOK, NEW k \in AllKeys, NEW a \in Agents, Records(k, a)
  PROVE  /\ found' \in [AllKeys -> [Agents -> Nat]]
         /\ found'[k][a] = found[k][a] + 1 /\ UNCHANGED overlapped
         /\ \A x \in AllKeys, b \in Agents :
              x # k \/ b # a => found'[x][b] = found[x][b]
<1> DEFINE f == [found[k] EXCEPT ![a] = found[k][a] + 1]
<1>1. found \in [AllKeys -> [Agents -> Nat]]
  BY DEF TypeOK
<1>2. found' = [found EXCEPT ![k] = f] /\ UNCHANGED overlapped
  BY DEF Records
<1>3. /\ f \in [Agents -> Nat]
      /\ f[a] = found[k][a] + 1
      /\ \A b \in Agents \ {a} : f[b] = found[k][b]
  BY <1>1
<1> HIDE DEF f
<1> QED
  BY <1>1, <1>2, <1>3

LEMMA ConsultsTyped ==
  ASSUME TypeOK, NEW k \in AllKeys, NEW a \in Agents, Consults(k, a)
  PROVE  /\ UNCHANGED found /\ overlapped \subseteq overlapped'
         /\ overlapped' \subseteq AllKeys \X Agents
BY DEF TypeOK, Consults

LEMMA SubAgentKeeps == ASSUME Inv, NEW j \in Jobs, NEW a \in Agents, SubAgent(j, a) PROVE Inv'
<1> DEFINE S == {"todo", "asking", "ended"}
<1>1. /\ TypeOK /\ exec \in [Jobs -> Execs] /\ exec[j].pc = "consult"
      /\ exec[j].sub \in [Agents -> S]
  BY ExecsTyped DEF Inv, SubAgent, Execs
<1>2. PICK k \in AllKeys : k = exec[j].key /\ k # None /\ message[j].from # "none"
  BY <1>1, ActorTyped DEF AtIncident, PCs
<1>3. \A s \in S : exec' = [exec EXCEPT ![j].sub[a] = s] =>
        /\ Only(j) /\ exec'[j].pc = exec[j].pc /\ exec'[j].key = k
        /\ exec'[j].sub = [exec[j].sub EXCEPT ![a] = s]
  <2>1. 0 \in 0..MaxTries
    OBVIOUS
  <2> QED
    BY <1>1, <1>2, <2>1, SubTo
<1>4. UNCHANGED <<config, incident, stage, rcaStage, accepted, message, late, rolling>>
  BY DEF SubAgent
<1>5. CASE exec' = [exec EXCEPT ![j].sub[a] = "ended"] /\ UNCHANGED findings
  <2>1. Quiet(j)
    BY <1>1, <1>2, <1>3, <1>5 DEF Quiet
  <2> QED
    BY <1>4, <1>5, <2>1, SameIncidents DEF Rest
<1>6. ASSUME NEW s \in {"asking", "ended"}, exec' = [exec EXCEPT ![j].sub[a] = s],
             found' \in [AllKeys -> [Agents -> Nat]],
             \A x \in AllKeys, b \in Agents : x # k \/ b # a => found'[x][b] = found[x][b],
             overlapped \subseteq overlapped', overlapped' \subseteq AllKeys \X Agents,
             TypeOK' => OverlapOK(k, a)'
      PROVE  Inv'
  <2>1. /\ Only(j) /\ exec'[j].pc = exec[j].pc /\ exec'[j].key = k
        /\ exec'[j].sub = [exec[j].sub EXCEPT ![a] = s]
    BY <1>3, <1>6
  <2>2. TypeOK'
    BY <1>1, <1>4, <1>6, <2>1 DEF TypeOK, Only, config, Execs, PCs
  <2>3. \A l \in Jobs : exec'[l].pc = exec[l].pc /\ exec'[l].key = exec[l].key
    BY <1>2, <2>1 DEF Only
  <2>4. ASSUME NEW x \in AllKeys, NEW b \in Agents, x # k \/ b # a PROVE OverlapOK(x, b)'
    <3>1. Awaits(x, b)' => Awaits(x, b)
      BY <1>1, <2>1, <2>3, <2>4 DEF Awaits, Only
    <3>2. \A i \in Invocations : LateAsker(i, x, b)' => LateAsker(i, x, b)
      BY <1>4, <2>3 DEF LateAsker, Invocations
    <3>3. Calm(x, b)
      BY <3>1, <3>2 DEF Calm
    <3> QED
      BY <1>1, <1>6, <2>2, <2>4, <3>3, CalmKeeps DEF Inv
  <2>5. \A i \in late' : LateOK(i)
    BY <1>4 DEF Inv
  <2> QED
    BY <1>4, <1>6, <2>2, <2>3, <2>4, <2>5, ConsultKeeps
<1>7. CASE Consults(k, a) /\ exec' = [exec EXCEPT ![j].sub[a] = "asking"]
  <2>1. \A i \in Invocations : LateAsker(i, k, a)' => LateAsker(i, k, a)
    BY <1>2, <1>3, <1>4, <1>7 DEF LateAsker, Invocations, Only
  <2>2. TypeOK' => OverlapOK(k, a)'
    BY <1>1, <1>2, <1>7, <2>1, LookKeeps
  <2> QED
    BY <1>1, <1>2, <1>6, <1>7, <2>2, ConsultsTyped DEF TypeOK
<1>8. CASE /\ exec[j].sub[a] = "asking" /\ Records(k, a)
           /\ exec' = [exec EXCEPT ![j].sub[a] = "ended"]
  <2>1. /\ Only(j) /\ exec'[j].key = k /\ exec'[j].sub[a] = "ended"
        /\ \A l \in Jobs : exec'[l].key = exec[l].key
    BY <1>1, <1>3, <1>8 DEF Only
  <2>2. \A i \in Invocations : LateAsker(i, k, a)' => LateAsker(i, k, a)
    BY <1>4, <2>1 DEF LateAsker, Invocations
  <2>3. Awaits(k, a) /\ ~Awaits(k, a)'
    <3>1. \A l \in Jobs : exec'[l].key = k => l = j
      BY <1>2, <2>1 DEF Inv, SingleInvestigation
    <3> QED
      BY <1>1, <1>8, <2>1, <3>1 DEF Awaits
  <2>4. /\ found' \in [AllKeys -> [Agents -> Nat]]
        /\ found'[k][a] = found[k][a] + 1 /\ UNCHANGED overlapped
        /\ \A x \in AllKeys, b \in Agents :
             x # k \/ b # a => found'[x][b] = found[x][b]
    BY <1>1, <1>2, <1>8, RecordsTyped
  <2>5. OverlapOK(k, a)
    BY <1>2 DEF Inv
  <2>6. TypeOK' => OverlapOK(k, a)'
    BY <1>1, <1>2, <2>2, <2>3, <2>4, <2>5, RecordKeeps
  <2> QED
    BY <1>1, <1>6, <1>8, <2>4, <2>6 DEF TypeOK
<1> QED
  BY <1>2, <1>5, <1>7, <1>8 DEF SubAgent

-----------------------------------------------------------------------------
(* The invocations that nobody awaits. *)
LEMMA LateTyped ==
  ASSUME Inv, NEW i \in late
  PROVE  /\ i \in Invocations /\ i.job \in Jobs /\ LateOK(i) /\ message[i.job].from # "none"
         /\ exec[i.job].key \in AllKeys \cup {None}
         /\ i.at \in AtIncident \cup {"todo", "asking"} => exec[i.job].key \in AllKeys
         /\ i.at \in {"todo", "asking"} => i.who \in Agents
BY ExecsTyped DEF Inv, TypeOK, LateOK, Invocations, Execs

LEMMA ThenTyped ==
  ASSUME NEW i \in Invocations,
         NEW at \in AtWork \cup {"todo", "asking", "failStage", "stall"}
  PROVE  /\ [i EXCEPT !.at = at] \in Invocations
         /\ [i EXCEPT !.at = at].job = i.job /\ [i EXCEPT !.at = at].at = at
         /\ [i EXCEPT !.at = at].who = i.who
BY DEF Invocations

LEMMA LateKeeps ==
  ASSUME Inv, NEW i \in late, UNCHANGED <<config, findings, accepted, message, exec, rolling>>,
         incident' \in [AllKeys -> Statuses],
         \A k \in AllKeys : incident[k] # "none" => incident'[k] # "none",
         stage' \in [AllKeys -> {"none", "running", "succeeded", "failed", "stalled"}],
         rcaStage' \subseteq AllKeys,
         \/ Last(i)
         \/ Then(i, "stall")
         \/ /\ exec[i.job].key \in AllKeys
            /\ \E at \in {"closeStage", "investigate", "writeRca"} : Then(i, at)
  PROVE  Inv'
<1>1. TypeOK /\ i \in Invocations /\ i.job \in Jobs /\ message[i.job].from # "none"
  BY LateTyped DEF Inv
<1>2. late' \subseteq Invocations /\ \A n \in late' \ late : Leaves(i.job, n)
  <2>1. CASE Last(i)
    BY <1>1, <2>1 DEF Last, TypeOK
  <2>2. CASE \/ Then(i, "stall")
             \/ /\ exec[i.job].key \in AllKeys
                /\ \E at \in {"closeStage", "investigate", "writeRca"} : Then(i, at)
    <3>1. PICK at \in {"closeStage", "investigate", "stall", "writeRca"} :
            Then(i, at) /\ (at # "stall" => exec[i.job].key \in AllKeys)
      BY <2>2
    <3> DEFINE n == [i EXCEPT !.at = at]
    <3>2. at \in AtWork \cup {"todo", "asking", "failStage", "stall"}
      BY DEF AtWork, AtTriage
    <3>3. n \in Invocations /\ n.job = i.job /\ n.at = at
      BY <1>1, <3>2, ThenTyped
    <3>4. late' = (late \ {i}) \cup {n}
      BY <3>1 DEF Then
    <3> HIDE DEF n
    <3>5. n.at # "asking" /\ n.at # "todo" /\ (n.at \in AtIncident => exec[i.job].key # None)
      BY <3>1, <3>3 DEF AllKeys, AtIncident
    <3>6. Leaves(i.job, n)
      BY <1>1, <3>3, <3>5 DEF Leaves, LateOK
    <3> QED
      BY <1>1, <3>3, <3>4, <3>6 DEF TypeOK
  <2> QED
    BY <2>1, <2>2
<1>3. TypeOK'
  BY <1>1, <1>2 DEF TypeOK, config, findings
<1> QED
  BY <1>1, <1>2, <1>3, QuietKeeps

LEMMA LateStageKeeps == ASSUME Inv, NEW i \in late, LateStage(i) PROVE Inv'
<1> DEFINE k == exec[i.job].key
<1>1. k \in AllKeys \cup {None} /\ (i.at # "failStage" => k \in AllKeys)
  BY LateTyped DEF LateStage, AtIncident, PCs, AtWork, AtTriage
<1>2. TypeOK
  BY DEF Inv
<1>3. stage' \in [AllKeys -> {"none", "running", "succeeded", "failed", "stalled"}]
  <2>1. \/ Opens(k) /\ k \in AllKeys
        \/ Closes(k, "succeeded") /\ k \in AllKeys
        \/ Fails(k)
    BY <1>1 DEF LateStage
  <2> HIDE DEF k
  <2> QED
    BY <1>1, <1>2, <2>1 DEF TypeOK, Opens, Fails, Closes, Transition
<1>4. \/ Then(i, "stall")
      \/ k \in AllKeys /\ \E at \in {"closeStage", "investigate", "writeRca"} : Then(i, at)
  BY <1>1 DEF LateStage
<1> QED
  BY <1>2, <1>3, <1>4, LateKeeps DEF LateStage, TypeOK

LEMMA AdvancesTyped ==
  ASSUME TypeOK, NEW k \in AllKeys, NEW s \in Statuses \ {"none"},
         Advances(k, s) \/ Investigates(k)
  PROVE  /\ incident' \in [AllKeys -> Statuses]
         /\ \A x \in AllKeys : incident[x] # "none" => incident'[x] # "none"
BY DEF TypeOK, Advances, Investigates, Statuses

LEMMA LateStatusKeeps == ASSUME Inv, NEW i \in late, LateStatus(i) PROVE Inv'
<1> DEFINE k == exec[i.job].key
<1>1. k \in AllKeys \cup {None} /\ (i.at # "stall" => k \in AllKeys)
  BY LateTyped DEF LateStatus, AtIncident, PCs, AtWork, AtTriage
<1>2. TypeOK
  BY DEF Inv
<1>3. \/ Stalls(k)
      \/ k \in AllKeys /\ \E s \in Statuses \ {"none"} : Advances(k, s) \/ Investigates(k)
  BY <1>1 DEF LateStatus, Statuses
<1>4. /\ incident' \in [AllKeys -> Statuses]
      /\ \A x \in AllKeys : incident[x] # "none" => incident'[x] # "none"
  BY <1>1, <1>2, <1>3, AdvancesTyped, StallsTyped
<1> QED
  BY <1>2, <1>4, LateKeeps DEF LateStatus, TypeOK

LEMMA LateEndsKeeps == ASSUME Inv, NEW i \in late, LateEnds(i) PROVE Inv'
BY LateKeeps DEF LateEnds, Inv, TypeOK

LEMMA LateRootCauseKeeps == ASSUME Inv, NEW i \in late, LateRootCause(i) PROVE Inv'
<1>1. exec[i.job].key \in AllKeys
  BY LateTyped DEF LateRootCause, AtIncident, PCs, AtWork
<1>2. TypeOK
  BY DEF Inv
<1> QED
  BY <1>1, <1>2, LateKeeps DEF LateRootCause, TypeOK

LEMMA LateTriageKeeps == ASSUME Inv, NEW i \in late, LateTriage(i) PROVE Inv'
<1> DEFINE j == i.job
           k == Correlates(j)
           e == [exec[j] EXCEPT !.key = k]
           n == [i EXCEPT !.at = "openStage"]
<1>1. /\ TypeOK /\ i \in Invocations /\ j \in Jobs /\ message[j].from # "none"
      /\ exec[j] \in Execs
  BY LateTyped, ExecsTyped DEF Inv
<1>2. k \in AllKeys
  BY <1>1, CorrelatesTyped
<1>3. exec' = [exec EXCEPT ![j] = e]
  BY DEF LateTriage
<1>4. Won(k) /\ incident' = [incident EXCEPT ![k] = "triaged"]
  BY DEF LateTriage
<1>5. late' = (late \ {i}) \cup {n}
  BY DEF LateTriage, Then
<1>6. n \in Invocations /\ n.job = j /\ n.at = "openStage"
  BY <1>1, ThenTyped DEF AtWork, AtTriage
<1> HIDE DEF n
<1>7. /\ late' \subseteq Invocations
      /\ \A m \in late' \ late : m.job = j /\ m.at = "openStage"
  BY <1>1, <1>5, <1>6 DEF TypeOK
<1> HIDE DEF j
<1>8. e \in Execs /\ e.pc = exec[j].pc /\ e.key = k
  BY <1>1, <1>2, KeyTyped
<1> HIDE DEF e
<1>9. Only(j) /\ exec'[j].pc = exec[j].pc /\ exec'[j].key = k
  BY <1>1, <1>3, <1>8, Takes
<1>10. UNCHANGED <<config, stage, rcaStage, findings, accepted, message, rolling>>
  BY DEF LateTriage
<1> QED
  BY <1>1, <1>2, <1>4, <1>7, <1>9, <1>10, WinKeeps

LEMMA LateSubAgentKeeps == ASSUME Inv, NEW i \in late, LateSubAgent(i) PROVE Inv'
<1>0. exec[i.job].key \in AllKeys /\ i.who \in Agents
  BY LateTyped DEF LateSubAgent
<1> PICK k \in AllKeys, a \in Agents : k = exec[i.job].key /\ a = i.who
  BY <1>0
<1>1. /\ TypeOK /\ i \in Invocations /\ i.job \in Jobs /\ LateOK(i) /\ k # None
  BY LateTyped DEF Inv, AllKeys
<1>2. UNCHANGED <<config, incident, stage, rcaStage, accepted, message, exec, rolling>>
  BY DEF LateSubAgent
<1>3. \A x, b : Awaits(x, b)' <=> Awaits(x, b)
  BY <1>2 DEF Awaits
<1>4. ASSUME late' \subseteq Invocations, \A n \in late' : LateOK(n),
             \A n \in late' \ late : n.job = i.job /\ n.who = a,
             found' \in [AllKeys -> [Agents -> Nat]],
             \A x \in AllKeys, b \in Agents : x # k \/ b # a => found'[x][b] = found[x][b],
             overlapped \subseteq overlapped', overlapped' \subseteq AllKeys \X Agents,
             TypeOK' => OverlapOK(k, a)'
      PROVE  Inv'
  <2>1. TypeOK'
    BY <1>1, <1>2, <1>4 DEF TypeOK, config
  <2>2. ASSUME NEW x \in AllKeys, NEW b \in Agents, x # k \/ b # a PROVE OverlapOK(x, b)'
    <3>1. \A n \in Invocations : LateAsker(n, x, b)' => LateAsker(n, x, b)
      BY <1>2, <1>4, <2>2 DEF LateAsker
    <3>2. Calm(x, b)
      BY <1>3, <3>1 DEF Calm
    <3> QED
      BY <1>1, <1>4, <2>1, <2>2, <3>2, CalmKeeps DEF Inv
  <2> QED
    BY <1>2, <1>4, <2>1, <2>2, ConsultKeeps
<1>5. CASE i.at = "todo" /\ Consults(k, a) /\ Then(i, "asking")
  <2> DEFINE m == [i EXCEPT !.at = "asking"]
  <2>1. m \in Invocations /\ m.job = i.job /\ m.who = a /\ m.at = "asking"
    BY <1>1, ThenTyped
  <2>2. late' = (late \ {i}) \cup {m}
    BY <1>5 DEF Then
  <2> HIDE DEF m
  <2>3. LateOK(m)
    BY <1>1, <2>1 DEF LateOK
  <2>4. \A n \in Invocations : LateAsker(n, k, a)' => LateAsker(n, k, a) \/ n = m
    BY <1>2, <2>2 DEF LateAsker
  <2>5. TypeOK' => OverlapOK(k, a)'
    BY <1>1, <1>3, <1>5, <2>1, <2>4, LookKeeps
  <2>6. late' \subseteq Invocations /\ \A n \in late' : LateOK(n)
    BY <1>1, <2>1, <2>2, <2>3 DEF Inv, TypeOK
  <2>7. /\ UNCHANGED found /\ overlapped \subseteq overlapped'
        /\ overlapped' \subseteq AllKeys \X Agents
    BY <1>1, <1>5, ConsultsTyped
  <2>8. \A n \in late' \ late : n.job = i.job /\ n.who = a
    BY <2>1, <2>2
  <2>9. found' \in [AllKeys -> [Agents -> Nat]]
    BY <1>1, <2>7 DEF TypeOK
  <2> QED
    BY <1>4, <1>5, <2>5, <2>6, <2>7, <2>8, <2>9
<1>6. CASE i.at = "asking" /\ Records(k, a) /\ Last(i)
  <2>1. late' = late \ {i}
    BY <1>6 DEF Last
  <2>2. \A n \in Invocations : LateAsker(n, k, a)' => LateAsker(n, k, a)
    BY <1>2, <2>1 DEF LateAsker
  <2>3. LateAsker(i, k, a) /\ ~LateAsker(i, k, a)'
    BY <1>6, <2>1 DEF LateAsker
  <2>4. /\ found' \in [AllKeys -> [Agents -> Nat]]
        /\ found'[k][a] = found[k][a] + 1 /\ UNCHANGED overlapped
        /\ \A x \in AllKeys, b \in Agents :
             x # k \/ b # a => found'[x][b] = found[x][b]
    BY <1>1, <1>6, RecordsTyped
  <2>5. OverlapOK(k, a)
    BY <1>1, <1>6 DEF Inv
  <2>6. TypeOK' => OverlapOK(k, a)'
    BY <1>1, <1>3, <1>6, <2>2, <2>3, <2>4, <2>5, RecordKeeps
  <2>7. /\ late' \subseteq Invocations /\ \A n \in late' : LateOK(n)
        /\ \A n \in late' \ late : n.job = i.job /\ n.who = a
    BY <1>1, <2>1 DEF Inv, TypeOK
  <2> QED
    BY <1>1, <1>4, <1>6, <2>4, <2>6, <2>7 DEF TypeOK
<1> QED
  BY <1>5, <1>6 DEF LateSubAgent

LEMMA LateStepKeeps == ASSUME Inv, NEW i \in late, LateStep(i) PROVE Inv'
BY LateEndsKeeps, LateTriageKeeps, LateStageKeeps, LateSubAgentKeeps, LateRootCauseKeeps,
   LateStatusKeeps
DEF LateStep

-----------------------------------------------------------------------------
(* The steps of the others. *)
LEMMA OtherKeeps ==
  ASSUME Inv, TypeOK', UNCHANGED <<exec, findings, late>>, UNCHANGED message \/ Posted,
         \A k \in AllKeys : incident[k] # "none" => incident'[k] # "none"
  PROVE  Inv'
<1>1. CASE Jobs = {}
  <2>1. late = {} /\ late' = {}
    BY <1>1 DEF Inv, TypeOK, Invocations
  <2> QED
    BY <1>1, <2>1 DEF Inv, SingleInvestigation, OverlapOK, OneByOne, Asking, LateAsker, findings
<1>2. CASE Jobs # {}
  BY <1>2, QuietKeeps
<1> QED
  BY <1>1, <1>2

LEMMA AcceptKeeps == ASSUME Inv, NEW k \in Keys, Accept(k) PROVE Inv'
<1>1. TypeOK /\ k \in AllKeys
  BY DEF Inv, AllKeys
<1>2. TypeOK'
  BY <1>1 DEF TypeOK, Accept, findings, config, Statuses
<1>3. \A i \in AllKeys : incident[i] # "none" => incident'[i] # "none"
  BY <1>1 DEF TypeOK, Accept
<1> QED
  BY <1>2, <1>3, OtherKeeps DEF Accept

LEMMA EnqueueKeeps ==
  ASSUME Inv, NEW k \in Keys, NEW j \in Jobs, Enqueue(k, j) \/ EnqueueDirect(k, j)
  PROVE  Inv'
<1>1. TypeOK
  BY DEF Inv
<1> DEFINE Sent == [from : {"web", "direct"}, key : Keys, named : BOOLEAN]
<1>2. PICK m \in Sent : message' = [message EXCEPT ![j] = m] \/ UNCHANGED message
  <2> DEFINE mail(from, named) == [from |-> from, key |-> k, named |-> named]
  <2>1. \A from \in {"web", "direct"}, named \in BOOLEAN : mail(from, named) \in Sent
    OBVIOUS
  <2>2. \E from \in {"web", "direct"}, named \in BOOLEAN :
          message' = [message EXCEPT ![j] = mail(from, named)] \/ UNCHANGED message
    BY DEF Enqueue, EnqueueDirect
  <2> HIDE DEF mail, Sent
  <2> QED
    BY <2>1, <2>2
<1>3. /\ accepted' \subseteq accepted
      /\ message[j].from = "none"
      /\ UNCHANGED <<config, incident, stage, rcaStage, findings, exec, late, rolling>>
  BY DEF Enqueue, EnqueueDirect
<1>4. TypeOK'
  <2>1. m \in [from : {"none", "web", "direct"}, key : Keys \cup {None}, named : BOOLEAN]
    OBVIOUS
  <2> HIDE DEF Sent
  <2> QED
    BY <1>1, <1>2, <1>3, <2>1 DEF TypeOK, findings, config
<1>5. Posted
  BY <1>1, <1>2, <1>3 DEF Inv, Addressed, Posted, TypeOK
<1> QED
  BY <1>3, <1>4, <1>5, OtherKeeps

LEMMA WatchdogKeeps ==
  ASSUME Inv, NEW k \in AllKeys, StallStage(k) \/ Roll(k)
  PROVE  Inv'
<1>1. TypeOK
  BY DEF Inv
<1>2. CASE StallStage(k)
  <2>1. TypeOK'
    BY <1>1, <1>2 DEF TypeOK, StallStage, Closes, findings, Transition, config
  <2> QED
    BY <1>2, <2>1, OtherKeeps DEF StallStage
<1>3. CASE Roll(k)
  <2>1. /\ incident' \in [AllKeys -> Statuses]
        /\ \A i \in AllKeys : incident[i] # "none" => incident'[i] # "none"
    BY <1>3, StallsTyped DEF Roll
  <2>2. TypeOK'
    BY <1>1, <1>3, <2>1 DEF TypeOK, Roll, findings, config
  <2> QED
    BY <1>3, <2>1, <2>2, OtherKeeps DEF Roll
<1> QED
  BY <1>2, <1>3

LEMMA StepKeeps == ASSUME Inv, NEW j \in Jobs, Step(j) PROVE Inv'
BY StartKeeps, SkipKeeps, TriageKeeps, OpenStageKeeps, CloseStageKeeps, InvestigateKeeps,
   LeadKeeps, EndConsultKeeps, RootCauseKeeps, WriteRcaKeeps, MitigationPlanKeeps,
   PreventionKeeps, FaultKeeps, FailStageKeeps, StallIncidentKeeps, SubAgentKeeps,
   SubAgentFaultKeeps, EnqueueKeeps
DEF Step

LEMMA NextKeeps == Inv /\ [Next]_vars => Inv'
<1> SUFFICES ASSUME Inv, [Next]_vars PROVE Inv'
  OBVIOUS
<1>1. CASE Next
  BY <1>1, StepKeeps, LateStepKeeps, AcceptKeeps, WatchdogKeeps DEF Next
<1>2. CASE UNCHANGED vars
  <2>1. TypeOK'
    BY <1>2 DEF Inv, TypeOK, findings, config, vars
  <2> QED
    BY <1>2, <2>1, OtherKeeps DEF vars, findings
<1> QED
  BY <1>1, <1>2

LEMMA InitOK == Init => Inv
<1> SUFFICES ASSUME Init PROVE Inv
  OBVIOUS
<1>1. NotStarted \in Execs
  BY DEF NotStarted, Execs, PCs
<1>2. TypeOK
  BY <1>1 DEF Init, TypeOK, Statuses, Execs, PCs
<1>3. \A j \in Jobs : exec[j] = NotStarted /\ exec[j].pc = "idle" /\ exec[j].key = None
  BY DEF Init, NotStarted
<1>4. \A j \in Jobs : Placed(j) /\ Opened(j) /\ Addressed(j) /\ Started(j) /\ OfMessage(j)
  BY <1>3 DEF Placed, Opened, Addressed, Started, OfMessage, AtIncident, Init
<1>5. \A k \in AllKeys, a \in Agents : OverlapOK(k, a)
  BY <1>3 DEF OverlapOK, OneByOne, Asking, LateAsker, Init
<1> QED
  BY <1>2, <1>3, <1>4, <1>5 DEF Inv, SingleInvestigation, Init

LEMMA Invariant == Spec => []Inv
BY InitOK, NextKeeps, PTL DEF Spec

-----------------------------------------------------------------------------
(* Every variable keeps its type, through retries and failures of any      *)
(* stage (the tables of the incident lifecycle, the state of an execution).*)
THEOREM TypeCorrect == Spec => []TypeOK
BY Invariant, PTL DEF Inv

(* Two executions never investigate one incident, however many alerts and  *)
(* jobs of one condition there are and however often they are retried      *)
(* (_dedup_insert).                                                        *)
THEOREM OneInvestigates == Spec => []SingleInvestigation
BY Invariant, PTL DEF Inv

(* A second finding of a sub-agent takes two invocations that consulted at *)
(* once: the look at what is recorded covers every other repetition, for   *)
(* any number of retries and of invocations that nobody awaits             *)
(* (subagent._already_recorded).                                           *)
THEOREM RepeatNeedsOverlap == Spec => []SecondNeedsOverlap
<1>1. Inv => SecondNeedsOverlap
  BY DEF Inv, TypeOK, SecondNeedsOverlap, OverlapOK, OneByOne
<1> QED
  BY <1>1, Invariant, PTL

-----------------------------------------------------------------------------
(* What is settled. *)
Settled ==
  \A k \in AllKeys :
    /\ incident[k] = "stalled" => incident'[k] = "stalled"
    /\ stage[k] \notin {"none", "running"} => stage'[k] = stage[k]

LEMMA StageSettled ==
  ASSUME TypeOK, NEW k, NEW s, Opens(k) \/ Closes(k, s) \/ Fails(k), UNCHANGED incident
  PROVE  Settled
BY DEF TypeOK, Settled, Opens, Fails, Closes, Transition

LEMMA StatusSettled ==
  ASSUME TypeOK, NEW k, NEW s, Investigates(k) \/ Advances(k, s) \/ Stalls(k),
         UNCHANGED stage
  PROVE  Settled
BY DEF TypeOK, Settled, Investigates, Advances, Stalls

LEMMA WonSettled ==
  ASSUME TypeOK, NEW k, Won(k), incident' = [incident EXCEPT ![k] = "triaged"],
         UNCHANGED stage
  PROVE  Settled
BY DEF TypeOK, Settled, Won

LEMMA StepSettled == ASSUME TypeOK, NEW j \in Jobs, Step(j) PROVE Settled
<1>1. ASSUME Start(j) \/ Skip(j) \/ Lead(j) \/ EndConsult(j) \/ Fault(j)
             \/ (\E a \in Agents : SubAgent(j, a) \/ SubAgentFault(j, a))
             \/ (\E k \in Keys : Enqueue(k, j) \/ EnqueueDirect(k, j))
      PROVE  Settled
  BY <1>1 DEF Start, Skip, Lead, EndConsult, Fault, SubAgent, SubAgentFault, Enqueue,
              EnqueueDirect, Settled
<1>2. ASSUME OpenStage(j) \/ CloseStage(j) \/ FailStage(j) PROVE Settled
  BY <1>2, StageSettled DEF OpenStage, CloseStage, FailStage, Settled
<1>3. ASSUME Triage(j) PROVE Settled
  BY <1>3, WonSettled DEF Triage, Settled
<1>4. ASSUME Investigate(j) \/ RootCause(j) \/ WriteRca(j) \/ MitigationPlan(j)
             \/ Prevention(j) \/ StallIncident(j)
      PROVE  Settled
  BY <1>4, StatusSettled DEF Investigate, RootCause, WriteRca, MitigationPlan, Prevention,
                             StallIncident, Reaches, Settled
<1> QED
  BY <1>1, <1>2, <1>3, <1>4 DEF Step

LEMMA LateSettled == ASSUME TypeOK, NEW i \in late, LateStep(i) PROVE Settled
<1>1. ASSUME LateEnds(i) \/ LateSubAgent(i) \/ LateRootCause(i) PROVE Settled
  BY <1>1 DEF LateEnds, LateSubAgent, LateRootCause, Settled
<1>2. ASSUME LateTriage(i) PROVE Settled
  BY <1>2, WonSettled DEF LateTriage
<1>3. ASSUME LateStage(i) PROVE Settled
  BY <1>3, StageSettled DEF LateStage
<1>4. ASSUME LateStatus(i) PROVE Settled
  BY <1>4, StatusSettled DEF LateStatus
<1> QED
  BY <1>1, <1>2, <1>3, <1>4 DEF LateStep

LEMMA NextSettled == ASSUME TypeOK, [Next]_vars PROVE Settled
<1>1. CASE \E k \in Keys : Accept(k)
  BY <1>1 DEF TypeOK, Settled, Accept
<1>2. CASE \E k \in AllKeys : StallStage(k) \/ Roll(k)
  BY <1>2, StageSettled, StatusSettled DEF StallStage, Roll, Settled
<1>3. CASE UNCHANGED vars
  BY <1>3 DEF Settled, vars
<1> QED
  BY <1>1, <1>2, <1>3, StepSettled, LateSettled DEF Next

(* A stalled incident and a settled stage stay as they are: neither a late *)
(* stage nor the watchdog or StageFailed writes over them (the statements  *)
(* of lifecycle.py, rootcause.py, mitigation.py, prevention.py and         *)
(* incident_watchdog.py).                                                  *)
THEOREM SettledStays == Spec => SettledIsFinal
<1>1. TypeOK /\ [Next]_vars => Settled
  BY NextSettled
<1> QED
  BY <1>1, TypeCorrect, PTL DEF Spec, SettledIsFinal, Settled
=============================================================================
