-------------------------- MODULE ScheduleDispatcher --------------------------
(***************************************************************************)
(* Scheduled diagnosis: the users save their schedules                     *)
(* (web/lib/diagnosis-schedule.ts) while the hourly dispatcher claims the  *)
(* rows that are due and enqueues a report for each                        *)
(* (schedule_dispatcher.py).  A save is a transaction of two statements    *)
(* under READ COMMITTED: its rows are locked one by one, the unique        *)
(* indices make it wait for another's uncommitted rows, and PostgreSQL     *)
(* breaks its deadlocks.  Each statement of the dispatcher commits alone.  *)
(*                                                                         *)
(* Dates are ScheduleCalendar's subject.  Here a next run is what it was   *)
(* computed from: a configuration, and, for an interval added to now(),    *)
(* the serial number of that now() (no two are the same microsecond);      *)
(* whether it has come is a state of its own.  The report that a run       *)
(* enqueues, and the failure of its delivery, are one step with an outcome.*)
(***************************************************************************)
EXTENDS Integers

CONSTANTS
  Users,      \* Cognito subs
  Types,      \* frequencies: weekly, biweekly, monthly
  Configs,    \* contents of the config column
  Detailed,   \* those with a day or an hour, whose date the dispatcher refines
  Tables,     \* contents of report_schedules at the start
  Savers,     \* a user's tabs, each with at most one PUT request in progress
  Runs,       \* invocations of the dispatcher that may overlap
  MaxSaves,   \* bound: PUT requests
  MaxDues,    \* bound: times that some next_run_at comes
  None        \* no row, no transaction, no invocation

Slots  == Users \X Types
Nexts  == [config : Configs, serial : Nat]
Rows   == [enabled : BOOLEAN, config : Configs, next : Nexts]
Claims == [slot : Slots, config : Configs, next : Nexts]
Invocations == [at : {"enqueue", "refine"}, current : Claims, todo : SUBSET Claims]
Actives     == [type : Types, config : Configs]

(* A date in the table at the start is one that its configuration gave,    *)
(* and uq_schedule_one_active holds of it.                                 *)
ASSUME ScheduleAssumption ==
  /\ None \notin Rows \cup Invocations
  /\ Detailed \subseteq Configs
  /\ Savers \subseteq Users \X Nat
  /\ Tables \subseteq [Slots -> Rows \cup {None}]
  /\ \A table \in Tables, s \in Slots :
       table[s] # None => table[s].next.config = table[s].config
  /\ \A table \in Tables, r, s \in Slots :
       /\ r[1] = s[1] /\ table[r] # None /\ table[r].enabled
       /\ table[s] # None /\ table[s].enabled
       => r = s
  /\ MaxSaves \in Nat /\ MaxDues \in Nat

VARIABLES
  (* report_schedules, as committed *)
  row,        \* the row of a user and a frequency: enabled, config, next
  due,        \* the slots whose next_run_at has come
  clock,      \* serial number of the last now()
  (* web tier *)
  saver,      \* the transactions of the saves
  (* dispatcher *)
  run,        \* the invocations: their step, current row and rows to come
  (* bounds and history *)
  saves,      \* PUT requests begun
  dues,       \* times that a next_run_at came
  asked,      \* what the latest saves asked to be active: see CommitSave
  overlapped  \* saves in progress that were not alone all the time

scheduleVars == <<row, due, clock>>
saveVars     == <<saver, saves, asked, overlapped>>
vars == <<scheduleVars, saveVars, run, dues>>

(* A save: its statement, its input and the next run computed from it, the *)
(* other frequencies it has still to disable, the rows it has locked, and, *)
(* for the history, its number and the saves committed before it began.    *)
Saves == [at : {"disable", "index", "commit"}, slot : Slots, new : Rows,
          todo : SUBSET Types, held : SUBSET Types, id : Nat, before : SUBSET Nat]

TypeOK ==
  /\ row \in [Slots -> Rows \cup {None}]
  /\ due \subseteq {s \in Slots : row[s] # None}
  /\ clock \in Nat
  /\ saver \in [Savers -> Saves \cup {None}]
  /\ run \in [Runs -> Invocations \cup {None}]
  /\ saves \in 0..MaxSaves /\ dues \in 0..MaxDues
  /\ asked \in [Users -> SUBSET [id : Nat, active : SUBSET Actives]]
  /\ overlapped \subseteq Savers

Enabled(s) == row[s] # None /\ row[s].enabled

Active(u) == {[type |-> s[2], config |-> row[s].config] : s \in {x \in {u} \X Types : Enabled(x)}}

Init ==
  /\ row \in Tables
  /\ due = {}
  /\ clock = 0
  /\ saver = [p \in Savers |-> None]
  /\ run = [i \in Runs |-> None]
  /\ saves = 0 /\ dues = 0
  /\ asked = [u \in Users |-> {[id |-> 0, active |-> Active(u)]}]
  /\ overlapped = {}

-----------------------------------------------------------------------------
(* Time passes an enabled row's next_run_at.                               *)
ComeDue(s) ==
  /\ dues < MaxDues
  /\ Enabled(s)
  /\ s \notin due
  /\ due' = due \cup {s}
  /\ dues' = dues + 1
  /\ UNCHANGED <<row, clock, saveVars, run>>

(* computeNextRun: the configured date, or now() plus the interval.        *)
NextRun(c) == [config |-> c, serial |-> IF c \in Detailed THEN 0 ELSE clock + 1]

-----------------------------------------------------------------------------
(* upsertSchedule.                                                         *)
Peers(p) == {q \in Savers \ {p} : q[1] = p[1] /\ saver[q] # None}

(* The savers that have locked a slot or inserted its row.                 *)
Holders(s) == {q \in Savers : q[1] = s[1] /\ saver[q] # None /\ s[2] \in saver[q].held}
Others(p, t) == Holders(<<p[1], t>>) \ {p}

(* A save that does not disable the other frequencies.                     *)
NoOtherRows(s) == {}

(* The rows that the disabling UPDATE sees: the user's other frequencies.  *)
OtherRows(s) == {t \in Types \ {s[2]} : row[<<s[1], t>>] # None}

(* BEGIN, and the snapshot of the UPDATE.                                  *)
BeginSave(p, s, e, c) ==
  /\ s[1] = p[1]
  /\ saver[p] = None
  /\ saves < MaxSaves
  /\ saves' = saves + 1
  /\ clock' = IF c \in Detailed THEN clock ELSE clock + 1
  /\ saver' = [saver EXCEPT ![p] =
       [at |-> "disable", slot |-> s,
        new |-> [enabled |-> e, config |-> c, next |-> NextRun(c)],
        todo |-> OtherRows(s), held |-> {},
        id |-> saves', before |-> {q.id : q \in asked[p[1]]}]]
  /\ overlapped' = overlapped \cup Peers(p) \cup {q \in {p} : Peers(q) # {}}
  /\ UNCHANGED <<row, due, run, dues, asked>>

(* UPDATE ... SET enabled = false for one of the other frequencies.        *)
DisableRow(p, t) ==
  /\ saver[p] # None
  /\ t \in saver[p].todo
  /\ Others(p, t) = {}
  /\ saver' = [saver EXCEPT ![p].todo = @ \ {t}, ![p].held = @ \cup {t}]
  /\ UNCHANGED <<scheduleVars, saves, asked, overlapped, run, dues>>

(* INSERT ... ON CONFLICT DO UPDATE: it inserts or locks the row of its    *)
(* frequency, and the index entry of an enabled row is a step of its own.  *)
UpsertRow(p) ==
  /\ saver[p] # None
  /\ saver[p].at = "disable" /\ saver[p].todo = {}
  /\ Others(p, saver[p].slot[2]) = {}
  /\ saver' = [saver EXCEPT ![p].at = IF saver[p].new.enabled THEN "index" ELSE "commit",
                            ![p].held = @ \cup {saver[p].slot[2]}]
  /\ UNCHANGED <<scheduleVars, saves, asked, overlapped, run, dues>>

(* uq_schedule_one_active.  Another frequency of the user that is active   *)
(* and that nobody is changing refuses the entry; one that another         *)
(* transaction is changing, or has made active, makes it wait.             *)
Rivals(p) ==
  {t \in Types \ ({saver[p].slot[2]} \cup saver[p].held) :
     Enabled(<<p[1], t>>) /\ Others(p, t) = {}}
IndexWaits(p) ==
  UNION {{q \in Others(p, t) : \/ Enabled(<<p[1], t>>)
                               \/ /\ saver[q].slot[2] = t
                                  /\ saver[q].at = "commit" /\ saver[q].new.enabled} :
           t \in Types \ {saver[p].slot[2]}}

(* A table without the index.                                              *)
EnterUnchecked(p) ==
  /\ saver[p] # None /\ saver[p].at = "index"
  /\ saver' = [saver EXCEPT ![p].at = "commit"]
  /\ UNCHANGED <<scheduleVars, saves, asked, overlapped, run, dues>>

EnterIndex(p) ==
  /\ saver[p] # None /\ saver[p].at = "index"
  /\ IndexWaits(p) = {} /\ Rivals(p) = {}
  /\ saver' = [saver EXCEPT ![p].at = "commit"]
  /\ UNCHANGED <<scheduleVars, saves, asked, overlapped, run, dues>>

EndSave(p) ==
  /\ saver' = [saver EXCEPT ![p] = None]
  /\ overlapped' = overlapped \ {p}

(* A transaction that is left open.                                        *)
NoCommit(p) ==
  /\ saver[p] # None /\ saver[p].at = "commit"
  /\ UNCHANGED vars

(* COMMIT.  A save is later than those that had committed when it began:   *)
(* the history keeps the saves that no other save is later than.           *)
CommitSave(p) ==
  LET u == p[1]
      Saved(s) == IF s = saver[p].slot THEN saver[p].new ELSE [row[s] EXCEPT !.enabled = FALSE]
  IN
  /\ saver[p] # None /\ saver[p].at = "commit"
  /\ row' = [s \in Slots |-> IF p \in Holders(s) THEN Saved(s) ELSE row[s]]
  /\ due' = due \ {saver[p].slot}
  /\ asked' = [asked EXCEPT ![u] = {q \in @ : q.id \notin saver[p].before} \cup
       {[id |-> saver[p].id,
         active |-> {[type |-> saver[p].slot[2], config |-> w.config] :
                       w \in {x \in {saver[p].new} : x.enabled}}]}]
  /\ EndSave(p)
  /\ UNCHANGED <<clock, saves, run, dues>>

Rollback(p) ==
  /\ EndSave(p)
  /\ UNCHANGED <<scheduleVars, saves, asked, run, dues>>

(* ROLLBACK and ScheduleSlotTakenError, answered 409.                      *)
SlotTaken(p) ==
  /\ saver[p] # None /\ saver[p].at = "index"
  /\ IndexWaits(p) = {} /\ Rivals(p) # {}
  /\ Rollback(p)

(* Whom a save waits for, and the transactions of a deadlock, one of which *)
(* PostgreSQL aborts (40P01).                                              *)
WaitsFor(p) ==
  IF saver[p] = None \/ saver[p].at = "commit" THEN {}
  ELSE IF saver[p].at = "index" THEN IndexWaits(p)
  ELSE IF saver[p].todo = {} THEN Others(p, saver[p].slot[2])
  ELSE IF \E t \in saver[p].todo : Others(p, t) = {} THEN {}
  ELSE UNION {Others(p, t) : t \in saver[p].todo}

Deadlocked(p) ==
  \E S \in SUBSET Savers :
    /\ p \in S
    /\ \A q \in S : (\E x \in S : x \in WaitsFor(q)) /\ (\E x \in S : q \in WaitsFor(x))

DeadlockVictim(p) ==
  /\ Deadlocked(p)
  /\ Rollback(p)

(* The connection or the web task is lost; the rollback is answered 500.   *)
SaveFails(p) ==
  /\ saver[p] # None
  /\ Rollback(p)

-----------------------------------------------------------------------------
(* lambda_handler.  The claim advances every enabled row that is due and   *)
(* returns them; it waits for the locks of the saves that hold one.        *)
Claimable == {s \in due : row[s].enabled}
Advanced(s) == [row[s] EXCEPT !.next = [config |-> row[s].config, serial |-> clock + 1]]

(* The next of the rows to come, in the order they were returned in, which *)
(* nothing determines; or the end of the invocation.                       *)
Proceed(i, todo) ==
  \/ todo = {} /\ run' = [run EXCEPT ![i] = None]
  \/ \E c \in todo : run' = [run EXCEPT ![i] =
       [at |-> "enqueue", current |-> c, todo |-> todo \ {c}]]

Claim(i) ==
  /\ run[i] = None
  /\ Claimable # {}
  /\ \A s \in Claimable : Holders(s) = {}
  /\ clock' = clock + 1
  /\ row' = [s \in Slots |-> IF s \in Claimable THEN Advanced(s) ELSE row[s]]
  /\ due' = due \ Claimable
  /\ Proceed(i, {[slot |-> s, config |-> row[s].config, next |-> Advanced(s).next] :
                   s \in Claimable})
  /\ UNCHANGED <<saveVars, dues>>

At(i, step) == run[i] # None /\ run[i].at = step

(* _enqueue_report: the report, the job, their link and the message.  It   *)
(* raises when one of them fails, the message delivered or not: the date   *)
(* of the row is then not refined, and the next one is tried.              *)
Enqueue(i) ==
  /\ At(i, "enqueue")
  /\ run' = [run EXCEPT ![i].at = "refine"] \/ Proceed(i, run[i].todo)
  /\ UNCHANGED <<scheduleVars, saveVars, dues>>

(* The refining UPDATE without its guard on the claimed next_run_at.       *)
RefinableAlways(claim) == claim.config \in Detailed

(* The refining UPDATE asks for the next_run_at that the claim wrote.      *)
Refinable(claim) == claim.config \in Detailed /\ row[claim.slot].next = claim.next

Refine(i) ==
  LET claim == run[i].current IN
  /\ At(i, "refine")
  /\ claim.config \in Detailed => Holders(claim.slot) = {}
  /\ row' = [s \in Slots |-> IF s = claim.slot /\ Refinable(claim)
                               THEN [row[s] EXCEPT !.next = NextRun(claim.config)] ELSE row[s]]
  /\ due' = {s \in due : s = claim.slot => ~Refinable(claim)}
  /\ Proceed(i, run[i].todo)
  /\ UNCHANGED <<clock, saveVars, dues>>

(* The refinement raises.                                                  *)
RefineFails(i) ==
  /\ At(i, "refine")
  /\ Proceed(i, run[i].todo)
  /\ UNCHANGED <<scheduleVars, saveVars, dues>>

(* The invocation is lost; the rows it has claimed are not tried again.    *)
Die(i) ==
  /\ run[i] # None
  /\ run' = [run EXCEPT ![i] = None]
  /\ UNCHANGED <<scheduleVars, saveVars, dues>>

-----------------------------------------------------------------------------
SaveStep(p) ==
  \/ \E s \in Slots, e \in BOOLEAN, c \in Configs : BeginSave(p, s, e, c)
  \/ \E t \in Types : DisableRow(p, t)
  \/ UpsertRow(p) \/ EnterIndex(p) \/ CommitSave(p)
  \/ SlotTaken(p) \/ DeadlockVictim(p) \/ SaveFails(p)
RunStep(i) ==
  Claim(i) \/ Enqueue(i) \/ Refine(i) \/ RefineFails(i) \/ Die(i)

Next ==
  \/ \E s \in Slots : ComeDue(s)
  \/ \E p \in Savers : SaveStep(p)
  \/ \E i \in Runs : RunStep(i)

(* Fairness: a save that can go on goes on, PostgreSQL looks for           *)
(* deadlocks, and EventBridge invokes the dispatcher every hour.           *)
Progress(p) ==
  \/ \E t \in Types : DisableRow(p, t)
  \/ UpsertRow(p) \/ EnterIndex(p) \/ CommitSave(p) \/ SlotTaken(p) \/ DeadlockVictim(p)
Proceeds(i) == Enqueue(i) \/ Refine(i) \/ RefineFails(i)
Fairness ==
  /\ \A p \in Savers : WF_vars(Progress(p))
  /\ \A i \in Runs : WF_vars(Claim(i)) /\ WF_vars(Proceeds(i))

Spec == Init /\ [][Next]_vars /\ Fairness
-----------------------------------------------------------------------------
(* diagnosis-schedule.ts:143-153, and the migration of the unique index:   *)
(* whatever saves run together, a user's enabled rows are exactly what one *)
(* of the latest saves asked for: one row with its configuration, or none. *)
ActiveIsAsSaved ==
  \A u \in Users : \E q \in asked[u] : Active(u) = q.active

(* schedule_dispatcher.py:246-248: a save between a claim and its          *)
(* refinement wins: a row's next run is never one that was computed from   *)
(* an earlier configuration of it.                                         *)
NextMatchesConfig ==
  \A s \in Slots : row[s] # None => row[s].next.config = row[s].config

(* diagnosis-schedule.ts:174-182: a save disables the user's other rows    *)
(* first and cannot collide with them: it is answered 409 only if another  *)
(* save of the same user was in progress.                                  *)
ConflictMeansConcurrent ==
  [][\A p \in Savers : SlotTaken(p) \/ DeadlockVictim(p) => p \in overlapped]_vars

(* schedule_dispatcher.py:28-37: the rows that are due are claimed, or     *)
(* saved anew: no save that waits, and no two that wait for each other,    *)
(* hold the claim for ever.                                                *)
DueIsClaimed == Claimable # {} ~> Claimable = {}
=============================================================================
