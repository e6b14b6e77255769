----------------------- MODULE ScheduleDispatcherProofs -----------------------
(***************************************************************************)
(* The schedules, for every set of users, frequencies and configurations,  *)
(* every number of tabs and of overlapping runs, and every table at the    *)
(* start: the types, and that a user's save wins over the refinement of a  *)
(* claim that read the configuration before it.                            *)
(***************************************************************************)
EXTENDS ScheduleDispatcher, TLAPS

(* A save changes rows of its own user; those it has disabled, or is to    *)
(* disable, exist; and its date was computed from its configuration.       *)
SaveOK(p) ==
  saver[p] # None =>
    /\ saver[p].slot[1] = p[1]
    /\ \A t \in saver[p].todo \cup saver[p].held :
         t # saver[p].slot[2] => row[<<p[1], t>>] # None
    /\ saver[p].new.next.config = saver[p].new.config

(* The row of a claim exists, and the claim's date is its configuration's. *)
ClaimOK(c) == row[c.slot] # None /\ c.next.config = c.config

ClaimsOK(i) ==
  run[i] # None => ClaimOK(run[i].current) /\ \A c \in run[i].todo : ClaimOK(c)

Inv ==
  /\ TypeOK
  /\ NextMatchesConfig
  /\ \A p \in Savers : SaveOK(p)
  /\ \A i \in Runs : ClaimsOK(i)

USE ScheduleAssumption

-----------------------------------------------------------------------------
(* Rows and dates.                                                         *)
LEMMA RowTyped ==
  ASSUME NEW r \in Rows, NEW n \in Nexts
  PROVE  /\ r.enabled \in BOOLEAN /\ r.config \in Configs /\ r.next \in Nexts
         /\ [r EXCEPT !.enabled = FALSE] \in Rows
         /\ [r EXCEPT !.enabled = FALSE].next = r.next
         /\ [r EXCEPT !.enabled = FALSE].config = r.config
         /\ [r EXCEPT !.next = n] \in Rows
         /\ [r EXCEPT !.next = n].next = n
         /\ [r EXCEPT !.next = n].config = r.config
BY DEF Rows

LEMMA NextRunTyped ==
  ASSUME clock \in Nat, NEW c \in Configs
  PROVE  NextRun(c) \in Nexts /\ NextRun(c).config = c
BY DEF NextRun, Nexts

LEMMA ClaimTyped ==
  ASSUME NEW c \in Claims
  PROVE  c.slot \in Slots /\ c.config \in Configs /\ c.next \in Nexts
BY DEF Claims

LEMMA AdvancedTyped ==
  ASSUME TypeOK, NEW s \in Slots, row[s] # None
  PROVE  /\ Advanced(s) \in Rows
         /\ Advanced(s).next.config = row[s].config
         /\ Advanced(s).config = row[s].config
<1> DEFINE n == [config |-> row[s].config, serial |-> clock + 1]
<1>1. row[s] \in Rows /\ clock \in Nat
  BY DEF TypeOK
<1>2. n \in Nexts /\ n.config = row[s].config
  BY <1>1, RowTyped DEF Nexts, Rows
<1> QED BY <1>1, <1>2, RowTyped DEF Advanced

(* An invocation that proceeds takes its next row from those to come.      *)
LEMMA ProceedTyped ==
  ASSUME TypeOK, NEW i \in Runs, NEW todo \in SUBSET Claims, Proceed(i, todo)
  PROVE  /\ run' \in [Runs -> Invocations \cup {None}]
         /\ \A j \in Runs \ {i} : run'[j] = run[j]
         /\ run'[i] # None => run'[i].current \in todo /\ run'[i].todo \subseteq todo
<1>1. CASE run' = [run EXCEPT ![i] = None]
  BY <1>1 DEF TypeOK
<1>2. ASSUME NEW c \in todo, run' = [run EXCEPT ![i] =
                [at |-> "enqueue", current |-> c, todo |-> todo \ {c}]]
      PROVE  /\ run' \in [Runs -> Invocations \cup {None}]
             /\ \A j \in Runs \ {i} : run'[j] = run[j]
             /\ run'[i] # None => run'[i].current \in todo /\ run'[i].todo \subseteq todo
  <2> DEFINE inv == [at |-> "enqueue", current |-> c, todo |-> todo \ {c}]
  <2>1. inv \in Invocations
    BY DEF Invocations
  <2> QED BY <1>2, <2>1 DEF TypeOK
<1> QED BY <1>1, <1>2 DEF Proceed

-----------------------------------------------------------------------------
(* What a step does to the table: the rows stay typed, none disappears,    *)
(* and each date still comes from its row's configuration.                 *)
RowsKept ==
  /\ row' \in [Slots -> Rows \cup {None}]
  /\ \A s \in Slots : row[s] # None => row'[s] # None
  /\ NextMatchesConfig'

LEMMA CommitKeepsRows ==
  ASSUME Inv, NEW p \in Savers, CommitSave(p)
  PROVE  RowsKept
<1> DEFINE Saved(s) == IF s = saver[p].slot THEN saver[p].new ELSE [row[s] EXCEPT !.enabled = FALSE]
<1>1. row' = [s \in Slots |-> IF p \in Holders(s) THEN Saved(s) ELSE row[s]]
  BY DEF CommitSave
<1>2. /\ saver[p] \in Saves /\ saver[p].new \in Rows
      /\ saver[p].new.next.config = saver[p].new.config
  BY DEF CommitSave, Inv, TypeOK, SaveOK, Saves
<1>3. ASSUME NEW s \in Slots, p \in Holders(s)
      PROVE  Saved(s) \in Rows /\ Saved(s).next.config = Saved(s).config
  <2>1. CASE s = saver[p].slot
    BY <2>1, <1>2
  <2>2. CASE s # saver[p].slot
    <3>1. s = <<s[1], s[2]>> /\ s[1] = p[1] /\ s[2] \in saver[p].held
      BY <1>3 DEF Holders, Slots
    <3>2. saver[p].slot = <<p[1], saver[p].slot[2]>>
      BY <1>2 DEF CommitSave, Inv, SaveOK, Saves, Slots
    <3>3. s[2] # saver[p].slot[2]
      BY <2>2, <3>1, <3>2
    <3>4. row[s] # None
      BY <3>1, <3>3 DEF CommitSave, Inv, SaveOK
    <3>5. row[s] \in Rows /\ row[s].next \in Nexts /\ row[s].next.config = row[s].config
      BY <3>4, RowTyped DEF Inv, TypeOK, NextMatchesConfig, Rows
    <3> QED BY <2>2, <3>5, RowTyped
  <2> QED BY <2>1, <2>2
<1>4. ASSUME NEW s \in Slots
      PROVE  /\ row'[s] \in Rows \cup {None}
             /\ row[s] # None => row'[s] # None
             /\ row'[s] # None => row'[s].next.config = row'[s].config
  <2>1. CASE p \in Holders(s)
    BY <2>1, <1>1, <1>3
  <2>2. CASE p \notin Holders(s)
    BY <2>2, <1>1 DEF Inv, TypeOK, NextMatchesConfig
  <2> QED BY <2>1, <2>2
<1> QED BY <1>1, <1>4 DEF RowsKept, NextMatchesConfig

LEMMA ClaimKeepsRows ==
  ASSUME Inv, NEW i \in Runs, Claim(i)
  PROVE  RowsKept
<1>1. row' = [s \in Slots |-> IF s \in Claimable THEN Advanced(s) ELSE row[s]]
  BY DEF Claim
<1>2. \A s \in Slots : s \in Claimable => row[s] # None
  BY DEF Claimable, Inv, TypeOK
<1>3. ASSUME NEW s \in Slots
      PROVE  /\ row'[s] \in Rows \cup {None}
             /\ row[s] # None => row'[s] # None
             /\ row'[s] # None => row'[s].next.config = row'[s].config
  <2>1. CASE s \in Claimable
    BY <2>1, <1>1, <1>2, AdvancedTyped DEF Inv
  <2>2. CASE s \notin Claimable
    BY <2>2, <1>1 DEF Inv, TypeOK, NextMatchesConfig
  <2> QED BY <2>1, <2>2
<1> QED BY <1>1, <1>3 DEF RowsKept, NextMatchesConfig

(* The guard of the refining UPDATE: the row has the claim's date, hence   *)
(* the claim's configuration.                                              *)
LEMMA RefineKeepsRows ==
  ASSUME Inv, NEW i \in Runs, Refine(i)
  PROVE  RowsKept
<1> DEFINE claim == run[i].current
           Hit(s) == s = claim.slot /\ Refinable(claim)
<1>1. row' = [s \in Slots |-> IF Hit(s) THEN [row[s] EXCEPT !.next = NextRun(claim.config)] ELSE row[s]]
  BY DEF Refine
<1>2. run[i] \in Invocations /\ claim \in Claims
  BY DEF Refine, At, Inv, TypeOK, Invocations
<1>3. row[claim.slot] # None /\ claim.next.config = claim.config
  BY DEF Refine, At, Inv, ClaimsOK, ClaimOK
<1>4. NextRun(claim.config) \in Nexts /\ NextRun(claim.config).config = claim.config
  BY <1>2, ClaimTyped, NextRunTyped DEF Inv, TypeOK
<1>5. ASSUME NEW s \in Slots
      PROVE  /\ row'[s] \in Rows \cup {None}
             /\ row[s] # None => row'[s] # None
             /\ row'[s] # None => row'[s].next.config = row'[s].config
  <2>1. CASE Hit(s)
    <3>1. row[s] \in Rows /\ row[s].next.config = row[s].config
      BY <2>1, <1>3 DEF Inv, TypeOK, NextMatchesConfig
    <3>2. row[s].config = claim.config
      BY <2>1, <3>1, <1>3 DEF Refinable
    <3> DEFINE n == NextRun(claim.config)
    <3>3. row'[s] = [row[s] EXCEPT !.next = n] /\ n \in Nexts /\ n.config = claim.config
      BY <2>1, <1>1, <1>4
    <3> HIDE DEF n
    <3>4. row'[s] \in Rows /\ row'[s].next = n /\ row'[s].config = row[s].config
      BY <3>1, <3>3 DEF Rows
    <3> QED BY <3>2, <3>3, <3>4
  <2>2. CASE ~Hit(s)
    BY <2>2, <1>1 DEF Inv, TypeOK, NextMatchesConfig
  <2> QED BY <2>1, <2>2
<1> QED BY <1>1, <1>5 DEF RowsKept, NextMatchesConfig

LEMMA StepKeepsRows == Inv /\ [Next]_vars => RowsKept
<1> SUFFICES ASSUME Inv, [Next]_vars PROVE RowsKept
  OBVIOUS
<1>1. ASSUME UNCHANGED row PROVE RowsKept
  BY <1>1 DEF Inv, TypeOK, RowsKept, NextMatchesConfig
<1>2. ASSUME NEW p \in Savers, SaveStep(p) PROVE RowsKept
  BY <1>1, <1>2, CommitKeepsRows DEF SaveStep, BeginSave, DisableRow, UpsertRow, EnterIndex,
     SlotTaken, DeadlockVictim, SaveFails, Rollback, scheduleVars
<1>3. ASSUME NEW i \in Runs, RunStep(i) PROVE RowsKept
  BY <1>1, <1>3, ClaimKeepsRows, RefineKeepsRows DEF RunStep, Enqueue, RefineFails, Die, scheduleVars
<1> QED BY <1>1, <1>2, <1>3 DEF Next, ComeDue, vars, scheduleVars

-----------------------------------------------------------------------------
(* What a step does to the saves.                                          *)
SavesKept ==
  /\ saver' \in [Savers -> Saves \cup {None}]
  /\ \A p \in Savers : SaveOK(p)'

(* A save that goes on, locking a row that it had to lock.                 *)
LEMMA LockKeepsSaves ==
  ASSUME Inv, RowsKept, NEW p \in Savers, saver[p] # None,
         NEW v \in Saves, saver' = [saver EXCEPT ![p] = v],
         v.slot = saver[p].slot, v.new = saver[p].new,
         v.todo \cup v.held \subseteq saver[p].todo \cup saver[p].held \cup {saver[p].slot[2]}
  PROVE  SavesKept
<1>1. saver[p] \in Saves
  BY DEF Inv, TypeOK
<1>2. ASSUME NEW q \in Savers, NEW t \in Types, row[<<q[1], t>>] # None
      PROVE  row'[<<q[1], t>>] # None
  <2>1. q[1] \in Users
    OBVIOUS
  <2>2. <<q[1], t>> \in Slots
    BY <2>1 DEF Slots
  <2> QED BY <1>2, <2>2 DEF RowsKept
<1>3. ASSUME NEW q \in Savers, q # p PROVE SaveOK(q)'
  <2>1. saver'[q] = saver[q]
    BY <1>3 DEF Inv, TypeOK
  <2>2. CASE saver[q] = None
    BY <2>1, <2>2 DEF SaveOK
  <2>3. CASE saver[q] # None
    <3>1. saver[q] \in Saves /\ saver[q].todo \subseteq Types /\ saver[q].held \subseteq Types
      BY <2>3 DEF Inv, TypeOK, Saves
    <3> QED BY <2>1, <2>3, <3>1, <1>2 DEF Inv, SaveOK
  <2> QED BY <2>2, <2>3
<1>4. SaveOK(p)'
  <2>1. saver'[p] = v
    BY DEF Inv, TypeOK
  <2>2. v.todo \subseteq Types /\ v.held \subseteq Types
    BY DEF Saves
  <2>3. ASSUME NEW t \in v.todo \cup v.held, t # v.slot[2]
        PROVE  row'[<<p[1], t>>] # None
    BY <2>2, <2>3, <1>2 DEF Inv, SaveOK
  <2> QED BY <2>1, <2>3 DEF Inv, SaveOK
<1>5. saver' \in [Savers -> Saves \cup {None}]
  BY DEF Inv, TypeOK
<1> QED BY <1>3, <1>4, <1>5 DEF SavesKept

(* Steps that leave the saves as they are, or end one.                     *)
LEMMA OthersKeepSaves ==
  ASSUME Inv, RowsKept,
         saver' \in [Savers -> Saves \cup {None}],
         \A q \in Savers : saver'[q] \in {saver[q], None}
  PROVE  SavesKept
<1>1. ASSUME NEW q \in Savers PROVE SaveOK(q)'
  <2>1. CASE saver'[q] = None
    BY <2>1 DEF SaveOK
  <2>2. CASE saver'[q] # None
    <3>1. saver'[q] = saver[q] /\ saver[q] # None
      BY <2>2
    <3>2. saver[q].todo \subseteq Types /\ saver[q].held \subseteq Types
      BY <3>1 DEF Inv, TypeOK, Saves
    <3>3. ASSUME NEW t \in Types, row[<<q[1], t>>] # None
          PROVE  row'[<<q[1], t>>] # None
      <4>1. <<q[1], t>> \in Slots
        BY DEF Slots
      <4> QED BY <3>3, <4>1 DEF RowsKept
    <3> QED BY <3>1, <3>2, <3>3 DEF Inv, SaveOK
  <2> QED BY <2>1, <2>2
<1> QED BY <1>1 DEF SavesKept

LEMMA BeginKeepsSaves ==
  ASSUME Inv, RowsKept, NEW p \in Savers,
         NEW s \in Slots, NEW e \in BOOLEAN, NEW c \in Configs, BeginSave(p, s, e, c)
  PROVE  SavesKept
<1> DEFINE new == [enabled |-> e, config |-> c, next |-> NextRun(c)]
           v == [at |-> "disable", slot |-> s, new |-> new, todo |-> OtherRows(s),
                 held |-> {}, id |-> saves', before |-> {q.id : q \in asked[p[1]]}]
<1>1. saver' = [saver EXCEPT ![p] = v] /\ s[1] = p[1] /\ row' = row
  BY DEF BeginSave
<1>2. NextRun(c) \in Nexts /\ NextRun(c).config = c
  BY NextRunTyped DEF Inv, TypeOK
<1>3. new \in Rows /\ new.next.config = new.config
  BY <1>2 DEF Rows
<1>4. OtherRows(s) \subseteq Types /\ \A t \in OtherRows(s) : row[<<p[1], t>>] # None
  BY <1>1 DEF OtherRows
<1>5. saves' \in Nat
  BY DEF BeginSave, Inv, TypeOK
<1>6. {q.id : q \in asked[p[1]]} \subseteq Nat
  <2>1. p[1] \in Users
    OBVIOUS
  <2> QED BY <2>1 DEF Inv, TypeOK
<1>7. v \in Saves
  BY <1>3, <1>4, <1>5, <1>6 DEF Saves
<1>8. /\ v.slot = s /\ v.new = new /\ v.todo = OtherRows(s) /\ v.held = {}
  OBVIOUS
<1> HIDE DEF v, new
<1>9. SaveOK(p)'
  <2>1. saver'[p] = v
    BY <1>1 DEF Inv, TypeOK
  <2> QED BY <2>1, <1>1, <1>3, <1>4, <1>8 DEF SaveOK
<1>10. ASSUME NEW q \in Savers, q # p PROVE SaveOK(q)'
  BY <1>1, <1>10 DEF Inv, TypeOK, SaveOK
<1> QED BY <1>1, <1>7, <1>9, <1>10 DEF SavesKept, Inv, TypeOK

LEMMA StepKeepsSaves == Inv /\ [Next]_vars => SavesKept
<1> SUFFICES ASSUME Inv, [Next]_vars PROVE SavesKept
  OBVIOUS
<1>1. RowsKept
  BY StepKeepsRows
<1>2. ASSUME UNCHANGED saver PROVE SavesKept
  BY <1>1, <1>2, OthersKeepSaves DEF Inv, TypeOK
<1>3. ASSUME NEW p \in Savers, EndSave(p) PROVE SavesKept
  <2>1. saver' = [saver EXCEPT ![p] = None] /\ saver \in [Savers -> Saves \cup {None}]
    BY <1>3 DEF EndSave, Inv, TypeOK
  <2> QED BY <1>1, <2>1, OthersKeepSaves
<1>4. ASSUME NEW p \in Savers, SaveStep(p) PROVE SavesKept
  <2>0. saver[p] # None => saver[p] \in Saves
    BY DEF Inv, TypeOK
  <2>1. CASE \E s \in Slots, e \in BOOLEAN, c \in Configs : BeginSave(p, s, e, c)
    BY <1>1, <2>1, BeginKeepsSaves
  <2>2. ASSUME NEW t \in Types, DisableRow(p, t) PROVE SavesKept
    <3> DEFINE v == [saver[p] EXCEPT !.todo = @ \ {t}, !.held = @ \cup {t}]
    <3>1. saver[p] # None /\ t \in saver[p].todo /\ saver' = [saver EXCEPT ![p] = v]
      BY <2>2, <2>0 DEF DisableRow, Inv, TypeOK
    <3>2. /\ v \in Saves /\ v.slot = saver[p].slot /\ v.new = saver[p].new
          /\ v.todo \cup v.held \subseteq saver[p].todo \cup saver[p].held
      BY <3>1, <2>0 DEF Saves
    <3> HIDE DEF v
    <3> QED BY <1>1, <3>1, <3>2, LockKeepsSaves
  <2>3. CASE UpsertRow(p)
    <3> DEFINE at == IF saver[p].new.enabled THEN "index" ELSE "commit"
               v == [saver[p] EXCEPT !.at = at, !.held = @ \cup {saver[p].slot[2]}]
    <3>1. saver[p] # None /\ saver' = [saver EXCEPT ![p] = v]
      BY <2>3, <2>0 DEF UpsertRow, Inv, TypeOK
    <3>2. saver[p].slot[2] \in Types
      BY <3>1, <2>0 DEF Saves, Slots
    <3>3. /\ v \in Saves /\ v.slot = saver[p].slot /\ v.new = saver[p].new
          /\ v.todo \cup v.held \subseteq saver[p].todo \cup saver[p].held \cup {saver[p].slot[2]}
      BY <3>1, <3>2, <2>0 DEF Saves
    <3> HIDE DEF v
    <3> QED BY <1>1, <3>1, <3>3, LockKeepsSaves
  <2>4. CASE EnterIndex(p)
    <3> DEFINE v == [saver[p] EXCEPT !.at = "commit"]
    <3>1. saver[p] # None /\ saver' = [saver EXCEPT ![p] = v]
      BY <2>4, <2>0 DEF EnterIndex, Inv, TypeOK
    <3>2. /\ v \in Saves /\ v.slot = saver[p].slot /\ v.new = saver[p].new
          /\ v.todo \cup v.held = saver[p].todo \cup saver[p].held
      BY <3>1, <2>0 DEF Saves
    <3> HIDE DEF v
    <3> QED BY <1>1, <3>1, <3>2, LockKeepsSaves
  <2> QED BY <1>3, <1>4, <2>1, <2>2, <2>3, <2>4 DEF SaveStep, CommitSave, SlotTaken,
        DeadlockVictim, SaveFails, Rollback
<1>5. ASSUME NEW i \in Runs, RunStep(i) PROVE SavesKept
  BY <1>2, <1>5 DEF RunStep, Claim, Enqueue, Refine, RefineFails, Die, saveVars
<1> QED BY <1>2, <1>4, <1>5 DEF Next, ComeDue, vars, saveVars

-----------------------------------------------------------------------------
(* What a step does to the invocations.                                    *)
RunsKept ==
  /\ run' \in [Runs -> Invocations \cup {None}]
  /\ \A i \in Runs : ClaimsOK(i)'

LEMMA ClaimStaysOK ==
  ASSUME RowsKept, NEW c \in Claims, ClaimOK(c)
  PROVE  ClaimOK(c)'
BY ClaimTyped DEF ClaimOK, RowsKept

LEMMA ClaimsStayOK ==
  ASSUME Inv, RowsKept, NEW i \in Runs, run'[i] = run[i]
  PROVE  ClaimsOK(i)'
<1>1. CASE run[i] = None
  BY <1>1 DEF ClaimsOK
<1>2. CASE run[i] # None
  <2>1. run[i].current \in Claims /\ run[i].todo \subseteq Claims
    BY <1>2 DEF Inv, TypeOK, Invocations
  <2> QED BY <1>2, <2>1, ClaimStaysOK DEF Inv, ClaimsOK
<1> QED BY <1>1, <1>2

(* An invocation that proceeds over claims that are in order.              *)
LEMMA ProceedKeepsRuns ==
  ASSUME Inv, RowsKept, NEW i \in Runs, NEW todo \in SUBSET Claims,
         \A c \in todo : ClaimOK(c)', Proceed(i, todo)
  PROVE  RunsKept
<1>1. /\ run' \in [Runs -> Invocations \cup {None}]
      /\ \A j \in Runs \ {i} : run'[j] = run[j]
      /\ run'[i] # None => run'[i].current \in todo /\ run'[i].todo \subseteq todo
  BY ProceedTyped DEF Inv
<1>2. ClaimsOK(i)'
  BY <1>1 DEF ClaimsOK
<1> QED BY <1>1, <1>2, ClaimsStayOK DEF RunsKept

LEMMA TodoKeepsRuns ==
  ASSUME Inv, RowsKept, NEW i \in Runs, run[i] # None, Proceed(i, run[i].todo)
  PROVE  RunsKept
<1>1. run[i].todo \in SUBSET Claims
  BY DEF Inv, TypeOK, Invocations
<1>2. \A c \in run[i].todo : ClaimOK(c)'
  BY <1>1, ClaimStaysOK DEF Inv, ClaimsOK
<1> QED BY <1>1, <1>2, ProceedKeepsRuns

LEMMA StepKeepsRuns == Inv /\ [Next]_vars => RunsKept
<1> SUFFICES ASSUME Inv, [Next]_vars PROVE RunsKept
  OBVIOUS
<1>1. RowsKept
  BY StepKeepsRows
<1>2. ASSUME UNCHANGED run PROVE RunsKept
  BY <1>1, <1>2, ClaimsStayOK DEF Inv, TypeOK, RunsKept
<1>3. ASSUME NEW i \in Runs, Claim(i) PROVE RunsKept
  <2> DEFINE Made(s) == [slot |-> s, config |-> row[s].config, next |-> Advanced(s).next]
             todo == {Made(s) : s \in Claimable}
  <2>1. ASSUME NEW c \in todo PROVE c \in Claims /\ ClaimOK(c)'
    <3>0. PICK s \in Claimable : c = Made(s)
      BY <2>1
    <3>1. s \in Slots /\ row[s] # None
      BY DEF Claimable, Inv, TypeOK
    <3>2. row[s].config \in Configs
      BY <3>1 DEF Inv, TypeOK, Rows
    <3>3. Advanced(s) \in Rows /\ Advanced(s).next.config = row[s].config
      BY <3>1, AdvancedTyped DEF Inv
    <3>4. Advanced(s).next \in Nexts
      BY <3>3 DEF Rows
    <3>5. row'[s] # None
      BY <3>1, <1>1 DEF RowsKept
    <3>6. c.slot = s /\ c.next.config = c.config
      BY <3>0, <3>3
    <3>7. c \in Claims
      BY <3>0, <3>1, <3>2, <3>4 DEF Claims
    <3> QED BY <3>5, <3>6, <3>7 DEF ClaimOK
  <2>2. todo \in SUBSET Claims
    BY <2>1
  <2>3. Proceed(i, todo)
    BY <1>3 DEF Claim
  <2> HIDE DEF todo
  <2> QED BY <1>1, <2>1, <2>2, <2>3, ProceedKeepsRuns
<1>4. ASSUME NEW i \in Runs, Enqueue(i) PROVE RunsKept
  <2>1. run[i] # None
    BY <1>4 DEF Enqueue, At
  <2>2. CASE run' = [run EXCEPT ![i].at = "refine"]
    <3>1. run[i] \in Invocations
      BY <2>1 DEF Inv, TypeOK
    <3>2. /\ run'[i] \in Invocations
          /\ run'[i].current = run[i].current /\ run'[i].todo = run[i].todo
      BY <2>2, <3>1 DEF Inv, TypeOK, Invocations
    <3>3. run' \in [Runs -> Invocations \cup {None}] /\ \A j \in Runs \ {i} : run'[j] = run[j]
      BY <2>2, <3>2 DEF Inv, TypeOK
    <3>4. run[i].current \in Claims /\ run[i].todo \subseteq Claims
      BY <3>1 DEF Invocations
    <3>5. ClaimsOK(i)'
      BY <1>1, <2>1, <3>2, <3>4, ClaimStaysOK DEF Inv, ClaimsOK
    <3> QED BY <1>1, <3>3, <3>5, ClaimsStayOK DEF RunsKept
  <2> QED BY <1>1, <1>4, <2>1, <2>2, TodoKeepsRuns DEF Enqueue
<1>5. ASSUME NEW i \in Runs, Refine(i) \/ RefineFails(i) PROVE RunsKept
  BY <1>1, <1>5, TodoKeepsRuns DEF Refine, RefineFails, At
<1>6. ASSUME NEW i \in Runs, Die(i) PROVE RunsKept
  <2>1. /\ run' \in [Runs -> Invocations \cup {None}]
        /\ run'[i] = None /\ \A j \in Runs \ {i} : run'[j] = run[j]
    BY <1>6 DEF Die, Inv, TypeOK
  <2> QED BY <1>1, <2>1, ClaimsStayOK DEF RunsKept, ClaimsOK
<1>7. ASSUME NEW p \in Savers, SaveStep(p) PROVE RunsKept
  BY <1>2, <1>7 DEF SaveStep, BeginSave, DisableRow, UpsertRow, EnterIndex, CommitSave,
     SlotTaken, DeadlockVictim, SaveFails, Rollback
<1> QED BY <1>2, <1>3, <1>4, <1>5, <1>6, <1>7 DEF Next, RunStep, ComeDue, vars

-----------------------------------------------------------------------------
(* The rest of the state: dates that have come, counters and history.      *)
RestTyped ==
  /\ due \subseteq {s \in Slots : row[s] # None}
  /\ clock \in Nat
  /\ saves \in 0..MaxSaves /\ dues \in 0..MaxDues
  /\ asked \in [Users -> SUBSET [id : Nat, active : SUBSET Actives]]
  /\ overlapped \subseteq Savers

LEMMA CommitKeepsAsked ==
  ASSUME TypeOK, NEW p \in Savers, CommitSave(p)
  PROVE  asked' \in [Users -> SUBSET [id : Nat, active : SUBSET Actives]]
<1> DEFINE active == {[type |-> saver[p].slot[2], config |-> w.config] :
                        w \in {x \in {saver[p].new} : x.enabled}}
           kept == {q \in asked[p[1]] : q.id \notin saver[p].before}
<1>1. saver[p] \in Saves
  BY DEF CommitSave, TypeOK
<1>2. saver[p].slot[2] \in Types /\ saver[p].new.config \in Configs /\ saver[p].id \in Nat
  BY <1>1 DEF Saves, Slots, Rows
<1>3. active \in SUBSET Actives
  BY <1>2 DEF Actives
<1>4. p[1] \in Users
  OBVIOUS
<1>5. kept \in SUBSET [id : Nat, active : SUBSET Actives]
  BY <1>4 DEF TypeOK
<1>6. asked' = [asked EXCEPT ![p[1]] = kept \cup {[id |-> saver[p].id, active |-> active]}]
  BY <1>4 DEF CommitSave, TypeOK
<1> HIDE DEF active, kept
<1>7. [id |-> saver[p].id, active |-> active] \in [id : Nat, active : SUBSET Actives]
  BY <1>2, <1>3
<1> QED BY <1>4, <1>5, <1>6, <1>7 DEF TypeOK

LEMMA StepKeepsRest == Inv /\ [Next]_vars => RestTyped'
<1> SUFFICES ASSUME Inv, [Next]_vars PROVE RestTyped'
  OBVIOUS
<1>1. TypeOK /\ RestTyped
  BY DEF Inv, TypeOK, RestTyped
<1>2. RowsKept
  BY StepKeepsRows
<1>3. ASSUME due' \subseteq due PROVE due' \subseteq {s \in Slots : row'[s] # None}
  BY <1>1, <1>2, <1>3 DEF RestTyped, RowsKept
<1>4. ASSUME NEW s \in Slots, ComeDue(s) PROVE RestTyped'
  BY <1>1, <1>4 DEF ComeDue, Enabled, RestTyped, saveVars
<1>5. ASSUME NEW p \in Savers, SaveStep(p) PROVE RestTyped'
  <2>1. CASE \E s \in Slots, e \in BOOLEAN, c \in Configs : BeginSave(p, s, e, c)
    BY <1>1, <2>1 DEF BeginSave, RestTyped, Peers
  <2>2. CASE CommitSave(p)
    <3>1. /\ due' \subseteq due /\ overlapped' \subseteq overlapped
          /\ clock' = clock /\ saves' = saves /\ dues' = dues
      BY <2>2 DEF CommitSave, EndSave
    <3>2. asked' \in [Users -> SUBSET [id : Nat, active : SUBSET Actives]]
      BY <1>1, <2>2, CommitKeepsAsked
    <3> QED BY <1>1, <1>3, <3>1, <3>2 DEF RestTyped
  <2>3. CASE Rollback(p)
    BY <1>1, <2>3 DEF Rollback, EndSave, scheduleVars, RestTyped
  <2> QED BY <1>1, <1>5, <2>1, <2>2, <2>3 DEF SaveStep, DisableRow, UpsertRow, EnterIndex,
        SlotTaken, DeadlockVictim, SaveFails, scheduleVars, RestTyped
<1>6. ASSUME NEW i \in Runs, RunStep(i) PROVE RestTyped'
  <2>1. CASE Claim(i)
    <3>1. due' \subseteq due /\ clock' \in Nat /\ UNCHANGED <<saveVars, dues>>
      BY <1>1, <2>1 DEF Claim, RestTyped
    <3> QED BY <1>1, <1>3, <3>1 DEF RestTyped, saveVars
  <2>2. CASE Refine(i)
    <3>1. due' \subseteq due /\ UNCHANGED <<clock, saveVars, dues>>
      BY <2>2 DEF Refine
    <3> QED BY <1>1, <1>3, <3>1 DEF RestTyped, saveVars
  <2> QED BY <1>1, <1>6, <2>1, <2>2 DEF RunStep, Enqueue, RefineFails, Die, scheduleVars,
        saveVars, RestTyped
<1>7. CASE UNCHANGED vars
  BY <1>1, <1>7 DEF vars, scheduleVars, saveVars, RestTyped
<1> QED BY <1>4, <1>5, <1>6, <1>7 DEF Next

-----------------------------------------------------------------------------
LEMMA InitInv == Init => Inv
<1> SUFFICES ASSUME Init PROVE Inv
  OBVIOUS
<1>1. row \in [Slots -> Rows \cup {None}] /\ NextMatchesConfig
  BY DEF Init, NextMatchesConfig
<1>2. \A u \in Users : Active(u) \in SUBSET Actives
  <2>1. ASSUME NEW u \in Users, NEW s \in {u} \X Types, Enabled(s)
        PROVE  [type |-> s[2], config |-> row[s].config] \in Actives
    <3>1. s \in Slots /\ s[2] \in Types
      BY DEF Slots
    <3>2. row[s] \in Rows
      BY <1>1, <2>1, <3>1 DEF Enabled
    <3> QED BY <3>1, <3>2 DEF Rows, Actives
  <2> QED BY <2>1 DEF Active
<1>3. asked \in [Users -> SUBSET [id : Nat, active : SUBSET Actives]]
  BY <1>2 DEF Init
<1>4. TypeOK
  BY <1>1, <1>3 DEF Init, TypeOK
<1> QED BY <1>1, <1>4 DEF Init, Inv, SaveOK, ClaimsOK

LEMMA StepInv == Inv /\ [Next]_vars => Inv'
<1> SUFFICES ASSUME Inv, [Next]_vars PROVE Inv'
  OBVIOUS
<1>1. RowsKept /\ SavesKept /\ RunsKept /\ RestTyped'
  BY StepKeepsRows, StepKeepsSaves, StepKeepsRuns, StepKeepsRest
<1>2. TypeOK'
  BY <1>1 DEF RowsKept, SavesKept, RunsKept, RestTyped, TypeOK
<1> QED BY <1>1, <1>2 DEF RowsKept, SavesKept, RunsKept, Inv

(* The types, whatever saves and invocations interleave, die or deadlock.  *)
THEOREM TypeCorrect == Spec => []TypeOK
<1>1. Inv => TypeOK
  BY DEF Inv
<1> QED BY <1>1, InitInv, StepInv, PTL DEF Spec

(* schedule_dispatcher.py:246-248: a user's save wins over the refinement  *)
(* of a claim that read the configuration before it, however many saves    *)
(* and invocations overlap.                                                *)
THEOREM SaveWins == Spec => []NextMatchesConfig
<1>1. Inv => NextMatchesConfig
  BY DEF Inv
<1> QED BY <1>1, InitInv, StepInv, PTL DEF Spec

-----------------------------------------------------------------------------
(* The locks, the index and the history.                                   *)

(* The frequencies whose rows a save has locked, or is to lock.            *)
Known(p) == saver[p].todo \cup saver[p].held \cup {saver[p].slot[2]}

(* A save that is over its statements holds all that it had to lock.       *)
StageOK(p) ==
  saver[p] # None /\ saver[p].at # "disable" =>
    /\ saver[p].todo = {} /\ saver[p].slot[2] \in saver[p].held
    /\ saver[p].at = "index" => saver[p].new.enabled

(* Two saves of a user never hold the same row.                            *)
LocksOK(p) ==
  \A q \in Savers \ {p} :
    q[1] = p[1] /\ saver[p] # None /\ saver[q] # None =>
      saver[p].held \cap saver[q].held = {}

(* A save that has its entry in the index: it holds every other active row *)
(* of the user, and no second save of the user has an entry.               *)
Entered(p) == saver[p] # None /\ saver[p].at = "commit" /\ saver[p].new.enabled
EntryOK(p) ==
  Entered(p) =>
    /\ \A t \in Types : Enabled(<<p[1], t>>) => t \in saver[p].held
    /\ \A q \in Savers \ {p} : q[1] = p[1] => ~Entered(q)

(* The numbers of the saves tell them apart, and those that a save comes   *)
(* after had committed.                                                    *)
IdsOK(p) ==
  saver[p] # None =>
    /\ saver[p].id <= saves /\ \A n \in saver[p].before : n <= saves
    /\ \A q \in asked[p[1]] : q.id # saver[p].id
    /\ \A q \in Savers : q[1] = p[1] /\ saver[q] # None =>
         /\ saver[q].id \notin saver[p].before
         /\ q # p => saver[q].id # saver[p].id

(* A save that has been alone knows every active row of its user.          *)
AloneOK(p) ==
  saver[p] # None /\ p \notin overlapped =>
    /\ Peers(p) = {}
    /\ \A t \in Types : Enabled(<<p[1], t>>) => t \in Known(p)

(* uq_schedule_one_active.                                                 *)
OneActive(u) ==
  \A s, t \in Types : Enabled(<<u, s>>) /\ Enabled(<<u, t>>) => s = t

(* The latest save that decided what is active; no save to which the       *)
(* active row is unknown comes after it.                                   *)
Misses(p, u) ==
  p[1] = u /\ saver[p] # None /\ \E t \in Types \ Known(p) : Enabled(<<u, t>>)
Decided(u, q) ==
  /\ q \in asked[u]
  /\ q.active = Active(u)
  /\ \A p \in Savers : Misses(p, u) => q.id \notin saver[p].before

SaverOK(p) == StageOK(p) /\ LocksOK(p) /\ EntryOK(p) /\ IdsOK(p) /\ AloneOK(p)
UserOK(u) ==
  /\ OneActive(u)
  /\ \A q \in asked[u] : q.id <= saves
  /\ \E q \in asked[u] : Decided(u, q)

LockInv ==
  /\ Inv
  /\ \A p \in Savers : SaverOK(p)
  /\ \A u \in Users : UserOK(u)

-----------------------------------------------------------------------------
LEMMA SaveTyped ==
  ASSUME TypeOK, NEW p \in Savers, saver[p] # None
  PROVE  /\ saver[p] \in Saves /\ saver[p].slot[2] \in Types /\ saver[p].slot \in Slots
         /\ saver[p].todo \subseteq Types /\ saver[p].held \subseteq Types
         /\ saver[p].new \in Rows /\ saver[p].new.config \in Configs
         /\ saver[p].id \in Nat /\ saver[p].before \subseteq Nat
BY DEF TypeOK, Saves, Slots, Rows

LEMMA UserOfSaver == ASSUME NEW p \in Savers PROVE p[1] \in Users
OBVIOUS

(* Steps that change neither which rows are active nor their configuration.*)
ActiveKept(u) ==
  \A t \in Types :
    /\ Enabled(<<u, t>>)' <=> Enabled(<<u, t>>)
    /\ Enabled(<<u, t>>) => row'[<<u, t>>].config = row[<<u, t>>].config

LEMMA ActiveStays == ASSUME NEW u \in Users, ActiveKept(u) PROVE Active(u)' = Active(u)
<1>1. ASSUME NEW x \in {u} \X Types
      PROVE  /\ Enabled(x)' <=> Enabled(x)
             /\ Enabled(x) => row'[x].config = row[x].config
  <2>1. x = <<u, x[2]>> /\ x[2] \in Types
    OBVIOUS
  <2> QED BY <2>1 DEF ActiveKept
<1>2. {x \in {u} \X Types : Enabled(x)'} = {x \in {u} \X Types : Enabled(x)}
  BY <1>1
<1>3. Active(u)' = {[type |-> s[2], config |-> row'[s].config] :
                      s \in {x \in {u} \X Types : Enabled(x)'}}
  BY DEF Active
<1> QED BY <1>1, <1>2, <1>3 DEF Active

(* What the dispatcher and the passing of time do.                         *)
LEMMA DispatcherKeepsLocks ==
  ASSUME LockInv, Inv', UNCHANGED saveVars, \A u \in Users : ActiveKept(u)
  PROVE  LockInv'
<1>1. \A u \in Users, t \in Types : Enabled(<<u, t>>)' <=> Enabled(<<u, t>>)
  BY DEF ActiveKept
<1>2. \A u \in Users : Active(u)' = Active(u)
  BY ActiveStays
<1>3. ASSUME NEW p \in Savers PROVE SaverOK(p)'
  BY <1>1, UserOfSaver DEF LockInv, SaverOK, StageOK, LocksOK, EntryOK, Entered, IdsOK,
     AloneOK, Peers, Known, saveVars
<1>4. ASSUME NEW u \in Users PROVE UserOK(u)'
  <2>1. OneActive(u)'
    BY <1>1 DEF LockInv, UserOK, OneActive
  <2>2. PICK q \in asked[u] : Decided(u, q)
    BY DEF LockInv, UserOK
  <2>3. Decided(u, q)'
    BY <1>1, <1>2, <2>2 DEF Decided, Misses, Known, saveVars
  <2> QED BY <2>1, <2>3 DEF LockInv, UserOK, Decided, saveVars
<1> QED BY <1>3, <1>4 DEF LockInv

LEMMA ClaimKeepsActive ==
  ASSUME Inv, NEW i \in Runs, Claim(i), NEW u \in Users
  PROVE  ActiveKept(u)
<1>1. ASSUME NEW t \in Types
      PROVE  /\ Enabled(<<u, t>>)' <=> Enabled(<<u, t>>)
             /\ Enabled(<<u, t>>) => row'[<<u, t>>].config = row[<<u, t>>].config
  <2> DEFINE s == <<u, t>>
  <2>0. s \in Slots /\ row'[s] = IF s \in Claimable THEN Advanced(s) ELSE row[s]
    BY DEF Claim, Slots
  <2> HIDE DEF s
  <2>1. CASE s \in Claimable
    <3>1. row[s] # None /\ row[s] \in Rows /\ row[s].enabled
      BY <2>1 DEF Claimable, Inv, TypeOK
    <3>2. row'[s] \in Rows /\ row'[s].config = row[s].config
      BY <2>0, <2>1, <3>1, AdvancedTyped DEF Inv
    <3>3. row'[s].enabled
      BY <2>0, <2>1, <3>1 DEF Advanced, Rows
    <3> QED BY <3>1, <3>2, <3>3 DEF Enabled, s
  <2>2. CASE s \notin Claimable
    BY <2>0, <2>2 DEF Enabled, s
  <2> QED BY <2>1, <2>2
<1> QED BY <1>1 DEF ActiveKept

LEMMA RefineKeepsActive ==
  ASSUME Inv, NEW i \in Runs, Refine(i), NEW u \in Users
  PROVE  ActiveKept(u)
<1> DEFINE claim == run[i].current
           Hit(s) == s = claim.slot /\ Refinable(claim)
<1>1. ASSUME NEW t \in Types
      PROVE  /\ Enabled(<<u, t>>)' <=> Enabled(<<u, t>>)
             /\ Enabled(<<u, t>>) => row'[<<u, t>>].config = row[<<u, t>>].config
  <2> DEFINE s == <<u, t>>
             n == NextRun(claim.config)
  <2>0. s \in Slots /\ row'[s] = IF Hit(s) THEN [row[s] EXCEPT !.next = n] ELSE row[s]
    BY DEF Refine, Slots
  <2>1. CASE Hit(s)
    <3>1. claim \in Claims /\ row[s] # None
      BY <2>1 DEF Refine, At, Inv, TypeOK, ClaimsOK, ClaimOK, Invocations
    <3>2. row[s] \in Rows
      BY <2>0, <3>1 DEF Inv, TypeOK
    <3>3. n \in Nexts
      BY <3>1, ClaimTyped, NextRunTyped DEF Inv, TypeOK
    <3>4. row'[s] = [row[s] EXCEPT !.next = n]
      BY <2>0, <2>1
    <3> HIDE DEF s, n
    <3>5. row'[s] \in Rows /\ row'[s].config = row[s].config /\ row'[s].enabled = row[s].enabled
      BY <3>2, <3>3, <3>4 DEF Rows
    <3> QED BY <3>1, <3>5 DEF Enabled, s
  <2>2. CASE ~Hit(s)
    BY <2>0, <2>2 DEF Enabled
  <2> QED BY <2>1, <2>2
<1> QED BY <1>1 DEF ActiveKept

LEMMA SameRowsSameActive == ASSUME UNCHANGED row, NEW u \in Users PROVE ActiveKept(u)
BY DEF ActiveKept, Enabled

-----------------------------------------------------------------------------
(* A save that goes on: it locks only what nobody else of its user holds,  *)
(* and knows as many rows as before.                                       *)
LocksOn(p, v) ==
  /\ saver[p] # None
  /\ saver' = [saver EXCEPT ![p] = v]
  /\ v.slot = saver[p].slot /\ v.new = saver[p].new
  /\ v.id = saver[p].id /\ v.before = saver[p].before
  /\ v.todo \cup v.held \cup {v.slot[2]} = Known(p)
  /\ \A t \in v.held \ saver[p].held : Others(p, t) = {}
  /\ UNCHANGED <<row, saves, asked, overlapped>>

LEMMA LocksOnKeepsLocks ==
  ASSUME LockInv, Inv', NEW p \in Savers, NEW v \in Saves, LocksOn(p, v),
         StageOK(p)', EntryOK(p)'
  PROVE  LockInv'
<1>0. saver'[p] = v /\ (\A q \in Savers \ {p} : saver'[q] = saver[q]) /\ saver[p] # None
  BY DEF LocksOn, LockInv, Inv, TypeOK
<1>1. \A u \in Users, t \in Types : Enabled(<<u, t>>)' <=> Enabled(<<u, t>>)
  BY DEF LocksOn, Enabled
<1>2. Known(p)' = Known(p) /\ \A q \in Savers \ {p} : Known(q)' = Known(q)
  BY <1>0 DEF LocksOn, Known
<1>3. ASSUME NEW q \in Savers \ {p} PROVE StageOK(q)' /\ IdsOK(q)'
  BY <1>0, UserOfSaver DEF LockInv, SaverOK, StageOK, IdsOK, LocksOn
<1>4. ASSUME NEW q \in Savers \ {p}, q[1] = p[1], saver[q] # None
      PROVE  v.held \cap saver[q].held = {}
  <2>1. saver[p].held \cap saver[q].held = {}
    BY <1>0, <1>4 DEF LockInv, SaverOK, LocksOK
  <2>2. ASSUME NEW t \in v.held \ saver[p].held PROVE t \notin saver[q].held
    BY <1>4, <2>2 DEF LocksOn, Others, Holders
  <2> QED BY <2>1, <2>2
<1>5. ASSUME NEW q \in Savers PROVE LocksOK(q)'
  <2>1. CASE q = p
    BY <1>0, <1>4, <2>1 DEF LocksOK
  <2>2. CASE q # p
    BY <1>0, <1>4, <2>2 DEF LocksOK, LockInv, SaverOK
  <2> QED BY <2>1, <2>2
<1>6. ASSUME NEW q \in Savers \ {p} PROVE EntryOK(q)'
  <2>1. Entered(p)' => (q[1] = p[1] => ~Entered(q)')
    BY DEF EntryOK
  <2>2. Entered(q)' => Entered(q)
    BY <1>0 DEF Entered
  <2> QED BY <1>0, <1>1, <2>1, <2>2, UserOfSaver DEF LockInv, SaverOK, EntryOK, Entered
<1>7. IdsOK(p)'
  BY <1>0 DEF LockInv, SaverOK, IdsOK, LocksOn
<1>8. ASSUME NEW q \in Savers PROVE AloneOK(q)'
  <2>1. saver'[q] # None => saver[q] # None
    BY <1>0
  <2>2. Peers(q)' \subseteq Peers(q)
    BY <1>0 DEF Peers
  <2> QED BY <1>1, <1>2, <2>1, <2>2, UserOfSaver DEF LockInv, SaverOK, AloneOK, LocksOn
<1>9. ASSUME NEW u \in Users PROVE UserOK(u)'
  <2>1. OneActive(u)'
    BY <1>1 DEF LockInv, UserOK, OneActive
  <2>2. Active(u)' = Active(u)
    BY SameRowsSameActive, ActiveStays DEF LocksOn
  <2>3. PICK q \in asked[u] : Decided(u, q)
    BY DEF LockInv, UserOK
  <2>4. ASSUME NEW x \in Savers, Misses(x, u)' PROVE Misses(x, u) /\ saver'[x].before = saver[x].before
    BY <1>0, <1>1, <1>2, <2>4 DEF Misses, LocksOn
  <2>5. Decided(u, q)'
    BY <2>2, <2>3, <2>4 DEF Decided, LocksOn
  <2> QED BY <2>1, <2>3, <2>5 DEF LockInv, UserOK, LocksOn
<1> QED BY <1>3, <1>5, <1>6, <1>7, <1>8, <1>9 DEF LockInv, SaverOK

LEMMA DisableRowKeepsLocks ==
  ASSUME LockInv, Inv', NEW p \in Savers, NEW t \in Types, DisableRow(p, t)
  PROVE  LockInv'
<1> DEFINE v == [saver[p] EXCEPT !.todo = @ \ {t}, !.held = @ \cup {t}]
<1>1. saver[p] # None /\ t \in saver[p].todo /\ saver[p] \in Saves
  BY SaveTyped DEF DisableRow, LockInv, Inv
<1>2. saver[p].at = "disable"
  BY <1>1 DEF LockInv, SaverOK, StageOK
<1>3. saver' = [saver EXCEPT ![p] = v]
  BY <1>1 DEF DisableRow, LockInv, Inv, TypeOK
<1>4. /\ v \in Saves /\ v.at = "disable"
      /\ v.slot = saver[p].slot /\ v.new = saver[p].new
      /\ v.id = saver[p].id /\ v.before = saver[p].before
      /\ v.todo = saver[p].todo \ {t} /\ v.held = saver[p].held \cup {t}
  BY <1>1, <1>2 DEF Saves
<1> HIDE DEF v
<1>5. LocksOn(p, v)
  BY <1>1, <1>3, <1>4 DEF LocksOn, Known, DisableRow, scheduleVars
<1>6. saver'[p] = v
  BY <1>3 DEF LockInv, Inv, TypeOK
<1>7. StageOK(p)' /\ EntryOK(p)'
  BY <1>4, <1>6 DEF StageOK, EntryOK, Entered
<1> QED BY <1>4, <1>5, <1>7, LocksOnKeepsLocks

LEMMA UpsertRowKeepsLocks ==
  ASSUME LockInv, Inv', NEW p \in Savers, UpsertRow(p)
  PROVE  LockInv'
<1> DEFINE at == IF saver[p].new.enabled THEN "index" ELSE "commit"
           v == [saver[p] EXCEPT !.at = at, !.held = @ \cup {saver[p].slot[2]}]
<1>1. /\ saver[p] # None /\ saver[p] \in Saves /\ saver[p].todo = {}
      /\ saver[p].slot[2] \in Types
  BY SaveTyped DEF UpsertRow, LockInv, Inv
<1>2. saver' = [saver EXCEPT ![p] = v]
  BY <1>1 DEF UpsertRow, LockInv, Inv, TypeOK
<1>3. /\ v \in Saves /\ v.at = at
      /\ v.slot = saver[p].slot /\ v.new = saver[p].new
      /\ v.id = saver[p].id /\ v.before = saver[p].before
      /\ v.todo = {} /\ v.held = saver[p].held \cup {saver[p].slot[2]}
  BY <1>1 DEF Saves
<1> HIDE DEF v
<1>4. LocksOn(p, v)
  BY <1>1, <1>2, <1>3 DEF LocksOn, Known, UpsertRow, scheduleVars
<1>5. saver'[p] = v
  BY <1>2 DEF LockInv, Inv, TypeOK
<1>6. StageOK(p)' /\ EntryOK(p)'
  BY <1>3, <1>5 DEF StageOK, EntryOK, Entered
<1> QED BY <1>3, <1>4, <1>6, LocksOnKeepsLocks

(* The index: the entry is made when no other active row of the user is    *)
(* left that the save does not hold, and nobody else has one.              *)
LEMMA EnterIndexKeepsLocks ==
  ASSUME LockInv, Inv', NEW p \in Savers, EnterIndex(p)
  PROVE  LockInv'
<1> DEFINE v == [saver[p] EXCEPT !.at = "commit"]
<1>1. /\ saver[p] # None /\ saver[p] \in Saves /\ saver[p].at = "index"
      /\ saver[p].todo = {} /\ saver[p].slot[2] \in saver[p].held
  BY SaveTyped DEF EnterIndex, LockInv, Inv, SaverOK, StageOK
<1>2. saver' = [saver EXCEPT ![p] = v]
  BY <1>1 DEF EnterIndex, LockInv, Inv, TypeOK
<1>3. /\ v \in Saves /\ v.at = "commit"
      /\ v.slot = saver[p].slot /\ v.new = saver[p].new
      /\ v.id = saver[p].id /\ v.before = saver[p].before
      /\ v.todo = {} /\ v.held = saver[p].held
  BY <1>1 DEF Saves
<1> HIDE DEF v
<1>4. LocksOn(p, v)
  BY <1>1, <1>2, <1>3 DEF LocksOn, Known, EnterIndex, scheduleVars
<1>5. saver'[p] = v /\ \A q \in Savers \ {p} : saver'[q] = saver[q]
  BY <1>2 DEF LockInv, Inv, TypeOK
<1>6. ASSUME NEW t \in Types, t # saver[p].slot[2], NEW q \in Others(p, t)
      PROVE  /\ ~Enabled(<<p[1], t>>)
             /\ ~(saver[q].slot[2] = t /\ saver[q].at = "commit" /\ saver[q].new.enabled)
  BY <1>6 DEF EnterIndex, IndexWaits
<1>7. ASSUME NEW t \in Types, Enabled(<<p[1], t>>) PROVE t \in saver[p].held
  BY <1>1, <1>6, <1>7 DEF EnterIndex, Rivals
<1>8. ASSUME NEW q \in Savers \ {p}, q[1] = p[1], Entered(q) PROVE FALSE
  <2>1. saver[q] # None /\ saver[q].slot[2] \in Types /\ saver[q].slot[2] \in saver[q].held
    BY <1>8, SaveTyped DEF LockInv, Inv, SaverOK, StageOK, Entered
  <2>2. saver[q].slot[2] # saver[p].slot[2]
    BY <1>1, <1>8, <2>1 DEF LockInv, SaverOK, LocksOK
  <2>3. q \in Others(p, saver[q].slot[2])
    BY <1>8, <2>1 DEF Others, Holders
  <2> QED BY <1>6, <1>8, <2>1, <2>2, <2>3 DEF Entered
<1>9. StageOK(p)'
  BY <1>1, <1>3, <1>5 DEF StageOK
<1>10. EntryOK(p)'
  <2>1. \A t \in Types : Enabled(<<p[1], t>>)' <=> Enabled(<<p[1], t>>)
    BY DEF Enabled, EnterIndex, scheduleVars
  <2>2. \A q \in Savers \ {p} : Entered(q)' <=> Entered(q)
    BY <1>5 DEF Entered
  <2> QED BY <1>3, <1>5, <1>7, <1>8, <2>1, <2>2 DEF EntryOK
<1> QED BY <1>3, <1>4, <1>9, <1>10, LocksOnKeepsLocks

-----------------------------------------------------------------------------
(* A save that begins knows every row of its user that there is.           *)
LEMMA BeginKeepsLocks ==
  ASSUME LockInv, Inv', NEW p \in Savers,
         NEW s \in Slots, NEW e \in BOOLEAN, NEW c \in Configs, BeginSave(p, s, e, c)
  PROVE  LockInv'
<1> DEFINE new == [enabled |-> e, config |-> c, next |-> NextRun(c)]
           v == [at |-> "disable", slot |-> s, new |-> new, todo |-> OtherRows(s),
                 held |-> {}, id |-> saves', before |-> {q.id : q \in asked[p[1]]}]
<1>1. /\ saver' = [saver EXCEPT ![p] = v] /\ saver[p] = None /\ saves' = saves + 1
      /\ s[1] = p[1] /\ p[1] \in Users /\ UNCHANGED <<row, asked>>
      /\ overlapped' = overlapped \cup Peers(p) \cup {q \in {p} : Peers(q) # {}}
  BY UserOfSaver DEF BeginSave
<1>2. /\ v.at = "disable" /\ v.slot = s /\ v.todo = OtherRows(s) /\ v.held = {}
      /\ v.id = saves' /\ v.before = {q.id : q \in asked[p[1]]}
  OBVIOUS
<1>3. saver'[p] = v /\ \A q \in Savers \ {p} : saver'[q] = saver[q]
  BY <1>1 DEF LockInv, Inv, TypeOK
<1> HIDE DEF v
<1>4. saves \in Nat /\ \A u \in Users : \A q \in asked[u] : q.id <= saves /\ q.id \in Nat
  BY DEF LockInv, Inv, TypeOK, UserOK
<1>5. \A u \in Users, t \in Types : Enabled(<<u, t>>)' <=> Enabled(<<u, t>>)
  BY <1>1 DEF Enabled
<1>6. \A t \in Types : Enabled(<<p[1], t>>) => t \in Known(p)'
  <2>1. s = <<p[1], s[2]>>
    BY <1>1 DEF Slots
  <2> QED BY <1>1, <1>2, <1>3, <2>1 DEF Known, OtherRows, Enabled
<1>7. \A q \in Savers \ {p} : Known(q)' = Known(q)
  BY <1>3 DEF Known
<1>8. SaverOK(p)'
  <2>1. StageOK(p)' /\ LocksOK(p)' /\ EntryOK(p)'
    BY <1>2, <1>3 DEF StageOK, LocksOK, EntryOK, Entered
  <2>2. IdsOK(p)'
    <3>1. \A q \in Savers \ {p} : q[1] = p[1] /\ saver[q] # None =>
            saver[q].id <= saves /\ saver[q].id \in Nat /\ saver[q].id \notin v.before
      BY <1>2, SaveTyped DEF LockInv, Inv, SaverOK, IdsOK
    <3>2. \A n \in v.before : n <= saves /\ n \in Nat
      BY <1>1, <1>2, <1>4
    <3> QED BY <1>1, <1>2, <1>3, <1>4, <3>1, <3>2 DEF IdsOK
  <2>3. AloneOK(p)'
    BY <1>1, <1>3, <1>5, <1>6 DEF AloneOK, Peers
  <2> QED BY <2>1, <2>2, <2>3 DEF SaverOK
<1>9. ASSUME NEW q \in Savers \ {p} PROVE SaverOK(q)'
  <2>1. StageOK(q)' /\ LocksOK(q)'
    BY <1>2, <1>3 DEF LockInv, SaverOK, StageOK, LocksOK
  <2>2. EntryOK(q)'
    BY <1>2, <1>3, <1>5, UserOfSaver DEF LockInv, SaverOK, EntryOK, Entered
  <2>3. IdsOK(q)'
    <3>1. saver[q] # None => /\ saver[q].id \in Nat /\ saver[q].id <= saves
                             /\ \A n \in saver[q].before : n \in Nat /\ n <= saves
      BY SaveTyped DEF LockInv, Inv, SaverOK, IdsOK
    <3> QED BY <1>1, <1>2, <1>3, <1>4, <3>1 DEF LockInv, SaverOK, IdsOK
  <2>4. AloneOK(q)'
    BY <1>1, <1>3, <1>5, <1>7, UserOfSaver DEF LockInv, SaverOK, AloneOK, Peers
  <2> QED BY <2>1, <2>2, <2>3, <2>4 DEF SaverOK
<1>10. ASSUME NEW u \in Users PROVE UserOK(u)'
  <2>1. OneActive(u)'
    BY <1>5 DEF LockInv, UserOK, OneActive
  <2>2. Active(u)' = Active(u)
    BY <1>1, SameRowsSameActive, ActiveStays
  <2>3. PICK q \in asked[u] : Decided(u, q)
    BY DEF LockInv, UserOK
  <2>4. ASSUME NEW x \in Savers, Misses(x, u)' PROVE x # p /\ Misses(x, u)
    BY <1>3, <1>5, <1>6, <1>7, <2>4 DEF Misses
  <2>5. Decided(u, q)'
    BY <1>1, <1>3, <2>2, <2>3, <2>4 DEF Decided
  <2> QED BY <1>1, <1>4, <2>1, <2>3, <2>5 DEF UserOK
<1> QED BY <1>8, <1>9, <1>10 DEF LockInv

(* A save that ends without effect leaves its locks.                       *)
LEMMA RollbackKeepsLocks ==
  ASSUME LockInv, Inv', NEW p \in Savers, Rollback(p)
  PROVE  LockInv'
<1>1. /\ saver'[p] = None /\ (\A q \in Savers \ {p} : saver'[q] = saver[q])
      /\ overlapped' = overlapped \ {p} /\ UNCHANGED <<row, saves, asked>>
  BY DEF Rollback, EndSave, scheduleVars, LockInv, Inv, TypeOK
<1>2. \A u \in Users, t \in Types : Enabled(<<u, t>>)' <=> Enabled(<<u, t>>)
  BY <1>1 DEF Enabled
<1>3. \A q \in Savers \ {p} : Known(q)' = Known(q)
  BY <1>1 DEF Known
<1>4. ASSUME NEW q \in Savers PROVE SaverOK(q)'
  <2>1. StageOK(q)' /\ LocksOK(q)' /\ IdsOK(q)'
    BY <1>1, UserOfSaver DEF LockInv, SaverOK, StageOK, LocksOK, IdsOK
  <2>2. EntryOK(q)'
    BY <1>1, <1>2, UserOfSaver DEF LockInv, SaverOK, EntryOK, Entered
  <2>3. AloneOK(q)'
    BY <1>1, <1>2, <1>3, UserOfSaver DEF LockInv, SaverOK, AloneOK, Peers
  <2> QED BY <2>1, <2>2, <2>3 DEF SaverOK
<1>5. ASSUME NEW u \in Users PROVE UserOK(u)'
  <2>1. OneActive(u)'
    BY <1>2 DEF LockInv, UserOK, OneActive
  <2>2. Active(u)' = Active(u)
    BY <1>1, SameRowsSameActive, ActiveStays
  <2>3. PICK q \in asked[u] : Decided(u, q)
    BY DEF LockInv, UserOK
  <2>4. ASSUME NEW x \in Savers, Misses(x, u)' PROVE x # p /\ Misses(x, u)
    BY <1>1, <1>2, <1>3, <2>4 DEF Misses
  <2>5. Decided(u, q)'
    BY <1>1, <2>2, <2>3, <2>4 DEF Decided
  <2> QED BY <1>1, <2>1, <2>3, <2>5 DEF LockInv, UserOK
<1> QED BY <1>4, <1>5 DEF LockInv

-----------------------------------------------------------------------------
(* A commit: what it makes of the user's rows.                             *)
LEMMA CommitRows ==
  ASSUME LockInv, NEW p \in Savers, CommitSave(p)
  PROVE  /\ \A u \in Users \ {p[1]}, t \in Types : row'[<<u, t>>] = row[<<u, t>>]
         /\ \A t \in Types : t \notin saver[p].held => row'[<<p[1], t>>] = row[<<p[1], t>>]
         /\ row'[<<p[1], saver[p].slot[2]>>] = saver[p].new
         /\ \A t \in Types : Enabled(<<p[1], t>>)' <=>
              IF t \in saver[p].held THEN t = saver[p].slot[2] /\ saver[p].new.enabled
                                     ELSE Enabled(<<p[1], t>>)
<1> DEFINE Saved(s) == IF s = saver[p].slot THEN saver[p].new ELSE [row[s] EXCEPT !.enabled = FALSE]
<1>0. /\ saver[p] # None /\ saver[p].slot \in Slots /\ saver[p].slot[2] \in Types
      /\ saver[p].slot[1] = p[1] /\ saver[p].new \in Rows
      /\ saver[p].slot[2] \in saver[p].held /\ saver[p].held \subseteq Types
  BY SaveTyped DEF CommitSave, LockInv, Inv, SaveOK, SaverOK, StageOK
<1>1. saver[p].slot = <<p[1], saver[p].slot[2]>>
  BY <1>0 DEF Slots
<1>2. row' = [s \in Slots |-> IF p \in Holders(s) THEN Saved(s) ELSE row[s]]
  BY DEF CommitSave
<1>3. ASSUME NEW u \in Users, NEW t \in Types
      PROVE  /\ row'[<<u, t>>] = IF p \in Holders(<<u, t>>) THEN Saved(<<u, t>>) ELSE row[<<u, t>>]
             /\ p \in Holders(<<u, t>>) <=> u = p[1] /\ t \in saver[p].held
  BY <1>0, <1>2 DEF Slots, Holders
<1> HIDE DEF Saved
<1>4. row'[<<p[1], saver[p].slot[2]>>] = saver[p].new
  BY <1>0, <1>1, <1>3, UserOfSaver DEF Saved
<1>5. saver[p].new # None
  BY <1>0
<1>6. ASSUME NEW t \in Types
      PROVE  Enabled(<<p[1], t>>)' <=>
               IF t \in saver[p].held THEN t = saver[p].slot[2] /\ saver[p].new.enabled
                                      ELSE Enabled(<<p[1], t>>)
  <2>1. CASE t \notin saver[p].held
    BY <1>3, <2>1, UserOfSaver DEF Enabled
  <2>2. CASE t = saver[p].slot[2]
    BY <1>0, <1>4, <1>5, <2>2 DEF Enabled
  <2>3. CASE t \in saver[p].held /\ t # saver[p].slot[2]
    <3>1. row[<<p[1], t>>] # None /\ <<p[1], t>> \in Slots
      BY <1>0, <2>3, UserOfSaver DEF LockInv, Inv, SaveOK, Slots
    <3>2. row[<<p[1], t>>] \in Rows
      BY <3>1 DEF LockInv, Inv, TypeOK
    <3>3. row'[<<p[1], t>>] = [row[<<p[1], t>>] EXCEPT !.enabled = FALSE]
      BY <1>1, <1>3, <2>3, UserOfSaver DEF Saved
    <3>4. ~row'[<<p[1], t>>].enabled
      BY <3>2, <3>3 DEF Rows
    <3> QED BY <2>3, <3>4 DEF Enabled
  <2> QED BY <2>1, <2>2, <2>3
<1> QED BY <1>3, <1>4, <1>6, UserOfSaver

(* What a commit makes active: its row, and nothing beside it; or, if it   *)
(* asks for none, what it had missed.                                      *)
LEMMA CommitActive ==
  ASSUME LockInv, Inv', NEW p \in Savers, CommitSave(p)
  PROVE  /\ saver[p].new.enabled =>
              /\ \A t \in Types : Enabled(<<p[1], t>>)' <=> t = saver[p].slot[2]
              /\ Active(p[1])' = {[type |-> saver[p].slot[2], config |-> saver[p].new.config]}
         /\ ~saver[p].new.enabled =>
              /\ \A t \in Types : Enabled(<<p[1], t>>)' =>
                   Enabled(<<p[1], t>>) /\ t \notin saver[p].held
              /\ (\E t \in Types : Enabled(<<p[1], t>>)') => Active(p[1])' = Active(p[1])
              /\ (\A t \in Types : ~Enabled(<<p[1], t>>)') => Active(p[1])' = {}
<1> DEFINE u == p[1]
           Lit == {x \in {u} \X Types : Enabled(x)'}
<1>0. u \in Users /\ saver[p].slot[2] \in Types /\ saver[p].slot[2] \in saver[p].held
  BY SaveTyped, UserOfSaver DEF CommitSave, LockInv, Inv, SaverOK, StageOK
<1>1. Active(u)' = {[type |-> s[2], config |-> row'[s].config] : s \in Lit}
  BY DEF Active
<1>2. \A x \in {u} \X Types : x = <<u, x[2]>> /\ x[2] \in Types
  OBVIOUS
<1>3. ASSUME saver[p].new.enabled
      PROVE  /\ \A t \in Types : Enabled(<<u, t>>)' <=> t = saver[p].slot[2]
             /\ Active(u)' = {[type |-> saver[p].slot[2], config |-> saver[p].new.config]}
  <2>1. \A t \in Types : Enabled(<<u, t>>) => t \in saver[p].held
    BY <1>3 DEF CommitSave, Entered, LockInv, SaverOK, EntryOK
  <2>2. \A t \in Types : Enabled(<<u, t>>)' <=> t = saver[p].slot[2]
    <3>1. ASSUME NEW t \in Types
          PROVE  Enabled(<<p[1], t>>)' <=>
                   IF t \in saver[p].held THEN t = saver[p].slot[2] /\ saver[p].new.enabled
                                          ELSE Enabled(<<p[1], t>>)
      BY CommitRows
    <3> QED BY <1>0, <1>3, <2>1, <3>1
  <2>3. Lit = {<<u, saver[p].slot[2]>>}
    <3>1. \A x \in {u} \X Types : Enabled(x)' <=> x[2] = saver[p].slot[2]
      BY <1>2, <2>2
    <3> HIDE DEF u
    <3> QED BY <1>0, <1>2, <3>1
  <2>4. row'[<<u, saver[p].slot[2]>>] = saver[p].new
    BY CommitRows
  <2> HIDE DEF Lit, u
  <2>5. Active(u)' = {[type |-> saver[p].slot[2], config |-> saver[p].new.config]}
    BY <1>1, <2>3, <2>4
  <2> QED BY <2>2, <2>5
<1>4. ASSUME ~saver[p].new.enabled, NEW t \in Types, Enabled(<<u, t>>)'
      PROVE  Enabled(<<u, t>>) /\ t \notin saver[p].held
  BY <1>4, CommitRows
<1>5. ASSUME ~saver[p].new.enabled, NEW t \in Types, Enabled(<<u, t>>)'
      PROVE  Active(u)' = Active(u)
  <2>1. Enabled(<<u, t>>) /\ t \notin saver[p].held
    BY <1>4, <1>5
  <2>2. \A s \in Types : Enabled(<<u, s>>) => s = t
    BY <1>0, <2>1 DEF LockInv, UserOK, OneActive
  <2>3. row'[<<u, t>>] = row[<<u, t>>]
    BY <2>1, CommitRows
  <2>4. ActiveKept(u)
    BY <1>4, <1>5, <2>1, <2>2, <2>3 DEF ActiveKept
  <2> QED BY <1>0, <2>4, ActiveStays
<1>6. ASSUME \A t \in Types : ~Enabled(<<u, t>>)'
      PROVE  Active(u)' = {}
  <2>1. Lit = {}
    BY <1>2, <1>6
  <2> QED BY <1>1, <2>1
<1> QED BY <1>3, <1>4, <1>5, <1>6

LEMMA CommitKeepsLocks ==
  ASSUME LockInv, Inv', NEW p \in Savers, CommitSave(p)
  PROVE  LockInv'
<1> DEFINE active == {[type |-> saver[p].slot[2], config |-> w.config] :
                        w \in {x \in {saver[p].new} : x.enabled}}
           kept == {q \in asked[p[1]] : q.id \notin saver[p].before}
<1> PICK latest : latest = [id |-> saver[p].id, active |-> active]
  OBVIOUS
<1>0. /\ saver[p] # None /\ saver[p].at = "commit" /\ p[1] \in Users
      /\ saver[p].slot[2] \in saver[p].held /\ saver[p].slot[2] \in Types
      /\ saver[p].todo = {} /\ saver[p].id <= saves
  BY SaveTyped, UserOfSaver DEF CommitSave, LockInv, Inv, SaverOK, StageOK, IdsOK
<1>1. /\ saver'[p] = None /\ (\A q \in Savers \ {p} : saver'[q] = saver[q])
      /\ overlapped' = overlapped \ {p} /\ saves' = saves
  BY DEF CommitSave, EndSave, LockInv, Inv, TypeOK
<1>2. asked' = [asked EXCEPT ![p[1]] = kept \cup {latest}]
  BY <1>0 DEF CommitSave, LockInv, Inv, TypeOK
<1>3. /\ asked'[p[1]] = kept \cup {latest}
      /\ \A u \in Users \ {p[1]} : asked'[u] = asked[u]
      /\ \A q \in asked'[p[1]] : q \in asked[p[1]] \/ q = latest
  BY <1>0, <1>2 DEF LockInv, Inv, TypeOK
<1>4. latest.id = saver[p].id /\ latest.active = active
  OBVIOUS
<1>5. IF saver[p].new.enabled
        THEN active = {[type |-> saver[p].slot[2], config |-> saver[p].new.config]}
        ELSE active = {}
  OBVIOUS
<1> HIDE DEF active, kept
<1>6. \A u \in Users \ {p[1]}, t \in Types : Enabled(<<u, t>>)' <=> Enabled(<<u, t>>)
  BY CommitRows DEF Enabled
<1>7. \A q \in Savers \ {p} : Known(q)' = Known(q)
  BY <1>1 DEF Known
<1>8. SaverOK(p)'
  BY <1>1 DEF SaverOK, StageOK, LocksOK, EntryOK, Entered, IdsOK, AloneOK
<1>9. ASSUME NEW q \in Savers \ {p} PROVE SaverOK(q)'
  <2>1. StageOK(q)' /\ LocksOK(q)'
    BY <1>1 DEF LockInv, SaverOK, StageOK, LocksOK
  <2>2. EntryOK(q)'
    <3>1. CASE q[1] = p[1] /\ Entered(q)
      <4>1. ~saver[p].new.enabled
        BY <1>0, <3>1 DEF LockInv, SaverOK, EntryOK, Entered
      <4>2. \A t \in Types : Enabled(<<p[1], t>>)' => Enabled(<<p[1], t>>)
        BY <4>1, CommitActive
      <4> QED BY <1>1, <3>1, <4>2 DEF LockInv, SaverOK, EntryOK, Entered
    <3>2. CASE q[1] # p[1]
      BY <1>1, <1>6, <3>2, UserOfSaver DEF LockInv, SaverOK, EntryOK, Entered
    <3>3. CASE ~Entered(q)
      BY <1>1, <3>3 DEF EntryOK, Entered
    <3> QED BY <3>1, <3>2, <3>3
  <2>3. IdsOK(q)'
    <3>1. CASE saver[q] = None
      BY <1>1, <3>1 DEF IdsOK
    <3>2. CASE saver[q] # None
      <4>1. \A x \in asked'[q[1]] : x.id # saver[q].id
        BY <1>0, <1>3, <1>4, <3>2, UserOfSaver DEF LockInv, SaverOK, IdsOK
      <4> QED BY <1>1, <3>2, <4>1 DEF LockInv, SaverOK, IdsOK
    <3> QED BY <3>1, <3>2
  <2>4. AloneOK(q)'
    <3>1. CASE q[1] = p[1] /\ saver[q] # None
      <4>1. q \in overlapped
        BY <1>0, <3>1 DEF LockInv, SaverOK, AloneOK, Peers
      <4> QED BY <1>1, <4>1 DEF AloneOK
    <3>2. CASE q[1] # p[1] \/ saver[q] = None
      BY <1>1, <1>6, <1>7, <3>2, UserOfSaver DEF LockInv, SaverOK, AloneOK, Peers
    <3> QED BY <3>1, <3>2
  <2> QED BY <2>1, <2>2, <2>3, <2>4 DEF SaverOK
<1>10. ASSUME NEW u \in Users, u # p[1] PROVE UserOK(u)'
  <2>1. OneActive(u)'
    BY <1>6, <1>10 DEF LockInv, UserOK, OneActive
  <2>2. ActiveKept(u)
    <3>1. \A t \in Types : row'[<<u, t>>] = row[<<u, t>>]
      BY <1>10, CommitRows
    <3> QED BY <1>6, <1>10, <3>1 DEF ActiveKept
  <2>3. Active(u)' = Active(u)
    BY <2>2, ActiveStays
  <2>4. PICK q \in asked[u] : Decided(u, q)
    BY DEF LockInv, UserOK
  <2>5. ASSUME NEW x \in Savers, Misses(x, u)' PROVE x # p /\ Misses(x, u)
    BY <1>1, <1>6, <1>7, <1>10, <2>5 DEF Misses
  <2>6. Decided(u, q)'
    BY <1>1, <1>3, <1>10, <2>3, <2>4, <2>5 DEF Decided
  <2> QED BY <1>1, <1>3, <1>10, <2>1, <2>4, <2>6 DEF LockInv, UserOK
<1>11. UserOK(p[1])'
  <2>1. OneActive(p[1])'
    <3>1. CASE saver[p].new.enabled
      BY <3>1, CommitActive DEF OneActive
    <3>2. CASE ~saver[p].new.enabled
      BY <1>0, <3>2, CommitActive DEF LockInv, UserOK, OneActive
    <3> QED BY <3>1, <3>2
  <2>2. \A q \in asked'[p[1]] : q.id <= saves'
    BY <1>0, <1>1, <1>3, <1>4 DEF LockInv, UserOK
  <2>3. latest \in asked'[p[1]]
    BY <1>3
  <2>4. ASSUME NEW x \in Savers, Misses(x, p[1])'
        PROVE  /\ x # p /\ x[1] = p[1] /\ saver[x] # None /\ saver'[x] = saver[x]
               /\ \E t \in Types \ Known(x) : Enabled(<<p[1], t>>)'
    BY <1>1, <1>7, <2>4 DEF Misses
  <2>5. ASSUME active = Active(p[1])' PROVE Decided(p[1], latest)'
    <3>1. \A x \in Savers : Misses(x, p[1])' => saver[p].id \notin saver'[x].before
      BY <1>0, <2>4 DEF LockInv, SaverOK, IdsOK
    <3> QED BY <1>4, <2>3, <2>5, <3>1 DEF Decided
  <2>6. CASE saver[p].new.enabled
    BY <1>5, <2>1, <2>2, <2>3, <2>5, <2>6, CommitActive DEF UserOK
  <2>7. CASE ~saver[p].new.enabled /\ \A t \in Types : ~Enabled(<<p[1], t>>)'
    BY <1>5, <2>1, <2>2, <2>3, <2>5, <2>7, CommitActive DEF UserOK
  <2>8. CASE ~saver[p].new.enabled /\ \E t \in Types : Enabled(<<p[1], t>>)'
    <3>1. PICK t \in Types : Enabled(<<p[1], t>>)'
      BY <2>8
    <3>2. Enabled(<<p[1], t>>) /\ t \notin saver[p].held
      BY <2>8, <3>1, CommitActive
    <3>3. Misses(p, p[1])
      BY <1>0, <3>2 DEF Misses, Known
    <3>4. PICK q \in asked[p[1]] : Decided(p[1], q)
      BY <1>0 DEF LockInv, UserOK
    <3>5. q \in asked'[p[1]]
      BY <1>3, <3>3, <3>4 DEF Decided, kept
    <3>6. Active(p[1])' = Active(p[1])
      BY <2>8, CommitActive
    <3>7. ASSUME NEW x \in Savers, Misses(x, p[1])' PROVE q.id \notin saver'[x].before
      <4>1. Misses(x, p[1])
        BY <2>4, <2>8, <3>7, CommitActive DEF Misses
      <4> QED BY <2>4, <3>4, <3>7, <4>1 DEF Decided
    <3>8. Decided(p[1], q)'
      BY <3>4, <3>5, <3>6, <3>7 DEF Decided
    <3> QED BY <2>1, <2>2, <3>5, <3>8 DEF UserOK
  <2> QED BY <2>6, <2>7, <2>8
<1> QED BY <1>8, <1>9, <1>10, <1>11 DEF LockInv

-----------------------------------------------------------------------------
LEMMA InitLockInv == Init => LockInv
<1> SUFFICES ASSUME Init PROVE LockInv
  OBVIOUS
<1>1. ASSUME NEW p \in Savers PROVE SaverOK(p)
  BY DEF Init, SaverOK, StageOK, LocksOK, EntryOK, Entered, IdsOK, AloneOK
<1>2. ASSUME NEW u \in Users PROVE UserOK(u)
  <2>1. OneActive(u)
    <3>1. ASSUME NEW s \in Types, NEW t \in Types, Enabled(<<u, s>>), Enabled(<<u, t>>)
          PROVE  <<u, s>> = <<u, t>>
      <4>1. <<u, s>> \in Slots /\ <<u, t>> \in Slots /\ row \in Tables
        BY DEF Init, Slots
      <4> QED BY <3>1, <4>1 DEF Enabled
    <3> QED BY <3>1 DEF OneActive
  <2>2. asked[u] = {[id |-> 0, active |-> Active(u)]} /\ saves = 0
    BY DEF Init
  <2>3. Decided(u, [id |-> 0, active |-> Active(u)])
    BY <2>2 DEF Decided, Misses, Init
  <2> QED BY <2>1, <2>2, <2>3 DEF UserOK
<1> QED BY <1>1, <1>2, InitInv DEF LockInv

LEMMA StepLockInv == LockInv /\ [Next]_vars => LockInv'
<1> SUFFICES ASSUME LockInv, [Next]_vars PROVE LockInv'
  OBVIOUS
<1>1. Inv /\ Inv'
  BY StepInv DEF LockInv
<1>2. ASSUME UNCHANGED saveVars, UNCHANGED row PROVE LockInv'
  BY <1>1, <1>2, SameRowsSameActive, DispatcherKeepsLocks
<1>3. ASSUME NEW p \in Savers, SaveStep(p) PROVE LockInv'
  BY <1>1, <1>3, BeginKeepsLocks, DisableRowKeepsLocks, UpsertRowKeepsLocks,
     EnterIndexKeepsLocks, CommitKeepsLocks, RollbackKeepsLocks
     DEF SaveStep, SlotTaken, DeadlockVictim, SaveFails
<1>4. ASSUME NEW i \in Runs, RunStep(i) PROVE LockInv'
  <2>1. CASE Claim(i)
    BY <1>1, <2>1, ClaimKeepsActive, DispatcherKeepsLocks DEF Claim
  <2>2. CASE Refine(i)
    BY <1>1, <2>2, RefineKeepsActive, DispatcherKeepsLocks DEF Refine
  <2> QED BY <1>2, <1>4, <2>1, <2>2 DEF RunStep, Enqueue, RefineFails, Die, scheduleVars
<1> QED BY <1>2, <1>3, <1>4 DEF Next, ComeDue, vars, scheduleVars

LEMMA LockInvariant == Spec => []LockInv
BY InitLockInv, StepLockInv, PTL DEF Spec

(* A save that was never beside another waits for nobody, and knows every  *)
(* active row before it comes to the index.                                *)
LEMMA RefusedOverlapped ==
  ASSUME LockInv, NEW p \in Savers, SlotTaken(p) \/ DeadlockVictim(p)
  PROVE  p \in overlapped
<1>1. CASE SlotTaken(p)
  <2>1. PICK t \in Types \ ({saver[p].slot[2]} \cup saver[p].held) : Enabled(<<p[1], t>>)
    BY <1>1 DEF SlotTaken, Rivals
  <2>2. saver[p] # None /\ t \notin Known(p)
    BY <1>1, <2>1 DEF SlotTaken, LockInv, SaverOK, StageOK, Known
  <2> QED BY <2>1, <2>2 DEF LockInv, SaverOK, AloneOK
<1>2. CASE DeadlockVictim(p)
  <2>1. PICK x \in Savers : x \in WaitsFor(p)
    BY <1>2 DEF DeadlockVictim, Deadlocked
  <2>2. saver[p] # None
    BY <2>1 DEF WaitsFor
  <2>3. \A t : Others(p, t) \subseteq Peers(p)
    BY DEF Others, Holders, Peers
  <2>4. x \in Peers(p)
    <3>1. CASE x \in IndexWaits(p)
      BY <2>3, <3>1 DEF IndexWaits
    <3>2. CASE x \in UNION {Others(p, t) : t \in saver[p].todo}
      BY <2>3, <3>2
    <3>3. x \in IndexWaits(p) \/ x \in Others(p, saver[p].slot[2])
            \/ x \in UNION {Others(p, t) : t \in saver[p].todo}
      BY <2>1 DEF WaitsFor
    <3> QED BY <2>3, <3>1, <3>2, <3>3
  <2> QED BY <2>2, <2>4 DEF LockInv, SaverOK, AloneOK
<1> QED BY <1>1, <1>2

(* diagnosis-schedule.ts:143-153: however many saves of however many users *)
(* and tabs interleave, wait, deadlock or fail, a user's active rows are   *)
(* what one of the latest saves asked for.                                 *)
THEOREM ActiveAsSaved == Spec => []ActiveIsAsSaved
<1>1. LockInv => ActiveIsAsSaved
  BY DEF LockInv, UserOK, Decided, ActiveIsAsSaved
<1> QED BY <1>1, LockInvariant, PTL

(* diagnosis-schedule.ts:174-182: a save that had no other of its user     *)
(* beside it is neither refused by the unique index nor part of a deadlock.*)
THEOREM OnlyOverlappingSavesConflict == Spec => ConflictMeansConcurrent
<1>1. LockInv =>
        [\A p \in Savers : SlotTaken(p) \/ DeadlockVictim(p) => p \in overlapped]_vars
  BY RefusedOverlapped
<1> QED BY <1>1, LockInvariant, PTL DEF ConflictMeansConcurrent

=============================================================================
