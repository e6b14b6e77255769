------------------------ MODULE InventoryGraphProofs -------------------------
(***************************************************************************)
(* The inventory sync and the topology graph over it, for every set of     *)
(* accounts and resources and every number of overlapping, failing and     *)
(* killed invocations and of rebuilds in other processes.  First the sync: *)
(* what a ledger row that reads succeeded says of the table.  Then the     *)
(* graph: it is the whole of one collection, says whether it was retained, *)
(* and never goes back behind an attempt recorded before.                  *)
(***************************************************************************)
EXTENDS InventoryGraph, FiniteSetTheorems, TLAPS

-----------------------------------------------------------------------------
(* The sync.                                                               *)

PCs == Holding \cup {"idle", "finalize", "done"}

Locals == [pc : PCs, seen : SUBSET Keys, todo : SUBSET Keys, ask : SUBSET Accounts,
           present : SUBSET Accounts, out : {"succeeded", "partial", "failed"}]

Ledgers == [status : {"none", "running", "succeeded", "partial", "failed"},
            run : Runs \cup {None}, count : Nat, ok : Runs \cup {None}]

(* Who writes the table holds the lock, and the ledger is marked with it.  *)
Owner(r) ==
  run[r].pc \in Holding => lock = r /\ ledger.run = r /\ ledger.status = "running"

(* The rows of an account in the scan that the run has seen are written;   *)
(* those of another are gone.                                              *)
Kept(r) ==
  \A a \in Accounts :
    \/ \A i \in Ids : <<a, i>> \in run[r].seen => res[<<a, i>>] = r
    \/ a # Self /\ \A i \in Ids : res[<<a, i>>] = None

(* What SucceededIsSnapshot says of the run of the ledger. *)
Snapshot(r) ==
  /\ Self \in run[r].present
  /\ \A a \in run[r].present :
       \/ \A i \in Ids : res[<<a, i>>] = IF <<a, i>> \in run[r].seen THEN r ELSE None
       \/ a # Self /\ \A i \in Ids : res[<<a, i>>] = None

Upserting(r) == \A k \in run[r].seen \ run[r].todo : res[k] = r

Probing(r) ==
  /\ Kept(r)
  /\ run[r].out = "succeeded" => Self \in run[r].ask \cup run[r].present

Pruning(r) ==
  /\ Kept(r)
  /\ run[r].ask = {}
  /\ run[r].todo \cap run[r].seen = {}
  /\ run[r].out = "succeeded" => Self \in run[r].present
  /\ \A a \in run[r].present, i \in Ids :
       res[<<a, i>>] # None => <<a, i>> \in run[r].seen \cup run[r].todo

PhaseOK(r) ==
  /\ run[r].pc = "upsert" => Upserting(r)
  /\ run[r].pc = "probe" => Probing(r)
  /\ run[r].pc = "prune" => Pruning(r)
  /\ run[r].pc = "points" => run[r].ask \subseteq run[r].present
  /\ run[r].pc \in {"points", "close"} /\ run[r].out = "succeeded" => Snapshot(r)

(* Between the unlock and the ledger nobody writes the table, or the ledger *)
(* is another's.                                                            *)
FinalOK(r) ==
  run[r].pc = "finalize" /\ ledger.run = r /\ run[r].out = "succeeded" => Snapshot(r)

Late == {"points", "close", "finalize", "done"}

(* The count that a succeeding run has written of an account. *)
PointOK(a) ==
  LET r == point[a].run IN
  r # None =>
    /\ run[r].pc \in Late
    /\ run[r].out = "succeeded" =>
         a \in run[r].present /\ point[a].n = Cardinality(IdsOf(run[r].seen, a))

ClosedOK ==
  ledger.status = "succeeded" =>
    /\ ledger.run \in Runs /\ ledger.ok = ledger.run
    /\ run[ledger.run].pc = "done" /\ run[ledger.run].out = "succeeded"

SyncInv ==
  /\ SyncTypeOK
  /\ SucceededIsSnapshot
  /\ ClosedOK
  /\ \A r \in Runs : Owner(r) /\ PhaseOK(r) /\ FinalOK(r)
  /\ \A a \in Accounts : PointOK(a)

USE InventoryAssumption

-----------------------------------------------------------------------------
LEMMA RunsTyped == ASSUME SyncTypeOK PROVE run \in [Runs -> Locals]
BY DEF SyncTypeOK, Locals, PCs

LEMMA LedgerTyped == ASSUME SyncTypeOK PROVE ledger \in Ledgers
BY DEF SyncTypeOK, Ledgers

LEMMA IdsFinite ==
  ASSUME NEW K \in SUBSET Keys, NEW a \in Accounts
  PROVE  Cardinality(IdsOf(K, a)) \in Nat
<1>1. IdsOf(K, a) \subseteq Ids
  BY DEF IdsOf
<1> QED
  BY <1>1, FS_Subset, FS_CardinalityType

LEMMA KeysFinite == ASSUME NEW K \in SUBSET Keys PROVE Cardinality(K) \in Nat
<1>1. IsFiniteSet(Accounts)
  BY FS_AddElement DEF Accounts
<1>2. IsFiniteSet(Keys)
  BY <1>1, FS_Product DEF Keys
<1> QED
  BY <1>2, FS_Subset, FS_CardinalityType

LEMMA EndedTyped ==
  /\ Idle \in Locals /\ Idle.pc = "idle"
  /\ Ended \in Locals /\ Ended.pc = "done" /\ Ended.out = "failed"
  /\ [Idle EXCEPT !.pc = "close", !.out = "failed"] \in Locals
  /\ [Idle EXCEPT !.pc = "close", !.out = "failed"].pc = "close"
  /\ [Idle EXCEPT !.pc = "close", !.out = "failed"].out = "failed"
BY DEF Idle, Ended, Locals, PCs, Holding

(* A step of one invocation. *)
LEMMA BecomesTyped ==
  ASSUME SyncTypeOK, NEW r \in Runs, NEW e \in Locals, Becomes(r, e)
  PROVE  /\ run' \in [Runs -> Locals]
         /\ run'[r] = e
         /\ \A s \in Runs \ {r} : run'[s] = run[s]
BY RunsTyped DEF Becomes

(* The holder of the lock, working: nobody else writes, and the ledger     *)
(* says running.                                                           *)
LEMMA HolderKeeps ==
  ASSUME SyncInv, SyncTypeOK', NEW r \in Runs, run[r].pc \in Holding,
         NEW e \in Locals, Becomes(r, e), e.pc \in Holding, UNCHANGED <<ledger, lock>>,
         PhaseOK(r)', \A a \in Accounts : PointOK(a)'
  PROVE  SyncInv'
<1>1. /\ SyncTypeOK /\ run'[r] = e
      /\ \A s \in Runs \ {r} : run'[s] = run[s]
  BY BecomesTyped DEF SyncInv
<1>2. lock = r /\ ledger.run = r /\ ledger.status = "running"
  BY DEF SyncInv, Owner
<1>3. \A s \in Runs \ {r} : run[s].pc \notin Holding
  BY <1>2 DEF SyncInv, Owner
<1>4. \A s \in Runs : Owner(s)'
  BY <1>1, <1>2, <1>3 DEF Owner
<1>5. \A s \in Runs \ {r} : PhaseOK(s)' /\ FinalOK(s)'
  BY <1>1, <1>2, <1>3 DEF PhaseOK, FinalOK, Holding
<1>6. FinalOK(r)'
  BY <1>1 DEF FinalOK, Holding
<1>7. SucceededIsSnapshot' /\ ClosedOK'
  BY <1>2 DEF SucceededIsSnapshot, ClosedOK
<1> QED
  BY <1>4, <1>5, <1>6, <1>7 DEF SyncInv

(* The counts stay true while no count is written, if the run that is at   *)
(* work has written none, fails, or keeps what it has seen.                *)
LEMMA PointsStay ==
  ASSUME SyncInv, NEW r \in Runs, NEW e \in Locals, Becomes(r, e), UNCHANGED point,
         \/ run[r].pc \notin Late
         \/ e.pc \in Late /\ e.out = "failed"
         \/ /\ e.pc \in Late /\ e.out = run[r].out
            /\ e.seen = run[r].seen /\ e.present = run[r].present
  PROVE  \A a \in Accounts : PointOK(a)'
<1>1. /\ SyncTypeOK /\ run'[r] = e
      /\ \A s \in Runs \ {r} : run'[s] = run[s]
  BY BecomesTyped DEF SyncInv
<1> SUFFICES ASSUME NEW a \in Accounts PROVE PointOK(a)'
  OBVIOUS
<1>2. PointOK(a) /\ point'[a] = point[a] /\ point[a].run \in Runs \cup {None}
  BY <1>1 DEF SyncInv, SyncTypeOK
<1>3. CASE point[a].run = r
  BY <1>1, <1>2, <1>3 DEF PointOK
<1>4. CASE point[a].run # r
  BY <1>1, <1>2, <1>4 DEF PointOK
<1> QED
  BY <1>3, <1>4

(* The table and the counts change at most; the types of the rest.         *)
LEMMA WorkTyped ==
  ASSUME SyncTypeOK, NEW r \in Runs, NEW e \in Locals, Becomes(r, e),
         UNCHANGED <<kind, ledger, inScope, up, changes>>, lock' \in Runs \cup {None},
         res' \in [Keys -> Runs \cup {None}],
         point' \in [Accounts -> [run : Runs \cup {None}, n : Nat]]
  PROVE  SyncTypeOK'
BY BecomesTyped DEF SyncTypeOK, Locals, PCs

LEMMA TablesTyped ==
  ASSUME SyncTypeOK
  PROVE  /\ res \in [Keys -> Runs \cup {None}]
         /\ point \in [Accounts -> [run : Runs \cup {None}, n : Nat]]
         /\ lock \in Runs \cup {None}
         /\ inScope \subseteq Members
BY DEF SyncTypeOK

LEMMA KeyParts ==
  /\ \A a \in Accounts, i \in Ids : <<a, i>> \in Keys /\ <<a, i>>[1] = a
  /\ \A k \in Keys : k[1] \in Accounts /\ k[2] \in Ids /\ k = <<k[1], k[2]>>
BY DEF Keys

-----------------------------------------------------------------------------
(* The steps of one invocation. *)
LEMMA QueryKeeps == ASSUME SyncInv, NEW r \in Runs, Query(r) PROVE SyncInv'
<1>1. SyncTypeOK /\ run[r] \in Locals /\ run[r].pc = "query"
  BY RunsTyped DEF SyncInv, Query
<1>2. PICK partial \in BOOLEAN, K \in SUBSET Keys :
        Becomes(r, [run[r] EXCEPT
            !.pc = "upsert", !.seen = K, !.todo = K,
            !.ask = IF kind = "sdk" THEN {} ELSE inScope,
            !.out = IF partial THEN "partial" ELSE "succeeded"])
  BY DEF Query
<1> DEFINE ask == IF kind = "sdk" THEN {} ELSE inScope
           out == IF partial THEN "partial" ELSE "succeeded"
           e == [run[r] EXCEPT !.pc = "upsert", !.seen = K, !.todo = K,
                               !.ask = ask, !.out = out]
<1>3. ask \subseteq Accounts /\ out \in {"succeeded", "partial"}
  BY <1>1, TablesTyped DEF Accounts
<1>4. Becomes(r, e)
  BY <1>2
<1> HIDE DEF ask, out
<1>5. e \in Locals /\ e.pc = "upsert" /\ e.seen = K /\ e.todo = K
  BY <1>1, <1>3 DEF Locals, PCs, Holding
<1> HIDE DEF e
<1>6. UNCHANGED <<kind, lock, ledger, res, point, inScope, up, changes>>
  BY DEF Query
<1>7. SyncTypeOK'
  BY <1>1, <1>4, <1>5, <1>6, WorkTyped, TablesTyped
<1>8. run'[r] = e
  BY <1>1, <1>4, <1>5, BecomesTyped
<1>9. PhaseOK(r)'
  BY <1>5, <1>8 DEF PhaseOK, Upserting
<1>10. \A a \in Accounts : PointOK(a)'
  BY <1>1, <1>4, <1>5, <1>6, PointsStay DEF Late
<1> QED
  BY <1>1, <1>4, <1>5, <1>6, <1>7, <1>9, <1>10, HolderKeeps DEF Holding

LEMMA UpsertKeeps == ASSUME SyncInv, NEW r \in Runs, Upsert(r) PROVE SyncInv'
<1>1. /\ SyncTypeOK /\ run[r] \in Locals /\ run[r].pc = "upsert"
      /\ run[r].seen \subseteq Keys /\ run[r].todo \subseteq Keys /\ Upserting(r)
  BY RunsTyped DEF SyncInv, Upsert, PhaseOK, Locals
<1>2. PICK k \in run[r].todo :
        res' = [res EXCEPT ![k] = r] /\ Becomes(r, [run[r] EXCEPT !.todo = @ \ {k}])
  BY DEF Upsert
<1> DEFINE e == [run[r] EXCEPT !.todo = run[r].todo \ {k}]
<1>3. Becomes(r, e)
  BY <1>2
<1>4. /\ e \in Locals /\ e.pc = "upsert" /\ e.seen = run[r].seen
      /\ e.todo = run[r].todo \ {k}
  BY <1>1 DEF Locals
<1> HIDE DEF e
<1>5. UNCHANGED <<kind, lock, ledger, point, inScope, up, changes>>
  BY DEF Upsert
<1>6. res \in [Keys -> Runs \cup {None}] /\ res' \in [Keys -> Runs \cup {None}]
  BY <1>1, <1>2, TablesTyped
<1>7. SyncTypeOK'
  BY <1>1, <1>3, <1>4, <1>5, <1>6, WorkTyped, TablesTyped
<1>8. run'[r] = e
  BY <1>1, <1>3, <1>4, BecomesTyped
<1>9. PhaseOK(r)'
  BY <1>1, <1>2, <1>4, <1>6, <1>8 DEF PhaseOK, Upserting
<1>10. \A a \in Accounts : PointOK(a)'
  BY <1>1, <1>3, <1>4, <1>5, PointsStay DEF Late
<1> QED
  BY <1>1, <1>3, <1>4, <1>5, <1>7, <1>9, <1>10, HolderKeeps DEF Holding

(* An incomplete collection goes straight to the close.  Otherwise the     *)
(* members out of the scan lose their rows, and the others keep what the   *)
(* run has seen.                                                           *)
LEMMA SweepKeeps == ASSUME SyncInv, NEW r \in Runs, Sweep(r) PROVE SyncInv'
<1>1. /\ SyncTypeOK /\ run[r] \in Locals /\ run[r].pc = "upsert" /\ run[r].todo = {}
      /\ run[r].seen \subseteq Keys /\ run[r].ask \subseteq Accounts
      /\ run[r].out \in {"succeeded", "partial", "failed"} /\ Upserting(r)
  BY RunsTyped DEF SyncInv, Sweep, PhaseOK, Locals
<1>2. /\ res \in [Keys -> Runs \cup {None}] /\ lock \in Runs \cup {None}
      /\ point \in [Accounts -> [run : Runs \cup {None}, n : Nat]]
  BY <1>1, TablesTyped
<1>3. UNCHANGED <<kind, lock, ledger, point, inScope, up, changes>>
  BY DEF Sweep
<1>4. CASE /\ run[r].out = "partial" /\ UNCHANGED res
           /\ Becomes(r, [run[r] EXCEPT !.pc = "close"])
  <2> DEFINE e == [run[r] EXCEPT !.pc = "close"]
  <2>1. Becomes(r, e)
    BY <1>4
  <2>2. e \in Locals /\ e.pc = "close" /\ e.out = "partial"
    BY <1>1, <1>4 DEF Locals, PCs, Holding
  <2> HIDE DEF e
  <2>3. SyncTypeOK'
    BY <1>1, <1>2, <1>3, <1>4, <2>1, <2>2, WorkTyped
  <2>4. run'[r] = e
    BY <1>1, <2>1, <2>2, BecomesTyped
  <2>5. PhaseOK(r)'
    BY <2>2, <2>4 DEF PhaseOK
  <2>6. \A a \in Accounts : PointOK(a)'
    BY <1>1, <1>3, <2>1, <2>2, PointsStay DEF Late
  <2> QED
    BY <1>1, <1>3, <2>1, <2>2, <2>3, <2>5, <2>6, HolderKeeps DEF Holding
<1>5. CASE ~(run[r].out = "partial" /\ UNCHANGED res
             /\ Becomes(r, [run[r] EXCEPT !.pc = "close"]))
  <2> DEFINE answered == {a \in Accounts : IdsOf(run[r].seen, a) # {}}
             present == IF kind = "sdk" THEN answered \cup {Self} ELSE answered
             ask == (run[r].ask \cup {Self}) \ present
             e == [run[r] EXCEPT !.pc = "probe", !.present = present, !.ask = ask]
  <2>1. /\ res' = [k \in Keys |-> IF k[1] \in Members \ inScope THEN None ELSE res[k]]
        /\ Becomes(r, e)
    BY <1>5 DEF Sweep
  <2>2. /\ present \subseteq Accounts /\ ask \subseteq Accounts
        /\ Self \in ask \cup present
    BY <1>1 DEF Accounts
  <2> HIDE DEF answered, present, ask
  <2>3. e \in Locals /\ e.pc = "probe" /\ e.present = present /\ e.ask = ask
        /\ e.seen = run[r].seen /\ e.out = run[r].out
    BY <1>1, <2>2 DEF Locals, PCs, Holding
  <2> HIDE DEF e
  <2>4. res' \in [Keys -> Runs \cup {None}]
    BY <1>2, <2>1
  <2>5. SyncTypeOK'
    BY <1>1, <1>2, <1>3, <2>1, <2>3, <2>4, WorkTyped
  <2>6. run'[r] = e
    BY <1>1, <2>1, <2>3, BecomesTyped
  <2>7. Kept(r)'
    <3> SUFFICES ASSUME NEW a \in Accounts
                 PROVE  \/ \A i \in Ids : <<a, i>> \in run[r].seen => res'[<<a, i>>] = r
                        \/ a # Self /\ \A i \in Ids : res'[<<a, i>>] = None
      BY <2>3, <2>6 DEF Kept
    <3>1. CASE a \in Members \ inScope
      BY <2>1, <3>1, KeyParts
    <3>2. CASE a \notin Members \ inScope
      BY <1>1, <2>1, <3>2, KeyParts DEF Upserting
    <3> QED
      BY <3>1, <3>2
  <2>8. PhaseOK(r)'
    BY <2>2, <2>3, <2>6, <2>7 DEF PhaseOK, Probing
  <2>9. \A a \in Accounts : PointOK(a)'
    BY <1>1, <1>3, <2>1, <2>3, PointsStay DEF Late
  <2> QED
    BY <1>1, <1>3, <2>1, <2>3, <2>5, <2>8, <2>9, HolderKeeps DEF Holding
<1> QED
  BY <1>4, <1>5

LEMMA ProbeKeeps == ASSUME SyncInv, NEW r \in Runs, Probe(r) PROVE SyncInv'
<1>1. /\ SyncTypeOK /\ run[r] \in Locals /\ run[r].pc = "probe" /\ Probing(r)
      /\ run[r].present \subseteq Accounts /\ run[r].ask \subseteq Accounts
  BY RunsTyped DEF SyncInv, Probe, PhaseOK, Locals
<1>2. UNCHANGED <<kind, lock, ledger, res, point, inScope, up, changes>>
  BY DEF Probe
<1>3. PICK a \in run[r].ask, e \in Locals :
        /\ Becomes(r, e) /\ e.pc = "probe" /\ e.seen = run[r].seen
        /\ e.ask = run[r].ask \ {a} /\ e.present \subseteq Accounts
        /\ \/ e.present = run[r].present \cup {a} /\ e.out = run[r].out
           \/ e.out = "partial"
  <2>1. PICK a \in run[r].ask :
          \/ Becomes(r, [run[r] EXCEPT !.ask = @ \ {a}, !.present = @ \cup {a}])
          \/ Becomes(r, [run[r] EXCEPT !.ask = @ \ {a}, !.out = "partial"])
    BY DEF Probe
  <2> DEFINE d == [run[r] EXCEPT !.ask = run[r].ask \ {a},
                                 !.present = run[r].present \cup {a}]
             e == [run[r] EXCEPT !.ask = run[r].ask \ {a}, !.out = "partial"]
  <2>2. Becomes(r, d) \/ Becomes(r, e)
    BY <2>1
  <2>3. /\ d \in Locals /\ d.pc = "probe" /\ d.seen = run[r].seen
        /\ d.ask = run[r].ask \ {a} /\ d.present = run[r].present \cup {a}
        /\ d.out = run[r].out
    BY <1>1 DEF Locals
  <2>4. /\ e \in Locals /\ e.pc = "probe" /\ e.seen = run[r].seen
        /\ e.ask = run[r].ask \ {a} /\ e.present = run[r].present
        /\ e.out = "partial"
    BY <1>1 DEF Locals
  <2> HIDE DEF d, e
  <2> QED
    BY <1>1, <2>2, <2>3, <2>4
<1>4. run'[r] = e
  BY <1>1, <1>3, BecomesTyped
<1>5. SyncTypeOK'
  BY <1>1, <1>2, <1>3, WorkTyped, TablesTyped
<1>6. PhaseOK(r)'
  BY <1>1, <1>2, <1>3, <1>4 DEF PhaseOK, Probing, Kept
<1>7. \A b \in Accounts : PointOK(b)'
  BY <1>1, <1>2, <1>3, PointsStay DEF Late
<1> QED
  BY <1>1, <1>2, <1>3, <1>5, <1>6, <1>7, HolderKeeps DEF Holding

LEMMA FindStaleKeeps == ASSUME SyncInv, NEW r \in Runs, FindStale(r) PROVE SyncInv'
<1>1. /\ SyncTypeOK /\ run[r] \in Locals /\ run[r].pc = "probe" /\ run[r].ask = {}
      /\ Probing(r) /\ run[r].present \subseteq Accounts
  BY RunsTyped DEF SyncInv, FindStale, PhaseOK, Locals
<1>2. UNCHANGED <<kind, lock, ledger, res, point, inScope, up, changes>>
  BY DEF FindStale
<1> DEFINE stale == Stale(r)
           e == [run[r] EXCEPT !.pc = "prune", !.todo = stale]
<1>3. Becomes(r, e)
  BY DEF FindStale
<1>4. /\ stale \subseteq Keys /\ stale \cap run[r].seen = {}
      /\ \A a \in run[r].present, i \in Ids :
           res[<<a, i>>] # None => <<a, i>> \in run[r].seen \cup stale
  BY <1>1, KeyParts DEF Stale, Stored
<1> HIDE DEF stale
<1>5. /\ e \in Locals /\ e.pc = "prune" /\ e.todo = stale /\ e.seen = run[r].seen
      /\ e.present = run[r].present /\ e.out = run[r].out /\ e.ask = {}
  BY <1>1, <1>4 DEF Locals, PCs, Holding
<1> HIDE DEF e
<1>6. run'[r] = e
  BY <1>1, <1>3, <1>5, BecomesTyped
<1>7. SyncTypeOK'
  BY <1>1, <1>2, <1>3, <1>5, WorkTyped, TablesTyped
<1>8. PhaseOK(r)'
  BY <1>1, <1>2, <1>4, <1>5, <1>6 DEF PhaseOK, Probing, Pruning, Kept
<1>9. \A b \in Accounts : PointOK(b)'
  BY <1>1, <1>2, <1>3, <1>5, PointsStay DEF Late
<1> QED
  BY <1>1, <1>2, <1>3, <1>5, <1>7, <1>8, <1>9, HolderKeeps DEF Holding

(* When nothing stale is left the table is what the run has seen.          *)
LEMMA PruneKeeps == ASSUME SyncInv, NEW r \in Runs, Prune(r) PROVE SyncInv'
<1>1. /\ SyncTypeOK /\ run[r] \in Locals /\ run[r].pc = "prune" /\ Pruning(r)
      /\ run[r].present \subseteq Accounts /\ run[r].todo \subseteq Keys
      /\ run[r].ask \subseteq Accounts
  BY RunsTyped DEF SyncInv, Prune, PhaseOK, Locals
<1>2. res \in [Keys -> Runs \cup {None}]
  BY <1>1, TablesTyped
<1>3. UNCHANGED <<kind, lock, ledger, point, inScope, up, changes>>
  BY DEF Prune
<1>4. ASSUME NEW k \in run[r].todo, res' = [res EXCEPT ![k] = None],
             Becomes(r, [run[r] EXCEPT !.todo = @ \ {k}])
      PROVE  SyncInv'
  <2> DEFINE e == [run[r] EXCEPT !.todo = run[r].todo \ {k}]
  <2>1. Becomes(r, e)
    BY <1>4
  <2>2. /\ e \in Locals /\ e.pc = "prune" /\ e.seen = run[r].seen
        /\ e.todo = run[r].todo \ {k} /\ e.ask = run[r].ask
        /\ e.present = run[r].present /\ e.out = run[r].out
    BY <1>1 DEF Locals
  <2> HIDE DEF e
  <2>3. res' \in [Keys -> Runs \cup {None}]
    BY <1>2, <1>4
  <2>4. SyncTypeOK'
    BY <1>1, <1>3, <2>1, <2>2, <2>3, WorkTyped, TablesTyped
  <2>5. run'[r] = e
    BY <1>1, <2>1, <2>2, BecomesTyped
  <2>6. /\ k \in Keys /\ k \notin run[r].seen
        /\ \A b \in Keys : res'[b] = IF b = k THEN None ELSE res[b]
    BY <1>1, <1>2, <1>4 DEF Pruning
  <2>7. \A a \in Accounts, i \in Ids : <<a, i>> \in Keys
    BY KeyParts
  <2>8. Kept(r)'
    BY <1>1, <2>2, <2>5, <2>6, <2>7 DEF Pruning, Kept
  <2>9. PhaseOK(r)'
    BY <1>1, <2>2, <2>5, <2>6, <2>7, <2>8 DEF PhaseOK, Pruning
  <2>10. \A b \in Accounts : PointOK(b)'
    BY <1>1, <1>3, <2>1, <2>2, PointsStay DEF Late
  <2> QED
    BY <1>1, <1>3, <2>1, <2>2, <2>4, <2>9, <2>10, HolderKeeps DEF Holding
<1>5. ASSUME run[r].todo = {}, UNCHANGED res,
             Becomes(r, [run[r] EXCEPT !.pc = "points", !.ask = @ \cup run[r].present])
      PROVE  SyncInv'
  <2> DEFINE ask == run[r].ask \cup run[r].present
             e == [run[r] EXCEPT !.pc = "points", !.ask = ask]
  <2>1. Becomes(r, e)
    BY <1>5
  <2>2. ask = run[r].present /\ ask \subseteq Accounts
    BY <1>1 DEF Pruning
  <2> HIDE DEF ask
  <2>3. /\ e \in Locals /\ e.pc = "points" /\ e.seen = run[r].seen /\ e.ask = ask
        /\ e.present = run[r].present /\ e.out = run[r].out
    BY <1>1, <2>2 DEF Locals, PCs, Holding
  <2> HIDE DEF e
  <2>4. SyncTypeOK'
    BY <1>1, <1>2, <1>3, <1>5, <2>1, <2>3, WorkTyped, TablesTyped
  <2>5. run'[r] = e
    BY <1>1, <2>1, <2>3, BecomesTyped
  <2>6. \A a \in run[r].present, i \in Ids : res[<<a, i>>] # None => <<a, i>> \in run[r].seen
    BY <1>1, <1>5 DEF Pruning
  <2>7. ASSUME run[r].out = "succeeded" PROVE Snapshot(r)'
    BY <1>1, <1>5, <2>3, <2>5, <2>6, <2>7 DEF Snapshot, Pruning, Kept
  <2>8. PhaseOK(r)'
    BY <2>2, <2>3, <2>5, <2>7 DEF PhaseOK
  <2>9. \A b \in Accounts : PointOK(b)'
    BY <1>1, <1>3, <2>1, <2>3, PointsStay DEF Late
  <2> QED
    BY <1>1, <1>3, <2>1, <2>3, <2>4, <2>8, <2>9, HolderKeeps DEF Holding
<1> QED
  BY <1>4, <1>5 DEF Prune

LEMMA WritePointKeeps == ASSUME SyncInv, NEW r \in Runs, WritePoint(r) PROVE SyncInv'
<1>1. /\ SyncTypeOK /\ run[r] \in Locals /\ run[r].pc = "points" /\ PhaseOK(r)
      /\ run[r].present \subseteq Accounts /\ run[r].ask \subseteq Accounts
      /\ run[r].seen \subseteq Keys
  BY RunsTyped DEF SyncInv, WritePoint, Locals
<1>2. UNCHANGED <<kind, lock, ledger, res, inScope, up, changes>>
  BY DEF WritePoint
<1>3. ASSUME NEW a \in run[r].ask,
             point' = [point EXCEPT ![a] =
               [run |-> r, n |-> Cardinality(IdsOf(run[r].seen, a))]],
             Becomes(r, [run[r] EXCEPT !.ask = @ \ {a}])
      PROVE  SyncInv'
  <2> DEFINE e == [run[r] EXCEPT !.ask = run[r].ask \ {a}]
             n == Cardinality(IdsOf(run[r].seen, a))
  <2>1. Becomes(r, e) /\ point' = [point EXCEPT ![a] = [run |-> r, n |-> n]]
    BY <1>3
  <2>2. /\ e \in Locals /\ e.pc = "points" /\ e.seen = run[r].seen
        /\ e.ask = run[r].ask \ {a} /\ e.present = run[r].present /\ e.out = run[r].out
    BY <1>1 DEF Locals
  <2> HIDE DEF e
  <2>3. n \in Nat
    BY <1>1, IdsFinite
  <2>4. point' \in [Accounts -> [run : Runs \cup {None}, n : Nat]]
    <3> HIDE DEF n
    <3> QED
      BY <1>1, <2>1, <2>3, TablesTyped
  <2>5. SyncTypeOK'
    BY <1>1, <1>2, <2>1, <2>2, <2>4, WorkTyped, TablesTyped
  <2>6. run'[r] = e /\ \A s \in Runs \ {r} : run'[s] = run[s]
    BY <1>1, <2>1, <2>2, BecomesTyped
  <2>7. PhaseOK(r)'
    BY <1>1, <1>2, <2>2, <2>6 DEF PhaseOK, Snapshot
  <2>8. ASSUME NEW b \in Accounts PROVE PointOK(b)'
    <3>1. PointOK(b) /\ point[b].run \in Runs \cup {None}
      BY <1>1, TablesTyped DEF SyncInv
    <3>2. CASE b = a
      <4>1. point'[b].run = r /\ point'[b].n = n
        BY <1>1, <2>1, <3>2, TablesTyped
      <4> QED
        BY <1>1, <2>2, <2>6, <3>2, <4>1 DEF PointOK, PhaseOK, Late
    <3>3. CASE b # a
      <4>1. point'[b] = point[b]
        BY <1>1, <2>1, <3>3, TablesTyped
      <4> QED
        BY <2>2, <2>6, <3>1, <4>1 DEF PointOK, Late
    <3> QED
      BY <3>2, <3>3
  <2> QED
    BY <1>1, <1>2, <2>1, <2>2, <2>5, <2>7, <2>8, HolderKeeps DEF Holding
<1>4. ASSUME UNCHANGED point, Becomes(r, [run[r] EXCEPT !.pc = "close"])
      PROVE  SyncInv'
  <2> DEFINE e == [run[r] EXCEPT !.pc = "close"]
  <2>1. Becomes(r, e)
    BY <1>4
  <2>2. /\ e \in Locals /\ e.pc = "close" /\ e.seen = run[r].seen
        /\ e.present = run[r].present /\ e.out = run[r].out
    BY <1>1 DEF Locals, PCs, Holding
  <2> HIDE DEF e
  <2>3. SyncTypeOK'
    BY <1>1, <1>2, <1>4, <2>1, <2>2, WorkTyped, TablesTyped
  <2>4. run'[r] = e
    BY <1>1, <2>1, <2>2, BecomesTyped
  <2>5. PhaseOK(r)'
    BY <1>1, <1>2, <2>2, <2>4 DEF PhaseOK, Snapshot
  <2>6. \A b \in Accounts : PointOK(b)'
    BY <1>1, <1>4, <2>1, <2>2, PointsStay DEF Late
  <2> QED
    BY <1>1, <1>2, <2>1, <2>2, <2>3, <2>5, <2>6, HolderKeeps DEF Holding
<1> QED
  BY <1>3, <1>4 DEF WritePoint

(* An invocation that fails may take a count with it. *)
LEMMA PointsDrop ==
  ASSUME SyncInv, NEW r \in Runs, NEW e \in Locals, Becomes(r, e), LosesAPoint(r),
         e.pc \in Late, e.out = "failed"
  PROVE  /\ point' \in [Accounts -> [run : Runs \cup {None}, n : Nat]]
         /\ \A a \in Accounts : PointOK(a)'
<1>1. /\ SyncTypeOK /\ run'[r] = e
      /\ \A s \in Runs \ {r} : run'[s] = run[s]
  BY BecomesTyped DEF SyncInv
<1>2. point \in [Accounts -> [run : Runs \cup {None}, n : Nat]]
  BY <1>1, TablesTyped
<1> DEFINE gone == [run |-> None, n |-> 0]
<1>3. gone \in [run : Runs \cup {None}, n : Nat] /\ gone.run = None
  OBVIOUS
<1>4. UNCHANGED point \/ \E a \in run[r].ask : point' = [point EXCEPT ![a] = gone]
  BY DEF LosesAPoint
<1> HIDE DEF gone
<1>5. /\ point' \in [Accounts -> [run : Runs \cup {None}, n : Nat]]
      /\ \A a \in Accounts : point'[a] = point[a] \/ point'[a].run = None
  BY <1>2, <1>3, <1>4
<1>6. ASSUME NEW a \in Accounts PROVE PointOK(a)'
  <2>1. PointOK(a) /\ point[a].run \in Runs \cup {None}
    BY <1>2 DEF SyncInv
  <2>2. CASE point'[a].run = None
    BY <2>2 DEF PointOK
  <2>3. CASE point'[a] = point[a] /\ point[a].run = r
    BY <1>1, <2>3 DEF PointOK
  <2>4. CASE point'[a] = point[a] /\ point[a].run # r
    BY <1>1, <2>1, <2>4 DEF PointOK
  <2> QED
    BY <1>5, <2>2, <2>3, <2>4
<1> QED
  BY <1>5, <1>6

LEMMA FailKeeps == ASSUME SyncInv, NEW r \in Runs, Fail(r) PROVE SyncInv'
<1> DEFINE e == [Idle EXCEPT !.pc = "close", !.out = "failed"]
<1>1. SyncTypeOK /\ run[r].pc \in Holding
  BY DEF SyncInv, Fail
<1>2. e \in Locals /\ e.pc = "close" /\ e.out = "failed"
  BY EndedTyped
<1>3. Becomes(r, e) /\ LosesAPoint(r)
  BY DEF Fail
<1> HIDE DEF e
<1>4. UNCHANGED <<kind, lock, ledger, res, inScope, up, changes>>
  BY DEF Fail
<1>5. /\ point' \in [Accounts -> [run : Runs \cup {None}, n : Nat]]
      /\ \A a \in Accounts : PointOK(a)'
  BY <1>2, <1>3, PointsDrop DEF Late
<1>6. SyncTypeOK'
  BY <1>1, <1>2, <1>3, <1>4, <1>5, WorkTyped, TablesTyped
<1>7. run'[r] = e
  BY <1>1, <1>2, <1>3, BecomesTyped
<1>8. PhaseOK(r)'
  BY <1>2, <1>7 DEF PhaseOK
<1> QED
  BY <1>1, <1>2, <1>3, <1>4, <1>5, <1>6, <1>8, HolderKeeps DEF Holding

(* The steps of an invocation that gives up what it holds.                 *)
LEMMA LeaverKeeps ==
  ASSUME SyncInv, SyncTypeOK', NEW r \in Runs, run[r].pc # "done",
         NEW e \in Locals, Becomes(r, e), e.pc \in {"finalize", "done"},
         UNCHANGED <<ledger, res>>, FinalOK(r)',
         lock' = lock \/ (lock = r /\ lock' = None) \/ run[r].pc \in Holding,
         \A a \in Accounts : PointOK(a)'
  PROVE  SyncInv'
<1>1. /\ SyncTypeOK /\ run'[r] = e
      /\ \A s \in Runs \ {r} : run'[s] = run[s]
  BY BecomesTyped DEF SyncInv
<1>2. \A s \in Runs \ {r} : run[s].pc \in Holding => lock' = s
  BY DEF SyncInv, Owner
<1>3. \A s \in Runs : Owner(s)'
  BY <1>1, <1>2 DEF SyncInv, Owner, Holding
<1>4. \A s \in Runs \ {r} : PhaseOK(s)'
  BY <1>1 DEF SyncInv, PhaseOK, Upserting, Probing, Pruning, Kept, Snapshot
<1>5. PhaseOK(r)'
  BY <1>1 DEF PhaseOK
<1>6. \A s \in Runs \ {r} : FinalOK(s)'
  BY <1>1 DEF SyncInv, FinalOK, Snapshot
<1>7. ledger.status = "succeeded" => ledger.run \in Runs \ {r}
  BY DEF SyncInv, ClosedOK
<1>8. ClosedOK'
  BY <1>1, <1>7 DEF SyncInv, ClosedOK
<1>9. SucceededIsSnapshot'
  BY <1>1, <1>7 DEF SyncInv, SucceededIsSnapshot
<1> QED
  BY <1>3, <1>4, <1>5, <1>6, <1>8, <1>9 DEF SyncInv

LEMMA CrashKeeps == ASSUME SyncInv, NEW r \in Runs, Crash(r) PROVE SyncInv'
<1>1. SyncTypeOK /\ Ended \in Locals /\ Ended.pc = "done" /\ Ended.out = "failed"
  BY EndedTyped DEF SyncInv
<1>2. Becomes(r, Ended) /\ LosesAPoint(r) /\ run[r].pc # "done"
  BY DEF Crash, Holding
<1>3. /\ UNCHANGED <<kind, ledger, res, inScope, up, changes>>
      /\ lock' = IF lock = r THEN None ELSE lock
  BY DEF Crash
<1>4. /\ point' \in [Accounts -> [run : Runs \cup {None}, n : Nat]]
      /\ \A a \in Accounts : PointOK(a)'
  BY <1>1, <1>2, PointsDrop DEF Late
<1>5. SyncTypeOK'
  BY <1>1, <1>2, <1>3, <1>4, WorkTyped, TablesTyped
<1>6. FinalOK(r)'
  BY <1>1, <1>2, BecomesTyped DEF FinalOK
<1> QED
  BY <1>1, <1>2, <1>3, <1>4, <1>5, <1>6, LeaverKeeps

LEMMA CloseKeeps == ASSUME SyncInv, NEW r \in Runs, Close(r) PROVE SyncInv'
<1>1. SyncTypeOK /\ run[r] \in Locals /\ run[r].pc = "close" /\ PhaseOK(r)
  BY RunsTyped DEF SyncInv, Close
<1>2. PICK out \in {run[r].out, "failed"} :
        Becomes(r, [run[r] EXCEPT !.pc = "finalize", !.out = out])
  BY DEF Close
<1> DEFINE e == [run[r] EXCEPT !.pc = "finalize", !.out = out]
<1>3. /\ e \in Locals /\ e.pc = "finalize" /\ e.out = out /\ e.seen = run[r].seen
      /\ e.present = run[r].present
  BY <1>1, <1>2 DEF Locals, PCs
<1>4. Becomes(r, e)
  BY <1>2
<1> HIDE DEF e
<1>5. lock' = None /\ UNCHANGED <<kind, ledger, res, point, inScope, up, changes>>
  BY DEF Close
<1>6. SyncTypeOK'
  BY <1>1, <1>3, <1>4, <1>5, WorkTyped, TablesTyped
<1>7. run'[r] = e
  BY <1>1, <1>3, <1>4, BecomesTyped
<1>8. FinalOK(r)'
  BY <1>1, <1>2, <1>3, <1>5, <1>7 DEF FinalOK, PhaseOK, Snapshot
<1>9. \A a \in Accounts : PointOK(a)'
  BY <1>1, <1>2, <1>3, <1>4, <1>5, PointsStay DEF Late
<1> QED
  BY <1>1, <1>3, <1>4, <1>5, <1>6, <1>8, <1>9, LeaverKeeps DEF Holding

(* The ledger is closed by its owner; after it, nobody works on the table  *)
(* until the next mark.                                                    *)
LEMMA FinalizeKeeps == ASSUME SyncInv, NEW r \in Runs, Finalize(r) PROVE SyncInv'
<1>1. /\ SyncTypeOK /\ run[r] \in Locals /\ run[r].pc = "finalize" /\ FinalOK(r)
      /\ run[r].seen \subseteq Keys /\ ledger \in Ledgers
  BY RunsTyped, LedgerTyped DEF SyncInv, Finalize, Locals
<1>2. UNCHANGED <<kind, lock, res, point, inScope, up, changes>>
  BY DEF Finalize
<1>3. Ended \in Locals /\ Ended.pc = "done" /\ Ended.out = "failed"
  BY EndedTyped
<1> DEFINE d == [run[r] EXCEPT !.pc = "done"]
<1>4. /\ d \in Locals /\ d.pc = "done" /\ d.out = run[r].out /\ d.seen = run[r].seen
      /\ d.present = run[r].present
  BY <1>1 DEF Locals, PCs
<1>5. CASE Becomes(r, Ended) /\ UNCHANGED ledger
  <2>1. SyncTypeOK'
    BY <1>1, <1>2, <1>3, <1>5, WorkTyped, TablesTyped
  <2>2. FinalOK(r)'
    BY <1>1, <1>3, <1>5, BecomesTyped DEF FinalOK
  <2>3. \A a \in Accounts : PointOK(a)'
    BY <1>2, <1>3, <1>5, PointsStay DEF Late
  <2> QED
    BY <1>1, <1>2, <1>3, <1>5, <2>1, <2>2, <2>3, LeaverKeeps
<1>6. CASE /\ ledger.run = r /\ ledger' = Finalized(r)
           /\ Becomes(r, IF run[r].out = "succeeded"
                           THEN [run[r] EXCEPT !.pc = "done"] ELSE Ended)
  <2> DEFINE e == IF run[r].out = "succeeded" THEN d ELSE Ended
             n == IF run[r].out = "failed" THEN 0 ELSE Cardinality(run[r].seen)
             ok == IF run[r].out = "succeeded" THEN r ELSE ledger.ok
  <2>1. /\ Becomes(r, e)
        /\ ledger' = [ledger EXCEPT !.status = run[r].out, !.count = n, !.ok = ok]
    BY <1>6 DEF Finalized
  <2>2. n \in Nat /\ ok \in Runs \cup {None} /\ (run[r].out = "succeeded" => ok = r)
    BY <1>1, KeysFinite DEF Ledgers
  <2> HIDE DEF n, ok
  <2>3. /\ ledger' \in Ledgers /\ ledger'.run = r /\ ledger'.status = run[r].out
        /\ ledger'.ok = ok
    BY <1>1, <1>6, <2>1, <2>2 DEF Ledgers, Locals
  <2> HIDE DEF d
  <2>4. /\ e \in Locals /\ e.pc = "done"
        /\ IF run[r].out = "succeeded" THEN e = d ELSE e.out = "failed"
    BY <1>3, <1>4
  <2> HIDE DEF e
  <2>5. /\ run' \in [Runs -> Locals] /\ run'[r] = e
        /\ \A s \in Runs \ {r} : run'[s] = run[s]
    BY <1>1, <2>1, <2>4, BecomesTyped
  <2>6. SyncTypeOK'
    BY <1>1, <1>2, <2>3, <2>5 DEF SyncTypeOK, Locals, PCs, Ledgers
  <2>7. \A s \in Runs : run[s].pc \notin Holding /\ run'[s].pc \notin Holding
    BY <1>1, <1>6, <2>4, <2>5 DEF SyncInv, Owner, Holding
  <2>8. \A s \in Runs : Owner(s)' /\ PhaseOK(s)'
    BY <2>7 DEF Owner, PhaseOK, Holding
  <2>9. \A s \in Runs : FinalOK(s)'
    BY <2>3, <2>4, <2>5 DEF FinalOK
  <2>10. ClosedOK'
    BY <1>4, <2>2, <2>3, <2>4, <2>5 DEF ClosedOK
  <2>11. SucceededIsSnapshot'
    BY <1>1, <1>2, <1>4, <1>6, <2>3, <2>4, <2>5 DEF SucceededIsSnapshot, FinalOK, Snapshot
  <2>12. \A a \in Accounts : PointOK(a)'
    BY <1>2, <1>4, <2>1, <2>4, PointsStay DEF Late
  <2> QED
    BY <2>6, <2>8, <2>9, <2>10, <2>11, <2>12 DEF SyncInv
<1> QED
  BY <1>5, <1>6 DEF Finalize

LEMMA BeginKeeps == ASSUME SyncInv, NEW r \in Runs, Begin(r) PROVE SyncInv'
<1>1. /\ SyncTypeOK /\ run[r] \in Locals /\ run[r].pc = "idle" /\ ledger \in Ledgers
      /\ None \notin Runs
  BY RunsTyped, LedgerTyped DEF SyncInv, Begin
<1>2. UNCHANGED <<kind, res, point, inScope, up, changes>>
  BY DEF Begin
<1>3. CASE Becomes(r, Ended) /\ UNCHANGED <<lock, ledger>>
  <2>1. Ended \in Locals /\ Ended.pc = "done" /\ Ended.out = "failed"
    BY EndedTyped
  <2>2. SyncTypeOK'
    BY <1>1, <1>2, <1>3, <2>1, WorkTyped, TablesTyped
  <2>3. FinalOK(r)'
    BY <1>1, <1>3, <2>1, BecomesTyped DEF FinalOK
  <2>4. \A a \in Accounts : PointOK(a)'
    BY <1>1, <1>2, <1>3, <2>1, PointsStay DEF Late
  <2> QED
    BY <1>1, <1>2, <1>3, <2>1, <2>2, <2>3, <2>4, LeaverKeeps
<1>4. CASE /\ lock = None /\ lock' = r
           /\ ledger' = [ledger EXCEPT !.status = "running", !.run = r, !.count = 0]
           /\ Becomes(r, [run[r] EXCEPT !.pc = "query"])
  <2> DEFINE e == [run[r] EXCEPT !.pc = "query"]
  <2>1. Becomes(r, e)
    BY <1>4
  <2>2. e \in Locals /\ e.pc = "query"
    BY <1>1 DEF Locals, PCs, Holding
  <2> HIDE DEF e
  <2>3. /\ run' \in [Runs -> Locals] /\ run'[r] = e
        /\ \A s \in Runs \ {r} : run'[s] = run[s]
    BY <1>1, <2>1, <2>2, BecomesTyped
  <2>4. ledger' \in Ledgers /\ ledger'.run = r /\ ledger'.status = "running"
    BY <1>1, <1>4 DEF Ledgers
  <2>5. SyncTypeOK'
    BY <1>1, <1>2, <1>4, <2>3, <2>4 DEF SyncTypeOK, Locals, PCs, Ledgers
  <2>6. \A s \in Runs \ {r} : run'[s].pc \notin Holding
    BY <1>1, <1>4, <2>3 DEF SyncInv, Owner
  <2>7. \A s \in Runs : Owner(s)' /\ PhaseOK(s)' /\ FinalOK(s)'
    BY <1>4, <2>2, <2>3, <2>4, <2>6 DEF Owner, PhaseOK, FinalOK, Holding
  <2>8. SucceededIsSnapshot' /\ ClosedOK'
    BY <2>4 DEF SucceededIsSnapshot, ClosedOK
  <2>9. \A a \in Accounts : PointOK(a)'
    BY <1>1, <1>2, <2>1, <2>2, PointsStay DEF Late
  <2> QED
    BY <2>5, <2>7, <2>8, <2>9 DEF SyncInv
<1> QED
  BY <1>3, <1>4 DEF Begin

-----------------------------------------------------------------------------
(* Nothing of the invariant depends on the scope or on reachability, which  *)
(* change; SyncFrame is what it does depend on.                             *)
SyncFrame == <<lock, ledger, res, point, run>>

LEMMA FrameKeeps == ASSUME SyncInv, SyncTypeOK', UNCHANGED SyncFrame PROVE SyncInv'
BY DEF SyncInv, SyncFrame, SucceededIsSnapshot, ClosedOK, Owner, PhaseOK, FinalOK, PointOK,
       Upserting, Probing, Pruning, Kept, Snapshot

LEMMA SurroundingsKeep == ASSUME SyncInv, ChangeScope \/ ChangeUp PROVE SyncInv'
<1>1. SyncTypeOK
  BY DEF SyncInv
<1>2. SyncTypeOK'
  BY <1>1 DEF SyncTypeOK, ChangeScope, ChangeUp
<1> QED
  BY <1>2, FrameKeeps DEF ChangeScope, ChangeUp, SyncFrame

LEMMA SyncKeeps == ASSUME SyncInv, [SyncNext]_syncVars PROVE SyncInv'
<1>1. ASSUME NEW r \in Runs, SyncStep(r) PROVE SyncInv'
  BY <1>1, BeginKeeps, QueryKeeps, UpsertKeeps, SweepKeeps, ProbeKeeps, FindStaleKeeps,
     PruneKeeps, WritePointKeeps, FailKeeps, CrashKeeps, CloseKeeps, FinalizeKeeps
  DEF SyncStep
<1>2. CASE UNCHANGED syncVars
  <2>1. SyncTypeOK'
    BY <1>2 DEF SyncInv, SyncTypeOK, syncVars
  <2> QED
    BY <1>2, <2>1, FrameKeeps DEF SyncFrame, syncVars
<1> QED
  BY <1>1, <1>2, SurroundingsKeep DEF SyncNext

LEMMA SyncInitOK == ASSUME SyncInit PROVE SyncInv
<1>1. SyncTypeOK
  BY EndedTyped DEF SyncInit, SyncTypeOK, Locals, PCs, Accounts
<1>2. \A r \in Runs : run[r].pc = "idle"
  BY EndedTyped DEF SyncInit
<1>3. \A r \in Runs : Owner(r) /\ PhaseOK(r) /\ FinalOK(r)
  BY <1>2 DEF Owner, PhaseOK, FinalOK, Holding
<1>4. \A a \in Accounts : PointOK(a)
  BY DEF SyncInit, PointOK
<1> QED
  BY <1>1, <1>3, <1>4 DEF SyncInv, SucceededIsSnapshot, ClosedOK, SyncInit

(* A ledger that reads succeeded describes the table, whatever overlaps,   *)
(* fails or is killed: lock, token and the conditional finalization of     *)
(* sync_lambda.py are enough.                                              *)
THEOREM SyncedIsSnapshot == SyncSpec => []SucceededIsSnapshot
<1>1. SyncInv /\ [SyncNext]_syncVars => SyncInv'
  BY SyncKeeps
<1> QED
  BY <1>1, SyncInitOK, PTL DEF SyncSpec, SyncInv

-----------------------------------------------------------------------------
(* The graph.                                                              *)
Plans == [publish : BOOLEAN, pub : Runs \cup {None}, rows : SUBSET Ids]

States == [at : 0..MaxClock, old : SUBSET Runs, retained : BOOLEAN,
           pub : Runs \cup {None}, rows : SUBSET Ids, pubAt : 0..MaxClock]

Rebuilds ==
  [pc : {"idle", "next", "read", "publish", "evidence", "done"},
   todo : SUBSET Accounts, acct : Accounts, at : 0..MaxClock, old : SUBSET Runs,
   start : 0..MaxClock, startOld : SUBSET Runs, plan : Plans]

(* A collection is over, and these are the rows it has of an account.      *)
WholeOf(r, a, rows) ==
  r # None =>
    run[r].pc = "done" /\ a \in run[r].present /\ rows = IdsOf(run[r].seen, a)

Told(a) == graph[a].pubAt # 0 /\ ~graph[a].retained => graph[a].pubAt = graph[a].at

(* What an attempt remembers of its beginning. *)
Past(at, old) == at <= clock /\ old \subseteq Outdated

GraphOK(a) ==
  /\ WholeOf(graph[a].pub, a, graph[a].rows)
  /\ Told(a)
  /\ Past(graph[a].at, graph[a].old)

PlanOK(b) ==
  LET me == builder[b] IN
  /\ me.pc # "publish" => me.plan = NoPlan
  /\ WholeOf(me.plan.pub, me.acct, me.plan.rows)
  /\ Past(me.at, me.old) /\ Past(me.start, me.startOld)

(* A plan is newer than what was replaced when an earlier attempt began.   *)
Newer(b, at, old) ==
  builder[b].plan.publish /\ at < builder[b].at => builder[b].plan.pub \notin old

Fresh(b) ==
  /\ \A a \in Accounts : Newer(b, graph[a].at, graph[a].old)
  /\ \A c \in Builders : /\ Newer(b, builder[c].at, builder[c].old)
                         /\ Newer(b, builder[c].start, builder[c].startOld)

Inv ==
  /\ SyncInv /\ GraphTypeOK
  /\ \A a \in Accounts : GraphOK(a)
  /\ \A b \in Builders : PlanOK(b) /\ Fresh(b)

USE InventoryAssumption, GraphAssumption

-----------------------------------------------------------------------------
(* What the sync leaves to a reader.                                       *)

LEMMA DoneStays ==
  ASSUME SyncInv, SyncNext, NEW r \in Runs, run[r].pc = "done"
  PROVE  run'[r] = run[r]
<1>1. SyncTypeOK /\ run \in [Runs -> Locals]
  BY RunsTyped DEF SyncInv
<1>2. ASSUME NEW s \in Runs, SyncStep(s) PROVE run[s].pc # "done" /\ \E e : Becomes(s, e)
  <2>1. CASE Begin(s) \/ Query(s) \/ Upsert(s) \/ Sweep(s)
    BY <2>1 DEF Begin, Query, Upsert, Sweep
  <2>2. CASE Probe(s) \/ FindStale(s) \/ Prune(s) \/ WritePoint(s)
    BY <2>2 DEF Probe, FindStale, Prune, WritePoint
  <2>3. CASE Fail(s) \/ Crash(s) \/ Close(s) \/ Finalize(s)
    BY <2>3 DEF Fail, Crash, Close, Finalize, Holding
  <2> QED
    BY <1>2, <2>1, <2>2, <2>3 DEF SyncStep
<1>3. CASE ChangeScope \/ ChangeUp
  BY <1>3 DEF ChangeScope, ChangeUp
<1>4. CASE \E s \in Runs : SyncStep(s)
  BY <1>1, <1>2, <1>4 DEF Becomes
<1> QED
  BY <1>3, <1>4 DEF SyncNext

LEMMA OutdatedStays == ASSUME SyncInv, SyncNext PROVE Outdated \subseteq Outdated'
<1> SUFFICES ASSUME NEW r \in Outdated PROVE r \in Outdated'
  OBVIOUS
<1>1. r \in Runs /\ run[r].pc = "done" /\ run[r].out = "succeeded" /\ r # ledger.ok
  BY DEF Outdated
<1>2. run'[r] = run[r]
  BY <1>1, DoneStays
<1>3. ledger'.ok = ledger.ok \/ \E s \in Runs : run[s].pc = "finalize" /\ ledger'.ok = s
  <2>1. ledger \in Ledgers
    BY LedgerTyped DEF SyncInv
  <2>2. CASE \E s \in Runs : Begin(s)
    BY <2>1, <2>2 DEF Begin, Ledgers
  <2>3. CASE \E s \in Runs : Finalize(s)
    BY <2>1, <2>3 DEF Finalize, Finalized, Ledgers
  <2>4. CASE UNCHANGED ledger
    BY <2>4
  <2> QED
    BY <2>2, <2>3, <2>4 DEF SyncNext, SyncStep, ChangeScope, ChangeUp, Query, Upsert, Sweep,
       Probe, FindStale, Prune, WritePoint, Fail, Crash, Close
<1> QED
  BY <1>1, <1>2, <1>3 DEF Outdated

(* What a rebuild may publish is what the run of the ledger has seen.      *)
LEMMA SafeIsWhole ==
  ASSUME SyncInv, NEW a \in Accounts, NEW fits, NEW unknown, Safe(a, fits, unknown)
  PROVE  /\ ledger.run \in Runs /\ ledger.ok = ledger.run
         /\ WholeOf(ledger.run, a, Items(a))
<1> DEFINE r == ledger.run
           seen == IdsOf(run[r].seen, a)
<1>1. /\ ledger.status = "succeeded" /\ r \in Runs /\ ledger.ok = r
      /\ run[r].pc = "done" /\ run[r].out = "succeeded" /\ r # None
  BY DEF SyncInv, ClosedOK, Safe
<1>2. Items(a) = {i \in Ids : res[<<a, i>>] # None}
  BY KeyParts DEF Items, IdsOf, Stored
<1>3. /\ Self \in run[r].present
      /\ a \in run[r].present =>
           \/ \A i \in Ids : res[<<a, i>>] = IF <<a, i>> \in run[r].seen THEN r ELSE None
           \/ a # Self /\ \A i \in Ids : res[<<a, i>>] = None
  BY <1>1 DEF SyncInv, SucceededIsSnapshot
<1>4. ASSUME \A i \in Ids : res[<<a, i>>] = IF <<a, i>> \in run[r].seen THEN r ELSE None
      PROVE  Items(a) = seen
  BY <1>1, <1>2, <1>4 DEF IdsOf
<1>5. CASE a = Self
  BY <1>1, <1>3, <1>4, <1>5 DEF WholeOf
<1>6. CASE a # Self
  <2>1. point[a].run = r /\ point[a].n = Cardinality(Items(a))
    BY <1>6 DEF Safe, Participated, CountConfirmed
  <2>2. a \in run[r].present /\ point[a].n = Cardinality(seen)
    BY <1>1, <2>1 DEF SyncInv, PointOK
  <2>3. ASSUME \A i \in Ids : res[<<a, i>>] = None PROVE Items(a) = seen
    <3>1. Items(a) = {}
      BY <1>2, <2>3
    <3>2. IsFiniteSet(seen)
      BY FS_Subset DEF IdsOf
    <3>3. Cardinality(seen) = 0
      BY <2>1, <2>2, <3>1, FS_EmptySet
    <3> QED
      BY <3>1, <3>2, <3>3, FS_EmptySet
  <2> QED
    BY <1>1, <1>3, <1>4, <2>2, <2>3 DEF WholeOf
<1> QED
  BY <1>1, <1>5, <1>6

LEMMA SyncStepKeeps == ASSUME Inv, SyncNext, UNCHANGED graphVars PROVE Inv'
<1>1. SyncInv'
  BY SyncKeeps DEF Inv
<1>2. GraphTypeOK'
  BY DEF Inv, GraphTypeOK, graphVars
<1>3. Outdated \subseteq Outdated'
  BY OutdatedStays DEF Inv
<1>4. \A r \in Runs, a \in Accounts : \A rows : WholeOf(r, a, rows) /\ r # None => WholeOf(r, a, rows)'
  BY DoneStays DEF Inv, WholeOf
<1>5. ASSUME NEW a \in Accounts PROVE GraphOK(a)'
  <2>1. GraphOK(a) /\ graph'[a] = graph[a] /\ clock' = clock
        /\ graph[a].pub \in Runs \cup {None}
    BY DEF Inv, graphVars, GraphTypeOK
  <2>2. WholeOf(graph[a].pub, a, graph[a].rows)'
    BY <1>4, <2>1 DEF GraphOK, WholeOf
  <2> QED
    BY <1>3, <2>1, <2>2 DEF GraphOK, Told, Past
<1>6. ASSUME NEW b \in Builders PROVE PlanOK(b)'
  <2>1. PlanOK(b) /\ builder'[b] = builder[b] /\ clock' = clock
        /\ builder[b].plan.pub \in Runs \cup {None} /\ builder[b].acct \in Accounts
    BY DEF Inv, graphVars, GraphTypeOK
  <2>2. WholeOf(builder[b].plan.pub, builder[b].acct, builder[b].plan.rows)'
    BY <1>4, <2>1 DEF PlanOK, WholeOf
  <2> QED
    BY <1>3, <2>1, <2>2 DEF PlanOK, Past
<1>7. ASSUME NEW b \in Builders PROVE Fresh(b)'
  BY DEF Inv, Fresh, Newer, graphVars
<1> QED
  BY <1>1, <1>2, <1>5, <1>6, <1>7 DEF Inv

-----------------------------------------------------------------------------
(* What a step of a rebuild does.                                          *)

LEMMA GraphsTyped ==
  ASSUME GraphTypeOK
  PROVE  /\ clock \in 0..MaxClock
         /\ graph \in [Accounts -> States] /\ builder \in [Builders -> Rebuilds]
BY DEF GraphTypeOK, States, Rebuilds, Plans

LEMMA RebuildTyped ==
  ASSUME NEW e \in Rebuilds
  PROVE  /\ e.pc \in {"idle", "next", "read", "publish", "evidence", "done"}
         /\ e.todo \subseteq Accounts /\ e.acct \in Accounts
         /\ e.at \in 0..MaxClock /\ e.old \subseteq Runs
         /\ e.start \in 0..MaxClock /\ e.startOld \subseteq Runs
         /\ e.plan \in Plans
BY DEF Rebuilds

LEMMA NoRebuildTyped ==
  /\ NoPlan \in Plans /\ NoPlan.publish = FALSE /\ NoPlan.pub = None
  /\ NoRebuild \in Rebuilds /\ NoRebuild.plan = NoPlan
  /\ NoRebuild.at = 0 /\ NoRebuild.old = {}
  /\ NoRebuild.start = 0 /\ NoRebuild.startOld = {}
<1>1. Self \in Accounts /\ 0 \in 0..MaxClock
  BY DEF Accounts
<1> QED
  BY <1>1 DEF NoPlan, Plans, NoRebuild, Rebuilds

(* An attempt keeps its beginning, begins now, or is over.                 *)
Begun(at, old, at0, old0) ==
  \/ at = at0 /\ old = old0
  \/ at \in clock..clock' /\ old = Outdated
  \/ at = 0 /\ old = {}

(* A state is what an attempt of this rebuild has recorded. *)
Stamped(b, a) ==
  /\ \/ graph'[a].at = builder[b].at /\ graph'[a].old = builder[b].old
     \/ graph'[a].at = builder[b].start /\ graph'[a].old = builder[b].startOld
  /\ WholeOf(graph'[a].pub, a, graph'[a].rows)
  /\ graph'[a].pubAt # 0 /\ ~graph'[a].retained => graph'[a].pubAt = graph'[a].at

LEMMA BuilderKeeps ==
  ASSUME Inv, UNCHANGED syncVars, NEW b \in Builders, NEW e \in Rebuilds, Turns(b, e),
         clock' \in 0..MaxClock, clock <= clock',
         graph' \in [Accounts -> States],
         \A a \in Accounts : graph'[a] = graph[a] \/ Stamped(b, a),
         Begun(e.at, e.old, builder[b].at, builder[b].old),
         Begun(e.start, e.startOld, builder[b].start, builder[b].startOld),
         e.pc # "publish" => e.plan = NoPlan,
         WholeOf(e.plan.pub, e.acct, e.plan.rows),
         e.plan.publish => e.plan.pub = ledger.ok
  PROVE  Inv'
<1>1. /\ clock \in 0..MaxClock
      /\ graph \in [Accounts -> States] /\ builder \in [Builders -> Rebuilds]
  BY GraphsTyped DEF Inv
<1>2. /\ builder' \in [Builders -> Rebuilds] /\ builder'[b] = e
      /\ \A c \in Builders \ {b} : builder'[c] = builder[c]
  BY <1>1 DEF Turns
<1>3. UNCHANGED SyncFrame /\ UNCHANGED <<run, ledger, Outdated>>
  BY DEF syncVars, SyncFrame, Outdated
<1>4. SyncInv'
  <2>1. SyncTypeOK'
    BY DEF Inv, SyncInv, SyncTypeOK, syncVars
  <2> QED
    BY <1>3, <2>1, FrameKeeps DEF Inv
<1>5. GraphTypeOK'
  BY <1>2 DEF GraphTypeOK, States, Rebuilds, Plans
<1>6. /\ \A c \in Builders : Past(builder[c].at, builder[c].old)
      /\ \A c \in Builders : Past(builder[c].start, builder[c].startOld)
      /\ \A a \in Accounts : Past(graph[a].at, graph[a].old)
  BY DEF Inv, PlanOK, GraphOK
<1>7. \A c \in Builders : /\ builder[c].at \in Nat /\ builder[c].start \in Nat
                          /\ builder'[c].at \in Nat /\ builder'[c].start \in Nat
  BY <1>1, <1>2, RebuildTyped
<1>8. \A a \in Accounts : graph[a].at \in Nat /\ graph'[a].at \in Nat
  BY <1>1 DEF States
<1>9. ASSUME NEW a \in Accounts PROVE GraphOK(a)'
  <2>1. CASE graph'[a] = graph[a]
    BY <1>1, <1>3, <1>6, <1>8, <2>1 DEF Inv, GraphOK, Past, Told, WholeOf
  <2>2. CASE Stamped(b, a)
    BY <1>1, <1>3, <1>6, <1>7, <1>8, <2>2 DEF GraphOK, Past, Told, WholeOf, Stamped
  <2> QED
    BY <2>1, <2>2
<1>10. ASSUME NEW c \in Builders \ {b} PROVE PlanOK(c)'
  <2>1. PlanOK(c) /\ builder'[c] = builder[c]
    BY <1>2 DEF Inv
  <2> QED
    BY <1>1, <1>3, <1>7, <2>1 DEF PlanOK, Past, WholeOf
<1>11. PlanOK(b)'
  BY <1>1, <1>2, <1>3, <1>6, <1>7 DEF PlanOK, Past, WholeOf, Begun
<1>12. /\ \A c \in Builders : builder'[c].old \subseteq Outdated
       /\ \A c \in Builders : builder'[c].startOld \subseteq Outdated
       /\ \A a \in Accounts : graph'[a].old \subseteq Outdated
  BY <1>3, <1>9, <1>10, <1>11 DEF PlanOK, GraphOK, Past
<1>13. Fresh(b)'
  BY <1>2, <1>12 DEF Fresh, Newer, Outdated
<1>14. ASSUME NEW c \in Builders \ {b} PROVE Fresh(c)'
  <2>1. Fresh(c) /\ builder'[c] = builder[c] /\ builder[c].at <= clock
    BY <1>2, <1>6 DEF Inv, Past
  <2>2. ASSUME NEW at \in Nat, NEW old, NEW at0 \in Nat, NEW old0,
               Begun(at, old, at0, old0), Newer(c, at0, old0)
        PROVE  Newer(c, at, old)
    BY <1>1, <1>7, <2>1, <2>2 DEF Newer, Begun
  <2>3. /\ Newer(c, builder'[b].at, builder'[b].old)
        /\ Newer(c, builder'[b].start, builder'[b].startOld)
    BY <1>2, <1>7, <2>1, <2>2 DEF Fresh
  <2>4. \A a \in Accounts : Newer(c, graph'[a].at, graph'[a].old)
    BY <2>1 DEF Fresh, Stamped
  <2>5. \A d \in Builders : /\ Newer(c, builder'[d].at, builder'[d].old)
                            /\ Newer(c, builder'[d].start, builder'[d].startOld)
    BY <1>2, <2>1, <2>3 DEF Fresh
  <2> QED
    BY <2>1, <2>4, <2>5 DEF Fresh, Newer
<1> QED
  BY <1>4, <1>5, <1>9, <1>10, <1>11, <1>13, <1>14 DEF Inv

(* What the transaction of an attempt writes. *)
LEMMA WrittenTyped ==
  ASSUME NEW g \in States, NEW at \in 0..MaxClock, NEW old \in SUBSET Runs, NEW plan \in Plans
  PROVE  /\ Written(g, at, old, plan) \in States
         /\ Written(g, at, old, plan).at = at /\ Written(g, at, old, plan).old = old
         /\ Written(g, at, old, plan).retained = ~plan.publish
         /\ IF plan.publish
              THEN /\ Written(g, at, old, plan).pub = plan.pub
                   /\ Written(g, at, old, plan).rows = plan.rows
                   /\ Written(g, at, old, plan).pubAt = at
              ELSE /\ Written(g, at, old, plan).pub = g.pub
                   /\ Written(g, at, old, plan).rows = g.rows
                   /\ Written(g, at, old, plan).pubAt = g.pubAt
<1> DEFINE state == [g EXCEPT !.at = at, !.old = old, !.retained = ~plan.publish]
<1>1. /\ state \in States /\ state.at = at /\ state.old = old
      /\ state.retained = ~plan.publish
      /\ state.pub = g.pub /\ state.rows = g.rows /\ state.pubAt = g.pubAt
  BY DEF States, Plans
<1>2. Written(g, at, old, plan) =
        IF plan.publish
          THEN [state EXCEPT !.pub = plan.pub, !.rows = plan.rows, !.pubAt = at]
          ELSE state
  BY DEF Written
<1> HIDE DEF state
<1> QED
  BY <1>1, <1>2 DEF States, Plans

LEMMA WriteStamps ==
  ASSUME Inv, NEW b \in Builders, NEW plan \in Plans, WriteGraph(b, plan), UNCHANGED run,
         WholeOf(plan.pub, builder[b].acct, plan.rows)
  PROVE  /\ graph' \in [Accounts -> States]
         /\ \A a \in Accounts : graph'[a] = graph[a] \/ Stamped(b, a)
         /\ \A a \in Accounts : graph'[a].pubAt # graph[a].pubAt =>
              plan.publish /\ graph[a].at < builder[b].at /\ graph'[a].pub = plan.pub
<1> DEFINE me == builder[b]
           a0 == me.acct
           w == Written(graph[a0], me.at, me.old, plan)
<1>1. /\ graph \in [Accounts -> States] /\ me \in Rebuilds
      /\ a0 \in Accounts /\ me.at \in 0..MaxClock /\ me.old \subseteq Runs
  BY GraphsTyped, RebuildTyped DEF Inv
<1>2. /\ w \in States /\ w.at = me.at /\ w.old = me.old /\ w.retained = ~plan.publish
      /\ IF plan.publish THEN w.pub = plan.pub /\ w.rows = plan.rows /\ w.pubAt = me.at
         ELSE w.pub = graph[a0].pub /\ w.rows = graph[a0].rows /\ w.pubAt = graph[a0].pubAt
  BY <1>1, WrittenTyped
<1>3. graph' = IF graph[a0].at < me.at THEN [graph EXCEPT ![a0] = w] ELSE graph
  BY DEF WriteGraph, Current
<1>4. WholeOf(graph[a0].pub, a0, graph[a0].rows)
  BY <1>1 DEF Inv, GraphOK
<1> HIDE DEF w
<1>5. /\ graph' \in [Accounts -> States]
      /\ \A a \in Accounts \ {a0} : graph'[a] = graph[a]
      /\ graph'[a0] = graph[a0] \/ (graph[a0].at < me.at /\ graph'[a0] = w)
  BY <1>1, <1>2, <1>3
<1>6. WholeOf(w.pub, a0, w.rows)
  BY <1>2, <1>4 DEF Plans
<1>7. graph'[a0] = w => Stamped(b, a0)
  BY <1>2, <1>6 DEF Stamped, Plans
<1> QED
  BY <1>2, <1>5, <1>7

LEMMA NowTyped ==
  ASSUME Inv, NEW t \in Now
  PROVE  t \in 0..MaxClock /\ t \in clock..t /\ clock <= t
BY GraphsTyped DEF Inv, Now

LEMMA OutdatedTyped == Outdated \subseteq Runs
BY DEF Outdated

(* A rebuild goes on without an attempt of its own. *)
LEMMA PausesKeep ==
  ASSUME Inv, UNCHANGED <<syncVars, clock>>, NEW b \in Builders, NEW e \in Rebuilds,
         Turns(b, e), e.plan = NoPlan,
         \/ /\ e.at = builder[b].at /\ e.old = builder[b].old
            /\ e.start = builder[b].start /\ e.startOld = builder[b].startOld
         \/ e.at = 0 /\ e.old = {} /\ e.start = 0 /\ e.startOld = {},
         graph' \in [Accounts -> States],
         \A a \in Accounts : graph'[a] = graph[a] \/ Stamped(b, a)
  PROVE  Inv'
<1>1. clock' \in 0..MaxClock /\ clock <= clock'
  BY GraphsTyped DEF Inv
<1>2. /\ Begun(e.at, e.old, builder[b].at, builder[b].old)
      /\ Begun(e.start, e.startOld, builder[b].start, builder[b].startOld)
  BY DEF Begun
<1>3. ~e.plan.publish /\ WholeOf(e.plan.pub, e.acct, e.plan.rows)
  BY NoRebuildTyped DEF WholeOf
<1> QED
  BY <1>1, <1>2, <1>3, BuilderKeeps

LEMMA ProceedKeeps ==
  ASSUME Inv, UNCHANGED <<syncVars, clock>>, NEW b \in Builders,
         NEW pc \in {"next", "evidence"}, Proceed(b, pc),
         graph' \in [Accounts -> States],
         \A a \in Accounts : graph'[a] = graph[a] \/ Stamped(b, a)
  PROVE  Inv'
<1> DEFINE e == [builder[b] EXCEPT !.pc = pc, !.plan = NoPlan]
<1>1. builder[b] \in Rebuilds
  BY GraphsTyped DEF Inv
<1>2. /\ e \in Rebuilds /\ e.plan = NoPlan /\ e.at = builder[b].at /\ e.old = builder[b].old
      /\ e.start = builder[b].start /\ e.startOld = builder[b].startOld
  BY <1>1, NoRebuildTyped DEF Rebuilds
<1>3. Turns(b, e)
  BY DEF Proceed
<1> HIDE DEF e
<1> QED
  BY <1>2, <1>3, PausesKeep

LEMMA SameGraph ==
  ASSUME Inv, UNCHANGED graph
  PROVE  /\ graph' \in [Accounts -> States]
         /\ \A a \in Accounts : graph'[a] = graph[a]
BY GraphsTyped DEF Inv

-----------------------------------------------------------------------------
(* The steps of a rebuild. *)
LEMMA BeginsKeep ==
  ASSUME Inv, UNCHANGED <<syncVars, graph>>, NEW b \in Builders, NEW e \in Rebuilds,
         NEW t \in Now, clock' = t, Turns(b, e), e.plan = NoPlan,
         Begun(e.at, e.old, builder[b].at, builder[b].old),
         Begun(e.start, e.startOld, builder[b].start, builder[b].startOld)
  PROVE  Inv'
<1>1. clock' \in 0..MaxClock /\ clock <= clock'
  BY NowTyped
<1>2. ~e.plan.publish /\ WholeOf(e.plan.pub, e.acct, e.plan.rows)
  BY NoRebuildTyped DEF WholeOf
<1> QED
  BY <1>1, <1>2, SameGraph, BuilderKeeps

LEMMA BeginRebuildKeeps ==
  ASSUME Inv, NEW b \in Builders, BeginRebuild(b) PROVE Inv'
<1>1. PICK t \in Now :
        /\ clock' = t
        /\ \/ \E S \in Selections :
                Turns(b, [NoRebuild EXCEPT !.pc = "next", !.todo = S,
                            !.start = t, !.startOld = Outdated])
           \/ Turns(b, [NoRebuild EXCEPT !.pc = "evidence", !.at = t, !.old = Outdated])
  BY DEF BeginRebuild
<1>2. UNCHANGED <<syncVars, graph>>
  BY DEF BeginRebuild
<1>3. t \in 0..MaxClock /\ t \in clock..clock' /\ Outdated \subseteq Runs
  BY <1>1, NowTyped, OutdatedTyped
<1>4. CASE \E S \in Selections :
             Turns(b, [NoRebuild EXCEPT !.pc = "next", !.todo = S,
                         !.start = t, !.startOld = Outdated])
  <2>1. PICK S \in Selections :
          Turns(b, [NoRebuild EXCEPT !.pc = "next", !.todo = S,
                      !.start = t, !.startOld = Outdated])
    BY <1>4
  <2> DEFINE e == [NoRebuild EXCEPT !.pc = "next", !.todo = S,
                                    !.start = t, !.startOld = Outdated]
  <2>2. S \subseteq Accounts
    BY DEF Selections, Known, Accounts, Inv, SyncInv, SyncTypeOK
  <2>3. /\ e \in Rebuilds /\ e.plan = NoPlan /\ e.at = 0 /\ e.old = {}
        /\ e.start = t /\ e.startOld = Outdated
    BY <1>3, <2>2, NoRebuildTyped DEF Rebuilds
  <2>4. Turns(b, e)
    BY <2>1
  <2> HIDE DEF e
  <2>5. /\ Begun(e.at, e.old, builder[b].at, builder[b].old)
        /\ Begun(e.start, e.startOld, builder[b].start, builder[b].startOld)
    BY <1>3, <2>3 DEF Begun
  <2> QED
    BY <1>1, <1>2, <2>3, <2>4, <2>5, BeginsKeep
<1>5. CASE Turns(b, [NoRebuild EXCEPT !.pc = "evidence", !.at = t, !.old = Outdated])
  <2> DEFINE e == [NoRebuild EXCEPT !.pc = "evidence", !.at = t, !.old = Outdated]
  <2>1. /\ e \in Rebuilds /\ e.plan = NoPlan /\ e.at = t /\ e.old = Outdated
        /\ e.start = 0 /\ e.startOld = {}
    BY <1>3, NoRebuildTyped DEF Rebuilds
  <2>2. Turns(b, e)
    BY <1>5
  <2> HIDE DEF e
  <2>3. /\ Begun(e.at, e.old, builder[b].at, builder[b].old)
        /\ Begun(e.start, e.startOld, builder[b].start, builder[b].startOld)
    BY <1>3, <2>1 DEF Begun
  <2> QED
    BY <1>1, <1>2, <2>1, <2>2, <2>3, BeginsKeep
<1> QED
  BY <1>1, <1>4, <1>5

LEMMA AttemptKeeps == ASSUME Inv, NEW b \in Builders, Attempt(b) PROVE Inv'
<1>1. PICK a \in builder[b].todo, t \in Now :
        /\ clock' = t
        /\ Turns(b, [builder[b] EXCEPT !.pc = "read", !.todo = @ \ {a},
                       !.acct = a, !.at = t, !.old = Outdated])
  BY DEF Attempt
<1>2. UNCHANGED <<syncVars, graph>>
  BY DEF Attempt
<1>3. t \in 0..MaxClock /\ t \in clock..clock' /\ Outdated \subseteq Runs
  BY <1>1, NowTyped, OutdatedTyped
<1>4. /\ builder[b] \in Rebuilds /\ builder[b].plan = NoPlan
      /\ builder[b].todo \subseteq Accounts
  BY GraphsTyped, RebuildTyped DEF Inv, PlanOK, Attempt
<1> DEFINE todo == builder[b].todo \ {a}
           e == [builder[b] EXCEPT !.pc = "read", !.todo = todo,
                   !.acct = a, !.at = t, !.old = Outdated]
<1>5. Turns(b, e) /\ todo \subseteq Accounts
  BY <1>1, <1>4
<1> HIDE DEF todo
<1>6. /\ e \in Rebuilds /\ e.plan = NoPlan /\ e.at = t /\ e.old = Outdated
      /\ e.start = builder[b].start /\ e.startOld = builder[b].startOld
  BY <1>3, <1>4, <1>5 DEF Rebuilds
<1> HIDE DEF e
<1>7. /\ Begun(e.at, e.old, builder[b].at, builder[b].old)
      /\ Begun(e.start, e.startOld, builder[b].start, builder[b].startOld)
  BY <1>3, <1>6 DEF Begun
<1> QED
  BY <1>1, <1>2, <1>5, <1>6, <1>7, BeginsKeep

LEMMA ReadKeeps == ASSUME Inv, NEW b \in Builders, Read(b) PROVE Inv'
<1>1. /\ builder[b] \in Rebuilds /\ builder[b].plan = NoPlan
      /\ builder[b].acct \in Accounts
  BY GraphsTyped, RebuildTyped DEF Inv, PlanOK, Read
<1>2. UNCHANGED <<syncVars, clock, graph>>
  BY DEF Read
<1>3. ASSUME NEW fits \in BOOLEAN, NEW unknown \in BOOLEAN,
             Turns(b, [builder[b] EXCEPT !.pc = "publish",
                         !.plan = inventoryAttempt(builder[b].acct, fits, unknown)])
      PROVE  Inv'
  <2> DEFINE a == builder[b].acct
             plan == inventoryAttempt(a, fits, unknown)
             e == [builder[b] EXCEPT !.pc = "publish", !.plan = plan]
  <2>1. /\ plan \in Plans /\ WholeOf(plan.pub, a, plan.rows)
        /\ plan.publish => plan.pub = ledger.ok
    <3>1. CASE Safe(a, fits, unknown)
      <4>1. plan = [publish |-> TRUE, pub |-> ledger.run, rows |-> Items(a)]
        BY <3>1 DEF inventoryAttempt
      <4>2. /\ ledger.run \in Runs /\ ledger.ok = ledger.run
            /\ WholeOf(ledger.run, a, Items(a)) /\ Items(a) \subseteq Ids
        BY <1>1, <3>1, SafeIsWhole DEF Inv, Items, IdsOf
      <4> QED
        BY <4>1, <4>2 DEF Plans
    <3>2. CASE ~Safe(a, fits, unknown)
      BY <3>2, NoRebuildTyped DEF inventoryAttempt, WholeOf
    <3> QED
      BY <3>1, <3>2
  <2>2. Turns(b, e)
    BY <1>3
  <2> HIDE DEF plan
  <2>3. /\ e \in Rebuilds /\ e.pc = "publish" /\ e.plan = plan /\ e.acct = a
        /\ e.at = builder[b].at /\ e.old = builder[b].old
        /\ e.start = builder[b].start /\ e.startOld = builder[b].startOld
    BY <1>1, <2>1 DEF Rebuilds
  <2> HIDE DEF e, a
  <2>4. clock' \in 0..MaxClock /\ clock <= clock'
    BY <1>2, GraphsTyped DEF Inv
  <2>5. /\ Begun(e.at, e.old, builder[b].at, builder[b].old)
        /\ Begun(e.start, e.startOld, builder[b].start, builder[b].startOld)
    BY <2>3 DEF Begun
  <2> QED
    BY <1>2, <2>1, <2>2, <2>3, <2>4, <2>5, SameGraph, BuilderKeeps
<1>4. ASSUME Turns(b, [builder[b] EXCEPT !.pc = "evidence"]) PROVE Inv'
  <2> DEFINE e == [builder[b] EXCEPT !.pc = "evidence"]
  <2>1. /\ e \in Rebuilds /\ e.plan = NoPlan /\ e.at = builder[b].at /\ e.old = builder[b].old
        /\ e.start = builder[b].start /\ e.startOld = builder[b].startOld
    BY <1>1 DEF Rebuilds
  <2>2. Turns(b, e)
    BY <1>4
  <2> HIDE DEF e
  <2> QED
    BY <1>2, <2>1, <2>2, SameGraph, PausesKeep
<1> QED
  BY <1>3, <1>4 DEF Read

LEMMA PublishKeeps == ASSUME Inv, NEW b \in Builders, Publish(b) PROVE Inv'
<1>1. UNCHANGED <<syncVars, clock>>
  BY DEF Publish
<1>2. CASE /\ WriteGraph(b, builder[b].plan)
           /\ \E pc \in {"next", "evidence"} : Proceed(b, pc)
  <2>1. /\ builder[b].plan \in Plans
        /\ WholeOf(builder[b].plan.pub, builder[b].acct, builder[b].plan.rows)
    BY GraphsTyped, RebuildTyped DEF Inv, PlanOK
  <2>2. /\ graph' \in [Accounts -> States]
        /\ \A a \in Accounts : graph'[a] = graph[a] \/ Stamped(b, a)
    BY <1>1, <1>2, <2>1, WriteStamps DEF syncVars
  <2> QED
    BY <1>1, <1>2, <2>2, ProceedKeeps
<1>3. CASE UNCHANGED graph /\ \E pc \in {"next", "evidence"} : Proceed(b, pc)
  BY <1>1, <1>3, SameGraph, ProceedKeeps
<1> QED
  BY <1>2, <1>3 DEF Publish

LEMMA EvidenceKeeps == ASSUME Inv, NEW b \in Builders, Evidence(b) PROVE Inv'
<1>1. UNCHANGED <<syncVars, clock>> /\ Proceed(b, "next")
  BY DEF Evidence
<1>2. CASE WriteGraph(b, NoPlan)
  <2>1. NoPlan \in Plans /\ WholeOf(NoPlan.pub, builder[b].acct, NoPlan.rows)
    BY NoRebuildTyped DEF WholeOf
  <2>2. /\ graph' \in [Accounts -> States]
        /\ \A a \in Accounts : graph'[a] = graph[a] \/ Stamped(b, a)
    BY <1>1, <1>2, <2>1, WriteStamps DEF syncVars
  <2> QED
    BY <1>1, <2>2, ProceedKeeps
<1>3. CASE UNCHANGED graph
  BY <1>1, <1>3, SameGraph, ProceedKeeps
<1> QED
  BY <1>2, <1>3 DEF Evidence

LEMMA OverKeeps ==
  ASSUME Inv, UNCHANGED <<syncVars, clock>>, NEW b \in Builders,
         Turns(b, [NoRebuild EXCEPT !.pc = "done"]),
         graph' \in [Accounts -> States],
         \A a \in Accounts : graph'[a] = graph[a] \/ Stamped(b, a)
  PROVE  Inv'
<1> DEFINE e == [NoRebuild EXCEPT !.pc = "done"]
<1>1. /\ e \in Rebuilds /\ e.plan = NoPlan
      /\ e.at = 0 /\ e.old = {} /\ e.start = 0 /\ e.startOld = {}
  BY NoRebuildTyped DEF Rebuilds
<1>2. Turns(b, e)
  OBVIOUS
<1> HIDE DEF e
<1> QED
  BY <1>1, <1>2, PausesKeep

LEMMA UnattemptedTyped ==
  ASSUME Inv, NEW a \in Accounts, NEW at \in 0..MaxClock, NEW old \in SUBSET Runs
  PROVE  LET u == Unattempted(a, at, old) IN
         /\ u \in States /\ u.at = at /\ u.old = old
         /\ u.pub = graph[a].pub /\ u.rows = graph[a].rows /\ u.pubAt = graph[a].pubAt
         /\ u.pubAt # 0 => u.retained
<1>1. graph[a] \in States
  BY GraphsTyped DEF Inv
<1> QED
  BY <1>1 DEF Unattempted, States

LEMMA SkipTailKeeps == ASSUME Inv, NEW b \in Builders, SkipTail(b) PROVE Inv'
<1> DEFINE me == builder[b]
<1>1. UNCHANGED <<syncVars, clock>> /\ Turns(b, [NoRebuild EXCEPT !.pc = "done"])
  BY DEF SkipTail
<1>2. CASE graph' = [a \in Accounts |->
             IF a \in me.todo /\ Current(a, me.start)
               THEN Unattempted(a, me.start, me.startOld) ELSE graph[a]]
  <2>1. me.start \in 0..MaxClock /\ me.startOld \subseteq Runs
    BY GraphsTyped, RebuildTyped DEF Inv
  <2>2. ASSUME NEW a \in Accounts
        PROVE  graph'[a] \in States /\ (graph'[a] = graph[a] \/ Stamped(b, a))
    <3>1. CASE graph'[a] = graph[a]
      BY <3>1, GraphsTyped DEF Inv
    <3>2. CASE graph'[a] = Unattempted(a, me.start, me.startOld)
      <4>1. WholeOf(graph[a].pub, a, graph[a].rows)
        BY DEF Inv, GraphOK
      <4> QED
        BY <2>1, <3>2, <4>1, UnattemptedTyped DEF Stamped
    <3> QED
      BY <1>2, <3>1, <3>2
  <2>3. graph' \in [Accounts -> States]
    BY <1>2, <2>2
  <2> QED
    BY <1>1, <2>2, <2>3, OverKeeps
<1>3. CASE UNCHANGED graph
  BY <1>1, <1>3, SameGraph, OverKeeps
<1> QED
  BY <1>2, <1>3 DEF SkipTail

LEMMA EndRebuildKeeps == ASSUME Inv, NEW b \in Builders, EndRebuild(b) PROVE Inv'
BY SameGraph, OverKeeps DEF EndRebuild

LEMMA NextKeeps == ASSUME Inv, [Next]_vars PROVE Inv'
<1>1. ASSUME NEW b \in Builders, BuilderStep(b) PROVE Inv'
  BY <1>1, BeginRebuildKeeps, AttemptKeeps, ReadKeeps, PublishKeeps, EvidenceKeeps,
     SkipTailKeeps, EndRebuildKeeps DEF BuilderStep
<1>2. CASE UNCHANGED vars
  <2>1. SyncInv' /\ UNCHANGED <<syncVars, graphVars>>
    BY <1>2, SyncKeeps DEF Inv, vars
  <2>2. GraphTypeOK'
    BY <2>1 DEF Inv, GraphTypeOK, graphVars
  <2> QED
    BY <2>1, <2>2 DEF Inv, GraphOK, PlanOK, Fresh, Newer, Past, Told, WholeOf, Outdated,
       syncVars, graphVars
<1> QED
  BY <1>1, <1>2, SyncStepKeeps DEF Next

LEMMA InitOK == ASSUME Init PROVE Inv
<1>1. SyncInv
  BY SyncInitOK DEF Init
<1>2. /\ NoGraph \in States /\ NoGraph.at = 0 /\ NoGraph.old = {} /\ NoGraph.pub = None
      /\ NoGraph.pubAt = 0
  BY DEF NoGraph, States
<1>3. clock = 0 /\ graph = [a \in Accounts |-> NoGraph]
      /\ builder = [b \in Builders |-> NoRebuild]
  BY DEF Init
<1>4. GraphTypeOK
  BY <1>2, <1>3, NoRebuildTyped DEF GraphTypeOK, States, Rebuilds, Plans
<1>5. \A a \in Accounts : GraphOK(a)
  BY <1>2, <1>3 DEF GraphOK, WholeOf, Told, Past
<1>6. \A b \in Builders : PlanOK(b) /\ Fresh(b)
  BY <1>2, <1>3, NoRebuildTyped DEF PlanOK, Fresh, Newer, WholeOf, Past
<1> QED
  BY <1>1, <1>4, <1>5, <1>6 DEF Inv

LEMMA Invariant == Spec => []Inv
<1>1. Inv /\ [Next]_vars => Inv'
  BY NextKeeps
<1> QED
  BY <1>1, InitOK, PTL DEF Spec

-----------------------------------------------------------------------------
(* The tables, the invocations and the rebuilds keep their types.          *)
THEOREM TypeCorrect == Spec => [](SyncTypeOK /\ GraphTypeOK)
<1>1. Inv => SyncTypeOK /\ GraphTypeOK
  BY DEF Inv, SyncInv
<1> QED
  BY <1>1, Invariant, PTL

(* A ledger that reads succeeded describes the table: the lock, the token  *)
(* and the conditional finalization of sync_lambda.py are enough, however  *)
(* many invocations overlap, fail or are killed.                           *)
THEOREM LedgerIsTrue == Spec => []SucceededIsSnapshot
<1>1. Inv => SucceededIsSnapshot
  BY DEF Inv, SyncInv
<1> QED
  BY <1>1, Invariant, PTL

(* The graph of an account is the whole of what one run saw of it: the     *)
(* conditions of inventoryAttempt keep half-written rows out of it.        *)
THEOREM PublishedIsWhole == Spec => []GraphIsWhole
<1>1. Inv => GraphIsWhole
  <2> SUFFICES ASSUME Inv, NEW a \in Accounts, graph[a].pub # None
               PROVE  /\ a \in run[graph[a].pub].present
                      /\ graph[a].rows = IdsOf(run[graph[a].pub].seen, a)
    BY DEF GraphIsWhole
  <2> QED
    BY DEF Inv, GraphOK, WholeOf
<1> QED
  BY <1>1, Invariant, PTL

(* A retained graph is always shown as one (writeGraphState,               *)
(* recordUnattempted).                                                     *)
THEOREM RetainedIsShown == Spec => []RetainedIsTold
<1>1. Inv => RetainedIsTold
  BY DEF Inv, GraphOK, Told, RetainedIsTold
<1> QED
  BY <1>1, Invariant, PTL

Forward ==
  \A a \in Accounts :
    graph'[a].pubAt # graph[a].pubAt => graph'[a].pub \notin graph[a].old

LEMMA StepsForward == ASSUME Inv, Next PROVE Forward
<1>1. ASSUME NEW b \in Builders, Publish(b) PROVE Forward
  <2>1. CASE WriteGraph(b, builder[b].plan)
    <3>1. /\ builder[b].plan \in Plans
          /\ WholeOf(builder[b].plan.pub, builder[b].acct, builder[b].plan.rows)
      BY GraphsTyped, RebuildTyped DEF Inv, PlanOK
    <3>2. UNCHANGED run
      BY <1>1 DEF Publish, syncVars
    <3> QED
      BY <2>1, <3>1, <3>2, WriteStamps DEF Inv, Fresh, Newer, Forward
  <2>2. CASE UNCHANGED graph
    BY <2>2 DEF Forward
  <2> QED
    BY <1>1, <2>1, <2>2 DEF Publish
<1>2. ASSUME NEW b \in Builders, Evidence(b) PROVE Forward
  <2>1. CASE WriteGraph(b, NoPlan)
    <3>1. /\ NoPlan \in Plans /\ ~NoPlan.publish
          /\ WholeOf(NoPlan.pub, builder[b].acct, NoPlan.rows)
      BY NoRebuildTyped DEF WholeOf
    <3>2. UNCHANGED run
      BY <1>2 DEF Evidence, syncVars
    <3> QED
      BY <2>1, <3>1, <3>2, WriteStamps DEF Forward
  <2>2. CASE UNCHANGED graph
    BY <2>2 DEF Forward
  <2> QED
    BY <1>2, <2>1, <2>2 DEF Evidence
<1>3. ASSUME NEW b \in Builders, SkipTail(b) PROVE Forward
  <2>1. builder[b].start \in 0..MaxClock /\ builder[b].startOld \subseteq Runs
    BY GraphsTyped, RebuildTyped DEF Inv
  <2>2. \A a \in Accounts : graph'[a].pubAt = graph[a].pubAt
    BY <1>3, <2>1, UnattemptedTyped DEF SkipTail
  <2> QED
    BY <2>2 DEF Forward
<1>4. CASE UNCHANGED graph
  BY <1>4 DEF Forward
<1> QED
  BY <1>1, <1>2, <1>3, <1>4 DEF Next, BuilderStep, graphVars, BeginRebuild, Attempt, Read,
     EndRebuild

(* No publication goes back behind an attempt that was recorded before: the *)
(* instant of an attempt precedes its read, and an attempt that is not      *)
(* later than the state is dropped (writeGraphState).                       *)
THEOREM NeverBack == Spec => NoStepBack
<1>1. Inv /\ [Next]_vars => [Forward]_vars
  BY StepsForward
<1> QED
  BY <1>1, Invariant, PTL DEF Spec, NoStepBack, Forward
=============================================================================
