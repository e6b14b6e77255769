--------------------------- MODULE InventorySync ---------------------------
(***************************************************************************)
(* The inventory sync (scripts/v2/steampipe/sync_lambda.py): invocations   *)
(* of sync() for one resource type.  Types share nothing but the accounts  *)
(* table: every statement names its resource_type, and the advisory lock   *)
(* is per type.  Each statement commits by itself, so an invocation can    *)
(* fail or be killed between any two of them.                              *)
(*                                                                         *)
(* A row of inventory_resources is represented by the run that last wrote  *)
(* it, an answer of a query by the set of keys it names.                   *)
(***************************************************************************)
EXTENDS Naturals, FiniteSets

CONSTANTS
  Runs,        \* invocations of sync(), each with its own run_token
  Members,     \* the connected accounts beside the host
  Self,        \* the host account, stored as 'self'
  Ids,         \* resource ids within an account
  None,
  MaxChanges   \* bound: changes of the scan scope and of reachability

ASSUME InventoryAssumption ==
  /\ Self \notin Members
  /\ None \notin Runs
  /\ IsFiniteSet(Members) /\ IsFiniteSet(Ids)
  /\ MaxChanges \in Nat

Accounts == Members \cup {Self}
Keys == Accounts \X Ids

VARIABLES
  kind,      \* how this type is collected: "steampipe" or "sdk"
  lock,      \* the holder of the advisory lock
  ledger,    \* the type's row of inventory_sync_runs
  res,       \* inventory_resources
  point,     \* per account, the latest row of inventory_snapshots
  inScope,   \* the members to scan: enabled, with all or some regions
  up,        \* the accounts whose Steampipe connection answers
  changes,
  run        \* the local state of each invocation

syncVars == <<kind, lock, ledger, res, point, inScope, up, changes, run>>

Holding == {"query", "upsert", "probe", "prune", "points", "close"}

Idle == [pc |-> "idle", seen |-> {}, todo |-> {}, ask |-> {}, present |-> {},
         out |-> "succeeded"]

\* An invocation that ended without a success leaves no local state.
Ended == [Idle EXCEPT !.pc = "done", !.out = "failed"]

SyncTypeOK ==
  /\ kind \in {"steampipe", "sdk"}
  /\ lock \in Runs \cup {None}
  /\ ledger \in [status : {"none", "running", "succeeded", "partial", "failed"},
                 run : Runs \cup {None}, count : Nat, ok : Runs \cup {None}]
  /\ res \in [Keys -> Runs \cup {None}]
  /\ point \in [Accounts -> [run : Runs \cup {None}, n : Nat]]
  /\ inScope \subseteq Members
  /\ up \subseteq Accounts
  /\ changes \in 0..MaxChanges
  /\ run \in [Runs ->
       [pc : Holding \cup {"idle", "finalize", "done"}, seen : SUBSET Keys,
        todo : SUBSET Keys, ask : SUBSET Accounts, present : SUBSET Accounts,
        out : {"succeeded", "partial", "failed"}]]

SyncInit ==
  /\ kind \in {"steampipe", "sdk"}
  /\ lock = None
  /\ ledger = [status |-> "none", run |-> None, count |-> 0, ok |-> None]
  /\ res = [k \in Keys |-> None]
  /\ point = [a \in Accounts |-> [run |-> None, n |-> 0]]
  /\ inScope \in SUBSET Members
  /\ up = Accounts
  /\ changes = 0
  /\ run = [r \in Runs |-> Idle]

\* The ids a set of keys holds of an account.
IdsOf(K, a) == {i \in Ids : <<a, i>> \in K}
Stored == {k \in Keys : res[k] # None}

Becomes(r, rec) == run' = [run EXCEPT ![r] = rec]

----------------------------------------------------------------------------
(* One invocation *)

\* pg_try_advisory_lock, and the ledger row marked running under the token;
\* a second invocation finds the lock taken and is done.
Begin(r) ==
  /\ run[r].pc = "idle"
  /\ \/ /\ lock # None
        /\ Becomes(r, Ended)
        /\ UNCHANGED <<lock, ledger>>
     \/ /\ lock = None
        /\ lock' = r
        /\ ledger' = [ledger EXCEPT !.status = "running", !.run = r, !.count = 0]
        /\ Becomes(r, [run[r] EXCEPT !.pc = "query"])
  /\ UNCHANGED <<kind, res, point, inScope, up, changes>>

\* The aggregator answers for the connections that are up and leaves the
\* others out.  An SDK collector covers the host only, and may miss some of
\* its calls.  The attributes a run could not read are left to its readers.
Query(r) ==
  /\ run[r].pc = "query"
  /\ \E partial \in BOOLEAN, K \in SUBSET Keys :
       /\ \A k \in K : IF kind = "sdk" THEN k[1] = Self ELSE k[1] \in up
       /\ kind = "steampipe" => ~partial
       /\ Becomes(r, [run[r] EXCEPT
            !.pc = "upsert", !.seen = K, !.todo = K,
            !.ask = IF kind = "sdk" THEN {} ELSE inScope,
            !.out = IF partial THEN "partial" ELSE "succeeded"])
  /\ UNCHANGED <<kind, lock, ledger, res, point, inScope, up, changes>>

Upsert(r) ==
  /\ run[r].pc = "upsert"
  /\ \E k \in run[r].todo :
       /\ res' = [res EXCEPT ![k] = r]
       /\ Becomes(r, [run[r] EXCEPT !.todo = @ \ {k}])
  /\ UNCHANGED <<kind, lock, ledger, point, inScope, up, changes>>

\* Phase 1 deletes the rows of the members out of scope; the accounts without
\* a row in the answer are to be probed.  An incomplete SDK collection prunes
\* nothing and writes no counts.
Sweep(r) ==
  LET answered == {a \in Accounts : IdsOf(run[r].seen, a) # {}}
      present == IF kind = "sdk" THEN answered \cup {Self} ELSE answered
  IN
  /\ run[r].pc = "upsert" /\ run[r].todo = {}
  /\ \/ /\ run[r].out = "partial"
        /\ Becomes(r, [run[r] EXCEPT !.pc = "close"])
        /\ UNCHANGED res
     \/ /\ run[r].out # "partial"
        /\ res' = [k \in Keys |->
             IF k[1] \in Members \ inScope THEN None ELSE res[k]]
        /\ Becomes(r, [run[r] EXCEPT !.pc = "probe", !.present = present,
             !.ask = (@ \cup {Self}) \ present])
  /\ UNCHANGED <<kind, lock, ledger, point, inScope, up, changes>>

\* _account_reachable: an account is present only if its connection answers;
\* the probe may also be refused, fail or run out of time.
Probe(r) ==
  /\ run[r].pc = "probe"
  /\ \E a \in run[r].ask :
       \/ /\ a \in up
          /\ Becomes(r, [run[r] EXCEPT !.ask = @ \ {a},
                                       !.present = @ \cup {a}])
       \/ Becomes(r, [run[r] EXCEPT !.ask = @ \ {a}, !.out = "partial"])
  /\ UNCHANGED <<kind, lock, ledger, res, point, inScope, up, changes>>

\* Phase 2 reads the stored keys and picks those of the present accounts
\* that the answer did not name.
Stale(r) == {k \in Stored : k[1] \in run[r].present /\ k \notin run[r].seen}

FindStale(r) ==
  /\ run[r].pc = "probe" /\ run[r].ask = {}
  /\ Becomes(r, [run[r] EXCEPT !.pc = "prune", !.todo = Stale(r)])
  /\ UNCHANGED <<kind, lock, ledger, res, point, inScope, up, changes>>

Prune(r) ==
  /\ run[r].pc = "prune"
  /\ \/ \E k \in run[r].todo :
          /\ res' = [res EXCEPT ![k] = None]
          /\ Becomes(r, [run[r] EXCEPT !.todo = @ \ {k}])
     \/ /\ run[r].todo = {}
        /\ Becomes(r, [run[r] EXCEPT !.pc = "points", !.ask = @ \cup run[r].present])
        /\ UNCHANGED res
  /\ UNCHANGED <<kind, lock, ledger, point, inScope, up, changes>>

\* _write_snapshot_row: today's count of an account the run vouches for.
WritePoint(r) ==
  /\ run[r].pc = "points"
  /\ \/ \E a \in run[r].ask :
          /\ point' = [point EXCEPT ![a] =
               [run |-> r, n |-> Cardinality(IdsOf(run[r].seen, a))]]
          /\ Becomes(r, [run[r] EXCEPT !.ask = @ \ {a}])
     \/ /\ run[r].ask = {}
        /\ Becomes(r, [run[r] EXCEPT !.pc = "close"])
        /\ UNCHANGED point
  /\ UNCHANGED <<kind, lock, ledger, res, inScope, up, changes>>

\* A statement or a query fails: what was written stays written, and a point
\* may be deleted without its successor.
LosesAPoint(r) ==
  \/ UNCHANGED point
  \/ /\ run[r].pc = "points"
     /\ \E a \in run[r].ask :
          point' = [point EXCEPT ![a] = [run |-> None, n |-> 0]]

Fail(r) ==
  /\ run[r].pc \in Holding \ {"close"}
  /\ LosesAPoint(r)
  /\ Becomes(r, [Idle EXCEPT !.pc = "close", !.out = "failed"])
  /\ UNCHANGED <<kind, lock, ledger, res, inScope, up, changes>>

\* The invocation is killed: the session's lock goes, the ledger row stays.
Crash(r) ==
  /\ run[r].pc \in Holding \cup {"finalize"}
  /\ LosesAPoint(r)
  /\ lock' = IF lock = r THEN None ELSE lock
  /\ Becomes(r, Ended)
  /\ UNCHANGED <<kind, ledger, res, inScope, up, changes>>

\* The lock is released before the ledger is finalized; an error of the
\* unlock or of the close makes the run a failed one.
Close(r) ==
  /\ run[r].pc = "close"
  /\ lock' = None
  /\ \E out \in {run[r].out, "failed"} :
       Becomes(r, [run[r] EXCEPT !.pc = "finalize", !.out = out])
  /\ UNCHANGED <<kind, ledger, res, point, inScope, up, changes>>

\* _finalize_sync_ledger, on a connection of its own: one conditional update,
\* which may fail to be made.  What a succeeded run has seen, and the accounts
\* it vouches for, are kept for the properties.
Finalized(r) ==
  [ledger EXCEPT
     !.status = run[r].out,
     !.count = IF run[r].out = "failed" THEN 0 ELSE Cardinality(run[r].seen),
     !.ok = IF run[r].out = "succeeded" THEN r ELSE @]

\* Mutant: the row is closed whoever owns it by now.
FinalizeAnyway(r) ==
  /\ run[r].pc = "finalize"
  /\ \/ /\ ledger' = Finalized(r)
        /\ Becomes(r, IF run[r].out = "succeeded"
                        THEN [run[r] EXCEPT !.pc = "done"] ELSE Ended)
     \/ /\ Becomes(r, Ended)
        /\ UNCHANGED ledger
  /\ UNCHANGED <<kind, lock, res, point, inScope, up, changes>>

Finalize(r) ==
  /\ run[r].pc = "finalize"
  /\ \/ /\ ledger.run = r
        /\ ledger' = Finalized(r)
        /\ Becomes(r, IF run[r].out = "succeeded"
                        THEN [run[r] EXCEPT !.pc = "done"] ELSE Ended)
     \/ /\ Becomes(r, Ended)
        /\ UNCHANGED ledger
  /\ UNCHANGED <<kind, lock, res, point, inScope, up, changes>>

----------------------------------------------------------------------------
(* The surroundings *)

\* An administrator adds an account to the scan or takes it out.
ChangeScope ==
  /\ changes < MaxChanges
  /\ changes' = changes + 1
  /\ \E a \in Members :
       inScope' = IF a \in inScope THEN inScope \ {a} ELSE inScope \cup {a}
  /\ UNCHANGED <<kind, lock, ledger, res, point, up, run>>

\* A connection is lost, or comes back.
ChangeUp ==
  /\ changes < MaxChanges
  /\ changes' = changes + 1
  /\ \E a \in Accounts : up' = IF a \in up THEN up \ {a} ELSE up \cup {a}
  /\ UNCHANGED <<kind, lock, ledger, res, point, inScope, run>>

SyncStep(r) ==
  \/ Begin(r) \/ Query(r) \/ Upsert(r) \/ Sweep(r) \/ Probe(r)
  \/ FindStale(r) \/ Prune(r) \/ WritePoint(r) \/ Fail(r) \/ Crash(r)
  \/ Close(r) \/ Finalize(r)

SyncNext == ChangeScope \/ ChangeUp \/ \E r \in Runs : SyncStep(r)

SyncSpec == SyncInit /\ [][SyncNext]_syncVars

----------------------------------------------------------------------------
(* Properties *)

\* A ledger row that reads succeeded describes the table: the rows of every
\* account its run vouches for are those the run has seen, all of them written
\* by that run, unless the account was taken out of the scan meanwhile and has
\* none.  Unlocking before the ledger is finalized, the token and a killed run
\* may not break this (sync() and _finalize_sync_ledger).
SucceededIsSnapshot ==
  ledger.status = "succeeded" =>
    LET r == ledger.run IN
    /\ Self \in run[r].present
    /\ \A a \in run[r].present :
         \/ \A i \in Ids : res[<<a, i>>] =
              IF <<a, i>> \in run[r].seen THEN r ELSE None
         \/ a # Self /\ \A i \in Ids : res[<<a, i>>] = None
============================================================================
