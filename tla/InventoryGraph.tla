--------------------------- MODULE InventoryGraph --------------------------
(***************************************************************************)
(* The topology graph built from the inventory (web/lib/graph-store.ts,    *)
(* graph-state.ts, graph-inventory.ts), beside the sync that fills it: one *)
(* class of graph over one resource type.  A rebuild reads an account's    *)
(* rows in one snapshot, decides from the ledger and the snapshot counts   *)
(* whether they are whole, and publishes graph and state in one            *)
(* transaction.  Rebuilds of two processes meet only in those              *)
(* transactions.                                                           *)
(*                                                                         *)
(* A graph is represented by the rows it was built from and the run they   *)
(* came from.  All processes read one clock.                               *)
(***************************************************************************)
EXTENDS InventorySync

CONSTANTS
  Builders,   \* rebuilds, each of a process of its own
  Limit,      \* the accounts one rebuild takes on, at most (100)
  MaxClock    \* bound: the instants at which attempts begin

ASSUME GraphAssumption == Limit \in Nat \ {0} /\ MaxClock \in Nat \ {0}

VARIABLES
  clock,
  graph,     \* per account, its topology_graph_state and its topology rows
  builder

graphVars == <<clock, graph, builder>>
vars == <<syncVars, graphVars>>

NoGraph == [at |-> 0, old |-> {}, retained |-> FALSE, pub |-> None,
            rows |-> {}, pubAt |-> 0]

NoPlan == [publish |-> FALSE, pub |-> None, rows |-> {}]

NoRebuild == [pc |-> "idle", todo |-> {}, acct |-> Self, at |-> 0, old |-> {},
              start |-> 0, startOld |-> {}, plan |-> NoPlan]

GraphTypeOK ==
  /\ clock \in 0..MaxClock
  /\ graph \in [Accounts ->
       [at : 0..MaxClock, old : SUBSET Runs, retained : BOOLEAN,
        pub : Runs \cup {None}, rows : SUBSET Ids, pubAt : 0..MaxClock]]
  /\ builder \in [Builders ->
       [pc : {"idle", "next", "read", "publish", "evidence", "done"},
        todo : SUBSET Accounts, acct : Accounts, at : 0..MaxClock,
        old : SUBSET Runs, start : 0..MaxClock, startOld : SUBSET Runs,
        plan : [publish : BOOLEAN, pub : Runs \cup {None}, rows : SUBSET Ids]]]

Init ==
  /\ SyncInit
  /\ clock = 0
  /\ graph = [a \in Accounts |-> NoGraph]
  /\ builder = [b \in Builders |-> NoRebuild]

Turns(b, rec) == builder' = [builder EXCEPT ![b] = rec]

\* Two attempts may read the same instant.
Now == {t \in {clock, clock + 1} : t \in 1..MaxClock}

\* History: the runs whose collection a later run has already replaced.
Outdated == {r \in Runs : run[r].pc = "done" /\ run[r].out = "succeeded"}
              \ {ledger.ok}

----------------------------------------------------------------------------
(* What a snapshot of the inventory allows *)

Items(a) == IdsOf(Stored, a)

\* A member took part in the collection the ledger reports: it has a count
\* written within that run, and is still to be scanned.
Participated(a) ==
  \/ a = Self
  \/ /\ ledger.status = "succeeded"
     /\ point[a].run = ledger.run
     /\ a \in inScope

\* Mutant: the counts of the members are not looked at.
TotalConfirmed(a) ==
  ledger.status = "succeeded" /\ (a = Self => ledger.count = Cardinality(Stored))

CountConfirmed(a) ==
  /\ ledger.status = "succeeded"
  /\ ledger.count = Cardinality(Stored)
  /\ a # Self => Participated(a) /\ point[a].n = Cardinality(Items(a))

\* inventoryAttempt and rebuildInventory: the rows may replace the graph when
\* nothing blocks them and they, and the graph built from them, fit the limits.
\* An empty answer is not taken from a run with unknown attributes; nothing is
\* required of an SDK type for a member, and so nothing shows it is covered.
Safe(a, fits, unknown) ==
  /\ kind = "sdk" => a = Self
  /\ ledger.status = "succeeded"
  /\ Participated(a)
  /\ CountConfirmed(a)
  /\ unknown => Items(a) # {}
  /\ fits

inventoryAttempt(a, fits, unknown) ==
  IF Safe(a, fits, unknown)
    THEN [publish |-> TRUE, pub |-> ledger.run, rows |-> Items(a)]
    ELSE NoPlan

----------------------------------------------------------------------------
(* A rebuild *)

\* rebuildInventory: of the accounts with any trace in the inventory or the
\* graph, as many as the limit allows (those longest unattempted; which they
\* are is left open), or the error recorded against the host when they cannot
\* be listed.
Known ==
  {Self} \cup inScope
    \cup {a \in Accounts : \/ graph[a].at # 0
                           \/ point[a].run # None
                           \/ Items(a) # {}}

Selections ==
  {S \in SUBSET Known : Cardinality(S) =
     IF Cardinality(Known) < Limit THEN Cardinality(Known) ELSE Limit}

BeginRebuild(b) ==
  /\ builder[b].pc = "idle"
  /\ \E t \in Now :
       /\ clock' = t
       /\ \/ \E S \in Selections :
               Turns(b, [NoRebuild EXCEPT !.pc = "next", !.todo = S,
                           !.start = t, !.startOld = Outdated])
          \/ Turns(b, [NoRebuild EXCEPT !.pc = "evidence", !.at = t,
                                        !.old = Outdated])
  /\ UNCHANGED <<syncVars, graph>>

\* The instant of an account's attempt is read before its rows are.
Attempt(b) ==
  /\ builder[b].pc = "next"
  /\ \E a \in builder[b].todo, t \in Now :
       /\ clock' = t
       /\ Turns(b, [builder[b] EXCEPT !.pc = "read", !.todo = @ \ {a},
                      !.acct = a, !.at = t, !.old = Outdated])
  /\ UNCHANGED <<syncVars, graph>>

Read(b) ==
  /\ builder[b].pc = "read"
  /\ \/ \E fits, unknown \in BOOLEAN :
          Turns(b, [builder[b] EXCEPT !.pc = "publish",
                      !.plan = inventoryAttempt(builder[b].acct, fits, unknown)])
     \/ Turns(b, [builder[b] EXCEPT !.pc = "evidence"])
  /\ UNCHANGED <<syncVars, clock, graph>>

\* Mutant: an attempt of the same instant wins too.
CurrentOrEqual(a, at) == graph[a].at <= at

\* writeGraphState and replaceGraph, in one transaction: a state at least as
\* recent stands, and a plan that may not publish leaves the rows alone.
Current(a, at) == graph[a].at < at

Written(g, at, old, plan) ==
  LET state == [g EXCEPT !.at = at, !.old = old, !.retained = ~plan.publish]
  IN  IF plan.publish
        THEN [state EXCEPT !.pub = plan.pub, !.rows = plan.rows, !.pubAt = at]
        ELSE state

WriteGraph(b, plan) ==
  LET me == builder[b] IN
  graph' = IF Current(me.acct, me.at)
             THEN [graph EXCEPT ![me.acct] = Written(@, me.at, me.old, plan)]
             ELSE graph

Proceed(b, pc) == Turns(b, [builder[b] EXCEPT !.pc = pc, !.plan = NoPlan])

\* The transaction commits, or finds the class lock taken by another; it fails
\* and is rolled back, or commits unheard, and either way the failure is then
\* to be recorded.
Publish(b) ==
  /\ builder[b].pc = "publish"
  /\ \/ /\ WriteGraph(b, builder[b].plan)
        /\ \E pc \in {"next", "evidence"} : Proceed(b, pc)
     \/ /\ \E c \in Builders \ {b} : builder[c].pc \in {"next", "publish", "evidence"}
        /\ Proceed(b, "next")
        /\ UNCHANGED graph
     \/ Proceed(b, "evidence") /\ UNCHANGED graph
  /\ UNCHANGED <<syncVars, clock>>

\* The best-effort record of a failure.
Evidence(b) ==
  /\ builder[b].pc = "evidence"
  /\ WriteGraph(b, NoPlan) \/ UNCHANGED graph
  /\ Proceed(b, "next")
  /\ UNCHANGED <<syncVars, clock>>

\* Mutant: nothing is said of the graph that stays.
UnattemptedOnly(a, at, old) ==
  [graph[a] EXCEPT !.at = at, !.old = old, !.retained = FALSE]

\* recordUnattempted: out of time, the accounts left are recorded as not
\* attempted, if the lock is free and the statement succeeds.
Unattempted(a, at, old) ==
  [graph[a] EXCEPT !.at = at, !.old = old,
                   !.retained = graph[a].pubAt # 0 \/ graph[a].rows # {}]

SkipTail(b) ==
  LET me == builder[b] IN
  /\ me.pc = "next" /\ me.todo # {}
  /\ \/ graph' = [a \in Accounts |->
          IF a \in me.todo /\ Current(a, me.start)
            THEN Unattempted(a, me.start, me.startOld) ELSE graph[a]]
     \/ UNCHANGED graph
  /\ Turns(b, [NoRebuild EXCEPT !.pc = "done"])
  /\ UNCHANGED <<syncVars, clock>>

EndRebuild(b) ==
  /\ builder[b].pc = "next" /\ builder[b].todo = {}
  /\ Turns(b, [NoRebuild EXCEPT !.pc = "done"])
  /\ UNCHANGED <<syncVars, clock, graph>>

BuilderStep(b) ==
  \/ BeginRebuild(b) \/ Attempt(b) \/ Read(b) \/ Publish(b) \/ Evidence(b)
  \/ SkipTail(b) \/ EndRebuild(b)

Next ==
  \/ SyncNext /\ UNCHANGED graphVars
  \/ \E b \in Builders : BuilderStep(b)

Spec == Init /\ [][Next]_vars

----------------------------------------------------------------------------
(* Properties *)

\* The graph shown for an account is the whole of what one succeeded run saw
\* of it: rows half written, half pruned, of an account that run could not
\* reach or that left the scan are never published
\* (inventorySnapshot, inventoryAttempt).
GraphIsWhole ==
  \A a \in Accounts :
    LET r == graph[a].pub IN
    r # None => a \in run[r].present /\ graph[a].rows = IdsOf(run[r].seen, a)

\* A state that does not say the graph was retained belongs to the attempt
\* that published it (writeGraphState, recordUnattempted).
RetainedIsTold ==
  \A a \in Accounts :
    graph[a].pubAt # 0 /\ ~graph[a].retained => graph[a].pubAt = graph[a].at

\* A publication never shows a collection that had already been replaced when
\* the attempt recorded before it began: the clock is read before the rows, and
\* a slower rebuild loses to a state recorded meanwhile (writeGraphState).
NoStepBack ==
  [][\A a \in Accounts :
       graph'[a].pubAt # graph[a].pubAt => graph'[a].pub \notin graph[a].old]_vars
============================================================================
