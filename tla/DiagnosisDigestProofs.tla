------------------------ MODULE DiagnosisDigestProofs -------------------------
(***************************************************************************)
(* The digest, for every set of reports and every set of overlapping runs: *)
(* the record tells no untrue delivery, the backlog is emailed no more     *)
(* often than overlaps and deaths explain, and what is stamped is done.    *)
(***************************************************************************)
EXTENDS DiagnosisDigest, FiniteSetTheorems, TLAPS

(* A run that has its MessageId has emailed what it is about to stamp.     *)
AnsweredIsTrue ==
  \A i \in Runs : At(i, "marking") /\ local[i].messageId = "id" =>
    \A r \in local[i].pending : emails[r] > 0

Inv == TypeOK /\ AnsweredIsTrue /\ EmailedIsTrue

USE DigestAssumption

-----------------------------------------------------------------------------
(* Type correctness.                                                       *)
LEMMA LocalsType ==
  ASSUME NEW l \in Locals
  PROVE  /\ l.at \in Steps /\ l.flag \in Flags /\ l.messageId \in {"None", "id"}
         /\ l.pending \in SUBSET Reports
BY DEF Locals

LEMMA LocalFields ==
  ASSUME NEW at \in Steps, NEW flag \in Flags, NEW pending \in SUBSET Reports, NEW id \in {"None", "id"}
  PROVE  /\ Local(at, flag, pending, id) \in Locals
         /\ Local(at, flag, pending, id).at = at
         /\ Local(at, flag, pending, id).pending = pending
         /\ Local(at, flag, pending, id).messageId = id
BY DEF Local, Locals

LEMMA ListedFields ==
  ASSUME NEW l \in Locals
  PROVE  /\ Listed(l) \in Locals
         /\ Listed(l).at \in {"publishing", "marking"}
         /\ Listed(l).pending = Pending
         /\ Listed(l).messageId = "None"
<1>1. AfterListing(l) \in {"publishing", "marking"}
  BY DEF AfterListing
<1>2. Pending \in SUBSET Reports
  BY DEF Pending, Completed
<1>3. l.flag \in Flags
  BY LocalsType
<1> QED BY <1>1, <1>2, <1>3, LocalFields DEF Listed, Steps

LEMMA InitTyped == Init => TypeOK
BY DEF Init, TypeOK

LEMMA StepTyped == TypeOK /\ [Next]_vars => TypeOK'
<1> SUFFICES ASSUME TypeOK, [Next]_vars PROVE TypeOK'
  OBVIOUS
<1> USE DEF TypeOK
<1>1. ASSUME NEW r \in Reports, FinishReport(r) PROVE TypeOK'
  BY <1>1 DEF FinishReport
<1>2. CASE TogglePause
  BY <1>2 DEF TogglePause
<1>3. CASE Migrate
  BY <1>3 DEF Migrate
<1>4. ASSUME NEW i \in Runs, ReadFlag(i) PROVE TypeOK'
  <2>1. PICK flag \in {setting, "unread"} : local' = [local EXCEPT ![i] = Local("listing", flag, {}, "None")]
    BY <1>4 DEF ReadFlag
  <2>2. Local("listing", flag, {}, "None") \in Locals /\ Local("listing", flag, {}, "None").at = "listing"
    BY LocalFields DEF Steps, Flags
  <2> QED BY <1>4, <2>1, <2>2 DEF ReadFlag
<1>5. ASSUME NEW i \in Runs, ListPending(i) PROVE TypeOK'
  <2>1. Listed(local[i]) \in Locals /\ Listed(local[i]).pending = Pending
    BY <1>5, ListedFields DEF ListPending, At
  <2> QED BY <1>5, <2>1 DEF ListPending
<1>6. ASSUME NEW i \in Runs, Publish(i) PROVE TypeOK'
  <2>1. local[i] \in Locals /\ local[i].pending # {}
    BY <1>6 DEF Publish, At
  <2>2. PICK accepted, answered \in BOOLEAN :
          /\ emails' = [r \in Reports |-> emails[r] + IF accepted /\ r \in local[i].pending THEN 1 ELSE 0]
          /\ local' = [local EXCEPT ![i] = Local("marking", local[i].flag, local[i].pending,
                                                IF answered THEN "id" ELSE "None")]
    BY <1>6 DEF Publish
  <2> DEFINE id  == IF answered THEN "id" ELSE "None"
             new == Local("marking", local[i].flag, local[i].pending, id)
  <2>3. new \in Locals /\ new.pending # {}
    <3>1. id \in {"None", "id"}
      OBVIOUS
    <3> HIDE DEF id
    <3> QED BY <2>1, <3>1, LocalFields, LocalsType DEF Steps
  <2>4. emails' \in [Reports -> Nat]
    BY <2>2
  <2> QED BY <1>6, <2>2, <2>3, <2>4 DEF Publish
<1>7. ASSUME NEW i \in Runs, MarkNotified(i) PROVE TypeOK'
  BY <1>7 DEF MarkNotified, Stamped, Outcome, Outcomes, Delivered
<1>8. ASSUME NEW i \in Runs, Die(i) PROVE TypeOK'
  BY <1>8 DEF Die
<1>9. CASE UNCHANGED vars
  BY <1>9 DEF vars
<1> QED BY <1>1, <1>2, <1>3, <1>4, <1>5, <1>6, <1>7, <1>8, <1>9 DEF Next, Run

(* The variables of the digest keep their types, and a run never publishes *)
(* or stamps an empty list.                                                *)
THEOREM TypeCorrect == Spec => []TypeOK
<1>1. TypeOK /\ [Next]_vars => TypeOK'
  BY StepTyped
<1> QED BY <1>1, InitTyped, PTL DEF Spec

-----------------------------------------------------------------------------
(* What the record calls delivered.                                        *)
LEMMA InitInv == Init => Inv
BY InitTyped DEF Init, Inv, AnsweredIsTrue, EmailedIsTrue, At, Delivered

(* An email more cannot hurt, and a step that leaves the stamps alone and  *)
(* adds no MessageId keeps both conjuncts.                                 *)
LEMMA StepDelivered == Inv /\ TypeOK' /\ [Next]_vars => AnsweredIsTrue' /\ EmailedIsTrue'
<1> SUFFICES ASSUME Inv, TypeOK', [Next]_vars PROVE AnsweredIsTrue' /\ EmailedIsTrue'
  OBVIOUS
<1> USE DEF Inv, TypeOK, AnsweredIsTrue, EmailedIsTrue, At
<1>1. ASSUME NEW r \in Reports, FinishReport(r) PROVE AnsweredIsTrue' /\ EmailedIsTrue'
  BY <1>1 DEF FinishReport
<1>2. CASE TogglePause
  BY <1>2 DEF TogglePause
<1>3. CASE Migrate
  BY <1>3 DEF Migrate
<1>4. ASSUME NEW i \in Runs, ReadFlag(i) PROVE AnsweredIsTrue' /\ EmailedIsTrue'
  <2>1. PICK flag \in {setting, "unread"} : local' = [local EXCEPT ![i] = Local("listing", flag, {}, "None")]
    BY <1>4 DEF ReadFlag
  <2>2. Local("listing", flag, {}, "None").at = "listing"
    BY LocalFields DEF Steps, Flags
  <2> QED BY <1>4, <2>1, <2>2 DEF ReadFlag
<1>5. ASSUME NEW i \in Runs, ListPending(i) PROVE AnsweredIsTrue' /\ EmailedIsTrue'
  <2>1. Listed(local[i]).messageId = "None"
    BY <1>5, ListedFields DEF ListPending
  <2> QED BY <1>5, <2>1 DEF ListPending
<1>6. ASSUME NEW i \in Runs, Publish(i) PROVE AnsweredIsTrue' /\ EmailedIsTrue'
  <2>1. local[i] \in Locals
    BY <1>6 DEF Publish
  <2>2. PICK accepted, answered \in BOOLEAN :
          /\ answered => accepted
          /\ emails' = [r \in Reports |-> emails[r] + IF accepted /\ r \in local[i].pending THEN 1 ELSE 0]
          /\ local' = [local EXCEPT ![i] = Local("marking", local[i].flag, local[i].pending,
                                                IF answered THEN "id" ELSE "None")]
    BY <1>6 DEF Publish
  <2>3. \A r \in Reports : emails[r] > 0 => emails'[r] > 0
    BY <2>2
  <2>4. EmailedIsTrue'
    BY <1>6, <2>3 DEF Publish
  <2>5. ASSUME answered PROVE AnsweredIsTrue'
    <3> DEFINE new == Local("marking", local[i].flag, local[i].pending, "id")
    <3>1. local' = [local EXCEPT ![i] = new]
      BY <2>2, <2>5
    <3>2. new.pending = local[i].pending
      BY <2>1, LocalFields, LocalsType DEF Steps
    <3>3. \A r \in local[i].pending : emails'[r] > 0
      BY <2>1, <2>2, <2>5, LocalsType
    <3>4. \A j \in Runs : j # i => local'[j] = local[j]
      BY <3>1
    <3>5. \A j \in Runs : local[j] # NoRun => local[j].pending \in SUBSET Reports
      BY LocalsType
    <3> QED BY <2>3, <3>1, <3>2, <3>3, <3>4, <3>5
  <2>6. ASSUME ~answered PROVE AnsweredIsTrue'
    <3> DEFINE new == Local("marking", local[i].flag, local[i].pending, "None")
    <3>1. local' = [local EXCEPT ![i] = new]
      BY <2>2, <2>6
    <3>2. new.messageId = "None"
      BY <2>1, LocalFields, LocalsType DEF Steps
    <3>3. \A j \in Runs : local[j] # NoRun => local[j].pending \in SUBSET Reports
      BY LocalsType
    <3> QED BY <2>3, <3>1, <3>2, <3>3
  <2> QED BY <2>4, <2>5, <2>6
<1>7. ASSUME NEW i \in Runs, MarkNotified(i) PROVE AnsweredIsTrue' /\ EmailedIsTrue'
  <2>1. local[i] \in Locals
    BY <1>7 DEF MarkNotified
  <2>2. Stamped(local[i]) \in Delivered => local[i].messageId = "id"
    BY <2>1, LocalsType DEF Stamped, Outcome, Delivered
  <2>3. EmailedIsTrue'
    BY <1>7, <2>2 DEF MarkNotified
  <2>4. AnsweredIsTrue'
    BY <1>7 DEF MarkNotified
  <2> QED BY <2>3, <2>4
<1>8. ASSUME NEW i \in Runs, Die(i) PROVE AnsweredIsTrue' /\ EmailedIsTrue'
  BY <1>8 DEF Die
<1>9. CASE UNCHANGED vars
  BY <1>9 DEF vars
<1> QED BY <1>1, <1>2, <1>3, <1>4, <1>5, <1>6, <1>7, <1>8, <1>9 DEF Next, Run

LEMMA Invariance == Spec => []Inv
<1>1. Inv /\ [Next]_vars => Inv'
  BY StepTyped, StepDelivered DEF Inv
<1> QED BY <1>1, InitInv, PTL DEF Spec

(* Whatever overlaps, dies or goes unanswered, a report whose              *)
(* notify_outcome says that it was emailed has been emailed.               *)
THEOREM DeliveriesAreTrue == Spec => []EmailedIsTrue
<1>1. Inv => EmailedIsTrue
  BY DEF Inv
<1> QED BY <1>1, Invariance, PTL

-----------------------------------------------------------------------------
(* What is done stays done: a run takes up only what is not stamped.       *)
LEMMA StepDone ==
  ASSUME TypeOK, [Next]_vars, NEW r \in Reports, Done(r)
  PROVE  Done(r)' /\ emails'[r] = emails[r]
<1> USE DEF TypeOK, Done, At
<1>1. ASSUME NEW q \in Reports, FinishReport(q) PROVE Done(r)' /\ emails'[r] = emails[r]
  BY <1>1 DEF FinishReport
<1>2. CASE TogglePause
  BY <1>2 DEF TogglePause
<1>3. CASE Migrate
  BY <1>3 DEF Migrate
<1>4. ASSUME NEW i \in Runs, ReadFlag(i) PROVE Done(r)' /\ emails'[r] = emails[r]
  <2>1. PICK flag \in {setting, "unread"} : local' = [local EXCEPT ![i] = Local("listing", flag, {}, "None")]
    BY <1>4 DEF ReadFlag
  <2>2. Local("listing", flag, {}, "None").pending = {}
    BY LocalFields DEF Steps, Flags
  <2> QED BY <1>4, <2>1, <2>2 DEF ReadFlag
<1>5. ASSUME NEW i \in Runs, ListPending(i) PROVE Done(r)' /\ emails'[r] = emails[r]
  <2>1. Listed(local[i]).pending = Pending
    BY <1>5, ListedFields DEF ListPending
  <2>2. r \notin Pending
    BY DEF Pending
  <2> QED BY <1>5, <2>1, <2>2 DEF ListPending
<1>6. ASSUME NEW i \in Runs, Publish(i) PROVE Done(r)' /\ emails'[r] = emails[r]
  <2>1. local[i] \in Locals /\ r \notin local[i].pending
    BY <1>6 DEF Publish
  <2>2. PICK accepted, answered \in BOOLEAN :
          /\ emails' = [q \in Reports |-> emails[q] + IF accepted /\ q \in local[i].pending THEN 1 ELSE 0]
          /\ local' = [local EXCEPT ![i] = Local("marking", local[i].flag, local[i].pending,
                                                IF answered THEN "id" ELSE "None")]
    BY <1>6 DEF Publish
  <2> DEFINE id  == IF answered THEN "id" ELSE "None"
             new == Local("marking", local[i].flag, local[i].pending, id)
  <2>3. new.pending = local[i].pending
    <3>1. id \in {"None", "id"}
      OBVIOUS
    <3> HIDE DEF id
    <3> QED BY <2>1, <3>1, LocalFields, LocalsType DEF Steps
  <2>4. emails'[r] = emails[r]
    BY <2>1, <2>2
  <2>5. local' = [local EXCEPT ![i] = new]
    BY <2>2
  <2> HIDE DEF new
  <2> QED BY <1>6, <2>1, <2>3, <2>4, <2>5 DEF Publish
<1>7. ASSUME NEW i \in Runs, MarkNotified(i) PROVE Done(r)' /\ emails'[r] = emails[r]
  BY <1>7 DEF MarkNotified
<1>8. ASSUME NEW i \in Runs, Die(i) PROVE Done(r)' /\ emails'[r] = emails[r]
  BY <1>8 DEF Die
<1>9. CASE UNCHANGED vars
  BY <1>9 DEF vars
<1> QED BY <1>1, <1>2, <1>3, <1>4, <1>5, <1>6, <1>7, <1>8, <1>9 DEF Next, Run

(* A stamped report that no run holds is never listed or emailed again.    *)
THEOREM StampedStaysDone == Spec => StampedIsDone
<1>1. TypeOK /\ [Next]_vars => [\A r \in Reports : Done(r) => Done(r)' /\ emails'[r] = emails[r]]_vars
  BY StepDone
<1> QED BY <1>1, TypeCorrect, PTL DEF Spec, StampedIsDone

-----------------------------------------------------------------------------
(* Counting.  Each email that names a report was sent by a run that has    *)
(* yet to stamp it, or by one that died; once the report is stamped, only  *)
(* the runs that still hold it may add one each.                           *)
Sending(r) == {i \in Runs : At(i, "publishing") /\ r \in local[i].pending}
Sent(r)    == {i \in Runs : At(i, "marking") /\ r \in local[i].pending}

Explained(r) ==
  IF stamp[r] = "pending"
  THEN emails[r] <= Cardinality(Sent(r)) + deaths
  ELSE emails[r] + Cardinality(Sending(r)) <= Cardinality(Runs) + deaths

LEMMA Finite ==
  ASSUME NEW r
  PROVE  /\ Sending(r) \in SUBSET Runs /\ IsFiniteSet(Sending(r)) /\ Cardinality(Sending(r)) \in Nat
         /\ Sent(r) \in SUBSET Runs /\ IsFiniteSet(Sent(r)) /\ Cardinality(Sent(r)) \in Nat
         /\ Cardinality(Runs) \in Nat
<1>1. Sending(r) \in SUBSET Runs /\ Sent(r) \in SUBSET Runs
  BY DEF Sending, Sent
<1>2. IsFiniteSet(Sending(r)) /\ IsFiniteSet(Sent(r))
  BY <1>1, FS_Subset
<1> QED BY <1>1, <1>2, FS_CardinalityType

(* No run is at two steps.                                                 *)
LEMMA Disjoint ==
  ASSUME NEW r
  PROVE  Cardinality(Sending(r)) + Cardinality(Sent(r)) <= Cardinality(Runs)
<1>1. Sending(r) \cap Sent(r) = {}
  BY DEF Sending, Sent, At
<1>2. Sending(r) \cup Sent(r) \in SUBSET Runs
  BY Finite
<1>3. Cardinality(Sending(r) \cup Sent(r)) = Cardinality(Sending(r)) + Cardinality(Sent(r)) - Cardinality({})
  BY <1>1, Finite, FS_Union
<1>4. Cardinality(Sending(r) \cup Sent(r)) <= Cardinality(Runs)
  BY <1>2, FS_Subset
<1> QED BY <1>3, <1>4, FS_EmptySet, Finite

(* A run joins or leaves.                                                  *)
LEMMA CardinalityStep ==
  ASSUME NEW S, NEW T, NEW x, IsFiniteSet(S), IsFiniteSet(T)
  PROVE  /\ Cardinality(S) \in Nat /\ Cardinality(T) \in Nat
         /\ S \subseteq T => Cardinality(S) <= Cardinality(T)
         /\ S \subseteq T \cup {x} => Cardinality(S) <= Cardinality(T) + 1
         /\ S \cup {x} \subseteq T /\ x \notin S => Cardinality(S) + 1 <= Cardinality(T)
<1>1. Cardinality(S) \in Nat /\ Cardinality(T) \in Nat
  BY FS_CardinalityType
<1>2. S \subseteq T => Cardinality(S) <= Cardinality(T)
  BY FS_Subset
<1>3. IsFiniteSet(T \cup {x}) /\ Cardinality(T \cup {x}) <= Cardinality(T) + 1
  <2>1. IsFiniteSet(T \cup {x})
    BY FS_AddElement
  <2>2. Cardinality(T \cup {x}) = IF x \in T THEN Cardinality(T) ELSE Cardinality(T) + 1
    BY FS_AddElement
  <2> QED BY <1>1, <2>1, <2>2
<1>4. S \subseteq T \cup {x} => Cardinality(S) <= Cardinality(T \cup {x})
  BY <1>3, FS_Subset
<1>5. x \notin S => Cardinality(S \cup {x}) = Cardinality(S) + 1
  BY FS_AddElement
<1>6. S \cup {x} \subseteq T => Cardinality(S \cup {x}) <= Cardinality(T)
  BY FS_Subset
<1>7. Cardinality(T \cup {x}) \in Nat
  BY <1>3, FS_CardinalityType
<1> QED BY <1>1, <1>2, <1>3, <1>4, <1>5, <1>6, <1>7

LEMMA StepExplained ==
  ASSUME TypeOK, TypeOK', [Next]_vars, NEW r \in Reports, Explained(r)
  PROVE  Explained(r)'
<1> DEFINE S == Sending(r)
           T == Sent(r)
<1>a. /\ IsFiniteSet(S) /\ Cardinality(S) \in Nat /\ IsFiniteSet(T) /\ Cardinality(T) \in Nat
      /\ Cardinality(Runs) \in Nat
  BY Finite
<1>b. IsFiniteSet(S') /\ IsFiniteSet(T')
  <2>1. S' \in SUBSET Runs /\ T' \in SUBSET Runs
    BY DEF Sending, Sent
  <2> QED BY <2>1, FS_Subset
<1>c. Cardinality(S') \in Nat /\ Cardinality(T') \in Nat
  BY <1>b, FS_CardinalityType
<1>d. emails[r] \in Nat /\ emails'[r] \in Nat /\ deaths \in Nat /\ deaths' \in Nat
  BY DEF TypeOK
(* Nobody starts to send, nobody forgets having sent.                      *)
<1>e. ASSUME S' \subseteq S, T \subseteq T', emails'[r] = emails[r], deaths' = deaths, stamp'[r] = stamp[r]
      PROVE  Explained(r)'
  <2>1. Cardinality(S') <= Cardinality(S) /\ Cardinality(T) <= Cardinality(T')
    BY <1>a, <1>b, <1>e, FS_Subset
  <2> QED BY <2>1, <1>a, <1>c, <1>d, <1>e DEF Explained
<1>1. ASSUME NEW q \in Reports, FinishReport(q) PROVE Explained(r)'
  BY <1>1, <1>e DEF FinishReport, Sending, Sent, At
<1>2. CASE TogglePause
  BY <1>2, <1>e DEF TogglePause, Sending, Sent, At
<1>3. CASE Migrate
  BY <1>3, <1>e DEF Migrate, Sending, Sent, At
<1>4. ASSUME NEW i \in Runs, ReadFlag(i) PROVE Explained(r)'
  <2>1. PICK flag \in {setting, "unread"} : local' = [local EXCEPT ![i] = Local("listing", flag, {}, "None")]
    BY <1>4 DEF ReadFlag
  <2>2. Local("listing", flag, {}, "None").at = "listing"
    BY LocalFields DEF Steps, Flags, TypeOK
  <2>3. S' \subseteq S /\ T \subseteq T'
    BY <1>4, <2>1, <2>2 DEF ReadFlag, Sending, Sent, At, TypeOK
  <2> QED BY <1>4, <2>3, <1>e DEF ReadFlag
<1>5. ASSUME NEW i \in Runs, ListPending(i) PROVE Explained(r)'
  <2>1. Listed(local[i]).pending = Pending
    BY <1>5, ListedFields DEF ListPending, TypeOK, At
  <2>2. T \subseteq T'
    BY <1>5 DEF ListPending, Sent, At, TypeOK
  <2>3. CASE stamp[r] = "pending"
    <3>1. Cardinality(T) <= Cardinality(T')
      BY <1>a, <1>b, <2>2, FS_Subset
    <3> QED BY <1>5, <2>3, <3>1, <1>a, <1>c, <1>d DEF Explained, ListPending
  <2>4. CASE stamp[r] # "pending"
    <3>1. r \notin Pending
      BY <2>4 DEF Pending
    <3>2. S' \subseteq S
      BY <1>5, <2>1, <3>1 DEF ListPending, Sending, At, TypeOK
    <3> QED BY <1>5, <2>2, <3>2, <1>e DEF ListPending
  <2> QED BY <2>3, <2>4
<1>6. ASSUME NEW i \in Runs, Publish(i) PROVE Explained(r)'
  <2>1. local[i] \in Locals /\ local[i] # NoRun /\ local[i].at = "publishing"
    BY <1>6 DEF Publish, At, TypeOK
  <2>2. PICK accepted, answered \in BOOLEAN :
          /\ emails' = [q \in Reports |-> emails[q] + IF accepted /\ q \in local[i].pending THEN 1 ELSE 0]
          /\ local' = [local EXCEPT ![i] = Local("marking", local[i].flag, local[i].pending,
                                                IF answered THEN "id" ELSE "None")]
    BY <1>6 DEF Publish
  <2> DEFINE id  == IF answered THEN "id" ELSE "None"
             new == Local("marking", local[i].flag, local[i].pending, id)
  <2>3. new \in Locals /\ new.at = "marking" /\ new.pending = local[i].pending
    <3>1. id \in {"None", "id"}
      OBVIOUS
    <3> HIDE DEF id
    <3> QED BY <2>1, <3>1, LocalFields, LocalsType DEF Steps
  <2>4. local' = [local EXCEPT ![i] = new]
    BY <2>2
  <2> HIDE DEF new
  <2>5. S' \subseteq S /\ i \notin S'
    BY <2>1, <2>3, <2>4 DEF Sending, At, TypeOK
  <2>6. T \subseteq T' /\ i \notin T
    BY <2>1, <2>3, <2>4 DEF Sent, At, TypeOK
  <2>7. CASE r \notin local[i].pending
    <3>1. emails'[r] = emails[r]
      BY <2>2, <2>7, <1>d
    <3> QED BY <1>6, <2>5, <2>6, <3>1, <1>e DEF Publish
  <2>8. CASE r \in local[i].pending
    <3>1. i \in S
      BY <2>1, <2>8 DEF Sending, At
    <3>2. new # NoRun
      BY <2>3, NoRunAssumption
    <3>3. i \in T'
      BY <2>3, <2>4, <2>8, <3>2 DEF Sent, At, TypeOK
    <3>4. Cardinality(S') + 1 <= Cardinality(S)
      BY <1>a, <1>b, <2>5, <3>1, CardinalityStep
    <3>5. Cardinality(T) + 1 <= Cardinality(T')
      BY <1>a, <1>b, <2>6, <3>3, CardinalityStep
    <3>6. emails'[r] <= emails[r] + 1
      BY <2>2, <1>d
    <3>7. stamp'[r] = stamp[r] /\ deaths' = deaths
      BY <1>6 DEF Publish
    <3> QED BY <3>4, <3>5, <3>6, <3>7, <1>a, <1>c, <1>d DEF Explained
  <2> QED BY <2>7, <2>8
<1>7. ASSUME NEW i \in Runs, MarkNotified(i) PROVE Explained(r)'
  <2>1. S' \subseteq S
    BY <1>7 DEF MarkNotified, Sending, At, TypeOK
  <2>2. emails'[r] = emails[r] /\ deaths' = deaths
    BY <1>7 DEF MarkNotified
  <2>3. CASE r \in local[i].pending
    <3>1. stamp'[r] # "pending"
      BY <1>7, <2>3 DEF MarkNotified, Stamped, Outcome, TypeOK
    <3>2. emails[r] + Cardinality(S) <= Cardinality(Runs) + deaths
      BY Disjoint, <1>a, <1>d DEF Explained
    <3>3. Cardinality(S') <= Cardinality(S)
      BY <1>a, <1>b, <2>1, FS_Subset
    <3> QED BY <2>2, <3>1, <3>2, <3>3, <1>a, <1>c, <1>d DEF Explained
  <2>4. CASE r \notin local[i].pending
    <3>1. T \subseteq T'
      BY <1>7, <2>4 DEF MarkNotified, Sent, At, TypeOK
    <3>2. stamp'[r] = stamp[r]
      BY <1>7, <2>4 DEF MarkNotified
    <3> QED BY <2>1, <2>2, <3>1, <3>2, <1>e
  <2> QED BY <2>3, <2>4
<1>8. ASSUME NEW i \in Runs, Die(i) PROVE Explained(r)'
  <2>1. S' \subseteq S /\ T \subseteq T' \cup {i}
    BY <1>8 DEF Die, Sending, Sent, At, TypeOK
  <2>2. Cardinality(S') <= Cardinality(S) /\ Cardinality(T) <= Cardinality(T') + 1
    BY <1>a, <1>b, <2>1, CardinalityStep
  <2>3. emails'[r] = emails[r] /\ stamp'[r] = stamp[r] /\ deaths' = deaths + 1
    BY <1>8 DEF Die
  <2> QED BY <2>2, <2>3, <1>a, <1>c, <1>d DEF Explained
<1>9. CASE UNCHANGED vars
  BY <1>9, <1>e DEF vars, Sending, Sent, At
<1> QED BY <1>1, <1>2, <1>3, <1>4, <1>5, <1>6, <1>7, <1>8, <1>9 DEF Next, Run

(* A report is named by at most one email for each run that can overlap    *)
(* and one for each run that died: however many runs follow, it is not     *)
(* emailed again every quarter of an hour.                                 *)
THEOREM RepeatsBounded == Spec => []RepeatsAreExplained
<1> DEFINE J == TypeOK /\ \A r \in Reports : Explained(r)
<1>1. Init => J
  <2> SUFFICES ASSUME Init, NEW r \in Reports PROVE Explained(r)
    BY InitTyped
  <2>1. Cardinality(Sent(r)) \in Nat
    BY Finite
  <2> QED BY <2>1 DEF Init, Explained
<1>2. J /\ [Next]_vars => J'
  BY StepTyped, StepExplained
<1>3. J => RepeatsAreExplained
  <2> SUFFICES ASSUME J, NEW r \in Reports PROVE emails[r] <= Cardinality(Runs) + deaths
    BY DEF RepeatsAreExplained
  <2>1. emails[r] \in Nat /\ deaths \in Nat
    BY DEF TypeOK
  <2>2. /\ Cardinality(Sending(r)) \in Nat /\ Cardinality(Sent(r)) \in Nat /\ Cardinality(Runs) \in Nat
        /\ Cardinality(Sending(r)) + Cardinality(Sent(r)) <= Cardinality(Runs)
    BY Finite, Disjoint
  <2> QED BY <2>1, <2>2 DEF Explained
<1> HIDE DEF J
<1> QED BY <1>1, <1>2, <1>3, PTL DEF Spec
=============================================================================
