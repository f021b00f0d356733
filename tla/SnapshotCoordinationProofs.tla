---------------------- MODULE SnapshotCoordinationProofs ----------------------
(***************************************************************************)
(* Proofs about SnapshotCoordination, for any number of snapshots, users   *)
(* and failures: CoordinationOK is inductive, and the safety properties of *)
(* the coordination follow from it.                                        *)
(***************************************************************************)
EXTENDS SnapshotCoordination, WellFoundedInduction, FiniteSetTheorems, TLAPS

(* The snapshots have a newest one, which migrate takes as the head.       *)
LEMMA NewestExists ==
  ASSUME NEW S \in SUBSET Ids, S # {}
  PROVE  \E i \in S : \A j \in S : j <= i
  <1> DEFINE T == {MaxSnapshots - i : i \in S}
  <1>1. T \subseteq Nat /\ T # {}
    <2>1. MaxSnapshots \in Nat
      BY CoordinationAssumption DEF SnapshotAssumption
    <2>2. \A i \in S : MaxSnapshots - i \in Nat
      BY <2>1 DEF Ids
    <2>3. T \subseteq Nat
      BY <2>2
    <2>4. PICK i \in S : TRUE
      OBVIOUS
    <2>5. MaxSnapshots - i \in T
      OBVIOUS
    <2> QED BY <2>3, <2>5
  <1>2. PICK x \in T : \A y \in T : ~(<<y, x>> \in OpToRel(<, Nat))
    BY <1>1, NatLessThanWellFounded, WFMin
  <1>3. \A y \in T : ~(y < x)
    BY <1>1, <1>2 DEF OpToRel
  <1>4. PICK i \in S : x = MaxSnapshots - i
    BY <1>2
  <1>5. ASSUME NEW j \in S PROVE j <= i
    <2>1. ~(MaxSnapshots - j < MaxSnapshots - i)
      BY <1>3, <1>4
    <2> QED
      BY <2>1, CoordinationAssumption DEF Ids, SnapshotAssumption
  <1> QED
    BY <1>4, <1>5

-----------------------------------------------------------------------------
(* lineage.rs: what each mutation returns.                                 *)

(* migrate: a lineage of detached nodes is valid.                          *)
LEMMA MigrateIsValid ==
  ASSUME NEW found \in SUBSET Ids, NEW deleting, NEW restorable \in SUBSET found
  PROVE  /\ Migrate(found, deleting, restorable) \in Lineages
         /\ ValidLineage(Migrate(found, deleting, restorable))
         /\ Migrate(found, deleting, restorable).saved
         /\ \A i \in Ids : Migrate(found, deleting, restorable).node[i]
                              = IF i \in found THEN "available" ELSE "absent"
  <1> DEFINE m == Migrate(found, deleting, restorable)
             h == IF restorable = {} THEN NoId
                  ELSE CHOOSE i \in restorable : \A j \in restorable : j <= i
  <1>1. h = NoId \/ h \in restorable
    BY NewestExists
  <1>2. /\ m.saved = TRUE /\ m.head = h
        /\ m.node = [i \in Ids |-> IF i \in found THEN "available" ELSE "absent"]
        /\ m.parent = [i \in Ids |-> NoId]
    BY DEF Migrate
  <1> HIDE DEF h
  <1>3. m \in Lineages
    <2>1. h \in Ids \cup {NoId}
      BY <1>1
    <2> QED
      BY <2>1 DEF Migrate, Lineages, NodeStates, h
  <1>4. NoId \notin Ids
    BY CoordinationAssumption DEF Ids, NoId, SnapshotAssumption
  <1>5. Acyclic(m)
    BY <1>2, <1>4 DEF Acyclic
  <1>6. ValidLineage(m)
    BY <1>1, <1>2, <1>4, <1>5 DEF ValidLineage, Known
  <1> QED
    BY <1>2, <1>3, <1>6

(* A mutation that is not refused gives the new lineage, and a valid one.  *)
LEMMA MutateEffect ==
  ASSUME NEW l, NEW new \in Lineages, Mutate(l, new) # Refused
  PROVE  Mutate(l, new) = new /\ ValidLineage(new) /\ l.saved
  BY DEF Mutate

LEMMA RecordRecoveryPointEffect ==
  ASSUME NEW l \in Lineages, ValidLineage(l), NEW i \in Ids,
         RecordRecoveryPoint(l, i) # Refused, ~Known(l, i)
  PROVE  /\ RecordRecoveryPoint(l, i) \in Lineages
         /\ ValidLineage(RecordRecoveryPoint(l, i))
         /\ RecordRecoveryPoint(l, i).saved
         /\ RecordRecoveryPoint(l, i).node = [l.node EXCEPT ![i] = "available"]
  <1> DEFINE n == [l EXCEPT !.node[i] = "available", !.parent[i] = l.head, !.head = i]
  <1>1. n \in Lineages /\ n.saved = l.saved /\ n.node = [l.node EXCEPT ![i] = "available"]
    BY DEF Lineages, NodeStates
  <1>2. RecordRecoveryPoint(l, i) = Mutate(l, n)
    BY DEF RecordRecoveryPoint
  <1> HIDE DEF n
  <1> QED
    BY <1>1, <1>2, MutateEffect

LEMMA MarkSnapshotRemovedEffect ==
  ASSUME NEW l \in Lineages, NEW i \in Ids, MarkSnapshotRemoved(l, i) # Refused
  PROVE  /\ MarkSnapshotRemoved(l, i) \in Lineages
         /\ ValidLineage(MarkSnapshotRemoved(l, i))
         /\ MarkSnapshotRemoved(l, i).saved
         /\ MarkSnapshotRemoved(l, i).node = [l.node EXCEPT ![i] = "removed"]
  <1> DEFINE n == [l EXCEPT !.node[i] = "removed"]
  <1>1. n \in Lineages /\ n.saved = l.saved /\ n.node = [l.node EXCEPT ![i] = "removed"]
    BY DEF Lineages, NodeStates
  <1>2. MarkSnapshotRemoved(l, i) = Mutate(l, n)
    BY DEF MarkSnapshotRemoved
  <1> HIDE DEF n
  <1> QED
    BY <1>1, <1>2, MutateEffect

LEMMA RecordActivationEffect ==
  ASSUME NEW l \in Lineages, NEW t \in Ids, NEW f \in Ids, NEW c \in BOOLEAN,
         RecordActivation(l, t, f, c) # Refused
  PROVE  /\ RecordActivation(l, t, f, c) \in Lineages
         /\ ValidLineage(RecordActivation(l, t, f, c))
         /\ RecordActivation(l, t, f, c).saved
         /\ RecordActivation(l, t, f, c).node = l.node
  <1> DEFINE n == [l EXCEPT !.head = IF c THEN t ELSE f]
  <1>1. n \in Lineages /\ n.saved = l.saved /\ n.node = l.node
    BY DEF Lineages
  <1>2. RecordActivation(l, t, f, c) = Mutate(l, n)
    BY DEF RecordActivation
  <1> HIDE DEF n
  <1> QED
    BY <1>1, <1>2, MutateEffect

-----------------------------------------------------------------------------
(* The store's part of the invariant.                                      *)
StoreTypes ==
    /\ rec \in [Ids -> Records \cup {NoRecord}]
    /\ sub \in [Ids -> {"none", "empty", "root"}]
    /\ lin \in Lineages /\ ValidLineage(lin)
    /\ job \in [Actors -> Jobs]
    /\ opLock \in Actors \cup {NoActor} /\ startLock \in Actors \cup {NoActor}
    /\ browsed \subseteq Ids /\ fresh \subseteq Ids /\ halfUndone \subseteq Ids
    /\ \A i \in Ids : Exists(i) => ValidRecord(rec[i])
JobOK(a) == HoldsLock(a) /\ Making(a) /\ Deleting(a)
StoreOK ==
    /\ StoreTypes /\ LineageOK /\ IssuesExplained /\ BrowsedExists
    /\ \A a \in Actors : JobOK(a)

LEMMA RecordAt ==
  ASSUME StoreTypes, NEW i \in Ids, Exists(i)
  PROVE  rec[i] \in Records /\ rec[i] # NoRecord
  BY DEF StoreTypes, Exists

(* A job holds operation.lock: while it is under way no other one is.      *)
LEMMA OneJobAtATime ==
  ASSUME StoreOK, NEW a \in Actors
  PROVE  /\ Active(a) => /\ opLock = a /\ job[a].id \in Ids /\ Exists(job[a].id)
                         /\ rec[job[a].id] \in Records
                         /\ \A b \in Actors \ {a} : ~Active(b)
         /\ opLock = NoActor => \A b \in Actors : ~Active(b)
  BY CoordinationAssumption, RecordAt
  DEF StoreOK, JobOK, HoldsLock, StoreAssumption

LEMMA GotoEffect ==
  ASSUME StoreTypes, NEW a \in Actors, NEW step \in JobSteps, Goto(a, step)
  PROVE  /\ job' \in [Actors -> Jobs]
         /\ job'[a].step = step /\ job'[a].id = job[a].id /\ job'[a].mode = job[a].mode
         /\ \A b \in Actors \ {a} : job'[b] = job[b]
  BY DEF StoreTypes, Goto, Jobs

LEMMA FinishEffect ==
  ASSUME StoreTypes, NEW a \in Actors, NEW result \in {"idle", "done", "failed"},
         Finish(a, result)
  PROVE  /\ job' \in [Actors -> Jobs]
         /\ job'[a].step \in {result, "idle"}
         /\ job'[a].step # "idle" => job'[a].id = job[a].id
         /\ \A b \in Actors \ {a} : job'[b] = job[b]
         /\ opLock' \in Actors \cup {NoActor} /\ startLock' \in Actors \cup {NoActor}
         /\ startLock # a => startLock' = startLock
  <1>1. Idle \in Jobs /\ Idle.step = "idle"
    BY DEF Idle, Jobs, JobSteps, Modes
  <1>2. [job[a] EXCEPT !.step = result] \in Jobs
    BY DEF StoreTypes, Jobs, JobSteps
  <1> QED
    BY <1>1, <1>2 DEF StoreTypes, Finish, Jobs

(* A job that is not under way is of no concern to the store.              *)
LEMMA RestingJob ==
  ASSUME NEW a \in Actors, ~Active(a), At(a, "done") => job[a].id \in Ids
  PROVE  JobOK(a)
  BY DEF JobOK, HoldsLock, Making, Deleting, Active, CreateSteps, MarkedSteps, At

(* The jobs of the other actors do not notice a step of this one.          *)
LEMMA OtherJobs ==
  ASSUME StoreOK, NEW a \in Actors,
         \A b \in Actors \ {a} : ~Active(b) /\ job'[b] = job[b], JobOK(a)'
  PROVE  \A b \in Actors : JobOK(b)'
  BY DEF StoreOK, JobOK, HoldsLock, Making, Deleting, Active, CreateSteps, MarkedSteps, At

(* ensure_initialized: a lineage that is not refused knows what is there.  *)
LEMMA InitializedEffect ==
  ASSUME StoreOK, Initialized # Refused
  PROVE  /\ Initialized \in Lineages /\ ValidLineage(Initialized) /\ Initialized.saved
         /\ lin.saved => Initialized = lin
         /\ \A i \in Ids : Initialized.node[i] # lin.node[i] =>
                /\ lin.node[i] = "absent" /\ Initialized.node[i] = "available"
                /\ Exists(i) /\ sub[i] = "root"
  <1> DEFINE found == {i \in Found : rec[i].uuid}
             deleting == {i \in Found : rec[i].uuid /\ rec[i].state = "Deleting"}
  <1>1. CASE lin.saved
    BY <1>1 DEF Initialized, EnsureInitialized, StoreOK, StoreTypes
  <1>2. CASE ~lin.saved
    <2>1. deleting = {} /\ Initialized = Migrate(found, deleting, Restorable)
      BY <1>2 DEF Initialized, EnsureInitialized
    <2>2. Restorable \subseteq found /\ found \subseteq Ids
      BY DEF Restorable, Found, CanRestore, StoreOK, StoreTypes, ValidRecord
    <2>3. \A i \in found : Exists(i) /\ sub[i] = "root"
      BY <2>1 DEF Found, Issue
    <2>4. \A i \in Ids : lin.node[i] = "absent"
      BY <1>2 DEF StoreOK, LineageOK, Known
    <2> HIDE DEF found, deleting
    <2> QED
      BY <1>2, <2>1, <2>2, <2>3, <2>4, MigrateIsValid
  <1> QED
    BY <1>1, <1>2

-----------------------------------------------------------------------------
(* Creation, step by step.  A step touches the snapshot that it makes and  *)
(* no other, so what is safe stays safe.                                   *)
LEMMA CreateStartKeeps ==
  ASSUME StoreOK, NEW a \in Actors, NEW k \in Kinds, NEW p \in BOOLEAN,
         CreateStart(a, k, p)
  PROVE  StoreOK' /\ \A j \in Ids : Safe(j) => Safe(j)'
  <1>1. PICK i \in Ids : /\ ~Exists(i) /\ ~Known(lin, i)
                         /\ rec' = [rec EXCEPT ![i] = NewRecord(k, p)]
                         /\ job' = [job EXCEPT ![a] = [step |-> "mkdir", id |-> i, mode |-> "user"]]
                         /\ fresh' = fresh \cup {i}
    BY DEF CreateStart, Unused
  <1>2. /\ \A b \in Actors : ~Active(b)
        /\ Initialized # Refused /\ lin' = Initialized
        /\ opLock' = a /\ UNCHANGED <<sub, startLock, browsed, halfUndone>>
    BY OneJobAtATime DEF CreateStart
  <1>3. /\ NewRecord(k, p) \in Records /\ NewRecord(k, p) # NoRecord
        /\ ValidRecord(NewRecord(k, p)) /\ ~NewRecord(k, p).uuid
        /\ NewRecord(k, p).state = "Creating"
    <2>1. NewRecord(k, p) \in Records
      BY DEF NewRecord, Records, States
    <2>2. k = "Factory" => p
      BY DEF CreateStart
    <2> QED
      BY <2>1, <2>2, CoordinationAssumption DEF NewRecord, ValidRecord, NoRecord, StoreAssumption
  <1>4. /\ [step |-> "mkdir", id |-> i, mode |-> "user"] \in Jobs
        /\ job'[a] = [step |-> "mkdir", id |-> i, mode |-> "user"]
        /\ \A b \in Actors \ {a} : job'[b] = job[b]
    BY <1>1 DEF StoreOK, StoreTypes, Jobs, JobSteps, Modes
  <1>5. /\ rec'[i] = NewRecord(k, p) /\ \A j \in Ids \ {i} : rec'[j] = rec[j]
    BY <1>1 DEF StoreOK, StoreTypes
  <1>6. /\ lin'.node[i] = "absent" /\ lin'.saved
        /\ \A j \in Ids : lin'.node[j] # lin.node[j] =>
              lin.node[j] = "absent" /\ lin'.node[j] = "available" /\ Exists(j) /\ sub[j] = "root"
    BY <1>1, <1>2, InitializedEffect DEF Known
  <1>7. StoreTypes'
    BY <1>1, <1>2, <1>3, <1>4, <1>5, InitializedEffect DEF StoreOK, StoreTypes, Exists
  <1>8. LineageOK'
    BY <1>2, <1>3, <1>5, <1>6 DEF StoreOK, LineageOK, LineageAgrees, Exists, Known
  <1>9. IssuesExplained' /\ BrowsedExists'
    BY <1>2, <1>3, <1>5, <1>6, CoordinationAssumption
    DEF StoreOK, StoreTypes, IssuesExplained, BrowsedExists, Issue, Exists, Known
  <1>10. JobOK(a)'
    BY <1>2, <1>3, <1>4, <1>5, <1>6
    DEF JobOK, HoldsLock, Making, Deleting, Exists, At, CreateSteps, MarkedSteps
  <1>11. \A j \in Ids : Safe(j) => Safe(j)'
    BY <1>1, <1>2, <1>4, <1>5 DEF Safe, Intact, CanRestore, Exists
  <1> QED
    BY <1>2, <1>4, <1>7, <1>8, <1>9, <1>10, <1>11, OtherJobs DEF StoreOK

LEMMA CreateDirectoryKeeps ==
  ASSUME StoreOK, NEW a \in Actors, CreateDirectory(a)
  PROVE  StoreOK' /\ \A j \in Ids : Safe(j) => Safe(j)'
  <1> DEFINE i == job[a].id
  <1>1. /\ job' \in [Actors -> Jobs]
        /\ job'[a].step = "snapshot" /\ job'[a].id = i
        /\ \A b \in Actors \ {a} : job'[b] = job[b]
    BY GotoEffect DEF StoreOK, CreateDirectory, JobSteps
  <1>2. /\ job[a].step = "mkdir" /\ opLock = a /\ i \in Ids /\ Exists(i)
        /\ \A b \in Actors \ {a} : ~Active(b)
    BY OneJobAtATime DEF CreateDirectory, At, Active, CreateSteps
  <1>3. /\ sub'[i] = "empty" /\ \A j \in Ids \ {i} : sub'[j] = sub[j]
        /\ sub' \in [Ids -> {"none", "empty", "root"}]
        /\ UNCHANGED <<rec, lin, opLock, startLock, browsed, fresh, halfUndone>>
    BY <1>2 DEF StoreOK, StoreTypes, CreateDirectory
  <1>4. /\ lin.saved /\ lin.node[i] = "absent"
        /\ rec[i].state = "Creating" /\ ~rec[i].uuid
    BY <1>2 DEF StoreOK, JobOK, Making, CreateSteps
  <1>5. StoreTypes'
    BY <1>1, <1>3 DEF StoreOK, StoreTypes, Exists
  <1>6. LineageOK' /\ IssuesExplained' /\ BrowsedExists'
    BY <1>2, <1>3, <1>4 DEF StoreOK, StoreTypes, LineageOK, LineageAgrees, IssuesExplained, BrowsedExists,
                      Issue, Exists, Known
  <1>7. JobOK(a)'
    BY <1>1, <1>2, <1>3, <1>4
    DEF JobOK, HoldsLock, Making, Deleting, Exists, At, CreateSteps, MarkedSteps
  <1>8. \A j \in Ids : Safe(j) => Safe(j)'
    BY <1>1, <1>2, <1>3, <1>4 DEF Safe, Intact, CanRestore, Exists, CreateSteps
  <1> QED
    BY <1>1, <1>2, <1>5, <1>6, <1>7, <1>8, OtherJobs DEF StoreOK

LEMMA CreateSnapshotKeeps ==
  ASSUME StoreOK, NEW a \in Actors, CreateSnapshot(a)
  PROVE  StoreOK' /\ \A j \in Ids : Safe(j) => Safe(j)'
  <1> DEFINE i == job[a].id
  <1>1. /\ job' \in [Actors -> Jobs]
        /\ job'[a].step = "commit" /\ job'[a].id = i
        /\ \A b \in Actors \ {a} : job'[b] = job[b]
    BY GotoEffect DEF StoreOK, CreateSnapshot, JobSteps
  <1>2. /\ job[a].step = "snapshot" /\ opLock = a /\ i \in Ids /\ Exists(i)
        /\ \A b \in Actors \ {a} : ~Active(b)
    BY OneJobAtATime DEF CreateSnapshot, At, Active, CreateSteps
  <1>3. /\ sub'[i] = "root" /\ \A j \in Ids \ {i} : sub'[j] = sub[j]
        /\ sub' \in [Ids -> {"none", "empty", "root"}]
        /\ UNCHANGED <<rec, lin, opLock, startLock, browsed, fresh, halfUndone>>
    BY <1>2 DEF StoreOK, StoreTypes, CreateSnapshot
  <1>4. /\ lin.saved /\ lin.node[i] = "absent"
        /\ rec[i].state = "Creating" /\ ~rec[i].uuid
    BY <1>2 DEF StoreOK, JobOK, Making, CreateSteps
  <1>5. StoreTypes'
    BY <1>1, <1>3 DEF StoreOK, StoreTypes, Exists
  <1>6. LineageOK' /\ IssuesExplained' /\ BrowsedExists'
    BY <1>3, <1>4 DEF StoreOK, StoreTypes, LineageOK, LineageAgrees, IssuesExplained, BrowsedExists,
                      Issue, Exists, Known
  <1>7. JobOK(a)'
    BY <1>1, <1>2, <1>3, <1>4
    DEF JobOK, HoldsLock, Making, Deleting, Exists, At, CreateSteps, MarkedSteps
  <1>8. \A j \in Ids : Safe(j) => Safe(j)'
    BY <1>1, <1>2, <1>3, <1>4 DEF Safe, Intact, CanRestore, Exists, CreateSteps
  <1> QED
    BY <1>1, <1>2, <1>5, <1>6, <1>7, <1>8, OtherJobs DEF StoreOK

LEMMA CreateCommitKeeps ==
  ASSUME StoreOK, NEW a \in Actors, CreateCommit(a)
  PROVE  StoreOK' /\ \A j \in Ids : Safe(j) => Safe(j)'
  <1> DEFINE i == job[a].id
             r == [rec[i] EXCEPT !.state = "Ready", !.uuid = TRUE]
  <1>1. /\ job' \in [Actors -> Jobs]
        /\ job'[a].step = "lineage" /\ job'[a].id = i
        /\ \A b \in Actors \ {a} : job'[b] = job[b]
    BY GotoEffect DEF StoreOK, CreateCommit, JobSteps
  <1>2. /\ job[a].step = "commit" /\ opLock = a /\ i \in Ids /\ Exists(i) /\ rec[i] \in Records
        /\ \A b \in Actors \ {a} : ~Active(b)
    BY OneJobAtATime DEF CreateCommit, At, Active, CreateSteps
  <1>3. r \in Records /\ r # NoRecord /\ r.state = "Ready" /\ r.uuid
    BY <1>2, CoordinationAssumption DEF Records, States, NoRecord, StoreAssumption
  <1>4. /\ rec' = [rec EXCEPT ![i] = r] /\ ValidRecord(r)
        /\ UNCHANGED <<sub, lin, opLock, startLock, browsed, fresh, halfUndone>>
    BY DEF CreateCommit, WriteRecord
  <1> HIDE DEF r
  <1>5. rec'[i] = r /\ \A j \in Ids \ {i} : rec'[j] = rec[j]
    BY <1>2, <1>4 DEF StoreOK, StoreTypes
  <1>6. lin.saved /\ lin.node[i] = "absent" /\ sub[i] = "root"
    BY <1>2 DEF StoreOK, JobOK, Making, CreateSteps
  <1>7. StoreTypes'
    BY <1>1, <1>2, <1>3, <1>4, <1>5 DEF StoreOK, StoreTypes, Exists
  <1>8. LineageOK' /\ IssuesExplained' /\ BrowsedExists'
    BY <1>3, <1>4, <1>5, <1>6
    DEF StoreOK, LineageOK, LineageAgrees, IssuesExplained, BrowsedExists, Issue, Exists, Known
  <1>9. JobOK(a)'
    BY <1>1, <1>2, <1>3, <1>4, <1>5, <1>6
    DEF JobOK, HoldsLock, Making, Deleting, Exists, At, CreateSteps, MarkedSteps
  <1>10. \A j \in Ids : Safe(j) => Safe(j)'
    BY <1>1, <1>2, <1>4, <1>5 DEF Safe, Intact, CanRestore, Exists, CreateSteps
  <1> QED
    BY <1>1, <1>2, <1>7, <1>8, <1>9, <1>10, OtherJobs DEF StoreOK

LEMMA CreateLineageKeeps ==
  ASSUME StoreOK, NEW a \in Actors, CreateLineage(a)
  PROVE  StoreOK' /\ \A j \in Ids : Safe(j) => Safe(j)'
  <1> DEFINE i == job[a].id
  <1>1. /\ job' \in [Actors -> Jobs]
        /\ job'[a].step \in {"done", "idle"}
        /\ job'[a].step # "idle" => job'[a].id = i
        /\ \A b \in Actors \ {a} : job'[b] = job[b]
        /\ opLock' \in Actors \cup {NoActor} /\ startLock' \in Actors \cup {NoActor}
    BY FinishEffect DEF StoreOK, CreateLineage
  <1>2. /\ job[a].step = "lineage" /\ opLock = a /\ i \in Ids /\ Exists(i)
        /\ \A b \in Actors \ {a} : ~Active(b)
    BY OneJobAtATime DEF CreateLineage, At, Active, CreateSteps
  <1>3. /\ lin.saved /\ lin.node[i] = "absent" /\ sub[i] = "root"
    BY <1>2 DEF StoreOK, JobOK, Making, CreateSteps
  <1>4. /\ lin' \in Lineages /\ ValidLineage(lin') /\ lin'.saved
        /\ lin'.node = [lin.node EXCEPT ![i] = "available"]
    BY <1>2, <1>3, RecordRecoveryPointEffect DEF StoreOK, StoreTypes, CreateLineage, Known
  <1>5. lin'.node[i] = "available" /\ \A j \in Ids \ {i} : lin'.node[j] = lin.node[j]
    BY <1>2, <1>4 DEF StoreOK, StoreTypes, Lineages
  <1>6. UNCHANGED <<rec, sub, browsed, fresh, halfUndone>>
    BY DEF CreateLineage
  <1>7. StoreTypes'
    BY <1>1, <1>4, <1>6 DEF StoreOK, StoreTypes, Exists
  <1>8. LineageOK' /\ IssuesExplained' /\ BrowsedExists'
    BY <1>2, <1>3, <1>4, <1>5, <1>6
    DEF StoreOK, LineageOK, LineageAgrees, IssuesExplained, BrowsedExists, Issue, Exists, Known
  <1>9. ~Active(a)' /\ JobOK(a)'
    BY <1>1, <1>2 DEF Active, JobOK, HoldsLock, Making, Deleting, At, CreateSteps, MarkedSteps
  <1>10. \A j \in Ids : Safe(j) => Safe(j)'
    BY <1>1, <1>6 DEF Safe, Intact, CanRestore, Exists, CreateSteps
  <1> QED
    BY <1>1, <1>2, <1>7, <1>8, <1>9, <1>10, OtherJobs DEF StoreOK

LEMMA CreateFailsKeeps ==
  ASSUME StoreOK, NEW a \in Actors, CreateFails(a)
  PROVE  StoreOK' /\ \A j \in Ids : Safe(j) => Safe(j)'
  <1> DEFINE i == job[a].id
  <1>1. /\ job' \in [Actors -> Jobs]
        /\ job'[a].step = "revert" /\ job'[a].id = i
        /\ \A b \in Actors \ {a} : job'[b] = job[b]
    BY GotoEffect DEF StoreOK, CreateFails, CreateFailsEarly, CreateFailsLate, JobSteps
  <1>2. /\ job[a].step \in {"mkdir", "snapshot", "commit", "lineage"}
        /\ opLock = a /\ i \in Ids /\ Exists(i)
        /\ \A b \in Actors \ {a} : ~Active(b)
    BY OneJobAtATime DEF CreateFails, CreateFailsEarly, CreateFailsLate, At, Active, CreateSteps
  <1>3. /\ halfUndone \subseteq halfUndone' /\ halfUndone' \subseteq Ids
        /\ job[a].step = "lineage" => i \in halfUndone'
        /\ UNCHANGED <<rec, sub, opLock, startLock, browsed, fresh>>
    BY <1>2 DEF CreateFails, CreateFailsEarly, CreateFailsLate, At, StoreOK, StoreTypes
  <1>4. /\ lin.saved /\ lin.node[i] = "absent" /\ rec[i].state # "Deleting"
        /\ job[a].step # "lineage" => ~rec[i].uuid
        /\ job[a].step = "lineage" => sub[i] = "root"
    BY <1>2 DEF StoreOK, JobOK, Making, CreateSteps
  <1>5. /\ lin' \in Lineages /\ ValidLineage(lin') /\ lin'.saved
        /\ lin'.node[i] # "absent" => lin'.node[i] = "available" /\ job[a].step = "lineage"
        /\ \A j \in Ids \ {i} : lin'.node[j] = lin.node[j]
    <2>1. CASE UNCHANGED lin
      BY <1>4, <2>1 DEF StoreOK, StoreTypes
    <2>2. CASE /\ job[a].step = "lineage" /\ RecordRecoveryPoint(lin, i) # Refused
               /\ lin' = RecordRecoveryPoint(lin, i)
      <3>1. /\ lin' \in Lineages /\ ValidLineage(lin') /\ lin'.saved
            /\ lin'.node = [lin.node EXCEPT ![i] = "available"]
        BY <1>2, <1>4, <2>2, RecordRecoveryPointEffect DEF StoreOK, StoreTypes, Known
      <3> QED
        BY <1>2, <2>2, <3>1 DEF StoreOK, StoreTypes, Lineages
    <2> QED
      BY <2>1, <2>2 DEF CreateFails, CreateFailsEarly, CreateFailsLate, At
  <1>6. StoreTypes'
    BY <1>1, <1>3, <1>5 DEF StoreOK, StoreTypes, Exists
  <1>7. LineageOK' /\ IssuesExplained' /\ BrowsedExists'
    <2>1. LineageOK'
      BY <1>2, <1>3, <1>4, <1>5 DEF StoreOK, LineageOK, LineageAgrees, Exists, Known
    <2>2. IssuesExplained'
      BY <1>2, <1>3, <1>4, <1>5 DEF StoreOK, IssuesExplained, Issue, Exists
    <2>3. BrowsedExists'
      BY <1>2, <1>3, <1>4, <1>5 DEF StoreOK, StoreTypes, BrowsedExists, Exists, Known
    <2> QED
      BY <2>1, <2>2, <2>3
  <1>8. JobOK(a)'
    BY <1>1, <1>2, <1>3, <1>4, <1>5
    DEF JobOK, HoldsLock, Making, Deleting, Exists, At, CreateSteps, MarkedSteps
  <1>9. \A j \in Ids : Safe(j) => Safe(j)'
    BY <1>1, <1>2, <1>3 DEF Safe, Intact, CanRestore, Exists, CreateSteps
  <1> QED
    BY <1>1, <1>2, <1>6, <1>7, <1>8, <1>9, OtherJobs DEF StoreOK

LEMMA CreateRevertKeeps ==
  ASSUME StoreOK, NEW a \in Actors, CreateRevert(a)
  PROVE  StoreOK' /\ \A j \in Ids : Safe(j) => Safe(j)'
  <1> DEFINE i == job[a].id
  <1>1. /\ job' \in [Actors -> Jobs]
        /\ job'[a].step = "incomplete" /\ job'[a].id = i
        /\ \A b \in Actors \ {a} : job'[b] = job[b]
    BY GotoEffect DEF StoreOK, CreateRevert, JobSteps
  <1>2. /\ job[a].step = "revert" /\ opLock = a /\ i \in Ids /\ Exists(i)
        /\ \A b \in Actors \ {a} : ~Active(b)
    BY OneJobAtATime DEF CreateRevert, At, Active, CreateSteps
  <1>3. /\ \A j \in Ids \ {i} : sub'[j] = sub[j]
        /\ sub' \in [Ids -> {"none", "empty", "root"}]
        /\ UNCHANGED <<rec, lin, opLock, startLock, browsed, fresh, halfUndone>>
    BY <1>2 DEF StoreOK, StoreTypes, CreateRevert
  <1>4. /\ lin.saved /\ rec[i].state # "Deleting"
        /\ lin.node[i] = "absent" \/ (lin.node[i] = "available" /\ i \in halfUndone)
        /\ i \in halfUndone \/ ~rec[i].uuid
    BY <1>2 DEF StoreOK, JobOK, Making, CreateSteps
  <1>5. StoreTypes'
    BY <1>1, <1>3 DEF StoreOK, StoreTypes, Exists
  <1>6. LineageOK' /\ IssuesExplained' /\ BrowsedExists'
    BY <1>2, <1>3, <1>4 DEF StoreOK, StoreTypes, LineageOK, LineageAgrees, IssuesExplained, BrowsedExists,
                      Issue, Exists, Known
  <1>7. JobOK(a)'
    BY <1>1, <1>2, <1>3, <1>4
    DEF JobOK, HoldsLock, Making, Deleting, Exists, At, CreateSteps, MarkedSteps
  <1>8. \A j \in Ids : Safe(j) => Safe(j)'
    BY <1>1, <1>2, <1>3 DEF Safe, Intact, CanRestore, Exists, CreateSteps
  <1> QED
    BY <1>1, <1>2, <1>5, <1>6, <1>7, <1>8, OtherJobs DEF StoreOK

LEMMA CreateIncompleteKeeps ==
  ASSUME StoreOK, NEW a \in Actors, CreateIncomplete(a)
  PROVE  StoreOK' /\ \A j \in Ids : Safe(j) => Safe(j)'
  <1> DEFINE i == job[a].id
             r == [rec[i] EXCEPT !.state = "Incomplete", !.uuid = FALSE]
  <1>1. /\ job' \in [Actors -> Jobs] /\ job'[a].step \in {"failed", "idle"}
        /\ \A b \in Actors \ {a} : job'[b] = job[b]
        /\ opLock' \in Actors \cup {NoActor} /\ startLock' \in Actors \cup {NoActor}
    BY FinishEffect DEF StoreOK, CreateIncomplete
  <1>2. /\ job[a].step = "incomplete" /\ i \in Ids /\ Exists(i) /\ rec[i] \in Records
        /\ \A b \in Actors \ {a} : ~Active(b)
    BY OneJobAtATime DEF CreateIncomplete, At, Active, CreateSteps
  <1>3. r \in Records /\ r # NoRecord /\ ~r.uuid /\ r.state = "Incomplete"
    BY <1>2, CoordinationAssumption DEF Records, States, NoRecord, StoreAssumption
  <1>4. /\ rec' = rec \/ (rec' = [rec EXCEPT ![i] = r] /\ ValidRecord(r))
        /\ UNCHANGED <<sub, lin, browsed, fresh, halfUndone>>
    BY DEF CreateIncomplete, WriteRecord
  <1> HIDE DEF r
  <1>5. /\ rec' \in [Ids -> Records \cup {NoRecord}]
        /\ rec'[i] = rec[i] \/ (rec'[i] = r /\ ValidRecord(r))
        /\ \A j \in Ids \ {i} : rec'[j] = rec[j]
    BY <1>2, <1>3, <1>4 DEF StoreOK, StoreTypes
  <1>6. /\ i \in halfUndone \/ ~rec[i].uuid
        /\ rec[i].state # "Deleting"
    BY <1>2 DEF StoreOK, JobOK, Making, CreateSteps
  <1>7. StoreTypes'
    BY <1>1, <1>4, <1>5 DEF StoreOK, StoreTypes, Exists
  <1>8. LineageOK' /\ IssuesExplained' /\ BrowsedExists'
    <2>1. LineageOK'
      BY <1>2, <1>3, <1>4, <1>5, <1>6 DEF StoreOK, LineageOK, LineageAgrees, Exists, Known
    <2>2. IssuesExplained'
      BY <1>2, <1>3, <1>4, <1>5, <1>6 DEF StoreOK, IssuesExplained, Issue, Exists
    <2>3. BrowsedExists'
      BY <1>2, <1>3, <1>4, <1>5, <1>6 DEF StoreOK, StoreTypes, BrowsedExists, Exists, Known
    <2> QED
      BY <2>1, <2>2, <2>3
  <1>9. ~Active(a)' /\ JobOK(a)'
    BY <1>1 DEF Active, JobOK, HoldsLock, Making, Deleting, At, CreateSteps, MarkedSteps
  <1>10. \A j \in Ids : Safe(j) => Safe(j)'
    BY <1>1, <1>2, <1>4, <1>5 DEF Safe, Intact, CanRestore, Exists, CreateSteps
  <1> QED
    BY <1>1, <1>2, <1>7, <1>8, <1>9, <1>10, OtherJobs DEF StoreOK

-----------------------------------------------------------------------------
(* Deletion, step by step.  Only the mark takes a snapshot that is safe.   *)
LEMMA DeleteStartKeeps ==
  ASSUME StoreOK, NEW a \in Actors, NEW i \in Ids, NEW mode \in Modes,
         DeleteStart(a, i, mode)
  PROVE  StoreOK' /\ \A j \in Ids : Safe(j) => Safe(j)'
  <1>1. /\ \A b \in Actors : ~Active(b)
        /\ Exists(i) /\ opLock' = a
        /\ UNCHANGED <<rec, sub, lin, startLock, browsed, fresh, halfUndone>>
    BY OneJobAtATime DEF DeleteStart
  <1>2. /\ job' \in [Actors -> Jobs]
        /\ job'[a].step = "dLock" /\ job'[a].id = i
        /\ \A b \in Actors \ {a} : job'[b] = job[b]
    BY DEF DeleteStart, StoreOK, StoreTypes, Jobs, JobSteps
  <1>3. StoreTypes' /\ LineageOK' /\ IssuesExplained' /\ BrowsedExists'
    BY <1>1, <1>2 DEF StoreOK, StoreTypes, LineageOK, LineageAgrees, IssuesExplained,
                      BrowsedExists, Issue, Exists, Known
  <1>4. JobOK(a)'
    BY <1>1, <1>2 DEF JobOK, HoldsLock, Making, Deleting, Exists, At, CreateSteps, MarkedSteps
  <1>5. \A j \in Ids : Safe(j) => Safe(j)'
    BY <1>1, <1>2 DEF Safe, Intact, CanRestore, Exists, CreateSteps
  <1> QED
    BY <1>1, <1>2, <1>3, <1>4, <1>5, OtherJobs DEF StoreOK

LEMMA DeleteLockKeeps ==
  ASSUME StoreOK, NEW a \in Actors, DeleteLock(a)
  PROVE  StoreOK' /\ \A j \in Ids : Safe(j) => Safe(j)'
  <1> DEFINE i == job[a].id
  <1>1. /\ job' \in [Actors -> Jobs]
        /\ job'[a].step = "dCheck" /\ job'[a].id = i
        /\ \A b \in Actors \ {a} : job'[b] = job[b]
    BY GotoEffect DEF StoreOK, DeleteLock, JobSteps
  <1>2. /\ job[a].step = "dLock" /\ opLock = a /\ i \in Ids /\ Exists(i) /\ rec[i] \in Records
        /\ \A b \in Actors \ {a} : ~Active(b)
    BY OneJobAtATime DEF DeleteLock, At, Active, MarkedSteps
  <1>3. startLock' = a /\ UNCHANGED <<rec, sub, lin, opLock, browsed, fresh, halfUndone>>
    BY DEF DeleteLock
  <1>4. StoreTypes' /\ LineageOK' /\ IssuesExplained' /\ BrowsedExists'
    BY <1>1, <1>3 DEF StoreOK, StoreTypes, LineageOK, LineageAgrees, IssuesExplained, BrowsedExists,
                      Issue, Exists, Known
  <1>5. JobOK(a)'
    BY <1>1, <1>2, <1>3 DEF JobOK, HoldsLock, Making, Deleting, Exists, At, CreateSteps, MarkedSteps
  <1>6. \A j \in Ids : Safe(j) => Safe(j)'
    BY <1>1, <1>3 DEF Safe, Intact, CanRestore, Exists, CreateSteps, MarkedSteps
  <1> QED
    BY <1>1, <1>2, <1>4, <1>5, <1>6, OtherJobs DEF StoreOK

LEMMA DeleteMarkKeeps ==
  ASSUME StoreOK, NEW a \in Actors, NEW p \in BOOLEAN, DeleteMark(a, p)
  PROVE  StoreOK' /\ \A j \in Ids \ {job[a].id} : Safe(j) => Safe(j)'
  <1> DEFINE i == job[a].id
             r == [rec[i] EXCEPT !.state = "Deleting"]
  <1>1. /\ job' \in [Actors -> Jobs]
        /\ job'[a].step = "dSub" /\ job'[a].id = i
        /\ \A b \in Actors \ {a} : job'[b] = job[b]
    BY GotoEffect DEF StoreOK, DeleteMark, JobSteps
  <1>2. /\ job[a].step = "dCheck" /\ opLock = a /\ i \in Ids /\ Exists(i) /\ rec[i] \in Records
        /\ \A b \in Actors \ {a} : ~Active(b)
    BY OneJobAtATime DEF DeleteMark, At, Active, MarkedSteps
  <1>3. r \in Records /\ r # NoRecord /\ r.state = "Deleting"
    BY <1>2, CoordinationAssumption DEF Records, States, NoRecord, StoreAssumption
  <1>4. /\ rec' = [rec EXCEPT ![i] = r] /\ ValidRecord(r) /\ i \notin browsed
        /\ UNCHANGED <<sub, lin, opLock, startLock, browsed, fresh, halfUndone>>
    BY DEF DeleteMark, DeletionAllowed, WriteRecord
  <1> HIDE DEF r
  <1>5. rec'[i] = r /\ \A j \in Ids \ {i} : rec'[j] = rec[j]
    BY <1>2, <1>4 DEF StoreOK, StoreTypes
  <1>6. startLock = a
    BY <1>2 DEF StoreOK, JobOK, HoldsLock
  <1>7. StoreTypes'
    BY <1>1, <1>2, <1>3, <1>4, <1>5 DEF StoreOK, StoreTypes, Exists
  <1>8. LineageOK' /\ IssuesExplained' /\ BrowsedExists'
    BY <1>3, <1>4, <1>5
    DEF StoreOK, LineageOK, LineageAgrees, IssuesExplained, BrowsedExists, Issue, Exists, Known
  <1>9. JobOK(a)'
    BY <1>1, <1>2, <1>3, <1>4, <1>5, <1>6
    DEF JobOK, HoldsLock, Making, Deleting, Exists, At, CreateSteps, MarkedSteps
  <1>10. \A j \in Ids \ {i} : Safe(j) => Safe(j)'
    BY <1>1, <1>4, <1>5 DEF Safe, Intact, CanRestore, Exists, CreateSteps, MarkedSteps
  <1> QED
    BY <1>1, <1>2, <1>7, <1>8, <1>9, <1>10, OtherJobs DEF StoreOK

LEMMA DeleteRefusedKeeps ==
  ASSUME StoreOK, NEW a \in Actors, NEW p \in BOOLEAN, DeleteRefused(a, p)
  PROVE  StoreOK' /\ \A j \in Ids : Safe(j) => Safe(j)'
  <1> DEFINE i == job[a].id
  <1>1. /\ job' \in [Actors -> Jobs] /\ job'[a].step \in {"failed", "idle"}
        /\ job'[a].step # "idle" => job'[a].id = i
        /\ \A b \in Actors \ {a} : job'[b] = job[b]
        /\ opLock' \in Actors \cup {NoActor} /\ startLock' \in Actors \cup {NoActor}
    BY FinishEffect DEF StoreOK, DeleteRefused
  <1>2. /\ job[a].step = "dCheck" /\ i \in Ids /\ Exists(i) /\ rec[i] \in Records
        /\ \A b \in Actors \ {a} : ~Active(b)
    BY OneJobAtATime DEF DeleteRefused, At, Active, MarkedSteps
  <1>3. UNCHANGED <<rec, sub, lin, browsed, fresh, halfUndone>>
    BY DEF DeleteRefused
  <1>4. StoreTypes' /\ LineageOK' /\ IssuesExplained' /\ BrowsedExists'
    BY <1>1, <1>3 DEF StoreOK, StoreTypes, LineageOK, LineageAgrees, IssuesExplained, BrowsedExists,
                      Issue, Exists, Known
  <1>5. JobOK(a)'
    BY <1>1 DEF Active, JobOK, HoldsLock, Making, Deleting, At, CreateSteps, MarkedSteps
  <1>6. \A j \in Ids : Safe(j) => Safe(j)'
    BY <1>1, <1>3 DEF Safe, Intact, CanRestore, Exists, CreateSteps, MarkedSteps
  <1> QED
    BY <1>1, <1>2, <1>4, <1>5, <1>6, OtherJobs DEF StoreOK

LEMMA DeleteSubvolumeKeeps ==
  ASSUME StoreOK, NEW a \in Actors, DeleteSubvolume(a)
  PROVE  StoreOK' /\ \A j \in Ids : Safe(j) => Safe(j)'
  <1> DEFINE i == job[a].id
  <1>1. /\ job' \in [Actors -> Jobs]
        /\ job'[a].step = "dDir" /\ job'[a].id = i
        /\ \A b \in Actors \ {a} : job'[b] = job[b]
    BY GotoEffect DEF StoreOK, DeleteSubvolume, JobSteps
  <1>2. /\ job[a].step = "dSub" /\ opLock = a /\ i \in Ids /\ Exists(i) /\ rec[i] \in Records
        /\ \A b \in Actors \ {a} : ~Active(b)
    BY OneJobAtATime DEF DeleteSubvolume, At, Active, MarkedSteps
  <1>3. /\ sub[i] = "none" => sub'[i] = "none"
        /\ \A j \in Ids \ {i} : sub'[j] = sub[j]
        /\ sub' \in [Ids -> {"none", "empty", "root"}]
        /\ UNCHANGED <<rec, lin, opLock, startLock, browsed, fresh, halfUndone>>
    BY <1>2 DEF StoreOK, StoreTypes, DeleteSubvolume
  <1>4. rec[i].state = "Deleting" /\ i \notin browsed /\ startLock = a
    BY <1>2 DEF StoreOK, JobOK, HoldsLock, Deleting, MarkedSteps
  <1>5. StoreTypes'
    BY <1>1, <1>3 DEF StoreOK, StoreTypes, Exists
  <1>6. LineageOK' /\ IssuesExplained' /\ BrowsedExists'
    BY <1>3, <1>4 DEF StoreOK, StoreTypes, LineageOK, LineageAgrees, IssuesExplained, BrowsedExists,
                      Issue, Exists, Known
  <1>7. JobOK(a)'
    BY <1>1, <1>2, <1>3, <1>4
    DEF JobOK, HoldsLock, Making, Deleting, Exists, At, CreateSteps, MarkedSteps
  <1>8. \A j \in Ids : Safe(j) => Safe(j)'
    BY <1>1, <1>2, <1>3, <1>4 DEF Safe, Intact, CanRestore, Exists, CreateSteps, MarkedSteps
  <1> QED
    BY <1>1, <1>2, <1>5, <1>6, <1>7, <1>8, OtherJobs DEF StoreOK

LEMMA DeleteDirectoryKeeps ==
  ASSUME StoreOK, NEW a \in Actors, DeleteDirectory(a)
  PROVE  StoreOK' /\ \A j \in Ids : Safe(j) => Safe(j)'
  <1> DEFINE i == job[a].id
  <1>1. /\ job' \in [Actors -> Jobs]
        /\ job'[a].step = "dLineage" /\ job'[a].id = i
        /\ \A b \in Actors \ {a} : job'[b] = job[b]
    BY GotoEffect DEF StoreOK, DeleteDirectory, JobSteps
  <1>2. /\ job[a].step = "dDir" /\ opLock = a /\ i \in Ids /\ Exists(i) /\ rec[i] \in Records
        /\ \A b \in Actors \ {a} : ~Active(b)
    BY OneJobAtATime DEF DeleteDirectory, At, Active, MarkedSteps
  <1>3. /\ sub'[i] = "none"
        /\ \A j \in Ids \ {i} : sub'[j] = sub[j]
        /\ sub' \in [Ids -> {"none", "empty", "root"}]
        /\ UNCHANGED <<rec, lin, opLock, startLock, browsed, fresh, halfUndone>>
    BY <1>2 DEF StoreOK, StoreTypes, DeleteDirectory
  <1>4. rec[i].state = "Deleting" /\ i \notin browsed /\ startLock = a
    BY <1>2 DEF StoreOK, JobOK, HoldsLock, Deleting, MarkedSteps
  <1>5. StoreTypes'
    BY <1>1, <1>3 DEF StoreOK, StoreTypes, Exists
  <1>6. LineageOK' /\ IssuesExplained' /\ BrowsedExists'
    BY <1>3, <1>4 DEF StoreOK, StoreTypes, LineageOK, LineageAgrees, IssuesExplained, BrowsedExists,
                      Issue, Exists, Known
  <1>7. JobOK(a)'
    BY <1>1, <1>2, <1>3, <1>4
    DEF JobOK, HoldsLock, Making, Deleting, Exists, At, CreateSteps, MarkedSteps
  <1>8. \A j \in Ids : Safe(j) => Safe(j)'
    BY <1>1, <1>2, <1>3, <1>4 DEF Safe, Intact, CanRestore, Exists, CreateSteps, MarkedSteps
  <1> QED
    BY <1>1, <1>2, <1>5, <1>6, <1>7, <1>8, OtherJobs DEF StoreOK

LEMMA DeleteLineageKeeps ==
  ASSUME StoreOK, NEW a \in Actors, DeleteLineage(a)
  PROVE  StoreOK' /\ \A j \in Ids : Safe(j) => Safe(j)'
  <1> DEFINE i == job[a].id
  <1>1. /\ job[a].step = "dLineage" /\ opLock = a /\ i \in Ids /\ Exists(i)
        /\ \A b \in Actors \ {a} : ~Active(b)
    BY OneJobAtATime DEF DeleteLineage, At, Active, MarkedSteps
  <1>2. /\ rec[i].state = "Deleting" /\ i \notin browsed /\ startLock = a /\ sub[i] = "none"
    BY <1>1 DEF StoreOK, JobOK, HoldsLock, Deleting, MarkedSteps
  <1>3. UNCHANGED <<rec, sub, browsed, fresh, halfUndone>>
    BY DEF DeleteLineage
  <1>4. CASE Removal(i) = Refused
    <2>1. Finish(a, "failed") /\ UNCHANGED lin
      BY <1>4 DEF DeleteLineage
    <2>2. /\ job' \in [Actors -> Jobs] /\ job'[a].step \in {"failed", "idle"}
          /\ \A b \in Actors \ {a} : job'[b] = job[b]
          /\ opLock' \in Actors \cup {NoActor} /\ startLock' \in Actors \cup {NoActor}
      BY <2>1, FinishEffect DEF StoreOK
    <2>3. StoreTypes' /\ LineageOK' /\ IssuesExplained' /\ BrowsedExists'
      BY <1>3, <2>1, <2>2 DEF StoreOK, StoreTypes, LineageOK, LineageAgrees, IssuesExplained,
                              BrowsedExists, Issue, Exists, Known
    <2>4. JobOK(a)'
      BY <2>2 DEF Active, JobOK, HoldsLock, Making, Deleting, At, CreateSteps, MarkedSteps
    <2>5. \A j \in Ids : Safe(j) => Safe(j)'
      BY <1>3, <2>2 DEF Safe, Intact, CanRestore, Exists, CreateSteps
    <2> QED
      BY <1>1, <2>2, <2>3, <2>4, <2>5, OtherJobs DEF StoreOK
  <1>5. CASE Removal(i) # Refused
    <2>1. /\ lin' = Removal(i) /\ Goto(a, "dRecord") /\ UNCHANGED <<opLock, startLock>>
      BY <1>5 DEF DeleteLineage
    <2>2. /\ job' \in [Actors -> Jobs] /\ job'[a].step = "dRecord" /\ job'[a].id = i
          /\ \A b \in Actors \ {a} : job'[b] = job[b]
      BY <2>1, GotoEffect DEF StoreOK, JobSteps
    <2>3. Initialized # Refused /\ Removal(i) = MarkSnapshotRemoved(Initialized, i)
      BY <1>5 DEF Removal
    <2>4. /\ lin' \in Lineages /\ ValidLineage(lin') /\ lin'.saved
          /\ lin'.node = [Initialized.node EXCEPT ![i] = "removed"]
          /\ Initialized \in Lineages
      BY <1>1, <1>5, <2>1, <2>3, InitializedEffect, MarkSnapshotRemovedEffect
    <2>5. /\ lin'.node[i] = "removed"
          /\ \A j \in Ids \ {i} : lin'.node[j] = Initialized.node[j]
      BY <1>1, <2>4 DEF Lineages
    <2>6. \A j \in Ids \ {i} : lin'.node[j] # lin.node[j] =>
              /\ lin.node[j] = "absent" /\ lin'.node[j] = "available"
              /\ Exists(j) /\ sub[j] = "root"
      BY <2>3, <2>5, InitializedEffect
    <2>7. StoreTypes'
      BY <1>3, <2>1, <2>2, <2>4 DEF StoreOK, StoreTypes, Exists
    <2>8. LineageOK' /\ IssuesExplained' /\ BrowsedExists'
      <3>1. LineageOK'
        BY <1>1, <1>2, <1>3, <2>4, <2>5, <2>6 DEF StoreOK, LineageOK, LineageAgrees, Exists
      <3>2. IssuesExplained'
        BY <1>3 DEF StoreOK, IssuesExplained, Issue, Exists
      <3>3. BrowsedExists'
        BY <1>2, <1>3, <2>5, <2>6 DEF StoreOK, StoreTypes, BrowsedExists, Known, Exists
      <3> QED
        BY <3>1, <3>2, <3>3
    <2>9. JobOK(a)'
      BY <1>1, <1>2, <1>3, <2>1, <2>2, <2>5
      DEF JobOK, HoldsLock, Making, Deleting, Exists, At, CreateSteps, MarkedSteps
    <2>10. \A j \in Ids : Safe(j) => Safe(j)'
      BY <1>3, <2>2 DEF Safe, Intact, CanRestore, Exists, CreateSteps
    <2> QED
      BY <1>1, <2>2, <2>7, <2>8, <2>9, <2>10, OtherJobs DEF StoreOK
  <1> QED
    BY <1>4, <1>5

LEMMA DeleteRecordKeeps ==
  ASSUME StoreOK, NEW a \in Actors, DeleteRecord(a)
  PROVE  StoreOK' /\ \A j \in Ids : Safe(j) => Safe(j)'
  <1> DEFINE i == job[a].id
  <1>1. /\ job' \in [Actors -> Jobs] /\ job'[a].step \in {"done", "idle"}
        /\ job'[a].step # "idle" => job'[a].id = i
        /\ \A b \in Actors \ {a} : job'[b] = job[b]
        /\ opLock' \in Actors \cup {NoActor} /\ startLock' \in Actors \cup {NoActor}
    BY FinishEffect DEF StoreOK, DeleteRecord
  <1>2. /\ job[a].step = "dRecord" /\ i \in Ids /\ Exists(i)
        /\ \A b \in Actors \ {a} : ~Active(b)
    BY OneJobAtATime DEF DeleteRecord, At, Active, MarkedSteps
  <1>3. rec[i].state = "Deleting" /\ lin.node[i] = "removed" /\ i \notin browsed
    BY <1>2 DEF StoreOK, JobOK, Deleting, At, MarkedSteps
  <1>4. /\ rec'[i] = NoRecord /\ \A j \in Ids \ {i} : rec'[j] = rec[j]
        /\ rec' \in [Ids -> Records \cup {NoRecord}]
        /\ UNCHANGED <<sub, lin, browsed, fresh, halfUndone>>
    BY <1>2 DEF StoreOK, StoreTypes, DeleteRecord
  <1>5. StoreTypes'
    BY <1>1, <1>4 DEF StoreOK, StoreTypes, Exists
  <1>6. LineageOK' /\ IssuesExplained' /\ BrowsedExists'
    <2>1. LineageOK'
      BY <1>3, <1>4 DEF StoreOK, LineageOK, LineageAgrees, Exists, Known
    <2>2. IssuesExplained'
      BY <1>3, <1>4 DEF StoreOK, IssuesExplained, Issue, Exists
    <2>3. BrowsedExists'
      BY <1>3, <1>4 DEF StoreOK, StoreTypes, BrowsedExists, Exists, Known
    <2> QED
      BY <2>1, <2>2, <2>3
  <1>7. JobOK(a)'
    BY <1>1, <1>2 DEF Active, JobOK, HoldsLock, Making, Deleting, At, CreateSteps, MarkedSteps
  <1>8. \A j \in Ids : Safe(j) => Safe(j)'
    BY <1>1, <1>3, <1>4 DEF Safe, Intact, CanRestore, Exists, CreateSteps
  <1> QED
    BY <1>1, <1>2, <1>5, <1>6, <1>7, <1>8, OtherJobs DEF StoreOK

LEMMA EndingJobIsActive ==
  ASSUME StoreTypes, NEW a \in Actors, JobEnds(a)
  PROVE  Active(a)
  <1>1. job[a].step \in JobSteps \ {"idle", "done", "failed"}
    BY DEF JobEnds, StoreTypes, Jobs
  <1> QED
    BY <1>1 DEF JobSteps, Active, CreateSteps, MarkedSteps

(* A process that dies leaves everything but its job and its locks.        *)
LEMMA JobEndsKeeps ==
  ASSUME StoreOK, NEW a \in Actors, JobEnds(a)
  PROVE  StoreOK' /\ \A j \in Ids : Safe(j) => Safe(j)'
  <1>1. /\ job' \in [Actors -> Jobs] /\ job'[a].step \in {"failed", "idle"}
        /\ \A b \in Actors \ {a} : job'[b] = job[b]
        /\ opLock' \in Actors \cup {NoActor} /\ startLock' \in Actors \cup {NoActor}
    BY FinishEffect DEF StoreOK, JobEnds
  <1>2. \A b \in Actors \ {a} : ~Active(b)
    BY EndingJobIsActive, OneJobAtATime DEF StoreOK
  <1>3. UNCHANGED <<rec, sub, lin, browsed, fresh, halfUndone>>
    BY DEF JobEnds
  <1>4. StoreTypes' /\ LineageOK' /\ IssuesExplained' /\ BrowsedExists'
    BY <1>1, <1>3 DEF StoreOK, StoreTypes, LineageOK, LineageAgrees, IssuesExplained,
                      BrowsedExists, Issue, Exists, Known
  <1>5. JobOK(a)'
    BY <1>1 DEF Active, JobOK, HoldsLock, Making, Deleting, At, CreateSteps, MarkedSteps
  <1>6. \A j \in Ids : Safe(j) => Safe(j)'
    BY <1>1, <1>3 DEF Safe, Intact, CanRestore, Exists, CreateSteps
  <1> QED
    BY <1>1, <1>2, <1>4, <1>5, <1>6, OtherJobs DEF StoreOK

-----------------------------------------------------------------------------
(* Readers, pins and time.                                                 *)
LEMMA ReaderStepKeeps ==
  ASSUME StoreOK, ReaderStep
  PROVE  StoreOK' /\ (\A j \in Ids : Safe(j) => Safe(j)') /\ UNCHANGED <<job, startLock>>
  <1>1. ASSUME NEW i \in Ids, BrowseOpen(i)
        PROVE  StoreOK' /\ (\A j \in Ids : Safe(j) => Safe(j)') /\ UNCHANGED <<job, startLock>>
    <2>1. /\ sub[i] = "root" /\ browsed' = browsed \cup {i}
          /\ \A a \in Actors : ~(job[a].id = i /\ job[a].step \in MarkedSteps)
          /\ UNCHANGED <<rec, sub, lin, job, opLock, startLock, fresh, halfUndone>>
      BY <1>1 DEF BrowseOpen, MarkedSteps
    <2>2. StoreTypes' /\ LineageOK' /\ IssuesExplained' /\ BrowsedExists'
      BY <2>1 DEF StoreOK, StoreTypes, LineageOK, LineageAgrees, IssuesExplained,
                  BrowsedExists, Issue, Exists, Known
    <2>3. \A a \in Actors : JobOK(a)'
      BY <2>1 DEF StoreOK, JobOK, HoldsLock, Making, Deleting, Active, Exists, At
    <2> QED
      BY <2>1, <2>2, <2>3 DEF StoreOK, Safe, Intact, CanRestore, Exists
  <1>2. ASSUME NEW i \in Ids, BrowseClose(i)
        PROVE  StoreOK' /\ (\A j \in Ids : Safe(j) => Safe(j)') /\ UNCHANGED <<job, startLock>>
    <2>1. /\ browsed' = browsed \ {i}
          /\ UNCHANGED <<rec, sub, lin, job, opLock, startLock, fresh, halfUndone>>
      BY <1>2 DEF BrowseClose
    <2>2. StoreTypes' /\ LineageOK' /\ IssuesExplained' /\ BrowsedExists'
      BY <2>1 DEF StoreOK, StoreTypes, LineageOK, LineageAgrees, IssuesExplained,
                  BrowsedExists, Issue, Exists, Known
    <2>3. \A a \in Actors : JobOK(a)'
      BY <2>1 DEF StoreOK, JobOK, HoldsLock, Making, Deleting, Active, Exists, At
    <2> QED
      BY <2>1, <2>2, <2>3 DEF StoreOK, Safe, Intact, CanRestore, Exists
  <1>3. ASSUME NEW i \in Ids, NEW p \in BOOLEAN, SetPinned(i, p)
        PROVE  StoreOK' /\ (\A j \in Ids : Safe(j) => Safe(j)') /\ UNCHANGED <<job, startLock>>
    <2> DEFINE r == [rec[i] EXCEPT !.pinned = p]
    <2>1. rec[i] \in Records /\ rec[i] # NoRecord /\ \A a \in Actors : ~Active(a)
      BY <1>3, RecordAt, OneJobAtATime DEF SetPinned, StoreOK
    <2>2. r \in Records /\ r # NoRecord /\ r.state = rec[i].state /\ r.uuid = rec[i].uuid
      BY <2>1, CoordinationAssumption DEF Records, NoRecord, StoreAssumption
    <2>3. /\ rec' = [rec EXCEPT ![i] = r] /\ ValidRecord(r)
          /\ UNCHANGED <<sub, lin, job, opLock, startLock, browsed, fresh, halfUndone>>
      BY <1>3 DEF SetPinned, WriteRecord
    <2> HIDE DEF r
    <2>4. rec'[i] = r /\ \A j \in Ids \ {i} : rec'[j] = rec[j]
      BY <2>3 DEF StoreOK, StoreTypes
    <2>5. StoreTypes'
      BY <2>2, <2>3, <2>4 DEF StoreOK, StoreTypes, Exists
    <2>6. LineageOK' /\ IssuesExplained' /\ BrowsedExists'
      BY <2>1, <2>2, <2>3, <2>4 DEF StoreOK, LineageOK, LineageAgrees, IssuesExplained,
                                    BrowsedExists, Issue, Exists, Known
    <2>7. \A a \in Actors : JobOK(a)'
      BY <2>1, <2>3 DEF StoreOK, JobOK, HoldsLock, Making, Deleting, Active, At,
                        CreateSteps, MarkedSteps
    <2>8. \A j \in Ids : Safe(j) => Safe(j)'
      BY <2>1, <2>2, <2>3, <2>4 DEF Safe, Intact, CanRestore, Exists
    <2> QED
      BY <2>3, <2>5, <2>6, <2>7, <2>8 DEF StoreOK
  <1>4. ASSUME IntervalPasses
        PROVE  StoreOK' /\ (\A j \in Ids : Safe(j) => Safe(j)') /\ UNCHANGED <<job, startLock>>
    <2>1. fresh' = {} /\ UNCHANGED <<rec, sub, lin, job, opLock, startLock, browsed, halfUndone>>
      BY <1>4 DEF IntervalPasses
    <2>2. StoreTypes' /\ LineageOK' /\ IssuesExplained' /\ BrowsedExists'
      BY <2>1 DEF StoreOK, StoreTypes, LineageOK, LineageAgrees, IssuesExplained,
                  BrowsedExists, Issue, Exists, Known
    <2>3. \A a \in Actors : JobOK(a)'
      BY <2>1 DEF StoreOK, JobOK, HoldsLock, Making, Deleting, Active, Exists, At
    <2> QED
      BY <2>1, <2>2, <2>3 DEF StoreOK, Safe, Intact, CanRestore, Exists
  <1> QED
    BY <1>1, <1>2, <1>3, <1>4 DEF ReaderStep

-----------------------------------------------------------------------------
(* What a step of one job does to everybody else: start.lock stays with    *)
(* its holder, and only a deletion that is allowed, and that holds         *)
(* start.lock, takes a snapshot that is safe.                              *)
SafeButForDeletion(a) ==
    \A j \in Ids : Safe(j) =>
        \/ Safe(j)'
        \/ startLock = a /\ job[a].id = j /\ DeletionAllowed(j, job[a].mode, PackageRefers(j))
OnlyOwnJob(a) ==
    /\ \A b \in Actors \ {a} : job'[b] = job[b]
    /\ startLock \notin {a, NoActor} => startLock' = startLock

LEMMA StoreStepKeeps ==
  ASSUME StoreOK, NEW a \in Actors,
         StoreStep(a) \/ CreateFails(a) \/ JobEnds(a)
  PROVE  StoreOK' /\ SafeButForDeletion(a)
  <1>1. CASE DeleteMark(a, PackageRefers(job[a].id))
    <2>1. PackageRefers(job[a].id) \in BOOLEAN
      BY DEF PackageRefers
    <2>2. StoreOK' /\ \A j \in Ids \ {job[a].id} : Safe(j) => Safe(j)'
      BY <1>1, <2>1, DeleteMarkKeeps
    <2>3. startLock = a /\ DeletionAllowed(job[a].id, job[a].mode, PackageRefers(job[a].id))
      BY <1>1 DEF DeleteMark, At, StoreOK, JobOK, HoldsLock
    <2> QED
      BY <2>2, <2>3 DEF SafeButForDeletion
  <1>2. CASE DeleteRefused(a, PackageRefers(job[a].id))
    <2>1. PackageRefers(job[a].id) \in BOOLEAN
      BY DEF PackageRefers
    <2> QED
      BY <1>2, <2>1, DeleteRefusedKeeps DEF SafeButForDeletion
  <1>3. CASE \/ CreateDirectory(a) \/ CreateSnapshot(a) \/ CreateCommit(a) \/ CreateLineage(a)
             \/ CreateRevert(a) \/ CreateIncomplete(a) \/ CreateFails(a)
    BY <1>3, CreateDirectoryKeeps, CreateSnapshotKeeps, CreateCommitKeeps, CreateLineageKeeps,
       CreateRevertKeeps, CreateIncompleteKeeps, CreateFailsKeeps
    DEF SafeButForDeletion
  <1>4. CASE \/ DeleteLock(a) \/ DeleteSubvolume(a) \/ DeleteDirectory(a) \/ DeleteLineage(a)
             \/ DeleteRecord(a) \/ JobEnds(a)
    BY <1>4, DeleteLockKeeps, DeleteSubvolumeKeeps, DeleteDirectoryKeeps, DeleteLineageKeeps,
       DeleteRecordKeeps, JobEndsKeeps
    DEF SafeButForDeletion
  <1> QED
    BY <1>1, <1>2, <1>3, <1>4 DEF StoreStep

LEMMA StoreStepOwnJob ==
  ASSUME StoreOK, NEW a \in Actors,
         StoreStep(a) \/ CreateFails(a) \/ JobEnds(a)
  PROVE  OnlyOwnJob(a) /\ Active(a)
  <1>1. StoreTypes
    BY DEF StoreOK
  <1>2. ASSUME NEW result \in {"idle", "done", "failed"}, Finish(a, result)
        PROVE  OnlyOwnJob(a)
    BY <1>1, <1>2, FinishEffect DEF OnlyOwnJob
  <1>3. ASSUME NEW step \in JobSteps, Goto(a, step), startLock = NoActor \/ startLock' = startLock
        PROVE  OnlyOwnJob(a)
    BY <1>1, <1>3, GotoEffect DEF OnlyOwnJob
  <1>4. CASE \/ CreateDirectory(a) \/ CreateSnapshot(a) \/ CreateCommit(a) \/ CreateRevert(a)
             \/ CreateFails(a)
    BY <1>3, <1>4 DEF CreateDirectory, CreateSnapshot, CreateCommit, CreateRevert, CreateFails,
                      CreateFailsEarly, CreateFailsLate, JobSteps, At, Active, CreateSteps
  <1>5. CASE \/ DeleteLock(a) \/ DeleteMark(a, PackageRefers(job[a].id))
             \/ DeleteSubvolume(a) \/ DeleteDirectory(a)
    BY <1>3, <1>5 DEF DeleteLock, DeleteMark, DeleteSubvolume, DeleteDirectory, JobSteps, At,
                      Active, MarkedSteps
  <1>6. CASE \/ CreateLineage(a) \/ CreateIncomplete(a) \/ DeleteRecord(a)
             \/ DeleteRefused(a, PackageRefers(job[a].id))
    BY <1>2, <1>6 DEF CreateLineage, CreateIncomplete, DeleteRecord, DeleteRefused, At,
                      Active, CreateSteps, MarkedSteps
  <1>7. CASE DeleteLineage(a)
    BY <1>2, <1>3, <1>7 DEF DeleteLineage, JobSteps, At, Active, MarkedSteps
  <1>8. CASE JobEnds(a)
    BY <1>1, <1>2, <1>8, EndingJobIsActive DEF JobEnds
  <1> QED
    BY <1>4, <1>5, <1>6, <1>7, <1>8 DEF StoreStep

(* A caller takes the result of a job that is over.                        *)
LEMMA JobForgotten ==
  ASSUME StoreOK, NEW a \in Actors, ~Active(a), job' = [job EXCEPT ![a] = Idle],
         UNCHANGED <<rec, sub, lin, opLock, startLock, browsed, fresh, halfUndone>>
  PROVE  /\ StoreOK' /\ \A j \in Ids : Safe(j) => Safe(j)'
         /\ \A b \in Actors \ {a} : job'[b] = job[b]
  <1>1. /\ job' \in [Actors -> Jobs] /\ job'[a].step = "idle"
        /\ \A b \in Actors \ {a} : job'[b] = job[b]
    BY DEF StoreOK, StoreTypes, Idle, Jobs, JobSteps, Modes
  <1>2. StoreTypes' /\ LineageOK' /\ IssuesExplained' /\ BrowsedExists'
    BY <1>1 DEF StoreOK, StoreTypes, LineageOK, LineageAgrees, IssuesExplained,
                BrowsedExists, Issue, Exists, Known
  <1>3. JobOK(a)'
    BY <1>1 DEF Active, JobOK, HoldsLock, Making, Deleting, At, CreateSteps, MarkedSteps
  <1>4. \A b \in Actors \ {a} : JobOK(b)'
    BY <1>1 DEF StoreOK, JobOK, HoldsLock, Making, Deleting, Active, Exists, At
  <1>5. \A j \in Ids : Safe(j) => Safe(j)'
    BY <1>1 DEF Safe, Intact, CanRestore, Exists, CreateSteps
  <1> QED
    BY <1>1, <1>2, <1>3, <1>4, <1>5 DEF StoreOK

(* The coordinator gives start.lock back when its job is over.             *)
LEMMA JobLeft ==
  ASSUME StoreOK, NEW a \in Actors, ~Active(a), Finish(a, "idle"),
         UNCHANGED <<rec, sub, lin, browsed, fresh, halfUndone>>
  PROVE  StoreOK' /\ \A j \in Ids : Safe(j) => Safe(j)'
  <1>1. /\ job' \in [Actors -> Jobs] /\ job'[a].step = "idle"
        /\ \A b \in Actors \ {a} : job'[b] = job[b]
        /\ opLock' \in Actors \cup {NoActor} /\ startLock' \in Actors \cup {NoActor}
    BY FinishEffect DEF StoreOK
  <1>2. /\ opLock # a => opLock' = opLock
        /\ startLock # a => startLock' = startLock
    BY DEF Finish
  <1>3. StoreTypes' /\ LineageOK' /\ IssuesExplained' /\ BrowsedExists'
    BY <1>1 DEF StoreOK, StoreTypes, LineageOK, LineageAgrees, IssuesExplained,
                BrowsedExists, Issue, Exists, Known
  <1>4. JobOK(a)'
    BY <1>1 DEF Active, JobOK, HoldsLock, Making, Deleting, At, CreateSteps, MarkedSteps
  <1>5. \A b \in Actors \ {a} : JobOK(b)'
    BY <1>1, <1>2 DEF StoreOK, JobOK, HoldsLock, Making, Deleting, Active, Exists, At
  <1>6. \A j \in Ids : Safe(j) => Safe(j)'
    BY <1>1 DEF Safe, Intact, CanRestore, Exists, CreateSteps
  <1> QED
    BY <1>3, <1>4, <1>5, <1>6 DEF StoreOK

-----------------------------------------------------------------------------
(* The rest of the invariant: the package record, the hook, the pending    *)
(* rollback and the coordinator.                                           *)
RestTypes ==
    /\ pending \in Pendings \cup {NoPending}
    /\ pkg \in PackageTransactions \cup {NoPackage}
    /\ hook \in Hook /\ coord \in CoordStates
BoundaryOK == RestTypes /\ OneBoundary /\ HookOK /\ CoordOK /\ RestoreOK

LEMMA AptIsAnActor ==
  Apt \in Actors /\ Coord \in Actors /\ Apt # Coord /\ NoPackage \notin PackageTransactions
  BY CoordinationAssumption DEF AptAssumption, CoordAssumption, StoreAssumption, NoPackage

LEMMA InvariantParts ==
  CoordinationOK <=> StoreOK /\ BoundaryOK /\ faults \in 0..MaxFaults
  BY DEF CoordinationOK, StoreOK, BoundaryOK, TypeOK, StoreTypes, RestTypes, JobOK

(* The coordinator's own job, and the hook's, are over when they go on.    *)
LEMMA CoordinatorWaits ==
  ASSUME StoreOK, BoundaryOK, coord.step \in {"bind", "bound"}
  PROVE  /\ startLock = Coord /\ startLock # NoActor /\ At(Coord, "done") /\ ~Active(Coord)
         /\ coord.target \in Ids /\ job[Coord].id \in Ids
  BY CoordinationAssumption
  DEF BoundaryOK, CoordOK, StoreOK, JobOK, HoldsLock, Active, At, CreateSteps, MarkedSteps,
      CoordAssumption, StoreAssumption

(* Jobs of the store respect the boundary.                                 *)
LEMMA JobKeepsBoundary ==
  ASSUME StoreOK, BoundaryOK, NEW a \in Actors, SafeButForDeletion(a), OnlyOwnJob(a),
         a # Coord \/ Active(a), UNCHANGED <<packageVars, pending, coord>>
  PROVE  BoundaryOK'
  <1>1. RestTypes' /\ OneBoundary' /\ HookOK'
    BY DEF BoundaryOK, RestTypes, OneBoundary, HookOK, packageVars
  <1>2. CoordOK'
    <2>1. CASE coord.step \in {"bind", "bound"}
      <3>1. a # Coord /\ Coord \in Actors /\ startLock # a
        BY <2>1, CoordinatorWaits, AptIsAnActor
      <3>2. job'[Coord] = job[Coord] /\ startLock' = startLock
        BY <2>1, <3>1, CoordinatorWaits DEF OnlyOwnJob
      <3>3. \A j \in Ids : Safe(j) => Safe(j)'
        BY <3>1 DEF SafeButForDeletion
      <3> QED
        BY <2>1, <3>2, <3>3, CoordinatorWaits DEF BoundaryOK, CoordOK, At, packageVars
    <2>2. CASE coord.step = "ready"
      BY <2>2, AptIsAnActor
      DEF BoundaryOK, CoordOK, OnlyOwnJob, Active, At, CreateSteps, MarkedSteps
    <2>3. CASE coord.step \notin {"ready", "bind", "bound"}
      BY <2>3 DEF BoundaryOK, CoordOK
    <2> QED
      BY <2>1, <2>2, <2>3
  <1>3. RestoreOK'
    <2> SUFFICES ASSUME pending # NoPending
                 PROVE  /\ Safe(pending.target)'
                        /\ Safe(pending.fallback)' \/ (pending.purge /\ pending.outcome = "confirmed")
      BY DEF RestoreOK
    <2>1. pending.target \in Ids /\ pending.fallback \in Ids
      BY DEF BoundaryOK, RestTypes, Pendings
    <2>2. Safe(pending.target)'
      BY <2>1 DEF BoundaryOK, RestoreOK, SafeButForDeletion, DeletionAllowed, ReferencedByRollback
    <2>3. Safe(pending.fallback)' \/ (pending.purge /\ pending.outcome = "confirmed")
      BY <2>1 DEF BoundaryOK, RestoreOK, SafeButForDeletion, DeletionAllowed,
                  ReferencedByRollback, Consent, PurgePending
    <2> QED
      BY <2>2, <2>3
  <1> QED
    BY <1>1, <1>2, <1>3 DEF BoundaryOK

(* The hook respects it as long as a new package transaction finds neither *)
(* a rollback nor start.lock.                                              *)
LEMMA HookKeepsBoundary ==
  ASSUME StoreOK, BoundaryOK, \A j \in Ids : Safe(j) => Safe(j)',
         \A b \in Actors \ {Apt} : job'[b] = job[b], startLock' = startLock,
         UNCHANGED <<pending, coord>>,
         hook' \in Hook, pkg' \in PackageTransactions \cup {NoPackage}, HookOK',
         pkg' # NoPackage => pkg # NoPackage \/ (pending = NoPending /\ startLock = NoActor)
  PROVE  BoundaryOK'
  <1>1. RestTypes' /\ OneBoundary'
    BY DEF BoundaryOK, RestTypes, OneBoundary
  <1>2. CoordOK'
    <2>1. CASE coord.step \in {"bind", "bound"}
      <3>2. job'[Coord] = job[Coord]
        BY AptIsAnActor
      <3> QED
        BY <2>1, <3>2, CoordinatorWaits DEF BoundaryOK, CoordOK, At
    <2>2. CASE coord.step \notin {"bind", "bound"}
      BY <2>2, AptIsAnActor DEF BoundaryOK, CoordOK, At
    <2> QED
      BY <2>1, <2>2
  <1>3. RestoreOK'
    BY DEF BoundaryOK, RestoreOK, RestTypes, Pendings
  <1> QED
    BY <1>1, <1>2, <1>3 DEF BoundaryOK

LEMMA CoordinatorKeepsBoundary ==
  ASSUME StoreOK, BoundaryOK, \A j \in Ids : Safe(j) => Safe(j)',
         UNCHANGED packageVars, CoordOK',
         pending' \in Pendings \cup {NoPending}, coord' \in CoordStates,
         \/ pending' \in {pending, NoPending}
         \/ /\ pending # NoPending /\ pending'.target = pending.target
            /\ pending'.fallback = pending.fallback /\ pending'.purge = pending.purge
            /\ pending.outcome \in {"none", pending'.outcome}
         \/ pkg = NoPackage /\ Safe(pending.target)' /\ Safe(pending.fallback)'
  PROVE  BoundaryOK'
  <1>1. RestTypes' /\ HookOK'
    BY DEF BoundaryOK, RestTypes, HookOK, packageVars
  <1>2. OneBoundary'
    BY DEF BoundaryOK, OneBoundary, packageVars
  <1>3. RestoreOK'
    <2>1. CASE pending' \in {pending, NoPending}
      BY <2>1 DEF BoundaryOK, RestoreOK, RestTypes, Pendings
    <2>2. CASE pkg = NoPackage /\ Safe(pending.target)' /\ Safe(pending.fallback)'
      BY <2>2 DEF RestoreOK
    <2>3. CASE /\ pending # NoPending /\ pending'.target = pending.target
               /\ pending'.fallback = pending.fallback /\ pending'.purge = pending.purge
               /\ pending.outcome \in {"none", pending'.outcome}
      BY <2>3 DEF BoundaryOK, RestoreOK, RestTypes, Pendings
    <2> QED
      BY <2>1, <2>2, <2>3
  <1> QED
    BY <1>1, <1>2, <1>3 DEF BoundaryOK

-----------------------------------------------------------------------------
(* APT's hook, action by action.                                           *)
LEMMA PackageRecordTyped ==
  ASSUME NEW q \in PackageTransactions, NEW i \in Ids \cup {NoId}
  PROVE  /\ RecordPre(q, i) \in PackageTransactions
         /\ CompleteWithoutPost(q) \in PackageTransactions
         /\ Interrupt(q) \in PackageTransactions
  <1>1. RecordPre(q, i) \in PackageTransactions
    BY DEF PackageTransactions, RecordPre, Phases
  <1>2. CompleteWithoutPost(q) \in PackageTransactions
    BY DEF PackageTransactions, CompleteWithoutPost, Phases
  <1>3. Interrupt(q) \in PackageTransactions
    BY DEF PackageTransactions, Interrupt, Phases
  <1> QED
    BY <1>1, <1>2, <1>3

LEMMA HookStepTyped ==
  ASSUME hook \in Hook
  PROVE  /\ \A to \in {"pre", "packages", "post", "idle"} :
                Step(to) => hook' \in Hook /\ hook'.step = to
  BY DEF Hook, Step, NoHook

(* A snapshot for the hook is started.                                     *)
LEMMA HookCreates ==
  ASSUME StoreOK, BoundaryOK, HookCreatePre \/ HookCreatePost, UNCHANGED <<pending, coord>>
  PROVE  StoreOK' /\ BoundaryOK'
  <1>1. PICK k \in Kinds : CreateStart(Apt, k, FALSE)
    BY DEF HookCreatePre, HookCreatePost, Kinds
  <1>2. StoreOK' /\ \A j \in Ids : Safe(j) => Safe(j)'
    BY <1>1, CreateStartKeeps, AptIsAnActor
  <1>3. startLock' = startLock /\ \A b \in Actors \ {Apt} : job'[b] = job[b]
    BY <1>1 DEF CreateStart, StoreOK, StoreTypes
  <1>4. /\ hook' \in Hook /\ pkg' = pkg /\ pkg # NoPackage
    BY HookStepTyped
    DEF HookCreatePre, HookCreatePost, PostAwaited, BoundaryOK, RestTypes, HookOK
  <1>5. HookOK'
    BY <1>4 DEF HookOK
  <1> QED
    BY <1>2, <1>3, <1>4, <1>5, HookKeepsBoundary DEF BoundaryOK, RestTypes

(* Its result is taken.                                                    *)
LEMMA HookTakesResult ==
  ASSUME StoreOK, BoundaryOK, UNCHANGED <<pending, coord>>,
         HookPreDone \/ HookPreFailed \/ HookPostDone \/ HookPostFailed \/ HookDies
  PROVE  StoreOK' /\ BoundaryOK'
  <1>1. /\ ~Active(Apt) /\ EndJob
        /\ UNCHANGED <<rec, sub, lin, opLock, startLock, browsed, fresh, halfUndone>>
    BY DEF HookPreDone, HookPreFailed, HookPostDone, HookPostFailed, HookDies, Active, At,
           CreateSteps, MarkedSteps
  <1>2. /\ StoreOK' /\ \A j \in Ids : Safe(j) => Safe(j)'
        /\ \A b \in Actors \ {Apt} : job'[b] = job[b]
    BY <1>1, JobForgotten, AptIsAnActor DEF EndJob
  <1>3. /\ hook' \in Hook /\ hook'.step \in {"packages", "idle"}
    BY HookStepTyped
    DEF HookPreDone, HookPreFailed, HookPostDone, HookPostFailed, HookDies, BoundaryOK, RestTypes
  <1>4. /\ pkg' \in PackageTransactions \cup {NoPackage}
        /\ pkg' # NoPackage => pkg # NoPackage
    <2>1. job[Apt].id \in Ids \cup {NoId}
      BY AptIsAnActor DEF StoreOK, StoreTypes, Jobs
    <2>2. CASE HookPreDone
      <3>1. pkg \in PackageTransactions
        BY <2>2 DEF HookPreDone, BoundaryOK, HookOK, RestTypes
      <3> QED
        BY <2>1, <2>2, <3>1, PackageRecordTyped, AptIsAnActor DEF HookPreDone, Archive
    <2>3. CASE HookPreFailed \/ HookPostDone \/ HookPostFailed
      BY <2>3 DEF HookPreFailed, HookPostDone, HookPostFailed, Archive
    <2>4. CASE HookDies
      BY <2>1, <2>4, PackageRecordTyped DEF HookDies, BoundaryOK, RestTypes
    <2> QED
      BY <2>2, <2>3, <2>4
  <1>5. HookOK'
    BY <1>3 DEF HookOK
  <1> QED
    BY <1>1, <1>2, <1>3, <1>4, <1>5, HookKeepsBoundary

(* The hook's steps that touch no snapshot.                                *)
LEMMA HookWrites ==
  ASSUME StoreOK, BoundaryOK, UNCHANGED <<pending, coord>>,
         \/ \E q \in Policies : \/ BeginTransaction("before" \in q, "after" \in q)
                              \/ HookSteppedOver("before" \in q, "after" \in q)
         \/ HookSkipPre \/ HookCreateRefused
         \/ \E q \in Policies : PostWithoutSnapshot("after" \in q)
         \/ HookPostRefused
  PROVE  StoreOK' /\ BoundaryOK'
  <1>1. UNCHANGED storeVars
    BY DEF BeginTransaction, HookSteppedOver, HookSkipPre, HookCreateRefused,
           PostWithoutSnapshot, HookPostRefused
  <1>2. /\ StoreOK' /\ \A j \in Ids : Safe(j) => Safe(j)'
    BY <1>1
    DEF storeVars, StoreOK, StoreTypes, LineageOK, LineageAgrees, IssuesExplained, BrowsedExists,
        Issue, Exists, Known, JobOK, HoldsLock, Making, Deleting, Active, At, Safe, Intact,
        CanRestore
  <1>3. /\ hook' \in Hook /\ pkg' \in PackageTransactions \cup {NoPackage} /\ HookOK'
        /\ pkg' # NoPackage => pkg # NoPackage \/ (pending = NoPending /\ startLock = NoActor)
    <2>1. CASE \E q \in Policies : BeginTransaction("before" \in q, "after" \in q)
      <3>1. PICK q \in Policies : BeginTransaction("before" \in q, "after" \in q)
        BY <2>1
      <3> DEFINE before == "before" \in q
                 after == "after" \in q
      <3>2. before \in BOOLEAN /\ after \in BOOLEAN
        OBVIOUS
      <3>3. BeginTransaction(before, after)
        BY <3>1
      <3> HIDE DEF before, after
      <3>4. /\ hook' = [step |-> "begun", before |-> before, after |-> after]
            /\ pkg' = NewPackageTransaction
            /\ pending = NoPending /\ startLock = NoActor
        BY <3>3 DEF BeginTransaction
      <3>5. NewPackageTransaction \in PackageTransactions
        BY DEF NewPackageTransaction, PackageTransactions, Phases
      <3> QED
        BY <3>2, <3>4, <3>5, AptIsAnActor DEF Hook, HookOK
    <2>2. CASE \/ \E q \in Policies : HookSteppedOver("before" \in q, "after" \in q)
               \/ \E q \in Policies : PostWithoutSnapshot("after" \in q)
               \/ HookCreateRefused \/ HookPostRefused
      BY <2>2, HookStepTyped
      DEF HookSteppedOver, PostWithoutSnapshot, HookCreateRefused, HookPostRefused, Archive,
          HookOK, BoundaryOK, RestTypes
    <2>3. CASE HookSkipPre
      <3>1. pkg \in PackageTransactions /\ pkg' = SkipPre(pkg)
        BY <2>3 DEF HookSkipPre, BoundaryOK, HookOK, RestTypes
      <3>2. SkipPre(pkg) \in PackageTransactions
        BY <3>1 DEF SkipPre, PackageTransactions, Phases
      <3>3. hook' \in Hook /\ hook'.step = "packages"
        BY <2>3, HookStepTyped DEF HookSkipPre, BoundaryOK, RestTypes
      <3> QED
        BY <2>3, <3>1, <3>2, <3>3 DEF HookSkipPre, BoundaryOK, HookOK
    <2> QED
      BY <2>1, <2>2, <2>3
  <1>4. startLock' = startLock /\ \A b \in Actors \ {Apt} : job'[b] = job[b]
    BY <1>1 DEF storeVars
  <1> QED
    BY <1>2, <1>3, <1>4, HookKeepsBoundary

-----------------------------------------------------------------------------
(* The coordinator, action by action.                                      *)
LEMMA StoreUnchanged ==
  ASSUME StoreOK, UNCHANGED storeVars
  PROVE  StoreOK' /\ \A j \in Ids : Safe(j) => Safe(j)'
  BY DEF storeVars, StoreOK, StoreTypes, LineageOK, LineageAgrees, IssuesExplained, BrowsedExists,
         Issue, Exists, Known, JobOK, HoldsLock, Making, Deleting, Active, At, Safe, Intact,
         CanRestore

LEMMA CoordIdleTyped == CoordIdle \in CoordStates /\ CoordIdle.step = "idle"
  BY DEF CoordIdle, CoordStates

(* Before start.lock is taken, and once the rollback is over.              *)
LEMMA CoordinatorPrepares ==
  ASSUME StoreOK, BoundaryOK, UNCHANGED packageVars,
         (\E i \in Ids, purge \in Restores : ValidateReady(i, purge))
            \/ CreateFallback \/ FallbackFailed \/ PurgeNext \/ PurgeStep
  PROVE  StoreOK' /\ BoundaryOK'
  <1>1. pending' = pending
    BY DEF ValidateReady, CreateFallback, FallbackFailed, PurgeNext, PurgeStep
  <1>2. CASE \E i \in Ids, purge \in Restores : ValidateReady(i, purge)
    <2>1. PICK i \in Ids, purge \in Restores : ValidateReady(i, purge)
      BY <1>2
    <2>2. /\ coord' \in CoordStates /\ coord'.step = "ready" /\ coord'.target = i
          /\ UNCHANGED storeVars
      BY <2>1, CoordinationAssumption DEF ValidateReady, CoordStates, CoordAssumption
    <2> QED
      BY <1>1, <2>1, <2>2, StoreUnchanged, CoordinatorKeepsBoundary
      DEF CoordOK, BoundaryOK, RestTypes, ValidateReady, At, storeVars
  <1>3. CASE CreateFallback
    <2>1. StoreOK' /\ \A j \in Ids : Safe(j) => Safe(j)'
      BY <1>3, CreateStartKeeps, AptIsAnActor DEF CreateFallback, Kinds
    <2>2. coord' \in CoordStates /\ coord'.step = "fallback" /\ coord'.target \in Ids
      BY <1>3 DEF CreateFallback, BoundaryOK, RestTypes, CoordOK, CoordStates
    <2> QED
      BY <1>1, <2>1, <2>2, CoordinatorKeepsBoundary DEF CoordOK, BoundaryOK, RestTypes
  <1>4. CASE FallbackFailed \/ PurgeStep
    <2>1. /\ coord' = CoordIdle /\ job' = [job EXCEPT ![Coord] = Idle]
          /\ UNCHANGED <<rec, sub, lin, opLock, startLock, browsed, fresh, halfUndone>>
      BY <1>4 DEF FallbackFailed, PurgeStep
    <2>2. ~Active(Coord)
      BY <1>4 DEF FallbackFailed, PurgeStep, BoundaryOK, CoordOK, Active, At, CreateSteps,
                  MarkedSteps
    <2>3. StoreOK' /\ \A j \in Ids : Safe(j) => Safe(j)'
      BY <2>1, <2>2, JobForgotten, AptIsAnActor
    <2> QED
      BY <1>1, <2>1, <2>3, CoordIdleTyped, CoordinatorKeepsBoundary
      DEF CoordOK, BoundaryOK, RestTypes
  <1>5. CASE PurgeNext
    <2>1. PICK i \in Ids : DeleteStart(Coord, i, "purge")
      BY <1>5 DEF PurgeNext, Found
    <2>2. StoreOK' /\ \A j \in Ids : Safe(j) => Safe(j)'
      BY <2>1, DeleteStartKeeps, AptIsAnActor DEF Modes
    <2>3. coord' \in CoordStates /\ coord'.step = "purge"
      BY <1>5 DEF PurgeNext, BoundaryOK, RestTypes, CoordStates
    <2> QED
      BY <1>1, <2>2, <2>3, CoordinatorKeepsBoundary DEF CoordOK, BoundaryOK, RestTypes
  <1> QED
    BY <1>2, <1>3, <1>4, <1>5

(* Under start.lock: both snapshots are verified when no job is under way, *)
(* and stay what they are until the record that protects them is there.    *)
LEMMA CoordinatorBinds ==
  ASSUME StoreOK, BoundaryOK, UNCHANGED packageVars,
         BindLock \/ BindVerify \/ BindCreate \/ BindRefused \/ CoordDies
  PROVE  StoreOK' /\ BoundaryOK'
  <1>1. CASE BindLock
    <2>1. /\ startLock = NoActor /\ startLock' = Coord /\ At(Coord, "done")
          /\ coord' = [coord EXCEPT !.step = "bind"] /\ coord.step = "fallback"
          /\ UNCHANGED <<rec, sub, lin, job, opLock, browsed, fresh, halfUndone, pending>>
      BY <1>1 DEF BindLock
    <2>2. StoreTypes' /\ LineageOK' /\ IssuesExplained' /\ BrowsedExists'
      BY <2>1, AptIsAnActor DEF StoreOK, StoreTypes, LineageOK, LineageAgrees, IssuesExplained,
                                BrowsedExists, Issue, Exists, Known
    <2>3. \A a \in Actors : JobOK(a)'
      BY <2>1, CoordinationAssumption
      DEF StoreOK, JobOK, HoldsLock, Making, Deleting, Active, Exists, At, StoreAssumption
    <2>4. \A j \in Ids : Safe(j) => Safe(j)'
      BY <2>1 DEF Safe, Intact, CanRestore, Exists
    <2>5. coord' \in CoordStates /\ coord'.step = "bind" /\ coord'.target = coord.target
      BY <2>1 DEF BoundaryOK, RestTypes, CoordStates
    <2>6. CoordOK'
      BY <2>1, <2>5 DEF BoundaryOK, CoordOK, At
    <2>7. pending' \in Pendings \cup {NoPending}
      BY <2>1 DEF BoundaryOK, RestTypes
    <2>8. BoundaryOK'
      BY <2>1, <2>4, <2>5, <2>6, <2>7, CoordinatorKeepsBoundary
    <2> QED
      BY <2>2, <2>3, <2>8 DEF StoreOK
  <1>2. CASE BindVerify
    <2>1. /\ UNCHANGED storeVars /\ pending' = pending
          /\ coord' = [coord EXCEPT !.step = "bound"] /\ coord.step = "bind"
          /\ pkg = NoPackage /\ Verified(coord.target) /\ Verified(job[Coord].id)
      BY <1>2 DEF BindVerify, BindAllowed
    <2>2. StoreOK' /\ \A j \in Ids : Safe(j) => Safe(j)'
      BY <2>1, StoreUnchanged
    <2>3. coord' \in CoordStates /\ coord'.step = "bound" /\ coord'.target = coord.target
      BY <2>1 DEF BoundaryOK, RestTypes, CoordStates
    <2>4. coord.target \in Ids /\ job[Coord].id \in Ids /\ startLock = Coord /\ At(Coord, "done")
      BY <2>1, CoordinatorWaits
    <2>5. \A a \in Actors : ~Active(a)
      BY <2>1, OneJobAtATime DEF Verified
    <2>6. Safe(coord.target) /\ Safe(job[Coord].id)
      BY <2>1, <2>5 DEF Verified, Safe, Intact, Active
    <2>7. CoordOK'
      BY <2>1, <2>2, <2>3, <2>4, <2>6 DEF CoordOK, At, storeVars, packageVars
    <2> QED
      BY <2>1, <2>2, <2>3, <2>7, CoordinatorKeepsBoundary DEF BoundaryOK, RestTypes
  <1>3. CASE BindCreate \/ BindRefused \/ CoordDies
    <2>1. /\ Finish(Coord, "idle") /\ coord' = CoordIdle
          /\ UNCHANGED <<rec, sub, lin, browsed, fresh, halfUndone>>
      BY <1>3 DEF BindCreate, BindRefused, CoordDies
    <2>2. ~Active(Coord)
      BY <1>3, CoordinatorWaits DEF BindCreate, BindRefused, CoordDies, Active, CreateSteps,
                                    MarkedSteps
    <2>3. StoreOK' /\ \A j \in Ids : Safe(j) => Safe(j)'
      BY <2>1, <2>2, JobLeft, AptIsAnActor
    <2>4. CoordOK'
      BY <2>1, CoordIdleTyped DEF CoordOK
    <2>5. CASE BindCreate
      <3>1. /\ pkg = NoPackage /\ Safe(coord.target) /\ Safe(job[Coord].id)
            /\ coord.target \in Ids /\ job[Coord].id \in Ids /\ coord.purge \in BOOLEAN
        BY <2>5, CoordinatorWaits DEF BindCreate, BoundaryOK, CoordOK, RestTypes, CoordStates
      <3>2. pending' = [target |-> coord.target, fallback |-> job[Coord].id,
                        purge |-> coord.purge, outcome |-> "none", recorded |-> FALSE]
        BY <2>5 DEF BindCreate
      <3>3. pending' \in Pendings
        BY <3>1, <3>2 DEF Pendings, Outcomes
      <3>4. Safe(pending.target)' /\ Safe(pending.fallback)'
        BY <2>3, <3>1, <3>2 DEF Safe, Intact, CanRestore, Exists
      <3> QED
        BY <2>1, <2>3, <2>4, <3>1, <3>3, <3>4, CoordIdleTyped, CoordinatorKeepsBoundary
    <2>6. CASE BindRefused \/ CoordDies
      BY <2>1, <2>3, <2>4, <2>6, CoordIdleTyped, CoordinatorKeepsBoundary
      DEF BindRefused, CoordDies, BoundaryOK, RestTypes
    <2> QED
      BY <1>3, <2>5, <2>6
  <1> QED
    BY <1>1, <1>2, <1>3

(* The outcome is entered without operation.lock: only the head moves.     *)
LEMMA CoordinatorRecords ==
  ASSUME StoreOK, BoundaryOK, UNCHANGED packageVars, RecordOutcome
  PROVE  StoreOK' /\ BoundaryOK'
  <1>1. /\ pending # NoPending /\ pending \in Pendings
        /\ Activation # Refused /\ lin' = Activation
        /\ pending' = [pending EXCEPT !.recorded = TRUE]
        /\ UNCHANGED <<rec, sub, job, opLock, startLock, browsed, fresh, halfUndone, coord>>
    BY DEF RecordOutcome, Settling, BoundaryOK, RestTypes
  <1>2. pending.target \in Ids /\ pending.fallback \in Ids
    BY <1>1 DEF Pendings
  <1>3. /\ Initialized # Refused
        /\ Activation = RecordActivation(Initialized, pending.target, pending.fallback,
                                         pending.outcome = "confirmed")
    BY <1>1 DEF Activation
  <1>4. /\ lin' \in Lineages /\ ValidLineage(lin') /\ lin'.saved
        /\ lin'.node = Initialized.node
    <2>1. (pending.outcome = "confirmed") \in BOOLEAN
      OBVIOUS
    <2> QED
      BY <1>1, <1>2, <1>3, <2>1, InitializedEffect, RecordActivationEffect, ZenonT(40)
  <1>5. /\ lin.saved => lin'.node = lin.node
        /\ \A j \in Ids : lin'.node[j] # lin.node[j] =>
              lin.node[j] = "absent" /\ lin'.node[j] = "available" /\ Exists(j) /\ sub[j] = "root"
    BY <1>3, <1>4, InitializedEffect
  <1>6. StoreTypes'
    BY <1>1, <1>4 DEF StoreOK, StoreTypes, Exists
  <1>7. LineageOK'
    BY <1>1, <1>4, <1>5 DEF StoreOK, LineageOK, LineageAgrees, Exists
  <1>8. IssuesExplained'
    BY <1>1 DEF StoreOK, IssuesExplained, Issue, Exists
  <1>9. BrowsedExists'
    BY <1>1, <1>5 DEF StoreOK, StoreTypes, BrowsedExists, Known, Exists
  <1>10. ASSUME NEW a \in Actors PROVE JobOK(a)'
    <2>1. JobOK(a) /\ job'[a] = job[a] /\ job[a].step \in JobSteps
      BY <1>1 DEF StoreOK, StoreTypes, Jobs
    <2>2. HoldsLock(a)'
      BY <1>1, <2>1 DEF JobOK, HoldsLock, Active, At, Exists
    <2>3. Making(a)'
      BY <1>1, <1>4, <1>5, <2>1 DEF JobOK, Making
    <2>4. Deleting(a)'
      <3>1. At(a, "dRecord") => lin.node[job[a].id] = "removed" /\ job[a].id \in Ids
        BY <2>1 DEF JobOK, HoldsLock, Deleting, Active, At, MarkedSteps
      <3> QED
        BY <1>1, <1>5, <2>1, <3>1 DEF JobOK, Deleting, At
    <2> QED
      BY <2>2, <2>3, <2>4 DEF JobOK
  <1>11. \A j \in Ids : Safe(j) => Safe(j)'
    BY <1>1 DEF Safe, Intact, CanRestore, Exists
  <1>12. CoordOK'
    BY <1>1, <1>11, CoordinatorWaits DEF BoundaryOK, CoordOK, At, packageVars
  <1>13. /\ pending' \in Pendings /\ pending'.target = pending.target
         /\ pending'.fallback = pending.fallback /\ pending'.purge = pending.purge
         /\ pending'.outcome = pending.outcome
    BY <1>1 DEF Pendings
  <1>14. BoundaryOK'
    BY <1>1, <1>11, <1>12, <1>13, CoordinatorKeepsBoundary DEF BoundaryOK, RestTypes
  <1> QED
    BY <1>6, <1>7, <1>8, <1>9, <1>10, <1>14 DEF StoreOK

(* What only the pending record sees.                                      *)
LEMMA CoordinatorSettles ==
  ASSUME StoreOK, BoundaryOK, UNCHANGED packageVars,
         Cancel \/ (\E o \in Outcomes : Outcome(o)) \/ RollbackSettled
  PROVE  StoreOK' /\ BoundaryOK'
  <1>1. UNCHANGED storeVars /\ coord' = coord
    BY DEF Cancel, Outcome, RollbackSettled
  <1>2. StoreOK' /\ \A j \in Ids : Safe(j) => Safe(j)'
    BY <1>1, StoreUnchanged
  <1>3. CoordOK'
    BY <1>1, <1>2, CoordinatorWaits DEF BoundaryOK, CoordOK, At, storeVars, packageVars
  <1>4. CASE Cancel \/ RollbackSettled
    BY <1>1, <1>2, <1>3, <1>4, CoordinatorKeepsBoundary
    DEF Cancel, RollbackSettled, BoundaryOK, RestTypes
  <1>5. CASE \E o \in Outcomes : Outcome(o)
    <2>1. PICK o \in Outcomes : Outcome(o)
      BY <1>5
    <2>2. /\ pending # NoPending /\ pending \in Pendings /\ pending.outcome = "none"
          /\ pending' = [pending EXCEPT !.outcome = o]
      BY <2>1 DEF Outcome, BoundaryOK, RestTypes
    <2>3. /\ pending' \in Pendings /\ pending'.target = pending.target
          /\ pending'.fallback = pending.fallback /\ pending'.purge = pending.purge
      BY <2>2 DEF Pendings
    <2> QED
      BY <1>1, <1>2, <1>3, <2>2, <2>3, CoordinatorKeepsBoundary DEF BoundaryOK, RestTypes
  <1> QED
    BY <1>4, <1>5

-----------------------------------------------------------------------------
(* The parts together.                                                     *)
LEMMA CoordinationStarts == Init => CoordinationOK
  <1> SUFFICES ASSUME Init PROVE CoordinationOK
    OBVIOUS
  <1>1. PICK legacy \in LegacyStates \cup {NoRecord} :
          /\ rec = [i \in Ids |-> IF i = 1 /\ legacy # NoRecord
                       THEN [NewRecord("Manual", FALSE) EXCEPT !.state = legacy, !.uuid = TRUE]
                       ELSE NoRecord]
          /\ sub = [i \in Ids |-> IF i = 1 /\ legacy # NoRecord THEN "root" ELSE "none"]
    BY DEF Init, StoreInit
  <1>2. /\ lin = NoLineage /\ job = [a \in Actors |-> Idle]
        /\ opLock = NoActor /\ startLock = NoActor
        /\ browsed = {} /\ fresh = {} /\ halfUndone = {}
        /\ pkg = NoPackage /\ hook = NoHook /\ pending = NoPending /\ coord = CoordIdle
        /\ faults = 0
    BY DEF Init, StoreInit, PackageInit
  <1>3. NoLineage \in Lineages /\ ValidLineage(NoLineage) /\ ~NoLineage.saved
        /\ \A i \in Ids : NoLineage.node[i] = "absent"
    <2>1. NoId \notin Ids
      BY CoordinationAssumption DEF Ids, NoId, SnapshotAssumption
    <2> QED
      BY <2>1 DEF NoLineage, Lineages, NodeStates, ValidLineage, Acyclic, Known
  <1>4. \A i \in Ids : /\ rec[i] = NoRecord \/ (/\ rec[i] \in Records /\ rec[i].kind = "Manual"
                                                /\ rec[i].uuid /\ sub[i] = "root")
                       /\ sub[i] \in {"none", "root"}
    BY <1>1, CoordinationAssumption DEF NewRecord, Records, Kinds, StoreAssumption
  <1>5. StoreTypes
    <2>1. Idle \in Jobs
      BY DEF Idle, Jobs, JobSteps, Modes
    <2>2. \A i \in Ids : Exists(i) => ValidRecord(rec[i])
      BY <1>4 DEF Exists, ValidRecord
    <2>3. rec \in [Ids -> Records \cup {NoRecord}] /\ sub \in [Ids -> {"none", "empty", "root"}]
      <3>1. DOMAIN rec = Ids /\ DOMAIN sub = Ids
        BY <1>1
      <3> QED
        BY <1>1, <1>4, <3>1
    <2> QED
      BY <1>2, <1>3, <2>1, <2>2, <2>3 DEF StoreTypes
  <1>6. LineageOK /\ IssuesExplained /\ BrowsedExists
    BY <1>2, <1>3, <1>4 DEF LineageOK, LineageAgrees, IssuesExplained, BrowsedExists, Issue, Exists,
                            Known
  <1>7. \A a \in Actors : JobOK(a)
    BY <1>2 DEF Idle, JobOK, HoldsLock, Making, Deleting, Active, At, CreateSteps, MarkedSteps
  <1>8. BoundaryOK
    BY <1>2, CoordIdleTyped
    DEF BoundaryOK, RestTypes, OneBoundary, HookOK, CoordOK, RestoreOK, NoHook, Hook
  <1>9. faults \in 0..MaxFaults
    BY <1>2, CoordinationAssumption DEF CoordAssumption
  <1> QED
    BY <1>5, <1>6, <1>7, <1>8, <1>9, InvariantParts DEF StoreOK

LEMMA JobsKeep ==
  ASSUME StoreOK, BoundaryOK, NEW a \in Actors, UNCHANGED <<packageVars, pending, coord>>,
         StoreStep(a) \/ CreateFails(a) \/ JobEnds(a)
  PROVE  StoreOK' /\ BoundaryOK'
  BY StoreStepKeeps, StoreStepOwnJob, JobKeepsBoundary

LEMMA HelperKeeps ==
  ASSUME StoreOK, BoundaryOK, NEW a \in Users, UNCHANGED <<packageVars, pending, coord>>,
         HelperStep(a)
  PROVE  StoreOK' /\ BoundaryOK'
  <1>1. a \in Actors /\ a # Coord
    BY CoordinationAssumption DEF CoordAssumption
  <1>2. /\ StoreOK' /\ \A j \in Ids : Safe(j) => Safe(j)'
        /\ OnlyOwnJob(a)
    <2>1. ASSUME NEW k \in CreateKinds, CreateStart(a, k, k = "Factory")
          PROVE  /\ StoreOK' /\ \A j \in Ids : Safe(j) => Safe(j)'
                 /\ OnlyOwnJob(a)
      <3>1. k \in Kinds /\ (k = "Factory") \in BOOLEAN
        BY CoordinationAssumption DEF CoordAssumption, Kinds
      <3>2. StoreOK' /\ \A j \in Ids : Safe(j) => Safe(j)'
        BY <1>1, <2>1, <3>1, CreateStartKeeps
      <3> QED
        BY <1>1, <2>1, <3>2 DEF CreateStart, OnlyOwnJob, StoreOK, StoreTypes
    <2>2. ASSUME NEW i \in Ids, NEW mode \in DeleteModes, DeleteStart(a, i, mode)
          PROVE  /\ StoreOK' /\ \A j \in Ids : Safe(j) => Safe(j)'
                 /\ OnlyOwnJob(a)
      <3>1. mode \in Modes
        BY CoordinationAssumption DEF CoordAssumption, Modes
      <3>2. StoreOK' /\ \A j \in Ids : Safe(j) => Safe(j)'
        BY <1>1, <2>2, <3>1, DeleteStartKeeps
      <3> QED
        BY <1>1, <2>2, <3>2 DEF DeleteStart, OnlyOwnJob, StoreOK, StoreTypes
    <2> QED
      BY <2>1, <2>2 DEF HelperStep
  <1> QED
    BY <1>1, <1>2, JobKeepsBoundary DEF SafeButForDeletion

LEMMA ReadersKeep ==
  ASSUME StoreOK, BoundaryOK, UNCHANGED <<packageVars, pending, coord>>, ReaderStep
  PROVE  StoreOK' /\ BoundaryOK'
  <1>1. StoreOK' /\ (\A j \in Ids : Safe(j) => Safe(j)') /\ UNCHANGED <<job, startLock>>
    BY ReaderStepKeeps
  <1>2. CoordOK'
    BY <1>1, CoordinatorWaits DEF BoundaryOK, CoordOK, At, packageVars
  <1> QED
    BY <1>1, <1>2, CoordinatorKeepsBoundary DEF BoundaryOK, RestTypes

LEMMA CoordinatorKeeps ==
  ASSUME StoreOK, BoundaryOK, CoordStep \/ CoordDies
  PROVE  StoreOK' /\ BoundaryOK'
  <1>1. UNCHANGED packageVars
    BY DEF CoordStep, ValidateReady, CreateFallback, FallbackFailed, BindLock, BindVerify,
           BindCreate, BindRefused, CoordDies, Cancel, Outcome, RecordOutcome, PurgeNext,
           PurgeStep, RollbackSettled, packageVars
  <1> QED
    BY <1>1, CoordinatorPrepares, CoordinatorBinds, CoordinatorRecords, CoordinatorSettles
    DEF CoordStep

LEMMA HookKeeps ==
  ASSUME StoreOK, BoundaryOK, HookStep \/ HookDies, UNCHANGED <<pending, coord>>
  PROVE  StoreOK' /\ BoundaryOK'
  BY HookCreates, HookTakesResult, HookWrites DEF HookStep

LEMMA CoordinationStutters ==
  ASSUME StoreOK, BoundaryOK, UNCHANGED vars
  PROVE  StoreOK' /\ BoundaryOK'
  <1>1. StoreOK' /\ \A j \in Ids : Safe(j) => Safe(j)'
    BY StoreUnchanged DEF vars
  <1>2. CoordOK'
    BY <1>1, CoordinatorWaits DEF BoundaryOK, CoordOK, At, vars, storeVars, packageVars
  <1> QED
    BY <1>1, <1>2, CoordinatorKeepsBoundary DEF BoundaryOK, RestTypes, vars

(* However jobs, APT's hook, the coordinator and the readers interleave,   *)
(* and wherever one of them fails or dies, the invariant holds.            *)
THEOREM CoordinationIsOK == Spec => []CoordinationOK
  <1>1. ASSUME CoordinationOK, [Next]_vars PROVE CoordinationOK'
    <2>1. StoreOK' /\ BoundaryOK' /\ faults' \in 0..MaxFaults => CoordinationOK'
      BY DEF CoordinationOK, StoreOK, BoundaryOK, TypeOK, StoreTypes, RestTypes, JobOK
    <2>2. StoreOK /\ BoundaryOK /\ faults \in 0..MaxFaults
      BY <1>1, InvariantParts
    <2>3. CASE Work
      <3>1. StoreOK' /\ BoundaryOK'
        BY <2>2, <2>3, JobsKeep, HelperKeeps, HookKeeps, CoordinatorKeeps, ReadersKeep DEF Work
      <3>2. faults' = faults
        BY <2>3 DEF Work
      <3> QED
        BY <2>2, <2>1, <3>1, <3>2
    <2>4. CASE Fault
      <3>1. StoreOK' /\ BoundaryOK'
        BY <2>2, <2>4, JobsKeep, HookKeeps, CoordinatorKeeps DEF Fault
      <3>2. faults' \in 0..MaxFaults
        BY <2>2, <2>4, CoordinationAssumption DEF Fault, CoordAssumption
      <3> QED
        BY <2>1, <3>1, <3>2
    <2>5. CASE UNCHANGED vars
      BY <2>2, <2>5, <2>1, CoordinationStutters DEF vars
    <2> QED
      BY <1>1, <2>3, <2>4, <2>5 DEF Next
  <1> QED
    BY <1>1, CoordinationStarts, PTL DEF Spec

(* Type correctness, in particular: every saved lineage is valid and every *)
(* record that is written satisfies validate.                              *)
THEOREM CoordinationTypes == Spec => []TypeOK
  BY CoordinationIsOK, PTL DEF CoordinationOK

(* As long as a rollback is pending, the snapshot it restores and the one  *)
(* it returns to can be restored, whoever deletes, purges or dies.         *)
THEOREM RestorePointsStay == Spec => []RestorePointsExist
  <1>1. CoordinationOK => RestorePointsExist
    BY DEF CoordinationOK, RestoreOK, RestorePointsExist, Safe
  <1> QED
    BY <1>1, CoordinationIsOK, PTL

(* APT's transaction and a rollback never claim the boundary together.     *)
THEOREM BoundaryIsOne == Spec => []OneBoundary
  BY CoordinationIsOK, PTL DEF CoordinationOK

(* The lineage neither forgets a snapshot nor invents one, through every   *)
(* interrupted creation and deletion and the migration of an old store.    *)
THEOREM LineageAlwaysAgrees == Spec => []LineageAgrees
  BY CoordinationIsOK, PTL DEF CoordinationOK, LineageOK

(* A record whose snapshot is gone comes from a creation half undone.      *)
THEOREM IssuesAreExplained == Spec => []IssuesExplained
  BY CoordinationIsOK, PTL DEF CoordinationOK

(* A recovery point that someone browses is not deleted under him.         *)
THEOREM BrowsedStays == Spec => []BrowsedExists
  BY CoordinationIsOK, PTL DEF CoordinationOK

-----------------------------------------------------------------------------
(* The floor of automatic cleanup.  Only delete's own check, with both     *)
(* locks held, leads to the mark.                                          *)
LEMMA MarkIsChecked ==
  ASSUME CoordinationOK, Next, NEW a \in Actors, At(a, "dCheck"), job'[a].step = "dSub"
  PROVE  DeleteMark(a, PackageRefers(job[a].id))
  <1>1. StoreOK /\ StoreTypes /\ job[a].step = "dCheck" /\ Active(a)
    BY InvariantParts DEF StoreOK, At, Active
  <1>2. ASSUME NEW b \in Actors, StoreStep(b) \/ CreateFails(b) \/ JobEnds(b)
        PROVE  DeleteMark(a, PackageRefers(job[a].id))
    <2>1. b = a
      BY <1>1, <1>2, StoreStepOwnJob DEF OnlyOwnJob
    <2>2. ASSUME Finish(a, "failed") PROVE FALSE
      BY <1>1, <2>2, FinishEffect
    <2> QED
      BY <1>1, <1>2, <2>1, <2>2
      DEF StoreStep, CreateFails, CreateFailsEarly, CreateFailsLate, JobEnds, At,
          CreateDirectory, CreateSnapshot, CreateCommit, CreateLineage, CreateRevert, CreateIncomplete, DeleteLock, DeleteRefused,
          DeleteSubvolume, DeleteDirectory, DeleteLineage, DeleteRecord
  <1>3. ASSUME NEW b \in Actors, \/ \E k \in Kinds, p \in BOOLEAN : CreateStart(b, k, p)
                                 \/ \E i \in Ids, mode \in Modes : DeleteStart(b, i, mode)
        PROVE  FALSE
    <2>1. b # a
      BY <1>1, <1>3 DEF CreateStart, DeleteStart, At
    <2>2. job'[a] = job[a]
      BY <1>1, <1>3, <2>1 DEF CreateStart, DeleteStart, StoreTypes
    <2> QED
      BY <1>1, <2>2
  <1>4. ASSUME NEW b \in Actors, job' = [job EXCEPT ![b] = Idle] PROVE FALSE
    BY <1>1, <1>4 DEF StoreTypes, Idle
  <1>5. ASSUME Finish(Coord, "idle") PROVE FALSE
    <2>1. Coord # a => job'[a] = job[a]
      BY <1>1, <1>5, FinishEffect, AptIsAnActor
    <2>2. Coord = a => job'[a].step = "idle"
      BY <1>1, <1>5, FinishEffect
    <2> QED
      BY <1>1, <2>1, <2>2
  <1>6. job' # job
    BY <1>1
  <1>7. ~HookStep /\ ~HookDies
    <2>1. ~HookCreatePre /\ ~HookCreatePost
      BY <1>3, AptIsAnActor DEF HookCreatePre, HookCreatePost, Kinds
    <2>2. ~HookPreDone /\ ~HookPreFailed /\ ~HookPostDone /\ ~HookPostFailed /\ ~HookDies
      BY <1>4, AptIsAnActor DEF HookPreDone, HookPreFailed, HookPostDone, HookPostFailed, HookDies,
                                EndJob
    <2> QED
      BY <1>6, <2>1, <2>2
      DEF HookStep, BeginTransaction, HookSteppedOver, HookSkipPre, HookCreateRefused,
          PostWithoutSnapshot, HookPostRefused, storeVars
  <1>8. ~CoordStep /\ ~CoordDies
    <2>1. ~CreateFallback /\ ~PurgeNext
      BY <1>3, AptIsAnActor DEF CreateFallback, PurgeNext, Kinds, Modes, Found
    <2>2. ~FallbackFailed /\ ~PurgeStep
      BY <1>4, AptIsAnActor DEF FallbackFailed, PurgeStep
    <2>3. ~BindCreate /\ ~BindRefused /\ ~CoordDies
      BY <1>5 DEF BindCreate, BindRefused, CoordDies
    <2> QED
      BY <1>6, <2>1, <2>2, <2>3
      DEF CoordStep, ValidateReady, BindLock, BindVerify, Cancel, Outcome, RecordOutcome,
          RollbackSettled, storeVars
  <1>9. \A b \in Users : ~HelperStep(b)
    <2>1. \A k \in CreateKinds : k \in Kinds /\ (k = "Factory") \in BOOLEAN
      BY CoordinationAssumption DEF CoordAssumption, Kinds
    <2>2. Users \subseteq Actors /\ DeleteModes \subseteq Modes
      BY CoordinationAssumption DEF CoordAssumption, Modes
    <2> QED
      BY <1>3, <2>1, <2>2 DEF HelperStep
  <1>10. ~ReaderStep
    BY <1>6 DEF ReaderStep, BrowseOpen, BrowseClose, SetPinned, IntervalPasses
  <1> QED
    BY <1>2, <1>7, <1>8, <1>9, <1>10 DEF Next, Work, Fault

(* What discover finds and calls Ready is really there.                    *)
LEMMA RestorableIsIntact ==
  ASSUME StoreOK, NEW i \in Restorable
  PROVE  i \in Ids /\ Intact(i)
  BY DEF StoreOK, StoreTypes, Restorable, Found, Issue, CanRestore, ValidRecord, Intact

LEMMA SnapshotsAreFinite ==
  /\ IsFiniteSet(Ids)
  /\ \A S \in SUBSET Ids : IsFiniteSet(S) /\ Cardinality(S) \in Nat
  <1>1. IsFiniteSet(Ids)
    BY CoordinationAssumption, FS_Interval DEF Ids, SnapshotAssumption
  <1>2. \A S \in SUBSET Ids : IsFiniteSet(S) /\ Cardinality(S) \in Nat
    BY <1>1, FS_Subset, FS_CardinalityType
  <1> QED
    BY <1>1, <1>2

LEMMA FloorStep ==
  ASSUME CoordinationOK, Next, NEW a \in Actors,
         At(a, "dCheck"), job[a].mode = "auto", job'[a].step = "dSub", CanRestore(job[a].id)
  PROVE  Cardinality({i \in Ids \ {job[a].id} : Intact(i)}) >= MinRestorable
  <1> DEFINE i == job[a].id
             left == {j \in Ids \ {i} : Intact(j)}
  <1>1. StoreOK
    BY InvariantParts
  <1>2. rec[i].state # "Deleting" /\ DeletionAllowed(i, "auto", PackageRefers(i))
    BY MarkIsChecked DEF DeleteMark, CanRestore
  <1>3. Cardinality(Restorable) > MinRestorable
    BY <1>2 DEF DeletionAllowed, CleanupAllows
  <1>4. Restorable \subseteq Ids /\ Restorable \ {i} \subseteq left /\ left \subseteq Ids
    BY <1>1, RestorableIsIntact
  <1>5. Cardinality(Restorable \ {i}) >= Cardinality(Restorable) - 1
    BY <1>4, SnapshotsAreFinite, FS_RemoveElement, SMTT(30)
  <1>6. Cardinality(Restorable \ {i}) <= Cardinality(left)
    BY <1>4, SnapshotsAreFinite, FS_Subset
  <1>7. /\ Cardinality(Restorable) \in Nat /\ Cardinality(Restorable \ {i}) \in Nat
        /\ Cardinality(left) \in Nat /\ MinRestorable \in Nat
    BY <1>4, SnapshotsAreFinite, CoordinationAssumption DEF StoreAssumption
  <1> QED
    BY <1>3, <1>5, <1>6, <1>7

(* Automatic cleanup never takes the last snapshots that really exist,     *)
(* although the count it relies on reads records only.                     *)
THEOREM FloorIsKept == Spec => [][CleanupKeepsFloor]_vars
  <1>1. CoordinationOK /\ [Next]_vars => [CleanupKeepsFloor]_vars
    BY FloorStep DEF CleanupKeepsFloor
  <1> QED
    BY <1>1, CoordinationIsOK, PTL DEF Spec

-----------------------------------------------------------------------------
(* Scheduled snapshots.  Only a creation that found none due adds one, and *)
(* the next creation starts when it is over.                               *)
CaughtUp(i) == i \in fresh /\ Intact(i) /\ rec[i].kind = "Automatic"
UnderWay(a) == job[a].step \in {"mkdir", "snapshot", "commit"}
OneAtMost ==
    /\ \A i, j \in Ids : CaughtUp(i) /\ CaughtUp(j) => i = j
    /\ \A a \in Actors : UnderWay(a) /\ rec[job[a].id].kind = "Automatic" =>
           \A i \in Ids : ~CaughtUp(i)

(* A step that adds no such snapshot and starts no such creation.          *)
AddsNone ==
    /\ \A i \in Ids : CaughtUp(i)' => CaughtUp(i)
    /\ \A a \in Actors : UnderWay(a)' =>
           /\ UnderWay(a) /\ job'[a].id = job[a].id
           /\ rec'[job[a].id].kind = rec[job[a].id].kind

LEMMA AddingNone ==
  ASSUME OneAtMost, AddsNone
  PROVE  OneAtMost'
  BY DEF OneAtMost, AddsNone

LEMMA JobStepAdds ==
  ASSUME StoreOK, OneAtMost, NEW a \in Actors, StoreStep(a) \/ CreateFails(a) \/ JobEnds(a)
  PROVE  OneAtMost'
  <1> DEFINE i == job[a].id
  <1>1. /\ OnlyOwnJob(a) /\ StoreTypes /\ i \in Ids /\ Exists(i) /\ rec[i] \in Records
        /\ \A b \in Actors \ {a} : job'[b] = job[b] /\ ~UnderWay(b)
    BY StoreStepOwnJob, OneJobAtATime
    DEF StoreOK, OnlyOwnJob, Active, UnderWay, CreateSteps
  <1>2. \A result \in {"idle", "done", "failed"} : Finish(a, result) => job'[a].step \in {result, "idle"}
    BY <1>1, FinishEffect
  <1>3. \A step \in JobSteps : Goto(a, step) => job'[a].step = step /\ job'[a].id = i
    BY <1>1, GotoEffect
  <1>4. UnderWay(a) => rec[i].state = "Creating"
    BY DEF StoreOK, JobOK, Making, UnderWay
  <1>5. CASE CreateDirectory(a) \/ CreateSnapshot(a)
    <2>1. /\ UnderWay(a) /\ job'[a].id = i
          /\ \A j \in Ids \ {i} : sub'[j] = sub[j]
          /\ rec' = rec /\ fresh' = fresh
      BY <1>1, <1>3, <1>5 DEF CreateDirectory, CreateSnapshot, UnderWay, At, JobSteps, StoreTypes
    <2>2. AddsNone
      BY <1>1, <1>4, <2>1 DEF AddsNone, CaughtUp, Intact, CanRestore, Exists, UnderWay
    <2> QED
      BY <2>2, AddingNone
  <1>6. CASE CreateCommit(a)
    <2>1. /\ UnderWay(a) /\ ~UnderWay(a)'
          /\ rec'[i] = [rec[i] EXCEPT !.state = "Ready", !.uuid = TRUE]
          /\ \A j \in Ids \ {i} : rec'[j] = rec[j]
          /\ sub' = sub /\ fresh' = fresh
      BY <1>1, <1>3, <1>6 DEF CreateCommit, WriteRecord, UnderWay, At, JobSteps, StoreTypes
    <2>2. rec'[i].kind = rec[i].kind
      BY <1>1, <2>1 DEF Records
    <2>3. \A j \in Ids \ {i} : CaughtUp(j)' <=> CaughtUp(j)
      BY <2>1 DEF CaughtUp, Intact, CanRestore, Exists
    <2>4. \A j \in Ids : j = i /\ CaughtUp(j)' => rec[i].kind = "Automatic"
      BY <2>2 DEF CaughtUp
    <2>5. \A b \in Actors : ~UnderWay(b)'
      BY <1>1, <2>1 DEF UnderWay
    <2> QED
      BY <1>1, <2>1, <2>3, <2>4, <2>5 DEF OneAtMost
  <1>7. CASE \/ CreateLineage(a) \/ CreateFails(a) \/ DeleteLock(a) \/ DeleteLineage(a)
             \/ DeleteRefused(a, PackageRefers(i)) \/ JobEnds(a)
    <2>1. ~UnderWay(a)' /\ UNCHANGED <<rec, sub, fresh>>
      BY <1>2, <1>3, <1>7
      DEF CreateLineage, CreateFails, CreateFailsEarly, CreateFailsLate, DeleteLock,
          DeleteLineage, DeleteRefused, JobEnds, UnderWay,
          JobSteps
    <2>2. AddsNone
      BY <1>1, <2>1 DEF AddsNone, CaughtUp, Intact, CanRestore, Exists, UnderWay
    <2> QED
      BY <2>2, AddingNone
  <1>8. CASE \/ CreateRevert(a) \/ DeleteSubvolume(a) \/ DeleteDirectory(a)
    <2>1. /\ ~UnderWay(a)' /\ UNCHANGED <<rec, fresh>>
          /\ \A j \in Ids : sub'[j] = "root" => sub[j] = "root"
      BY <1>1, <1>3, <1>8
      DEF CreateRevert, DeleteSubvolume, DeleteDirectory, UnderWay, JobSteps, StoreTypes
    <2>2. AddsNone
      BY <1>1, <2>1 DEF AddsNone, CaughtUp, Intact, CanRestore, Exists, UnderWay
    <2> QED
      BY <2>2, AddingNone
  <1>9. CASE \/ CreateIncomplete(a) \/ DeleteMark(a, PackageRefers(i)) \/ DeleteRecord(a)
    <2>1. /\ ~UnderWay(a)' /\ UNCHANGED <<sub, fresh>>
          /\ \A j \in Ids \ {i} : rec'[j] = rec[j]
          /\ \/ rec'[i] \in {rec[i], NoRecord, [rec[i] EXCEPT !.state = "Deleting"]}
             \/ rec'[i] = [rec[i] EXCEPT !.state = "Incomplete", !.uuid = FALSE]
      BY <1>1, <1>2, <1>3, <1>9
      DEF CreateIncomplete, DeleteMark, DeleteRecord, WriteRecord, UnderWay, JobSteps, StoreTypes
    <2>2. rec'[i] = rec[i] \/ rec'[i] = NoRecord \/ rec'[i].state \in {"Deleting", "Incomplete"}
      BY <1>1, <2>1 DEF Records
    <2>3. AddsNone
      BY <1>1, <2>1, <2>2 DEF AddsNone, CaughtUp, Intact, CanRestore, Exists, UnderWay
    <2> QED
      BY <2>3, AddingNone
  <1> QED
    BY <1>5, <1>6, <1>7, <1>8, <1>9 DEF StoreStep

(* The timers race for operation.lock; who gets it second finds one taken. *)
LEMMA CreateStartAdds ==
  ASSUME StoreOK, OneAtMost, NEW a \in Actors, NEW k \in Kinds, NEW p \in BOOLEAN,
         CreateStart(a, k, p)
  PROVE  OneAtMost'
  <1>1. PICK i \in Ids : /\ ~Exists(i)
                         /\ rec' = [rec EXCEPT ![i] = NewRecord(k, p)]
                         /\ job' = [job EXCEPT ![a] = [step |-> "mkdir", id |-> i, mode |-> "user"]]
                         /\ fresh' = fresh \cup {i}
    BY DEF CreateStart, Unused
  <1>2. /\ \A b \in Actors : ~UnderWay(b)
        /\ sub' = sub /\ (k = "Automatic" => Due)
    BY OneJobAtATime DEF CreateStart, ScheduledIfDue, UnderWay, Active, CreateSteps
  <1>3. /\ rec'[i] = NewRecord(k, p) /\ \A j \in Ids \ {i} : rec'[j] = rec[j]
        /\ job'[a].id = i /\ \A b \in Actors \ {a} : job'[b] = job[b]
    BY <1>1 DEF StoreOK, StoreTypes
  <1>4. NewRecord(k, p).state = "Creating" /\ NewRecord(k, p).kind = k
    BY DEF NewRecord
  <1>5. ~CaughtUp(i)' /\ \A j \in Ids \ {i} : CaughtUp(j)' => CaughtUp(j)
    BY <1>1, <1>2, <1>3, <1>4 DEF CaughtUp, Intact, CanRestore, Exists
  <1>6. k = "Automatic" => \A j \in Ids : ~CaughtUp(j)
    BY <1>2 DEF Due, CaughtUp, Found, Issue, Intact, CanRestore
  <1>7. \A b \in Actors : UnderWay(b)' => b = a
    BY <1>2, <1>3 DEF UnderWay
  <1> QED
    BY <1>3, <1>4, <1>5, <1>6, <1>7 DEF OneAtMost

LEMMA OneAtMostKept ==
  ASSUME CoordinationOK, OneAtMost, [Next]_vars
  PROVE  OneAtMost'
  <1>1. StoreOK /\ StoreTypes
    BY InvariantParts DEF StoreOK
  <1>2. ASSUME UNCHANGED <<rec, sub, fresh>>,
               \A a \in Actors : UnderWay(a)' => job'[a] = job[a]
        PROVE  OneAtMost'
    <2>1. AddsNone
      BY <1>2 DEF AddsNone, CaughtUp, Intact, CanRestore, Exists, UnderWay
    <2> QED
      BY <2>1, AddingNone
  <1>3. ASSUME NEW b \in Actors, \/ \E k \in Kinds, p \in BOOLEAN : CreateStart(b, k, p)
                                 \/ \E i \in Ids, mode \in Modes : DeleteStart(b, i, mode)
        PROVE  OneAtMost'
    <2>1. CASE \E k \in Kinds, p \in BOOLEAN : CreateStart(b, k, p)
      BY <1>1, <2>1, CreateStartAdds
    <2>2. CASE \E i \in Ids, mode \in Modes : DeleteStart(b, i, mode)
      <3>1. /\ UNCHANGED <<rec, sub, fresh>>
            /\ \A a \in Actors : UnderWay(a)' => job'[a] = job[a]
        BY <1>1, <2>2 DEF DeleteStart, StoreTypes, UnderWay
      <3> QED
        BY <1>2, <3>1
    <2> QED
      BY <1>3, <2>1, <2>2
  <1>4. ASSUME NEW b \in Actors, job' = [job EXCEPT ![b] = Idle], UNCHANGED <<rec, sub, fresh>>
        PROVE  OneAtMost'
    <2>1. \A a \in Actors : UnderWay(a)' => job'[a] = job[a]
      BY <1>1, <1>4 DEF StoreTypes, Idle, UnderWay
    <2> QED
      BY <1>2, <1>4, <2>1
  <1>5. ASSUME Finish(Coord, "idle"), UNCHANGED <<rec, sub, fresh>> PROVE OneAtMost'
    <2>1. \A a \in Actors \ {Coord} : job'[a] = job[a]
      BY <1>1, <1>5, FinishEffect, AptIsAnActor
    <2>2. job'[Coord].step = "idle"
      BY <1>1, <1>5, FinishEffect, AptIsAnActor
    <2>3. \A a \in Actors : UnderWay(a)' => job'[a] = job[a]
      BY <2>1, <2>2 DEF UnderWay
    <2> QED
      BY <1>2, <1>5, <2>3
  <1>6. ASSUME UNCHANGED <<rec, sub, fresh, job>> PROVE OneAtMost'
    BY <1>2, <1>6
  <1>7. CASE HookStep \/ HookDies
    <2>1. CASE HookCreatePre \/ HookCreatePost
      BY <1>3, <2>1, AptIsAnActor DEF HookCreatePre, HookCreatePost, Kinds
    <2>2. CASE HookPreDone \/ HookPreFailed \/ HookPostDone \/ HookPostFailed \/ HookDies
      BY <1>4, <2>2, AptIsAnActor DEF HookPreDone, HookPreFailed, HookPostDone, HookPostFailed,
                                      HookDies, EndJob
    <2>3. CASE UNCHANGED storeVars
      BY <1>6, <2>3 DEF storeVars
    <2> QED
      BY <1>7, <2>1, <2>2, <2>3
      DEF HookStep, BeginTransaction, HookSteppedOver, HookSkipPre, HookCreateRefused,
          PostWithoutSnapshot, HookPostRefused
  <1>8. CASE CoordStep \/ CoordDies
    <2>1. CASE CreateFallback \/ PurgeNext
      BY <1>3, <2>1, AptIsAnActor DEF CreateFallback, PurgeNext, Kinds, Modes, Found
    <2>2. CASE FallbackFailed \/ PurgeStep
      BY <1>4, <2>2, AptIsAnActor DEF FallbackFailed, PurgeStep
    <2>3. CASE BindCreate \/ BindRefused \/ CoordDies
      BY <1>5, <2>3 DEF BindCreate, BindRefused, CoordDies
    <2>4. CASE UNCHANGED <<rec, sub, fresh, job>>
      BY <1>6, <2>4
    <2> QED
      BY <1>8, <2>1, <2>2, <2>3, <2>4
      DEF CoordStep, ValidateReady, BindLock, BindVerify, Cancel, Outcome, RecordOutcome,
          RollbackSettled, storeVars
  <1>9. ASSUME NEW b \in Users, HelperStep(b) PROVE OneAtMost'
    <2>1. \A k \in CreateKinds : k \in Kinds /\ (k = "Factory") \in BOOLEAN
      BY CoordinationAssumption DEF CoordAssumption, Kinds
    <2>2. Users \subseteq Actors /\ DeleteModes \subseteq Modes
      BY CoordinationAssumption DEF CoordAssumption, Modes
    <2> QED
      BY <1>3, <1>9, <2>1, <2>2 DEF HelperStep
  <1>10. CASE ReaderStep
    <2>1. ASSUME NEW i \in Ids, NEW p \in BOOLEAN, SetPinned(i, p) PROVE OneAtMost'
      <3>1. /\ rec[i] \in Records /\ rec'[i] = [rec[i] EXCEPT !.pinned = p]
            /\ \A j \in Ids \ {i} : rec'[j] = rec[j]
            /\ UNCHANGED <<sub, fresh, job>> /\ \A a \in Actors : ~UnderWay(a)
        BY <1>1, <2>1, RecordAt, OneJobAtATime
        DEF SetPinned, WriteRecord, StoreTypes, UnderWay, Active, CreateSteps
      <3>2. rec'[i].state = rec[i].state /\ rec'[i].kind = rec[i].kind /\ Exists(i)
        BY <2>1, <3>1 DEF Records, SetPinned
      <3>3. \A j \in Ids : CaughtUp(j)' => CaughtUp(j)
        BY <3>1, <3>2 DEF CaughtUp, Intact, CanRestore, Exists
      <3>4. \A a \in Actors : ~UnderWay(a)'
        BY <3>1 DEF UnderWay
      <3> QED
        BY <3>3, <3>4, AddingNone DEF AddsNone
    <2>2. ASSUME IntervalPasses PROVE OneAtMost'
      BY <2>2 DEF IntervalPasses, OneAtMost, CaughtUp
    <2> QED
      BY <1>6, <1>10, <2>1, <2>2 DEF ReaderStep, BrowseOpen, BrowseClose
  <1>11. CASE UNCHANGED vars
    BY <1>6, <1>11 DEF vars, storeVars
  <1> QED
    BY <1>1, <1>7, <1>8, <1>9, <1>10, <1>11, JobStepAdds DEF Next, Work, Fault

(* Timers that fire together, catch up after a reboot or run again after a *)
(* failure take one scheduled snapshot between them in an interval.        *)
THEOREM CatchesUpOnce == Spec => []OneCatchUp
  <1>1. Init => OneAtMost
    BY DEF Init, StoreInit, OneAtMost, CaughtUp, UnderWay, Idle
  <1>2. CoordinationOK /\ OneAtMost => OneCatchUp
    <2> SUFFICES ASSUME CoordinationOK, OneAtMost PROVE OneCatchUp
      OBVIOUS
    <2> DEFINE S == {i \in fresh : Intact(i) /\ rec[i].kind = "Automatic"}
    <2>1. S \subseteq Ids /\ \A i, j \in S : i = j
      BY DEF CoordinationOK, TypeOK, OneAtMost, CaughtUp
    <2>2. CASE S = {}
      BY <2>2, FS_EmptySet DEF OneCatchUp
    <2>3. ASSUME NEW i \in S PROVE OneCatchUp
      <3>1. S = {i}
        BY <2>1, <2>3
      <3> QED
        BY <3>1, FS_Singleton DEF OneCatchUp
    <2> QED
      BY <2>2, <2>3
  <1>3. CoordinationOK /\ OneAtMost /\ [Next]_vars => OneAtMost'
    BY OneAtMostKept
  <1> QED
    BY <1>1, <1>2, <1>3, CoordinationIsOK, PTL DEF Spec
=============================================================================
