--------------------------- MODULE SnapshotStore ---------------------------
(***************************************************************************)
(* The store of system snapshots (operations.rs, store.rs, model.rs): one  *)
(* metadata record and one container per snapshot, changed step by step    *)
(* under operation.lock by several processes, any of which may fail or die *)
(* between two steps.  operation.lock is only tried; start.lock is waited  *)
(* for.  Files are written by rename, so a record is always whole.         *)
(*                                                                         *)
(* system-lineage.json (lineage.rs) is a value of the store, and its       *)
(* mutations are operators.  A mutation that the code refuses gives        *)
(* Refused: nothing is saved then.  Recovery points are numbered in order  *)
(* of creation, which stands for created_at.                               *)
(***************************************************************************)
EXTENDS Naturals, FiniteSets

CONSTANTS
    MaxSnapshots,      \* bound: system snapshots ever created
    None,              \* no value: an absent record, a refused mutation
    Actors,            \* processes that use the engine
    Hooks,             \* actors whose caller waits for the result of a job
    NoActor,
    LegacyStates,      \* states a snapshot of a store without lineage may have
    MinRestorable      \* floor of automatic cleanup

VARIABLES
    rec,         \* rec[i]: metadata/<i>.json
    sub,         \* sub[i]: deployments/<i>: none, empty, or holding root
    lin,         \* history/system-lineage.json
    job,         \* job[a]: what actor a is doing
    opLock,      \* holder of operation.lock
    startLock,   \* holder of transactions/start.lock
    browsed,     \* snapshots under a shared browse lock
    fresh,       \* snapshots younger than the scheduled interval
    halfUndone,  \* snapshots whose committed creation was being reverted
    pending      \* transactions/pending.json, as far as the store reads it

storeVars == <<rec, sub, lin, job, opLock, startLock, browsed, fresh, halfUndone>>

-----------------------------------------------------------------------------
(* The lineage.                                                            *)
Ids == 1..MaxSnapshots
NoId == 0
Refused == None

(* A node is available, or removed once its snapshot is deleted.           *)
NodeStates == {"absent", "available", "removed"}

Lineages == [saved  : BOOLEAN,
             node   : [Ids -> NodeStates],
             parent : [Ids -> Ids \cup {NoId}],
             head   : Ids \cup {NoId}]

SnapshotAssumption == MaxSnapshots \in Nat /\ None \notin Lineages

NoLineage == [saved  |-> FALSE,
              node   |-> [i \in Ids |-> "absent"],
              parent |-> [i \in Ids |-> NoId],
              head   |-> NoId]

Known(l, i) == l.node[i] # "absent"

(* validate: head and parents are nodes, and no chain of parents closes.   *)
Acyclic(l) ==
    ~ \E S \in (SUBSET Ids) \ {{}} : \A i \in S : l.parent[i] \in S
ValidLineage(l) ==
    /\ l.head # NoId => Known(l, l.head)
    /\ \A i \in Ids : l.parent[i] # NoId => Known(l, i) /\ Known(l, l.parent[i])
    /\ Acyclic(l)

Mutate(l, new) == IF l.saved /\ ValidLineage(new) THEN new ELSE Refused

(* migrate and ensure_initialized: a store that predates the lineage file  *)
(* starts with detached nodes for the snapshots found, the newest one that *)
(* can be restored as head.  A snapshot on its way out would be a node     *)
(* neither available nor removed, which validate refuses.                  *)
Migrate(found, deleting, restorable) ==
    [saved  |-> TRUE,
     node   |-> [i \in Ids |-> IF i \in found THEN "available" ELSE "absent"],
     parent |-> [i \in Ids |-> NoId],
     head   |-> IF restorable = {} THEN NoId
                ELSE CHOOSE i \in restorable : \A j \in restorable : j <= i]
EnsureInitialized(l, found, deleting, restorable) ==
    IF l.saved THEN l
    ELSE IF deleting # {} THEN Refused
    ELSE Migrate(found, deleting, restorable)

RecordRecoveryPoint(l, i) ==
    IF Known(l, i) THEN l
    ELSE Mutate(l, [l EXCEPT !.node[i] = "available", !.parent[i] = l.head, !.head = i])

(* Mutant: the node of a deleted snapshot is dropped.                      *)
DropNode(l, i) == [l EXCEPT !.node[i] = "absent"]

MarkSnapshotRemoved(l, i) ==
    IF Known(l, i) THEN Mutate(l, [l EXCEPT !.node[i] = "removed"]) ELSE Refused

(* record_activation: the head moves to the root that now runs.            *)
RecordActivation(l, target, fallback, confirmed) ==
    IF Known(l, target) /\ Known(l, fallback)
    THEN Mutate(l, [l EXCEPT !.head = IF confirmed THEN target ELSE fallback])
    ELSE Refused

-----------------------------------------------------------------------------
(* The records.                                                            *)
Kinds == {"Factory", "Manual", "Automatic", "AptPre", "AptPost", "PreRollback"}
Ordinary == Kinds \ {"Factory"}
States == {"Creating", "Ready", "Incomplete", "Broken", "Deleting"}
Records == [kind : Kinds, state : States, pinned : BOOLEAN, uuid : BOOLEAN]
NoRecord == None
NewRecord(k, p) == [kind |-> k, state |-> "Creating", pinned |-> p, uuid |-> FALSE]

CanTransitionState(s, next) ==
    \/ s = "Creating" /\ next \in {"Ready", "Incomplete", "Broken", "Deleting"}
    \/ s = "Ready" /\ next \in {"Deleting", "Broken"}
    \/ s = "Incomplete" /\ next \in {"Deleting", "Broken"}
    \/ s = "Broken" /\ next = "Deleting"

ValidRecord(r) == (r.kind = "Factory" => r.pinned) /\ (r.state = "Ready" => r.uuid)

Exists(i) == rec[i] # NoRecord
CanRestore(i) == Exists(i) /\ rec[i].state = "Ready"
CanDelete(r) == ~r.pinned /\ r.state \in {"Creating", "Ready", "Incomplete", "Broken"}

(* discover: a record that names a snapshot which is not there is an issue *)
(* instead of a result, unless its deletion has begun.                     *)
Issue(i) == Exists(i) /\ rec[i].uuid /\ rec[i].state # "Deleting" /\ sub[i] # "root"
Found == {i \in Ids : Exists(i) /\ ~Issue(i)}
NoIssues == \A i \in Ids : ~Issue(i)
Restorable == {i \in Found : CanRestore(i)}

(* scheduled_snapshot_due                                                  *)
Due == ~ \E i \in Found : rec[i].state = "Ready" /\ rec[i].kind # "Factory" /\ i \in fresh

(* The lineage as ensure_initialized leaves it.                            *)
Initialized ==
    EnsureInitialized(lin, {i \in Found : rec[i].uuid},
                      {i \in Found : rec[i].uuid /\ rec[i].state = "Deleting"}, Restorable)

(* What the store reads of a pending rollback: the snapshots it refers to, *)
(* whether it purges the history, and its outcome; and whether the lineage *)
(* knows of it.                                                            *)
Outcomes == {"none", "confirmed", "reverted", "failed"}
Pendings == [target : Ids, fallback : Ids, purge : BOOLEAN,
             outcome : Outcomes, recorded : BOOLEAN]
NoPending == None

StoreAssumption ==
    /\ Hooks \subseteq Actors /\ NoActor \notin Actors
    /\ LegacyStates \subseteq States /\ MinRestorable \in Nat
    /\ None \notin Records \cup Pendings

PurgePending == pending # NoPending /\ pending.purge

JobSteps == {"idle", "done", "failed",
             "mkdir", "snapshot", "commit", "lineage", "revert", "incomplete",
             "dLock", "dCheck", "dSub", "dDir", "dLineage", "dRecord"}
Modes == {"user", "auto", "factory", "purge"}
Jobs == [step : JobSteps, id : Ids \cup {NoId}, mode : Modes]
Idle == [step |-> "idle", id |-> NoId, mode |-> "user"]

StoreInit ==
    /\ \E legacy \in LegacyStates \cup {NoRecord} :
           /\ rec = [i \in Ids |-> IF i = 1 /\ legacy # NoRecord
                        THEN [NewRecord("Manual", FALSE) EXCEPT !.state = legacy, !.uuid = TRUE]
                        ELSE NoRecord]
           /\ sub = [i \in Ids |-> IF i = 1 /\ legacy # NoRecord THEN "root" ELSE "none"]
    /\ lin = NoLineage
    /\ job = [a \in Actors |-> Idle]
    /\ opLock = NoActor /\ startLock = NoActor
    /\ browsed = {} /\ fresh = {} /\ halfUndone = {}

At(a, step) == job[a].step = step
Goto(a, step) == job' = [job EXCEPT ![a].step = step]

(* A job ends: its locks are dropped with its file descriptors.            *)
Finish(a, result) ==
    /\ job' = [job EXCEPT ![a] = IF a \in Hooks THEN [@ EXCEPT !.step = result] ELSE Idle]
    /\ opLock' = IF opLock = a THEN NoActor ELSE opLock
    /\ startLock' = IF startLock = a THEN NoActor ELSE startLock

WriteRecord(i, r) == ValidRecord(r) /\ rec' = [rec EXCEPT ![i] = r]
----------------------------------------------------------------------------

(* Creation.  create_scheduled_if_due and create_factory_if_missing decide *)
(* under the lock whether there is anything to do.                         *)
ScheduledIfDue(k) == k = "Automatic" => Due
FactoryIfMissing(k) == k = "Factory" => NoIssues /\ ~ \E i \in Found : rec[i].kind = "Factory"

Unused == {i \in Ids : ~Exists(i) /\ ~Known(lin, i) /\ \A a \in Actors : job[a].id # i}

(* ensure_creation_allowed and ensure_initialized, with the lock taken.    *)
CreateStart(a, k, p) ==
    /\ At(a, "idle") /\ opLock = NoActor
    /\ k = "Factory" => p
    /\ ScheduledIfDue(k) /\ FactoryIfMissing(k)
    /\ ~PurgePending
    /\ Initialized # Refused
    /\ lin' = Initialized
    /\ \E i \in Unused :
           /\ \A j \in Unused : i <= j
           /\ rec' = [rec EXCEPT ![i] = NewRecord(k, p)]
           /\ job' = [job EXCEPT ![a] = [step |-> "mkdir", id |-> i, mode |-> "user"]]
           /\ fresh' = fresh \cup {i}
    /\ opLock' = a
    /\ UNCHANGED <<sub, startLock, browsed, halfUndone>>

CreateDirectory(a) ==
    /\ At(a, "mkdir") /\ Goto(a, "snapshot")
    /\ sub' = [sub EXCEPT ![job[a].id] = "empty"]
    /\ UNCHANGED <<rec, lin, opLock, startLock, browsed, fresh, halfUndone>>

CreateSnapshot(a) ==
    /\ At(a, "snapshot") /\ Goto(a, "commit")
    /\ sub' = [sub EXCEPT ![job[a].id] = "root"]
    /\ UNCHANGED <<rec, lin, opLock, startLock, browsed, fresh, halfUndone>>

CreateCommit(a) ==
    /\ At(a, "commit") /\ Goto(a, "lineage")
    /\ CanTransitionState(rec[job[a].id].state, "Ready")
    /\ WriteRecord(job[a].id, [rec[job[a].id] EXCEPT !.state = "Ready", !.uuid = TRUE])
    /\ UNCHANGED <<sub, lin, opLock, startLock, browsed, fresh, halfUndone>>

CreateLineage(a) ==
    /\ At(a, "lineage")
    /\ RecordRecoveryPoint(lin, job[a].id) # Refused
    /\ lin' = RecordRecoveryPoint(lin, job[a].id)
    /\ Finish(a, "done")
    /\ UNCHANGED <<rec, sub, browsed, fresh, halfUndone>>

(* A command or a write fails before the record is Ready.                  *)
CreateFailsEarly(a) ==
    /\ job[a].step \in {"mkdir", "snapshot", "commit"}
    /\ Goto(a, "revert")
    /\ UNCHANGED <<rec, sub, lin, opLock, startLock, browsed, fresh, halfUndone>>

(* The write of Ready reached the disk and reported an error, or the write *)
(* of the lineage fails: before its rename, or after it, so that the node  *)
(* is there and is the head while the snapshot is cleaned up.              *)
CreateFailsLate(a) ==
    /\ At(a, "lineage") /\ Goto(a, "revert")
    /\ halfUndone' = halfUndone \cup {job[a].id}
    /\ \/ UNCHANGED lin
       \/ /\ RecordRecoveryPoint(lin, job[a].id) # Refused
          /\ lin' = RecordRecoveryPoint(lin, job[a].id)
    /\ UNCHANGED <<rec, sub, opLock, startLock, browsed, fresh>>

CreateFails(a) == CreateFailsEarly(a) \/ CreateFailsLate(a)

(* cleanup_snapshot, which may itself fail before or after the subvolume   *)
(* is gone.                                                                *)
CreateRevert(a) ==
    /\ At(a, "revert") /\ Goto(a, "incomplete")
    /\ \E left \in {"none", "empty", sub[job[a].id]} :
           /\ sub[job[a].id] = "none" => left = "none"
           /\ sub' = [sub EXCEPT ![job[a].id] = left]
    /\ UNCHANGED <<rec, lin, opLock, startLock, browsed, fresh, halfUndone>>

(* The failure is recorded, or its write fails too.                        *)
CreateIncomplete(a) ==
    /\ At(a, "incomplete")
    /\ \/ WriteRecord(job[a].id, [rec[job[a].id] EXCEPT !.state = "Incomplete", !.uuid = FALSE])
       \/ UNCHANGED rec
    /\ Finish(a, "failed")
    /\ UNCHANGED <<sub, lin, browsed, fresh, halfUndone>>
----------------------------------------------------------------------------
(* Deletion: delete_with_restorable_floor.                                 *)
DeleteStart(a, i, mode) ==
    /\ At(a, "idle") /\ opLock = NoActor /\ Exists(i)
    /\ job' = [job EXCEPT ![a] = [step |-> "dLock", id |-> i, mode |-> mode]]
    /\ opLock' = a
    /\ UNCHANGED <<rec, sub, lin, startLock, browsed, fresh, halfUndone>>

DeleteLock(a) ==
    /\ At(a, "dLock") /\ startLock = NoActor
    /\ startLock' = a
    /\ Goto(a, "dCheck")
    /\ UNCHANGED <<rec, sub, lin, opLock, browsed, fresh, halfUndone>>

(* validate_consent                                                        *)
Consent ==
    /\ PurgePending /\ pending.outcome = "confirmed"
    /\ CanRestore(pending.target)
    /\ rec[pending.target].kind = "Factory" /\ rec[pending.target].pinned

(* ensure_not_transaction_referenced, for the pending rollback.            *)
ReferencedByRollback(i, purge) ==
    /\ pending # NoPending
    /\ pending.target = i \/ (pending.fallback = i /\ ~purge)

(* The floor of automatic cleanup.                                         *)
CleanupAllows(i) ==
    /\ rec[i].kind \in Ordinary /\ ~rec[i].pinned
    /\ NoIssues
    /\ CanRestore(i) => Cardinality(Restorable) > MinRestorable

DeletionAllowed(i, mode, byPackage) ==
    /\ i \notin browsed
    /\ mode = "purge" => Consent /\ rec[i].kind # "Factory"
    /\ ~ReferencedByRollback(i, mode = "purge") /\ ~byPackage
    /\ mode = "factory" => rec[i].kind = "Factory"
    /\ rec[i].state # "Deleting" =>
           /\ mode = "auto" => CleanupAllows(i)
           /\ \/ CanDelete(rec[i]) \/ mode = "purge"
              \/ mode = "factory" /\ rec[i].state \in {"Ready", "Incomplete", "Broken"}
           /\ CanTransitionState(rec[i].state, "Deleting")

DeleteMark(a, byPackage) ==
    /\ At(a, "dCheck")
    /\ Exists(job[a].id)
    /\ DeletionAllowed(job[a].id, job[a].mode, byPackage)
    /\ WriteRecord(job[a].id, [rec[job[a].id] EXCEPT !.state = "Deleting"])
    /\ Goto(a, "dSub")
    /\ UNCHANGED <<sub, lin, opLock, startLock, browsed, fresh, halfUndone>>

DeleteRefused(a, byPackage) ==
    /\ At(a, "dCheck")
    /\ ~(Exists(job[a].id) /\ DeletionAllowed(job[a].id, job[a].mode, byPackage))
    /\ Finish(a, "failed")
    /\ UNCHANGED <<rec, sub, lin, browsed, fresh, halfUndone>>

(* Mutant: the container is left behind.                                   *)
DeleteSubvolumeOnly(a) ==
    /\ At(a, "dSub") /\ Goto(a, "dLineage")
    /\ sub' = [sub EXCEPT ![job[a].id] = IF @ = "root" THEN "empty" ELSE @]
    /\ UNCHANGED <<rec, lin, opLock, startLock, browsed, fresh, halfUndone>>

DeleteSubvolume(a) ==
    /\ At(a, "dSub") /\ Goto(a, "dDir")
    /\ sub' = [sub EXCEPT ![job[a].id] = IF @ = "root" THEN "empty" ELSE @]
    /\ UNCHANGED <<rec, lin, opLock, startLock, browsed, fresh, halfUndone>>

DeleteDirectory(a) ==
    /\ At(a, "dDir") /\ Goto(a, "dLineage")
    /\ sub' = [sub EXCEPT ![job[a].id] = "none"]
    /\ UNCHANGED <<rec, lin, opLock, startLock, browsed, fresh, halfUndone>>

Removal(i) == IF Initialized = Refused THEN Refused ELSE MarkSnapshotRemoved(Initialized, i)

DeleteLineage(a) ==
    /\ At(a, "dLineage")
    /\ IF Removal(job[a].id) = Refused
       THEN Finish(a, "failed") /\ UNCHANGED lin
       ELSE lin' = Removal(job[a].id) /\ Goto(a, "dRecord") /\ UNCHANGED <<opLock, startLock>>
    /\ UNCHANGED <<rec, sub, browsed, fresh, halfUndone>>

DeleteRecord(a) ==
    /\ At(a, "dRecord")
    /\ rec' = [rec EXCEPT ![job[a].id] = NoRecord]
    /\ Finish(a, "done")
    /\ UNCHANGED <<sub, lin, browsed, fresh, halfUndone>>

(* A step of a deletion fails, or the process of any job dies.             *)
JobEnds(a) ==
    /\ job[a].step \notin {"idle", "done", "failed"}
    /\ Finish(a, "failed")
    /\ UNCHANGED <<rec, sub, lin, browsed, fresh, halfUndone>>
----------------------------------------------------------------------------
(* Operations of one durable write under operation.lock.                   *)
SetPinned(i, p) ==
    /\ opLock = NoActor /\ Exists(i)
    /\ rec[i].state # "Deleting" /\ (rec[i].kind = "Factory" => p)
    /\ WriteRecord(i, [rec[i] EXCEPT !.pinned = p])
    /\ UNCHANGED <<sub, lin, job, opLock, startLock, browsed, fresh, halfUndone>>

(* verify, and check_available which hashes nothing, with operation.lock.  *)
Verified(i) == opLock = NoActor /\ CanRestore(i) /\ sub[i] = "root"
Available(i) == opLock = NoActor /\ CanRestore(i) /\ sub[i] = "root"

(* SystemSnapshotBrowser::open waits for the deletion holding the browse   *)
(* lock and fails if the root is gone.                                     *)
BrowseOpen(i) ==
    /\ sub[i] = "root"
    /\ ~ \E a \in Actors : job[a].id = i /\ job[a].step \in {"dSub", "dDir", "dLineage", "dRecord"}
    /\ browsed' = browsed \cup {i}
    /\ UNCHANGED <<rec, sub, lin, job, opLock, startLock, fresh, halfUndone>>

BrowseClose(i) ==
    /\ i \in browsed
    /\ browsed' = browsed \ {i}
    /\ UNCHANGED <<rec, sub, lin, job, opLock, startLock, fresh, halfUndone>>

IntervalPasses ==
    /\ fresh' = {}
    /\ UNCHANGED <<rec, sub, lin, job, opLock, startLock, browsed, halfUndone>>
============================================================================
