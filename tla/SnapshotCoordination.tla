------------------------ MODULE SnapshotCoordination ------------------------
(***************************************************************************)
(* The snapshot store, APT's hook and the rollback coordinator together:   *)
(* what they exclude each other from with operation.lock (tried) and       *)
(* start.lock (waited for), and what a death of any of them leaves to the  *)
(* others.  The switch itself is one step here; RollbackLifecycle has it   *)
(* in detail.                                                              *)
(***************************************************************************)
EXTENDS PackageHook, Sequences

CONSTANTS
    Coord,          \* the actor that schedules and settles rollbacks
    Users,          \* actors of the helper: creation, deletion, cleanup
    MaxFaults,      \* bound: steps that fail and processes that die
    CreateKinds,    \* what a user of the helper creates
    DeleteModes,    \* how he deletes: "user", "factory", or "auto" by cleanup
    Pins,           \* whether snapshots are pinned and unpinned
    Browsing,       \* whether they are browsed
    Policies,       \* APT policies a hook may read: snapshots "before", "after", both
    Restores        \* rollbacks that are requested: with a purge or without

CoordAssumption ==
    /\ MaxFaults \in Nat
    /\ Coord \in Hooks /\ Coord # Apt /\ Users \subseteq Actors \ {Apt, Coord}
    /\ CreateKinds \subseteq {"Manual", "Automatic", "Factory"}
    /\ DeleteModes \subseteq {"user", "auto", "factory"}
    /\ Policies \subseteq SUBSET {"before", "after"} /\ Restores \subseteq BOOLEAN

ASSUME CoordinationAssumption ==
    SnapshotAssumption /\ StoreAssumption /\ AptAssumption /\ CoordAssumption

VARIABLES
    coord,     \* where the coordinator is
    faults     \* how many steps have failed or processes died

vars == <<storeVars, packageVars, pending, coord, faults>>

CoordStates == [step : {"idle", "ready", "fallback", "bind", "bound", "purge"},
                target : Ids \cup {NoId}, purge : BOOLEAN]
CoordIdle == [step |-> "idle", target |-> NoId, purge |-> FALSE]

TypeOK ==
    /\ rec \in [Ids -> Records \cup {NoRecord}]
    /\ sub \in [Ids -> {"none", "empty", "root"}]
    /\ lin \in Lineages /\ ValidLineage(lin)
    /\ job \in [Actors -> Jobs]
    /\ opLock \in Actors \cup {NoActor} /\ startLock \in Actors \cup {NoActor}
    /\ browsed \subseteq Ids /\ fresh \subseteq Ids /\ halfUndone \subseteq Ids
    /\ pending \in Pendings \cup {NoPending}
    /\ pkg \in PackageTransactions \cup {NoPackage}
    /\ hook \in Hook /\ coord \in CoordStates /\ faults \in 0..MaxFaults
    /\ \A i \in Ids : Exists(i) => ValidRecord(rec[i])

Init ==
    /\ StoreInit /\ PackageInit
    /\ pending = NoPending /\ coord = CoordIdle /\ faults = 0
----------------------------------------------------------------------------
(* The coordinator, which holds recovery-prepare.lock throughout.          *)

(* check_pre_rollback_capacity: discovery has no open question.            *)
FallbackCapacity == NoIssues

ValidateReady(t, purge) ==
    /\ coord.step = "idle" /\ At(Coord, "idle")
    /\ pending = NoPending /\ pkg = NoPackage
    /\ Verified(t) /\ FallbackCapacity
    /\ purge => rec[t].kind = "Factory"
    /\ coord' = [step |-> "ready", target |-> t, purge |-> purge]
    /\ UNCHANGED <<storeVars, packageVars, pending>>

CreateFallback ==
    /\ coord.step = "ready"
    /\ CreateStart(Coord, "PreRollback", FALSE)
    /\ coord' = [coord EXCEPT !.step = "fallback"]
    /\ UNCHANGED <<packageVars, pending>>

FallbackFailed ==
    /\ \/ coord.step = "ready" /\ (opLock # NoActor \/ Initialized = Refused \/ Unused = {})
       \/ coord.step = "fallback" /\ At(Coord, "failed")
    /\ coord' = CoordIdle
    /\ job' = [job EXCEPT ![Coord] = Idle]
    /\ UNCHANGED <<rec, sub, lin, opLock, startLock, browsed, fresh, halfUndone, packageVars, pending>>

(* create_transaction: start.lock, the package boundary, both snapshots.   *)
BindLock ==
    /\ coord.step = "fallback" /\ At(Coord, "done")
    /\ startLock = NoActor
    /\ startLock' = Coord
    /\ coord' = [coord EXCEPT !.step = "bind"]
    /\ UNCHANGED <<rec, sub, lin, job, opLock, browsed, fresh, halfUndone, packageVars, pending>>

(* Mutant: the check made before the safety snapshot is trusted.           *)
BindUnchecked == pkg = NoPackage

BindAllowed == pkg = NoPackage /\ Verified(coord.target) /\ Verified(job[Coord].id)

BindVerify ==
    /\ coord.step = "bind" /\ BindAllowed
    /\ coord' = [coord EXCEPT !.step = "bound"]
    /\ UNCHANGED <<storeVars, packageVars, pending>>

BindCreate ==
    /\ coord.step = "bound"
    /\ pending' = [target |-> coord.target, fallback |-> job[Coord].id,
                   purge |-> coord.purge, outcome |-> "none", recorded |-> FALSE]
    /\ Finish(Coord, "idle") /\ coord' = CoordIdle
    /\ UNCHANGED <<rec, sub, lin, browsed, fresh, halfUndone, packageVars>>

BindRefused ==
    /\ coord.step = "bind" /\ ~BindAllowed
    /\ Finish(Coord, "idle") /\ coord' = CoordIdle
    /\ UNCHANGED <<rec, sub, lin, browsed, fresh, halfUndone, packageVars, pending>>

CoordDies ==
    /\ coord.step \in {"ready", "fallback", "bind", "bound"} /\ job[Coord].step \in {"idle", "done", "failed"}
    /\ Finish(Coord, "idle") /\ coord' = CoordIdle
    /\ UNCHANGED <<rec, sub, lin, browsed, fresh, halfUndone, packageVars, pending>>
----------------------------------------------------------------------------
(* The rollback's outcome, and the confirmation service that settles it.   *)
Cancel ==
    /\ coord.step = "idle" /\ pending # NoPending /\ pending.outcome = "none"
    /\ pending' = NoPending
    /\ UNCHANGED <<storeVars, packageVars, coord>>

Outcome(o) ==
    /\ pending # NoPending /\ pending.outcome = "none" /\ o # "none"
    /\ pending' = [pending EXCEPT !.outcome = o]
    /\ UNCHANGED <<storeVars, packageVars, coord>>

Settling(o) == pending # NoPending /\ pending.outcome = o /\ coord.step = "idle"

(* record_lineage_activation; a failed rollback has none.                  *)
Activation ==
    IF Initialized = Refused THEN Refused
    ELSE RecordActivation(Initialized, pending.target, pending.fallback,
                          pending.outcome = "confirmed")
RecordOutcome ==
    /\ Settling("confirmed") \/ Settling("reverted")
    /\ ~pending.recorded
    /\ Activation # Refused
    /\ lin' = Activation
    /\ pending' = [pending EXCEPT !.recorded = TRUE]
    /\ UNCHANGED <<rec, sub, job, opLock, startLock, browsed, fresh, halfUndone, packageVars, coord>>

(* purge_at deletes one snapshot after the other and gives up at the first *)
(* that it cannot delete; the service runs again.                          *)
PurgeReady ==
    /\ Settling("confirmed") /\ pending.purge /\ pending.recorded
    /\ Consent /\ NoIssues /\ Available(pending.target)
    /\ {i \in Found : rec[i].kind = "Factory"} = {pending.target}
PurgeNext ==
    /\ PurgeReady
    /\ \E i \in Found : rec[i].kind # "Factory" /\ DeleteStart(Coord, i, "purge")
    /\ coord' = [coord EXCEPT !.step = "purge"]
    /\ UNCHANGED <<packageVars, pending>>
PurgeStep ==
    /\ coord.step = "purge" /\ job[Coord].step \in {"done", "failed"}
    /\ coord' = CoordIdle
    /\ job' = [job EXCEPT ![Coord] = Idle]
    /\ UNCHANGED <<rec, sub, lin, opLock, startLock, browsed, fresh, halfUndone, packageVars, pending>>

(* ensure_only_factory_container                                           *)
OnlyFactoryLeft == Found = {pending.target} /\ \A i \in Ids \ {pending.target} : sub[i] = "none"

RollbackSettled ==
    /\ \/ Settling("failed")
       \/ Settling("reverted") /\ pending.recorded
       \/ Settling("confirmed") /\ pending.recorded /\ (pending.purge => PurgeReady /\ OnlyFactoryLeft)
    /\ pending' = NoPending
    /\ UNCHANGED <<storeVars, packageVars, coord>>
----------------------------------------------------------------------------
StoreStep(a) ==
    \/ CreateDirectory(a) \/ CreateSnapshot(a) \/ CreateCommit(a) \/ CreateLineage(a)
    \/ CreateRevert(a) \/ CreateIncomplete(a)
    \/ DeleteLock(a)
    \/ DeleteMark(a, PackageRefers(job[a].id)) \/ DeleteRefused(a, PackageRefers(job[a].id))
    \/ DeleteSubvolume(a) \/ DeleteDirectory(a) \/ DeleteLineage(a) \/ DeleteRecord(a)
HelperStep(a) ==
    \/ \E k \in CreateKinds : CreateStart(a, k, k = "Factory")
    \/ \E i \in Ids, mode \in DeleteModes : DeleteStart(a, i, mode)
HookStep ==
    \/ \E p \in Policies : \/ BeginTransaction("before" \in p, "after" \in p)
                         \/ HookSteppedOver("before" \in p, "after" \in p)
    \/ HookSkipPre \/ HookCreatePre \/ HookCreateRefused \/ HookPreDone \/ HookPreFailed
    \/ \E p \in Policies : PostWithoutSnapshot("after" \in p)
    \/ HookCreatePost \/ HookPostRefused \/ HookPostDone \/ HookPostFailed
CoordStep ==
    \/ \E t \in Ids, purge \in Restores : ValidateReady(t, purge)
    \/ CreateFallback \/ FallbackFailed \/ BindLock \/ BindVerify \/ BindCreate \/ BindRefused
    \/ Cancel \/ \E o \in Outcomes : Outcome(o)
    \/ RecordOutcome \/ PurgeNext \/ PurgeStep \/ RollbackSettled
ReaderStep ==
    \/ Browsing /\ \E i \in Ids : BrowseOpen(i) \/ BrowseClose(i)
    \/ Pins /\ \E i \in Ids, p \in BOOLEAN : SetPinned(i, p)
    \/ "Automatic" \in CreateKinds /\ IntervalPasses

Fault ==
    /\ faults < MaxFaults /\ faults' = faults + 1
    /\ \/ \E a \in Actors : (CreateFails(a) \/ JobEnds(a)) /\ UNCHANGED <<packageVars, pending, coord>>
       \/ HookDies /\ UNCHANGED <<pending, coord>>
       \/ CoordDies

Work ==
    /\ \/ \E a \in Actors : StoreStep(a) /\ UNCHANGED <<packageVars, pending, coord>>
       \/ \E a \in Users : HelperStep(a) /\ UNCHANGED <<packageVars, pending, coord>>
       \/ HookStep /\ UNCHANGED <<pending, coord>>
       \/ CoordStep
       \/ ReaderStep /\ UNCHANGED <<packageVars, pending, coord>>
    /\ UNCHANGED faults

Next == Work \/ Fault

Spec == Init /\ [][Next]_vars

(* Fairness: a started job goes on, APT runs again some day and finishes,  *)
(* the confirmation service is restarted until it is done, and a deletion  *)
(* that stopped half way is requested again.  Faults are bounded.          *)
Lone(A) == A /\ UNCHANGED <<packageVars, pending, coord, faults>>
Hooked(A) == A /\ UNCHANGED <<pending, coord, faults>>
StoreGoes(a) == Lone(StoreStep(a))
HookGoes == Hooked(hook.step # "idle" /\ HookStep)
CoordGoes == coord.step # "idle" /\ CoordStep /\ UNCHANGED faults
DeleteAgain(i) ==
    \E a \in Users : Lone(Exists(i) /\ rec[i].state = "Deleting" /\ DeleteStart(a, i, "user"))
AptAgain == Hooked(\E p \in Policies : BeginTransaction("before" \in p, "after" \in p))
OutcomeGoes == RecordOutcome /\ UNCHANGED faults
PurgeGoes == PurgeNext /\ UNCHANGED faults
SettleGoes == RollbackSettled /\ UNCHANGED faults
LiveSpec ==
    /\ Spec
    /\ \A a \in Actors : WF_vars(StoreGoes(a))
    /\ WF_vars(HookGoes) /\ WF_vars(CoordGoes) /\ SF_vars(AptAgain)
    /\ \A i \in Ids : SF_vars(DeleteAgain(i))
    /\ SF_vars(OutcomeGoes) /\ SF_vars(PurgeGoes) /\ SF_vars(SettleGoes)
----------------------------------------------------------------------------
(* As long as a rollback is pending, the snapshot it restores and the one  *)
(* it would return to exist and can be restored; only the purge that a     *)
(* confirmed factory reset asked for takes the latter.                     *)
Intact(i) == CanRestore(i) /\ sub[i] = "root"
RestorePointsExist ==
    pending # NoPending =>
        /\ Intact(pending.target)
        /\ Intact(pending.fallback) \/ (pending.purge /\ pending.outcome = "confirmed")

(* A package transaction and a rollback never claim the recovery boundary  *)
(* together, whatever was pending when either of them died.                *)
OneBoundary == ~(pkg # NoPackage /\ pending # NoPending)

(* Automatic cleanup leaves as many snapshots that really exist and can be *)
(* restored as the floor demands, also after an interrupted creation left  *)
(* a record that claims to be Ready.                                       *)
CleanupKeepsFloor ==
    \A a \in Actors :
         At(a, "dCheck") /\ job[a].mode = "auto" /\ job'[a].step = "dSub"
         /\ CanRestore(job[a].id)
         => Cardinality({i \in Ids \ {job[a].id} : Intact(i)}) >= MinRestorable

(* Timers that fire together take one snapshot between them in an interval. *)
OneCatchUp == Cardinality({i \in fresh : Intact(i) /\ rec[i].kind = "Automatic"}) <= 1

(* A recovery point that someone browses is not deleted under him.  The    *)
(* cleanup of a creation that fails takes no browse lock: a snapshot that  *)
(* never became a recovery point may vanish, and so may one whose creation *)
(* failed in its last write, after the lineage file had been renamed.  No  *)
(* deletion ever follows while it is browsed.                              *)
BrowsedExists ==
    \A i \in browsed :
        /\ Known(lin, i) => sub[i] = "root" \/ i \in halfUndone
        /\ sub[i] = "root" \/ (Exists(i) /\ rec[i].state # "Deleting")

(* The lineage does not forget a snapshot nor invent one: a removed node   *)
(* has no snapshot left, an available one has a record.                    *)
LineageAgrees ==
    \A i \in Ids :
        /\ lin.node[i] = "removed" => sub[i] = "none"
        /\ lin.node[i] = "available" => Exists(i)

(* A record that claims a snapshot which is not there comes only from a    *)
(* creation that failed after its commit and whose failure could not be    *)
(* recorded.                                                               *)
IssuesExplained == \A i \in Ids : Issue(i) => i \in halfUndone

(* What is begun is over in the end.  A record that APT left pending does  *)
(* not keep rollbacks out for ever: the next run supersedes it.  Whoever   *)
(* takes operation.lock or start.lock gives it back, so nobody waits for   *)
(* one while its holder waits for the other.  A rollback whose outcome is  *)
(* decided is settled, with its purge.  The interrupted deletion of a      *)
(* recovery point is finished when it is asked for again.                  *)
Unfinished(i) == Exists(i) /\ rec[i].state = "Deleting" /\ Known(lin, i)
Begun == <<pkg # NoPackage, opLock # NoActor, startLock # NoActor,
           pending # NoPending /\ pending.outcome # "none">> \o [i \in Ids |-> Unfinished(i)]
Over == <<pkg = NoPackage, opLock = NoActor, startLock = NoActor,
          pending = NoPending>> \o [i \in Ids |-> ~Exists(i)]
Progress == \A k \in 1..(4 + MaxSnapshots) : Begun[k] ~> Over[k]

(* The same for every snapshot, damaged ones included, which the code does *)
(* not keep.                                                               *)
DeletionFinishes ==
    \A i \in Ids : (Exists(i) /\ rec[i].state = "Deleting") ~> ~Exists(i)
-----------------------------------------------------------------------------
(* What makes these properties inductive.  A job that is under way holds   *)
(* operation.lock, so there is one at a time, and the record it works on   *)
(* is there.                                                               *)
CreateSteps == {"mkdir", "snapshot", "commit", "lineage", "revert", "incomplete"}
MarkedSteps == {"dSub", "dDir", "dLineage", "dRecord"}
Active(a) == job[a].step \in CreateSteps \cup {"dLock", "dCheck"} \cup MarkedSteps
HoldsLock(a) ==
    /\ Active(a) => opLock = a /\ job[a].id \in Ids /\ Exists(job[a].id)
    /\ At(a, "done") => job[a].id \in Ids
    /\ job[a].step \in MarkedSteps \cup {"dCheck"} => startLock = a

(* What a creation has done so far: nothing is known of the recovery point *)
(* before its last step, and a failure after the commit is a half undone   *)
(* creation, of which the lineage may know.                                *)
Making(a) ==
    LET i == job[a].id IN
    /\ job[a].step \in CreateSteps =>
           /\ lin.saved /\ rec[i].state # "Deleting"
           /\ lin.node[i] = "absent"
              \/ (job[a].step \in {"revert", "incomplete"}
                     /\ lin.node[i] = "available" /\ i \in halfUndone)
    /\ job[a].step \in {"mkdir", "snapshot", "commit"} =>
           rec[i].state = "Creating" /\ ~rec[i].uuid
    /\ job[a].step \in {"commit", "lineage"} => sub[i] = "root"
    /\ job[a].step \in {"revert", "incomplete"} => i \in halfUndone \/ ~rec[i].uuid

(* What a deletion has done so far: the mark first, then the snapshot, the *)
(* lineage and the record.                                                 *)
Deleting(a) ==
    LET i == job[a].id IN
    /\ job[a].step \in MarkedSteps => rec[i].state = "Deleting" /\ i \notin browsed
    /\ job[a].step \in {"dLineage", "dRecord"} => sub[i] = "none"
    /\ At(a, "dRecord") => lin.node[i] = "removed"

(* What the hook relies on: the record it began is the pending one.        *)
HookOK == hook.step \in {"begun", "pre", "post"} => pkg # NoPackage

(* A recovery point is safe once nobody is making it any more.             *)
Safe(i) == Intact(i) /\ \A a \in Actors : job[a].step \in CreateSteps => job[a].id # i
CoordOK ==
    /\ coord.step \in {"ready", "fallback", "bind", "bound"} => coord.target \in Ids
    /\ coord.step = "ready" => At(Coord, "idle")
    /\ coord.step \in {"bind", "bound"} => startLock = Coord /\ At(Coord, "done")
    /\ coord.step = "bound" => pkg = NoPackage /\ Safe(coord.target) /\ Safe(job[Coord].id)
RestoreOK ==
    pending # NoPending =>
        /\ Safe(pending.target)
        /\ Safe(pending.fallback) \/ (pending.purge /\ pending.outcome = "confirmed")

LineageOK ==
    /\ LineageAgrees
    /\ ~lin.saved => \A i \in Ids : ~Known(lin, i)

(* The invariant behind the safety properties of the coordination.         *)
CoordinationOK ==
    /\ TypeOK /\ OneBoundary /\ LineageOK /\ IssuesExplained /\ BrowsedExists
    /\ \A a \in Actors : HoldsLock(a) /\ Making(a) /\ Deleting(a)
    /\ HookOK /\ CoordOK /\ RestoreOK
=============================================================================
