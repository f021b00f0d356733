------------------------ MODULE RollbackCoordinator ------------------------
(***************************************************************************)
(* What the running system does with a rollback, before and after the      *)
(* boots that carry it out, under recovery-prepare.lock: scheduling and    *)
(* cancelling (rollback.rs), and the userspace reconciliation              *)
(* (confirmation.rs), a oneshot service that runs in every boot with a     *)
(* pending record or a cleanup record and is restarted when it fails.      *)
(* Each action is one durable step; a step that fails leads to             *)
(* cleanup_failed_schedule, or ends cancel, and power may fail in between. *)
(***************************************************************************)
EXTENDS RecoveryState

UserspaceStep(from, to) ==
    machine = "running" /\ Goto(from, to) /\ UNCHANGED <<hostVars, diskVars>>

(* validate_ready and check_home_ready: one restore at a time.  What they  *)
(* find wrong with a target, the space or the boot files ends the request  *)
(* before anything is written.                                             *)
ValidateReady == pending = NoTransaction

(* create_transaction, with the live subvolumes as they were protected.    *)
CreateTransaction(t) ==
    /\ t \notin used /\ Cardinality(used) < MaxScheduled
    /\ pending' = NewTransaction(t, cur)
    /\ used' = used \cup {t}

(* The safety snapshots make the running root the lineage head.            *)
ScheduleCreate(t) ==
    /\ UserspaceStep("idle", "sGrub")
    /\ ValidateReady
    /\ CreateTransaction(t)
    /\ headRoot' = cur["root"]
    /\ UNCHANGED <<bootVars, lineage, history, cleanupPending, purged, passVars>>

ScheduleGrub ==
    /\ UserspaceStep("sGrub", "sArm")
    /\ RegenerateGrub
    /\ UNCHANGED <<pending, nextEntry, ledgerVars, passVars, used>>

(* Only reached once verify_grub_entry has found the entry in the menu.    *)
ScheduleArm ==
    /\ UserspaceStep("sArm", "sOnce")
    /\ grubEntry[cur["root"]] = pending.id
    /\ CanTransition(pending.phase, "Armed")
    /\ pending' = Transition(pending, "Armed")
    /\ UNCHANGED <<bootVars, ledgerVars, passVars, used>>

ScheduleOnce ==
    /\ UserspaceStep("sOnce", "idle")
    /\ pending.phase = "Armed"
    /\ nextEntry' = pending.id
    /\ UNCHANGED <<pending, grubEntry, ledgerVars, passVars, used>>

(* An error after the record exists, perhaps reported by a grub-editenv    *)
(* that did set the selector: all three cleanups are attempted, whichever  *)
(* of them fail.                                                           *)
ScheduleFails ==
    /\ \/ /\ \E step \in {"sGrub", "sArm", "sOnce"} : UserspaceStep(step, "fClear")
          /\ UNCHANGED nextEntry
       \/ UserspaceStep("sOnce", "fClear") /\ nextEntry' = pending.id
    /\ UNCHANGED <<pending, grubEntry, ledgerVars, passVars, used>>

ClearOnce == nextEntry' = NoTxn
RemoveTransaction == pending' = NoTransaction

FailedScheduleClear ==
    /\ UserspaceStep("fClear", "fRemove")
    /\ ClearOnce \/ UNCHANGED nextEntry
    /\ UNCHANGED <<pending, grubEntry, ledgerVars, passVars, used>>

FailedScheduleRemove ==
    /\ UserspaceStep("fRemove", "fGrub")
    /\ RemoveTransaction \/ UNCHANGED pending
    /\ UNCHANGED <<bootVars, ledgerVars, passVars, used>>

FailedScheduleGrub ==
    /\ UserspaceStep("fGrub", "idle")
    /\ RegenerateGrub \/ UNCHANGED grubEntry
    /\ UNCHANGED <<pending, nextEntry, ledgerVars, passVars, used>>

-----------------------------------------------------------------------------
CancelClear ==
    /\ UserspaceStep("idle", "cClear")
    /\ pending.phase \in {"Preparing", "Armed"}
    /\ ClearOnce
    /\ UNCHANGED <<pending, grubEntry, ledgerVars, passVars, used>>

CancelRemove ==
    /\ UserspaceStep("cClear", "cRemove")
    /\ RemoveTransaction
    /\ UNCHANGED <<bootVars, ledgerVars, passVars, used>>

CancelGrub ==
    /\ UserspaceStep("cRemove", "idle")
    /\ RegenerateGrub
    /\ UNCHANGED <<pending, nextEntry, ledgerVars, passVars, used>>

CancelFails ==
    /\ \E step \in {"cClear", "cRemove"} : UserspaceStep(step, "idle")
    /\ UNCHANGED <<pending, bootVars, ledgerVars, passVars, used>>

Schedule ==
    \/ \E t \in Txns : ScheduleCreate(t)
    \/ ScheduleGrub \/ ScheduleArm \/ ScheduleOnce
    \/ FailedScheduleClear \/ FailedScheduleRemove \/ FailedScheduleGrub

Cancel == CancelClear \/ CancelRemove \/ CancelGrub

CoordinatorNext == Schedule \/ ScheduleFails \/ Cancel \/ CancelFails

-----------------------------------------------------------------------------
(* The confirmation service: is the running system the one asked for?      *)

(* The parent uuid of a subvolume: the snapshot it was cloned from.        *)
ParentUuid(c) == IF c \in Txns THEN Target[c] ELSE Installed

VerifyTargetIdentity ==
    LET t == pending.id IN
    /\ IF HomeOnly(Kind[t]) THEN cur["root"] = pending.base["root"]
                            ELSE ParentUuid(cur["root"]) = Target[t]
    /\ ResetHome(Kind[t]) => ParentUuid(cur["home"]) = Target[t]

VerifyRunningTarget == ExpectedBoot(pending) = "this" /\ VerifyTargetIdentity

(* Mutant: every outcome is entered in the lineage.                        *)
FinishStartLineage(phase) == "lineage"

(* Where finish_confirmed, finish_reverted and finish_failed begin.        *)
FinishStart(phase) ==
    IF HomeOnly(Kind[pending.id]) \/ phase = "Failed"
      THEN (IF phase = "Confirmed" THEN "scheduleCleanup" ELSE "clear")
      ELSE "lineage"

StartsPass == todo' = cleanupPending /\ deferred' = FALSE

-----------------------------------------------------------------------------
(* reconcile: what the service does with the record it finds.              *)

ReconcileCleanups ==
    /\ UserspaceStep("idle", "cleanup")
    /\ pending = NoTransaction /\ cleanupPending # {}
    /\ StartsPass
    /\ UNCHANGED <<pending, bootVars, ledgerVars, used>>

ReconcileSkippedEngine ==
    /\ pending.phase = "Armed" /\ requested = pending.id
    /\ pending' = RecordFailure(pending)
    /\ UserspaceStep("idle", FinishStart("Failed"))
    /\ UNCHANGED <<bootVars, ledgerVars, passVars, used>>

ReconcileConfirm ==
    /\ pending.phase = "BootedUnconfirmed"
    /\ VerifyRunningTarget
    /\ CanTransition(pending.phase, "Confirmed")
    /\ pending' = Transition(pending, "Confirmed")
    /\ UserspaceStep("idle", FinishStart("Confirmed"))
    /\ UNCHANGED <<bootVars, ledgerVars, passVars, used>>

(* Mutant: a reverted rollback is not taken up by the service.             *)
ReconcileResumeUnlessReverted ==
    /\ pending.phase \in {"Confirmed", "Failed"}
    /\ UserspaceStep("idle", FinishStart(pending.phase))
    /\ UNCHANGED <<pending, bootVars, ledgerVars, passVars, used>>

ReconcileResume ==
    /\ pending.phase \in Terminal
    /\ UserspaceStep("idle", FinishStart(pending.phase))
    /\ UNCHANGED <<pending, bootVars, ledgerVars, passVars, used>>

-----------------------------------------------------------------------------
(* finish_confirmed, finish_reverted, finish_failed.                       *)

(* Mutant: a revert, too, makes the target the head of the lineage.        *)
FinishLineageToTarget ==
    /\ UserspaceStep("lineage", IF pending.phase = "Confirmed"
                                  THEN "scheduleCleanup" ELSE "clear")
    /\ lineage' = [lineage EXCEPT ![pending.id] = pending.phase]
    /\ headRoot' = pending.id
    /\ UNCHANGED <<pending, bootVars, history, cleanupPending, purged, passVars, used>>

(* record_activation: the first outcome recorded for a transaction stays,  *)
(* and a different one is refused.                                         *)
FinishLineage ==
    /\ UserspaceStep("lineage", IF pending.phase = "Confirmed"
                                  THEN "scheduleCleanup" ELSE "clear")
    /\ lineage[pending.id] \in {"none", pending.phase}
    /\ lineage' = [lineage EXCEPT ![pending.id] = pending.phase]
    /\ headRoot' = IF lineage[pending.id] # "none" THEN headRoot
                   ELSE IF pending.phase = "Confirmed" THEN pending.id
                   ELSE pending.base["root"]
    /\ UNCHANGED <<pending, bootVars, history, cleanupPending, purged, passVars, used>>

FinishScheduleCleanup ==
    /\ UserspaceStep("scheduleCleanup",
                     IF PurgeHistory(Kind[pending.id]) THEN "purgeVerify" ELSE "clear")
    /\ cleanupPending' = cleanupPending \cup {pending.id}
    /\ UNCHANGED <<pending, bootVars, lineage, headRoot, history, purged, passVars, used>>

FinishPurgeVerify ==
    /\ UserspaceStep("purgeVerify", "purgeCleanup")
    /\ VerifyTargetIdentity
    /\ StartsPass
    /\ UNCHANGED <<pending, bootVars, ledgerVars, used>>

(* validate_consent holds for a confirmed transaction with purge_history.  *)
FinishPurge ==
    /\ UserspaceStep("purge", "clear")
    /\ pending.phase = "Confirmed" /\ PurgeHistory(Kind[pending.id])
    /\ purged' = TRUE
    /\ UNCHANGED <<pending, bootVars, lineage, headRoot, history, cleanupPending,
                   passVars, used>>

FinishClear ==
    /\ UserspaceStep("clear", "archive")
    /\ ClearOnce
    /\ UNCHANGED <<pending, grubEntry, ledgerVars, passVars, used>>

FinishArchive ==
    /\ UserspaceStep("archive", "remove")
    /\ pending.phase \in Terminal
    /\ history' = [history EXCEPT ![pending.id] = pending.phase]
    /\ UNCHANGED <<pending, bootVars, lineage, headRoot, cleanupPending, purged,
                   passVars, used>>

FinishRemove ==
    /\ UserspaceStep("remove", IF pending.phase = "Confirmed" THEN "grubCleanup" ELSE "grub")
    /\ RemoveTransaction
    /\ UNCHANGED <<bootVars, ledgerVars, passVars, used>>

(* A confirmed rollback goes on to retry the deletion of old subvolumes.   *)
FinishGrub ==
    /\ \/ UserspaceStep("grub", "idle") /\ UNCHANGED passVars
       \/ UserspaceStep("grubCleanup", "cleanup") /\ StartsPass
    /\ RegenerateGrub
    /\ UNCHANGED <<pending, nextEntry, ledgerVars, used>>

(* A step that fails ends the service; systemd restarts it.                *)
FinishFails ==
    /\ \E step \in FinishSteps : UserspaceStep(step, "idle")
    /\ todo' = {} /\ deferred' = FALSE
    /\ UNCHANGED <<pending, bootVars, ledgerVars, used>>

-----------------------------------------------------------------------------
(* retry_pending_root_cleanups: one pass over the records, the old root of *)
(* a record before its old Home.                                           *)

InPass(t) == machine = "running" /\ pc \in {"cleanup", "purgeCleanup"} /\ t \in todo
Blocked(t, s) == old[t][s] # Absent /\ nested[s][old[t][s]] = "full"

(* Empty descendants go with the subvolume; a non-empty one keeps it.  A   *)
(* blocked root does not keep the pass from the Home of the same record.   *)
CleanupDelete(t, s) ==
    /\ InPass(t)
    /\ s = "home" => old[t]["root"] = Absent \/ Blocked(t, "root")
    /\ old[t][s] # Absent /\ ~Blocked(t, s)
    /\ nested' = [nested EXCEPT ![s][old[t][s]] = "none"]
    /\ old' = [old EXCEPT ![t][s] = Absent]
    /\ UNCHANGED <<pending, cur, new, bootVars, hostVars, pc, ledgerVars, passVars, used>>

(* Mutant: the record is dropped once the old root is gone.                *)
CleanupCompleteRootOnly(t) ==
    /\ InPass(t)
    /\ old[t]["root"] = Absent
    /\ cleanupPending' = cleanupPending \ {t}
    /\ todo' = todo \ {t}
    /\ UNCHANGED <<pending, diskVars, bootVars, hostVars, pc, lineage, headRoot, history,
                   purged, deferred, used>>

CleanupComplete(t) ==
    /\ InPass(t)
    /\ \A s \in Slots : old[t][s] = Absent
    /\ cleanupPending' = cleanupPending \ {t}
    /\ todo' = todo \ {t}
    /\ UNCHANGED <<pending, diskVars, bootVars, hostVars, pc, lineage, headRoot, history,
                   purged, deferred, used>>

(* A blocked subvolume or a failed command leaves the record for later.    *)
CleanupDefer(t) ==
    /\ InPass(t)
    /\ todo' = todo \ {t}
    /\ deferred' = TRUE
    /\ UNCHANGED <<pending, diskVars, bootVars, hostVars, pc, ledgerVars, used>>

(* Mutant: the history is purged although a deletion was deferred.         *)
CleanupPassEndsAnyway ==
    /\ todo = {}
    /\ \/ UserspaceStep("cleanup", "idle")
       \/ UserspaceStep("purgeCleanup", "purge")
    /\ deferred' = FALSE
    /\ UNCHANGED <<pending, bootVars, ledgerVars, todo, used>>

CleanupPassEnds ==
    /\ todo = {}
    /\ \/ UserspaceStep("cleanup", "idle")
       \/ UserspaceStep("purgeCleanup", IF deferred THEN "idle" ELSE "purge")
    /\ deferred' = FALSE
    /\ UNCHANGED <<pending, bootVars, ledgerVars, todo, used>>

-----------------------------------------------------------------------------
(* External: the running system, systemd-tmpfiles or a user, creates       *)
(* subvolumes inside the mounted ones.                                     *)
NestedAppears(s, k) ==
    /\ machine = "running" /\ cur[s] # Absent
    /\ nested[s][cur[s]] = "none"
    /\ nested' = [nested EXCEPT ![s][cur[s]] = k]
    /\ UNCHANGED <<pending, cur, old, new, bootVars, hostVars, pc, ledgerVars, passVars, used>>

Reconcile ==
    ReconcileCleanups \/ ReconcileSkippedEngine \/ ReconcileConfirm \/ ReconcileResume

Finish ==
    \/ FinishLineage \/ FinishScheduleCleanup \/ FinishPurgeVerify \/ FinishPurge
    \/ FinishClear \/ FinishArchive \/ FinishRemove \/ FinishGrub \/ CleanupPassEnds
    \/ \E t \in Txns : CleanupComplete(t) \/ \E s \in Slots : CleanupDelete(t, s)

ConfirmationNext ==
    \/ Reconcile
    \/ Finish
    \/ FinishFails
    \/ \E t \in Txns : CleanupDefer(t)
    \/ \E s \in Slots, k \in NestedKinds : NestedAppears(s, k)
=============================================================================
