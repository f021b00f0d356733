------------------------- MODULE RollbackLifecycle -------------------------
(***************************************************************************)
(* The whole life of a rollback: the coordinator arms it, the boot chain   *)
(* starts the engine, the engine switches or reverts the subvolumes, and   *)
(* the confirmation service settles the outcome.  The parts share the      *)
(* state of RecoveryState and interleave with power losses.                *)
(***************************************************************************)
EXTENDS RecoveryEngine, RollbackCoordinator

Next == BootNext \/ EngineNext \/ CoordinatorNext \/ ConfirmationNext

Spec == Init /\ [][Next]_vars

-----------------------------------------------------------------------------
Unsettled == pending.id # NoTxn /\ pending.phase # "Confirmed"

AtBase(s) == cur[s] = pending.base[s]
AtTarget(s) == cur[s] = pending.id

(* Every write of the pending record, by the coordinator, the engine and   *)
(* the confirmation service, leaves one that RollbackTransaction::validate *)
(* accepts: no sequence of boots makes the next boot unable to load it.    *)
PendingRecordLoads == pending.id # NoTxn => ValidTransaction(pending)

(* Until a rollback is confirmed, the root and the Home that were running  *)
(* when it was scheduled exist in exactly one place, under their own name  *)
(* or under the protected old name, through every interrupted apply and    *)
(* revert; what the rollback does not replace stays where it was.          *)
OriginalPreserved ==
    Unsettled =>
        \A s \in Slots :
            IF s \in Affected(Kind[pending.id])
              THEN AtBase(s) # (old[pending.id][s] = pending.base[s])
              ELSE AtBase(s)

(* The system never runs with the root of one side of a rollback and the   *)
(* Home of the other, and never without a root or a Home.                  *)
RunsWholeSystem ==
    machine = "running" =>
        /\ \A s \in Slots : cur[s] # Absent
        /\ pending.id # NoTxn =>
              \/ \A s \in Slots : AtBase(s)
              \/ \A s \in Affected(Kind[pending.id]) : AtTarget(s)

(* What is recorded as confirmed is what runs: the confirmed transaction's *)
(* own clones, not merely clones of the same snapshot.                     *)
ConfirmedRunsTarget ==
    pending.phase = "Confirmed" =>
        \A s \in Slots : IF s \in Affected(Kind[pending.id]) THEN AtTarget(s) ELSE AtBase(s)

(* The archived outcome agrees with the lineage, which a Home-only restore *)
(* does not enter, and lineage never records an outcome for one that       *)
(* failed before it was applied.                                           *)
LedgersAgree ==
    \A t \in Txns : history[t] # "none" =>
        lineage[t] = IF HomeOnly(Kind[t]) \/ history[t] = "Failed" THEN "none" ELSE history[t]

(* With no rollback pending, the lineage head describes the root that is   *)
(* mounted, so that the next snapshot is recorded with its true parent.    *)
LineageHeadIsRoot == pending.id = NoTxn => headRoot = cur["root"]

(* No staged or protected subvolume outlives its record: once a rollback   *)
(* is no longer pending, nothing lies at its new names, and something at   *)
(* its old names only while a cleanup record still names it.               *)
NoOrphanSubvolumes ==
    \A t \in Txns \ {pending.id} : \A s \in Slots :
        /\ new[t][s] = Absent
        /\ old[t][s] # Absent => t \in cleanupPending

(* A history purge has happened only for a confirmed factory reset whose   *)
(* own old subvolumes are already gone.                                    *)
PurgeOnlyAfterConfirmation ==
    purged => \E t \in Txns :
        /\ PurgeHistory(Kind[t])
        /\ history[t] = "Confirmed" \/ (pending.id = t /\ pending.phase = "Confirmed")
        /\ \A s \in Slots : old[t][s] = Absent

(* Protocol 3 never carries the kernel that moved subvolumes into the      *)
(* system they form: a boot in which the engine moved one ends in a        *)
(* restart, even when reboot fails and the hook runs again.                *)
NoKernelCarryOver ==
    (machine = "running" /\ switched # NoTxn) => Protocol[switched] = 2

(* A protocol-3 rollback that early boot has taken up is no longer         *)
(* selected by the one-shot entry: no restart leads back into recovery.    *)
NoRecoveryEntryLoop ==
    (pending.phase \in Phases \ {"Preparing", "Armed"} /\ Protocol[pending.id] = 3)
        => nextEntry # pending.id

(* Only a separate boot of the restored system may confirm a protocol-3    *)
(* rollback, and only the boot that applied it a protocol-2 one.           *)
ConfirmsInItsOwnBoot ==
    [][pending.phase # "Confirmed" /\ pending'.phase = "Confirmed" =>
          /\ machine = "running"
          /\ pending.applyingBoot = (IF RestartsAfterApply(pending) THEN "past" ELSE "this")]_vars

(* A protected old subvolume disappears only by going back to its own name *)
(* or after its rollback has been confirmed.                               *)
OldSubvolumesOutliveDoubt ==
    [][\A t \in Txns, s \in Slots :
          (old[t][s] # Absent /\ old'[t][s] = Absent) =>
              \/ cur'[s] = old[t][s]
              \/ history[t] = "Confirmed"
              \/ pending.id = t /\ pending.phase = "Confirmed"]_vars

(* The abstract rollback this one implements.  Until a rollback is         *)
(* confirmed the user can count on the system it was scheduled in, and     *)
(* from then on, or once its record is gone, on the one that is mounted.   *)
Atomic == INSTANCE AtomicRollback WITH
    system <- IF Unsettled THEN pending.base ELSE cur,
    active <- pending.id,
    outcome <- [t \in Txns |-> IF pending.id = t /\ pending.phase \in Terminal
                                 THEN pending.phase ELSE history[t]],
    erased <- purged

(* Every behaviour of the four parts, with any number of power losses and  *)
(* failed steps, is one atomic rollback after another: no reconcile that   *)
(* is run again changes an outcome, no revert leaves anything replaced,    *)
(* and no confirmation is of anything but the rollback's own subvolumes.   *)
ImplementsAtomicRollback == Atomic!AtomicSpec

-----------------------------------------------------------------------------
(* The inductive invariant behind the safety properties.                   *)

(* Which step may find the record in which phase.                          *)
ControlOK ==
    /\ pc = "dispatch" => pending.phase \in Phases
    /\ pc = "validate" => pending.phase \in {"Armed", "Applying"}
    /\ pc = "apply" => pending.phase = "Applying"
    /\ pc = "revert" => pending.phase = "Reverting"
    /\ pc \in {"sGrub", "sArm"} => pending.phase = "Preparing"
    /\ pc = "sOnce" => pending.phase = "Armed"
    /\ pc \in {"fClear", "fRemove", "cClear"} => pending.phase \in {"Preparing", "Armed"}
    /\ pc = "lineage" => pending.phase \in {"Confirmed", "Reverted"}
    /\ pc \in {"scheduleCleanup", "purgeVerify", "purgeCleanup", "purge"}
          => pending.phase = "Confirmed"
    /\ pc \in {"clear", "archive", "remove"} => pending.phase \in Terminal
    /\ pc \in {"cRemove", "grub", "grubCleanup", "cleanup"} => pending.phase = NoPhase

(* The four places a slot can be in between the system that scheduled the  *)
(* rollback and the restored one; apply walks down the list, revert up.    *)
Lies(s, c, o, n) == cur[s] = c /\ old[pending.id][s] = o /\ new[pending.id][s] = n
Untouched(s) == Lies(s, pending.base[s], Absent, Absent)
Staged(s) == Lies(s, pending.base[s], Absent, pending.id)
Between(s) == Lies(s, Absent, pending.base[s], pending.id)
Replaced(s) == Lies(s, pending.id, pending.base[s], Absent)

SlotOK(s) ==
    /\ pending.base[s] # pending.id
    /\ pending.phase \in {"Preparing", "Armed", "Failed", "Reverted"} => Untouched(s)
    /\ s \notin Affected(Kind[pending.id]) => Untouched(s)
    /\ s \in Affected(Kind[pending.id]) =>
          /\ pending.phase \in {"Applying", "Reverting"} =>
                Untouched(s) \/ Staged(s) \/ Between(s) \/ Replaced(s)
          /\ pending.phase \in {"AppliedAwaitingBoot", "BootedUnconfirmed"} => Replaced(s)
          /\ pending.phase = "Confirmed" => cur[s] = pending.id /\ new[pending.id][s] = Absent

LayoutOK ==
    \A s \in Slots : IF pending.id = NoTxn THEN cur[s] # Absent ELSE SlotOK(s)

(* A rollback id that has not been given out has left no trace.            *)
FreshOK ==
    /\ pending.id # NoTxn => pending.id \in used
    /\ \A t \in Txns \ used : \A s \in Slots :
          /\ old[t][s] = Absent /\ new[t][s] = Absent
          /\ cur[s] # t /\ pending.base[s] # t

(* Only the old subvolumes of confirmed rollbacks are marked for deletion. *)
CleanupOK ==
    \A t \in cleanupPending \cup todo :
        t \in used /\ (t = pending.id => pending.phase = "Confirmed")

Inductive == TypeOK /\ ControlOK /\ LayoutOK /\ FreshOK /\ CleanupOK

(* The outcome that the lineage holds of a rollback that ended so.         *)
Recorded(t, end) == IF HomeOnly(Kind[t]) \/ end = "Failed" THEN "none" ELSE end
SettledSteps == {"scheduleCleanup", "purgeVerify", "purgeCleanup", "purge",
                 "clear", "archive", "remove"}

(* The ledgers against the record: no entry before its rollback has ended, *)
(* none but its outcome afterwards, the lineage before the archive, and    *)
(* both before the record goes.                                            *)
LedgerOK ==
    /\ \A t \in Txns \ used : lineage[t] = "none" /\ history[t] = "none"
    /\ LedgersAgree
    /\ LineageHeadIsRoot
    /\ pending.id # NoTxn =>
          /\ lineage[pending.id] \in {"none", Recorded(pending.id, pending.phase)}
          /\ history[pending.id] \in {"none", pending.phase}
          /\ headRoot = IF lineage[pending.id] = "Confirmed" THEN pending.id
                                                            ELSE pending.base["root"]
    /\ pc = "lineage" => ~HomeOnly(Kind[pending.id])
    /\ pc \in SettledSteps => lineage[pending.id] = Recorded(pending.id, pending.phase)
    /\ pc = "remove" => history[pending.id] = pending.phase

(* Protected subvolumes against the cleanup records: what a confirmed      *)
(* rollback leaves is named by one before the record goes, and a purge     *)
(* waits for the pass that deletes its own.                                *)
ConfirmedForGood(t) ==
    history[t] = "Confirmed" \/ (pending.id = t /\ pending.phase = "Confirmed")
OldGone(t) == \A s \in Slots : old[t][s] = Absent

DeletionOK ==
    /\ NoOrphanSubvolumes
    /\ PurgeOnlyAfterConfirmation
    /\ \A t \in cleanupPending \cup todo : ConfirmedForGood(t)
    /\ (pc \in SettledSteps \ {"scheduleCleanup"} /\ pending.phase = "Confirmed") =>
          pending.id \in cleanupPending \/ OldGone(pending.id)
    /\ pc = "purgeCleanup" => deferred \/ pending.id \in todo \/ OldGone(pending.id)
    /\ pc = "purge" => OldGone(pending.id)

(* The record is one that validate accepts, and stays so when the engine   *)
(* that counted its attempt goes on to apply.                              *)
RecordOK ==
    /\ PendingRecordLoads
    /\ pc = "validate" => pending.applyAttempts < pending.initramfsAttempts

(* No menu entry, selector or kernel command line names a rollback before  *)
(* it is scheduled, and none selects one with protocol 3 again.            *)
TakenUp ==
    pending.initramfsAttempts > 0 \/ requested = pending.id
        \/ pending.phase \notin {"Preparing", "Armed"}

SelectorOK ==
    /\ \A r \in Subvols : grubEntry[r] \in used \cup {NoTxn}
    /\ requested \in used \cup {NoTxn}
    /\ pc \in {"sGrub", "sArm", "sOnce"} =>
          pending.initramfsAttempts = 0 /\ requested # pending.id
    /\ (pending.id # NoTxn /\ RestartsAfterApply(pending) /\ TakenUp) =>
          nextEntry # pending.id

(* Where the hook always runs, no boot goes on between two systems.        *)
HandOffOK ==
    (machine = "running" \/ pc = "handOff") =>
        pending.phase \notin {"Applying", "AppliedAwaitingBoot", "Reverting"}

(* Where the hook always runs and the selector chooses the entry: one boot *)
(* is requested for a rollback with protocol 3, every boot that reverts it *)
(* is written down, and one that has moved a subvolume can only restart.   *)
Restarting == pending.id # NoTxn /\ RestartsAfterApply(pending)

SelectedOnce ==
    (Restarting /\ (pending.initramfsAttempts > 0 \/ requested = pending.id)) =>
        /\ nextEntry = NoTxn
        /\ requested \in {NoTxn, pending.id}
        /\ (pending.initramfsAttempts > 0 /\ requested = pending.id) =>
              pending.initramfsBoot = "this"

BootNoted ==
    Restarting =>
        /\ (pc = "dispatch" /\ RemembersRevertBoot) => pending.initramfsBoot = "this"
        /\ pc = "revert" => pending.initramfsBoot = "this"
        /\ pc \in {"validate", "apply"} => requested = pending.id
        /\ pc = "apply" => pending.applyingBoot = "this"

CarriesToRestart ==
    (switched # NoTxn /\ Protocol[switched] = 3) =>
        /\ switched = pending.id
        /\ machine \in {"initramfs", "halted"} /\ pc # "handOff"
        /\ \/ pending.phase = "Applying" /\ requested = pending.id
           \/ pending.phase = "AppliedAwaitingBoot" /\ pending.applyingBoot = "this"
           \/ pending.phase \in {"Reverting", "Reverted"} /\ pending.initramfsBoot = "this"

RestartOK == SelectedOnce /\ BootNoted /\ CarriesToRestart

(* The invariant behind every safety property of the lifecycle.            *)
LifecycleOK ==
    /\ Inductive /\ LedgerOK /\ DeletionOK /\ RecordOK /\ SelectorOK
    /\ ~HookMayBeSkipped => HandOffOK
    /\ (~HookMayBeSkipped /\ ~ManualSelection) => RestartOK

-----------------------------------------------------------------------------
(* The qualification plan promises that no interruption leaves the machine *)
(* without an @root to start from (docs/VM-QUALIFICATION.md).              *)
NeverWithoutRoot == machine = "off" => cur["root"] # Absent

-----------------------------------------------------------------------------
(* Fairness: the machine is switched on, the engine and the services run,  *)
(* the operator restarts a stopped or an undecided system and does not     *)
(* choose the recovery entry for ever, and faults eventually cease.  A     *)
(* step that an operation takes of itself is no fault, even where a fault  *)
(* would have had the same effect.                                         *)
RefusedLayout == ValidateFails /\ ~LayoutAcceptable

Progress ==
    \/ EngineProgress \/ RefusedLayout
    \/ Schedule \/ CancelRemove \/ CancelGrub
    \/ Finish
    \/ Restart \/ OperatorReboot

Fault ==
    /\ \/ PowerLoss \/ EngineError \/ ValidateFails \/ RestartFails
       \/ ScheduleFails \/ CancelFails \/ FinishFails
       \/ \E t \in Txns : CleanupDefer(t)
    /\ ~Progress

LiveSpec ==
    /\ Spec
    /\ WF_vars(EngineProgress)
    /\ WF_vars(RefusedLayout)
    /\ WF_vars(Schedule)
    /\ WF_vars(CancelRemove \/ CancelGrub)
    /\ WF_vars(Finish)
    /\ SF_vars(ReconcileResume)
    /\ SF_vars(PowerOn(NoTxn))
    /\ WF_vars(\E t \in Txns : PowerOn(t))
    /\ WF_vars(RescueBoot)
    /\ WF_vars(Restart)
    /\ WF_vars(OperatorReboot)
    /\ <>[][~Fault]_vars

(* A rollback that early boot has begun is eventually settled and its      *)
(* record removed.                                                         *)
RollbackSettles ==
    \A t \in Txns :
        (pending.id = t /\ pending.phase \in Phases \ {"Preparing", "Armed"})
            ~> (pending.id # t)
=============================================================================
