---------------------------- MODULE RecoveryState ----------------------------
(***************************************************************************)
(* The state shared by the parts that carry out a rollback: the top level  *)
(* of the Btrfs volume, the boot menu, the machine, and the ledgers kept   *)
(* in @snapshots/anduinos-btrfs-snapshots-manager.  RecoveryEngine and     *)
(* RollbackCoordinator act on it; what power, firmware, GRUB and the       *)
(* pre-mount hook do to it stands at the end.                              *)
(***************************************************************************)
EXTENDS RollbackTransaction, FiniteSets

CONSTANTS
    MaxScheduled,      \* bound: how many transactions a behaviour schedules
    ManualSelection,   \* may the user pick a menu entry by hand?
    HookMayBeSkipped,  \* may an initramfs boot on without running the hook?
    NestedKinds        \* nested subvolumes that may appear: "empty", "full"

ASSUME EnvironmentAssumption ==
    /\ MaxScheduled \in Nat
    /\ ManualSelection \in BOOLEAN
    /\ HookMayBeSkipped \in BOOLEAN
    /\ NestedKinds \subseteq {"empty", "full"}

VARIABLES
    pending,         \* pending-rollback.json, or NoTransaction
    cur,             \* cur[s]: the subvolume at @root and @home
    old,             \* old[t][s]: the one at @root...-old-t, @home...-old-t
    new,             \* new[t][s]: the one at @root...-new-t, @home...-new-t
    nested,          \* nested[s][c]: what subvolumes lie inside subvolume c
    grubEntry,       \* grubEntry[r]: recovery entry in the grub.cfg of root r
    nextEntry,       \* one-shot selector on the EFI system partition
    machine,         \* "off", "initramfs", "halted" or "running"
    requested,       \* rollback id on the kernel command line
    pc,              \* next step of the engine or of the userspace operation
    switched,        \* transaction that moved a subvolume during this boot
    lineage,         \* lineage[t]: activation outcome in system-lineage.json
    headRoot,        \* root subvolume that the lineage head describes
    history,         \* history[t]: phase archived in rollback-history
    cleanupPending,  \* transactions with a cleanup-pending record
    todo,            \* records the running cleanup pass has still to visit
    deferred,        \* has the running cleanup pass deferred a record?
    purged,          \* has the snapshot history been purged?
    used             \* rollback ids given out so far

diskVars == <<cur, old, new, nested>>
bootVars == <<grubEntry, nextEntry>>
hostVars == <<machine, requested, switched>>
ledgerVars == <<lineage, headRoot, history, cleanupPending, purged>>
passVars == <<todo, deferred>>
vars == <<pending, diskVars, bootVars, hostVars, pc, ledgerVars, passVars, used>>

(* Userspace operations serialise on recovery-prepare.lock, so one program *)
(* counter serves them and, before userspace exists, the engine.           *)
EngineSteps == {"hook", "dispatch", "validate", "apply", "revert", "restart", "handOff"}
ScheduleSteps == {"sGrub", "sArm", "sOnce", "fClear", "fRemove", "fGrub"}
CancelSteps == {"cClear", "cRemove"}
FinishSteps == {"lineage", "scheduleCleanup", "purgeVerify", "purgeCleanup", "purge",
                "clear", "archive", "remove", "grub", "grubCleanup", "cleanup"}
Steps == {"idle"} \cup EngineSteps \cup ScheduleSteps \cup CancelSteps \cup FinishSteps

Init ==
    /\ pending = NoTransaction
    /\ cur = [s \in Slots |-> Installed]
    /\ old = [t \in Txns |-> [s \in Slots |-> Absent]]
    /\ new = [t \in Txns |-> [s \in Slots |-> Absent]]
    /\ nested = [s \in Slots |-> [c \in Subvols |-> "none"]]
    /\ grubEntry = [r \in Subvols |-> NoTxn]
    /\ nextEntry = NoTxn
    /\ machine = "running"
    /\ requested = NoTxn
    /\ pc = "idle"
    /\ switched = NoTxn
    /\ lineage = [t \in Txns |-> "none"]
    /\ headRoot = Installed
    /\ history = [t \in Txns |-> "none"]
    /\ cleanupPending = {}
    /\ todo = {}
    /\ deferred = FALSE
    /\ purged = FALSE
    /\ used = {}

TypeOK ==
    /\ pending \in Transactions
    /\ pending.phase = NoPhase <=> pending.id = NoTxn
    /\ cur \in [Slots -> Contents]
    /\ old \in [Txns -> [Slots -> Contents]]
    /\ new \in [Txns -> [Slots -> Contents]]
    /\ nested \in [Slots -> [Subvols -> {"none", "empty", "full"}]]
    /\ grubEntry \in [Subvols -> Txns \cup {NoTxn}]
    /\ nextEntry \in Txns \cup {NoTxn}
    /\ machine \in {"off", "initramfs", "halted", "running"}
    /\ requested \in Txns \cup {NoTxn}
    /\ pc \in Steps
    /\ switched \in Txns \cup {NoTxn}
    /\ lineage \in [Txns -> {"none", "Confirmed", "Reverted"}]
    /\ headRoot \in Subvols
    /\ history \in [Txns -> {"none"} \cup Terminal]
    /\ cleanupPending \subseteq Txns
    /\ todo \subseteq Txns
    /\ deferred \in BOOLEAN
    /\ purged \in BOOLEAN
    /\ used \subseteq Txns

(* A step of the running operation: control moves from one point to the    *)
(* next and the machine stays up.                                          *)
Goto(from, to) == pc = from /\ pc' = to

(* update-grub: 41_anduinos_btrfs_snapshots_manager prints the recovery    *)
(* entry of a transaction that early boot has not begun, and nothing else. *)
(* The menu is written into the running root.                              *)
RegenerateGrub ==
    grubEntry' = [grubEntry EXCEPT ![cur["root"]] =
                     IF pending.phase \in {"Preparing", "Armed"} THEN pending.id ELSE NoTxn]

-----------------------------------------------------------------------------
(* Power, firmware and GRUB, as the snapshot manager uses them.  The menu  *)
(* is read from @root/boot/grub; the snippet installed as 01_..._env       *)
(* consumes the one-shot selector kept on the EFI system partition, and    *)
(* the recovery entry of a protocol-2 transaction sets it again.           *)

(* Entries that may be started from the menu of the current root: the      *)
(* default chosen by the selector, or any entry the user highlights.       *)
Selectable ==
    LET entry == grubEntry[cur["root"]]
        default == IF nextEntry = entry THEN entry ELSE NoTxn
    IN  IF ManualSelection THEN {entry, NoTxn} ELSE {default}

(* Mutant: every recovery entry selects itself again.                      *)
GrubSelectsAgain(entry) == nextEntry' = entry

GrubSelects(entry) ==
    nextEntry' = IF entry # NoTxn /\ Protocol[entry] = 2 THEN entry ELSE NoTxn

PowerOn(entry) ==
    /\ machine = "off"
    /\ cur["root"] # Absent
    /\ entry \in Selectable
    /\ GrubSelects(entry)
    /\ requested' = entry
    /\ machine' = "initramfs"
    /\ pc' = "hook"
    /\ UNCHANGED <<pending, diskVars, grubEntry, switched, ledgerVars, passVars, used>>

(* With no @root there is no grub.cfg: an operator has to start the        *)
(* recovery image by hand, without a rollback id.                          *)
RescueBoot ==
    /\ machine = "off"
    /\ cur["root"] = Absent
    /\ machine' = "initramfs"
    /\ pc' = "hook"
    /\ UNCHANGED <<pending, diskVars, bootVars, requested, switched, ledgerVars, passVars, used>>

(* A hook that cannot reach the volume warns and boots on; an initramfs    *)
(* built without the hook does so even in a boot requested for a rollback. *)
HookSkipped ==
    /\ HookMayBeSkipped
    /\ machine = "initramfs" /\ Goto("hook", "idle")
    /\ cur["root"] # Absent
    /\ machine' = "running"
    /\ UNCHANGED <<pending, diskVars, bootVars, requested, switched, ledgerVars, passVars, used>>

GoDown ==
    /\ machine' = "off"
    /\ pc' = "idle"
    /\ requested' = NoTxn
    /\ switched' = NoTxn
    /\ pending' = AfterPowerCycle(pending)
    /\ todo' = {}
    /\ deferred' = FALSE
    /\ UNCHANGED <<diskVars, bootVars, ledgerVars, used>>

(* Power may fail between any two durable steps.                           *)
PowerLoss == machine # "off" /\ GoDown

(* The operator restarts an idle system, or one that stopped in early boot. *)
OperatorReboot ==
    /\ \/ machine = "running" /\ pc = "idle"
       \/ machine = "halted"
    /\ GoDown

(* reboot -f after status 20, which may also fail and stop the boot.       *)
Restart == machine = "initramfs" /\ pc = "restart" /\ GoDown

RestartFails ==
    /\ machine = "initramfs" /\ Goto("restart", "idle")
    /\ machine' = "halted"
    /\ UNCHANGED <<pending, diskVars, bootVars, requested, switched, ledgerVars, passVars, used>>

(* The pre-mount hook is invoked again in a boot that it had stopped.      *)
HookAgain ==
    /\ machine = "halted"
    /\ machine' = "initramfs"
    /\ pc' = "hook"
    /\ UNCHANGED <<pending, diskVars, bootVars, requested, switched, ledgerVars, passVars, used>>

BootNext ==
    \/ \E entry \in Txns \cup {NoTxn} : PowerOn(entry)
    \/ RescueBoot
    \/ HookSkipped
    \/ PowerLoss
    \/ OperatorReboot
    \/ Restart
    \/ RestartFails
    \/ HookAgain
=============================================================================
