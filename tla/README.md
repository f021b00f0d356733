# Verification of the AnduinOS packages

AnduinOS-Packages is a collection of Debian packages. Many of them carry data,
settings, or a front end for an existing tool. The package with the richest
protocol is `anduinos-btrfs-snapshots-manager`: it replaces the running root (and
sometimes Home) of an installed system by an earlier Btrfs snapshot, across a
reboot, with a way back if the restored system does not come up. A mistake there
costs the user the installation, and the interesting mistakes need a power loss
at one particular point, which no unit test reaches. This project models that
protocol in most detail and proves about it; it also models the services around
it (stores, locks, retention, helper, maintenance, offline recovery) and the
programs of other packages that have state and concurrency of their own:
dictation, swap control, firewall, security keys and the command guesser.

## 1. Inventory

Paths are relative to `src/anduinos-btrfs-snapshots-manager/src/anduinos-recovery-engine/src/`
unless they begin with `src/` or `data/` (then `src/anduinos-btrfs-snapshots-manager/data/`).

| Part | State it keeps | Operations | What makes it correct |
| --- | --- | --- | --- |
| Rollback transaction and store (`transaction.rs`) | one `pending-rollback.json`, replaced atomically; an archive of settled ones | create, update, remove, archive, the mutators of the record | no sequence of boots produces a record that cannot be loaded; phases only move along `can_transition_to` |
| Recovery engine (`recovery.rs`, `..._initramfs.rs`) | `@root`, `@home` and, per transaction, an old and a new name for each | dispatch, validate, apply, revert | the only copy of the original is never lost; root and Home change together; bounded retries |
| Pre-mount hook (`data/dracut/...sh`) | nothing durable | skip, stop, restart, continue | never boots on after a half-done switch |
| GRUB integration (`boot.rs`, `data/01_*`, `data/41_*`) | `grub.cfg` inside each root, a one-shot selector on the EFI partition | menu generation, arm, clear, consumption at boot | recovery is entered when asked for and not for ever |
| Rollback coordinator (`rollback.rs`) | none of its own | schedule (system, factory reset, Home), cancel, cleanup of a failed schedule | a request is either armed completely or leaves nothing |
| Confirmation service (`confirmation.rs`, the `confirm` unit) | none of its own | reconcile, the three `finish_*`, cleanup pass | the outcome is settled once, in the right boot, and can be resumed at any step |
| Lineage (`lineage.rs`) | tree of recovery points, head, activation events | record point, activation, offline head, removal | the head describes the mounted root |
| Old-root cleanup (`cleanup.rs`) | one record per confirmed transaction | schedule, defer, remove | no subvolume without a record |
| History purge (`history_cleanup.rs`) | none | purge | only after a confirmed factory reset that asked for it |
| Snapshot operations (`operations.rs`, `store.rs`, `personal.rs`) | deployment records and snapshots, system and Home | create, delete, pin, verify, import, export | a referenced snapshot is not deleted; a floor of restorable ones stays |
| Package transactions (`package_transaction.rs`, `package_hook.rs`) | `pending-package.json` | begin before APT, finish after it, abandon | exclusive with a rollback; the before snapshot survives a crash |
| Offline recovery (`offline.rs`) | its own journal of subvolume moves | replace the root from a rescue system | as the engine, without confirmation |
| Retention (`src/snapshots-manager-common/src/retention_v2.rs`) | none, a pure function | select what to delete | keeps what the policy promises |
| D-Bus helper, scheduler (`btrfs-snapshots-manager-helper`, `-scheduler`) | job slot, leases, quota, markers of low space, the maintenance task | forwards to the engine, retention, Btrfs maintenance | quota over all callers, one announcement per episode, answers that are true |
| Desktop application (`btrfs-snapshots-manager/src/ui`) | lists, selections, dialogs, leases | load, delete, restore, browse, recover files | a page at rest shows the store; a copy is whole, or absent but for what its user is told |
| Dictation (`src/anduinos-whisper-framework`) | session, queue, worker process, cache of measurements | start, finish, cancel, preview, choose a backend | no phrase lost or reordered; no process left behind |
| Swap control (`src/anduinos-swapcontrol-gtk`, `src/anduinos-swap-config`) | swap file, fstab, zswap, zram devices, memory test | resize, enable, disable, apply | what is reported is done; a failure leaves the old file |
| Firewall (`src/anduinos-ufwall-gtk`) | rule list, switches, table of connections | add, edit, delete, toggle, audit | the rule shown is the rule deleted; switches show the firewall |
| Security keys (`src/anduinos-yubikey-manager`) | SSH configuration, PAM lines, metadata, Git settings | enable, enroll, remove, create, delete | a change is whole or taken back |
| Command guesser (`src/anduinos-bash-guess-command`) | snapshots with generations, job queue, learned log | observe, refresh, answer, record, clear | nothing of another directory or generation; counts kept |

The other packages (installer, recovery environment, Secure Boot toolkit, and the
data packages) are listed in `PROJECT.json` with the reason each is left out.

**How the parts interact.** Userspace parts serialise on `recovery-prepare.lock`
(`coordination.rs`). The coordinator writes the record, has `update-grub` print a
recovery entry, moves the record to Armed and sets the selector. GRUB consumes
the selector and starts a frozen kernel and initramfs with the rollback id on the
command line. The hook runs the engine, which moves the record from phase to
phase around the subvolume operations. Protocol 2 then boots on into the restored
root with the same kernel; protocol 3 restarts and records the next normal boot
as the target boot. The confirmation service settles the record in userspace, or
the next early boot reverts it. Every part reads what earlier ones left on disk.

**What is hard.** Power fails between any two durable steps, repeatedly, also
during the recovery from an earlier failure. Any step can fail. The hook can run
twice in one boot, or not at all. The user can pick any menu entry. Retries are
counted in two counters with one limit. The service can be restarted in the
middle of its list of steps. `PROJECT.json` lists each hazard at its line.

## 2. Modules

| Module | Models |
| --- | --- |
| `RollbackTransaction` | the record: phases, `CanTransition`, the mutators, `ValidTransaction` (= `validate`) |
| `RecoveryState` | the shared variables, `Init`, `TypeOK`, `RegenerateGrub`; `BootNext`: power, firmware, GRUB menu and selector, restart, a repeated or skipped hook |
| `RecoveryEngine` | the hook and the engine: `HookStart`, `Dispatch*`, `Validate*`, `Apply*`, `Revert*`, `Finish*` |
| `RollbackCoordinator` | `Schedule*`, `FailedSchedule*`, `Cancel*`; the confirmation service: `Reconcile*`, `Finish*`, `Cleanup*`, nested subvolumes that appear |
| `RollbackLifecycle` | the composition, all its properties, the inductive invariant, fairness |
| `AtomicRollback` | the abstract specification: a rollback is one atomic step or nothing |
| `SnapshotStore`, `PackageHook`, `SnapshotCoordination` | the store of system snapshots step by step under its locks, with the lineage as a value; APT's hook; both with the coordinator and the purge, where the switch is one step |
| `HomeStore` | the store of Home snapshots, its browse locks, rollback and purge |
| `Retention` | `evaluate_retention` against a reference definition, and the cleanup loop |
| `Automation` | scheduler, handlers, low-space markers, the saving of the policy |
| `HelperService` | the D-Bus methods: Polkit, limits, quota, leases, cache, batches |
| `BtrfsMaintenance` | one long task, its worker, cancellation and the dialogs that follow it |
| `OfflineRecovery` | the journalled restore from a rescue system |
| `SnapshotPages`, `FileHistory` | the pages, dialogs and countdown; browsing and recovery of files |
| `SshPersistence`, `AuthHelper`, `ResidentKeys`, `SecurityCenter`, `GitSigning` | the parts of the security centre |
| `GuessRuntime`, `GuessLearning` | the engine of a shell; the log that engines share |
| `VoiceTyping`, `SpeechEngine`, `BackendSelection` | the dictation service, its worker process, the choice of a backend |
| `SwapControl`, `ZramDevices`, `StressTest` | the swap page and its root helper; zram and its service; the memory test |
| `FirewallRules`, `FirewallStatus`, `NetworkAudit` | rules and profiles; the status page; the auditor and its page |
| `MCRollback`, `MCSnapshots`, `MCDesktop`, `MCTools`, `MCProgress` | the instances TLC checks (`boundary` gives `SnapshotCoordination` its constants itself) |
| `RollbackLifecycleProofs` | proofs about `RollbackLifecycle`: the subvolumes, the ledgers, the refinement, the boots |
| `SnapshotCoordinationProofs`, `HomeStoreProofs`, `OfflineRecoveryProofs`, `HelperServiceProofs`, `BtrfsMaintenanceProofs`, `FileHistoryProofs`, `SpeechEngineProofs` | proofs about the modules they are named for |

`RollbackLifecycle` is one specification composed of `RecoveryEngine` and
`RollbackCoordinator` over `RecoveryState`, and
`SnapshotCoordination` one composed of three. The others stand alone: they share
nothing with each other in the code but the calls whose outcome each of them leaves
open.

**Correspondence.** In the life of a rollback `pending` is the record; `cur[s]` the subvolume at `@root` or
`@home`, `old[t][s]` and `new[t][s]` those at the names `old_root_name`,
`new_root_name`, `old_home_name` and `new_home_name` give for transaction `t`. A
subvolume is named for what made it: the installer, or the transaction that cloned
it. `grubEntry[r]` is the recovery entry in the `grub.cfg` of root `r` (the menu
travels with its root), `nextEntry` the selector, `requested` the id on the
kernel command line. `lineage`, `headRoot`, `history`, `cleanupPending` and
`purged` are the ledgers. `pc` is the next step of the engine or, once userspace
is up, of the operation that holds `recovery-prepare.lock`; a power loss resets it.
One action is one durable step: a subvolume operation with its sync, one
atomic replacement of the record, one command. A checkpoint that only repeats the
phase for diagnostics belongs to the action before it.

**Abstractions of the rollback.** A boot id is only compared with the id of the current boot, so
it is kept as "none", "this" or "past", and the number of boots is unbounded. What
a transaction fixes at creation (`Kind`, `Protocol`, `Target`) is a constant
function of its id. Hashes, timestamps, wording and permissions are left out; a
check on them is a step that may fail. What lies inside a subvolume is reduced to
whether it holds nested subvolumes, and whether those are empty. `switched`
is a history variable: the transaction that moved a subvolume in this boot.
`RescueBoot`, `PowerLoss`, `OperatorReboot` and `NestedAppears` are the
environment.

In the other modules a program, a thread or a D-Bus call is a process with a
program counter (`job`, `op`, `call`, `task`, ...) and one action per durable
step, lock, wait or callback; definitions are named after the functions they
translate. A module's head says what it abstracts. Commands of other packages
(`ufw`, `systemctl`, `ssh-keygen`, `swapon`, the recognition worker's library) are
outcomes a step may have, marked external in the map. Bounds named `Max*` are
on what users and the environment do (operations, faults, crashes, plug events),
never on what the code does in answer.

## 3. Runs

| Run | Setting | Checks |
| --- | --- | --- |
| `adversity` | one rollback of each kind and protocol, manual menu choices, skipped hooks, nested subvolumes, all faults | `TypeOK`, `LifecycleOK`, `PendingRecordLoads`, `OriginalPreserved`, `LedgersAgree`, `NoOrphanSubvolumes`, `PurgeOnlyAfterConfirmation`, `NoRecoveryEntryLoop`, `ConfirmsInItsOwnBoot`, `OldSubvolumesOutliveDoubt` |
| `hook_runs` | as above, but the hook always runs | `RunsWholeSystem` |
| `two_rollbacks` | two rollbacks, all faults, nobody picks entries by hand | `ConfirmedRunsTarget`, `LineageHeadIsRoot`, `NoKernelCarryOver`, `ImplementsAtomicRollback` |
| `settles` | one rollback, fairness, faults that end | `RollbackSettles` |
| `boundary` | APT, the coordinator and a user over three snapshots, one crash | `CoordinationOK`, `RestorePointsExist`, `OneBoundary`, `LineageAgrees` |
| `snapshots` | eighteen parts of the snapshot manager | `TypesOK`, `RestorePointsSafe`, `RetentionExact`, `ServicesSafe`, `NothingLost`, `ReportsTrue` |
| `desktop` | fifteen parts: pages, files, keys, guesser | `TypesOK`, `PagesTruthful`, `FilesSafe`, `KeysSafe`, `GuessSafe`, `ChangesWhole` |
| `tools` | seventeen parts: dictation, swap, firewall | `TypesOK`, `VoiceSafe`, `SpeechSafe`, `MemorySafe`, `FirewallSafe`, `StepsInOrder` |
| `progress` | twenty-one parts under fairness | `WhatBeginsEnds`, `CalmIsShown` |
| `rerun_hook` | manual choices | `NoKernelCarryOver`: **violated** |
| `rootless` | power loss | `NeverWithoutRoot`: **violated** |
| `nested_revert` | fairness, an empty nested subvolume may appear | `RollbackSettles`: **violated** |

**Rollback.** `MCRollback` has eight transactions, one for each kind (system,
factory reset with Home, factory reset with purge, Home only) and protocol (2, 3),
all restoring one snapshot. `MaxScheduled` bounds how many of them one behaviour
schedules. Two are enough for what one rollback can leave for another, because
userspace admits one at a time; the second finds whatever the first left, and the
two share their target, which is the hard case for identity checks. Nothing else
is bounded: boots, faults and repetitions are unlimited, and the attempt limit of
three is the code's own. No symmetry is declared: the transactions differ.
`adversity` reaches about 380,000 distinct states, `two_rollbacks` about 730,000.

Two properties need a weaker environment than `adversity`, and that is itself a
result. An initramfs without the hook, or a hook that cannot mount the volume in a
boot not requested for a rollback, only warns (`fail_or_skip`) and may run a root
and a Home from different sides of an interrupted factory reset; nothing is lost
(`OriginalPreserved` holds in `adversity`), but `RunsWholeSystem` needs `hook_runs`.
And a user who keeps choosing the recovery entry meets the first finding.

**Store and boundary.** `boundary` has three snapshots: one in the store at the
start, so that two can be created by APT's hook, which is what one package
transaction needs (before and after), and one that a record of the old format
describes. One crash at any step; a second one meets only states that the first
already makes.

**Composites.** `MCSnapshots`, `MCDesktop`, `MCTools` and `MCProgress` run several
modules in one model: the variable `part` is chosen at the start and never changes,
the chosen module runs alone over a common pool of variables `x1`, `x2`, ..., and
each property says, per part, which of the module's own properties hold. A part's
comment gives its setting and its `WITH` clause every bound. Several parts
instantiate one module where a single setting with every feature would be too
large: the features a setting switches off are on in a sibling, and no action of a
module is idle in all of them. Deadlock is not checked in the composites, because
their bounded environments stop. In `MCProgress` a part lists what may have begun
and when it is over, the variable `goal` picks an entry, and `Weak(k)` and
`Strong(k)` bundle the fairness of the parts, which exclude each other.

**Findings.**

1. `rerun_hook`: the engine remembers the boot that performs a revert so that a
   hook that runs again after a failed `reboot -f` asks for the restart again. It
   does not when the boot named the rollback and its attempts are exhausted, and
   the second invocation boots on.
2. `rootless`: between renaming `@root` away and renaming the clone to `@root`
   the volume has no `@root`, and GRUB reads its configuration from there; the
   qualification plan expects that no interruption leaves this.
3. `nested_revert`: a revert discards the restored root with a plain subvolume
   deletion, which Btrfs refuses if the restored system created a nested subvolume.
   Every later boot stops at the same place.

Elsewhere the code did not keep what its documents or comments promise either. The
definitions named here are in the modules; TLC refutes each within a few steps under
small constants, and the composites check what does hold in its place.

| Promise | Where it fails |
| --- | --- |
| a damaged snapshot can be removed (`DeletionFinishes`) | `operations.rs:1152`: without a lineage node the deletion never passes `mark_snapshot_removed` |
| automatic cleanup never takes the last usable snapshot (`CleanupKeepsOne`) | helper `main.rs:2567`: Home deletions have no floor, and the user may delete the one the decision kept |
| buckets stay when the time zone changes (`BucketsStable`) | helper `main.rs:2485`: the offset is that of the cleanup, not of the snapshot |
| one notification per low-space episode (`told <= 1`) | helper `main.rs:2757`: a save clears markers on a probe from before. `OnePausePerEpisode` allows one more per save that overlaps; a save that switches a scope off may cause yet another, because a scheduler that loaded the older policy clears them too |
| the pause clears (`marker = {}`) | helper `main.rs:626`: a handler with an older policy marks a scope that is off by then, and nobody removes the mark. `PauseClears` is about the scopes that are on |
| a scrub is over when its call returns (`ActiveHasWorker`) | `btrfs.rs:345`: a failed cancel writes back a phase from before the end, which stays until the next scrub; it hides, doubles and blocks no run (`RunIsShown`) |
| a recovery point that is browsed exists (`BrowsedExists`) | `operations.rs:732`, `lineage.rs:584`: a creation whose last write reports an error after the rename is cleaned up without a browse lock, with its node available and the head moved |
| a Home record that is Ready has its snapshot (`RecordsOK`) | `personal.rs:491`, `:750`: where the write of Ready reports an error and the write of Broken then fails too, the record stays Ready; discovery shows it as an issue |
| a recovered file or folder is whole or absent (`OldOrNew`, `FolderWhole`) | `personal_history.rs:796`: a temporary file that cannot be removed stays, and nothing says so; `:852`: a folder that cannot be removed stays in part, and the error says so; `:792`: the new file may be in place although the sync after the rename reported an error |
| a copy keeps its lease (`CopyKeepsLease`) | helper `main.rs:216`, `:1193`: not beyond four hours, nor beyond the helper's life; the copy then fails |
| every version in a snapshot is listed (`HistoryComplete`) | `personal_history.rs:255`, `:267`: an error of the helper that is not one of the two that `history_query_failed` knows counts as "not in that snapshot" |
| the installation is never left rootless (`NeverRootless`) | `offline.rs:380`: resumed under a clock that is behind, the transaction refuses itself |
| a change that fails leaves both SSH files alone (`AllOrNothing`) | `ssh_config.rs:78`: when the last inspection fails, the call returns its error with both files changed; so it does each time the user's own configuration has an `Include` that the new fragment matches (`:157`); and an undo may fail (`:269`) |
| a concurrent edit aborts (`EditsKept`, `NoDangling`) | `ssh_config.rs:553`, `:262`: between the comparison and the rename; two changes from two switches |
| an account keeps its way to sudo, a removed key opens nothing (`DisableKeepsAccess`, `RevokedForGood`) | `data/helper:161`, `:92`: after an enrollment cut off between its files |
| a deleted credential is gone, a retry is safe, keys load from one device (`DeletedIsGone`, `RetrySafe`, `LoadsFromOne`) | `ssh.rs:374`, `:294`, `window.rs:1866`: another key at the same path |
| a failed selection is undone (`FailureRestores`) | `git_signing.rs:132`: the way back stops at its first failure |
| an armed rollback cannot be deferred (`NoDefer`) | `snapshot_page.rs:1702`: a refused restart is not asked for again |
| refs and processes are of this repository and generation (`RefsAreHere`, `ProcessesMatchGeneration`), habits are kept (`HabitsKept`) | `domains.rs:923`, `runtime.rs:333`, `history.rs:257` of the guesser |
| the speed of a computer is measured once (`MeasuredOnce`) | `tuning.rs:981`, `:986`: that the result cannot be saved is ignored, and the next process measures again |
| Finish drains, a retest is kept (`FinishDrains`, `RetestKept`) | `service.rs:223`, `config.rs:89` of dictation |
| swap survives a power loss, a failed resize and a removal (`BootsWithSwap`, `FailureHarmless`, `ResumeTargetKept`, `PlainApplyLeavesZswap`, `SwappinessSet`, `AppliedConfig`) | `data/helper:113`, `:144`, `swap_view.rs:378`, `:660`, `sysctl.rs:127`, `setup-zram.sh:19` |
| an edited rule, a deleted row, a removed profile, a failed toggle (`EditKeepsRule`, `DeletesShown`, `RemovedAsReported`, `SwitchComesBack`) | `add_rule_dialog.rs:327`, `rule_row.rs:105`, `backend.rs:550`, `profiles_view.rs:254` |
| the status page shows policy, controls and discovery (`PolicyShown`, `ControlsReturn`, `MdnsResolves`) | `backend.rs:34`, `status_view.rs:384`, `:326` |
| the audit's directions and blocks (`RepliedMeansSent`, `ServedStayInbound`, `OwnIsNotRemote`, `BlockTakesEffect`) | `ufwall-auditor.rs:119`, `:257`, `:28`, `network_audit_view.rs:545` |

**Fairness of the rollback** (`LiveSpec`). Weak fairness of the engine's and the services' own steps:
nothing but a fault keeps a started program from its next step. The confirmation
service is started in each boot with a record and restarted by systemd after an
error; it competes with cancel and schedule for the lock, so resuming a settled
record has strong fairness. The operator eventually restarts a stopped machine, or
one that is up with nothing to do, and does not choose the recovery entry for ever
(strong fairness of a normal boot). Faults (power loss, failed steps, deferred
deletions) happen any number of times but eventually cease; without that the retry
limits themselves end in a stopped boot each time, and nothing could be promised.
`Fault` excludes a step that the operation takes of itself, so that for instance an
orderly reboot is not forbidden for looking like a power loss. A rejected layout
(`RefusedLayout`) is not a fault: it is the code's answer to what it finds.

**Fairness of the other parts.** Each module with a liveness property states its
`Fairness`: a started program or thread takes its next step (weak), a callback that
is queued on a main loop runs (weak), a process that waits for a lock that is
released again and again gets it (strong: `flock` queues its waiters), and a timer
fires. Users, faults, crashes and other processes are never fair. A command of
another program ends, except where the code has a timeout for it; there the
timeout is what is fair.

**Mutants.** Each property of a passing run has a mutated definition (marked
"Mutant" in the modules, used by no action) that a plausible slip in the code would
amount to: a limit not checked, a boot id not recorded, a revert that deletes the
wrong subvolume, a record dropped too early. TLC finds the property violated with it.

## 4. Proofs

Eight modules prove theorems of the specifications that the runs check, for every
value of the constants: any sets of transactions, snapshots, actors, dialogs and
processes, any number of boots and faults, any choice of what the environment may do. Nothing is assumed but
the assumptions on constants that the modules state.

| Theorem | Says of every behaviour | Run |
| --- | --- | --- |
| `LifecycleInvariant`, `SettlementInvariant`, `LifecycleIsOK` | `Inductive`, `SettlementOK`, `LifecycleOK`, each within the next | `adversity` |
| `TypeCorrect` | `TypeOK`; neither attempt counter passes its limit | `adversity` |
| `OriginalIsPreserved` | `OriginalPreserved` | `adversity` |
| `ConfirmedIsTarget` | `ConfirmedRunsTarget` | `two_rollbacks` |
| `LedgersAlwaysAgree`, `HeadIsMounted` | `LedgersAgree`, `LineageHeadIsRoot` | both |
| `NothingIsOrphaned`, `PurgeIsConfirmed` | `NoOrphanSubvolumes`, `PurgeOnlyAfterConfirmation` | `adversity` |
| `OldSubvolumesAreSafe` | the action property `OldSubvolumesOutliveDoubt` | `adversity` |
| `LifecycleIsAtomic` | the refinement `ImplementsAtomicRollback` | `two_rollbacks` |
| `RecordAlwaysLoads`, `NoEntryLoop` | `PendingRecordLoads`, `NoRecoveryEntryLoop` | `adversity` |
| `ConfirmedInItsOwnBoot` | the action property `ConfirmsInItsOwnBoot` | `adversity` |
| `WholeSystemRuns` | `RunsWholeSystem`, if the hook always runs | `hook_runs` |
| `KernelIsNotCarriedOver` | `NoKernelCarryOver`, if besides nobody picks entries by hand | `two_rollbacks` |
| `CoordinationIsOK`, `CoordinationTypes` | `CoordinationOK` and with it `TypeOK` | `boundary` |
| `RestorePointsStay`, `BoundaryIsOne`, `LineageAlwaysAgrees` | `RestorePointsExist`, `OneBoundary`, `LineageAgrees` | `boundary` |
| `IssuesAreExplained`, `BrowsedStays`, `CatchesUpOnce` | `IssuesExplained`, `BrowsedExists`, `OneCatchUp` | `snapshots`, as parts |
| `FloorIsKept` | the action property `CleanupKeepsFloor` | `snapshots`, as a part |
| `HomeIsOK` | `HomeOK` | `snapshots`, as a part |
| `HomeRestorePointsStay`, `BaselineIsOne`, `OpenHomeStays`, `HomeCatchesUpOnce` | `HomeRestorePointsExist`, `OneFactoryHome`, `OpenHomeExists`, `OneHomeCatchUp` | `snapshots`, as parts |
| `OfflineIsOK`, `LayoutIsKnown` | `OfflineOK`, `LayoutKnown` | `snapshots`, as parts |
| `RootIsNeverLost` | `NeverRootless`, if the clock of the rescue centre is not behind | `snapshots`, as a part |
| `SuccessIsWhole`, `HistoryIsKept` | the action properties `SuccessIsComplete`, `HistoryBeforeDiscard` | `snapshots`, as parts |
| `HelperIsOK`, `AllWorkIsAuthorized` | `HelperOK`, `WorkIsAuthorized` | `snapshots`, as parts |
| `BudgetHolds`, `CreationsLieApart`, `DisksAreAskedOnce` | `PasswordlessBudget`, `CreationsSpaced`, `DisksAskedOnce` | `snapshots`, as parts |
| `ProtectedIsKept`, `ChangesAreAuthorized`, `AnswersAreTrue` | the action properties `ProtectedStays`, `ChangesAuthorized`, `AnswersTrue` | `snapshots`, as parts |
| `MaintenanceIsOK`, `RunsAreShown`, `TasksHaveWorkers` | `MaintenanceOK`; `RunIsShown`; `ActiveHasWorker`, but for a scrub | `snapshots`, as parts |
| `ResultsAreFresh` | the action property `ResultNotStale` | `snapshots`, as a part |
| `HistoryIsOK`, `RowsAreOfPath`, `CopyHasItsLease` | `HistoryOK`, `RowsOfPath`, `CopyKeepsLease` | `desktop`, as parts |
| `CopiesAreWhole`, `VersionsAreComplete` | `OldOrNew` and `FolderWhole`; `HistoryComplete` | `desktop`, as parts |
| `OthersAreKept` | the action property `OthersKept` | `desktop`, as a part |
| `EngineIsOK`, `NoneIsLeft`, `AnswersAreOwn` | `EngineOK`, `NoOrphans`, `AnswersMatch` | `tools`, as parts |
| `FailedGpuIsAvoided`, `EngineAlwaysFits` | `FailedGpuAvoided`, `EngineFits` | `tools`, as parts |

With these, every safety property and the refinement that the runs of `MCRollback` and
of `SnapshotCoordination` check are proved, and with them what `snapshots` checks of the
two stores, the offline restore, the helper and the maintenance tasks, what `desktop`
checks of `FileHistory`, and what `tools` checks of `SpeechEngine`.

**Assumptions.** The rollback proofs use `TxnAssumption` and `EnvironmentAssumption`:
the transactions are not the installer nor "absent", each has a kind, a protocol and a
target, and the environment's switches are what they are. Two theorems here, and
`RootIsNeverLost`, have a hypothesis on the environment, which is that of their run,
and the counterexamples without it are described in section 3. `CoordinationAssumption` collects the
assumptions of its four modules: APT and the coordinator are two of the actors, users
are others, the value that stands for "none" is no record, lineage or transaction, and
the bounds are natural numbers. `MaxSnapshots`, `MinRestorable` and `MaxFaults` are any
natural numbers. `HomeAssumption` says the same of `HomeStore`, `HelperAssumption` of
`HelperService` (windows and lifetimes are natural numbers, zero included) and
`OfflineAssumption` of `OfflineRecovery`, where the loop of `converge` may take five
turns or more: the code takes up to eight. `MaintenanceAssumption` makes the numbers of
polls and runs positive, `HistoryAssumption` and `EngineAssumption` say that "none" is
not one of the numbers, records or processes it stands beside, and that `Holding` are
snapshots; their bounds are any natural numbers. These six are hypotheses of the
theorems, since the runs that instantiate the modules check them there.
`TasksHaveWorkers` excludes the scrub, for which it is false: a failed cancellation puts
back the phase it had read, after the run has ended too (section 3).

**The subvolumes** (`Inductive`). What apply and revert do depends only on which of
three names exist, so preservation of the original needs more than its own statement.
`Inductive` adds four parts to `TypeOK`. `ControlOK` ties each value of `pc` to the
phases it can meet, because the engine and the service act on a record read
earlier. `LayoutOK` says that each slot of the pending transaction lies in one of
four places, `Untouched`, `Staged`, `Between` and `Replaced`, and which of them each
phase admits; apply walks down that list, revert walks up, and a power loss leaves
it as it is. `FreshOK` says that an id not yet given out has left no trace,
so a new transaction cannot meet subvolumes under its names. `CleanupOK` says that
only confirmed transactions are marked for deletion, so a cleanup pass cannot take
the protected root of a pending one. `ConfirmedRunsTarget` follows because only
`Replaced` is admitted in the phase that confirmation starts from: the proof does not
use the identity check, which cannot tell two clones of one snapshot apart.

**The ledgers** (`LedgerOK`, `DeletionOK`). The three `finish_*` paths write lineage,
cleanup record, archive and record in an order, may stop after each and begin again.
`LedgerOK` says what each step may rely on: an entry of a pending rollback is absent or
is the outcome in the record, the lineage is written when the later steps run, the
archive when the record goes. `DeletionOK` says what keeps a protected subvolume
named: a confirmed rollback is in `cleanupPending` or has nothing left, from
the step that schedules the cleanup on; a pass that ends either deferred something or
deleted it. With that, removing the record orphans nothing on any path.

**The refinement.** `AtomicRollback` has the system the user can count on, the active
rollback, and outcomes. `system` is where the record says it is: the original until
the phase is Confirmed, the clones from then on, though they are mounted long before.
`LifecycleStepIsAtomic` has one step per action: `ScheduleCreate` begins, the one
transition to Confirmed commits, the transitions to Reverted and Failed abandon,
`FinishPurge` erases, removing the record ends, and everything else, every power
loss included, stutters. It needs `Inductive` (a confirmed slot is at its target) and
`LedgerOK` (an outcome is given once).

**The boots** (`RecordOK`, `SelectorOK`, `HandOffOK`, `RestartOK`). `RecordOK` is
`validate` as an invariant, with the one fact it needs of a program counter: the engine
that is about to apply has counted its attempt. `SelectorOK` follows every place that
can name a rollback for the next boot, the menus inside each root included. `HandOffOK`
says that the phases between two systems never reach a running machine, provided no
initramfs skips the hook. `RestartOK` has three parts for protocol 3: one boot is
requested for a rollback (`SelectedOnce`), each boot that reverts it is noted in the
record (`BootNoted`), and a boot that has moved a subvolume is on its way to a restart
(`CarriesToRestart`). A user who picks the entry by hand breaks the first, and finding 1
is what follows.

**The store and its locks** (`CoordinationOK`). A job that is under way holds
`operation.lock`, so there is one at a time (`HoldsLock`, lemma `OneJobAtATime`), and
what it has done so far is written at each step (`Making`, `Deleting`): a creation in
progress is in state Creating and unknown to the lineage, unless its last write reported
an error after it was made (`halfUndone`), and a deletion has marked its
record before it takes the snapshot. A death leaves a step undone and gives the
lock back, so these parts have to hold for whatever it leaves. `Safe(i)` is
what protects a restore point: it is intact and nobody is still making it, so that no
cleanup of a failed creation takes it; a deletion has to pass `references`, under
`start.lock`, which the coordinator holds from its second verification to the record
(`CoordOK`, `RestoreOK`). `LineageOK` adds to `LineageAgrees` that an unsaved lineage
knows nothing. That the lineage migrated from old records is valid needs a newest
snapshot to exist (`NewestExists`, by well-founded induction on the numbers left).
The floor of cleanup needs a count: what discovery counts as restorable is intact
(`RestorableIsIntact`), so the count that the code takes of records is one of
snapshots, and `FloorStep` compares the cardinalities. The single catch-up snapshot
follows from `OneAtMost`: no two such snapshots, and none at all while the creation of
one is under way.

**The store of Home** (`HomeOK`). The same plan with other locks: `operation.lock` is
waited for, verify takes none, and a browse lock is tried. So `JobOK` also says when a
record may be Ready while its snapshot is being removed: only after a write of Ready
that reported an error (`torn`), and `RecordsOK` that such a record is the only one that
may stay Ready without its snapshot, whatever of its clean-up fails as well.
Everything else rests on that: what verify accepts is no creation's any more unless it
is torn (`ReaderOK`), what the coordinator verified under `start.lock` stays until the
record is written (`CoordOK`, `RestoreOK`; the fallback it has just created is never
torn, because a creation that reports an error ends the rollback), and a scheduled
snapshot that can be restored is seen by the next timer (`CatchUpOK`). The exceptions
for `torn` in `HomeRestorePointsExist` and `OpenHomeExists` are thus the only ones.

**The offline restore** (`OfflineOK`). `converge` decides by the three names of the root
and writes its phase after the fact, so the journal may be one step behind the disk.
`JournalOK` says how the names may lie for an early phase, an activated one and a
completed one; `ToolOK` what the tool relies on at each place, and that the transaction
it holds is the one on disk. Every way to leave the tool, the loss of power included,
keeps the first and voids the second, and the next run begins from the first alone.
That the loop never runs out of turns needs `TurnsOK`: each branch raises the `Rank` of
the layout, which has five values. `ClockOK` says that only a clock that is behind
writes a record which `load_pending` refuses.

**The helper** (`HelperOK`). Between its arrival and its answer a call waits for Polkit,
a mutex or the disks. `CallsOK` says that what a call was granted and what it still
needs cover all that its method asks for (so at work it was granted all of it), and
that what a batch has dealt with is gone: no other method brings a snapshot back.
`QuotaOK` says that the quota is the end of the history, and that what it has
forgotten left the window, so that the code, which counts what it remembers, counts the
window. `LimitOK` and `CacheOK` say that all but the last time noted left the window
(`Apart`); for the cache the last one is the age of the stored result, unless somebody is
asking the disks, who then holds the mutex.

**The maintenance tasks** (`MaintenanceOK`). `WorkerOK` says how the flag, the thread,
the phase and the command depend on each other at every point of the thread, with the
scrub's way back as the one exception. `BaselineOK` is the argument for a fresh result: a
dialog that found a run over notes its generation, and while that is still the last
generation no thread has begun, so that an answer either says "active" (then the dialog
keeps waiting) or is the old result, which it does not take for the end of a run.
A new run raises the generation before its thread begins. The proof has one lemma for what
every step of the helper keeps of the dialogs (`HelperKeeps`) and needs no count of the
polls: they may run out, but what the dialog then says is not a result.

**Files of a snapshot** (`HistoryOK`). No action changes both the browser with its copy
and the search for earlier versions, so lemma `Parts` splits the invariant and each half
has its own frame. For the first, `BrowserOK` says that a listing in flight is no newer
than the last load and, if it is of that load, of its path; `LeaseOK` says that the
browser and a copy hold tokens that are granted, different, and not being released, which
is why closing the one cannot take the lease of the other, though the helper may drop any
(`expired`); `DiskOK` that what is half written while a copy runs is its own. What stays
of a copy that ended is tied to what its user was `told`. For the second, `SearchOK` says
that a search that has not failed has found each version, has yet to ask for it, or has
`missed` it because of an error the window ignores, while snapshots go.

**The recognition engine** (`EngineOK`). `BackendOK` says that one process runs at most,
the engine's or the one in the exchange (`Owner`), on the backend that the identity and
its failure so far call for (`Wanted`). `PipeOK` says what may lie in the two pipes: a
request on its way is in the pipe, at the worker, or answered, and only a worker that
died says anything else. A request that times out kills its process, and so does a
cancelled one unless the worker acknowledged, which was its answer; so nothing of an
earlier request is left in a pipe, and that is `AnswersAreOwn`.

In all eight modules a part of the system has a lemma of its own with one step per
action, over lemmas for what steps have in common (`SameLayout`, `RecordStep`,
`MoveStep`, `LedgerFrame`, `SelectorFrame`, `GotoEffect`, `OtherJobs`, `JobLeft`,
`KillIsFree`, `HelperKeeps`). TLC
checked each inductive invariant before it was proved, and checks it still
(`LifecycleOK` in `adversity`, `CoordinationOK` in `boundary`, those of both stores, the
offline restore, the helper and the maintenance tasks within `TypesOK` of `snapshots`, and
`HistoryOK` and `EngineOK` within that of `desktop` and `tools`).

**Only model-checked.** Liveness (`RollbackSettles`, `Progress` and what `progress`
checks): fairness and ENABLED are out of the prover's reach. `Retention` compares two
definitions of one selection over bounded inputs; that they agree on every sequence
would take induction over data, which the prover's library cannot be used for here.
The safety properties of the other modules, each a state machine of its own,
for which no theorem is stated: `Automation`, `SnapshotPages`, `SshPersistence`,
`AuthHelper`, `ResidentKeys`, `SecurityCenter`, `GitSigning`, `GuessRuntime`,
`GuessLearning`, `VoiceTyping`, `BackendSelection`, `SwapControl`, `ZramDevices`,
`StressTest`, `FirewallRules`,
`FirewallStatus` and `NetworkAudit`. The composites themselves are TLC's: a theorem is
about a module, its instance in a composite is a setting of it. The violation runs are
counterexamples, which need no proof.

## 5. Not modelled

Everything marked `not_modelled` or `partly` in `PROJECT.json`. In particular:
records of schema 1 to 3 and protocol 1, which the current version only finishes;
torn writes below the level of `rename` and `fsync`, which are taken at their word;
the clock, although a clock that steps back makes the engine refuse its own writes
(a failed step in the model); which kernel a boot loads, beyond `switched`. In
`RollbackLifecycle` the snapshot a rollback restores is simply there;
`SnapshotCoordination`, where it is created, referred to and deleted, has the switch as
one step. What the two share is the pending record and its outcome. `reserve` of the
helper reads the clock before it takes the mutex of the quota; `HelperService` does both
in one step, which leaves out reservations made in another order than their clocks were
read.

## 6. Plan

1. Proofs of `GuessRuntime` (nothing of another directory or generation is answered) and
   of `Automation` (one announcement per episode), whose invariants relate a generation
   to what is in flight as `BaselineOK` does.
2. The pages and dialogs of the desktop application (`SnapshotPages`).
3. The phrases of `VoiceTyping`: its order property needs a statement about sequences
   that are cut at both ends.
