----------------------------- MODULE MCSnapshots -----------------------------
(***************************************************************************)
(* The services of the snapshot manager for TLC, one part at a time. The   *)
(* parts share no state in the code, or share it only through what their   *)
(* own modules model, so a behaviour chooses a part and runs that part     *)
(* alone; all parts use one pool of variables.                             *)
(***************************************************************************)
EXTENDS Naturals, Sequences

CONSTANTS e1, e2, e3, e4, None, NoActor

VARIABLES part, x1, x2, x3, x4, x5, x6, x7, x8, x9, x10, x11, x12, x13, x14

vars == <<part, x1, x2, x3, x4, x5, x6, x7, x8, x9, x10, x11, x12, x13, x14>>

(* The variables a part does not use stay empty.                           *)
Empty14 == TRUE
Empty12 == x13 = None /\ x14 = None /\ Empty14
Empty11 == x12 = None /\ Empty12
Empty10 == x11 = None /\ Empty11
Empty9 == x10 = None /\ Empty10
Empty8 == x9 = None /\ Empty9
Empty4 == x5 = None /\ x6 = None /\ x7 = None /\ x8 = None /\ Empty8
Kept14 == UNCHANGED part
Kept12 == UNCHANGED <<x13, x14>> /\ Kept14
Kept11 == UNCHANGED <<x12>> /\ Kept12
Kept10 == UNCHANGED <<x11>> /\ Kept11
Kept9 == UNCHANGED <<x10>> /\ Kept10
Kept8 == UNCHANGED <<x9>> /\ Kept9
Kept4 == UNCHANGED <<x5, x6, x7, x8>> /\ Kept8

(* Timers, manual snapshots, user deletion and automatic cleanup, with one *)
(* crash and one record of the old format.                                 *)
Cleanup == INSTANCE SnapshotCoordination WITH
    rec <- x1, sub <- x2, lin <- x3, job <- x4, opLock <- x5, startLock <- x6,
    browsed <- x7, fresh <- x8, halfUndone <- x9, pending <- x10, pkg <- x11,
    hook <- x12, coord <- x13, faults <- x14,
    MaxSnapshots <- 3, Actors <- {e1, e2, e3}, Hooks <- {e1, e2},
    LegacyStates <- {"Ready"}, MinRestorable <- 1, Apt <- e1, Coord <- e2,
    Users <- {e3}, MaxFaults <- 1, CreateKinds <- {"Automatic", "Manual"},
    DeleteModes <- {"user", "auto"}, Pins <- FALSE, Browsing <- FALSE,
    Policies <- {}, Restores <- {}

(* A browsed and a protected snapshot, package transactions with and       *)
(* without snapshots, one crash.                                           *)
Browsed == INSTANCE SnapshotCoordination WITH
    rec <- x1, sub <- x2, lin <- x3, job <- x4, opLock <- x5, startLock <- x6,
    browsed <- x7, fresh <- x8, halfUndone <- x9, pending <- x10, pkg <- x11,
    hook <- x12, coord <- x13, faults <- x14,
    MaxSnapshots <- 2, Actors <- {e1, e2, e3}, Hooks <- {e1, e2},
    LegacyStates <- {"Ready"}, MinRestorable <- 1, Apt <- e1, Coord <- e2,
    Users <- {e3}, MaxFaults <- 1, CreateKinds <- {"Manual"},
    DeleteModes <- {"user"}, Pins <- TRUE, Browsing <- TRUE,
    Policies <- {{"before"}, {}}, Restores <- {TRUE}

(* Restores of Home with the purge of a factory reset, an open browser and *)
(* one failure.                                                            *)
Home == INSTANCE HomeStore WITH
    rec <- x1, dir <- x2, job <- x3, homeLock <- x4, startLock <- x5, reader <- x6,
    fresh <- x7, torn <- x8, coord <- x9, pending <- x10, faults <- x11,
    MaxHomes <- 3, Actors <- {e1, e2}, Coord <- e1,
    CreateKinds <- {"Imported", "Factory"}, Restores <- {TRUE}, Reading <- TRUE,
    MaxFaults <- 1

(* Two helpers take Home snapshots when the timers fire, with two failures *)
(* in a row.                                                               *)
HomeTimers == INSTANCE HomeStore WITH
    rec <- x1, dir <- x2, job <- x3, homeLock <- x4, startLock <- x5, reader <- x6,
    fresh <- x7, torn <- x8, coord <- x9, pending <- x10, faults <- x11,
    MaxHomes <- 3, Actors <- {e1, e2, e3}, Coord <- e1,
    CreateKinds <- {"Automatic"}, Restores <- {}, Reading <- FALSE,
    MaxFaults <- 2

(* A policy with every tier, over eight ticks of a short calendar and two  *)
(* time zones.                                                             *)
Retained == INSTANCE Retention WITH
    now <- x1, snaps <- x2, offset <- x3, queue <- x4,
    MaxTime <- 8, MaxKept <- 4, DayLen <- 2, WeekLen <- 3, WeekShift <- 1,
    MonthLen <- 4, YearLen <- 8, Offsets <- {0, 1},
    Policy <- [enabled |-> TRUE, all |-> 1, daily |-> 3, weekly |-> 5, monthly |-> 8, yearly |-> TRUE],
    Floor <- TRUE, UserActs <- {"create", "break", "pin", "travel"}

(* A policy that keeps nothing beyond its tiers, with deletions and broken *)
(* snapshots meanwhile.                                                    *)
Floored == INSTANCE Retention WITH
    now <- x1, snaps <- x2, offset <- x3, queue <- x4,
    MaxTime <- 10, MaxKept <- 3, DayLen <- 2, WeekLen <- 3, WeekShift <- 1,
    MonthLen <- 4, YearLen <- 8, Offsets <- {0},
    Policy <- [enabled |-> TRUE, all |-> 1, daily |-> 3, weekly |-> 5, monthly |-> 8, yearly |-> FALSE],
    Floor <- TRUE, UserActs <- {"create", "delete", "pin", "break"}

(* Space comes and goes over many runs of the scheduler, and the policy is *)
(* saved twice meanwhile, with the same scopes.                            *)
LowSpace == INSTANCE Automation WITH
    config <- x1, due <- x2, low <- x3, marker <- x4, sent <- x5, sched <- x6,
    act <- x7, told <- x8, used <- x9, meddled <- x10,
    MaxFlips <- 3, MaxSaves <- 2, MaxFaults <- 1, Toggles <- {}

(* The policy is saved and toggled while a run is under way.               *)
Saved == INSTANCE Automation WITH
    config <- x1, due <- x2, low <- x3, marker <- x4, sent <- x5, sched <- x6,
    act <- x7, told <- x8, used <- x9, meddled <- x10,
    MaxFlips <- 1, MaxSaves <- 1, MaxFaults <- 1, Toggles <- {"system", "personal"}

(* Three callers want passwordless Home snapshots.                         *)
Quota == INSTANCE HelperService WITH
    clock <- x1, call <- x2, granted <- x3, snaps <- x4, attempts <- x5,
    limited <- x6, leases <- x7, cache <- x8, querying <- x9, pending <- x10,
    log <- x11,
    Callers <- {e1, e2, e3}, Ids <- {e4}, Methods <- {"create_personal_snapshot"},
    MaxTime <- 4, Allowance <- 2, QuotaWindow <- 3, RateWindow <- 2, LeaseTime <- 2,
    CacheTTL <- 2

(* Rate limits and the cache of SMART results.                             *)
Limits == INSTANCE HelperService WITH
    clock <- x1, call <- x2, granted <- x3, snaps <- x4, attempts <- x5,
    limited <- x6, leases <- x7, cache <- x8, querying <- x9, pending <- x10,
    log <- x11,
    Callers <- {e1, e2}, Ids <- {e3}, Methods <- {"create_deployment", "smart"},
    MaxTime <- 4, Allowance <- 2, QuotaWindow <- 3, RateWindow <- 2, LeaseTime <- 2,
    CacheTTL <- 2

(* Deletion, protection and restore from two callers.                      *)
Changes == INSTANCE HelperService WITH
    clock <- x1, call <- x2, granted <- x3, snaps <- x4, attempts <- x5,
    limited <- x6, leases <- x7, cache <- x8, querying <- x9, pending <- x10,
    log <- x11,
    Callers <- {e1, e2}, Ids <- {e3, e4},
    Methods <- {"delete_personal_snapshots", "set_personal_snapshot_pinned", "restore"},
    MaxTime <- 0, Allowance <- 2, QuotaWindow <- 3, RateWindow <- 2, LeaseTime <- 2,
    CacheTTL <- 2

(* Snapshots that are protected at creation, and a batch that deletes      *)
(* them.                                                                   *)
Protect == INSTANCE HelperService WITH
    clock <- x1, call <- x2, granted <- x3, snaps <- x4, attempts <- x5,
    limited <- x6, leases <- x7, cache <- x8, querying <- x9, pending <- x10,
    log <- x11,
    Callers <- {e1, e2}, Ids <- {e3, e4},
    Methods <- {"create_protected", "delete_personal_snapshots"}, MaxTime <- 0,
    Allowance <- 2, QuotaWindow <- 3, RateWindow <- 2, LeaseTime <- 1, CacheTTL <- 2

(* Browsing under a lease against a batched deletion.                      *)
Browse == INSTANCE HelperService WITH
    clock <- x1, call <- x2, granted <- x3, snaps <- x4, attempts <- x5,
    limited <- x6, leases <- x7, cache <- x8, querying <- x9, pending <- x10,
    log <- x11,
    Callers <- {e1, e2}, Ids <- {e3},
    Methods <- {"delete_deployments", "begin_browse", "list_files", "end_browse"},
    MaxTime <- 2, Allowance <- 2, QuotaWindow <- 3, RateWindow <- 2, LeaseTime <- 1,
    CacheTTL <- 2

(* Single deletion, protection, both restores and the methods that answer  *)
(* at once.                                                                *)
Manage == INSTANCE HelperService WITH
    clock <- x1, call <- x2, granted <- x3, snaps <- x4, attempts <- x5,
    limited <- x6, leases <- x7, cache <- x8, querying <- x9, pending <- x10,
    log <- x11,
    Callers <- {e1, e2}, Ids <- {e3},
    Methods <- {"cancel_restore", "delete_deployment", "maintenance", "save_policy", "rename", "verify", "set_deployment_pinned", "restore_home", "factory_reset"},
    MaxTime <- 0, Allowance <- 2, QuotaWindow <- 3, RateWindow <- 2, LeaseTime <- 1,
    CacheTTL <- 2

(* Two sessions watch one rebalance.                                       *)
Balance == INSTANCE BtrfsMaintenance WITH
    task <- x1, running <- x2, worker <- x3, command <- x4, startCall <- x5,
    cancelCall <- x6, dialog <- x7, control <- x8,
    Kind <- "balance", Dialogs <- {e1, e2}, MaxRuns <- 1, StartupQueries <- 1,
    FailedQueries <- 1

(* One session defragments three times.                                    *)
Defrag == INSTANCE BtrfsMaintenance WITH
    task <- x1, running <- x2, worker <- x3, command <- x4, startCall <- x5,
    cancelCall <- x6, dialog <- x7, control <- x8,
    Kind <- "defrag", Dialogs <- {e1}, MaxRuns <- 3, StartupQueries <- 2,
    FailedQueries <- 2

(* One session scrubs three times.                                         *)
Scrub == INSTANCE BtrfsMaintenance WITH
    task <- x1, running <- x2, worker <- x3, command <- x4, startCall <- x5,
    cancelCall <- x6, dialog <- x7, control <- x8,
    Kind <- "scrub", Dialogs <- {e1}, MaxRuns <- 3, StartupQueries <- 2,
    FailedQueries <- 2

(* The rescue centre restores an installation, with four failures, a       *)
(* deletion and the machines subvolume.                                    *)
Offline == INSTANCE OfflineRecovery WITH
    root <- x1, old <- x2, new <- x3, kids <- x4, dropping <- x5, restorable <- x6,
    pending <- x7, head <- x8, world <- x9, tool <- x10, outcome <- x11,
    faults <- x12,
    Snapshots <- {e1, e2}, Original <- e3, MaxTurns <- 8, MaxFaults <- 4,
    Interference <- {"delete", "machines", "lose"}

(* The bounds are what the components assume of them.                      *)
ASSUME PartsAssumption ==
    /\ Cleanup!SnapshotAssumption /\ Cleanup!StoreAssumption /\ Cleanup!AptAssumption /\ Cleanup!CoordAssumption
    /\ Browsed!SnapshotAssumption /\ Browsed!StoreAssumption /\ Browsed!AptAssumption /\ Browsed!CoordAssumption
    /\ Home!HomeAssumption
    /\ HomeTimers!HomeAssumption
    /\ Retained!RetentionAssumption /\ Retained!PolicyAssumption
    /\ Floored!RetentionAssumption /\ Floored!PolicyAssumption
    /\ LowSpace!AutomationAssumption
    /\ Saved!AutomationAssumption
    /\ Quota!HelperAssumption
    /\ Limits!HelperAssumption
    /\ Changes!HelperAssumption
    /\ Protect!HelperAssumption
    /\ Browse!HelperAssumption
    /\ Manage!HelperAssumption
    /\ Balance!MaintenanceAssumption
    /\ Defrag!MaintenanceAssumption
    /\ Scrub!MaintenanceAssumption
    /\ Offline!OfflineAssumption

Init ==
    \/ part = "cleanup" /\ Cleanup!Init /\ Empty14
    \/ part = "browsed" /\ Browsed!Init /\ Empty14
    \/ part = "home" /\ Home!Init /\ Empty11
    \/ part = "home timers" /\ HomeTimers!Init /\ Empty11
    \/ part = "retention" /\ Retained!Init /\ Empty4
    \/ part = "floor" /\ Floored!Init /\ Empty4
    \/ part = "low space" /\ LowSpace!Init /\ Empty10
    \/ part = "saved" /\ Saved!Init /\ Empty10
    \/ part = "quota" /\ Quota!Init /\ Empty11
    \/ part = "limits" /\ Limits!Init /\ Empty11
    \/ part = "changes" /\ Changes!Init /\ Empty11
    \/ part = "protect" /\ Protect!Init /\ Empty11
    \/ part = "browse" /\ Browse!Init /\ Empty11
    \/ part = "manage" /\ Manage!Init /\ Empty11
    \/ part = "balance" /\ Balance!Init /\ Empty8
    \/ part = "defrag" /\ Defrag!Init /\ Empty8
    \/ part = "scrub" /\ Scrub!Init /\ Empty8
    \/ part = "offline" /\ Offline!Init /\ Empty12

Next ==
    \/ part = "cleanup" /\ Cleanup!Next /\ Kept14
    \/ part = "browsed" /\ Browsed!Next /\ Kept14
    \/ part = "home" /\ Home!Next /\ Kept11
    \/ part = "home timers" /\ HomeTimers!Next /\ Kept11
    \/ part = "retention" /\ Retained!Next /\ Kept4
    \/ part = "floor" /\ Floored!Next /\ Kept4
    \/ part = "low space" /\ LowSpace!Next /\ Kept10
    \/ part = "saved" /\ Saved!Next /\ Kept10
    \/ part = "quota" /\ Quota!Next /\ Kept11
    \/ part = "limits" /\ Limits!Next /\ Kept11
    \/ part = "changes" /\ Changes!Next /\ Kept11
    \/ part = "protect" /\ Protect!Next /\ Kept11
    \/ part = "browse" /\ Browse!Next /\ Kept11
    \/ part = "manage" /\ Manage!Next /\ Kept11
    \/ part = "balance" /\ Balance!Next /\ Kept8
    \/ part = "defrag" /\ Defrag!Next /\ Kept8
    \/ part = "scrub" /\ Scrub!Next /\ Kept8
    \/ part = "offline" /\ Offline!Next /\ Kept12

Spec == Init /\ [][Next]_vars

-----------------------------------------------------------------------------
(* The state of every service has its type, which for the stores, the      *)
(* helper and the offline tool is part of the invariant that their safety  *)
(* follows from.                                                           *)
TypesOK ==
    /\ part = "cleanup" => Cleanup!CoordinationOK
    /\ part = "browsed" => Browsed!CoordinationOK
    /\ part = "home" => Home!HomeOK
    /\ part = "home timers" => HomeTimers!HomeOK
    /\ part = "retention" => Retained!TypeOK
    /\ part = "floor" => Floored!TypeOK
    /\ part = "low space" => LowSpace!TypeOK
    /\ part = "saved" => Saved!TypeOK
    /\ part = "quota" => Quota!HelperOK
    /\ part = "limits" => Limits!HelperOK
    /\ part = "changes" => Changes!HelperOK
    /\ part = "protect" => Protect!HelperOK
    /\ part = "browse" => Browse!HelperOK
    /\ part = "manage" => Manage!HelperOK
    /\ part = "balance" => Balance!MaintenanceOK
    /\ part = "defrag" => Defrag!MaintenanceOK
    /\ part = "scrub" => Scrub!MaintenanceOK
    /\ part = "offline" => Offline!OfflineOK

(* Whatever is created, deleted, browsed, purged or crashes meanwhile: the *)
(* snapshots a pending rollback needs exist (bind and delete under         *)
(* start.lock), a package transaction and a rollback never claim the       *)
(* boundary together, the lineage agrees with the records, a browsed       *)
(* snapshot stays, and timers that fire together take one snapshot. The    *)
(* same for Home, where there is also never a second factory baseline.     *)
RestorePointsSafe ==
    /\ part = "cleanup" => /\ Cleanup!LineageAgrees /\ Cleanup!OneCatchUp
                           /\ Cleanup!IssuesExplained
    /\ part = "browsed" => /\ Browsed!RestorePointsExist /\ Browsed!OneBoundary
                           /\ Browsed!LineageAgrees /\ Browsed!BrowsedExists
                           /\ Browsed!IssuesExplained
    /\ part = "home" => /\ Home!HomeRestorePointsExist /\ Home!OneFactoryHome
                        /\ Home!OpenHomeExists
    /\ part = "home timers" => /\ HomeTimers!OneHomeCatchUp /\ HomeTimers!OneFactoryHome

(* evaluate_retention decides what the policy promises (one newest         *)
(* snapshot per bucket of a tier), and a second cleanup at the same time   *)
(* and in the same zone removes nothing more.                              *)
RetentionExact ==
    /\ part = "retention" => /\ Retained!CleanupIsIdempotent
                             /\ Retained!EvaluationIsReference
    /\ part = "floor" => Floored!EvaluationIsReference

(* The helper never gives more passwordless snapshots in a window than the *)
(* quota over all callers, spaces the creations of a user, asks the        *)
(* disks once per cache lifetime and does no work that Polkit has not      *)
(* granted to that call; a low-space episode is announced once, over both  *)
(* scopes and any number of runs, and once more for a save of the policy   *)
(* that overlaps it; a maintenance task that runs looks active and blocks  *)
(* another one, none that is over does, and a rebalance or defragmentation *)
(* that looks active has a worker that will end it (a scrub need not,      *)
(* after a cancellation that failed); however often the offline restore is *)
(* interrupted, the installation is not left without a root for good: the  *)
(* root it had is there under its other name and a transaction that        *)
(* load_pending accepts leads on from it, and converge knows every layout  *)
(* that it can meet.                                                       *)
ServicesSafe ==
    /\ part = "low space" => LowSpace!OnePausePerEpisode
    /\ part = "quota" => Quota!PasswordlessBudget /\ Quota!WorkIsAuthorized
    /\ part = "limits" => /\ Limits!CreationsSpaced /\ Limits!DisksAskedOnce
    /\ part = "changes" => Changes!WorkIsAuthorized
    /\ part = "browse" => Browse!WorkIsAuthorized
    /\ part = "balance" => Balance!RunIsShown /\ Balance!ActiveHasWorker
    /\ part = "defrag" => Defrag!RunIsShown /\ Defrag!ActiveHasWorker
    /\ part = "scrub" => Scrub!RunIsShown
    /\ part = "offline" => Offline!NeverRootless /\ Offline!LayoutKnown

(* No step takes what it must not: automatic cleanup keeps as many real    *)
(* recovery points as the floor demands and spares one that was protected  *)
(* after the decision, a change the helper makes to a snapshot was granted *)
(* by Polkit and no deletion takes a protected snapshot or the target of a *)
(* restore, and the offline tool discards the old root only when the       *)
(* lineage names its successor.                                            *)
NothingLostStep ==
    /\ part = "cleanup" => Cleanup!CleanupKeepsFloor
    /\ part = "browsed" => Browsed!CleanupKeepsFloor
    /\ part = "floor" => /\ Floored!CleanupKeepsOne /\ Floored!CleanupSparesPinned
    /\ part = "changes" => /\ Changes!ProtectedStays /\ Changes!ChangesAuthorized
    /\ part = "protect" => /\ Protect!ProtectedStays /\ Protect!ChangesAuthorized
    /\ part = "manage" => /\ Manage!ProtectedStays /\ Manage!ChangesAuthorized
    /\ part = "offline" => Offline!HistoryBeforeDiscard
NothingLost == [][NothingLostStep]_vars

(* What is reported has happened: a batch is reported as deleted when all  *)
(* of it is gone, files are listed of a snapshot that is there, a dialog   *)
(* never shows the result of a run that was over when its button was       *)
(* clicked, the offline tool reports a restore when it is complete, and    *)
(* every run of the scheduler ends with the cleanup.                       *)
ReportsTrueStep ==
    /\ part = "low space" => LowSpace!EveryRunCleansUp
    /\ part = "saved" => Saved!EveryRunCleansUp
    /\ part = "changes" => Changes!AnswersTrue
    /\ part = "protect" => Protect!AnswersTrue
    /\ part = "browse" => Browse!AnswersTrue
    /\ part = "manage" => Manage!AnswersTrue
    /\ part = "balance" => Balance!ResultNotStale
    /\ part = "defrag" => Defrag!ResultNotStale
    /\ part = "scrub" => Scrub!ResultNotStale
    /\ part = "offline" => Offline!SuccessIsComplete
ReportsTrue == [][ReportsTrueStep]_vars
=============================================================================
