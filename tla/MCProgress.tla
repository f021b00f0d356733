----------------------------- MODULE MCProgress ------------------------------
(***************************************************************************)
(* What must eventually happen, for TLC, one part at a time: a behaviour   *)
(* chooses a part and runs that part alone under the fairness its own      *)
(* module states; all parts use one pool of variables. Begun and Over of a *)
(* part list what may have begun and when it is over; goal chooses the     *)
(* entry a behaviour is judged by.                                         *)
(***************************************************************************)
EXTENDS Naturals, Sequences

CONSTANTS e1, e2, e3, None, NoActor

VARIABLES part, goal, x1, x2, x3, x4, x5, x6, x7, x8, x9, x10, x11, x12, x13, x14, x15, x16, x17,
          x18

vars == <<part, goal, x1, x2, x3, x4, x5, x6, x7, x8, x9, x10, x11, x12, x13, x14, x15, x16, x17,
         x18>>

(* The variables a part does not use stay empty.                           *)
Empty18 == TRUE
Empty16 == x17 = None /\ x18 = None /\ Empty18
Empty15 == x16 = None /\ Empty16
Empty14 == x15 = None /\ Empty15
Empty13 == x14 = None /\ Empty14
Empty12 == x13 = None /\ Empty13
Empty11 == x12 = None /\ Empty12
Empty10 == x11 = None /\ Empty11
Empty9 == x10 = None /\ Empty10
Empty8 == x9 = None /\ Empty9
Empty5 == x6 = None /\ x7 = None /\ x8 = None /\ Empty8
Kept18 == UNCHANGED <<part, goal>>
Kept16 == UNCHANGED <<x17, x18>> /\ Kept18
Kept15 == UNCHANGED <<x16>> /\ Kept16
Kept14 == UNCHANGED <<x15>> /\ Kept15
Kept13 == UNCHANGED <<x14>> /\ Kept14
Kept12 == UNCHANGED <<x13>> /\ Kept13
Kept11 == UNCHANGED <<x12>> /\ Kept12
Kept10 == UNCHANGED <<x11>> /\ Kept11
Kept9 == UNCHANGED <<x10>> /\ Kept10
Kept8 == UNCHANGED <<x9>> /\ Kept9
Kept5 == UNCHANGED <<x6, x7, x8>> /\ Kept8

(* A package transaction, a snapshot and a deletion, with one crash.       *)
Released == INSTANCE SnapshotCoordination WITH
    rec <- x1, sub <- x2, lin <- x3, job <- x4, opLock <- x5, startLock <- x6,
    browsed <- x7, fresh <- x8, halfUndone <- x9, pending <- x10, pkg <- x11,
    hook <- x12, coord <- x13, faults <- x14,
    MaxSnapshots <- 2, Actors <- {e1, e2, e3}, Hooks <- {e1, e2}, LegacyStates <- {},
    MinRestorable <- 1, Apt <- e1, Coord <- e2, Users <- {e3}, MaxFaults <- 1,
    CreateKinds <- {"Manual"}, DeleteModes <- {"user"}, Pins <- FALSE,
    Browsing <- FALSE, Policies <- {{"before"}}, Restores <- {}

(* A factory reset whose purge deletes the history.                        *)
Purged == INSTANCE SnapshotCoordination WITH
    rec <- x1, sub <- x2, lin <- x3, job <- x4, opLock <- x5, startLock <- x6,
    browsed <- x7, fresh <- x8, halfUndone <- x9, pending <- x10, pkg <- x11,
    hook <- x12, coord <- x13, faults <- x14,
    MaxSnapshots <- 3, Actors <- {e1, e2, e3}, Hooks <- {e1, e2}, LegacyStates <- {},
    MinRestorable <- 1, Apt <- e1, Coord <- e2, Users <- {e3}, MaxFaults <- 0,
    CreateKinds <- {"Factory"}, DeleteModes <- {"factory"}, Pins <- FALSE,
    Browsing <- FALSE, Policies <- {}, Restores <- {TRUE}

(* The same for Home, with one crash.                                      *)
HomePurged == INSTANCE HomeStore WITH
    rec <- x1, dir <- x2, job <- x3, homeLock <- x4, startLock <- x5, reader <- x6,
    fresh <- x7, torn <- x8, coord <- x9, pending <- x10, faults <- x11,
    MaxHomes <- 3, Actors <- {e1, e2}, Coord <- e1, CreateKinds <- {"Factory"},
    Restores <- {TRUE}, Reading <- FALSE, MaxFaults <- 1

(* Space comes back while the scheduler, its handler and a save of the     *)
(* policy run, which may switch Home off.                                 *)
Pause == INSTANCE Automation WITH
    config <- x1, due <- x2, low <- x3, marker <- x4, sent <- x5, sched <- x6,
    act <- x7, told <- x8, used <- x9, meddled <- x10,
    MaxFlips <- 2, MaxSaves <- 1, MaxFaults <- 1, Toggles <- {"personal"}

(* Two callers of the helper, one lock around the SMART cache.             *)
Calls == INSTANCE HelperService WITH
    clock <- x1, call <- x2, granted <- x3, snaps <- x4, attempts <- x5,
    limited <- x6, leases <- x7, cache <- x8, querying <- x9, pending <- x10,
    log <- x11,
    Callers <- 1..2, Ids <- {e3}, Methods <- {"create_deployment", "smart"},
    MaxTime <- 2, Allowance <- 2, QuotaWindow <- 3, RateWindow <- 2, LeaseTime <- 2,
    CacheTTL <- 2

(* A defragmentation is cancelled; the command itself need not end.        *)
Stop == INSTANCE BtrfsMaintenance WITH
    task <- x1, running <- x2, worker <- x3, command <- x4, startCall <- x5,
    cancelCall <- x6, dialog <- x7, control <- x8,
    Kind <- "defrag", Dialogs <- 1..1, MaxRuns <- 1, StartupQueries <- 2,
    FailedQueries <- 2

(* A rebalance that ends by itself, watched by a dialog.                   *)
Dialog == INSTANCE BtrfsMaintenance WITH
    task <- x1, running <- x2, worker <- x3, command <- x4, startCall <- x5,
    cancelCall <- x6, dialog <- x7, control <- x8,
    Kind <- "balance", Dialogs <- 1..1, MaxRuns <- 1, StartupQueries <- 2,
    FailedQueries <- 2

(* An offline restore that was confirmed, with three failures.             *)
Offline == INSTANCE OfflineRecovery WITH
    root <- x1, old <- x2, new <- x3, kids <- x4, dropping <- x5, restorable <- x6,
    pending <- x7, head <- x8, world <- x9, tool <- x10, outcome <- x11,
    faults <- x12,
    Snapshots <- {e1, e2}, Original <- e3, MaxTurns <- 8, MaxFaults <- 3,
    Interference <- {"lose"}

(* The home page of the security centre without udev events.               *)
Home == INSTANCE SecurityCenter WITH
    keys <- x1, setting <- x2, visible <- x3, active <- x4, shown <- x5,
    reading <- x6, snapshot <- x7, full <- x8, device <- x9, pending <- x10,
    event <- x11, debounce <- x12, change <- x13, plugs <- x14, changes <- x15,
    moves <- x16,
    Keys <- {e1}, Monitor <- FALSE, MaxPlugs <- 2, MaxChanges <- 0, MaxMoves <- 2

(* An armed rollback and the window that asks for the restart.             *)
Restart == INSTANCE SnapshotPages WITH
    store <- x1, pending <- x2, listening <- x3, signalled <- x4, page <- x5,
    load <- x6, dialog <- x7, op <- x8, ready <- x9, asked <- x10, machine <- x11,
    stale <- x12, changes <- x13, faults <- x14,
    Scopes <- {"system"}, Ids <- {e1}, Entries <- {"window"}, Countdown <- 1,
    MaxChanges <- 0, MaxFaults <- 0

(* Two leases on browsed snapshots, one failed call.                       *)
Leases == INSTANCE FileHistory WITH
    parent <- x1, begin <- x2, leases <- x3, tokens <- x4, lost <- x5,
    releasing <- x6, browser <- x7, lists <- x8, restore <- x9, disk <- x10,
    present <- x11, history <- x12, searches <- x13, faults <- x14,
    told <- x15, expired <- x16,
    Snaps <- {}, Holding <- {}, MaxDepth <- 0, MaxEntries <- 1, MaxTokens <- 2,
    MaxLoads <- 1, MaxFaults <- 1

(* Jobs of the guesser, one failing observer.                              *)
Drain == INSTANCE GuessRuntime WITH
    world <- x1, event <- x2, cwd <- x3, now <- x4, serving <- x5, todo <- x6,
    queue <- x7, running <- x8, pending <- x9, drained <- x10, observed <- x11,
    failures <- x12,
    Cwds <- {e1, e2}, Commands <- {"DockerList"}, Tools <- {}, Workers <- {e3},
    Capacity <- 2, HistoryEnabled <- TRUE, MaxTime <- 1, MaxObserved <- 1,
    MaxFailures <- 1

(* Two engines record, one is killed, the log is cleared.                  *)
Log == INSTANCE GuessLearning WITH
    log <- x1, lock <- x2, generation <- x3, engine <- x4, captured <- x5,
    recorder <- x6, clearing <- x7, clock <- x8, accepted <- x9, lost <- x10,
    kills <- x11,
    Engines <- {e1, e2}, Entries <- {e3}, MaxLines <- 2, MaxEntries <- 1,
    MaxTail <- 2, MaxUses <- 2, MaxClears <- 1, MaxKills <- 1

(* Dictation until it quits: failures and silence.                         *)
Voice == INSTANCE VoiceTyping WITH
    ctl <- x1, live <- x2, queue <- x3, events <- x4, worker <- x5, capture <- x6,
    svc <- x7, loop <- x8, settings <- x9, retest <- x10, phrase <- x11,
    partials <- x12, calls <- x13, delivered <- x14, shown <- x15, promised <- x16,
    MaxFinals <- 2, Uses <- {"quit", "failures", "silence"}, LiveModes <- {"on"},
    MaxCalls <- 2, MaxPhrases <- 1, MaxPartials <- 0, MaxRetests <- 0

(* Two requests, one crash of the engine.                                  *)
Speech == INSTANCE SpeechEngine WITH
    engine <- x1, identity <- x2, gpu_failed <- x3, model <- x4, cancel <- x5,
    call <- x6, procs <- x7, served <- x8, last <- x9, failedFor <- x10,
    crashes <- x11,
    Slots <- {e1, e2}, Backends <- {"cpu", "gpu"}, Versions <- {1}, Crashes <- 1,
    MaxRequests <- 2

(* Two operations on the swap file, one failure.                           *)
Swap == INSTANCE SwapControl WITH
    disk <- x1, active <- x2, fstab <- x3, resume <- x4, swappiness <- x5,
    zswap <- x6, helper <- x7, job <- x8, view <- x9, last <- x10, data <- x11,
    ops <- x12, faults <- x13, losses <- x14, ids <- x15,
    Sizes <- {0, 2, 6}, Capacity <- 10, Reserve <- 2, Supported <- TRUE,
    Partition <- TRUE, Comps <- {"lz4", "zstd"}, Default <- "lz4", Unknown <- "",
    Resumes <- {FALSE}, MaxOps <- 2, MaxFaults <- 1, MaxLosses <- 0, MaxData <- 0

(* Two zram operations, one failure.                                       *)
Zram == INSTANCE ZramDevices WITH
    conf <- x1, live <- x2, unit <- x3, script <- x4, job <- x5, view <- x6,
    wanted <- x7, stuck <- x8, ops <- x9, faults <- x10, losses <- x11,
    Sizes <- {1, 2}, Default <- 2, MaxDevices <- 3, MaxOps <- 2, MaxFaults <- 1,
    MaxLosses <- 0, Absent <- None

(* Two memory tests that may be cancelled.                                 *)
Stress == INSTANCE StressTest WITH
    threads <- x1, channel <- x2, closed <- x3, view <- x4, runs <- x5,
    Targets <- {0, 3}, Capacity <- 2, Holds <- 1, MaxRuns <- 2

(* One toggle of the firewall rules, two failures.                         *)
Toggles == INSTANCE FirewallRules WITH
    rules <- x1, tasks <- x2, page <- x3, pressed <- x4, profile <- x5,
    inflight <- x6, dialog <- x7, monitor <- x8, reads <- x9, deleted <- x10,
    ended <- x11, ops <- x12, faults <- x13, others <- x14,
    Rules <- {e1, e2}, ProfileRules <- {e1, e2}, MaxOps <- 1, MaxFaults <- 2,
    MaxOthers <- 0

(* One click on the firewall status page, one failure.                     *)
Commands == INSTANCE FirewallStatus WITH
    fw <- x1, avahi <- x2, widget <- x3, policies <- x4, running <- x5, reads <- x6,
    mdns <- x7, pending <- x8, missed <- x9, clicks <- x10, starts <- x11,
    faults <- x12, others <- x13,
    MaxOps <- 1, MaxFaults <- 1, MaxOthers <- 0

(* Two changes of the filter of the network audit.                         *)
Filters == INSTANCE NetworkAudit WITH
    auditor <- x1, table <- x2, cache <- x3, lookups <- x4, addrs <- x5,
    listen <- x6, queue <- x7, page <- x8, dialog <- x9, rules <- x10, quiet <- x11,
    replied <- x12, served <- x13, frozen <- x14, blocked <- x15, packets <- x16,
    clicks <- x17, others <- x18,
    Conns <- {[proto |-> "TCP", local |-> 1, remote |-> 9, ip |-> e2]}, Own <- {e1},
    Later <- {}, FilterDirs <- {"All"}, FilterProtos <- {"All", "TCP"},
    EphemeralLow <- 5, InactivityLimit <- 1, HistoryMax <- 1, MaxPackets <- 1,
    MaxQueue <- 1, MaxClicks <- 2, MaxOthers <- 0

(* The bounds are what the components assume of them.                      *)
ASSUME PartsAssumption ==
    /\ Released!SnapshotAssumption /\ Released!StoreAssumption /\ Released!AptAssumption /\ Released!CoordAssumption
    /\ Purged!SnapshotAssumption /\ Purged!StoreAssumption /\ Purged!AptAssumption /\ Purged!CoordAssumption
    /\ HomePurged!HomeAssumption
    /\ Pause!AutomationAssumption
    /\ Calls!HelperAssumption
    /\ Stop!MaintenanceAssumption
    /\ Dialog!MaintenanceAssumption
    /\ Offline!OfflineAssumption
    /\ Home!CenterAssumption
    /\ Restart!PagesAssumption
    /\ Leases!HistoryAssumption
    /\ Drain!GuessAssumption
    /\ Log!LearningAssumption
    /\ Voice!VoiceAssumption
    /\ Speech!EngineAssumption
    /\ Swap!SwapAssumption
    /\ Zram!ZramAssumption
    /\ Stress!StressAssumption
    /\ Toggles!FirewallAssumption
    /\ Commands!StatusAssumption
    /\ Filters!AuditAssumption

Init ==
    \/ part = "released" /\ Released!Init /\ Empty14 /\ goal \in {1, 2, 5}
    \/ part = "purged" /\ Purged!Init /\ Empty14 /\ goal \in {3, 4}
    \/ part = "home purged" /\ HomePurged!Init /\ Empty11 /\ goal \in 1..3
    \/ part = "pause" /\ Pause!Init /\ Empty10 /\ goal \in {1}
    \/ part = "calls" /\ Calls!Init /\ Empty11 /\ goal \in 1..2
    \/ part = "stop" /\ Stop!Init /\ Empty8 /\ goal \in {1}
    \/ part = "dialog" /\ Dialog!Init /\ Empty8 /\ goal \in 1..2
    \/ part = "offline" /\ Offline!Init /\ Empty12 /\ goal \in {1}
    \/ part = "home" /\ Home!Init /\ Empty16 /\ goal \in {1}
    \/ part = "restart" /\ Restart!Init /\ Empty14 /\ goal \in {1}
    \/ part = "leases" /\ Leases!Init /\ Empty16 /\ goal \in 1..2
    \/ part = "drain" /\ Drain!Init /\ Empty12 /\ goal \in {1}
    \/ part = "log" /\ Log!Init /\ Empty11 /\ goal \in 1..3
    \/ part = "voice" /\ Voice!Init /\ Empty16 /\ goal \in 1..6
    \/ part = "speech" /\ Speech!Init /\ Empty11 /\ goal \in {1}
    \/ part = "swap" /\ Swap!Init /\ Empty15 /\ goal \in {1}
    \/ part = "zram" /\ Zram!Init /\ Empty11 /\ goal \in {1}
    \/ part = "stress" /\ Stress!Init /\ Empty5 /\ goal \in 1..3
    \/ part = "toggles" /\ Toggles!Init /\ Empty14 /\ goal \in {1}
    \/ part = "commands" /\ Commands!Init /\ Empty13 /\ goal \in 1..5
    \/ part = "filters" /\ Filters!Init /\ Empty18 /\ goal \in {1}

Next ==
    \/ part = "released" /\ Released!Next /\ Kept14
    \/ part = "purged" /\ Purged!Next /\ Kept14
    \/ part = "home purged" /\ HomePurged!Next /\ Kept11
    \/ part = "pause" /\ Pause!Next /\ Kept10
    \/ part = "calls" /\ Calls!Next /\ Kept11
    \/ part = "stop" /\ Stop!Next /\ Kept8
    \/ part = "dialog" /\ Dialog!Next /\ Kept8
    \/ part = "offline" /\ Offline!Next /\ Kept12
    \/ part = "home" /\ Home!Next /\ Kept16
    \/ part = "restart" /\ Restart!Next /\ Kept14
    \/ part = "leases" /\ Leases!Next /\ Kept16
    \/ part = "drain" /\ Drain!Next /\ Kept12
    \/ part = "log" /\ Log!Next /\ Kept11
    \/ part = "voice" /\ Voice!Next /\ Kept16
    \/ part = "speech" /\ Speech!Next /\ Kept11
    \/ part = "swap" /\ Swap!Next /\ Kept15
    \/ part = "zram" /\ Zram!Next /\ Kept11
    \/ part = "stress" /\ Stress!Next /\ Kept5
    \/ part = "toggles" /\ Toggles!Next /\ Kept14
    \/ part = "commands" /\ Commands!Next /\ Kept13
    \/ part = "filters" /\ Filters!Next /\ Kept18

Spec == Init /\ [][Next]_vars

(* The steps that are taken once they stay possible: threads, helpers,     *)
(* timers and the main loop go on.                                         *)
Weak(k) ==
    \/ part = "released" /\ Kept14 /\
         \/ k = 1 /\ Released!StoreGoes(e1)
         \/ k = 2 /\ Released!StoreGoes(e2)
         \/ k = 3 /\ Released!StoreGoes(e3)
         \/ k = 4 /\ Released!HookGoes
    \/ part = "purged" /\ Kept14 /\
         \/ k = 1 /\ Purged!StoreGoes(e1)
         \/ k = 2 /\ Purged!StoreGoes(e2)
         \/ k = 3 /\ Purged!StoreGoes(e3)
         \/ k = 4 /\ Purged!HookGoes
         \/ k = 5 /\ Purged!CoordGoes
    \/ part = "home purged" /\ Kept11 /\
         \/ k = 1 /\ HomePurged!StoreGoes(e1)
         \/ k = 2 /\ HomePurged!StoreGoes(e2)
         \/ k = 3 /\ HomePurged!CoordGoes
         \/ k = 4 /\ HomePurged!ReaderGoes
    \/ part = "pause" /\ Kept10 /\
         \/ k = 1 /\ Pause!SchedulerSteps
         \/ k = 2 /\ Pause!HandlerSteps
         \/ k = 3 /\ Pause!SaveSteps
    \/ part = "calls" /\ Kept11 /\
         \/ k = 1 /\ Calls!Handle(1)
         \/ k = 2 /\ Calls!Handle(2)
         \/ k = 3 /\ (Calls!Grant(1) \/ Calls!Deny(1))
         \/ k = 4 /\ (Calls!Grant(2) \/ Calls!Deny(2))
    \/ part = "stop" /\ Kept8 /\
         \/ k = 1 /\ Stop!WorkerStep
         \/ k = 2 /\ Stop!CommandStarts
         \/ k = 3 /\ Stop!CancelStep(1)
    \/ part = "dialog" /\ Kept8 /\
         \/ k = 1 /\ Dialog!WorkerStep
         \/ k = 2 /\ Dialog!CommandStarts
         \/ k = 3 /\ Dialog!CancelStep(1)
         \/ k = 4 /\ Dialog!CommandEnds
         \/ k = 5 /\ Dialog!Ask(1)
         \/ k = 6 /\ Dialog!Baseline(1)
         \/ k = 7 /\ Dialog!Answered(1)
    \/ part = "offline" /\ Kept12 /\
         \/ k = 1 /\ Offline!Converge
         \/ k = 2 /\ Offline!RescueAgain
         \/ k = 3 /\ Offline!Resume
    \/ part = "home" /\ Kept16 /\
         \/ k = 1 /\ Home!FirstRefresh
         \/ k = 2 /\ Home!ReadFull
         \/ k = 3 /\ Home!FinishFull
         \/ k = 4 /\ Home!ReadDevices
         \/ k = 5 /\ Home!FinishDevices
         \/ k = 6 /\ Home!UdevEvent
         \/ k = 7 /\ Home!DebounceFires
         \/ k = 8 /\ Home!Poll
    \/ part = "restart" /\ Kept14 /\
         \/ k = 1 /\ Restart!Tick
         \/ k = 2 /\ Restart!Poll
         \/ k = 3 /\ Restart!Reconnect
         \/ k = 4 /\ (Restart!Read("system") \/ Restart!ReadFails("system"))
         \/ k = 5 /\ Restart!Loaded("system")
         \/ k = 6 /\ (Restart!Serve("window") \/ Restart!Refuse("window") \/ Restart!FailPartly("window"))
         \/ k = 7 /\ Restart!Reboot("window")
         \/ k = 8 /\ Restart!Complete("window")
         \/ k = 9 /\ (Restart!Serve("restart") \/ Restart!Refuse("restart") \/ Restart!FailPartly("restart"))
         \/ k = 10 /\ Restart!Reboot("restart")
         \/ k = 11 /\ Restart!Complete("restart")
    \/ part = "leases" /\ Kept16 /\
         \/ k = 1 /\ (\E t \in Leases!Tokens : Leases!EndBrowse(t))
         \/ k = 2 /\ Leases!ShowBrowser
         \/ k = 3 /\ Leases!CopyStep
    \/ part = "drain" /\ Kept12 /\
         \/ k = 1 /\ (Drain!submit \/ Drain!answered)
         \/ k = 2 /\ (\E idle \in BOOLEAN : Drain!wait_for_idle(idle))
         \/ k = 3 /\ Drain!WorkerGoes(e3)
    \/ part = "log" /\ Kept11 /\
         \/ k = 1 /\ Log!Record(e1)
         \/ k = 2 /\ Log!Record(e2)
         \/ k = 3 /\ (Log!clear_mark \/ Log!clear_unlink)
    \/ part = "voice" /\ Kept16 /\
         \/ k = 1 /\ Voice!work
         \/ k = 2 /\ Voice!handle_event
         \/ k = 3 /\ Voice!leave
         \/ k = 4 /\ Voice!joined
         \/ k = 5 /\ Voice!tick("none", TRUE, FALSE, FALSE)
    \/ part = "speech" /\ Kept11 /\
         \/ k = 1 /\ Speech!transcribe_cancelled
         \/ k = 2 /\ Speech!with_engine
         \/ k = 3 /\ Speech!timeout
         \/ k = 4 /\ Speech!abort_expires
    \/ part = "swap" /\ Kept15 /\
         \/ k = 1 /\ Swap!HelperStep
         \/ k = 2 /\ Swap!TaskStep
    \/ part = "zram" /\ Kept11 /\
         \/ k = 1 /\ Zram!ScriptStep
         \/ k = 2 /\ Zram!TaskStep
    \/ part = "stress" /\ Kept5 /\
         \/ k = 1 /\ Stress!Thread(1)
         \/ k = 2 /\ Stress!Thread(2)
         \/ k = 3 /\ Stress!ViewStep
    \/ part = "toggles" /\ Kept14 /\
         \/ k = 1 /\ Toggles!TaskStep
         \/ k = 2 /\ Toggles!ReadStep
         \/ k = 3 /\ Toggles!debounce_over
    \/ part = "commands" /\ Kept13 /\
         \/ k = 1 /\ Commands!Work
    \/ part = "filters" /\ Kept18 /\
         \/ k = 1 /\ Filters!tick
         \/ k = 2 /\ Filters!Work

(* The steps that wait for a lock others take and release, or are retried  *)
(* at every start.                                                         *)
Strong(k) ==
    \/ part = "released" /\ Kept14 /\
         \/ k = 1 /\ Released!AptAgain
         \/ k = 2 /\ Released!DeleteAgain(1)
         \/ k = 3 /\ Released!DeleteAgain(2)
    \/ part = "purged" /\ Kept14 /\
         \/ k = 1 /\ Purged!OutcomeGoes
         \/ k = 2 /\ Purged!PurgeGoes
         \/ k = 3 /\ Purged!SettleGoes
    \/ part = "home purged" /\ Kept11 /\
         \/ k = 1 /\ HomePurged!PurgeGoes
         \/ k = 2 /\ HomePurged!SettleGoes
    \/ part = "calls" /\ Kept11 /\
         \/ k = 1 /\ Calls!SmartLock(1)
         \/ k = 2 /\ Calls!SmartLock(2)
    \/ part = "log" /\ Kept11 /\
         \/ k = 1 /\ Log!acquire_lock(e1)
         \/ k = 2 /\ Log!acquire_lock(e2)
         \/ k = 3 /\ Log!clear_lock("transitions")

LiveSpec ==
    /\ Spec
    /\ \A k \in 1..11 : WF_vars(Weak(k))
    /\ \A k \in 1..3 : SF_vars(Strong(k))

-----------------------------------------------------------------------------
Begun ==
    \/ part = "released" /\ Released!Begun[goal]
    \/ part = "purged" /\ Purged!Begun[goal]
    \/ part = "home purged" /\ HomePurged!Begun[goal]
    \/ part = "calls" /\ Calls!Begun[goal]
    \/ part = "stop" /\ Stop!Begun[goal]
    \/ part = "dialog" /\ Dialog!Begun[goal]
    \/ part = "offline" /\ Offline!Begun[goal]
    \/ part = "restart" /\ Restart!Begun[goal]
    \/ part = "leases" /\ Leases!Begun[goal]
    \/ part = "drain" /\ Drain!Begun[goal]
    \/ part = "log" /\ Log!Begun[goal]
    \/ part = "voice" /\ Voice!Begun[goal]
    \/ part = "speech" /\ Speech!Begun[goal]
    \/ part = "swap" /\ Swap!Begun[goal]
    \/ part = "zram" /\ Zram!Begun[goal]
    \/ part = "stress" /\ Stress!Begun[goal]
    \/ part = "toggles" /\ Toggles!Begun[goal]
    \/ part = "commands" /\ Commands!Begun[goal]
    \/ part = "filters" /\ Filters!Begun[goal]
Over ==
    /\ part = "released" => Released!Over[goal]
    /\ part = "purged" => Purged!Over[goal]
    /\ part = "home purged" => HomePurged!Over[goal]
    /\ part = "calls" => Calls!Over[goal]
    /\ part = "stop" => Stop!Over[goal]
    /\ part = "dialog" => Dialog!Over[goal]
    /\ part = "offline" => Offline!Over[goal]
    /\ part = "restart" => Restart!Over[goal]
    /\ part = "leases" => Leases!Over[goal]
    /\ part = "drain" => Drain!Over[goal]
    /\ part = "log" => Log!Over[goal]
    /\ part = "voice" => Voice!Over[goal]
    /\ part = "speech" => Speech!Over[goal]
    /\ part = "swap" => Swap!Over[goal]
    /\ part = "zram" => Zram!Over[goal]
    /\ part = "stress" => Stress!Over[goal]
    /\ part = "toggles" => Toggles!Over[goal]
    /\ part = "commands" => Commands!Over[goal]
    /\ part = "filters" => Filters!Over[goal]

(* Snapshot services: locks are released, a package transaction, a         *)
(* deletion, a decided rollback and a confirmed purge reach their end      *)
(* although processes crash, calls of the helper return, a cancelled       *)
(* maintenance task stops, its dialog closes, and a confirmed offline      *)
(* restore completes. Desktop: an armed rollback asks for a restart        *)
(* without an answer of the user, every lease on a browsed snapshot is     *)
(* given back, jobs of the guesser are worked off, a recording and a       *)
(* clearing of its log end although an engine is killed. Tools: a passing  *)
(* state of dictation passes and a service that quits joins its threads, a *)
(* request to the engine ends also when the engine hangs, a swap or zram   *)
(* operation gives its controls back, a memory test ends and shows its     *)
(* result, toggles and commands of the firewall end, and a changed filter  *)
(* is applied.                                                             *)
WhatBeginsEnds == Begun ~> Over

(* When there is space again for good, the pause of the scheduler and its  *)
(* notice are cleared for good; who stays on the home page of the security *)
(* centre sees, in the end, the keys that are plugged in.                  *)
CalmIsShown ==
    /\ <>[](part = "pause" /\ Pause!SpaceIsBack) => <>[](part = "pause" => Pause!PauseOver)
    /\ <>[](part = "home" /\ Home!OnHome) => <>[](part = "home" => Home!KeysShown)
=============================================================================
