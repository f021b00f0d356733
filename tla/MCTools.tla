------------------------------- MODULE MCTools -------------------------------
(***************************************************************************)
(* Dictation, swap and the firewall application for TLC, one part at a     *)
(* time: a behaviour chooses a part and runs that part alone; all parts    *)
(* use one pool of variables.                                              *)
(***************************************************************************)
EXTENDS Naturals, Sequences

CONSTANTS e1, e2, e3, e4, None

VARIABLES part, x1, x2, x3, x4, x5, x6, x7, x8, x9, x10, x11, x12, x13, x14, x15, x16, x17,
          x18

vars == <<part, x1, x2, x3, x4, x5, x6, x7, x8, x9, x10, x11, x12, x13, x14, x15, x16, x17,
         x18>>

(* The variables a part does not use stay empty.                           *)
Empty18 == TRUE
Empty16 == x17 = None /\ x18 = None /\ Empty18
Empty15 == x16 = None /\ Empty16
Empty14 == x15 = None /\ Empty15
Empty13 == x14 = None /\ Empty14
Empty11 == x12 = None /\ x13 = None /\ Empty13
Empty10 == x11 = None /\ Empty11
Empty5 == x6 = None /\ x7 = None /\ x8 = None /\ x9 = None /\ x10 = None /\ Empty10
Kept18 == UNCHANGED part
Kept16 == UNCHANGED <<x17, x18>> /\ Kept18
Kept15 == UNCHANGED <<x16>> /\ Kept16
Kept14 == UNCHANGED <<x15>> /\ Kept15
Kept13 == UNCHANGED <<x14>> /\ Kept14
Kept11 == UNCHANGED <<x12, x13>> /\ Kept13
Kept10 == UNCHANGED <<x11>> /\ Kept11
Kept5 == UNCHANGED <<x6, x7, x8, x9, x10>> /\ Kept10

(* Three phrases with previews over a queue of two, failures of the        *)
(* engine.                                                                 *)
Dictation == INSTANCE VoiceTyping WITH
    ctl <- x1, live <- x2, queue <- x3, events <- x4, worker <- x5, capture <- x6,
    svc <- x7, loop <- x8, settings <- x9, retest <- x10, phrase <- x11,
    partials <- x12, calls <- x13, delivered <- x14, shown <- x15, promised <- x16,
    MaxFinals <- 2, Uses <- {"failures"}, LiveModes <- {"auto"}, MaxCalls <- 1,
    MaxPhrases <- 3, MaxPartials <- 1, MaxRetests <- 0

(* Two calls, the live mode switched meanwhile, a queue of one.            *)
Restarted == INSTANCE VoiceTyping WITH
    ctl <- x1, live <- x2, queue <- x3, events <- x4, worker <- x5, capture <- x6,
    svc <- x7, loop <- x8, settings <- x9, retest <- x10, phrase <- x11,
    partials <- x12, calls <- x13, delivered <- x14, shown <- x15, promised <- x16,
    MaxFinals <- 1, Uses <- {}, LiveModes <- {"on", "off"}, MaxCalls <- 2,
    MaxPhrases <- 2, MaxPartials <- 1, MaxRetests <- 0

(* Finish with phrases still to be recognized.                             *)
Finishing == INSTANCE VoiceTyping WITH
    ctl <- x1, live <- x2, queue <- x3, events <- x4, worker <- x5, capture <- x6,
    svc <- x7, loop <- x8, settings <- x9, retest <- x10, phrase <- x11,
    partials <- x12, calls <- x13, delivered <- x14, shown <- x15, promised <- x16,
    MaxFinals <- 2, Uses <- {"failures"}, LiveModes <- {"off"}, MaxCalls <- 2,
    MaxPhrases <- 2, MaxPartials <- 1, MaxRetests <- 0

(* Microphone tests, silence, a microphone that fails, a new measurement.  *)
Tests == INSTANCE VoiceTyping WITH
    ctl <- x1, live <- x2, queue <- x3, events <- x4, worker <- x5, capture <- x6,
    svc <- x7, loop <- x8, settings <- x9, retest <- x10, phrase <- x11,
    partials <- x12, calls <- x13, delivered <- x14, shown <- x15, promised <- x16,
    MaxFinals <- 2, Uses <- {"tests", "silence", "microphone fails"},
    LiveModes <- {"auto"}, MaxCalls <- 2, MaxPhrases <- 1, MaxPartials <- 0,
    MaxRetests <- 1

(* The engine process: two slots, both backends, a replaced model, a       *)
(* crash.                                                                  *)
Speech == INSTANCE SpeechEngine WITH
    engine <- x1, identity <- x2, gpu_failed <- x3, model <- x4, cancel <- x5,
    call <- x6, procs <- x7, served <- x8, last <- x9, failedFor <- x10,
    crashes <- x11,
    Slots <- {e1, e2}, Backends <- {"cpu", "gpu"}, Versions <- {1, 2}, Crashes <- 1,
    MaxRequests <- 3

(* One measurement over three speeds on eight cores.                       *)
Tuner == INSTANCE BackendSelection WITH
    world <- x1, settings <- x2, cache <- x3, failed <- x4, run <- x5, tuner <- x6,
    chosen <- x7, measured <- x8, unsaved <- x9, selects <- x10, changes <- x11,
    Cores <- {8}, Overrides <- {0}, Speeds <- {9, 10, 16}, PreviewSpeed <- 9,
    Texts <- {"", "a"}, SaveFails <- TRUE, MaxSelects <- 1, MaxChanges <- 0

(* Two selections with changes of threads, cores and settings between      *)
(* them; the result of a measurement may not be saved.                     *)
Selection == INSTANCE BackendSelection WITH
    world <- x1, settings <- x2, cache <- x3, failed <- x4, run <- x5, tuner <- x6,
    chosen <- x7, measured <- x8, unsaved <- x9, selects <- x10, changes <- x11,
    Cores <- {2, 4}, Overrides <- {0, 4}, Speeds <- {9, 10}, PreviewSpeed <- 9,
    Texts <- {"a"}, SaveFails <- TRUE, MaxSelects <- 2, MaxChanges <- 2

(* Two operations on the swap file with one failure and one power cut,     *)
(* zswap and hibernation.                                                  *)
Swap == INSTANCE SwapControl WITH
    disk <- x1, active <- x2, fstab <- x3, resume <- x4, swappiness <- x5,
    zswap <- x6, helper <- x7, job <- x8, view <- x9, last <- x10, data <- x11,
    ops <- x12, faults <- x13, losses <- x14, ids <- x15,
    Sizes <- {0, 2, 6}, Capacity <- 10, Reserve <- 2, Supported <- TRUE,
    Partition <- TRUE, Comps <- {"lz4", "zstd"}, Default <- "lz4", Unknown <- "",
    Resumes <- {TRUE, FALSE}, MaxOps <- 2, MaxFaults <- 1, MaxLosses <- 1,
    MaxData <- 4

(* A file system without swap files.                                       *)
LegacySwap == INSTANCE SwapControl WITH
    disk <- x1, active <- x2, fstab <- x3, resume <- x4, swappiness <- x5,
    zswap <- x6, helper <- x7, job <- x8, view <- x9, last <- x10, data <- x11,
    ops <- x12, faults <- x13, losses <- x14, ids <- x15,
    Sizes <- {0, 2, 6}, Capacity <- 10, Reserve <- 2, Supported <- FALSE,
    Partition <- TRUE, Comps <- {"lz4", "zstd"}, Default <- "lz4", Unknown <- "",
    Resumes <- {FALSE}, MaxOps <- 2, MaxFaults <- 1, MaxLosses <- 1, MaxData <- 0

(* Three zram operations with a failure and a power cut.                   *)
Zram == INSTANCE ZramDevices WITH
    conf <- x1, live <- x2, unit <- x3, script <- x4, job <- x5, view <- x6,
    wanted <- x7, stuck <- x8, ops <- x9, faults <- x10, losses <- x11,
    Sizes <- {1, 2}, Default <- 2, MaxDevices <- 3, MaxOps <- 3, MaxFaults <- 1,
    MaxLosses <- 1, Absent <- None

(* Two memory tests over a channel of two.                                 *)
Stress == INSTANCE StressTest WITH
    threads <- x1, channel <- x2, closed <- x3, view <- x4, runs <- x5,
    Targets <- {0, 3}, Capacity <- 2, Holds <- 1, MaxRuns <- 2

(* The two rules of one application, two operations.                       *)
Firewall == INSTANCE FirewallRules WITH
    rules <- x1, tasks <- x2, page <- x3, pressed <- x4, profile <- x5,
    inflight <- x6, dialog <- x7, monitor <- x8, reads <- x9, deleted <- x10,
    ended <- x11, ops <- x12, faults <- x13, others <- x14,
    Rules <- {e1, e2}, ProfileRules <- {e1, e2}, MaxOps <- 2, MaxFaults <- 0,
    MaxOthers <- 0

(* Three rules, one operation, one failure, and a change from elsewhere    *)
(* meanwhile.                                                              *)
SharedFirewall == INSTANCE FirewallRules WITH
    rules <- x1, tasks <- x2, page <- x3, pressed <- x4, profile <- x5,
    inflight <- x6, dialog <- x7, monitor <- x8, reads <- x9, deleted <- x10,
    ended <- x11, ops <- x12, faults <- x13, others <- x14,
    Rules <- {e1, e2, e3}, ProfileRules <- {e1, e2}, MaxOps <- 1, MaxFaults <- 1,
    MaxOthers <- 1

(* Two clicks on the status page, one failure.                             *)
Status == INSTANCE FirewallStatus WITH
    fw <- x1, avahi <- x2, widget <- x3, policies <- x4, running <- x5, reads <- x6,
    mdns <- x7, pending <- x8, missed <- x9, clicks <- x10, starts <- x11,
    faults <- x12, others <- x13,
    MaxOps <- 2, MaxFaults <- 1, MaxOthers <- 0

(* One click, one failure, and a change from elsewhere meanwhile.          *)
SharedStatus == INSTANCE FirewallStatus WITH
    fw <- x1, avahi <- x2, widget <- x3, policies <- x4, running <- x5, reads <- x6,
    mdns <- x7, pending <- x8, missed <- x9, clicks <- x10, starts <- x11,
    faults <- x12, others <- x13,
    MaxOps <- 1, MaxFaults <- 1, MaxOthers <- 1

(* A TCP server and a UDP client, nobody clicks.                           *)
Audit == INSTANCE NetworkAudit WITH
    auditor <- x1, table <- x2, cache <- x3, lookups <- x4, addrs <- x5,
    listen <- x6, queue <- x7, page <- x8, dialog <- x9, rules <- x10, quiet <- x11,
    replied <- x12, served <- x13, frozen <- x14, blocked <- x15, packets <- x16,
    clicks <- x17, others <- x18,
    Conns <- {[proto |-> "TCP", local |-> 1, remote |-> 9, ip |-> e2], [proto |-> "UDP", local |-> 9, remote |-> 1, ip |-> e3]},
    Own <- {e1}, Later <- {}, FilterDirs <- {"All", "Inbound"},
    FilterProtos <- {"All"}, EphemeralLow <- 5, InactivityLimit <- 2,
    HistoryMax <- 2, MaxPackets <- 2, MaxQueue <- 1, MaxClicks <- 0, MaxOthers <- 1

(* A server and a UDP service with equal ports; two clicks, and the        *)
(* address of the machine changes.                                         *)
Listed == INSTANCE NetworkAudit WITH
    auditor <- x1, table <- x2, cache <- x3, lookups <- x4, addrs <- x5,
    listen <- x6, queue <- x7, page <- x8, dialog <- x9, rules <- x10, quiet <- x11,
    replied <- x12, served <- x13, frozen <- x14, blocked <- x15, packets <- x16,
    clicks <- x17, others <- x18,
    Conns <- {[proto |-> "TCP", local |-> 1, remote |-> 9, ip |-> e2], [proto |-> "UDP", local |-> 2, remote |-> 2, ip |-> e4]},
    Own <- {e1}, Later <- {e3}, FilterDirs <- {"All", "Inbound"},
    FilterProtos <- {"All"}, EphemeralLow <- 5, InactivityLimit <- 1,
    HistoryMax <- 1, MaxPackets <- 1, MaxQueue <- 1, MaxClicks <- 2, MaxOthers <- 1

(* The bounds are what the components assume of them.                      *)
ASSUME PartsAssumption ==
    /\ Dictation!VoiceAssumption
    /\ Restarted!VoiceAssumption
    /\ Finishing!VoiceAssumption
    /\ Tests!VoiceAssumption
    /\ Speech!EngineAssumption
    /\ Tuner!SelectionAssumption
    /\ Selection!SelectionAssumption
    /\ Swap!SwapAssumption
    /\ LegacySwap!SwapAssumption
    /\ Zram!ZramAssumption
    /\ Stress!StressAssumption
    /\ Firewall!FirewallAssumption
    /\ SharedFirewall!FirewallAssumption
    /\ Status!StatusAssumption
    /\ SharedStatus!StatusAssumption
    /\ Audit!AuditAssumption
    /\ Listed!AuditAssumption

Init ==
    \/ part = "dictation" /\ Dictation!Init /\ Empty16
    \/ part = "restarted" /\ Restarted!Init /\ Empty16
    \/ part = "finish" /\ Finishing!Init /\ Empty16
    \/ part = "tests" /\ Tests!Init /\ Empty16
    \/ part = "speech" /\ Speech!Init /\ Empty11
    \/ part = "tuner" /\ Tuner!Init /\ Empty11
    \/ part = "selection" /\ Selection!Init /\ Empty11
    \/ part = "swap" /\ Swap!Init /\ Empty15
    \/ part = "legacy" /\ LegacySwap!Init /\ Empty15
    \/ part = "zram" /\ Zram!Init /\ Empty11
    \/ part = "stress" /\ Stress!Init /\ Empty5
    \/ part = "rules" /\ Firewall!Init /\ Empty14
    \/ part = "shared rules" /\ SharedFirewall!Init /\ Empty14
    \/ part = "status" /\ Status!Init /\ Empty13
    \/ part = "shared status" /\ SharedStatus!Init /\ Empty13
    \/ part = "audit" /\ Audit!Init /\ Empty18
    \/ part = "list" /\ Listed!Init /\ Empty18

Next ==
    \/ part = "dictation" /\ Dictation!Next /\ Kept16
    \/ part = "restarted" /\ Restarted!Next /\ Kept16
    \/ part = "finish" /\ Finishing!Next /\ Kept16
    \/ part = "tests" /\ Tests!Next /\ Kept16
    \/ part = "speech" /\ Speech!Next /\ Kept11
    \/ part = "tuner" /\ Tuner!Next /\ Kept11
    \/ part = "selection" /\ Selection!Next /\ Kept11
    \/ part = "swap" /\ Swap!Next /\ Kept15
    \/ part = "legacy" /\ LegacySwap!Next /\ Kept15
    \/ part = "zram" /\ Zram!Next /\ Kept11
    \/ part = "stress" /\ Stress!Next /\ Kept5
    \/ part = "rules" /\ Firewall!Next /\ Kept14
    \/ part = "shared rules" /\ SharedFirewall!Next /\ Kept14
    \/ part = "status" /\ Status!Next /\ Kept13
    \/ part = "shared status" /\ SharedStatus!Next /\ Kept13
    \/ part = "audit" /\ Audit!Next /\ Kept18
    \/ part = "list" /\ Listed!Next /\ Kept18

Spec == Init /\ [][Next]_vars

-----------------------------------------------------------------------------
(* The state of every part has its type, which includes that queues,       *)
(* histories and sizes keep their limits.                                  *)
TypesOK ==
    /\ part = "dictation" => Dictation!TypeOK
    /\ part = "restarted" => Restarted!TypeOK
    /\ part = "finish" => Finishing!TypeOK
    /\ part = "tests" => Tests!TypeOK
    /\ part = "speech" => Speech!EngineOK
    /\ part = "tuner" => Tuner!TypeOK
    /\ part = "selection" => Selection!TypeOK
    /\ part = "swap" => Swap!TypeOK
    /\ part = "legacy" => LegacySwap!TypeOK
    /\ part = "zram" => Zram!TypeOK
    /\ part = "rules" => Firewall!TypeOK
    /\ part = "shared rules" => SharedFirewall!TypeOK
    /\ part = "status" => Status!TypeOK
    /\ part = "shared status" => SharedStatus!TypeOK
    /\ part = "audit" => Audit!TypeOK
    /\ part = "list" => Listed!TypeOK

(* Dictation: the count the service waits on is that of the accepted       *)
(* phrases still under way, the state shown has a reason, an open          *)
(* microphone belongs to the current dictation or test, finals keep their  *)
(* order, and Finish delivers or reports every phrase accepted before it.  *)
VoiceSafe ==
    /\ part = "dictation" => /\ Dictation!PendingMatches /\ Dictation!StateHasReason
                             /\ Dictation!MicrophoneAccounted /\ Dictation!FinalsInOrder
    /\ part = "restarted" => /\ Restarted!PendingMatches /\ Restarted!StateHasReason
                             /\ Restarted!MicrophoneAccounted /\ Restarted!FinalsInOrder
    /\ part = "finish" => /\ Finishing!PendingMatches /\ Finishing!StateHasReason
                          /\ Finishing!FinishDrains
    /\ part = "tests" => /\ Tests!StateHasReason /\ Tests!MicrophoneAccounted

(* The engine: an answer belongs to the request it is returned for         *)
(* although cancelled ones answer late, no process is left behind, a GPU   *)
(* that failed is avoided until something changes, the engine runs what    *)
(* was asked for; the GPU is chosen only where it measured faster,         *)
(* previews and the cache only rest on measurements, which are made once   *)
(* unless their result could not be saved.                                 *)
SpeechSafe ==
    /\ part = "speech" => /\ Speech!AnswersMatch /\ Speech!NoOrphans
                          /\ Speech!FailedGpuAvoided /\ Speech!EngineFits
    /\ part = "tuner" => Tuner!GpuEarnsIt
    /\ part = "selection" => /\ Selection!GpuEarnsIt /\ Selection!PreviewsAreMeasured
                             /\ Selection!MeasuredOnce /\ Selection!CachedWasMeasured

(* Swap and zram: what is reported as done is done for this and the next   *)
(* start, a failure leaves or restores the old file, the switch agrees,    *)
(* the file the system resumes from keeps its place, unrelated changes     *)
(* leave zswap alone; the zram devices are those asked for unless one is   *)
(* stuck; a memory test holds memory in one thread and reports what it     *)
(* held.                                                                   *)
MemorySafe ==
    /\ part = "swap" => /\ Swap!ReportedDone /\ Swap!FailureHarmless /\ Swap!SwitchAgrees
                        /\ Swap!ResumeTargetKept /\ Swap!PlainApplyLeavesZswap
    /\ part = "legacy" => LegacySwap!ReportedDone
    /\ part = "zram" => /\ Zram!AppliedUnlessStuck /\ Zram!WantedDevices
    /\ part = "stress" => /\ Stress!OneThread /\ Stress!TimerWithTest
                          /\ Stress!PeakIsTrue

(* The firewall: a deletion by number removes the rules shown if nobody    *)
(* changed them meanwhile, all rules of an application go, what is         *)
(* reported as allowed is, an edited rule keeps its place, one toggle runs *)
(* at a time; when all is handled the switches show the firewall and the   *)
(* discovery as they are, and showing a status starts nothing. The network *)
(* audit: a connection stays until it was silent for the limit and no      *)
(* longer, an address is looked up once, a connection to a port served is  *)
(* inbound, a paused list is frozen.                                       *)
FirewallSafe ==
    /\ part = "rules" => /\ Firewall!DeletesShownIfCurrent /\ Firewall!AllDeleted
                         /\ Firewall!AllowedAsReported /\ Firewall!EditedInPlace
                         /\ Firewall!OneToggle
    /\ part = "shared rules" => /\ SharedFirewall!DeletesShownIfCurrent
                                /\ SharedFirewall!AllDeleted
                                /\ SharedFirewall!AllowedAsReported
                                /\ SharedFirewall!EditedInPlace
                                /\ SharedFirewall!OneToggle
    /\ part = "status" => /\ Status!SwitchShown /\ Status!DiscoveryShown
                          /\ Status!OnlyClicksStart
    /\ part = "shared status" => /\ SharedStatus!SwitchShown
                                 /\ SharedStatus!DiscoveryShown
                                 /\ SharedStatus!OnlyClicksStart
    /\ part = "audit" => /\ Audit!SilentAreDropped /\ Audit!LookedUpOnce
                         /\ Audit!ServedAreInbound
    /\ part = "list" => /\ Listed!SilentAreDropped /\ Listed!LookedUpOnce
                        /\ Listed!ServedAreInbound /\ Listed!PausedIsFrozen

(* A preview is shown of the phrase being spoken only, and only when every *)
(* phrase before it has been delivered (partial_valid, invalidate_locked). *)
(* A new swap file leaves the reserve of the disk free, and the old file   *)
(* is not given up before the new one is usable (swapfile_resize).         *)
StepsInOrderStep ==
    /\ part = "dictation" => Dictation!PreviewIsCurrent
    /\ part = "restarted" => Restarted!PreviewIsCurrent
    /\ part = "finish" => Finishing!PreviewIsCurrent
    /\ part = "swap" => /\ Swap!ReserveKept /\ Swap!OldFileKept
StepsInOrder == [][StepsInOrderStep]_vars
=============================================================================
