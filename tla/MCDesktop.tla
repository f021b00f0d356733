------------------------------ MODULE MCDesktop ------------------------------
(***************************************************************************)
(* The security centre, the pages of the snapshot manager, file recovery   *)
(* and the command guesser for TLC, one part at a time: a behaviour        *)
(* chooses a part and runs that part alone; all parts use one pool of      *)
(* variables.                                                              *)
(***************************************************************************)
EXTENDS Naturals, Sequences

CONSTANTS e1, e2, e3, e4, None, Error

VARIABLES part, x1, x2, x3, x4, x5, x6, x7, x8, x9, x10, x11, x12, x13, x14, x15, x16

vars == <<part, x1, x2, x3, x4, x5, x6, x7, x8, x9, x10, x11, x12, x13, x14, x15, x16>>

(* The variables a part does not use stay empty.                           *)
Empty16 == TRUE
Empty14 == x15 = None /\ x16 = None /\ Empty16
Empty13 == x14 = None /\ Empty14
Empty12 == x13 = None /\ Empty13
Empty11 == x12 = None /\ Empty12
Empty6 == x7 = None /\ x8 = None /\ x9 = None /\ x10 = None /\ x11 = None /\ Empty11
Empty5 == x6 = None /\ Empty6
Kept16 == UNCHANGED part
Kept14 == UNCHANGED <<x15, x16>> /\ Kept16
Kept13 == UNCHANGED <<x14>> /\ Kept14
Kept12 == UNCHANGED <<x13>> /\ Kept13
Kept11 == UNCHANGED <<x12>> /\ Kept12
Kept6 == UNCHANGED <<x7, x8, x9, x10, x11>> /\ Kept11
Kept5 == UNCHANGED <<x6>> /\ Kept6

(* One update of the persistent SSH block, three edits by hand, two        *)
(* failures.                                                               *)
Ssh == INSTANCE SshPersistence WITH
    config <- x1, fragment <- x2, update <- x3, before <- x4, edits <- x5,
    faults <- x6,
    Updates <- {e1}, MaxEdits <- 3, MaxFaults <- 2, MaxPieces <- 6

(* The privileged helper over two users and one key, with one failing step *)
(* and one crash.                                                          *)
Auth == INSTANCE AuthHelper WITH
    entries <- x1, mapping <- x2, pam <- x3, managed <- x4, other <- x5,
    snapshot <- x6, run <- x7, dirty <- x8, installed <- x9, minted <- x10,
    faults <- x11, crashes <- x12, policies <- x13,
    Users <- {e1, e2}, Serials <- {e3}, Password <- {e2}, MaxMinted <- 1,
    MaxFaults <- 1, MaxCrashes <- 1, MaxPolicies <- 1

(* A second enrolment after a crash.                                       *)
Crashed == INSTANCE AuthHelper WITH
    entries <- x1, mapping <- x2, pam <- x3, managed <- x4, other <- x5,
    snapshot <- x6, run <- x7, dirty <- x8, installed <- x9, minted <- x10,
    faults <- x11, crashes <- x12, policies <- x13,
    Users <- {e1, e2}, Serials <- {e3}, Password <- {e2}, MaxMinted <- 2,
    MaxFaults <- 0, MaxCrashes <- 1, MaxPolicies <- 1

(* The same helper without failures, three keys minted.                    *)
Orderly == INSTANCE AuthHelper WITH
    entries <- x1, mapping <- x2, pam <- x3, managed <- x4, other <- x5,
    snapshot <- x6, run <- x7, dirty <- x8, installed <- x9, minted <- x10,
    faults <- x11, crashes <- x12, policies <- x13,
    Users <- {e1, e2}, Serials <- {e3}, Password <- {e2}, MaxMinted <- 3,
    MaxFaults <- 0, MaxCrashes <- 0, MaxPolicies <- 1

(* Two keys and two paths: creation, deletion and retries of resident      *)
(* credentials.                                                            *)
Resident == INSTANCE ResidentKeys WITH
    plug <- x1, home <- x2, creds <- x3, agent <- x4, listed <- x5, cache <- x6,
    op <- x7, report <- x8, made <- x9, plugs <- x10, faults <- x11,
    Keys <- {e1, e2}, Paths <- {e3, e4}, Swaps <- FALSE, MaxPlugs <- 2,
    MaxFaults <- 1, MaxCreds <- 3

(* The pages of the security centre while a key comes and goes.            *)
Center == INSTANCE SecurityCenter WITH
    keys <- x1, setting <- x2, visible <- x3, active <- x4, shown <- x5,
    reading <- x6, snapshot <- x7, full <- x8, device <- x9, pending <- x10,
    event <- x11, debounce <- x12, change <- x13, plugs <- x14, changes <- x15,
    moves <- x16,
    Keys <- {e1}, Monitor <- TRUE, MaxPlugs <- 1, MaxChanges <- 2, MaxMoves <- 2

(* Git signing: four settings are written, one write fails.                *)
Git == INSTANCE GitSigning WITH
    config <- x1, update <- x2, outcome <- x3, faults <- x4, updates <- x5,
    Selectors <- {e1, e2}, MaxFaults <- 1, MaxUpdates <- 3

(* The system page: two snapshots, changes by others, an armed restore.    *)
Pages == INSTANCE SnapshotPages WITH
    store <- x1, pending <- x2, listening <- x3, signalled <- x4, page <- x5,
    load <- x6, dialog <- x7, op <- x8, ready <- x9, asked <- x10, machine <- x11,
    stale <- x12, changes <- x13, faults <- x14,
    Scopes <- {"system"}, Ids <- {e1, e2}, Entries <- {"window"}, Countdown <- 1,
    MaxChanges <- 1, MaxFaults <- 0

(* The same with one snapshot and one failed call, so that a rollback may  *)
(* stay pending.                                                           *)
Pending == INSTANCE SnapshotPages WITH
    store <- x1, pending <- x2, listening <- x3, signalled <- x4, page <- x5,
    load <- x6, dialog <- x7, op <- x8, ready <- x9, asked <- x10, machine <- x11,
    stale <- x12, changes <- x13, faults <- x14,
    Scopes <- {"system"}, Ids <- {e1}, Entries <- {"window"}, Countdown <- 1,
    MaxChanges <- 0, MaxFaults <- 1

(* The factory reset command over both scopes.                             *)
Reset == INSTANCE SnapshotPages WITH
    store <- x1, pending <- x2, listening <- x3, signalled <- x4, page <- x5,
    load <- x6, dialog <- x7, op <- x8, ready <- x9, asked <- x10, machine <- x11,
    stale <- x12, changes <- x13, faults <- x14,
    Scopes <- {"system", "home"}, Ids <- {e1}, Entries <- {"command"},
    Countdown <- 1, MaxChanges <- 1, MaxFaults <- 1

(* Browsing and recovering files with leases, one failure.                 *)
Files == INSTANCE FileHistory WITH
    parent <- x1, begin <- x2, leases <- x3, tokens <- x4, lost <- x5,
    releasing <- x6, browser <- x7, lists <- x8, restore <- x9, disk <- x10,
    present <- x11, history <- x12, searches <- x13, faults <- x14,
    told <- x15, expired <- x16,
    Snaps <- {}, Holding <- {}, MaxDepth <- 1, MaxEntries <- 1, MaxTokens <- 2,
    MaxLoads <- 3, MaxFaults <- 1

(* The search for earlier versions over three snapshots, two failed calls. *)
Versions == INSTANCE FileHistory WITH
    parent <- x1, begin <- x2, leases <- x3, tokens <- x4, lost <- x5,
    releasing <- x6, browser <- x7, lists <- x8, restore <- x9, disk <- x10,
    present <- x11, history <- x12, searches <- x13, faults <- x14,
    told <- x15, expired <- x16,
    Snaps <- {e1, e2, e3}, Holding <- {e1, e2}, MaxDepth <- 0, MaxEntries <- 0,
    MaxTokens <- 0, MaxLoads <- 2, MaxFaults <- 2

(* Two directories, two observer threads and a queue of two.               *)
Guess == INSTANCE GuessRuntime WITH
    world <- x1, event <- x2, cwd <- x3, now <- x4, serving <- x5, todo <- x6,
    queue <- x7, running <- x8, pending <- x9, drained <- x10, observed <- x11,
    failures <- x12,
    Cwds <- {e1, e2}, Commands <- {"DockerList", "MakeDirectory"}, Tools <- {"git"},
    Workers <- {e3, e4}, Capacity <- 2, HistoryEnabled <- FALSE, MaxTime <- 1,
    MaxObserved <- 2, MaxFailures <- 0

(* The tools whose snapshots expire, one thread, the history on.           *)
Lifetimes == INSTANCE GuessRuntime WITH
    world <- x1, event <- x2, cwd <- x3, now <- x4, serving <- x5, todo <- x6,
    queue <- x7, running <- x8, pending <- x9, drained <- x10, observed <- x11,
    failures <- x12,
    Cwds <- {e1},
    Commands <- {"ProcessList", "ServiceList", "AptMutation", "GitMutation"},
    Tools <- {"processes", "services", "apt", "git"}, Workers <- {e3}, Capacity <- 2,
    HistoryEnabled <- TRUE, MaxTime <- 2, MaxObserved <- 1, MaxFailures <- 1

(* Two engines share the log of learned commands, with a clearing and a    *)
(* kill.                                                                   *)
Learning == INSTANCE GuessLearning WITH
    log <- x1, lock <- x2, generation <- x3, engine <- x4, captured <- x5,
    recorder <- x6, clearing <- x7, clock <- x8, accepted <- x9, lost <- x10,
    kills <- x11,
    Engines <- {e1, e2}, Entries <- {e3, e4}, MaxLines <- 2, MaxEntries <- 1,
    MaxTail <- 3, MaxUses <- 3, MaxClears <- 1, MaxKills <- 1

(* The bounds are what the components assume of them.                      *)
ASSUME PartsAssumption ==
    /\ Ssh!PersistenceAssumption
    /\ Auth!AuthAssumption
    /\ Crashed!AuthAssumption
    /\ Orderly!AuthAssumption
    /\ Resident!ResidentAssumption
    /\ Center!CenterAssumption
    /\ Git!GitAssumption
    /\ Pages!PagesAssumption
    /\ Pending!PagesAssumption
    /\ Reset!PagesAssumption
    /\ Files!HistoryAssumption
    /\ Versions!HistoryAssumption
    /\ Guess!GuessAssumption
    /\ Lifetimes!GuessAssumption
    /\ Learning!LearningAssumption

Init ==
    \/ part = "ssh" /\ Ssh!Init /\ Empty6
    \/ part = "auth" /\ Auth!Init /\ Empty13
    \/ part = "crashed" /\ Crashed!Init /\ Empty13
    \/ part = "orderly" /\ Orderly!Init /\ Empty13
    \/ part = "resident" /\ Resident!Init /\ Empty11
    \/ part = "center" /\ Center!Init /\ Empty16
    \/ part = "git" /\ Git!Init /\ Empty5
    \/ part = "pages" /\ Pages!Init /\ Empty14
    \/ part = "pending" /\ Pending!Init /\ Empty14
    \/ part = "reset" /\ Reset!Init /\ Empty14
    \/ part = "files" /\ Files!Init /\ Empty16
    \/ part = "versions" /\ Versions!Init /\ Empty16
    \/ part = "guess" /\ Guess!Init /\ Empty12
    \/ part = "lifetimes" /\ Lifetimes!Init /\ Empty12
    \/ part = "learning" /\ Learning!Init /\ Empty11

Next ==
    \/ part = "ssh" /\ Ssh!Next /\ Kept6
    \/ part = "auth" /\ Auth!Next /\ Kept13
    \/ part = "crashed" /\ Crashed!Next /\ Kept13
    \/ part = "orderly" /\ Orderly!Next /\ Kept13
    \/ part = "resident" /\ Resident!Next /\ Kept11
    \/ part = "center" /\ Center!Next /\ Kept16
    \/ part = "git" /\ Git!Next /\ Kept5
    \/ part = "pages" /\ Pages!Next /\ Kept14
    \/ part = "pending" /\ Pending!Next /\ Kept14
    \/ part = "reset" /\ Reset!Next /\ Kept14
    \/ part = "files" /\ Files!Next /\ Kept16
    \/ part = "versions" /\ Versions!Next /\ Kept16
    \/ part = "guess" /\ Guess!Next /\ Kept12
    \/ part = "lifetimes" /\ Lifetimes!Next /\ Kept12
    \/ part = "learning" /\ Learning!Next /\ Kept11

Spec == Init /\ [][Next]_vars

-----------------------------------------------------------------------------
(* The state of every part has its type; for the pages and the guesser     *)
(* this includes that no countdown, queue or log leaves its bound.         *)
TypesOK ==
    /\ part = "ssh" => Ssh!TypeOK
    /\ part = "auth" => Auth!TypeOK
    /\ part = "crashed" => Crashed!TypeOK
    /\ part = "orderly" => Orderly!TypeOK
    /\ part = "resident" => Resident!TypeOK
    /\ part = "center" => Center!TypeOK
    /\ part = "git" => Git!TypeOK
    /\ part = "pages" => Pages!TypeOK
    /\ part = "pending" => Pending!TypeOK
    /\ part = "reset" => Reset!TypeOK
    /\ part = "files" => Files!HistoryOK
    /\ part = "versions" => Versions!HistoryOK
    /\ part = "guess" => Guess!TypeOK
    /\ part = "lifetimes" => Lifetimes!TypeOK
    /\ part = "learning" => Learning!TypeOK

(* A page shows what is: selected snapshots are listed and selectable      *)
(* although the list is replaced underneath, a page at rest shows the      *)
(* records of the helper, one armed rollback asks for one restart, a reset *)
(* that deletes the history also restores Home, and the security page      *)
(* shows the real setting after a change, also one that failed half way.   *)
PagesTruthful ==
    /\ part = "center" => Center!PageTruthful
    /\ part = "pages" => /\ Pages!SelectionListed /\ Pages!QuietPageIsCurrent
                         /\ Pages!OneRestart
    /\ part = "pending" => /\ Pending!SelectionListed /\ Pending!QuietPageIsCurrent
                           /\ Pending!OneRestart
    /\ part = "reset" => /\ Reset!SelectionListed /\ Reset!QuietPageIsCurrent
                         /\ Reset!OneRestart /\ Reset!PurgeErasesHome

(* Recovering files: the rows are those of the path above them however     *)
(* late answers come, a copy keeps its lease until the helper drops it,    *)
(* the chosen file is the old or the whole new one, a folder is recovered  *)
(* whole or not at all or the user is told that part of it stays, and an   *)
(* earlier version is missing from the list only where the helper reported *)
(* an error of its snapshot to this search.                                *)
FilesSafe ==
    /\ part = "files" => /\ Files!RowsOfPath /\ Files!CopyKeepsLease /\ Files!OldOrNew
                         /\ Files!FolderWhole
    /\ part = "versions" => Versions!HistoryComplete

(* Keys: OpenSSH never includes a fragment that is not there, an update is *)
(* done whole or not at all and its error tells which, the authentication  *)
(* helper leaves nothing half done after a repair, and for resident        *)
(* credentials a retry is offered only where nothing was created, one      *)
(* called new is new, and one called deleted is gone.                      *)
KeysSafe ==
    /\ part = "ssh" => /\ Ssh!NoDangling /\ Ssh!AllOrNothing
    /\ part = "auth" => Auth!Settled
    /\ part = "crashed" => Crashed!Settled
    /\ part = "orderly" => Orderly!Settled
    /\ part = "resident" => /\ Resident!RetrySafe /\ Resident!CreatedIsNew
                            /\ Resident!DeletedIsGone

(* The guesser offers paths of this directory only, refills an emptied     *)
(* snapshot only from an observer of its generation, and counts accepted   *)
(* jobs exactly, so that a shell which waits for them leaves none behind;  *)
(* the log of learned commands counts every use, keeps the newest entries, *)
(* and stays cleared when it was cleared.                                  *)
GuessSafe ==
    /\ part = "guess" => /\ Guess!PathsAreHere /\ Guess!TicketsHold
                         /\ Guess!DrainIsComplete
    /\ part = "lifetimes" => /\ Lifetimes!PathsAreHere /\ Lifetimes!TicketsHold
                             /\ Lifetimes!DrainIsComplete
    /\ part = "learning" => /\ Learning!ClearedStaysCleared /\ Learning!UsesAreCounted
                            /\ Learning!NewestIsKept

(* A change is made whole or taken back: removing the SSH block gives back *)
(* the bytes before it, a failed sudo policy and a failed Git update       *)
(* restore what they read, an account without a password keeps its way to  *)
(* sudo, a removed key opens nothing, and a folder that somebody else made *)
(* is not touched.                                                         *)
ChangesWholeStep ==
    /\ part = "ssh" => Ssh!BytesRestored
    /\ part = "auth" => Auth!PolicyAllOrNothing
    /\ part = "crashed" => Crashed!PolicyAllOrNothing
    /\ part = "orderly" => /\ Orderly!DisableKeepsAccess /\ Orderly!RevokedForGood
    /\ part = "git" => Git!FailureRestores
    /\ part = "files" => Files!OthersKept
ChangesWhole == [][ChangesWholeStep]_vars
=============================================================================
