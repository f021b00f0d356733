---------------------------- MODULE FileHistory ----------------------------
(***************************************************************************)
(* The windows of personal_history.rs: the browser of a System snapshot     *)
(* with its lease, its folders loaded in the background, the copy of a file *)
(* or a folder to a place the user chose (run_restore) with a lease of its  *)
(* own, and the File History window that looks for one path in every ready  *)
(* Home snapshot.                                                           *)
(*                                                                          *)
(* A snapshot's tree is a chain: every folder holds one file and, down to   *)
(* MaxDepth, one folder, so a folder is its depth and joining or dropping a *)
(* name is adding or subtracting one.  The helper grants leases and drops   *)
(* them after four hours, or with itself, whoever still uses them           *)
(* (HelperService has the clock; here a lease may expire at any moment).    *)
(***************************************************************************)
EXTENDS Integers, FiniteSets

CONSTANTS
    Snaps,        \* the ready Home snapshots at first
    Holding,      \* those the path of the File History window is found in
    MaxDepth,     \* bound: depth of the browsed tree
    MaxEntries,   \* MAX_RECOVERY_ENTRIES
    MaxTokens,    \* bound: leases granted
    MaxLoads,     \* bound: loads of each window (its generations)
    MaxFaults,    \* bound: calls and disk operations that fail
    None

Tokens == 1..MaxTokens
Asking == 0

Browsers == [lease : Tokens, path : 0..MaxDepth, generation : 1..MaxLoads,
             rows : {None} \cup 0..MaxDepth]
Listings == [generation : 1..MaxLoads, path : 0..MaxDepth, lease : Tokens,
             reply : {None, "listed", "error"}]
Restores == [what : {"file", "folder"}, from : 0..MaxDepth, asked : 0..MaxDepth,
             window : Tokens, lease : {None} \cup Tokens,
             step : {"authorize", "open", "copy", "rename"}, entries : 0..MaxEntries]
Searches == [generation : 1..MaxLoads, left : SUBSET Snaps, found : SUBSET Snaps,
             missed : SUBSET Snaps, failed : BOOLEAN]
Reports == [what : {"file", "folder"}, said : {"done", "error", "leftover"}]

HistoryAssumption ==
    /\ Holding \subseteq Snaps
    /\ {MaxDepth, MaxEntries, MaxTokens, MaxLoads, MaxFaults} \subseteq Nat
    /\ None \notin Nat /\ None \notin Browsers \cup Restores \cup Reports
    /\ None \notin {"error", "versions"}

VARIABLES
    parent,     \* the main window is open
    begin,      \* show_system_snapshot_browser: None, Asking or the token
    leases,     \* the tokens the helper holds
    tokens,     \* how many it has granted
    lost,       \* tokens that reached no owner
    releasing,  \* tokens whose release thread runs
    expired,    \* tokens that the helper dropped unasked
    browser,    \* the browser window, or None
    lists,      \* its listings in flight
    restore,    \* the copy under way, or None
    disk,       \* the destinations of the last copy on the user's disk
    told,       \* how the last copy ended, or None
    present,    \* the Home snapshots that still exist
    history,    \* the File History window; missed: snapshots it did not get to see
    searches,   \* its queries in flight
    faults

granted == <<begin, leases, tokens, lost, releasing, expired>>
browsing == <<browser, lists>>
copying == <<restore, disk, told>>
looking == <<present, history, searches>>
vars == <<parent, granted, browsing, copying, looking, faults>>

Init ==
    /\ parent = TRUE /\ begin = None /\ leases = {} /\ tokens = 0 /\ lost = {}
    /\ releasing = {} /\ expired = {} /\ browser = None /\ lists = {}
    /\ restore = None /\ told = None
    /\ disk \in [file : {"absent", "old"}, temp : {FALSE}, folder : {"absent"}]
    /\ present = Snaps /\ searches = {}
    /\ history = [generation |-> 0, shown |-> None, versions |-> {}, missed |-> {}]
    /\ faults = 0

Fault == faults < MaxFaults /\ faults' = faults + 1
----------------------------------------------------------------------------
(* Browse Files of a System snapshot: a lease first, the window after it.  *)
BrowseSystem ==
    /\ parent /\ begin = None /\ browser = None /\ restore = None
    /\ begin' = Asking
    /\ UNCHANGED <<parent, leases, tokens, lost, releasing, expired>>
    /\ UNCHANGED <<browsing, copying, looking, faults>>

GrantBrowse ==
    /\ begin = Asking /\ tokens < MaxTokens
    /\ tokens' = tokens + 1 /\ leases' = leases \cup {tokens + 1}
    /\ begin' = tokens + 1
    /\ UNCHANGED <<parent, lost, releasing, expired, browsing, copying, looking, faults>>

(* The authorization is dismissed, or the snapshot is no longer available. *)
RefuseBrowse ==
    /\ begin = Asking /\ begin' = None
    /\ UNCHANGED <<parent, leases, tokens, lost, releasing, expired>>
    /\ UNCHANGED <<browsing, copying, looking, faults>>

(* A load of the browser: the list is emptied before the thread starts.    *)
LoadDirectory(b, path) ==
    /\ b.generation < MaxLoads
    /\ browser' = [b EXCEPT !.generation = @ + 1, !.path = path, !.rows = None]
    /\ lists' = lists \cup {[generation |-> b.generation + 1, path |-> path,
                             lease |-> b.lease, reply |-> None]}

(* show_browser; without a parent window the token has no owner.           *)
ShowBrowser ==
    /\ begin \in Tokens /\ begin' = None
    /\ IF parent
       THEN /\ LoadDirectory([lease |-> begin, path |-> 0, generation |-> 0, rows |-> None], 0)
            /\ lost' = lost
       ELSE lost' = lost \cup {begin} /\ UNCHANGED browsing
    /\ UNCHANGED <<parent, leases, tokens, releasing, expired, copying, looking, faults>>

CloseParent ==
    /\ parent /\ browser = None /\ parent' = FALSE
    /\ UNCHANGED <<granted, browsing, copying, looking, faults>>

(* Mutant: the parent of the root is asked for.                            *)
UpFromRoot ==
    /\ browser # None /\ restore = None
    /\ LoadDirectory(browser, browser.path - 1)
    /\ UNCHANGED <<parent, granted, copying, looking, faults>>

Up ==
    /\ browser # None /\ restore = None
    /\ LoadDirectory(browser, IF browser.path = 0 THEN 0 ELSE browser.path - 1)
    /\ UNCHANGED <<parent, granted, copying, looking, faults>>

(* Open on the row of a folder: its name is joined to the current path.    *)
Open ==
    /\ browser # None /\ restore = None /\ browser.rows # None /\ browser.rows < MaxDepth
    /\ LoadDirectory(browser, browser.path + 1)
    /\ UNCHANGED <<parent, granted, copying, looking, faults>>

(* The helper lists a folder, or does not.                                 *)
List(l) ==
    /\ l \in lists /\ l.reply = None
    /\ lists' = (lists \ {l}) \cup
           {[l EXCEPT !.reply = IF l.lease \in leases THEN "listed" ELSE "error"]}
    /\ UNCHANGED <<parent, granted, browser, copying, looking, faults>>
ListFails(l) ==
    /\ l \in lists /\ l.reply = None /\ Fault
    /\ lists' = (lists \ {l}) \cup {[l EXCEPT !.reply = "error"]}
    /\ UNCHANGED <<parent, granted, browser, copying, looking>>

(* The answer is shown if no load has begun since and the window is open.  *)
DirectoryLoaded(l) ==
    /\ l \in lists /\ l.reply # None /\ lists' = lists \ {l}
    /\ browser' = IF browser = None THEN None
                  ELSE IF browser.generation # l.generation \/ l.reply = "error" THEN browser
                  ELSE [browser EXCEPT !.rows = l.path]
    /\ UNCHANGED <<parent, granted, copying, looking, faults>>

(* Mutant: the close handler does not release; a handler keeps the lease.  *)
CloseBrowserKeeps ==
    /\ browser # None /\ browser' = None /\ lists' = {}
    /\ UNCHANGED <<parent, granted, copying, looking, faults>>

(* The close request releases the lease, once, on a thread of its own.     *)
(* Generations start again in the next window, whose loads are its own.    *)
CloseBrowser ==
    /\ browser # None /\ browser' = None /\ lists' = {}
    /\ releasing' = releasing \cup {browser.lease}
    /\ UNCHANGED <<parent, begin, leases, tokens, lost, expired, copying, looking, faults>>

EndBrowse(t) ==
    /\ t \in releasing /\ releasing' = releasing \ {t} /\ leases' = leases \ {t}
    /\ UNCHANGED <<parent, begin, tokens, lost, expired, browsing, copying, looking, faults>>

(* The helper keeps leases in memory: validate_browse_lease forgets one    *)
(* that is four hours old, and a helper that is stopped all of them.       *)
LeaseExpires(t) ==
    /\ t \in leases /\ leases' = leases \ {t} /\ expired' = expired \cup {t}
    /\ UNCHANGED <<parent, begin, tokens, lost, releasing, browsing, copying, looking, faults>>
----------------------------------------------------------------------------
(* Recover: the destination is chosen, then the copy goes to a thread.     *)
(* The window it came from may be closed meanwhile.  Its temporary file    *)
(* and its folder get names that are not taken (unique_destination).       *)
Chosen ==
    /\ disk' = [disk EXCEPT !.temp = FALSE, !.folder = "absent"]
    /\ told' = None

ChooseFile ==
    /\ browser # None /\ restore = None /\ browser.rows # None
    /\ restore' = [what |-> "file", from |-> browser.rows, asked |-> browser.path,
                   window |-> browser.lease, lease |-> None, step |-> "authorize", entries |-> 0]
    /\ Chosen
    /\ UNCHANGED <<parent, granted, browsing, looking, faults>>

ChooseFolder ==
    /\ browser # None /\ restore = None
    /\ restore' = [what |-> "folder", from |-> browser.path, asked |-> browser.path,
                   window |-> browser.lease, lease |-> None, step |-> "authorize", entries |-> 0]
    /\ Chosen
    /\ UNCHANGED <<parent, granted, browsing, looking, faults>>

(* authorize_export: a lease of its own.                                   *)
AuthorizeExport ==
    /\ restore # None /\ restore.step = "authorize" /\ tokens < MaxTokens
    /\ tokens' = tokens + 1 /\ leases' = leases \cup {tokens + 1}
    /\ restore' = [restore EXCEPT !.lease = tokens + 1, !.step = "open"]
    /\ UNCHANGED <<parent, begin, lost, releasing, expired, browsing, disk, told, looking, faults>>

(* The lease of the copy is dropped, and released, when the thread ends.   *)
Ends(said) ==
    /\ restore' = None /\ told' = [what |-> restore.what, said |-> said]
    /\ releasing' = releasing \cup ({restore.lease} \ {None})

(* A file goes to a temporary file beside the destination; a folder is     *)
(* created and must not exist.                                             *)
OpenFile ==
    /\ restore # None /\ restore.what = "file" /\ restore.step = "open"
    /\ restore.lease \in leases
    /\ disk' = [disk EXCEPT !.temp = TRUE]
    /\ restore' = [restore EXCEPT !.step = "copy"]
    /\ UNCHANGED <<parent, granted, browsing, told, looking, faults>>

CreateFolder ==
    /\ restore # None /\ restore.what = "folder" /\ restore.step = "open"
    /\ disk.folder = "absent"
    /\ disk' = [disk EXCEPT !.folder = "partial"]
    /\ restore' = [restore EXCEPT !.step = "copy"]
    /\ UNCHANGED <<parent, granted, browsing, told, looking, faults>>

(* Somebody made a folder of that name meanwhile: it is left alone.        *)
FolderTaken ==
    /\ restore # None /\ restore.what = "folder" /\ restore.step = "open"
    /\ disk.folder # "absent" /\ Ends("error")
    /\ UNCHANGED <<parent, begin, leases, tokens, lost, expired, browsing, disk, looking, faults>>

(* Mutant: the bytes go to the destination itself.                         *)
CopyInPlace ==
    /\ restore # None /\ restore.what = "file" /\ restore.step = "copy"
    /\ disk' = [disk EXCEPT !.file = "partial", !.temp = FALSE]
    /\ restore' = [restore EXCEPT !.step = "rename"]
    /\ UNCHANGED <<parent, granted, browsing, told, looking, faults>>

(* write_recovered_file: copied, synced, then renamed over the destination. *)
CopyFile ==
    /\ restore # None /\ restore.what = "file" /\ restore.step = "copy"
    /\ restore' = [restore EXCEPT !.step = "rename"]
    /\ UNCHANGED <<parent, granted, browsing, disk, told, looking, faults>>
RenameFile ==
    /\ restore # None /\ restore.step = "rename" /\ Ends("done")
    /\ disk' = [disk EXCEPT !.file = "new", !.temp = FALSE]
    /\ UNCHANGED <<parent, begin, leases, tokens, lost, expired, browsing, looking, faults>>

(* It was renamed, but the sync of its directory fails.                    *)
RenameUnsynced ==
    /\ restore # None /\ restore.step = "rename" /\ Fault /\ Ends("error")
    /\ disk' = [disk EXCEPT !.file = "new", !.temp = FALSE]
    /\ UNCHANGED <<parent, begin, leases, tokens, lost, expired, browsing, looking>>

(* restore_directory_bounded: entry by entry, each listed and opened under *)
(* the lease, until the whole tree is there.                               *)
CopyEntry ==
    /\ restore # None /\ restore.what = "folder" /\ restore.step = "copy"
    /\ restore.lease \in leases /\ restore.entries < MaxEntries
    /\ restore' = [restore EXCEPT !.entries = @ + 1]
    /\ UNCHANGED <<parent, granted, browsing, disk, told, looking, faults>>
FolderCopied ==
    /\ restore # None /\ restore.what = "folder" /\ restore.step = "copy"
    /\ restore.lease \in leases \/ restore.entries > 0
    /\ disk' = [disk EXCEPT !.folder = "whole"] /\ Ends("done")
    /\ UNCHANGED <<parent, begin, leases, tokens, lost, expired, browsing, looking, faults>>

(* A failed copy removes its temporary file or its folder, and nothing     *)
(* that is not its own.                                                    *)
Cleaned(d) == [d EXCEPT !.temp = FALSE, !.folder = IF @ = "partial" THEN "absent" ELSE @]

(* An entry too many, a lease that is gone, a call or a disk that fails.   *)
TooLarge == restore.what = "folder" /\ restore.step = "copy" /\ restore.entries = MaxEntries
Unleased ==
    /\ restore.step = (IF restore.what = "file" THEN "open" ELSE "copy")
    /\ restore.lease \notin leases
CopyFails ==
    /\ restore # None
    /\ IF TooLarge \/ Unleased THEN faults' = faults ELSE Fault
    /\ disk' = Cleaned(disk) /\ Ends("error")
    /\ UNCHANGED <<parent, begin, leases, tokens, lost, expired, browsing, looking>>

(* The removal fails as well.  Of a folder the error says so, of a         *)
(* temporary file nothing does.                                            *)
CleanupFails ==
    /\ restore # None /\ (disk.temp \/ disk.folder = "partial") /\ Fault
    /\ Ends(IF restore.what = "file" THEN "error" ELSE "leftover")
    /\ UNCHANGED <<parent, begin, leases, tokens, lost, expired, browsing, disk, looking>>

(* Another program makes a folder of the chosen name.                      *)
OtherFolder ==
    /\ restore # None /\ disk.folder = "absent" /\ disk' = [disk EXCEPT !.folder = "other"]
    /\ UNCHANGED <<parent, granted, browsing, restore, told, looking, faults>>
----------------------------------------------------------------------------
(* The File History window: every load asks the snapshots one by one.      *)
LoadVersions ==
    /\ history.generation < MaxLoads
    /\ history' = [generation |-> history.generation + 1, shown |-> None,
                   versions |-> {}, missed |-> {}]
    /\ searches' = searches \cup {[generation |-> history.generation + 1, left |-> present,
                                   found |-> {}, missed |-> {}, failed |-> FALSE]}
    /\ UNCHANGED <<parent, granted, browsing, copying, present, faults>>

(* A snapshot answers with or without the path, or with an error.  Only a  *)
(* refused authorization and a call that fails end the search              *)
(* (history_query_failed); with any other error the snapshot counts as one *)
(* without the path.                                                       *)
Answers == {"answered", "unknown", "failed"}
Asked(q, s, answer) ==
    [q EXCEPT !.left = @ \ {s}, !.failed = answer = "failed",
              !.missed = IF answer = "unknown" THEN @ \cup {s} ELSE @,
              !.found = IF answer = "answered" /\ s \in Holding \cap present
                        THEN @ \cup {s} ELSE @]

AskSnapshot(q, s) ==
    /\ q \in searches /\ s \in q.left /\ ~q.failed
    /\ \E answer \in Answers :
         /\ IF answer = "answered" THEN faults' = faults ELSE Fault
         /\ searches' = (searches \ {q}) \cup {Asked(q, s, answer)}
    /\ UNCHANGED <<parent, granted, browsing, copying, present, history>>

VersionsLoaded(q) ==
    /\ q \in searches /\ (q.left = {} \/ q.failed) /\ searches' = searches \ {q}
    /\ history' = IF history.generation # q.generation THEN history
                  ELSE IF q.failed THEN [history EXCEPT !.shown = "error"]
                  ELSE [history EXCEPT !.shown = "versions", !.versions = q.found,
                                       !.missed = q.missed]
    /\ UNCHANGED <<parent, granted, browsing, copying, present, faults>>

(* The helper deletes a Home snapshot.                                     *)
SnapshotDeleted(s) ==
    /\ s \in present /\ present' = present \ {s}
    /\ UNCHANGED <<parent, granted, browsing, copying, history, searches, faults>>
----------------------------------------------------------------------------
Next ==
    \/ BrowseSystem \/ GrantBrowse \/ RefuseBrowse \/ ShowBrowser \/ CloseParent
    \/ Up \/ Open \/ CloseBrowser \/ ChooseFile \/ ChooseFolder \/ AuthorizeExport
    \/ OpenFile \/ CreateFolder \/ FolderTaken \/ CopyFile \/ RenameFile
    \/ RenameUnsynced \/ CopyEntry \/ FolderCopied \/ CopyFails \/ CleanupFails
    \/ OtherFolder \/ LoadVersions
    \/ \E l \in lists : List(l) \/ ListFails(l) \/ DirectoryLoaded(l)
    \/ \E t \in Tokens : EndBrowse(t) \/ LeaseExpires(t)
    \/ \E q \in searches : VersionsLoaded(q) \/ \E s \in Snaps : AskSnapshot(q, s)
    \/ \E s \in Snaps : SnapshotDeleted(s)

Spec == Init /\ [][Next]_vars

CopyStep ==
    \/ AuthorizeExport \/ OpenFile \/ CreateFolder \/ FolderTaken \/ CopyFile \/ RenameFile
    \/ FolderCopied \/ (restore # None /\ (TooLarge \/ Unleased) /\ CopyFails)

(* Threads run and the main loop takes their results; the disk is never    *)
(* full for ever.                                                          *)
LiveSpec ==
    /\ Spec /\ WF_vars(\E t \in Tokens : EndBrowse(t)) /\ WF_vars(ShowBrowser)
    /\ WF_vars(CopyStep)
----------------------------------------------------------------------------
(* Tokens were granted, destinations are in a known state, generations     *)
(* stay in their bounds.                                                   *)
TypeOK ==
    /\ parent \in BOOLEAN /\ begin \in {None, Asking} \cup Tokens
    /\ tokens \in 0..MaxTokens /\ leases \cup lost \cup releasing \cup expired \subseteq 1..tokens
    /\ browser \in Browsers \cup {None} /\ lists \subseteq Listings
    /\ restore \in Restores \cup {None}
    /\ disk \in [file : {"absent", "old", "new", "partial"}, temp : BOOLEAN,
                 folder : {"absent", "other", "partial", "whole"}]
    /\ told \in Reports \cup {None}
    /\ present \subseteq Snaps /\ searches \subseteq Searches
    /\ history \in [generation : 0..MaxLoads, shown : {None, "error", "versions"},
                    versions : SUBSET Snaps, missed : SUBSET Snaps]

(* The rows of the browser are those of the path above them, however the   *)
(* answers of earlier folders come in; so Recover copies what it shows.    *)
RowsOfPath ==
    /\ browser # None /\ browser.rows # None => browser.rows = browser.path
    /\ restore # None => restore.from = restore.asked

(* A copy never loses its lease to the window it was started from, which   *)
(* may be closed while it runs, nor to a release of its own: it has it     *)
(* until it ends, or until the helper drops it unasked.                    *)
CopyKeepsLease ==
    restore # None /\ restore.lease # None =>
        restore.lease \in (leases \cup expired) \ releasing

(* The chosen file holds what it held or all of the recovered one, and the *)
(* latter if the copy is reported as done.  A temporary file stays beside  *)
(* it only after a copy that failed and could not remove it.               *)
OldOrNew ==
    /\ disk.file # "partial"
    /\ restore = None /\ disk.temp => told = [what |-> "file", said |-> "error"]
    /\ told = [what |-> "file", said |-> "done"] => disk.file = "new"

(* A folder that is not recovered whole is not there, or the user is told  *)
(* that it could not be removed; one that is reported as done is whole.    *)
FolderWhole ==
    /\ restore = None /\ disk.folder = "partial" => told = [what |-> "folder", said |-> "leftover"]
    /\ told = [what |-> "folder", said |-> "done"] => disk.folder = "whole"

(* "It does not merge with or overwrite an existing folder": one that      *)
(* somebody made under the chosen name is never touched.                   *)
OthersKept == disk.folder = "other" => disk'.folder = "other" \/ restore = None

(* An earlier version in a snapshot that still exists is listed, however   *)
(* searches overlap: a call that fails, or that Polkit refuses, is shown   *)
(* as an error and never as "no earlier version".  What may be missing is  *)
(* only the version of a snapshot for which the helper reported an error   *)
(* of another kind to this very search.                                    *)
HistoryComplete ==
    history.shown = "versions" =>
        Holding \cap present \subseteq history.versions \cup history.missed

(* The browser has listings in flight only while it is open, none newer    *)
(* than its last load, and those of that load ask for its path.            *)
BrowserOK ==
    /\ begin # None => browser = None /\ restore = None
    /\ browser = None => lists = {}
    /\ \A l \in lists : /\ l.generation <= browser.generation
                        /\ l.generation = browser.generation => l.path = browser.path

(* The browser and the copy hold a token each, not the same one and not    *)
(* one that is being released.                                             *)
Held ==
    (IF begin \in Tokens THEN {begin} ELSE {}) \cup
    (IF browser = None THEN {} ELSE {browser.lease}) \cup
    (IF restore = None THEN {} ELSE {restore.lease} \ {None})
LeaseOK ==
    /\ Held \subseteq (1..tokens) \ releasing
    /\ browser # None /\ restore # None => browser.lease # restore.lease
    /\ restore # None => (restore.lease = None <=> restore.step = "authorize")

(* While a copy is under way, what is half written is its own.             *)
DiskOK ==
    restore # None =>
        /\ told = None
        /\ disk.temp \/ restore.step = "rename" => restore.what = "file"
        /\ disk.folder = "partial" <=> restore.what = "folder" /\ restore.step = "copy"

(* What a search has neither found nor missed it has yet to ask for.       *)
SearchOK ==
    \A q \in searches :
        ~q.failed => Holding \cap present \subseteq q.left \cup q.found \cup q.missed

HistoryOK ==
    /\ TypeOK /\ BrowserOK /\ LeaseOK /\ DiskOK /\ SearchOK
    /\ RowsOfPath /\ CopyKeepsLease /\ OldOrNew /\ FolderWhole /\ HistoryComplete

(* "Closing the browser or completing an export releases its lease         *)
(* asynchronously": a lease nobody uses goes.                              *)
Begun ==
    [t \in Tokens |->
        /\ t \in leases /\ t \notin lost /\ begin # t
        /\ (IF browser = None THEN TRUE ELSE browser.lease # t)
        /\ (IF restore = None THEN TRUE ELSE restore.lease # t)]
Over == [t \in Tokens |-> t \notin leases]
Progress == \A t \in Tokens : Begun[t] ~> Over[t]
============================================================================
