--------------------------- MODULE FileHistoryProofs ---------------------------
(***************************************************************************)
(* Proofs about the browser of a snapshot, the copy out of it and the File *)
(* History window, for every depth, number of leases and of snapshots.     *)
(***************************************************************************)
EXTENDS FileHistory, TLAPS

USE DEF granted, browsing, copying, looking, Tokens, Asking

(* The state falls in two parts that no action changes together: the       *)
(* browser with its lease and the copy, and the File History window.       *)
DeskTypes ==
    /\ parent \in BOOLEAN /\ begin \in {None, Asking} \cup Tokens
    /\ tokens \in 0..MaxTokens /\ leases \cup lost \cup releasing \cup expired \subseteq 1..tokens
    /\ browser \in Browsers \cup {None} /\ lists \subseteq Listings
    /\ restore \in Restores \cup {None}
    /\ disk \in [file : {"absent", "old", "new", "partial"}, temp : BOOLEAN,
                 folder : {"absent", "other", "partial", "whole"}]
    /\ told \in Reports \cup {None}

Desk ==
    /\ DeskTypes /\ BrowserOK /\ LeaseOK /\ DiskOK
    /\ RowsOfPath /\ CopyKeepsLease /\ OldOrNew /\ FolderWhole

Search ==
    /\ present \subseteq Snaps /\ searches \subseteq Searches
    /\ history \in [generation : 0..MaxLoads, shown : {None, "error", "versions"},
                    versions : SUBSET Snaps, missed : SUBSET Snaps]
    /\ SearchOK /\ HistoryComplete

LEMMA Parts == HistoryOK <=> Desk /\ Search
BY DEF HistoryOK, TypeOK, Desk, DeskTypes, Search

(* No report of a copy is None.                                            *)
LEMMA ReportIsSome ==
  ASSUME HistoryAssumption, NEW what \in {"file", "folder"},
         NEW said \in {"done", "error", "leftover"}
  PROVE  [what |-> what, said |-> said] # None
<1>1. [what |-> what, said |-> said] \in Reports
  BY DEF Reports
<1> QED BY <1>1 DEF HistoryAssumption

(* A request for a lease, its grant and its refusal.                       *)
LEMMA BrowseSystemPreserves ==
  ASSUME HistoryAssumption, Desk, BrowseSystem
  PROVE  Desk'
<1>1. DeskTypes'
  BY DEF BrowseSystem, Desk, DeskTypes, LeaseOK, Held, RowsOfPath, Browsers, Listings, Restores,
     HistoryAssumption
<1>2. BrowserOK' /\ RowsOfPath'
  BY DEF BrowseSystem, Desk, DeskTypes, BrowserOK, RowsOfPath, Restores, HistoryAssumption
<1>3. LeaseOK' /\ CopyKeepsLease'
  BY DEF BrowseSystem, Desk, DeskTypes, LeaseOK, Held, CopyKeepsLease, BrowserOK, Browsers,
     Restores, HistoryAssumption
<1>4. DiskOK' /\ OldOrNew' /\ FolderWhole'
  BY DEF BrowseSystem, Desk, DeskTypes, DiskOK, OldOrNew, FolderWhole, Restores
<1> QED BY <1>1, <1>2, <1>3, <1>4 DEF Desk

LEMMA GrantBrowsePreserves ==
  ASSUME HistoryAssumption, Desk, GrantBrowse
  PROVE  Desk'
<1>1. DeskTypes'
  BY DEF GrantBrowse, Desk, DeskTypes, LeaseOK, Held, RowsOfPath, Browsers, Listings, Restores,
     HistoryAssumption
<1>2. BrowserOK' /\ RowsOfPath'
  BY DEF GrantBrowse, Desk, DeskTypes, BrowserOK, RowsOfPath, Restores, HistoryAssumption
<1>3. LeaseOK' /\ CopyKeepsLease'
  BY DEF GrantBrowse, Desk, DeskTypes, LeaseOK, Held, CopyKeepsLease, BrowserOK, Browsers, Restores,
     HistoryAssumption
<1>4. DiskOK' /\ OldOrNew' /\ FolderWhole'
  BY DEF GrantBrowse, Desk, DeskTypes, DiskOK, OldOrNew, FolderWhole, Restores
<1> QED BY <1>1, <1>2, <1>3, <1>4 DEF Desk

LEMMA RefuseBrowsePreserves ==
  ASSUME HistoryAssumption, Desk, RefuseBrowse
  PROVE  Desk'
<1>1. DeskTypes'
  BY DEF RefuseBrowse, Desk, DeskTypes, LeaseOK, Held, RowsOfPath, Browsers, Listings, Restores,
     HistoryAssumption
<1>2. BrowserOK' /\ RowsOfPath'
  BY DEF RefuseBrowse, Desk, DeskTypes, BrowserOK, RowsOfPath, Restores, HistoryAssumption
<1>3. LeaseOK' /\ CopyKeepsLease'
  BY DEF RefuseBrowse, Desk, DeskTypes, LeaseOK, Held, CopyKeepsLease, BrowserOK, Browsers,
     Restores, HistoryAssumption
<1>4. DiskOK' /\ OldOrNew' /\ FolderWhole'
  BY DEF RefuseBrowse, Desk, DeskTypes, DiskOK, OldOrNew, FolderWhole, Restores
<1> QED BY <1>1, <1>2, <1>3, <1>4 DEF Desk

LEMMA CloseParentPreserves ==
  ASSUME HistoryAssumption, Desk, CloseParent
  PROVE  Desk'
<1>1. DeskTypes'
  BY ZenonT(40) DEF CloseParent, Desk, DeskTypes, LeaseOK, Held, RowsOfPath, Browsers, Listings,
     Restores, HistoryAssumption
<1>2. BrowserOK' /\ RowsOfPath'
  BY DEF CloseParent, Desk, DeskTypes, BrowserOK, RowsOfPath, Restores, HistoryAssumption
<1>3. LeaseOK' /\ CopyKeepsLease'
  BY DEF CloseParent, Desk, DeskTypes, LeaseOK, Held, CopyKeepsLease, BrowserOK, Browsers, Restores,
     HistoryAssumption
<1>4. DiskOK' /\ OldOrNew' /\ FolderWhole'
  BY DEF CloseParent, Desk, DeskTypes, DiskOK, OldOrNew, FolderWhole, Restores
<1> QED BY <1>1, <1>2, <1>3, <1>4 DEF Desk

(* The window closes: its lease, which is not that of the copy, is released.*)
LEMMA CloseBrowserPreserves ==
  ASSUME HistoryAssumption, Desk, CloseBrowser
  PROVE  Desk'
<1>1. DeskTypes'
  BY DEF CloseBrowser, Desk, DeskTypes, LeaseOK, Held, RowsOfPath, Browsers, Listings, Restores,
     HistoryAssumption
<1>2. BrowserOK' /\ RowsOfPath'
  BY DEF CloseBrowser, Desk, DeskTypes, BrowserOK, RowsOfPath, Restores, HistoryAssumption
<1>3. LeaseOK' /\ CopyKeepsLease'
  BY DEF CloseBrowser, Desk, DeskTypes, LeaseOK, Held, CopyKeepsLease, BrowserOK, Browsers,
     Restores, HistoryAssumption
<1>4. DiskOK' /\ OldOrNew' /\ FolderWhole'
  BY DEF CloseBrowser, Desk, DeskTypes, DiskOK, OldOrNew, FolderWhole, Restores
<1> QED BY <1>1, <1>2, <1>3, <1>4 DEF Desk

(* The copy begins with what the window shows.                             *)
LEMMA ChooseFilePreserves ==
  ASSUME HistoryAssumption, Desk, ChooseFile
  PROVE  Desk'
<1>0. /\ restore' \in Restores /\ restore' # None /\ restore'.lease = None
      /\ restore'.step = "authorize" /\ restore'.from = restore'.asked
      /\ disk' = [disk EXCEPT !.temp = FALSE, !.folder = "absent"] /\ told' = None
  BY DEF ChooseFile, Chosen, Desk, DeskTypes, RowsOfPath, Browsers, Restores, HistoryAssumption
<1>1. DeskTypes'
  BY <1>0 DEF ChooseFile, Desk, DeskTypes, LeaseOK, Held, RowsOfPath, Browsers, Listings, Restores,
     HistoryAssumption
<1>2. BrowserOK' /\ RowsOfPath'
  BY DEF ChooseFile, Desk, DeskTypes, BrowserOK, RowsOfPath, Restores, HistoryAssumption
<1>3. LeaseOK' /\ CopyKeepsLease'
  BY DEF ChooseFile, Desk, DeskTypes, LeaseOK, Held, CopyKeepsLease, BrowserOK, Browsers, Restores,
     HistoryAssumption
<1>4. DiskOK' /\ OldOrNew' /\ FolderWhole'
  BY <1>0, ReportIsSome DEF ChooseFile, Desk, DeskTypes, DiskOK, OldOrNew, FolderWhole, Restores
<1> QED BY <1>1, <1>2, <1>3, <1>4 DEF Desk

LEMMA ChooseFolderPreserves ==
  ASSUME HistoryAssumption, Desk, ChooseFolder
  PROVE  Desk'
<1>0. /\ restore' \in Restores /\ restore' # None /\ restore'.lease = None
      /\ restore'.step = "authorize" /\ restore'.from = restore'.asked
      /\ disk' = [disk EXCEPT !.temp = FALSE, !.folder = "absent"] /\ told' = None
  BY DEF ChooseFolder, Chosen, Desk, DeskTypes, RowsOfPath, Browsers, Restores, HistoryAssumption
<1>1. DeskTypes'
  BY <1>0 DEF ChooseFolder, Desk, DeskTypes, LeaseOK, Held, RowsOfPath, Browsers, Listings,
     Restores, HistoryAssumption
<1>2. BrowserOK' /\ RowsOfPath'
  BY DEF ChooseFolder, Desk, DeskTypes, BrowserOK, RowsOfPath, Restores, HistoryAssumption
<1>3. LeaseOK' /\ CopyKeepsLease'
  BY DEF ChooseFolder, Desk, DeskTypes, LeaseOK, Held, CopyKeepsLease, BrowserOK, Browsers,
     Restores, HistoryAssumption
<1>4. DiskOK' /\ OldOrNew' /\ FolderWhole'
  BY <1>0, ReportIsSome DEF ChooseFolder, Desk, DeskTypes, DiskOK, OldOrNew, FolderWhole, Restores
<1> QED BY <1>1, <1>2, <1>3, <1>4 DEF Desk

(* The copy gets a lease that nobody else has.                             *)
LEMMA AuthorizeExportPreserves ==
  ASSUME HistoryAssumption, Desk, AuthorizeExport
  PROVE  Desk'
<1>0. /\ restore \in Restores /\ restore' \in Restores /\ restore # None /\ restore' # None
      /\ restore'.step = "open" /\ restore'.what = restore.what
      /\ restore'.from = restore.from /\ restore'.asked = restore.asked
      /\ restore'.lease = tokens + 1
  <2>1. restore \in Restores
    BY DEF AuthorizeExport, Desk, DeskTypes
  <2>2. tokens + 1 \in {None} \cup Tokens
    BY DEF AuthorizeExport, Desk, DeskTypes, HistoryAssumption
  <2>3. restore' = [restore EXCEPT !.lease = tokens + 1, !.step = "open"]
    BY DEF AuthorizeExport
  <2>4. restore' \in Restores
    BY <2>1, <2>2, <2>3 DEF Restores
  <2> QED BY <2>1, <2>3, <2>4 DEF Restores, HistoryAssumption
<1>1. DeskTypes'
  BY <1>0 DEF AuthorizeExport, Desk, DeskTypes, LeaseOK, Held, RowsOfPath, Browsers, Listings,
     Restores, HistoryAssumption
<1>2. BrowserOK' /\ RowsOfPath'
  BY <1>0 DEF AuthorizeExport, Desk, DeskTypes, BrowserOK, RowsOfPath, Restores, HistoryAssumption
<1>3. LeaseOK' /\ CopyKeepsLease'
  BY <1>0 DEF AuthorizeExport, Desk, DeskTypes, LeaseOK, Held, CopyKeepsLease, BrowserOK,
     Browsers, Restores, HistoryAssumption
<1>4. DiskOK' /\ OldOrNew' /\ FolderWhole'
  BY <1>0 DEF AuthorizeExport, Desk, DeskTypes, DiskOK, OldOrNew, FolderWhole, Restores
<1> QED BY <1>1, <1>2, <1>3, <1>4 DEF Desk

(* The copy goes from step to step.                                        *)
LEMMA OpenFilePreserves ==
  ASSUME HistoryAssumption, Desk, OpenFile
  PROVE  Desk'
<1>0. /\ restore \in Restores /\ restore' \in Restores /\ restore # None /\ restore' # None
      /\ restore'.step = "copy" /\ restore'.what = restore.what
      /\ restore'.from = restore.from /\ restore'.asked = restore.asked
      /\ restore'.lease = restore.lease
  BY DEF OpenFile, Desk, DeskTypes, Restores, HistoryAssumption
<1>1. DeskTypes'
  BY <1>0 DEF OpenFile, Desk, DeskTypes, LeaseOK, Held, RowsOfPath, Browsers, Listings, Restores,
     HistoryAssumption
<1>2. BrowserOK' /\ RowsOfPath'
  BY <1>0 DEF OpenFile, Desk, DeskTypes, BrowserOK, RowsOfPath, Restores, HistoryAssumption
<1>3. LeaseOK' /\ CopyKeepsLease'
  BY <1>0 DEF OpenFile, Desk, DeskTypes, LeaseOK, Held, CopyKeepsLease, BrowserOK, Browsers,
     Restores, HistoryAssumption
<1>4. DiskOK' /\ OldOrNew' /\ FolderWhole'
  BY <1>0 DEF OpenFile, Desk, DeskTypes, DiskOK, OldOrNew, FolderWhole, Restores
<1> QED BY <1>1, <1>2, <1>3, <1>4 DEF Desk

LEMMA CreateFolderPreserves ==
  ASSUME HistoryAssumption, Desk, CreateFolder
  PROVE  Desk'
<1>0. /\ restore \in Restores /\ restore' \in Restores /\ restore # None /\ restore' # None
      /\ restore'.step = "copy" /\ restore'.what = restore.what
      /\ restore'.from = restore.from /\ restore'.asked = restore.asked
      /\ restore'.lease = restore.lease
  BY DEF CreateFolder, Desk, DeskTypes, Restores, HistoryAssumption
<1>1. DeskTypes'
  BY <1>0 DEF CreateFolder, Desk, DeskTypes, LeaseOK, Held, RowsOfPath, Browsers, Listings,
     Restores, HistoryAssumption
<1>2. BrowserOK' /\ RowsOfPath'
  BY <1>0 DEF CreateFolder, Desk, DeskTypes, BrowserOK, RowsOfPath, Restores, HistoryAssumption
<1>3. LeaseOK' /\ CopyKeepsLease'
  BY <1>0 DEF CreateFolder, Desk, DeskTypes, LeaseOK, Held, CopyKeepsLease, BrowserOK, Browsers,
     Restores, HistoryAssumption
<1>4. DiskOK' /\ OldOrNew' /\ FolderWhole'
  BY <1>0 DEF CreateFolder, Desk, DeskTypes, DiskOK, OldOrNew, FolderWhole, Restores
<1> QED BY <1>1, <1>2, <1>3, <1>4 DEF Desk

LEMMA CopyFilePreserves ==
  ASSUME HistoryAssumption, Desk, CopyFile
  PROVE  Desk'
<1>0. /\ restore \in Restores /\ restore' \in Restores /\ restore # None /\ restore' # None
      /\ restore'.step = "rename" /\ restore'.what = restore.what
      /\ restore'.from = restore.from /\ restore'.asked = restore.asked
      /\ restore'.lease = restore.lease
  BY DEF CopyFile, Desk, DeskTypes, Restores, HistoryAssumption
<1>1. DeskTypes'
  BY <1>0 DEF CopyFile, Desk, DeskTypes, LeaseOK, Held, RowsOfPath, Browsers, Listings, Restores,
     HistoryAssumption
<1>2. BrowserOK' /\ RowsOfPath'
  BY <1>0 DEF CopyFile, Desk, DeskTypes, BrowserOK, RowsOfPath, Restores, HistoryAssumption
<1>3. LeaseOK' /\ CopyKeepsLease'
  BY <1>0 DEF CopyFile, Desk, DeskTypes, LeaseOK, Held, CopyKeepsLease, BrowserOK, Browsers,
     Restores, HistoryAssumption
<1>4. DiskOK' /\ OldOrNew' /\ FolderWhole'
  BY <1>0 DEF CopyFile, Desk, DeskTypes, DiskOK, OldOrNew, FolderWhole, Restores
<1> QED BY <1>1, <1>2, <1>3, <1>4 DEF Desk

LEMMA CopyEntryPreserves ==
  ASSUME HistoryAssumption, Desk, CopyEntry
  PROVE  Desk'
<1>0. /\ restore \in Restores /\ restore' \in Restores /\ restore # None /\ restore' # None
      /\ restore'.step = "copy" /\ restore'.what = restore.what
      /\ restore'.from = restore.from /\ restore'.asked = restore.asked
      /\ restore'.lease = restore.lease
  BY DEF CopyEntry, Desk, DeskTypes, Restores, HistoryAssumption
<1>1. DeskTypes'
  BY <1>0 DEF CopyEntry, Desk, DeskTypes, LeaseOK, Held, RowsOfPath, Browsers, Listings, Restores,
     HistoryAssumption
<1>2. BrowserOK' /\ RowsOfPath'
  BY <1>0 DEF CopyEntry, Desk, DeskTypes, BrowserOK, RowsOfPath, Restores, HistoryAssumption
<1>3. LeaseOK' /\ CopyKeepsLease'
  BY <1>0 DEF CopyEntry, Desk, DeskTypes, LeaseOK, Held, CopyKeepsLease, BrowserOK, Browsers,
     Restores, HistoryAssumption
<1>4. DiskOK' /\ OldOrNew' /\ FolderWhole'
  BY <1>0 DEF CopyEntry, Desk, DeskTypes, DiskOK, OldOrNew, FolderWhole, Restores
<1> QED BY <1>1, <1>2, <1>3, <1>4 DEF Desk

(* The copy ends: its lease, which is not that of the window, is released. *)
LEMMA FolderTakenPreserves ==
  ASSUME HistoryAssumption, Desk, FolderTaken
  PROVE  Desk'
<1>1. DeskTypes'
  BY DEF FolderTaken, Desk, DeskTypes, LeaseOK, Held, RowsOfPath, Browsers, Listings, Restores,
     HistoryAssumption, Ends, Reports
<1>2. BrowserOK' /\ RowsOfPath'
  BY DEF FolderTaken, Desk, DeskTypes, BrowserOK, RowsOfPath, Restores, HistoryAssumption, Ends,
     Reports
<1>3. LeaseOK' /\ CopyKeepsLease'
  BY DEF FolderTaken, Desk, DeskTypes, LeaseOK, Held, CopyKeepsLease, BrowserOK, Browsers, Restores,
     HistoryAssumption, Ends, Reports
<1>4. DiskOK' /\ OldOrNew' /\ FolderWhole'
  BY DEF FolderTaken, Desk, DeskTypes, DiskOK, OldOrNew, FolderWhole, Restores, Ends, Reports
<1> QED BY <1>1, <1>2, <1>3, <1>4 DEF Desk

LEMMA RenameFilePreserves ==
  ASSUME HistoryAssumption, Desk, RenameFile
  PROVE  Desk'
<1>1. DeskTypes'
  BY DEF RenameFile, Desk, DeskTypes, LeaseOK, Held, RowsOfPath, Browsers, Listings, Restores,
     HistoryAssumption, Ends, Reports
<1>2. BrowserOK' /\ RowsOfPath'
  BY DEF RenameFile, Desk, DeskTypes, BrowserOK, RowsOfPath, Restores, HistoryAssumption, Ends,
     Reports
<1>3. LeaseOK' /\ CopyKeepsLease'
  BY DEF RenameFile, Desk, DeskTypes, LeaseOK, Held, CopyKeepsLease, BrowserOK, Browsers, Restores,
     HistoryAssumption, Ends, Reports
<1>4. DiskOK' /\ OldOrNew' /\ FolderWhole'
  BY DEF RenameFile, Desk, DeskTypes, DiskOK, OldOrNew, FolderWhole, Restores, Ends, Reports
<1> QED BY <1>1, <1>2, <1>3, <1>4 DEF Desk

LEMMA RenameUnsyncedPreserves ==
  ASSUME HistoryAssumption, Desk, RenameUnsynced
  PROVE  Desk'
<1>1. DeskTypes'
  BY DEF RenameUnsynced, Desk, DeskTypes, LeaseOK, Held, RowsOfPath, Browsers, Listings, Restores,
     HistoryAssumption, Ends, Reports
<1>2. BrowserOK' /\ RowsOfPath'
  BY DEF RenameUnsynced, Desk, DeskTypes, BrowserOK, RowsOfPath, Restores, HistoryAssumption,
     Ends, Reports
<1>3. LeaseOK' /\ CopyKeepsLease'
  BY DEF RenameUnsynced, Desk, DeskTypes, LeaseOK, Held, CopyKeepsLease, BrowserOK, Browsers,
     Restores, HistoryAssumption, Ends, Reports
<1>4. DiskOK' /\ OldOrNew' /\ FolderWhole'
  BY DEF RenameUnsynced, Desk, DeskTypes, DiskOK, OldOrNew, FolderWhole, Restores, Ends, Reports
<1> QED BY <1>1, <1>2, <1>3, <1>4 DEF Desk

LEMMA FolderCopiedPreserves ==
  ASSUME HistoryAssumption, Desk, FolderCopied
  PROVE  Desk'
<1>1. DeskTypes'
  BY DEF FolderCopied, Desk, DeskTypes, LeaseOK, Held, RowsOfPath, Browsers, Listings, Restores,
     HistoryAssumption, Ends, Reports
<1>2. BrowserOK' /\ RowsOfPath'
  BY DEF FolderCopied, Desk, DeskTypes, BrowserOK, RowsOfPath, Restores, HistoryAssumption, Ends,
     Reports
<1>3. LeaseOK' /\ CopyKeepsLease'
  BY DEF FolderCopied, Desk, DeskTypes, LeaseOK, Held, CopyKeepsLease, BrowserOK, Browsers,
     Restores, HistoryAssumption, Ends, Reports
<1>4. DiskOK' /\ OldOrNew' /\ FolderWhole'
  BY DEF FolderCopied, Desk, DeskTypes, DiskOK, OldOrNew, FolderWhole, Restores, Ends, Reports
<1> QED BY <1>1, <1>2, <1>3, <1>4 DEF Desk

LEMMA CopyFailsPreserves ==
  ASSUME HistoryAssumption, Desk, CopyFails
  PROVE  Desk'
<1>1. DeskTypes'
  BY DEF CopyFails, Desk, DeskTypes, LeaseOK, Held, RowsOfPath, Browsers, Listings, Restores,
     HistoryAssumption, Ends, Reports, Cleaned
<1>2. BrowserOK' /\ RowsOfPath'
  BY DEF CopyFails, Desk, DeskTypes, BrowserOK, RowsOfPath, Restores, HistoryAssumption, Ends,
     Reports
<1>3. LeaseOK' /\ CopyKeepsLease'
  BY DEF CopyFails, Desk, DeskTypes, LeaseOK, Held, CopyKeepsLease, BrowserOK, Browsers, Restores,
     HistoryAssumption, Ends, Reports
<1>4. DiskOK' /\ OldOrNew' /\ FolderWhole'
  BY DEF CopyFails, Desk, DeskTypes, DiskOK, OldOrNew, FolderWhole, Restores, Ends, Reports, Cleaned
<1> QED BY <1>1, <1>2, <1>3, <1>4 DEF Desk

LEMMA CleanupFailsPreserves ==
  ASSUME HistoryAssumption, Desk, CleanupFails
  PROVE  Desk'
<1>1. DeskTypes'
  BY DEF CleanupFails, Desk, DeskTypes, LeaseOK, Held, RowsOfPath, Browsers, Listings, Restores,
     HistoryAssumption, Ends, Reports
<1>2. BrowserOK' /\ RowsOfPath'
  BY DEF CleanupFails, Desk, DeskTypes, BrowserOK, RowsOfPath, Restores, HistoryAssumption, Ends,
     Reports
<1>3. LeaseOK' /\ CopyKeepsLease'
  BY DEF CleanupFails, Desk, DeskTypes, LeaseOK, Held, CopyKeepsLease, BrowserOK, Browsers,
     Restores, HistoryAssumption, Ends, Reports
<1>4. DiskOK' /\ OldOrNew' /\ FolderWhole'
  BY DEF CleanupFails, Desk, DeskTypes, DiskOK, OldOrNew, FolderWhole, Restores, Ends, Reports
<1> QED BY <1>1, <1>2, <1>3, <1>4 DEF Desk

LEMMA OtherFolderPreserves ==
  ASSUME HistoryAssumption, Desk, OtherFolder
  PROVE  Desk'
<1>1. DeskTypes'
  BY DEF OtherFolder, Desk, DeskTypes, LeaseOK, Held, RowsOfPath, Browsers, Listings, Restores,
     HistoryAssumption
<1>2. BrowserOK' /\ RowsOfPath'
  BY DEF OtherFolder, Desk, DeskTypes, BrowserOK, RowsOfPath, Restores, HistoryAssumption
<1>3. LeaseOK' /\ CopyKeepsLease'
  BY DEF OtherFolder, Desk, DeskTypes, LeaseOK, Held, CopyKeepsLease, BrowserOK, Browsers, Restores,
     HistoryAssumption
<1>4. DiskOK' /\ OldOrNew' /\ FolderWhole'
  BY DEF OtherFolder, Desk, DeskTypes, DiskOK, OldOrNew, FolderWhole, Restores
<1> QED BY <1>1, <1>2, <1>3, <1>4 DEF Desk

(* A load of the browser: the listings in flight are of earlier ones.      *)
LEMMA LoadPreserves ==
  ASSUME HistoryAssumption, Desk, NEW path \in 0..MaxDepth,
         NEW b \in [lease : Tokens, path : 0..MaxDepth, generation : 0..MaxLoads,
                    rows : {None} \cup 0..MaxDepth],
         LoadDirectory(b, path), b.lease \in (1..tokens) \ releasing,
         \A l \in lists : l.generation <= b.generation,
         begin' = None, restore = None, lost' \subseteq 1..tokens,
         UNCHANGED <<parent, leases, tokens, releasing, expired, copying>>
  PROVE  Desk'
<1> DEFINE l0 == [generation |-> b.generation + 1, path |-> path, lease |-> b.lease,
                  reply |-> None]
<1>1. b.generation + 1 \in 1..MaxLoads
  BY DEF LoadDirectory, HistoryAssumption
<1>2. /\ browser' \in Browsers /\ browser' # None
      /\ browser'.generation = b.generation + 1 /\ browser'.path = path
      /\ browser'.rows = None /\ browser'.lease = b.lease
  BY <1>1 DEF LoadDirectory, Browsers, HistoryAssumption
<1>3. l0 \in Listings /\ l0.generation = b.generation + 1 /\ l0.path = path
  BY <1>1 DEF Listings
<1>4. lists' = lists \cup {l0}
  BY DEF LoadDirectory
<1> HIDE DEF l0
<1>5. DeskTypes'
  BY <1>2, <1>3, <1>4 DEF Desk, DeskTypes
<1>6. \A l \in lists : l.generation \in Nat
  BY DEF Desk, DeskTypes, Listings
<1>7. BrowserOK' /\ RowsOfPath'
  <2>1. \A l \in lists' : /\ l.generation <= b.generation + 1
                          /\ l.generation = b.generation + 1 => l.path = path
    BY <1>3, <1>4, <1>6
  <2> QED BY <1>2, <2>1 DEF BrowserOK, RowsOfPath
<1>8. LeaseOK' /\ CopyKeepsLease'
  BY <1>2 DEF Desk, LeaseOK, Held, CopyKeepsLease, HistoryAssumption
<1>9. DiskOK' /\ OldOrNew' /\ FolderWhole'
  BY DEF Desk, DiskOK, OldOrNew, FolderWhole
<1> QED BY <1>5, <1>7, <1>8, <1>9 DEF Desk

LEMMA ShowBrowserPreserves ==
  ASSUME HistoryAssumption, Desk, ShowBrowser
  PROVE  Desk'
<1>1. /\ begin \in Tokens /\ begin' = None /\ browser = None /\ restore = None /\ lists = {}
      /\ begin # None
  BY DEF ShowBrowser, Desk, BrowserOK, HistoryAssumption
<1>2. begin \in (1..tokens) \ releasing
  BY <1>1 DEF Desk, LeaseOK, Held
<1>3. UNCHANGED <<parent, leases, tokens, releasing, expired, copying>>
  BY DEF ShowBrowser
<1>4. CASE parent
  <2> DEFINE b == [lease |-> begin, path |-> 0, generation |-> 0, rows |-> None]
  <2>1. /\ b \in [lease : Tokens, path : 0..MaxDepth, generation : 0..MaxLoads,
                 rows : {None} \cup 0..MaxDepth]
        /\ b.lease = begin
    BY <1>1 DEF HistoryAssumption
  <2>2. LoadDirectory(b, 0) /\ lost' = lost
    BY <1>4 DEF ShowBrowser
  <2> HIDE DEF b
  <2>3. 0 \in 0..MaxDepth /\ lost' \subseteq 1..tokens
    BY <2>2 DEF Desk, DeskTypes, HistoryAssumption
  <2> QED BY <1>1, <1>2, <1>3, <2>1, <2>2, <2>3, LoadPreserves
<1>5. CASE ~parent
  <2>1. lost' = lost \cup {begin} /\ UNCHANGED browsing
    BY <1>5 DEF ShowBrowser
  <2>2. DeskTypes'
    BY <1>1, <1>2, <1>3, <2>1 DEF Desk, DeskTypes
  <2>3. BrowserOK' /\ RowsOfPath' /\ LeaseOK' /\ CopyKeepsLease'
    BY <1>1, <1>3, <2>1 DEF Desk, BrowserOK, RowsOfPath, LeaseOK, Held, CopyKeepsLease,
       HistoryAssumption
  <2>4. DiskOK' /\ OldOrNew' /\ FolderWhole'
    BY <1>3 DEF Desk, DiskOK, OldOrNew, FolderWhole
  <2> QED BY <2>2, <2>3, <2>4 DEF Desk
<1> QED BY <1>4, <1>5

(* The parent of the current folder, or one of its folders: the rows are   *)
(* those of the path, so the name that was clicked on is one of its own.   *)
LEMMA WalkPreserves ==
  ASSUME HistoryAssumption, Desk, Up \/ Open
  PROVE  Desk'
<1>1. /\ browser # None /\ browser \in Browsers /\ restore = None
      /\ UNCHANGED <<parent, granted, copying>>
  BY DEF Up, Open, Desk, DeskTypes
<1>2. PICK path \in 0..MaxDepth : LoadDirectory(browser, path)
  <2>1. CASE Up
    <3>1. (IF browser.path = 0 THEN 0 ELSE browser.path - 1) \in 0..MaxDepth
      BY <1>1 DEF Browsers, HistoryAssumption
    <3> QED BY <2>1, <3>1 DEF Up
  <2>2. CASE Open
    <3>1. browser.rows = browser.path /\ browser.rows < MaxDepth
      BY <2>2 DEF Open, Desk, RowsOfPath
    <3>2. browser.path + 1 \in 0..MaxDepth
      BY <1>1, <3>1 DEF Browsers, HistoryAssumption
    <3> QED BY <2>2, <3>2 DEF Open
  <2> QED BY <2>1, <2>2
<1>3. browser \in [lease : Tokens, path : 0..MaxDepth, generation : 0..MaxLoads,
                  rows : {None} \cup 0..MaxDepth]
  BY <1>1 DEF Browsers, HistoryAssumption
<1>4. /\ browser.lease \in (1..tokens) \ releasing
      /\ \A l \in lists : l.generation <= browser.generation
      /\ begin = None /\ lost \subseteq 1..tokens
  BY <1>1 DEF Desk, DeskTypes, LeaseOK, Held, BrowserOK
<1> QED BY <1>1, <1>2, <1>3, <1>4, LoadPreserves

(* An answer to a listing, and what the window makes of it.                *)
LEMMA ListPreserves ==
  ASSUME HistoryAssumption, Desk, NEW l \in lists, List(l) \/ ListFails(l)
  PROVE  Desk'
<1>1. PICK reply \in {"listed", "error"} :
        lists' = (lists \ {l}) \cup {[l EXCEPT !.reply = reply]}
  BY DEF List, ListFails
<1>2. UNCHANGED <<parent, granted, browser, copying>>
  BY DEF List, ListFails
<1>3. /\ [l EXCEPT !.reply = reply] \in Listings
      /\ [l EXCEPT !.reply = reply].generation = l.generation
      /\ [l EXCEPT !.reply = reply].path = l.path
  <2>1. l \in Listings
    BY DEF Desk, DeskTypes
  <2> QED BY <2>1 DEF Listings
<1>4. DeskTypes'
  BY <1>1, <1>2, <1>3 DEF Desk, DeskTypes
<1>5. BrowserOK' /\ RowsOfPath'
  BY <1>1, <1>2, <1>3 DEF Desk, BrowserOK, RowsOfPath
<1>6. LeaseOK' /\ CopyKeepsLease'
  BY <1>2 DEF Desk, LeaseOK, Held, CopyKeepsLease
<1>7. DiskOK' /\ OldOrNew' /\ FolderWhole'
  BY <1>2 DEF Desk, DiskOK, OldOrNew, FolderWhole
<1> QED BY <1>4, <1>5, <1>6, <1>7 DEF Desk

LEMMA DirectoryLoadedPreserves ==
  ASSUME HistoryAssumption, Desk, NEW l \in lists, DirectoryLoaded(l)
  PROVE  Desk'
<1>1. browser # None /\ browser \in Browsers /\ l \in Listings /\ lists' = lists \ {l}
  BY DEF DirectoryLoaded, Desk, DeskTypes, BrowserOK
<1>2. UNCHANGED <<parent, granted, copying>>
  BY DEF DirectoryLoaded
<1>3. /\ browser' \in Browsers /\ browser' # None
      /\ browser'.path = browser.path /\ browser'.generation = browser.generation
      /\ browser'.lease = browser.lease
      /\ browser'.rows = browser.rows \/ browser'.rows = browser.path
  <2>1. CASE browser.generation # l.generation \/ l.reply = "error"
    BY <1>1, <2>1 DEF DirectoryLoaded
  <2>2. CASE ~(browser.generation # l.generation \/ l.reply = "error")
    <3>1. browser' = [browser EXCEPT !.rows = l.path]
      BY <1>1, <2>2 DEF DirectoryLoaded
    <3>2. l.path = browser.path
      BY <2>2 DEF Desk, BrowserOK
    <3>3. [browser EXCEPT !.rows = l.path] \in Browsers
      BY <1>1 DEF Browsers, Listings
    <3> QED BY <1>1, <3>1, <3>2, <3>3 DEF Browsers, HistoryAssumption
  <2> QED BY <2>1, <2>2
<1>4. DeskTypes'
  BY <1>1, <1>2, <1>3 DEF Desk, DeskTypes
<1>5. BrowserOK' /\ RowsOfPath'
  BY <1>1, <1>2, <1>3 DEF Desk, BrowserOK, RowsOfPath
<1>6. LeaseOK' /\ CopyKeepsLease'
  BY <1>1, <1>2, <1>3 DEF Desk, LeaseOK, Held, CopyKeepsLease
<1>7. DiskOK' /\ OldOrNew' /\ FolderWhole'
  BY <1>2 DEF Desk, DiskOK, OldOrNew, FolderWhole
<1> QED BY <1>4, <1>5, <1>6, <1>7 DEF Desk

(* A token that is being released is held by nobody.                       *)
LEMMA EndBrowsePreserves ==
  ASSUME HistoryAssumption, Desk, NEW t \in Tokens, EndBrowse(t)
  PROVE  Desk'
<1>1. /\ UNCHANGED <<parent, begin, tokens, lost, expired, browsing, copying>>
      /\ t \in releasing /\ releasing' = releasing \ {t} /\ leases' = leases \ {t}
  BY DEF EndBrowse
<1>2. DeskTypes'
  BY <1>1 DEF Desk, DeskTypes
<1>3. BrowserOK' /\ RowsOfPath'
  BY <1>1 DEF Desk, BrowserOK, RowsOfPath
<1>4. LeaseOK'
  BY <1>1 DEF Desk, LeaseOK, Held
<1>5. CopyKeepsLease'
  BY <1>1 DEF Desk, LeaseOK, Held, CopyKeepsLease
<1>6. DiskOK' /\ OldOrNew' /\ FolderWhole'
  BY <1>1 DEF Desk, DiskOK, OldOrNew, FolderWhole
<1> QED BY <1>2, <1>3, <1>4, <1>5, <1>6 DEF Desk

(* A lease that the helper drops has no user less: it has expired.         *)
LEMMA LeaseExpiresPreserves ==
  ASSUME HistoryAssumption, Desk, NEW t \in Tokens, LeaseExpires(t)
  PROVE  Desk'
<1>1. /\ UNCHANGED <<parent, begin, tokens, lost, releasing, browsing, copying>>
      /\ t \in leases /\ leases' = leases \ {t} /\ expired' = expired \cup {t}
  BY DEF LeaseExpires
<1>2. DeskTypes'
  BY <1>1 DEF Desk, DeskTypes
<1>3. BrowserOK' /\ RowsOfPath'
  BY <1>1 DEF Desk, BrowserOK, RowsOfPath
<1>4. LeaseOK'
  BY <1>1 DEF Desk, LeaseOK, Held
<1>5. CopyKeepsLease'
  BY <1>1 DEF Desk, LeaseOK, Held, CopyKeepsLease
<1>6. DiskOK' /\ OldOrNew' /\ FolderWhole'
  BY <1>1 DEF Desk, DiskOK, OldOrNew, FolderWhole
<1> QED BY <1>2, <1>3, <1>4, <1>5, <1>6 DEF Desk

-----------------------------------------------------------------------------
(* The File History window.                                                *)

LEMMA LoadVersionsPreserves ==
  ASSUME HistoryAssumption, Search, LoadVersions
  PROVE  Search'
<1> DEFINE q0 == [generation |-> history.generation + 1, left |-> present, found |-> {},
                  missed |-> {}, failed |-> FALSE]
<1>1. history.generation + 1 \in 1..MaxLoads
  BY DEF LoadVersions, Search, HistoryAssumption
<1>2. q0 \in Searches /\ q0.left = present
  BY <1>1 DEF Search, Searches
<1>3. searches' = searches \cup {q0} /\ present' = present
  BY DEF LoadVersions
<1> HIDE DEF q0
<1>4. /\ history' = [generation |-> history.generation + 1, shown |-> None, versions |-> {},
                  missed |-> {}]
  BY DEF LoadVersions
<1>5. HistoryComplete' /\ history'.generation \in 0..MaxLoads
  BY <1>1, <1>4 DEF HistoryComplete, HistoryAssumption
<1>6. SearchOK'
  BY <1>2, <1>3 DEF Search, SearchOK
<1> QED BY <1>1, <1>2, <1>3, <1>4, <1>5, <1>6 DEF Search

(* A snapshot that answers leaves what is left to ask, and the path that   *)
(* it holds is found; one with an error of its own is missed; a call that  *)
(* fails ends the search with an error.                                    *)
LEMMA AskPreserves ==
  ASSUME HistoryAssumption, Search, NEW q \in searches, NEW s \in Snaps, AskSnapshot(q, s)
  PROVE  Search'
<1>1. PICK answer \in Answers : searches' = (searches \ {q}) \cup {Asked(q, s, answer)}
  BY DEF AskSnapshot
<1>2. present' = present /\ history' = history /\ ~q.failed
  BY DEF AskSnapshot
<1>3. PICK failed \in BOOLEAN : failed = (answer = "failed")
  OBVIOUS
<1> DEFINE found == IF answer = "answered" /\ s \in Holding \cap present
                    THEN q.found \cup {s} ELSE q.found
           missed == IF answer = "unknown" THEN q.missed \cup {s} ELSE q.missed
           q1 == [q EXCEPT !.left = q.left \ {s}, !.failed = failed, !.missed = missed,
                           !.found = found]
<1>4. q \in Searches
  BY DEF Search
<1>5. found \in SUBSET Snaps /\ missed \in SUBSET Snaps
  BY <1>4 DEF Searches
<1>6. searches' = (searches \ {q}) \cup {q1}
  BY <1>1, <1>3 DEF Asked
<1>7. ~failed => Holding \cap present \subseteq (q.left \ {s}) \cup found \cup missed
  BY <1>2, <1>3 DEF Search, SearchOK, Answers
<1> HIDE DEF found, missed
<1>8. /\ q1 \in Searches /\ q1.left = q.left \ {s} /\ q1.failed = failed
      /\ q1.found = found /\ q1.missed = missed
  BY <1>4, <1>5 DEF Searches
<1> HIDE DEF q1
<1>9. SearchOK'
  BY <1>2, <1>6, <1>7, <1>8 DEF Search, SearchOK
<1> QED BY <1>2, <1>6, <1>8, <1>9 DEF Search, HistoryComplete

LEMMA VersionsLoadedPreserves ==
  ASSUME HistoryAssumption, Search, NEW q \in searches, VersionsLoaded(q)
  PROVE  Search'
<1>1. present' = present /\ searches' = searches \ {q} /\ (q.left = {} \/ q.failed)
  BY DEF VersionsLoaded
<1>2. q \in Searches
  BY DEF Search
<1>3. SearchOK'
  BY <1>1 DEF Search, SearchOK
<1>4. CASE history.generation # q.generation
  BY <1>1, <1>3, <1>4 DEF VersionsLoaded, Search, HistoryComplete
<1>5. CASE history.generation = q.generation /\ q.failed
  <2>1. history' = [history EXCEPT !.shown = "error"]
    BY <1>5 DEF VersionsLoaded
  <2> QED BY <1>1, <1>3, <2>1 DEF Search, HistoryComplete
<1>6. CASE history.generation = q.generation /\ ~q.failed
  <2>1. history' = [history EXCEPT !.shown = "versions", !.versions = q.found,
                                   !.missed = q.missed]
    BY <1>6 DEF VersionsLoaded
  <2>2. q.found \in SUBSET Snaps /\ q.missed \in SUBSET Snaps
    BY <1>2 DEF Searches
  <2>3. Holding \cap present \subseteq q.found \cup q.missed
    BY <1>1, <1>6 DEF Search, SearchOK
  <2>4. /\ history' \in [generation : 0..MaxLoads, shown : {None, "error", "versions"},
                        versions : SUBSET Snaps, missed : SUBSET Snaps]
        /\ history'.versions = q.found /\ history'.missed = q.missed
    BY <2>1, <2>2 DEF Search
  <2> QED BY <1>1, <1>3, <2>3, <2>4 DEF Search, HistoryComplete
<1> QED BY <1>4, <1>5, <1>6

(* A snapshot that is deleted need not be found any more.                  *)
LEMMA DeletedPreserves ==
  ASSUME HistoryAssumption, Search, NEW s \in Snaps, SnapshotDeleted(s)
  PROVE  Search'
BY DEF SnapshotDeleted, Search, SearchOK, HistoryComplete

-----------------------------------------------------------------------------
(* What keeps one of the two parts as it is.                               *)
LEMMA DeskUnmoved ==
  ASSUME Desk, UNCHANGED <<parent, granted, browsing, copying>>
  PROVE  Desk'
<1>1. DeskTypes'
  BY DEF Desk, DeskTypes
<1>2. BrowserOK' /\ RowsOfPath' /\ LeaseOK' /\ CopyKeepsLease'
  BY DEF Desk, BrowserOK, RowsOfPath, LeaseOK, Held, CopyKeepsLease
<1>3. DiskOK' /\ OldOrNew' /\ FolderWhole'
  BY DEF Desk, DiskOK, OldOrNew, FolderWhole
<1> QED BY <1>1, <1>2, <1>3 DEF Desk

LEMMA SearchUnmoved ==
  ASSUME Search, UNCHANGED looking
  PROVE  Search'
BY DEF Search, SearchOK, HistoryComplete

DeskStep ==
    \/ BrowseSystem \/ GrantBrowse \/ RefuseBrowse \/ ShowBrowser \/ CloseParent
    \/ Up \/ Open \/ CloseBrowser \/ ChooseFile \/ ChooseFolder \/ AuthorizeExport
    \/ OpenFile \/ CreateFolder \/ FolderTaken \/ CopyFile \/ RenameFile
    \/ RenameUnsynced \/ CopyEntry \/ FolderCopied \/ CopyFails \/ CleanupFails
    \/ OtherFolder
    \/ \E l \in lists : List(l) \/ ListFails(l) \/ DirectoryLoaded(l)
    \/ \E t \in Tokens : EndBrowse(t) \/ LeaseExpires(t)

SearchStep ==
    \/ LoadVersions
    \/ \E q \in searches : VersionsLoaded(q) \/ \E s \in Snaps : AskSnapshot(q, s)
    \/ \E s \in Snaps : SnapshotDeleted(s)

LEMMA NextParts == Next <=> DeskStep \/ SearchStep
BY DEF Next, DeskStep, SearchStep

LEMMA DeskStepPreserves ==
  ASSUME HistoryAssumption, Desk, DeskStep
  PROVE  Desk'
<1>1. CASE \/ BrowseSystem \/ GrantBrowse \/ RefuseBrowse \/ ShowBrowser \/ CloseParent
           \/ Up \/ Open \/ CloseBrowser \/ ChooseFile \/ ChooseFolder \/ AuthorizeExport
  BY <1>1, BrowseSystemPreserves, GrantBrowsePreserves, RefuseBrowsePreserves,
     ShowBrowserPreserves, CloseParentPreserves, WalkPreserves, CloseBrowserPreserves,
     ChooseFilePreserves, ChooseFolderPreserves, AuthorizeExportPreserves
<1>2. CASE \/ OpenFile \/ CreateFolder \/ FolderTaken \/ CopyFile \/ RenameFile
           \/ RenameUnsynced \/ CopyEntry \/ FolderCopied \/ CopyFails \/ CleanupFails
           \/ OtherFolder
  BY <1>2, OpenFilePreserves, CreateFolderPreserves, FolderTakenPreserves, CopyFilePreserves,
     RenameFilePreserves, CopyEntryPreserves, FolderCopiedPreserves, CopyFailsPreserves,
     RenameUnsyncedPreserves, CleanupFailsPreserves, OtherFolderPreserves
<1>3. CASE \/ \E l \in lists : List(l) \/ ListFails(l) \/ DirectoryLoaded(l)
           \/ \E t \in Tokens : EndBrowse(t) \/ LeaseExpires(t)
  BY <1>3, ListPreserves, DirectoryLoadedPreserves, EndBrowsePreserves, LeaseExpiresPreserves
<1> QED BY <1>1, <1>2, <1>3 DEF DeskStep

LEMMA DeskStepLooksNot ==
  ASSUME DeskStep
  PROVE  UNCHANGED looking
BY DEF DeskStep, BrowseSystem, GrantBrowse, RefuseBrowse, ShowBrowser, CloseParent, Up, Open,
   CloseBrowser, ChooseFile, ChooseFolder, AuthorizeExport, OpenFile, CreateFolder,
   FolderTaken, CopyFile, RenameFile, RenameUnsynced, CopyEntry, FolderCopied, CopyFails,
     CleanupFails,
   OtherFolder, List, ListFails, DirectoryLoaded, EndBrowse, LeaseExpires

LEMMA SearchStepPreserves ==
  ASSUME HistoryAssumption, Search, SearchStep
  PROVE  Search' /\ UNCHANGED <<parent, granted, browsing, copying>>
<1>1. Search'
  BY LoadVersionsPreserves, AskPreserves, VersionsLoadedPreserves, DeletedPreserves
  DEF SearchStep
<1>2. UNCHANGED <<parent, granted, browsing, copying>>
  BY DEF SearchStep, LoadVersions, AskSnapshot, VersionsLoaded, SnapshotDeleted
<1> QED BY <1>1, <1>2

LEMMA HistoryStep ==
  ASSUME HistoryAssumption, HistoryOK, [Next]_vars
  PROVE  HistoryOK'
<1>1. Desk /\ Search
  BY Parts
<1>2. CASE DeskStep
  BY <1>1, <1>2, DeskStepPreserves, DeskStepLooksNot, SearchUnmoved, Parts, PTL
<1>3. CASE SearchStep
  BY <1>1, <1>3, SearchStepPreserves, DeskUnmoved, Parts, PTL
<1>4. CASE UNCHANGED vars
  <2>1. UNCHANGED <<parent, granted, browsing, copying>> /\ UNCHANGED looking
    BY <1>4 DEF vars
  <2> QED BY <1>1, <2>1, DeskUnmoved, SearchUnmoved, Parts, PTL
<1> QED BY <1>2, <1>3, <1>4, NextParts

LEMMA HistoryBegins ==
  ASSUME HistoryAssumption, Init
  PROVE  HistoryOK
<1>1. /\ parent = TRUE /\ begin = None /\ leases = {} /\ tokens = 0 /\ lost = {}
      /\ releasing = {} /\ browser = None /\ lists = {} /\ restore = None
      /\ told = None /\ expired = {}
  BY DEF Init
<1>2. disk \in [file : {"absent", "old"}, temp : {FALSE}, folder : {"absent"}]
  BY DEF Init
<1>3. 0 \in 0..MaxTokens /\ 0 \in 0..MaxLoads
  BY DEF HistoryAssumption
<1>4. DeskTypes
  <2>1. disk \in [file : {"absent", "old", "new", "partial"}, temp : BOOLEAN,
                 folder : {"absent", "other", "partial", "whole"}]
    BY <1>2
  <2> QED BY <1>1, <1>3, <2>1 DEF DeskTypes
<1>5. BrowserOK
  BY <1>1 DEF BrowserOK
<1>6. LeaseOK
  <2>1. begin \notin Tokens
    BY <1>1 DEF HistoryAssumption
  <2> QED BY <1>1, <2>1 DEF LeaseOK, Held
<1>7. DiskOK
  BY <1>1, <1>2 DEF DiskOK
<1>8. RowsOfPath /\ CopyKeepsLease /\ OldOrNew /\ FolderWhole
  BY <1>1, <1>2, ReportIsSome DEF RowsOfPath, CopyKeepsLease, OldOrNew, FolderWhole
<1>9. Search
  <2>1. /\ present = Snaps /\ searches = {}
        /\ history = [generation |-> 0, shown |-> None, versions |-> {}, missed |-> {}]
    BY DEF Init
  <2>2. history.shown = None
    BY <2>1
  <2>3. SearchOK /\ HistoryComplete
    BY <2>1, <2>2 DEF SearchOK, HistoryComplete, HistoryAssumption
  <2> QED BY <1>3, <2>1, <2>3 DEF Search
<1> QED BY <1>4, <1>5, <1>6, <1>7, <1>8, <1>9, Parts DEF Desk

-----------------------------------------------------------------------------
(* The windows, their leases, the copy and its destinations, and the       *)
(* searches agree in every state (personal_history.rs).                    *)
THEOREM HistoryIsOK ==
  ASSUME HistoryAssumption
  PROVE  Spec => []HistoryOK
<1>1. Init => HistoryOK
  BY HistoryBegins
<1>2. HistoryOK /\ [Next]_vars => HistoryOK'
  BY HistoryStep
<1> QED BY <1>1, <1>2, PTL DEF Spec

(* The rows of the browser are those of the path above them, in whatever   *)
(* order the answers of its loads come in, so a file that is recovered is  *)
(* the one the window showed (load_directory, run_restore).                *)
THEOREM RowsAreOfPath ==
  ASSUME HistoryAssumption
  PROVE  Spec => []RowsOfPath
BY HistoryIsOK, PTL DEF HistoryOK

(* A copy under way loses its lease to nobody but the helper, which drops  *)
(* it when it is too old: not to the window it was started from, which may *)
(* be closed and releases its own, nor to the release of another copy      *)
(* (authorize_export, the drop of SystemBrowserLease).                      *)
THEOREM CopyHasItsLease ==
  ASSUME HistoryAssumption
  PROVE  Spec => []CopyKeepsLease
BY HistoryIsOK, PTL DEF HistoryOK

(* The destination of a file is as it was or whole, and whole if the copy  *)
(* is reported as done; a temporary file stays only after a copy that is   *)
(* reported as failed.  A folder is whole if it is reported as done; if it *)
(* could not be recovered whole, it is not there or the user is told that  *)
(* it could not be removed (write_recovered_file, restore_directory).      *)
THEOREM CopiesAreWhole ==
  ASSUME HistoryAssumption
  PROVE  Spec => [](OldOrNew /\ FolderWhole)
BY HistoryIsOK, PTL DEF HistoryOK

(* An earlier version that still exists is never left out of a finished    *)
(* search, except where the helper answered it with an error of the        *)
(* snapshot's own: a call that fails or is refused shows an error instead  *)
(* (history_query_failed).                                                 *)
THEOREM VersionsAreComplete ==
  ASSUME HistoryAssumption
  PROVE  Spec => []HistoryComplete
BY HistoryIsOK, PTL DEF HistoryOK

(* A folder that somebody made under the chosen name is never touched      *)
(* while a copy is under way, whether the copy succeeds, fails or is       *)
(* refused (restore_directory, create_dir).                                *)
THEOREM OthersAreKept ==
  ASSUME HistoryAssumption
  PROVE  Spec => [][OthersKept]_vars
<1>1. HistoryOK /\ [Next]_vars => [OthersKept]_vars
  <2> SUFFICES ASSUME HistoryOK, Next, disk.folder = "other", restore # None
               PROVE  disk'.folder = "other"
    BY DEF OthersKept
  <2>1. /\ disk \in [file : {"absent", "old", "new", "partial"}, temp : BOOLEAN,
                    folder : {"absent", "other", "partial", "whole"}]
        /\ ~(restore.what = "folder" /\ restore.step = "copy")
    BY DEF HistoryOK, TypeOK, DiskOK
  <2>2. CASE UNCHANGED disk
    BY <2>2
  <2>3. CASE ChooseFolder \/ CreateFolder \/ FolderCopied \/ OtherFolder
    BY <2>1, <2>3 DEF ChooseFolder, CreateFolder, FolderCopied, OtherFolder
  <2>4. CASE OpenFile \/ RenameFile \/ RenameUnsynced \/ CopyFails
    BY <2>1, <2>4 DEF OpenFile, RenameFile, RenameUnsynced, CopyFails, Cleaned
  <2> QED BY <2>2, <2>3, <2>4 DEF Next, BrowseSystem, GrantBrowse, RefuseBrowse, ShowBrowser,
             LoadDirectory, CloseParent, Up, Open, CloseBrowser, ChooseFile, AuthorizeExport,
             FolderTaken, CopyFile, CopyEntry, CleanupFails, LoadVersions, List, ListFails,
     DirectoryLoaded,
             EndBrowse, LeaseExpires, VersionsLoaded, AskSnapshot, SnapshotDeleted
<1> QED BY <1>1, HistoryIsOK, PTL DEF Spec
================================================================================
