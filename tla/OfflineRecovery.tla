---------------------------- MODULE OfflineRecovery ----------------------------
(***************************************************************************)
(* Restoring a system snapshot from the rescue centre, while the installed *)
(* system is off.  The tool keeps one journalled transaction and converges *)
(* it from whatever it finds on the disk: it may be killed, lose power or  *)
(* see a command fail between any two steps, and the installed system may  *)
(* be started, and used, before the rescue centre comes back.              *)
(*                                                                         *)
(* Each step that changes the file system is one action; the code syncs    *)
(* after each, so a power loss leaves the disk before or after it.         *)
(***************************************************************************)
EXTENDS Naturals

CONSTANTS
    Snapshots,   \* system snapshots; a snapshot stands for its contents
    Original,    \* the contents of the root before
    MaxTurns,    \* turns of converge's loop (8)
    MaxFaults,   \* bound: failed commands, kills and power losses
    Interference,\* what may happen besides: "delete", "machines", "lose", "clock"
    None

VARIABLES
    root, old, new,  \* the subvolumes @root, @root...old-ID, @root...new-ID
    kids,            \* what is in the system subvolumes below the original root
    dropping,        \* a deleted root is still being dropped in the background
    restorable,      \* snapshots with a complete record
    pending,         \* offline-transactions/pending.json
    head,            \* the head of the system lineage
    world,           \* which system runs, and whether its clock is behind
    tool,            \* the running tool, or None
    outcome,         \* the snapshot the last call reported as restored
    faults

disk == <<root, old, new, kids, dropping>>
vars == <<disk, restorable, pending, head, world, tool, outcome, faults>>

Phases == {"prepared", "writable-target-created", "current-root-protected",
           "target-root-activated", "completed"}
Contents == Snapshots \cup {Original}

(* A transaction; late: it was last written with a time before the one it  *)
(* was created at.                                                         *)
Transaction == [target : Snapshots, phase : Phases, late : BOOLEAN]

(* A running tool: its place, the transaction it works on, the snapshot it *)
(* was asked for, and the turns converge has taken.                        *)
Places == {"begin", "validate", "loop", "created", "protected", "activated",
           "delete", "completed", "archive"}
Tools == [at : Places, txn : Transaction \cup {None},
          wanted : Snapshots \cup {None}, turns : 0..MaxTurns]

OfflineAssumption ==
    /\ MaxTurns \in Nat /\ MaxTurns >= 5 /\ MaxFaults \in Nat
    /\ Original \notin Snapshots
    /\ None \notin Contents \cup Transaction \cup Tools
    /\ Interference \subseteq {"delete", "machines", "lose", "clock"}

Init ==
    /\ root = Original /\ old = None /\ new = None
    /\ kids \in {"none", "empty"} /\ dropping = FALSE
    /\ restorable = Snapshots /\ pending = None /\ head = None
    /\ world = [rescue |-> TRUE, behind |-> FALSE]
    /\ tool = None /\ outcome = None /\ faults = 0

-----------------------------------------------------------------------------
(* The calls.                                                              *)

(* validate_layout and load_pending: the root may be missing only if a     *)
(* transaction is there, and one whose times are out of order is refused.  *)
LayoutValid == root = None => pending # None
Loads == pending # None => ~pending.late

Run(at, t, target) == tool' = [at |-> at, txn |-> t, wanted |-> target, turns |-> 0]

(* restore: an interrupted transaction first, then the new one.            *)
Restore(t) ==
    /\ world.rescue /\ tool = None /\ LayoutValid /\ Loads
    /\ Run(IF pending = None THEN "begin" ELSE "validate", pending, t)
    /\ outcome' = None
    /\ UNCHANGED <<disk, restorable, pending, head, world, faults>>

Resume ==
    /\ world.rescue /\ tool = None /\ LayoutValid /\ Loads /\ pending # None
    /\ Run("validate", pending, None)
    /\ outcome' = None
    /\ UNCHANGED <<disk, restorable, pending, head, world, faults>>

(* Any call that ends in an error leaves the disk as it is.                *)
Refuse == tool' = None /\ UNCHANGED <<disk, restorable, pending, head, world, outcome, faults>>

(* validate_target, and the children of the root before it is replaced.    *)
TargetValid(t) == t \in restorable
ChildrenEmpty == kids # "full"

(* A new transaction is written down.                                      *)
Begin ==
    /\ tool # None /\ tool.at = "begin"
    /\ IF TargetValid(tool.wanted) /\ (root = Original => ChildrenEmpty)
       THEN LET t == [target |-> tool.wanted, phase |-> "prepared", late |-> FALSE]
            IN  /\ pending' = t
                /\ tool' = [tool EXCEPT !.at = "validate", !.txn = t, !.wanted = None]
                /\ world' = [world EXCEPT !.behind = FALSE]
                /\ UNCHANGED <<disk, restorable, head, outcome, faults>>
       ELSE Refuse

(* record_head: the lineage must have the target, with its snapshot.       *)
RecordHead(t) == t \in restorable /\ head' = t

-----------------------------------------------------------------------------
(* converge.                                                               *)

At(place) == tool # None /\ tool.at = place
Found == <<root # None, old # None, new # None>>
Activated == tool.txn.phase = "target-root-activated"
Turn(place) == tool' = [tool EXCEPT !.at = place, !.turns = @ + 1]

(* The call is done, or goes on to the snapshot that was asked for.        *)
Done ==
    /\ IF tool.wanted \in {None, tool.txn.target}
       THEN tool' = None /\ outcome' = tool.txn.target
       ELSE tool' = [tool EXCEPT !.at = "begin"] /\ UNCHANGED outcome

ArchiveCompleted ==
    /\ At("validate") /\ tool.txn.phase = "completed"
    /\ pending' = None /\ Done
    /\ UNCHANGED <<disk, restorable, head, world, faults>>

Validate ==
    /\ At("validate") /\ tool.txn.phase # "completed"
    /\ IF TargetValid(tool.txn.target)
       THEN /\ tool' = [tool EXCEPT !.at = "loop", !.turns = 0]
            /\ UNCHANGED <<disk, restorable, pending, head, world, outcome, faults>>
       ELSE Refuse

Looping == At("loop") /\ tool.turns < MaxTurns

(* update_phase: the journal follows the disk.                             *)
Journal(phase) ==
    LET t == [tool.txn EXCEPT !.phase = phase, !.late = world.behind]
    IN  pending' = t /\ tool' = [tool EXCEPT !.at = "loop", !.txn = t]

WritePhase ==
    /\ \/ At("created") /\ Journal("writable-target-created")
       \/ At("protected") /\ Journal("current-root-protected")
       \/ At("activated") /\ Journal("target-root-activated")
    /\ UNCHANGED <<disk, restorable, head, world, outcome, faults>>

CreateTarget ==
    /\ Looping /\ ~Activated /\ Found = <<TRUE, FALSE, FALSE>>
    /\ root = Original => ChildrenEmpty
    /\ new' = tool.txn.target
    /\ Turn("created")
    /\ UNCHANGED <<root, old, kids, dropping, restorable, pending, head, world, outcome, faults>>

ProtectRoot ==
    /\ Looping /\ ~Activated /\ Found = <<TRUE, FALSE, TRUE>>
    /\ root = Original => ChildrenEmpty
    /\ old' = root /\ root' = None
    /\ Turn("protected")
    /\ UNCHANGED <<new, kids, dropping, restorable, pending, head, world, outcome, faults>>

ActivateTarget ==
    /\ Looping /\ ~Activated /\ Found = <<FALSE, TRUE, TRUE>>
    /\ root' = new /\ new' = None
    /\ Turn("activated")
    /\ UNCHANGED <<old, kids, dropping, restorable, pending, head, world, outcome, faults>>

AlreadyActivated ==
    /\ Looping /\ ~Activated /\ Found = <<TRUE, TRUE, FALSE>>
    /\ Turn("activated")
    /\ UNCHANGED <<disk, restorable, pending, head, world, outcome, faults>>

(* The staged root is gone: the original root is put back.                 *)
PutBack ==
    /\ Looping /\ ~Activated /\ Found = <<FALSE, TRUE, FALSE>>
    /\ root' = old /\ old' = None /\ tool' = None
    /\ UNCHANGED <<new, kids, dropping, restorable, pending, head, world, outcome, faults>>

(* Children that are not empty, or a state no branch knows.                *)
Unsafe ==
    IF Activated THEN Found \notin {<<TRUE, TRUE, FALSE>>, <<TRUE, FALSE, FALSE>>}
    ELSE \/ Found \in {<<TRUE, FALSE, FALSE>>, <<TRUE, FALSE, TRUE>>}
            /\ root = Original /\ ~ChildrenEmpty
         \/ Found \in {<<TRUE, TRUE, TRUE>>, <<FALSE, FALSE, TRUE>>, <<FALSE, FALSE, FALSE>>}

GiveUpUnsafe == (Looping => Unsafe) /\ At("loop") /\ Refuse

(* The head is recorded before the old root is touched.                    *)
HeadFirst ==
    /\ Looping /\ Activated /\ Found = <<TRUE, TRUE, FALSE>>
    /\ RecordHead(tool.txn.target)
    /\ tool' = [tool EXCEPT !.at = "delete"]
    /\ UNCHANGED <<disk, restorable, pending, world, outcome, faults>>

DeleteChildren ==
    /\ At("delete") /\ kids = "empty" /\ old = Original
    /\ kids' = "none"
    /\ UNCHANGED <<root, old, new, dropping, restorable, pending, head, world, tool, outcome, faults>>

DeleteOld ==
    /\ At("delete") /\ (old = Original => kids = "none")
    /\ old' = None /\ dropping' = TRUE
    /\ Turn("loop")
    /\ UNCHANGED <<root, new, kids, restorable, pending, head, world, outcome, faults>>

(* The head again, and the wait for the background deletion.               *)
Finish ==
    /\ Looping /\ Activated /\ Found = <<TRUE, FALSE, FALSE>>
    /\ RecordHead(tool.txn.target)
    /\ dropping' = FALSE
    /\ Turn("completed")
    /\ UNCHANGED <<root, old, new, kids, restorable, pending, world, outcome, faults>>

WriteCompleted ==
    /\ At("completed")
    /\ LET t == [tool.txn EXCEPT !.phase = "completed", !.late = world.behind]
       IN  pending' = t /\ tool' = [tool EXCEPT !.at = "archive", !.txn = t]
    /\ UNCHANGED <<disk, restorable, head, world, outcome, faults>>

Archive ==
    /\ At("archive") /\ pending' = None /\ Done
    /\ UNCHANGED <<disk, restorable, head, world, faults>>

-----------------------------------------------------------------------------
(* The world around the tool.                                              *)

(* A command of the tool fails, or it is killed; the user may call again.  *)
CommandFails ==
    /\ tool # None /\ faults < MaxFaults
    /\ faults' = faults + 1 /\ tool' = None
    /\ UNCHANGED <<disk, restorable, pending, head, world, outcome>>

(* Power loss or reboot, into the rescue centre or the installed system.   *)
Boot(rescue) ==
    /\ faults < MaxFaults /\ faults' = faults + 1
    /\ ~rescue => root # None
    /\ \E behind \in BOOLEAN :
          /\ behind => "clock" \in Interference
          /\ world' = [rescue |-> rescue, behind |-> behind]
    /\ tool' = None /\ outcome' = None
    /\ dropping' \in {dropping, FALSE}
    /\ UNCHANGED <<root, old, new, kids, restorable, pending, head>>

(* Back from the installed system; this is no fault.                       *)
RescueAgain ==
    /\ ~world.rescue
    /\ \E behind \in BOOLEAN :
          /\ behind => "clock" \in Interference
          /\ world' = [rescue |-> TRUE, behind |-> behind]
    /\ UNCHANGED <<disk, restorable, pending, head, tool, outcome, faults>>

(* The installed system deletes a snapshot, or uses /var/lib/machines.     *)
DeleteSnapshot(t) ==
    /\ "delete" \in Interference /\ ~world.rescue /\ t \in restorable
    /\ restorable' = restorable \ {t}
    /\ UNCHANGED <<disk, pending, head, world, tool, outcome, faults>>

UseMachines ==
    /\ "machines" \in Interference /\ ~world.rescue /\ root = Original
    /\ kids' \in {"none", "empty", "full"} \ {kids}
    /\ UNCHANGED <<root, old, new, dropping, restorable, pending, head, world, tool, outcome, faults>>

(* Somebody removes the staged root by hand.                               *)
LoseStaged ==
    /\ "lose" \in Interference /\ tool = None /\ new # None
    /\ new' = None
    /\ UNCHANGED <<root, old, kids, dropping, restorable, pending, head, world, tool, outcome, faults>>

Converge ==
    \/ Begin \/ ArchiveCompleted \/ Validate \/ WritePhase
    \/ CreateTarget \/ ProtectRoot \/ ActivateTarget \/ AlreadyActivated
    \/ PutBack \/ GiveUpUnsafe \/ HeadFirst \/ DeleteChildren \/ DeleteOld
    \/ Finish \/ WriteCompleted \/ Archive

Next ==
    \/ \E t \in Snapshots : Restore(t) \/ DeleteSnapshot(t)
    \/ Resume \/ Converge
    \/ CommandFails \/ Boot(TRUE) \/ Boot(FALSE) \/ RescueAgain
    \/ UseMachines \/ LoseStaged

Spec == Init /\ [][Next]_vars

(* A tool that runs goes on, somebody starts the rescue centre again, and  *)
(* opening the installation there resumes its transaction.                 *)
LiveSpec == Spec /\ WF_vars(Converge) /\ WF_vars(RescueAgain) /\ WF_vars(Resume)

-----------------------------------------------------------------------------
(* Types; and the loop of converge never runs out of turns.                *)
TypeOK ==
    /\ {root, old, new} \subseteq Contents \cup {None} /\ dropping \in BOOLEAN
    /\ pending \in Transaction \cup {None} /\ tool \in Tools \cup {None}
    /\ {head, outcome} \subseteq Snapshots \cup {None} /\ restorable \subseteq Snapshots
    /\ world \in [rescue : BOOLEAN, behind : BOOLEAN]
    /\ kids \in {"none", "empty", "full"} /\ faults \in 0..MaxFaults
    /\ At("loop") => tool.turns < MaxTurns

(* How the three names lie for each phase of the journal.  Before the      *)
(* activation is written down the disk may be one step ahead of it.        *)
Early(t) == t.phase \notin {"target-root-activated", "completed"}
JournalOK ==
    /\ pending = None => root # None /\ old = None /\ new = None
    /\ pending # None /\ Early(pending) =>
          /\ new \in {None, pending.target}
          /\ root = None => old # None
          /\ root # None /\ old # None => root = pending.target /\ new = None
    /\ pending # None /\ ~Early(pending) => root = pending.target /\ new = None
    /\ pending # None /\ pending.phase = "completed" =>
          old = None /\ head = root /\ ~dropping

(* What a running tool may rely on at each place.                          *)
ToolOK ==
    /\ tool # None => world.rescue
    /\ At("begin") => pending = None /\ tool.wanted # None
    /\ tool # None /\ ~At("begin") => pending # None /\ tool.txn = pending
    /\ At("loop") => tool.txn.phase # "completed"
    /\ At("created") => Early(tool.txn) /\ root # None /\ old = None /\ new # None
    /\ At("protected") => Early(tool.txn) /\ root = None
    /\ At("activated") => Early(tool.txn) /\ root # None /\ old # None
    /\ At("delete") => Activated /\ old # None /\ head = root
    /\ At("completed") => Activated /\ old = None /\ head = root /\ ~dropping
    /\ At("archive") => tool.txn.phase = "completed"

(* Five branches lead from any state to the end: the turns taken when the  *)
(* loop looks at the disk.                                                 *)
Rank == IF Activated THEN IF old # None THEN 3 ELSE 4
        ELSE IF root = None THEN 2
        ELSE IF old # None THEN 2
        ELSE IF new # None THEN 1 ELSE 0
TurnsOK ==
    /\ At("loop") => tool.turns <= Rank
    /\ At("created") => tool.turns <= 1
    /\ At("protected") => tool.turns <= 2
    /\ At("activated") \/ At("delete") => tool.turns <= 3

(* The clock of the rescue centre is the only cause of a late write.       *)
ClockOK ==
    /\ world.behind => "clock" \in Interference
    /\ pending # None /\ pending.late => "clock" \in Interference

OfflineOK == TypeOK /\ JournalOK /\ ToolOK /\ TurnsOK /\ ClockOK

(* However it was interrupted, converge knows the layout it finds: it gives *)
(* up only for children of the original root that are not empty.           *)
LayoutKnown == At("loop") /\ Unsafe => root = Original /\ ~ChildrenEmpty

(* The installation is never left without a root for good: while @root is  *)
(* missing, the root it had is there under its other name and a            *)
(* transaction that load_pending accepts leads on from it.                 *)
NeverRootless == root = None => old # None /\ pending # None /\ Loads

(* The only copy of the root before the restore is discarded only after    *)
(* the lineage names the snapshot that replaced it (converge, finalize).   *)
HistoryBeforeDiscard ==
    (old # None /\ old' = None /\ root' # old) => head = root

(* A call that reports a snapshot as restored has made it the root, has    *)
(* recorded it as the head, and has left nothing of the old root, not even *)
(* in the background.                                                      *)
SuccessIsComplete ==
    (outcome' # outcome /\ outcome' # None) =>
        root' = outcome' /\ old' = None /\ new' = None /\ head' = outcome' /\ ~dropping'

(* A restore that the user has confirmed is finished, however often it is  *)
(* interrupted (restore, resume).                                          *)
Begun == <<pending # None>>
Over == <<pending = None>>
Progress == Begun[1] ~> Over[1]
=============================================================================
