--------------------------- MODULE SnapshotPages ---------------------------
(***************************************************************************)
(* The window of Disk Snapshots Manager: its two pages, one per scope, each *)
(* a list loaded from the helper in the background (refresh, apply_status), *)
(* the modal dialogs that lead to an operation of the helper                *)
(* (run_operation), the factory reset started from the command line beside  *)
(* them, the listener of the helper's signals, and the countdown that ends  *)
(* with the restart an armed rollback needs.                                *)
(*                                                                          *)
(* The helper is what the pages see of it: a set of records per scope and   *)
(* at most one pending rollback (SnapshotStore, HomeStore and               *)
(* RollbackCoordinator model it).  A record is its class: the state, the    *)
(* kind and the pin the rows tell apart.  Search only hides rows and is     *)
(* left out: every listed row can be acted on.                              *)
(***************************************************************************)
EXTENDS Naturals, FiniteSets

CONSTANTS
    Scopes,       \* the pages of the window: "system", "home"
    Ids,          \* identities a record may have, in each scope
    Entries,      \* where operations come from: "window", "command"
    Countdown,    \* ROLLBACK_RESTART_COUNTDOWN_SECONDS
    MaxChanges,   \* bound: changes made by others, and created snapshots
    MaxFaults,    \* bound: loads that fail, operations refused or unanswered
    None

PagesAssumption ==
    /\ Scopes \subseteq {"system", "home"} /\ "system" \in Scopes
    /\ Entries \subseteq {"window", "command"}
    /\ Countdown \in Nat \ {0} /\ MaxChanges \in Nat /\ MaxFaults \in Nat

VARIABLES
    store,      \* per scope: the helper's records, id -> class
    pending,    \* the pending rollback, or None
    listening,  \* the signal listener is connected
    signalled,  \* per scope: its generation differs from the one last seen
    page,       \* per scope: what the page holds
    load,       \* per scope: the status a load has read, or None
    dialog,     \* per entry point: the modal dialog that is open, or None
    op,         \* per entry point: the operation in the background, or None
    ready,      \* seconds left in the Restart Required dialog, or None
    asked,      \* restarts requested since the rollback was armed
    machine,    \* "up" or "restarting"
    stale,      \* per scope: changed since a load read it, with no announcement
    changes, faults

helper == <<store, pending>>
view == <<page, load>>
window == <<dialog, op, ready, asked, machine>>
vars == <<helper, listening, signalled, view, window, stale, changes, faults>>

(* An operation comes from a row or banner of the window, from the         *)
(* --factory-reset of a second command line, which no modal dialog blocks, *)
(* or from the restart dialog.                                             *)
Threads == Entries \cup {"restart"}
Classes == {"ready", "kept", "factory", "creating", "incomplete", "broken"}

Put(f, k, v) == [x \in DOMAIN f \cup {k} |-> IF x = k THEN v ELSE f[x]]
Without(f, S) == [x \in DOMAIN f \ S |-> f[x]]
----------------------------------------------------------------------------
(* SnapshotCapabilities::for_item, by the class of the listed record.      *)
CanRestore(c) == c \in {"ready", "kept", "factory"}
CanVerify(c) == c # "creating"
CanSelect(s, c) == c \in {"ready", "broken"} \/ (s = "system" /\ c = "incomplete")
CanDelete(s, c) == CanSelect(s, c) \/ c = "factory"
CanPin(c) == c \in {"ready", "kept"}
CanRename(c) == c \notin {"creating", "factory"}

(* pending_banner_presentation and the filter of update_banners.           *)
BannerOf(s, p) ==
    CASE p = None \/ (p # None /\ s \notin p.scopes) -> "none"
      [] p # None /\ s \in p.scopes /\ p.phase \in {"preparing", "armed"} -> "cancel"
      [] p # None /\ s \in p.scopes /\ p.phase = "failed" -> "reconcile"

Init ==
    /\ store \in [Scopes -> {[i \in {CHOOSE x \in Ids : TRUE} |-> c] : c \in {"ready", "factory"}}]
    /\ pending \in {None, [phase |-> "failed", scopes |-> {"system"}]}
    /\ listening = TRUE /\ signalled = [s \in Scopes |-> FALSE]
    /\ page = [s \in Scopes |-> [items |-> <<>>, selected |-> {}, mode |-> FALSE,
                                 available |-> FALSE, refreshing |-> TRUE,
                                 again |-> FALSE, banner |-> "none"]]
    /\ load = [s \in Scopes |-> None]
    /\ dialog = [e \in Entries |-> None] /\ op = [e \in Threads |-> None]
    /\ ready = None /\ asked = 0 /\ machine = "up"
    /\ stale = [s \in Scopes |-> FALSE] /\ changes = 0 /\ faults = 0
----------------------------------------------------------------------------

(* refresh: one load at a time; one more after it if asked for meanwhile.  *)
Refreshed(p) ==
    IF p.refreshing THEN [p EXCEPT !.again = TRUE] ELSE [p EXCEPT !.refreshing = TRUE]

(* The blocking thread of a refresh asks the helper for its status.        *)
Read(s) ==
    /\ page[s].refreshing /\ load[s] = None
    /\ load' = [load EXCEPT ![s] = [ok |-> TRUE, items |-> store[s], pending |-> pending]]
    /\ stale' = [stale EXCEPT ![s] = FALSE]
    /\ UNCHANGED <<helper, listening, signalled, page, window, changes, faults>>

(* The query fails, or finds the recovery engine unavailable.              *)
ReadFails(s) ==
    /\ page[s].refreshing /\ load[s] = None /\ faults < MaxFaults
    /\ \E unavailable \in BOOLEAN :
         load' = [load EXCEPT ![s] = [ok |-> FALSE, unavailable |-> unavailable,
                                      pending |-> pending]]
    /\ faults' = faults + 1
    /\ UNCHANGED <<helper, listening, signalled, page, window, stale, changes>>

(* Mutant: the selection outlives the list it was made in.                 *)
AppliedOver(s, p, l) ==
    IF l.ok THEN [p EXCEPT !.available = TRUE, !.items = l.items,
                           !.banner = BannerOf(s, l.pending)]
    ELSE [p EXCEPT !.available = FALSE,
                   !.banner = IF l.unavailable THEN BannerOf(s, l.pending) ELSE @]

(* apply_status, and show_load_error: a list that cannot be loaded leaves  *)
(* the rows and the selection of the one before.                           *)
Applied(s, p, l) ==
    IF l.ok THEN [p EXCEPT !.available = TRUE, !.items = l.items, !.selected = {},
                           !.mode = FALSE, !.banner = BannerOf(s, l.pending)]
    ELSE [p EXCEPT !.available = FALSE,
                   !.banner = IF l.unavailable THEN BannerOf(s, l.pending) ELSE @]

(* The load ends in the main loop; a refresh that was asked for starts.    *)
Loaded(s) ==
    /\ load[s] # None
    /\ page' = [page EXCEPT ![s] =
                  LET p == Applied(s, [@ EXCEPT !.refreshing = FALSE], load[s])
                  IN  IF p.again THEN Refreshed([p EXCEPT !.again = FALSE]) ELSE p]
    /\ load' = [load EXCEPT ![s] = None]
    /\ UNCHANGED <<helper, listening, signalled, window, stale, changes, faults>>

(* start_signal_refresh: every 250 ms the generations are compared.        *)
Poll ==
    /\ \E s \in Scopes : signalled[s]
    /\ signalled' = [s \in Scopes |-> FALSE]
    /\ page' = [s \in Scopes |-> IF signalled[s] THEN Refreshed(page[s]) ELSE page[s]]
    /\ UNCHANGED <<helper, listening, load, window, stale, changes, faults>>
----------------------------------------------------------------------------
(* Others at work: timers, APT and the sessions of other users.  A created *)
(* snapshot is announced to whoever listens; nothing else is.              *)
Announce(s) ==
    /\ signalled' = [signalled EXCEPT ![s] = @ \/ listening]
    /\ stale' = [stale EXCEPT ![s] = @ \/ ~listening]

OtherCreates(s, i) ==
    /\ changes < MaxChanges /\ i \notin DOMAIN store[s]
    /\ store' = [store EXCEPT ![s] = Put(@, i, "ready")]
    /\ Announce(s) /\ changes' = changes + 1
    /\ UNCHANGED <<pending, listening, view, window, faults>>

OtherDeletes(s, i) ==
    /\ changes < MaxChanges /\ i \in DOMAIN store[s] /\ store[s][i] # "factory"
    /\ store' = [store EXCEPT ![s] = Without(@, {i})]
    /\ stale' = [stale EXCEPT ![s] = TRUE]
    /\ changes' = changes + 1
    /\ UNCHANGED <<pending, listening, signalled, view, window, faults>>

(* A record in another state: being written, or found damaged.             *)
OtherMarks(s, i) ==
    /\ changes < MaxChanges /\ i \in DOMAIN store[s] /\ store[s][i] = "ready"
    /\ \E c \in {"kept", "creating", "incomplete", "broken"} :
         store' = [store EXCEPT ![s] = Put(@, i, c)]
    /\ stale' = [stale EXCEPT ![s] = TRUE]
    /\ changes' = changes + 1
    /\ UNCHANGED <<pending, listening, signalled, view, window, faults>>

(* SnapshotSignalMonitor: the stream ends and is opened again after 2 s.   *)
Disconnect ==
    /\ listening /\ faults < MaxFaults /\ listening' = FALSE /\ faults' = faults + 1
    /\ UNCHANGED <<helper, signalled, view, window, stale, changes>>
Reconnect ==
    /\ ~listening /\ listening' = TRUE
    /\ UNCHANGED <<helper, signalled, view, window, stale, changes, faults>>
----------------------------------------------------------------------------
(* Nothing modal is over the window.                                       *)
Idle ==
    /\ "window" \in Entries /\ machine = "up" /\ ready = None
    /\ \A e \in Threads : op[e] = None
    /\ \A e \in Entries : dialog[e] = None

Quiet == UNCHANGED <<helper, listening, signalled, load, ready, asked, machine,
                     stale, changes, faults>>

(* run_operation: the closure goes to a thread under a progress window.    *)
Start(e, o) == op' = [op EXCEPT ![e] = o] /\ dialog' = [dialog EXCEPT ![e] = None]
Operation(w, s, S, a) == [what |-> w, s |-> s, ids |-> S, arg |-> a, reply |-> None]
Ask(w, s, S) == /\ dialog' = [dialog EXCEPT !["window"] = [what |-> w, s |-> s, ids |-> S]]
                /\ op' = op

UserRefresh(s) == Idle /\ page' = [page EXCEPT ![s] = Refreshed(@)]
                       /\ UNCHANGED <<dialog, op>> /\ Quiet

(* set_selection_mode: the toggle, the Cancel button, the Escape key.      *)
Select(s) ==
    /\ Idle
    /\ page' = [page EXCEPT ![s].mode = ~@, ![s].selected = IF page[s].mode THEN {} ELSE @]
    /\ UNCHANGED <<dialog, op>> /\ Quiet

(* The check button of a row, in selection mode.                           *)
Check(s, i) ==
    /\ Idle /\ page[s].mode /\ page[s].available
    /\ i \in DOMAIN page[s].items /\ CanSelect(s, page[s].items[i])
    /\ page' = [page EXCEPT ![s].selected = IF i \in @ THEN @ \ {i} ELSE @ \cup {i}]
    /\ UNCHANGED <<dialog, op>> /\ Quiet

ShowCreateDialog(s) == Idle /\ Ask("create", s, {}) /\ page' = page /\ Quiet

ConfirmSelectedDelete(s) ==
    /\ Idle /\ page[s].selected # {} /\ Ask("delete", s, page[s].selected)
    /\ page' = page /\ Quiet

(* The actions of a row that ask first.                                    *)
ShowRenameDialog(s, i) ==
    /\ Idle /\ i \in DOMAIN page[s].items /\ CanRename(page[s].items[i])
    /\ Ask("rename", s, {i}) /\ page' = page /\ Quiet

ConfirmDelete(s, i) ==
    /\ Idle /\ i \in DOMAIN page[s].items
    /\ CanDelete(s, page[s].items[i]) /\ page[s].items[i] # "factory"
    /\ Ask("delete", s, {i}) /\ page' = page /\ Quiet

ConfirmFactoryDelete(s, i) ==
    /\ Idle /\ i \in DOMAIN page[s].items
    /\ CanDelete(s, page[s].items[i]) /\ page[s].items[i] = "factory"
    /\ Ask("factory_delete", s, {i}) /\ page' = page /\ Quiet

(* The actions of a row that start at once.  A size that is not known yet  *)
(* is measured for the details.                                            *)
SetPinned(s, i) ==
    /\ Idle /\ i \in DOMAIN page[s].items /\ CanPin(page[s].items[i])
    /\ Start("window", Operation("pin", s, {i}, page[s].items[i] = "ready"))
    /\ page' = page /\ Quiet

VerifySnapshot(s, i) ==
    /\ Idle /\ i \in DOMAIN page[s].items /\ CanVerify(page[s].items[i])
    /\ Start("window", Operation("verify", s, {i}, None)) /\ page' = page /\ Quiet

ShowSnapshotDetails(s, i) ==
    /\ Idle /\ i \in DOMAIN page[s].items
    /\ Start("window", Operation("measure", s, {i}, None)) /\ page' = page /\ Quiet

(* Roll Back: verification and readiness first, the question afterwards.   *)
VerifyThenConfirmRollback(s, i) ==
    /\ Idle /\ i \in DOMAIN page[s].items /\ CanRestore(page[s].items[i])
    /\ Start("window", Operation("check", s, {i}, None)) /\ page' = page /\ Quiet

(* The button of the pending banner, with the meaning it had when loaded.  *)
CancelPendingRollback(s) ==
    /\ Idle /\ page[s].banner = "cancel"
    /\ Start("window", Operation("cancel", s, {}, None)) /\ page' = page /\ Quiet

ReconcilePendingRollback(s) ==
    /\ Idle /\ page[s].banner = "reconcile"
    /\ Start("window", Operation("reconcile", s, {}, None)) /\ page' = page /\ Quiet

(* The answer to a dialog; any other answer closes it.                     *)
Respond ==
    /\ "window" \in Entries /\ dialog["window"] # None
    /\ LET d == dialog["window"] IN
       \/ Start("window", Operation(IF d.what = "rollback" THEN "schedule" ELSE d.what,
                                    d.s, d.ids, None))
       \/ dialog' = [dialog EXCEPT !["window"] = None] /\ op' = op
    /\ page' = page /\ Quiet
----------------------------------------------------------------------------
(* begin_factory_reset, from the command line of a second invocation.      *)
BeginFactoryReset ==
    /\ "command" \in Entries /\ machine = "up"
    /\ dialog["command"] = None /\ op["command"] = None
    /\ Start("command", Operation("reset_check", "system", {}, None))
    /\ page' = page /\ Quiet

FactoryHome == "home" \in Scopes /\ \E i \in DOMAIN store["home"] : store["home"][i] = "factory"
FactoryIds == {i \in DOMAIN store["system"] : store["system"][i] = "factory"}

(* factory_reset::confirmation: the second box brings the first one along. *)
PurgeToggled(d) == [d EXCEPT !.purge = ~@, !.erase = @ \/ ~d.purge]

ToggleReset ==
    /\ "command" \in Entries /\ dialog["command"] # None /\ dialog["command"].home
    /\ \E next \in {PurgeToggled(dialog["command"])} \cup
                   (IF dialog["command"].purge THEN {}
                    ELSE {[dialog["command"] EXCEPT !.erase = ~@]}) :
         dialog' = [dialog EXCEPT !["command"] = next]
    /\ UNCHANGED <<op, page>> /\ Quiet

RespondReset ==
    /\ "command" \in Entries /\ dialog["command"] # None
    /\ LET d == dialog["command"] IN
       \/ Start("command", Operation("reset", "system", d.ids,
                                     [home |-> d.erase, purge |-> d.purge]))
       \/ dialog' = [dialog EXCEPT !["command"] = None] /\ op' = op
    /\ page' = page /\ Quiet
----------------------------------------------------------------------------
(* The helper at work.  Granted says what it accepts, Effect what it does. *)
Granted(o) ==
    CASE o.what \in {"pin", "rename", "verify", "measure"} -> o.ids \subseteq DOMAIN store[o.s]
      [] o.what = "delete" -> \A i \in o.ids \cap DOMAIN store[o.s] : CanSelect(o.s, store[o.s][i])
      [] o.what = "factory_delete" -> o.ids \subseteq DOMAIN store[o.s] /\ pending = None
      [] o.what \in {"check", "schedule"} ->
           pending = None /\ \A i \in o.ids : i \in DOMAIN store[o.s] /\ CanRestore(store[o.s][i])
      [] o.what = "cancel" -> pending # None /\ pending.phase = "armed"
      [] o.what = "reconcile" -> pending # None /\ pending.phase = "failed"
      [] o.what = "reset_check" -> pending = None /\ Cardinality(FactoryIds) = 1
      [] o.what = "reset" -> pending = None /\ o.ids = FactoryIds
                             /\ (o.arg.home => FactoryHome)
      [] OTHER -> o.what # "create" \/ (Ids \ DOMAIN store[o.s] # {} /\ changes < MaxChanges)

Stored(o, done) ==
    CASE o.what = "create" ->
           [store EXCEPT ![o.s] = Put(@, CHOOSE i \in Ids : i \notin DOMAIN @, "ready")]
      [] o.what \in {"delete", "factory_delete"} -> [store EXCEPT ![o.s] = Without(@, done)]
      [] o.what = "pin" -> [store EXCEPT ![o.s] =
           [i \in DOMAIN @ |-> IF i \in o.ids /\ @[i] \in {"ready", "kept"}
                               THEN IF o.arg THEN "kept" ELSE "ready" ELSE @[i]]]
      [] OTHER -> store

PendingAfter(o) ==
    CASE o.what = "schedule" -> [phase |-> "armed", scopes |-> {o.s}]
      [] o.what = "reset" -> [phase |-> "armed",
           scopes |-> {"system"} \cup (IF o.arg.home \/ o.arg.purge THEN {"home"} ELSE {})]
      [] o.what \in {"cancel", "reconcile"} -> None
      [] OTHER -> pending

Replied(e, r) == op' = [op EXCEPT ![e].reply = r]

(* The check of a factory reset answers with its target and with whether   *)
(* there is a factory Home.                                                *)
Answer(o) ==
    IF o.what = "reset_check" THEN [o EXCEPT !.reply = "ok", !.ids = FactoryIds, !.arg = FactoryHome]
    ELSE [o EXCEPT !.reply = "ok"]

(* The operation succeeds and the client is told so.                       *)
Serve(e) ==
    /\ op[e] # None /\ op[e].what # "reboot" /\ op[e].reply = None /\ Granted(op[e])
    /\ LET o == op[e] IN
       /\ store' = Stored(o, o.ids) /\ pending' = PendingAfter(o)
       /\ IF o.what = "create" THEN Announce(o.s) /\ changes' = changes + 1
          ELSE UNCHANGED <<signalled, stale, changes>>
    /\ op' = [op EXCEPT ![e] = Answer(@)]
    /\ UNCHANGED <<listening, view, dialog, ready, asked, machine, faults>>

(* The helper refuses what its own checks do not grant.                    *)
Refuse(e) ==
    /\ op[e] # None /\ op[e].what # "reboot" /\ op[e].reply = None /\ ~Granted(op[e])
    /\ Replied(e, "error")
    /\ UNCHANGED <<helper, listening, signalled, view, dialog, ready, asked, machine,
                   stale, changes, faults>>

(* It fails after a part of the work, or its answer is lost after all of it. *)
FailPartly(e) ==
    /\ op[e] # None /\ op[e].what # "reboot" /\ op[e].reply = None /\ Granted(op[e])
    /\ faults < MaxFaults /\ faults' = faults + 1
    /\ LET o == op[e] IN
       \E done \in SUBSET o.ids, all \in BOOLEAN :
         /\ store' = IF all \/ o.what \in {"delete"} THEN Stored(o, done) ELSE store
         /\ pending' = IF all THEN PendingAfter(o) ELSE pending
         /\ stale' = [stale EXCEPT ![o.s] = TRUE]
    /\ Replied(e, "error")
    /\ UNCHANGED <<listening, signalled, view, dialog, ready, asked, machine, changes>>

(* systemctl reboot, which an inhibitor may refuse.                        *)
Reboot(e) ==
    /\ op[e] # None /\ op[e].what = "reboot" /\ op[e].reply = None
    /\ \/ machine' = "restarting" /\ Replied(e, "ok") /\ faults' = faults
       \/ machine' = machine /\ Replied(e, "error") /\ faults < MaxFaults /\ faults' = faults + 1
    /\ UNCHANGED <<helper, listening, signalled, view, dialog, ready, asked, stale, changes>>
----------------------------------------------------------------------------
(* run_mutation and its kin: a success refreshes the page it came from.    *)
RefreshedAfter(o) ==
    IF o.reply = "ok" /\ o.what \notin {"verify", "check", "reset_check", "reboot"}
    THEN [page EXCEPT ![o.s] = Refreshed(@)] ELSE page

(* The question that follows a check: rollback_confirmation with the       *)
(* snapshot, factory_reset::confirmation with both boxes empty.            *)
QuestionAfter(o) ==
    IF o.reply # "ok" \/ o.what \notin {"check", "reset_check"} THEN None
    ELSE IF o.what = "check" THEN [what |-> "rollback", s |-> o.s, ids |-> o.ids]
    ELSE [what |-> "reset", s |-> o.s, ids |-> o.ids, home |-> o.arg,
          erase |-> FALSE, purge |-> FALSE]

(* schedule_rollback, schedule_factory_reset: show_rollback_ready follows. *)
ReadyAfter(o) ==
    IF o.reply = "ok" /\ o.what \in {"schedule", "reset"}
    THEN ready' = Countdown /\ asked' = 0
    ELSE UNCHANGED <<ready, asked>>

(* The completion of an operation, back in the main loop; an error is      *)
(* shown and that is all.                                                  *)
Complete(e) ==
    /\ op[e] # None /\ op[e].reply # None /\ machine = "up"
    /\ page' = RefreshedAfter(op[e])
    /\ dialog' = IF QuestionAfter(op[e]) = None THEN dialog
                 ELSE [dialog EXCEPT ![e] = QuestionAfter(op[e])]
    /\ ReadyAfter(op[e])
    /\ op' = [op EXCEPT ![e] = None]
    /\ UNCHANGED <<helper, listening, signalled, load, machine, stale, changes, faults>>

RequestRestart == op' = [op EXCEPT !["restart"] = Operation("reboot", "system", {}, None)]

(* Closing the dialog is answering it: with `again` the response handler   *)
(* asks for a second restart.                                              *)
Expire(again) ==
    /\ ready = 1 /\ ready' = None /\ asked' = asked + (IF again THEN 2 ELSE 1)
    /\ RequestRestart

(* The timer of show_rollback_ready, once a second.                        *)
Tick ==
    /\ machine = "up" /\ ready # None /\ op["restart"] = None
    /\ IF ready > 1 THEN ready' = ready - 1 /\ UNCHANGED <<asked, op>> ELSE Expire(FALSE)
    /\ UNCHANGED <<helper, listening, signalled, view, dialog, machine, stale, changes, faults>>

(* Restart Now, or the dialog closed: there is no answer but to restart.   *)
RestartNow ==
    /\ machine = "up" /\ ready # None /\ op["restart"] = None
    /\ ready' = None /\ asked' = asked + 1 /\ RequestRestart
    /\ UNCHANGED <<helper, listening, signalled, view, dialog, machine, stale, changes, faults>>
----------------------------------------------------------------------------
Next ==
    \/ \E s \in Scopes : \/ Read(s) \/ ReadFails(s) \/ Loaded(s) \/ UserRefresh(s) \/ Select(s)
                         \/ ShowCreateDialog(s) \/ ConfirmSelectedDelete(s)
                         \/ CancelPendingRollback(s) \/ ReconcilePendingRollback(s)
    \/ \E s \in Scopes, i \in Ids :
         \/ Check(s, i) \/ ShowRenameDialog(s, i) \/ ConfirmDelete(s, i)
         \/ ConfirmFactoryDelete(s, i) \/ SetPinned(s, i) \/ VerifySnapshot(s, i)
         \/ ShowSnapshotDetails(s, i) \/ VerifyThenConfirmRollback(s, i)
         \/ OtherCreates(s, i) \/ OtherDeletes(s, i) \/ OtherMarks(s, i)
    \/ \E e \in Threads : Serve(e) \/ Refuse(e) \/ FailPartly(e) \/ Reboot(e) \/ Complete(e)
    \/ Poll \/ Disconnect \/ Reconnect \/ Respond
    \/ BeginFactoryReset \/ ToggleReset \/ RespondReset
    \/ Tick \/ RestartNow

Spec == Init /\ [][Next]_vars

(* The main loop, its timers and the background threads go on; nobody has  *)
(* to press a button.                                                      *)
LiveSpec ==
    /\ Spec
    /\ WF_vars(Tick) /\ WF_vars(Poll) /\ WF_vars(Reconnect)
    /\ \A s \in Scopes : WF_vars(Read(s) \/ ReadFails(s)) /\ WF_vars(Loaded(s))
    /\ \A e \in Threads : WF_vars(Serve(e) \/ Refuse(e) \/ FailPartly(e))
                          /\ WF_vars(Reboot(e)) /\ WF_vars(Complete(e))
----------------------------------------------------------------------------
(* The state stays in its types: records of known classes, one page per    *)
(* scope, an operation or a dialog per entry point.                        *)
TypeOK ==
    /\ \A s \in Scopes :
         /\ DOMAIN store[s] \subseteq Ids /\ \A i \in DOMAIN store[s] : store[s][i] \in Classes
         /\ DOMAIN page[s].items \subseteq Ids /\ page[s].selected \subseteq Ids
         /\ page[s].banner \in {"none", "cancel", "reconcile"}
         /\ {page[s].mode, page[s].available, page[s].refreshing, page[s].again} \subseteq BOOLEAN
    /\ \A e \in Threads : op[e] # None => op[e].reply \in {None, "ok", "error"}
    /\ ready = None \/ ready \in 1..Countdown
    /\ machine \in {"up", "restarting"}

(* What Delete Selected would delete is always listed and selectable, also *)
(* when the list is replaced in the background while the user selects.     *)
SelectionListed ==
    \A s \in Scopes : \A i \in page[s].selected :
        page[s].mode /\ i \in DOMAIN page[s].items /\ CanSelect(s, page[s].items[i])

(* A page at rest shows the records of the helper: every change that was   *)
(* announced, and every operation of this window that succeeded, has been  *)
(* followed by a load that began after it.                                 *)
QuietPageIsCurrent ==
    \A s \in Scopes :
        (/\ page[s].available /\ ~page[s].refreshing /\ ~signalled[s] /\ ~stale[s]
         /\ \A e \in Entries : op[e] # None /\ op[e].s = s => op[e].reply = None)
        => page[s].items = store[s]

(* One armed rollback, one request to restart, whether the countdown or    *)
(* the user is first.                                                      *)
OneRestart == asked <= 1

(* A reset that deletes the history also restores the user data, whatever  *)
(* boxes were ticked in whatever order, and only where there is a factory  *)
(* Home to restore.                                                        *)
PurgeErasesHome ==
    \A e \in Entries \ {"window"} :
    LET d == dialog[e] IN
    d # None => (d.purge => d.erase) /\ (d.erase => d.home)

(* Once the restart dialog is up a restart is asked for, with no answer    *)
(* from the user at all.                                                   *)
Begun == <<ready # None>>
Over == <<asked > 0 \/ machine = "restarting">>
Progress == Begun[1] ~> Over[1]

(* "Once recovery is armed there is deliberately no defer path": the       *)
(* machine restarts.                                                       *)
NoDefer == (ready # None) ~> (machine = "restarting")
============================================================================
