---------------------------- MODULE SecurityCenter ----------------------------
(***************************************************************************)
(* The window of the YubiKey Security Center.  Pages are read on a thread  *)
(* pool and shown when the answer is back on the main loop; flags keep two *)
(* reads of one page apart.  The home page also follows the plugging of    *)
(* keys: udev events, debounced, and a poll of five seconds while the page *)
(* is visible and the window active.  Changes on the login and sudo pages  *)
(* run under a modal dialog and refresh the visible page when they end;    *)
(* the Git page is read without the pool.                                  *)
(***************************************************************************)
EXTENDS Naturals

CONSTANTS
    Keys,
    Monitor,     \* whether udevadm monitor could be started
    MaxPlugs,    \* bound: changes of the connected keys
    MaxChanges,  \* bound: settings changed
    MaxMoves,    \* bound: page changes, refreshes and focus changes
    None

CenterAssumption ==
    {MaxPlugs, MaxChanges, MaxMoves} \subseteq Nat /\ Monitor \in BOOLEAN

Secured == {"login", "sudo"}
Pages == Secured \cup {"home", "git"}

VARIABLES
    keys,      \* the connected keys
    setting,   \* page -> what the system is set to
    visible, active,
    shown,     \* page -> what it shows, None while it is loading
    reading,   \* page -> the read under way, with its result, or None
    snapshot,  \* home_snapshot: [devices, setting], or None
    full,      \* refresh_home_full under way, or None
    device,    \* refresh_home_devices under way, or None
    pending,   \* home_device_refresh_pending
    event, debounce, \* a udev event to be read, the timer that it starts
    change,    \* the modal change under way, or None
    plugs, changes, moves

home == <<snapshot, full, device, pending>>
hotplug == <<event, debounce>>
counters == <<plugs, changes, moves>>
vars == <<keys, setting, visible, active, shown, reading, home, hotplug, change, counters>>

Init ==
    /\ keys = {} /\ setting = [p \in Secured \cup {"git"} |-> FALSE]
    /\ visible = "home" /\ active = TRUE
    /\ shown = [p \in Secured \cup {"git"} |-> None]
    /\ reading = [p \in Secured |-> None]
    /\ snapshot = None /\ full = None /\ device = None /\ pending = FALSE
    /\ event = FALSE /\ debounce = FALSE
    /\ change = None /\ plugs = 0 /\ changes = 0 /\ moves = 0

-----------------------------------------------------------------------------

RefreshHomeFull == full' = IF full = None THEN [at |-> "settings"] ELSE full

(* A second request is noted; without a snapshot everything is read.       *)
RefreshHomeDevices ==
    IF device # None THEN pending' = TRUE /\ UNCHANGED <<full, device>>
    ELSE IF snapshot = None THEN RefreshHomeFull /\ UNCHANGED <<device, pending>>
    ELSE device' = [at |-> "read"] /\ UNCHANGED <<full, pending>>

(* refresh_security_page: the page loses its rows; one read at a time.     *)
RefreshSecurityPage(p) ==
    IF reading[p] # None THEN UNCHANGED <<shown, reading>>
    ELSE /\ shown' = [shown EXCEPT ![p] = None]
         /\ reading' = [reading EXCEPT ![p] = [at |-> "read"]]

(* refresh, for the page that is visible.                                  *)
Refresh(p, current) ==
    /\ IF p = "home" THEN RefreshHomeFull ELSE UNCHANGED full
    /\ IF p \in Secured THEN RefreshSecurityPage(p)
       ELSE /\ shown' = IF p = "git" THEN [shown EXCEPT !.git = current] ELSE shown
            /\ UNCHANGED reading

(* The sidebar, the refresh button and a card of the home page.            *)
Navigate(p) ==
    /\ change = None /\ moves < MaxMoves /\ moves' = moves + 1
    /\ visible' = p /\ Refresh(p, setting.git)
    /\ UNCHANGED <<keys, setting, active, snapshot, device, pending, hotplug, change, plugs, changes>>

(* The first refresh comes from an idle callback.                          *)
FirstRefresh ==
    /\ visible = "home" /\ snapshot = None /\ full = None
    /\ RefreshHomeFull
    /\ UNCHANGED <<keys, setting, visible, active, shown, reading, snapshot, device, pending,
                   hotplug, change, counters>>

Focus ==
    /\ moves < MaxMoves /\ moves' = moves + 1 /\ active' = ~active
    /\ UNCHANGED <<keys, setting, visible, shown, reading, home, hotplug, change, plugs, changes>>

-----------------------------------------------------------------------------
(* The task of a full refresh: enrollments, then devices, then Git.        *)
ReadFull ==
    /\ full # None /\ full.at # "done"
    /\ full' = CASE full.at = "settings" -> [at |-> "devices", login |-> setting.login, sudo |-> setting.sudo]
                 [] full.at = "devices" -> [at |-> "git", login |-> full.login, sudo |-> full.sudo, devices |-> keys]
                 [] OTHER -> [at |-> "done", devices |-> full.devices,
                              setting |-> [login |-> full.login, sudo |-> full.sudo, git |-> setting.git]]
    /\ UNCHANGED <<keys, setting, visible, active, shown, reading, snapshot, device, pending,
                   hotplug, change, counters>>

FinishFull ==
    /\ full # None /\ full.at = "done"
    /\ snapshot' = [devices |-> full.devices, setting |-> full.setting]
    /\ full' = None
    /\ UNCHANGED <<keys, setting, visible, active, shown, reading, device, pending, hotplug, change, counters>>

ReadDevices ==
    /\ device # None /\ device.at = "read"
    /\ device' = [at |-> "done", devices |-> keys]
    /\ UNCHANGED <<keys, setting, visible, active, shown, reading, snapshot, full, pending,
                   hotplug, change, counters>>

(* Only the devices change; a request that came in between is served now.  *)
FinishDevices ==
    /\ device # None /\ device.at = "done"
    /\ snapshot' = [snapshot EXCEPT !.devices = device.devices]
    /\ device' = IF pending THEN [at |-> "read"] ELSE None
    /\ pending' = FALSE
    /\ UNCHANGED <<keys, setting, visible, active, shown, reading, full, hotplug, change, counters>>

(* A key is plugged in or out; udev tells the monitor.                     *)
Plug(k) ==
    /\ plugs < MaxPlugs /\ plugs' = plugs + 1
    /\ keys' = IF k \in keys THEN keys \ {k} ELSE keys \cup {k}
    /\ event' = (Monitor \/ event)
    /\ UNCHANGED <<setting, visible, active, shown, reading, home, debounce, change, changes, moves>>

(* schedule_home_device_refresh restarts the timer.                        *)
UdevEvent ==
    /\ event /\ event' = FALSE /\ debounce' = TRUE
    /\ UNCHANGED <<keys, setting, visible, active, shown, reading, home, change, counters>>

DebounceFires ==
    /\ debounce /\ debounce' = FALSE /\ RefreshHomeDevices
    /\ UNCHANGED <<keys, setting, visible, active, shown, reading, snapshot, event, change, counters>>

(* Mutant: the poll also waits for the monitor's timer.                    *)
PollOnlyAfterEvent ==
    /\ visible = "home" /\ active /\ debounce /\ RefreshHomeDevices
    /\ UNCHANGED <<keys, setting, visible, active, shown, reading, snapshot, hotplug, change, counters>>

(* The poll of five seconds, on the home page of an active window.         *)
Poll ==
    /\ visible = "home" /\ active /\ RefreshHomeDevices
    /\ UNCHANGED <<keys, setting, visible, active, shown, reading, snapshot, hotplug, change, counters>>

-----------------------------------------------------------------------------
ReadPage(p) ==
    /\ reading[p] # None /\ reading[p].at = "read"
    /\ reading' = [reading EXCEPT ![p] = [at |-> "done", val |-> setting[p]]]
    /\ UNCHANGED <<keys, setting, visible, active, shown, home, hotplug, change, counters>>

FinishPage(p) ==
    /\ reading[p] # None /\ reading[p].at = "done"
    /\ shown' = [shown EXCEPT ![p] = reading[p].val]
    /\ reading' = [reading EXCEPT ![p] = None]
    /\ UNCHANGED <<keys, setting, visible, active, home, hotplug, change, counters>>

(* A switch of a page that has its rows: the modal dialog opens.           *)
Switch(p) ==
    /\ p = visible /\ change = None /\ shown[p] # None
    /\ changes < MaxChanges /\ changes' = changes + 1
    /\ change' = [page |-> p, to |-> ~shown[p], at |-> "run"]
    /\ UNCHANGED <<keys, setting, visible, active, shown, reading, home, hotplug, plugs, moves>>

(* A key for the login screen; a key, or the policy, for sudo; and a       *)
(* signing key, which takes the radio group's notifications.               *)
ToggleLogin == Switch("login")
ToggleSudo == Switch("sudo")
SelectSigning == Switch("git")

(* The helper or Git does it, or fails before or after it is done.         *)
RunChange ==
    /\ change # None /\ change.at = "run"
    /\ \E done, ok \in BOOLEAN :
          /\ ok => done
          /\ setting' = [setting EXCEPT ![change.page] = IF done THEN change.to ELSE @]
          /\ change' = [change EXCEPT !.at = IF ok THEN "ok" ELSE "failed"]
    /\ UNCHANGED <<keys, visible, active, shown, reading, home, hotplug, counters>>

(* The dialog closes; the visible page is read again in either case.       *)
ChangeEnds ==
    /\ change # None /\ change.at # "run"
    /\ change' = None
    /\ Refresh(visible, setting.git)
    /\ UNCHANGED <<keys, setting, visible, active, snapshot, device, pending, hotplug, counters>>

Next ==
    \/ \E p \in Pages : Navigate(p)
    \/ ToggleLogin \/ ToggleSudo \/ SelectSigning
    \/ \E p \in Secured : ReadPage(p) \/ FinishPage(p)
    \/ \E k \in Keys : Plug(k)
    \/ FirstRefresh \/ Focus \/ ReadFull \/ FinishFull \/ ReadDevices \/ FinishDevices
    \/ UdevEvent \/ DebounceFires \/ Poll \/ RunChange \/ ChangeEnds

Spec == Init /\ [][Next]_vars

(* Timers fire and the thread pool and the main loop make progress.        *)
LiveSpec ==
    /\ Spec
    /\ WF_vars(FirstRefresh) /\ WF_vars(ReadFull) /\ WF_vars(FinishFull)
    /\ WF_vars(ReadDevices) /\ WF_vars(FinishDevices)
    /\ WF_vars(UdevEvent) /\ WF_vars(DebounceFires) /\ WF_vars(Poll)

-----------------------------------------------------------------------------
TypeOK ==
    /\ keys \subseteq Keys /\ visible \in Pages
    /\ snapshot # None => snapshot.devices \subseteq Keys
    /\ device # None => device.at \in {"read", "done"} /\ snapshot # None
    /\ pending => device # None
    /\ \A p \in Secured : reading[p] # None => shown[p] = None

(* The page on which a switch was used shows what the system is really set *)
(* to as soon as it has rows again, also when the helper failed after it   *)
(* had done its work (the refresh at the end of a change).                 *)
PageTruthful ==
    \A p \in Secured \cup {"git"} :
        (p = visible /\ shown[p] # None /\ change = None) => shown[p] = setting[p]

(* A user who stays on the home page sees the connected keys in the end,   *)
(* although a full refresh may bring back an older list, and with or       *)
(* without udev events (refresh_home_devices, start_device_monitor).       *)
OnHome == visible = "home" /\ active
KeysShown == snapshot # None /\ snapshot.devices = keys
HomeFollowsKeys == <>[]OnHome => <>[]KeysShown
=============================================================================
