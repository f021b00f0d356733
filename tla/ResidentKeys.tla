----------------------------- MODULE ResidentKeys -----------------------------
(***************************************************************************)
(* The SSH page of the YubiKey Security Center: resident credentials are   *)
(* inspected, created, deleted and loaded into the agent by commands that  *)
(* address a key by the path of its device, while keys are plugged in and  *)
(* out and answers get lost.  A modal dialog keeps operations apart.       *)
(***************************************************************************)
EXTENDS Naturals, FiniteSets

CONSTANTS
    Keys, Paths,
    Swaps,        \* whether a path may be given to another key later on
    MaxPlugs,     \* bound: keys plugged in or out
    MaxFaults,    \* bound: commands that fail or whose answer is lost
    MaxCreds,     \* bound: credentials ever made
    None, Error

ResidentAssumption ==
    /\ {MaxPlugs, MaxFaults, MaxCreds} \subseteq Nat /\ Swaps \in BOOLEAN

VARIABLES
    plug,    \* path -> the key there, or None
    home,    \* path -> the key that was there first, or None
    creds,   \* key -> its resident SSH credentials
    agent,   \* credentials in the SSH agent
    listed,  \* the devices that the page shows
    cache,   \* ssh_results: path -> what its inspection found, Error, or None
    op,      \* the operation under way, or None
    report,  \* what the last operation told the user
    made, plugs, faults

vars == <<plug, home, creds, agent, listed, cache, op, report, made, plugs, faults>>

Hardware == <<plug, home, plugs>>
Page == <<listed, cache>>
Connected == {p \in Paths : plug[p] # None}
NoReport == [kind |-> "none"]

Init ==
    /\ plug = [p \in Paths |-> None] /\ home = [p \in Paths |-> None]
    /\ \E f \in [Keys -> SUBSET (1..Cardinality(Keys))] :
          /\ \A k, l \in Keys : k # l => f[k] \cap f[l] = {}
          /\ creds = f
    /\ made = Cardinality(Keys)
    /\ agent = {}
    /\ listed = {} /\ cache = [p \in Paths |-> None]
    /\ op = None /\ report = NoReport /\ plugs = 0 /\ faults = 0

-----------------------------------------------------------------------------
PlugIn(k, p) ==
    /\ plugs < MaxPlugs /\ plugs' = plugs + 1
    /\ plug[p] = None /\ \A q \in Paths : plug[q] # k
    /\ Swaps \/ home[p] \in {None, k}
    /\ plug' = [plug EXCEPT ![p] = k]
    /\ home' = [home EXCEPT ![p] = IF home[p] = None THEN k ELSE home[p]]
    /\ UNCHANGED <<creds, agent, Page, op, report, made, faults>>

PlugOut(p) ==
    /\ plugs < MaxPlugs /\ plugs' = plugs + 1
    /\ plug[p] # None /\ plug' = [plug EXCEPT ![p] = None]
    /\ UNCHANGED <<home, creds, agent, Page, op, report, made, faults>>

(* refresh_ssh reads the list of devices.                                  *)
Refresh ==
    /\ op = None /\ listed' = Connected
    /\ UNCHANGED <<Hardware, creds, agent, cache, op, report, made, faults>>

(* inspect_resident_ssh: the credentials of whichever key is there.        *)
Inspection(p) == IF plug[p] = None THEN Error ELSE creds[plug[p]]
Answers(p) == {Inspection(p)} \cup (IF faults < MaxFaults THEN {Error} ELSE {})
Charge(p, answer) == faults' = IF answer = Inspection(p) THEN faults ELSE faults + 1

Inspect(p) ==
    /\ op = None /\ p \in listed
    /\ \E answer \in Answers(p) :
          /\ Charge(p, answer)
          /\ cache' = [cache EXCEPT ![p] = answer]
    /\ listed' = Connected
    /\ UNCHANGED <<Hardware, creds, agent, op, report, made>>

Inspected(p) == cache[p] \notin {None, Error}

-----------------------------------------------------------------------------
End(r) == op' = None /\ report' = r
Goto(o) == op' = o /\ UNCHANGED report

(* create_resident_key: the device is there, and its credentials before.   *)
StartCreate(p) ==
    /\ op = None /\ p \in listed /\ made < MaxCreds
    /\ op' = [kind |-> "create", path |-> p, at |-> "preflight", before |-> {}, made |-> None, ok |-> FALSE]
    /\ report' = NoReport
    /\ UNCHANGED <<Hardware, creds, agent, Page, made, faults>>

CreatePreflight ==
    /\ op # None /\ op.kind = "create" /\ op.at = "preflight"
    /\ \E answer \in Answers(op.path) :
          /\ Charge(op.path, answer)
          /\ IF answer = Error THEN End([kind |-> "refused"])
             ELSE Goto([op EXCEPT !.at = "keygen", !.before = answer])
    /\ UNCHANGED <<Hardware, creds, agent, Page, made>>

(* ssh-keygen makes the credential and its files, fails before it, or      *)
(* fails after it; whichever key is at the path is written to.             *)
Keygen ==
    /\ op # None /\ op.kind = "create" /\ op.at = "keygen"
    /\ \/ /\ plug[op.path] # None
          /\ \E ok \in {TRUE} \cup (IF faults < MaxFaults THEN {FALSE} ELSE {}) :
                /\ faults' = IF ok THEN faults ELSE faults + 1
                /\ op' = [op EXCEPT !.at = "verify", !.made = made + 1, !.ok = ok]
          /\ made' = made + 1
          /\ creds' = [creds EXCEPT ![plug[op.path]] = @ \cup {made + 1}]
       \/ /\ plug[op.path] = None \/ faults < MaxFaults
          /\ faults' = IF plug[op.path] = None THEN faults ELSE faults + 1
          /\ op' = [op EXCEPT !.at = "verify"]
          /\ UNCHANGED <<creds, made>>
    /\ UNCHANGED <<Hardware, agent, Page, report>>

(* What the second inspection shows decides.                               *)
CreateVerdict(after) ==
    IF after = Error THEN [kind |-> "unknown", made |-> op.made]
    ELSE LET new == after \ op.before
         IN  CASE ~op.ok /\ new = {} -> [kind |-> "not created", made |-> op.made]
               [] ~op.ok \/ new = {} -> [kind |-> "unknown", made |-> op.made]
               [] OTHER -> [kind |-> "created", cred |-> CHOOSE c \in new : TRUE, made |-> op.made]

CreateVerify ==
    /\ op # None /\ op.kind = "create" /\ op.at = "verify"
    /\ \E after \in Answers(op.path) :
          /\ Charge(op.path, after)
          /\ End(CreateVerdict(after))
          /\ cache' = IF CreateVerdict(after).kind = "created"
                      THEN [cache EXCEPT ![op.path] = after] ELSE cache
    /\ listed' = IF report'.kind = "created" THEN Connected ELSE listed
    /\ UNCHANGED <<Hardware, creds, agent, made>>

-----------------------------------------------------------------------------
(* delete_resident_credential, for one of the credentials on the page.     *)
StartDelete(p, c) ==
    /\ op = None /\ p \in listed /\ Inspected(p) /\ c \in cache[p]
    /\ op' = [kind |-> "delete", path |-> p, at |-> "preflight", cred |-> c]
    /\ report' = NoReport
    /\ UNCHANGED <<Hardware, creds, agent, Page, made, faults>>

DeletePreflight ==
    /\ op # None /\ op.kind = "delete" /\ op.at = "preflight"
    /\ \E answer \in Answers(op.path) :
          /\ Charge(op.path, answer)
          /\ IF answer = Error THEN End([kind |-> "refused"])
             ELSE IF op.cred \notin answer THEN End([kind |-> "refused"])
             ELSE Goto([op EXCEPT !.at = "command"])
    /\ UNCHANGED <<Hardware, creds, agent, Page, made>>

(* fido2-token -D: done, not done, or done with the answer lost.           *)
DeleteCommand ==
    /\ op # None /\ op.kind = "delete" /\ op.at = "command"
    /\ \/ /\ plug[op.path] # None
          /\ creds' = [creds EXCEPT ![plug[op.path]] = @ \ {op.cred}]
          /\ UNCHANGED faults
       \/ /\ plug[op.path] = None \/ faults < MaxFaults
          /\ faults' = IF plug[op.path] = None THEN faults ELSE faults + 1
          /\ UNCHANGED creds
    /\ op' = [op EXCEPT !.at = "verify"]
    /\ UNCHANGED <<Hardware, agent, Page, report, made>>

(* finish_delete                                                           *)
DeleteVerdict(after) ==
    CASE after = Error -> [kind |-> "unknown"]
      [] op.cred \notin after -> [kind |-> "deleted", cred |-> op.cred]
      [] OTHER -> [kind |-> "still there"]

DeleteVerify ==
    /\ op # None /\ op.kind = "delete" /\ op.at = "verify"
    /\ \E after \in Answers(op.path) :
          /\ Charge(op.path, after)
          /\ End(DeleteVerdict(after))
          /\ cache' = IF DeleteVerdict(after).kind = "deleted"
                      THEN [cache EXCEPT ![op.path] = after] ELSE cache
    /\ listed' = IF report'.kind = "deleted" THEN Connected ELSE listed
    /\ UNCHANGED <<Hardware, creds, agent, made>>

-----------------------------------------------------------------------------
(* "Load all" is offered when the page shows a single device.              *)
StartLoad(p) ==
    /\ op = None /\ listed = {p} /\ Inspected(p) /\ cache[p] # {} /\ ~(cache[p] \subseteq agent)
    /\ op' = [kind |-> "load", at |-> "add", expected |-> cache[p]]
    /\ report' = NoReport
    /\ UNCHANGED <<Hardware, creds, agent, Page, made, faults>>

(* ssh-add -K asks some connected key.                                     *)
LoadAdd ==
    /\ op # None /\ op.kind = "load" /\ op.at = "add"
    /\ \/ \E p \in Connected :
             /\ agent' = agent \cup creds[plug[p]]
             /\ op' = [op EXCEPT !.at = "added"] /\ UNCHANGED faults
       \/ /\ Connected = {} \/ faults < MaxFaults
          /\ faults' = IF Connected = {} THEN faults ELSE faults + 1
          /\ op' = [op EXCEPT !.at = "failed"] /\ UNCHANGED agent
    /\ UNCHANGED <<Hardware, creds, Page, report, made>>

(* The fingerprints decide, not the exit status.                           *)
LoadVerdict == IF op.at = "added" \/ op.expected \subseteq agent THEN "loaded" ELSE "not loaded"

LoadVerify ==
    /\ op # None /\ op.kind = "load" /\ op.at \in {"added", "failed"}
    /\ End([kind |-> LoadVerdict, expected |-> op.expected])
    /\ listed' = IF LoadVerdict = "loaded" THEN Connected ELSE listed
    /\ UNCHANGED <<Hardware, creds, agent, cache, made, faults>>

(* remove_from_agent, and the agent's own restarts.                        *)
Unload(c) ==
    /\ op = None /\ c \in agent /\ agent' = agent \ {c}
    /\ UNCHANGED <<Hardware, creds, Page, op, report, made, faults>>

Next ==
    \/ \E k \in Keys, p \in Paths : PlugIn(k, p)
    \/ \E p \in Paths : PlugOut(p) \/ Inspect(p) \/ StartCreate(p) \/ StartLoad(p)
    \/ \E p \in Paths, c \in 1..MaxCreds : StartDelete(p, c)
    \/ \E c \in 1..MaxCreds : Unload(c)
    \/ Refresh \/ CreatePreflight \/ Keygen \/ CreateVerify
    \/ DeletePreflight \/ DeleteCommand \/ DeleteVerify \/ LoadAdd \/ LoadVerify

Spec == Init /\ [][Next]_vars

-----------------------------------------------------------------------------
TypeOK ==
    /\ plug \in [Paths -> Keys \cup {None}]
    /\ creds \in [Keys -> SUBSET (1..made)]
    /\ \A k, l \in Keys : k # l => creds[k] \cap creds[l] = {}
    /\ agent \subseteq 1..made
    /\ listed \subseteq Paths
    /\ \A p \in Paths : Inspected(p) => cache[p] \subseteq 1..made

(* A creation whose report lets the user try again has created nothing     *)
(* (the second inspection of create_resident_key).                         *)
RetrySafe == report.kind = "not created" => report.made = None

(* A reported creation names the credential that was made, and that key    *)
(* holds it.                                                               *)
CreatedIsNew == report.kind = "created" => report.cred = report.made

(* A deletion is reported only when the credential is on no key any more   *)
(* (finish_delete).                                                        *)
DeletedIsGone == report.kind = "deleted" => \A k \in Keys : report.cred \notin creds[k]

(* ssh-add -K, which cannot be told which key to use, runs only when one   *)
(* key is connected.                                                       *)
LoadsFromOne == LoadAdd /\ agent' # agent => Cardinality(Connected) = 1
=============================================================================
