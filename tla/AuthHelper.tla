------------------------------ MODULE AuthHelper ------------------------------
(***************************************************************************)
(* The privileged helper of the YubiKey Security Center.  It keeps, for    *)
(* GDM and for sudo, a mapping file that PAM reads and a line in the PAM   *)
(* configuration; a metadata file that says which key was enrolled by whom *)
(* and with which credential; and the passwordless-sudo rules with a       *)
(* snapshot of them for the unprivileged application.  Each file is        *)
(* replaced atomically, but a run of the helper replaces several: it can   *)
(* fail or be cut off between any two.  A lock keeps runs apart.           *)
(***************************************************************************)
EXTENDS Naturals, FiniteSets

CONSTANTS
    Users, Serials,
    Password,     \* the users with a usable password
    MaxMinted,    \* bound: credentials made by pamu2fcfg
    MaxFaults,    \* bound: failing steps
    MaxCrashes,   \* bound: power losses and kills
    MaxPolicies,  \* bound: changes of the sudo policy
    None

AuthAssumption ==
    /\ Password \subseteq Users
    /\ {MaxMinted, MaxFaults, MaxCrashes, MaxPolicies} \subseteq Nat

VARIABLES
    entries,   \* enrollments.json
    mapping,   \* purpose and user -> the credentials that PAM accepts
    pam,       \* purpose -> whether pam_u2f is in the PAM configuration
    managed,   \* users with a rule in the managed drop-in
    other,     \* users with a rule in some other drop-in
    snapshot,  \* users in the state file that the application reads
    run,       \* the helper run that holds the lock, or None
    dirty,     \* a run was cut off, or failed half way, since the last repair
    installed, \* the package is installed
    minted, faults, crashes, policies

auth == <<entries, mapping, pam>>
sudoers == <<managed, other>>
counters == <<minted, faults, crashes, policies>>
vars == <<auth, sudoers, snapshot, run, dirty, installed, counters>>

Purposes == {"gdm", "sudo"}
Credentials == Serials \X (1..MaxMinted)
Effective == managed \cup other

Enrolled(u, s, p) == \E e \in entries : e.user = u /\ e.serial = s /\ e.purpose = p
SudoEnrolled(u) == \E s \in Serials : Enrolled(u, s, "sudo")
Recorded(p, u) == {e.cred : e \in {d \in entries : d.purpose = p /\ d.user = u}}

Init ==
    /\ entries = {} /\ mapping = [p \in Purposes |-> [u \in Users |-> {}]]
    /\ pam = [p \in Purposes |-> FALSE]
    /\ managed \in SUBSET Users /\ other \in SUBSET Users
    /\ snapshot = Effective
    /\ run = None /\ dirty = FALSE /\ installed = TRUE
    /\ minted = 0 /\ faults = 0 /\ crashes = 0 /\ policies = 0

-----------------------------------------------------------------------------
(* A run takes the lock.  Later steps of it use what it read under it.     *)
Start(r) == run = None /\ installed /\ run' = r
Goto(step) == run' = [run EXCEPT !.at = step]
At(op, step) == run # None /\ run.op \in op /\ run.at = step

(* The application enrolls the only connected key that has no association  *)
(* yet, with a credential that pamu2fcfg makes for it,                     *)
StartEnroll(u, s, p) ==
    /\ minted < MaxMinted /\ ~Enrolled(u, s, p)
    /\ Start([op |-> "enroll", user |-> u, serial |-> s, purpose |-> p, at |-> "mapping",
              cred |-> <<s, minted + 1>>])
    /\ minted' = minted + 1
    /\ UNCHANGED <<auth, sudoers, snapshot, dirty, installed, faults, crashes, policies>>

(* and removes an association that the metadata has.                       *)
StartRemove(u, s, p) ==
    /\ Enrolled(u, s, p)
    /\ Start([op |-> "remove", user |-> u, serial |-> s, purpose |-> p, at |-> "mapping"])
    /\ UNCHANGED <<auth, sudoers, snapshot, dirty, installed, counters>>

OfRun(e) == e.user = run.user /\ e.serial = run.serial /\ e.purpose = run.purpose

(* What the mapping file of a purpose is replaced by.                      *)
NewMapping(p, u) ==
    CASE run.op = "repair" -> Recorded(p, u)
      [] <<p, u>> # <<run.purpose, run.user>> -> mapping[p][u]
      [] run.op = "enroll" -> mapping[p][u] \cup {run.cred}
      [] OTHER -> mapping[p][u] \ {e.cred : e \in {d \in entries : OfRun(d)}}

(* write_state: first the mappings,                                        *)
WriteMapping ==
    /\ At({"enroll", "remove"}, "mapping")
    /\ mapping' = [mapping EXCEPT ![run.purpose] = [u \in Users |-> NewMapping(run.purpose, u)]]
    /\ Goto("metadata")
    /\ UNCHANGED <<entries, pam, sudoers, snapshot, dirty, installed, counters>>

(* then the metadata.                                                      *)
WriteMetadata ==
    /\ At({"enroll", "remove"}, "metadata")
    /\ entries' = IF run.op = "remove" THEN {e \in entries : ~OfRun(e)}
                  ELSE entries \cup
                       {[user |-> run.user, serial |-> run.serial, purpose |-> run.purpose, cred |-> run.cred]}
    /\ Goto("pam")
    /\ UNCHANGED <<mapping, pam, sudoers, snapshot, dirty, installed, counters>>

(* ensure_pam: the line is there as long as anybody is enrolled.           *)
EnsurePam ==
    /\ At({"enroll", "remove"}, "pam")
    /\ pam' = [pam EXCEPT ![run.purpose] = \E e \in entries : e.purpose = run.purpose]
    /\ run' = None
    /\ UNCHANGED <<entries, mapping, sudoers, snapshot, dirty, installed, counters>>

-----------------------------------------------------------------------------

(* Without a password, a key has to be enrolled first.                     *)
PolicyAllowed(u, on) == on \/ u \in Password \/ SudoEnrolled(u)

(* set_passwordless_sudo, after visudo has accepted the current rules.     *)
StartPolicy(u, on) ==
    /\ policies < MaxPolicies /\ policies' = policies + 1
    /\ (u \in snapshot) = ~on
    /\ PolicyAllowed(u, on)
    /\ Start([op |-> "policy", user |-> u, on |-> on, at |-> "managed",
              old |-> <<managed, other, snapshot>>])
    /\ UNCHANGED <<auth, sudoers, snapshot, dirty, installed, minted, faults, crashes>>

WriteManaged ==
    /\ At({"policy"}, "managed")
    /\ managed' = IF run.on THEN managed \cup {run.user} ELSE managed \ {run.user}
    /\ Goto(IF run.on THEN "visudo" ELSE "other")
    /\ UNCHANGED <<auth, other, snapshot, dirty, installed, counters>>

WriteOther ==
    /\ At({"policy"}, "other")
    /\ other' = other \ {run.user}
    /\ Goto("visudo")
    /\ UNCHANGED <<auth, managed, snapshot, dirty, installed, counters>>

(* visudo accepts, the effective rules are read and the snapshot written.  *)
WriteSnapshot ==
    /\ At({"policy"}, "visudo")
    /\ snapshot' = Effective
    /\ Goto("copy")
    /\ UNCHANGED <<auth, sudoers, dirty, installed, counters>>

(* The metadata gets a copy of the snapshot, which nobody reads later.     *)
WriteCopy ==
    /\ At({"policy"}, "copy")
    /\ run' = None
    /\ UNCHANGED <<auth, sudoers, snapshot, dirty, installed, counters>>

(* The backups are put back: the snapshot before the rules.                *)
RestoreSnapshot ==
    /\ At({"policy"}, "restore")
    /\ snapshot' = run.old[3]
    /\ Goto("restore rules")
    /\ UNCHANGED <<auth, sudoers, dirty, installed, counters>>

RestoreRules ==
    /\ At({"policy"}, "restore rules")
    /\ managed' = run.old[1] /\ other' = run.old[2]
    /\ run' = None
    /\ UNCHANGED <<auth, snapshot, dirty, installed, counters>>

-----------------------------------------------------------------------------
(* repair, run by the package's post-install script: mappings and PAM from *)
(* the metadata, purpose by purpose, then the snapshot from the rules.     *)
RepairMapping(p, step, next) ==
    /\ At({"repair"}, step) /\ Goto(next)
    /\ mapping' = [mapping EXCEPT ![p] = [u \in Users |-> NewMapping(p, u)]]
    /\ UNCHANGED <<entries, pam, sudoers, snapshot, dirty, installed, counters>>

RepairPam(p, step, next) ==
    /\ At({"repair"}, step) /\ Goto(next)
    /\ pam' = [pam EXCEPT ![p] = \E u \in Users : Recorded(p, u) # {}]
    /\ UNCHANGED <<entries, mapping, sudoers, snapshot, dirty, installed, counters>>

RepairPurposes ==
    \/ RepairMapping("gdm", "gdm mapping", "gdm pam")
    \/ RepairPam("gdm", "gdm pam", "sudo mapping")
    \/ RepairMapping("sudo", "sudo mapping", "sudo pam")
    \/ RepairPam("sudo", "sudo pam", "snapshot")

RepairSnapshot ==
    /\ At({"repair"}, "snapshot")
    /\ snapshot' = Effective
    /\ run' = None /\ dirty' = FALSE
    /\ UNCHANGED <<auth, sudoers, installed, counters>>

(* An upgrade runs repair; a removal takes the PAM lines away, without the *)
(* helper's lock (dpkg keeps it apart from repair); an installation runs   *)
(* repair.                                                                 *)
Upgrade ==
    /\ dirty /\ Start([op |-> "repair", at |-> "gdm mapping"])
    /\ UNCHANGED <<auth, sudoers, snapshot, dirty, installed, counters>>

RemovePackage ==
    /\ crashes < MaxCrashes /\ crashes' = crashes + 1
    /\ installed /\ installed' = FALSE /\ dirty' = TRUE
    /\ run # None => run.op # "repair"
    /\ pam' = [p \in Purposes |-> FALSE]
    /\ UNCHANGED <<entries, mapping, sudoers, snapshot, run, minted, faults, policies>>

InstallPackage ==
    /\ ~installed /\ run = None
    /\ installed' = TRUE
    /\ run' = [op |-> "repair", at |-> "gdm mapping"]
    /\ UNCHANGED <<auth, sudoers, snapshot, dirty, counters>>

-----------------------------------------------------------------------------
(* A step fails: a file cannot be written, or visudo rejects the rules.    *)
(* Only a change of the sudo policy is undone.                             *)
StepFails ==
    /\ run # None /\ faults < MaxFaults /\ faults' = faults + 1
    /\ \/ /\ run.op = "policy" /\ run.at \notin {"restore", "restore rules"}
          /\ Goto("restore") /\ UNCHANGED dirty
       \/ /\ run.op # "policy" \/ run.at \in {"restore", "restore rules"}
          /\ run' = None /\ dirty' = TRUE
    /\ UNCHANGED <<auth, sudoers, snapshot, installed, minted, crashes, policies>>

(* Power is lost or the helper is killed.                                  *)
Crash ==
    /\ run # None /\ crashes < MaxCrashes /\ crashes' = crashes + 1
    /\ run' = None /\ dirty' = TRUE
    /\ UNCHANGED <<auth, sudoers, snapshot, installed, minted, faults, policies>>

Next ==
    \/ \E u \in Users, s \in Serials, p \in Purposes : StartEnroll(u, s, p) \/ StartRemove(u, s, p)
    \/ \E u \in Users, on \in BOOLEAN : StartPolicy(u, on)
    \/ WriteMapping \/ WriteMetadata \/ EnsurePam
    \/ WriteManaged \/ WriteOther \/ WriteSnapshot \/ WriteCopy
    \/ RestoreSnapshot \/ RestoreRules \/ RepairPurposes \/ RepairSnapshot
    \/ Upgrade \/ RemovePackage \/ InstallPackage \/ StepFails \/ Crash

Spec == Init /\ [][Next]_vars

-----------------------------------------------------------------------------
TypeOK ==
    /\ \A e \in entries : e.user \in Users /\ e.serial \in Serials /\ e.purpose \in Purposes
                          /\ e.cred \in Credentials /\ e.cred[1] = e.serial
    /\ mapping \in [Purposes -> [Users -> SUBSET Credentials]]
    /\ pam \in [Purposes -> BOOLEAN]
    /\ managed \subseteq Users /\ other \subseteq Users /\ snapshot \subseteq Users
    /\ dirty \in BOOLEAN /\ installed \in BOOLEAN

(* As long as no run was cut off, and again after the next repair, PAM     *)
(* accepts exactly the credentials that the metadata records, is asked for *)
(* a key exactly where one is enrolled, and the application is shown the   *)
(* sudo rules that are in force (write_state, ensure_pam, repair).         *)
Settled ==
    (run = None /\ ~dirty) =>
        /\ \A p \in Purposes, u \in Users : mapping[p][u] = Recorded(p, u)
        /\ \A p \in Purposes : pam[p] = \E e \in entries : e.purpose = p
        /\ snapshot = Effective

(* A sudo policy that could not be set in full is as it was before the     *)
(* call, rules and snapshot (the backups of set_passwordless_sudo).        *)
PolicyAllOrNothing ==
    (At({"policy"}, "restore rules") /\ run' = None /\ faults' = faults /\ crashes' = crashes)
       => <<managed', other', snapshot'>> = run.old

(* An account without a password does not lose its passwordless rule       *)
(* before a key of its own really opens sudo (set_passwordless_sudo).      *)
DisableKeepsAccess ==
    \A u \in Users \ Password :
        (u \in Effective /\ u \notin Effective')
        => pam["sudo"] /\ mapping["sudo"][u] # {}

(* When a removal has succeeded, no credential of the key is left that PAM *)
(* would accept for the user (the remove action of main).                  *)
RevokedForGood ==
    (At({"remove"}, "pam") /\ run' = None /\ faults' = faults /\ crashes' = crashes)
       => \A c \in mapping'[run.purpose][run.user] : c[1] # run.serial
=============================================================================
