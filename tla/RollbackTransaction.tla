------------------------- MODULE RollbackTransaction -------------------------
(***************************************************************************)
(* The record a rollback keeps in transactions/pending-rollback.json       *)
(* (anduinos-recovery-engine, transaction.rs): its phases, the fields that *)
(* steer recovery, and the mutators that may change them.                  *)
(*                                                                         *)
(* What a transaction id fixes for good is a constant function of the id:  *)
(* Kind (which subvolumes it replaces, and whether it also purges the      *)
(* history), Protocol (2 continues the boot after the switch, 3 restarts)  *)
(* and Target (the snapshot it restores).                                  *)
(*                                                                         *)
(* A boot id is only ever compared with the id of the boot that reads it,  *)
(* so a recorded boot id is abstracted to its age: "none", "this" boot, or *)
(* a "past" one.  The number of boots is therefore unbounded.              *)
(***************************************************************************)
EXTENDS Naturals

CONSTANTS
    Txns,       \* rollback ids (uuids: each one is used once)
    NoTxn,      \* no rollback id
    Targets,    \* snapshots that can be restored
    Kind,       \* Kind[t]: what transaction t replaces
    Protocol,   \* Protocol[t]: its recovery protocol
    Target,     \* Target[t]: the snapshot it restores
    Installed,  \* the subvolume written by the installer
    Absent      \* a name with no subvolume behind it

(* reset_home, home_only and purge_history, in the combinations that       *)
(* validate admits.  A factory reset that keeps Home is a "system" restore. *)
Kinds == {"system", "factoryHome", "factoryPurge", "home"}
ResetHome(k) == k # "system"
HomeOnly(k) == k = "home"
PurgeHistory(k) == k = "factoryPurge"

Slots == {"root", "home"}
Affected(k) == {s \in Slots : IF s = "root" THEN ~HomeOnly(k) ELSE ResetHome(k)}

(* A subvolume is named for what created it: the installer, or the         *)
(* transaction whose early boot cloned it from its target.                 *)
Subvols == {Installed} \cup Txns
Contents == Subvols \cup {Absent}

ASSUME TxnAssumption ==
    /\ NoTxn \notin Txns
    /\ Installed \notin Txns
    /\ Absent \notin Subvols
    /\ Kind \in [Txns -> Kinds]
    /\ Protocol \in [Txns -> {2, 3}]
    /\ Target \in [Txns -> Targets]
    /\ Installed \notin Targets

MaxApplyAttempts == 3

Phases == {"Preparing", "Armed", "Applying", "AppliedAwaitingBoot",
           "BootedUnconfirmed", "Reverting", "Reverted", "Confirmed", "Failed"}
Terminal == {"Reverted", "Confirmed", "Failed"}
NoPhase == "NoTransaction"

CanTransition(from, to) ==
    \/ from = "Preparing" /\ to \in {"Armed", "Failed"}
    \/ from = "Armed" /\ to \in {"Applying", "Failed"}
    \/ from = "Applying" /\ to \in {"AppliedAwaitingBoot", "BootedUnconfirmed",
                                    "Reverting", "Failed"}
    \/ from = "AppliedAwaitingBoot" /\ to \in {"BootedUnconfirmed", "Reverting"}
    \/ from = "BootedUnconfirmed" /\ to \in {"Confirmed", "Reverting"}
    \/ from = "Reverting" /\ to \in {"Reverted", "Failed"}

BootAges == {"none", "this", "past"}
Aged(b) == IF b = "this" THEN "past" ELSE b

(* base is what the safety snapshots taken by schedule remember of the     *)
(* running system: the identity of the root and the Home they protect.     *)
Transactions ==
    [id: Txns \cup {NoTxn}, phase: Phases \cup {NoPhase},
     initramfsAttempts: 0 .. MaxApplyAttempts, applyAttempts: 0 .. MaxApplyAttempts,
     initramfsBoot: BootAges, applyingBoot: BootAges, targetBoot: BootAges,
     base: [Slots -> Subvols]]

(* The state of the store when pending-rollback.json does not exist.       *)
NoTransaction ==
    [id |-> NoTxn, phase |-> NoPhase, initramfsAttempts |-> 0, applyAttempts |-> 0,
     initramfsBoot |-> "none", applyingBoot |-> "none", targetBoot |-> "none",
     base |-> [s \in Slots |-> Installed]]

NewTransaction(t, live) ==
    [NoTransaction EXCEPT !.id = t, !.phase = "Preparing", !.base = live]

RestartsAfterApply(txn) == Protocol[txn.id] = 3

RecordInitramfsEntry(txn) ==
    [txn EXCEPT !.initramfsAttempts = @ + 1, !.initramfsBoot = "this"]

BeginApply(txn) ==
    [txn EXCEPT !.phase = "Applying", !.applyAttempts = @ + 1, !.applyingBoot = "this"]

(* Mutant: the boot of the restored system is not written down.            *)
RecordTargetBootUnnamed(txn) == [txn EXCEPT !.phase = "BootedUnconfirmed"]

RecordTargetBoot(txn) ==
    [txn EXCEPT !.phase = "BootedUnconfirmed", !.targetBoot = "this"]

RecordFailure(txn) == [txn EXCEPT !.phase = "Failed"]

Transition(txn, next) == [txn EXCEPT !.phase = next]

(* What every recorded boot id becomes when the machine goes down.         *)
AfterPowerCycle(txn) ==
    [txn EXCEPT !.initramfsBoot = Aged(@), !.applyingBoot = Aged(@),
                !.targetBoot = Aged(@)]

(* The boot that may confirm: the target boot, or under protocol 2 the     *)
(* boot that applied the switch.                                           *)
ExpectedBoot(txn) ==
    IF RestartsAfterApply(txn) THEN txn.targetBoot ELSE txn.applyingBoot

(* The attempt counters against the phase and the recorded boots.          *)
ValidAttempts(txn) ==
    /\ txn.applyAttempts <= txn.initramfsAttempts
    /\ txn.initramfsAttempts = 0 => txn.initramfsBoot = "none"
    /\ txn.initramfsAttempts > 0 => txn.initramfsBoot # "none"
    /\ txn.phase \in {"Preparing", "Armed"} => txn.applyAttempts = 0
    /\ txn.phase \in {"Applying", "AppliedAwaitingBoot", "BootedUnconfirmed",
                      "Reverting", "Reverted", "Confirmed"} => txn.applyAttempts > 0
    /\ txn.applyAttempts > 0 => txn.applyingBoot # "none"

(* What only a transaction that restarts after the switch may record.      *)
ValidRestart(txn) ==
    IF RestartsAfterApply(txn)
      THEN /\ txn.phase \in {"BootedUnconfirmed", "Confirmed"} => txn.targetBoot # "none"
           /\ txn.targetBoot = "this" => txn.applyingBoot # "this"
           /\ txn.phase \in {"Preparing", "Armed", "Applying", "AppliedAwaitingBoot"}
                 => txn.targetBoot = "none"
      ELSE txn.phase # "AppliedAwaitingBoot" /\ txn.targetBoot = "none"

(* RollbackTransaction::validate, which every load and every write of the  *)
(* record runs: a record that fails it can be neither read nor replaced.   *)
ValidTransaction(txn) == ValidAttempts(txn) /\ ValidRestart(txn)
=============================================================================
