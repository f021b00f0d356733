------------------------------ MODULE GitSigning ------------------------------
(***************************************************************************)
(* Git commit signing: four values of the user's global configuration,     *)
(* each written by a command of its own, in a fixed order.  When one       *)
(* fails, the values that were read before are written back, in the same   *)
(* order and up to the first failure.                                      *)
(***************************************************************************)
EXTENDS Naturals

CONSTANTS
    Selectors,    \* the keys the page offers
    MaxFaults,    \* bound: failing commands
    MaxUpdates,   \* bound: selections
    None

GitAssumption == {MaxFaults, MaxUpdates} \subseteq Nat

(* gpg.format, user.signingKey, commit.gpgSign, tag.gpgSign                *)
ManagedKeys == 1..4

VARIABLES
    config,   \* managed key -> value, or None
    update,   \* the update under way, or None
    outcome,  \* how the last one ended
    faults, updates

vars == <<config, update, outcome, faults, updates>>

Values == {None, "gpg", "ssh", "true", "false"} \cup Selectors

Init ==
    /\ config \in {f \in [ManagedKeys -> Values] :
                      /\ f[1] \in {None, "gpg"} /\ f[2] \in {None} \cup Selectors
                      /\ f[3] \in {None, "true", "false"} /\ f[4] \in {None, "true"}}
    /\ update = None /\ outcome = "none" /\ faults = 0 /\ updates = 0

Enabled == config[1] = "ssh" /\ config[2] # None /\ config[3] = "true"

Begin(desired) ==
    /\ update = None /\ updates < MaxUpdates /\ updates' = updates + 1
    /\ update' = [before |-> config, values |-> desired, next |-> 1, back |-> FALSE]
    /\ outcome' = "running"
    /\ UNCHANGED <<config, faults>>

SelectKey(s) == Begin(<<"ssh", s, "true", "false">>)
Disable == Enabled /\ Begin(<<config[1], config[2], "false", "false">>)

(* One git config command: --replace-all, or --unset-all for no value.     *)
WriteValue ==
    /\ update # None /\ update.next <= 4
    /\ config' = [config EXCEPT ![update.next] = update.values[update.next]]
    /\ update' = [update EXCEPT !.next = @ + 1]
    /\ UNCHANGED <<outcome, faults, updates>>

(* Mutant: the error is returned at once.                                  *)
WriteFailsForGood ==
    /\ update # None /\ update.next <= 4 /\ faults < MaxFaults /\ faults' = faults + 1
    /\ update' = None /\ outcome' = "failed"
    /\ UNCHANGED <<config, updates>>

(* write_with_rollback: a failure turns the update round, a second one     *)
(* ends it.                                                                *)
WriteFails ==
    /\ update # None /\ update.next <= 4 /\ faults < MaxFaults /\ faults' = faults + 1
    /\ IF update.back THEN update' = None /\ outcome' = "failed"
       ELSE /\ update' = [update EXCEPT !.back = TRUE, !.values = update.before, !.next = 1]
            /\ UNCHANGED outcome
    /\ UNCHANGED <<config, updates>>

Finish ==
    /\ update # None /\ update.next > 4
    /\ update' = None /\ outcome' = IF update.back THEN "failed" ELSE "ok"
    /\ UNCHANGED <<config, faults, updates>>

Next ==
    \/ \E s \in Selectors : SelectKey(s)
    \/ Disable \/ WriteValue \/ WriteFails \/ Finish

Spec == Init /\ [][Next]_vars

-----------------------------------------------------------------------------
TypeOK ==
    /\ config \in [ManagedKeys -> Values]
    /\ (update # None /\ update.back) => \A k \in ManagedKeys : k < update.next => config[k] = update.before[k]

(* A partial command failure restores the values read immediately before   *)
(* the selection (write_with_rollback).                                    *)
FailureRestores ==
    (update # None /\ update' = None /\ outcome' = "failed") => config' = update.before
=============================================================================
