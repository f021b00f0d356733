---------------------------- MODULE SshPersistence ----------------------------
(***************************************************************************)
(* The switch for SSH connection persistence: a managed fragment file and  *)
(* a marked block in ~/.ssh/config that includes it.  The application      *)
(* works on files that the user edits at the same time: it writes a        *)
(* candidate, has OpenSSH validate it, compares the file with what it read *)
(* at first, and renames the candidate over it.                            *)
(*                                                                         *)
(* A configuration is a sequence of pieces: "u" some text of the user, "n" *)
(* a newline, "i" an Include that may load the fragment, "B" the managed   *)
(* block with its newline.                                                 *)
(***************************************************************************)
EXTENDS Naturals, Sequences, SequencesExt

CONSTANTS
    Updates,     \* set_enabled calls that can be under way at once
    MaxEdits,    \* bound: edits of the user
    MaxFaults,   \* bound: failing steps and kills
    MaxPieces,   \* bound: length of the configuration
    None

PersistenceAssumption == {MaxEdits, MaxFaults, MaxPieces} \subseteq Nat

VARIABLES
    config,   \* ~/.ssh/config, or None
    fragment, \* "managed", "other", or None
    update,   \* per update, where it is and what it knows
    before,   \* the text that the last enabling found, or None after an edit
    edits, faults

vars == <<config, fragment, update, before, edits, faults>>

Pieces == {"u", "n", "i", "B"}
Text(c) == IF c = None THEN <<>> ELSE c

LineStart(c, k) == k > 1 => c[k - 1] \in {"n", "B"}

(* The markers are recognised at the start of a line, and only one pair.   *)
LocateManagedBlock(c) ==
    LET places == {k \in DOMAIN c : c[k] = "B"}
    IN  IF places = {} THEN "none"
        ELSE IF \E k \in places : places = {k} /\ LineStart(c, k) THEN "one" ELSE "bad"

FragmentMayBeReferenced(c) == \E k \in DOMAIN c : c[k] = "i" /\ LineStart(c, k)

AppendManagedBlock(c) == (IF c = <<>> THEN c ELSE Append(c, "n")) \o <<"B">>

(* The block goes, and with it the newline before it.                      *)
DrainBlock(c) ==
    LET k == CHOOSE j \in DOMAIN c : c[j] = "B"
        from == IF k > 1 /\ c[k - 1] = "n" THEN k - 1 ELSE k
    IN  SubSeq(c, 1, from - 1) \o SubSeq(c, k + 1, Len(c))

(* inspect_state, for a configuration and a fragment.                      *)
State(c, f) ==
    CASE LocateManagedBlock(c) = "bad" -> "attention"
      [] LocateManagedBlock(c) = "one" ->
            IF f = "managed" /\ ~FragmentMayBeReferenced(DrainBlock(c)) THEN "enabled" ELSE "attention"
      [] OTHER ->
            IF f = None \/ (f = "managed" /\ ~FragmentMayBeReferenced(c)) THEN "disabled" ELSE "attention"

Idle == [at |-> "idle", enable |-> FALSE, orig |-> None, cand |-> <<>>, created |-> FALSE,
         start |-> <<None, None>>, clean |-> TRUE, state |-> "ok"]

Init ==
    /\ config \in {None, <<>>, <<"u">>, <<"u", "n">>}
    /\ fragment \in {None, "managed"}
    /\ update = [t \in Updates |-> Idle]
    /\ before = None /\ edits = 0 /\ faults = 0

-----------------------------------------------------------------------------
At(t, place) == update[t].at = place
Go(t, place) == update' = [update EXCEPT ![t].at = place]
End(t, how) == update' = [update EXCEPT ![t].at = "idle", ![t].state = how]
Files == <<config, fragment>>
Counters == <<before, edits, faults>>

(* set_enabled: nothing to do, a state that needs attention, or a change.  *)
SetEnabled(t, enable) ==
    /\ At(t, "idle")
    /\ State(Text(config), fragment) = (IF enable THEN "disabled" ELSE "enabled")
    /\ update' = [update EXCEPT ![t] = [Idle EXCEPT !.at = "read", !.enable = enable,
                                        !.start = Files, !.state = "busy"]]
    /\ UNCHANGED <<Files, Counters>>

(* enable_files and disable read the configuration again.                  *)
ReadConfig(t) ==
    /\ At(t, "read")
    /\ LET block == LocateManagedBlock(Text(config))
           u == [update[t] EXCEPT !.orig = config]
       IN  IF update[t].enable
           THEN update' = [update EXCEPT ![t] =
                  CASE block = "one" -> [u EXCEPT !.at = "inspect"]
                    [] block = "none" -> [u EXCEPT !.at = "fragment", !.cand = AppendManagedBlock(Text(config))]
                    [] OTHER -> [u EXCEPT !.at = "idle", !.state = "failed"]]
           ELSE update' = [update EXCEPT ![t] =
                  IF config # None /\ block = "one"
                  THEN [u EXCEPT !.at = "compare", !.cand = DrainBlock(config)]
                  ELSE [u EXCEPT !.at = "idle", !.state = "failed"]]
    /\ UNCHANGED <<Files, Counters>>

(* The fragment is taken over if it is the expected one, or created.       *)
Fragment(t) ==
    /\ At(t, "fragment")
    /\ IF fragment = "other" THEN End(t, "failed") /\ UNCHANGED fragment
       ELSE /\ update' = [update EXCEPT ![t].at = "compare", ![t].created = (fragment = None)]
            /\ fragment' = "managed"
    /\ UNCHANGED <<config, Counters>>

(* What a failed replacement of the configuration leads to.                *)
AfterFailure(t) == IF update[t].enable /\ update[t].created THEN "undo" ELSE "failed"

Fail(t) == IF AfterFailure(t) = "undo" THEN Go(t, "undo") ELSE End(t, "failed")

(* atomic_replace: the candidate is written and validated, the file is     *)
(* compared with what was read,                                            *)
Compare(t) ==
    /\ At(t, "compare")
    /\ IF config = update[t].orig THEN Go(t, "rename") ELSE Fail(t)
    /\ UNCHANGED <<Files, Counters>>

(* and the candidate is renamed over it.                                   *)
Rename(t) ==
    /\ At(t, "rename")
    /\ config' = update[t].cand
    /\ before' = IF update[t].enable THEN update[t].orig ELSE before
    /\ Go(t, IF update[t].enable THEN "inspect"
             ELSE IF FragmentMayBeReferenced(update[t].cand) THEN "inspect" ELSE "remove")
    /\ UNCHANGED <<fragment, edits, faults>>

(* Mutant: a fragment that this update created stays behind.               *)
UndoNothing(t) ==
    /\ At(t, "undo") /\ End(t, "failed")
    /\ UNCHANGED <<Files, Counters>>

(* The fragment that this update created goes if it is still the same.     *)
UndoFragment(t) ==
    /\ At(t, "undo")
    /\ fragment' = IF fragment = "managed" THEN None ELSE fragment
    /\ End(t, "failed")
    /\ UNCHANGED <<config, Counters>>

(* disable: the fragment goes too, if it is still the expected one.        *)
RemoveFragment(t) ==
    /\ At(t, "remove")
    /\ IF fragment = "other"
       THEN Go(t, "rollback") /\ UNCHANGED fragment
       ELSE Go(t, "inspect") /\ fragment' = None
    /\ UNCHANGED <<config, Counters>>

(* rollback_config: only over the candidate that this update wrote.        *)
RollbackConfig(t) ==
    /\ At(t, "rollback")
    /\ config' = IF config = update[t].cand THEN update[t].orig ELSE config
    /\ End(t, "failed")
    /\ UNCHANGED <<fragment, Counters>>

(* The state is read once more and has to be the requested one; if it is   *)
(* not, the call ends with the error that the configuration changed.       *)
InspectAgain(t) ==
    /\ At(t, "inspect")
    /\ End(t, IF State(Text(config), fragment) = (IF update[t].enable THEN "enabled" ELSE "disabled")
              THEN "ok" ELSE "changed")
    /\ UNCHANGED <<Files, Counters>>

(* A step fails: a disk error, or OpenSSH rejects the candidate.  When it  *)
(* is the last inspection (a file cannot be read, or ssh -G fails), the    *)
(* state that it reports needs attention, and nothing is taken back.       *)
StepFails(t) ==
    /\ faults < MaxFaults /\ faults' = faults + 1
    /\ \/ update[t].at \in {"read", "fragment"} /\ End(t, "failed")
       \/ At(t, "inspect") /\ End(t, "changed")
       \/ update[t].at \in {"compare", "rename"} /\ Fail(t)
       \/ At(t, "remove") /\ Go(t, "rollback")
       \/ update[t].at \in {"undo", "rollback"}
          /\ update' = [update EXCEPT ![t].at = "idle", ![t].state = "failed", ![t].clean = FALSE]
    /\ UNCHANGED <<Files, before, edits>>

(* The application is killed.                                              *)
Kill(t) ==
    /\ faults < MaxFaults /\ faults' = faults + 1
    /\ ~At(t, "idle") /\ End(t, "killed")
    /\ UNCHANGED <<Files, before, edits>>

(* The user edits the configuration or the fragment.                       *)
EditConfig ==
    /\ edits < MaxEdits /\ edits' = edits + 1
    /\ \E c \in {<<"u", "n">> \o Text(config), Text(config) \o <<"u">>, Text(config) \o <<"i", "n">>} :
          Len(c) <= MaxPieces /\ config' = c
    /\ before' = None
    /\ update' = [t \in Updates |-> [update[t] EXCEPT !.clean = FALSE]]
    /\ UNCHANGED <<fragment, faults>>

EditFragment ==
    /\ edits < MaxEdits /\ edits' = edits + 1
    /\ fragment = "managed" /\ fragment' = "other"
    /\ update' = [t \in Updates |-> [update[t] EXCEPT !.clean = FALSE]]
    /\ UNCHANGED <<config, before, faults>>

Next ==
    \/ EditConfig \/ EditFragment
    \/ \E t \in Updates :
          \/ \E e \in BOOLEAN : SetEnabled(t, e)
          \/ ReadConfig(t) \/ Fragment(t) \/ Compare(t) \/ Rename(t)
          \/ UndoFragment(t) \/ RemoveFragment(t) \/ RollbackConfig(t)
          \/ InspectAgain(t) \/ StepFails(t) \/ Kill(t)

Spec == Init /\ [][Next]_vars

-----------------------------------------------------------------------------
TypeOK ==
    /\ config # None => config \in Seq(Pieces) /\ Len(config) <= MaxPieces + 2
    /\ fragment \in {None, "managed", "other"}
    /\ \A t \in Updates : update[t].at \in {"idle", "read", "fragment", "compare", "rename",
          "undo", "remove", "rollback", "inspect"}
    /\ edits \in 0..MaxEdits /\ faults \in 0..MaxFaults

(* OpenSSH is never told to include a fragment that the application took   *)
(* away: a block in the configuration has its file, at every step and      *)
(* after a kill at any step (the order of enable_files and disable).       *)
NoDangling == (\E k \in DOMAIN Text(config) : Text(config)[k] = "B") => fragment # None

(* A change that nobody disturbed is made whole or not at all, and its     *)
(* error tells which.  With the error that the configuration changed both  *)
(* files have been changed: a last inspection that fails reports it, and   *)
(* so does one that finds an Include of the user that the new fragment     *)
(* matches.  With any other error both files are as they were (the undo of *)
(* the fragment and rollback_config), unless the undo failed as well.      *)
AllOrNothing ==
    \A t \in Updates :
        update[t].clean /\ At(t, "idle") /\ (\A s \in Updates \ {t} : update[s] = Idle) =>
            /\ update[t].state = "failed" => Files = update[t].start
            /\ update[t].state = "changed" =>
                  Files = <<update[t].cand, IF update[t].enable THEN "managed" ELSE None>>

(* Turning the switch off gives back, byte for byte, the text that was     *)
(* there when it was turned on, unless somebody edited it since            *)
(* (append_managed_block, locate_managed_block).                           *)
BytesRestored ==
    \A t \in Updates : (Rename(t) /\ ~update[t].enable /\ before # None /\ update[t].clean)
        => Text(config') = Text(before)

(* A concurrent edit aborts the operation instead of being overwritten     *)
(* (atomic_replace compares before it renames).                            *)
EditsKept == \A t \in Updates : Rename(t) => config = update[t].orig
=============================================================================
