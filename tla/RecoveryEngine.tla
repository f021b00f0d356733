--------------------------- MODULE RecoveryEngine ---------------------------
(***************************************************************************)
(* The early-boot engine (recovery.rs) and the dracut pre-mount hook that  *)
(* runs it.  Every action is one durable step: a subvolume operation with  *)
(* its sync, or one atomic replacement of the pending record.  Power may   *)
(* fail between any two of them, and any of them may fail.                 *)
(***************************************************************************)
EXTENDS RecoveryState

InEngine(step) == machine = "initramfs" /\ pc = step

(* Outcomes of one invocation, as the hook acts on them.                   *)
ContinueBoot == machine' = machine /\ pc' = "handOff"
RequireRestart == machine' = machine /\ pc' = "restart"
(* Mutant: the hook reports the error and lets the boot go on.             *)
DieBootsOn == machine' = "running" /\ pc' = "idle"
Die == machine' = "halted" /\ pc' = "idle"
BootOn == machine' = "running" /\ pc' = "idle"
Proceed(step) == machine' = machine /\ pc' = step

Unmoved == UNCHANGED <<diskVars, switched>>
Elsewhere == UNCHANGED <<bootVars, requested, ledgerVars, passVars, used>>

-----------------------------------------------------------------------------
(* Entry.                                                                  *)

(* Mutant: the boot that reverts is not written down.                      *)
ForgetsRevertBoot == FALSE

(* Without a pending record the hook boots on.  With one, the engine first *)
(* remembers the boot that is about to perform a restart-only revert.      *)
RemembersRevertBoot ==
    /\ RestartsAfterApply(pending)
    /\ \/ pending.phase = "Reverting"
       \/ pending.phase = "Applying" /\ requested = NoTxn
       \/ pending.phase = "BootedUnconfirmed" /\ pending.targetBoot # "this"

HookStart ==
    /\ InEngine("hook")
    /\ \/ /\ pending.id = NoTxn
          /\ BootOn
          /\ UNCHANGED pending
       \/ /\ pending.id # NoTxn
          /\ Proceed("dispatch")
          /\ pending' = IF RemembersRevertBoot
                          THEN [pending EXCEPT !.initramfsBoot = "this"] ELSE pending
    /\ Unmoved /\ Elsewhere

-----------------------------------------------------------------------------
(* Dispatch on the phase of the pending record.                            *)

Leave(outcome) == outcome /\ UNCHANGED pending /\ Unmoved /\ Elsewhere
Write(record) == pending' = record /\ Unmoved /\ Elsewhere

RevertedInThisBoot ==
    /\ pending.phase = "Reverted"
    /\ RestartsAfterApply(pending)
    /\ pending.initramfsBoot = "this"

DispatchReverted ==
    /\ InEngine("dispatch")
    /\ RevertedInThisBoot
    /\ Leave(RequireRestart)

DispatchSettled ==
    /\ InEngine("dispatch")
    /\ pending.phase \in {"Preparing"} \cup Terminal
    /\ ~RevertedInThisBoot
    /\ Leave(ContinueBoot)

DispatchArmedElsewhere ==
    /\ InEngine("dispatch")
    /\ pending.phase = "Armed" /\ requested # pending.id
    /\ IF pending.initramfsAttempts > 0 /\ pending.initramfsBoot # "this"
         THEN Write(RecordFailure(pending)) ELSE Write(pending)
    /\ ContinueBoot

DispatchArmedExhausted ==
    /\ InEngine("dispatch")
    /\ pending.phase = "Armed" /\ requested = pending.id
    /\ pending.initramfsAttempts >= MaxApplyAttempts
    /\ Write(RecordFailure(pending))
    /\ ContinueBoot

(* Mutant: the attempts are counted and never limited.                     *)
MayApplyForEver == requested = pending.id

MayApply ==
    /\ requested = pending.id
    /\ pending.initramfsAttempts < MaxApplyAttempts
    /\ pending.phase = "Applying" => pending.applyAttempts < MaxApplyAttempts

DispatchApply ==
    /\ InEngine("dispatch")
    /\ pending.phase \in {"Armed", "Applying"}
    /\ MayApply
    /\ Write(RecordInitramfsEntry(pending))
    /\ Proceed("validate")

(* Mutant: a hook that runs again takes the applying boot for the target's. *)
DispatchAwaitingAnyBoot ==
    /\ InEngine("dispatch")
    /\ pending.phase = "AppliedAwaitingBoot"
    /\ ContinueBoot /\ Write(RecordTargetBoot(pending))

DispatchAwaiting ==
    /\ InEngine("dispatch")
    /\ pending.phase = "AppliedAwaitingBoot"
    /\ IF pending.applyingBoot = "this" \/ requested # NoTxn
         THEN RequireRestart /\ Write(pending)
         ELSE ContinueBoot /\ Write(RecordTargetBoot(pending))

DispatchBooted ==
    /\ InEngine("dispatch")
    /\ pending.phase = "BootedUnconfirmed"
    /\ ExpectedBoot(pending) = "this"
    /\ Leave(ContinueBoot)

DispatchRevert ==
    /\ InEngine("dispatch")
    /\ \/ pending.phase = "Applying" /\ ~MayApply
       \/ pending.phase = "BootedUnconfirmed" /\ ExpectedBoot(pending) # "this"
    /\ CanTransition(pending.phase, "Reverting")
    /\ Write(Transition(pending, "Reverting"))
    /\ Proceed("revert")

DispatchReverting ==
    /\ InEngine("dispatch")
    /\ pending.phase = "Reverting"
    /\ Leave(Proceed("revert"))

-----------------------------------------------------------------------------
(* Validation of the frozen artifacts and of both snapshots.  Their        *)
(* integrity is the environment's; identity of the live root and nested    *)
(* subvolumes in Home are the model's own.                                 *)

LayoutAcceptable ==
    LET t == pending.id IN
    /\ HomeOnly(Kind[t]) => cur["root"] = pending.base["root"]
    /\ ResetHome(Kind[t]) =>
          \A c \in {cur["home"], old[t]["home"]} \ {Absent} : nested["home"][c] = "none"

ValidateSucceeds ==
    /\ InEngine("validate")
    /\ LayoutAcceptable
    /\ pending.initramfsBoot = "this"
    /\ pending.applyAttempts < MaxApplyAttempts
    /\ Write(BeginApply(pending))
    /\ Proceed("apply")

(* Only an armed transaction records the failure; an interrupted apply     *)
(* keeps its phase, because its subvolumes have still to be put back.      *)
ValidateFails ==
    /\ InEngine("validate")
    /\ Write(IF pending.phase = "Armed" THEN RecordFailure(pending) ELSE pending)
    /\ Die

-----------------------------------------------------------------------------
(* Apply and revert.  Both look only at which of the three names exist.    *)

Shape(s) ==
    <<cur[s] # Absent, old[pending.id][s] # Absent, new[pending.id][s] # Absent>>
Switched(s) == Shape(s) = <<TRUE, TRUE, FALSE>>
Restored(s) == Shape(s) = <<TRUE, FALSE, FALSE>>

(* The slot apply works on: @root before @home.                            *)
Applies(s) ==
    /\ s \in Affected(Kind[pending.id])
    /\ ~Switched(s)
    /\ s = "home" => ("root" \in Affected(Kind[pending.id]) => Switched("root"))

(* The slot revert works on: @home before @root.                           *)
Reverts(s) ==
    /\ s \in Affected(Kind[pending.id])
    /\ ~Restored(s)
    /\ s = "root" => ("home" \in Affected(Kind[pending.id]) => Restored("home"))

Moves(step) ==
    /\ InEngine(step)
    /\ switched' = pending.id
    /\ Proceed(step)
    /\ UNCHANGED pending
    /\ Elsewhere

Put(places, s, c) == [places EXCEPT ![pending.id][s] = c]

ApplySnapshot(s) ==
    /\ Moves("apply") /\ Applies(s)
    /\ Shape(s) = <<TRUE, FALSE, FALSE>>
    /\ new' = Put(new, s, pending.id)
    /\ UNCHANGED <<cur, old, nested>>

ApplyProtect(s) ==
    /\ Moves("apply") /\ Applies(s)
    /\ Shape(s) = <<TRUE, FALSE, TRUE>>
    /\ old' = Put(old, s, cur[s])
    /\ cur' = [cur EXCEPT ![s] = Absent]
    /\ UNCHANGED <<new, nested>>

ApplyActivate(s) ==
    /\ Moves("apply") /\ Applies(s)
    /\ Shape(s) = <<FALSE, TRUE, TRUE>>
    /\ cur' = [cur EXCEPT ![s] = new[pending.id][s]]
    /\ new' = Put(new, s, Absent)
    /\ UNCHANGED <<old, nested>>

(* Mutant: apply is taken to be complete once @root is switched.           *)
FinishApplyRootOnly ==
    /\ InEngine("apply")
    /\ \A s \in Affected(Kind[pending.id]) \cap {"root"} : Switched(s)
    /\ LET next == IF RestartsAfterApply(pending)
                     THEN "AppliedAwaitingBoot" ELSE "BootedUnconfirmed"
       IN  Write(Transition(pending, next))
    /\ IF RestartsAfterApply(pending) THEN RequireRestart ELSE ContinueBoot

FinishApply ==
    /\ InEngine("apply")
    /\ \A s \in Affected(Kind[pending.id]) : Switched(s)
    /\ LET next == IF RestartsAfterApply(pending)
                     THEN "AppliedAwaitingBoot" ELSE "BootedUnconfirmed"
       IN  CanTransition(pending.phase, next) /\ Write(Transition(pending, next))
    /\ IF RestartsAfterApply(pending) THEN RequireRestart ELSE ContinueBoot

(* Mutant: a revert that finds both roots deletes the protected one.       *)
RevertDeletesOld(s) ==
    /\ Moves("revert") /\ Reverts(s)
    /\ Shape(s) = <<TRUE, TRUE, FALSE>>
    /\ old' = Put(old, s, Absent)
    /\ UNCHANGED <<cur, new, nested>>

RevertMoveAside(s) ==
    /\ Moves("revert") /\ Reverts(s)
    /\ Shape(s) = <<TRUE, TRUE, FALSE>>
    /\ new' = Put(new, s, cur[s])
    /\ cur' = [cur EXCEPT ![s] = Absent]
    /\ UNCHANGED <<old, nested>>

(* Whether or not a discarded subvolume lies at the new name.              *)
RevertActivate(s) ==
    /\ Moves("revert") /\ Reverts(s)
    /\ cur[s] = Absent /\ old[pending.id][s] # Absent
    /\ cur' = [cur EXCEPT ![s] = old[pending.id][s]]
    /\ old' = Put(old, s, Absent)
    /\ UNCHANGED <<new, nested>>

(* btrfs subvolume delete refuses a subvolume that contains another one.   *)
RevertDiscard(s) ==
    /\ Moves("revert") /\ Reverts(s)
    /\ Shape(s) = <<TRUE, FALSE, TRUE>>
    /\ nested[s][new[pending.id][s]] = "none"
    /\ new' = Put(new, s, Absent)
    /\ UNCHANGED <<cur, old, nested>>

(* The refusal is an error like any other, but one that every retry meets. *)
RevertRefused(s) ==
    /\ InEngine("revert") /\ Reverts(s)
    /\ Shape(s) = <<TRUE, FALSE, TRUE>>
    /\ nested[s][new[pending.id][s]] # "none"
    /\ Leave(Die)

(* Mutant: the revert is taken to be complete once Home is back.           *)
FinishRevertHomeOnly ==
    /\ InEngine("revert")
    /\ \A s \in Affected(Kind[pending.id]) \cap {"home"} : Restored(s)
    /\ Write(Transition(pending, "Reverted"))
    /\ IF RestartsAfterApply(pending) THEN RequireRestart ELSE ContinueBoot

FinishRevert ==
    /\ InEngine("revert")
    /\ \A s \in Affected(Kind[pending.id]) : Restored(s)
    /\ CanTransition(pending.phase, "Reverted")
    /\ Write(Transition(pending, "Reverted"))
    /\ IF RestartsAfterApply(pending) THEN RequireRestart ELSE ContinueBoot

(* After the engine the hook installs the unit that will reconcile the     *)
(* record, releases the volume and lets the boot go on.                    *)
HandOff ==
    /\ InEngine("handOff")
    /\ Leave(BootOn)

(* Any step that fails ends the invocation with an error, and the hook     *)
(* stops the boot; so does a failure of the hook after the engine, or, if  *)
(* the boot was requested for a rollback, before it knows of a record.     *)
EngineError ==
    /\ machine = "initramfs" /\ pc \in EngineSteps \ {"restart"}
    /\ pending.id # NoTxn \/ requested # NoTxn
    /\ Leave(Die)

Dispatch ==
    \/ DispatchReverted \/ DispatchSettled
    \/ DispatchArmedElsewhere \/ DispatchArmedExhausted \/ DispatchApply
    \/ DispatchAwaiting \/ DispatchBooted \/ DispatchRevert \/ DispatchReverting

Switch ==
    \/ \E s \in Slots : \/ ApplySnapshot(s) \/ ApplyProtect(s) \/ ApplyActivate(s)
                        \/ RevertMoveAside(s) \/ RevertActivate(s) \/ RevertDiscard(s)
                        \/ RevertRefused(s)
    \/ FinishApply
    \/ FinishRevert

EngineProgress == HookStart \/ Dispatch \/ ValidateSucceeds \/ Switch \/ HandOff

EngineNext == EngineProgress \/ ValidateFails \/ EngineError
=============================================================================
