----------------------- MODULE RollbackLifecycleProofs -----------------------
(***************************************************************************)
(* Proofs about RollbackLifecycle, for every set of transactions, every    *)
(* assignment of kinds and protocols to them, any number of boots, and     *)
(* every choice of what the environment may do.                            *)
(*                                                                         *)
(* OriginalPreserved is not inductive: that an interrupted apply can be    *)
(* undone depends on which of its four places every slot is in, that on    *)
(* the phase of the record, and the phase on the step that is running.     *)
(* Inductive says all of this together.  The proof has one lemma for each  *)
(* part of the system, with one step for each of its actions.              *)
(***************************************************************************)
EXTENDS RollbackLifecycle, TLAPS

(* The initial state has no record and a root and a Home from the          *)
(* installer.                                                              *)
LEMMA InitInductive == Init => Inductive
  <1> SUFFICES ASSUME Init PROVE Inductive
    OBVIOUS
  <1>1. TypeOK
    <2>1. pending \in Transactions /\ pending.id = NoTxn /\ pending.phase = NoPhase
      BY TxnAssumption
      DEF Init, NoTransaction, Transactions, Subvols, BootAges, MaxApplyAttempts
    <2>2. NoTxn \in Txns \cup {NoTxn} /\ Installed \in Subvols /\ Absent \in Contents
      BY DEF Subvols, Contents
    <2> QED
      BY <2>1, <2>2 DEF Init, TypeOK, Subvols, Contents, Steps
  <1>2. ControlOK
    BY DEF Init, ControlOK
  <1>3. LayoutOK /\ FreshOK
    BY TxnAssumption DEF Init, LayoutOK, FreshOK, NoTransaction, Subvols
  <1>4. CleanupOK
    BY DEF Init, CleanupOK
  <1> QED
    BY <1>1, <1>2, <1>3, <1>4 DEF Inductive

-----------------------------------------------------------------------------
(* Frames.                                                                 *)

(* A step that leaves the record and the subvolumes alone keeps them in    *)
(* agreement.                                                              *)
LEMMA SameLayout ==
  ASSUME LayoutOK, FreshOK, UNCHANGED <<pending, cur, old, new, used>>
  PROVE  LayoutOK' /\ FreshOK'
  BY DEF LayoutOK, SlotOK, Lies, Untouched, Staged, Between, Replaced, FreshOK

(* A step that only rewrites the record keeps them in agreement if the     *)
(* phase it writes asks no more of the subvolumes than the one it found.   *)
LEMMA SameSubvolumes ==
  ASSUME LayoutOK, FreshOK,
         pending.id # NoTxn, pending'.id = pending.id, pending'.base = pending.base,
         UNCHANGED <<cur, old, new, used>>,
         \/ pending'.phase = pending.phase
         \/ /\ pending.phase \in {"Preparing", "Armed"}
            /\ pending'.phase \in {"Armed", "Applying", "Failed"}
         \/ /\ pending.phase \in {"Applying", "Reverting"}
            /\ pending'.phase \in {"Applying", "Reverting"}
         \/ /\ pending.phase \in {"AppliedAwaitingBoot", "BootedUnconfirmed"}
            /\ pending'.phase \in {"BootedUnconfirmed", "Reverting", "Confirmed"}
  PROVE  LayoutOK' /\ FreshOK'
  <1>1. LayoutOK'
    <2> SUFFICES ASSUME NEW s \in Slots PROVE SlotOK(s)'
      BY DEF LayoutOK
    <2>1. SlotOK(s)
      BY DEF LayoutOK
    <2> QED
      BY <2>1 DEF SlotOK, Lies, Untouched, Staged, Between, Replaced
  <1>2. FreshOK'
    BY DEF FreshOK
  <1> QED
    BY <1>1, <1>2

(* A step that neither changes the record nor marks a subvolume for        *)
(* deletion deletes only what was marked before.                           *)
LEMMA SameCleanup ==
  ASSUME CleanupOK, UNCHANGED used,
         pending'.id = pending.id,
         pending.phase = "Confirmed" => pending'.phase = "Confirmed",
         cleanupPending' \cup todo' \subseteq cleanupPending \cup todo
  PROVE  CleanupOK'
  BY DEF CleanupOK

-----------------------------------------------------------------------------
(* Power, firmware and GRUB move neither the record's phase nor a          *)
(* subvolume; a power cycle ages the boot ids the record remembers.        *)
LEMMA BootInductive == ASSUME Inductive, BootNext PROVE Inductive'
  <1> USE DEF diskVars, bootVars, ledgerVars, passVars
  <1>1. ASSUME GoDown PROVE Inductive'
    <2>1. /\ pending' \in Transactions
          /\ pending'.id = pending.id /\ pending'.base = pending.base
          /\ pending'.phase = pending.phase
      BY <1>1 DEF Inductive, TypeOK, Transactions, GoDown, AfterPowerCycle, Aged, BootAges
    <2>2. TypeOK' /\ ControlOK'
      BY <1>1, <2>1 DEF Inductive, TypeOK, ControlOK, GoDown, Steps
    <2>3. LayoutOK' /\ FreshOK'
      <3>1. CASE pending.id = NoTxn
        BY <1>1, <2>1, <3>1 DEF Inductive, LayoutOK, FreshOK, GoDown
      <3>2. CASE pending.id # NoTxn
        BY <1>1, <2>1, <3>2, SameSubvolumes DEF Inductive, GoDown
      <3> QED
        BY <3>1, <3>2
    <2>4. CleanupOK'
      BY <1>1, <2>1, SameCleanup DEF Inductive, GoDown
    <2> QED
      BY <2>2, <2>3, <2>4 DEF Inductive
  <1>2. ASSUME UNCHANGED <<pending, diskVars, grubEntry, ledgerVars, passVars, used, switched>>,
               nextEntry' \in Txns \cup {NoTxn}, requested' \in Txns \cup {NoTxn},
               machine' \in {"initramfs", "halted", "running"}, pc' \in {"hook", "idle"}
        PROVE  Inductive'
    <2>1. TypeOK' /\ ControlOK'
      BY <1>2 DEF Inductive, TypeOK, ControlOK, Steps, EngineSteps
    <2>2. LayoutOK' /\ FreshOK' /\ CleanupOK'
      BY <1>2, SameLayout, SameCleanup DEF Inductive
    <2> QED
      BY <2>1, <2>2 DEF Inductive
  <1>3. CASE \E entry \in Txns \cup {NoTxn} : PowerOn(entry)
    BY <1>2, <1>3 DEF PowerOn, GrubSelects
  <1>4. CASE RescueBoot
    BY <1>2, <1>4 DEF RescueBoot, Inductive, TypeOK
  <1>5. CASE HookSkipped
    BY <1>2, <1>5 DEF HookSkipped, Goto, Inductive, TypeOK
  <1>6. CASE RestartFails
    BY <1>2, <1>6 DEF RestartFails, Goto, Inductive, TypeOK
  <1>7. CASE HookAgain
    BY <1>2, <1>7 DEF HookAgain, Inductive, TypeOK
  <1> QED
    BY <1>1, <1>3, <1>4, <1>5, <1>6, <1>7 DEF BootNext, PowerLoss, OperatorReboot, Restart

-----------------------------------------------------------------------------
(* The engine.                                                             *)

(* A step that decides what to do, and at most rewrites the record.        *)
LEMMA RecordStep ==
  ASSUME Inductive, Unmoved, Elsewhere,
         pending' \in Transactions, pending.id # NoTxn,
         pending'.id = pending.id, pending'.base = pending.base,
         pending'.phase \in Phases,
         \/ pending'.phase = pending.phase
         \/ /\ pending.phase = "Armed"
            /\ pending'.phase \in {"Applying", "Failed"}
         \/ /\ pending.phase = "Applying"
            /\ pending'.phase = "Reverting"
         \/ /\ pending.phase \in {"AppliedAwaitingBoot", "BootedUnconfirmed"}
            /\ pending'.phase \in {"BootedUnconfirmed", "Reverting"},
         machine' \in {"initramfs", "halted", "running"},
         pc' \in {"idle", "restart", "handOff", "dispatch", "validate", "apply", "revert"},
         pc' = "validate" => pending'.phase \in {"Armed", "Applying"},
         pc' = "apply" => pending'.phase = "Applying",
         pc' = "revert" => pending'.phase = "Reverting"
  PROVE  Inductive'
  <1> USE DEF Unmoved, Elsewhere, diskVars, bootVars, ledgerVars, passVars
  <1>1. TypeOK'
    BY TxnAssumption DEF Inductive, TypeOK, Steps, EngineSteps, Phases, NoPhase
  <1>2. ControlOK'
    BY DEF ControlOK
  <1>3. LayoutOK' /\ FreshOK'
    BY SameSubvolumes DEF Inductive
  <1>4. CleanupOK'
    BY SameCleanup DEF Inductive
  <1> QED
    BY <1>1, <1>2, <1>3, <1>4 DEF Inductive

(* One step of apply or revert takes a slot from one of its four places to *)
(* the next, in either direction.                                          *)
LEMMA MoveStep ==
  ASSUME Inductive, NEW s \in Slots, NEW step \in {"apply", "revert"},
         Moves(step), s \in Affected(Kind[pending.id]),
         UNCHANGED nested,
         NEW c \in Contents, NEW o \in Contents, NEW n \in Contents,
         cur' = [cur EXCEPT ![s] = c], old' = Put(old, s, o), new' = Put(new, s, n),
         \/ c = pending.base[s] /\ o = Absent /\ n \in {Absent, pending.id}
         \/ c = Absent /\ o = pending.base[s] /\ n = pending.id
         \/ c = pending.id /\ o = pending.base[s] /\ n = Absent
  PROVE  Inductive'
  <1> USE DEF Moves, InEngine, Proceed, Elsewhere, Put, bootVars, ledgerVars, passVars
  <1>1. /\ pending.phase \in {"Applying", "Reverting"}
        /\ pending.id \in Txns /\ pending.id \in used
        /\ pending.base[s] \in Subvols
    BY DEF Inductive, TypeOK, ControlOK, FreshOK, Transactions, NoPhase
  <1>2. TypeOK'
    BY <1>1 DEF Inductive, TypeOK, Transactions
  <1>3. ControlOK'
    BY DEF Inductive, ControlOK
  <1>4. LayoutOK'
    <2> SUFFICES ASSUME NEW r \in Slots PROVE SlotOK(r)'
      BY <1>1, TxnAssumption DEF LayoutOK
    <2>1. SlotOK(r)
      BY <1>1, TxnAssumption DEF Inductive, LayoutOK
    <2>2. CASE r = s
      <3>1. Lies(s, c, o, n)'
        BY <1>1 DEF Lies, Inductive, TypeOK
      <3>2. Untouched(s)' \/ Staged(s)' \/ Between(s)' \/ Replaced(s)'
        BY <3>1 DEF Lies, Untouched, Staged, Between, Replaced
      <3> QED
        BY <1>1, <2>1, <2>2, <3>2 DEF SlotOK
    <2>3. CASE r # s
      <3>1. /\ cur'[r] = cur[r] /\ old'[pending.id][r] = old[pending.id][r]
            /\ new'[pending.id][r] = new[pending.id][r]
        BY <1>1, <2>3 DEF Inductive, TypeOK
      <3> QED
        BY <2>1, <3>1 DEF SlotOK, Lies, Untouched, Staged, Between, Replaced
    <2> QED
      BY <2>2, <2>3
  <1>5. FreshOK'
    <2> SUFFICES ASSUME NEW t \in Txns \ used, NEW r \in Slots
                 PROVE  /\ old'[t][r] = Absent /\ new'[t][r] = Absent
                        /\ cur'[r] # t
      BY <1>1 DEF Inductive, FreshOK
    <2>1. t # pending.id /\ old'[t] = old[t] /\ new'[t] = new[t]
      BY <1>1 DEF Inductive, TypeOK
    <2>2. cur'[r] \in {cur[r], pending.base[r], pending.id, Absent}
      BY <1>1 DEF Inductive, TypeOK
    <2> QED
      BY <1>1, <2>1, <2>2, TxnAssumption DEF Inductive, FreshOK, Subvols
  <1>6. CleanupOK'
    BY SameCleanup DEF Inductive
  <1> QED
    BY <1>2, <1>3, <1>4, <1>5, <1>6 DEF Inductive

(* Every engine action decides on the record, or moves one slot, or        *)
(* records that all slots have arrived.                                    *)
LEMMA EngineInductive == ASSUME Inductive, EngineNext PROVE Inductive'
  <1> USE DEF Leave, Write, InEngine, ContinueBoot, RequireRestart, Die, BootOn,
             Proceed
  <1>1. /\ pending \in Transactions
        /\ pending.phase # NoPhase <=> pending.id # NoTxn
        /\ pending.phase # NoPhase => pending.phase \in Phases /\ pending.id \in Txns
    BY TxnAssumption DEF Inductive, TypeOK, Transactions
  <1>2. CASE HookStart
    <2>1. CASE pending.id = NoTxn
      <3>1. TypeOK' /\ ControlOK' /\ CleanupOK'
        BY <1>1, <1>2, <2>1, SameCleanup
        DEF HookStart, Inductive, TypeOK, ControlOK, Steps, Unmoved, Elsewhere, diskVars,
            bootVars, ledgerVars, passVars
      <3>2. LayoutOK' /\ FreshOK'
        BY <1>2, <2>1, SameLayout
        DEF HookStart, Inductive, Unmoved, Elsewhere, diskVars
      <3> QED
        BY <3>1, <3>2 DEF Inductive
    <2>2. CASE pending.id # NoTxn
      <3>1. /\ pending' \in Transactions
            /\ pending'.id = pending.id /\ pending'.base = pending.base
            /\ pending'.phase = pending.phase
        <4>1. pending' \in {pending, [pending EXCEPT !.initramfsBoot = "this"]}
          BY <1>2, <2>2 DEF HookStart
        <4> QED
          BY <1>1, <4>1 DEF Transactions, BootAges
      <3> QED
        BY <1>1, <1>2, <2>2, <3>1, RecordStep DEF HookStart
    <2> QED
      BY <2>1, <2>2
  <1>3. CASE DispatchReverted \/ DispatchSettled \/ DispatchBooted
    BY <1>1, <1>3, RecordStep
    DEF DispatchReverted, DispatchSettled, DispatchBooted, RevertedInThisBoot, Inductive,
        ControlOK, Phases, NoPhase
  <1>4. CASE DispatchArmedElsewhere \/ DispatchArmedExhausted
    <2>1. pending' \in {pending, RecordFailure(pending)} /\ pending.phase = "Armed"
      BY <1>4 DEF DispatchArmedElsewhere, DispatchArmedExhausted
    <2>2. /\ pending' \in Transactions
          /\ pending'.id = pending.id /\ pending'.base = pending.base
          /\ pending'.phase \in {"Armed", "Failed"}
      BY <1>1, <2>1 DEF RecordFailure, Transactions, Phases
    <2> QED
      BY <1>1, <1>4, <2>1, <2>2, RecordStep
      DEF DispatchArmedElsewhere, DispatchArmedExhausted, Phases, NoPhase
  <1>5. CASE DispatchApply
    <2>1. /\ pending' \in Transactions
          /\ pending'.id = pending.id /\ pending'.base = pending.base
          /\ pending'.phase = pending.phase
      <3>1. pending.initramfsAttempts + 1 \in 0 .. MaxApplyAttempts
        BY <1>1, <1>5 DEF DispatchApply, MayApply, Transactions, MaxApplyAttempts
      <3>2. pending' = [pending EXCEPT !.initramfsAttempts = pending.initramfsAttempts + 1,
                                       !.initramfsBoot = "this"]
        BY <1>1, <1>5 DEF DispatchApply, RecordInitramfsEntry, Transactions
      <3> QED
        BY <1>1, <3>1, <3>2 DEF Transactions, BootAges
    <2> QED
      BY <1>1, <1>5, <2>1, RecordStep DEF DispatchApply, Phases, NoPhase
  <1>6. CASE DispatchAwaiting
    <2>1. pending' \in {pending, RecordTargetBoot(pending)}
      BY <1>6 DEF DispatchAwaiting
    <2>2. /\ pending' \in Transactions
          /\ pending'.id = pending.id /\ pending'.base = pending.base
          /\ pending'.phase \in {pending.phase, "BootedUnconfirmed"}
      BY <1>1, <2>1 DEF RecordTargetBoot, Transactions, Phases, BootAges
    <2>3. /\ pending.phase = "AppliedAwaitingBoot"
          /\ Unmoved /\ Elsewhere
          /\ \/ machine' = machine /\ pc' = "restart"
             \/ machine' = machine /\ pc' = "handOff"
      BY <1>6 DEF DispatchAwaiting
    <2> QED
      BY <1>1, <1>6, <2>2, <2>3, RecordStep DEF DispatchAwaiting, Phases, NoPhase
  <1>7. CASE DispatchRevert
    <2>1. /\ pending' \in Transactions
          /\ pending'.id = pending.id /\ pending'.base = pending.base
          /\ pending'.phase = "Reverting"
      BY <1>1, <1>7 DEF DispatchRevert, Transition, Transactions, Phases
    <2> QED
      BY <1>1, <1>7, <2>1, RecordStep DEF DispatchRevert, Phases, NoPhase
  <1>8. CASE DispatchReverting
    BY <1>1, <1>8, RecordStep DEF DispatchReverting, Phases, NoPhase
  <1>9. CASE ValidateSucceeds
    <2>1. pending.phase \in {"Armed", "Applying"}
      BY <1>9 DEF ValidateSucceeds, Inductive, ControlOK
    <2>2. /\ pending' \in Transactions
          /\ pending'.id = pending.id /\ pending'.base = pending.base
          /\ pending'.phase = "Applying"
      <3>1. pending.applyAttempts + 1 \in 0 .. MaxApplyAttempts
        BY <1>1, <1>9 DEF ValidateSucceeds, Transactions, MaxApplyAttempts
      <3>2. pending' = [pending EXCEPT !.phase = "Applying",
                                       !.applyAttempts = pending.applyAttempts + 1,
                                       !.applyingBoot = "this"]
        BY <1>1, <1>9 DEF ValidateSucceeds, BeginApply, Transactions
      <3> QED
        BY <1>1, <3>1, <3>2 DEF Transactions, Phases, BootAges
    <2> QED
      BY <1>1, <1>9, <2>1, <2>2, RecordStep DEF ValidateSucceeds, Phases, NoPhase
  <1>10. CASE ValidateFails
    <2>1. /\ pending.phase \in {"Armed", "Applying"}
          /\ \/ pending' = pending
             \/ pending.phase = "Armed" /\ pending' = RecordFailure(pending)
      BY <1>10 DEF ValidateFails, Inductive, ControlOK
    <2>2. /\ pending' \in Transactions
          /\ pending'.id = pending.id /\ pending'.base = pending.base
          /\ \/ pending'.phase = pending.phase
             \/ pending.phase = "Armed" /\ pending'.phase = "Failed"
      BY <1>1, <2>1 DEF RecordFailure, Transactions, Phases
    <2> QED
      BY <1>1, <1>10, <2>1, <2>2, RecordStep DEF ValidateFails, Phases, NoPhase
  <1>11. CASE EngineError \/ HandOff \/ \E s \in Slots : RevertRefused(s)
    <2>1. CASE pending.id # NoTxn
      BY <1>1, <1>11, <2>1, RecordStep DEF EngineError, HandOff, RevertRefused
    <2>2. CASE pending.id = NoTxn
      <3>1. TypeOK' /\ ControlOK' /\ CleanupOK'
        BY <1>1, <1>11, <2>2, SameCleanup
        DEF EngineError, HandOff, RevertRefused, Inductive, TypeOK, ControlOK, Steps, Unmoved,
            Elsewhere, diskVars, bootVars, ledgerVars, passVars
      <3>2. LayoutOK' /\ FreshOK'
        BY <1>11, SameLayout
        DEF EngineError, HandOff, RevertRefused, Inductive, Unmoved, Elsewhere, diskVars
      <3> QED
        BY <3>1, <3>2 DEF Inductive
    <2> QED
      BY <2>1, <2>2
  <1>12. ASSUME NEW s \in Slots,
                \/ ApplySnapshot(s) \/ ApplyProtect(s) \/ ApplyActivate(s)
                \/ RevertMoveAside(s) \/ RevertActivate(s) \/ RevertDiscard(s)
         PROVE  Inductive'
    <2>1. PICK step \in {"apply", "revert"} : Moves(step)
      BY <1>12 DEF ApplySnapshot, ApplyProtect, ApplyActivate, RevertMoveAside,
                   RevertActivate, RevertDiscard
    <2>2. /\ s \in Affected(Kind[pending.id])
          /\ pending.id \in Txns
          /\ pending.phase \in {"Applying", "Reverting"}
          /\ pending.base[s] \in Subvols
      BY <1>1, <1>12, <2>1
      DEF ApplySnapshot, ApplyProtect, ApplyActivate, RevertMoveAside, RevertActivate,
          RevertDiscard, Applies, Reverts, Moves, Inductive, ControlOK, NoPhase, Transactions
    <2>3. Untouched(s) \/ Staged(s) \/ Between(s) \/ Replaced(s)
      BY <1>1, <2>2, TxnAssumption DEF Inductive, LayoutOK, SlotOK
    <2>4. /\ cur = [cur EXCEPT ![s] = cur[s]]
          /\ old = Put(old, s, old[pending.id][s])
          /\ new = Put(new, s, new[pending.id][s])
      BY <2>2 DEF Inductive, TypeOK, Put
    <2>5. /\ pending.base[s] \in Contents /\ pending.id \in Contents /\ Absent \in Contents
          /\ pending.base[s] # Absent /\ pending.id # Absent
      BY <2>2, TxnAssumption DEF Contents, Subvols
    <2>6. CASE ApplySnapshot(s)
      BY <2>1, <2>2, <2>3, <2>4, <2>5, <2>6, MoveStep
      DEF ApplySnapshot, Shape, Lies, Untouched, Staged, Between, Replaced
    <2>7. CASE ApplyProtect(s)
      BY <2>1, <2>2, <2>3, <2>4, <2>5, <2>7, MoveStep
      DEF ApplyProtect, Shape, Lies, Untouched, Staged, Between, Replaced
    <2>8. CASE ApplyActivate(s)
      BY <2>1, <2>2, <2>3, <2>4, <2>5, <2>8, MoveStep
      DEF ApplyActivate, Shape, Lies, Untouched, Staged, Between, Replaced
    <2>9. CASE RevertMoveAside(s)
      BY <2>1, <2>2, <2>3, <2>4, <2>5, <2>9, MoveStep
      DEF RevertMoveAside, Shape, Lies, Untouched, Staged, Between, Replaced
    <2>10. CASE RevertActivate(s)
      BY <2>1, <2>2, <2>3, <2>4, <2>5, <2>10, MoveStep
      DEF RevertActivate, Lies, Untouched, Staged, Between, Replaced
    <2>11. CASE RevertDiscard(s)
      BY <2>1, <2>2, <2>3, <2>4, <2>5, <2>11, MoveStep
      DEF RevertDiscard, Shape, Lies, Untouched, Staged, Between, Replaced
    <2> QED
      BY <1>12, <2>6, <2>7, <2>8, <2>9, <2>10, <2>11
  <1>13. ASSUME FinishApply \/ FinishRevert PROVE Inductive'
    <2>1. /\ \/ pending' = Transition(pending, "AppliedAwaitingBoot")
             \/ pending' = Transition(pending, "BootedUnconfirmed")
             \/ pending' = Transition(pending, "Reverted")
          /\ pending.phase \in {"Applying", "Reverting"}
          /\ Unmoved /\ Elsewhere
          /\ machine' = "initramfs" /\ pc' \in {"restart", "handOff"}
      BY <1>13 DEF FinishApply, FinishRevert, Inductive, ControlOK
    <2>2. /\ pending' \in Transactions
          /\ pending'.id = pending.id /\ pending'.base = pending.base
          /\ pending'.phase \in {"AppliedAwaitingBoot", "BootedUnconfirmed", "Reverted"}
      BY <1>1, <2>1 DEF Transition, Transactions, Phases
    <2>3. pending.id \in Txns
      BY <1>1, <2>1 DEF NoPhase
    <2>4. TypeOK' /\ ControlOK' /\ CleanupOK'
      BY <2>1, <2>2, <2>3, SameCleanup, TxnAssumption
      DEF Inductive, TypeOK, ControlOK, Steps, EngineSteps, NoPhase, Unmoved, Elsewhere,
          diskVars, bootVars, ledgerVars, passVars
    <2>5. FreshOK'
      BY <2>1, <2>2 DEF Inductive, FreshOK, Unmoved, Elsewhere, diskVars
    <2>6. LayoutOK'
      <3> SUFFICES ASSUME NEW s \in Slots PROVE SlotOK(s)'
        BY <2>2, <2>3, TxnAssumption DEF LayoutOK
      <3>1. SlotOK(s) /\ pending.base[s] # Absent /\ pending.id # Absent
        BY <1>1, <2>3, TxnAssumption DEF Inductive, LayoutOK, Transactions, Subvols
      <3>2. CASE FinishApply
        <4>1. pending'.phase \in {"AppliedAwaitingBoot", "BootedUnconfirmed"}
          BY <1>1, <3>2 DEF FinishApply, Transition, Transactions
        <4>2. pending.phase = "Applying"
          BY <3>2 DEF FinishApply, Inductive, ControlOK
        <4>3. s \in Affected(Kind[pending.id]) => Replaced(s)
          BY <3>1, <3>2, <4>2
          DEF FinishApply, Switched, Shape, SlotOK, Lies, Untouched, Staged, Between, Replaced
        <4> QED
          BY <2>1, <2>2, <3>1, <4>1, <4>3
          DEF SlotOK, Lies, Untouched, Replaced, Unmoved, diskVars
      <3>3. CASE FinishRevert
        <4>1. pending'.phase = "Reverted"
          BY <1>1, <3>3 DEF FinishRevert, Transition, Transactions
        <4>2. pending.phase = "Reverting"
          BY <3>3 DEF FinishRevert, Inductive, ControlOK
        <4>3. Untouched(s)
          BY <3>1, <3>3, <4>2
          DEF FinishRevert, Restored, Shape, SlotOK, Lies, Untouched, Staged, Between, Replaced
        <4> QED
          BY <2>1, <2>2, <3>1, <4>1, <4>3
          DEF SlotOK, Lies, Untouched, Unmoved, diskVars
      <3> QED
        BY <1>13, <3>2, <3>3
    <2> QED
      BY <2>4, <2>5, <2>6 DEF Inductive
  <1> QED
    BY <1>2, <1>3, <1>4, <1>5, <1>6, <1>7, <1>8, <1>9, <1>10, <1>11, <1>12, <1>13
    DEF EngineNext, EngineProgress, Dispatch, Switch

-----------------------------------------------------------------------------
(* Userspace.                                                              *)

(* A step that works on the boot menu, the ledgers or the control state of *)
(* an operation, and marks at most a confirmed rollback's own subvolumes.  *)
LEMMA LedgerStep ==
  ASSUME Inductive, UNCHANGED <<pending, cur, old, new, used>>,
         TypeOK', ControlOK',
         cleanupPending' \cup todo' \subseteq
            cleanupPending \cup todo \cup
            (IF pending.phase = "Confirmed" THEN {pending.id} ELSE {})
  PROVE  Inductive'
  <1>1. LayoutOK' /\ FreshOK'
    BY SameLayout DEF Inductive
  <1>2. CleanupOK'
    BY TxnAssumption DEF Inductive, CleanupOK, FreshOK, TypeOK, NoPhase
  <1> QED
    BY <1>1, <1>2 DEF Inductive

(* Removing the record is safe once the subvolumes are where they stay.    *)
LEMMA RemoveStep ==
  ASSUME Inductive, RemoveTransaction, UNCHANGED <<cur, old, new, used>>,
         UNCHANGED <<cleanupPending, todo>>,
         pending.phase \in {"Preparing", "Armed"} \cup Terminal
  PROVE  LayoutOK' /\ FreshOK' /\ CleanupOK'
  <1>1. pending'.id = NoTxn /\ pending'.base = [s \in Slots |-> Installed]
    BY DEF RemoveTransaction, NoTransaction
  <1>2. pending.id \in Txns
    BY DEF Inductive, TypeOK, Transactions, Terminal, NoPhase
  <1>3. LayoutOK'
    <2> SUFFICES ASSUME NEW s \in Slots PROVE cur[s] # Absent
      BY <1>1 DEF LayoutOK
    <2>1. SlotOK(s) /\ pending.base[s] \in Subvols
      BY <1>2, TxnAssumption DEF Inductive, LayoutOK, TypeOK, Transactions
    <2> QED
      BY <1>2, <2>1, TxnAssumption DEF SlotOK, Untouched, Lies, Terminal, Subvols
  <1>4. FreshOK'
    BY <1>1, TxnAssumption DEF Inductive, FreshOK
  <1>5. CleanupOK'
    BY <1>1, TxnAssumption DEF Inductive, CleanupOK, TypeOK
  <1> QED
    BY <1>3, <1>4, <1>5

(* Scheduling creates a record for an unused id that remembers the mounted *)
(* subvolumes; cancelling or failing removes one that early boot has not   *)
(* touched.                                                                *)
LEMMA CoordinatorInductive == ASSUME Inductive, CoordinatorNext PROVE Inductive'
  <1> USE DEF UserspaceStep, Goto, diskVars, bootVars, hostVars, ledgerVars, passVars
  <1>1. /\ pending \in Transactions
        /\ pending.phase # NoPhase <=> pending.id # NoTxn
        /\ pending.phase # NoPhase => pending.phase \in Phases /\ pending.id \in Txns
    BY TxnAssumption DEF Inductive, TypeOK, Transactions
  <1>2. ASSUME NEW t \in Txns, ScheduleCreate(t) PROVE Inductive'
    <2>1. pending.id = NoTxn /\ \A s \in Slots : cur[s] \in Subvols
      BY <1>2 DEF ScheduleCreate, ValidateReady, NoTransaction, Inductive, TypeOK,
                    LayoutOK, Contents
    <2>2. /\ pending' \in Transactions
          /\ pending'.id = t /\ pending'.phase = "Preparing" /\ pending'.base = cur
      BY <1>2, <2>1
      DEF ScheduleCreate, ValidateReady, CreateTransaction, NewTransaction, NoTransaction,
          Transactions, Phases, BootAges, MaxApplyAttempts, Inductive, TypeOK
    <2>3. TypeOK' /\ ControlOK'
      BY <1>2, <2>1, <2>2, TxnAssumption
      DEF ScheduleCreate, CreateTransaction, Inductive, TypeOK, ControlOK, Steps,
          ScheduleSteps, NoPhase, Slots
    <2>4. LayoutOK'
      BY <1>2, <2>1, <2>2, TxnAssumption
      DEF ScheduleCreate, CreateTransaction, Inductive, FreshOK, LayoutOK, SlotOK,
          Untouched, Lies
    <2>5. FreshOK' /\ CleanupOK'
      BY <1>2, <2>2 DEF ScheduleCreate, CreateTransaction, Inductive, FreshOK, CleanupOK
    <2> QED
      BY <2>3, <2>4, <2>5 DEF Inductive
  <1>3. CASE ScheduleGrub \/ FailedScheduleGrub \/ CancelGrub
    <2>1. grubEntry' \in [Subvols -> Txns \cup {NoTxn}]
      BY <1>1, <1>3
      DEF ScheduleGrub, FailedScheduleGrub, CancelGrub, RegenerateGrub, Inductive, TypeOK,
          Transactions
    <2>2. TypeOK' /\ ControlOK'
      BY <1>3, <2>1
      DEF ScheduleGrub, FailedScheduleGrub, CancelGrub, Inductive, TypeOK, ControlOK,
          Steps, ScheduleSteps
    <2> QED
      BY <1>3, <2>2, LedgerStep DEF ScheduleGrub, FailedScheduleGrub, CancelGrub
  <1>4. CASE ScheduleArm
    <2>1. /\ pending.phase = "Preparing"
          /\ pending' \in Transactions
          /\ pending'.id = pending.id /\ pending'.base = pending.base
          /\ pending'.phase = "Armed"
      BY <1>1, <1>4 DEF ScheduleArm, Transition, Transactions, Phases, Inductive, ControlOK
    <2>2. TypeOK' /\ ControlOK'
      BY <1>1, <1>4, <2>1
      DEF ScheduleArm, Inductive, TypeOK, ControlOK, Steps, ScheduleSteps, NoPhase
    <2>3. LayoutOK' /\ FreshOK' /\ CleanupOK'
      BY <1>1, <1>4, <2>1, SameSubvolumes, SameCleanup DEF ScheduleArm, Inductive, NoPhase
    <2> QED
      BY <2>2, <2>3 DEF Inductive
  <1>5. CASE ScheduleOnce \/ ScheduleFails \/ FailedScheduleClear \/ CancelClear \/ CancelFails
    <2>1. nextEntry' \in Txns \cup {NoTxn}
      BY <1>1, <1>5
      DEF ScheduleOnce, ScheduleFails, FailedScheduleClear, CancelClear, CancelFails,
          ClearOnce, Inductive, TypeOK, Transactions
    <2>2. TypeOK' /\ ControlOK'
      BY <1>1, <1>5, <2>1
      DEF ScheduleOnce, ScheduleFails, FailedScheduleClear, CancelClear, CancelFails,
          Inductive, TypeOK, ControlOK, Steps, ScheduleSteps, CancelSteps
    <2> QED
      BY <1>5, <2>2, LedgerStep
      DEF ScheduleOnce, ScheduleFails, FailedScheduleClear, CancelClear, CancelFails
  <1>6. CASE FailedScheduleRemove \/ CancelRemove
    <2>1. pending.phase \in {"Preparing", "Armed"}
      BY <1>6 DEF FailedScheduleRemove, CancelRemove, Inductive, ControlOK
    <2>2. CASE RemoveTransaction
      <3>1. pending' \in Transactions /\ pending'.id = NoTxn /\ pending'.phase = NoPhase
        BY <2>2, TxnAssumption
        DEF RemoveTransaction, NoTransaction, Transactions, Subvols, BootAges, MaxApplyAttempts
      <3>2. TypeOK' /\ ControlOK'
        BY <1>6, <3>1
        DEF FailedScheduleRemove, CancelRemove, Inductive, TypeOK, ControlOK, Steps,
            ScheduleSteps, CancelSteps
      <3> QED
        BY <1>6, <2>1, <2>2, <3>2, RemoveStep DEF FailedScheduleRemove, CancelRemove, Inductive
    <2>3. CASE UNCHANGED pending
      <3>1. TypeOK' /\ ControlOK'
        BY <1>6, <2>1, <2>3, TxnAssumption
        DEF FailedScheduleRemove, CancelRemove, RemoveTransaction, NoTransaction, Inductive,
            TypeOK, ControlOK, Steps, ScheduleSteps, CancelSteps, NoPhase
      <3> QED
        BY <1>6, <2>3, <3>1, LedgerStep DEF FailedScheduleRemove, CancelRemove
    <2> QED
      BY <1>6, <2>2, <2>3 DEF FailedScheduleRemove, CancelRemove
  <1> QED
    BY <1>2, <1>3, <1>4, <1>5, <1>6 DEF CoordinatorNext, Schedule, Cancel

(* The confirmation service settles a record that it found in a final      *)
(* phase or confirmed itself, and deletes only what confirmed rollbacks    *)
(* have left behind.                                                       *)
LEMMA ConfirmationInductive == ASSUME Inductive, ConfirmationNext PROVE Inductive'
  <1> USE DEF UserspaceStep, Goto, diskVars, bootVars, hostVars, ledgerVars, passVars
  <1>1. /\ pending \in Transactions
        /\ pending.phase # NoPhase <=> pending.id # NoTxn
        /\ pending.phase # NoPhase => pending.phase \in Phases /\ pending.id \in Txns
    BY TxnAssumption DEF Inductive, TypeOK, Transactions
  <1>2. CASE ReconcileCleanups
    <2>1. TypeOK' /\ ControlOK'
      BY <1>2
      DEF ReconcileCleanups, StartsPass, NoTransaction, Inductive, TypeOK, ControlOK, Steps,
          FinishSteps
    <2> QED
      BY <1>2, <2>1, LedgerStep DEF ReconcileCleanups, StartsPass
  <1>3. CASE ReconcileSkippedEngine \/ ReconcileConfirm
    <2>1. /\ \/ /\ pending.phase = "Armed"
                /\ pending' = RecordFailure(pending) /\ pc' = FinishStart("Failed")
             \/ /\ pending.phase = "BootedUnconfirmed"
                /\ pending' = Transition(pending, "Confirmed") /\ pc' = FinishStart("Confirmed")
          /\ UNCHANGED <<hostVars, diskVars, bootVars, ledgerVars, passVars, used>>
      BY <1>3 DEF ReconcileSkippedEngine, ReconcileConfirm
    <2>2. /\ pending' \in Transactions
          /\ pending'.id = pending.id /\ pending'.base = pending.base
          /\ \/ /\ pending.phase = "Armed" /\ pending'.phase = "Failed"
                /\ pc' = "clear"
             \/ /\ pending.phase = "BootedUnconfirmed" /\ pending'.phase = "Confirmed"
                /\ pc' \in {"lineage", "scheduleCleanup"}
      BY <1>1, <2>1 DEF RecordFailure, Transition, Transactions, Phases, FinishStart
    <2>3. TypeOK' /\ ControlOK'
      BY <1>1, <2>1, <2>2
      DEF Inductive, TypeOK, ControlOK, Steps, FinishSteps, Terminal, NoPhase
    <2>4. LayoutOK' /\ FreshOK' /\ CleanupOK'
      BY <1>1, <2>1, <2>2, SameSubvolumes, SameCleanup DEF Inductive, NoPhase
    <2> QED
      BY <2>3, <2>4 DEF Inductive
  <1>4. CASE ReconcileResume
    <2>1. /\ pending.phase \in Terminal
          /\ pc' \in {"lineage", "scheduleCleanup", "clear"}
          /\ pc' = "lineage" => pending.phase # "Failed"
          /\ pc' = "scheduleCleanup" => pending.phase = "Confirmed"
      BY <1>4 DEF ReconcileResume, FinishStart
    <2>2. TypeOK' /\ ControlOK'
      BY <1>4, <2>1
      DEF ReconcileResume, Inductive, TypeOK, ControlOK, Steps, FinishSteps, Terminal
    <2> QED
      BY <1>4, <2>2, LedgerStep DEF ReconcileResume
  <1>5. CASE FinishLineage
    <2>1. /\ pending.phase \in {"Confirmed", "Reverted"} /\ pending.id \in Txns
          /\ pending.base["root"] \in Subvols /\ pending.id \in Subvols
      BY <1>1, <1>5
      DEF FinishLineage, Inductive, ControlOK, NoPhase, Transactions, Slots, Subvols
    <2>2. lineage' \in [Txns -> {"none", "Confirmed", "Reverted"}] /\ headRoot' \in Subvols
      BY <1>5, <2>1 DEF FinishLineage, Inductive, TypeOK
    <2>3. TypeOK' /\ ControlOK'
      BY <1>5, <2>1, <2>2
      DEF FinishLineage, Inductive, TypeOK, ControlOK, Steps, FinishSteps, Terminal
    <2> QED
      BY <1>5, <2>3, LedgerStep DEF FinishLineage
  <1>6. CASE FinishScheduleCleanup \/ FinishPurgeVerify \/ FinishPurge
    <2>1. pending.phase = "Confirmed" /\ pending.id \in Txns
      BY <1>1, <1>6
      DEF FinishScheduleCleanup, FinishPurgeVerify, FinishPurge, Inductive, ControlOK, NoPhase
    <2>2. TypeOK' /\ ControlOK'
      BY <1>6, <2>1
      DEF FinishScheduleCleanup, FinishPurgeVerify, FinishPurge, StartsPass, Inductive,
          TypeOK, ControlOK, Steps, FinishSteps, Terminal
    <2> QED
      BY <1>6, <2>1, <2>2, LedgerStep
      DEF FinishScheduleCleanup, FinishPurgeVerify, FinishPurge, StartsPass
  <1>7. CASE FinishClear \/ FinishArchive
    <2>1. history' \in [Txns -> {"none"} \cup Terminal] /\ nextEntry' \in Txns \cup {NoTxn}
      BY <1>7 DEF FinishClear, FinishArchive, ClearOnce, Inductive, TypeOK
    <2>2. TypeOK' /\ ControlOK'
      BY <1>7, <2>1
      DEF FinishClear, FinishArchive, Inductive, TypeOK, ControlOK, Steps, FinishSteps
    <2> QED
      BY <1>7, <2>2, LedgerStep DEF FinishClear, FinishArchive
  <1>8. CASE FinishRemove
    <2>1. pending' \in Transactions /\ pending'.id = NoTxn /\ pending'.phase = NoPhase
      BY <1>8, TxnAssumption
      DEF FinishRemove, RemoveTransaction, NoTransaction, Transactions, Subvols, BootAges,
          MaxApplyAttempts
    <2>2. TypeOK' /\ ControlOK'
      BY <1>8, <2>1
      DEF FinishRemove, Inductive, TypeOK, ControlOK, Steps, FinishSteps
    <2>3. pending.phase \in Terminal
      BY <1>8 DEF FinishRemove, Inductive, ControlOK
    <2> QED
      BY <1>8, <2>2, <2>3, RemoveStep DEF FinishRemove, Inductive
  <1>9. CASE FinishGrub
    <2>1. grubEntry' \in [Subvols -> Txns \cup {NoTxn}]
      BY <1>1, <1>9 DEF FinishGrub, RegenerateGrub, Inductive, TypeOK, Transactions
    <2>2. TypeOK' /\ ControlOK'
      BY <1>9, <2>1
      DEF FinishGrub, StartsPass, Inductive, TypeOK, ControlOK, Steps, FinishSteps
    <2> QED
      BY <1>9, <2>2, LedgerStep DEF FinishGrub, StartsPass
  <1>10. CASE FinishFails \/ CleanupPassEnds
    <2>1. TypeOK' /\ ControlOK'
      BY <1>10
      DEF FinishFails, CleanupPassEnds, Inductive, TypeOK, ControlOK, Steps, FinishSteps
    <2> QED
      BY <1>10, <2>1, LedgerStep DEF FinishFails, CleanupPassEnds
  <1>11. ASSUME NEW t \in Txns, CleanupComplete(t) \/ CleanupDefer(t) PROVE Inductive'
    <2>1. /\ todo' \subseteq todo /\ cleanupPending' \subseteq cleanupPending
          /\ deferred' \in BOOLEAN
      BY <1>11 DEF CleanupComplete, CleanupDefer, Inductive, TypeOK
    <2>2. UNCHANGED <<pending, diskVars, bootVars, hostVars, pc, lineage, headRoot, history,
                      purged, used>>
      BY <1>11 DEF CleanupComplete, CleanupDefer
    <2>3. TypeOK'
      BY <2>1, <2>2 DEF Inductive, TypeOK
    <2>4. ControlOK'
      BY <2>2 DEF Inductive, ControlOK
    <2> QED
      BY <2>1, <2>2, <2>3, <2>4, LedgerStep
  <1>12. ASSUME NEW t \in Txns, NEW s \in Slots, CleanupDelete(t, s) PROVE Inductive'
    <2>1. t = pending.id => pending.phase = "Confirmed"
      BY <1>12 DEF CleanupDelete, InPass, Inductive, CleanupOK
    <2>2. TypeOK' /\ ControlOK'
      BY <1>12 DEF CleanupDelete, Inductive, TypeOK, ControlOK, Contents
    <2>3. \A u \in Txns, r \in Slots :
             old'[u][r] = IF u = t /\ r = s THEN Absent ELSE old[u][r]
      BY <1>12 DEF CleanupDelete, Inductive, TypeOK
    <2>4. LayoutOK'
      <3> SUFFICES ASSUME NEW r \in Slots, pending.id # NoTxn PROVE SlotOK(r)'
        BY <1>12 DEF CleanupDelete, Inductive, LayoutOK
      <3>1. SlotOK(r) /\ pending.id \in Txns
        BY <1>1 DEF Inductive, LayoutOK
      <3> QED
        BY <1>12, <2>1, <2>3, <3>1
        DEF CleanupDelete, SlotOK, Lies, Untouched, Staged, Between, Replaced
    <2>5. FreshOK' /\ CleanupOK'
      BY <1>12, <2>3 DEF CleanupDelete, Inductive, FreshOK, CleanupOK
    <2> QED
      BY <2>2, <2>4, <2>5 DEF Inductive
  <1>13. ASSUME NEW s \in Slots, NEW k \in NestedKinds, NestedAppears(s, k) PROVE Inductive'
    <2>1. nested' \in [Slots -> [Subvols -> {"none", "empty", "full"}]]
      <3>1. k \in {"none", "empty", "full"}
        BY EnvironmentAssumption
      <3> QED
        BY <1>13, <3>1 DEF NestedAppears, Inductive, TypeOK
    <2>2. UNCHANGED <<pending, cur, old, new, bootVars, hostVars, pc, ledgerVars, passVars, used>>
      BY <1>13 DEF NestedAppears
    <2>3. TypeOK'
      BY <2>1, <2>2 DEF Inductive, TypeOK
    <2>4. ControlOK'
      BY <2>2 DEF Inductive, ControlOK
    <2> QED
      BY <2>2, <2>3, <2>4, LedgerStep
  <1> QED
    BY <1>2, <1>3, <1>4, <1>5, <1>6, <1>7, <1>8, <1>9, <1>10, <1>11, <1>12, <1>13
    DEF ConfirmationNext, Reconcile, Finish

-----------------------------------------------------------------------------
(* The invariant holds in every behaviour of the four parts together.      *)
THEOREM LifecycleInvariant == Spec => []Inductive
  <1>1. Init => Inductive
    BY InitInductive
  <1>2. Inductive /\ [Next]_vars => Inductive'
    <2> SUFFICES ASSUME Inductive, [Next]_vars PROVE Inductive'
      OBVIOUS
    <2>1. CASE UNCHANGED vars
      <3>1. TypeOK' /\ ControlOK'
        BY <2>1
        DEF Inductive, TypeOK, ControlOK, vars, diskVars, bootVars, hostVars, ledgerVars, passVars
      <3> QED
        BY <2>1, <3>1, LedgerStep DEF vars, diskVars, ledgerVars, passVars
    <2>2. CASE Next
      BY <2>2, BootInductive, EngineInductive, CoordinatorInductive, ConfirmationInductive
      DEF Next
    <2> QED
      BY <2>1, <2>2
  <1> QED
    BY <1>1, <1>2, PTL DEF Spec

(* Every variable keeps its type: the attempt counters stay within their   *)
(* limit, and every ledger entry is an outcome of a rollback.              *)
THEOREM TypeCorrect == Spec => []TypeOK
  <1>1. Inductive => TypeOK
    BY DEF Inductive
  <1> QED
    BY <1>1, LifecycleInvariant, PTL

(* Until it is confirmed, no interruption of apply or revert at any point  *)
(* loses the root or the Home that the rollback set out from.              *)
THEOREM OriginalIsPreserved == Spec => []OriginalPreserved
  <1>1. Inductive => OriginalPreserved
    <2> SUFFICES ASSUME Inductive, Unsettled, NEW s \in Slots
                 PROVE  IF s \in Affected(Kind[pending.id])
                          THEN AtBase(s) # (old[pending.id][s] = pending.base[s])
                          ELSE AtBase(s)
      BY DEF OriginalPreserved
    <2>1. /\ SlotOK(s)
          /\ pending.phase \in Phases \ {"Confirmed"}
          /\ pending.base[s] # Absent
      BY TxnAssumption
      DEF Inductive, LayoutOK, TypeOK, Transactions, Unsettled, Subvols
    <2>2. CASE s \in Affected(Kind[pending.id])
      <3>1. Untouched(s) \/ Staged(s) \/ Between(s) \/ Replaced(s)
        BY <2>1, <2>2 DEF SlotOK, Phases
      <3> QED
        BY <2>1, <2>2, <3>1
        DEF SlotOK, Lies, Untouched, Staged, Between, Replaced, AtBase
    <2>3. CASE s \notin Affected(Kind[pending.id])
      BY <2>1, <2>3 DEF SlotOK, Lies, Untouched, AtBase
    <2> QED
      BY <2>2, <2>3
  <1> QED
    BY <1>1, LifecycleInvariant, PTL

(* A rollback recorded as confirmed runs its own clones, and what it was   *)
(* not asked to replace is what ran before, even when an earlier rollback  *)
(* had cloned the same snapshot.                                           *)
THEOREM ConfirmedIsTarget == Spec => []ConfirmedRunsTarget
  <1>1. Inductive => ConfirmedRunsTarget
    <2> SUFFICES ASSUME Inductive, pending.phase = "Confirmed", NEW s \in Slots
                 PROVE  IF s \in Affected(Kind[pending.id]) THEN AtTarget(s) ELSE AtBase(s)
      BY DEF ConfirmedRunsTarget
    <2>1. SlotOK(s)
      BY TxnAssumption DEF Inductive, LayoutOK, TypeOK, NoPhase
    <2> QED
      BY <2>1 DEF SlotOK, Lies, Untouched, AtTarget, AtBase
  <1> QED
    BY <1>1, LifecycleInvariant, PTL

-----------------------------------------------------------------------------
(* What a rollback leaves behind: the lineage, the archive, the cleanup    *)
(* records, the protected subvolumes and the purged history.               *)
(*                                                                         *)
(* None of the properties is inductive.  That the archive agrees with the  *)
(* lineage depends on the order in which finish_* writes them, so on the   *)
(* step that is running and on the outcome in the record; that a deletion  *)
(* is of a confirmed rollback's subvolume, on the archive outliving the    *)
(* record.  LedgerOK and DeletionOK say these dependencies.                *)


(* What Inductive says of the record alone.                                *)
LEMMA RecordTyped ==
  ASSUME Inductive
  PROVE  /\ pending \in Transactions
         /\ pending.phase # NoPhase <=> pending.id # NoTxn
         /\ pending.phase # NoPhase => pending.phase \in Phases /\ pending.id \in Txns
         /\ pending.id = NoTxn => pending.id \notin Txns
  BY TxnAssumption DEF Inductive, TypeOK, Transactions

-----------------------------------------------------------------------------
(* What each part may do to the things the others rely on.                 *)

(* A boot, a power loss or a restart changes no ledger and no subvolume,   *)
(* and ends the operation that was running.                                *)
LEMMA BootEffect ==
  ASSUME Inductive, BootNext
  PROVE  /\ UNCHANGED <<diskVars, ledgerVars, used>>
         /\ todo' \subseteq todo
         /\ pending'.id = pending.id /\ pending'.base = pending.base
         /\ pending'.phase = pending.phase
         /\ pc' \in {"hook", "idle"}
  <1>1. CASE GoDown
    <2>1. /\ pending'.id = pending.id /\ pending'.base = pending.base
          /\ pending'.phase = pending.phase
      BY <1>1, RecordTyped DEF GoDown, AfterPowerCycle, Transactions
    <2> QED
      BY <1>1, <2>1 DEF GoDown
  <1>2. CASE \/ \E entry \in Txns \cup {NoTxn} : PowerOn(entry)
             \/ RescueBoot \/ HookSkipped \/ RestartFails \/ HookAgain
    BY <1>2
    DEF PowerOn, RescueBoot, HookSkipped, RestartFails, HookAgain, Goto, diskVars, ledgerVars,
        passVars
  <1> QED
    BY <1>1, <1>2 DEF BootNext, PowerLoss, OperatorReboot, Restart

(* The engine changes no ledger, never the record of a rollback that has   *)
(* ended, confirms none, and moves only the subvolumes of its record.      *)
LEMMA EngineEffect ==
  ASSUME Inductive, EngineNext
  PROVE  /\ UNCHANGED <<ledgerVars, passVars, used, nextEntry, grubEntry, requested>>
         /\ pending'.id = pending.id /\ pending'.base = pending.base
         /\ pending'.phase = pending.phase
              \/ (pending.phase \notin Terminal \cup {NoPhase}
                    /\ pending'.phase \in Phases \ {"Confirmed"})
         /\ pc' \in EngineSteps \cup {"idle"}
         /\ \A t \in Txns : t # pending.id => old'[t] = old[t] /\ new'[t] = new[t]
         /\ pending.phase \in Terminal \cup {NoPhase} => UNCHANGED <<cur, old, new>>
  <1> USE DEF Leave, Write, InEngine, ContinueBoot, RequireRestart, Die, BootOn, Proceed,
             EngineSteps
  <1>1. UNCHANGED <<ledgerVars, passVars, used, nextEntry, grubEntry, requested>>
    BY DEF EngineNext, EngineProgress, HookStart, Dispatch, DispatchReverted, DispatchSettled,
           DispatchArmedElsewhere, DispatchArmedExhausted, DispatchApply, DispatchAwaiting,
           DispatchBooted, DispatchRevert, DispatchReverting, ValidateSucceeds, ValidateFails,
           Switch, ApplySnapshot, ApplyProtect, ApplyActivate, RevertMoveAside, RevertActivate,
           RevertDiscard, RevertRefused, FinishApply, FinishRevert, HandOff, EngineError,
           Moves, Elsewhere, bootVars
  <1> USE RecordTyped
  <1>2. CASE HookStart
    <2>1. pending' \in {pending, [pending EXCEPT !.initramfsBoot = "this"]}
      BY <1>2 DEF HookStart
    <2>2. /\ pending'.id = pending.id /\ pending'.base = pending.base
          /\ pending'.phase = pending.phase
      BY <2>1 DEF Transactions
    <2> QED
      BY <1>1, <1>2, <2>2 DEF HookStart, Unmoved, diskVars
  <1>3. CASE \/ DispatchReverted \/ DispatchSettled \/ DispatchBooted \/ DispatchReverting
             \/ EngineError \/ HandOff \/ \E s \in Slots : RevertRefused(s)
    BY <1>1, <1>3
    DEF DispatchReverted, DispatchSettled, DispatchBooted, DispatchReverting, EngineError,
        HandOff, RevertRefused, Unmoved, diskVars
  <1>4. CASE DispatchArmedElsewhere \/ DispatchArmedExhausted \/ DispatchApply
    <2>1. /\ pending.phase \in {"Armed", "Applying"}
          /\ pending' \in {pending, RecordFailure(pending), RecordInitramfsEntry(pending)}
          /\ Unmoved /\ pc' \in EngineSteps
      BY <1>4 DEF DispatchArmedElsewhere, DispatchArmedExhausted, DispatchApply
    <2>2. /\ pending'.id = pending.id /\ pending'.base = pending.base
          /\ pending'.phase \in {pending.phase, "Failed"}
      BY <2>1 DEF RecordFailure, RecordInitramfsEntry, Transactions
    <2> QED
      BY <1>1, <2>1, <2>2 DEF Unmoved, diskVars, Terminal, Phases, NoPhase
  <1>5. CASE DispatchAwaiting
    <2>1. /\ pending.phase = "AppliedAwaitingBoot"
          /\ pending' \in {pending, RecordTargetBoot(pending)}
          /\ Unmoved /\ pc' \in EngineSteps
      BY <1>5 DEF DispatchAwaiting
    <2>2. /\ pending'.id = pending.id /\ pending'.base = pending.base
          /\ pending'.phase \in {pending.phase, "BootedUnconfirmed"}
      BY <2>1 DEF RecordTargetBoot, Transactions
    <2> QED
      BY <1>1, <2>1, <2>2 DEF Unmoved, diskVars, Terminal, Phases, NoPhase
  <1>6. CASE DispatchRevert \/ FinishApply \/ FinishRevert
    <2>1. /\ pending.phase \in {"Applying", "BootedUnconfirmed", "Reverting"}
          /\ \E next \in {"Reverting", "AppliedAwaitingBoot", "BootedUnconfirmed", "Reverted"} :
                pending' = Transition(pending, next)
          /\ Unmoved /\ pc' \in EngineSteps
      BY <1>6 DEF DispatchRevert, FinishApply, FinishRevert, Inductive, ControlOK
    <2>2. /\ pending'.id = pending.id /\ pending'.base = pending.base
          /\ pending'.phase \in {"Reverting", "AppliedAwaitingBoot", "BootedUnconfirmed",
                                 "Reverted"}
      BY <2>1 DEF Transition, Transactions
    <2> QED
      BY <1>1, <2>1, <2>2 DEF Unmoved, diskVars, Terminal, Phases, NoPhase
  <1>7. CASE ValidateSucceeds \/ ValidateFails
    <2>1. /\ pending.phase \in {"Armed", "Applying"}
          /\ pending' \in {pending, RecordFailure(pending), BeginApply(pending)}
          /\ Unmoved /\ pc' \in {"apply", "idle"}
      BY <1>7 DEF ValidateSucceeds, ValidateFails, Inductive, ControlOK
    <2>2. /\ pending'.id = pending.id /\ pending'.base = pending.base
          /\ pending'.phase \in {pending.phase, "Failed", "Applying"}
      BY <2>1 DEF RecordFailure, BeginApply, Transactions
    <2> QED
      BY <1>1, <2>1, <2>2 DEF Unmoved, diskVars, Terminal, Phases, NoPhase
  <1>8. ASSUME NEW s \in Slots,
               \/ ApplySnapshot(s) \/ ApplyProtect(s) \/ ApplyActivate(s)
               \/ RevertMoveAside(s) \/ RevertActivate(s) \/ RevertDiscard(s)
        PROVE  /\ pending' = pending /\ pending.phase \in {"Applying", "Reverting"}
               /\ pc' \in EngineSteps
               /\ \A t \in Txns : t # pending.id => old'[t] = old[t] /\ new'[t] = new[t]
    <2>1. /\ pending' = pending /\ pending.phase \in {"Applying", "Reverting"}
          /\ pc' \in EngineSteps
      BY <1>8
      DEF ApplySnapshot, ApplyProtect, ApplyActivate, RevertMoveAside, RevertActivate,
          RevertDiscard, Moves, Inductive, ControlOK
    <2>2. /\ old' = old \/ \E o : old' = Put(old, s, o)
          /\ new' = new \/ \E n : new' = Put(new, s, n)
      BY <1>8
      DEF ApplySnapshot, ApplyProtect, ApplyActivate, RevertMoveAside, RevertActivate,
          RevertDiscard
    <2>3. \A t \in Txns : t # pending.id => old'[t] = old[t] /\ new'[t] = new[t]
      BY <2>2 DEF Put, Inductive, TypeOK
    <2> QED
      BY <2>1, <2>3
  <1>9. CASE \E s \in Slots : \/ ApplySnapshot(s) \/ ApplyProtect(s) \/ ApplyActivate(s)
                              \/ RevertMoveAside(s) \/ RevertActivate(s) \/ RevertDiscard(s)
    BY <1>1, <1>8, <1>9 DEF Terminal, NoPhase
  <1> QED
    BY <1>2, <1>3, <1>4, <1>5, <1>6, <1>7, <1>9
    DEF EngineNext, EngineProgress, Dispatch, Switch

(* Scheduling begins a rollback under a fresh id, a record is dropped only *)
(* while early boot has not begun with it, and every other step keeps it.  *)
Begun(t) ==
    /\ t \notin used /\ used' = used \cup {t}
    /\ pending = NoTransaction
    /\ pending'.id = t /\ pending'.phase = "Preparing" /\ pending'.base = cur
    /\ pending'.initramfsAttempts = 0
    /\ headRoot' = cur["root"] /\ pc' = "sGrub"

Dropped ==
    /\ pending.phase \in {"Preparing", "Armed"} /\ pending' = NoTransaction
    /\ UNCHANGED <<headRoot, used>> /\ pc' \in {"fGrub", "cRemove"}

Kept ==
    /\ pending'.id = pending.id /\ pending'.base = pending.base
    /\ \/ pending'.phase = pending.phase
       \/ pending.phase = "Preparing" /\ pending'.phase = "Armed"
    /\ UNCHANGED <<headRoot, used>>
    /\ pc' \in ScheduleSteps \cup CancelSteps \cup {"idle"}

LEMMA CoordinatorEffect ==
  ASSUME Inductive, CoordinatorNext
  PROVE  /\ UNCHANGED <<diskVars, hostVars, lineage, history, cleanupPending, purged, passVars>>
         /\ (\E t \in Txns : Begun(t)) \/ Dropped \/ Kept
  <1> USE DEF UserspaceStep, Goto, ledgerVars, diskVars, hostVars, passVars, ScheduleSteps, CancelSteps
  <1>1. CASE \E t \in Txns : ScheduleCreate(t)
    <2>1. PICK t \in Txns : ScheduleCreate(t)
      BY <1>1
    <2>2. /\ pending'.id = t /\ pending'.phase = "Preparing" /\ pending'.base = cur
          /\ pending'.initramfsAttempts = 0
      BY <2>1 DEF ScheduleCreate, CreateTransaction, NewTransaction, NoTransaction
    <2> QED
      BY <2>1, <2>2 DEF ScheduleCreate, CreateTransaction, ValidateReady, Begun
  <1>2. CASE ScheduleArm
    <2>1. /\ pending'.id = pending.id /\ pending'.base = pending.base
          /\ pending.phase = "Preparing" /\ pending'.phase = "Armed"
      BY <1>2, RecordTyped DEF ScheduleArm, Transition, Transactions, Inductive, ControlOK
    <2> QED
      BY <1>2, <2>1 DEF ScheduleArm, Kept
  <1>3. CASE FailedScheduleRemove \/ CancelRemove
    <2>1. pending.phase \in {"Preparing", "Armed"}
      BY <1>3 DEF FailedScheduleRemove, CancelRemove, Inductive, ControlOK
    <2> QED
      BY <1>3, <2>1 DEF FailedScheduleRemove, CancelRemove, RemoveTransaction, Dropped, Kept
  <1>4. CASE \/ ScheduleGrub \/ ScheduleOnce \/ FailedScheduleClear \/ FailedScheduleGrub
             \/ ScheduleFails \/ CancelClear \/ CancelGrub \/ CancelFails
    BY <1>4
    DEF ScheduleGrub, ScheduleOnce, FailedScheduleClear, FailedScheduleGrub, ScheduleFails,
        CancelClear, CancelGrub, CancelFails, Kept
  <1> QED
    BY <1>1, <1>2, <1>3, <1>4 DEF CoordinatorNext, Schedule, Cancel

-----------------------------------------------------------------------------
(* The lineage and the archive.                                            *)

(* A step that writes neither ledger keeps them right if it decides no     *)
(* outcome again and goes on only where the code goes on.                  *)
LEMMA LedgerFrame ==
  ASSUME Inductive, LedgerOK, UNCHANGED <<lineage, headRoot, history, used>>,
         pending'.id = pending.id, pending'.base = pending.base,
         pending'.phase = pending.phase \/ pending.phase \notin Terminal \cup {NoPhase},
         pending.id = NoTxn => cur' = cur,
         pc' = "lineage" => ~HomeOnly(Kind[pending.id]),
         pc' \in SettledSteps => lineage[pending.id] = Recorded(pending.id, pending'.phase),
         pc' = "remove" => history[pending.id] = pending'.phase
  PROVE  LedgerOK'
  <1>1. pending.id # NoTxn =>
          /\ lineage[pending.id] \in {"none", Recorded(pending.id, pending'.phase)}
          /\ history[pending.id] \in {"none", pending'.phase}
    <2>1. CASE pending'.phase = pending.phase
      BY <2>1 DEF LedgerOK
    <2>2. CASE pending.id # NoTxn /\ pending.phase \notin Terminal \cup {NoPhase}
      BY <2>2, RecordTyped DEF LedgerOK, Recorded, Inductive, TypeOK, Terminal
    <2> QED
      BY <2>1, <2>2, RecordTyped
  <1> QED
    BY <1>1 DEF LedgerOK, LedgersAgree, LineageHeadIsRoot

(* Before a record has ended, the ledgers have no entry for it.            *)
LEMMA NoEntryYet ==
  ASSUME Inductive, LedgerOK, pending.id # NoTxn, pending.phase \notin Terminal
  PROVE  lineage[pending.id] = "none" /\ history[pending.id] = "none"
  BY RecordTyped DEF LedgerOK, Recorded, Inductive, TypeOK, Terminal

LEMMA LedgerInductive == ASSUME Inductive, LedgerOK, Next PROVE LedgerOK'
  <1> USE DEF UserspaceStep, Goto, ledgerVars, diskVars, hostVars, passVars, SettledSteps
  <1>1. CASE BootNext
    BY <1>1, BootEffect, LedgerFrame
  <1>2. CASE EngineNext
    BY <1>2, EngineEffect, LedgerFrame, RecordTyped DEF EngineSteps
  <1>3. CASE CoordinatorNext
    <2>1. UNCHANGED <<cur, lineage, history>>
      BY <1>3, CoordinatorEffect
    <2>2. ASSUME NEW t \in Txns, Begun(t) PROVE LedgerOK'
      <3>1. lineage[t] = "none" /\ history[t] = "none"
        BY <2>2 DEF Begun, LedgerOK
      <3>2. pending'.id # NoTxn
        BY <2>2, TxnAssumption DEF Begun
      <3> QED
        BY <2>1, <2>2, <3>1, <3>2 DEF Begun, LedgerOK, LedgersAgree, LineageHeadIsRoot
    <2>3. CASE Dropped
      <3>1. pending.id # NoTxn /\ lineage[pending.id] = "none"
        BY <2>3, RecordTyped, NoEntryYet DEF Dropped, Terminal, NoPhase
      <3>2. headRoot = cur["root"]
        BY <2>3, <3>1 DEF Dropped, LedgerOK, Inductive, LayoutOK, SlotOK, Untouched, Lies, Slots
      <3> QED
        BY <2>1, <2>3, <3>2 DEF Dropped, LedgerOK, LedgersAgree, LineageHeadIsRoot, NoTransaction
    <2>4. CASE Kept
      BY <2>1, <2>4, LedgerFrame, RecordTyped
      DEF Kept, ScheduleSteps, CancelSteps, Terminal, NoPhase
    <2> QED
      BY <1>3, <2>2, <2>3, <2>4, CoordinatorEffect
  <1>4. CASE ReconcileSkippedEngine \/ ReconcileConfirm
    <2>1. /\ pending.id # NoTxn /\ pending.phase \notin Terminal
          /\ lineage[pending.id] = "none" /\ UNCHANGED <<cur, lineage, headRoot, history, used>>
      BY <1>4, RecordTyped, NoEntryYet DEF ReconcileSkippedEngine, ReconcileConfirm, Terminal, NoPhase
    <2>2. /\ pending'.id = pending.id /\ pending'.base = pending.base
          /\ \/ pending'.phase = "Failed" /\ pc' = FinishStart("Failed")
             \/ pending'.phase = "Confirmed" /\ pc' = FinishStart("Confirmed")
      BY <1>4, RecordTyped
      DEF ReconcileSkippedEngine, ReconcileConfirm, RecordFailure, Transition, Transactions
    <2> QED
      BY <2>1, <2>2, LedgerFrame, RecordTyped DEF FinishStart, Recorded
  <1>5. CASE ReconcileResume
    <2>1. pending.id # NoTxn /\ lineage[pending.id] \in {"none", Recorded(pending.id, pending.phase)}
      BY <1>5, RecordTyped DEF ReconcileResume, LedgerOK, Terminal, NoPhase
    <2> QED
      BY <1>5, <2>1, LedgerFrame DEF ReconcileResume, FinishStart, Recorded, Terminal
  <1>6. CASE FinishLineage
    <2>1. /\ pending.id \in Txns /\ pending.phase \in {"Confirmed", "Reverted"}
          /\ ~HomeOnly(Kind[pending.id]) /\ pending.id \in used
      BY <1>6, RecordTyped
      DEF FinishLineage, Inductive, ControlOK, FreshOK, LedgerOK, NoPhase
    <2>2. /\ lineage' = [lineage EXCEPT ![pending.id] = pending.phase]
          /\ lineage[pending.id] \in {"none", pending.phase}
          /\ headRoot' = IF lineage[pending.id] # "none" THEN headRoot
                         ELSE IF pending.phase = "Confirmed" THEN pending.id
                         ELSE pending.base["root"]
          /\ UNCHANGED <<pending, cur, history, used>>
          /\ pc' = IF pending.phase = "Confirmed" THEN "scheduleCleanup" ELSE "clear"
      BY <1>6 DEF FinishLineage
    <2>3. /\ lineage'[pending.id] = pending.phase
          /\ \A t \in Txns : t # pending.id => lineage'[t] = lineage[t]
      BY <2>1, <2>2 DEF Inductive, TypeOK
    <2>4. LedgersAgree'
      BY <2>1, <2>2, <2>3, RecordTyped DEF LedgerOK, LedgersAgree, Recorded, NoPhase
    <2>5. headRoot' = IF lineage'[pending.id] = "Confirmed" THEN pending.id
                                                           ELSE pending.base["root"]
      BY <2>1, <2>2, <2>3, RecordTyped DEF LedgerOK, NoPhase
    <2> QED
      BY <2>1, <2>2, <2>3, <2>4, <2>5, RecordTyped
      DEF LedgerOK, LineageHeadIsRoot, Recorded
  <1>7. CASE FinishArchive
    <2>1. /\ pending.id \in Txns /\ pending.phase \in Terminal /\ pending.id \in used
          /\ lineage[pending.id] = Recorded(pending.id, pending.phase)
      BY <1>7, RecordTyped DEF FinishArchive, Inductive, FreshOK, LedgerOK, Terminal, NoPhase
    <2>2. /\ history'[pending.id] = pending.phase
          /\ \A t \in Txns : t # pending.id => history'[t] = history[t]
          /\ UNCHANGED <<pending, cur, lineage, headRoot, used>> /\ pc' = "remove"
      BY <1>7, <2>1 DEF FinishArchive, Inductive, TypeOK
    <2> QED
      BY <2>1, <2>2, RecordTyped DEF LedgerOK, LedgersAgree, LineageHeadIsRoot, Recorded, Terminal, NoPhase
  <1>8. CASE FinishRemove
    <2>1. /\ pending.id # NoTxn /\ pending.phase \in Terminal
          /\ lineage[pending.id] = Recorded(pending.id, pending.phase)
          /\ headRoot = IF lineage[pending.id] = "Confirmed" THEN pending.id
                                                            ELSE pending.base["root"]
      BY <1>8, RecordTyped DEF FinishRemove, Inductive, ControlOK, LedgerOK, Terminal, NoPhase
    <2>2. headRoot = cur["root"]
      <3>1. SlotOK("root")
        BY <2>1 DEF Inductive, LayoutOK, Slots
      <3> QED
        BY <2>1, <3>1
        DEF SlotOK, Untouched, Lies, Recorded, Affected, Slots, Terminal
    <2>3. /\ pending'.id = NoTxn /\ pc' \in {"grub", "grubCleanup"}
          /\ UNCHANGED <<cur, lineage, headRoot, history, used>>
      BY <1>8 DEF FinishRemove, RemoveTransaction, NoTransaction
    <2> QED
      BY <2>2, <2>3 DEF LedgerOK, LedgersAgree, LineageHeadIsRoot
  <1>9. CASE \/ ReconcileCleanups \/ FinishScheduleCleanup \/ FinishPurgeVerify \/ FinishPurge
             \/ FinishClear \/ FinishGrub \/ CleanupPassEnds \/ FinishFails
    <2>1. /\ UNCHANGED <<pending, cur, lineage, headRoot, history, used>>
          /\ pc' \notin {"lineage", "remove"}
          /\ pc' \in SettledSteps => pc \in SettledSteps
      BY <1>9
      DEF ReconcileCleanups, FinishScheduleCleanup, FinishPurgeVerify, FinishPurge, FinishClear,
          FinishGrub, CleanupPassEnds, FinishFails
    <2> QED
      BY <2>1, LedgerFrame DEF LedgerOK
  <1>10. CASE \/ \E t \in Txns : \/ CleanupComplete(t) \/ CleanupDefer(t)
                                \/ \E s \in Slots : CleanupDelete(t, s)
              \/ \E s \in Slots, k \in NestedKinds : NestedAppears(s, k)
    <2>1. UNCHANGED <<pending, pc, cur, lineage, headRoot, history, used>>
      BY <1>10 DEF CleanupComplete, CleanupDefer, CleanupDelete, NestedAppears
    <2> QED
      BY <2>1, LedgerFrame DEF LedgerOK
  <1> QED
    BY <1>1, <1>2, <1>3, <1>4, <1>5, <1>6, <1>7, <1>8, <1>9, <1>10
    DEF Next, ConfirmationNext, Reconcile, Finish

-----------------------------------------------------------------------------
(* Protected subvolumes, cleanup records and the purge.                    *)

(* A confirmation is never taken back, in the record or in the archive.    *)
LEMMA StillConfirmed ==
  ASSUME NEW t \in Txns, Inductive, LedgerOK, ConfirmedForGood(t),
         history' = history, pending'.id = pending.id,
         pending.phase = "Confirmed" => pending'.phase = "Confirmed"
  PROVE  ConfirmedForGood(t)'
  BY DEF ConfirmedForGood

(* The old subvolumes of a rollback whose outcome is archived as confirmed *)
(* move no more: it is not the pending one, or its record is confirmed.    *)
LEMMA ConfirmedIsSettled ==
  ASSUME NEW t \in Txns, Inductive, LedgerOK, ConfirmedForGood(t)
  PROVE  t # pending.id \/ pending.phase = "Confirmed"
  BY TxnAssumption DEF ConfirmedForGood, LedgerOK

(* A step that deletes nothing, marks nothing and purges nothing.          *)
LEMMA DeletionFrame ==
  ASSUME Inductive, LedgerOK, DeletionOK, UNCHANGED <<history, cleanupPending, purged>>,
         todo' \subseteq todo \cup cleanupPending,
         pending'.id = pending.id,
         pending.phase = "Confirmed" => pending'.phase = "Confirmed",
         \A t \in Txns : t # pending.id => old'[t] = old[t] /\ new'[t] = new[t],
         pending.phase = "Confirmed" => UNCHANGED <<old, new>>,
         pc' \in SettledSteps \ {"scheduleCleanup"} => pending'.phase # "Confirmed",
         pc' \notin {"purgeCleanup", "purge"}
  PROVE  DeletionOK'
  <1>1. \A t \in Txns : ConfirmedForGood(t) =>
           /\ ConfirmedForGood(t)' /\ old'[t] = old[t]
    BY StillConfirmed, ConfirmedIsSettled
  <1>2. NoOrphanSubvolumes'
    BY DEF DeletionOK, NoOrphanSubvolumes
  <1>3. PurgeOnlyAfterConfirmation'
    <2> SUFFICES ASSUME purged PROVE PurgeOnlyAfterConfirmation'
      BY DEF PurgeOnlyAfterConfirmation
    <2>1. PICK t \in Txns : PurgeHistory(Kind[t]) /\ ConfirmedForGood(t) /\ OldGone(t)
      BY DEF DeletionOK, PurgeOnlyAfterConfirmation, ConfirmedForGood, OldGone
    <2> QED
      BY <1>1, <2>1 DEF PurgeOnlyAfterConfirmation, ConfirmedForGood, OldGone
  <1>4. \A t \in (cleanupPending \cup todo)' : ConfirmedForGood(t)'
    BY <1>1 DEF DeletionOK, Inductive, TypeOK
  <1> QED
    BY <1>2, <1>3, <1>4 DEF DeletionOK

LEMMA DeletionInductive == ASSUME Inductive, LedgerOK, DeletionOK, Next PROVE DeletionOK'
  <1> USE DEF UserspaceStep, Goto, ledgerVars, diskVars, hostVars, passVars, SettledSteps
  <1>1. CASE BootNext
    BY <1>1, BootEffect, DeletionFrame
  <1>2. CASE EngineNext
    BY <1>2, EngineEffect, DeletionFrame DEF EngineSteps, Terminal
  <1>3. CASE CoordinatorNext
    <2>1. UNCHANGED <<cur, old, new, history, cleanupPending, purged, todo>>
      BY <1>3, CoordinatorEffect
    <2>2. ASSUME NEW t \in Txns, Begun(t) PROVE DeletionOK'
      <3>1. pending.id = NoTxn /\ pending.phase = NoPhase /\ pc' = "sGrub"
        BY <2>2 DEF Begun, NoTransaction
      <3>2. \A u \in Txns : ConfirmedForGood(u) => history[u] = "Confirmed"
        BY <3>1, TxnAssumption DEF ConfirmedForGood
      <3>3. NoOrphanSubvolumes'
        BY <2>1, <3>1, TxnAssumption DEF DeletionOK, NoOrphanSubvolumes
      <3>4. PurgeOnlyAfterConfirmation'
        BY <2>1, <3>1, TxnAssumption DEF DeletionOK, PurgeOnlyAfterConfirmation
      <3>5. \A u \in (cleanupPending \cup todo)' : ConfirmedForGood(u)'
        <4>1. cleanupPending \cup todo \subseteq Txns
          BY DEF Inductive, TypeOK
        <4> QED
          BY <2>1, <3>2, <4>1 DEF DeletionOK, ConfirmedForGood
      <3> QED
        BY <3>1, <3>3, <3>4, <3>5 DEF DeletionOK
    <2>3. CASE Dropped
      <3>1. /\ pending.id \in Txns /\ pending.phase # "Confirmed" /\ pending'.id = NoTxn
            /\ pc' \notin SettledSteps
        BY <2>3, RecordTyped DEF Dropped, NoTransaction, NoPhase
      <3>2. \A s \in Slots : old[pending.id][s] = Absent /\ new[pending.id][s] = Absent
        BY <2>3, <3>1, TxnAssumption
        DEF Dropped, Inductive, LayoutOK, SlotOK, Untouched, Lies
      <3>3. NoOrphanSubvolumes'
        BY <2>1, <3>1, <3>2 DEF DeletionOK, NoOrphanSubvolumes
      <3> QED
        BY <2>1, <3>1, <3>3 DEF DeletionOK, PurgeOnlyAfterConfirmation, ConfirmedForGood
    <2>4. CASE Kept
      BY <2>1, <2>4, DeletionFrame DEF Kept, ScheduleSteps, CancelSteps
    <2> QED
      BY <1>3, <2>2, <2>3, <2>4, CoordinatorEffect
  <1>4. CASE Reconcile
    <2>1. /\ UNCHANGED <<old, new, history, cleanupPending, purged>>
          /\ todo' \subseteq todo \cup cleanupPending
      BY <1>4
      DEF Reconcile, ReconcileCleanups, ReconcileSkippedEngine, ReconcileConfirm,
          ReconcileResume, StartsPass
    <2>2. /\ pending'.id = pending.id
          /\ pending.phase = "Confirmed" => pending'.phase = "Confirmed"
          /\ pc' \in {"cleanup", "lineage", "scheduleCleanup", "clear"}
          /\ pc' = "clear" => pending'.phase # "Confirmed"
      BY <1>4, RecordTyped
      DEF Reconcile, ReconcileCleanups, ReconcileSkippedEngine, ReconcileConfirm,
          ReconcileResume, RecordFailure, Transition, FinishStart, Transactions
    <2> QED
      BY <2>1, <2>2, DeletionFrame
  <1>5. CASE FinishLineage \/ FinishGrub \/ FinishFails
    <2>1. /\ UNCHANGED <<pending, old, new, history, cleanupPending, purged>>
          /\ todo' \subseteq todo \cup cleanupPending
          /\ pc' \in {"scheduleCleanup", "clear", "idle", "cleanup"}
          /\ pc' = "clear" => pending.phase # "Confirmed"
      BY <1>5 DEF FinishLineage, FinishGrub, FinishFails, StartsPass
    <2> QED
      BY <2>1, DeletionFrame
  <1>6. CASE FinishScheduleCleanup
    <2>1. /\ cleanupPending' = cleanupPending \cup {pending.id}
          /\ UNCHANGED <<pending, old, new, history, purged, todo>>
          /\ pc' \in {"purgeVerify", "clear"} /\ pending.phase = "Confirmed"
      BY <1>6 DEF FinishScheduleCleanup, Inductive, ControlOK
    <2> QED
      BY <2>1
      DEF DeletionOK, NoOrphanSubvolumes, PurgeOnlyAfterConfirmation, ConfirmedForGood, OldGone
  <1>7. CASE FinishPurgeVerify \/ FinishClear \/ CleanupPassEnds
    <2>1. /\ UNCHANGED <<pending, old, new, history, cleanupPending, purged>>
          /\ todo' \in {todo, cleanupPending}
      BY <1>7 DEF FinishPurgeVerify, FinishClear, CleanupPassEnds, StartsPass
    <2>2. \/ pc = "purgeVerify" /\ pc' = "purgeCleanup" /\ todo' = cleanupPending
          \/ pc = "clear" /\ pc' = "archive"
          \/ pc' = "idle"
          \/ pc = "purgeCleanup" /\ pc' = "purge" /\ ~deferred /\ todo = {}
      BY <1>7 DEF FinishPurgeVerify, FinishClear, CleanupPassEnds, StartsPass
    <2>3. pc \in {"purgeVerify", "purgeCleanup"} => pending.phase = "Confirmed"
      BY DEF Inductive, ControlOK
    <2> QED
      BY <2>1, <2>2, <2>3
      DEF DeletionOK, NoOrphanSubvolumes, PurgeOnlyAfterConfirmation, ConfirmedForGood, OldGone
  <1>8. CASE FinishPurge
    <2>1. /\ pc = "purge" /\ pc' = "clear" /\ purged'
          /\ pending.id \in Txns /\ pending.phase = "Confirmed"
          /\ PurgeHistory(Kind[pending.id])
          /\ UNCHANGED <<pending, old, new, history, cleanupPending, todo>>
      BY <1>8, RecordTyped DEF FinishPurge, NoPhase
    <2> QED
      BY <2>1
      DEF DeletionOK, NoOrphanSubvolumes, PurgeOnlyAfterConfirmation, ConfirmedForGood, OldGone
  <1>9. CASE FinishArchive
    <2>1. /\ pc = "archive" /\ pc' = "remove"
          /\ pending.id \in Txns
          /\ history' = [history EXCEPT ![pending.id] = pending.phase]
          /\ UNCHANGED <<pending, old, new, cleanupPending, purged, todo>>
      BY <1>9, RecordTyped DEF FinishArchive, Terminal, NoPhase
    <2>2. \A t \in Txns : ConfirmedForGood(t) => ConfirmedForGood(t)'
      BY <2>1, ConfirmedIsSettled DEF ConfirmedForGood, Inductive, TypeOK
    <2>3. PurgeOnlyAfterConfirmation'
      BY <2>1, <2>2 DEF DeletionOK, PurgeOnlyAfterConfirmation, ConfirmedForGood
    <2>4. \A t \in (cleanupPending \cup todo)' : ConfirmedForGood(t)'
      BY <2>1, <2>2 DEF DeletionOK, Inductive, TypeOK
    <2> QED
      BY <2>1, <2>3, <2>4 DEF DeletionOK, NoOrphanSubvolumes, OldGone
  <1>10. CASE FinishRemove
    <2>1. /\ pending.id \in Txns /\ pending.phase \in Terminal
          /\ history[pending.id] = pending.phase
          /\ pending.phase = "Confirmed" =>
                pending.id \in cleanupPending \/ OldGone(pending.id)
      BY <1>10, RecordTyped
      DEF FinishRemove, Inductive, ControlOK, LedgerOK, DeletionOK, Terminal, NoPhase
    <2>2. /\ pending'.id = NoTxn /\ pc' \in {"grub", "grubCleanup"}
          /\ UNCHANGED <<old, new, history, cleanupPending, purged, todo>>
      BY <1>10 DEF FinishRemove, RemoveTransaction, NoTransaction
    <2>3. \A s \in Slots :
             /\ new[pending.id][s] = Absent
             /\ pending.phase # "Confirmed" => old[pending.id][s] = Absent
      BY <2>1, TxnAssumption DEF Inductive, LayoutOK, SlotOK, Untouched, Lies, Terminal
    <2>4. NoOrphanSubvolumes'
      BY <2>1, <2>2, <2>3 DEF DeletionOK, NoOrphanSubvolumes, OldGone
    <2>5. \A t \in Txns : ConfirmedForGood(t) => history[t] = "Confirmed"
      BY <2>1 DEF ConfirmedForGood
    <2> QED
      BY <2>2, <2>4, <2>5
      DEF DeletionOK, PurgeOnlyAfterConfirmation, ConfirmedForGood, Inductive, TypeOK
  <1>11. ASSUME NEW t \in Txns, CleanupComplete(t) \/ CleanupDefer(t) PROVE DeletionOK'
    <2>1. /\ UNCHANGED <<pending, pc, old, new, history, purged>>
          /\ todo' = todo \ {t}
          /\ cleanupPending' = cleanupPending \/ (cleanupPending' = cleanupPending \ {t} /\ OldGone(t))
          /\ (OldGone(t) /\ deferred' = deferred) \/ deferred'
      BY <1>11 DEF CleanupComplete, CleanupDefer, OldGone
    <2>2. NoOrphanSubvolumes'
      BY <2>1 DEF DeletionOK, NoOrphanSubvolumes, OldGone
    <2> QED
      BY <2>1, <2>2
      DEF DeletionOK, PurgeOnlyAfterConfirmation, ConfirmedForGood, OldGone
  <1>12. ASSUME NEW t \in Txns, NEW s \in Slots, CleanupDelete(t, s) PROVE DeletionOK'
    <2>1. /\ UNCHANGED <<pending, pc, new, history, purged, cleanupPending, todo, deferred>>
          /\ \A u \in Txns, r \in Slots :
                old'[u][r] = IF u = t /\ r = s THEN Absent ELSE old[u][r]
      BY <1>12 DEF CleanupDelete, Inductive, TypeOK
    <2>2. \A u \in Txns : OldGone(u) => OldGone(u)'
      BY <2>1 DEF OldGone
    <2>3. /\ NoOrphanSubvolumes'
          /\ PurgeOnlyAfterConfirmation'
      BY <2>1 DEF DeletionOK, NoOrphanSubvolumes, PurgeOnlyAfterConfirmation
    <2>4. pc \in SettledSteps => pending.id \in Txns
      BY RecordTyped DEF Inductive, ControlOK, Terminal, NoPhase
    <2> QED
      BY <2>1, <2>2, <2>3, <2>4 DEF DeletionOK, ConfirmedForGood
  <1>13. CASE \E s \in Slots, k \in NestedKinds : NestedAppears(s, k)
    BY <1>13
    DEF NestedAppears, DeletionOK, NoOrphanSubvolumes, PurgeOnlyAfterConfirmation,
        ConfirmedForGood, OldGone
  <1> QED
    BY <1>1, <1>2, <1>3, <1>4, <1>5, <1>6, <1>7, <1>8, <1>9, <1>10, <1>11, <1>12, <1>13
    DEF Next, ConfirmationNext, Finish

-----------------------------------------------------------------------------
SettlementOK == Inductive /\ LedgerOK /\ DeletionOK

LEMMA SettlementStarts == Init => SettlementOK
  <1> SUFFICES ASSUME Init PROVE SettlementOK
    OBVIOUS
  <1>1. Inductive
    BY InitInductive
  <1>2. pending.id = NoTxn /\ pc = "idle" /\ cleanupPending \cup todo = {} /\ ~purged
    BY DEF Init, NoTransaction
  <1>3. LedgerOK
    BY <1>2 DEF Init, LedgerOK, LedgersAgree, LineageHeadIsRoot, SettledSteps, Slots
  <1>4. DeletionOK
    BY <1>2
    DEF Init, DeletionOK, NoOrphanSubvolumes, PurgeOnlyAfterConfirmation, SettledSteps
  <1> QED
    BY <1>1, <1>3, <1>4 DEF SettlementOK

LEMMA SettlementStutters ==
  ASSUME SettlementOK, UNCHANGED vars PROVE SettlementOK'
  <1>1. LedgerOK' /\ DeletionOK'
    BY DEF SettlementOK, vars, diskVars, bootVars, hostVars, ledgerVars, passVars, LedgerOK,
           LedgersAgree, LineageHeadIsRoot, DeletionOK, NoOrphanSubvolumes,
           PurgeOnlyAfterConfirmation, ConfirmedForGood, OldGone
  <1>2. TypeOK' /\ ControlOK'
    BY DEF SettlementOK, Inductive, TypeOK, ControlOK, vars, diskVars, bootVars, hostVars,
           ledgerVars, passVars
  <1>3. Inductive'
    BY <1>2, LedgerStep DEF SettlementOK, vars, diskVars, ledgerVars, passVars
  <1> QED
    BY <1>1, <1>3 DEF SettlementOK

(* The ledgers, the cleanup records and the protected subvolumes agree     *)
(* with the record in every behaviour of the four parts together.          *)
THEOREM SettlementInvariant == Spec => []SettlementOK
  <1>1. SettlementOK /\ [Next]_vars => SettlementOK'
    <2>1. ASSUME SettlementOK, Next PROVE SettlementOK'
      BY <2>1, BootInductive, EngineInductive, CoordinatorInductive, ConfirmationInductive,
         LedgerInductive, DeletionInductive
      DEF SettlementOK, Next
    <2> QED
      BY <2>1, SettlementStutters
  <1> QED
    BY <1>1, SettlementStarts, PTL DEF Spec

(* The archive and the lineage never tell different outcomes: a power loss *)
(* between the two writes, and a service that runs again, repair each      *)
(* other's traces instead of adding to them.                               *)
THEOREM LedgersAlwaysAgree == Spec => []LedgersAgree
  <1>1. SettlementOK => LedgersAgree
    BY DEF SettlementOK, LedgerOK
  <1> QED
    BY <1>1, SettlementInvariant, PTL

(* Between two rollbacks, the head of the lineage is the mounted root.     *)
THEOREM HeadIsMounted == Spec => []LineageHeadIsRoot
  <1>1. SettlementOK => LineageHeadIsRoot
    BY DEF SettlementOK, LedgerOK
  <1> QED
    BY <1>1, SettlementInvariant, PTL

(* No record leaves a subvolume behind that nothing names any more, in     *)
(* whichever phase and by whichever path it is removed.                    *)
THEOREM NothingIsOrphaned == Spec => []NoOrphanSubvolumes
  <1>1. SettlementOK => NoOrphanSubvolumes
    BY DEF SettlementOK, DeletionOK
  <1> QED
    BY <1>1, SettlementInvariant, PTL

(* The history is purged only for a confirmed reset that asked for it, and *)
(* after its own old subvolumes are gone, however often the service fails, *)
(* defers a deletion or is restarted in between.                           *)
THEOREM PurgeIsConfirmed == Spec => []PurgeOnlyAfterConfirmation
  <1>1. SettlementOK => PurgeOnlyAfterConfirmation
    BY DEF SettlementOK, DeletionOK
  <1> QED
    BY <1>1, SettlementInvariant, PTL

-----------------------------------------------------------------------------
(* Only the cleanup pass, on a subvolume whose record a confirmed rollback *)
(* has written, and the revert that puts it back take a protected          *)
(* subvolume away.                                                         *)
LEMMA OldSubvolumeStep ==
  ASSUME SettlementOK, Next, NEW t \in Txns, NEW s \in Slots,
         old[t][s] # Absent, old'[t][s] = Absent
  PROVE  cur'[s] = old[t][s] \/ ConfirmedForGood(t)
  <1>1. CASE BootNext
    BY <1>1, BootEffect DEF SettlementOK, diskVars
  <1>2. CASE EngineNext
    <2>1. t = pending.id /\ t \in Txns
      BY <1>2, EngineEffect DEF SettlementOK
    <2>2. ASSUME NEW r \in Slots, RevertActivate(r) PROVE cur'[s] = old[t][s]
      <3>1. r = s
        BY <2>1, <2>2 DEF RevertActivate, Put, SettlementOK, Inductive, TypeOK
      <3> QED
        BY <2>1, <2>2, <3>1 DEF RevertActivate, SettlementOK, Inductive, TypeOK
    <2>3. ASSUME NEW r \in Slots, ApplyProtect(r) PROVE FALSE
      <3>1. cur[r] # Absent
        BY <2>3 DEF ApplyProtect, Shape
      <3> QED
        BY <2>1, <2>3, <3>1 DEF ApplyProtect, Put, SettlementOK, Inductive, TypeOK
    <2>4. CASE UNCHANGED old
      BY <2>4
    <2>5. \/ UNCHANGED old
          \/ \E r \in Slots : RevertActivate(r) \/ ApplyProtect(r)
      BY <1>2
      DEF EngineNext, EngineProgress, HookStart, Dispatch, DispatchReverted, DispatchSettled,
          DispatchArmedElsewhere, DispatchArmedExhausted, DispatchApply, DispatchAwaiting,
          DispatchBooted, DispatchRevert, DispatchReverting, ValidateSucceeds, ValidateFails,
          Switch, ApplySnapshot, ApplyActivate, RevertMoveAside, RevertDiscard,
          RevertRefused, FinishApply, FinishRevert, HandOff, EngineError, Leave, Write,
          Unmoved, diskVars
    <2> QED
      BY <2>2, <2>3, <2>4, <2>5
  <1>3. CASE CoordinatorNext
    BY <1>3, CoordinatorEffect DEF SettlementOK, diskVars
  <1>4. CASE ConfirmationNext
    <2>1. \/ UNCHANGED old
          \/ \E u \in Txns, r \in Slots : CleanupDelete(u, r)
      BY <1>4
      DEF ConfirmationNext, Reconcile, ReconcileCleanups, ReconcileSkippedEngine,
          ReconcileConfirm, ReconcileResume, Finish, FinishLineage, FinishScheduleCleanup,
          FinishPurgeVerify, FinishPurge, FinishClear, FinishArchive, FinishRemove, FinishGrub,
          CleanupPassEnds, CleanupComplete, FinishFails, CleanupDefer, NestedAppears,
          UserspaceStep, diskVars
    <2>2. ASSUME NEW u \in Txns, NEW r \in Slots, CleanupDelete(u, r) PROVE ConfirmedForGood(t)
      <3>1. u = t
        BY <2>2 DEF CleanupDelete, SettlementOK, Inductive, TypeOK
      <3> QED
        BY <2>2, <3>1 DEF CleanupDelete, InPass, SettlementOK, DeletionOK
    <2> QED
      BY <2>1, <2>2
  <1> QED
    BY <1>1, <1>2, <1>3, <1>4 DEF Next

(* A protected old subvolume outlives every doubt about its rollback.      *)
THEOREM OldSubvolumesAreSafe == Spec => OldSubvolumesOutliveDoubt
  <1> DEFINE Outlives == \A t \in Txns, s \in Slots :
                        (old[t][s] # Absent /\ old'[t][s] = Absent) =>
                            \/ cur'[s] = old[t][s]
                            \/ history[t] = "Confirmed"
                            \/ pending.id = t /\ pending.phase = "Confirmed"
  <1>1. SettlementOK /\ [Next]_vars => [Outlives]_vars
    BY OldSubvolumeStep DEF ConfirmedForGood
  <1> QED
    BY <1>1, SettlementInvariant, PTL DEF Spec, OldSubvolumesOutliveDoubt

-----------------------------------------------------------------------------
(* The lifecycle implements AtomicRollback.  In the mapping the system is  *)
(* the one that was running when the rollback was scheduled, until its     *)
(* record is confirmed; the outcome is the record's as soon as the record  *)
(* has one, and the archive's afterwards.                                  *)
System == IF Unsettled THEN pending.base ELSE cur
Outcome == [t \in Txns |-> IF pending.id = t /\ pending.phase \in Terminal
                             THEN pending.phase ELSE history[t]]

AtomicStep == Atomic!AtomicNext \/ UNCHANGED Atomic!atomicVars

(* Whatever does not end a rollback, or repeats an end, is invisible.      *)
LEMMA AtomicStutter ==
  ASSUME SettlementOK, UNCHANGED <<history, purged>>, pending'.id = pending.id,
         pending'.base = pending.base,
         \/ pending'.phase = pending.phase
         \/ {pending.phase, pending'.phase} \cap (Terminal \cup {NoPhase}) = {},
         Unsettled \/ cur' = cur
  PROVE  UNCHANGED Atomic!atomicVars
  <1>1. Unsettled' <=> Unsettled
    BY DEF Unsettled, Terminal
  <1>2. System' = System
    BY <1>1 DEF System
  <1>3. Outcome' = Outcome
    BY DEF Outcome
  <1> QED
    BY <1>2, <1>3 DEF Atomic!atomicVars, System, Outcome

(* A rollback that has not ended has no outcome.                           *)
LEMMA NoOutcomeYet ==
  ASSUME SettlementOK, pending.id # NoTxn, pending.phase \notin Terminal
  PROVE  Outcome[pending.id] = "none"
  BY RecordTyped, NoEntryYet DEF SettlementOK, Outcome, NoPhase

(* A step that ends an undecided rollback abandons it or commits it.       *)
LEMMA AtomicEnd ==
  ASSUME SettlementOK, UNCHANGED <<history, purged>>, pending'.id = pending.id,
         pending'.base = pending.base, pending.id # NoTxn,
         pending.phase \notin Terminal, pending'.phase \in Terminal,
         pending'.phase = "Confirmed" =>
            cur' = [s \in Slots |-> IF s \in Affected(Kind[pending.id]) THEN pending.id
                                                                   ELSE pending.base[s]]
  PROVE  Atomic!AtomicNext
  <1>1. pending.id \in Txns
    BY RecordTyped DEF SettlementOK, NoPhase
  <1>2. Outcome[pending.id] = "none"
    BY NoOutcomeYet
  <1>3. Outcome' = [Outcome EXCEPT ![pending.id] = pending'.phase]
    BY <1>1 DEF Outcome
  <1>4. Unsettled /\ System = pending.base
    BY DEF Unsettled, System, Terminal
  <1>5. CASE pending'.phase = "Confirmed"
    <2>1. System' = cur'
      BY <1>5 DEF System, Unsettled
    <2>2. Atomic!Commit
      BY <1>2, <1>3, <1>4, <1>5, <2>1 DEF Atomic!Commit, Atomic!Affected, Atomic!Slots, System, Outcome,
         Atomic!HomeOnly, Atomic!ResetHome, Affected, Slots, HomeOnly, ResetHome
    <2> QED
      BY <2>2 DEF Atomic!AtomicNext
  <1>6. ASSUME NEW result \in {"Reverted", "Failed"}, pending'.phase = result
        PROVE  Atomic!AtomicNext
    <2>1. System' = System
      BY <1>4, <1>6 DEF System, Unsettled
    <2>2. Atomic!Abandon(result)
      BY <1>2, <1>3, <1>6, <2>1 DEF Atomic!Abandon, System, Outcome
    <2> QED
      BY <2>2 DEF Atomic!AtomicNext
  <1> QED
    BY <1>5, <1>6 DEF Terminal

(* A step that removes a record ends its rollback: the archive holds the   *)
(* outcome of one that had any, and the system is the one mounted.         *)
LEMMA AtomicRemove ==
  ASSUME SettlementOK, RemoveTransaction, UNCHANGED <<cur, history, purged>>,
         pending.id # NoTxn, pending.phase \in {"Preparing", "Armed"} \cup Terminal,
         pending.phase \in Terminal => history[pending.id] = pending.phase
  PROVE  Atomic!AtomicNext
  <1>1. pending'.id = NoTxn /\ pending'.phase = NoPhase
    BY DEF RemoveTransaction, NoTransaction
  <1>2. pending.id \in Txns
    BY RecordTyped DEF SettlementOK, NoPhase
  <1>3. Outcome' = Outcome
    BY <1>1, <1>2, TxnAssumption DEF Outcome
  <1>4. System' = System
    <2>1. System' = cur
      BY <1>1 DEF System, Unsettled
    <2>2. CASE pending.phase = "Confirmed"
      BY <2>1, <2>2 DEF System, Unsettled
    <2>3. CASE pending.phase # "Confirmed"
      <3>1. \A s \in Slots : cur[s] = pending.base[s]
        BY <2>3 DEF SettlementOK, Inductive, LayoutOK, SlotOK, Untouched, Lies, Terminal
      <3>2. pending.base \in [Slots -> Subvols] /\ cur \in [Slots -> Contents]
        BY DEF SettlementOK, Inductive, TypeOK, Transactions
      <3>3. cur = pending.base
        BY <3>1, <3>2
      <3> QED
        BY <2>1, <2>3, <3>3 DEF System, Unsettled
    <2> QED
      BY <2>2, <2>3
  <1> QED
    BY <1>1, <1>3, <1>4 DEF Atomic!AtomicNext, Atomic!End, System, Outcome

LEMMA LifecycleStepIsAtomic ==
  ASSUME SettlementOK, SettlementOK', Next
  PROVE  AtomicStep
  <1> USE DEF AtomicStep
  <1>1. CASE BootNext
    BY <1>1, BootEffect, AtomicStutter DEF SettlementOK, diskVars, ledgerVars
  <1>2. CASE EngineNext
    <2>1. /\ UNCHANGED <<history, purged>>
          /\ pending'.id = pending.id /\ pending'.base = pending.base
          /\ \/ pending'.phase = pending.phase
             \/ (pending.phase \notin Terminal \cup {NoPhase}
                   /\ pending'.phase \in Phases \ {"Confirmed"})
          /\ pending.phase \in Terminal \cup {NoPhase} => cur' = cur
      BY <1>2, EngineEffect DEF SettlementOK, ledgerVars
    <2>2. ~Unsettled => cur' = cur
      BY <2>1, RecordTyped DEF Unsettled, SettlementOK, Terminal
    <2>3. CASE pending'.phase \in Terminal /\ pending'.phase # pending.phase
      BY <2>1, <2>3, AtomicEnd, RecordTyped DEF SettlementOK
    <2>4. CASE pending'.phase \notin Terminal \/ pending'.phase = pending.phase
      BY <2>1, <2>2, <2>4, AtomicStutter DEF Phases, NoPhase
    <2> QED
      BY <2>3, <2>4
  <1>3. CASE CoordinatorNext
    <2>1. UNCHANGED <<cur, history, purged>>
      BY <1>3, CoordinatorEffect DEF SettlementOK, diskVars
    <2>2. ASSUME NEW t \in Txns, Begun(t) PROVE Atomic!AtomicNext
      <3>1. /\ pending.id = NoTxn /\ pending.phase = NoPhase
            /\ pending'.id = t /\ pending'.phase = "Preparing" /\ pending'.base = cur
            /\ history[t] = "none"
        BY <2>2 DEF Begun, NoTransaction, SettlementOK, LedgerOK
      <3>2. System' = System
        BY <2>1, <3>1, TxnAssumption DEF System, Unsettled
      <3>3. Outcome' = Outcome /\ Outcome[t] = "none"
        BY <2>1, <3>1, TxnAssumption DEF Outcome, Terminal, NoPhase
      <3>4. Atomic!Begin(t)
        BY <2>1, <3>1, <3>2, <3>3 DEF Atomic!Begin, System, Outcome
      <3> QED
        BY <3>4 DEF Atomic!AtomicNext
    <2>3. CASE Dropped
      BY <2>1, <2>3, AtomicRemove, RecordTyped
      DEF Dropped, RemoveTransaction, SettlementOK, Terminal, NoPhase
    <2>4. CASE Kept
      BY <2>1, <2>4, AtomicStutter DEF Kept, Terminal, NoPhase
    <2> QED
      BY <1>3, <2>2, <2>3, <2>4, CoordinatorEffect DEF SettlementOK
  <1>4. CASE ReconcileSkippedEngine \/ ReconcileConfirm
    <2>1. /\ UNCHANGED <<cur, history, purged>>
          /\ \/ pending.phase = "Armed" /\ pending' = RecordFailure(pending)
             \/ pending.phase = "BootedUnconfirmed" /\ pending' = Transition(pending, "Confirmed")
      BY <1>4
      DEF ReconcileSkippedEngine, ReconcileConfirm, UserspaceStep, diskVars, ledgerVars
    <2>2. /\ pending'.id = pending.id /\ pending'.base = pending.base
          /\ pending.id # NoTxn /\ pending.phase \notin Terminal
          /\ pending'.phase \in {"Failed", "Confirmed"}
      BY <2>1, RecordTyped
      DEF RecordFailure, Transition, Transactions, SettlementOK, Terminal, NoPhase
    <2>3. pending'.phase = "Confirmed" =>
             cur' = [s \in Slots |-> IF s \in Affected(Kind[pending.id]) THEN pending.id
                                                                    ELSE pending.base[s]]
      <3> SUFFICES ASSUME pending'.phase = "Confirmed"
                   PROVE  cur' = [s \in Slots |-> IF s \in Affected(Kind[pending.id])
                                                     THEN pending.id ELSE pending.base[s]]
        OBVIOUS
      <3>1. \A s \in Slots : cur'[s] = IF s \in Affected(Kind[pending.id])
                                         THEN pending.id ELSE pending.base[s]
        BY <2>2 DEF SettlementOK, Inductive, LayoutOK, SlotOK, Untouched, Lies
      <3>2. cur' \in [Slots -> Contents]
        BY DEF SettlementOK, Inductive, TypeOK
      <3> QED
        BY <3>1, <3>2
    <2> QED
      BY <2>1, <2>2, <2>3, AtomicEnd DEF Terminal
  <1>5. CASE FinishPurge
    <2>1. /\ UNCHANGED <<pending, cur, history>> /\ purged' = TRUE
          /\ pending.phase = "Confirmed" /\ PurgeHistory(Kind[pending.id])
          /\ pending.id \in Txns /\ pending.id # NoTxn
      BY <1>5, RecordTyped
      DEF FinishPurge, UserspaceStep, diskVars, SettlementOK, NoPhase
    <2>2. System' = System /\ Outcome' = Outcome /\ Outcome[pending.id] = "Confirmed"
      BY <2>1 DEF System, Outcome, Unsettled, Terminal
    <2>3. Atomic!Erase
      BY <2>1, <2>2
      DEF Atomic!Erase, System, Outcome, Atomic!PurgeHistory, PurgeHistory
    <2> QED
      BY <2>3 DEF Atomic!AtomicNext
  <1>6. CASE FinishArchive
    <2>1. /\ UNCHANGED <<pending, cur, purged>> /\ pending.phase \in Terminal
          /\ history' = [history EXCEPT ![pending.id] = pending.phase]
      BY <1>6 DEF FinishArchive, UserspaceStep, diskVars
    <2>2. Outcome' = Outcome
      BY <2>1 DEF Outcome, SettlementOK, Inductive, TypeOK
    <2>3. System' = System
      BY <2>1 DEF System, Unsettled
    <2> QED
      BY <2>1, <2>2, <2>3 DEF Atomic!atomicVars, System, Outcome
  <1>7. CASE FinishRemove
    <2>1. /\ UNCHANGED <<cur, history, purged>> /\ RemoveTransaction
          /\ pending.phase \in Terminal /\ history[pending.id] = pending.phase
      BY <1>7
      DEF FinishRemove, UserspaceStep, Goto, diskVars, ledgerVars, SettlementOK, Inductive,
          ControlOK, LedgerOK
    <2> QED
      BY <2>1, AtomicRemove, RecordTyped DEF SettlementOK, Terminal, NoPhase
  <1>8. CASE \/ ReconcileCleanups \/ ReconcileResume \/ FinishLineage \/ FinishScheduleCleanup
             \/ FinishPurgeVerify \/ FinishClear \/ FinishGrub \/ CleanupPassEnds
             \/ FinishFails
             \/ \E t \in Txns : \/ CleanupComplete(t) \/ CleanupDefer(t)
                                \/ \E s \in Slots : CleanupDelete(t, s)
             \/ \E s \in Slots, k \in NestedKinds : NestedAppears(s, k)
    <2>1. UNCHANGED <<pending, cur, history, purged>>
      BY <1>8
      DEF ReconcileCleanups, ReconcileResume, FinishLineage, FinishScheduleCleanup,
          FinishPurgeVerify, FinishClear, FinishGrub, CleanupPassEnds, FinishFails,
          CleanupComplete, CleanupDefer, CleanupDelete, NestedAppears, UserspaceStep, diskVars,
          ledgerVars
    <2> QED
      BY <2>1, AtomicStutter
  <1> QED
    BY <1>1, <1>2, <1>3, <1>4, <1>5, <1>6, <1>7, <1>8
    DEF Next, ConfirmationNext, Reconcile, Finish

(* The four parts together, with power losses, failed steps and services   *)
(* that run again, implement a sequence of atomic rollbacks.               *)
THEOREM LifecycleIsAtomic == Spec => ImplementsAtomicRollback
  <1>1. Init => Atomic!AtomicInit
    BY TxnAssumption
    DEF Init, NoTransaction, Unsettled, Atomic!AtomicInit, Atomic!Slots, Slots, Terminal, NoPhase
  <1>2. SettlementOK /\ SettlementOK' /\ [Next]_vars => [Atomic!AtomicNext]_(Atomic!atomicVars)
    <2>1. CASE Next
      BY <2>1, LifecycleStepIsAtomic DEF AtomicStep
    <2>2. CASE UNCHANGED vars
      BY <2>2, AtomicStutter
      DEF vars, diskVars, bootVars, hostVars, ledgerVars, passVars
    <2> QED
      BY <2>1, <2>2
  <1> QED
    BY <1>1, <1>2, SettlementInvariant, PTL DEF Spec, ImplementsAtomicRollback, Atomic!AtomicSpec

-----------------------------------------------------------------------------
(***************************************************************************)
(* The boots of a rollback: the record that every boot has to load, the    *)
(* boot that may confirm, the menu entry that selects the next boot, and   *)
(* the restart a switched system has to go through.                        *)
(*                                                                         *)
(* What a boot id in the record can be follows from the attempt counters,  *)
(* these from the step that is running, and whether a boot is requested    *)
(* for the rollback from every menu and selector that ever named it:       *)
(* RecordOK, SelectorOK, HandOffOK and RestartOK say so.                   *)
(***************************************************************************)

(* What validate asks of the record, in the record's own terms.            *)
LEMMA RecordInductive == ASSUME Inductive, RecordOK, Next PROVE RecordOK'
  <1> USE DEF UserspaceStep, Goto, ledgerVars, diskVars, hostVars, passVars
  <1>1. ASSUME UNCHANGED pending, pc' # "validate" PROVE RecordOK'
    BY <1>1
    DEF RecordOK, PendingRecordLoads, ValidTransaction, ValidAttempts, ValidRestart,
        RestartsAfterApply
  <1>2. CASE BootNext
    <2>1. CASE GoDown
      <3>1. pending' = AfterPowerCycle(pending) /\ pc' = "idle"
        BY <2>1 DEF GoDown
      <3> QED
        BY <3>1, RecordTyped
        DEF AfterPowerCycle, Aged, RecordOK, PendingRecordLoads, ValidTransaction,
            ValidAttempts, ValidRestart, RestartsAfterApply, Transactions, BootAges
    <2>2. CASE \/ \E entry \in Txns \cup {NoTxn} : PowerOn(entry)
               \/ RescueBoot \/ HookSkipped \/ RestartFails \/ HookAgain
      BY <1>1, <2>2 DEF PowerOn, RescueBoot, HookSkipped, RestartFails, HookAgain
    <2> QED
      BY <1>2, <2>1, <2>2 DEF BootNext, PowerLoss, OperatorReboot, Restart
  <1>3. CASE EngineNext
    <2> USE DEF Leave, Write, InEngine, ContinueBoot, RequireRestart, Die, BootOn, Proceed
    <2>1. ASSUME pending.id # NoTxn PROVE ValidTransaction(pending) /\ pending \in Transactions
      BY <2>1, RecordTyped DEF RecordOK, PendingRecordLoads
    <2>2. CASE HookStart
      <3>1. \/ UNCHANGED pending
            \/ /\ pending.id # NoTxn /\ pending' = [pending EXCEPT !.initramfsBoot = "this"]
               /\ pending.phase \in {"Reverting", "Applying", "BootedUnconfirmed"}
        BY <2>2 DEF HookStart, RemembersRevertBoot
      <3>2. pc' # "validate"
        BY <2>2 DEF HookStart
      <3>3. CASE UNCHANGED pending
        BY <1>1, <3>2, <3>3
      <3>4. CASE /\ pending.id # NoTxn /\ pending' = [pending EXCEPT !.initramfsBoot = "this"]
                 /\ pending.phase \in {"Reverting", "Applying", "BootedUnconfirmed"}
        BY <2>1, <3>2, <3>4
        DEF RecordOK, PendingRecordLoads, ValidTransaction, ValidAttempts, ValidRestart,
            RestartsAfterApply, Transactions, BootAges, MaxApplyAttempts
      <3> QED
        BY <3>1, <3>3, <3>4
    <2>3. CASE DispatchArmedElsewhere \/ DispatchArmedExhausted \/ ValidateFails
      <3>1. /\ pending.phase \in {"Armed", "Applying"} /\ pc' # "validate"
            /\ \/ UNCHANGED pending
               \/ pending.phase = "Armed" /\ pending' = RecordFailure(pending)
        BY <2>3
        DEF DispatchArmedElsewhere, DispatchArmedExhausted, ValidateFails, Inductive, ControlOK
      <3>2. CASE pending.phase = "Armed" /\ pending' = RecordFailure(pending)
        <4>1. pending.id # NoTxn
          BY <3>2, RecordTyped DEF NoPhase
        <4> QED
          BY <2>1, <3>1, <3>2, <4>1
          DEF RecordFailure, RecordOK, PendingRecordLoads, ValidTransaction, ValidAttempts,
              ValidRestart, RestartsAfterApply, Transactions
      <3> QED
        BY <1>1, <3>1, <3>2
    <2>4. CASE DispatchApply
      <3>1. /\ pending.phase \in {"Armed", "Applying"} /\ pending.id # NoTxn
            /\ pending' = RecordInitramfsEntry(pending)
        BY <2>4, RecordTyped DEF DispatchApply, NoPhase
      <3>2. /\ pending.initramfsAttempts \in Nat /\ pending.applyAttempts \in Nat
            /\ pending.applyAttempts <= pending.initramfsAttempts
        BY <2>1, <3>1 DEF ValidTransaction, ValidAttempts, Transactions, MaxApplyAttempts
      <3>3. /\ pending'.initramfsAttempts = pending.initramfsAttempts + 1
            /\ pending'.initramfsBoot = "this"
            /\ pending'.applyAttempts = pending.applyAttempts
            /\ pending'.id = pending.id /\ pending'.phase = pending.phase
            /\ pending'.applyingBoot = pending.applyingBoot
            /\ pending'.targetBoot = pending.targetBoot
        BY <2>1, <3>1 DEF RecordInitramfsEntry, Transactions
      <3> QED
        BY <2>1, <3>1, <3>2, <3>3
        DEF RecordOK, PendingRecordLoads, ValidTransaction, ValidAttempts, ValidRestart,
            RestartsAfterApply
    <2>5. CASE DispatchAwaiting
      <3>1. /\ pending.phase = "AppliedAwaitingBoot" /\ pc' # "validate"
            /\ \/ UNCHANGED pending
               \/ pending.applyingBoot # "this" /\ pending' = RecordTargetBoot(pending)
        BY <2>5 DEF DispatchAwaiting
      <3>2. CASE pending.applyingBoot # "this" /\ pending' = RecordTargetBoot(pending)
        <4>1. pending.id # NoTxn
          BY <3>1, RecordTyped DEF NoPhase
        <4> QED
          BY <2>1, <3>1, <3>2, <4>1
          DEF RecordTargetBoot, RecordOK, PendingRecordLoads, ValidTransaction, ValidAttempts,
              ValidRestart, RestartsAfterApply, Transactions
      <3> QED
        BY <1>1, <3>1, <3>2
    <2>6. CASE ValidateSucceeds
      <3>1. /\ pending.phase \in {"Armed", "Applying"} /\ pending.id # NoTxn
            /\ pending' = BeginApply(pending) /\ pc' # "validate"
            /\ pending.applyAttempts < pending.initramfsAttempts
        BY <2>6, RecordTyped DEF ValidateSucceeds, Inductive, ControlOK, RecordOK, NoPhase
      <3>2. pending.initramfsAttempts \in Nat /\ pending.applyAttempts \in Nat
        BY <2>1, <3>1 DEF Transactions, MaxApplyAttempts
      <3>3. /\ pending'.applyAttempts = pending.applyAttempts + 1
            /\ pending'.applyingBoot = "this" /\ pending'.phase = "Applying"
            /\ pending'.initramfsAttempts = pending.initramfsAttempts
            /\ pending'.initramfsBoot = pending.initramfsBoot
            /\ pending'.id = pending.id
            /\ pending'.targetBoot = pending.targetBoot
        BY <2>1, <3>1 DEF BeginApply, Transactions
      <3> QED
        BY <2>1, <3>1, <3>2, <3>3
        DEF RecordOK, PendingRecordLoads, ValidTransaction, ValidAttempts, ValidRestart,
            RestartsAfterApply
    <2>7. CASE DispatchRevert \/ FinishApply \/ FinishRevert
      <3>1. /\ pc' # "validate"
            /\ \/ /\ pending.phase \in {"Applying", "BootedUnconfirmed"}
                  /\ pending' = Transition(pending, "Reverting")
               \/ /\ pending.phase = "Applying" /\ RestartsAfterApply(pending)
                  /\ pending' = Transition(pending, "AppliedAwaitingBoot")
               \/ /\ pending.phase = "Applying" /\ ~RestartsAfterApply(pending)
                  /\ pending' = Transition(pending, "BootedUnconfirmed")
               \/ /\ pending.phase = "Reverting"
                  /\ pending' = Transition(pending, "Reverted")
        BY <2>7 DEF DispatchRevert, FinishApply, FinishRevert, Inductive, ControlOK
      <3>2. pending.id # NoTxn
        BY <3>1, RecordTyped DEF NoPhase
      <3> QED
        BY <2>1, <3>1, <3>2
        DEF Transition, RecordOK, PendingRecordLoads, ValidTransaction, ValidAttempts,
            ValidRestart, RestartsAfterApply, Transactions
    <2>8. CASE \/ DispatchReverted \/ DispatchSettled \/ DispatchBooted \/ DispatchReverting
               \/ EngineError \/ HandOff
               \/ \E s \in Slots : \/ ApplySnapshot(s) \/ ApplyProtect(s) \/ ApplyActivate(s)
                                   \/ RevertMoveAside(s) \/ RevertActivate(s)
                                   \/ RevertDiscard(s) \/ RevertRefused(s)
      BY <1>1, <2>8
      DEF DispatchReverted, DispatchSettled, DispatchBooted, DispatchReverting, EngineError,
          HandOff, ApplySnapshot, ApplyProtect, ApplyActivate, RevertMoveAside,
          RevertActivate, RevertDiscard, RevertRefused, Moves
    <2> QED
      BY <1>3, <2>2, <2>3, <2>4, <2>5, <2>6, <2>7, <2>8
      DEF EngineNext, EngineProgress, Dispatch, Switch
  <1>4. CASE RemoveTransaction /\ pc' # "validate"
    BY <1>4 DEF RemoveTransaction, NoTransaction, RecordOK, PendingRecordLoads
  <1>5. CASE CoordinatorNext
    <2>1. ASSUME NEW t \in Txns, ScheduleCreate(t) PROVE RecordOK'
      BY <2>1
      DEF ScheduleCreate, CreateTransaction, NewTransaction, NoTransaction, RecordOK,
          PendingRecordLoads, ValidTransaction, ValidAttempts, ValidRestart, RestartsAfterApply
    <2>2. CASE ScheduleArm
      <3>1. pending.id # NoTxn /\ pending.phase = "Preparing" /\ pending' = Transition(pending, "Armed")
        BY <2>2, RecordTyped DEF ScheduleArm, Inductive, ControlOK, NoPhase
      <3> QED
        BY <2>2, <3>1, RecordTyped
        DEF ScheduleArm, Transition, RecordOK, PendingRecordLoads, ValidTransaction,
            ValidAttempts, ValidRestart, RestartsAfterApply, Transactions
    <2>3. CASE \/ ScheduleGrub \/ ScheduleOnce \/ FailedScheduleClear \/ FailedScheduleRemove
               \/ FailedScheduleGrub \/ ScheduleFails \/ Cancel \/ CancelFails
      BY <1>1, <1>4, <2>3
      DEF ScheduleGrub, ScheduleOnce, FailedScheduleClear, FailedScheduleRemove,
          FailedScheduleGrub, ScheduleFails, Cancel, CancelClear, CancelRemove, CancelGrub,
          CancelFails
    <2> QED
      BY <1>5, <2>1, <2>2, <2>3 DEF CoordinatorNext, Schedule
  <1>6. CASE ConfirmationNext
    <2>1. CASE ReconcileSkippedEngine \/ ReconcileConfirm
      <3>1. /\ \/ pending.phase = "Armed" /\ pending' = RecordFailure(pending)
               \/ /\ pending.phase = "BootedUnconfirmed"
                  /\ pending' = Transition(pending, "Confirmed")
            /\ pc' # "validate"
        BY <2>1 DEF ReconcileSkippedEngine, ReconcileConfirm, FinishStart
      <3>2. pending.id # NoTxn
        BY <3>1, RecordTyped DEF NoPhase
      <3> QED
        BY <3>1, <3>2, RecordTyped
        DEF RecordFailure, Transition, RecordOK, PendingRecordLoads, ValidTransaction,
            ValidAttempts, ValidRestart, RestartsAfterApply, Transactions
    <2>2. CASE \E t \in Txns : \/ CleanupComplete(t) \/ CleanupDefer(t)
                               \/ \E s \in Slots : CleanupDelete(t, s)
      BY <1>1, <2>2
      DEF CleanupComplete, CleanupDefer, CleanupDelete, InPass
    <2>3. CASE \E s \in Slots, k \in NestedKinds : NestedAppears(s, k)
      BY <2>3
      DEF NestedAppears, RecordOK, PendingRecordLoads, ValidTransaction, ValidAttempts,
          ValidRestart, RestartsAfterApply
    <2>4. CASE \/ ReconcileCleanups \/ ReconcileResume \/ FinishLineage
               \/ FinishScheduleCleanup \/ FinishPurgeVerify \/ FinishPurge \/ FinishClear
               \/ FinishArchive \/ FinishRemove \/ FinishGrub \/ CleanupPassEnds \/ FinishFails
      BY <1>1, <1>4, <2>4
      DEF ReconcileCleanups, ReconcileResume, FinishLineage, FinishScheduleCleanup,
          FinishPurgeVerify, FinishPurge, FinishClear, FinishArchive, FinishRemove, FinishGrub,
          CleanupPassEnds, FinishFails, FinishStart
    <2> QED
      BY <1>6, <2>1, <2>2, <2>3, <2>4 DEF ConfirmationNext, Reconcile, Finish
  <1> QED
    BY <1>2, <1>3, <1>5, <1>6 DEF Next

-----------------------------------------------------------------------------
(* The menu, the selector and the kernel command line.                     *)

(* A step of the engine takes up no rollback that was not taken up before: *)
(* it counts an attempt in a boot requested for the rollback, and leaves   *)
(* the armed phase in such a boot or after a counted attempt.              *)
LEMMA EngineTakesUp ==
  ASSUME Inductive, RecordOK, EngineNext, pending.id # NoTxn, TakenUp'
  PROVE  TakenUp
  <1> USE DEF Leave, Write, InEngine
  <1>1. UNCHANGED requested /\ pending'.id = pending.id
    BY EngineEffect
  <1>2. pending \in Transactions
    BY RecordTyped
  <1>3. CASE HookStart
    <2>1. pending' \in {pending, [pending EXCEPT !.initramfsBoot = "this"]}
      BY <1>3 DEF HookStart
    <2>2. pending'.phase = pending.phase /\ pending'.initramfsAttempts = pending.initramfsAttempts
      BY <1>2, <2>1 DEF Transactions
    <2> QED
      BY <1>1, <2>2 DEF TakenUp
  <1>4. CASE DispatchArmedElsewhere \/ DispatchArmedExhausted \/ DispatchApply
    <2>1. \/ pending' = pending
          \/ pending.initramfsAttempts > 0
          \/ requested = pending.id
      BY <1>4 DEF DispatchArmedElsewhere, DispatchArmedExhausted, DispatchApply, MayApply
    <2> QED
      BY <1>1, <2>1 DEF TakenUp
  <1>5. CASE ValidateSucceeds \/ ValidateFails
    <2>1. pending.applyAttempts < pending.initramfsAttempts
      BY <1>5 DEF ValidateSucceeds, ValidateFails, RecordOK
    <2>2. pending.initramfsAttempts > 0
      BY <1>2, <2>1 DEF Transactions, MaxApplyAttempts
    <2> QED
      BY <2>2 DEF TakenUp
  <1>6. CASE DispatchAwaiting \/ DispatchRevert \/ FinishApply \/ FinishRevert
    BY <1>6
    DEF DispatchAwaiting, DispatchRevert, FinishApply, FinishRevert, Inductive, ControlOK, TakenUp
  <1>7. CASE \/ DispatchReverted \/ DispatchSettled \/ DispatchBooted \/ DispatchReverting
             \/ EngineError \/ HandOff
             \/ \E s \in Slots : \/ ApplySnapshot(s) \/ ApplyProtect(s) \/ ApplyActivate(s)
                                 \/ RevertMoveAside(s) \/ RevertActivate(s)
                                 \/ RevertDiscard(s) \/ RevertRefused(s)
    BY <1>1, <1>7
    DEF DispatchReverted, DispatchSettled, DispatchBooted, DispatchReverting, EngineError,
        HandOff, ApplySnapshot, ApplyProtect, ApplyActivate, RevertMoveAside,
        RevertActivate, RevertDiscard, RevertRefused, Moves, TakenUp
  <1> QED
    BY <1>3, <1>4, <1>5, <1>6, <1>7 DEF EngineNext, EngineProgress, Dispatch, Switch

(* update-grub names a rollback only while its record is there.            *)
LEMMA RegeneratedMenu ==
  ASSUME Inductive, SelectorOK, RegenerateGrub
  PROVE  \A r \in Subvols : grubEntry'[r] \in used \cup {NoTxn}
  BY RecordTyped DEF RegenerateGrub, SelectorOK, Inductive, TypeOK, FreshOK

(* A step that takes no rollback up, and selects none that was taken up.   *)
LEMMA SelectorFrame ==
  ASSUME Inductive, SelectorOK, UNCHANGED <<requested, used>>,
         \A r \in Subvols : grubEntry'[r] \in used \cup {NoTxn},
         pending'.id = pending.id,
         pending.id # NoTxn /\ TakenUp' => TakenUp,
         nextEntry' = NoTxn \/ nextEntry' = nextEntry,
         pc' \notin {"sGrub", "sArm", "sOnce"}
  PROVE  SelectorOK'
  BY DEF SelectorOK, RestartsAfterApply

LEMMA SelectorInductive ==
  ASSUME Inductive, RecordOK, SelectorOK, Next PROVE SelectorOK'
  <1> USE DEF UserspaceStep, Goto, ledgerVars, diskVars, hostVars, passVars, bootVars
  <1>1. CASE BootNext
    <2>1. ASSUME NEW entry \in Txns \cup {NoTxn}, PowerOn(entry) PROVE SelectorOK'
      <3>1. entry \in used \cup {NoTxn}
        <4>1. cur["root"] \in Subvols
          BY <2>1 DEF PowerOn, Inductive, TypeOK, Slots, Contents
        <4> QED
          BY <2>1, <4>1 DEF PowerOn, Selectable, SelectorOK
      <3>2. /\ UNCHANGED <<pending, grubEntry, used>>
            /\ requested' = entry /\ pc' = "hook"
            /\ nextEntry' = NoTxn \/ (nextEntry' = entry /\ entry # NoTxn /\ Protocol[entry] = 2)
        BY <2>1 DEF PowerOn, GrubSelects
      <3> QED
        BY <3>1, <3>2 DEF SelectorOK, RestartsAfterApply
    <2>2. CASE GoDown
      <3>1. /\ requested' = NoTxn /\ pc' = "idle" /\ UNCHANGED <<grubEntry, nextEntry, used>>
            /\ pending'.id = pending.id /\ pending'.phase = pending.phase
            /\ pending'.initramfsAttempts = pending.initramfsAttempts
        BY <2>2, RecordTyped DEF GoDown, AfterPowerCycle, Transactions
      <3> QED
        BY <3>1 DEF SelectorOK, TakenUp, RestartsAfterApply
    <2>3. CASE RescueBoot \/ HookSkipped \/ RestartFails \/ HookAgain
      <3>1. UNCHANGED <<pending, requested, bootVars, used>> /\ pc' \in {"hook", "idle"}
        BY <2>3 DEF RescueBoot, HookSkipped, RestartFails, HookAgain
      <3> QED
        BY <3>1 DEF SelectorOK, TakenUp, RestartsAfterApply
    <2> QED
      BY <1>1, <2>1, <2>2, <2>3 DEF BootNext, PowerLoss, OperatorReboot, Restart
  <1>2. CASE EngineNext
    <2>1. UNCHANGED <<requested, used, grubEntry, nextEntry>> /\ pending'.id = pending.id
          /\ pc' \in EngineSteps \cup {"idle"}
      BY <1>2, EngineEffect
    <2> QED
      BY <1>2, <2>1, EngineTakesUp, SelectorFrame DEF SelectorOK, EngineSteps
  <1>3. CASE CoordinatorNext
    <2>1. ASSUME NEW t \in Txns, ScheduleCreate(t) PROVE SelectorOK'
      <3>1. /\ pending'.id = t /\ pending'.phase = "Preparing" /\ pending'.initramfsAttempts = 0
            /\ t \notin used /\ used' = used \cup {t}
            /\ UNCHANGED <<requested, grubEntry, nextEntry>>
        BY <2>1 DEF ScheduleCreate, CreateTransaction, NewTransaction, NoTransaction
      <3> QED
        BY <3>1, TxnAssumption DEF SelectorOK, TakenUp
    <2>2. CASE ScheduleGrub
      <3>1. UNCHANGED <<pending, requested, nextEntry, used>> /\ pc = "sGrub"
        BY <2>2 DEF ScheduleGrub
      <3> QED
        BY <2>2, <3>1, RegeneratedMenu
        DEF ScheduleGrub, SelectorOK, TakenUp, RestartsAfterApply
    <2>3. CASE ScheduleArm
      <3>1. /\ pending'.id = pending.id /\ pending'.phase = "Armed" /\ pc = "sArm"
            /\ pending'.initramfsAttempts = pending.initramfsAttempts
            /\ UNCHANGED <<requested, bootVars, used>>
        BY <2>3, RecordTyped DEF ScheduleArm, Transition, Transactions
      <3> QED
        BY <3>1 DEF SelectorOK, TakenUp
    <2>4. CASE ScheduleOnce \/ ScheduleFails
      <3>1. /\ UNCHANGED <<pending, grubEntry, requested, used>>
            /\ pc' \in {"idle", "fClear"}
            /\ nextEntry' = nextEntry \/ pc = "sOnce"
        BY <2>4 DEF ScheduleOnce, ScheduleFails
      <3>2. pc = "sOnce" => ~TakenUp
        BY DEF Inductive, ControlOK, SelectorOK, TakenUp
      <3> QED
        BY <3>1, <3>2 DEF SelectorOK, TakenUp, RestartsAfterApply
    <2>5. CASE FailedScheduleRemove \/ CancelRemove
      <3>1. CASE RemoveTransaction
        BY <2>5, <3>1
        DEF FailedScheduleRemove, CancelRemove, RemoveTransaction, NoTransaction, SelectorOK
      <3>2. CASE UNCHANGED pending
        BY <2>5, <3>2
        DEF FailedScheduleRemove, CancelRemove, SelectorOK, TakenUp, RestartsAfterApply
      <3> QED
        BY <2>5, <3>1, <3>2 DEF FailedScheduleRemove, CancelRemove
    <2>6. CASE FailedScheduleClear \/ FailedScheduleGrub \/ CancelClear \/ CancelGrub \/ CancelFails
      <3>1. /\ UNCHANGED <<pending, requested, used>>
            /\ nextEntry' = NoTxn \/ nextEntry' = nextEntry
            /\ pc' \notin {"sGrub", "sArm", "sOnce"}
            /\ RegenerateGrub \/ UNCHANGED grubEntry
        BY <2>6
        DEF FailedScheduleClear, FailedScheduleGrub, CancelClear, CancelGrub, CancelFails, ClearOnce
      <3> QED
        BY <3>1, RegeneratedMenu, SelectorFrame DEF SelectorOK, TakenUp
    <2> QED
      BY <1>3, <2>1, <2>2, <2>3, <2>4, <2>5, <2>6 DEF CoordinatorNext, Schedule, Cancel
  <1>4. CASE ConfirmationNext
    <2>1. CASE ReconcileSkippedEngine \/ ReconcileConfirm
      <3>1. /\ pending'.id = pending.id
            /\ requested = pending.id \/ pending.phase = "BootedUnconfirmed"
            /\ UNCHANGED <<requested, bootVars, used>>
            /\ pc' \in {"clear", "lineage", "scheduleCleanup"}
        BY <2>1, RecordTyped
        DEF ReconcileSkippedEngine, ReconcileConfirm, RecordFailure, Transition, FinishStart,
            Transactions
      <3> QED
        BY <3>1, SelectorFrame DEF SelectorOK, TakenUp
    <2>2. CASE \/ \E t \in Txns : \/ CleanupComplete(t) \/ CleanupDefer(t)
                                  \/ \E s \in Slots : CleanupDelete(t, s)
               \/ \E s \in Slots, k \in NestedKinds : NestedAppears(s, k)
      <3>1. UNCHANGED <<pending, requested, bootVars, used, pc>>
        BY <2>2
        DEF CleanupComplete, CleanupDefer, CleanupDelete, NestedAppears
      <3> QED
        BY <3>1 DEF SelectorOK, TakenUp, RestartsAfterApply
    <2>3. CASE FinishRemove
      BY <2>3 DEF FinishRemove, RemoveTransaction, NoTransaction, SelectorOK
    <2>4. CASE \/ ReconcileCleanups \/ ReconcileResume \/ FinishLineage
               \/ FinishScheduleCleanup \/ FinishPurgeVerify \/ FinishPurge \/ FinishClear
               \/ FinishArchive \/ FinishGrub \/ CleanupPassEnds \/ FinishFails
      <3>1. /\ UNCHANGED <<pending, requested, used>>
            /\ nextEntry' = NoTxn \/ nextEntry' = nextEntry
            /\ pc' \notin {"sGrub", "sArm", "sOnce"}
            /\ RegenerateGrub \/ UNCHANGED grubEntry
        BY <2>4
        DEF ReconcileCleanups, ReconcileResume, FinishLineage, FinishScheduleCleanup,
            FinishPurgeVerify, FinishPurge, FinishClear, FinishArchive, FinishGrub,
            CleanupPassEnds, FinishFails, FinishStart, ClearOnce
      <3> QED
        BY <3>1, RegeneratedMenu, SelectorFrame DEF SelectorOK, TakenUp
    <2> QED
      BY <1>4, <2>1, <2>2, <2>3, <2>4 DEF ConfirmationNext, Reconcile, Finish
  <1> QED
    BY <1>1, <1>2, <1>3, <1>4 DEF Next

-----------------------------------------------------------------------------
(* The hand-over to the mounted system, where every boot runs the hook.    *)
LEMMA HandOffInductive ==
  ASSUME Inductive, HandOffOK, Next, ~HookMayBeSkipped PROVE HandOffOK'
  <1> USE DEF UserspaceStep, Goto, ledgerVars, diskVars, hostVars, passVars
  <1>1. CASE BootNext
    BY <1>1
    DEF BootNext, PowerOn, RescueBoot, HookSkipped, PowerLoss, OperatorReboot, Restart,
        RestartFails, HookAgain, GoDown, HandOffOK
  <1>2. CASE EngineNext
    <2> USE DEF Leave, Write, InEngine, ContinueBoot, RequireRestart, Die, BootOn, Proceed
    <2>1. /\ machine = "initramfs" /\ pending \in Transactions
          /\ pending.id = NoTxn => pending.phase = NoPhase
      BY <1>2, RecordTyped
      DEF EngineNext, EngineProgress, HookStart, Dispatch, DispatchReverted, DispatchSettled,
          DispatchArmedElsewhere, DispatchArmedExhausted, DispatchApply, DispatchAwaiting,
          DispatchBooted, DispatchRevert, DispatchReverting, ValidateSucceeds, ValidateFails,
          Switch, ApplySnapshot, ApplyProtect, ApplyActivate, RevertMoveAside,
          RevertActivate, RevertDiscard, RevertRefused, FinishApply, FinishRevert, HandOff,
          EngineError, Moves
    <2>2. CASE HookStart \/ HandOff \/ DispatchSettled \/ DispatchBooted
      BY <2>1, <2>2
      DEF HookStart, HandOff, DispatchSettled, DispatchBooted, HandOffOK, Terminal, NoPhase
    <2>3. CASE DispatchArmedElsewhere \/ DispatchArmedExhausted \/ DispatchAwaiting
      BY <2>1, <2>3
      DEF DispatchArmedElsewhere, DispatchArmedExhausted, DispatchAwaiting, RecordFailure,
          RecordTargetBoot, HandOffOK, Transactions
    <2>4. CASE FinishApply \/ FinishRevert
      BY <2>1, <2>4 DEF FinishApply, FinishRevert, Transition, HandOffOK, Transactions
    <2>5. CASE \/ DispatchReverted \/ DispatchApply \/ DispatchRevert \/ DispatchReverting
               \/ ValidateSucceeds \/ ValidateFails \/ EngineError
               \/ \E s \in Slots : \/ ApplySnapshot(s) \/ ApplyProtect(s) \/ ApplyActivate(s)
                                   \/ RevertMoveAside(s) \/ RevertActivate(s)
                                   \/ RevertDiscard(s) \/ RevertRefused(s)
      <3>1. machine' # "running" /\ pc' # "handOff"
        BY <2>1, <2>5
        DEF DispatchReverted, DispatchApply, DispatchRevert, DispatchReverting,
            ValidateSucceeds, ValidateFails, EngineError, ApplySnapshot, ApplyProtect,
            ApplyActivate, RevertMoveAside, RevertActivate, RevertDiscard, RevertRefused, Moves
      <3> QED
        BY <3>1 DEF HandOffOK
    <2> QED
      BY <1>2, <2>2, <2>3, <2>4, <2>5 DEF EngineNext, EngineProgress, Dispatch, Switch
  <1>3. CASE CoordinatorNext
    <2>1. machine = "running"
      BY <1>3
      DEF CoordinatorNext, Schedule, ScheduleCreate, ScheduleGrub, ScheduleArm, ScheduleOnce,
          FailedScheduleClear, FailedScheduleRemove, FailedScheduleGrub, ScheduleFails, Cancel,
          CancelClear, CancelRemove, CancelGrub, CancelFails
    <2>2. pending'.phase \in {"Preparing", "Armed", NoPhase, pending.phase}
      BY <1>3, CoordinatorEffect DEF Begun, Dropped, Kept, NoTransaction
    <2> QED
      BY <2>1, <2>2 DEF HandOffOK, NoPhase
  <1>4. CASE ConfirmationNext
    <2>1. machine = "running"
      BY <1>4
      DEF ConfirmationNext, Reconcile, ReconcileCleanups, ReconcileSkippedEngine,
          ReconcileConfirm, ReconcileResume, Finish, FinishLineage, FinishScheduleCleanup,
          FinishPurgeVerify, FinishPurge, FinishClear, FinishArchive, FinishRemove, FinishGrub,
          CleanupPassEnds, CleanupComplete, CleanupDelete, FinishFails, CleanupDefer, InPass,
          NestedAppears
    <2>2. pending'.phase \in {"Failed", "Confirmed", NoPhase, pending.phase}
      BY <1>4, RecordTyped
      DEF ConfirmationNext, Reconcile, ReconcileCleanups, ReconcileSkippedEngine,
          ReconcileConfirm, ReconcileResume, Finish, FinishLineage, FinishScheduleCleanup,
          FinishPurgeVerify, FinishPurge, FinishClear, FinishArchive, FinishRemove, FinishGrub,
          CleanupPassEnds, CleanupComplete, CleanupDelete, FinishFails, CleanupDefer,
          NestedAppears, RecordFailure, Transition, RemoveTransaction, NoTransaction,
          Transactions
    <2> QED
      BY <2>1, <2>2 DEF HandOffOK, NoPhase
  <1> QED
    BY <1>1, <1>2, <1>3, <1>4 DEF Next

-----------------------------------------------------------------------------
(* The restart that follows a switch, where the selector alone chooses.    *)

(* Userspace never touches what a boot has written down: not the attempts  *)
(* it counted, not its id, not the kernel command line.                    *)
LEMMA UserspaceEffect ==
  ASSUME Inductive, CoordinatorNext \/ ConfirmationNext
  PROVE  /\ machine = "running" /\ UNCHANGED <<machine, requested, switched>>
         /\ \/ pending'.id = NoTxn
            \/ \E t \in Txns \ used : pending'.id = t /\ pending'.initramfsAttempts = 0
            \/ /\ pending'.id = pending.id
               /\ pending'.initramfsAttempts = pending.initramfsAttempts
               /\ pending'.initramfsBoot = pending.initramfsBoot
         /\ nextEntry' \in {NoTxn, nextEntry} \/ pc = "sOnce"
         /\ pc' \notin {"dispatch", "validate", "apply", "revert"}
              \/ (pc' = pc /\ pending' = pending)
  <1> USE DEF UserspaceStep, Goto, hostVars, bootVars
  <1>1. CASE \E t \in Txns : ScheduleCreate(t)
    <2>1. PICK t \in Txns : ScheduleCreate(t)
      BY <1>1
    <2>2. pending'.id = t /\ pending'.initramfsAttempts = 0 /\ t \notin used
      BY <2>1 DEF ScheduleCreate, CreateTransaction, NewTransaction, NoTransaction
    <2> QED
      BY <2>1, <2>2 DEF ScheduleCreate
  <1>2. CASE ScheduleArm \/ ReconcileSkippedEngine \/ ReconcileConfirm
    <2>1. /\ pending'.id = pending.id
          /\ pending'.initramfsAttempts = pending.initramfsAttempts
          /\ pending'.initramfsBoot = pending.initramfsBoot
      BY <1>2, RecordTyped
      DEF ScheduleArm, ReconcileSkippedEngine, ReconcileConfirm, RecordFailure, Transition,
          Transactions
    <2> QED
      BY <1>2, <2>1 DEF ScheduleArm, ReconcileSkippedEngine, ReconcileConfirm, FinishStart
  <1>3. CASE \/ ScheduleGrub \/ ScheduleOnce \/ FailedScheduleClear \/ FailedScheduleRemove
             \/ FailedScheduleGrub \/ ScheduleFails \/ Cancel \/ CancelFails
    BY <1>3
    DEF ScheduleGrub, ScheduleOnce, FailedScheduleClear, FailedScheduleRemove,
        FailedScheduleGrub, ScheduleFails, Cancel, CancelClear, CancelRemove, CancelGrub,
        CancelFails, ClearOnce, RemoveTransaction, NoTransaction
  <1>4. CASE \/ ReconcileCleanups \/ ReconcileResume \/ FinishLineage
             \/ FinishScheduleCleanup \/ FinishPurgeVerify \/ FinishPurge \/ FinishClear
             \/ FinishArchive \/ FinishRemove \/ FinishGrub \/ CleanupPassEnds \/ FinishFails
    BY <1>4
    DEF ReconcileCleanups, ReconcileResume, FinishLineage, FinishScheduleCleanup,
        FinishPurgeVerify, FinishPurge, FinishClear, FinishArchive, FinishRemove, FinishGrub,
        CleanupPassEnds, FinishFails, FinishStart, ClearOnce, RemoveTransaction, NoTransaction
  <1>5. CASE \/ \E t \in Txns : \/ CleanupComplete(t) \/ CleanupDefer(t)
                               \/ \E s \in Slots : CleanupDelete(t, s)
             \/ \E s \in Slots, k \in NestedKinds : NestedAppears(s, k)
    BY <1>5 DEF CleanupComplete, CleanupDefer, CleanupDelete, NestedAppears, InPass
  <1> QED
    BY <1>1, <1>2, <1>3, <1>4, <1>5
    DEF CoordinatorNext, Schedule, ConfirmationNext, Reconcile, Finish

(* An engine step keeps the attempts and the boot id in the record, or     *)
(* writes this boot down.                                                  *)
LEMMA EngineNotes ==
  ASSUME Inductive, EngineNext
  PROVE  \/ /\ pending'.initramfsAttempts = pending.initramfsAttempts
            /\ pending'.initramfsBoot \in {pending.initramfsBoot, "this"}
         \/ requested = pending.id /\ pending'.initramfsBoot = "this"
  <1> USE DEF Leave, Write
  <1>1. pending \in Transactions
    BY RecordTyped
  <1>2. \/ pending' \in {pending, RecordFailure(pending), RecordTargetBoot(pending),
                        BeginApply(pending), [pending EXCEPT !.initramfsBoot = "this"]}
        \/ \E next \in Phases : pending' = Transition(pending, next)
        \/ requested = pending.id /\ pending' = RecordInitramfsEntry(pending)
    BY DEF EngineNext, EngineProgress, HookStart, Dispatch, DispatchReverted, DispatchSettled,
           DispatchArmedElsewhere, DispatchArmedExhausted, DispatchApply, DispatchAwaiting,
           DispatchBooted, DispatchRevert, DispatchReverting, ValidateSucceeds, ValidateFails,
           Switch, ApplySnapshot, ApplyProtect, ApplyActivate, RevertMoveAside,
           RevertActivate, RevertDiscard, RevertRefused, FinishApply, FinishRevert, HandOff,
           EngineError, Moves, MayApply, Phases
  <1> QED
    BY <1>1, <1>2
    DEF RecordFailure, RecordTargetBoot, BeginApply, Transition, RecordInitramfsEntry,
        Transactions

(* At most one boot is requested for a rollback with protocol 3, and it    *)
(* writes itself down with the first attempt it counts.                    *)
LEMMA SelectedOnceInductive ==
  ASSUME Inductive, RecordOK, SelectorOK, SelectedOnce, Next, ~ManualSelection
  PROVE  SelectedOnce'
  <1> USE DEF Restarting, RestartsAfterApply
  <1>1. CASE BootNext
    <2>1. ASSUME NEW entry \in Txns \cup {NoTxn}, PowerOn(entry) PROVE SelectedOnce'
      <3>1. /\ UNCHANGED pending /\ requested' = entry
            /\ nextEntry' = IF entry # NoTxn /\ Protocol[entry] = 2 THEN entry ELSE NoTxn
            /\ entry = NoTxn \/ entry = nextEntry
        BY <2>1 DEF PowerOn, GrubSelects, Selectable
      <3> QED
        BY <3>1, RecordTyped DEF SelectedOnce, Transactions
    <2>2. CASE GoDown
      <3>1. /\ requested' = NoTxn /\ nextEntry' = nextEntry
            /\ pending'.id = pending.id
            /\ pending'.initramfsAttempts = pending.initramfsAttempts
        BY <2>2, RecordTyped DEF GoDown, AfterPowerCycle, Transactions, bootVars
      <3> QED
        BY <3>1 DEF SelectedOnce
    <2>3. CASE RescueBoot \/ HookSkipped \/ RestartFails \/ HookAgain
      <3>1. UNCHANGED <<pending, requested, nextEntry>>
        BY <2>3 DEF RescueBoot, HookSkipped, RestartFails, HookAgain, bootVars
      <3> QED
        BY <3>1 DEF SelectedOnce
    <2> QED
      BY <1>1, <2>1, <2>2, <2>3 DEF BootNext, PowerLoss, OperatorReboot, Restart
  <1>2. CASE EngineNext
    <2>1. UNCHANGED <<requested, nextEntry>> /\ pending'.id = pending.id
      BY <1>2, EngineEffect
    <2> QED
      BY <1>2, <2>1, EngineNotes DEF SelectedOnce
  <1>3. CASE CoordinatorNext \/ ConfirmationNext
    <2>1. pc = "sOnce" => pending.initramfsAttempts = 0 /\ requested # pending.id
      BY DEF SelectorOK
    <2>2. \A t \in Txns \ used : requested # t
      BY TxnAssumption DEF SelectorOK
    <2> QED
      BY <1>3, <2>1, <2>2, UserspaceEffect DEF SelectedOnce
  <1> QED
    BY <1>1, <1>2, <1>3 DEF Next

(* A boot that reverts a rollback with protocol 3 is written down before   *)
(* the revert begins.                                                      *)
LEMMA BootNotedInductive ==
  ASSUME Inductive, RecordOK, SelectedOnce, BootNoted, Next
  PROVE  BootNoted'
  <1> USE DEF Restarting, RestartsAfterApply
  <1>1. CASE BootNext
    BY <1>1, BootEffect DEF BootNoted
  <1>2. CASE EngineNext
    <2> USE DEF Leave, Write, InEngine, ContinueBoot, RequireRestart, Die, BootOn, Proceed
    <2>1. UNCHANGED requested /\ pending'.id = pending.id /\ pending \in Transactions
      BY <1>2, EngineEffect, RecordTyped
    <2>2. CASE HookStart
      <3>1. CASE pending.id # NoTxn
        <4>1. /\ pc' = "dispatch"
              /\ pending' = IF RemembersRevertBoot
                              THEN [pending EXCEPT !.initramfsBoot = "this"] ELSE pending
          BY <2>2, <3>1 DEF HookStart
        <4>2. /\ pending'.phase = pending.phase /\ pending'.targetBoot = pending.targetBoot
              /\ RemembersRevertBoot => pending'.initramfsBoot = "this"
          BY <2>1, <4>1 DEF Transactions
        <4>3. RemembersRevertBoot' <=> RemembersRevertBoot
          BY <2>1, <4>2 DEF RemembersRevertBoot
        <4> QED
          BY <4>1, <4>2, <4>3 DEF BootNoted
      <3>2. CASE pending.id = NoTxn
        BY <2>1, <3>2 DEF BootNoted
      <3> QED
        BY <3>1, <3>2
    <2>3. CASE DispatchApply
      <3>1. pc' = "validate" /\ requested = pending.id
        BY <2>3 DEF DispatchApply, MayApply
      <3> QED
        BY <2>1, <3>1 DEF BootNoted
    <2>4. CASE DispatchRevert \/ DispatchReverting
      <3>1. /\ pc = "dispatch" /\ pc' = "revert"
            /\ pending' = pending \/ pending' = Transition(pending, "Reverting")
        BY <2>4 DEF DispatchRevert, DispatchReverting
      <3>2. pending'.initramfsBoot = pending.initramfsBoot
        BY <2>1, <3>1 DEF Transition, Transactions
      <3>3. ASSUME Restarting PROVE pending.initramfsBoot = "this"
        <4>1. CASE RemembersRevertBoot
          BY <3>1, <3>3, <4>1 DEF BootNoted
        <4>2. CASE ~RemembersRevertBoot
          <5>1. pending.phase = "Applying" /\ requested # NoTxn
            BY <2>4, <3>3, <4>2
            DEF DispatchRevert, DispatchReverting, RemembersRevertBoot, ExpectedBoot
          <5>2. pending.initramfsAttempts > 0
            BY <2>1, <3>3, <5>1
            DEF RecordOK, PendingRecordLoads, ValidTransaction, ValidAttempts, Transactions,
                MaxApplyAttempts
          <5> QED
            BY <3>3, <5>1, <5>2 DEF SelectedOnce
        <4> QED
          BY <4>1, <4>2
      <3> QED
        BY <2>1, <3>1, <3>2, <3>3 DEF BootNoted
    <2>5. CASE ValidateSucceeds
      <3>1. pc = "validate" /\ pc' = "apply" /\ pending' = BeginApply(pending)
        BY <2>5 DEF ValidateSucceeds
      <3>2. pending'.applyingBoot = "this"
        BY <2>1, <3>1 DEF BeginApply, Transactions
      <3> QED
        BY <2>1, <3>1, <3>2 DEF BootNoted
    <2>6. CASE \E s \in Slots : \/ ApplySnapshot(s) \/ ApplyProtect(s) \/ ApplyActivate(s)
                                \/ RevertMoveAside(s) \/ RevertActivate(s) \/ RevertDiscard(s)
      <3>1. pending' = pending /\ pc' = pc
        BY <2>6
        DEF ApplySnapshot, ApplyProtect, ApplyActivate, RevertMoveAside, RevertActivate,
            RevertDiscard, Moves
      <3> QED
        BY <2>1, <3>1 DEF BootNoted, RemembersRevertBoot
    <2>7. CASE \/ DispatchReverted \/ DispatchSettled \/ DispatchArmedElsewhere
               \/ DispatchArmedExhausted \/ DispatchAwaiting \/ DispatchBooted
               \/ ValidateFails \/ EngineError \/ HandOff \/ FinishApply \/ FinishRevert
               \/ \E s \in Slots : RevertRefused(s)
      <3>1. pc' \in {"restart", "handOff", "idle"}
        BY <2>7
        DEF DispatchReverted, DispatchSettled, DispatchArmedElsewhere, DispatchArmedExhausted,
            DispatchAwaiting, DispatchBooted, ValidateFails, EngineError, HandOff, FinishApply,
            FinishRevert, RevertRefused
      <3> QED
        BY <3>1 DEF BootNoted
    <2> QED
      BY <1>2, <2>2, <2>3, <2>4, <2>5, <2>6, <2>7
      DEF EngineNext, EngineProgress, Dispatch, Switch
  <1>3. CASE CoordinatorNext \/ ConfirmationNext
    <2>1. UNCHANGED requested
      BY <1>3, UserspaceEffect
    <2>2. CASE pc' \notin {"dispatch", "validate", "apply", "revert"}
      BY <2>2 DEF BootNoted
    <2>3. CASE pc' = pc /\ pending' = pending
      BY <2>1, <2>3 DEF BootNoted, RemembersRevertBoot
    <2> QED
      BY <1>3, <2>2, <2>3, UserspaceEffect
  <1> QED
    BY <1>1, <1>2, <1>3 DEF Next

(* A boot that has moved a subvolume under protocol 3 can only restart.    *)
LEMMA CarriesToRestartInductive ==
  ASSUME Inductive, RecordOK, BootNoted, BootNoted', CarriesToRestart, Next,
         ~HookMayBeSkipped
  PROVE  CarriesToRestart'
  <1> DEFINE Carrying == switched # NoTxn /\ Protocol[switched] = 3
  <1>1. CASE BootNext
    <2>1. CASE GoDown
      BY <2>1 DEF GoDown, CarriesToRestart
    <2>2. CASE (\E entry \in Txns \cup {NoTxn} : PowerOn(entry)) \/ RescueBoot
      BY <2>2 DEF PowerOn, RescueBoot, CarriesToRestart
    <2>3. CASE RestartFails \/ HookAgain
      BY <2>3 DEF RestartFails, HookAgain, Goto, CarriesToRestart
    <2> QED
      BY <1>1, <2>1, <2>2, <2>3
      DEF BootNext, PowerLoss, OperatorReboot, Restart, HookSkipped
  <1>2. CASE EngineNext
    <2> USE DEF Leave, Write, InEngine, ContinueBoot, RequireRestart, Die, BootOn, Proceed
    <2>1. /\ UNCHANGED requested /\ pending'.id = pending.id /\ pending \in Transactions
          /\ pending.id = NoTxn <=> pending.phase = NoPhase
      BY <1>2, EngineEffect, RecordTyped
    <2>2. CASE \E s \in Slots : \/ ApplySnapshot(s) \/ ApplyProtect(s) \/ ApplyActivate(s)
                                \/ RevertMoveAside(s) \/ RevertActivate(s) \/ RevertDiscard(s)
      <3>1. /\ switched' = pending.id /\ UNCHANGED pending /\ pc' = pc
            /\ pc \in {"apply", "revert"} /\ machine' = "initramfs"
        BY <2>2
        DEF ApplySnapshot, ApplyProtect, ApplyActivate, RevertMoveAside, RevertActivate,
            RevertDiscard, Moves
      <3>2. /\ pc = "apply" => pending.phase = "Applying"
            /\ pc = "revert" => pending.phase = "Reverting"
        BY DEF Inductive, ControlOK
      <3> QED
        BY <2>1, <3>1, <3>2
        DEF CarriesToRestart, BootNoted, Restarting, RestartsAfterApply
    <2>3. ASSUME UNCHANGED switched, ~Carrying PROVE CarriesToRestart'
      BY <2>3 DEF CarriesToRestart
    <2>4. ASSUME UNCHANGED switched, Carrying,
                 machine' \in {"initramfs", "halted"}, pc' # "handOff",
                 \/ pending' = pending
                 \/ /\ pending'.phase = pending.phase
                    /\ pending'.applyingBoot \in {pending.applyingBoot, "this"}
                    /\ pending'.initramfsBoot \in {pending.initramfsBoot, "this"}
                 \/ pending'.phase = "Applying" /\ requested = pending.id
                 \/ pending'.phase = "AppliedAwaitingBoot" /\ pending'.applyingBoot = "this"
                 \/ pending'.phase \in {"Reverting", "Reverted"} /\ pending'.initramfsBoot = "this"
          PROVE  CarriesToRestart'
      BY <2>1, <2>4 DEF CarriesToRestart
    <2>5. Carrying =>
             /\ Restarting /\ switched = pending.id /\ pc # "handOff"
             /\ \/ pending.phase = "Applying" /\ requested = pending.id
                \/ pending.phase = "AppliedAwaitingBoot" /\ pending.applyingBoot = "this"
                \/ pending.phase \in {"Reverting", "Reverted"} /\ pending.initramfsBoot = "this"
      BY <2>1 DEF CarriesToRestart, Restarting, RestartsAfterApply
    <2>6. CASE HookStart
      <3>1. CASE Carrying
        <4>1. /\ UNCHANGED <<switched, machine>> /\ pc' = "dispatch"
              /\ pending' \in {pending, [pending EXCEPT !.initramfsBoot = "this"]}
              /\ machine = "initramfs"
          BY <2>5, <2>6, <3>1 DEF HookStart, Unmoved, Restarting
        <4> QED
          BY <2>1, <2>4, <3>1, <4>1 DEF Transactions
      <3> QED
        BY <2>3, <2>6, <3>1 DEF HookStart, Unmoved
    <2>7. CASE DispatchReverted \/ DispatchReverting \/ EngineError \/ \E s \in Slots : RevertRefused(s)
      BY <2>3, <2>4, <2>7
      DEF DispatchReverted, DispatchReverting, EngineError, RevertRefused, Unmoved
    <2>8. CASE HandOff \/ DispatchSettled \/ DispatchBooted
                \/ DispatchArmedElsewhere \/ DispatchArmedExhausted
      <3>1. ~Carrying
        BY <2>5, <2>8
        DEF HandOff, DispatchSettled, DispatchBooted, DispatchArmedElsewhere,
            DispatchArmedExhausted, RevertedInThisBoot, Terminal, Restarting
      <3> QED
        BY <2>3, <2>8, <3>1
        DEF HandOff, DispatchSettled, DispatchBooted, DispatchArmedElsewhere,
            DispatchArmedExhausted, Unmoved
    <2>9. CASE DispatchApply \/ ValidateSucceeds
      <3>1. CASE Carrying
        <4>1. /\ UNCHANGED switched /\ machine' = "initramfs" /\ pc' # "handOff"
              /\ pending' \in {RecordInitramfsEntry(pending), BeginApply(pending)}
              /\ pending.phase \in {"Armed", "Applying"}
          BY <2>9 DEF DispatchApply, ValidateSucceeds, Unmoved, Inductive, ControlOK
        <4>2. pending'.phase = "Applying" /\ requested = pending.id
          BY <2>1, <2>5, <3>1, <4>1 DEF RecordInitramfsEntry, BeginApply, Transactions
        <4> QED
          BY <2>4, <3>1, <4>1, <4>2
      <3> QED
        BY <2>3, <2>9, <3>1 DEF DispatchApply, ValidateSucceeds, Unmoved
    <2>10. CASE DispatchAwaiting \/ ValidateFails
      <3>1. CASE Carrying
        <4>1. /\ UNCHANGED <<switched, pending>> /\ machine' \in {"initramfs", "halted"}
              /\ pc' # "handOff"
          BY <2>5, <2>10, <3>1
          DEF DispatchAwaiting, ValidateFails, Unmoved, Inductive, ControlOK
        <4> QED
          BY <2>4, <3>1, <4>1
      <3> QED
        BY <2>3, <2>10, <3>1 DEF DispatchAwaiting, ValidateFails, Unmoved
    <2>11. CASE DispatchRevert
      <3>1. CASE Carrying
        <4>1. /\ UNCHANGED switched /\ machine' = "initramfs" /\ pc' = "revert"
              /\ pending' = Transition(pending, "Reverting")
          BY <2>11 DEF DispatchRevert, Unmoved
        <4>2. pending'.phase = "Reverting" /\ pending'.initramfsBoot = "this"
          BY <2>1, <2>5, <3>1, <4>1
          DEF Transition, Transactions, BootNoted, Restarting, RestartsAfterApply
        <4> QED
          BY <2>4, <3>1, <4>1, <4>2
      <3> QED
        BY <2>3, <2>11, <3>1 DEF DispatchRevert, Unmoved
    <2>12. CASE FinishApply \/ FinishRevert
      <3>1. CASE Carrying
        <4>1. /\ UNCHANGED switched /\ machine' = "initramfs" /\ pc' = "restart"
              /\ \/ pc = "apply" /\ pending' = Transition(pending, "AppliedAwaitingBoot")
                 \/ pc = "revert" /\ pending' = Transition(pending, "Reverted")
          BY <2>5, <2>12, <3>1 DEF FinishApply, FinishRevert, Unmoved, Restarting
        <4>2. \/ pending'.phase = "AppliedAwaitingBoot" /\ pending'.applyingBoot = "this"
              \/ pending'.phase = "Reverted" /\ pending'.initramfsBoot = "this"
          BY <2>1, <2>5, <3>1, <4>1
          DEF Transition, Transactions, BootNoted, Restarting
        <4> QED
          BY <2>4, <3>1, <4>1, <4>2
      <3> QED
        BY <2>3, <2>12, <3>1 DEF FinishApply, FinishRevert, Unmoved
    <2> QED
      BY <1>2, <2>2, <2>6, <2>7, <2>8, <2>9, <2>10, <2>11, <2>12
      DEF EngineNext, EngineProgress, Dispatch, Switch
  <1>3. CASE CoordinatorNext \/ ConfirmationNext
    BY <1>3, UserspaceEffect DEF CarriesToRestart
  <1> QED
    BY <1>1, <1>2, <1>3 DEF Next

-----------------------------------------------------------------------------
LEMMA LifecycleStarts == Init => LifecycleOK
  <1> SUFFICES ASSUME Init PROVE LifecycleOK
    OBVIOUS
  <1>1. Inductive /\ LedgerOK /\ DeletionOK
    BY SettlementStarts DEF SettlementOK
  <1>2. /\ pending.id = NoTxn /\ pc = "idle" /\ requested = NoTxn /\ switched = NoTxn
        /\ pending.phase = NoPhase
    BY DEF Init, NoTransaction
  <1>3. RecordOK /\ HandOffOK
    BY <1>2 DEF RecordOK, PendingRecordLoads, HandOffOK, NoPhase
  <1>4. SelectorOK
    BY <1>2 DEF Init, SelectorOK
  <1>5. RestartOK
    BY <1>2 DEF RestartOK, SelectedOnce, BootNoted, CarriesToRestart, Restarting
  <1> QED
    BY <1>1, <1>3, <1>4, <1>5 DEF LifecycleOK

LEMMA LifecycleStutters == ASSUME LifecycleOK, UNCHANGED vars PROVE LifecycleOK'
  <1>1. Inductive' /\ LedgerOK' /\ DeletionOK'
    BY SettlementStutters DEF LifecycleOK, SettlementOK
  <1>2. RecordOK' /\ SelectorOK'
    BY DEF LifecycleOK, RecordOK, PendingRecordLoads, ValidTransaction, ValidAttempts,
           ValidRestart, RestartsAfterApply, SelectorOK, TakenUp, vars, bootVars, hostVars
  <1>3. /\ HandOffOK => HandOffOK'
        /\ RestartOK => RestartOK'
    BY DEF HandOffOK, RestartOK, SelectedOnce, BootNoted, CarriesToRestart, Restarting,
           RestartsAfterApply, RemembersRevertBoot, vars, bootVars, hostVars
  <1> QED
    BY <1>1, <1>2, <1>3 DEF LifecycleOK

(* The invariant behind every safety property of the lifecycle holds in    *)
(* every behaviour of the four parts together.                             *)
THEOREM LifecycleIsOK == Spec => []LifecycleOK
  <1>1. ASSUME LifecycleOK, Next PROVE LifecycleOK'
    <2>1. Inductive' /\ LedgerOK' /\ DeletionOK'
      BY <1>1, BootInductive, EngineInductive, CoordinatorInductive, ConfirmationInductive,
         LedgerInductive, DeletionInductive
      DEF LifecycleOK, Next
    <2>2. RecordOK' /\ SelectorOK'
      BY <1>1, RecordInductive, SelectorInductive DEF LifecycleOK
    <2>3. ~HookMayBeSkipped => HandOffOK'
      BY <1>1, HandOffInductive DEF LifecycleOK
    <2>4. ASSUME ~HookMayBeSkipped, ~ManualSelection PROVE RestartOK'
      <3>1. RestartOK
        BY <1>1, <2>4 DEF LifecycleOK
      <3>2. SelectedOnce' /\ BootNoted'
        BY <1>1, <2>4, <3>1, SelectedOnceInductive, BootNotedInductive DEF LifecycleOK, RestartOK
      <3> QED
        BY <1>1, <2>4, <3>1, <3>2, CarriesToRestartInductive DEF LifecycleOK, RestartOK
    <2> QED
      BY <2>1, <2>2, <2>3, <2>4 DEF LifecycleOK
  <1>2. LifecycleOK /\ [Next]_vars => LifecycleOK'
    BY <1>1, LifecycleStutters
  <1> QED
    BY <1>2, LifecycleStarts, PTL DEF Spec

(* No sequence of boots, failed steps and services that run again leaves a *)
(* record that the next boot refuses to load.                              *)
THEOREM RecordAlwaysLoads == Spec => []PendingRecordLoads
  <1>1. LifecycleOK => PendingRecordLoads
    BY DEF LifecycleOK, RecordOK
  <1> QED
    BY <1>1, LifecycleIsOK, PTL

(* No restart after early boot has taken up a rollback with protocol 3     *)
(* selects its menu entry again, whatever the user picks by hand.          *)
THEOREM NoEntryLoop == Spec => []NoRecoveryEntryLoop
  <1>1. LifecycleOK => NoRecoveryEntryLoop
    BY RecordTyped
    DEF LifecycleOK, SelectorOK, TakenUp, NoRecoveryEntryLoop, RestartsAfterApply, Phases, NoPhase
  <1> QED
    BY <1>1, LifecycleIsOK, PTL

(* Where every initramfs runs its hook, the system never runs with one     *)
(* half of a rollback.                                                     *)
THEOREM WholeSystemRuns ==
  ASSUME ~HookMayBeSkipped PROVE Spec => []RunsWholeSystem
  <1>1. LifecycleOK => RunsWholeSystem
    <2> SUFFICES ASSUME LifecycleOK, machine = "running" PROVE RunsWholeSystem
      BY DEF RunsWholeSystem
    <2>1. pending.phase \notin {"Applying", "AppliedAwaitingBoot", "Reverting"}
      BY DEF LifecycleOK, HandOffOK
    <2>2. Inductive
      BY DEF LifecycleOK
    <2>3. CASE pending.id = NoTxn
      BY <2>2, <2>3 DEF RunsWholeSystem, Inductive, LayoutOK
    <2>4. CASE pending.id # NoTxn
      <3>1. \A s \in Slots : SlotOK(s) /\ pending.base[s] # Absent /\ pending.id # Absent
        BY <2>2, <2>4, RecordTyped, TxnAssumption
        DEF Inductive, LayoutOK, Transactions, Subvols
      <3>2. \/ \A s \in Slots : AtBase(s)
            \/ \A s \in Slots : IF s \in Affected(Kind[pending.id]) THEN AtTarget(s) ELSE AtBase(s)
        BY <2>1, <2>2, <2>4, <3>1, RecordTyped
        DEF SlotOK, Untouched, Replaced, Lies, AtBase, AtTarget, Phases
      <3>3. Affected(Kind[pending.id]) \subseteq Slots
        BY DEF Affected, Slots
      <3>4. \A s \in Slots : cur[s] # Absent
        BY <3>1, <3>2 DEF AtBase, AtTarget
      <3>5. \/ \A s \in Slots : AtBase(s)
            \/ \A s \in Affected(Kind[pending.id]) : AtTarget(s)
        BY <3>2, <3>3
      <3> QED
        BY <3>4, <3>5 DEF RunsWholeSystem
    <2> QED
      BY <2>3, <2>4
  <1> QED
    BY <1>1, LifecycleIsOK, PTL

(* Where, besides, the selector alone chooses the boot entry, no kernel    *)
(* that moved a subvolume under protocol 3 is carried into the result.     *)
THEOREM KernelIsNotCarriedOver ==
  ASSUME ~HookMayBeSkipped, ~ManualSelection PROVE Spec => []NoKernelCarryOver
  <1>1. LifecycleOK => NoKernelCarryOver
    BY TxnAssumption
    DEF LifecycleOK, RestartOK, CarriesToRestart, NoKernelCarryOver, Inductive, TypeOK
  <1> QED
    BY <1>1, LifecycleIsOK, PTL

-----------------------------------------------------------------------------
(* Only the confirmation service confirms, and the record tells it that    *)
(* this boot is the restored system's.                                     *)
LEMMA ConfirmStep ==
  ASSUME LifecycleOK, Next, pending.phase # "Confirmed", pending'.phase = "Confirmed"
  PROVE  /\ machine = "running"
         /\ pending.applyingBoot = (IF RestartsAfterApply(pending) THEN "past" ELSE "this")
  <1>0. Inductive
    BY DEF LifecycleOK
  <1>1. ~BootNext
    BY <1>0, BootEffect
  <1>2. ~EngineNext
    BY <1>0, EngineEffect
  <1>3. ~CoordinatorNext
    BY <1>0, CoordinatorEffect DEF Begun, Dropped, Kept, NoTransaction, NoPhase
  <1>4. ConfirmationNext
    BY <1>1, <1>2, <1>3 DEF Next
  <1>5. ReconcileConfirm
    <2>1. pending' # pending /\ pending' # NoTransaction
      BY DEF NoTransaction, NoPhase
    <2>2. ~FinishRemove
      BY <2>1 DEF FinishRemove, RemoveTransaction
    <2>3. ~ReconcileSkippedEngine
      BY <1>0, RecordTyped DEF ReconcileSkippedEngine, RecordFailure, Transactions
    <2>4. ~ReconcileCleanups /\ ~ReconcileResume
      BY <2>1 DEF ReconcileCleanups, ReconcileResume
    <2>5. /\ ~FinishLineage /\ ~FinishScheduleCleanup /\ ~FinishPurgeVerify /\ ~FinishPurge
          /\ ~FinishClear /\ ~FinishArchive /\ ~FinishGrub /\ ~CleanupPassEnds /\ ~FinishFails
      BY <2>1 DEF FinishLineage, FinishScheduleCleanup, FinishPurgeVerify, FinishPurge,
                  FinishClear, FinishArchive, FinishGrub, CleanupPassEnds, FinishFails
    <2>6. \A t \in Txns : /\ ~CleanupComplete(t) /\ ~CleanupDefer(t)
                         /\ \A s \in Slots : ~CleanupDelete(t, s)
      BY <2>1 DEF CleanupComplete, CleanupDefer, CleanupDelete
    <2>7. \A s \in Slots, k \in NestedKinds : ~NestedAppears(s, k)
      BY <2>1 DEF NestedAppears
    <2> QED
      BY <1>4, <2>2, <2>3, <2>4, <2>5, <2>6, <2>7 DEF ConfirmationNext, Reconcile, Finish
  <1>6. /\ pending.phase = "BootedUnconfirmed" /\ ExpectedBoot(pending) = "this"
        /\ machine = "running"
    BY <1>5 DEF ReconcileConfirm, VerifyRunningTarget, UserspaceStep
  <1>7. ValidTransaction(pending) /\ pending \in Transactions
    BY <1>0, <1>6, RecordTyped DEF LifecycleOK, RecordOK, PendingRecordLoads, NoPhase
  <1> QED
    BY <1>6, <1>7
    DEF ExpectedBoot, ValidTransaction, ValidAttempts, ValidRestart, Transactions, BootAges,
        MaxApplyAttempts

(* A rollback is confirmed by a later boot than the one that applied it    *)
(* under protocol 3, and by that very boot under protocol 2.               *)
THEOREM ConfirmedInItsOwnBoot == Spec => ConfirmsInItsOwnBoot
  <1>1. LifecycleOK /\ [Next]_vars =>
          [pending.phase # "Confirmed" /\ pending'.phase = "Confirmed" =>
              /\ machine = "running"
              /\ pending.applyingBoot = (IF RestartsAfterApply(pending) THEN "past" ELSE "this")]_vars
    BY ConfirmStep
  <1> QED
    BY <1>1, LifecycleIsOK, PTL DEF Spec, ConfirmsInItsOwnBoot
=============================================================================
