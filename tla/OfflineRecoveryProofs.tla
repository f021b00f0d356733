------------------------ MODULE OfflineRecoveryProofs ------------------------
(***************************************************************************)
(* The offline restore, proved for any number of snapshots, calls and      *)
(* failures.  The invariant OfflineOK says where the three names of the    *)
(* root lie for each phase of the journal, and what the running tool may   *)
(* rely on; it bounds the turns of converge as well.                       *)
(***************************************************************************)
EXTENDS OfflineRecovery, TLAPS

(* A tool that starts, at the transaction it found or before a new one.    *)
LEMMA RunKeeps ==
  ASSUME OfflineAssumption, OfflineOK,
         NEW at \in {"begin", "validate"}, NEW t \in Snapshots \cup {None},
         Run(at, pending, t), tool = None, world.rescue,
         at = "begin" => pending = None /\ t # None,
         at = "validate" => pending # None,
         outcome' = None,
         UNCHANGED <<disk, restorable, pending, head, world, faults>>
  PROVE  OfflineOK'
<1>1. tool' \in Tools /\ tool' # None
  BY DEF Run, Tools, Places, OfflineAssumption, OfflineOK, TypeOK
<1>2. TypeOK'
  BY <1>1 DEF OfflineOK, TypeOK, Run, At, disk
<1>3. JournalOK'
  BY DEF OfflineOK, JournalOK, Early, disk
<1>4. ToolOK'
  BY DEF OfflineOK, ToolOK, Run, At, disk
<1>5. TurnsOK'
  BY DEF TurnsOK, Run, At
<1>6. ClockOK'
  BY DEF OfflineOK, ClockOK, disk
<1> QED BY <1>2, <1>3, <1>4, <1>5, <1>6 DEF OfflineOK

LEMMA CallsKeep ==
  ASSUME OfflineAssumption, OfflineOK, Resume \/ (\E t \in Snapshots : Restore(t))
  PROVE  OfflineOK'
<1>1. ASSUME Resume PROVE OfflineOK'
  BY <1>1, RunKeeps DEF Resume
<1>2. ASSUME NEW t \in Snapshots, Restore(t) PROVE OfflineOK'
  <2>1. t # None
    BY DEF OfflineAssumption, Contents
  <2>2. CASE pending = None
    BY <1>2, <2>1, <2>2, RunKeeps DEF Restore
  <2>3. CASE pending # None
    BY <1>2, <2>3, RunKeeps DEF Restore
  <2> QED BY <2>2, <2>3
<1> QED BY <1>1, <1>2

(* A tool that stops leaves everything as it is.                           *)
LEMMA StopsKeep ==
  ASSUME OfflineAssumption, OfflineOK, tool' = None,
         UNCHANGED <<disk, restorable, pending, head>>,
         outcome' \in {None, outcome}, faults' \in 0..MaxFaults,
         world' \in [rescue : BOOLEAN, behind : BOOLEAN],
         world'.behind => world.behind \/ "clock" \in Interference
  PROVE  OfflineOK'
<1>1. TypeOK'
  BY DEF OfflineOK, TypeOK, At, disk
<1>2. JournalOK'
  BY DEF OfflineOK, JournalOK, Early, disk
<1>3. ToolOK' /\ TurnsOK'
  BY DEF ToolOK, TurnsOK, At
<1>4. ClockOK'
  BY DEF OfflineOK, ClockOK
<1> QED BY <1>1, <1>2, <1>3, <1>4 DEF OfflineOK

LEMMA RefuseKeeps ==
  ASSUME OfflineAssumption, OfflineOK, Refuse
  PROVE  OfflineOK'
BY StopsKeep DEF Refuse, OfflineOK, TypeOK

(* The world outside.                                                      *)
LEMMA WorldKeeps ==
  ASSUME OfflineAssumption, OfflineOK,
         \/ CommandFails \/ Boot(TRUE) \/ Boot(FALSE) \/ RescueAgain
         \/ UseMachines \/ LoseStaged
         \/ \E t \in Snapshots : DeleteSnapshot(t)
  PROVE  OfflineOK'
<1> USE DEF OfflineOK
<1>1. CASE CommandFails
  <2>1. faults' \in 0..MaxFaults
    BY <1>1 DEF CommandFails, TypeOK, OfflineAssumption
  <2> QED BY <1>1, <2>1, StopsKeep DEF CommandFails, TypeOK
<1>2. ASSUME NEW rescue \in BOOLEAN, Boot(rescue) PROVE OfflineOK'
  <2>1. faults' \in 0..MaxFaults
    BY <1>2 DEF Boot, TypeOK, OfflineAssumption
  <2>a. /\ tool' = None /\ outcome' = None
        /\ UNCHANGED <<root, old, new, kids, restorable, pending, head>>
        /\ world' \in [rescue : BOOLEAN, behind : BOOLEAN]
    BY <1>2 DEF Boot
  <2>b. dropping' \in BOOLEAN /\ (~dropping => ~dropping')
    <3>1. dropping' = dropping \/ dropping' = FALSE
      BY <1>2 DEF Boot
    <3>2. CASE dropping' = dropping
      BY <3>2 DEF TypeOK
    <3>3. CASE dropping' = FALSE
      BY <3>3
    <3> QED BY <3>1, <3>2, <3>3
  <2>2. TypeOK'
    BY <2>a, <2>b, <2>1 DEF TypeOK, At
  <2>3. JournalOK'
    BY <2>a, <2>b DEF JournalOK, Early
  <2>4. ToolOK' /\ TurnsOK'
    BY <1>2 DEF Boot, ToolOK, TurnsOK, At
  <2>5. ClockOK'
    BY <1>2 DEF Boot, ClockOK
  <2> QED BY <2>2, <2>3, <2>4, <2>5
<1>3. CASE RescueAgain
  <2>1. tool = None
    BY <1>3 DEF RescueAgain, ToolOK
  <2> QED BY <1>3, <2>1, StopsKeep DEF RescueAgain, TypeOK
<1>4. CASE UseMachines
  <2>1. tool = None
    BY <1>4 DEF UseMachines, ToolOK
  <2>2. TypeOK'
    BY <1>4 DEF UseMachines, TypeOK, At
  <2>3. JournalOK' /\ ToolOK' /\ TurnsOK' /\ ClockOK'
    BY <1>4, <2>1 DEF UseMachines, JournalOK, ToolOK, TurnsOK, ClockOK, Early, At
  <2> QED BY <2>2, <2>3
<1>5. CASE LoseStaged
  <2>1. TypeOK'
    BY <1>5 DEF LoseStaged, TypeOK, At
  <2>2. JournalOK'
    BY <1>5 DEF LoseStaged, JournalOK, Early
  <2>3. ToolOK' /\ TurnsOK' /\ ClockOK'
    BY <1>5 DEF LoseStaged, ToolOK, TurnsOK, ClockOK, At
  <2> QED BY <2>1, <2>2, <2>3
<1>6. ASSUME NEW t \in Snapshots, DeleteSnapshot(t) PROVE OfflineOK'
  <2>1. tool = None
    BY <1>6 DEF DeleteSnapshot, ToolOK
  <2>2. TypeOK'
    BY <1>6 DEF DeleteSnapshot, TypeOK, At, disk
  <2>3. JournalOK' /\ ToolOK' /\ TurnsOK' /\ ClockOK'
    BY <1>6, <2>1 DEF DeleteSnapshot, JournalOK, ToolOK, TurnsOK, ClockOK, Early, At, disk
  <2> QED BY <2>2, <2>3
<1> QED BY <1>1, <1>2, <1>3, <1>4, <1>5, <1>6

(* The steps of converge.  Each keeps the types, the layout, what the tool *)
(* relies on, and the count of turns.                                      *)
LEMMA BeginKeeps ==
  ASSUME OfflineAssumption, OfflineOK, Begin
  PROVE  OfflineOK'
<1> USE DEF OfflineOK
<1>1. CASE Refuse
  BY <1>1, RefuseKeeps
<1>2. CASE ~Refuse
  <2> DEFINE t == [target |-> tool.wanted, phase |-> "prepared", late |-> FALSE]
  <2>1. /\ tool \in Tools /\ tool # None /\ tool.at = "begin"
        /\ tool.wanted \in Snapshots /\ pending = None
    BY <1>2 DEF Begin, TypeOK, ToolOK, At, Tools
  <2>2. /\ pending' = t /\ tool' = [tool EXCEPT !.at = "validate", !.txn = t, !.wanted = None]
        /\ world' = [world EXCEPT !.behind = FALSE]
        /\ UNCHANGED <<disk, restorable, head, outcome, faults>>
    BY <1>2 DEF Begin
  <2>3. t \in Transaction
    BY <2>1 DEF Transaction, Phases
  <2>4. pending' \in Transaction /\ pending' # None /\ tool' \in Tools /\ tool' # None
    BY <2>1, <2>2, <2>3 DEF Tools, Places, OfflineAssumption
  <2>5. tool'.at = "validate" /\ tool'.txn = pending'
    BY <2>1, <2>2 DEF Tools
  <2>6. world' \in [rescue : BOOLEAN, behind : BOOLEAN] /\ world'.behind = FALSE
        /\ world'.rescue = world.rescue
    BY <2>2 DEF TypeOK
  <2>7. TypeOK'
    BY <2>2, <2>4, <2>5, <2>6 DEF TypeOK, At, disk
  <2>8. Early(pending)' /\ ~pending'.late
    BY <2>2 DEF Early
  <2>9. JournalOK'
    BY <2>1, <2>2, <2>8 DEF JournalOK, Early, disk
  <2>10. ToolOK' /\ TurnsOK' /\ ClockOK'
    BY <2>1, <2>2, <2>4, <2>5, <2>6, <2>8 DEF ToolOK, TurnsOK, ClockOK, At
  <2> QED BY <2>7, <2>9, <2>10
<1> QED BY <1>1, <1>2

(* Done: the call ends, or goes on to the snapshot that was asked for.     *)
LEMMA DoneKeeps ==
  ASSUME OfflineAssumption, OfflineOK, tool # None, ~At("begin"),
         tool.txn.phase = "completed", pending' = None, Done,
         UNCHANGED <<disk, restorable, head, world, faults>>
  PROVE  OfflineOK'
<1> USE DEF OfflineOK
<1>1. /\ tool \in Tools /\ tool.txn = pending /\ pending \in Transaction
      /\ pending.target \in Snapshots
  BY DEF TypeOK, ToolOK, Transaction
<1>2. root # None /\ old = None /\ new = None
  BY <1>1 DEF JournalOK, Early, OfflineAssumption, Contents
<1>3. JournalOK' /\ ClockOK'
  BY <1>2 DEF JournalOK, ClockOK, disk
<1>4. CASE tool.wanted \in {None, tool.txn.target}
  <2>1. tool' = None /\ outcome' \in Snapshots
    BY <1>1, <1>4 DEF Done
  <2>2. TypeOK'
    BY <2>1 DEF TypeOK, At, disk
  <2>3. ToolOK' /\ TurnsOK'
    BY <2>1 DEF ToolOK, TurnsOK, At
  <2> QED BY <1>3, <2>2, <2>3
<1>5. CASE tool.wanted \notin {None, tool.txn.target}
  <2>1. tool' = [tool EXCEPT !.at = "begin"] /\ UNCHANGED outcome
    BY <1>5 DEF Done
  <2>2. tool' \in Tools /\ tool' # None /\ tool'.at = "begin" /\ tool'.wanted # None
    BY <1>1, <1>5, <2>1 DEF Tools, Places, OfflineAssumption
  <2>3. TypeOK'
    BY <2>1, <2>2 DEF TypeOK, At, disk
  <2>4. ToolOK' /\ TurnsOK'
    BY <2>1, <2>2 DEF ToolOK, TurnsOK, At
  <2> QED BY <1>3, <2>3, <2>4
<1> QED BY <1>4, <1>5

LEMMA ArchiveKeeps ==
  ASSUME OfflineAssumption, OfflineOK, ArchiveCompleted \/ Archive
  PROVE  OfflineOK'
<1>1. tool # None /\ ~At("begin") /\ tool.txn.phase = "completed"
  BY DEF ArchiveCompleted, Archive, At, OfflineOK, ToolOK
<1> QED BY <1>1, DoneKeeps DEF ArchiveCompleted, Archive

(* A step that only moves the tool.                                        *)
LEMMA MoveKeeps ==
  ASSUME OfflineAssumption, OfflineOK, tool # None,
         NEW at \in Places, NEW turns \in 0..MaxTurns,
         tool' = [tool EXCEPT !.at = at, !.turns = turns],
         UNCHANGED <<restorable, pending, world, outcome, faults>>
  PROVE  /\ tool' \in Tools /\ tool' # None
         /\ tool'.at = at /\ tool'.turns = turns /\ tool'.txn = tool.txn
         /\ ClockOK'
BY DEF OfflineOK, TypeOK, Tools, OfflineAssumption, ClockOK

LEMMA ValidateKeeps ==
  ASSUME OfflineAssumption, OfflineOK, Validate
  PROVE  OfflineOK'
<1> USE DEF OfflineOK
<1>1. CASE Refuse
  BY <1>1, RefuseKeeps
<1>2. CASE ~Refuse
  <2>1. /\ tool \in Tools /\ tool # None /\ tool.at = "validate" /\ tool.txn.phase # "completed"
        /\ tool' = [tool EXCEPT !.at = "loop", !.turns = 0]
        /\ UNCHANGED <<disk, restorable, pending, head, world, outcome, faults>>
    BY <1>2 DEF Validate, At, TypeOK
  <2>2. /\ tool' \in Tools /\ tool' # None /\ tool'.at = "loop" /\ tool'.turns = 0
        /\ tool'.txn = tool.txn /\ ClockOK'
    <3>1. "loop" \in Places /\ 0 \in 0..MaxTurns
      BY DEF Places, OfflineAssumption
    <3> QED BY <2>1, <3>1, MoveKeeps
  <2>3. TypeOK'
    BY <2>1, <2>2 DEF TypeOK, At, disk, OfflineAssumption
  <2>4. JournalOK'
    BY <2>1 DEF JournalOK, Early, disk
  <2>5. ToolOK'
    BY <2>1, <2>2 DEF ToolOK, At
  <2>6. TurnsOK'
    BY <2>1, <2>2 DEF TurnsOK, Rank, At, Activated
  <2> QED BY <2>2, <2>3, <2>4, <2>5, <2>6
<1> QED BY <1>1, <1>2

(* The journal written with a new phase, and the tool at its next place.   *)
LEMMA JournalWritten ==
  ASSUME OfflineAssumption, OfflineOK, tool # None, ~At("begin"),
         NEW phase \in Phases, NEW at \in Places,
         pending' = [tool.txn EXCEPT !.phase = phase, !.late = world.behind],
         tool' = [tool EXCEPT !.at = at, !.txn = pending'],
         UNCHANGED world
  PROVE  /\ pending' \in Transaction /\ pending' # None /\ pending'.phase = phase
         /\ pending'.target = pending.target
         /\ tool' \in Tools /\ tool' # None
         /\ tool'.at = at /\ tool'.turns = tool.turns /\ tool'.txn = pending'
         /\ ClockOK'
<1>1. tool \in Tools /\ tool.txn = pending /\ pending \in Transaction /\ world.behind \in BOOLEAN
  BY DEF OfflineOK, TypeOK, ToolOK
<1>2. /\ pending' \in Transaction /\ pending' # None /\ pending'.phase = phase
      /\ pending'.target = pending.target /\ pending'.late = world.behind
  BY <1>1 DEF Transaction, OfflineAssumption
<1>3. /\ tool' \in Tools /\ tool' # None
      /\ tool'.at = at /\ tool'.turns = tool.turns /\ tool'.txn = pending'
  BY <1>1, <1>2 DEF Tools, OfflineAssumption
<1>4. ClockOK'
  BY <1>2 DEF OfflineOK, ClockOK
<1> QED BY <1>2, <1>3, <1>4

LEMMA WritePhaseKeeps ==
  ASSUME OfflineAssumption, OfflineOK, WritePhase
  PROVE  OfflineOK'
<1> USE DEF OfflineOK
<1> SUFFICES ASSUME NEW phase \in Phases,
                    \/ At("created") /\ phase = "writable-target-created"
                    \/ At("protected") /\ phase = "current-root-protected"
                    \/ At("activated") /\ phase = "target-root-activated",
                    Journal(phase)
             PROVE  OfflineOK'
  BY DEF WritePhase, Phases
<1>1. UNCHANGED <<disk, restorable, head, world, outcome, faults>>
  BY DEF WritePhase
<1>2. tool # None /\ ~At("begin") /\ tool \in Tools /\ tool.txn = pending /\ pending \in Transaction
  BY DEF At, ToolOK, TypeOK
<1>3. /\ pending' = [tool.txn EXCEPT !.phase = phase, !.late = world.behind]
      /\ tool' = [tool EXCEPT !.at = "loop", !.txn = pending']
  BY DEF Journal
<1>4. /\ pending' \in Transaction /\ pending' # None /\ pending'.phase = phase
      /\ pending'.target = pending.target
      /\ tool' \in Tools /\ tool' # None
      /\ tool'.at = "loop" /\ tool'.turns = tool.turns /\ tool'.txn = pending'
      /\ ClockOK'
  BY <1>1, <1>2, <1>3, JournalWritten DEF Places
<1>5. tool.turns \in Nat /\ tool.turns <= 3
  BY <1>2 DEF At, TurnsOK, Tools, OfflineAssumption
<1>6. TypeOK'
  BY <1>1, <1>4, <1>5 DEF TypeOK, At, disk, OfflineAssumption
<1>7. JournalOK'
  BY <1>1, <1>2, <1>4 DEF JournalOK, ToolOK, Early, At, disk
<1>8. ToolOK'
  BY <1>1, <1>2, <1>4 DEF ToolOK, At
<1>9. TurnsOK'
  <2> SUFFICES tool'.turns <= Rank'
    BY <1>4 DEF TurnsOK, At
  <2>1. CASE At("created")
    <3>1. tool.turns <= 1 /\ root # None /\ old = None /\ new # None
      BY <1>2, <2>1 DEF TurnsOK, ToolOK, At
    <3> QED BY <1>1, <1>4, <1>5, <2>1, <3>1 DEF Rank, Activated, At, disk
  <2>2. CASE At("protected")
    <3>1. tool.turns <= 2 /\ root = None
      BY <1>2, <2>2 DEF TurnsOK, ToolOK, At
    <3> QED BY <1>1, <1>4, <1>5, <2>2, <3>1 DEF Rank, Activated, At, disk
  <2>3. CASE At("activated")
    <3>1. tool.turns <= 3 /\ old # None
      BY <1>2, <2>3 DEF TurnsOK, ToolOK, At
    <3> QED BY <1>1, <1>4, <1>5, <2>3, <3>1 DEF Rank, Activated, At, disk
  <2> QED BY <2>1, <2>2, <2>3
<1> QED BY <1>4, <1>6, <1>7, <1>8, <1>9

LEMMA WriteCompletedKeeps ==
  ASSUME OfflineAssumption, OfflineOK, WriteCompleted
  PROVE  OfflineOK'
<1> USE DEF OfflineOK
<1>1. UNCHANGED <<disk, restorable, head, world, outcome, faults>>
  BY DEF WriteCompleted
<1>2. tool # None /\ ~At("begin") /\ tool.txn = pending /\ pending # None
  BY DEF At, ToolOK, WriteCompleted
<1>3. /\ pending' = [tool.txn EXCEPT !.phase = "completed", !.late = world.behind]
      /\ tool' = [tool EXCEPT !.at = "archive", !.txn = pending']
  BY DEF WriteCompleted
<1>4. /\ pending' \in Transaction /\ pending' # None /\ pending'.phase = "completed"
      /\ pending'.target = pending.target
      /\ tool' \in Tools /\ tool' # None
      /\ tool'.at = "archive" /\ tool'.txn = pending'
      /\ ClockOK'
  BY <1>1, <1>2, <1>3, JournalWritten DEF Places, Phases
<1>5. TypeOK'
  BY <1>1, <1>4 DEF TypeOK, At, disk
<1>6. JournalOK'
  BY <1>1, <1>2, <1>4 DEF WriteCompleted, JournalOK, ToolOK, Early, At, Activated, disk
<1>7. ToolOK' /\ TurnsOK'
  BY <1>1, <1>2, <1>4 DEF ToolOK, TurnsOK, At
<1> QED BY <1>4, <1>5, <1>6, <1>7

(* A turn of the loop: what it finds, and where it leads.                  *)
LEMMA LoopState ==
  ASSUME OfflineAssumption, OfflineOK, Looping
  PROVE  /\ tool # None /\ tool \in Tools /\ tool.at = "loop" /\ tool.turns \in Nat
         /\ tool.turns <= Rank /\ tool.turns + 1 \in 0..MaxTurns
         /\ tool.txn = pending /\ pending \in Transaction /\ pending # None
         /\ pending.phase # "completed" /\ (Early(pending) <=> ~Activated)
BY DEF OfflineOK, TypeOK, ToolOK, TurnsOK, Looping, At, Tools, OfflineAssumption, Early, Activated

LEMMA TurnKeeps ==
  ASSUME OfflineAssumption, OfflineOK, tool # None, tool.turns \in Nat, tool.turns < MaxTurns,
         NEW at \in Places, Turn(at),
         UNCHANGED <<restorable, pending, world, outcome, faults>>
  PROVE  /\ tool' \in Tools /\ tool' # None
         /\ tool'.at = at /\ tool'.turns = tool.turns + 1 /\ tool'.txn = tool.txn
         /\ ClockOK'
<1>1. tool' = [tool EXCEPT !.at = at, !.turns = tool.turns + 1]
  BY DEF Turn
<1>2. tool.turns + 1 \in 0..MaxTurns
  BY DEF OfflineAssumption
<1> QED BY <1>1, <1>2, MoveKeeps

LEMMA CreateTargetKeeps ==
  ASSUME OfflineAssumption, OfflineOK, CreateTarget
  PROVE  OfflineOK'
<1> USE DEF OfflineOK
<1>1. /\ tool # None /\ tool \in Tools /\ tool.at = "loop" /\ tool.turns \in Nat
      /\ tool.turns <= Rank /\ tool.turns < MaxTurns
      /\ tool.txn = pending /\ pending \in Transaction /\ pending # None
      /\ pending.phase # "completed" /\ (Early(pending) <=> ~Activated)
      /\ pending.target \in Snapshots /\ pending.target # None
  BY LoopState DEF CreateTarget, Looping, Transaction, OfflineAssumption, Contents
<1>2. ~Activated /\ root # None /\ old = None /\ new = None /\ tool.turns = 0
  <2>1. ~Activated /\ root # None /\ old = None /\ new = None
    BY <1>1 DEF CreateTarget, Found
  <2> QED BY <1>1, <2>1 DEF Rank
<1>3. new' = pending.target /\ UNCHANGED <<root, old, kids, dropping, head>>
  BY <1>1, <1>2 DEF CreateTarget, RecordHead, TypeOK
<1>4. UNCHANGED <<restorable, pending, world, outcome, faults>> /\ Turn("created")
  BY DEF CreateTarget, disk
<1>5. /\ tool' \in Tools /\ tool' # None
      /\ tool'.at = "created" /\ tool'.turns = tool.turns + 1 /\ tool'.txn = tool.txn
      /\ ClockOK'
  BY <1>1, <1>4, TurnKeeps DEF Places
<1>6. TypeOK'
  BY <1>1, <1>3, <1>4, <1>5 DEF TypeOK, Contents, At
<1>7. JournalOK'
  BY <1>1, <1>2, <1>3, <1>4 DEF JournalOK, Early, Activated
<1>8. ToolOK'
  BY <1>1, <1>2, <1>3, <1>4, <1>5 DEF ToolOK, Early, Activated, At
<1>9. TurnsOK'
  BY <1>1, <1>2, <1>5 DEF TurnsOK, At
<1> QED BY <1>5, <1>6, <1>7, <1>8, <1>9

LEMMA ProtectRootKeeps ==
  ASSUME OfflineAssumption, OfflineOK, ProtectRoot
  PROVE  OfflineOK'
<1> USE DEF OfflineOK
<1>1. /\ tool # None /\ tool \in Tools /\ tool.at = "loop" /\ tool.turns \in Nat
      /\ tool.turns <= Rank /\ tool.turns < MaxTurns
      /\ tool.txn = pending /\ pending \in Transaction /\ pending # None
      /\ pending.phase # "completed" /\ (Early(pending) <=> ~Activated)
      /\ pending.target \in Snapshots /\ pending.target # None
  BY LoopState DEF ProtectRoot, Looping, Transaction, OfflineAssumption, Contents
<1>2. ~Activated /\ root # None /\ old = None /\ new # None /\ tool.turns <= 1
  BY <1>1 DEF ProtectRoot, Found, JournalOK, Rank
<1>3. old' = root /\ root' = None /\ UNCHANGED <<new, kids, dropping, head>>
  BY <1>1, <1>2 DEF ProtectRoot, RecordHead, TypeOK
<1>4. UNCHANGED <<restorable, pending, world, outcome, faults>> /\ Turn("protected")
  BY DEF ProtectRoot, disk
<1>5. /\ tool' \in Tools /\ tool' # None
      /\ tool'.at = "protected" /\ tool'.turns = tool.turns + 1 /\ tool'.txn = tool.txn
      /\ ClockOK'
  BY <1>1, <1>4, TurnKeeps DEF Places
<1>6. TypeOK'
  BY <1>1, <1>3, <1>4, <1>5 DEF TypeOK, Contents, At
<1>7. JournalOK'
  BY <1>1, <1>2, <1>3, <1>4 DEF JournalOK, Early, Activated
<1>8. ToolOK'
  BY <1>1, <1>2, <1>3, <1>4, <1>5 DEF ToolOK, Early, Activated, At
<1>9. TurnsOK'
  BY <1>1, <1>2, <1>5 DEF TurnsOK, At
<1> QED BY <1>5, <1>6, <1>7, <1>8, <1>9

LEMMA ActivateTargetKeeps ==
  ASSUME OfflineAssumption, OfflineOK, ActivateTarget
  PROVE  OfflineOK'
<1> USE DEF OfflineOK
<1>1. /\ tool # None /\ tool \in Tools /\ tool.at = "loop" /\ tool.turns \in Nat
      /\ tool.turns <= Rank /\ tool.turns < MaxTurns
      /\ tool.txn = pending /\ pending \in Transaction /\ pending # None
      /\ pending.phase # "completed" /\ (Early(pending) <=> ~Activated)
      /\ pending.target \in Snapshots /\ pending.target # None
  BY LoopState DEF ActivateTarget, Looping, Transaction, OfflineAssumption, Contents
<1>2. ~Activated /\ root = None /\ old # None /\ new = pending.target /\ tool.turns <= 2
  BY <1>1 DEF ActivateTarget, Found, JournalOK, Rank
<1>3. root' = pending.target /\ new' = None /\ UNCHANGED <<old, kids, dropping, head>>
  BY <1>1, <1>2 DEF ActivateTarget, RecordHead, TypeOK
<1>4. UNCHANGED <<restorable, pending, world, outcome, faults>> /\ Turn("activated")
  BY DEF ActivateTarget, disk
<1>5. /\ tool' \in Tools /\ tool' # None
      /\ tool'.at = "activated" /\ tool'.turns = tool.turns + 1 /\ tool'.txn = tool.txn
      /\ ClockOK'
  BY <1>1, <1>4, TurnKeeps DEF Places
<1>6. TypeOK'
  BY <1>1, <1>3, <1>4, <1>5 DEF TypeOK, Contents, At
<1>7. JournalOK'
  BY <1>1, <1>2, <1>3, <1>4 DEF JournalOK, Early, Activated
<1>8. ToolOK'
  BY <1>1, <1>2, <1>3, <1>4, <1>5 DEF ToolOK, Early, Activated, At
<1>9. TurnsOK'
  BY <1>1, <1>2, <1>5 DEF TurnsOK, At
<1> QED BY <1>5, <1>6, <1>7, <1>8, <1>9

LEMMA AlreadyActivatedKeeps ==
  ASSUME OfflineAssumption, OfflineOK, AlreadyActivated
  PROVE  OfflineOK'
<1> USE DEF OfflineOK
<1>1. /\ tool # None /\ tool \in Tools /\ tool.at = "loop" /\ tool.turns \in Nat
      /\ tool.turns <= Rank /\ tool.turns < MaxTurns
      /\ tool.txn = pending /\ pending \in Transaction /\ pending # None
      /\ pending.phase # "completed" /\ (Early(pending) <=> ~Activated)
      /\ pending.target \in Snapshots /\ pending.target # None
  BY LoopState DEF AlreadyActivated, Looping, Transaction, OfflineAssumption, Contents
<1>2. ~Activated /\ root # None /\ old # None /\ root = pending.target /\ new = None /\ tool.turns <= 2
  BY <1>1 DEF AlreadyActivated, Found, JournalOK, Rank
<1>3. UNCHANGED <<root, old, new, kids, dropping, head>>
  BY <1>1, <1>2 DEF AlreadyActivated, disk
<1>4. UNCHANGED <<restorable, pending, world, outcome, faults>> /\ Turn("activated")
  BY DEF AlreadyActivated, disk
<1>5. /\ tool' \in Tools /\ tool' # None
      /\ tool'.at = "activated" /\ tool'.turns = tool.turns + 1 /\ tool'.txn = tool.txn
      /\ ClockOK'
  BY <1>1, <1>4, TurnKeeps DEF Places
<1>6. TypeOK'
  BY <1>1, <1>3, <1>4, <1>5 DEF TypeOK, Contents, At
<1>7. JournalOK'
  BY <1>1, <1>2, <1>3, <1>4 DEF JournalOK, Early, Activated
<1>8. ToolOK'
  BY <1>1, <1>2, <1>3, <1>4, <1>5 DEF ToolOK, Early, Activated, At
<1>9. TurnsOK'
  BY <1>1, <1>2, <1>5 DEF TurnsOK, At
<1> QED BY <1>5, <1>6, <1>7, <1>8, <1>9

LEMMA FinishKeeps ==
  ASSUME OfflineAssumption, OfflineOK, Finish
  PROVE  OfflineOK'
<1> USE DEF OfflineOK
<1>1. /\ tool # None /\ tool \in Tools /\ tool.at = "loop" /\ tool.turns \in Nat
      /\ tool.turns <= Rank /\ tool.turns < MaxTurns
      /\ tool.txn = pending /\ pending \in Transaction /\ pending # None
      /\ pending.phase # "completed" /\ (Early(pending) <=> ~Activated)
      /\ pending.target \in Snapshots /\ pending.target # None
  BY LoopState DEF Finish, Looping, Transaction, OfflineAssumption, Contents
<1>2. Activated /\ root = pending.target /\ old = None /\ new = None
  BY <1>1 DEF Finish, Found, JournalOK, Rank
<1>3. head' = pending.target /\ dropping' = FALSE /\ UNCHANGED <<root, old, new, kids>>
  BY <1>1, <1>2 DEF Finish, RecordHead, TypeOK
<1>4. UNCHANGED <<restorable, pending, world, outcome, faults>> /\ Turn("completed")
  BY DEF Finish, disk
<1>5. /\ tool' \in Tools /\ tool' # None
      /\ tool'.at = "completed" /\ tool'.turns = tool.turns + 1 /\ tool'.txn = tool.txn
      /\ ClockOK'
  BY <1>1, <1>4, TurnKeeps DEF Places
<1>6. TypeOK'
  BY <1>1, <1>3, <1>4, <1>5 DEF TypeOK, Contents, At
<1>7. JournalOK'
  BY <1>1, <1>2, <1>3, <1>4 DEF JournalOK, Early, Activated
<1>8. ToolOK'
  BY <1>1, <1>2, <1>3, <1>4, <1>5 DEF ToolOK, Early, Activated, At
<1>9. TurnsOK'
  BY <1>1, <1>2, <1>5 DEF TurnsOK, At
<1> QED BY <1>5, <1>6, <1>7, <1>8, <1>9

LEMMA PutBackKeeps ==
  ASSUME OfflineAssumption, OfflineOK, PutBack
  PROVE  OfflineOK'
<1> USE DEF OfflineOK
<1>1. pending # None /\ Early(pending) /\ root = None /\ old # None /\ new = None
  BY LoopState DEF PutBack, Found
<1>2. /\ root' = old /\ old' = None /\ tool' = None
      /\ UNCHANGED <<new, kids, dropping, restorable, pending, head, world, outcome, faults>>
  BY DEF PutBack
<1>3. TypeOK'
  BY <1>2 DEF TypeOK, At
<1>4. JournalOK'
  BY <1>1, <1>2 DEF JournalOK, Early
<1>5. ToolOK' /\ TurnsOK' /\ ClockOK'
  BY <1>2 DEF ToolOK, TurnsOK, ClockOK, At
<1> QED BY <1>3, <1>4, <1>5

LEMMA HeadFirstKeeps ==
  ASSUME OfflineAssumption, OfflineOK, HeadFirst
  PROVE  OfflineOK'
<1> USE DEF OfflineOK
<1>1. /\ tool # None /\ tool \in Tools /\ tool.turns \in 0..MaxTurns /\ tool.turns <= Rank
      /\ tool.txn = pending /\ pending \in Transaction /\ pending # None
      /\ pending.phase # "completed" /\ ~Early(pending)
  BY LoopState DEF HeadFirst, Tools
<1>2. Activated /\ old # None /\ root = pending.target /\ tool.turns <= 3
  BY <1>1 DEF HeadFirst, Found, JournalOK, Rank
<1>3. /\ tool' = [tool EXCEPT !.at = "delete", !.turns = tool.turns] /\ head' = pending.target
      /\ UNCHANGED <<disk, restorable, pending, world, outcome, faults>>
  BY <1>1 DEF HeadFirst, RecordHead, Tools
<1>4. /\ tool' \in Tools /\ tool' # None
      /\ tool'.at = "delete" /\ tool'.turns = tool.turns /\ tool'.txn = tool.txn
      /\ ClockOK'
  BY <1>1, <1>3, MoveKeeps DEF Places
<1>5. TypeOK'
  BY <1>1, <1>3, <1>4 DEF TypeOK, Transaction, At, disk
<1>6. JournalOK'
  BY <1>1, <1>3 DEF JournalOK, Early, disk
<1>7. ToolOK'
  BY <1>1, <1>2, <1>3, <1>4 DEF ToolOK, Activated, At, disk
<1>8. TurnsOK'
  BY <1>2, <1>4 DEF TurnsOK, At
<1> QED BY <1>4, <1>5, <1>6, <1>7, <1>8

LEMMA DeleteChildrenKeeps ==
  ASSUME OfflineAssumption, OfflineOK, DeleteChildren
  PROVE  OfflineOK'
<1> USE DEF OfflineOK
<1>1. /\ kids' = "none"
      /\ UNCHANGED <<root, old, new, dropping, restorable, pending, head, world, tool, outcome, faults>>
  BY DEF DeleteChildren
<1>2. TypeOK'
  BY <1>1 DEF TypeOK, At
<1>3. JournalOK' /\ ClockOK'
  BY <1>1 DEF JournalOK, ClockOK, Early
<1>4. ToolOK'
  BY <1>1 DEF ToolOK, Early, Activated, At
<1>5. TurnsOK'
  BY <1>1 DEF TurnsOK, Rank, Activated, At
<1> QED BY <1>2, <1>3, <1>4, <1>5

LEMMA DeleteOldKeeps ==
  ASSUME OfflineAssumption, OfflineOK, DeleteOld
  PROVE  OfflineOK'
<1> USE DEF OfflineOK
<1>1. /\ tool # None /\ tool \in Tools /\ tool.turns \in Nat /\ tool.turns <= 3 /\ tool.turns < MaxTurns
      /\ tool.txn = pending /\ pending # None /\ Activated
  BY DEF DeleteOld, At, TypeOK, ToolOK, TurnsOK, Tools, OfflineAssumption
<1>2. /\ old' = None /\ dropping' = TRUE /\ Turn("loop")
      /\ UNCHANGED <<root, new, kids, restorable, pending, head, world, outcome, faults>>
  BY DEF DeleteOld
<1>3. /\ tool' \in Tools /\ tool' # None
      /\ tool'.at = "loop" /\ tool'.turns = tool.turns + 1 /\ tool'.txn = tool.txn
      /\ ClockOK'
  BY <1>1, <1>2, TurnKeeps DEF Places
<1>4. TypeOK'
  BY <1>1, <1>2, <1>3 DEF TypeOK, At, OfflineAssumption
<1>5. JournalOK'
  BY <1>1, <1>2 DEF JournalOK, Early, Activated
<1>6. ToolOK'
  BY <1>1, <1>2, <1>3 DEF ToolOK, Activated, At
<1>7. TurnsOK'
  BY <1>1, <1>2, <1>3 DEF TurnsOK, Rank, Activated, At
<1> QED BY <1>3, <1>4, <1>5, <1>6, <1>7

-----------------------------------------------------------------------------
LEMMA OfflineStarts ==
  ASSUME OfflineAssumption, Init
  PROVE  OfflineOK
<1>1. TypeOK
  <2>1. faults \in 0..MaxFaults
    BY DEF Init, OfflineAssumption
  <2>2. /\ {root, old, new} \subseteq Contents \cup {None}
        /\ {head, outcome} \subseteq Snapshots \cup {None} /\ restorable \subseteq Snapshots
    BY DEF Init, Contents
  <2>3. /\ world \in [rescue : BOOLEAN, behind : BOOLEAN] /\ dropping \in BOOLEAN
        /\ kids \in {"none", "empty", "full"}
    BY DEF Init
  <2>4. pending = None /\ tool = None /\ ~At("loop")
    BY DEF Init, At
  <2> QED BY <2>1, <2>2, <2>3, <2>4 DEF TypeOK
<1>2. JournalOK /\ ClockOK
  BY DEF Init, OfflineAssumption, JournalOK, ClockOK, Contents
<1>3. ToolOK /\ TurnsOK
  BY DEF Init, ToolOK, TurnsOK, At
<1> QED BY <1>1, <1>2, <1>3 DEF OfflineOK

LEMMA OfflineStep ==
  ASSUME OfflineAssumption, OfflineOK, [Next]_vars
  PROVE  OfflineOK'
<1>1. CASE Converge
  BY <1>1, BeginKeeps, ArchiveKeeps, ValidateKeeps, WritePhaseKeeps, CreateTargetKeeps,
     ProtectRootKeeps, ActivateTargetKeeps, AlreadyActivatedKeeps, PutBackKeeps, RefuseKeeps,
     HeadFirstKeeps, DeleteChildrenKeeps, DeleteOldKeeps, FinishKeeps, WriteCompletedKeeps
  DEF Converge, GiveUpUnsafe
<1>2. CASE UNCHANGED vars
  BY <1>2 DEF vars, disk, OfflineOK, TypeOK, JournalOK, ToolOK, TurnsOK, ClockOK,
     Rank, Activated, Early, At
<1>3. CASE Next /\ ~Converge
  BY <1>3, CallsKeep, WorldKeeps DEF Next
<1> QED BY <1>1, <1>2, <1>3

(* Wherever the tool was killed or a command failed, and whatever the      *)
(* installed system did in between, the three names of the root lie as the *)
(* journal says, and converge reaches the end within its turns.            *)
THEOREM OfflineIsOK ==
  ASSUME OfflineAssumption
  PROVE  Spec => []OfflineOK
<1>1. Init => OfflineOK
  BY OfflineStarts
<1>2. OfflineOK /\ [Next]_vars => OfflineOK'
  BY OfflineStep
<1> QED BY <1>1, <1>2, PTL DEF Spec

(* The installation is never left without a root for good, unless the      *)
(* clock of the rescue centre may be behind.                               *)
THEOREM RootIsNeverLost ==
  ASSUME OfflineAssumption, "clock" \notin Interference
  PROVE  Spec => []NeverRootless
<1>1. OfflineOK => NeverRootless
  BY DEF OfflineOK, JournalOK, ClockOK, NeverRootless, Loads, OfflineAssumption, Early,
     TypeOK, Transaction, Contents
<1> QED BY <1>1, OfflineIsOK, PTL

(* converge meets no layout that it does not know, however it was          *)
(* interrupted: it gives up only for children that hold data.              *)
THEOREM LayoutIsKnown ==
  ASSUME OfflineAssumption
  PROVE  Spec => []LayoutKnown
<1>1. ASSUME OfflineOK, At("loop"), Unsafe PROVE root = Original /\ ~ChildrenEmpty
  <2>1. /\ tool.txn = pending /\ pending # None /\ pending \in Transaction
        /\ (Early(pending) <=> ~Activated)
    BY <1>1 DEF OfflineOK, TypeOK, ToolOK, At, Early, Activated
  <2>2. CASE Activated
    <3>1. root # None /\ new = None
      BY <1>1, <2>1, <2>2 DEF OfflineOK, JournalOK, OfflineAssumption, Transaction, Contents
    <3> QED BY <1>1, <2>2, <3>1 DEF Unsafe, Found
  <2>3. CASE ~Activated
    <3>1. /\ root = None => old # None
          /\ root # None /\ old # None => new = None
      BY <1>1, <2>1, <2>3 DEF OfflineOK, JournalOK
    <3>2. Found \notin {<<TRUE, TRUE, TRUE>>, <<FALSE, FALSE, TRUE>>, <<FALSE, FALSE, FALSE>>}
      BY <3>1 DEF Found
    <3> QED BY <1>1, <2>3, <3>2 DEF Unsafe
  <2> QED BY <2>2, <2>3
<1>2. OfflineOK => LayoutKnown
  BY <1>1 DEF LayoutKnown
<1> QED BY <1>2, OfflineIsOK, PTL

(* Done reports a completed transaction only.                              *)
LEMMA DoneIsComplete ==
  ASSUME OfflineAssumption, OfflineOK, ArchiveCompleted \/ Archive,
         outcome' # outcome, outcome' # None
  PROVE  root' = outcome' /\ old' = None /\ new' = None /\ head' = outcome' /\ ~dropping'
<1>1. /\ tool # None /\ ~At("begin") /\ tool.txn.phase = "completed" /\ Done
      /\ UNCHANGED <<disk, head>>
  BY DEF ArchiveCompleted, Archive, At, OfflineOK, ToolOK
<1>2. tool.txn = pending /\ pending # None /\ pending.phase = "completed"
  BY <1>1 DEF OfflineOK, ToolOK
<1>3. root = pending.target /\ old = None /\ new = None /\ head = root /\ ~dropping
  BY <1>2 DEF OfflineOK, JournalOK, Early
<1>4. outcome' = pending.target
  BY <1>1, <1>2 DEF Done
<1> QED BY <1>1, <1>3, <1>4 DEF disk

(* A call that reports a snapshot as restored has made it the root and the *)
(* head, and has left nothing behind.                                      *)
THEOREM SuccessIsWhole ==
  ASSUME OfflineAssumption
  PROVE  Spec => [][SuccessIsComplete]_vars
<1>1. OfflineOK /\ [Next]_vars => [SuccessIsComplete]_vars
  <2> SUFFICES ASSUME OfflineOK, Next, outcome' # outcome, outcome' # None
               PROVE  ArchiveCompleted \/ Archive
    BY DoneIsComplete DEF SuccessIsComplete, vars
  <2>1. CASE Converge
    BY <2>1 DEF Converge, Begin, Refuse, Validate, WritePhase, CreateTarget, ProtectRoot,
       ActivateTarget, AlreadyActivated, PutBack, GiveUpUnsafe, HeadFirst, DeleteChildren,
       DeleteOld, Finish, WriteCompleted
  <2>2. CASE ~Converge
    BY <2>2 DEF Next, Restore, Resume, DeleteSnapshot, CommandFails, Boot, RescueAgain,
       UseMachines, LoseStaged
  <2> QED BY <2>1, <2>2
<1> QED BY <1>1, OfflineIsOK, PTL DEF Spec

(* The only copy of the replaced root is discarded only after the lineage  *)
(* names its successor.                                                    *)
THEOREM HistoryIsKept ==
  ASSUME OfflineAssumption
  PROVE  Spec => [][HistoryBeforeDiscard]_vars
<1>1. OfflineOK /\ [Next]_vars => [HistoryBeforeDiscard]_vars
  <2> SUFFICES ASSUME OfflineOK, Next, old # None, old' = None, root' # old
               PROVE  DeleteOld
    BY DEF DeleteOld, HistoryBeforeDiscard, OfflineOK, ToolOK, vars
  <2>1. CASE Converge
    BY <2>1 DEF Converge, Begin, Refuse, ArchiveCompleted, Archive, Validate, WritePhase,
       CreateTarget, ProtectRoot, ActivateTarget, AlreadyActivated, PutBack, GiveUpUnsafe,
       HeadFirst, DeleteChildren, Finish, WriteCompleted, Found, disk
  <2>2. CASE ~Converge
    BY <2>2 DEF Next, Restore, Resume, DeleteSnapshot, CommandFails, Boot, RescueAgain,
       UseMachines, LoseStaged, disk
  <2> QED BY <2>1, <2>2
<1> QED BY <1>1, OfflineIsOK, PTL DEF Spec
=============================================================================
