------------------------ MODULE BtrfsMaintenanceProofs ------------------------
(***************************************************************************)
(* Proofs about the scrub, the rebalance and the defragmentation of a disk *)
(* and the dialogs that follow them, for any number of dialogs and runs.   *)
(***************************************************************************)
EXTENDS BtrfsMaintenance, TLAPS

USE DEF Active, Final

(* What the thread, the command and the calls may do without a dialog      *)
(* noticing: the thread of an active run goes on or ends it, the state of  *)
(* the task stays, or a new run begins.                                    *)
LEMMA HelperKeeps ==
  ASSUME MaintenanceAssumption, MaintenanceOK,
         task' \in Tasks, running' \in BOOLEAN, worker' \in Threads,
         command' \in {"none", "launching", "running", "ok", "stopped", "failed"},
         startCall' \in [Dialogs -> {"none", "baseline", "asked"}],
         cancelCall' \in [Dialogs -> Cancels],
         running' <=> worker'.at # "none",
         worker'.at # "none" => task'.phase \in Active,
         worker'.at \in {"none", "begin"} => command' = "none",
         task'.phase \in Active => (worker'.at # "none" \/ Kind = "scrub"),
         \A d \in Dialogs : (Kind = "scrub" /\ cancelCall'[d].at = "flagged") =>
            cancelCall'[d].phase \in Active,
         \/ task'.generation = task.generation /\ worker.at # "none"
         \/ /\ task'.generation = task.generation /\ worker'.at = worker.at
            /\ task.phase \in Active => task'.phase \in Active
         \/ task'.generation = task.generation + 1,
         UNCHANGED page
  PROVE  MaintenanceOK'
<1>1. TypeOK'
  BY DEF MaintenanceOK, TypeOK, page
<1>2. WorkerOK'
  BY DEF WorkerOK
<1>3. BaselineOK'
  <2> SUFFICES ASSUME NEW d \in Dialogs, dialog'[d].base # None, dialog'[d].over
               PROVE  /\ dialog'[d].base <= task'.generation
                      /\ dialog'[d].base = task'.generation =>
                           /\ worker'.at = "none" /\ ~dialog'[d].native
                           /\ dialog'[d].observed => task'.phase \in Active
    BY DEF BaselineOK
  <2>1. dialog' = dialog
    BY DEF page
  <2>2. /\ dialog[d].base <= task.generation
        /\ dialog[d].base = task.generation =>
             /\ worker.at = "none" /\ ~dialog[d].native
             /\ dialog[d].observed => task.phase \in Active
    BY <2>1 DEF MaintenanceOK, BaselineOK
  <2>3. dialog[d].base \in 0..MaxRuns /\ task.generation \in 0..MaxRuns
    BY <2>1 DEF MaintenanceOK, TypeOK, Windows, Tasks
  <2> QED BY <2>1, <2>2, <2>3 DEF MaintenanceAssumption
<1> QED BY <1>1, <1>2, <1>3 DEF MaintenanceOK

(* The state before a step, in the form the provers take it.               *)
LEMMA HelperState ==
  ASSUME MaintenanceOK
  PROVE  /\ task \in Tasks /\ running \in BOOLEAN /\ worker \in Threads
         /\ command \in {"none", "launching", "running", "ok", "stopped", "failed"}
         /\ startCall \in [Dialogs -> {"none", "baseline", "asked"}]
         /\ cancelCall \in [Dialogs -> Cancels]
         /\ running <=> worker.at # "none"
         /\ worker.at # "none" => task.phase \in Active
         /\ worker.at \in {"none", "begin"} => command = "none"
         /\ task.phase \in Active => (worker.at # "none" \/ Kind = "scrub")
         /\ \A d \in Dialogs : (Kind = "scrub" /\ cancelCall[d].at = "flagged") =>
              cancelCall[d].phase \in Active
BY DEF MaintenanceOK, TypeOK, WorkerOK

LEMMA ScrubBeginsKeeps ==
  ASSUME MaintenanceAssumption, MaintenanceOK, ScrubBegins
  PROVE  MaintenanceOK'
<1>1. /\ task' \in Tasks /\ task'.generation = task.generation /\ task'.phase \in Active
  BY HelperState DEF ScrubBegins, Tasks
<1>2. worker' \in Threads /\ worker'.at = "waits" /\ worker.at # "none"
  BY HelperState DEF ScrubBegins, Threads
<1>3. /\ UNCHANGED page /\ running' = running /\ command' = "launching"
      /\ startCall' = startCall /\ cancelCall' = cancelCall
  BY DEF ScrubBegins
<1> QED BY <1>1, <1>2, <1>3, HelperState, HelperKeeps

LEMMA BalanceBeginsKeeps ==
  ASSUME MaintenanceAssumption, MaintenanceOK, BalanceBegins
  PROVE  MaintenanceOK'
<1>1. /\ UNCHANGED page /\ startCall' = startCall /\ cancelCall' = cancelCall
      /\ worker.at # "none"
  BY DEF BalanceBegins
<1>2. CASE task.cancel
  <2>1. task' \in Tasks /\ task'.generation = task.generation /\ task'.phase = "cancelled"
    BY <1>2, HelperState DEF BalanceBegins, Tasks
  <2>2. worker' = NoWorker /\ running' = FALSE /\ command' = command /\ worker.at = "begin"
    BY <1>2 DEF BalanceBegins
  <2>3. worker' \in Threads /\ worker'.at = "none"
    BY <2>2 DEF NoWorker, Threads
  <2> QED BY <1>1, <2>1, <2>2, <2>3, HelperState, HelperKeeps
<1>3. CASE ~task.cancel
  <2>1. task' \in Tasks /\ task'.generation = task.generation /\ task'.phase = "running"
    BY <1>3, HelperState DEF BalanceBegins, Tasks
  <2>2. worker' \in Threads /\ worker'.at = "waits" /\ running' = running /\ command' = "launching"
    BY <1>3, HelperState DEF BalanceBegins, Threads
  <2> QED BY <1>1, <2>1, <2>2, HelperState, HelperKeeps
<1> QED BY <1>2, <1>3

LEMMA ChildKeeps ==
  ASSUME MaintenanceAssumption, MaintenanceOK, ChildRuns \/ ChildSpawned \/ SpawnFails \/ Reaped
  PROVE  MaintenanceOK'
<1>1. CASE ChildRuns
  <2>1. worker' \in Threads /\ worker'.at = "spawned" /\ worker.at # "none"
    BY <1>1, HelperState DEF ChildRuns, Threads
  <2>2. /\ UNCHANGED page /\ task' = task /\ running' = running /\ command' = "running"
        /\ startCall' = startCall /\ cancelCall' = cancelCall
    BY <1>1 DEF ChildRuns
  <2> QED BY <2>1, <2>2, HelperState, HelperKeeps
<1>2. CASE ChildSpawned
  <2>1. worker' \in Threads /\ worker'.at = "waits" /\ worker.at # "none"
    BY <1>2, HelperState DEF ChildSpawned, Threads
  <2>2. /\ UNCHANGED page /\ running' = running
        /\ startCall' = startCall /\ cancelCall' = cancelCall
    BY <1>2 DEF ChildSpawned
  <2>3. command' \in {"none", "launching", "running", "ok", "stopped", "failed"}
    BY <1>2, HelperState DEF ChildSpawned
  <2>4. task' \in Tasks /\ task'.generation = task.generation /\ task'.phase \in Active
    BY <1>2, HelperState DEF ChildSpawned, Tasks
  <2> QED BY <2>1, <2>2, <2>3, <2>4, HelperState, HelperKeeps
<1>3. CASE SpawnFails
  <2>1. worker' \in Threads /\ worker'.at = "none" /\ worker.at = "begin"
    BY <1>3 DEF SpawnFails, NoWorker, Threads
  <2>2. /\ UNCHANGED page /\ running' = FALSE /\ command' = command
        /\ startCall' = startCall /\ cancelCall' = cancelCall
    BY <1>3 DEF SpawnFails
  <2>3. task' \in Tasks /\ task'.generation = task.generation /\ task'.phase = "failed"
    BY <1>3, HelperState DEF SpawnFails, Tasks
  <2> QED BY <2>1, <2>2, <2>3, HelperState, HelperKeeps
<1>4. CASE Reaped
  <2>1. worker' \in Threads /\ worker'.at = "reaped" /\ worker.at # "none"
    BY <1>4, HelperState DEF Reaped, Threads, Tasks
  <2>2. /\ UNCHANGED page /\ task' = task /\ running' = running /\ command' = command
        /\ startCall' = startCall /\ cancelCall' = cancelCall
    BY <1>4 DEF Reaped
  <2> QED BY <2>1, <2>2, HelperState, HelperKeeps
<1> QED BY <1>1, <1>2, <1>3, <1>4

(* The end of a run: its phase is final, and no thread is left.            *)
LEMMA EndKeeps ==
  ASSUME MaintenanceAssumption, MaintenanceOK, ScrubEnds \/ BalanceEnds \/ FinishDefrag
  PROVE  MaintenanceOK'
<1>1. PICK phase \in Final : EndTask(phase) /\ worker.at # "none"
  BY DEF ScrubEnds, BalanceEnds, FinishDefrag, ScrubRunResult, ExitPhase
<1>2. task' \in Tasks /\ task'.generation = task.generation /\ task'.phase \in Final
  BY <1>1, HelperState DEF EndTask, Tasks
<1>3. worker' \in Threads /\ worker'.at = "none"
  BY <1>1 DEF EndTask, NoWorker, Threads
<1>4. /\ UNCHANGED page /\ running' = FALSE /\ command' = "none"
      /\ startCall' = startCall /\ cancelCall' = cancelCall
  BY <1>1 DEF EndTask
<1> QED BY <1>1, <1>2, <1>3, <1>4, HelperState, HelperKeeps

LEMMA CommandKeeps ==
  ASSUME MaintenanceAssumption, MaintenanceOK, CommandStarts \/ CommandEnds
  PROVE  MaintenanceOK'
<1>1. /\ UNCHANGED page /\ task' = task /\ running' = running /\ worker' = worker
      /\ startCall' = startCall /\ cancelCall' = cancelCall
      /\ command' \in {"running", "ok", "failed"} /\ command # "none"
  BY DEF CommandStarts, CommandEnds
<1> QED BY <1>1, HelperState, HelperKeeps

(* A call that is answered, and a command that is stopped.                 *)
LEMMA CallEnds ==
  ASSUME MaintenanceAssumption, MaintenanceOK, NEW d \in Dialogs, EndCancel(d)
  PROVE  /\ cancelCall' \in [Dialogs -> Cancels]
         /\ \A e \in Dialogs : (Kind = "scrub" /\ cancelCall'[e].at = "flagged") =>
              cancelCall'[e].phase \in Active
<1>1. NoCancel \in Cancels
  BY DEF NoCancel, Cancels
<1>2. cancelCall \in [Dialogs -> Cancels]
  BY HelperState
<1>3. cancelCall' = [cancelCall EXCEPT ![d] = NoCancel]
  BY DEF EndCancel
<1>4. \A e \in Dialogs : cancelCall'[e] = IF e = d THEN NoCancel ELSE cancelCall[e]
  BY <1>2, <1>3
<1>5. \A e \in Dialogs : cancelCall'[e].at = "flagged" => cancelCall'[e] = cancelCall[e]
  BY <1>4 DEF NoCancel
<1> QED BY <1>1, <1>2, <1>3, <1>5, HelperState

LEMMA CancelKeeps ==
  ASSUME MaintenanceAssumption, MaintenanceOK, NEW d \in Dialogs,
         CancelRefused(d) \/ CancelStep(d)
  PROVE  MaintenanceOK'
<1>1. /\ EndCancel(d) /\ UNCHANGED page /\ running' = running /\ worker' = worker
      /\ startCall' = startCall
  BY DEF CancelRefused, CancelStep, CancelScrub, CancelBalance, CancelDefrag, helper
<1>2. /\ command' \in {command, "stopped"}
      /\ command' # command => command = "running"
  BY DEF CancelRefused, CancelStep, CancelScrub, CancelBalance, CancelDefrag, helper, StopCommand
<1>3. /\ task' \in Tasks /\ task'.generation = task.generation
      /\ \/ task' = task
         \/ Kind = "scrub" /\ task'.phase \in Active
  <2>1. CASE task' = task
    BY <2>1, HelperState
  <2>2. CASE task' # task
    <3>1. /\ Kind = "scrub" /\ cancelCall[d].at = "flagged"
          /\ task' = [task EXCEPT !.cancel = FALSE, !.phase = cancelCall[d].phase]
      BY <2>2 DEF CancelRefused, CancelStep, CancelScrub, CancelBalance, CancelDefrag, helper
    <3>2. cancelCall[d].phase \in Active
      BY <3>1, HelperState
    <3> QED BY <3>1, <3>2, HelperState DEF Tasks
  <2> QED BY <2>1, <2>2
<1>4. command' \in {"none", "launching", "running", "ok", "stopped", "failed"}
  BY <1>2, HelperState
<1>5. worker'.at \in {"none", "begin"} => command' = "none"
  BY <1>1, <1>2, HelperState
<1>6. task'.phase \in Active => (worker'.at # "none" \/ Kind = "scrub")
  BY <1>1, <1>3, HelperState
<1>7. worker'.at # "none" => task'.phase \in Active
  BY <1>1, <1>3, HelperState
<1>8. task.phase \in Active => task'.phase \in Active
  BY <1>3
<1> QED BY <1>1, <1>3, <1>4, <1>5, <1>6, <1>7, <1>8, CallEnds, HelperState, HelperKeeps

LEMMA FlagKeeps ==
  ASSUME MaintenanceAssumption, MaintenanceOK, NEW d \in Dialogs, CancelFlags(d)
  PROVE  MaintenanceOK'
<1> DEFINE c == [at |-> "flagged", phase |-> task.phase, pid |-> task.pid]
<1>1. /\ UNCHANGED page /\ running' = running /\ worker' = worker /\ command' = command
      /\ startCall' = startCall /\ cancelCall' = [cancelCall EXCEPT ![d] = c]
      /\ Kind = "balance" \/ task.phase \in Active
  BY DEF CancelFlags, Flag
<1>2. /\ task' \in Tasks /\ task'.generation = task.generation
      /\ task.phase \in Active <=> task'.phase \in Active
  BY HelperState DEF CancelFlags, Flag, Tasks
<1>3. c \in Cancels /\ c.phase = task.phase
  BY HelperState DEF Tasks, Cancels
<1>4. cancelCall' \in [Dialogs -> Cancels]
  BY <1>1, <1>3, HelperState
<1> HIDE DEF c
<1>5. \A e \in Dialogs : cancelCall'[e] = IF e = d THEN c ELSE cancelCall[e]
  BY <1>1, HelperState
<1>6. \A e \in Dialogs : (Kind = "scrub" /\ cancelCall'[e].at = "flagged") =>
        cancelCall'[e].phase \in Active
  BY <1>1, <1>3, <1>5, HelperState
<1> QED BY <1>1, <1>2, <1>4, <1>6, HelperState, HelperKeeps

-----------------------------------------------------------------------------
(* What a dialog does: the task stays as it is, but the window of one      *)
(* dialog changes.  It keeps its baseline, or has none, or takes one.      *)
LEMMA DialogKeeps ==
  ASSUME MaintenanceAssumption, MaintenanceOK, NEW d \in Dialogs, NEW w \in Windows,
         UNCHANGED helper,
         startCall' \in [Dialogs -> {"none", "baseline", "asked"}],
         control' \in [Dialogs -> {"start", "monitor", "off"}],
         cancelCall' = cancelCall,
         dialog' = [dialog EXCEPT ![d] = w],
         (w.base # None /\ w.over) =>
            /\ w.base <= task.generation
            /\ w.base = task.generation =>
                  /\ worker.at = "none" /\ ~w.native
                  /\ w.observed => task.phase \in Active
  PROVE  MaintenanceOK'
<1>0. task' = task /\ running' = running /\ worker' = worker /\ command' = command
  BY DEF helper
<1>1. TypeOK'
  BY <1>0 DEF MaintenanceOK, TypeOK
<1>2. WorkerOK'
  BY <1>0 DEF MaintenanceOK, WorkerOK
<1>3. BaselineOK'
  <2> SUFFICES ASSUME NEW e \in Dialogs, dialog'[e].base # None, dialog'[e].over
               PROVE  /\ dialog'[e].base <= task.generation
                      /\ dialog'[e].base = task.generation =>
                           /\ worker.at = "none" /\ ~dialog'[e].native
                           /\ dialog'[e].observed => task.phase \in Active
    BY <1>0 DEF BaselineOK
  <2>1. dialog'[e] = IF e = d THEN w ELSE dialog[e]
    BY DEF MaintenanceOK, TypeOK
  <2>2. CASE e = d
    BY <2>1, <2>2
  <2>3. CASE e # d
    BY <2>1, <2>3 DEF MaintenanceOK, BaselineOK
  <2> QED BY <2>2, <2>3
<1> QED BY <1>1, <1>2, <1>3 DEF MaintenanceOK

(* The state of a dialog, and what its window may become.                  *)
LEMMA DialogState ==
  ASSUME MaintenanceAssumption, MaintenanceOK, NEW d \in Dialogs
  PROVE  /\ dialog \in [Dialogs -> Windows] /\ dialog[d] \in Windows
         /\ control \in [Dialogs -> {"start", "monitor", "off"}]
         /\ (dialog[d].base # None /\ dialog[d].over) =>
              /\ dialog[d].base <= task.generation
              /\ dialog[d].base = task.generation =>
                    /\ worker.at = "none" /\ ~dialog[d].native
                    /\ dialog[d].observed => task.phase \in Active
         /\ Closed \in Windows /\ Closed.base = None
<1>1. Closed \in Windows
  BY DEF Closed, Windows, MaintenanceAssumption
<1>2. Closed.base = None
  BY DEF Closed
<1> QED BY <1>1, <1>2 DEF MaintenanceOK, TypeOK, BaselineOK

(* The request for a new run, when it is granted.  Where no thread could   *)
(* be spawned the run is over at once and the window closes; no dialog's   *)
(* baseline is as high as the new generation.                              *)
LEMMA StartKeeps ==
  ASSUME MaintenanceAssumption, MaintenanceOK, NEW d \in Dialogs, StartGranted(d)
  PROVE  MaintenanceOK'
<1>1. PICK spawned \in BOOLEAN :
         /\ StartTask(spawned)
         /\ IF spawned THEN UNCHANGED page
            ELSE /\ dialog' = CloseWindow(d)
                 /\ control' = [control EXCEPT ![d] = "start"]
  BY DEF StartGranted
<1>2. /\ ~running /\ task.generation < MaxRuns /\ cancelCall' = cancelCall
      /\ startCall' = [startCall EXCEPT ![d] = "none"]
  BY DEF StartGranted
<1>3. startCall' \in [Dialogs -> {"none", "baseline", "asked"}]
  BY <1>2, HelperState
<1>4. worker.at = "none" /\ command = "none"
  BY <1>2, HelperState
<1>5. /\ task' \in Tasks /\ task'.generation = task.generation + 1
      /\ task'.phase = IF spawned THEN "starting" ELSE "failed"
  <2>1. task.generation + 1 \in 0..MaxRuns
    BY <1>2, HelperState DEF Tasks, MaintenanceAssumption
  <2>2. task' = [generation |-> task.generation + 1,
                 phase |-> IF spawned THEN "starting" ELSE "failed",
                 cancel |-> FALSE, pid |-> FALSE]
    BY <1>1 DEF StartTask
  <2> QED BY <2>1, <2>2 DEF Tasks
<1>6. CASE spawned
  <2>1. worker' \in Threads /\ worker'.at = "begin"
    BY <1>1, <1>6 DEF StartTask, NoWorker, Threads
  <2>2. UNCHANGED page /\ running' = TRUE /\ command' = command
    BY <1>1, <1>6 DEF StartTask
  <2> QED BY <1>2, <1>3, <1>4, <1>5, <1>6, <2>1, <2>2, HelperState, HelperKeeps
<1>7. CASE ~spawned
  <2>1. /\ running' = FALSE /\ worker' = worker /\ command' = command
        /\ dialog' = [dialog EXCEPT ![d].window = FALSE]
        /\ control' = [control EXCEPT ![d] = "start"]
    BY <1>1, <1>7 DEF StartTask, CloseWindow
  <2>2. control' \in [Dialogs -> {"start", "monitor", "off"}]
    BY <2>1, DialogState
  <2>3. [dialog[d] EXCEPT !.window = FALSE] \in Windows
    BY DialogState DEF Windows
  <2>4. dialog' \in [Dialogs -> Windows]
    BY <2>1, <2>3, DialogState
  <2>5. TypeOK'
    BY <1>2, <1>3, <1>5, <2>1, <2>2, <2>4, HelperState DEF TypeOK
  <2>6. WorkerOK'
    BY <1>2, <1>4, <1>5, <1>7, <2>1, HelperState DEF WorkerOK
  <2>7. \A e \in Dialogs : (dialog'[e].base # None /\ dialog'[e].over) =>
           dialog'[e].base <= task.generation
    <3> TAKE e \in Dialogs
    <3>1. dialog'[e].base = dialog[e].base /\ dialog'[e].over = dialog[e].over
      <4>1. dialog'[e] = IF e = d THEN [dialog[d] EXCEPT !.window = FALSE] ELSE dialog[e]
        BY <2>1, DialogState
      <4>2. dialog[d] \in Windows
        BY DialogState
      <4>3. /\ [dialog[d] EXCEPT !.window = FALSE].base = dialog[d].base
            /\ [dialog[d] EXCEPT !.window = FALSE].over = dialog[d].over
        BY <4>2 DEF Windows
      <4> QED BY <4>1, <4>3
    <3> QED BY <3>1 DEF MaintenanceOK, BaselineOK
  <2>8. task.generation \in Nat
    BY HelperState DEF Tasks
  <2>9. \A e \in Dialogs : dialog'[e].base # None => dialog'[e].base \in Nat
    BY <2>4 DEF Windows
  <2>10. BaselineOK'
    <3> SUFFICES ASSUME NEW e \in Dialogs, dialog'[e].base # None, dialog'[e].over
                 PROVE  /\ dialog'[e].base <= task'.generation
                        /\ dialog'[e].base # task'.generation
      BY DEF BaselineOK
    <3> QED BY <1>5, <2>7, <2>8, <2>9
  <2> QED BY <2>5, <2>6, <2>10 DEF MaintenanceOK
<1> QED BY <1>6, <1>7

(* The window of a dialog that opens.                                      *)
LEMMA OpenedWindow ==
  ASSUME MaintenanceAssumption, MaintenanceOK, NEW base \in {None} \cup 0..MaxRuns,
         NEW over \in BOOLEAN, NEW observed \in BOOLEAN, Dialogs # {}
  PROVE  /\ Opened(base, over, observed) \in Windows
         /\ Opened(base, over, observed).base = base
         /\ Opened(base, over, observed).over = over
         /\ Opened(base, over, observed).observed = observed
         /\ ~Opened(base, over, observed).native
<1>1. /\ Closed \in Windows /\ Closed.native = FALSE
      /\ Opened(base, over, observed) =
           [Closed EXCEPT !.window = TRUE, !.monitor = "ask", !.base = base, !.over = over,
                          !.observed = observed]
  <2>1. Closed \in Windows
    BY DialogState
  <2>2. Closed.native = FALSE
    BY DEF Closed
  <2> QED BY <2>1, <2>2 DEF Opened
<1> QED BY <1>1 DEF Windows

(* The window of a dialog closes, or its monitor ends.                     *)
LEMMA RefusalKeeps ==
  ASSUME MaintenanceAssumption, MaintenanceOK, NEW d \in Dialogs, StartRefused(d)
  PROVE  MaintenanceOK'
<1> DEFINE w == [dialog[d] EXCEPT !.window = FALSE]
<1>1. /\ UNCHANGED helper /\ cancelCall' = cancelCall
      /\ startCall' = [startCall EXCEPT ![d] = "none"]
      /\ control' = [control EXCEPT ![d] = "start"]
  BY DEF StartRefused
<1>2. dialog' = [dialog EXCEPT ![d] = w]
  BY DialogState DEF StartRefused, CloseWindow
<1>3. /\ w \in Windows /\ w.base = dialog[d].base /\ w.over = dialog[d].over
      /\ w.native = dialog[d].native /\ w.observed = dialog[d].observed
  BY DialogState DEF Windows
<1> HIDE DEF w
<1>4. /\ startCall' \in [Dialogs -> {"none", "baseline", "asked"}]
      /\ control' \in [Dialogs -> {"start", "monitor", "off"}]
  BY <1>1, HelperState, DialogState
<1> QED BY <1>1, <1>2, <1>3, <1>4, DialogState, DialogKeeps

LEMMA BaselineKeeps ==
  ASSUME MaintenanceAssumption, MaintenanceOK, NEW d \in Dialogs, Baseline(d)
  PROVE  MaintenanceOK'
<1>1. PICK native \in BOOLEAN, ok \in BOOLEAN :
          /\ native = (command = "running")
          /\ startCall' = [startCall EXCEPT ![d] = IF ok THEN "asked" ELSE "none"]
          /\ control' = [control EXCEPT ![d] = IF ok THEN "monitor" ELSE "off"]
          /\ dialog' = IF ok THEN [dialog EXCEPT ![d] =
                            Opened(task.generation, ~StatusActive(native), FALSE)]
                       ELSE dialog
  BY DEF Baseline
<1> DEFINE w == IF ok THEN Opened(task.generation, ~StatusActive(native), FALSE) ELSE dialog[d]
<1>2. UNCHANGED helper /\ cancelCall' = cancelCall
  BY DEF Baseline
<1>3. /\ startCall' \in [Dialogs -> {"none", "baseline", "asked"}]
      /\ control' \in [Dialogs -> {"start", "monitor", "off"}]
  BY <1>1, HelperState, DialogState
<1>4. dialog' = [dialog EXCEPT ![d] = w]
  BY <1>1, DialogState
<1>5. task.generation \in 0..MaxRuns
  BY HelperState DEF Tasks
<1>6. CASE ok
  <2>1. PICK over \in BOOLEAN : over = ~StatusActive(native)
    OBVIOUS
  <2>2. w = Opened(task.generation, over, FALSE)
    BY <1>6, <2>1
  <2>3. /\ w \in Windows /\ w.base = task.generation /\ w.over = over
        /\ ~w.native /\ w.observed = FALSE
    <3>1. task.generation \in {None} \cup 0..MaxRuns
      BY <1>5
    <3> HIDE DEF w
    <3> QED BY <2>2, <3>1, OpenedWindow
  <2>4. over => task.phase \notin Active
    BY <2>1 DEF StatusActive
  <2> HIDE DEF w
  <2>5. w.over => worker.at = "none"
    BY <2>3, <2>4, HelperState
  <2>6. w.base <= task.generation
    BY <1>5, <2>3 DEF MaintenanceAssumption
  <2> QED BY <1>2, <1>3, <1>4, <2>3, <2>5, <2>6, DialogKeeps
<1>7. CASE ~ok
  <2>1. w = dialog[d]
    BY <1>7
  <2> HIDE DEF w
  <2> QED BY <1>2, <1>3, <1>4, <2>1, DialogState, DialogKeeps
<1> QED BY <1>6, <1>7

LEMMA ClickKeeps ==
  ASSUME MaintenanceAssumption, MaintenanceOK, NEW d \in Dialogs,
         ClickStart(d) \/ ClickMonitor(d) \/ ClickCancel(d) \/ Reopen(d)
  PROVE  MaintenanceOK'
<1>0. dialog = [dialog EXCEPT ![d] = dialog[d]]
  BY DialogState
<1>1. CASE ClickStart(d)
  <2>1. /\ UNCHANGED helper /\ cancelCall' = cancelCall /\ dialog' = dialog
        /\ startCall' \in [Dialogs -> {"none", "baseline", "asked"}]
        /\ control' \in [Dialogs -> {"start", "monitor", "off"}]
    BY <1>1, HelperState, DialogState DEF ClickStart
  <2> QED BY <1>0, <2>1, DialogState, DialogKeeps
<1>2. CASE ClickMonitor(d)
  <2> DEFINE w == Opened(None, FALSE, TRUE)
  <2>1. /\ UNCHANGED helper /\ cancelCall' = cancelCall /\ startCall' = startCall
        /\ control' = control /\ dialog' = [dialog EXCEPT ![d] = w]
    BY <1>2 DEF ClickMonitor
  <2>2. w \in Windows /\ w.over = FALSE
    BY OpenedWindow
  <2> HIDE DEF w
  <2> QED BY <2>1, <2>2, HelperState, DialogState, DialogKeeps
<1>3. CASE ClickCancel(d)
  <2>1. /\ UNCHANGED helper /\ startCall' = startCall /\ UNCHANGED page
        /\ cancelCall[d] = NoCancel /\ cancelCall' = [cancelCall EXCEPT ![d].at = "asked"]
    BY <1>3 DEF ClickCancel
  <2>2. task' = task /\ running' = running /\ worker' = worker /\ command' = command
    BY <2>1 DEF helper
  <2>3. [cancelCall[d] EXCEPT !.at = "asked"] \in Cancels
    BY HelperState DEF Cancels
  <2>4. cancelCall' \in [Dialogs -> Cancels]
    BY <2>1, <2>3, HelperState
  <2>5. \A e \in Dialogs : cancelCall'[e].at = "flagged" => cancelCall'[e] = cancelCall[e]
    BY <2>1, HelperState DEF Cancels
  <2>6. \A e \in Dialogs : (Kind = "scrub" /\ cancelCall'[e].at = "flagged") =>
           cancelCall'[e].phase \in Active
    BY <2>5, HelperState
  <2> QED BY <2>1, <2>2, <2>4, <2>6, HelperState, HelperKeeps
<1>4. CASE Reopen(d)
  <2>1. /\ UNCHANGED helper /\ cancelCall' = cancelCall /\ startCall' = startCall
        /\ dialog' = dialog /\ control' \in [Dialogs -> {"start", "monitor", "off"}]
    BY <1>4, DialogState DEF Reopen, ButtonFor
  <2> QED BY <1>0, <2>1, HelperState, DialogState, DialogKeeps
<1> QED BY <1>1, <1>2, <1>3, <1>4

(* The monitor ends: its dialog has no baseline any more.                  *)
LEMMA StopKeeps ==
  ASSUME MaintenanceAssumption, MaintenanceOK, NEW d \in Dialogs,
         NEW c \in {"start", "monitor", "off"}, Stop(d, c),
         UNCHANGED <<helper, startCall, cancelCall>>
  PROVE  MaintenanceOK'
<1>1. /\ dialog' = [dialog EXCEPT ![d] = Closed] /\ UNCHANGED helper
      /\ startCall' = startCall /\ cancelCall' = cancelCall
      /\ control' \in [Dialogs -> {"start", "monitor", "off"}]
  BY DialogState DEF Stop
<1> QED BY <1>1, HelperState, DialogState, DialogKeeps

LEMMA AskKeeps ==
  ASSUME MaintenanceAssumption, MaintenanceOK, NEW d \in Dialogs, Ask(d)
  PROVE  MaintenanceOK'
<1>1. /\ UNCHANGED helper /\ startCall' = startCall /\ cancelCall' = cancelCall
      /\ control' = control
  BY DEF Ask
<1>2. PICK native \in BOOLEAN : native = (command = "running")
  OBVIOUS
<1> DEFINE w == [dialog[d] EXCEPT !.monitor = "answer", !.native = native]
<1>3. dialog' = [dialog EXCEPT ![d] = IF ~dialog[d].window THEN Closed ELSE w]
  BY <1>2, DialogState DEF Ask
<1>4. /\ w \in Windows /\ w.base = dialog[d].base /\ w.over = dialog[d].over
      /\ w.native = native /\ w.observed = dialog[d].observed
  BY <1>2, DialogState DEF Windows
<1> HIDE DEF w
<1>5. worker.at = "none" => ~native
  BY <1>2, HelperState
<1>6. CASE ~dialog[d].window
  BY <1>1, <1>3, <1>6, HelperState, DialogState, DialogKeeps
<1>7. CASE dialog[d].window
  BY <1>1, <1>3, <1>4, <1>5, <1>7, HelperState, DialogState, DialogKeeps
<1> QED BY <1>6, <1>7

(* A window that waits on, with the counters below their limits.           *)
LEMMA AnswerFailedKeeps ==
  ASSUME MaintenanceAssumption, MaintenanceOK, NEW d \in Dialogs, AnswerFailed(d)
  PROVE  MaintenanceOK'
<1>1. UNCHANGED <<helper, startCall, cancelCall>>
  BY DEF AnswerFailed
<1>2. CASE dialog[d].fails + 1 >= FailedQueries
  BY <1>1, <1>2, StopKeeps DEF AnswerFailed
<1>3. CASE ~(dialog[d].fails + 1 >= FailedQueries)
  <2> DEFINE w == [dialog[d] EXCEPT !.fails = @ + 1, !.monitor = "ask"]
  <2>1. /\ dialog' = [dialog EXCEPT ![d] = w] /\ UNCHANGED helper /\ control' = control
        /\ startCall' = startCall /\ cancelCall' = cancelCall
    BY <1>1, <1>3, DialogState DEF AnswerFailed
  <2>2. dialog[d].fails + 1 \in 0..(FailedQueries - 1)
    BY <1>3, DialogState DEF Windows, MaintenanceAssumption
  <2>3. /\ w \in Windows /\ w.base = dialog[d].base /\ w.over = dialog[d].over
        /\ w.native = dialog[d].native /\ w.observed = dialog[d].observed
    BY <2>2, DialogState DEF Windows
  <2> HIDE DEF w
  <2> QED BY <2>1, <2>3, HelperState, DialogState, DialogKeeps
<1> QED BY <1>2, <1>3

LEMMA AnswerWaitingKeeps ==
  ASSUME MaintenanceAssumption, MaintenanceOK, NEW d \in Dialogs, AnswerWaiting(d)
  PROVE  MaintenanceOK'
<1>1. UNCHANGED <<helper, startCall, cancelCall>>
  BY DEF AnswerWaiting
<1>2. CASE dialog[d].waits + 1 >= StartupQueries
  <2>1. PICK c \in {"start", "monitor", "off"} : Stop(d, c)
    BY <1>2 DEF AnswerWaiting
  <2> QED BY <1>1, <2>1, StopKeeps
<1>3. CASE ~(dialog[d].waits + 1 >= StartupQueries)
  <2> DEFINE w == [dialog[d] EXCEPT !.waits = @ + 1, !.fails = 0, !.monitor = "ask"]
  <2>1. /\ dialog' = [dialog EXCEPT ![d] = w] /\ UNCHANGED helper /\ control' = control
        /\ startCall' = startCall /\ cancelCall' = cancelCall
    BY <1>1, <1>3, DialogState DEF AnswerWaiting
  <2>2. /\ dialog[d].waits + 1 \in 0..(StartupQueries - 1)
        /\ 0 \in 0..(FailedQueries - 1)
    BY <1>3, DialogState DEF Windows, MaintenanceAssumption
  <2>3. /\ w \in Windows /\ w.base = dialog[d].base /\ w.over = dialog[d].over
        /\ w.native = dialog[d].native /\ w.observed = dialog[d].observed
    BY <2>2, DialogState DEF Windows
  <2> HIDE DEF w
  <2> QED BY <2>1, <2>3, HelperState, DialogState, DialogKeeps
<1> QED BY <1>2, <1>3

(* The dialog sees its run under way: if that is still the run it found    *)
(* over, the task itself says so, since no command of btrfs is running.    *)
LEMMA AnswerKeeps ==
  ASSUME MaintenanceAssumption, MaintenanceOK, NEW d \in Dialogs, Answer(d)
  PROVE  MaintenanceOK'
<1>1. UNCHANGED <<helper, startCall, cancelCall>>
  BY DEF Answer
<1>2. CASE StatusActive(dialog[d].native)
  <2> DEFINE w == [dialog[d] EXCEPT !.observed = TRUE, !.fails = 0, !.monitor = "ask"]
  <2>1. /\ dialog' = [dialog EXCEPT ![d] = w] /\ UNCHANGED helper
        /\ control' = [control EXCEPT ![d] = "monitor"]
        /\ startCall' = startCall /\ cancelCall' = cancelCall
    BY <1>1, <1>2, DialogState DEF Answer
  <2>2. 0 \in 0..(FailedQueries - 1)
    BY DEF MaintenanceAssumption
  <2>3. /\ w \in Windows /\ w.base = dialog[d].base /\ w.over = dialog[d].over
        /\ w.native = dialog[d].native
    BY <2>2, DialogState DEF Windows
  <2>4. ~dialog[d].native => task.phase \in Active
    BY <1>2 DEF StatusActive
  <2>5. control' \in [Dialogs -> {"start", "monitor", "off"}]
    BY <2>1, DialogState
  <2> HIDE DEF w
  <2> QED BY <2>1, <2>3, <2>4, <2>5, HelperState, DialogState, DialogKeeps, ZenonT(40)
<1>3. CASE ~StatusActive(dialog[d].native)
  BY <1>1, <1>3, StopKeeps DEF Answer
<1> QED BY <1>2, <1>3

LEMMA StepKeeps ==
  ASSUME MaintenanceAssumption, MaintenanceOK, [Next]_vars
  PROVE  MaintenanceOK'
<1>1. CASE UNCHANGED vars
  <2>1. /\ UNCHANGED page /\ task' = task /\ running' = running /\ worker' = worker
        /\ command' = command /\ startCall' = startCall /\ cancelCall' = cancelCall
    BY <1>1 DEF vars, page
  <2> QED BY <2>1, HelperState, HelperKeeps
<1>2. CASE WorkerStep \/ SpawnFails \/ CommandStarts \/ CommandEnds
  BY <1>2, ScrubBeginsKeeps, BalanceBeginsKeeps, ChildKeeps, EndKeeps, CommandKeeps
  DEF WorkerStep
<1>3. ASSUME NEW d \in Dialogs,
             \/ StartGranted(d) \/ StartRefused(d) \/ CancelRefused(d) \/ CancelFlags(d)
             \/ CancelStep(d)
      PROVE  MaintenanceOK'
  BY <1>3, StartKeeps, RefusalKeeps, CancelKeeps, FlagKeeps
<1>4. ASSUME NEW d \in Dialogs,
             \/ ClickStart(d) \/ Baseline(d) \/ ClickMonitor(d) \/ ClickCancel(d) \/ Reopen(d)
      PROVE  MaintenanceOK'
  BY <1>4, BaselineKeeps, ClickKeeps
<1>5. ASSUME NEW d \in Dialogs,
             Ask(d) \/ AnswerFailed(d) \/ AnswerWaiting(d) \/ Answer(d)
      PROVE  MaintenanceOK'
  BY <1>5, AskKeeps, AnswerFailedKeeps, AnswerWaitingKeeps, AnswerKeeps
<1> QED BY <1>1, <1>2, <1>3, <1>4, <1>5 DEF Next

LEMMA MaintenanceBegins ==
  ASSUME MaintenanceAssumption, Init
  PROVE  MaintenanceOK
<1>1. TypeOK
  <2>1. task \in Tasks /\ running \in BOOLEAN /\ worker \in Threads
    <3>1. 0 \in 0..MaxRuns
      BY DEF MaintenanceAssumption
    <3>2. task \in Tasks
      BY <3>1 DEF Init, Tasks
    <3>3. running \in BOOLEAN /\ worker \in Threads
      BY DEF Init, NoWorker, Threads
    <3> QED BY <3>2, <3>3
  <2>2. NoCancel \in Cancels /\ Closed \in Windows
    BY DEF NoCancel, Cancels, Closed, Windows, MaintenanceAssumption
  <2> QED BY <2>1, <2>2 DEF Init, TypeOK
<1>2. WorkerOK
  BY DEF Init, WorkerOK, NoWorker, NoCancel
<1>3. BaselineOK
  BY DEF Init, BaselineOK, Closed
<1> QED BY <1>1, <1>2, <1>3 DEF MaintenanceOK

(* The helper's flag, its thread, the phase of the task and the command    *)
(* agree, whatever is started, cancelled or refused meanwhile, and every   *)
(* dialog's baseline is a generation that has been (TaskState of the       *)
(* helper's btrfs.rs; start and monitor of task_dialog.rs).                *)
THEOREM MaintenanceIsOK ==
  ASSUME MaintenanceAssumption
  PROVE  Spec => []MaintenanceOK
<1>1. Init => MaintenanceOK
  BY MaintenanceBegins
<1>2. MaintenanceOK /\ [Next]_vars => MaintenanceOK'
  BY StepKeeps
<1> QED BY <1>1, <1>2, PTL DEF Spec

(* For every kind of task, a run is shown and blocks a second one exactly  *)
(* while its thread is there, whatever phase a cancellation put back       *)
(* (run_scrub_task, cancel_scrub and their two siblings).                  *)
THEOREM RunsAreShown ==
  ASSUME MaintenanceAssumption
  PROVE  Spec => []RunIsShown
<1>1. MaintenanceOK => RunIsShown
  BY DEF MaintenanceOK, WorkerOK, RunIsShown
<1> QED BY <1>1, MaintenanceIsOK, PTL

(* A rebalance or a defragmentation that is reported as under way has a    *)
(* thread that will end it (run_balance_task, run_defrag_task).  The scrub *)
(* is left out: its failed cancellation puts back the phase it had found,  *)
(* even after the run has ended.                                           *)
THEOREM TasksHaveWorkers ==
  ASSUME MaintenanceAssumption, Kind # "scrub"
  PROVE  Spec => []ActiveHasWorker
<1>1. MaintenanceOK => ActiveHasWorker
  BY DEF MaintenanceOK, WorkerOK, ActiveHasWorker
<1> QED BY <1>1, MaintenanceIsOK, PTL

(* A dialog that shows a result shows that of its own run, for each kind   *)
(* of task: while the run it found over is the last one, an answer either  *)
(* says that the task is active or is not taken for the end of a run       *)
(* (task_dialog.rs start/monitor, scrub.rs start/status_is_current).       *)
THEOREM ResultsAreFresh ==
  ASSUME MaintenanceAssumption
  PROVE  Spec => [][ResultNotStale]_vars
<1>1. MaintenanceOK => ResultNotStale
  <2> SUFFICES ASSUME MaintenanceOK, NEW d \in Dialogs, Answer(d), dialog'[d] = Closed,
                      dialog[d].base # None, dialog[d].over
               PROVE  task.generation > dialog[d].base
    BY DEF ResultNotStale
  <2>1. Observed(d)
    BY DEF Answer
  <2>2. ~StatusActive(dialog[d].native)
    <3> SUFFICES ASSUME StatusActive(dialog[d].native) PROVE FALSE
      OBVIOUS
    <3>1. dialog'[d] = [dialog[d] EXCEPT !.observed = TRUE, !.fails = 0, !.monitor = "ask"]
      BY DialogState DEF Answer
    <3>2. dialog'[d].monitor = "ask"
      BY <3>1, DialogState DEF Windows
    <3> QED BY <3>2 DEF Closed
  <2>3. task.phase \notin Active
    BY <2>2 DEF StatusActive
  <2>4. dialog[d].base # task.generation
    <3> SUFFICES ASSUME dialog[d].base = task.generation PROVE FALSE
      OBVIOUS
    <3>1. ~dialog[d].observed
      BY <2>3, DialogState
    <3> QED BY <2>1, <2>2, <3>1 DEF Observed
  <2>5. /\ dialog[d].base <= task.generation
        /\ dialog[d].base \in 0..MaxRuns /\ task.generation \in 0..MaxRuns
    BY DialogState, HelperState DEF Windows, Tasks
  <2> QED BY <2>4, <2>5 DEF MaintenanceAssumption
<1>2. MaintenanceOK /\ [Next]_vars => [ResultNotStale]_vars
  BY <1>1
<1> QED BY <1>2, MaintenanceIsOK, PTL DEF Spec
=============================================================================
