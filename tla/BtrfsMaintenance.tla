--------------------------- MODULE BtrfsMaintenance ---------------------------
(***************************************************************************)
(* One long Btrfs maintenance task (an integrity check, a space rebalance  *)
(* or the defragmentation of Home) as the privileged helper runs it and as *)
(* the progress dialogs of the desktop application follow it.              *)
(*                                                                         *)
(* The helper keeps the state of the task behind a lock; one worker thread *)
(* runs the btrfs command and D-Bus calls start and cancel it.  A dialog   *)
(* takes the generation of the last run, asks for a new run, and polls     *)
(* until that run is over.  The helper's status call reads the state that  *)
(* btrfs reports before it reads the state of the task.                    *)
(***************************************************************************)
EXTENDS Naturals, Sequences, FiniteSets

CONSTANTS
    Kind,            \* "scrub", "balance" or "defrag"
    Dialogs,         \* desktop sessions that show the maintenance page
    MaxRuns,         \* bound: runs of the task
    StartupQueries,  \* polls a dialog waits for the new run (15)
    FailedQueries,   \* failed polls after which it gives up (3)
    None

MaintenanceAssumption ==
    /\ Kind \in {"scrub", "balance", "defrag"}
    /\ {MaxRuns, StartupQueries, FailedQueries} \subseteq Nat \ {0}

VARIABLES
    task,      \* the state behind the task's lock
    running,   \* SCRUB_TASK_RUNNING, BALANCE_TASK_RUNNING, DEFRAG_TASK_RUNNING
    worker,    \* the worker thread
    command,   \* the btrfs command it runs
    startCall, \* per dialog, its request for a new run
    cancelCall,\* per dialog, its request to cancel
    dialog,    \* per dialog, its window and its monitor
    control    \* per dialog, what the button of the page offers

vars == <<task, running, worker, command, startCall, cancelCall, dialog, control>>
helper == <<task, running, worker, command>>
page == <<dialog, control>>

Active == {"starting", "running", "cancelling"}
Final == {"finished", "cancelled", "failed"}
NoWorker == [at |-> "none", cancelled |-> FALSE]
Closed == [window |-> FALSE, monitor |-> "off", base |-> None, over |-> FALSE,
           observed |-> FALSE, waits |-> 0, fails |-> 0, native |-> FALSE]
NoCancel == [at |-> "none", phase |-> "idle", pid |-> FALSE]

Init ==
    /\ task = [generation |-> 0, phase |-> "idle", cancel |-> FALSE, pid |-> FALSE]
    /\ running = FALSE /\ worker = NoWorker /\ command = "none"
    /\ startCall = [d \in Dialogs |-> "none"]
    /\ cancelCall = [d \in Dialogs |-> NoCancel]
    /\ dialog = [d \in Dialogs |-> Closed]
    /\ control = [d \in Dialogs |-> "start"]

-----------------------------------------------------------------------------
(* The helper: starting.                                                   *)

(* The flag is free: a new generation begins, and its thread if one can be *)
(* spawned.                                                                *)
StartTask(spawned) ==
    /\ running' = spawned
    /\ task' = [generation |-> task.generation + 1,
                phase |-> IF spawned THEN "starting" ELSE "failed",
                cancel |-> FALSE, pid |-> FALSE]
    /\ worker' = IF spawned THEN [NoWorker EXCEPT !.at = "begin"] ELSE worker
    /\ UNCHANGED command

(* The scrub's thread takes the lock first.                                *)
ScrubBegins ==
    /\ Kind = "scrub" /\ worker.at = "begin"
    /\ task' = [task EXCEPT !.phase = IF task.cancel THEN "cancelling" ELSE "running"]
    /\ worker' = [worker EXCEPT !.at = "waits"] /\ command' = "launching"
    /\ UNCHANGED <<running, startCall, cancelCall, page>>

(* So does the balance's; one that was cancelled meanwhile does not run.   *)
BalanceBegins ==
    /\ Kind = "balance" /\ worker.at = "begin"
    /\ IF task.cancel
       THEN /\ task' = [task EXCEPT !.phase = "cancelled"]
            /\ running' = FALSE /\ worker' = NoWorker /\ UNCHANGED command
       ELSE /\ task' = [task EXCEPT !.phase = "running"]
            /\ worker' = [worker EXCEPT !.at = "waits"] /\ command' = "launching"
            /\ UNCHANGED running
    /\ UNCHANGED <<startCall, cancelCall, page>>

(* The defragmentation's thread spawns its child before it takes the lock. *)
ChildRuns ==
    /\ Kind = "defrag" /\ worker.at = "begin"
    /\ worker' = [worker EXCEPT !.at = "spawned"] /\ command' = "running"
    /\ UNCHANGED <<task, running, startCall, cancelCall, page>>

(* Defragmentation: the child exists; its pid is published, and a          *)
(* cancellation that came first is carried out now.                        *)
ChildSpawned ==
    /\ worker.at = "spawned"
    /\ task' = [task EXCEPT !.pid = TRUE, !.phase = IF task.cancel THEN "cancelling" ELSE "running"]
    /\ command' = IF task.cancel /\ command = "running" THEN "stopped" ELSE command
    /\ worker' = [worker EXCEPT !.at = "waits"]
    /\ UNCHANGED <<running, startCall, cancelCall, page>>

(* The child could not be spawned.                                         *)
SpawnFails ==
    /\ Kind = "defrag" /\ worker.at = "begin"
    /\ task' = [task EXCEPT !.phase = "failed", !.pid = FALSE]
    /\ running' = FALSE /\ worker' = NoWorker
    /\ UNCHANGED <<command, startCall, cancelCall, page>>

(* btrfs: the command reaches the file system, and ends by itself.         *)
CommandStarts ==
    /\ command = "launching" /\ command' \in {"running", "failed"}
    /\ UNCHANGED <<task, running, worker, startCall, cancelCall, page>>

CommandEnds ==
    /\ command = "running" /\ command' \in {"ok", "failed"}
    /\ UNCHANGED <<task, running, worker, startCall, cancelCall, page>>

EndTask(phase) ==
    /\ task' = [task EXCEPT !.phase = phase, !.pid = FALSE]
    /\ running' = FALSE /\ worker' = NoWorker /\ command' = "none"
    /\ UNCHANGED <<startCall, cancelCall, page>>

Ended == command \in {"ok", "stopped", "failed"}

(* What the foreground scrub printed: a stopped one says so.               *)
ScrubRunResult ==
    CASE command = "ok" -> "finished" [] command = "stopped" -> "cancelled" [] OTHER -> "failed"

ScrubEnds ==
    /\ Kind = "scrub" /\ worker.at = "waits" /\ Ended
    /\ EndTask(IF task.cancel THEN "cancelled" ELSE ScrubRunResult)

ExitPhase(cancelled) ==
    IF cancelled THEN "cancelled" ELSE IF command = "ok" THEN "finished" ELSE "failed"

BalanceEnds ==
    /\ Kind = "balance" /\ worker.at = "waits" /\ Ended
    /\ EndTask(ExitPhase(task.cancel))

(* The defragmentation's thread waits for its child, reads the flag, and   *)
(* takes the lock again to finish.                                         *)
Reaped ==
    /\ Kind = "defrag" /\ worker.at = "waits" /\ Ended
    /\ worker' = [worker EXCEPT !.at = "reaped", !.cancelled = task.cancel]
    /\ UNCHANGED <<task, running, command, startCall, cancelCall, page>>

FinishDefrag ==
    /\ worker.at = "reaped"
    /\ EndTask(ExitPhase(worker.cancelled))

-----------------------------------------------------------------------------
(* The helper: a request to start or to cancel, once Polkit has answered.  *)

CloseWindow(d) == [dialog EXCEPT ![d].window = FALSE]

StartGranted(d) ==
    /\ startCall[d] = "asked" /\ ~running /\ task.generation < MaxRuns
    /\ startCall' = [startCall EXCEPT ![d] = "none"]
    /\ \E spawned \in BOOLEAN :
          /\ StartTask(spawned)
          /\ IF spawned THEN UNCHANGED page
             ELSE /\ dialog' = CloseWindow(d)
                  /\ control' = [control EXCEPT ![d] = "start"]
    /\ UNCHANGED cancelCall

(* Denied, or a run is on already: the dialog is closed with the error.    *)
StartRefused(d) ==
    /\ startCall[d] = "asked"
    /\ startCall' = [startCall EXCEPT ![d] = "none"]
    /\ dialog' = CloseWindow(d)
    /\ control' = [control EXCEPT ![d] = "start"]
    /\ UNCHANGED <<helper, cancelCall>>

EndCancel(d) == cancelCall' = [cancelCall EXCEPT ![d] = NoCancel]

CancelRefused(d) ==
    /\ cancelCall[d].at = "asked"
    /\ EndCancel(d)
    /\ UNCHANGED <<helper, startCall, page>>

(* The flag is raised under the lock; the phase and the pid of that moment *)
(* go with the call.                                                       *)
Flag(d) ==
    /\ cancelCall[d].at = "asked"
    /\ task' = [task EXCEPT !.cancel = TRUE, !.phase = IF @ \in Active THEN "cancelling" ELSE @]
    /\ cancelCall' = [cancelCall EXCEPT ![d] =
          [at |-> "flagged", phase |-> task.phase, pid |-> task.pid]]
    /\ UNCHANGED <<running, worker, command, startCall, page>>

(* A balance takes it in any phase, the others only while they are active. *)
CancelFlags(d) == (Kind = "balance" \/ task.phase \in Active) /\ Flag(d)

StopCommand == command' = IF command = "running" THEN "stopped" ELSE command

(* Then the command that stops the task is run outside the lock.  If       *)
(* `scrub cancel` fails, the flag and the phase are put back.              *)
CancelScrub(d) ==
    /\ Kind = "scrub" /\ cancelCall[d].at = "flagged"
    /\ EndCancel(d) /\ StopCommand
    /\ task' = IF command = "running" THEN task
               ELSE [task EXCEPT !.cancel = FALSE, !.phase = cancelCall[d].phase]
    /\ UNCHANGED <<running, worker, startCall, page>>

(* `balance cancel`: whether it fails is a matter for the caller only.     *)
CancelBalance(d) ==
    /\ Kind = "balance" /\ cancelCall[d].at = "flagged"
    /\ EndCancel(d) /\ StopCommand
    /\ UNCHANGED <<task, running, worker, startCall, page>>

(* A signal to the pid, if there was one; else the thread sees to it.      *)
CancelDefrag(d) ==
    /\ Kind = "defrag" /\ cancelCall[d].at = "flagged"
    /\ EndCancel(d)
    /\ IF cancelCall[d].pid THEN StopCommand ELSE UNCHANGED command
    /\ UNCHANGED <<task, running, worker, startCall, page>>

-----------------------------------------------------------------------------
(* The page: the button, the baseline query and the progress dialog.       *)

(* scrub_task_status, balance_task_status, defrag_task_status: a balance   *)
(* that btrfs reports counts as active whatever the task says.             *)
StatusActive(native) == task.phase \in Active \/ (Kind = "balance" /\ native)

(* What the button of the page offers for a state of the task.             *)
ButtonFor(active) == IF active THEN "monitor" ELSE "start"

Opened(base, over, observed) ==
    [Closed EXCEPT !.window = TRUE, !.monitor = "ask", !.base = base, !.over = over,
                   !.observed = observed]

ClickStart(d) ==
    /\ control[d] = "start" /\ startCall[d] = "none" /\ dialog[d] = Closed
    /\ startCall' = [startCall EXCEPT ![d] = "baseline"]
    /\ control' = [control EXCEPT ![d] = "off"]
    /\ UNCHANGED <<helper, cancelCall, dialog>>

(* The generation of the last run is the baseline; without it the request  *)
(* is given up.                                                            *)
Baseline(d) ==
    /\ startCall[d] = "baseline"
    /\ \E native \in {command = "running"}, ok \in BOOLEAN :
          /\ startCall' = [startCall EXCEPT ![d] = IF ok THEN "asked" ELSE "none"]
          /\ control' = [control EXCEPT ![d] = IF ok THEN "monitor" ELSE "off"]
          /\ dialog' = IF ok THEN [dialog EXCEPT ![d] =
                            Opened(task.generation, ~StatusActive(native), FALSE)]
                       ELSE dialog
    /\ UNCHANGED <<helper, cancelCall>>

ClickMonitor(d) ==
    /\ control[d] = "monitor" /\ startCall[d] = "none" /\ dialog[d] = Closed
    /\ dialog' = [dialog EXCEPT ![d] = Opened(None, FALSE, TRUE)]
    /\ UNCHANGED <<helper, startCall, cancelCall, control>>

ClickCancel(d) ==
    /\ dialog[d].window /\ cancelCall[d] = NoCancel
    /\ cancelCall' = [cancelCall EXCEPT ![d].at = "asked"]
    /\ UNCHANGED <<helper, startCall, page>>

(* The page is opened anew and asks for the state of the task.             *)
Reopen(d) ==
    /\ dialog[d] = Closed /\ startCall[d] = "none" /\ cancelCall[d] = NoCancel
    /\ control' = [control EXCEPT ![d] = ButtonFor(StatusActive(command = "running"))]
    /\ UNCHANGED <<helper, startCall, cancelCall, dialog>>

(* One turn of the monitor: it leaves when its window is gone, else asks.  *)
Ask(d) ==
    /\ dialog[d].monitor = "ask"
    /\ dialog' = [dialog EXCEPT ![d] =
          IF ~@.window THEN Closed
          ELSE [@ EXCEPT !.monitor = "answer", !.native = (command = "running")]]
    /\ UNCHANGED <<helper, startCall, cancelCall, control>>

Stop(d, c) ==
    /\ dialog' = [dialog EXCEPT ![d] = Closed]
    /\ control' = [control EXCEPT ![d] = c]

(* Failed polls in a row end it.                                           *)
AnswerFailed(d) ==
    /\ dialog[d].monitor = "answer"
    /\ IF dialog[d].fails + 1 >= FailedQueries
       THEN Stop(d, "off")
       ELSE /\ dialog' = [dialog EXCEPT ![d].fails = @ + 1, ![d].monitor = "ask"]
            /\ UNCHANGED control
    /\ UNCHANGED <<helper, startCall, cancelCall>>

Observed(d) ==
    \/ dialog[d].observed \/ StatusActive(dialog[d].native)
    \/ dialog[d].base # None /\ task.generation # dialog[d].base

(* The new run is not there yet: wait, for a while.                        *)
AnswerWaiting(d) ==
    /\ dialog[d].monitor = "answer" /\ ~Observed(d)
    /\ IF dialog[d].waits + 1 >= StartupQueries
       THEN Stop(d, IF Kind = "scrub" THEN "start" ELSE "off")
       ELSE /\ dialog' = [dialog EXCEPT ![d].waits = @ + 1, ![d].fails = 0, ![d].monitor = "ask"]
            /\ UNCHANGED control
    /\ UNCHANGED <<helper, startCall, cancelCall>>

(* The run goes on, or its result is shown and the dialog closes.          *)
Answer(d) ==
    /\ dialog[d].monitor = "answer" /\ Observed(d)
    /\ IF StatusActive(dialog[d].native)
       THEN /\ dialog' = [dialog EXCEPT ![d].observed = TRUE, ![d].fails = 0, ![d].monitor = "ask"]
            /\ control' = [control EXCEPT ![d] = "monitor"]
       ELSE Stop(d, "start")
    /\ UNCHANGED <<helper, startCall, cancelCall>>

-----------------------------------------------------------------------------
WorkerStep ==
    \/ ScrubBegins \/ BalanceBegins \/ ChildRuns \/ ChildSpawned
    \/ ScrubEnds \/ BalanceEnds \/ Reaped \/ FinishDefrag

CancelStep(d) == CancelScrub(d) \/ CancelBalance(d) \/ CancelDefrag(d)

Next ==
    \/ WorkerStep \/ SpawnFails \/ CommandStarts \/ CommandEnds
    \/ \E d \in Dialogs :
          \/ ClickStart(d) \/ Baseline(d) \/ StartGranted(d) \/ StartRefused(d)
          \/ ClickMonitor(d) \/ ClickCancel(d) \/ Reopen(d)
          \/ CancelRefused(d) \/ CancelFlags(d) \/ CancelStep(d)
          \/ Ask(d) \/ AnswerFailed(d) \/ AnswerWaiting(d) \/ Answer(d)

Spec == Init /\ [][Next]_vars

(* Threads and polls go on; nobody has to click, and a task that is not    *)
(* stopped may take for ever.                                              *)
StopSpec ==
    /\ Spec /\ WF_vars(WorkerStep) /\ WF_vars(CommandStarts)
    /\ \A d \in Dialogs : WF_vars(CancelStep(d))

Answered(d) == AnswerFailed(d) \/ AnswerWaiting(d) \/ Answer(d)

(* As above, and every task ends in time.                                  *)
EndsSpec ==
    /\ StopSpec /\ WF_vars(CommandEnds)
    /\ \A d \in Dialogs : /\ WF_vars(Ask(d)) /\ WF_vars(Baseline(d))
                          /\ WF_vars(Answered(d))

-----------------------------------------------------------------------------
Tasks == [generation : 0..MaxRuns, phase : Active \cup Final \cup {"idle"},
          cancel : BOOLEAN, pid : BOOLEAN]
Threads == [at : {"none", "begin", "spawned", "waits", "reaped"}, cancelled : BOOLEAN]
Windows == [window : BOOLEAN, monitor : {"off", "ask", "answer"}, base : {None} \cup 0..MaxRuns,
            over : BOOLEAN, observed : BOOLEAN, waits : 0..(StartupQueries - 1),
            fails : 0..(FailedQueries - 1), native : BOOLEAN]
Cancels == [at : {"none", "asked", "flagged"}, phase : Active \cup Final \cup {"idle"},
            pid : BOOLEAN]

TypeOK ==
    /\ task \in Tasks /\ running \in BOOLEAN /\ worker \in Threads
    /\ command \in {"none", "launching", "running", "ok", "stopped", "failed"}
    /\ startCall \in [Dialogs -> {"none", "baseline", "asked"}]
    /\ control \in [Dialogs -> {"start", "monitor", "off"}]
    /\ cancelCall \in [Dialogs -> Cancels]
    /\ dialog \in [Dialogs -> Windows]

(* The flag is up as long as there is a thread, a thread means an active   *)
(* phase, and without one no command is left; the phase is active without  *)
(* a thread only where a scrub's cancellation has put it back.             *)
WorkerOK ==
    /\ running <=> worker.at # "none"
    /\ worker.at # "none" => task.phase \in Active
    /\ worker.at \in {"none", "begin"} => command = "none"
    /\ task.phase \in Active => worker.at # "none" \/ Kind = "scrub"
    /\ \A d \in Dialogs : Kind = "scrub" /\ cancelCall[d].at = "flagged" =>
          cancelCall[d].phase \in Active

(* As long as the run a dialog found over is the last one, no thread has   *)
(* begun, and the dialog takes nothing it sees for the end of a run.       *)
BaselineOK ==
    \A d \in Dialogs :
        dialog[d].base # None /\ dialog[d].over =>
            /\ dialog[d].base <= task.generation
            /\ dialog[d].base = task.generation =>
                  /\ worker.at = "none" /\ ~dialog[d].native
                  /\ dialog[d].observed => task.phase \in Active

MaintenanceOK == TypeOK /\ WorkerOK /\ BaselineOK

(* The flag that refuses a second run and the phase that the page shows    *)
(* agree with the thread: a run is never hidden and never doubled, and one *)
(* that is over blocks no new one, also where a scrub's cancellation puts  *)
(* back a phase from before its end (run_scrub_task, cancel_scrub).        *)
RunIsShown ==
    /\ running <=> worker.at # "none"
    /\ worker.at # "none" => task.phase \in Active

(* A task that is reported as under way has a thread that will end it: no  *)
(* order of starting, cancelling and finishing leaves an active phase      *)
(* behind (run_balance_task, run_defrag_task). A scrub may leave one.      *)
ActiveHasWorker ==
    (task.phase \in Active /\ \A d \in Dialogs : cancelCall[d].at # "flagged")
        => worker.at # "none"

(* A dialog never shows, as the result of the run it asked for, the result *)
(* of a run that was over when its button was clicked: the baseline of     *)
(* task_dialog.rs start/monitor and scrub.rs start/status_is_current.      *)
ResultNotStale ==
    \A d \in Dialogs :
        (Answer(d) /\ dialog'[d] = Closed /\ dialog[d].base # None /\ dialog[d].over)
            => task.generation > dialog[d].base

(* A cancellation that the task took is never lost, even if it came before *)
(* the child existed: the run ends although btrfs would go on for ever     *)
(* (run_defrag_task, cancel_defragment_home).                              *)
(* And every progress dialog, which the user cannot close, closes in the   *)
(* end, if every task ends.                                                *)
Begun == <<task.cancel /\ task.phase \in Active>> \o [d \in Dialogs |-> dialog[d].window]
Over == <<task.phase \notin Active>> \o [d \in Dialogs |-> ~dialog[d].window]
CancelHonoured == Begun[1] ~> Over[1]
Progress == \A k \in 1..(1 + Cardinality(Dialogs)) : Begun[k] ~> Over[k]
=============================================================================
