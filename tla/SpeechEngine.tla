---------------------------- MODULE SpeechEngine ----------------------------
(***************************************************************************)
(* The recognition engine of anduinos-whisper-framework as its one thread  *)
(* uses it: SessionEngine (which model and backend to use, the memory of a *)
(* failed GPU), ResidentEngine (one worker process kept between phrases)   *)
(* and WorkerTransport (one request and one answer at a time over pipes).  *)
(* The worker process loads, reads a request, answers, crashes or hangs at *)
(* any moment.  A deadline is a step that may be taken at any time.        *)
(***************************************************************************)
EXTENDS Integers, Sequences, FiniteSets

CONSTANTS Slots,     \* room in the process table
          Backends,  \* backends the sessions ask for
          Versions,  \* versions of the model file
          Crashes,   \* how often a worker process crashes
          MaxRequests, None

EngineAssumption ==
    /\ Backends \subseteq {"cpu", "gpu"} /\ MaxRequests \in Nat /\ Crashes \in Nat
    /\ None \notin Slots
    /\ None \notin [backend : {"cpu", "gpu"}, proc : Slots \cup {None}]
    /\ None \notin [backend : Backends, version : Versions]

VARIABLES engine,     \* None, or the backend and the transport's process
          identity,   \* configuration and model file the engine stands for
          gpu_failed,
          model,      \* the version of the model file on disk
          cancel,     \* the flag of the job, set by the main loop
          call,       \* the transcription under way
          procs,      \* the process table: worker processes
          served,     \* requests so far
          last,       \* how the last transcription ended
          failedFor,  \* identities whose GPU failed since the last invalidate
          crashes

vars == <<engine, identity, gpu_failed, model, cancel, call, procs, served, last,
          failedFor, crashes>>

Free == [at |-> "none", backend |-> "cpu", out |-> <<>>, in |-> 0, req |-> 0,
         flag |-> FALSE]
Alive(p) == procs[p].at \notin {"none", "dead"}
NoCall == [at |-> "none", req |-> 0, backend |-> "cpu", written |-> 0,
           aborting |-> FALSE, retry |-> FALSE, proc |-> None]

-----------------------------------------------------------------------------
(* SessionEngine *)

\* Mutant: closing the transport forgets to end its process.
kill_forgotten(t, p) == t

\* WorkerTransport::close: TERM, then KILL, then wait.
kill(t, p) == IF p = None THEN t ELSE [t EXCEPT ![p] = Free]

Process == IF engine = None THEN None ELSE engine.proc

ended(outcome, a, b) ==
    last' = [req |-> call.req, outcome |-> outcome, answer |-> a, backend |-> b]

\* prepare and transcribe begin alike: the identity of the configuration and
\* of the model file decides whether the engine can be kept.
transcribe ==
    /\ call.at = "none" /\ served < MaxRequests
    /\ served' = served + 1
    /\ \E backend \in Backends :
         LET id == [backend |-> backend, version |-> model]
             same == identity = id
         IN  /\ identity' = id
             /\ gpu_failed' = IF same THEN gpu_failed ELSE FALSE
             /\ engine' = IF same THEN engine ELSE None
             /\ procs' = IF same THEN procs ELSE kill(procs, Process)
             /\ call' = [NoCall EXCEPT !.at = "engine", !.req = served + 1,
                           !.backend = IF gpu_failed' THEN "cpu" ELSE backend]
             /\ failedFor' = IF same THEN failedFor ELSE {}
    /\ cancel' = FALSE
    /\ UNCHANGED <<model, last, crashes>>

\* A cancelled job does not get that far.
transcribe_cancelled ==
    /\ call.at = "engine" /\ cancel
    /\ call' = NoCall
    /\ ended("Cancelled", 0, "cpu")
    /\ UNCHANGED <<engine, identity, gpu_failed, model, cancel, procs, served,
                   failedFor, crashes>>

\* ResidentEngine::transcribe: keep the running process or start one.
with_engine ==
    /\ call.at = "engine" /\ ~cancel
    /\ LET p == Process
           e == IF engine = None THEN [backend |-> call.backend, proc |-> None] ELSE engine
       IN  IF p # None /\ Alive(p)
             THEN /\ call' = [call EXCEPT !.at = "exchange", !.proc = p]
                  /\ UNCHANGED <<engine, procs>>
             ELSE \E q \in Slots :
                    /\ procs[q].at = "none" \/ q = p
                    /\ engine' = [e EXCEPT !.proc = None]
                    /\ procs' = [kill(procs, p) EXCEPT
                                   ![q] = [Free EXCEPT !.at = "loading", !.backend = e.backend]]
                    /\ call' = [call EXCEPT !.at = "handshake", !.proc = q]
    /\ UNCHANGED <<identity, gpu_failed, model, cancel, served, last, failedFor, crashes>>

\* SessionEngine::transcribe_inner after a failure: the engine goes, and a
\* GPU engine that could be started is retried once on the CPU.
settle(err) ==
    LET again == err # "Unavailable" /\ call.backend = "gpu" /\ ~call.retry
    IN  /\ engine' = None
        /\ procs' = kill(kill(procs, Process), call.proc)
        /\ gpu_failed' = (gpu_failed \/ again)
        /\ failedFor' = IF again THEN failedFor \cup {identity} ELSE failedFor
        /\ IF again
             THEN /\ call' = [NoCall EXCEPT !.at = "engine", !.req = call.req,
                                !.backend = "cpu", !.retry = TRUE]
                  /\ UNCHANGED last
             ELSE /\ call' = NoCall
                  /\ ended(err, 0, "cpu")

\* Only an acknowledged cancellation leaves a reusable process, and only on
\* the first attempt.
cancelled(t, close) ==
    LET gone == close \/ call.retry \/ ~Alive(call.proc)
    IN  /\ procs' = IF gone THEN kill(t, call.proc) ELSE t
        /\ engine' = IF gone THEN None ELSE engine
        /\ call' = NoCall /\ ended("Cancelled", 0, "cpu")
        /\ UNCHANGED <<gpu_failed, failedFor>>

\* A measurement was made, or a GPU that failed is chosen by hand again.
invalidate ==
    /\ call.at = "none" /\ identity # None
    /\ engine' = None /\ procs' = kill(procs, Process)
    /\ identity' = None /\ gpu_failed' = FALSE /\ failedFor' = {}
    /\ UNCHANGED <<model, cancel, call, served, last, crashes>>

release_if_idle ==
    /\ call.at = "none" /\ engine # None
    /\ engine' = None /\ procs' = kill(procs, Process)
    /\ UNCHANGED <<identity, gpu_failed, model, cancel, call, served, last, failedFor, crashes>>

-----------------------------------------------------------------------------
(* WorkerTransport::exchange, one step per turn of its loop *)

InExchange == call.at \in {"handshake", "exchange"}
Sent == call.at = "exchange" /\ call.written = 2   \* the request is fully written
Proc == procs[call.proc]

Exchanging == InExchange /\ UNCHANGED <<identity, model, cancel, served, crashes>>

\* Cancelled while starting or while the request is half written.
cancel_early ==
    /\ Exchanging /\ cancel /\ ~Sent
    /\ cancelled(procs, TRUE)

\* The request is out: ask the worker to stop, and wait for its answer.
signal ==
    /\ Exchanging /\ cancel /\ Sent /\ ~call.aborting
    /\ call' = [call EXCEPT !.aborting = TRUE]
    /\ procs' = [procs EXCEPT ![call.proc].flag = TRUE]
    /\ UNCHANGED <<engine, gpu_failed, last, failedFor>>

abort_expires ==
    /\ Exchanging /\ call.aborting
    /\ cancelled(procs, TRUE)

timeout == Exchanging /\ settle("Timeout")

\* A request needs two writes.
write ==
    /\ Exchanging /\ call.at = "exchange" /\ ~cancel /\ ~Sent /\ Proc.at # "dead"
    /\ call' = [call EXCEPT !.written = @ + 1]
    /\ procs' = IF call.written = 1 THEN [procs EXCEPT ![call.proc].in = call.req] ELSE procs
    /\ UNCHANGED <<engine, gpu_failed, last, failedFor>>

\* End of file, a broken pipe, or a line that is not the protocol's.
broken ==
    /\ Exchanging /\ (cancel => call.aborting)
    /\ \/ Proc.at = "dead" /\ Proc.out = <<>>
       \/ Proc.out # <<>> /\ Head(Proc.out).status = "garbage"
    /\ settle("Protocol")

acknowledged(line) == line.status = "cancelled"

\* A whole line is there; a pending cancellation is looked at first.
response ==
    /\ Exchanging /\ (cancel => call.aborting)
    /\ Proc.out # <<>> /\ Head(Proc.out).status # "garbage"
    /\ LET line == Head(Proc.out)
           t == [procs EXCEPT ![call.proc].out = Tail(@)]
       IN  IF call.aborting
             THEN cancelled(t, ~acknowledged(line))
           ELSE IF call.at = "handshake"
             THEN IF line.status = "ready"
                    THEN /\ procs' = t
                         /\ engine' = [engine EXCEPT !.proc = call.proc]
                         /\ call' = [call EXCEPT !.at = "exchange"]
                         /\ UNCHANGED <<gpu_failed, last, failedFor>>
                    ELSE settle("Unavailable")
           ELSE IF line.status = "success"
             THEN /\ procs' = t /\ call' = NoCall
                  /\ ended("text", line.req, Proc.backend)
                  /\ UNCHANGED <<engine, gpu_failed, failedFor>>
           ELSE IF line.status = "cancelled"
             THEN cancelled(t, FALSE)
           ELSE settle("Protocol")

exchange == cancel_early \/ signal \/ abort_expires \/ timeout \/ write \/ broken \/ response

-----------------------------------------------------------------------------
(* The worker process, and the world around the thread *)

Step(p, r) ==
    /\ procs' = [procs EXCEPT ![p] = r]
    /\ UNCHANGED <<engine, identity, gpu_failed, model, cancel, call, served, last,
                   failedFor, crashes>>

Say(p, status) == Append(procs[p].out, [status |-> status, req |-> procs[p].req])

\* A worker whose libraries do not fit says so instead of getting ready.
load(p) ==
    /\ procs[p].at = "loading"
    /\ \E status \in {"ready", "unavailable"} :
         Step(p, [procs[p] EXCEPT !.at = IF status = "ready" THEN "top" ELSE "dead",
                                  !.out = Say(p, status)])

\* The flag is cleared at the top of the loop, before a request is read.
next_request(p) ==
    /\ procs[p].at = "top"
    /\ Step(p, [procs[p] EXCEPT !.at = "reading", !.flag = FALSE])

read_request(p) ==
    /\ procs[p].at = "reading" /\ procs[p].in # 0
    /\ Step(p, [procs[p] EXCEPT !.at = "busy", !.req = procs[p].in, !.in = 0])

answer(p) ==
    /\ procs[p].at = "busy"
    /\ \E status \in IF procs[p].flag THEN {"cancelled"} ELSE {"success", "error"} :
         Step(p, [procs[p] EXCEPT !.at = "top", !.out = Say(p, status)])

crash(p) ==
    /\ Alive(p) /\ crashes < Crashes
    /\ crashes' = crashes + 1
    /\ \E out \in {procs[p].out, Say(p, "garbage")} :
         procs' = [procs EXCEPT ![p].at = "dead", ![p].out = out]
    /\ UNCHANGED <<engine, identity, gpu_failed, model, cancel, call, served, last, failedFor>>

\* The main loop ends the session, or a new preview replaces the one running.
cancel_job ==
    /\ call.at # "none" /\ ~cancel /\ cancel' = TRUE
    /\ UNCHANGED <<engine, identity, gpu_failed, model, call, procs, served, last,
                   failedFor, crashes>>

replace_model ==
    /\ model' \in Versions /\ model' # model
    /\ UNCHANGED <<engine, identity, gpu_failed, cancel, call, procs, served, last,
                   failedFor, crashes>>

Init ==
    /\ engine = None /\ identity = None /\ gpu_failed = FALSE
    /\ model \in Versions /\ cancel = FALSE /\ call = NoCall
    /\ procs = [p \in Slots |-> Free]
    /\ served = 0 /\ failedFor = {} /\ crashes = 0
    /\ last = [req |-> 0, outcome |-> "none", answer |-> 0, backend |-> "cpu"]

engine_step == transcribe_cancelled \/ with_engine \/ exchange

Next ==
    \/ transcribe \/ engine_step \/ invalidate \/ release_if_idle
    \/ \E p \in Slots : load(p) \/ next_request(p) \/ read_request(p) \/ answer(p) \/ crash(p)
    \/ cancel_job \/ replace_model

Spec == Init /\ [][Next]_vars

\* The loop polls every 20 ms and its deadlines pass; nothing is assumed of
\* the worker process.
LiveSpec == Spec /\ WF_vars(transcribe_cancelled) /\ WF_vars(with_engine)
                 /\ WF_vars(timeout) /\ WF_vars(abort_expires)

-----------------------------------------------------------------------------
(* Properties *)

Identities == [backend : Backends, version : Versions]
Lines == [status : {"ready", "unavailable", "success", "error", "cancelled", "garbage"},
          req : 0..MaxRequests]
Workers == [at : {"none", "loading", "top", "reading", "busy", "dead"},
            backend : {"cpu", "gpu"}, out : Seq(Lines),
            in : 0..MaxRequests, req : 0..MaxRequests, flag : BOOLEAN]
Calls == [at : {"none", "engine", "handshake", "exchange"}, req : 0..MaxRequests,
          backend : {"cpu", "gpu"}, written : 0..2, aborting : BOOLEAN,
          retry : BOOLEAN, proc : Slots \cup {None}]
Results == [req : 0..MaxRequests, answer : 0..MaxRequests, backend : {"cpu", "gpu"},
            outcome : {"none", "text", "Cancelled", "Timeout", "Unavailable", "Protocol"}]

\* The state is well typed; a worker says at most two lines that nobody read.
TypeOK ==
    /\ engine \in {None} \cup [backend : {"cpu", "gpu"}, proc : Slots \cup {None}]
    /\ identity \in {None} \cup Identities /\ failedFor \subseteq Identities
    /\ model \in Versions /\ gpu_failed \in BOOLEAN /\ cancel \in BOOLEAN
    /\ served \in 0..MaxRequests /\ crashes \in 0..Crashes
    /\ call \in Calls /\ last \in Results /\ procs \in [Slots -> Workers]
    /\ \A p \in Slots : Len(procs[p].out) <= 2

\* with_engine, response: the call knows the process it talks to, which is
\* the engine's once it said that it is ready.
CallOK ==
    IF InExchange
      THEN /\ engine # None /\ call.proc \in Slots /\ Proc.at # "none"
           /\ engine.proc = IF call.at = "exchange" THEN call.proc ELSE None
           /\ call.at = "handshake" => call.written = 0
      ELSE call.proc = None /\ call.written = 0

\* transcribe_inner: what runs is what this configuration wants, which is the
\* CPU once its GPU failed, and only one process runs.
Wanted == IF gpu_failed THEN "cpu" ELSE identity.backend
Owner == IF InExchange THEN call.proc ELSE Process
BackendOK ==
    /\ engine # None => identity # None /\ engine.backend = Wanted
    /\ call.at # "none" => identity # None /\ call.backend = Wanted
    /\ \A p \in Slots : procs[p].at # "none" =>
         /\ engine # None /\ p = Owner
         /\ procs[p].backend = Wanted
    /\ identity \in failedFor => gpu_failed

\* exchange, the worker's loop: one request is on its way at most, in the
\* pipe, at the worker or answered; only a worker that died says more.
PipeOK ==
    \A p \in Slots : procs[p].at # "none" =>
      LET r == procs[p]
      IN  /\ r.at = "loading" => call.at = "handshake" /\ r.out = <<>>
          /\ r.in # 0 => Sent /\ r.in = call.req /\ r.at # "busy"
          /\ r.at = "busy" => Sent /\ r.req = call.req /\ r.out = <<>>
          /\ Len(r.out) >= 1 =>
               /\ r.out[1].status \in {"ready", "unavailable"} =>
                    call.at = "handshake" /\ r.at # "loading"
               /\ r.out[1].status \in {"success", "error", "cancelled"} =>
                    Sent /\ r.out[1].req = call.req /\ r.in = 0
               /\ r.out[1].status = "garbage" => r.at = "dead"
          /\ Len(r.out) = 2 => r.at = "dead" /\ r.out[2].status = "garbage"

EngineOK == TypeOK /\ CallOK /\ BackendOK /\ PipeOK

\* exchange, close: the text that is returned was recognized from the audio
\* of this request, never from one that was cancelled, timed out or crashed.
AnswersMatch == last.outcome = "text" => last.answer = last.req

\* WorkerTransport::drop, close: a worker process that is alive is the one
\* the engine owns or the one being started; none is left behind.
NoOrphans == \A p \in Slots : procs[p].at # "none" => p \in {Process, call.proc}

\* transcribe_inner, release_if_idle: once the GPU has failed for a model and
\* configuration, every later worker for them is a CPU worker, until they
\* change or a new measurement invalidates them.
FailedGpuAvoided ==
    identity \in failedFor =>
      \A p \in Slots : procs[p].at # "none" => procs[p].backend = "cpu"

\* SessionEngine: the process that serves a request runs the backend that was
\* asked for, or the CPU after a failure.
EngineFits ==
    call.at \in {"handshake", "exchange"} => Proc.backend = call.backend

\* exchange: every transcription ends, whatever its worker does.
Begun == <<call.at # "none">>
Over == <<call.at = "none">>
Progress == Begun[1] ~> Over[1]
=============================================================================
