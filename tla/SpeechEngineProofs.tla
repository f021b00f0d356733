------------------------- MODULE SpeechEngineProofs -------------------------
(***************************************************************************)
(* The recognition engine, proved for any number of process slots,         *)
(* requests, model versions and crashes.  EngineOK says which process runs *)
(* and with which backend, and what may be in its pipes.                   *)
(***************************************************************************)
EXTENDS SpeechEngine, TLAPS

USE DEF Workers

Tables == [Slots -> Workers]

(* A killed process leaves a free slot, the others stay.                   *)
LEMMA KillIsFree ==
  ASSUME EngineAssumption, NEW t \in Tables, NEW p \in Slots \cup {None}
  PROVE  /\ kill(t, p) \in Tables
         /\ \A q \in Slots : kill(t, p)[q] = IF q = p THEN Free ELSE t[q]
<1>1. Free \in Workers
  BY DEF Free, EngineAssumption
<1>2. CASE p = None
  BY <1>2 DEF kill, EngineAssumption
<1>3. CASE p # None
  <2>1. p \in Slots BY <1>3
  <2>2. kill(t, p) = [t EXCEPT ![p] = Free] BY <1>3 DEF kill
  <2> HIDE DEF Free, kill
  <2> QED BY <1>1, <2>1, <2>2 DEF Tables
<1> QED BY <1>2, <1>3

LEMMA ProcessIsSlot ==
  ASSUME EngineAssumption, TypeOK
  PROVE  /\ Process \in Slots \cup {None} /\ call.proc \in Slots \cup {None}
         /\ procs \in Tables
  BY DEF TypeOK, Process, Tables, Calls

(* No process is left once the engine's and the call's are killed.         *)
LEMMA AllFreed ==
  ASSUME EngineAssumption, EngineOK
  PROVE  /\ kill(kill(procs, Process), call.proc) \in Tables
         /\ \A q \in Slots : kill(kill(procs, Process), call.proc)[q] = Free
                             \/ kill(kill(procs, Process), call.proc)[q] = procs[q]
         /\ \A q \in Slots : kill(kill(procs, Process), call.proc)[q].at = "none"
<1> DEFINE once == kill(procs, Process)
           twice == kill(once, call.proc)
<1>1. /\ Process \in Slots \cup {None} /\ call.proc \in Slots \cup {None}
      /\ procs \in Tables
  BY ProcessIsSlot DEF EngineOK
<1>2. /\ once \in Tables
      /\ \A q \in Slots : once[q] = IF q = Process THEN Free ELSE procs[q]
  BY <1>1, KillIsFree
<1>3. /\ twice \in Tables
      /\ \A q \in Slots : twice[q] = IF q = call.proc THEN Free ELSE once[q]
  <2> HIDE DEF once
  <2> QED BY <1>1, <1>2, KillIsFree
<1>4. \A q \in Slots : procs[q].at # "none" => q \in {Process, call.proc}
  BY DEF EngineOK, BackendOK, Owner
<1>5. Free.at = "none"
  BY DEF Free
<1> HIDE DEF once, twice
<1>6. \A q \in Slots : twice[q] = Free \/ (twice[q] = procs[q] /\ procs[q].at = "none")
  BY <1>2, <1>3, <1>4
<1> QED BY <1>3, <1>5, <1>6 DEF once, twice

(* Between two calls the engine's process is the only one.                 *)
LEMMA EngineFreed ==
  ASSUME EngineAssumption, EngineOK, ~InExchange
  PROVE  /\ kill(procs, Process) \in Tables
         /\ \A q \in Slots : kill(procs, Process)[q] = Free
                             \/ kill(procs, Process)[q] = procs[q]
         /\ \A q \in Slots : kill(procs, Process)[q].at = "none"
<1>1. call.proc = None
  BY DEF EngineOK, CallOK
<1>2. kill(kill(procs, Process), call.proc) = kill(procs, Process)
  BY <1>1 DEF kill
<1> QED BY <1>2, AllFreed

(* Without a process only the types and the call are left to keep.         *)
LEMMA NothingRuns ==
  ASSUME EngineAssumption, EngineOK,
         procs' \in Tables,
         \A q \in Slots : procs'[q] = Free \/ procs'[q] = procs[q],
         \A q \in Slots : procs'[q].at = "none",
         engine' = None, identity' \in {None} \cup Identities,
         failedFor' \subseteq Identities, model' \in Versions,
         gpu_failed' \in BOOLEAN, cancel' \in BOOLEAN,
         served' \in 0..MaxRequests, crashes' \in 0..Crashes,
         call' \in Calls, call'.at \in {"none", "engine"}, call'.proc = None,
         call'.written = 0,
         call'.at # "none" => identity' # None /\ call'.backend = Wanted',
         identity' \in failedFor' => gpu_failed',
         last' \in Results
  PROVE  EngineOK'
<1>1. \A q \in Slots : Len(procs'[q].out) <= 2
  <2>1. Len(Free.out) = 0
    BY DEF Free
  <2>2. \A q \in Slots : Len(procs[q].out) <= 2
    BY DEF EngineOK, TypeOK
  <2>3. TAKE q \in Slots
  <2> HIDE DEF Free
  <2>4. CASE procs'[q] = Free
    BY <2>1, <2>4
  <2>5. CASE procs'[q] = procs[q]
    BY <2>2, <2>5
  <2> QED BY <2>4, <2>5
<1>2. TypeOK'
  BY <1>1 DEF TypeOK, Tables, Calls, Results, Identities, Lines
<1>3. CallOK'
  BY DEF CallOK, InExchange
<1>4. BackendOK'
  BY DEF BackendOK
<1>5. PipeOK'
  BY DEF PipeOK
<1> QED BY <1>2, <1>3, <1>4, <1>5 DEF EngineOK

LEMMA SettleKeeps ==
  ASSUME EngineAssumption, EngineOK, InExchange,
         NEW err \in {"Timeout", "Unavailable", "Protocol"}, settle(err),
         UNCHANGED <<identity, model, cancel, served, crashes>>
  PROVE  EngineOK'
<1> DEFINE again == err # "Unavailable" /\ call.backend = "gpu" /\ ~call.retry
<1>1. identity # None /\ identity \in Identities /\ call.backend = Wanted
  BY DEF EngineOK, TypeOK, BackendOK, InExchange
<1>2. /\ procs' \in Tables
      /\ \A q \in Slots : procs'[q] = Free \/ procs'[q] = procs[q]
      /\ \A q \in Slots : procs'[q].at = "none"
  BY AllFreed DEF settle
<1>3. /\ engine' = None /\ identity' = identity /\ identity' # None
      /\ identity' \in {None} \cup Identities
      /\ model' \in Versions /\ cancel' \in BOOLEAN
      /\ served' \in 0..MaxRequests /\ crashes' \in 0..Crashes
  BY <1>1 DEF settle, EngineOK, TypeOK
<1>4. /\ gpu_failed' \in BOOLEAN /\ failedFor' \subseteq Identities
      /\ identity' \in failedFor' => gpu_failed'
  BY <1>1, <1>3 DEF settle, EngineOK, TypeOK, BackendOK
<1>5. call \in Calls /\ last \in Results /\ 0 \in 0..MaxRequests
  BY DEF EngineOK, TypeOK, Calls, Results, EngineAssumption
<1>6. CASE again
  <2>1. call' = [NoCall EXCEPT !.at = "engine", !.req = call.req,
                   !.backend = "cpu", !.retry = TRUE]
        /\ last' = last /\ gpu_failed'
    BY <1>6 DEF settle
  <2>2. /\ call' \in Calls /\ call'.at = "engine" /\ call'.proc = None
        /\ call'.written = 0 /\ call'.backend = "cpu"
    <3>1. call.req \in 0..MaxRequests
      BY <1>5 DEF Calls
    <3>2. call' = [at |-> "engine", req |-> call.req, backend |-> "cpu", written |-> 0,
                   aborting |-> FALSE, retry |-> TRUE, proc |-> None]
      BY <2>1 DEF NoCall
    <3> QED BY <3>1, <3>2 DEF Calls
  <2>3. Wanted' = "cpu"
    BY <2>1 DEF Wanted
  <2> QED BY <1>2, <1>3, <1>4, <1>5, <2>1, <2>2, <2>3, NothingRuns
<1>7. CASE ~again
  <2>1. call' = NoCall /\ ended(err, 0, "cpu")
    BY <1>7 DEF settle
  <2>2. /\ call' \in Calls /\ call'.at = "none" /\ call'.proc = None /\ call'.written = 0
    BY <1>5, <2>1 DEF NoCall, Calls
  <2>3. last' \in Results
    BY <1>5, <2>1 DEF ended, Calls, Results
  <2> QED BY <1>2, <1>3, <1>4, <2>2, <2>3, NothingRuns
<1> QED BY <1>6, <1>7

(* A line that is read leaves nothing behind it, unless the worker died.   *)
LEMMA ReadKeeps ==
  ASSUME EngineAssumption, EngineOK, InExchange, Proc.out # <<>>,
         Head(Proc.out).status # "garbage",
         NEW t, t = [procs EXCEPT ![call.proc].out = Tail(@)]
  PROVE  LET r == t[call.proc]
             was == procs[call.proc]
         IN  /\ t \in Tables /\ call.proc \in Slots
             /\ \A p \in Slots : p # call.proc => t[p] = procs[p]
             /\ r.at = was.at /\ r.backend = was.backend /\ r.in = was.in /\ r.req = was.req
             /\ Len(r.out) <= 1
             /\ Len(r.out) = 1 => r.at = "dead" /\ r.out[1].status = "garbage"
             /\ was.out[1] = Head(was.out) /\ Len(was.out) >= 1 /\ was.at # "none"
<1> DEFINE was == procs[call.proc]
           out == was.out
<1>1. /\ call.proc \in Slots /\ was.at # "none" /\ procs \in Tables
      /\ out \in Seq(Lines) /\ Len(out) <= 2
  BY DEF EngineOK, TypeOK, CallOK, Proc, Tables
<1>2. out # <<>> /\ Head(out).status # "garbage"
  BY DEF Proc
<1>3. /\ Len(out) >= 1 /\ Head(out) = out[1] /\ Tail(out) \in Seq(Lines)
      /\ Len(Tail(out)) = Len(out) - 1
      /\ Len(out) = 2 => Tail(out)[1] = out[2]
  <2> HIDE DEF out
  <2> QED BY <1>1, <1>2
<1>4. Len(out) = 2 => was.at = "dead" /\ out[2].status = "garbage"
  BY <1>1 DEF EngineOK, PipeOK
<1>5. t = [procs EXCEPT ![call.proc] = [was EXCEPT !.out = Tail(out)]]
  BY <1>1 DEF Tables
<1>6. /\ t[call.proc] = [was EXCEPT !.out = Tail(out)]
      /\ \A p \in Slots : p # call.proc => t[p] = procs[p]
  <2> HIDE DEF was, out
  <2> QED BY <1>1, <1>5 DEF Tables
<1>7. was \in Workers
  BY <1>1 DEF Tables
<1>8. LET r == [was EXCEPT !.out = Tail(out)]
      IN  /\ r \in Workers
          /\ r.at = was.at /\ r.backend = was.backend /\ r.in = was.in /\ r.req = was.req
          /\ r.out = Tail(out)
  <2> HIDE DEF was
  <2> QED BY <1>3, <1>7
<1>9. t \in Tables
  <2> HIDE DEF was, out
  <2> QED BY <1>1, <1>5, <1>8 DEF Tables
<1> HIDE DEF was
<1>10. LET r == t[call.proc]
       IN  /\ r.at = was.at /\ r.backend = was.backend /\ r.in = was.in /\ r.req = was.req
           /\ r.out = Tail(out)
  BY <1>6, <1>8
<1>11. Len(Tail(out)) = 1 => was.at = "dead" /\ Tail(out)[1].status = "garbage"
  BY <1>1, <1>3, <1>4
<1>12. Len(Tail(out)) <= 1
  <2> HIDE DEF out
  <2> QED BY <1>1, <1>3
<1> QED BY <1>1, <1>3, <1>6, <1>9, <1>10, <1>11, <1>12 DEF was

(* What is left after a line was read, as an answer to the next request.   *)
LEMMA RestIsBad ==
  ASSUME NEW r, r.out \in Seq(Lines), Len(r.out) <= 1,
         Len(r.out) = 1 => r.at = "dead" /\ r.out[1].status = "garbage"
  PROVE  /\ Len(r.out) # 2
         /\ Len(r.out) >= 1 => r.at = "dead" /\ r.out[1].status = "garbage"
<1> DEFINE n == Len(r.out)
           bad == r.at = "dead" /\ r.out[1].status = "garbage"
<1>1. n \in Nat /\ n <= 1 /\ (n = 1 => bad)
  OBVIOUS
<1> HIDE DEF n, bad
<1>2. n # 2 /\ (n >= 1 => bad)
  BY <1>1
<1> QED BY <1>2 DEF n, bad

(* A call that ends after its answer was read keeps the process.           *)
LEMMA AnswerKeeps ==
  ASSUME EngineAssumption, EngineOK, InExchange, Proc.out # <<>>,
         Head(Proc.out).status \in {"success", "error", "cancelled"},
         procs' = [procs EXCEPT ![call.proc].out = Tail(@)],
         call' = NoCall, last' \in Results,
         UNCHANGED <<engine, identity, gpu_failed, model, cancel, served, failedFor, crashes>>
  PROVE  EngineOK'
<1> DEFINE was == procs[call.proc]
           r == procs'[call.proc]
<1>1. /\ procs' \in Tables /\ call.proc \in Slots
      /\ \A p \in Slots : p # call.proc => procs'[p] = procs[p]
      /\ r.at = was.at /\ r.backend = was.backend /\ r.in = was.in /\ r.req = was.req
      /\ Len(r.out) <= 1
      /\ Len(r.out) = 1 => r.at = "dead" /\ r.out[1].status = "garbage"
      /\ was.out[1] = Head(was.out) /\ Len(was.out) >= 1 /\ was.at # "none"
  BY ReadKeeps
<1>2. was.out[1].status \in {"success", "error", "cancelled"}
  BY <1>1 DEF Proc
<1>3. Sent /\ was.in = 0 /\ was.at \notin {"busy", "loading"}
  <2>1. Sent /\ was.in = 0
    BY <1>1, <1>2 DEF EngineOK, PipeOK
  <2>2. was.at = "loading" => call.at = "handshake"
    BY <1>1 DEF EngineOK, PipeOK
  <2>3. was.at = "busy" => was.out = <<>>
    BY <1>1 DEF EngineOK, PipeOK
  <2> QED BY <1>1, <2>1, <2>2, <2>3 DEF Sent, Proc
<1>4. \A p \in Slots : procs[p].at # "none" => p = call.proc /\ procs[p].backend = Wanted
  BY DEF EngineOK, BackendOK, Owner
<1>5. engine # None /\ engine.proc = call.proc /\ Process = call.proc
  BY <1>3 DEF EngineOK, CallOK, Sent, Process
<1>6. \A p \in Slots : procs'[p].at # "none" => p = call.proc
  BY <1>1, <1>4
<1>7. call'.at = "none" /\ call'.proc = None /\ call'.written = 0 /\ call' \in Calls
  BY DEF NoCall, Calls, EngineAssumption
<1> HIDE DEF r, was
<1>8. TypeOK'
  <2>1. \A p \in Slots : Len(procs'[p].out) <= 2
    <3> TAKE p \in Slots
    <3>1. CASE p = call.proc
      <4>1. r.out \in Seq(Lines) /\ r = procs'[p]
        BY <1>1, <3>1 DEF Tables, r
      <4> QED BY <1>1, <4>1
    <3>2. CASE p # call.proc
      BY <1>1, <3>2 DEF EngineOK, TypeOK
    <3> QED BY <3>1, <3>2
  <2> QED BY <1>1, <1>7, <2>1 DEF EngineOK, TypeOK, Tables, Calls, Results
<1>9. CallOK'
  BY <1>7 DEF CallOK, InExchange
<1>10. BackendOK'
  <2>1. Wanted' = Wanted
    BY DEF Wanted
  <2>2. \A p \in Slots : procs'[p].at # "none" => procs'[p].backend = Wanted
    BY <1>1, <1>4, <1>6 DEF r, was
  <2>3. Owner' = call.proc
    BY <1>5, <1>7 DEF Owner, InExchange, Process
  <2> QED BY <1>5, <1>6, <1>7, <2>1, <2>2, <2>3 DEF EngineOK, BackendOK
<1>11. PipeOK'
  <2>1. ASSUME NEW p \in Slots, procs'[p].at # "none"
        PROVE  LET q == procs'[p]
               IN  /\ q.at # "loading" /\ q.in = 0 /\ q.at # "busy" /\ Len(q.out) # 2
                   /\ Len(q.out) >= 1 => q.at = "dead" /\ q.out[1].status = "garbage"
    <3>1. r.out \in Seq(Lines)
      BY <1>1 DEF r, Tables
    <3>2. procs'[p] = r
      BY <1>6, <2>1 DEF r
    <3>3. r.in = 0 /\ r.at \notin {"busy", "loading"}
      BY <1>1, <1>3
    <3> QED BY <1>1, <3>1, <3>2, <3>3, RestIsBad
  <2> QED BY <2>1 DEF PipeOK
<1> QED BY <1>8, <1>9, <1>10, <1>11 DEF EngineOK

(* A call that ends and takes its process with it.                         *)
LEMMA ClosedKeeps ==
  ASSUME EngineAssumption, EngineOK, InExchange, NEW t \in Tables,
         \A p \in Slots : p # call.proc => t[p] = procs[p],
         procs' = kill(t, call.proc), engine' = None, call' = NoCall, last' \in Results,
         UNCHANGED <<identity, gpu_failed, model, cancel, served, failedFor, crashes>>
  PROVE  EngineOK'
<1>1. call.proc \in Slots
  BY DEF EngineOK, CallOK
<1>2. /\ procs' \in Tables
      /\ \A q \in Slots : procs'[q] = IF q = call.proc THEN Free ELSE t[q]
  BY <1>1, KillIsFree
<1>3. \A q \in Slots : procs'[q] = Free
                       \/ (procs'[q] = procs[q] /\ q # call.proc)
  BY <1>2
<1>4. \A q \in Slots : procs[q].at # "none" => q = call.proc
  BY DEF EngineOK, BackendOK, Owner
<1>5. Free.at = "none"
  BY DEF Free
<1>6. \A q \in Slots : procs'[q].at = "none"
  <2> HIDE DEF Free
  <2> QED BY <1>3, <1>4, <1>5
<1>7. /\ call' \in Calls /\ call'.at = "none" /\ call'.proc = None /\ call'.written = 0
  BY DEF NoCall, Calls, EngineAssumption
<1>8. /\ identity' \in {None} \cup Identities /\ failedFor' \subseteq Identities
      /\ model' \in Versions /\ gpu_failed' \in BOOLEAN /\ cancel' \in BOOLEAN
      /\ served' \in 0..MaxRequests /\ crashes' \in 0..Crashes
      /\ identity' \in failedFor' => gpu_failed'
  BY DEF EngineOK, TypeOK, BackendOK
<1> QED BY <1>2, <1>3, <1>6, <1>7, <1>8, NothingRuns

LEMMA CancelledKeeps ==
  ASSUME EngineAssumption, EngineOK, InExchange, NEW t \in Tables,
         \A p \in Slots : p # call.proc => t[p] = procs[p],
         NEW close, cancelled(t, close),
         ~close => /\ Proc.out # <<>> /\ Head(Proc.out).status = "cancelled"
                   /\ t = [procs EXCEPT ![call.proc].out = Tail(@)],
         UNCHANGED <<identity, model, cancel, served, crashes>>
  PROVE  EngineOK'
<1>1. call' = NoCall /\ UNCHANGED <<gpu_failed, failedFor>>
  BY DEF cancelled
<1>2. last' \in Results
  BY DEF cancelled, ended, EngineOK, TypeOK, Results, EngineAssumption, Calls
<1>3. CASE close \/ call.retry \/ ~Alive(call.proc)
  BY <1>1, <1>2, <1>3, ClosedKeeps DEF cancelled
<1>4. CASE ~(close \/ call.retry \/ ~Alive(call.proc))
  BY <1>1, <1>2, <1>4, AnswerKeeps DEF cancelled
<1> QED BY <1>3, <1>4

(* The worker that says it is ready becomes the engine's process.          *)
LEMMA ReadyKeeps ==
  ASSUME EngineAssumption, EngineOK, Proc.out # <<>>, call.at = "handshake",
         Head(Proc.out).status = "ready",
         procs' = [procs EXCEPT ![call.proc].out = Tail(@)],
         engine' = [engine EXCEPT !.proc = call.proc],
         call' = [call EXCEPT !.at = "exchange"],
         UNCHANGED <<identity, gpu_failed, model, cancel, served, last, failedFor, crashes>>
  PROVE  EngineOK'
<1> DEFINE was == procs[call.proc]
           r == procs'[call.proc]
<1>0. InExchange /\ ~Sent
  BY DEF InExchange, Sent
<1>1. /\ procs' \in Tables /\ call.proc \in Slots
      /\ \A p \in Slots : p # call.proc => procs'[p] = procs[p]
      /\ r.at = was.at /\ r.backend = was.backend /\ r.in = was.in /\ r.req = was.req
      /\ Len(r.out) <= 1
      /\ Len(r.out) = 1 => r.at = "dead" /\ r.out[1].status = "garbage"
      /\ was.out[1] = Head(was.out) /\ Len(was.out) >= 1 /\ was.at # "none"
  BY <1>0, ReadKeeps
<1>2. was.out[1].status = "ready"
  BY <1>1 DEF Proc
<1>3. was.in = 0 /\ was.at \notin {"busy", "loading"}
  BY <1>0, <1>1, <1>2 DEF EngineOK, PipeOK
<1>4. \A p \in Slots : procs[p].at # "none" => p = call.proc /\ procs[p].backend = Wanted
  BY <1>0 DEF EngineOK, BackendOK, Owner
<1>5. \A p \in Slots : procs'[p].at # "none" => p = call.proc
  BY <1>1, <1>4
<1>6. /\ engine # None /\ engine \in [backend : {"cpu", "gpu"}, proc : Slots \cup {None}]
      /\ engine' \in [backend : {"cpu", "gpu"}, proc : Slots \cup {None}]
      /\ engine'.proc = call.proc /\ engine'.backend = engine.backend /\ engine' # None
  <2>1. engine # None
    BY <1>0 DEF EngineOK, CallOK
  <2>2. engine \in [backend : {"cpu", "gpu"}, proc : Slots \cup {None}]
    BY <2>1 DEF EngineOK, TypeOK
  <2>3. engine' = [backend |-> engine.backend, proc |-> call.proc]
    BY <2>2
  <2> QED BY <1>1, <2>1, <2>2, <2>3 DEF EngineAssumption
<1>7. /\ call \in Calls /\ call' \in Calls /\ call'.at = "exchange" /\ call'.proc = call.proc
      /\ call'.written = 0 /\ call'.backend = call.backend
  BY <1>0 DEF EngineOK, TypeOK, CallOK, Calls
<1> HIDE DEF r, was
<1>8. TypeOK'
  <2>1. \A p \in Slots : Len(procs'[p].out) <= 2
    <3> TAKE p \in Slots
    <3>1. CASE p = call.proc
      <4>1. r.out \in Seq(Lines) /\ r = procs'[p]
        BY <1>1, <3>1 DEF Tables, r
      <4> QED BY <1>1, <4>1
    <3>2. CASE p # call.proc
      BY <1>1, <3>2 DEF EngineOK, TypeOK
    <3> QED BY <3>1, <3>2
  <2> QED BY <1>1, <1>6, <1>7, <2>1 DEF EngineOK, TypeOK, Tables, Calls
<1>9. CallOK'
  <2>1. procs'[call.proc].at # "none"
    BY <1>1 DEF r
  <2> QED BY <1>1, <1>6, <1>7, <2>1 DEF CallOK, InExchange, Proc
<1>10. BackendOK'
  <2>1. Wanted' = Wanted
    BY DEF Wanted
  <2>2. \A p \in Slots : procs'[p].at # "none" => procs'[p].backend = Wanted
    BY <1>1, <1>4, <1>5 DEF r, was
  <2>3. Owner' = call.proc
    BY <1>7 DEF Owner, InExchange
  <2> QED BY <1>0, <1>5, <1>6, <1>7, <2>1, <2>2, <2>3 DEF EngineOK, BackendOK, InExchange
<1>11. PipeOK'
  <2>1. ASSUME NEW p \in Slots, procs'[p].at # "none"
        PROVE  LET q == procs'[p]
               IN  /\ q.at # "loading" /\ q.in = 0 /\ q.at # "busy" /\ Len(q.out) # 2
                   /\ Len(q.out) >= 1 => q.at = "dead" /\ q.out[1].status = "garbage"
    <3>1. procs'[p] = r
      BY <1>5, <2>1 DEF r
    <3>2. r.out \in Seq(Lines)
      BY <1>1 DEF r, Tables
    <3>3. r.in = 0 /\ r.at \notin {"busy", "loading"}
      BY <1>1, <1>3
    <3> QED BY <1>1, <3>1, <3>2, <3>3, RestIsBad
  <2> QED BY <2>1 DEF PipeOK
<1> QED BY <1>8, <1>9, <1>10, <1>11 DEF EngineOK

LEMMA ResponseKeeps == ASSUME EngineAssumption, EngineOK, response PROVE EngineOK'
<1> DEFINE line == Head(Proc.out)
           t == [procs EXCEPT ![call.proc].out = Tail(@)]
<1>1. /\ InExchange /\ Proc.out # <<>> /\ line.status # "garbage"
      /\ UNCHANGED <<identity, model, cancel, served, crashes>>
  BY DEF response, Exchanging
<1>2. LET r == t[call.proc]
          was == procs[call.proc]
      IN  /\ t \in Tables /\ call.proc \in Slots
          /\ \A p \in Slots : p # call.proc => t[p] = procs[p]
          /\ r.at = was.at /\ r.backend = was.backend /\ r.in = was.in /\ r.req = was.req
          /\ Len(r.out) <= 1
          /\ Len(r.out) = 1 => r.at = "dead" /\ r.out[1].status = "garbage"
          /\ was.out[1] = line /\ Len(was.out) >= 1 /\ was.at # "none"
  <2>1. t = [procs EXCEPT ![call.proc].out = Tail(@)] /\ line = Head(procs[call.proc].out)
    BY DEF Proc
  <2> HIDE DEF t
  <2> QED BY <1>1, <2>1, ReadKeeps
<1>3. line \in Lines
  BY <1>1, <1>2 DEF Proc, EngineOK, TypeOK
<1>4. CASE call.aborting
  <2>1. cancelled(t, ~acknowledged(line))
    BY <1>4 DEF response
  <2> HIDE DEF line, t
  <2>2. acknowledged(line) <=> line.status = "cancelled"
    BY DEF acknowledged
  <2>4. ~(~acknowledged(line)) => line.status = "cancelled"
    BY <2>2
  <2> QED BY <1>1, <1>2, <2>1, <2>4, CancelledKeeps DEF line, t
<1>5. CASE ~call.aborting /\ call.at = "handshake"
  <2>1. CASE line.status = "ready"
    <3>1. /\ procs' = t /\ engine' = [engine EXCEPT !.proc = call.proc]
          /\ call' = [call EXCEPT !.at = "exchange"]
          /\ UNCHANGED <<gpu_failed, last, failedFor>>
      BY <1>5, <2>1 DEF response
    <3> QED BY <1>1, <1>5, <2>1, <3>1, ReadyKeeps
  <2>2. CASE line.status # "ready"
    <3>1. settle("Unavailable")
      BY <1>5, <2>2 DEF response
    <3> QED BY <1>1, <3>1, SettleKeeps
  <2> QED BY <2>1, <2>2
<1>6. CASE ~call.aborting /\ call.at # "handshake" /\ line.status = "success"
  <2>1. procs' = t /\ call' = NoCall /\ ended("text", line.req, Proc.backend)
        /\ UNCHANGED <<engine, gpu_failed, failedFor>>
    BY <1>6 DEF response
  <2>2. last' \in Results
    <3>1. call.req \in 0..MaxRequests /\ line.req \in 0..MaxRequests
          /\ Proc.backend \in {"cpu", "gpu"}
      BY <1>2, <1>3 DEF EngineOK, TypeOK, Lines, Proc, Calls
    <3> HIDE DEF line
    <3> QED BY <2>1, <3>1 DEF ended, Results
  <2> QED BY <1>1, <1>6, <2>1, <2>2, AnswerKeeps
<1>7. CASE ~call.aborting /\ call.at # "handshake" /\ line.status = "cancelled"
  <2>1. cancelled(t, FALSE)
    BY <1>7 DEF response
  <2> HIDE DEF line, t
  <2> QED BY <1>1, <1>2, <1>7, <2>1, CancelledKeeps DEF line, t
<1>8. CASE ~call.aborting /\ call.at # "handshake"
           /\ line.status \notin {"success", "cancelled"}
  <2>1. settle("Protocol")
    BY <1>8 DEF response
  <2> QED BY <1>1, <2>1, SettleKeeps
<1> QED BY <1>4, <1>5, <1>6, <1>7, <1>8

(* A step of one process, or of the call about it, that keeps the rest.    *)
LEMMA StepKeeps ==
  ASSUME EngineAssumption, EngineOK, NEW p \in Slots, procs[p].at # "none",
         NEW r \in Workers,
         procs' = [procs EXCEPT ![p] = r],
         r.at # "none", r.backend = procs[p].backend, Len(r.out) <= 2,
         r.at = "loading" => call.at = "handshake" /\ r.out = <<>>,
         r.in # 0 => Sent' /\ r.in = call.req /\ r.at # "busy",
         r.at = "busy" => Sent /\ r.req = call.req /\ r.out = <<>>,
         Len(r.out) >= 1 =>
           /\ r.out[1].status \in {"ready", "unavailable"} =>
                call.at = "handshake" /\ r.at # "loading"
           /\ r.out[1].status \in {"success", "error", "cancelled"} =>
                Sent /\ r.out[1].req = call.req /\ r.in = 0
           /\ r.out[1].status = "garbage" => r.at = "dead",
         Len(r.out) = 2 => r.at = "dead" /\ r.out[2].status = "garbage",
         call' \in Calls, call'.at = call.at, call'.req = call.req,
         call'.backend = call.backend, call'.proc = call.proc,
         call'.written = call.written \/ (call.at = "exchange" /\ ~Sent),
         crashes' \in 0..Crashes,
         UNCHANGED <<engine, identity, gpu_failed, model, cancel, served, last, failedFor>>
  PROVE  EngineOK'
<1>1. \A q \in Slots : procs[q].at # "none" => q = Owner
  BY DEF EngineOK, BackendOK
<1>2. p = Owner /\ Owner' = Owner /\ Wanted' = Wanted
  BY <1>1 DEF Owner, Wanted, InExchange, Process
<1>3. /\ procs \in Tables /\ procs' \in Tables /\ procs'[p] = r
      /\ \A q \in Slots : q # p => procs'[q] = procs[q]
  BY DEF EngineOK, TypeOK, Tables
<1>4. \A q \in Slots : procs'[q].at # "none" => q = p
  BY <1>1, <1>2, <1>3
<1>5. TypeOK'
  <2>1. \A q \in Slots : Len(procs'[q].out) <= 2
    BY <1>3 DEF EngineOK, TypeOK
  <2> QED BY <1>3, <2>1 DEF EngineOK, TypeOK, Tables, Calls
<1>6. CallOK'
  <2>1. \A q \in Slots : procs[q].at # "none" => procs'[q].at # "none"
    BY <1>3
  <2>2. InExchange' <=> InExchange
    BY DEF InExchange
  <2> QED BY <1>3, <2>1, <2>2 DEF EngineOK, CallOK, Proc, InExchange
<1>7. BackendOK'
  <2>1. \A q \in Slots : procs'[q].at # "none" => procs'[q].backend = Wanted
    BY <1>3, <1>4 DEF EngineOK, BackendOK
  <2> QED BY <1>2, <1>4, <2>1 DEF EngineOK, BackendOK
<1>8. PipeOK'
  <2>1. Sent => Sent'
    BY DEF Sent
  <2>2. SUFFICES ASSUME NEW q \in Slots, procs'[q].at # "none"
                 PROVE  procs'[q] = r
    BY <1>3, <2>1 DEF PipeOK
  <2> QED BY <1>3, <1>4, <2>2
<1> QED BY <1>5, <1>6, <1>7, <1>8 DEF EngineOK

(* What PipeOK says of one process.                                        *)
LEMMA PipeOf ==
  ASSUME EngineAssumption, EngineOK, NEW p \in Slots, procs[p].at # "none"
  PROVE  LET r == procs[p]
         IN  /\ r \in Workers
             /\ Len(r.out) <= 2 /\ Len(r.out) \in Nat
             /\ r.at = "loading" => call.at = "handshake" /\ r.out = <<>>
             /\ r.in # 0 => Sent /\ r.in = call.req /\ r.at # "busy"
             /\ r.at = "busy" => Sent /\ r.req = call.req /\ r.out = <<>>
             /\ Len(r.out) >= 1 =>
                  /\ r.out[1].status \in {"ready", "unavailable"} =>
                       call.at = "handshake" /\ r.at # "loading"
                  /\ r.out[1].status \in {"success", "error", "cancelled"} =>
                       Sent /\ r.out[1].req = call.req /\ r.in = 0
                  /\ r.out[1].status = "garbage" => r.at = "dead"
             /\ Len(r.out) = 2 => r.at = "dead" /\ r.out[2].status = "garbage"
<1>1. procs[p] \in Workers
  BY DEF EngineOK, TypeOK
<1>2. Len(procs[p].out) <= 2 /\ Len(procs[p].out) \in Nat
  BY <1>1 DEF EngineOK, TypeOK
<1>3. procs[p].at = "loading" => call.at = "handshake" /\ procs[p].out = <<>>
  BY DEF EngineOK, PipeOK
<1> QED BY <1>1, <1>2, <1>3 DEF EngineOK, PipeOK

(* The worker says one more line.                                          *)
LEMMA Said ==
  ASSUME EngineAssumption, TypeOK, NEW p \in Slots,
         NEW status \in {"ready", "unavailable", "success", "error", "cancelled", "garbage"}
  PROVE  LET o == Say(p, status)
             n == Len(procs[p].out)
         IN  /\ o \in Seq(Lines) /\ Len(o) = n + 1 /\ n \in Nat
             /\ o[n + 1] = [status |-> status, req |-> procs[p].req]
             /\ n >= 1 => o[1] = procs[p].out[1]
<1>1. procs[p].out \in Seq(Lines) /\ procs[p].req \in 0..MaxRequests
  BY DEF TypeOK
<1>2. [status |-> status, req |-> procs[p].req] \in Lines
  BY <1>1 DEF Lines
<1> QED BY <1>1, <1>2 DEF Say

LEMMA LoadKeeps ==
  ASSUME EngineAssumption, EngineOK, NEW p \in Slots, load(p)
  PROVE  EngineOK'
<1>1. PICK status \in {"ready", "unavailable"} :
         Step(p, [procs[p] EXCEPT !.at = IF status = "ready" THEN "top" ELSE "dead",
                                  !.out = Say(p, status)])
  BY DEF load
<1> DEFINE r == [procs[p] EXCEPT !.at = IF status = "ready" THEN "top" ELSE "dead",
                                 !.out = Say(p, status)]
<1>2. procs[p].at = "loading" /\ procs[p].out = <<>> /\ procs[p].in = 0
      /\ call.at = "handshake"
  BY PipeOf DEF load, Sent
<1>3. /\ Say(p, status) \in Seq(Lines) /\ Len(Say(p, status)) = 1
      /\ Say(p, status)[1].status = status
  <2>1. Len(procs[p].out) = 0
    BY <1>2
  <2> DEFINE o == Say(p, status)
             n == Len(procs[p].out)
  <2>2. /\ o \in Seq(Lines) /\ Len(o) = n + 1 /\ n \in Nat
        /\ o[n + 1] = [status |-> status, req |-> procs[p].req]
    BY Said DEF EngineOK
  <2> HIDE DEF o, n
  <2>3. n = 0 /\ n + 1 = 1
    BY <2>1 DEF n
  <2>4. o[1] = [status |-> status, req |-> procs[p].req]
    BY <2>2, <2>3
  <2> QED BY <2>2, <2>3, <2>4 DEF o
<1>4. /\ r \in Workers
      /\ r.at \in {"top", "dead"} /\ r.backend = procs[p].backend /\ r.in = 0
      /\ r.out = Say(p, status)
  BY <1>2, <1>3, PipeOf, ZenonT(40)
<1>5. procs' = [procs EXCEPT ![p] = r]
      /\ UNCHANGED <<engine, identity, gpu_failed, model, cancel, call, served, last,
                     failedFor, crashes>>
  BY <1>1 DEF Step
<1>6. call \in Calls /\ crashes \in 0..Crashes
  BY DEF EngineOK, TypeOK, Calls
<1> HIDE DEF r
<1>7. /\ r.at # "none" /\ r.at # "loading" /\ r.at # "busy" /\ Len(r.out) = 1
      /\ Len(r.out) <= 2 /\ Len(r.out) # 2 /\ r.out[1].status \in {"ready", "unavailable"}
      /\ r.out[1].status \notin {"success", "error", "cancelled", "garbage"}
  <2>1. r.out = Say(p, status) /\ r.at \in {"top", "dead"}
    BY <1>4
  <2>2. Len(r.out) = 1 /\ r.out[1].status = status
    BY <1>3, <2>1
  <2>3. Len(r.out) <= 2 /\ Len(r.out) # 2
    BY <2>2
  <2>4. status \in {"ready", "unavailable"}
    BY <1>1
  <2>5. status \notin {"success", "error", "cancelled", "garbage"}
    BY <2>4
  <2> QED BY ONLY <2>1, <2>2, <2>3, <2>4, <2>5
<1>8. call' = call /\ crashes' = crashes /\ procs[p].at # "none"
  BY <1>2, <1>5
<1> QED BY <1>2, <1>4, <1>5, <1>6, <1>7, <1>8, StepKeeps

LEMMA SmallLengths ==
  \A n \in Nat : /\ n <= 2 /\ n # 2 => n <= 1
               /\ n <= 1 => n \in {0, 1}
  OBVIOUS

LEMMA NoLength == \A n \in Nat : ~(n >= 1) => n = 0
  OBVIOUS

(* The worker turns to the next request, takes it, or dies.                *)
LEMMA ReadingKeeps ==
  ASSUME EngineAssumption, EngineOK, NEW p \in Slots, next_request(p) \/ read_request(p)
  PROVE  EngineOK'
<1> DEFINE was == procs[p]
<1>1. call \in Calls /\ crashes \in 0..Crashes /\ Sent' = Sent
  BY DEF EngineOK, TypeOK, Calls, next_request, read_request, Step, Sent
<1>2. CASE next_request(p)
  <2> DEFINE r == [was EXCEPT !.at = "reading", !.flag = FALSE]
  <2>1. procs' = [procs EXCEPT ![p] = r] /\ was.at = "top"
        /\ UNCHANGED <<engine, identity, gpu_failed, model, cancel, call, served, last,
                       failedFor, crashes>>
    BY <1>2 DEF next_request, Step
  <2>2. LET q == r
        IN  /\ q \in Workers
            /\ q.at = "reading" /\ q.backend = was.backend /\ q.out = was.out /\ q.in = was.in
    BY <2>1, PipeOf
  <2> HIDE DEF r
  <2>3. /\ procs[p].at # "none" /\ Len(r.out) <= 2 /\ Len(r.out) # 2
        /\ r.in # 0 => Sent /\ r.in = call.req
    BY <2>1, <2>2, PipeOf
  <2>4. Len(r.out) >= 1 =>
          /\ r.out[1].status \in {"ready", "unavailable"} => call.at = "handshake"
          /\ r.out[1].status \in {"success", "error", "cancelled"} =>
               Sent /\ r.out[1].req = call.req /\ r.in = 0
          /\ r.out[1].status # "garbage"
    BY <2>1, <2>2, PipeOf
  <2>5. call' = call /\ crashes' = crashes
    BY <2>1
  <2> HIDE DEF was
  <2>6. procs' = [procs EXCEPT ![p] = r] /\ r.backend = procs[p].backend
    BY <2>1, <2>2 DEF was
  <2> QED BY <1>1, <2>1, <2>2, <2>3, <2>4, <2>5, <2>6, StepKeeps
<1>3. CASE read_request(p)
  <2> DEFINE r == [was EXCEPT !.at = "busy", !.req = was.in, !.in = 0]
  <2>1. procs' = [procs EXCEPT ![p] = r] /\ was.at = "reading" /\ was.in # 0
        /\ UNCHANGED <<engine, identity, gpu_failed, model, cancel, call, served, last,
                       failedFor, crashes>>
    BY <1>3 DEF read_request, Step
  <2>2. Sent /\ was.in = call.req /\ was.out = <<>>
    <3>1. Sent /\ was.in = call.req /\ Len(was.out) \in Nat /\ was.out \in Seq(Lines)
          /\ Len(was.out) <= 2 /\ Len(was.out) # 2
      BY <2>1, PipeOf
    <3>2. ~(Len(was.out) >= 1)
      <4> SUFFICES ASSUME Len(was.out) >= 1 PROVE FALSE
        OBVIOUS
      <4>1. was.out[1] \in Lines
        BY <3>1
      <4>2. was.out[1].status \in {"ready", "unavailable", "success", "error", "cancelled",
                                   "garbage"}
        BY <4>1 DEF Lines
      <4>3. was.out[1].status \notin {"ready", "unavailable"}
        BY <2>1, <3>1, PipeOf DEF Sent
      <4>4. was.out[1].status \notin {"success", "error", "cancelled"}
        BY <2>1, PipeOf
      <4>5. was.out[1].status # "garbage"
        BY <2>1, PipeOf
      <4> QED BY <4>2, <4>3, <4>4, <4>5
    <3> QED BY <3>1, <3>2
  <2>3. LET q == r
        IN  /\ q \in Workers
            /\ q.at = "busy" /\ q.backend = was.backend /\ q.out = <<>> /\ q.in = 0
            /\ q.req = call.req
    <3>1. /\ was \in Workers
          /\ 0 \in 0..MaxRequests
      BY <2>1, PipeOf DEF EngineAssumption
    <3> HIDE DEF was
    <3> QED BY <2>2, <3>1
  <2>4. Len(r.out) = 0 /\ ~(Len(r.out) >= 1) /\ Len(r.out) # 2 /\ Len(r.out) <= 2
    <3>1. r.out = <<>>
      BY <2>3
    <3> HIDE DEF r
    <3> QED BY <3>1
  <2> HIDE DEF r
  <2> QED BY <1>1, <2>1, <2>2, <2>3, <2>4, StepKeeps
<1> QED BY <1>2, <1>3

LEMMA WorkerAnswers ==
  ASSUME EngineAssumption, EngineOK, NEW p \in Slots, answer(p)
  PROVE  EngineOK'
<1> DEFINE was == procs[p]
<1>1. PICK status \in {"success", "error", "cancelled"} :
         Step(p, [procs[p] EXCEPT !.at = "top", !.out = Say(p, status)])
  BY DEF answer
<1> DEFINE r == [procs[p] EXCEPT !.at = "top", !.out = Say(p, status)]
<1>2. was.at = "busy" /\ was.out = <<>> /\ was.in = 0 /\ Sent /\ was.req = call.req
  BY PipeOf DEF answer
<1>3. /\ Say(p, status) \in Seq(Lines) /\ Len(Say(p, status)) = 1
      /\ Say(p, status)[1] = [status |-> status, req |-> was.req]
  <2> DEFINE o == Say(p, status)
             n == Len(procs[p].out)
  <2>1. /\ o \in Seq(Lines) /\ Len(o) = n + 1 /\ n \in Nat
        /\ o[n + 1] = [status |-> status, req |-> was.req]
    BY Said DEF EngineOK
  <2>2. n = 0 /\ n + 1 = 1
    BY <1>2
  <2> HIDE DEF o, n
  <2>3. o[1] = [status |-> status, req |-> was.req]
    BY <2>1, <2>2
  <2> QED BY <2>1, <2>2, <2>3 DEF o
<1>4. /\ r \in Workers
      /\ r.at = "top" /\ r.backend = was.backend /\ r.in = 0
      /\ r.out = Say(p, status)
  BY <1>2, <1>3, PipeOf
<1>5. /\ procs' = [procs EXCEPT ![p] = r] /\ Sent' = Sent
      /\ UNCHANGED <<engine, identity, gpu_failed, model, cancel, call, served, last,
                     failedFor, crashes>>
  BY <1>1 DEF Step, Sent
<1>6. call \in Calls /\ crashes \in 0..Crashes
  BY DEF EngineOK, TypeOK, Calls
<1> HIDE DEF r
<1>7. /\ Len(r.out) = 1 /\ Len(r.out) <= 2 /\ Len(r.out) # 2 /\ r.out[1].req = call.req
      /\ r.out[1].status \notin {"ready", "unavailable", "garbage"}
  <2>1. r.out = Say(p, status)
    BY <1>4
  <2>2. Len(r.out) = 1 /\ r.out[1].status = status /\ r.out[1].req = call.req
    BY <1>2, <1>3, <2>1
  <2>3. Len(r.out) <= 2 /\ Len(r.out) # 2
    BY <2>2
  <2>4. status \notin {"ready", "unavailable", "garbage"}
    BY <1>1
  <2> QED BY ONLY <2>2, <2>3, <2>4
<1>8. call' = call /\ crashes' = crashes /\ was.at # "none"
  BY <1>2, <1>5
<1> QED BY <1>2, <1>4, <1>5, <1>6, <1>7, <1>8, StepKeeps

LEMMA WorkerCrashes ==
  ASSUME EngineAssumption, EngineOK, NEW p \in Slots, crash(p)
  PROVE  EngineOK'
<1> DEFINE was == procs[p]
<1>1. PICK out \in {procs[p].out, Say(p, "garbage")} :
         procs' = [procs EXCEPT ![p].at = "dead", ![p].out = out]
  BY DEF crash
<1> DEFINE r == [was EXCEPT !.at = "dead", !.out = out]
<1>2. was.at \notin {"none", "dead"} /\ crashes' \in 0..Crashes /\ Sent' = Sent
      /\ UNCHANGED <<engine, identity, gpu_failed, model, cancel, call, served, last,
                     failedFor>>
  BY DEF crash, Alive, EngineOK, TypeOK, EngineAssumption, Sent
<1>3. /\ was \in Workers
      /\ Len(was.out) \in Nat /\ Len(was.out) <= 1
      /\ Len(was.out) >= 1 =>
           /\ was.out[1].status # "garbage"
           /\ was.out[1].status \in {"ready", "unavailable"} => call.at = "handshake"
           /\ was.out[1].status \in {"success", "error", "cancelled"} =>
                Sent /\ was.out[1].req = call.req /\ was.in = 0
  <2>1. Len(was.out) \in Nat /\ Len(was.out) <= 2 /\ Len(was.out) # 2
    BY <1>2, PipeOf
  <2>2. Len(was.out) <= 1
    <3> DEFINE n == Len(was.out)
    <3>1. n \in Nat /\ n <= 2 /\ n # 2
      BY <2>1
    <3> HIDE DEF n
    <3>2. n <= 1
      BY ONLY <3>1, SmallLengths
    <3> QED BY <3>2 DEF n
  <2> QED BY <1>2, <2>1, <2>2, PipeOf
<1>4. /\ out \in Seq(Lines) /\ Len(out) \in {Len(was.out), Len(was.out) + 1}
      /\ Len(out) = Len(was.out) + 1 => out[Len(was.out) + 1].status = "garbage"
      /\ Len(was.out) >= 1 => out[1] = was.out[1]
  <2>1. CASE out = was.out
    BY <1>3, <2>1
  <2>2. CASE out = Say(p, "garbage")
    <3> DEFINE o == Say(p, "garbage")
               n == Len(was.out)
    <3>1. /\ o \in Seq(Lines) /\ Len(o) = n + 1 /\ n \in Nat
          /\ o[n + 1] = [status |-> "garbage", req |-> was.req]
          /\ n >= 1 => o[1] = was.out[1]
      BY Said DEF EngineOK
    <3> HIDE DEF o, n
    <3>2. o[n + 1].status = "garbage"
      BY <3>1
    <3> QED BY <2>2, <3>1, <3>2 DEF o, n
  <2> QED BY <1>1, <2>1, <2>2
<1>5. procs' = [procs EXCEPT ![p] = r]
  BY <1>1 DEF EngineOK, TypeOK
<1>6. /\ r \in Workers
      /\ r.at = "dead" /\ r.backend = was.backend /\ r.in = was.in /\ r.out = out
      /\ r.req = was.req
  <2> HIDE DEF was
  <2> QED BY <1>3, <1>4
<1>7. call \in Calls /\ call' = call
  BY <1>2 DEF EngineOK, TypeOK, Calls
<1> DEFINE n == Len(was.out)
<1>8. Len(r.out) <= 2 /\ (Len(r.out) = 2 => r.out[2].status = "garbage")
  <2>0. n \in {0, 1}
    BY <1>3, SmallLengths
  <2>1. n \in {0, 1} /\ Len(out) \in {n, n + 1}
        /\ (Len(out) = n + 1 => out[n + 1].status = "garbage")
    BY <1>4, <2>0
  <2> HIDE DEF n
  <2>2. Len(out) <= 2 /\ (Len(out) = 2 => out[2].status = "garbage")
    BY <2>1
  <2> HIDE DEF r
  <2> QED BY <1>6, <2>2
<1>9. Len(r.out) >= 1 =>
        /\ r.out[1].status \in {"ready", "unavailable"} => call.at = "handshake"
        /\ r.out[1].status \in {"success", "error", "cancelled"} =>
             Sent /\ r.out[1].req = call.req /\ r.in = 0
  <2>0. n \in {0, 1}
    BY <1>3, SmallLengths
  <2>1. n \in {0, 1} /\ Len(out) \in {n, n + 1}
        /\ (Len(out) = n + 1 => out[n + 1].status = "garbage")
        /\ (n >= 1 => out[1] = was.out[1])
    BY <1>4, <2>0
  <2> HIDE DEF n
  <2>2. CASE n = 0
    <3>1. Len(out) >= 1 => out[1].status = "garbage"
      BY <2>1, <2>2
    <3> HIDE DEF r
    <3> QED BY <1>6, <3>1
  <2>3. CASE n = 1
    <3>1. out[1] = was.out[1] /\ Len(was.out) >= 1
      BY <2>1, <2>3 DEF n
    <3> HIDE DEF r
    <3> QED BY <1>3, <1>6, <3>1
  <2> QED BY <2>1, <2>2, <2>3
<1> HIDE DEF r
<1> QED BY <1>2, <1>3, <1>5, <1>6, <1>7, <1>8, <1>9, PipeOf, StepKeeps, ZenonT(40)

LEMMA ExchangeKeeps == ASSUME EngineAssumption, EngineOK, exchange PROVE EngineOK'
<1>0. /\ InExchange /\ UNCHANGED <<identity, model, cancel, served, crashes>>
      /\ procs \in Tables /\ call \in Calls /\ call.proc \in Slots
      /\ procs[call.proc].at # "none"
  BY DEF exchange, cancel_early, signal, abort_expires, timeout, write, broken, response,
     Exchanging, EngineOK, TypeOK, CallOK, Tables, Calls, Proc
<1> DEFINE p == call.proc
           was == procs[p]
<1>1. CASE cancel_early \/ abort_expires
  <2>1. cancelled(procs, TRUE)
    BY <1>1 DEF cancel_early, abort_expires
  <2> QED BY <1>0, <2>1, CancelledKeeps
<1>2. CASE timeout \/ broken
  BY <1>0, <1>2, SettleKeeps DEF timeout, broken
<1>3. CASE response
  BY <1>3, ResponseKeeps
<1>4. CASE signal
  <2> DEFINE r == [was EXCEPT !.flag = TRUE]
  <2>1. /\ procs' = [procs EXCEPT ![p] = r] /\ call' = [call EXCEPT !.aborting = TRUE]
        /\ UNCHANGED <<engine, gpu_failed, last, failedFor>>
    BY <1>0, <1>4 DEF signal, Tables
  <2>2. LET q == r
        IN  /\ q \in Workers
            /\ q.at = was.at /\ q.backend = was.backend /\ q.out = was.out /\ q.in = was.in
            /\ q.req = was.req
    BY <1>0, PipeOf
  <2>3. call' \in Calls /\ call'.at = call.at /\ call'.req = call.req /\ call'.proc = call.proc
        /\ call'.backend = call.backend /\ call'.written = call.written
    BY <1>0, <2>1 DEF Calls
  <2>4. Sent' = Sent /\ crashes' \in 0..Crashes
    BY <1>0, <2>3 DEF Sent, EngineOK, TypeOK
  <2>5. /\ r.at # "none" /\ Len(r.out) <= 2
        /\ r.at = "loading" => call.at = "handshake" /\ r.out = <<>>
        /\ r.in # 0 => Sent' /\ r.in = call.req /\ r.at # "busy"
        /\ r.at = "busy" => Sent /\ r.req = call.req /\ r.out = <<>>
    BY <1>0, <2>2, <2>4, PipeOf
  <2>6. /\ Len(r.out) >= 1 =>
             /\ r.out[1].status \in {"ready", "unavailable"} =>
                  call.at = "handshake" /\ r.at # "loading"
             /\ r.out[1].status \in {"success", "error", "cancelled"} =>
                  Sent /\ r.out[1].req = call.req /\ r.in = 0
             /\ r.out[1].status = "garbage" => r.at = "dead"
        /\ Len(r.out) = 2 => r.at = "dead" /\ r.out[2].status = "garbage"
    BY <1>0, <2>2, PipeOf
  <2> HIDE DEF r
  <2> QED BY <1>0, <2>1, <2>2, <2>3, <2>4, <2>5, <2>6, StepKeeps
<1>5. CASE write
  <2> DEFINE r == IF call.written = 1 THEN [was EXCEPT !.in = call.req] ELSE was
  <2>1. /\ procs' = [procs EXCEPT ![p] = r] /\ call' = [call EXCEPT !.written = @ + 1]
        /\ call.at = "exchange" /\ ~Sent /\ was.at # "dead"
        /\ UNCHANGED <<engine, gpu_failed, last, failedFor>>
    BY <1>0, <1>5 DEF write, Tables, Proc
  <2>2. call.written \in 0..2 /\ call.written # 2 /\ call.req \in 0..MaxRequests
    BY <1>0, <2>1 DEF Sent, Calls
  <2>3. call' \in Calls /\ call'.at = call.at /\ call'.req = call.req /\ call'.proc = call.proc
        /\ call'.backend = call.backend /\ call'.written = call.written + 1
    BY <1>0, <2>1, <2>2 DEF Calls
  <2>4. /\ was.in = 0 /\ was.at \notin {"busy", "loading", "dead"} /\ Len(was.out) \in Nat
        /\ was.out \in Seq(Lines) /\ ~(Len(was.out) >= 1)
    <3>1. /\ was.in = 0 /\ was.at \notin {"busy", "loading", "dead"} /\ Len(was.out) \in Nat
          /\ was.out \in Seq(Lines)
      BY <1>0, <2>1, PipeOf
    <3>2. ASSUME Len(was.out) >= 1 PROVE FALSE
      <4>1. was.out[1] \in Lines
        BY <3>1, <3>2
      <4>2. was.out[1].status \in {"ready", "unavailable", "success", "error", "cancelled",
                                   "garbage"}
        BY <4>1 DEF Lines
      <4>3. /\ was.out[1].status \notin {"ready", "unavailable"}
            /\ was.out[1].status \notin {"success", "error", "cancelled"}
            /\ was.out[1].status # "garbage"
        BY <1>0, <2>1, <3>2, PipeOf
      <4> QED BY <4>2, <4>3
    <3> QED BY <3>1, <3>2
  <2>5. LET q == r
        IN  /\ q \in Workers
            /\ q.at = was.at /\ q.backend = was.backend /\ q.out = was.out
            /\ q.in = IF call.written = 1 THEN call.req ELSE was.in
    BY <1>0, <2>2, PipeOf
  <2>6. crashes' \in 0..Crashes
    BY <1>0 DEF EngineOK, TypeOK
  <2>7. r.in # 0 => Sent' /\ r.in = call.req
    <3>1. CASE call.written = 1
      BY <2>1, <2>3, <2>5, <3>1 DEF Sent
    <3>2. CASE call.written # 1
      BY <2>4, <2>5, <3>2
    <3> QED BY <3>1, <3>2
  <2> HIDE DEF r
  <2>8. /\ ~(Len(r.out) >= 1) /\ Len(r.out) # 2 /\ Len(r.out) <= 2
        /\ r.at \notin {"none", "busy", "loading"}
    <3>1. Len(was.out) = 0
      BY <2>4, NoLength
    <3>2. Len(r.out) = 0
      BY <2>5, <3>1
    <3> QED BY <1>0, <2>4, <2>5, <3>2
  <2> QED BY <1>0, <2>1, <2>3, <2>5, <2>6, <2>7, <2>8, StepKeeps
<1> QED BY <1>1, <1>2, <1>3, <1>4, <1>5 DEF exchange

(* Nothing moves but the job's flag, the model file or a call that is over *)
(* before it reached a process.                                            *)
LEMMA AroundKeeps ==
  ASSUME EngineAssumption, EngineOK, cancel_job \/ replace_model \/ transcribe_cancelled
  PROVE  EngineOK'
<1>1. UNCHANGED <<engine, identity, gpu_failed, procs, served, failedFor, crashes>>
  BY DEF cancel_job, replace_model, transcribe_cancelled
<1>2. model' \in Versions /\ cancel' \in BOOLEAN
  BY DEF cancel_job, replace_model, transcribe_cancelled, EngineOK, TypeOK
<1>3. \/ call' = call /\ last' = last
      \/ call.at = "engine" /\ call' = NoCall /\ ended("Cancelled", 0, "cpu")
  BY DEF cancel_job, replace_model, transcribe_cancelled
<1>4. Wanted' = Wanted /\ Process' = Process
  BY <1>1 DEF Wanted, Process
<1>5. CASE call' = call /\ last' = last
  <2>1. TypeOK'
    BY <1>1, <1>2, <1>5 DEF EngineOK, TypeOK
  <2>2. CallOK'
    BY <1>1, <1>5 DEF EngineOK, CallOK, InExchange, Proc
  <2>3. BackendOK'
    BY <1>1, <1>4, <1>5 DEF EngineOK, BackendOK, Owner, InExchange
  <2>4. PipeOK'
    BY <1>1, <1>5 DEF EngineOK, PipeOK, Sent
  <2> QED BY <2>1, <2>2, <2>3, <2>4 DEF EngineOK
<1>6. CASE call.at = "engine" /\ call' = NoCall /\ ended("Cancelled", 0, "cpu")
  <2>1. /\ call' \in Calls /\ call'.at = "none" /\ call'.proc = None /\ call'.written = 0
        /\ ~InExchange /\ ~InExchange' /\ ~Sent /\ call.at # "handshake"
    BY <1>6 DEF NoCall, Calls, EngineAssumption, InExchange, Sent
  <2>2. last' \in Results
    BY <1>6 DEF ended, EngineOK, TypeOK, Results, EngineAssumption, Calls
  <2>3. TypeOK'
    BY <1>1, <1>2, <2>1, <2>2 DEF EngineOK, TypeOK, Calls, Results
  <2>4. CallOK'
    BY <2>1 DEF CallOK
  <2>5. BackendOK'
    BY <1>1, <1>4, <2>1 DEF EngineOK, BackendOK, Owner
  <2>6. PipeOK'
    <3>1. ASSUME NEW p \in Slots, procs[p].at # "none"
          PROVE  LET q == procs[p]
                 IN  /\ q.at # "loading" /\ q.in = 0 /\ q.at # "busy"
                     /\ Len(q.out) >= 1 =>
                          /\ q.out[1].status \notin {"ready", "unavailable"}
                          /\ q.out[1].status \notin {"success", "error", "cancelled"}
                          /\ q.out[1].status = "garbage" => q.at = "dead"
                     /\ Len(q.out) = 2 => q.at = "dead" /\ q.out[2].status = "garbage"
      BY <2>1, <3>1, PipeOf
    <3> QED BY <1>1, <3>1 DEF PipeOK
  <2> QED BY <2>3, <2>4, <2>5, <2>6 DEF EngineOK
<1> QED BY <1>3, <1>5, <1>6

(* The engine goes between two calls.                                      *)
LEMMA ReleaseKeeps ==
  ASSUME EngineAssumption, EngineOK, invalidate \/ release_if_idle
  PROVE  EngineOK'
<1>1. /\ call.at = "none" /\ engine' = None /\ procs' = kill(procs, Process)
      /\ UNCHANGED <<model, cancel, call, served, last, crashes>>
      /\ \/ identity' = None /\ failedFor' = {} /\ gpu_failed' = FALSE
         \/ UNCHANGED <<identity, failedFor, gpu_failed>>
  BY DEF invalidate, release_if_idle
<1>2. ~InExchange
  BY <1>1 DEF InExchange
<1>3. /\ procs' \in Tables
      /\ \A q \in Slots : procs'[q] = Free \/ procs'[q] = procs[q]
      /\ \A q \in Slots : procs'[q].at = "none"
  BY <1>1, <1>2, EngineFreed
<1>4. /\ call' \in Calls /\ last' \in Results /\ call'.at = "none" /\ call'.proc = None
      /\ call'.written = 0
  BY <1>1, <1>2 DEF EngineOK, TypeOK, CallOK, Calls, Results
<1>5. /\ identity' \in {None} \cup Identities /\ failedFor' \subseteq Identities
      /\ model' \in Versions /\ gpu_failed' \in BOOLEAN /\ cancel' \in BOOLEAN
      /\ served' \in 0..MaxRequests /\ crashes' \in 0..Crashes
      /\ identity' \in failedFor' => gpu_failed'
  BY <1>1 DEF EngineOK, TypeOK, BackendOK
<1> QED BY <1>1, <1>3, <1>4, <1>5, NothingRuns

(* A transcription begins, with the engine it finds or without one.        *)
LEMMA TranscribeKeeps == ASSUME EngineAssumption, EngineOK, transcribe PROVE EngineOK'
<1>1. PICK backend \in Backends :
        LET id == [backend |-> backend, version |-> model]
            same == identity = id
        IN  /\ identity' = id
            /\ gpu_failed' = IF same THEN gpu_failed ELSE FALSE
            /\ engine' = IF same THEN engine ELSE None
            /\ procs' = IF same THEN procs ELSE kill(procs, Process)
            /\ call' = [NoCall EXCEPT !.at = "engine", !.req = served + 1,
                          !.backend = IF gpu_failed' THEN "cpu" ELSE backend]
            /\ failedFor' = IF same THEN failedFor ELSE {}
  BY DEF transcribe
<1> DEFINE id == [backend |-> backend, version |-> model]
<1>2. /\ call.at = "none" /\ served < MaxRequests /\ served' = served + 1 /\ cancel' = FALSE
      /\ UNCHANGED <<model, last, crashes>>
  BY DEF transcribe
<1>3. ~InExchange /\ ~Sent
  BY <1>2 DEF InExchange, Sent
<1>4. served + 1 \in 0..MaxRequests /\ model \in Versions /\ id \in Identities /\ id # None
  BY <1>2 DEF EngineOK, TypeOK, EngineAssumption, Identities
<1>5. gpu_failed' \in BOOLEAN /\ identity' = id /\ identity'.backend = backend
  BY <1>1 DEF EngineOK, TypeOK
<1>6. /\ call' = [at |-> "engine", req |-> served + 1,
                  backend |-> IF gpu_failed' THEN "cpu" ELSE backend, written |-> 0,
                  aborting |-> FALSE, retry |-> FALSE, proc |-> None]
  BY <1>1 DEF NoCall
<1>7. /\ call' \in Calls /\ call'.at = "engine" /\ call'.proc = None /\ call'.written = 0
      /\ call'.backend = Wanted'
  <2> DEFINE b == IF gpu_failed' THEN "cpu" ELSE backend
  <2>1. b \in {"cpu", "gpu"} /\ b = Wanted'
    BY <1>1, <1>5 DEF EngineAssumption, Wanted
  <2>2. call' = [at |-> "engine", req |-> served + 1, backend |-> b, written |-> 0,
                 aborting |-> FALSE, retry |-> FALSE, proc |-> None]
    BY <1>6
  <2> HIDE DEF b
  <2> QED BY <1>4, <2>1, <2>2 DEF Calls
<1>8. /\ failedFor' \subseteq Identities
      /\ identity' \in failedFor' => gpu_failed'
      /\ last' \in Results /\ crashes' \in 0..Crashes
  <2>1. \/ failedFor' = failedFor /\ identity' = identity /\ gpu_failed' = gpu_failed
        \/ failedFor' = {}
    BY <1>1
  <2> QED BY <1>2, <2>1 DEF EngineOK, TypeOK, BackendOK, Results
<1> HIDE DEF id
<1>9. CASE identity = id
  <2>1. UNCHANGED <<identity, gpu_failed, engine, procs, failedFor>>
    BY <1>1, <1>9 DEF id
  <2>2. ~InExchange' /\ Wanted' = Wanted /\ Process' = Process
    BY <1>7, <2>1 DEF InExchange, Wanted, Process
  <2>3. TypeOK'
    BY <1>2, <1>4, <1>7, <1>8, <2>1 DEF EngineOK, TypeOK, Calls, Results
  <2>4. CallOK'
    BY <1>7, <2>2 DEF CallOK
  <2>5. BackendOK'
    BY <1>3, <1>4, <1>5, <1>7, <1>8, <2>1, <2>2 DEF EngineOK, BackendOK, Owner
  <2>6. PipeOK'
    <3>1. ASSUME NEW p \in Slots, procs[p].at # "none"
          PROVE  LET q == procs[p]
                 IN  /\ q.at # "loading" /\ q.in = 0 /\ q.at # "busy"
                     /\ Len(q.out) >= 1 =>
                          /\ q.out[1].status \notin {"ready", "unavailable"}
                          /\ q.out[1].status \notin {"success", "error", "cancelled"}
                          /\ q.out[1].status = "garbage" => q.at = "dead"
                     /\ Len(q.out) = 2 => q.at = "dead" /\ q.out[2].status = "garbage"
      BY <1>2, <1>3, <3>1, PipeOf
    <3> QED BY <2>1, <3>1 DEF PipeOK
  <2> QED BY <2>3, <2>4, <2>5, <2>6 DEF EngineOK
<1>10. CASE identity # id
  <2>1. engine' = None /\ procs' = kill(procs, Process)
    BY <1>1, <1>10 DEF id
  <2>2. /\ procs' \in Tables
        /\ \A q \in Slots : procs'[q] = Free \/ procs'[q] = procs[q]
        /\ \A q \in Slots : procs'[q].at = "none"
    BY <1>3, <2>1, EngineFreed
  <2>3. /\ identity' \in {None} \cup Identities /\ identity' # None
        /\ model' \in Versions /\ cancel' \in BOOLEAN /\ served' \in 0..MaxRequests
    BY <1>2, <1>4, <1>5
  <2>4. call'.at \in {"none", "engine"} /\ (call'.at # "none" => identity' # None)
    BY <1>7, <2>3
  <2> QED BY ONLY EngineAssumption, EngineOK, <1>5, <1>7, <1>8, <2>1, <2>2, <2>3, <2>4,
                  NothingRuns
<1> QED BY <1>9, <1>10

(* The running process is kept, or a new one is started in its place.      *)
LEMMA WithEngineKeeps == ASSUME EngineAssumption, EngineOK, with_engine PROVE EngineOK'
<1> DEFINE p == Process
           e == IF engine = None THEN [backend |-> call.backend, proc |-> None] ELSE engine
<1>1. /\ call.at = "engine" /\ ~InExchange /\ ~Sent
      /\ UNCHANGED <<identity, gpu_failed, model, cancel, served, last, failedFor, crashes>>
  BY DEF with_engine, InExchange, Sent
<1>2. /\ call \in Calls /\ call.written = 0 /\ identity # None /\ call.backend = Wanted
      /\ p \in Slots \cup {None} /\ procs \in Tables
  <2>1. p \in Slots \cup {None} /\ procs \in Tables
    BY ProcessIsSlot DEF EngineOK
  <2> QED BY <1>1, <2>1 DEF EngineOK, TypeOK, CallOK, BackendOK, Calls
<1>3. \A q \in Slots : procs[q].at # "none" => q = p /\ procs[q].backend = Wanted /\ engine # None
  BY <1>1 DEF EngineOK, BackendOK, Owner
<1>4. Wanted' = Wanted
  BY <1>1 DEF Wanted
<1>5. CASE p # None /\ Alive(p)
  <2>1. call' = [call EXCEPT !.at = "exchange", !.proc = p] /\ UNCHANGED <<engine, procs>>
    BY <1>5 DEF with_engine
  <2>2. /\ p \in Slots /\ procs[p].at # "none" /\ engine # None /\ engine.proc = p
    BY <1>2, <1>5 DEF Alive, Process
  <2>3. /\ call' \in Calls /\ call'.at = "exchange" /\ call'.proc = p /\ call'.written = 0
        /\ call'.backend = call.backend
    BY <1>2, <2>1, <2>2 DEF Calls
  <2> HIDE DEF p
  <2>4. TypeOK'
    BY <1>1, <2>1, <2>3 DEF EngineOK, TypeOK, Calls
  <2>5. CallOK'
    BY <2>1, <2>2, <2>3 DEF CallOK, InExchange, Proc
  <2>6. BackendOK'
    <3>1. Owner' = p
      BY <2>3 DEF Owner, InExchange
    <3> QED BY <1>1, <1>2, <1>3, <1>4, <2>1, <2>2, <2>3, <3>1 DEF EngineOK, BackendOK
  <2>7. PipeOK'
    <3>1. ASSUME NEW q \in Slots, procs[q].at # "none"
          PROVE  LET r == procs[q]
                 IN  /\ r.at # "loading" /\ r.in = 0 /\ r.at # "busy"
                     /\ Len(r.out) >= 1 =>
                          /\ r.out[1].status \notin {"ready", "unavailable"}
                          /\ r.out[1].status \notin {"success", "error", "cancelled"}
                          /\ r.out[1].status = "garbage" => r.at = "dead"
                     /\ Len(r.out) = 2 => r.at = "dead" /\ r.out[2].status = "garbage"
      BY <1>1, <3>1, PipeOf
    <3> QED BY <2>1, <3>1 DEF PipeOK
  <2> QED BY <2>4, <2>5, <2>6, <2>7 DEF EngineOK
<1>6. CASE ~(p # None /\ Alive(p))
  <2>1. PICK q \in Slots :
          /\ procs[q].at = "none" \/ q = p
          /\ engine' = [e EXCEPT !.proc = None]
          /\ procs' = [kill(procs, p) EXCEPT
                         ![q] = [Free EXCEPT !.at = "loading", !.backend = e.backend]]
          /\ call' = [call EXCEPT !.at = "handshake", !.proc = q]
    BY <1>6 DEF with_engine
  <2>2. /\ e \in [backend : {"cpu", "gpu"}, proc : Slots \cup {None}] /\ e.backend = Wanted
    <3>1. call.backend \in {"cpu", "gpu"}
      BY <1>2 DEF Calls
    <3>2. CASE engine = None
      BY <1>2, <3>1, <3>2
    <3>3. CASE engine # None
      BY <3>3 DEF EngineOK, TypeOK, BackendOK
    <3> QED BY <3>2, <3>3
  <2>3. /\ engine' \in [backend : {"cpu", "gpu"}, proc : Slots \cup {None}]
        /\ engine' # None /\ engine'.proc = None /\ engine'.backend = Wanted
    <3> HIDE DEF e
    <3>1. engine' = [backend |-> e.backend, proc |-> None]
      BY <2>1, <2>2
    <3> QED BY <2>2, <3>1 DEF EngineAssumption
  <2> DEFINE t == kill(procs, p)
             r == [Free EXCEPT !.at = "loading", !.backend = e.backend]
  <2>4. /\ t \in Tables
        /\ \A s \in Slots : t[s] = IF s = p THEN Free ELSE procs[s]
    <3> HIDE DEF p
    <3> QED BY <1>2, KillIsFree
  <2>5. /\ r \in Workers
        /\ r.at = "loading" /\ r.backend = Wanted /\ r.in = 0 /\ r.out = <<>>
    <3> HIDE DEF e
    <3>1. /\ Free \in Workers
          /\ Free.in = 0 /\ Free.out = <<>>
      BY DEF Free, EngineAssumption
    <3> QED BY <2>2, <3>1
  <2>6. procs' = [t EXCEPT ![q] = r]
    BY <2>1
  <2>7. Free.at = "none" /\ Len(Free.out) = 0 /\ Len(r.out) = 0
        /\ ~(Len(r.out) >= 1) /\ Len(r.out) # 2
    <3> HIDE DEF r
    <3>1. Len(r.out) = 0
      BY <2>5
    <3>2. ~(Len(r.out) >= 1) /\ Len(r.out) # 2
      BY <3>1
    <3> QED BY <3>1, <3>2 DEF Free
  <2> HIDE DEF e, r, t, p, Free
  <2>8. /\ procs' \in Tables /\ procs'[q] = r
        /\ \A s \in Slots : s # q => procs'[s] = t[s]
    BY <2>4, <2>5, <2>6 DEF Tables
  <2>9. \A s \in Slots : s # q => t[s].at = "none" /\ Len(t[s].out) <= 2
    <3> SUFFICES ASSUME NEW s \in Slots, s # q
                 PROVE  t[s].at = "none" /\ Len(t[s].out) <= 2
      OBVIOUS
    <3>1. CASE s = p
      <4>1. t[s] = Free
        BY <2>4, <3>1
      <4> QED BY <2>7, <4>1
    <3>2. CASE s # p
      <4>1. t[s] = procs[s]
        BY <2>4, <3>2
      <4>2. procs[s].at = "none"
        BY <1>3, <3>2
      <4>3. Len(procs[s].out) <= 2
        BY DEF EngineOK, TypeOK
      <4> QED BY <4>1, <4>2, <4>3
    <3> QED BY <3>1, <3>2
  <2>10. /\ call' \in Calls /\ call'.at = "handshake" /\ call'.proc = q /\ call'.written = 0
         /\ call'.backend = call.backend
    BY <1>2, <2>1 DEF Calls
  <2>11. TypeOK'
    <3>1. \A s \in Slots : Len(procs'[s].out) <= 2
      <4> TAKE s \in Slots
      <4>1. CASE s = q
        BY <2>7, <2>8, <4>1
      <4>2. CASE s # q
        BY <2>8, <2>9, <4>2
      <4> QED BY <4>1, <4>2
    <3> QED BY <1>1, <2>3, <2>8, <2>10, <3>1 DEF EngineOK, TypeOK, Tables, Calls
  <2>12. CallOK'
    BY <2>3, <2>5, <2>8, <2>10 DEF CallOK, InExchange, Proc
  <2>13. \A s \in Slots : procs'[s].at # "none" => s = q
    BY <2>8, <2>9
  <2>14. BackendOK'
    <3>1. Owner' = q
      BY <2>10 DEF Owner, InExchange
    <3> QED BY <1>1, <1>2, <1>4, <2>3, <2>5, <2>8, <2>10, <2>13, <3>1 DEF EngineOK, BackendOK
  <2>15. PipeOK'
    <3>1. ASSUME NEW s \in Slots, procs'[s].at # "none"
          PROVE  LET x == procs'[s]
                 IN  /\ x.at = "loading" /\ x.out = <<>> /\ x.in = 0 /\ Len(x.out) = 0
                     /\ ~(Len(x.out) >= 1) /\ Len(x.out) # 2
      <4>1. procs'[s] = r
        BY <2>8, <2>13, <3>1
      <4> QED BY <2>5, <2>7, <4>1
    <3> QED BY <2>10, <3>1 DEF PipeOK
  <2> QED BY <2>11, <2>12, <2>14, <2>15 DEF EngineOK
<1> QED BY <1>5, <1>6

LEMMA InitIsOK == ASSUME EngineAssumption, Init PROVE EngineOK
<1>1. \A p \in Slots : procs[p].at = "none" /\ Len(procs[p].out) = 0
  BY DEF Init, Free
<1>2. TypeOK
  <2>1. procs \in Tables
    BY DEF Init, Free, Tables, EngineAssumption
  <2>2. call \in Calls
    BY DEF Init, NoCall, Calls, EngineAssumption
  <2>3. last \in Results
    BY DEF Init, Results, EngineAssumption
  <2>4. \A p \in Slots : Len(procs[p].out) <= 2
    BY <1>1
  <2>5. /\ engine = None /\ identity = None /\ failedFor = {} /\ model \in Versions
        /\ gpu_failed \in BOOLEAN /\ cancel \in BOOLEAN
        /\ served \in 0..MaxRequests /\ crashes \in 0..Crashes
    <3>1. engine = None /\ identity = None /\ failedFor = {} /\ model \in Versions
      BY DEF Init
    <3>2. gpu_failed \in BOOLEAN /\ cancel \in BOOLEAN
      BY DEF Init
    <3>3. served \in 0..MaxRequests /\ crashes \in 0..Crashes
      BY DEF Init, EngineAssumption
    <3> QED BY <3>1, <3>2, <3>3
  <2> QED BY <2>1, <2>2, <2>3, <2>4, <2>5 DEF TypeOK, Tables, Calls, Results
<1>3. CallOK
  BY DEF Init, NoCall, CallOK, InExchange
<1>4. BackendOK
  BY <1>1 DEF Init, NoCall, BackendOK
<1>5. PipeOK
  BY <1>1 DEF PipeOK
<1> QED BY <1>2, <1>3, <1>4, <1>5 DEF EngineOK

LEMMA NextKeeps == ASSUME EngineAssumption, EngineOK, [Next]_vars PROVE EngineOK'
<1>1. CASE engine_step
  BY <1>1, AroundKeeps, WithEngineKeeps, ExchangeKeeps DEF engine_step
<1>2. CASE transcribe \/ invalidate \/ release_if_idle \/ cancel_job \/ replace_model
  BY <1>2, TranscribeKeeps, ReleaseKeeps, AroundKeeps
<1>3. ASSUME NEW p \in Slots,
             load(p) \/ next_request(p) \/ read_request(p) \/ answer(p) \/ crash(p)
      PROVE  EngineOK'
  BY <1>3, LoadKeeps, ReadingKeeps, WorkerAnswers, WorkerCrashes
<1>4. CASE UNCHANGED vars
  BY <1>4 DEF vars, EngineOK, TypeOK, CallOK, BackendOK, PipeOK, InExchange, Proc, Sent, Owner,
     Process, Wanted
<1> QED BY <1>1, <1>2, <1>3, <1>4 DEF Next

(* The engine keeps its invariant: one process at most runs, with the      *)
(* backend this configuration wants, and one request at most is on its way *)
(* (transcribe_inner, exchange).                                           *)
THEOREM EngineIsOK == ASSUME EngineAssumption PROVE Spec => []EngineOK
<1>1. Init => EngineOK
  BY InitIsOK
<1>2. EngineOK /\ [Next]_vars => EngineOK'
  BY NextKeeps
<1> QED BY <1>1, <1>2, PTL DEF Spec

(* A worker process that is alive is the engine's or the one being         *)
(* started; none is left behind (WorkerTransport::drop, close).            *)
THEOREM NoneIsLeft == ASSUME EngineAssumption PROVE Spec => []NoOrphans
<1>1. EngineOK => NoOrphans
  BY DEF EngineOK, BackendOK, Owner, NoOrphans
<1> QED BY <1>1, EngineIsOK, PTL

(* After the GPU failed for a model and configuration only CPU workers run *)
(* for them (transcribe_inner, release_if_idle).                           *)
THEOREM FailedGpuIsAvoided == ASSUME EngineAssumption PROVE Spec => []FailedGpuAvoided
<1>1. EngineOK => FailedGpuAvoided
  BY DEF EngineOK, BackendOK, Wanted, FailedGpuAvoided
<1> QED BY <1>1, EngineIsOK, PTL

(* A request is served by the backend that was asked for, or by the CPU    *)
(* after a failure (SessionEngine).                                        *)
THEOREM EngineAlwaysFits == ASSUME EngineAssumption PROVE Spec => []EngineFits
<1>1. EngineOK => EngineFits
  BY DEF EngineOK, CallOK, BackendOK, InExchange, Proc, EngineFits
<1> QED BY <1>1, EngineIsOK, PTL

(* The text of a transcription was recognized from its own request, and    *)
(* never from one before it that was cancelled, timed out or crashed       *)
(* (exchange, close).                                                      *)
THEOREM AnswersAreOwn == ASSUME EngineAssumption PROVE Spec => []AnswersMatch
<1>1. Init => AnswersMatch
  BY DEF Init, AnswersMatch
<1>2. EngineOK /\ AnswersMatch /\ [Next]_vars => AnswersMatch'
  <2> SUFFICES ASSUME EngineOK, AnswersMatch, [Next]_vars, last' # last
               PROVE  AnswersMatch'
    BY DEF AnswersMatch
  <2>1. CASE transcribe_cancelled
    BY <2>1 DEF transcribe_cancelled, ended, AnswersMatch
  <2>2. CASE cancel_early \/ abort_expires \/ timeout \/ broken
    BY <2>2 DEF cancel_early, abort_expires, timeout, broken, cancelled, settle, ended, AnswersMatch
  <2>3. CASE response
    <3> DEFINE line == Head(Proc.out)
    <3>1. CASE ended("text", line.req, Proc.backend)
      <4>1. InExchange /\ Proc.out # <<>> /\ line.status = "success"
        BY <2>3, <3>1 DEF response, Exchanging, cancelled, settle, ended
      <4>2. /\ call.proc \in Slots /\ procs[call.proc].at # "none"
            /\ procs[call.proc].out \in Seq(Lines)
        BY <4>1 DEF EngineOK, TypeOK, CallOK, Proc
      <4>3. /\ Len(procs[call.proc].out) >= 1
            /\ procs[call.proc].out[1] = line
        BY <4>1, <4>2 DEF Proc
      <4>4. line.req = call.req
        BY <4>1, <4>2, <4>3, PipeOf
      <4> QED BY <3>1, <4>4 DEF ended, AnswersMatch
    <3>2. CASE ~ended("text", line.req, Proc.backend)
      BY <2>3, <3>2 DEF response, cancelled, settle, ended, AnswersMatch
    <3> QED BY <3>1, <3>2
  <2>4. CASE UNCHANGED last
    BY <2>4
  <2> QED BY <2>1, <2>2, <2>3, <2>4 DEF Next, vars, engine_step, exchange, transcribe, with_engine,
         invalidate, release_if_idle, signal, write, load, next_request, read_request, answer,
         crash, Step, cancel_job, replace_model
<1> QED BY <1>1, <1>2, EngineIsOK, PTL DEF Spec
=============================================================================
