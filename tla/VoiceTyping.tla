----------------------------- MODULE VoiceTyping -----------------------------
(***************************************************************************)
(* The dictation service of anduinos-whisper-framework: the D-Bus service  *)
(* on the main loop, the recognition thread with its bounded queue, the    *)
(* capture thread, and the unbounded event channel back to the main loop.  *)
(* Phrases are numbered in the order they are spoken; a transcript is      *)
(* abstracted to whether it has words, is empty, or is the spoken command  *)
(* that stops the dictation.                                               *)
(***************************************************************************)
EXTENDS Integers, Sequences, FiniteSets, SequencesExt

CONSTANTS MaxFinals,     \* capacity of the recognition queue
          Uses,          \* what happens beside the dictation itself
          LiveModes,     \* the choices of live transcription that are made
          MaxCalls, MaxPhrases, MaxPartials, MaxRetests,  \* bounds
          None

VoiceAssumption ==
    /\ MaxFinals \in Nat \ {0}
    /\ Uses \subseteq {"microphone fails", "tests", "silence", "quit", "failures"}
    /\ LiveModes \subseteq {"on", "auto", "off"} /\ LiveModes # {}
    /\ {MaxCalls, MaxPhrases, MaxPartials, MaxRetests} \subseteq Nat

VARIABLES ctl,       \* Control, under its mutex
          live,      \* live_mode
          queue,     \* RecognitionQueue
          events,    \* the channel to the main loop
          worker,    \* the recognition thread
          capture,   \* the open microphone, if any
          svc,       \* Service: state, countdown, restore, finish_message
          loop,      \* the main loop
          settings,  \* tuning-generation and full-tuning-pending, and which
                     \* generation was measured last
          retest,    \* a request of the settings window that is half written
          phrase, partials, calls,  \* counted up to the bounds
          delivered, \* final transcripts, in the order they were emitted
          shown,     \* previews emitted so far, the latest one's phrase
          promised   \* finals accepted when the dictation was finished

vars == <<ctl, live, queue, events, worker, capture, svc, loop, settings,
          retest, phrase, partials, calls, delivered, shown, promised>>

States == {"idle", "preparing", "calibrating", "listening", "recognizing",
           "finishing", "no-speech", "testing", "error"}

Job == [kind : {"prepare", "final", "partial"}, session : Nat, gen : Nat,
        phrase : Nat, full : BOOLEAN, tuning : Nat]

\* An event of the channel; the fields an event does not have are neutral.
Event(t, s) == [type |-> t, session |-> s, gen |-> 0, phrase |-> 0,
                text |-> "words", tuning |-> 0]

-----------------------------------------------------------------------------
(* RecognitionQueue *)

\* Mutant: the queue takes one final too many.
put_final_extra(q, job) ==
    IF Len(q.finals) > MaxFinals THEN q
    ELSE [q EXCEPT !.partial = None, !.finals = Append(@, job)]

\* A rejected final is left with the caller.
put_final(q, job) ==
    IF Len(q.finals) >= MaxFinals THEN q
    ELSE [q EXCEPT !.partial = None, !.finals = Append(@, job)]

put_partial(q, job) ==
    IF q.finals # <<>> THEN q ELSE [q EXCEPT !.partial = job]

clear(q, partial_only) ==
    [q EXCEPT !.partial = None, !.finals = IF partial_only THEN @ ELSE <<>>]

-----------------------------------------------------------------------------
(* Control *)

permits_preview(mode, capable) == mode = "on" \/ (mode = "auto" /\ capable)

cancelled(cur) == IF cur = None THEN None ELSE [cur EXCEPT !.cancel = TRUE]

invalidate(c) ==
    [c EXCEPT !.generation = @ + 1, !.floor = c.generation + 1,
              !.current = IF @ = None \/ ~(@.partial) THEN @ ELSE cancelled(@)]

new_session(c, a, t) ==
    invalidate([c EXCEPT !.current = cancelled(@), !.session = @ + 1,
                         !.active = a, !.testing = t, !.pending = 0,
                         !.config = FALSE, !.preview_allowed = FALSE])

stop_accepting(c) == invalidate([c EXCEPT !.active = FALSE])

complete_final(c) == [c EXCEPT !.pending = IF @ = 0 THEN 0 ELSE @ - 1]

\* Mutant: a preview is shown whatever was said since.
partial_valid_any(e) ==
    /\ ctl.active /\ permits_preview(live, ctl.preview_allowed)

\* The session was compared by the caller.
partial_valid(e) ==
    /\ ctl.active /\ e.gen > ctl.floor
    /\ permits_preview(live, ctl.preview_allowed)

audio(kind, c, p) ==
    [kind |-> kind, session |-> c.session, gen |-> c.generation,
     phrase |-> p, full |-> FALSE, tuning |-> 0]

\* Shared::capture for a Partial or a Final of the current session, on the
\* triple of control, queue and channel.
admit(r, kind, p) ==
    LET c == r.ctl
        cp == [c EXCEPT !.generation = @ + 1]
        cf == invalidate(c)
        qf == put_final(clear(r.queue, TRUE), audio("final", cf, p))
        ok == qf.finals # r.queue.finals
    IN  CASE ~c.active \/ ~c.config -> r
          [] c.active /\ c.config /\ kind = "partial" ->
               IF permits_preview(live, c.preview_allowed)
               THEN [r EXCEPT !.ctl = cp,
                              !.queue = put_partial(@, audio("partial", cp, p))]
               ELSE r
          [] c.active /\ c.config /\ kind = "final" ->
               [ctl |-> [cf EXCEPT !.pending = IF ok THEN @ + 1 ELSE @,
                                   !.active = ok],
                queue |-> qf,
                events |-> Append(r.events,
                             Event(IF ok THEN "Accepted" ELSE "Overloaded",
                                   c.session))]

Shared == [ctl |-> ctl, queue |-> queue, events |-> events]

-----------------------------------------------------------------------------
(* The capture thread *)

capture_audio(kind) ==
    /\ capture # None /\ ~capture.dead /\ capture.session = ctl.session
    /\ ctl.active
    /\ kind = "final" => phrase <= MaxPhrases
    /\ kind = "partial" => partials < MaxPartials
    /\ LET r == admit(Shared, kind, phrase)
       IN  ctl' = r.ctl /\ queue' = r.queue /\ events' = r.events
    /\ phrase' = IF kind = "final" THEN phrase + 1 ELSE phrase
    /\ partials' = IF kind = "partial" THEN partials + 1 ELSE partials
    /\ UNCHANGED <<live, worker, capture, svc, loop, settings, retest, calls,
                   delivered, shown, promised>>

\* The notice of eight seconds without speech; one is in the channel at most.
capture_no_speech ==
    /\ "silence" \in Uses
    /\ capture # None /\ ~capture.dead /\ capture.session = ctl.session
    /\ ctl.active \/ ctl.testing
    /\ \A i \in DOMAIN events : events[i].type # "NoSpeech"
    /\ phrase <= MaxPhrases
    /\ events' = Append(events, Event("NoSpeech", ctl.session))
    /\ UNCHANGED <<ctl, live, queue, worker, capture, svc, loop, settings, retest,
                   phrase, partials, calls, delivered, shown, promised>>

\* The speech detector fails: the stream reports it and ends.
capture_fails ==
    /\ "microphone fails" \in Uses
    /\ capture # None /\ ~capture.dead
    /\ capture' = [capture EXCEPT !.dead = TRUE]
    /\ events' = IF capture.session = ctl.session /\ (ctl.active \/ ctl.testing)
                   THEN Append(events, Event("CaptureFailed", ctl.session))
                   ELSE events
    /\ UNCHANGED <<ctl, live, queue, worker, svc, loop, settings, retest, phrase,
                   partials, calls, delivered, shown, promised>>

-----------------------------------------------------------------------------
(* The recognition thread *)

Worker(at) == [worker EXCEPT !.at = at]

get ==
    /\ worker.at = "idle"
    /\ \/ queue.quit /\ worker' = [at |-> "gone", job |-> None] /\ UNCHANGED queue
       \/ /\ ~queue.quit /\ queue.finals # <<>>
          /\ worker' = [at |-> "taken", job |-> Head(queue.finals)]
          /\ queue' = [queue EXCEPT !.finals = Tail(@)]
       \/ /\ ~queue.quit /\ queue.finals = <<>> /\ queue.partial # None
          /\ worker' = [at |-> "taken", job |-> queue.partial]
          /\ queue' = [queue EXCEPT !.partial = None]
    /\ UNCHANGED <<ctl, live, events, capture, svc, loop, settings, retest, phrase,
                   partials, calls, delivered, shown, promised>>

\* Whether a job is still wanted when the thread comes to it.
wanted(job) ==
    /\ ctl.session = job.session
    /\ job.kind = "partial" =>
         /\ ctl.active /\ job.gen = ctl.generation /\ job.gen > ctl.floor
         /\ permits_preview(live, ctl.preview_allowed)

take ==
    /\ worker.at = "taken"
    /\ IF wanted(worker.job)
         THEN /\ worker' = Worker(IF worker.job.kind = "prepare" THEN "select"
                                                                ELSE "transcribe")
              /\ ctl' = [ctl EXCEPT !.current =
                           [partial |-> worker.job.kind = "partial", cancel |-> FALSE]]
         ELSE worker' = [at |-> "idle", job |-> None] /\ UNCHANGED ctl
    /\ UNCHANGED <<live, queue, events, capture, svc, loop, settings, retest, phrase,
                   partials, calls, delivered, shown, promised>>

\* The selector measures the backends.
measure ==
    /\ worker.at = "select"
    /\ worker' = Worker("measure")
    /\ events' = Append(events, Event("Calibrating", worker.job.session))
    /\ UNCHANGED <<ctl, live, queue, capture, svc, loop, settings, retest, phrase,
                   partials, calls, delivered, shown, promised>>

\* The backend is chosen: from the measurement, the cache or by hand.
selected ==
    /\ worker.at \in {"select", "measure"}
    /\ worker' = Worker("load")
    /\ events' = (IF worker.job.full
                    THEN Append(events, [Event("FullTuningComplete", worker.job.session)
                                           EXCEPT !.tuning = worker.job.tuning])
                    ELSE events)
                   \o <<Event("Preparing", worker.job.session)>>
    /\ UNCHANGED <<ctl, live, queue, capture, svc, loop, settings, retest, phrase,
                   partials, calls, delivered, shown, promised>>

\* Engine and speech detector are running; published under the lock unless
\* the session is over.
prepared ==
    /\ worker.at = "load"
    /\ worker' = Worker("ending")
    /\ IF ctl.current.cancel \/ ctl.session # worker.job.session \/ ~ctl.active
         THEN UNCHANGED <<ctl, events>>
         ELSE /\ \E capable \in BOOLEAN :
                   ctl' = [ctl EXCEPT !.config = TRUE, !.preview_allowed = capable]
              /\ events' = Append(events, Event("Prepared", worker.job.session))
    /\ UNCHANGED <<live, queue, capture, svc, loop, settings, retest, phrase,
                   partials, calls, delivered, shown, promised>>

\* A preview that took longer than 400 ms ends automatic previews.
transcribed ==
    /\ worker.at = "transcribe"
    /\ worker' = Worker("ending")
    /\ \E text \in {"words", "empty", "stop"}, slow \in BOOLEAN :
         /\ worker.job.kind = "partial" => text # "stop"
         /\ slow => worker.job.kind = "partial"
         /\ ctl' = IF slow /\ ctl.session = worker.job.session /\ live = "auto"
                     THEN [ctl EXCEPT !.preview_allowed = FALSE] ELSE ctl
         /\ events' = Append(events,
              [Event("Completed", worker.job.session) EXCEPT
                 !.type = IF worker.job.kind = "partial" THEN "Preview" ELSE @,
                 !.gen = worker.job.gen, !.phrase = worker.job.phrase, !.text = text])
    /\ UNCHANGED <<live, queue, capture, svc, loop, settings, retest, phrase,
                   partials, calls, delivered, shown, promised>>

\* A cancelled job ends without an event.
job_cancelled ==
    /\ worker.at \in {"select", "measure", "load", "transcribe"}
    /\ ctl.current.cancel
    /\ worker' = Worker("ending")
    /\ UNCHANGED <<ctl, live, queue, events, capture, svc, loop, settings, retest,
                   phrase, partials, calls, delivered, shown, promised>>

\* The engine, the detector or a deadline fails; a lost preview is not told.
job_fails ==
    /\ "failures" \in Uses
    /\ worker.at \in {"select", "measure", "load", "transcribe"}
    /\ worker' = Worker("ending")
    /\ events' = IF worker.job.kind = "partial" THEN events
                 ELSE Append(events, [Event("Failed", worker.job.session)
                                        EXCEPT !.phrase = worker.job.phrase])
    /\ UNCHANGED <<ctl, live, queue, capture, svc, loop, settings, retest, phrase,
                   partials, calls, delivered, shown, promised>>

job_ends ==
    /\ worker.at = "ending"
    /\ worker' = [at |-> "idle", job |-> None]
    /\ ctl' = [ctl EXCEPT !.current = None]
    /\ UNCHANGED <<live, queue, events, capture, svc, loop, settings, retest, phrase,
                   partials, calls, delivered, shown, promised>>

work == get \/ take \/ measure \/ selected \/ prepared \/ transcribed
          \/ job_cancelled \/ job_fails \/ job_ends

-----------------------------------------------------------------------------
(* The service on the main loop *)

\* Service::state
State(s, name) ==
    [s EXCEPT !.state = name,
              !.countdown = IF name = "calibrating" THEN @ ELSE None]

\* Service::stop, and with it the promise to drain.
stopped ==
    /\ ctl' = new_session(ctl, FALSE, FALSE)
    /\ queue' = clear(queue, FALSE)
    /\ capture' = None
    /\ svc' = State([svc EXCEPT !.restore = None], "idle")
    /\ promised' = {}

call ==
    /\ loop = "running" /\ calls < MaxCalls /\ calls' = calls + 1
    /\ UNCHANGED <<live, worker, loop, settings, retest, partials, delivered, shown>>

\* Start while a dictation is active changes nothing.
start ==
    /\ call /\ ~ctl.active
    /\ capture' = None /\ promised' = {}
    /\ \/ \* the model is not installed
          /\ ctl' = new_session(ctl, FALSE, FALSE)
          /\ queue' = clear(queue, FALSE)
          /\ svc' = State(svc, "error")
       \/ LET c == new_session(new_session(ctl, FALSE, FALSE), TRUE, FALSE)
          IN  /\ ctl' = c
              /\ queue' = put_final(clear(queue, FALSE),
                            [kind |-> "prepare", session |-> c.session, gen |-> 0,
                             phrase |-> 0, full |-> settings.full,
                             tuning |-> settings.generation])
              /\ svc' = State([svc EXCEPT !.restore = None, !.message = FALSE],
                              "preparing")
    /\ UNCHANGED <<events, phrase>>

stop == call /\ stopped /\ UNCHANGED <<events, phrase>>

finish_state(c) == IF c.pending > 0 THEN "finishing" ELSE "idle"

\* Finish before the microphone is open cancels the preparation; after that
\* the capture is flushed first and admission ends second.
finish ==
    /\ call /\ ctl.active
    /\ IF capture = None THEN stopped /\ UNCHANGED <<events, phrase>>
       ELSE \E flush \in {<<>>, <<"final">>, <<"partial", "final">>} :
              /\ Len(flush) > 0 => phrase <= MaxPhrases
              /\ LET r == IF capture.session # ctl.session THEN Shared
                          ELSE FoldLeft(LAMBDA a, kind : admit(a, kind, phrase),
                                        Shared, flush)
                     c == stop_accepting(r.ctl)
                 IN  /\ ctl' = c
                     /\ queue' = clear(r.queue, TRUE)
                     /\ events' = r.events
                     /\ svc' = State(svc, finish_state(c))
                     /\ promised' = {r.queue.finals[i].phrase : i \in DOMAIN r.queue.finals}
                          \cup (IF worker.job # None /\ worker.at \in {"taken", "transcribe"}
                                   /\ worker.job.kind = "final"
                                   /\ worker.job.session = c.session
                                THEN {worker.job.phrase} ELSE {})
              /\ capture' = None
              /\ phrase' = IF Len(flush) > 0 THEN phrase + 1 ELSE phrase

start_test ==
    /\ "tests" \in Uses /\ call /\ ~ctl.testing
    /\ queue' = clear(queue, FALSE) /\ promised' = {}
    /\ LET c == new_session(new_session(ctl, FALSE, FALSE), FALSE, TRUE)
           s == State([svc EXCEPT !.restore = None], "idle")
       IN  \/ /\ ctl' = c /\ svc' = State(s, "testing")
              /\ capture' = [session |-> c.session, dead |-> FALSE, reported |-> FALSE]
           \/ \* the microphone does not open
              /\ ctl' = new_session(c, FALSE, FALSE) /\ svc' = State(s, "error")
              /\ capture' = None
    /\ UNCHANGED <<events, phrase>>

stop_test == "tests" \in Uses /\ stop

\* The settings window: a new choice of live transcription, and the request
\* to measure again, written to two keys one after the other.
set_live_mode ==
    /\ loop = "running"
    /\ live' \in LiveModes /\ live' # live
    /\ UNCHANGED <<ctl, queue, events, worker, capture, svc, loop, settings, retest,
                   phrase, partials, calls, delivered, shown, promised>>

retest_performance ==
    /\ settings.generation < MaxRetests
    /\ settings' = IF retest THEN [settings EXCEPT !.generation = @ + 1]
                             ELSE [settings EXCEPT !.full = TRUE]
    /\ retest' = ~retest
    /\ UNCHANGED <<ctl, live, queue, events, worker, capture, svc, loop, phrase,
                   partials, calls, delivered, shown, promised>>

-----------------------------------------------------------------------------
(* Event handlers.  Every one consumes the head of the channel. *)

received(t) ==
    /\ loop = "running" /\ events # <<>> /\ Head(events).type = t
    /\ events' = Tail(events)
    /\ UNCHANGED <<live, worker, loop, retest, phrase, partials, calls>>

Current(e) == e.session = ctl.session

complete_full_tuning ==
    /\ received("FullTuningComplete")
    /\ LET g == Head(events).tuning
       IN  settings' = [settings EXCEPT !.measured = g,
                          !.full = IF settings.generation = g THEN FALSE ELSE @]
    /\ UNCHANGED <<ctl, queue, capture, svc, delivered, shown, promised>>

calibrating ==
    /\ received("Calibrating")
    /\ IF Current(Head(events)) /\ ctl.active /\ capture = None
         THEN svc' = State([svc EXCEPT !.countdown = ctl.session], "calibrating")
         ELSE UNCHANGED svc
    /\ UNCHANGED <<ctl, queue, capture, settings, delivered, shown, promised>>

preparing ==
    /\ received("Preparing")
    /\ IF Current(Head(events)) /\ ctl.active /\ capture = None
         THEN svc' = State(svc, "preparing") ELSE UNCHANGED svc
    /\ UNCHANGED <<ctl, queue, capture, settings, delivered, shown, promised>>

\* The session ends and whatever it had accepted goes with it.
lose_microphone ==
    /\ ctl' = new_session(ctl, FALSE, FALSE)
    /\ queue' = clear(queue, FALSE)
    /\ capture' = None
    /\ svc' = State(svc, "error")

open_microphone ==
    /\ received("Prepared")
    /\ IF ~Current(Head(events)) \/ ~ctl.active THEN UNCHANGED <<ctl, queue, capture, svc>>
       ELSE \/ /\ capture' = [session |-> ctl.session, dead |-> FALSE, reported |-> FALSE]
               /\ svc' = State(svc, "listening") /\ UNCHANGED <<ctl, queue>>
            \/ lose_microphone
    /\ UNCHANGED <<settings, delivered, shown, promised>>

accepted ==
    /\ received("Accepted")
    /\ svc' = IF Current(Head(events)) /\ ctl.active
                THEN State(svc, "recognizing") ELSE svc
    /\ UNCHANGED <<ctl, queue, capture, settings, delivered, shown, promised>>

\* Service::no_speech
no_speech(s) == State([s EXCEPT !.restore = ctl.session], "no-speech")

no_speech_noticed ==
    /\ received("NoSpeech")
    /\ svc' = IF Current(Head(events)) /\ ctl.active /\ ctl.pending = 0
                 /\ svc.state = "listening"
                THEN no_speech(svc) ELSE svc
    /\ UNCHANGED <<ctl, queue, capture, settings, delivered, shown, promised>>

capture_failed ==
    /\ received("CaptureFailed")
    /\ IF Current(Head(events)) THEN lose_microphone
                                ELSE UNCHANGED <<ctl, queue, capture, svc>>
    /\ UNCHANGED <<settings, delivered, shown, promised>>

\* Mutant: a phrase that failed stays counted.
failed_counted(c) ==
    LET c2 == stop_accepting(c)
    IN  /\ ctl' = c2
        /\ queue' = clear(queue, TRUE) /\ capture' = None
        /\ svc' = State([svc EXCEPT !.message = TRUE],
                        IF c2.pending > 0 THEN "finishing" ELSE "error")

\* Service::failed: admission ends, what was accepted is still recognized.
failed(c) ==
    LET c2 == stop_accepting(IF Head(events).type = "Failed" THEN complete_final(c) ELSE c)
    IN  /\ ctl' = c2
        /\ queue' = clear(queue, TRUE) /\ capture' = None
        /\ svc' = State([svc EXCEPT !.message = TRUE],
                        IF c2.pending > 0 THEN "finishing" ELSE "error")

recognition_failed ==
    /\ received("Failed")
    /\ IF Current(Head(events)) THEN failed(ctl)
                                ELSE UNCHANGED <<ctl, queue, capture, svc>>
    /\ promised' = promised \ {Head(events).phrase}
    /\ UNCHANGED <<settings, delivered, shown>>

overloaded ==
    /\ received("Overloaded")
    /\ IF Current(Head(events)) THEN failed(ctl)
                                ELSE UNCHANGED <<ctl, queue, capture, svc>>
    /\ UNCHANGED <<settings, delivered, shown, promised>>

preview ==
    /\ received("Preview")
    /\ LET e == Head(events)
       IN  shown' = IF Current(e) /\ partial_valid(e) /\ e.text # "empty"
                      THEN [count |-> shown.count + 1, phrase |-> e.phrase] ELSE shown
    /\ UNCHANGED <<ctl, queue, capture, svc, settings, delivered, promised>>

\* What the service shows once a final is done.
after_final(c, text) ==
    CASE c.pending > 0 -> State(svc, IF c.active THEN "recognizing" ELSE "finishing")
      [] c.pending = 0 /\ c.active ->
           IF text = "empty" THEN no_speech(svc) ELSE State(svc, "listening")
      [] c.pending = 0 /\ ~c.active /\ ~c.testing ->
           State(svc, IF svc.message THEN "error" ELSE "idle")
      [] OTHER -> svc

completed ==
    /\ received("Completed")
    /\ LET e == Head(events)
           c == complete_final(ctl)
       IN  IF ~Current(e) THEN UNCHANGED <<ctl, queue, capture, svc, delivered, promised>>
           ELSE /\ delivered' = IF e.text = "words" THEN Append(delivered, e.phrase)
                                                    ELSE delivered
                /\ IF e.text = "stop" THEN stopped
                   ELSE /\ ctl' = c
                        /\ svc' = after_final(c, e.text)
                        /\ promised' = promised \ {e.phrase}
                        /\ UNCHANGED <<queue, capture>>
    /\ UNCHANGED <<settings, shown>>

handle_event ==
    complete_full_tuning \/ calibrating \/ preparing \/ open_microphone \/ accepted
      \/ no_speech_noticed \/ capture_failed \/ recognition_failed \/ overloaded
      \/ preview \/ completed

-----------------------------------------------------------------------------
(* The timer, and the end of the process *)

\* left: the seconds of the countdown that remain are all gone, some, or as
\* many as the last time.
count_down(s, left) ==
    CASE s.countdown = None -> s
      [] s.countdown # None /\ (s.countdown # ctl.session \/ ~ctl.active) ->
           [s EXCEPT !.countdown = None]
      [] s.countdown = ctl.session /\ ctl.active /\ left = "none" -> State(s, "preparing")
      [] s.countdown = ctl.session /\ ctl.active /\ left = "fewer" -> State(s, "calibrating")
      [] OTHER -> s

restored(s, due) ==
    IF s.restore = None \/ ~due THEN s
    ELSE LET r == [s EXCEPT !.restore = None]
         IN  IF s.restore = ctl.session /\ ctl.active /\ s.state = "no-speech"
               THEN State(r, "listening") ELSE r

tick(left, due, broken, long) ==
    /\ loop = "running"
    /\ broken => "microphone fails" \in Uses /\ capture # None
    /\ IF capture # None /\ ~capture.reported /\ (broken \/ capture.dead)
         THEN /\ capture' = [capture EXCEPT !.reported = TRUE]
              /\ events' = IF capture.session = ctl.session /\ (ctl.active \/ ctl.testing)
                             THEN Append(events, Event("CaptureFailed", ctl.session))
                             ELSE events
         ELSE UNCHANGED <<capture, events>>
    /\ svc' = restored(count_down(svc, left), due)
    /\ loop' = IF ~ctl.active /\ ~ctl.testing /\ ctl.pending = 0 /\ long
                    /\ "quit" \in Uses
                 THEN "quit" ELSE loop
    /\ UNCHANGED <<ctl, live, queue, worker, settings, retest, phrase, partials, calls,
                   delivered, shown, promised>>

\* Quit, a signal, the lost bus name or the Shell's end.
quit ==
    /\ "quit" \in Uses
    /\ loop = "running" /\ loop' = "quit"
    /\ UNCHANGED <<ctl, live, queue, events, worker, capture, svc, settings, retest,
                   phrase, partials, calls, delivered, shown, promised>>

\* After the main loop, with nobody left to read the channel: stop, then
\* Runtime::shutdown.
leave ==
    /\ loop = "quit" /\ loop' = "leaving"
    /\ ctl' = new_session(new_session(ctl, FALSE, FALSE), FALSE, FALSE)
    /\ queue' = [clear(queue, FALSE) EXCEPT !.quit = TRUE]
    /\ capture' = None /\ events' = <<>> /\ promised' = {}
    /\ svc' = State([svc EXCEPT !.restore = None], "idle")
    /\ UNCHANGED <<live, worker, settings, retest, phrase, partials, calls,
                   delivered, shown>>

joined ==
    /\ loop = "leaving" /\ worker.at = "gone" /\ loop' = "gone"
    /\ UNCHANGED <<ctl, live, queue, events, worker, capture, svc, settings, retest,
                   phrase, partials, calls, delivered, shown, promised>>

-----------------------------------------------------------------------------

Init ==
    /\ ctl = [session |-> 0, active |-> FALSE, testing |-> FALSE, pending |-> 0,
              generation |-> 0, floor |-> 0, current |-> None, config |-> FALSE,
              preview_allowed |-> FALSE]
    /\ live \in LiveModes
    /\ queue = [finals |-> <<>>, partial |-> None, quit |-> FALSE]
    /\ events = <<>>
    /\ worker = [at |-> "idle", job |-> None]
    /\ capture = None
    /\ svc = [state |-> "idle", countdown |-> None, restore |-> None, message |-> FALSE]
    /\ loop = "running"
    /\ settings = [generation |-> 0, full |-> MaxRetests > 0, measured |-> 0]
    /\ retest = FALSE
    /\ phrase = 1 /\ partials = 0 /\ calls = 0
    /\ delivered = <<>> /\ shown = [count |-> 0, phrase |-> 0] /\ promised = {}

Next ==
    \/ \E kind \in {"partial", "final"} : capture_audio(kind)
    \/ capture_no_speech \/ capture_fails
    \/ work
    \/ start \/ stop \/ finish \/ start_test \/ stop_test
    \/ set_live_mode \/ retest_performance
    \/ handle_event
    \/ \E left \in {"none", "fewer", "same"}, due, broken, long \in BOOLEAN :
         tick(left, due, broken, long)
    \/ quit \/ leave \/ joined

Spec == Init /\ [][Next]_vars

\* The threads run, time passes, and every recognition ends by its deadline.
Fairness ==
    /\ WF_vars(work) /\ WF_vars(handle_event) /\ WF_vars(leave) /\ WF_vars(joined)
    /\ WF_vars(tick("none", TRUE, FALSE, FALSE))

LiveSpec == Spec /\ Fairness

-----------------------------------------------------------------------------
(* Properties *)

\* The state is well typed; in particular the queue of accepted phrases stays
\* within its limit.
TypeOK ==
    /\ ctl.session \in Nat /\ ctl.pending \in Nat /\ ctl.floor <= ctl.generation
    /\ Len(queue.finals) <= MaxFinals
    /\ \A i \in DOMAIN queue.finals : queue.finals[i] \in Job
    /\ queue.partial = None \/ queue.partial \in Job
    /\ worker.at \in {"idle", "taken", "select", "measure", "load", "transcribe",
                      "ending", "gone"}
    /\ svc.state \in States
    /\ loop \in {"running", "quit", "leaving", "gone"}

\* Finals of the current session that no handler has settled yet.
Outstanding ==
    {queue.finals[i].phrase : i \in {j \in DOMAIN queue.finals :
        queue.finals[j].kind = "final" /\ queue.finals[j].session = ctl.session}}
    \cup {events[i].phrase : i \in {j \in DOMAIN events :
        events[j].type \in {"Completed", "Failed"} /\ events[j].phrase # 0
          /\ events[j].session = ctl.session}}
    \cup IF worker.at \in {"taken", "transcribe"}
           THEN {p \in {worker.job.phrase} : worker.job.kind = "final"
                                               /\ worker.job.session = ctl.session}
           ELSE {}

\* complete_final, capture and new_session: the count the service waits on is
\* exactly the accepted phrases that are queued, being recognized or on their
\* way back, across overload, failures, cancellations and new sessions.
PendingMatches == ctl.pending = Cardinality(Outstanding)

\* A preparation of the current session that is still under way.
Underway ==
    \/ \E i \in DOMAIN queue.finals : queue.finals[i].kind = "prepare"
    \/ worker.job # None /\ worker.job.kind = "prepare"
         /\ worker.at # "ending" /\ worker.job.session = ctl.session
    \/ \E i \in DOMAIN events : events[i].type \in {"Prepared", "Failed"}
                                  /\ events[i].session = ctl.session

\* Service::event and tick: the state shown has a reason.  It never says that
\* the service recognizes, finishes, loads or listens when nothing is left to
\* recognize or load and no microphone is open.
StateHasReason ==
    /\ svc.state \in {"recognizing", "finishing"} => ctl.pending > 0
    /\ svc.state \in {"preparing", "calibrating"} => ctl.active /\ Underway
    /\ svc.state \in {"listening", "no-speech", "testing"} => capture # None

\* Finish and Stop during preparation, stale Prepared events: an open
\* microphone belongs to the current dictation or test, except in the moment
\* between an overload and its event.
MicrophoneAccounted ==
    capture # None =>
      /\ capture.session = ctl.session
      /\ \/ ctl.active \/ ctl.testing
         \/ \E i \in DOMAIN events : events[i] = Event("Overloaded", ctl.session)

\* RecognitionQueue: final results remain in the order they were spoken.
FinalsInOrder ==
    \A i, j \in DOMAIN delivered : i < j => delivered[i] < delivered[j]

\* partial_valid and invalidate_locked: a preview is only ever shown of the
\* phrase being spoken, and when every phrase before it has been delivered.
PreviewIsCurrent ==
    shown' # shown => shown'.phrase = phrase /\ Outstanding = {}

\* finish: every phrase accepted before Finish is delivered or reported as
\* failed, unless the user starts or stops something else.
FinishDrains == promised \subseteq Outstanding

\* complete_full_tuning: a request for a new measurement is only taken back
\* by a measurement made after it.
RetestKept == ~retest /\ ~settings.full => settings.measured = settings.generation

\* worker_loop, tick and event: none of the passing states lasts for ever, and
\* the join of the recognition thread in Runtime::shutdown returns.
Passing == <<"preparing", "calibrating", "recognizing", "finishing", "no-speech">>
Begun == [k \in 1..5 |-> svc.state = Passing[k]] \o <<loop = "leaving">>
Over == [k \in 1..5 |-> svc.state # Passing[k]] \o <<loop = "gone">>
Progress == \A k \in 1..6 : Begun[k] ~> Over[k]
=============================================================================
