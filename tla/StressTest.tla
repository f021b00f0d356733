----------------------------- MODULE StressTest -----------------------------
(***************************************************************************)
(* The stress test of anduinos-swapcontrol-gtk: a thread that allocates    *)
(* memory in chunks, holds it and releases it, the bounded channel through *)
(* which it reports, and StressTestView, which starts it, cancels it and   *)
(* shows what it reports.  Memory is counted in chunks.                    *)
(***************************************************************************)
EXTENDS Integers, Sequences, FiniteSets

CONSTANTS Targets, Capacity, Holds, MaxRuns

StressAssumption ==
    Targets \subseteq Nat /\ Capacity \in Nat \ {0} /\ Holds \in Nat /\ MaxRuns \in Nat

VARIABLES threads,  \* the runs: where each is, what it holds, its flag
          channel,  \* the channel of each run
          closed,   \* runs whose receiver has gone
          view,     \* test_running, cancel_flag, the receiver, page, timer
          runs

vars == <<threads, channel, closed, view, runs>>

Progress(n) == [kind |-> "progress", peak |-> n, cancelled |-> FALSE]
Result(n, c) == [kind |-> "result", peak |-> n, cancelled |-> c]

thread(r, at) == r \in DOMAIN threads /\ threads[r].at = at
alone(r) == UNCHANGED <<closed, view, runs>>

\* Progress that finds no room, or nobody who listens, is dropped.
try_send(r, event) ==
    channel' = IF r \in closed \/ Len(channel[r]) >= Capacity THEN channel
               ELSE [channel EXCEPT ![r] = Append(@, event)]

-----------------------------------------------------------------------------
(* run_stress_test *)

\* The memory is released and the result waits to be sent.
over(r, cancelled) ==
    threads' = [threads EXCEPT ![r].at = "send", ![r].held = 0,
                               ![r].result = Result(threads[r].peak, cancelled)]

allocate(r) ==
    /\ thread(r, "grow") /\ threads[r].held < threads[r].target /\ ~threads[r].flag /\ alone(r)
    /\ threads' = [threads EXCEPT ![r].held = @ + 1, ![r].peak = @ + 1]
    /\ try_send(r, Progress(threads[r].held + 1))

\* The flag is seen before the next chunk or while holding.
cancelled(r) ==
    /\ thread(r, "grow") \/ thread(r, "hold")
    /\ threads[r].flag /\ alone(r)
    /\ thread(r, "grow") => threads[r].held < threads[r].target
    /\ over(r, TRUE) /\ UNCHANGED channel

grown(r) ==
    /\ thread(r, "grow") /\ threads[r].held = threads[r].target /\ alone(r)
    /\ threads' = [threads EXCEPT ![r].at = "hold"] /\ UNCHANGED channel

\* 100 ms of the time the peak is held; without a flag.
hold(r) ==
    /\ thread(r, "hold") /\ ~threads[r].flag /\ threads[r].time < Holds /\ alone(r)
    /\ threads' = [threads EXCEPT ![r].time = @ + 1] /\ UNCHANGED channel

release(r) ==
    /\ thread(r, "hold") /\ threads[r].time = Holds /\ alone(r)
    /\ over(r, FALSE) /\ UNCHANGED channel

\* send_blocking: there is room, or the receiver has gone.
send(r) ==
    /\ thread(r, "send") /\ alone(r)
    /\ r \in closed \/ Len(channel[r]) < Capacity
    /\ channel' = IF r \in closed THEN channel
                  ELSE [channel EXCEPT ![r] = Append(@, threads[r].result)]
    /\ threads' = [threads EXCEPT ![r].at = "ended"]

Thread(r) == allocate(r) \/ cancelled(r) \/ grown(r) \/ hold(r) \/ release(r) \/ send(r)

-----------------------------------------------------------------------------
(* StressTestView *)

New(t) == [at |-> IF t = 0 THEN "send" ELSE "grow", target |-> t, held |-> 0, peak |-> 0,
           time |-> 0, flag |-> FALSE, result |-> Result(0, FALSE)]

start_test ==
    /\ view.open /\ ~view.running /\ view.page = "idle" /\ runs < MaxRuns /\ runs' = runs + 1
    /\ \E t \in Targets : threads' = Append(threads, New(t))
    /\ channel' = Append(channel, <<>>)
    /\ view' = [view EXCEPT !.running = TRUE, !.flag = runs + 1, !.from = runs + 1,
                            !.page = "running", !.timer = TRUE]
    /\ UNCHANGED closed

\* The button is there on the page of a running test.
cancel_test ==
    /\ view.open /\ view.page = "running" /\ view.flag # 0 /\ ~threads[view.flag].flag
    /\ threads' = [threads EXCEPT ![view.flag].flag = TRUE]
    /\ UNCHANGED <<channel, closed, view, runs>>

received == view.open /\ view.from # 0 /\ channel[view.from] # <<>>

show_progress ==
    /\ received /\ Head(channel[view.from]).kind = "progress"
    /\ channel' = [channel EXCEPT ![view.from] = Tail(@)]
    /\ UNCHANGED <<threads, closed, view, runs>>

show_results ==
    /\ received /\ Head(channel[view.from]).kind = "result"
    /\ channel' = [channel EXCEPT ![view.from] = Tail(@)]
    /\ closed' = closed \cup {view.from}
    /\ view' = [view EXCEPT !.running = FALSE, !.flag = 0, !.from = 0, !.page = "results",
                            !.timer = FALSE]
    /\ UNCHANGED <<threads, runs>>

run_again ==
    /\ view.open /\ view.page = "results" /\ view' = [view EXCEPT !.page = "idle"]
    /\ UNCHANGED <<threads, channel, closed, runs>>

\* The window is closed: the receiver goes with the view.
close ==
    /\ view.open /\ view' = [view EXCEPT !.open = FALSE, !.timer = FALSE]
    /\ closed' = closed \cup 1..runs
    /\ UNCHANGED <<threads, channel, runs>>

Init ==
    /\ threads = <<>> /\ channel = <<>> /\ closed = {} /\ runs = 0
    /\ view = [open |-> TRUE, running |-> FALSE, flag |-> 0, from |-> 0, page |-> "idle",
               timer |-> FALSE]

ViewStep == show_progress \/ show_results

Next ==
    \/ \E r \in 1..runs : Thread(r)
    \/ start_test \/ cancel_test \/ ViewStep \/ run_again \/ close

Spec == Init /\ [][Next]_vars

\* The threads run, and the main loop receives what is sent.
LiveSpec == Spec /\ \A r \in 1..MaxRuns : WF_vars(Thread(r)) /\ WF_vars(ViewStep)

-----------------------------------------------------------------------------
(* Properties *)

\* start_test: at most one thread holds memory, and the page offers to
\* cancel it as long as it does.
OneThread ==
    \A r \in DOMAIN threads : threads[r].held > 0 /\ view.open =>
      /\ \A q \in DOMAIN threads \ {r} : threads[q].held = 0
      /\ view.running /\ view.page = "running" /\ view.flag = r

\* show_results: the timer of the statistics is there while a test runs and
\* is removed once, whatever order ticks and events come in.
TimerWithTest == view.timer = (view.open /\ view.running)

\* run_stress_test: what is reported is what was held; it is the target
\* unless the test was cancelled.
PeakIsTrue ==
    \A r \in DOMAIN threads : thread(r, "ended") =>
      threads[r].result.cancelled \/ threads[r].result.peak = threads[r].target

\* cancel_test: a test ends, and one that is cancelled no later than that; its
\* memory is given back also when the window has been closed.  A running test
\* always leads to its results, also with a full channel.
Begun == [r \in 1..MaxRuns |-> r \in DOMAIN threads] \o <<view.running /\ view.open>>
Over == [r \in 1..MaxRuns |-> r \in DOMAIN threads /\ thread(r, "ended") /\ threads[r].held = 0]
        \o <<view.page = "results" \/ ~view.open>>
TestsEnd == \A k \in 1..(MaxRuns + 1) : Begun[k] ~> Over[k]
=============================================================================
