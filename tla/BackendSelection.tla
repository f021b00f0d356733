-------------------------- MODULE BackendSelection --------------------------
(***************************************************************************)
(* How the recognition thread of anduinos-whisper-framework chooses the    *)
(* backend and the number of threads: AutomaticSelector over the cache of  *)
(* the last measurement and BackendTuner, which measures the candidates on *)
(* fixed audio.  One sample is measured: it is transcribed cold, then      *)
(* twice as it is and twice with noise.  Texts are abstracted to which     *)
(* text it is, durations to one speed of the clean and one of the noisy    *)
(* runs of a candidate.                                                    *)
(***************************************************************************)
EXTENDS Integers, Sequences, FiniteSets, FiniteSetsExt, SequencesExt

CONSTANTS Cores,        \* the numbers of cores the process may be given
          Overrides,    \* thread counts the user sets; 0 is automatic
          Speeds,       \* time per run of a candidate
          PreviewSpeed, \* a run this fast allows automatic previews
          Texts,        \* what a run can recognize; "" is nothing
          SaveFails,    \* whether the cache may not be written
          MaxSelects, MaxChanges, None

SelectionAssumption ==
    /\ Cores \subseteq Nat \ {0} /\ Overrides \subseteq Nat
    /\ SaveFails \in BOOLEAN
    /\ Speeds \subseteq Nat \ {0} /\ PreviewSpeed \in Nat
    /\ MaxSelects \in Nat /\ MaxChanges \in Nat

VARIABLES world,     \* cores available, and the version of model and drivers
          settings,  \* the thread override, and tuning-generation
          cache,     \* performance.json
          failed,    \* failed_fingerprint, of this process
          run,       \* the selection under way
          tuner,     \* the measurement under way
          chosen,    \* what the last selection returned
          measured,  \* fingerprints measured to the end, since when they were
          unsaved,   \* those whose last result could not be saved
          selects, changes

vars == <<world, settings, cache, failed, run, tuner, chosen, measured, unsaved, selects, changes>>

Choice(b, n) == [backend |-> b, threads |-> n]
Lesser(a, b) == IF a < b THEN a ELSE b

-----------------------------------------------------------------------------
(* BackendTuner *)

\* CPU and GPU with up to four threads, then the CPU with eight and two.
candidates(count) ==
    LET first == Lesser(count, 4)
        more == {Choice("cpu", Lesser(count, 8)), Choice("cpu", Lesser(count, 2))}
                  \ {Choice("cpu", first)}
    IN  <<Choice("cpu", first), Choice("gpu", first)>>
          \o SetToSortSeq(more, LAMBDA a, b : a.threads > b.threads)

probes(threads, count) ==
    IF threads > 0 THEN <<Choice("cpu", threads), Choice("gpu", threads)>>
                   ELSE candidates(count)

\* Whether the five runs of a candidate are consistent with one another and
\* with the first CPU result, on the backend they claim, and not hopeless.
accepts(p, c) ==
    /\ p.actual = c.backend
    /\ \A i \in 1..5 : p.text[i] # ""
    /\ p.text[1] = p.text[2] /\ p.text[2] = p.text[3] /\ p.text[4] = p.text[5]
    /\ IF tuner.baseline = None THEN c.backend = "cpu"
       ELSE <<p.text[2], p.text[4]>> = tuner.baseline
    /\ tuner.fastest = 0 \/ 2 * p.clean <= 3 * tuner.fastest

\* median of two clean and two noisy runs, times two
score(p) == p.clean + p.noisy

\* One candidate is measured: it is accepted, rejected, or fails.
probe ==
    /\ run.at = "measuring" /\ tuner.left # <<>>
    /\ LET c == Head(tuner.left)
       IN  \/ \E text \in [1..5 -> Texts], clean, noisy \in Speeds, actual \in {"cpu", "gpu"} :
                LET p == [text |-> text, clean |-> clean, noisy |-> noisy, actual |-> actual]
                IN  tuner' = IF accepts(p, c)
                      THEN [left |-> Tail(tuner.left),
                            baseline |-> IF tuner.baseline = None THEN <<text[2], text[4]>>
                                                                  ELSE tuner.baseline,
                            fastest |-> IF tuner.fastest = 0 THEN clean
                                        ELSE Lesser(tuner.fastest, clean),
                            scores |-> tuner.scores \cup
                              {[score |-> score(p), choice |-> c, text |-> <<text[2], text[4]>>,
                                quick |-> clean <= PreviewSpeed /\ noisy <= PreviewSpeed]}]
                      ELSE [tuner EXCEPT !.left = Tail(@)]
           \/ tuner' = [tuner EXCEPT !.left = Tail(@)]
    /\ UNCHANGED <<world, settings, cache, failed, run, chosen, measured, unsaved, selects,
                   changes>>

\* The time is up: the candidates that are left are not measured.
budget_spent ==
    /\ run.at = "measuring" /\ tuner.left # <<>>
    /\ tuner' = [tuner EXCEPT !.left = <<>>]
    /\ UNCHANGED <<world, settings, cache, failed, run, chosen, measured, unsaved, selects,
                   changes>>

\* The order of the scores: faster first, CPU before GPU, fewer threads first.
before(a, b) ==
    \/ a.score < b.score
    \/ a.score = b.score /\ a.choice.backend = "cpu" /\ b.choice.backend = "gpu"
    \/ a.score = b.score /\ a.choice.backend = b.choice.backend
         /\ a.choice.threads < b.choice.threads

First(s) == CHOOSE a \in s : \A b \in s : a = b \/ before(a, b)

\* A GPU has to be a tenth faster than the best CPU result.
best_of(s) ==
    LET best == First(s)
        cpus == {a \in s : a.choice.backend = "cpu"}
    IN  IF cpus # {} /\ best.choice.backend = "gpu"
           /\ 10 * best.score > 9 * First(cpus).score
        THEN First(cpus) ELSE best

-----------------------------------------------------------------------------
(* AutomaticSelector and SelectionCache *)

\* The environment, the generation and the threads that were measured with.
fingerprint ==
    [version |-> world.version, generation |-> settings.generation,
     threads |-> Lesser(settings.threads, world.cores)]

return(c, status, preview) ==
    /\ chosen' = [choice |-> c, status |-> status, preview |-> preview,
                  at |-> fingerprint, cores |-> world.cores]
    /\ run' = [at |-> "none", force |-> FALSE, print |-> None]

threads_of == Lesser(IF settings.threads = 0 THEN 4 ELSE settings.threads, world.cores)
fallback == Choice("cpu", threads_of)

\* preview_capable on what SelectionCache::load left of the measurements:
\* they are current, and made with the backend and threads selected now.
evidence(c) ==
    /\ cache.print = fingerprint
    /\ Lesser(cache.choice.threads, world.cores) = cache.choice.threads
    /\ c = cache.choice /\ cache.quick

\* A manual backend is taken as it is.
select_manual ==
    /\ run.at = "none" /\ selects < MaxSelects /\ selects' = selects + 1
    /\ \E b \in {"cpu", "gpu"} : return(Choice(b, threads_of), "manual", FALSE)
    /\ UNCHANGED <<world, settings, cache, failed, tuner, measured, unsaved, changes>>

cached_choice ==
    [cache.choice EXCEPT !.threads =
       IF settings.threads > 0 THEN threads_of ELSE Lesser(@, world.cores)]

select_auto(force) ==
    /\ run.at = "none" /\ selects < MaxSelects /\ selects' = selects + 1
    /\ IF ~force /\ cache # None
         THEN return(cached_choice, "cached", evidence(cached_choice))
              /\ UNCHANGED tuner
       ELSE IF ~force /\ failed = fingerprint
         THEN return(fallback, "fallback", FALSE) /\ UNCHANGED tuner
       ELSE /\ run' = [at |-> "measuring", force |-> force, print |-> fingerprint]
            /\ tuner' = [left |-> probes(fingerprint.threads, world.cores),
                         baseline |-> None, fastest |-> 0, scores |-> {}]
            /\ UNCHANGED chosen
    /\ UNCHANGED <<world, settings, cache, failed, measured, unsaved, changes>>

\* A cancelled measurement leaves nothing behind.
select_cancelled ==
    /\ run.at = "measuring"
    /\ run' = [at |-> "none", force |-> FALSE, print |-> None]
    /\ UNCHANGED <<world, settings, cache, failed, tuner, chosen, measured, unsaved, selects,
                   changes>>

\* SelectionCache::save; that it fails is ignored.
saved(record) ==
    \/ cache' = record /\ unsaved' = unsaved \ {record.print}
    \/ SaveFails /\ cache' = cache /\ unsaved' = unsaved \cup {record.print}

\* Every candidate is done: the best one, or the CPU if there is none.
select_measured ==
    /\ run.at = "measuring" /\ tuner.left = <<>>
    /\ measured' = measured \cup {run.print}
    /\ IF tuner.scores = {}
         THEN /\ saved([print |-> run.print, choice |-> fallback, quick |-> FALSE])
              /\ failed' = run.print
              /\ return(fallback, "fallback", FALSE)
         ELSE LET b == best_of(tuner.scores)
              IN  /\ saved([print |-> run.print, choice |-> b.choice, quick |-> b.quick])
                  /\ failed' = None
                  /\ return(b.choice, "measured", b.quick)
    /\ UNCHANGED <<world, settings, tuner, selects, changes>>

-----------------------------------------------------------------------------
(* The world: settings, updates, the cores given to the process, restarts *)

change ==
    /\ run.at = "none" /\ changes < MaxChanges /\ changes' = changes + 1
    /\ UNCHANGED <<cache, run, tuner, chosen, measured, unsaved, selects>>

set_threads ==
    /\ change /\ \E n \in Overrides \ {settings.threads} :
                    settings' = [settings EXCEPT !.threads = n]
    /\ UNCHANGED <<world, failed>>

\* Measure again: the generation is raised; select is forced by its caller.
retest ==
    /\ change /\ settings' = [settings EXCEPT !.generation = @ + 1]
    /\ UNCHANGED <<world, failed>>

update ==
    /\ change /\ world' = [world EXCEPT !.version = @ + 1]
    /\ UNCHANGED <<settings, failed>>

set_affinity ==
    /\ change /\ \E n \in Cores \ {world.cores} : world' = [world EXCEPT !.cores = n]
    /\ UNCHANGED <<settings, failed>>

restart ==
    /\ change /\ failed # None /\ failed' = None
    /\ UNCHANGED <<world, settings>>

Init ==
    /\ world \in [cores : Cores, version : {0}]
    /\ settings = [threads |-> 0, generation |-> 0]
    /\ cache = None /\ failed = None
    /\ run = [at |-> "none", force |-> FALSE, print |-> None]
    /\ tuner = [left |-> <<>>, baseline |-> None, fastest |-> 0, scores |-> {}]
    /\ chosen = None /\ measured = {} /\ unsaved = {} /\ selects = 0 /\ changes = 0

Next ==
    \/ select_manual \/ \E force \in BOOLEAN : select_auto(force)
    \/ probe \/ budget_spent \/ select_cancelled \/ select_measured
    \/ set_threads \/ retest \/ update \/ set_affinity \/ restart

Spec == Init /\ [][Next]_vars

-----------------------------------------------------------------------------
(* Properties *)

\* The state is well typed; no choice has more threads than the process has
\* cores at the time it is made.
TypeOK ==
    chosen # None => /\ chosen.choice.backend \in {"cpu", "gpu"}
                     /\ chosen.choice.threads \in 1..chosen.cores

\* BackendTuner::run: a GPU is only chosen by a measurement in which a CPU
\* recognized the same texts and was at least a tenth slower, whatever
\* candidates failed, were cut off or came first.
GpuEarnsIt ==
    run.at = "measuring" /\ tuner.scores # {} =>
      LET b == best_of(tuner.scores)
      IN  b.choice.backend = "gpu" =>
            \E a \in tuner.scores : /\ a.choice.backend = "cpu"
                                    /\ 9 * a.score >= 10 * b.score
                                    /\ a.text = b.text

\* select, SelectionCache::load: automatic previews rest on a measurement of
\* the backend and threads in use, made with the present model, drivers and
\* thread setting.
PreviewsAreMeasured ==
    chosen # None => (chosen.preview => chosen.at \in measured)

\* select: once a measurement has come to its end, successful or not, only
\* an explicit request starts another one, also after a restart and although
\* settings, model or cores changed; unless no result could be saved (the
\* errors of both calls of save are ignored), and then the process does not
\* repeat a measurement that has just failed.
MeasuredOnce ==
    run.at = "measuring" /\ ~run.force => measured \subseteq unsaved /\ failed # run.print

\* select: a cancelled measurement is not taken for a failed one.
CachedWasMeasured == cache # None => cache.print \in measured
=============================================================================
