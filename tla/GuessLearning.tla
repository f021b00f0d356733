---------------------------- MODULE GuessLearning ---------------------------
(***************************************************************************)
(* The learning that outlives a terminal: several prediction engines       *)
(* append what they learn to two private logs, compacting them when they   *)
(* grow, while the settings tool may clear both.  Each log has a lock      *)
(* file; a generation marker, captured when an engine starts, fences off   *)
(* the engines that are older than the last clearing.  A recording runs on *)
(* a worker thread that dies with its engine, so it can be cut short at    *)
(* any step.  A log line is abstracted to its entry, its count, its time   *)
(* and the generation of the engine that wrote it.                         *)
(***************************************************************************)
EXTENDS Integers, Sequences, FiniteSets, SequencesExt

CONSTANTS Engines, Entries,
          MaxLines,      \* MAX_FILE_BYTES, counted in lines
          MaxEntries,    \* the 2,000 entries a compacted log keeps
          MaxTail,       \* the 8,000 lines a reader looks at
          MaxUses, MaxClears, MaxKills,   \* bounds of the exploration
          None

LearningAssumption ==
    /\ MaxTail \in Nat \ {0} /\ MaxLines \in Nat \ {0} /\ MaxEntries \in Nat \ {0}
    /\ MaxUses \in Nat /\ MaxClears \in Nat /\ MaxKills \in Nat

Logs == {"history", "transitions"}

VARIABLES log,        \* the lines of each log, oldest first
          lock,       \* who holds each log's flock
          generation, \* the marker
          engine,     \* "off", "starting" or "on"
          captured,   \* the generation each engine started with
          recorder,   \* the recording each engine's worker is running
          clearing,   \* the settings tool
          clock,      \* uses are stamped with increasing times
          accepted,   \* uses appended since the last clearing: lines written
          lost,       \* of those, the ones a torn or a compacted line lost
          kills

vars == <<log, lock, generation, engine, captured, recorder, clearing, clock,
          accepted, lost, kills>>

Line == [entry : Entries, count : Nat, at : Nat, by : Nat]

\* A killed writer leaves a line without an end; what is appended next
\* becomes part of it, and the reader cannot decode either.
Torn == [entry |-> None, count |-> 0, at |-> 0, by |-> 0]

-----------------------------------------------------------------------------
(* Reading a log *)

Decodable(lines) == SelectSeq(lines, LAMBDA l : l.entry # None)

CountOf(lines, e) ==
    FoldLeft(LAMBDA n, l : IF l.entry = e THEN n + l.count ELSE n, 0, lines)
LastUse(lines, e) ==
    FoldLeft(LAMBDA t, l : IF l.entry = e /\ l.at > t THEN l.at ELSE t, 0, lines)

\* read_tail_text and the line limit: a reader only sees the last MaxLines
\* lines' worth of bytes, and of those the last MaxTail lines.
tail(lines) ==
    LET seen == Min({Len(lines), MaxLines, MaxTail}) IN
    SubSeq(lines, Len(lines) - seen + 1, Len(lines))

Present(lines) == {l.entry : l \in Range(Decodable(lines))}

\* Equal entries are merged: counts added, the later time kept.
merged(lines) ==
    {[entry |-> e, count |-> CountOf(lines, e), at |-> LastUse(lines, e),
      by |-> CHOOSE g \in {l.by : l \in Range(Decodable(lines))} : TRUE]
     : e \in Present(lines)}

KeepFirst(seq) == SubSeq(seq, 1, Min({Len(seq), MaxEntries}))

\* load: what the tail holds, merged, the most recent entries first.
load(lines) ==
    KeepFirst(SetToSortSeq(merged(tail(lines)), LAMBDA a, b : a.at > b.at))

load_transitions(lines) == load(lines)

Total(lines) == FoldLeft(LAMBDA n, l : n + l.count, 0, lines)

\* The uses that reading a log back leaves out: the lines before the tail
\* and the entries beyond the limit.
LeftOut(lines) ==
    Total(SubSeq(lines, 1, Len(lines) - Len(tail(lines))))
    + LET kept == {load(lines)[i].entry : i \in DOMAIN load(lines)} IN
      Total(SelectSeq(tail(lines), LAMBDA l : l.entry \notin kept))

-----------------------------------------------------------------------------
(* An engine's life *)

\* Runtime::new captures the generation first and loads the logs afterwards.
start(n) ==
    /\ engine[n] = "off"
    /\ captured' = [captured EXCEPT ![n] = generation]
    /\ engine' = [engine EXCEPT ![n] = "on"]
    /\ UNCHANGED <<log, lock, generation, recorder, clearing, clock, accepted,
                   lost, kills>>

\* Observe hands a learned use to a worker.
learn(n, l, e) ==
    /\ engine[n] = "on" /\ recorder[n] = None /\ clock < MaxUses
    /\ clock' = clock + 1
    /\ recorder' = [recorder EXCEPT ![n] =
                      [log |-> l, entry |-> e, at |-> clock', step |-> "lock",
                       compact |-> <<>>]]
    /\ UNCHANGED <<log, lock, generation, engine, captured, clearing, accepted,
                   lost, kills>>

Step(n, s) == recorder' = [recorder EXCEPT ![n].step = s]
Recording(n, s) == recorder[n] # None /\ recorder[n].step = s

\* acquire_lock: flock waits for the other writers and for a clearing.
acquire_lock(n) ==
    /\ Recording(n, "lock")
    /\ lock[recorder[n].log] = None
    /\ lock' = [lock EXCEPT ![recorder[n].log] = n]
    /\ Step(n, "check")
    /\ UNCHANGED <<log, generation, engine, captured, clearing, clock,
                   accepted, lost, kills>>

release(n) ==
    /\ recorder' = [recorder EXCEPT ![n] = None]
    /\ lock' = [lock EXCEPT ![recorder[n].log] = None]

\* The marker is compared while the lock is held.
check_generation(n) ==
    /\ Recording(n, "check")
    /\ IF generation # captured[n]
         THEN release(n)
         ELSE Step(n, "append") /\ UNCHANGED lock
    /\ UNCHANGED <<log, generation, engine, captured, clearing, clock,
                   accepted, lost, kills>>

TornEnd(lines) == lines # <<>> /\ lines[Len(lines)] = Torn

\* One line is appended; after a torn line it is lost with it.  A log past
\* its limit is read back and compacted under the same lock.
append(n, l) ==
    /\ Recording(n, "append") /\ recorder[n].log = l
    /\ LET new == [entry |-> recorder[n].entry, count |-> 1,
                   at |-> recorder[n].at, by |-> captured[n]]
           lines == IF TornEnd(log[l])
                      THEN Append(Front(log[l]), [Torn EXCEPT !.at = 1])
                      ELSE Append(log[l], new) IN
         /\ log' = [log EXCEPT ![l] = lines]
         /\ accepted' = [accepted EXCEPT ![l] = @ + 1]
         /\ lost' = [lost EXCEPT ![l] = @ + IF TornEnd(log[l]) THEN 1 ELSE 0]
         /\ IF Len(lines) <= MaxLines
              THEN release(n)
              ELSE /\ recorder' = [recorder EXCEPT ![n].step = "rename",
                                                  ![n].compact = load(lines)]
                   /\ UNCHANGED lock
    /\ UNCHANGED <<generation, engine, captured, clearing, clock, kills>>

record_guarded(n) == append(n, "history")
record_transition_guarded(n) == append(n, "transitions")

\* compact: the temporary is complete and synced before it takes the name.
compact(n) ==
    /\ Recording(n, "rename")
    /\ LET l == recorder[n].log IN
         /\ log' = [log EXCEPT ![l] = recorder[n].compact]
         /\ lost' = [lost EXCEPT ![l] = @ + LeftOut(log[l])]
    /\ release(n)
    /\ UNCHANGED <<generation, engine, captured, clearing, clock, accepted, kills>>

\* The engine's process ends, at its shell's exit or after the 150 ms it
\* waits, whatever its worker is doing; its locks fall with it.
exit(n) ==
    /\ engine[n] = "on" /\ kills < MaxKills
    /\ kills' = kills + 1
    /\ engine' = [engine EXCEPT ![n] = "off"]
    /\ recorder' = [recorder EXCEPT ![n] = None]
    /\ lock' = [l \in Logs |-> IF lock[l] = n THEN None ELSE lock[l]]
    /\ \E torn \in BOOLEAN :
         /\ torn => Recording(n, "append") /\ ~TornEnd(log[recorder[n].log])
         /\ log' = IF torn THEN [log EXCEPT ![recorder[n].log] = Append(@, Torn)]
                   ELSE log
    /\ UNCHANGED <<generation, captured, clearing, clock, accepted, lost>>

-----------------------------------------------------------------------------
(* The settings tool: clear_learning of lib/bash_prediction_settings.py *)

\* The locks are taken in the writers' order.
clear_lock(l) ==
    /\ clearing = IF l = "history" THEN "idle" ELSE "history"
    /\ l = "history" => generation < MaxClears
    /\ lock[l] = None
    /\ lock' = [lock EXCEPT ![l] = "clear"]
    /\ clearing' = l
    /\ UNCHANGED <<log, generation, engine, captured, recorder, clock,
                   accepted, lost, kills>>

\* The new marker is in place before the logs are removed.
clear_mark ==
    /\ clearing = "transitions"
    /\ generation' = generation + 1
    /\ clearing' = "marked"
    /\ UNCHANGED <<log, lock, engine, captured, recorder, clock, accepted,
                   lost, kills>>

clear_unlink ==
    /\ clearing = "marked"
    /\ log' = [l \in Logs |-> <<>>]
    /\ accepted' = [l \in Logs |-> 0] /\ lost' = [l \in Logs |-> 0]
    /\ lock' = [l \in Logs |-> None]
    /\ clearing' = "idle"
    /\ UNCHANGED <<generation, engine, captured, recorder, clock, kills>>

-----------------------------------------------------------------------------

Init ==
    /\ log = [l \in Logs |-> <<>>] /\ lock = [l \in Logs |-> None]
    /\ generation = 0
    /\ engine = [n \in Engines |-> "off"]
    /\ captured = [n \in Engines |-> 0]
    /\ recorder = [n \in Engines |-> None]
    /\ clearing = "idle" /\ clock = 0
    /\ accepted = [l \in Logs |-> 0] /\ lost = [l \in Logs |-> 0]
    /\ kills = 0

Record(n) == \/ acquire_lock(n) \/ check_generation(n) \/ compact(n)
             \/ record_guarded(n) \/ record_transition_guarded(n)
Clear == \/ \E l \in Logs : clear_lock(l)
         \/ clear_mark \/ clear_unlink

Next ==
    \/ \E n \in Engines :
         \/ start(n) \/ exit(n) \/ Record(n)
         \/ \E l \in Logs, e \in Entries : learn(n, l, e)
    \/ Clear

Spec == Init /\ [][Next]_vars

\* Worker threads and the settings tool keep running; flock is not fair to
\* any one waiter, so a recording needs strong fairness to get the lock.
LiveSpec ==
    /\ Spec
    /\ \A n \in Engines : SF_vars(acquire_lock(n)) /\ WF_vars(Record(n))
    /\ SF_vars(clear_lock("transitions"))
    /\ WF_vars(clear_mark \/ clear_unlink)

-----------------------------------------------------------------------------

TypeOK ==
    /\ \A l \in Logs : \A i \in DOMAIN log[l] :
         log[l][i] \in Line \/ log[l][i].entry = None
    /\ \A l \in Logs : lock[l] \in Engines \cup {"clear", None}
    /\ \A l \in Logs : Len(log[l]) <= MaxLines + 1 + kills
    /\ clearing \in {"idle", "history", "transitions", "marked"}

\* "A generation marker prevents older engines from writing back cleared
\* data": outside a clearing, every line of a log was written by an engine
\* that started after the last one, however long its worker had been
\* waiting for the lock.
ClearedStaysCleared ==
    clearing # "marked" =>
        \A l \in Logs : \A i \in DOMAIN log[l] :
            log[l][i].entry # None => log[l][i].by = generation

\* Concurrent writers, compactions and engines that die in the middle lose
\* no use but the ones a torn line or a full log takes, and none is counted
\* twice: the counts a reader finds are the uses accepted.
UsesAreCounted ==
    \A l \in Logs : Total(log[l]) + lost[l] = accepted[l]

\* A full log forgets the least recent entries: the most recently used
\* entry of an undamaged log is always still there.
NewestIsKept ==
    \A l \in Logs : \A n \in Engines :
        Recording(n, "rename") /\ recorder[n].log = l =>
            LET before == Decodable(tail(log[l]))
                kept == recorder[n].compact IN
            \A i \in DOMAIN before :
                \/ \E j \in DOMAIN kept : kept[j].entry = before[i].entry
                \/ Len(kept) = MaxEntries
                   /\ \A j \in DOMAIN kept : kept[j].at > before[i].at

\* "Learned habits are saved locally": the count of an entry never falls
\* but by a clearing, with room for every entry and no engine killed.
HabitsKept ==
    clearing # "marked" =>
       \A l \in Logs, e \in Entries : CountOf(log'[l], e) >= CountOf(log[l], e)

\* A recording that was started ends, and so does a clearing: no writer is
\* left waiting for a lock that its holder took away with it.
EngineOf == SetToSeq(Engines)
Begun == <<clearing # "idle">> \o [k \in DOMAIN EngineOf |-> recorder[EngineOf[k]] # None]
Over == <<clearing = "idle">> \o [k \in DOMAIN EngineOf |-> recorder[EngineOf[k]] = None]
Progress == \A k \in 1..(1 + Cardinality(Engines)) : Begun[k] ~> Over[k]
=============================================================================
