------------------------------ MODULE Retention ------------------------------
(***************************************************************************)
(* The retention policy (retention_v2.rs), a pure function of the          *)
(* snapshots of one volume and the time, and its use by automatic cleanup: *)
(* evaluate once, then delete one snapshot after the other while users     *)
(* create, protect and delete snapshots themselves.                        *)
(*                                                                         *)
(* Time is counted in ticks.  The calendar is given by the lengths of its  *)
(* buckets; weeks need not fit into months.                                *)
(***************************************************************************)
EXTENDS Integers, Sequences, FiniteSets, SequencesExt

CONSTANTS
    MaxTime,      \* bound: ticks that pass
    MaxKept,      \* bound: snapshots present at a time
    DayLen, WeekLen, WeekShift, MonthLen, YearLen,   \* the calendar, in ticks
    Offsets,      \* the UTC offsets of the time zones in use, in ticks
    Policy,       \* the retention policy in ticks
    Floor,        \* whether deletion itself keeps one snapshot (System) or not (Home)
    UserActs,     \* what users do meanwhile: "create", "delete", "pin", "break", "travel"
    None

RetentionAssumption ==
    /\ {MaxTime, MaxKept, WeekShift} \cup Offsets \subseteq Nat /\ Offsets # {}
    /\ {DayLen, WeekLen, MonthLen, YearLen} \subseteq Nat \ {0}
    /\ Floor \in BOOLEAN /\ UserActs \subseteq {"create", "delete", "pin", "break", "travel"}

Times == 0..MaxTime
Policies == [enabled : BOOLEAN, all : Nat, daily : Nat, weekly : Nat, monthly : Nat, yearly : BOOLEAN]
PolicyAssumption == Policy \in Policies

(* RetentionPolicy::validate                                               *)
ValidPolicy(p) ==
    /\ 0 \notin {p.all, p.daily, p.weekly, p.monthly}
    /\ p.all <= p.daily /\ p.daily <= p.weekly /\ p.weekly <= p.monthly

Candidates == [at : Times, ready : BOOLEAN, pinned : BOOLEAN]

VARIABLES
    now,
    snaps,      \* the snapshots of the volume
    offset,     \* the UTC offset of the machine's time zone
    queue       \* what the running cleanup still has to delete, or None

vars == <<now, snaps, offset, queue>>

(* Candidates take the offset of the zone the machine is in now.           *)
Local(s) == s.at + offset
DayKey(s) == Local(s) \div DayLen
WeekKey(s) == (Local(s) + WeekShift) \div WeekLen
MonthKey(s) == Local(s) \div MonthLen
YearKey(s) == Local(s) \div YearLen

NewestFirst(S) == SetToSortSeq(S, LAMBDA s, t : s.at > t.at)

(* The tier of a snapshot by its age, and the bucket it fills there.       *)
Tier(p, s, tm) ==
    CASE ~s.ready -> "skip"
      [] s.ready /\ (s.pinned \/ ~p.enabled \/ s.at > tm) -> "keep"
      [] OTHER ->
           LET age == tm - s.at
           IN  CASE age < p.all -> "keep"
                 [] age >= p.all /\ age < p.daily -> "daily"
                 [] age >= p.daily /\ age < p.weekly -> "weekly"
                 [] age >= p.weekly /\ age < p.monthly -> "monthly"
                 [] OTHER -> IF p.yearly THEN "yearly" ELSE "delete"

Bucket(tier, s) ==
    CASE tier = "daily" -> DayKey(s)
      [] tier = "weekly" -> WeekKey(s)
      [] tier = "monthly" -> MonthKey(s)
      [] OTHER -> YearKey(s)
Bucketed == {"daily", "weekly", "monthly", "yearly"}

(* Mutant: the buckets of all tiers are shared.                            *)
DecideShared(p, tm, acc, s) ==
    LET tier == Tier(p, s, tm)
        slot == <<"any", Bucket(tier, s)>>
    IN  CASE tier \in {"skip", "keep", "delete"} ->
               [acc EXCEPT !.actions = Append(@, tier)]
          [] tier \in Bucketed /\ slot \notin acc.seen ->
               [seen |-> acc.seen \cup {slot}, actions |-> Append(acc.actions, "keep")]
          [] OTHER -> [acc EXCEPT !.actions = Append(@, "delete")]

(* One turn of the loop: a bucket is claimed by the first that comes.      *)
Decide(p, tm, acc, s) ==
    LET tier == Tier(p, s, tm)
        slot == <<tier, Bucket(tier, s)>>
    IN  CASE tier \in {"skip", "keep", "delete"} ->
               [acc EXCEPT !.actions = Append(@, tier)]
          [] tier \in Bucketed /\ slot \notin acc.seen ->
               [seen |-> acc.seen \cup {slot}, actions |-> Append(acc.actions, "keep")]
          [] OTHER -> [acc EXCEPT !.actions = Append(@, "delete")]

(* Cleanup never removes the last usable snapshot; skipped ones are not    *)
(* usable.                                                                 *)
SpareLastUsable(actions) ==
    LET doomed == {i \in 1..Len(actions) : actions[i] = "delete"}
    IN  IF doomed = {} \/ \E i \in 1..Len(actions) : actions[i] = "keep" THEN actions
        ELSE [actions EXCEPT ![CHOOSE i \in doomed : \A j \in doomed : i <= j] = "keep"]

(* evaluate_retention: the snapshots to delete, newest first.              *)
EvaluateRetention(S, p, tm) ==
    LET order == NewestFirst(S)
        run == FoldLeft(LAMBDA acc, s : Decide(p, tm, acc, s),
                        [seen |-> {}, actions |-> <<>>], order)
        actions == SpareLastUsable(run.actions)
        doomed == {i \in 1..Len(order) : actions[i] = "delete"}
    IN  [i \in 1..Cardinality(doomed) |->
            order[CHOOSE k \in doomed : Cardinality({j \in doomed : j <= k}) = i]]
Doomed(S, p, tm) == ToSet(EvaluateRetention(S, p, tm))
----------------------------------------------------------------------------
TypeOK ==
    /\ now \in Times /\ snaps \subseteq Candidates /\ offset \in Offsets
    /\ queue \in Seq(Candidates) \cup {None}
    /\ \A s, t \in snaps : s.at = t.at => s = t

Init == now = 0 /\ snaps = {} /\ queue = None /\ offset \in Offsets /\ ValidPolicy(Policy)

Usable(s) == s.ready

Create(r) ==
    /\ "create" \in UserActs /\ Cardinality(snaps) < MaxKept
    /\ r \/ "break" \in UserActs
    /\ ~ \E s \in snaps : s.at = now
    /\ snaps' = snaps \cup {[at |-> now, ready |-> r, pinned |-> FALSE]}
    /\ UNCHANGED <<now, queue, offset>>

Delete(s) ==
    /\ "delete" \in UserActs /\ s \in snaps /\ ~s.pinned
    /\ snaps' = snaps \ {s}
    /\ UNCHANGED <<now, queue, offset>>

SetPinned(s, p) ==
    /\ "pin" \in UserActs /\ s \in snaps /\ s.ready /\ s.pinned # p
    /\ snaps' = (snaps \ {s}) \cup {[s EXCEPT !.pinned = p]}
    /\ UNCHANGED <<now, queue, offset>>

(* Time passes; the scheduler's cleanup does not run over midnight.        *)
Tick ==
    /\ now < MaxTime /\ queue = None
    /\ now' = now + 1
    /\ UNCHANGED <<snaps, queue, offset>>

(* The user moves the machine to another time zone.                        *)
Travel(o) ==
    /\ "travel" \in UserActs /\ o # offset /\ queue = None
    /\ offset' = o
    /\ UNCHANGED <<now, snaps, queue>>

(* apply_schedule_retention_impl: evaluate once ...                        *)
CleanupStart ==
    /\ queue = None
    /\ queue' = EvaluateRetention(snaps, Policy, now)
    /\ queue' # <<>>
    /\ UNCHANGED <<now, snaps, offset>>

(* Mutant: the floor is checked when the decisions are made, not here.     *)
FloorTrusted(s) == \E t \in snaps : t.at = s.at /\ ~t.pinned

(* ... then delete_automatic, which keeps one restorable snapshot, or the  *)
(* deletion of Home, which checks the protection only.                     *)
FloorAllows(s) ==
    /\ \E t \in snaps : t.at = s.at /\ ~t.pinned
    /\ Floor => \E t \in snaps : t.at # s.at /\ Usable(t)

CleanupDelete ==
    /\ queue \notin {None, <<>>}
    /\ snaps' = IF FloorAllows(Head(queue))
                THEN {s \in snaps : s.at # Head(queue).at} ELSE snaps
    /\ queue' = Tail(queue)
    /\ UNCHANGED <<now, offset>>

CleanupEnd == queue = <<>> /\ queue' = None /\ UNCHANGED <<now, snaps, offset>>

Next ==
    \/ \E r \in BOOLEAN : Create(r)
    \/ \E s \in snaps : Delete(s) \/ \E p \in BOOLEAN : SetPinned(s, p)
    \/ \E o \in Offsets : Travel(o)
    \/ Tick \/ CleanupStart \/ CleanupDelete \/ CleanupEnd

Spec == Init /\ [][Next]_vars
----------------------------------------------------------------------------
(* What the policy promises, without loop or order: a snapshot goes only   *)
(* if it is past the recent window and either nothing is kept of its age,  *)
(* or a newer one of the same tier stands for the same bucket; and never   *)
(* the newest of those when nothing else would be kept.                    *)
Superseded(S, p, t, s) ==
    LET tier == Tier(p, s, t)
    IN  \/ tier = "delete"
        \/ tier \in Bucketed /\ \E n \in S : n.at > s.at /\ Tier(p, n, t) = tier
                                             /\ Bucket(tier, n) = Bucket(tier, s)
Reference(S, p, t) ==
    LET gone == {s \in S : Superseded(S, p, t, s)}
        kept == {s \in S : s.ready} \ gone
        spared == IF kept = {} THEN {s \in gone : \A n \in gone : n.at <= s.at} ELSE {}
    IN  gone \ spared

(* The loop of evaluate_retention computes exactly that, for every set of  *)
(* snapshots that time and users produce.                                  *)
EvaluationIsReference == Doomed(snaps, Policy, now) = Reference(snaps, Policy, now)

(* A second run at the same time finds nothing more to delete, so repeated *)
(* timer runs do not thin the history out further.                         *)
CleanupIsIdempotent ==
    Doomed(snaps \ Doomed(snaps, Policy, now), Policy, now) = {}

(* What is deleted follows from the snapshots and the time alone: moving   *)
(* to another time zone does not change what stands for a day.             *)
BucketsStable ==
    now' = now /\ snaps' = snaps
     => Doomed(snaps, Policy, now)' = Doomed(snaps, Policy, now)

(* A cleanup step never takes the last usable snapshot, whatever users     *)
(* deleted since it was decided.                                           *)
CleanupKeepsOne ==
    queue \notin {None, <<>>} /\ (\E s \in snaps : Usable(s)) /\ queue' = Tail(queue)
     => \E s \in snaps' : Usable(s)

(* Nor one that was protected after the decision.                          *)
CleanupSparesPinned ==
    \A s \in snaps : s.pinned /\ s \notin snaps' => queue' = queue
=============================================================================
