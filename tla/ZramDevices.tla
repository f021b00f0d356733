---------------------------- MODULE ZramDevices ----------------------------
(***************************************************************************)
(* The zram page of anduinos-swapcontrol-gtk, the file it writes for the   *)
(* vendor service, and setup-zram.sh, which that service runs at every     *)
(* start of the system and when the page restarts it.  A device is its     *)
(* size and its swap priority.                                             *)
(***************************************************************************)
EXTENDS Integers, Sequences, FiniteSets, SequencesExt, BagsExt

CONSTANTS Sizes, Default,     \* Default: half of the memory
          MaxDevices, MaxOps, MaxFaults, MaxLosses, Absent

ZramAssumption ==
    /\ Sizes \subseteq Nat \ {0} /\ Default \in Sizes
    /\ {MaxDevices, MaxOps, MaxFaults, MaxLosses} \subseteq Nat

VARIABLES conf,    \* /etc/default/anduinos-zram; <<>> is ZRAM_ENABLED=no
          live,    \* the devices by number
          unit,    \* whether the vendor service is enabled
          script,  \* setup-zram.sh
          job,     \* the task of create_device or destroy_device
          view,    \* ZramView: busy, and the rows it shows
          wanted,  \* the devices the user has asked for
          stuck,   \* whether a device could not be taken out of use
          ops, faults, losses

vars == <<conf, live, unit, script, job, view, wanted, stuck, ops, faults, losses>>

Spec0(size, prio) == [size |-> size, prio |-> prio]
High == 100
SpecsOf(names) == FoldSet(LAMBDA n, b : b (+) SetToBag({live[n]}), EmptyBag, names)
BagOf(s) == FoldLeft(LAMBDA b, d : b (+) SetToBag({d}), EmptyBag, s)
Idle == [at |-> "none", add |-> <<>>, drop |-> -1, configs |-> <<>>, ok |-> TRUE]
Rest == [at |-> "none", left |-> {}, todo |-> <<>>, ok |-> TRUE]

may_fail == faults < MaxFaults /\ faults' = faults + 1
works == faults' = faults

-----------------------------------------------------------------------------
(* setup-zram.sh *)

script_only == UNCHANGED <<conf, unit, view, wanted, ops, losses>>

started == [at |-> "teardown", left |-> DOMAIN live, todo |-> <<>>, ok |-> TRUE]

\* One device is taken out of use and removed; errors are ignored.
teardown ==
    /\ script.at = "teardown" /\ script.left # {} /\ script_only /\ UNCHANGED job
    /\ \E n \in script.left :
         /\ script' = [script EXCEPT !.left = @ \ {n}]
         /\ \/ live' = [k \in DOMAIN live \ {n} |-> live[k]] /\ works /\ UNCHANGED stuck
            \/ may_fail /\ stuck' = TRUE /\ UNCHANGED live

read_config ==
    /\ script.at = "teardown" /\ script.left = {} /\ works /\ script_only
    /\ script' = [script EXCEPT !.at = "setup",
                    !.todo = IF conf = Absent THEN <<Spec0(Default, High)>> ELSE conf]
    /\ UNCHANGED <<live, stuck, job>>

Unused == CHOOSE n \in 0..Cardinality(DOMAIN live) :
            n \notin DOMAIN live /\ \A k \in 0..(n - 1) : k \in DOMAIN live

\* The next device: zramctl, mkswap and swapon.  The script ends at an error.
setup ==
    /\ script.at = "setup" /\ script.todo # <<>> /\ script_only /\ UNCHANGED <<stuck, job>>
    /\ LET d == Head(script.todo)
           with(p) == [k \in DOMAIN live \cup {Unused} |->
                         IF k = Unused THEN Spec0(d.size, p) ELSE live[k]]
       IN  \/ live' = with(d.prio) /\ works /\ script' = [script EXCEPT !.todo = Tail(@)]
           \/ /\ may_fail /\ script' = [script EXCEPT !.todo = <<>>, !.ok = FALSE]
              /\ live' = live \/ live' = with(0)

done ==
    /\ script.at = "setup" /\ script.todo = <<>> /\ works /\ script_only
    /\ script' = [Rest EXCEPT !.ok = script.ok]
    /\ job' = IF job.at = "restart" THEN [job EXCEPT !.at = "done", !.ok = script.ok] ELSE job
    /\ UNCHANGED <<live, stuck>>

-----------------------------------------------------------------------------
(* ZramView and persist_zram *)

input == job.at = "none" /\ script.at = "none" /\ ~view.busy /\ ops < MaxOps /\ ops' = ops + 1

create_device ==
    /\ input /\ Cardinality(DOMAIN live) < MaxDevices
    /\ view' = [view EXCEPT !.busy = TRUE]
    /\ \E size \in Sizes :
         /\ job' = [Idle EXCEPT !.at = "read", !.add = <<Spec0(size, High)>>]
         /\ wanted' = wanted (+) SetToBag({Spec0(size, High)})
    /\ UNCHANGED <<conf, live, unit, script, stuck, faults, losses>>

\* A row is removed, and the question answered.
destroy_device ==
    /\ input /\ view' = [view EXCEPT !.busy = TRUE]
    /\ \E n \in view.rows \cap DOMAIN live :
         /\ job' = [Idle EXCEPT !.at = "read", !.drop = n]
         /\ wanted' = wanted (-) SetToBag({live[n]})
    /\ UNCHANGED <<conf, live, unit, script, stuck, faults, losses>>

task(at) ==
    /\ job.at = at /\ UNCHANGED <<view, wanted, stuck, ops, losses>>

\* The devices there are, in the order of the directory, with the change.
configs(order) ==
    LET kept == SelectSeq(order, LAMBDA n : n # job.drop)
    IN  [i \in DOMAIN kept |-> live[kept[i]]] \o job.add

read_zram_devices ==
    /\ task("read") /\ works
    /\ \E order \in SetToAllKPermutations(DOMAIN live) :
         /\ Len(order) = Cardinality(DOMAIN live)
         /\ job' = [job EXCEPT !.at = "write", !.configs = configs(order)]
    /\ UNCHANGED <<conf, live, unit, script>>

failed == job' = [job EXCEPT !.at = "done", !.ok = FALSE]

write_zram_config ==
    /\ task("write") /\ UNCHANGED <<live, unit, script>>
    /\ \/ conf' = job.configs /\ works /\ job' = [job EXCEPT !.at = "enable"]
       \/ may_fail /\ failed /\ UNCHANGED conf

\* The vendor service is there, reloaded, unmasked and enabled.
enable_unit ==
    /\ task("enable") /\ UNCHANGED <<conf, live, script>>
    /\ \/ unit' = TRUE /\ works /\ job' = [job EXCEPT !.at = "start"]
       \/ may_fail /\ failed /\ UNCHANGED unit

restart_unit ==
    /\ task("start") /\ UNCHANGED <<conf, live, unit>>
    /\ \/ script' = started /\ works /\ job' = [job EXCEPT !.at = "restart"]
       \/ may_fail /\ failed /\ UNCHANGED script

\* The page is read again, after an error, too.
finish ==
    /\ job.at = "done" /\ job' = [Idle EXCEPT !.ok = job.ok]
    /\ view' = [busy |-> FALSE, rows |-> DOMAIN live]
    /\ UNCHANGED <<conf, live, unit, script, wanted, stuck, ops, faults, losses>>

power_loss ==
    /\ losses < MaxLosses /\ losses' = losses + 1
    /\ live' = <<>> /\ job' = Idle /\ view' = [busy |-> FALSE, rows |-> {}] /\ stuck' = FALSE
    /\ script' = IF unit THEN [at |-> "teardown", left |-> {}, todo |-> <<>>, ok |-> TRUE]
                 ELSE Rest
    /\ UNCHANGED <<conf, unit, wanted, ops, faults>>

\* The page is shown.
refresh_views ==
    /\ ~view.busy /\ script.at = "none" /\ view.rows # DOMAIN live
    /\ view' = [view EXCEPT !.rows = DOMAIN live]
    /\ UNCHANGED <<conf, live, unit, script, job, wanted, stuck, ops, faults, losses>>

Init ==
    /\ conf = Absent /\ unit \in BOOLEAN
    /\ live = IF unit THEN 0 :> Spec0(Default, High) ELSE <<>>
    /\ wanted = SpecsOf(DOMAIN live)
    /\ script = Rest /\ job = Idle /\ view = [busy |-> FALSE, rows |-> {}]
    /\ stuck = FALSE /\ ops = 0 /\ faults = 0 /\ losses = 0

ScriptStep == teardown \/ read_config \/ setup \/ done

TaskStep ==
    read_zram_devices \/ write_zram_config \/ enable_unit \/ restart_unit \/ finish

Next ==
    \/ ScriptStep \/ TaskStep \/ create_device \/ destroy_device \/ refresh_views
    \/ power_loss

Spec == Init /\ [][Next]_vars

\* The script and the task come to their ends.
LiveSpec == Spec /\ WF_vars(ScriptStep) /\ WF_vars(TaskStep)

-----------------------------------------------------------------------------
(* Properties *)

Quiet == script.at = "none" /\ job.at \in {"none", "done"}

\* The state is well typed; the numbers of the devices have no gaps unless
\* one could not be removed.
TypeOK ==
    /\ conf = Absent \/ Range(conf) \subseteq [size : Sizes, prio : {0, High}]
    /\ \A n \in DOMAIN live : live[n] \in [size : Sizes, prio : {0, High}]
    /\ Quiet /\ ~stuck => DOMAIN live = 0..(Cardinality(DOMAIN live) - 1)

\* setup-zram.sh: when the service has been restarted without an error, the
\* devices are those of the file, no more and no less.
AppliedConfig ==
    Quiet /\ script.ok /\ job.ok /\ conf # Absent /\ (losses = 0 \/ unit) =>
      SpecsOf(DOMAIN live) = BagOf(conf)

\* The same where every old device could be removed.
AppliedUnlessStuck == ~stuck => AppliedConfig

\* create_device, destroy_device: as long as nothing fails, the system has
\* the devices the user has asked for, over any sequence of requests and
\* restarts.
WantedDevices ==
    Quiet /\ faults = 0 /\ losses = 0 => SpecsOf(DOMAIN live) = wanted

\* run_with_progress: the page is not left busy.
Begun == <<view.busy>>
Over == <<~view.busy>>
Progress == Begun[1] ~> Over[1]
=============================================================================
