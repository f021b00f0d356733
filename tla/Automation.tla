----------------------------- MODULE Automation -----------------------------
(***************************************************************************)
(* Automatic snapshots: the one-shot scheduler that a timer starts, the    *)
(* helper's handlers for the scheduled System and Home snapshots, the      *)
(* low-space markers they share under /run, and the settings dialog that   *)
(* saves the policy while they run.                                        *)
(*                                                                         *)
(* The markers are three files.  Every look at one of them, and every      *)
(* creation or removal, is a step of its own; the handlers hold no lock.   *)
(***************************************************************************)
EXTENDS Integers, FiniteSets

CONSTANTS
    MaxFlips,     \* bound: changes between enough and too little space
    MaxSaves,     \* bound: times the policy is saved
    MaxFaults,    \* bound: calls that fail
    Toggles       \* scopes that saving may switch on or off

AutomationAssumption ==
    /\ {MaxFlips, MaxSaves, MaxFaults} \subseteq Nat
    /\ Toggles \subseteq {"system", "personal"}

Scopes == {"system", "personal"}
Actors == {"handler", "save"}

VARIABLES
    config,    \* the saved policy: which scopes take automatic snapshots
    due,       \* scopes whose newest snapshot is older than the interval
    low,       \* less space than the floor
    marker,    \* scopes with a low-space marker file
    sent,      \* the notification-sent marker file
    sched,     \* the scheduler: what it does, and the policy it loaded
    act,       \* per actor of the helper: its place and its scope
    told,      \* "paused" notifications in the present low-space episode
    meddled,   \* policy saves that it overlaps, and a warning it inherited
    used       \* counters of the bounded events

episode == <<told, meddled>>
vars == <<config, due, low, marker, sent, sched, act, episode, used>>

Idle == [pc |-> "idle", scope |-> "system", on |-> TRUE]
TypeOK ==
    /\ config \in [Scopes -> BOOLEAN] /\ due \subseteq Scopes
    /\ {low, sent} \subseteq BOOLEAN /\ marker \subseteq Scopes
    /\ sched \in [pc : {"idle", "system", "personal", "cleanup"}, cfg : [Scopes -> BOOLEAN]]
    /\ act \in [Actors -> [pc : {"idle", "config", "probe", "clear", "check", "unsend", "announce",
                                 "create", "mark", "send", "emit", "done", "failed"},
                           scope : Scopes, on : BOOLEAN]]
    /\ told \in 0..(MaxSaves + 2) /\ meddled \in 0..(MaxSaves + 1)
    /\ used \in [flips : 0..MaxFlips, saves : 0..MaxSaves, faults : 0..MaxFaults]

Init ==
    /\ config = [s \in Scopes |-> TRUE] /\ due = Scopes
    /\ low = FALSE /\ marker = {} /\ sent = FALSE
    /\ sched = [pc |-> "idle", cfg |-> [s \in Scopes |-> TRUE]]
    /\ act = [a \in Actors |-> Idle]
    /\ told = 0 /\ meddled = 0
    /\ used = [flips |-> 0, saves |-> 0, faults |-> 0]

At(a, pc) == act[a].pc = pc
Go(a, pc) == act' = [act EXCEPT ![a].pc = pc]
Fault == used.faults < MaxFaults /\ used' = [used EXCEPT !.faults = @ + 1]
----------------------------------------------------------------------------
(* The scheduler: load the policy once, then System, Home and cleanup.     *)
SchedulerStart ==
    /\ sched.pc = "idle"
    /\ sched' = [pc |-> "system", cfg |-> config]
    /\ UNCHANGED <<config, due, low, marker, sent, act, episode, used>>

NextStage(s) == IF s = "system" THEN "personal" ELSE "cleanup"

(* A scope that is switched off is passed over without calling the helper. *)
SchedulerSkip ==
    /\ sched.pc \in Scopes /\ ~sched.cfg[sched.pc]
    /\ sched' = [sched EXCEPT !.pc = NextStage(@)]
    /\ UNCHANGED <<config, due, low, marker, sent, act, episode, used>>

SchedulerCall ==
    /\ sched.pc \in Scopes /\ sched.cfg[sched.pc] /\ At("handler", "idle")
    /\ act' = [act EXCEPT !["handler"] = [pc |-> "config", scope |-> sched.pc, on |-> TRUE]]
    /\ UNCHANGED <<config, due, low, marker, sent, sched, episode, used>>

(* A failure is reported and remembered, and the run goes on.              *)
SchedulerReturn ==
    /\ act["handler"].pc \in {"done", "failed"}
    /\ sched' = [sched EXCEPT !.pc = NextStage(@)]
    /\ Go("handler", "idle")
    /\ UNCHANGED <<config, due, low, marker, sent, episode, used>>

SchedulerCleanup ==
    /\ sched.pc = "cleanup"
    /\ sched' = [sched EXCEPT !.pc = "idle"]
    /\ UNCHANGED <<config, due, low, marker, sent, act, episode, used>>
----------------------------------------------------------------------------
(* create_scheduled_deployment, create_scheduled_personal_snapshot.  The   *)
(* call fails without authorization, within the rate limit, or when the    *)
(* policy cannot be read.                                                  *)
HandlerConfig ==
    /\ At("handler", "config")
    /\ LET on == config[act["handler"].scope]
       IN  act' = [act EXCEPT !["handler"].on = on,
                              !["handler"].pc = IF on THEN "probe" ELSE "clear"]
    /\ UNCHANGED <<config, due, low, marker, sent, sched, episode, used>>

HandlerFails ==
    /\ act["handler"].pc \in {"config", "probe", "create"} /\ Fault
    /\ Go("handler", "failed")
    /\ UNCHANGED <<config, due, low, marker, sent, sched, episode>>

HandlerProbe(a) ==
    /\ At(a, "probe")
    /\ Go(a, IF low THEN "mark" ELSE "clear")
    /\ UNCHANGED <<config, due, low, marker, sent, sched, episode, used>>

(* "starting" and ten seconds of sleep, if wanted and a snapshot is due.   *)
HandlerAnnounce ==
    /\ At("handler", "announce")
    /\ Go("handler", "create")
    /\ UNCHANGED <<config, due, low, marker, sent, sched, episode, used>>

(* create_scheduled_if_due looks at the interval and the space again under *)
(* the store's lock.                                                       *)
HandlerCreate ==
    /\ At("handler", "create")
    /\ LET s == act["handler"].scope
       IN  /\ Go("handler", IF s \in due /\ low THEN "mark" ELSE "done")
           /\ due' = IF low THEN due ELSE due \ {s}
    /\ UNCHANGED <<config, low, marker, sent, sched, episode, used>>
----------------------------------------------------------------------------
(* clear_automatic_low_space_state: remove the marker of the scope, and if *)
(* neither scope has one, the notification marker.                         *)
Resume(a) == IF a = "handler" /\ act[a].on THEN "announce" ELSE "done"

ClearMarker(a) ==
    /\ At(a, "clear")
    /\ marker' = marker \ {act[a].scope}
    /\ Go(a, "check")
    /\ UNCHANGED <<config, due, low, sent, sched, episode, used>>

ClearCheck(a) ==
    /\ At(a, "check")
    /\ Go(a, IF marker = {} THEN "unsend" ELSE Resume(a))
    /\ UNCHANGED <<config, due, low, marker, sent, sched, episode, used>>

ClearSent(a) ==
    /\ At(a, "unsend")
    /\ sent' = FALSE
    /\ Go(a, Resume(a))
    /\ UNCHANGED <<config, due, low, marker, sched, episode, used>>

(* emit_low_space_transition: create the marker of the scope, then the     *)
(* notification marker; who creates that one notifies.                     *)
MarkScope ==
    /\ At("handler", "mark")
    /\ marker' = marker \cup {act["handler"].scope}
    /\ Go("handler", "send")
    /\ UNCHANGED <<config, due, low, sent, sched, episode, used>>

MarkSent ==
    /\ At("handler", "send")
    /\ sent' = TRUE
    /\ Go("handler", IF sent THEN "done" ELSE "emit")
    /\ UNCHANGED <<config, due, low, marker, sched, episode, used>>

EmitPaused ==
    /\ At("handler", "emit")
    /\ told' = IF low /\ told < MaxSaves + 2 THEN told + 1 ELSE told
    /\ Go("handler", "done")
    /\ UNCHANGED <<config, due, low, marker, sent, sched, meddled, used>>

(* The helper dies; the files stay, the caller sees a failure.             *)
HelperDies ==
    /\ act["handler"].pc \notin {"idle", "done", "failed"} /\ Fault
    /\ act' = [act EXCEPT !["handler"].pc = "failed", !["save"].pc = "idle"]
    /\ UNCHANGED <<config, due, low, marker, sent, sched, episode>>
----------------------------------------------------------------------------
(* save_automation_config: write the policy, then for System and for Home  *)
(* forget the pause if the scope is off or there is space.                 *)
SavePolicy(c) ==
    /\ At("save", "idle") /\ used.saves < MaxSaves
    /\ \A s \in Scopes \ Toggles : c[s] = config[s]
    /\ config' = c
    /\ act' = [act EXCEPT !["save"] = [pc |-> "probe", scope |-> "system", on |-> TRUE]]
    /\ meddled' = meddled + 1
    /\ used' = [used EXCEPT !.saves = @ + 1]
    /\ UNCHANGED <<due, low, marker, sent, sched, told>>

SaveProbe ==
    /\ At("save", "probe")
    /\ Go("save", IF config[act["save"].scope] /\ low THEN "done" ELSE "clear")
    /\ UNCHANGED <<config, due, low, marker, sent, sched, episode, used>>

SaveNext ==
    /\ At("save", "done")
    /\ act' = [act EXCEPT !["save"] =
                  IF @.scope = "system" THEN [@ EXCEPT !.pc = "probe", !.scope = "personal"] ELSE Idle]
    /\ UNCHANGED <<config, due, low, marker, sent, sched, episode, used>>

(* Space comes and goes; a low-space episode ends when there is enough. A  *)
(* save, and a warning, of the last one may still be under way then.       *)
UnderWay(a) ==
    IF a = "save" THEN ~At(a, "idle") ELSE act[a].pc \in {"mark", "send", "emit"}

SpaceChanges ==
    /\ used.flips < MaxFlips
    /\ low' = ~low /\ told' = 0
    /\ meddled' = Cardinality({a \in Actors : UnderWay(a)})
    /\ used' = [used EXCEPT !.flips = @ + 1]
    /\ UNCHANGED <<config, due, marker, sent, sched, act>>

IntervalPasses ==
    /\ sched.pc = "idle" /\ due # Scopes
    /\ due' = Scopes
    /\ UNCHANGED <<config, low, marker, sent, sched, act, episode, used>>
----------------------------------------------------------------------------
HandlerSteps ==
    \/ HandlerConfig \/ HandlerProbe("handler") \/ HandlerAnnounce \/ HandlerCreate
    \/ ClearMarker("handler") \/ ClearCheck("handler") \/ ClearSent("handler")
    \/ MarkScope \/ MarkSent \/ EmitPaused
SaveSteps ==
    \/ SaveProbe \/ ClearMarker("save") \/ ClearCheck("save") \/ ClearSent("save") \/ SaveNext
SchedulerSteps ==
    \/ SchedulerStart \/ SchedulerSkip \/ SchedulerCall \/ SchedulerReturn \/ SchedulerCleanup

Next ==
    \/ SchedulerSteps \/ HandlerSteps \/ SaveSteps
    \/ HandlerFails \/ HelperDies \/ SpaceChanges \/ IntervalPasses
    \/ \E c \in [Scopes -> BOOLEAN] : SavePolicy(c)

Spec == Init /\ [][Next]_vars

(* The timer fires every hour, a call that was started is carried out, and *)
(* a scheduler that got an answer goes on.                                 *)
Fairness == WF_vars(SchedulerSteps) /\ WF_vars(HandlerSteps) /\ WF_vars(SaveSteps)
LiveSpec == Spec /\ Fairness
----------------------------------------------------------------------------
(* A continuous low-space episode is announced at most once, over both     *)
(* scopes, any number of runs and restarts of the helper. Where the policy *)
(* is saved, which may clear the markers on a probe from before, it is     *)
(* announced at most once more for every save that overlaps it and for a   *)
(* warning of the last episode that was under way when it began            *)
(* (clear_automatic_low_space_if_recovered, emit_low_space_transition).    *)
OnePausePerEpisode == told <= 1 + IF used.saves = 0 THEN 0 ELSE meddled

(* Once space is back for good, the pause is over: no marker keeps the     *)
(* dialog showing a scope as paused that takes automatic snapshots, nor,   *)
(* without any marker, the next warning silent.  Only the marker of a      *)
(* scope that was switched off while its handler ran may stay.             *)
SpaceIsBack == ~low
PauseOver ==
    LET on == {s \in Scopes : config[s]}
    IN  on # {} => marker \cap on = {} /\ (sent => marker # {})
PauseClears == <>[]SpaceIsBack => <>[]PauseOver

(* Every run ends with cleanup, also when space is low and calls fail,     *)
(* which is when deleting old snapshots matters most.                      *)
EveryRunCleansUp ==
    sched.pc # "idle" /\ sched'.pc = "idle" => sched.pc = "cleanup"
=============================================================================
