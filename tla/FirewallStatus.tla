---------------------------- MODULE FirewallStatus ----------------------------
(* The status page of the firewall settings: the switch of the firewall, the   *)
(* default policies, the log level and the switch of local network discovery.  *)
(* Every control runs its command in the background, guarded by a flag of its  *)
(* own, then has the page read again; a read that arrives is shown with the    *)
(* signals of the controls blocked. ufw, systemd and polkit are external.      *)
EXTENDS Naturals, Sequences, FiniteSets, SequencesExt

CONSTANTS MaxOps, MaxFaults, MaxOthers, None

StatusAssumption == MaxOps \in Nat /\ MaxFaults \in Nat /\ MaxOthers \in Nat

VARIABLES fw,       \* the firewall: on or off, policies, log level
          avahi,    \* the two units of avahi-daemon and whether it runs
          widget,   \* the controls: value and whether they are sensitive
          policies, \* whether the group of the policies is sensitive
          running,  \* the command of each control: to run, done or none (in flight)
          reads,    \* reads of the firewall: to make, made and not yet shown
          mdns,     \* reads of the units
          pending,  \* whether the watcher of /etc/ufw has an event
          missed,   \* a read failed or was overtaken, or a change was not noticed
          clicks, starts, faults, others

vars == <<fw, avahi, widget, policies, running, reads, mdns, pending, missed,
          clicks, starts, faults, others>>

Deny == 0
Allow == 1
Reject == 2
Invalid == 255   \* stands for 1 - 2 in 32 bits without sign: no row of the list
Ufw == {"switch", "in", "out", "log"}
Values(w) == IF w \in {"in", "out"} THEN {Deny, Allow, Reject} ELSE {0, 1}

may_fail == faults < MaxFaults /\ faults' = faults + 1
works == faults' = faults
NoReads == [asked |-> 0, made |-> <<>>]
counted == UNCHANGED <<clicks, others>>

-----------------------------------------------------------------------------
(* What is read *)

\* parse_ufw_status_numbered. "status numbered" prints the state and the rules, not
\* the lines of the log level and the defaults: these keep their first values.
parsed == [switch |-> fw.switch, in |-> Deny, out |-> Allow, log |-> 0]

mdns_state_from_unit_states(unit) ==
    IF /\ "masked" \notin {unit.service, unit.socket}
       /\ "enabled" \in {unit.service, unit.socket} \/ unit.active
    THEN 1 ELSE 0

-----------------------------------------------------------------------------
(* The user *)

\* A control is moved while its command runs, after a refresh made it sensitive:
\* the switch goes back, the incoming policy is set to 1 minus the new choice.
ignored(w, v) ==
    widget' = [widget EXCEPT ![w].value =
                 CASE w = "switch" -> @
                   [] w = "in" -> IF v = Reject THEN Invalid ELSE 1 - v
                   [] OTHER -> v]

moved(w, v) ==
    /\ widget[w].sensitive /\ (w \in {"in", "out"} => policies)
    /\ v # widget[w].value /\ clicks < MaxOps /\ clicks' = clicks + 1
    /\ IF running[w] # None THEN ignored(w, v) /\ UNCHANGED <<running, starts>>
       ELSE /\ running' = [running EXCEPT ![w] = [value |-> v, at |-> "run", ok |-> TRUE]]
            /\ widget' = [widget EXCEPT ![w] = [value |-> v, sensitive |-> FALSE]]
            /\ starts' = starts + 1
    /\ UNCHANGED <<fw, avahi, policies, reads, mdns, pending, missed, faults, others>>

-----------------------------------------------------------------------------
(* The commands *)

ran(w, ok) == running' = [running EXCEPT ![w].at = "done", ![w].ok = ok]

\* set_enabled, set_default_policy and set_logging; the watcher may notice
run_ufw(w) ==
    /\ w \in Ufw /\ running[w] # None /\ running[w].at = "run"
    /\ \/ works /\ fw' = [fw EXCEPT ![w] = running[w].value] /\ ran(w, TRUE)
          /\ pending' \in {pending, TRUE}
       \/ may_fail /\ ran(w, FALSE) /\ UNCHANGED <<fw, pending>>
    /\ UNCHANGED <<avahi, widget, policies, reads, mdns, missed, starts>> /\ counted

\* set_mdns_enabled: the helper unmasks, then enables and starts, or masks and stops
run_mdns ==
    /\ running["mdns"] # None
    /\ \/ /\ running["mdns"].at = "run" /\ running["mdns"].value = 1
          /\ \/ works /\ running' = [running EXCEPT !["mdns"].at = "enable"]
                /\ avahi' = IF avahi.service = "masked"
                            THEN [avahi EXCEPT !.service = "disabled", !.socket = "disabled"]
                            ELSE avahi
             \/ may_fail /\ ran("mdns", FALSE) /\ UNCHANGED avahi
       \/ /\ running["mdns"].at = "enable"
          /\ \/ works /\ ran("mdns", TRUE)
                /\ avahi' = [service |-> "enabled", socket |-> "enabled", active |-> TRUE]
             \/ may_fail /\ ran("mdns", FALSE) /\ UNCHANGED avahi
       \/ /\ running["mdns"].at = "run" /\ running["mdns"].value = 0
          /\ \/ works /\ ran("mdns", TRUE)
                /\ avahi' = [service |-> "masked", socket |-> "masked", active |-> FALSE]
             \/ may_fail /\ ran("mdns", FALSE)
                /\ avahi' \in {avahi, [avahi EXCEPT !.service = "masked", !.socket = "masked"]}
    /\ UNCHANGED <<fw, widget, policies, reads, mdns, pending, missed, starts>> /\ counted

\* force_refresh
asked(w) == [reads EXCEPT !.asked = @ + 1]

unlocked(w) == [running EXCEPT ![w] = None]

\* The command is over: the flag is cleared, all controls wait for the read but
\* the one that was used.
finish(w) ==
    /\ running[w] # None /\ running[w].at = "done" /\ running' = unlocked(w)
    /\ IF w = "mdns"
         THEN /\ mdns' = [mdns EXCEPT !.asked = @ + 1] /\ UNCHANGED reads
              /\ widget' = [widget EXCEPT !["mdns"].sensitive = FALSE]
         ELSE /\ reads' = asked(w) /\ UNCHANGED mdns
              /\ widget' = [x \in DOMAIN widget |->
                   IF x = "mdns" THEN widget[x]
                   ELSE [widget[x] EXCEPT !.sensitive = (x = w)]]
    /\ UNCHANGED <<fw, avahi, policies, pending, missed, starts, faults>> /\ counted

-----------------------------------------------------------------------------
(* Reading the state *)

read_status ==
    /\ reads.asked > 0
    /\ \/ works /\ reads' = [asked |-> reads.asked - 1, made |-> Append(reads.made, parsed)]
          /\ UNCHANGED missed
       \/ may_fail /\ reads' = [reads EXCEPT !.asked = @ - 1] /\ missed' = TRUE
    /\ UNCHANGED <<fw, avahi, widget, policies, running, mdns, pending, starts>> /\ counted

read_mdns_state ==
    /\ mdns.asked > 0
    /\ \/ works /\ UNCHANGED missed
          /\ mdns' = [asked |-> mdns.asked - 1,
                      made |-> Append(mdns.made, mdns_state_from_unit_states(avahi))]
       \/ may_fail /\ mdns' = [mdns EXCEPT !.asked = @ - 1] /\ missed' = TRUE
    /\ UNCHANGED <<fw, avahi, widget, policies, running, reads, pending, starts>> /\ counted

\* The controls as a status shows them.
shown(s) ==
    [x \in DOMAIN widget |->
       IF x = "mdns" THEN widget[x]
       ELSE [value |-> s[x], sensitive |-> (x = "log" => s.switch = 1)]]

apply_status(s) ==
    /\ widget' = shown(s) /\ policies' = (s.switch = 1) /\ UNCHANGED <<running, starts>>

\* A read arrives, in any order.
status_read ==
    \E i \in DOMAIN reads.made :
        /\ apply_status(reads.made[i]) /\ reads' = [reads EXCEPT !.made = RemoveAt(@, i)]
        /\ missed' = (missed \/ i # 1)
        /\ UNCHANGED <<fw, avahi, mdns, pending, faults>> /\ counted

apply_mdns_state ==
    \E i \in DOMAIN mdns.made :
        /\ widget' = [widget EXCEPT !["mdns"] = [value |-> mdns.made[i], sensitive |-> TRUE]]
        /\ mdns' = [mdns EXCEPT !.made = RemoveAt(@, i)] /\ missed' = (missed \/ i # 1)
        /\ UNCHANGED <<fw, avahi, policies, running, reads, pending, starts, faults>> /\ counted

\* The watcher's event: the units are read in the background, the firewall at once.
refresh_views ==
    /\ pending /\ pending' = FALSE /\ mdns' = [mdns EXCEPT !.asked = @ + 1]
    /\ \/ works /\ policies' = (parsed.switch = 1)
          /\ widget' = [shown(parsed) EXCEPT !["mdns"].sensitive = FALSE]
          /\ missed' = (missed \/ reads.made # <<>>)
       \/ may_fail /\ widget' = [widget EXCEPT !["mdns"].sensitive = FALSE] /\ missed' = TRUE
          /\ UNCHANGED policies
    /\ UNCHANGED <<fw, avahi, running, reads, starts>> /\ counted

\* Someone else switches the firewall or stops avahi; only files in /etc/ufw are watched.
elsewhere ==
    /\ others < MaxOthers /\ others' = others + 1
    /\ \/ fw' = [fw EXCEPT !.switch = 1 - @] /\ UNCHANGED avahi /\ pending' \in {pending, TRUE}
       \/ /\ avahi.active /\ avahi' = [avahi EXCEPT !.active = FALSE, !.service = "disabled", !.socket = "disabled"]
          /\ UNCHANGED <<fw, pending>>
    /\ missed' = TRUE
    /\ UNCHANGED <<widget, policies, running, reads, mdns, clicks, starts, faults>>

-----------------------------------------------------------------------------

Init ==
    /\ \E on \in {0, 1}, a \in {"enabled", "masked"} :
         /\ fw = [switch |-> on, in |-> Deny, out |-> Allow, log |-> 1]
         /\ avahi = [service |-> a, socket |-> a, active |-> a = "enabled"]
    /\ policies = (fw.switch = 1)
    /\ widget = [x \in Ufw \cup {"mdns"} |->
                   [value |-> IF x = "mdns" THEN mdns_state_from_unit_states(avahi) ELSE parsed[x],
                    sensitive |-> (x = "log" => fw.switch = 1)]]
    /\ running = [x \in Ufw \cup {"mdns"} |-> None]
    /\ reads = NoReads /\ mdns = NoReads /\ pending = FALSE /\ missed = FALSE
    /\ clicks = 0 /\ starts = 0 /\ faults = 0 /\ others = 0

Click == \E w \in DOMAIN widget : \E v \in Values(w) : moved(w, v)
Work ==
    \/ \E w \in DOMAIN widget : run_ufw(w) \/ finish(w)
    \/ run_mdns \/ read_status \/ read_mdns_state \/ status_read \/ apply_mdns_state
    \/ refresh_views

Next == Click \/ Work \/ elsewhere

Spec == Init /\ [][Next]_vars

\* Commands and reads end and are handled; nobody has to click.
LiveSpec == Spec /\ WF_vars(Work)

-----------------------------------------------------------------------------

\* The types of the state.
TypeOK ==
    /\ fw.switch \in {0, 1} /\ {fw.in, fw.out} \subseteq {Deny, Allow, Reject} /\ fw.log \in {0, 1}
    /\ {avahi.service, avahi.socket} \subseteq {"enabled", "disabled", "masked"}
    /\ \A w \in DOMAIN widget : widget[w].value \in Values(w) \cup {Invalid}

Settled ==
    /\ \A w \in DOMAIN running : running[w] = None
    /\ reads = NoReads /\ mdns = NoReads /\ ~pending

\* When everything is handled, no read failed or was overtaken and nobody else
\* changed anything, the switch of the firewall shows whether it is on, also after
\* a command that was refused or failed.
SwitchShown == Settled /\ ~missed => widget["switch"].value = fw.switch

\* And the switch of the discovery is off if the units were masked, also where
\* they could not be stopped, and on only if the daemon was started.
DiscoveryShown ==
    Settled /\ ~missed => (widget["mdns"].value = 1 <=> avahi.active /\ avahi.service # "masked")

\* Showing a status starts nothing: every command is a click of the user.
OnlyClicksStart == starts <= clicks

\* A command ends and its control can be used again for another.
Controls == <<"switch", "in", "out", "log", "mdns">>
Begun == [k \in 1..5 |-> running[Controls[k]] # None]
Over == [k \in 1..5 |-> running[Controls[k]] = None]
Progress == \A k \in 1..5 : Begun[k] ~> Over[k]

\* The policies shown are those of the firewall: UfwStatus has the "Default
\* policy for incoming traffic".
PolicyShown == Settled /\ ~missed => widget["in"].value = fw.in

\* Controls that wait for a read come back.
ControlsReturn == ~widget["in"].sensitive ~> widget["in"].sensitive

\* "authentication failures and external systemd changes always resolve back to
\* the real unit state"
MdnsResolves == Settled => widget["mdns"].value = mdns_state_from_unit_states(avahi)
=============================================================================
