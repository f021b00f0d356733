----------------------------- MODULE FirewallRules -----------------------------
(* The rules and profiles pages of the firewall settings, over the rule list   *)
(* of ufw. A rule is known by its place in that list: a page shows the places  *)
(* of the list it last read, dialogs and background tasks keep them, and every *)
(* task is a number of ufw commands, each run through pkexec. A thread watches *)
(* /etc/ufw and has the window read everything again, at most once in 250 ms.  *)
(*                                                                             *)
(* A rule is its text: two rules are the same or they are different. The list  *)
(* is that of IPv4 and the firewall is active. ufw itself is external.         *)
EXTENDS Naturals, Sequences, FiniteSets, SequencesExt

CONSTANTS Rules, ProfileRules, MaxOps, MaxFaults, MaxOthers, None

FirewallAssumption ==
    /\ IsFiniteSet(Rules) /\ ProfileRules \subseteq Rules /\ ProfileRules # {}
    /\ MaxOps \in Nat /\ MaxFaults \in Nat /\ MaxOthers \in Nat

VARIABLES rules,    \* the list of ufw
          tasks,    \* the background tasks
          page,     \* RulesView: current_rules, in their order
          pressed,  \* the rows whose delete button is insensitive
          profile,  \* ProfilesView: current_rules and the switch of a profile
          inflight, \* whether the profile is being toggled
          dialog,   \* the dialog that is open
          monitor,  \* UfwMonitor: whether 250 ms have passed, events to handle
          reads,    \* refresh_rules: reads to make, lists read and not shown
          deleted,  \* the last rule deleted by its number
          ended,    \* the last task that ended
          ops, faults, others

vars == <<rules, tasks, page, pressed, profile, inflight, dialog, monitor, reads, deleted, ended,
          ops, faults, others>>

Ports == SetToSeq(ProfileRules)
NoTask == [kind |-> "none", cmds |-> <<>>, row |-> TRUE, shown |-> None, num |-> 0, list |-> <<>>,
           left |-> <<>>, new |-> None, ok |-> TRUE, moved |-> FALSE, refused |-> FALSE]
Cmd(op, n, r) == [op |-> op, n |-> n, rule |-> r]

may_fail == faults < MaxFaults /\ faults' = faults + 1
works == faults' = faults

-----------------------------------------------------------------------------
(* ufw and the watcher of its files *)

\* What a command leaves, and whether it succeeds.
after(cmd) ==
    CASE cmd.op = "delete" /\ cmd.n \in DOMAIN rules -> RemoveAt(rules, cmd.n)
      [] cmd.op = "insert" /\ cmd.n \in DOMAIN rules /\ cmd.rule \notin Range(rules) ->
           InsertAt(rules, cmd.n, cmd.rule)
      [] cmd.op = "append" /\ cmd.rule \notin Range(rules) -> Append(rules, cmd.rule)
      [] cmd.op = "drop" -> SelectSeq(rules, LAMBDA r : r # cmd.rule)
      [] OTHER -> rules
accepted(cmd) == cmd.op \in {"delete", "insert"} => cmd.n \in DOMAIN rules

\* An event within 250 ms of the last one is dropped.
watched ==
    monitor' = IF rules' = rules \/ ~monitor.fresh THEN monitor
               ELSE [fresh |-> FALSE, pending |-> monitor.pending + 1]

debounce_over ==
    /\ ~monitor.fresh /\ monitor' = [monitor EXCEPT !.fresh = TRUE]
    /\ UNCHANGED <<rules, tasks, page, pressed, profile, inflight, dialog, reads, deleted, ended,
                   ops, faults, others>>

-----------------------------------------------------------------------------
(* The tasks *)

stops(task) == task.kind # "drop"

\* The list is changed behind the back of the other tasks.
disturbed(id) ==
    [i \in DOMAIN tasks |-> [tasks[i] EXCEPT !.moved = @ \/ (i # id /\ rules' # rules)]]

\* delete_all_rules reads the list and counts down. Mutant: it counts up.
numbers_up(list) == [i \in DOMAIN list |-> Cmd("delete", i, None)]
numbers(list) == Reverse([i \in DOMAIN list |-> Cmd("delete", i, None)])

read_all(id) ==
    /\ tasks[id].cmds # <<>> /\ Head(tasks[id].cmds).op = "read"
    /\ \/ works /\ tasks' = [tasks EXCEPT ![id].cmds = numbers(rules), ![id].moved = FALSE]
       \/ may_fail /\ tasks' = [tasks EXCEPT ![id].cmds = <<>>, ![id].ok = FALSE,
                                              ![id].refused = TRUE]
    /\ UNCHANGED <<rules, page, pressed, profile, inflight, dialog, monitor, reads, deleted, ended,
                   ops, others>>

\* run_pkexec_ufw: the next command of a task
run_ufw(id) ==
    LET task == tasks[id]
        cmd == Head(task.cmds)
        left == IF stops(task) THEN <<>> ELSE Tail(task.cmds)
    IN  /\ task.cmds # <<>> /\ cmd.op # "read"
        /\ \/ /\ works /\ rules' = after(cmd)
              /\ tasks' = [disturbed(id) EXCEPT
                   ![id].cmds = IF accepted(cmd) THEN Tail(@) ELSE left,
                   ![id].ok = accepted(cmd)]
              /\ deleted' = IF cmd.op = "delete" /\ accepted(cmd) /\ task.kind # "all"
                            THEN [rule |-> rules[cmd.n], shown |-> task.shown,
                                  same |-> task.list = rules]
                            ELSE deleted
           \/ /\ may_fail /\ UNCHANGED <<rules, deleted>>
              /\ tasks' = [tasks EXCEPT ![id].cmds = left, ![id].ok = FALSE,
                                        ![id].refused = TRUE]
        /\ watched
        /\ UNCHANGED <<page, pressed, profile, inflight, dialog, reads, ended, ops, others>>

landed(task) == inflight' = (inflight /\ task.kind \notin {"allow", "drop"})

\* The task is over and its page goes on.
finish(id) ==
    LET task == tasks[id]
    IN  /\ task.kind # "none" /\ task.cmds = <<>>
        /\ tasks' = [tasks EXCEPT ![id] = NoTask]
        /\ ended' = [task EXCEPT !.left = rules]
        /\ reads' = IF task.kind = "delete" /\ task.ok /\ task.row THEN [reads EXCEPT !.asked = @ + 1]
                    ELSE reads
        /\ dialog' = IF dialog # None /\ dialog.task = id /\ task.ok THEN None ELSE dialog
        /\ pressed' = IF task.kind = "delete" /\ ~task.ok /\ task.row THEN pressed \ {task.num}
                      ELSE pressed
        /\ landed(task)
        /\ UNCHANGED <<rules, page, profile, monitor, deleted, ops, faults, others>>

-----------------------------------------------------------------------------
(* The pages *)

quiet == UNCHANGED <<rules, monitor, reads, faults, others>>
start(task) ==
    /\ ops < MaxOps /\ ops' = ops + 1
    /\ tasks' = [tasks EXCEPT ![ops'] = task]
    /\ deleted' = None /\ ended' = NoTask

\* The rows a text in the search entry lets through.
apply_filter(f) == {n \in DOMAIN page : f \in {None, page[n]}}

number(f, n) == n

Dialog(kind, n, r) == [kind |-> kind, num |-> n, rule |-> r, list |-> page, row |-> TRUE, task |-> 0]
opens(d) ==
    /\ dialog = None /\ ops < MaxOps /\ dialog' = d
    /\ quiet /\ UNCHANGED <<tasks, page, pressed, profile, inflight, deleted, ended, ops>>

confirm_delete ==
    \E f \in Rules \cup {None} : \E n \in apply_filter(f) \ pressed :
        opens(Dialog("delete", number(f, n), page[n]))
on_edit_rule ==
    \E f \in Rules \cup {None} : \E n \in apply_filter(f) :
        opens(Dialog("edit", number(f, n), page[n]))
add_rule == opens(Dialog("add", 0, None))

\* Cancel, also of a dialog whose task runs or has failed
cancel ==
    /\ dialog # None /\ dialog' = None
    /\ quiet /\ UNCHANGED <<tasks, page, pressed, profile, inflight, deleted, ended, ops>>

delete_rule ==
    /\ dialog # None /\ dialog.kind = "delete" /\ dialog' = None
    /\ start([NoTask EXCEPT !.kind = "delete", !.row = dialog.row, !.shown = dialog.rule,
                            !.num = dialog.num, !.list = dialog.list,
                            !.moved = dialog.list # rules,
                            !.cmds = <<Cmd("delete", dialog.num, None)>>])
    /\ pressed' = IF dialog.row THEN pressed \cup {dialog.num} ELSE pressed
    /\ quiet /\ UNCHANGED <<page, profile, inflight>>

\* The old rule is deleted and the new one inserted at its place; a new rule goes where asked.
commands(new, pos) ==
    IF dialog.kind = "edit"
      THEN <<Cmd("delete", dialog.num, None), Cmd("insert", dialog.num, new)>>
    ELSE IF pos = 0 THEN <<Cmd("append", 0, new)>> ELSE <<Cmd("insert", pos, new)>>

on_add_clicked ==
    /\ dialog # None /\ dialog.kind \in {"edit", "add"} /\ dialog.task = 0
    /\ \E new \in Rules, pos \in {0, 1} :
         /\ dialog.kind = "edit" => pos = 0
         /\ start([NoTask EXCEPT !.kind = dialog.kind, !.shown = dialog.rule, !.num = dialog.num,
                                 !.list = dialog.list, !.moved = dialog.list # rules,
                                 !.new = new, !.cmds = commands(new, pos)])
    /\ dialog' = [dialog EXCEPT !.task = ops']
    /\ quiet /\ UNCHANGED <<page, pressed, profile, inflight>>

delete_all_rules ==
    /\ dialog = None /\ start([NoTask EXCEPT !.kind = "all", !.cmds = <<Cmd("read", 0, None)>>])
    /\ quiet /\ UNCHANGED <<page, pressed, profile, inflight, dialog>>

\* on_quick_add, and the block button of the audit page
on_quick_add ==
    /\ dialog = None
    /\ \E r \in Rules : start([NoTask EXCEPT !.kind = "quick", !.new = r,
                                             !.cmds = <<Cmd("append", 0, r)>>])
    /\ quiet /\ UNCHANGED <<page, pressed, profile, inflight, dialog>>

allow_app == [i \in DOMAIN Ports |-> Cmd("append", 0, Ports[i])]
delete_app == [i \in DOMAIN Ports |-> Cmd("drop", 0, Ports[i])]
is_app_allowed(list) == ProfileRules \cap Range(list) # {}

\* The switch of a profile; while it is in flight, the switch goes back.
toggle_app ==
    /\ dialog = None /\ profile.sensitive /\ ~inflight
    /\ start([NoTask EXCEPT !.kind = IF profile.on THEN "drop" ELSE "allow",
                            !.cmds = IF profile.on THEN delete_app ELSE allow_app])
    /\ profile' = [profile EXCEPT !.on = ~@, !.sensitive = FALSE] /\ inflight' = TRUE
    /\ quiet /\ UNCHANGED <<page, pressed, dialog>>

-----------------------------------------------------------------------------
(* Reading the list again *)

rebuilt(list) == [rules |-> list, on |-> is_app_allowed(list), sensitive |-> TRUE]

\* RulesView::update makes new rows; dialogs and tasks of the old ones go on without them.
shows(list) ==
    /\ page' = list /\ pressed' = {}
    /\ tasks' = [i \in DOMAIN tasks |->
                   IF tasks[i].kind = "delete" THEN [tasks[i] EXCEPT !.row = FALSE] ELSE tasks[i]]
    /\ dialog' = IF dialog = None THEN None ELSE [dialog EXCEPT !.row = FALSE]

\* The watcher's event: both pages, from one read; if it fails, the profiles alone.
refresh_views ==
    /\ monitor.pending > 0 /\ monitor' = [monitor EXCEPT !.pending = @ - 1]
    /\ \/ works /\ shows(rules) /\ profile' = rebuilt(rules)
       \/ may_fail /\ profile' = rebuilt(profile.rules) /\ UNCHANGED <<tasks, dialog, page, pressed>>
    /\ UNCHANGED <<rules, inflight, reads, deleted, ended, ops, others>>

\* refresh_rules, after a deletion: the rules page alone, in the background
read_status ==
    /\ reads.asked > 0
    /\ \/ works /\ reads' = [asked |-> reads.asked - 1, read |-> Append(reads.read, rules)]
       \/ may_fail /\ reads' = [reads EXCEPT !.asked = @ - 1]
    /\ UNCHANGED <<rules, tasks, page, pressed, profile, inflight, dialog, monitor, deleted, ended, ops, others>>

update ==
    \E i \in DOMAIN reads.read :
        /\ shows(reads.read[i])
        /\ reads' = [reads EXCEPT !.read = RemoveAt(@, i)]
        /\ UNCHANGED <<rules, profile, inflight, monitor, deleted, ended, ops, faults, others>>

\* Someone uses ufw in a terminal.
elsewhere ==
    /\ others < MaxOthers /\ others' = others + 1
    /\ \E cmd \in {Cmd("append", 0, r) : r \in Rules} \cup {Cmd("drop", 0, r) : r \in Rules} :
         rules' = after(cmd)
    /\ rules' # rules /\ watched /\ tasks' = disturbed(0)
    /\ UNCHANGED <<page, pressed, profile, inflight, dialog, reads, deleted, ended, ops, faults>>

-----------------------------------------------------------------------------

Init ==
    /\ rules \in {SetToSeq(S) : S \in SUBSET Rules}
    /\ tasks = [i \in 1..MaxOps |-> NoTask]
    /\ page = rules /\ pressed = {} /\ profile = rebuilt(rules)
    /\ inflight = FALSE /\ dialog = None
    /\ monitor = [fresh |-> TRUE, pending |-> 0] /\ reads = [asked |-> 0, read |-> <<>>]
    /\ deleted = None /\ ended = NoTask /\ ops = 0 /\ faults = 0 /\ others = 0

TaskStep == \E id \in DOMAIN tasks : read_all(id) \/ run_ufw(id) \/ finish(id)

ReadStep == refresh_views \/ read_status \/ update

UserStep ==
    \/ confirm_delete \/ on_edit_rule \/ add_rule \/ cancel \/ delete_rule
    \/ on_add_clicked \/ delete_all_rules \/ on_quick_add \/ toggle_app

Next == TaskStep \/ ReadStep \/ UserStep \/ debounce_over \/ elsewhere

Spec == Init /\ [][Next]_vars

\* Commands and reads end, and time passes; nobody has to do anything.
LiveSpec == Spec /\ WF_vars(TaskStep) /\ WF_vars(ReadStep) /\ WF_vars(debounce_over)

-----------------------------------------------------------------------------

\* The types of the state; the profile is in flight exactly while a task toggles it.
TypeOK ==
    /\ IsInjective(rules) /\ Range(rules) \subseteq Rules
    /\ monitor.pending \in 0..(MaxOthers + 4 * MaxOps)
    /\ dialog # None => dialog.task \in 0..MaxOps
    /\ inflight = \E i \in DOMAIN tasks : tasks[i].kind \in {"allow", "drop"}

\* The rule a row, a dialog or an edit deletes by its number is the one it
\* showed, whatever the search entry hides, if the list is still the one read.
DeletesShownIfCurrent == deleted # None /\ deleted.same => deleted.rule = deleted.shown

\* The rule deleted by its number is the one the page showed. The comment in
\* RuleRow says the page is read again "so numbering stays in sync".
DeletesShown == deleted # None => deleted.rule = deleted.shown

Undisturbed(kind) == ended.kind = kind /\ ~ended.moved

\* Delete All, if no command was refused and nobody interfered, left no rule.
AllDeleted == Undisturbed("all") /\ ~ended.refused => ended.left = <<>>

\* A profile whose rules were reported as added has all of them.
AllowedAsReported == Undisturbed("allow") /\ ended.ok => ProfileRules \subseteq Range(ended.left)

\* A profile whose rules were reported as deleted has none left.
RemovedAsReported == Undisturbed("drop") /\ ended.ok => ProfileRules \cap Range(ended.left) = {}

\* A rule that was edited has its new text at its old place.
EditedInPlace ==
    Undisturbed("edit") /\ ended.ok /\ ended.new \notin Range(RemoveAt(ended.list, ended.num)) =>
        ended.left = [ended.list EXCEPT ![ended.num] = ended.new]

\* No rule is lost to an edit when no command is refused.
EditKeepsRule ==
    Undisturbed("edit") /\ ~ended.refused => ended.new \in Range(ended.left)

\* A profile has one toggle at a time, also after its row was rebuilt.
OneToggle ==
    Cardinality({i \in DOMAIN tasks : tasks[i].kind \in {"allow", "drop"}}) <= 1

\* A toggle ends, and the profile may be toggled again.
Begun == <<inflight>>
Over == <<~inflight>>
Progress == Begun[1] ~> Over[1]

\* A switch that was used is rebuilt and can be used again: "file monitor will
\* rebuild with fresh state".
SwitchComesBack == ~profile.sensitive ~> profile.sensitive
=============================================================================
