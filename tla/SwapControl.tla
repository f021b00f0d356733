---------------------------- MODULE SwapControl ----------------------------
(***************************************************************************)
(* The disk swap page of anduinos-swapcontrol-gtk and its root helper: the *)
(* supplementary /swapfile with its line in fstab, vm.swappiness and       *)
(* zswap.  The helper is a script that may fail at any command and be cut  *)
(* off by a power loss after any.  Sizes are GiB; a file is its size, its  *)
(* place on the disk (id, what resume_offset names) and whether mkswap has *)
(* been run on it.  The parameters of zswap are one value, the compressor. *)
(***************************************************************************)
EXTENDS Integers, Sequences

CONSTANTS Sizes,        \* sizes the user asks for
          Capacity, Reserve,
          Supported,    \* whether the root filesystem is ext2/3/4 or XFS
          Partition,    \* whether a swap partition is active
          Comps,        \* compressors
          Default,      \* "lz4": what the list shows before anything is read
          Unknown,      \* orig_compressor before anything is read
          Resumes,      \* whether the kernel resumes from the initial file
          MaxOps, MaxFaults, MaxLosses, MaxData, None

SwapAssumption ==
    /\ Sizes \subseteq Nat /\ Capacity \in Nat /\ Reserve \in Nat
    /\ Default \in Comps /\ Unknown \notin Comps
    /\ MaxOps \in Nat /\ MaxFaults \in Nat /\ MaxLosses \in Nat /\ MaxData \in Nat
    /\ {Supported, Partition} \subseteq BOOLEAN /\ Resumes \subseteq BOOLEAN

VARIABLES disk,       \* /swapfile, /swapfile.anduinos-new and -old
          active,     \* whether /swapfile is in use
          fstab,      \* whether fstab names /swapfile
          resume,     \* the file resume_offset points at
          swappiness, \* vm.swappiness now and in sysctl.d
          zswap,      \* the parameters now, the file in /etc/default, the unit
          helper,     \* the helper process
          job,        \* the task of run_op
          view,       \* the widgets of SwapView
          last,       \* how the last helper call ended
          data,       \* what else is on the disk
          ops, faults, losses, ids

vars == <<disk, active, fstab, resume, swappiness, zswap, helper, job, view, last,
          data, ops, faults, losses, ids>>
system == <<disk, active, fstab, ids>>
settings == <<swappiness, zswap>>
counters == <<ops, losses, data>>

Size(f) == IF f = None THEN 0 ELSE f.size
Free == Capacity - data - Size(disk.file) - Size(disk.temp) - Size(disk.backup)
Usable(f) == f # None /\ f.ok
NoHelper == [at |-> "none", size |-> 0, was |-> FALSE, old |-> None]
NoJob == [todo |-> <<>>, size |-> 0, sw |-> 0, z |-> [on |-> FALSE, comp |-> Default],
          err |-> FALSE, late |-> FALSE, plain |-> FALSE]

may_fail == faults < MaxFaults /\ faults' = faults + 1
works == faults' = faults

-----------------------------------------------------------------------------
(* The helper: swapfile-enable, swapfile-disable, swapfile-resize *)

at(step) == helper.at = step
goto(step) == helper' = [helper EXCEPT !.at = step]

\* The helper exits; its caller goes on, or gives up if it was the resize.
exits(msg) ==
    /\ helper' = NoHelper
    /\ last' = [op |-> Head(job.todo), msg |-> msg, size |-> helper.size,
                old |-> helper.old, was |-> helper.was]
    /\ job' = IF msg = "ok" THEN [job EXCEPT !.todo = Tail(@)]
              ELSE [job EXCEPT !.todo = <<>>, !.err = TRUE]

running == UNCHANGED <<job, last>>
outside == UNCHANGED <<resume, swappiness, zswap, view, counters>>

call ==
    /\ at("none") /\ job.todo # <<>> /\ Head(job.todo) \in {"enable", "disable", "resize"}
    /\ helper' = [at |-> Head(job.todo), size |-> job.size, was |-> active, old |-> disk.file]
    /\ running /\ works /\ outside /\ UNCHANGED system

\* pkexec is cancelled
refused ==
    /\ at("none") /\ job.todo # <<>> /\ Head(job.todo) \in {"enable", "disable", "resize"}
    /\ may_fail
    /\ last' = [op |-> Head(job.todo), msg |-> "cancelled", size |-> job.size,
                old |-> disk.file, was |-> active]
    /\ job' = [job EXCEPT !.todo = <<>>, !.err = TRUE]
    /\ outside /\ UNCHANGED <<system, helper>>

swapfile_enable ==
    /\ at("enable") /\ outside /\ UNCHANGED <<disk, fstab, ids>>
    /\ \/ Usable(disk.file) /\ active' = TRUE /\ goto("entry") /\ works /\ running
       \/ ~Usable(disk.file) /\ exits("failed") /\ works /\ UNCHANGED active
       \/ Usable(disk.file) /\ ~active /\ may_fail /\ exits("failed") /\ UNCHANGED active

ensure_swapfile_fstab_entry ==
    /\ at("entry") /\ outside /\ UNCHANGED <<disk, active, ids>>
    /\ \/ fstab' = TRUE /\ works /\ exits("ok")
       \/ ~fstab /\ may_fail /\ exits("failed") /\ UNCHANGED fstab

\* Mutant: the line in fstab stays.
swapfile_disable_now ==
    /\ at("disable") /\ outside /\ UNCHANGED <<disk, fstab, ids>>
    /\ \/ active' = FALSE /\ works
          /\ IF Head(job.todo) = "resize" THEN goto("remove") /\ running ELSE exits("ok")
       \/ active /\ may_fail /\ exits("failed") /\ UNCHANGED active

swapfile_disable ==
    /\ at("disable") /\ outside /\ UNCHANGED <<disk, fstab, ids>>
    /\ \/ active' = FALSE /\ goto("unlist") /\ works /\ running
       \/ active /\ may_fail /\ exits("failed") /\ UNCHANGED active

remove_swapfile_fstab_entry ==
    /\ at("unlist") /\ outside /\ UNCHANGED <<disk, active, ids>>
    /\ \/ /\ fstab' = FALSE /\ works
          /\ IF Head(job.todo) = "resize" THEN goto("remove") /\ running ELSE exits("ok")
       \/ may_fail /\ exits("failed") /\ UNCHANGED fstab

remove ==
    /\ at("remove") /\ outside /\ works
    /\ disk' = [disk EXCEPT !.file = None] /\ exits("ok")
    /\ UNCHANGED <<active, fstab, ids>>

fits(n) == Free + Size(disk.file) >= n + Reserve

\* The checks, and which of the two ways is taken.
swapfile_resize ==
    /\ at("resize") /\ outside /\ works /\ UNCHANGED system
    /\ IF helper.size = 0 THEN goto("disable") /\ running
       ELSE IF ~Supported \/ ~fits(helper.size) \/ disk.temp # None \/ disk.backup # None
         THEN exits("failed")
       ELSE IF Free >= helper.size + Reserve THEN goto("create") /\ running
       ELSE goto("low_off") /\ running

\* create_swapfile: what it leaves behind when it fails may not be formatted.
create_swapfile(place, n, done, broken) ==
    /\ ids' = ids + 1 /\ UNCHANGED <<active, fstab>>
    /\ \/ disk' = [disk EXCEPT ![place] = [size |-> n, id |-> ids, ok |-> TRUE]] /\ works /\ done
       \/ /\ may_fail /\ broken
          /\ \/ disk' = [disk EXCEPT ![place] = None]
             \/ disk' = [disk EXCEPT ![place] = [size |-> n, id |-> ids, ok |-> FALSE]]

create ==
    /\ at("create") /\ outside
    /\ create_swapfile("temp", helper.size, goto("off") /\ running, exits("failed"))

off ==
    /\ at("off") /\ outside /\ UNCHANGED <<fstab, ids>>
    /\ \/ active' = FALSE /\ goto("away") /\ works /\ running /\ UNCHANGED disk
       \/ active /\ may_fail /\ exits("unchanged") /\ UNCHANGED active
          /\ disk' = [disk EXCEPT !.temp = None]

away ==
    /\ at("away") /\ goto("in") /\ running /\ works /\ outside
    /\ disk' = [disk EXCEPT !.file = None, !.backup = disk.file]
    /\ UNCHANGED <<active, fstab, ids>>

in ==
    /\ at("in") /\ goto("on") /\ running /\ works /\ outside
    /\ disk' = [disk EXCEPT !.file = disk.temp, !.temp = None]
    /\ UNCHANGED <<active, fstab, ids>>

on ==
    /\ at("on") /\ outside /\ running /\ UNCHANGED <<disk, fstab, ids>>
    /\ \/ active' = TRUE /\ goto("drop") /\ works
       \/ may_fail /\ goto("undo") /\ UNCHANGED active

drop ==
    /\ at("drop") /\ goto("entry") /\ running /\ works /\ outside
    /\ disk' = [disk EXCEPT !.backup = None] /\ UNCHANGED <<active, fstab, ids>>

undo ==
    /\ at("undo") /\ goto("undo_move") /\ running /\ works /\ outside
    /\ disk' = [disk EXCEPT !.file = None] /\ UNCHANGED <<active, fstab, ids>>

undo_move ==
    /\ at("undo_move") /\ outside /\ UNCHANGED <<active, fstab, ids>>
    /\ disk' = [disk EXCEPT !.file = disk.backup, !.backup = None]
    /\ works
    /\ IF disk.backup # None /\ helper.was THEN goto("undo_on") /\ running
                                           ELSE exits("restored")

undo_on ==
    /\ at("undo_on") /\ outside /\ UNCHANGED <<disk, fstab, ids>>
    /\ \/ active' = TRUE /\ works
       \/ may_fail /\ UNCHANGED active
    /\ exits(IF Size(helper.old) = Size(disk.file) /\ disk.file = helper.old
             THEN "restored" ELSE "recreated")

low_off ==
    /\ at("low_off") /\ outside /\ UNCHANGED <<disk, fstab, ids>>
    /\ \/ active' = FALSE /\ goto("low_remove") /\ works /\ running
       \/ active /\ may_fail /\ exits("unchanged") /\ UNCHANGED active

low_remove ==
    /\ at("low_remove") /\ goto("low_create") /\ running /\ works /\ outside
    /\ disk' = [disk EXCEPT !.file = None] /\ UNCHANGED <<active, fstab, ids>>

low_create ==
    /\ at("low_create") /\ outside /\ running
    /\ create_swapfile("file", helper.size, goto("low_on"), goto("low_undo"))

low_on ==
    /\ at("low_on") /\ outside /\ running /\ UNCHANGED <<disk, fstab, ids>>
    /\ \/ active' = TRUE /\ goto("entry") /\ works
       \/ may_fail /\ goto("low_undo") /\ UNCHANGED active

low_undo ==
    /\ at("low_undo") /\ goto("low_recreate") /\ running /\ works /\ outside
    /\ disk' = [disk EXCEPT !.file = None] /\ UNCHANGED <<active, fstab, ids>>

low_recreate ==
    /\ at("low_recreate") /\ outside
    /\ create_swapfile("file", helper.old.size,
         IF helper.was THEN goto("undo_on") /\ running ELSE exits("recreated"),
         exits("recreated"))

-----------------------------------------------------------------------------
(* set_swappiness and persist_zswap, called by the task *)

task(step) ==
    /\ at("none") /\ job.todo # <<>> /\ Head(job.todo) = step
    /\ UNCHANGED <<system, resume, helper, view, last, counters>>
next == job' = [job EXCEPT !.todo = Tail(@)]

apply_live ==
    /\ task("live") /\ UNCHANGED zswap
    /\ \/ swappiness' = [swappiness EXCEPT !.live = job.sw] /\ works /\ next
       \/ may_fail /\ job' = [job EXCEPT !.todo = Tail(@), !.late = TRUE]
          /\ UNCHANGED swappiness

\* An error is reported if both fail.
write_sysctl_conf ==
    /\ task("conf") /\ UNCHANGED zswap
    /\ \/ swappiness' = [swappiness EXCEPT !.conf = job.sw] /\ works /\ next
       \/ may_fail /\ job' = [job EXCEPT !.todo = Tail(@), !.err = @ \/ job.late]
          /\ UNCHANGED swappiness

\* Any of the calls of persist_zswap fails; the rest are not made.
persist_fails ==
    /\ job' = [job EXCEPT !.todo = <<>>, !.err = TRUE] /\ may_fail /\ UNCHANGED zswap

write_zswap_config ==
    /\ task("zconf") /\ UNCHANGED swappiness
    /\ (zswap' = [zswap EXCEPT !.conf = job.z] /\ works /\ next) \/ persist_fails

enable_zswap_unit ==
    /\ task("zenable") /\ UNCHANGED swappiness
    /\ (zswap' = [zswap EXCEPT !.enabled = TRUE] /\ works /\ next) \/ persist_fails

restart_zswap ==
    /\ task("zrestart") /\ UNCHANGED swappiness
    /\ (zswap' = [zswap EXCEPT !.now = zswap.conf] /\ works /\ next) \/ persist_fails

persist_zswap == <<"zconf", "zenable", "zrestart">>

-----------------------------------------------------------------------------
(* check_hibernation and SwapView *)

managed_swapfile_is_target == disk.file # None /\ resume # None

aggregate_active == active \/ Partition

maximum_swapfile_size ==
    LET budget == IF Free + Size(disk.file) > Reserve THEN Free + Size(disk.file) - Reserve ELSE 0
    IN  IF budget > Size(disk.file) THEN budget ELSE Size(disk.file)

\* What zswap is like is only read, and its rows shown, while there is swap.
read_zswap ==
    IF aggregate_active
      THEN [shown |-> TRUE, rows |-> zswap.now.on, on |-> zswap.now.on,
            comp |-> zswap.now.comp, orig |-> zswap.now.comp]
      ELSE [shown |-> FALSE, rows |-> FALSE, on |-> view.zon, comp |-> view.comp,
            orig |-> view.ocomp]

\* refresh_data
refreshed ==
    [open |-> TRUE, running |-> FALSE, confirm |-> FALSE, declined |-> FALSE,
     switch |-> active, orig |-> Size(disk.file),
     can_toggle |-> active \/ (Supported /\ disk.file # None),
     can_resize |-> /\ Supported /\ ~managed_swapfile_is_target
                    /\ disk.file # None \/ maximum_swapfile_size > 0,
     can_remove |-> ~Supported /\ disk.file # None /\ ~active,
     upper |-> maximum_swapfile_size,
     osw |-> swappiness.live,
     zshown |-> read_zswap.shown, zrows |-> read_zswap.rows, zon |-> read_zswap.on,
     comp |-> read_zswap.comp, ocomp |-> read_zswap.orig]

Closed ==
    [open |-> FALSE, running |-> FALSE, confirm |-> FALSE, declined |-> FALSE,
     switch |-> FALSE, orig |-> 0, can_toggle |-> FALSE, can_resize |-> FALSE,
     can_remove |-> FALSE, upper |-> 0, osw |-> 0, zshown |-> FALSE, zrows |-> FALSE,
     zon |-> FALSE, comp |-> Default, ocomp |-> Unknown]

at_rest == UNCHANGED <<system, resume, settings, helper, last, faults, losses, data>>

\* The page is shown: the window refreshes it.
refresh_views ==
    /\ ~view.running /\ ~view.confirm /\ view' = refreshed /\ view' # view
    /\ at_rest /\ UNCHANGED <<job, ops>>

run_op(todo, size, sw, z, plain) ==
    /\ ~view.running
    /\ job' = [NoJob EXCEPT !.todo = todo, !.size = size, !.sw = sw, !.z = z, !.plain = plain]

input == view.open /\ ~view.running /\ ~view.confirm /\ ops < MaxOps /\ ops' = ops + 1

\* The switch is flipped: nothing to do, a question, or the operation.
toggle_swap ==
    /\ input /\ view.can_toggle /\ at_rest
    /\ LET enable == ~view.switch
           flipped == [view EXCEPT !.switch = enable]
       IN  IF enable = active THEN view' = flipped /\ UNCHANGED job
           ELSE IF active /\ managed_swapfile_is_target
             THEN view' = [flipped EXCEPT !.confirm = TRUE] /\ UNCHANGED job
           ELSE /\ run_op(<<IF active THEN "disable" ELSE "enable">>, 0, 0, job.z, FALSE)
                /\ view' = [flipped EXCEPT !.running = TRUE]

answer_confirm ==
    /\ view.confirm /\ at_rest /\ UNCHANGED ops
    /\ \/ run_op(<<"disable">>, 0, 0, job.z, FALSE)
          /\ view' = [view EXCEPT !.confirm = FALSE, !.running = TRUE]
       \/ view' = [view EXCEPT !.confirm = FALSE, !.declined = TRUE] /\ UNCHANGED job

toggle_zswap ==
    /\ input /\ view.zshown /\ at_rest
    /\ run_op(persist_zswap, 0, 0, [on |-> ~view.zon, comp |-> view.comp], FALSE)
    /\ view' = [view EXCEPT !.zon = ~@, !.running = TRUE]

remove_incompatible ==
    /\ input /\ view.can_remove /\ at_rest
    /\ run_op(<<"resize">>, 0, 0, job.z, FALSE)
    /\ view' = [view EXCEPT !.running = TRUE]

zswap_changed(comp) == comp # view.ocomp

\* Some controls are moved and the button that appears is pressed.
apply_all ==
    /\ input /\ at_rest
    /\ \E sz \in {view.orig} \cup IF view.can_resize THEN {n \in Sizes : n <= view.upper} ELSE {},
          sw \in {view.osw} \cup IF view.zshown THEN {1, 2} ELSE {},
          comp \in {view.comp} \cup IF view.zrows THEN Comps ELSE {} :
         /\ <<sz, sw, comp>> # <<view.orig, view.osw, view.comp>>
         /\ sz = view.orig \/ ~managed_swapfile_is_target
         /\ run_op((IF sz # view.orig THEN <<"resize">> ELSE <<>>) \o <<"live", "conf">>
                     \o (IF zswap_changed(comp) THEN persist_zswap ELSE <<>>),
                   sz, sw, [on |-> view.zon, comp |-> comp], comp = view.comp)
         /\ view' = [view EXCEPT !.running = TRUE, !.comp = comp]

\* The task is done: the page is read again, an error is shown.
finish_op ==
    /\ view.running /\ job.todo = <<>> /\ at("none")
    /\ view' = refreshed
    /\ at_rest /\ UNCHANGED <<job, ops>>

\* Other programs write to the disk, between the operations of the helper.
write_data ==
    /\ at("none") /\ data < MaxData /\ Free >= 2 /\ data' = data + 2
    /\ UNCHANGED <<system, resume, settings, helper, job, view, last, ops, faults, losses>>

Unformatted == [size |-> helper.size, id |-> ids, ok |-> FALSE]

\* Power loss and the next start of the system: swap as fstab says.
power_loss ==
    /\ losses < MaxLosses /\ losses' = losses + 1
    /\ helper' = NoHelper /\ job' = NoJob /\ view' = Closed /\ last' = None
    /\ \/ UNCHANGED disk
       \/ at("create") /\ disk' = [disk EXCEPT !.temp = Unformatted]
       \/ at("low_create") /\ disk' = [disk EXCEPT !.file = Unformatted]
    /\ active' = (fstab /\ Usable(disk'.file))
    /\ swappiness' = [swappiness EXCEPT !.live = swappiness.conf]
    /\ zswap' = [zswap EXCEPT !.now = IF zswap.enabled THEN zswap.conf
                                      ELSE [on |-> FALSE, comp |-> Default]]
    /\ ids' = ids + 1
    /\ UNCHANGED <<fstab, resume, data, ops, faults>>

Init ==
    /\ \E f \in {None, [size |-> 4, id |-> 0, ok |-> TRUE]}, a \in BOOLEAN, r \in Resumes :
         /\ disk = [file |-> f, temp |-> None, backup |-> None]
         /\ active = (a /\ f # None) /\ fstab = (a /\ f # None)
         /\ resume = IF r /\ f # None THEN 0 ELSE None
    /\ swappiness = [live |-> 1, conf |-> 1]
    /\ zswap = [now |-> [on |-> FALSE, comp |-> Default],
                conf |-> [on |-> FALSE, comp |-> Default], enabled |-> FALSE]
    /\ helper = NoHelper /\ job = NoJob /\ view = Closed /\ last = None
    /\ ops = 0 /\ faults = 0 /\ losses = 0 /\ ids = 1 /\ data = 0

HelperStep ==
    \/ call \/ refused \/ swapfile_enable \/ ensure_swapfile_fstab_entry \/ swapfile_disable
    \/ remove_swapfile_fstab_entry \/ remove \/ swapfile_resize \/ create \/ off \/ away
    \/ in \/ on \/ drop \/ undo \/ undo_move \/ undo_on \/ low_off \/ low_remove
    \/ low_create \/ low_on \/ low_undo \/ low_recreate

TaskStep ==
    \/ apply_live \/ write_sysctl_conf \/ write_zswap_config \/ enable_zswap_unit
    \/ restart_zswap \/ finish_op

UserStep ==
    \/ refresh_views \/ toggle_swap \/ answer_confirm \/ toggle_zswap
    \/ remove_incompatible \/ apply_all

Next == HelperStep \/ TaskStep \/ UserStep \/ write_data \/ power_loss

Spec == Init /\ [][Next]_vars

\* The commands of the helper and of the task end, one way or the other.
LiveSpec == Spec /\ WF_vars(HelperStep) /\ WF_vars(TaskStep)

-----------------------------------------------------------------------------
(* Properties *)

File == [size : Nat, id : Nat, ok : BOOLEAN]

\* The state is well typed, and swap is only in use on a formatted file.
TypeOK ==
    /\ {disk.file, disk.temp, disk.backup} \subseteq File \cup {None}
    /\ active => Usable(disk.file)
    /\ fstab \in BOOLEAN /\ resume \in {None, 0} /\ Free >= 0

Settled == at("none") /\ last # None
             /\ (job.todo = <<>> \/ Head(job.todo) \notin {"enable", "disable", "resize"})

\* swapfile_resize: whatever it does on its way, it takes no space from the
\* reserve of the system, except to give a previous file its size back.
ReserveKept ==
    Free' < Free /\ data' = data => Free' >= Reserve \/ helper.at = "low_recreate"

\* swapfile_resize: a formatted file of the old or new size is there at all
\* times while it is replaced with space to spare, power losses included.
Kept == Usable(disk.file) \/ Usable(disk.backup)
OldFileKept ==
    Kept /\ ~Kept' => \/ helper.at \in {"remove", "low_remove", "low_undo"}
                      \/ helper.at = "undo" /\ ~Usable(helper.old)

\* The helper: what it reports as done is done for this and the next start
\* of the system.
ReportedDone ==
    Settled /\ last.msg = "ok" =>
      IF last.op = "enable" \/ (last.op = "resize" /\ last.size > 0)
        THEN /\ active /\ fstab
             /\ (last.op = "resize" => /\ disk.file.size = last.size
                                       /\ disk.temp = None /\ disk.backup = None)
        ELSE ~active /\ ~fstab /\ (last.op = "resize" => disk.file = None)

\* swapfile_resize: the file that it says is unchanged, restored or
\* recreated is there, and in use if it was.
FailureHarmless ==
    Settled =>
      /\ last.msg \in {"unchanged", "restored"} => disk.file = last.old /\ active = last.was
      /\ last.msg = "recreated" => /\ Usable(disk.file) /\ disk.file.size = last.old.size
                                   /\ active = last.was

\* SwapView: the switch shows whether the file is in use, unless the user
\* has just declined to turn it off.
SwitchAgrees ==
    view.open /\ ~view.running /\ ~view.confirm /\ ~view.declined => view.switch = active

\* apply_all: the file the system resumes from keeps its place on the disk,
\* also while it is not in use.
ResumeTargetKept == resume # None => disk.file # None /\ disk.file.id = resume

\* apply_all: changes of the size or of swappiness alone leave zswap alone.
PlainApplyLeavesZswap ==
    job.plain => \A i \in DOMAIN job.todo : job.todo[i] \notin {"zconf", "zenable", "zrestart"}

\* set_swappiness: what is reported as set is set now and for the next start.
SwappinessSet ==
    view.open /\ ~view.running /\ job.sw # 0 /\ ~job.err =>
      swappiness = [live |-> job.sw, conf |-> job.sw]

\* swapfile_resize: paths are switched at once; the next start finds the
\* file fstab names.
BootsWithSwap == ~view.open /\ losses > 0 /\ fstab => active

\* run_op: every operation comes to its end, and the page can be used again.
Begun == <<view.running>>
Over == <<~view.running>>
Progress == Begun[1] ~> Over[1]
=============================================================================
