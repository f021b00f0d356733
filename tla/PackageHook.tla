---------------------------- MODULE PackageHook ----------------------------
(***************************************************************************)
(* APT's snapshot hook (package_hook.rs, package_transaction.rs): one      *)
(* pending record around the change of packages, snapshots before and      *)
(* after it as the policy asks, and no failure that stops APT.  The record *)
(* is created under start.lock; updating and archiving it take no lock.    *)
(***************************************************************************)
EXTENDS SnapshotStore

CONSTANT Apt       \* the actor that runs the hook

VARIABLES
    pkg,      \* transactions/pending-package.json
    hook      \* where the hook, and the APT run around it, is

packageVars == <<pkg, hook>>

Phases == {"PreparingPre", "AwaitingPost", "Complete", "Interrupted"}
PackageTransactions == [phase : Phases, pre : Ids \cup {NoId}, post : Ids \cup {NoId}]
NewPackageTransaction == [phase |-> "PreparingPre", pre |-> NoId, post |-> NoId]
NoPackage == None

AptAssumption == Apt \in Hooks /\ None \notin PackageTransactions

TerminalPhase(p) == p.phase \in {"Complete", "Interrupted"}

ValidPackageTransaction(p) ==
    /\ p.phase = "PreparingPre" => p.pre = NoId /\ p.post = NoId
    /\ p.phase \in {"AwaitingPost", "Interrupted"} => p.post = NoId
    /\ p.phase = "Complete" => p.pre # NoId \/ p.post # NoId

(* What the policy asks for is read again by every hook.                   *)
Hook == [step : {"idle", "begun", "pre", "packages", "post"}, before : BOOLEAN, after : BOOLEAN]

RecordPre(p, i) == [p EXCEPT !.pre = i, !.phase = "AwaitingPost"]
SkipPre(p) == [p EXCEPT !.phase = "AwaitingPost"]
RecordPost(p, i) == [p EXCEPT !.post = i, !.phase = "Complete"]
CompleteWithoutPost(p) == [p EXCEPT !.phase = "Complete"]
Interrupt(p) == [p EXCEPT !.phase = "Interrupted", !.post = NoId]

PackageRefers(i) == pkg # NoPackage /\ (pkg.pre = i \/ pkg.post = i)

NoHook == [step |-> "idle", before |-> FALSE, after |-> FALSE]
PackageInit == pkg = NoPackage /\ hook = NoHook

(* archive replaces the record by a terminal one and then moves it away.   *)
Archive(p) ==
    /\ TerminalPhase(p) /\ ValidPackageTransaction(p)
    /\ pkg' = NoPackage

Step(to) == hook' = IF to \in {"begun", "pre"} THEN [hook EXCEPT !.step = to] ELSE [NoHook EXCEPT !.step = to]
----------------------------------------------------------------------------
(* Mutant: a pending rollback does not stop the hook.                      *)
BeginIgnoringRollback(before, after) ==
    /\ hook.step = "idle" /\ (before \/ after)
    /\ startLock = NoActor
    /\ pkg' = NewPackageTransaction
    /\ hook' = [step |-> "begun", before |-> before, after |-> after]
    /\ UNCHANGED storeVars

(* begin_transaction, which interrupts and archives what a dead run left.  *)
BeginTransaction(before, after) ==
    /\ hook.step = "idle" /\ (before \/ after)
    /\ startLock = NoActor
    /\ pending = NoPending
    /\ pkg' = NewPackageTransaction
    /\ hook' = [step |-> "begun", before |-> before, after |-> after]
    /\ UNCHANGED storeVars

(* No snapshot is wanted, or a rollback owns the boundary: packages change *)
(* all the same.                                                           *)
HookSteppedOver(before, after) ==
    /\ hook.step = "idle"
    /\ ~(before \/ after) \/ pending # NoPending
    /\ Step("packages")
    /\ UNCHANGED <<storeVars, pkg>>

HookSkipPre ==
    /\ hook.step = "begun" /\ ~hook.before
    /\ pkg' = SkipPre(pkg)
    /\ Step("packages")
    /\ UNCHANGED storeVars

HookCreatePre ==
    /\ hook.step = "begun" /\ hook.before
    /\ CreateStart(Apt, "AptPre", FALSE)
    /\ Step("pre")
    /\ UNCHANGED pkg

(* The lock is busy, space is short, or the history is being purged.       *)
HookCreateRefused ==
    /\ hook.step = "begun" /\ hook.before
    /\ Archive(Interrupt(pkg))
    /\ Step("packages")
    /\ UNCHANGED storeVars

EndJob == job' = [job EXCEPT ![Apt] = Idle]

HookPreDone ==
    /\ hook.step = "pre" /\ At(Apt, "done")
    /\ IF hook.after THEN pkg' = RecordPre(pkg, job[Apt].id)
                     ELSE Archive(CompleteWithoutPost(RecordPre(pkg, job[Apt].id)))
    /\ Step("packages") /\ EndJob
    /\ UNCHANGED <<rec, sub, lin, opLock, startLock, browsed, fresh, halfUndone>>

HookPreFailed ==
    /\ hook.step = "pre" /\ At(Apt, "failed")
    /\ Archive(Interrupt(pkg))
    /\ Step("packages") /\ EndJob
    /\ UNCHANGED <<rec, sub, lin, opLock, startLock, browsed, fresh, halfUndone>>

PostAwaited == hook.step = "packages" /\ pkg # NoPackage /\ pkg.phase = "AwaitingPost"

(* after_packages with no snapshot to take.                                *)
PostWithoutSnapshot(after) ==
    /\ hook.step = "packages"
    /\ ~(after /\ PostAwaited)
    /\ IF pkg # NoPackage /\ (IF after THEN ~TerminalPhase(pkg) ELSE pkg.phase = "AwaitingPost")
       THEN Archive(IF ~after /\ pkg.pre # NoId THEN CompleteWithoutPost(pkg) ELSE Interrupt(pkg))
       ELSE UNCHANGED pkg
    /\ Step("idle")
    /\ UNCHANGED storeVars

HookCreatePost ==
    /\ PostAwaited
    /\ CreateStart(Apt, "AptPost", FALSE)
    /\ Step("post")
    /\ UNCHANGED pkg

HookPostRefused ==
    /\ PostAwaited
    /\ Archive(Interrupt(pkg))
    /\ Step("idle")
    /\ UNCHANGED storeVars

HookPostDone ==
    /\ hook.step = "post" /\ At(Apt, "done")
    /\ Archive(RecordPost(pkg, job[Apt].id))
    /\ Step("idle") /\ EndJob
    /\ UNCHANGED <<rec, sub, lin, opLock, startLock, browsed, fresh, halfUndone>>

HookPostFailed ==
    /\ hook.step = "post" /\ At(Apt, "failed")
    /\ Archive(Interrupt(pkg))
    /\ Step("idle") /\ EndJob
    /\ UNCHANGED <<rec, sub, lin, opLock, startLock, browsed, fresh, halfUndone>>

(* APT, or the machine, dies outside a job of the store; in the middle of  *)
(* archive it leaves a terminal record in place.                           *)
HookDies ==
    /\ hook.step # "idle" /\ job[Apt].step \in {"idle", "done", "failed"}
    /\ pkg' = pkg \/ (pkg # NoPackage /\ ~TerminalPhase(pkg) /\ pkg' = Interrupt(pkg))
    /\ Step("idle") /\ EndJob
    /\ UNCHANGED <<rec, sub, lin, opLock, startLock, browsed, fresh, halfUndone>>
============================================================================
