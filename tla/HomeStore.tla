------------------------------ MODULE HomeStore ------------------------------
(***************************************************************************)
(* The store of Home snapshots (personal.rs) with the rollback that resets *)
(* Home and the purge that a confirmed factory reset asks for              *)
(* (history_cleanup.rs).  operation.lock and start.lock are waited for, a  *)
(* browse lock is tried.  verify takes no lock.                            *)
(***************************************************************************)
EXTENDS Integers, FiniteSets

CONSTANTS
    MaxHomes,          \* bound: Home snapshots ever created
    Actors,            \* processes that use the engine
    Coord,             \* the one that schedules and settles rollbacks
    NoActor,
    None,
    CreateKinds,       \* what the other actors create
    Restores,          \* rollbacks of Home that are requested: purge or not
    Reading,           \* whether Home snapshots are browsed and pinned
    MaxFaults          \* bound: steps that fail and processes that die

Ids == 1..MaxHomes
Kinds == {"Manual", "Automatic", "Imported", "Factory"}

VARIABLES
    rec,        \* rec[i]: personal/metadata/<i>.json
    dir,        \* dir[i]: personal/snapshots/<i>: none, empty, or holding home
    job,        \* job[a]: what actor a is doing
    homeLock,   \* holder of personal/operation.lock
    startLock,  \* holder of transactions/start.lock
    reader,     \* a browser: where it is, and in which snapshot
    fresh,      \* snapshots younger than the scheduled interval
    torn,       \* snapshots whose write of Ready reported an error
    coord,      \* where the coordinator is
    pending,    \* transactions/pending.json, as far as Home is concerned
    faults

storeVars == <<rec, dir, job, homeLock, startLock, fresh, torn>>
vars == <<storeVars, reader, coord, pending, faults>>

States == {"Creating", "Ready", "Broken", "Deleting"}
Records == [kind : Kinds, state : States, pinned : BOOLEAN, uuid : BOOLEAN]
(* Mutant: a baseline is not pinned.                                       *)
UnpinnedRecord(k) ==
    [kind |-> k, state |-> "Creating", pinned |-> FALSE, uuid |-> k = "Imported"]

NewRecord(k) ==
    [kind |-> k, state |-> "Creating", pinned |-> k = "Factory", uuid |-> k = "Imported"]
ValidRecord(r) == (r.kind = "Factory" => r.pinned) /\ (r.state = "Ready" => r.uuid)

Modes == {"user", "factory", "purge"}
Jobs == [step : {"idle", "mkdir", "snapshot", "commit", "breakRecord", "breakDir",
                 "dLock", "dCheck", "dDir", "dRecord"},
         id : Ids \cup {None}, mode : Modes]
Idle == [step |-> "idle", id |-> None, mode |-> "user"]
Coords == [step : {"idle", "ready", "fallback", "bind", "bound", "purge"},
           target : Ids \cup {None}, fallback : Ids \cup {None}, purge : BOOLEAN]
CoordIdle == [step |-> "idle", target |-> None, fallback |-> None, purge |-> FALSE]
Pendings == [home : Ids, fallback : Ids, purge : BOOLEAN,
             outcome : {"none", "confirmed", "reverted"}]
Readers == [step : {"closed", "verified", "leased", "open"}, id : Ids \cup {None}]
Closed == [step |-> "closed", id |-> None]

HomeAssumption ==
    /\ MaxHomes \in Nat /\ MaxFaults \in Nat
    /\ Coord \in Actors /\ NoActor \notin Actors
    /\ CreateKinds \subseteq Kinds /\ Restores \subseteq BOOLEAN
    /\ None \notin Records

Exists(i) == rec[i] # None
CanDelete(r) == ~r.pinned

(* discover: a record without its snapshot is an issue, unless the record  *)
(* is Deleting.                                                            *)
Issue(i) == Exists(i) /\ dir[i] # "home" /\ rec[i].state # "Deleting"
Found == {i \in Ids : Exists(i) /\ ~Issue(i)}
NoIssues == \A i \in Ids : ~Issue(i)
Factories == {i \in Found : rec[i].kind = "Factory"}

Verified(i) == Exists(i) /\ rec[i].state = "Ready" /\ dir[i] = "home"

Due == ~ \E i \in Found \cap fresh :
             rec[i].state = "Ready" /\ rec[i].kind \in {"Manual", "Automatic"}

CreationAllowed == ~(pending # None /\ pending.purge)

TypeOK ==
    /\ rec \in [Ids -> Records \cup {None}]
    /\ dir \in [Ids -> {"none", "empty", "home"}]
    /\ job \in [Actors -> Jobs]
    /\ homeLock \in Actors \cup {NoActor} /\ startLock \in Actors \cup {NoActor}
    /\ reader \in Readers /\ fresh \subseteq Ids /\ torn \subseteq Ids
    /\ coord \in Coords /\ pending \in Pendings \cup {None} /\ faults \in 0..MaxFaults
    /\ \A i \in Ids : Exists(i) => ValidRecord(rec[i])

Init ==
    /\ rec = [i \in Ids |-> None] /\ dir = [i \in Ids |-> "none"]
    /\ job = [a \in Actors |-> Idle]
    /\ homeLock = NoActor /\ startLock = NoActor
    /\ reader = Closed /\ fresh = {} /\ torn = {}
    /\ coord = CoordIdle /\ pending = None /\ faults = 0

At(a, step) == job[a].step = step
Goto(a, step) == job' = [job EXCEPT ![a].step = step]
Finish(a) ==
    /\ job' = [job EXCEPT ![a] = Idle]
    /\ homeLock' = IF homeLock = a THEN NoActor ELSE homeLock
    /\ startLock' = IF startLock = a THEN NoActor ELSE startLock
WriteRecord(i, r) == ValidRecord(r) /\ rec' = [rec EXCEPT ![i] = r]
----------------------------------------------------------------------------
(* Ids are UUIDs: none is given again while anything still refers to it.   *)
Unused == {i \in Ids : /\ ~Exists(i) /\ dir[i] = "none" /\ i \notin fresh \cup torn
                       /\ i \notin {reader.id, coord.target, coord.fallback}}

(* create_factory_if_missing and create_scheduled_if_due decide with the   *)
(* lock held.                                                              *)
FactoryIfMissing(k) == k = "Factory" => NoIssues /\ Factories = {}

ScheduledIfDue(k) == k = "Automatic" => Due

CreateStart(a, k) ==
    /\ At(a, "idle") /\ homeLock = NoActor
    /\ FactoryIfMissing(k) /\ ScheduledIfDue(k) /\ CreationAllowed
    /\ \E i \in Unused :
           /\ \A j \in Unused : i <= j
           /\ rec' = [rec EXCEPT ![i] = NewRecord(k)]
           /\ job' = [job EXCEPT ![a] = [step |-> "mkdir", id |-> i, mode |-> "user"]]
           /\ fresh' = fresh \cup {i}
    /\ homeLock' = a
    /\ UNCHANGED <<dir, startLock, torn>>

CreateDirectory(a) ==
    /\ At(a, "mkdir") /\ Goto(a, "snapshot")
    /\ dir' = [dir EXCEPT ![job[a].id] = "empty"]
    /\ UNCHANGED <<rec, homeLock, startLock, fresh, torn>>

(* The snapshot of /home, or the rename of one received in staging.        *)
CreateSnapshot(a) ==
    /\ At(a, "snapshot") /\ Goto(a, "commit")
    /\ dir' = [dir EXCEPT ![job[a].id] = "home"]
    /\ UNCHANGED <<rec, homeLock, startLock, fresh, torn>>

CreateReady(a) ==
    /\ At(a, "commit") /\ Finish(a)
    /\ WriteRecord(job[a].id, [rec[job[a].id] EXCEPT !.state = "Ready", !.uuid = TRUE])
    /\ UNCHANGED <<dir, fresh, torn>>

(* A step fails; the write of Ready may have reached the disk although it  *)
(* reports an error.  A creation records the failure and then removes what *)
(* it made; an import does so the other way round.  Both ignore that one   *)
(* or the other fails in turn.                                             *)
CreateFails(a) ==
    /\ job[a].step \in {"mkdir", "snapshot", "commit"}
    /\ Goto(a, IF rec[job[a].id].kind = "Imported" THEN "breakDir" ELSE "breakRecord")
    /\ \/ UNCHANGED <<rec, torn>>
       \/ /\ At(a, "commit") /\ torn' = torn \cup {job[a].id}
          /\ WriteRecord(job[a].id, [rec[job[a].id] EXCEPT !.state = "Ready", !.uuid = TRUE])
    /\ UNCHANGED <<dir, homeLock, startLock, fresh>>

AfterBreakRecord(a) ==
    /\ At(a, "breakRecord")
    /\ IF rec[job[a].id].kind = "Imported"
       THEN Finish(a) ELSE Goto(a, "breakDir") /\ UNCHANGED <<homeLock, startLock>>
    /\ UNCHANGED <<dir, fresh, torn>>
BreakRecord(a) ==
    /\ AfterBreakRecord(a)
    /\ WriteRecord(job[a].id, [rec[job[a].id] EXCEPT !.state = "Broken"])
BreakUnrecorded(a) == AfterBreakRecord(a) /\ UNCHANGED rec

AfterBreakDirectory(a) ==
    /\ At(a, "breakDir")
    /\ IF rec[job[a].id].kind = "Imported"
       THEN Goto(a, "breakRecord") /\ UNCHANGED <<homeLock, startLock>> ELSE Finish(a)
    /\ UNCHANGED <<rec, fresh, torn>>
BreakDirectory(a) ==
    /\ AfterBreakDirectory(a)
    /\ dir' = [dir EXCEPT ![job[a].id] = "none"]
BreakDirectoryFails(a) ==
    /\ AfterBreakDirectory(a)
    /\ dir[job[a].id] # "none"
    /\ \E left \in {"empty", dir[job[a].id]} : dir' = [dir EXCEPT ![job[a].id] = left]
----------------------------------------------------------------------------
(* delete_locked                                                           *)
DeleteStart(a, i, mode) ==
    /\ At(a, "idle") /\ homeLock = NoActor /\ Exists(i)
    /\ mode = "factory" => rec[i].kind = "Factory"
    /\ job' = [job EXCEPT ![a] = [step |-> "dLock", id |-> i, mode |-> mode]]
    /\ homeLock' = a
    /\ UNCHANGED <<rec, dir, startLock, fresh, torn>>

DeleteLock(a) ==
    /\ At(a, "dLock") /\ startLock = NoActor
    /\ startLock' = a /\ Goto(a, "dCheck")
    /\ UNCHANGED <<rec, dir, homeLock, fresh, torn>>

Consent == pending # None /\ pending.purge /\ pending.outcome = "confirmed"

(* Mutant: only the target of the rollback is protected.                   *)
DeletionForgetsFallback(i, mode) ==
    /\ ~(pending # None /\ pending.home = i)
    /\ ~(reader.step \in {"leased", "open"} /\ reader.id = i)
    /\ rec[i].kind = "Factory" => mode = "factory"
    /\ mode = "user" => CanDelete(rec[i])

DeletionAllowed(i, mode) ==
    /\ ~(pending # None /\ (pending.home = i \/ (pending.fallback = i /\ mode # "purge")))
    /\ ~(reader.step \in {"leased", "open"} /\ reader.id = i)
    /\ rec[i].kind = "Factory" => mode = "factory"
    /\ mode = "user" => CanDelete(rec[i])
    /\ mode = "purge" => Consent

DeleteMark(a) ==
    /\ At(a, "dCheck") /\ DeletionAllowed(job[a].id, job[a].mode)
    /\ WriteRecord(job[a].id, [rec[job[a].id] EXCEPT !.state = "Deleting"])
    /\ Goto(a, "dDir")
    /\ UNCHANGED <<dir, homeLock, startLock, fresh, torn>>

DeleteRefused(a) ==
    /\ At(a, "dCheck") /\ ~DeletionAllowed(job[a].id, job[a].mode)
    /\ Finish(a)
    /\ UNCHANGED <<rec, dir, fresh, torn>>

DeleteDirectory(a) ==
    /\ At(a, "dDir") /\ Goto(a, "dRecord")
    /\ dir' = [dir EXCEPT ![job[a].id] = "none"]
    /\ UNCHANGED <<rec, homeLock, startLock, fresh, torn>>

DeleteRecord(a) ==
    /\ At(a, "dRecord") /\ Finish(a)
    /\ rec' = [rec EXCEPT ![job[a].id] = None]
    /\ UNCHANGED <<dir, fresh, torn>>

(* A step of a deletion fails, or the process of any job dies.             *)
JobEnds(a) == ~At(a, "idle") /\ Finish(a) /\ UNCHANGED <<rec, dir, fresh, torn>>

(* set_pinned; rename writes the same record with another title.           *)
SetPinned(i, p) ==
    /\ homeLock = NoActor /\ Exists(i)
    /\ rec[i].state = "Ready" /\ rec[i].kind # "Factory"
    /\ WriteRecord(i, [rec[i] EXCEPT !.pinned = p])
    /\ UNCHANGED <<dir, job, homeLock, startLock, fresh, torn>>
----------------------------------------------------------------------------
(* browser: verify, a shared browse lock, and the directory itself.        *)
Deleting(i) == \E a \in Actors : job[a].id = i /\ job[a].step \in {"dDir", "dRecord"}

BrowseVerify(i) == reader.step = "closed" /\ Verified(i) /\ reader' = [step |-> "verified", id |-> i]
BrowseLease == /\ reader.step = "verified" /\ ~Deleting(reader.id)
               /\ reader' = [reader EXCEPT !.step = "leased"]
BrowseOpen == /\ reader.step = "leased"
              /\ reader' = IF dir[reader.id] = "home" THEN [reader EXCEPT !.step = "open"] ELSE Closed
BrowseClose == reader.step # "closed" /\ reader' = Closed

IntervalPasses == fresh' = {} /\ UNCHANGED <<rec, dir, job, homeLock, startLock, torn>>
----------------------------------------------------------------------------
(* The coordinator: verify_home or verify_factory_home, the safety         *)
(* snapshot of Home, and the binding of both under start.lock.             *)
ValidateReady(t, purge) ==
    /\ coord.step = "idle" /\ At(Coord, "idle") /\ pending = None
    /\ Verified(t) /\ (purge => NoIssues /\ Factories = {t})
    /\ coord' = [step |-> "ready", target |-> t, fallback |-> None, purge |-> purge]
    /\ UNCHANGED <<storeVars, pending>>

CreateFallback ==
    /\ coord.step = "ready" /\ CreateStart(Coord, "Manual")
    /\ coord' = [coord EXCEPT !.step = "fallback", !.fallback = job'[Coord].id]
    /\ UNCHANGED pending

(* create returned without an error: the record is Ready, and not because  *)
(* the write that made it so was reported to have failed.                  *)
FallbackMade == coord.step = "fallback" /\ At(Coord, "idle") /\ Exists(coord.fallback)
                /\ rec[coord.fallback].state = "Ready" /\ coord.fallback \notin torn

BindLock ==
    /\ FallbackMade /\ startLock = NoActor
    /\ startLock' = Coord /\ coord' = [coord EXCEPT !.step = "bind"]
    /\ UNCHANGED <<rec, dir, job, homeLock, fresh, torn, pending>>

BindAllowed == Verified(coord.target) /\ Verified(coord.fallback)

BindVerify ==
    /\ coord.step = "bind" /\ BindAllowed
    /\ coord' = [coord EXCEPT !.step = "bound"]
    /\ UNCHANGED <<storeVars, pending>>

BindCreate ==
    /\ coord.step = "bound" /\ Finish(Coord) /\ coord' = CoordIdle
    /\ pending' = [home |-> coord.target, fallback |-> coord.fallback,
                   purge |-> coord.purge, outcome |-> "none"]
    /\ UNCHANGED <<rec, dir, fresh, torn>>

(* Scheduling gives up: the safety snapshot failed or a target is gone.    *)
ScheduleFails ==
    /\ \/ coord.step = "ready" /\ homeLock = NoActor /\ Unused = {}
       \/ coord.step = "fallback" /\ At(Coord, "idle") /\ ~FallbackMade
       \/ coord.step = "bind" /\ ~BindAllowed
    /\ Finish(Coord) /\ coord' = CoordIdle
    /\ UNCHANGED <<rec, dir, fresh, torn, pending>>

CoordDies ==
    /\ coord.step \in {"ready", "bind", "bound"} /\ Finish(Coord) /\ coord' = CoordIdle
    /\ UNCHANGED <<rec, dir, fresh, torn>>

Cancel ==
    /\ coord.step = "idle" /\ pending # None /\ pending.outcome = "none"
    /\ pending' = None
    /\ UNCHANGED <<storeVars, coord>>

(* The restart into the restored system ends every process.                *)
Restart(o) ==
    /\ coord.step = "idle" /\ pending # None /\ pending.outcome = "none"
    /\ pending' = [pending EXCEPT !.outcome = o]
    /\ job' = [a \in Actors |-> Idle] /\ homeLock' = NoActor /\ startLock' = NoActor
    /\ reader' = Closed
    /\ UNCHANGED <<rec, dir, fresh, torn, coord>>
----------------------------------------------------------------------------
(* purge_at, which gives up at the first snapshot it cannot delete; the    *)
(* confirmation service runs again until it is done.                       *)
PurgeReady == Consent /\ coord.step = "idle" /\ NoIssues
              /\ Factories = {pending.home} /\ Verified(pending.home)

PurgeNext ==
    /\ PurgeReady
    /\ \E i \in Found : rec[i].kind # "Factory" /\ DeleteStart(Coord, i, "purge")
    /\ coord' = [coord EXCEPT !.step = "purge"]
    /\ UNCHANGED pending

PurgeStep ==
    /\ coord.step = "purge" /\ At(Coord, "idle") /\ coord' = CoordIdle
    /\ UNCHANGED <<storeVars, pending>>

(* ensure_only_factory_container                                           *)
OnlyFactoryLeft == Found = {pending.home} /\ \A i \in Ids \ {pending.home} : dir[i] = "none"

Settle ==
    /\ pending # None /\ pending.outcome # "none" /\ coord.step = "idle"
    /\ pending.purge /\ pending.outcome = "confirmed" => PurgeReady /\ OnlyFactoryLeft
    /\ pending' = None
    /\ UNCHANGED <<storeVars, coord>>
----------------------------------------------------------------------------
StoreStep(a) ==
    \/ CreateDirectory(a) \/ CreateSnapshot(a) \/ CreateReady(a)
    \/ BreakRecord(a) \/ BreakDirectory(a)
    \/ DeleteLock(a) \/ DeleteMark(a) \/ DeleteRefused(a)
    \/ DeleteDirectory(a) \/ DeleteRecord(a)
UserStep ==
    \/ \E a \in Actors \ {Coord}, k \in CreateKinds : CreateStart(a, k)
    \/ \E a \in Actors \ {Coord}, i \in Ids, mode \in {"user", "factory"} : DeleteStart(a, i, mode)
    \/ \E i \in Ids, p \in BOOLEAN : Reading /\ SetPinned(i, p)
    \/ "Automatic" \in CreateKinds /\ IntervalPasses
CoordStep ==
    \/ \E t \in Ids, purge \in Restores : ValidateReady(t, purge)
    \/ CreateFallback \/ BindLock \/ BindVerify \/ BindCreate \/ ScheduleFails
    \/ Cancel \/ PurgeNext \/ PurgeStep \/ Settle
ReadStep == (Reading /\ \E i \in Ids : BrowseVerify(i)) \/ BrowseLease \/ BrowseOpen \/ BrowseClose

Fault ==
    /\ faults < MaxFaults /\ faults' = faults + 1
    /\ \/ /\ \E a \in Actors : \/ CreateFails(a) \/ BreakUnrecorded(a)
                             \/ BreakDirectoryFails(a) \/ JobEnds(a)
          /\ UNCHANGED coord
       \/ CoordDies
    /\ UNCHANGED <<reader, pending>>

Next ==
    \/ (\E a \in Actors : StoreStep(a)) /\ UNCHANGED <<reader, coord, pending, faults>>
    \/ UserStep /\ UNCHANGED <<reader, coord, pending, faults>>
    \/ CoordStep /\ UNCHANGED <<reader, faults>>
    \/ (\E o \in {"confirmed", "reverted"} : Restart(o)) /\ UNCHANGED faults
    \/ ReadStep /\ UNCHANGED <<storeVars, coord, pending, faults>>
    \/ Fault

Spec == Init /\ [][Next]_vars

(* Fairness: a started job and a started schedule go on, a browser is      *)
(* closed some day, and systemd starts the confirmation service again      *)
(* until it succeeds.                                                      *)
StoreGoes(a) == StoreStep(a) /\ UNCHANGED <<reader, coord, pending, faults>>
CoordGoes == coord.step # "idle" /\ CoordStep /\ UNCHANGED <<reader, faults>>
ReaderGoes == ReadStep /\ reader.step # "closed" /\ UNCHANGED <<storeVars, coord, pending, faults>>
PurgeGoes == PurgeNext /\ UNCHANGED <<reader, faults>>
SettleGoes == Settle /\ UNCHANGED <<reader, faults>>
LiveSpec ==
    /\ Spec
    /\ \A a \in Actors : WF_vars(StoreGoes(a))
    /\ WF_vars(CoordGoes) /\ WF_vars(ReaderGoes) /\ SF_vars(PurgeGoes) /\ SF_vars(SettleGoes)
----------------------------------------------------------------------------
(* As long as a rollback of Home is pending, the Home it restores and the  *)
(* one it would return to are there, unless its own confirmed purge took   *)
(* the latter.  verify takes no lock, so a snapshot whose write of Ready   *)
(* failed may be chosen while it is being removed again.                   *)
HomeRestorePointsExist ==
    pending # None =>
        /\ Verified(pending.home) \/ pending.home \in torn
        /\ Verified(pending.fallback) \/ Consent

(* There is never a second baseline, whatever became of the first.         *)
OneFactoryHome == Cardinality({i \in Ids : Exists(i) /\ rec[i].kind = "Factory"}) <= 1

(* The snapshot somebody has open is there.                                *)
OpenHomeExists == reader.step = "open" /\ reader.id \notin torn => dir[reader.id] = "home"

(* Timers that fire together, or again after a failure, leave one snapshot *)
(* between them.  (A record that stays Ready although its snapshot was     *)
(* removed again, because the write of Broken failed too, is an issue of   *)
(* the store and counts as no snapshot.)                                   *)
OneHomeCatchUp ==
    Cardinality({i \in fresh : Verified(i) /\ rec[i].kind = "Automatic"}) <= 1

(* What is begun is over in the end: nobody waits for ever on a lock, as   *)
(* deletion takes both in one order and the coordinator only the second,   *)
(* and a purge that was interrupted is retried until the history is gone.  *)
Begun == <<homeLock # NoActor, startLock # NoActor, Consent>>
Over == <<homeLock = NoActor, startLock = NoActor, pending = None>>
Progress == \A k \in 1..3 : Begun[k] ~> Over[k]
-----------------------------------------------------------------------------
(* What makes these properties inductive.  A job that is under way holds   *)
(* operation.lock, so there is one at a time, and its record is there.     *)
CreateSteps == {"mkdir", "snapshot", "commit"}
BreakSteps == {"breakRecord", "breakDir"}
MarkedSteps == {"dDir", "dRecord"}
HoldsLocks(a) ==
    /\ ~At(a, "idle") => homeLock = a /\ job[a].id \in Ids /\ Exists(job[a].id)
    /\ job[a].step \in MarkedSteps \cup {"dCheck"} => startLock = a

(* What it has done so far.  Only a snapshot whose write of Ready failed   *)
(* is Ready while it is being removed again.                               *)
JobOK(a) ==
    LET i == job[a].id IN
    /\ job[a].step \in CreateSteps => rec[i].state = "Creating"
    /\ At(a, "commit") => dir[i] = "home"
    /\ job[a].step \in BreakSteps => rec[i].state \in {"Creating", "Broken"} \/ i \in torn
    /\ job[a].step \in MarkedSteps => rec[i].state = "Deleting"

(* A record that is Ready has its snapshot, unless the write of Ready was  *)
(* reported to have failed, and there is one baseline.                     *)
RecordsOK ==
    /\ \A i \in Ids : Exists(i) /\ rec[i].state = "Ready" => dir[i] = "home" \/ i \in torn
    /\ \A i, j \in Ids : Exists(i) /\ rec[i].kind = "Factory"
                       /\ Exists(j) /\ rec[j].kind = "Factory" => i = j

(* The scheduled snapshots of the interval: no second one is begun.        *)
CaughtUp(i) == i \in fresh /\ Verified(i) /\ rec[i].kind = "Automatic"
CatchUpOK ==
    /\ \A i, j \in Ids : CaughtUp(i) /\ CaughtUp(j) => i = j
    /\ \A a \in Actors : job[a].step \in CreateSteps /\ rec[job[a].id].kind = "Automatic" =>
           \A i \in Ids : ~CaughtUp(i)

(* Nobody removes what is browsed, but for a creation that failed.         *)
ReaderOK ==
    /\ reader.step # "closed" =>
           /\ reader.id \in Ids
           /\ \A a \in Actors : job[a].id = reader.id /\ job[a].step \in CreateSteps \cup BreakSteps =>
                  reader.id \in torn
    /\ reader.step \in {"leased", "open"} => ~Deleting(reader.id)
    /\ OpenHomeExists

(* The coordinator runs no job while it binds, and start.lock keeps        *)
(* deletions away from what it has verified.                               *)
Safe(i) == Verified(i) \/ i \in torn
Whole(i) == Verified(i) /\ i \notin torn
CoordOK ==
    /\ coord.step \notin {"fallback", "purge"} => At(Coord, "idle")
    /\ coord.step \in {"ready", "fallback", "bind", "bound"} => coord.target \in Ids
    /\ coord.step \in {"fallback", "bind", "bound"} => coord.fallback \in Ids
    /\ coord.step \in {"bind", "bound"} => startLock = Coord /\ Whole(coord.fallback)
    /\ coord.step = "bound" => Safe(coord.target)
RestoreOK ==
    pending # None => Safe(pending.home) /\ (Whole(pending.fallback) \/ Consent)

(* The invariant behind the safety properties of the store of Home.        *)
HomeOK ==
    /\ TypeOK
    /\ \A a \in Actors : HoldsLocks(a) /\ JobOK(a)
    /\ RecordsOK /\ CatchUpOK /\ ReaderOK /\ CoordOK
    /\ RestoreOK
=============================================================================
