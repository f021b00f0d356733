---------------------------- MODULE HelperService ----------------------------
(***************************************************************************)
(* The privileged D-Bus helper.  Its methods run concurrently: each waits  *)
(* for Polkit as often as it has to, then passes the rate limit or the     *)
(* quota, then does its work, and answers.  What it shares between calls   *)
(* is the rate limiter, the quota of passwordless Home snapshots, the      *)
(* leases of the snapshot browser and the cache of S.M.A.R.T. results.     *)
(*                                                                         *)
(* The work on one snapshot is a single step here (SnapshotCoordination    *)
(* and HomeStore have its inside); batches work on one snapshot per step.  *)
(***************************************************************************)
EXTENDS Integers, Sequences, FiniteSets

CONSTANTS
    Callers,       \* client processes, all of one user
    Ids,           \* snapshots
    Methods,       \* the methods that are called
    MaxTime,       \* bound: ticks that pass
    Allowance,     \* passwordless Home snapshots in a window (4)
    QuotaWindow,   \* its length (60 s)
    RateWindow,    \* time between two limited operations of a user (5 s)
    LeaseTime,     \* lifetime of a browser lease (4 h)
    CacheTTL,      \* lifetime of a S.M.A.R.T. result (30 s)
    None

AllMethods == {"create_deployment", "create_personal_snapshot", "create_protected",
    "delete_deployment", "delete_deployments", "delete_personal_snapshots",
    "set_deployment_pinned", "set_personal_snapshot_pinned", "rename", "verify",
    "restore", "restore_home", "factory_reset", "cancel_restore",
    "begin_browse", "list_files", "end_browse", "smart", "maintenance", "save_policy"}

Actions == {"create", "create-personal", "override", "delete", "configure", "restore",
            "personal-files"}

(* The Polkit actions each method asks for, in order.                      *)
Auth(m) ==
    CASE m = "create_deployment" -> <<"create">>
      [] m = "create_personal_snapshot" -> <<"create-personal">>
      [] m = "create_protected" -> <<"create-personal", "delete">>
      [] m \in {"delete_deployment", "delete_deployments", "delete_personal_snapshots",
                "set_personal_snapshot_pinned"} -> <<"delete">>
      [] m \in {"set_deployment_pinned", "rename", "maintenance", "save_policy"} -> <<"configure">>
      [] m \in {"restore", "restore_home", "factory_reset", "cancel_restore", "begin_browse"} -> <<"restore">>
      [] m = "verify" -> <<"personal-files">>
      [] OTHER -> <<>>

Times == 0..MaxTime

(* A running call: what it still has to be granted, and whether its slot   *)
(* would be one of the passwordless ones.                                  *)
Places == {"auth", "gate", "work", "query"}
Calls == [m : Methods, ids : SUBSET Ids, left : SUBSET Ids, need : Seq(Actions),
          free : BOOLEAN, pc : Places]
Answer == [ids : SUBSET Ids, m : AllMethods, ok : BOOLEAN]
Leases == [id : Ids, until : Nat]

HelperAssumption ==
    /\ {MaxTime, Allowance, QuotaWindow, RateWindow, LeaseTime, CacheTTL} \subseteq Nat
    /\ Methods \subseteq AllMethods
    /\ None \notin Ids \cup Callers \cup Times \cup Calls \cup Answer \cup Leases

VARIABLES
    clock,
    call,      \* per caller: its running call, or None
    granted,   \* per caller: the actions Polkit granted to the running call
    snaps,     \* state of every snapshot: "unused", "ready", "pinned", "absent"
    attempts,  \* reservations of the quota, oldest first
    limited,   \* when the rate limiter last let an operation pass, or None
    leases,    \* per caller: [id, until] of its browser lease, or None
    cache,     \* when the cached S.M.A.R.T. result was stored, or None
    querying,  \* who holds the mutex of the S.M.A.R.T. cache, or None
    pending,   \* the snapshot a restore is scheduled for, or None
    log        \* history: what was done when, and the last answer given

vars == <<clock, call, granted, snaps, attempts, limited, leases, cache, querying, pending, log>>
shared == <<snaps, attempts, limited, leases, cache, querying, pending>>

Init ==
    /\ clock = 0
    /\ call = [c \in Callers |-> None] /\ granted = [c \in Callers |-> {}]
    /\ snaps \in [Ids -> {"unused", "ready"}]
    /\ attempts = <<>> /\ limited = None
    /\ leases = [c \in Callers |-> None]
    /\ cache = None /\ querying = None /\ pending = None
    /\ log = [free |-> <<>>, limited |-> <<>>, queries |-> <<>>, answer |-> None]
----------------------------------------------------------------------------
In(c, m, pc) == call[c] # None /\ call[c].m = m /\ call[c].pc = pc
Step(c, pc) == call' = [call EXCEPT ![c].pc = pc]
Return(c) ==
    /\ call' = [call EXCEPT ![c] = None]
    /\ granted' = [granted EXCEPT ![c] = {}]
Answers(c, ok) == log' = [log EXCEPT !.answer = [ids |-> call[c].ids, m |-> call[c].m, ok |-> ok]]

(* Times, oldest first, without those at the front that left the window.   *)
Expired(t, w) == clock - t >= w
Since(times, w) ==
    LET gone == CHOOSE n \in 0..Len(times) :
                   /\ \A k \in 1..n : Expired(times[k], w)
                   /\ n < Len(times) => ~Expired(times[n + 1], w)
    IN  SubSeq(times, gone + 1, Len(times))
Note(times, w) == Append(Since(times, w), clock)
Quietly(c) == Return(c) /\ UNCHANGED <<clock, log>>

Invoke(c, m, ids) ==
    /\ call[c] = None
    /\ call' = [call EXCEPT ![c] =
                   [m |-> m, ids |-> ids, left |-> ids, need |-> Auth(m), free |-> TRUE,
                    pc |-> IF Auth(m) = <<>> THEN "gate" ELSE "auth"]]
    /\ log' = [log EXCEPT !.answer = None]
    /\ UNCHANGED <<clock, granted, shared>>

(* check_authorization waits for the user; others run meanwhile.           *)
Grant(c) ==
    /\ call[c] # None /\ call[c].pc = "auth"
    /\ granted' = [granted EXCEPT ![c] = @ \cup {Head(call[c].need)}]
    /\ call' = [call EXCEPT ![c].need = Tail(@),
                            ![c].pc = IF Len(call[c].need) > 1 THEN "auth"
                                      ELSE IF call[c].free THEN "gate" ELSE "work"]
    /\ UNCHANGED <<clock, log, shared>>

(* Refused, cancelled, or no answer within two minutes.                    *)
Deny(c) ==
    /\ call[c] # None /\ call[c].pc = "auth"
    /\ Quietly(c) /\ UNCHANGED shared

(* Methods without a gate of their own go on to work.                      *)
Gateless(c) ==
    /\ call[c] # None /\ call[c].pc = "gate"
    /\ call[c].m \notin {"create_deployment", "create_personal_snapshot", "create_protected", "smart"}
    /\ Step(c, "work")
    /\ UNCHANGED <<clock, granted, log, shared>>
----------------------------------------------------------------------------
(* check_rate_limit, once the caller is authorized.                        *)
RateAllows == ~(limited # None /\ clock - limited < RateWindow)

LimitPasses(c) ==
    /\ In(c, "create_deployment", "gate") /\ RateAllows
    /\ limited' = clock
    /\ Step(c, "work")
    /\ log' = [log EXCEPT !.limited = Note(@, RateWindow)]
    /\ UNCHANGED <<clock, granted, snaps, attempts, leases, cache, querying, pending>>

LimitRefuses(c) ==
    /\ In(c, "create_deployment", "gate") /\ ~RateAllows
    /\ Quietly(c) /\ UNCHANGED shared

(* Creation of a System snapshot, protected if the caller wants it so; it  *)
(* may fail.                                                               *)
CreateDeployment(c) ==
    /\ In(c, "create_deployment", "work")
    /\ \/ \E i \in call[c].ids, state \in {"ready", "pinned"} :
            snaps[i] = "unused" /\ snaps' = [snaps EXCEPT ![i] = state]
       \/ UNCHANGED snaps
    /\ Quietly(c)
    /\ UNCHANGED <<attempts, limited, leases, cache, querying, pending>>
----------------------------------------------------------------------------
(* PersonalSnapshotQuota::reserve: forget what left the window, then take  *)
(* a slot if one is free.                                                  *)
Recent == Since(attempts, QuotaWindow)
PersonalCreation == {"create_personal_snapshot", "create_protected"}

(* Mutant: the attempt is recorded when the snapshot is there.             *)
ReserveLate(c) ==
    /\ call[c] # None /\ call[c].m \in PersonalCreation /\ call[c].pc = "gate"
    /\ IF Len(Recent) < Allowance
       THEN /\ attempts' = Recent
            /\ Step(c, "work")
            /\ log' = [log EXCEPT !.free = Note(@, QuotaWindow)]
       ELSE /\ attempts' = Recent
            /\ call' = [call EXCEPT ![c].pc = "auth", ![c].need = <<"override">>, ![c].free = FALSE]
            /\ UNCHANGED log
    /\ UNCHANGED <<clock, granted, snaps, limited, leases, cache, querying, pending>>

(* Without a slot the user is asked for the password after all.            *)
Reserve(c) ==
    /\ call[c] # None /\ call[c].m \in PersonalCreation /\ call[c].pc = "gate"
    /\ IF Len(Recent) < Allowance
       THEN /\ attempts' = Append(Recent, clock)
            /\ Step(c, "work")
            /\ log' = [log EXCEPT !.free = Note(@, QuotaWindow)]
       ELSE /\ attempts' = Recent
            /\ call' = [call EXCEPT ![c].pc = "auth", ![c].need = <<"override">>, ![c].free = FALSE]
            /\ UNCHANGED log
    /\ UNCHANGED <<clock, granted, snaps, limited, leases, cache, querying, pending>>

CreatePersonalSnapshot(c) ==
    /\ call[c] # None /\ call[c].m \in PersonalCreation /\ call[c].pc = "work"
    /\ \/ \E i \in call[c].ids :
            /\ snaps[i] = "unused"
            /\ snaps' = [snaps EXCEPT ![i] = IF call[c].m = "create_protected" THEN "pinned" ELSE "ready"]
       \/ UNCHANGED snaps
    /\ Quietly(c)
    /\ UNCHANGED <<attempts, limited, leases, cache, querying, pending>>
----------------------------------------------------------------------------
(* delete_deployments, delete_personal_snapshots: every one is tried, a    *)
(* failure is noted and the rest goes on.                                  *)
Deletion == {"delete_deployments", "delete_personal_snapshots"}
Exists(i) == snaps[i] \in {"ready", "pinned"}
Deletable(i) == snaps[i] = "ready" /\ pending # i

DeleteOne(c) ==
    /\ call[c] # None /\ call[c].m \in Deletion /\ call[c].pc = "work"
    /\ \E i \in call[c].left :
         /\ Deletable(i)
         /\ snaps' = [snaps EXCEPT ![i] = "absent"]
         /\ call' = [call EXCEPT ![c].left = @ \ {i}]
    /\ UNCHANGED <<clock, granted, log, attempts, limited, leases, cache, querying, pending>>

(* Mutant: the answer tells only whether the call went through.            *)
DeleteAnswersYes(c) ==
    /\ call[c] # None /\ call[c].m \in Deletion /\ call[c].pc = "work"
    /\ \A i \in call[c].left : ~Deletable(i)
    /\ Answers(c, TRUE) /\ Return(c)
    /\ UNCHANGED <<clock, shared>>

DeleteAnswers(c) ==
    /\ call[c] # None /\ call[c].m \in Deletion /\ call[c].pc = "work"
    /\ \A i \in call[c].left : ~Deletable(i)
    /\ Answers(c, call[c].left = {}) /\ Return(c)
    /\ UNCHANGED <<clock, shared>>

(* delete_deployment: one snapshot, one answer.                            *)
DeleteSingle(c) ==
    /\ In(c, "delete_deployment", "work")
    /\ \E i \in call[c].ids :
         /\ snaps' = IF Deletable(i) THEN [snaps EXCEPT ![i] = "absent"] ELSE snaps
         /\ log' = [log EXCEPT !.answer = [ids |-> {i}, m |-> "delete_deployments", ok |-> Deletable(i)]]
    /\ Return(c)
    /\ UNCHANGED <<clock, attempts, limited, leases, cache, querying, pending>>

SetPinned(c) ==
    /\ call[c] # None /\ call[c].pc = "work"
    /\ call[c].m \in {"set_deployment_pinned", "set_personal_snapshot_pinned"}
    /\ \E i \in call[c].ids, v \in {"ready", "pinned"} :
         snaps' = IF ~Exists(i) THEN snaps ELSE [snaps EXCEPT ![i] = v]
    /\ Quietly(c)
    /\ UNCHANGED <<attempts, limited, leases, cache, querying, pending>>

(* One restore at a time, of a snapshot that is there.                     *)
ScheduleRestore(c, m) ==
    /\ In(c, m, "work")
    /\ \E i \in call[c].ids :
         pending' = IF pending = None /\ Exists(i) THEN i ELSE pending
    /\ Quietly(c)
    /\ UNCHANGED <<snaps, attempts, limited, leases, cache, querying>>
ScheduleDeploymentRestore(c) == ScheduleRestore(c, "restore")
SchedulePersonalRestore(c) == ScheduleRestore(c, "restore_home")
ScheduleFactoryReset(c) == ScheduleRestore(c, "factory_reset")

CancelRestore(c) ==
    /\ In(c, "cancel_restore", "work")
    /\ pending' = None
    /\ Quietly(c)
    /\ UNCHANGED <<snaps, attempts, limited, leases, cache, querying>>

(* Renaming changes a title, verification nothing at all.                  *)
Rename(c) == In(c, "rename", "work") /\ Quietly(c) /\ UNCHANGED shared
Verify(c) == In(c, "verify", "work") /\ Quietly(c) /\ UNCHANGED shared

(* Maintenance of the filesystem and the policies touch no snapshot.       *)
Maintenance(c) == In(c, "maintenance", "work") /\ Quietly(c) /\ UNCHANGED shared
SavePolicy(c) == In(c, "save_policy", "work") /\ Quietly(c) /\ UNCHANGED shared
----------------------------------------------------------------------------
(* The browser of System snapshots: a lease for the process and snapshot.  *)
BeginBrowse(c) ==
    /\ In(c, "begin_browse", "work")
    /\ leases' = [leases EXCEPT ![c] =
                     IF \E i \in call[c].ids : Exists(i)
                     THEN [id |-> CHOOSE i \in call[c].ids : Exists(i),
                           until |-> clock + LeaseTime] ELSE @]
    /\ Quietly(c)
    /\ UNCHANGED <<snaps, attempts, limited, cache, querying, pending>>

EndBrowse(c) ==
    /\ In(c, "end_browse", "work")
    /\ leases' = [leases EXCEPT ![c] = None]
    /\ Quietly(c)
    /\ UNCHANGED <<snaps, attempts, limited, cache, querying, pending>>

LeaseHolds(c, i) == leases[c] # None /\ leases[c].id = i /\ leases[c].until > clock

(* validate_browse_lease, then the snapshot must still be available.       *)
ListFiles(c) ==
    /\ In(c, "list_files", "work")
    /\ Answers(c, \E i \in call[c].ids : LeaseHolds(c, i) /\ Exists(i))
    /\ Return(c) /\ UNCHANGED <<clock, shared>>
----------------------------------------------------------------------------
(* get_smart_disk_health: the mutex of the cache is held over the query.   *)
SmartLock(c) ==
    /\ In(c, "smart", "gate") /\ querying = None
    /\ querying' = c
    /\ Step(c, "work")
    /\ UNCHANGED <<clock, granted, log, snaps, attempts, limited, leases, cache, pending>>

Fresh == cache # None /\ clock - cache < CacheTTL

SmartCached(c) ==
    /\ In(c, "smart", "work") /\ Fresh
    /\ querying' = None
    /\ Quietly(c)
    /\ UNCHANGED <<snaps, attempts, limited, leases, cache, pending>>

SmartQuery(c) ==
    /\ In(c, "smart", "work") /\ ~Fresh
    /\ Step(c, "query")
    /\ log' = [log EXCEPT !.queries = Note(@, CacheTTL)]
    /\ UNCHANGED <<clock, granted, shared>>

SmartStore(c) ==
    /\ In(c, "smart", "query")
    /\ cache' = clock /\ querying' = None
    /\ Quietly(c)
    /\ UNCHANGED <<snaps, attempts, limited, leases, pending>>

Tick ==
    /\ clock < MaxTime
    /\ clock' = clock + 1
    /\ UNCHANGED <<call, granted, log, shared>>
----------------------------------------------------------------------------
Handle(c) ==
    \/ Gateless(c) \/ LimitPasses(c) \/ LimitRefuses(c) \/ CreateDeployment(c)
    \/ Reserve(c) \/ CreatePersonalSnapshot(c)
    \/ DeleteOne(c) \/ DeleteAnswers(c) \/ DeleteSingle(c) \/ SetPinned(c)
    \/ ScheduleDeploymentRestore(c) \/ SchedulePersonalRestore(c) \/ ScheduleFactoryReset(c)
    \/ CancelRestore(c) \/ Rename(c) \/ Verify(c) \/ Maintenance(c) \/ SavePolicy(c)
    \/ BeginBrowse(c) \/ EndBrowse(c) \/ ListFiles(c)
    \/ SmartLock(c) \/ SmartCached(c) \/ SmartQuery(c) \/ SmartStore(c)

Next ==
    \/ \E c \in Callers, m \in Methods, ids \in SUBSET Ids : ids # {} /\ Invoke(c, m, ids)
    \/ \E c \in Callers : Grant(c) \/ Deny(c) \/ Handle(c)
    \/ Tick

Spec == Init /\ [][Next]_vars

(* Every handler runs on a thread of the runtime; Polkit answers or the    *)
(* wait times out; the mutex of the cache is handed over in order.         *)
Fairness ==
    \A c \in Callers :
        WF_vars(Handle(c)) /\ WF_vars(Grant(c) \/ Deny(c)) /\ SF_vars(SmartLock(c))
LiveSpec == Spec /\ Fairness
----------------------------------------------------------------------------
TypeOK ==
    /\ clock \in Times
    /\ call \in [Callers -> Calls \cup {None}]
    /\ granted \in [Callers -> SUBSET Actions]
    /\ snaps \in [Ids -> {"unused", "ready", "pinned", "absent"}]
    /\ attempts \in Seq(Times) /\ Len(attempts) <= Allowance
    /\ limited \in Times \cup {None}
    /\ leases \in [Callers -> Leases \cup {None}]
    /\ cache \in Times \cup {None} /\ querying \in Callers \cup {None}
    /\ pending \in Ids \cup {None}
    /\ log \in [free : Seq(Times), limited : Seq(Times), queries : Seq(Times),
                answer : Answer \cup {None}]

(* A call has what it was granted, and still needs the rest of what its    *)
(* method asks for; what it has deleted of a batch is gone.                *)
Asks(m) == {Auth(m)[k] : k \in 1..Len(Auth(m))}
Needs(c) == {call[c].need[k] : k \in 1..Len(call[c].need)}
CallOK(c) ==
    /\ Asks(call[c].m) \subseteq granted[c] \cup Needs(c)
    /\ call[c].pc = "auth" => call[c].need # <<>> /\ call[c].m # "smart"
    /\ call[c].pc # "auth" => Asks(call[c].m) \subseteq granted[c]
    /\ call[c].left \subseteq call[c].ids
    /\ call[c].m \in Deletion => \A i \in call[c].ids \ call[c].left : snaps[i] = "absent"
CallsOK == \A c \in Callers : call[c] # None => CallOK(c)

(* The quota has forgotten only what left the window.                      *)
QuotaOK ==
    \E n \in 0..Len(log.free) :
       /\ attempts = SubSeq(log.free, n + 1, Len(log.free))
       /\ \A k \in 1..n : Expired(log.free[k], QuotaWindow)

(* All but the last of the times left the window.                          *)
Apart(times, w) == \A k \in 1..(Len(times) - 1) : Expired(times[k], w)
NotAfter(times, last) == \A k \in 1..Len(times) : last # None /\ times[k] <= last

LimitOK == Apart(log.limited, RateWindow) /\ NotAfter(log.limited, limited)

(* The mutex is held over the query, and its result is stored after it.    *)
AskingDisks(c) == call[c] # None /\ call[c].pc = "query"
CacheOK ==
    /\ \A c \in Callers : In(c, "smart", "work") \/ In(c, "smart", "query") <=> querying = c
    /\ \A c \in Callers : AskingDisks(c) => call[c].m = "smart"
    /\ Apart(log.queries, CacheTTL) /\ NotAfter(log.queries, clock)
    /\ (\A c \in Callers : ~AskingDisks(c)) => NotAfter(log.queries, cache)

HelperOK == TypeOK /\ CallsOK /\ QuotaOK /\ LimitOK /\ CacheOK

(* No method does its work before Polkit granted all that it asks for, nor *)
(* with what was granted to another call.                                  *)
WorkIsAuthorized ==
    \A c \in Callers : call[c] # None /\ call[c].pc \in {"work", "query"}
                          => Asks(call[c].m) \subseteq granted[c]

InWindow(times, w) == Cardinality({k \in 1..Len(times) : clock - times[k] < w})

(* In every window, no more than the allowance of Home snapshots is begun  *)
(* without a password, however many calls arrive at the same moment.       *)
PasswordlessBudget == InWindow(log.free, QuotaWindow) <= Allowance

(* Creations of System snapshots start at least the limiter's window apart *)
(* although the calls wait for Polkit for as long as they like.            *)
CreationsSpaced == InWindow(log.limited, RateWindow) <= 1

(* The disks are asked at most once in the lifetime of a result.           *)
DisksAskedOnce == InWindow(log.queries, CacheTTL) <= 1

(* A protected snapshot, or the target of a scheduled restore, stays,      *)
(* whenever protection or restore came in relative to the deletion.        *)
ProtectedStays ==
    \A i \in Ids : (snaps[i] = "pinned" \/ (pending = i /\ Exists(i)))
                    => Exists(i)'

(* Every change of a snapshot is made by a call that names it and to which *)
(* Polkit granted that very change: creation (a protected System snapshot  *)
(* needs no more, a protected Home snapshot needs deletion as well),       *)
(* removal, and protection of one that is there.                           *)
ChangesAuthorized ==
    \A i \in Ids : snaps'[i] # snaps[i] =>
       \E c \in Callers :
          /\ call[c] # None /\ i \in call[c].ids
          /\ \/ /\ snaps[i] = "unused"
                /\ \/ "create" \in granted[c]
                   \/ /\ "create-personal" \in granted[c]
                      /\ snaps'[i] = "pinned" => "delete" \in granted[c]
             \/ snaps'[i] = "absent" /\ "delete" \in granted[c]
             \/ Exists(i) /\ Exists(i)' /\ granted[c] \cap {"configure", "delete"} # {}

(* A batch is reported as deleted only when all of it is gone at that time *)
(* and files are listed only of a snapshot that is there.                  *)
AnswersTrue ==
    log'.answer \notin {None, log.answer} /\ log'.answer.ok =>
       IF log'.answer.m \in Deletion THEN \A i \in log'.answer.ids : ~Exists(i)'
       ELSE \E i \in log'.answer.ids : Exists(i)

(* Every call is answered: nobody keeps the mutex of the cache.            *)
Begun == [c \in Callers |-> call[c] # None]
Over == [c \in Callers |-> call[c] = None]
Progress == \A c \in Callers : Begun[c] ~> Over[c]
=============================================================================
