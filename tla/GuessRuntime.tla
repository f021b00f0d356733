---------------------------- MODULE GuessRuntime ----------------------------
(***************************************************************************)
(* The per-shell prediction engine of anduinos-bash-guess-command: one     *)
(* protocol loop that answers queries and observes finished commands, a    *)
(* bounded queue of background observers, and the versioned snapshots the  *)
(* observers fill.  A snapshot's entities are abstracted to where they     *)
(* come from: the ticket (generation) and the directory the observer was   *)
(* sent out with.  Times are counted in units of half a minute, and the    *)
(* lifetimes keep the order of the code's (30 s to 600 s).                 *)
(***************************************************************************)
EXTENDS Integers, Sequences, FiniteSets, SequencesExt

CONSTANTS Cwds,        \* working directories; the shell starts in one of them
          Commands,    \* the kinds of command line the user runs
          Tools,       \* domains whose program resolves in /usr/bin
          Workers,     \* observer threads that could be started
          Capacity,    \* BACKGROUND_QUEUE_CAPACITY
          HistoryEnabled,
          MaxTime, MaxObserved, MaxFailures,  \* bounds of the exploration
          None

GuessAssumption ==
    /\ Capacity \in Nat \ {0} /\ HistoryEnabled \in BOOLEAN
    /\ MaxTime \in Nat /\ MaxObserved \in Nat /\ MaxFailures \in Nat

VARIABLES world,     \* WorldState: one snapshot per domain
          event,     \* world.last_event
          cwd,       \* world.current_cwd
          now,       \* the wall clock, shared by the shell and the engine
          serving,   \* where the protocol loop is
          todo,      \* jobs the request being handled has still to submit
          queue,     \* the channel
          running,   \* what each worker is doing
          pending,   \* the accounting that wait_for_idle watches
          drained,   \* what the last wait_for_idle returned
          observed, failures  \* bounds

vars == <<world, event, cwd, now, serving, todo, queue, running, pending,
          drained, observed, failures>>

Domains == {"docker", "apt", "processes", "services", "git", "hosts",
            "files", "artifacts", "commands"}

\* The order in which a handled observation sends its observers out.
RefreshOrder == <<"docker", "apt", "processes", "services", "git", "hosts",
                  "files", "artifacts">>

TTL == [docker |-> 1, processes |-> 1, services |-> 1, git |-> 2,
        files |-> 2, hosts |-> 3, artifacts |-> 4]

\* Domains that are tied to a working directory.
Local == {"git", "files"}

\* Invalidation empties every snapshot but the process and service lists,
\* which keep their entities under the new generation until a refresh lands.
Emptied == Domains \ {"processes", "services"}

Job == [kind : Domains \cup {"history", "transition"}, gen : Nat,
        cwd : Cwds \cup {None}]
Snapshot == [gen : Nat, at : Nat, cwd : Cwds \cup {None},
             from : {None} \cup [ticket : Nat, cwd : Cwds \cup {None}]]

-----------------------------------------------------------------------------
(* The classification of an observed line (derive_event) *)

action_produces_artifact(a) == a = "MakeDirectory"
is_git_action(a) == a \in {"GitMutation", "GitStage"}

\* now_ms.saturating_sub(refreshed_at_ms) > lifetime; a snapshot that was
\* never refreshed still carries the time stamp 0, of 1970.
expired(d) == world[d].at = 0 \/ now - world[d].at > TTL[d]

\* Whether observing the command invalidates the domain's snapshot.
invalidates(d, a, ok, c) ==
    CASE d = "docker"    -> a = "DockerList"
      [] d = "apt"       -> ok /\ a = "AptMutation"
      [] d = "processes" -> ok /\ a = "ProcessList"
      [] d = "services"  -> ok /\ a = "ServiceList"
      [] d = "git"       -> /\ ok /\ is_git_action(a)
                            /\ \/ world.git.cwd # c
                               \/ a = "GitMutation"
                               \/ expired("git")
      [] d = "hosts"     -> expired("hosts")
      [] d = "files"     -> \/ world.files.cwd # c
                            \/ expired("files")
                            \/ action_produces_artifact(a)
      [] d = "artifacts" -> ok /\ action_produces_artifact(a)
      [] OTHER           -> FALSE

invalidated(d, c) ==
    [world[d] EXCEPT !.gen = @ + 1, !.at = now,
                     !.cwd = IF d \in Local THEN c ELSE @,
                     !.from = IF d \in Emptied THEN None ELSE @]

\* An observer is sent out for an invalidated snapshot if its program is
\* installed; a failed "docker ps" invalidates without refreshing.
refreshes(d, a, ok, c) ==
    /\ invalidates(d, a, ok, c)
    /\ d = "docker" => ok
    /\ d \in {"apt", "processes", "services", "git"} => d \in Tools

refresh_job(d, c) ==
    [kind |-> d, gen |-> world[d].gen + 1,
     cwd |-> IF d \in {"git", "files", "artifacts"} THEN c ELSE None]

\* derive_event: a line without a command leaves no event.
derive_event(a, ok, safe) ==
    IF a = None THEN None
    ELSE [action |-> a, ok |-> ok, safe |-> safe, at |-> now]

\* A transition is learned from the previous event to a different one when
\* the previous command was successful and safe.
learn_transition(a) ==
    IF a = None \/ event = None THEN <<>>
    ELSE IF event.ok /\ event.safe /\ event.action # a
           THEN <<[kind |-> "transition", gen |-> 0, cwd |-> None]>>
           ELSE <<>>

\* Only a successful, safe command is learned.
learned(a, ok, safe) ==
    IF ~(HistoryEnabled /\ ok /\ safe) THEN <<>>
    ELSE <<[kind |-> "history", gen |-> 0, cwd |-> None]>> \o learn_transition(a)

-----------------------------------------------------------------------------
(* The background queue *)

finish_background_job == pending' = IF pending = 0 THEN 0 ELSE pending - 1

\* submit: count the job, then try the channel; a full one drops the job
\* and takes the count back.
submit ==
    /\ serving \in {"submit", "prewarm"} /\ todo # <<>>
    /\ todo' = Tail(todo)
    /\ IF Len(queue) < Capacity
         THEN queue' = Append(queue, Head(todo)) /\ pending' = pending + 1
         ELSE UNCHANGED <<queue, pending>>
    /\ UNCHANGED <<world, event, cwd, now, serving, running, drained,
                   observed, failures>>

\* The request is answered once its last job is submitted.
answered ==
    /\ serving \in {"submit", "prewarm"} /\ todo = <<>>
    /\ serving' = "idle"
    /\ UNCHANGED <<world, event, cwd, now, todo, queue, running, pending,
                   drained, observed, failures>>

\* A worker receives the next job; what it scans carries its ticket.
receive(w) ==
    /\ running[w] = None /\ queue # <<>>
    /\ running' = [running EXCEPT ![w] = Head(queue)]
    /\ queue' = Tail(queue)
    /\ UNCHANGED <<world, event, cwd, now, serving, todo, pending, drained,
                   observed, failures>>

finish(w) ==
    /\ running' = [running EXCEPT ![w] = None]
    /\ finish_background_job
    /\ UNCHANGED <<event, cwd, now, serving, todo, queue, drained, observed>>

\* The observer's program failed, timed out or was missing, or the job
\* panicked: catch_unwind, and the job is finished like any other.
job_fails(w) ==
    /\ running[w] # None
    /\ failures < MaxFailures /\ failures' = failures + 1
    /\ finish(w)
    /\ UNCHANGED world

filled(job) ==
    [world[job.kind] EXCEPT !.at = now,
                            !.from = [ticket |-> job.gen, cwd |-> job.cwd]]

\* A finished observer is only believed if its generation is still the
\* current one.
refresh(w, kind) ==
    /\ running[w] # None
    /\ LET job == running[w] IN
         /\ job.kind = kind
         /\ world' = IF world[kind].gen # job.gen
                       THEN world ELSE [world EXCEPT ![kind] = filled(job)]
    /\ finish(w)
    /\ UNCHANGED failures

\* Mutant: the last refresh to finish wins.
refresh_unticketed(w, kind) ==
    /\ running[w] # None
    /\ LET job == running[w] IN
         /\ job.kind = kind
         /\ world' = [world EXCEPT ![kind] = filled(job)]
    /\ finish(w)
    /\ UNCHANGED failures

refresh_docker(w) == refresh(w, "docker")
refresh_apt(w) == refresh(w, "apt")
refresh_processes(w) == refresh(w, "processes")
refresh_hosts(w) == refresh(w, "hosts")
refresh_services(w) == refresh(w, "services")
refresh_artifacts(w) == refresh(w, "artifacts")

\* Mutant: the directory listing has no ticket.
refresh_files_unticketed(w) == refresh_unticketed(w, "files")

\* Directory listings and refs also check the directory.
refresh_local(w, kind) ==
    /\ running[w] # None
    /\ LET job == running[w] IN
         /\ job.kind = kind
         /\ world' = IF world[kind].gen # job.gen \/ world[kind].cwd # job.cwd
                       THEN world ELSE [world EXCEPT ![kind] = filled(job)]
    /\ finish(w)
    /\ UNCHANGED failures

refresh_files(w) == refresh_local(w, "files")
refresh_git(w) == refresh_local(w, "git")

\* The executables are listed once; the listing takes the next generation.
refresh_commands(w) ==
    /\ running[w] # None
    /\ running[w].kind = "commands"
    /\ world' = IF world.commands.gen # running[w].gen THEN world
                ELSE [world EXCEPT !.commands = [filled(running[w]) EXCEPT !.gen = @ + 1]]
    /\ finish(w)
    /\ UNCHANGED failures

\* A learned line is appended to its log (module GuessLearning).
record_learned(w) ==
    /\ running[w] # None
    /\ running[w].kind \in {"history", "transition"}
    /\ finish(w)
    /\ UNCHANGED <<world, failures>>

-----------------------------------------------------------------------------
(* The protocol loop *)

\* Observe: under the write lock the event is recorded and every snapshot
\* the command outdates is invalidated; the jobs are submitted afterwards.
observe(a, ok, safe, c) ==
    /\ serving = "idle" /\ observed < MaxObserved
    /\ observed' = observed + 1
    /\ cwd' = c
    /\ event' = derive_event(a, ok, safe)
    /\ world' = [d \in Domains |-> IF invalidates(d, a, ok, c)
                                     THEN invalidated(d, c) ELSE world[d]]
    /\ LET due == SelectSeq(RefreshOrder, LAMBDA d : refreshes(d, a, ok, c)) IN
         todo' = learned(a, ok, safe)
                 \o [i \in DOMAIN due |-> refresh_job(due[i], c)]
    /\ serving' = "submit"
    /\ UNCHANGED <<now, queue, running, pending, drained, failures>>

\* Quit is answered after a wait, and the loop's end waits again; so does
\* the end of input.
quit ==
    /\ serving = "idle"
    /\ serving' \in {"quitting", "closing"}
    /\ UNCHANGED <<world, event, cwd, now, todo, queue, running, pending,
                   drained, observed, failures>>

\* wait_for_idle: TRUE once nothing is pending, FALSE at the deadline.
wait_for_idle(idle) ==
    /\ serving \in {"quitting", "closing"}
    /\ idle => pending = 0
    /\ drained' = idle
    /\ serving' = IF serving = "quitting" THEN "closing" ELSE "done"
    /\ UNCHANGED <<world, event, cwd, now, todo, queue, running, pending,
                   observed, failures>>

tick ==
    /\ serving # "done" /\ now < MaxTime
    /\ now' = now + 1
    /\ UNCHANGED <<world, event, cwd, serving, todo, queue, running, pending,
                   drained, observed, failures>>

-----------------------------------------------------------------------------
(* What a query in this state may offer: the state is only read *)

\* Generators and arbiter both test the snapshot's age (expires_at_ms).
fresh(d) == ~expired(d)

docker_candidates == fresh("docker") /\ world.docker.from # None
process_candidates == fresh("processes") /\ world.processes.from # None
service_candidates == fresh("services") /\ world.services.from # None
git_ref_candidates == fresh("git") /\ world.git.from # None
host_candidates == fresh("hosts") /\ world.hosts.from # None
path_candidates == /\ world.files.cwd = cwd
                   /\ fresh("files") /\ world.files.from # None
artifact_path_candidates == fresh("artifacts") /\ world.artifacts.from # None
apt_package_candidates == world.apt.from # None

offered == {d \in Domains :
    \/ d = "docker" /\ docker_candidates
    \/ d = "processes" /\ process_candidates
    \/ d = "services" /\ service_candidates
    \/ d = "git" /\ git_ref_candidates
    \/ d = "hosts" /\ host_candidates
    \/ d = "files" /\ path_candidates
    \/ d = "artifacts" /\ artifact_path_candidates
    \/ d = "apt" /\ apt_package_candidates}

-----------------------------------------------------------------------------

\* Four observers are sent out before the first request is read.
prewarm_local_entities(c) ==
    <<[kind |-> "hosts", gen |-> 0, cwd |-> None],
      [kind |-> "commands", gen |-> 0, cwd |-> None],
      [kind |-> "files", gen |-> 0, cwd |-> c]>>
    \o IF "apt" \in Tools
         THEN <<[kind |-> "apt", gen |-> 0, cwd |-> None]>> ELSE <<>>

Init ==
    /\ now = 1
    /\ cwd \in Cwds
    /\ world = [d \in Domains |->
                  [gen |-> 0,
                   at |-> IF d \in {"hosts", "files"} THEN 1 ELSE 0,
                   cwd |-> IF d \in Local THEN cwd ELSE None,
                   from |-> None]]
    /\ event = None
    /\ serving = "prewarm"
    /\ todo = prewarm_local_entities(cwd)
    /\ queue = <<>> /\ running = [w \in Workers |-> None] /\ pending = 0
    /\ drained = FALSE /\ observed = 0 /\ failures = 0

Work(w) ==
    \/ refresh_docker(w) \/ refresh_apt(w) \/ refresh_processes(w)
    \/ refresh_hosts(w) \/ refresh_services(w) \/ refresh_artifacts(w)
    \/ refresh_files(w) \/ refresh_git(w) \/ refresh_commands(w)
    \/ record_learned(w)

Terminated == serving = "done" /\ UNCHANGED vars

Next ==
    \/ submit
    \/ answered
    \/ \E w \in Workers : serving # "done" /\ (receive(w) \/ job_fails(w) \/ Work(w))
    \/ \E a \in Commands \cup {None}, ok \in BOOLEAN, c \in Cwds,
          safe \in IF HistoryEnabled THEN BOOLEAN ELSE {FALSE} :
         observe(a, ok, safe, c)
    \/ quit
    \/ \E idle \in BOOLEAN : wait_for_idle(idle)
    \/ tick
    \/ Terminated

Spec == Init /\ [][Next]_vars

\* The loop and the threads keep running, and a wait reaches its deadline.
WorkerGoes(w) == serving # "done" /\ (receive(w) \/ Work(w))
LiveSpec ==
    /\ Spec
    /\ WF_vars(submit \/ answered)
    /\ WF_vars(\E idle \in BOOLEAN : wait_for_idle(idle))
    /\ \A w \in Workers : WF_vars(WorkerGoes(w))

-----------------------------------------------------------------------------

TypeOK ==
    /\ world \in [Domains -> Snapshot]
    /\ event = None \/ event.action \in Commands
    /\ cwd \in Cwds /\ now \in Nat
    /\ serving \in {"prewarm", "idle", "submit", "quitting", "closing", "done"}
    /\ Range(todo) \cup Range(queue) \subseteq Job
    /\ \A w \in Workers : running[w] = None \/ running[w] \in Job
    /\ pending \in Nat /\ Len(queue) <= Capacity

\* Whatever order the observers finish in, and however late, an emptied
\* snapshot is only ever refilled by the observer that was sent out for its
\* present generation, and a directory's by one that looked into it: queries
\* during a refresh are silent instead of seeing the old generation
\* (runtime.rs, the comment in Observe).
TicketsHold ==
    \A d \in Emptied \ {"commands"} :
        world[d].from # None =>
            /\ world[d].from.ticket = world[d].gen
            /\ d \in Local => world[d].from.cwd = world[d].cwd

\* A path is only offered from a listing of the directory the shell is in,
\* even while the listing of the directory it just left is on its way.
PathsAreHere == "files" \in offered => world.files.from.cwd = cwd

\* The accounting counts exactly the jobs that are queued or being run, so
\* dropped and failed observers never keep a shell from leaving, and a wait
\* that reports the engine idle leaves no accepted job behind.
DrainIsComplete ==
    /\ pending = Len(queue) + Cardinality({w \in Workers : running[w] # None})
    /\ (serving = "done" /\ drained) =>
           queue = <<>> /\ \A w \in Workers : running[w] = None

\* Every accepted job is finished, whatever its observer does, unless the
\* shell leaves first: no failure takes a worker away.
Begun == <<pending > 0>>
Over == <<pending = 0 \/ serving = "done">>
Progress == Begun[1] ~> Over[1]

\* "Git snapshots cannot cross repository boundaries": a ref is only offered
\* in the directory whose repository was read.
RefsAreHere == "git" \in offered => world.git.from.cwd = cwd

\* "Entity candidates depend on a matching snapshot generation and expiry":
\* a process is only offered from a list read for the present generation.
ProcessesMatchGeneration ==
    "processes" \in offered => world.processes.from.ticket = world.processes.gen
=============================================================================
