----------------------------- MODULE NetworkAudit -----------------------------
(* The network audit of the firewall settings: ufwall-auditor captures packets, *)
(* keeps a table of connections and prints it every second; the monitor thread   *)
(* passes the lines on; the page filters and shows them and can block a host.    *)
(* Counts of bytes are kept as zero or more. The names of processes and the      *)
(* search text only select rows like the other filters and are left out. libpcap,*)
(* the resolver, /proc and ufw are external.                                     *)
EXTENDS Naturals, Sequences, FiniteSets, SequencesExt

CONSTANTS Conns,          \* connections: protocol, ports and remote address
          Own, Later,     \* the addresses of this machine at the start, and later
          FilterDirs, FilterProtos,  \* the filters the user chooses among
          EphemeralLow, InactivityLimit, HistoryMax,
          MaxPackets, MaxQueue, MaxClicks, MaxOthers, None

AuditAssumption ==
    /\ \A c \in Conns : c.proto \in {"TCP", "UDP"} /\ c.local \in Nat /\ c.remote \in Nat
    /\ Own \cap Later = {} /\ \A c \in Conns : c.ip \notin Own \cup Later
    /\ "All" \in FilterDirs /\ FilterDirs \subseteq {"All", "Inbound", "Outbound"}
    /\ "All" \in FilterProtos /\ FilterProtos \subseteq {"All", "TCP", "UDP"}
    /\ {EphemeralLow, InactivityLimit, HistoryMax} \subseteq Nat \ {0}

VARIABLES auditor,  \* whether the auditor runs
          table,    \* traffic_map
          cache,    \* DNS_CACHE: addresses asked for, and those with a name
          lookups,  \* how often each address was looked up
          addrs,    \* the addresses of this machine
          listen,   \* TCP ports something listens on
          queue,    \* snapshots passed on to the page
          page,     \* the list, its filters, pause button and history
          dialog,   \* the question whether to block, or None
          rules,    \* the rules of ufw, in order
          quiet,    \* ticks since the last packet, for each connection ever seen
          replied,  \* connections over which this machine sent something
          served,   \* TCP connections that came in on a listening port
          frozen,   \* the snapshot shown when the list was paused, or None
          blocked,  \* what the page said it blocked
          packets, clicks, others

env == <<addrs, listen>>
capture == <<auditor, table, cache, lookups, quiet, replied, served>>
view == <<page, dialog, rules, frozen, blocked>>
vars == <<capture, env, queue, view, packets, clicks, others>>

Ips == {c.ip : c \in Conns} \cup Own \cup Later
NoFilter == [dir |-> "All", proto |-> "All"]
Filters == [dir : FilterDirs, proto : FilterProtos]

-----------------------------------------------------------------------------
(* The auditor *)

\* The addresses are listed once, when the auditor starts.
local_ips == Own

\* The packet is taken as ours by its source address; own address or remote host.
key(c, out, a) ==
    IF ~out \/ a \in local_ips THEN c
    ELSE [proto |-> c.proto, local |-> c.remote, remote |-> c.local, ip |-> a]

\* A packet is an upload if its source port is the local one.
uploads(k, src) == k.local = src

\* The entry of a packet: a new one, or the old one.
entry(k, out) ==
    IF k \in DOMAIN table THEN table[k]
    ELSE [dir |-> IF out THEN "Outbound" ELSE "Inbound", domain |-> FALSE, up |-> FALSE,
          down |-> FALSE, uploaded |-> FALSE, downloaded |-> FALSE, idle |-> 0]

next_packet(c, out, a) ==
    /\ auditor /\ packets < MaxPackets /\ packets' = packets + 1
    /\ LET k == key(c, out, a)
           src == IF out THEN c.local ELSE c.remote
           s == entry(k, out /\ a \in local_ips)
           u == uploads(k, src)
       IN /\ table' = (k :> [s EXCEPT !.up = @ \/ u, !.uploaded = @ \/ u,
                               !.down = @ \/ ~u, !.downloaded = @ \/ ~u]) @@ table
          /\ quiet' = (k :> 0) @@ quiet
    /\ replied' = IF out THEN replied \cup {c} ELSE replied
    /\ served' = IF ~out /\ c.proto = "TCP" /\ c.local \in listen THEN served \cup {c} ELSE served
    /\ UNCHANGED <<auditor, cache, lookups, env, queue, view, clicks, others>>

\* enrich_with_process_info: listening ports for TCP, the range of ports for UDP
enriched(k, s) ==
    IF k.proto = "TCP" THEN IF k.local \in listen THEN "Inbound" ELSE "Outbound"
    ELSE IF k.local >= EphemeralLow /\ k.remote < EphemeralLow THEN "Outbound"
    ELSE IF k.local < EphemeralLow /\ k.remote >= EphemeralLow THEN "Inbound" ELSE s.dir

unknown == {k.ip : k \in DOMAIN table} \ cache.asked

\* What is printed; without any socket in /proc the directions stay.
snapshot(sockets) ==
    [k \in DOMAIN table |->
       [table[k] EXCEPT !.dir = IF sockets THEN enriched(k, table[k]) ELSE @,
                        !.domain = @ \/ k.ip \in cache.named]]

retained(t) ==
    LET idle(k) == IF t[k].up \/ t[k].down THEN 0 ELSE t[k].idle + 1
    IN [k \in {x \in DOMAIN t : idle(x) < InactivityLimit} |->
          [t[k] EXCEPT !.idle = idle(k), !.up = FALSE, !.down = FALSE]]

\* A second is over: enrich, look up, print, drop the silent, set the speeds back.
tick ==
    /\ auditor /\ Len(queue) < MaxQueue
    /\ \E sockets \in {TRUE, listen # {}} :
         LET t == snapshot(sockets)
         IN /\ queue' = Append(queue, [ok |-> TRUE, rows |-> t])
            /\ table' = retained(t)
    /\ cache' = [cache EXCEPT !.asked = @ \cup unknown, !.running = @ \cup unknown]
    /\ lookups' = [i \in Ips |-> lookups[i] + IF i \in unknown THEN 1 ELSE 0]
    /\ quiet' = [k \in DOMAIN quiet |->
                   IF quiet[k] <= InactivityLimit THEN quiet[k] + 1 ELSE quiet[k]]
    /\ UNCHANGED <<auditor, replied, served, env, view, packets, clicks, others>>

\* A thread of the pool has the name of an address, or none.
lookup_addr(i) ==
    /\ i \in cache.running
    /\ \/ cache' = [cache EXCEPT !.running = @ \ {i}, !.named = @ \cup {i}]
       \/ cache' = [cache EXCEPT !.running = @ \ {i}]
    /\ UNCHANGED <<auditor, table, lookups, quiet, replied, served, env, queue, view>>
    /\ UNCHANGED <<packets, clicks, others>>

\* The capture fails: the auditor ends.
capture_ends ==
    /\ auditor /\ others < MaxOthers /\ others' = others + 1 /\ auditor' = FALSE
    /\ UNCHANGED <<table, cache, lookups, quiet, replied, served, env, queue, view>>
    /\ UNCHANGED <<packets, clicks>>

\* Addresses come, servers start and stop.
elsewhere ==
    /\ others < MaxOthers /\ others' = others + 1
    /\ \/ \E a \in Later \ addrs : addrs' = addrs \cup {a} /\ UNCHANGED listen
       \/ \E p \in {c.local : c \in Conns} :
            /\ listen' = IF p \in listen THEN listen \ {p} ELSE listen \cup {p}
            /\ UNCHANGED addrs
    /\ UNCHANGED <<capture, queue, view, packets, clicks>>

-----------------------------------------------------------------------------
(* The page *)

passes(f, k, s) == f.dir \in {"All", s.dir} /\ f.proto \in {"All", k.proto}
filtered(f, t) == [k \in {x \in DOMAIN t : passes(f, x, t[x])} |-> t[k]]

pushed(h) == IF Len(h) = HistoryMax THEN Append(Tail(h), 1) ELSE Append(h, 1)

skipped == page.paused /\ page.applied = page.filter

to_use(t) == IF page.paused THEN page.last ELSE t

\* The receiver's loop; a message that is an error ends it.
receive ==
    /\ page.open /\ queue # <<>> /\ queue' = Tail(queue)
    /\ LET msg == Head(queue) IN
       IF ~msg.ok THEN page' = [page EXCEPT !.open = FALSE]
       ELSE page' = [page EXCEPT
              !.history = pushed(@),
              !.applied = IF skipped THEN @ ELSE page.filter,
              !.last = IF skipped \/ page.paused THEN @ ELSE msg.rows,
              !.list = IF skipped THEN @ ELSE filtered(page.filter, to_use(msg.rows))]
    /\ UNCHANGED <<capture, env, dialog, rules, frozen, blocked, packets, clicks, others>>

\* The auditor is gone and all it printed was read.
closed ==
    /\ page.open /\ ~auditor /\ queue = <<>> /\ page' = [page EXCEPT !.open = FALSE]
    /\ UNCHANGED <<capture, env, queue, dialog, rules, frozen, blocked>>
    /\ UNCHANGED <<packets, clicks, others>>

click == clicks < MaxClicks /\ clicks' = clicks + 1

pause ==
    /\ click /\ dialog = None /\ page' = [page EXCEPT !.paused = ~@]
    /\ frozen' = IF page.paused THEN None ELSE page.last
    /\ UNCHANGED <<capture, env, queue, dialog, rules, blocked, packets, others>>

choose_filter(f) ==
    /\ click /\ dialog = None /\ f # page.filter /\ page' = [page EXCEPT !.filter = f]
    /\ UNCHANGED <<capture, env, queue, dialog, rules, frozen, blocked, packets, others>>

block_clicked(k) ==
    /\ click /\ dialog = None /\ dialog' = [ip |-> k.ip, dir |-> page.list[k].dir]
    /\ UNCHANGED <<capture, env, queue, page, rules, frozen, blocked, packets, others>>

\* Cancelled, blocked, or ufw refuses: the rule goes to the end of the list.
block_chosen ==
    /\ dialog # None /\ dialog' = None
    /\ \/ UNCHANGED <<rules, blocked>>
       \/ /\ rules' = Append(rules, [action |-> "deny", dir |-> dialog.dir, ip |-> dialog.ip])
          /\ blocked' = blocked \cup {dialog}
    /\ UNCHANGED <<capture, env, queue, page, frozen, packets, clicks, others>>

-----------------------------------------------------------------------------

Init ==
    /\ auditor \in BOOLEAN /\ table = <<>> /\ addrs = Own
    /\ cache = [asked |-> {}, running |-> {}, named |-> {}] /\ lookups = [i \in Ips |-> 0]
    /\ \E p \in {c.local : c \in Conns} : listen \in {{}, {p}}
    /\ queue \in {<<>>, <<[ok |-> FALSE, rows |-> <<>>]>>} /\ (queue # <<>> => ~auditor)
    /\ page = [open |-> TRUE, list |-> <<>>, last |-> <<>>, filter |-> NoFilter,
               applied |-> None, paused |-> FALSE, history |-> <<>>]
    /\ rules \in {<<>>, <<[action |-> "allow", dir |-> "Inbound", ip |-> None]>>}
    /\ dialog = None /\ quiet = <<>> /\ replied = {} /\ served = {} /\ frozen = None
    /\ blocked = {} /\ packets = 0 /\ clicks = 0 /\ others = 0

Packet == \E c \in Conns, out \in BOOLEAN, a \in addrs : next_packet(c, out, a)
Click ==
    \/ pause \/ block_chosen
    \/ \E f \in Filters : choose_filter(f)
    \/ \E k \in DOMAIN page.list : block_clicked(k)
Work == receive \/ closed \/ \E i \in Ips : lookup_addr(i)

Next == Packet \/ tick \/ Work \/ Click \/ capture_ends \/ elsewhere

Spec == Init /\ [][Next]_vars

\* The clock goes on while the auditor runs, lines are read, lookups end.
LiveSpec == Spec /\ WF_vars(tick) /\ WF_vars(Work)

-----------------------------------------------------------------------------

\* The types of the state; the graph has at most HistoryMax points.
TypeOK ==
    /\ page.filter \in Filters /\ Len(page.history) <= HistoryMax
    /\ cache.running \cup cache.named \subseteq cache.asked
    /\ addrs \subseteq Own \cup Later /\ \A i \in Ips : lookups[i] \in Nat

\* A connection stays in the table until it was silent for the whole limit, and no
\* longer: a slow connection is not forgotten, an old one does not pile up.
SilentAreDropped == DOMAIN table = {k \in DOMAIN quiet : quiet[k] <= InactivityLimit}

\* An address is looked up once, however often it comes back and however long the
\* first lookup takes.
LookedUpOnce == \A i \in Ips : lookups[i] <= 1

\* The list that is paused shows nothing but what it showed when it was paused,
\* whatever is filtered since.
PausedIsFrozen ==
    page.paused /\ page.applied = page.filter => page.list = filtered(page.filter, frozen)

\* A connection that came in on a port something still listens on is an inbound one
\* in what is printed, also if the first packet seen was ours.
ServedAreInbound ==
    \A c \in served \cap DOMAIN table :
        c.local \in listen => snapshot(TRUE)[c].dir = "Inbound"

\* A filter that was chosen is applied, also to a paused list, unless the page ends.
Begun == <<page.filter # page.applied>>
Over == <<page.filter = page.applied \/ ~page.open>>
Progress == Begun[1] ~> Over[1]

\* "Received inbound request and successfully replied (Uploaded > 0)"
RepliedMeansSent ==
    \A k \in DOMAIN page.list : page.list[k].uploaded => k \in replied

\* "TCP: definitive": a connection that came in on a listening port is inbound.
ServedStayInbound ==
    \A k \in DOMAIN page.list : k \in served => page.list[k].dir = "Inbound"

\* Supplementing the addresses keeps "outbound IPv6 traffic" from being
\* "misclassified as inbound": no row has this machine as its remote host.
OwnIsNotRemote == \A k \in DOMAIN page.list : k.ip \notin Own \cup Later

\* "the deny rule is more specific than the default policy and will take effect
\* correctly": the first rule that fits what was blocked denies it.
BlockTakesEffect ==
    \A b \in blocked :
        LET fits == {i \in DOMAIN rules : rules[i].dir = b.dir /\ rules[i].ip \in {None, b.ip}}
        IN \E i \in fits : rules[i].action = "deny" /\ \A j \in fits : i <= j
=============================================================================
