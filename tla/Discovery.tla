------------------------------ MODULE Discovery ------------------------------
(***************************************************************************)
(* Finding the nodes before the workers start: CLUSTER SLOTS for a Valkey  *)
(* or Redis cluster (src/src/cluster.rs) and `config get cluster` for an   *)
(* ElastiCache memcached cluster (src/src/autodiscovery.rs), called by     *)
(* resolve_endpoints (src/src/runner.rs).  Both ask the seeds in turn over *)
(* a blocking socket and take the first good answer.                       *)
(*                                                                         *)
(* They bound the exchange differently.  Cluster discovery sets a timeout  *)
(* for each read; auto discovery arms every read and write with what is    *)
(* left of one deadline, handshake and second request included.  Time is   *)
(* in ticks, a reply arrives in chunks, and what it says is one of a small *)
(* set of replies, good and bad ones.                                      *)
(***************************************************************************)
EXTENDS Integers, Sequences, FiniteSetsExt, SequencesExt

CONSTANTS
    SeedCount,    \* how many target.endpoints there are before discovery
    Nodes,        \* the addresses a reply may name
    SlotCount,    \* SLOT_COUNT, small
    MaxRanges,    \* bound: ranges or node entries in one reply
    Deadline,     \* SEED_DEADLINE, in ticks
    ReadTicks,    \* READ_TIMEOUT of cluster discovery, in ticks
    MaxChunks     \* MAX_RESPONSE, in chunks

VARIABLES
    mode,         \* "cluster" or "auto", target.cluster or target.auto_discovery
    tls,          \* target.tls (auto discovery only)
    seed,         \* which seed is being asked
    dpc,          \* where the discovering thread is
    left,         \* ticks left of the armed socket timeout
    spent,        \* history: ticks since this seed's TCP connect
    command,      \* the request that is out: "slots", "config" or "get"
    reply,        \* what this seed is sending
    got,          \* chunks of it in buf
    found         \* the topology returned, or none

dvars == <<mode, tls, seed, dpc, left, spent, command, reply, got, found>>

Slots == 0 .. SlotCount - 1
Unmapped == -1
BadEntry == "bad entry"
NotFound == [endpoints |-> <<>>, table |-> <<>>]

\* A slot range as SlotMap::from_cluster_slots (resp_proto) returns it.
SlotRange == {r \in [start : Slots, end : Slots, primary : Nodes] : r.start <= r.end}

\* What one seed may send.  `size` is how many chunks the reply takes; one of
\* more than MaxChunks + 1 stands for a server that never sends END.
SlotReplies ==
    [kind : {"data"}, size : {1, 2}, body : BoundedSeq(SlotRange, MaxRanges)]
        \cup [kind : {"error line", "unparsable"}, size : {1}, body : {<<>>}]
ConfigReplies ==
    [kind : {"data"}, size : {1, 2, MaxChunks + 2},
     body : BoundedSeq(Nodes \cup {BadEntry}, MaxRanges)]
        \cup [kind : {"END", "ERROR", "error line", "unparsable"}, size : {1}, body : {<<>>}]
NoReply == [kind |-> "none", size |-> 0, body |-> <<>>]

Init ==
    /\ mode \in {"cluster", "auto"}
    /\ tls \in (IF mode = "auto" THEN BOOLEAN ELSE {FALSE})
    /\ seed = 1
    /\ dpc = "connect"
    /\ left = 0
    /\ spent = 0
    /\ command = "none"
    /\ reply = NoReply
    /\ got = 0
    /\ found = NotFound

\* The loop over the seeds: a failed one is logged and the next one is asked;
\* when all have failed the last error is returned and the run does not start.
SeedFails ==
    /\ seed' = IF seed < SeedCount THEN seed + 1 ELSE seed
    /\ dpc' = IF seed < SeedCount THEN "connect" ELSE "failed"
    /\ left' = 0
    /\ spent' = 0
    /\ command' = "none"
    /\ reply' = NoReply
    /\ got' = 0
    /\ UNCHANGED <<mode, tls, found>>

\* What remains for the next socket call: DeadlineStream::arm sets the time
\* left of the deadline, cluster discovery its constant read timeout.
ArmedAnew == ReadTicks
Armed == IF mode = "auto" THEN left ELSE ReadTicks

\* TcpStream::connect_timeout, bounded on its own; the deadline starts after it.
Connects ==
    /\ dpc = "connect"
    /\ left' = IF mode = "auto" THEN Deadline ELSE ReadTicks
    /\ dpc' = IF tls THEN "handshake" ELSE "write"
    /\ command' = IF mode = "auto" THEN "config" ELSE "slots"
    /\ UNCHANGED <<mode, tls, seed, spent, reply, got, found>>

ConnectFails ==
    /\ dpc = "connect"
    /\ SeedFails

\* The TLS handshake reads and writes through the same DeadlineStream.
Handshake ==
    /\ dpc = "handshake"
    /\ left > 0
    /\ dpc' = "write"
    /\ left' = Armed
    /\ UNCHANGED <<mode, tls, seed, spent, command, reply, got, found>>

\* write_all: the seed now has the request and will answer as it likes.
Write ==
    /\ dpc = "write"
    /\ left > 0
    /\ reply' \in IF mode = "auto" THEN ConfigReplies ELSE SlotReplies
    /\ got' = 0
    /\ left' = Armed
    /\ dpc' = "read"
    /\ UNCHANGED <<mode, tls, seed, spent, command, found>>

\* The thread is blocked in a socket call and a tick passes.
Tick ==
    /\ dpc \in (IF mode = "auto" THEN {"handshake", "write", "read"} ELSE {"read"})
    /\ left > 0
    /\ left' = left - 1
    /\ spent' = spent + 1
    /\ UNCHANGED <<mode, tls, seed, dpc, command, reply, got, found>>

\* The armed timeout has run out: is_timeout, whichever message it becomes.
TimesOut ==
    /\ dpc \in {"handshake", "write", "read"}
    /\ left = 0
    /\ SeedFails

\* read returned some bytes.
Arrives ==
    /\ dpc = "read"
    /\ left > 0
    /\ got < reply.size
    /\ got' = got + 1
    /\ dpc' = "parse"
    /\ UNCHANGED <<mode, tls, seed, left, spent, command, reply, found>>

\* read returned 0, or an error other than a timeout.
Closed ==
    /\ dpc = "read"
    /\ left > 0
    /\ SeedFails

\* The reply is incomplete: another read, unless auto discovery has buffered
\* more than MAX_RESPONSE.
Incomplete ==
    /\ dpc = "parse"
    /\ got < reply.size
    /\ ~(mode = "auto" /\ got > MaxChunks)
    /\ left' = Armed
    /\ dpc' = "read"
    /\ UNCHANGED <<mode, tls, seed, spent, command, reply, got, found>>

TooLong ==
    /\ dpc = "parse"
    /\ got < reply.size
    /\ mode = "auto"
    /\ got > MaxChunks
    /\ SeedFails

\* query: the plain word ERROR, and only in answer to `config get cluster`,
\* sends the older request on the same stream.
AsksOldWay ==
    /\ dpc = "parse"
    /\ got = reply.size
    /\ command = "config"
    /\ reply.kind = "ERROR"
    /\ command' = "get"
    /\ left' = Armed
    /\ dpc' = "write"
    /\ UNCHANGED <<mode, tls, seed, spent, reply, got, found>>

\* Addresses in the order first named, each once: addr_to_idx and endpoints of
\* build_topology, `nodes` of parse_config.
Distinct(addrs) ==
    FoldLeft(LAMBDA seen, a : IF Contains(seen, a) THEN seen ELSE Append(seen, a), <<>>, addrs)

Primaries(ranges) == Distinct([i \in DOMAIN ranges |-> ranges[i].primary])

\* The slot table of build_topology: 0-based endpoint indices, a later range
\* overwriting an earlier one.
IndexOfRange(ranges) ==
    FoldLeft(LAMBDA t, i :
                 [s \in Slots |-> IF s \in ranges[i].start .. ranges[i].end THEN i - 1 ELSE t[s]],
             [s \in Slots |-> Unmapped], [i \in DOMAIN ranges |-> i])
SlotTable(ranges) ==
    LET endpoints == Primaries(ranges)
        idx(r) == CHOOSE i \in 0 .. Len(endpoints) - 1 : endpoints[i + 1] = r.primary
    IN  FoldLeft(LAMBDA t, r : [s \in Slots |-> IF s \in r.start .. r.end THEN idx(r) ELSE t[s]],
                 [s \in Slots |-> Unmapped], ranges)

\* build_topology: an error reply, no ranges or a slot nobody owns is refused.
Topology(r) ==
    IF r.kind = "data" /\ r.body # <<>> /\ \A s \in Slots : SlotTable(r.body)[s] # Unmapped
    THEN [endpoints |-> Primaries(r.body), table |-> SlotTable(r.body)]
    ELSE NotFound

\* parse_config: one entry parse_node refuses refuses the reply, and so does
\* an empty list.  An entry without an address is resolved by its name, in a
\* blocking call that no deadline covers; how long that takes is not counted.
ClusterConfig(r) ==
    IF r.kind = "data" /\ r.body # <<>> /\ ~Contains(r.body, BadEntry)
    THEN [endpoints |-> Distinct(r.body), table |-> <<>>]
    ELSE NotFound

Read == IF mode = "auto" THEN ClusterConfig(reply) ELSE Topology(reply)

\* A complete reply that is used: resolve_endpoints replaces target.endpoints.
Resolved ==
    /\ dpc = "parse"
    /\ got = reply.size
    /\ Read # NotFound
    /\ found' = Read
    /\ dpc' = "found"
    /\ UNCHANGED <<mode, tls, seed, left, spent, command, reply, got>>

\* A complete reply that is not.
Refused ==
    /\ dpc = "parse"
    /\ got = reply.size
    /\ Read = NotFound
    /\ ~(command = "config" /\ reply.kind = "ERROR")
    /\ SeedFails

Next ==
    \/ Connects \/ ConnectFails \/ Handshake \/ Write \/ Tick \/ TimesOut \/ Arrives \/ Closed
    \/ Incomplete \/ TooLong \/ AsksOldWay \/ Resolved \/ Refused

Spec == Init /\ [][Next]_dvars

-----------------------------------------------------------------------------
(* Properties *)

\* However slowly a configuration endpoint sends, the handshake and both
\* requests to one seed of auto discovery hold the start of the run for at most
\* SEED_DEADLINE in all (the comment on DeadlineStream).  Connecting, which has
\* its own timeout, and the resolution of names in the reply, which has none,
\* come on top.
WithinDeadline == mode = "auto" => spent <= Deadline

\* What discovery returns can be indexed by everything sized from it: the nodes
\* are distinct and at least one, and in a cluster every slot has an endpoint,
\* one whose address is the primary of a range that covers the slot (routing by
\* slot_table[slot] reaches a node that owns the slot).
TopologySound ==
    dpc = "found" =>
        /\ found.endpoints # <<>>
        /\ IsInjective(found.endpoints)
        /\ mode = "cluster" =>
              \A s \in Slots :
                  /\ found.table[s] \in 0 .. Len(found.endpoints) - 1
                  /\ \E i \in DOMAIN reply.body :
                        /\ s \in reply.body[i].start .. reply.body[i].end
                        /\ reply.body[i].primary = found.endpoints[found.table[s] + 1]

\* Both of the above.
DiscoverySound == WithinDeadline /\ TopologySound
=============================================================================
