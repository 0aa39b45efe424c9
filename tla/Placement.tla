------------------------------ MODULE Placement ------------------------------
(***************************************************************************)
(* Which connection serves which endpoint, and on which worker: the checks *)
(* of check_node_counts and the task capacity (src/src/runner.rs), the     *)
(* assignment over all connections and each worker's slice of it, the      *)
(* append writers, the partition of the keys (src/src/worker.rs) and the   *)
(* key shares of EndpointZipf (src/src/keydist.rs).                        *)
(*                                                                         *)
(* A prefill queue, a routed queue or an append queue that no connection   *)
(* drains stalls the run, and whether there is one is decided here, by     *)
(* arithmetic spread over several functions and workers that never compare *)
(* notes.  Endpoints and workers are 0-based as in the code.               *)
(***************************************************************************)
EXTENDS Integers, Sequences, FiniteSetsExt, SequencesExt

CONSTANTS
    MaxNodes,      \* bound: nodes after discovery
    MaxConns,      \* bound: connections, and append writers
    MaxThreads,    \* bound: general.threads
    KeyMass,       \* the zipf weight of each key id, as integers
    Headroom,      \* POOL_HEADROOM
    PoolDefault    \* RINGLINE_POOL_DEFAULT

VARIABLES
    plan,          \* the configuration this run has
    pstep,         \* how far the set-up has come
    count,         \* connections per endpoint, while key_share_endpoints runs
    assigned,      \* the endpoint of each global connection index
    started,       \* workers whose on_start has returned
    unopened,      \* of these, the ones whose DMA fabric did not open
    prechecked,    \* workers that passed the precheck at creation
    conns,         \* connection tasks of each worker: the endpoints they serve
    writing        \* append writer tasks of each worker: the same

pvars == <<plan, pstep, count, assigned, started, unopened, prechecked, conns, writing>>

KeyIds == DOMAIN KeyMass
Endpoints == 0 .. plan.nodes - 1
Workers == 0 .. plan.threads - 1
CeilDiv(a, b) == (a + b - 1) \div b
LeastOf(a, b) == IF a < b THEN a ELSE b

\* A validated configuration and the number of nodes discovery found.  `use`
\* says which queues the run has: validate refuses key_share with routed or
\* append (recency is not zipf), a routed run without a limiter, and DMA with
\* routed or append.  What differs with DMA is the start of a worker, so its
\* plans have one partition of the keys, a limiter and no key_share.
Plans ==
    UNION {[nodes : {n}, total : 1 .. MaxConns, threads : 1 .. MaxThreads,
            route : [KeyIds -> 0 .. n - 1], use : {"reads", "prefill"}, limited : BOOLEAN,
            key_share : BOOLEAN, writers : {0}, dma : {FALSE}]
           \cup [nodes : {n}, total : 1 .. MaxConns, threads : 1 .. MaxThreads,
                 route : {[k \in KeyIds |-> k % n]}, use : {"reads", "prefill"}, limited : {TRUE},
                 key_share : {FALSE}, writers : {0}, dma : {TRUE}]
           \cup [nodes : {n}, total : 1 .. MaxConns, threads : 1 .. MaxThreads,
                 route : {[k \in KeyIds |-> 0]}, use : {"routed"}, limited : {TRUE},
                 key_share : {FALSE}, writers : {0}, dma : {FALSE}]
           \cup [nodes : {n}, total : 1 .. MaxConns, threads : 1 .. MaxThreads,
                 route : {[k \in KeyIds |-> 0]}, use : {"append"}, limited : BOOLEAN,
                 key_share : {FALSE}, writers : 1 .. MaxConns, dma : {FALSE}]
           : n \in 1 .. MaxNodes}

InitOf(p) ==
    /\ plan = p
    /\ pstep = "check"
    /\ count = <<>>
    /\ assigned = <<>>
    /\ started = {}
    /\ unopened = {}
    /\ prechecked = {}
    /\ conns = [w \in Workers |-> <<>>]
    /\ writing = [w \in Workers |-> <<>>]
Init == \E p \in Plans : InitOf(p)

\* A mistaken check: one connection per node in all, not per worker.
NodeCountsOnce ==
    plan.nodes > 1 =>
        /\ plan.use \in {"prefill", "routed"} => plan.total >= plan.nodes
        /\ plan.use = "append" => plan.writers >= plan.nodes

\* check_node_counts: each refusal is a node that no task would drain.
NodeCountsOk ==
    plan.nodes > 1 =>
        /\ plan.use = "prefill" => plan.total >= plan.nodes
        /\ plan.use = "routed" => plan.total >= plan.threads * plan.nodes
        /\ plan.use = "append" => plan.writers >= plan.nodes

Refuse ==
    /\ pstep = "check"
    /\ ~NodeCountsOk
    /\ pstep' = "refused"
    /\ UNCHANGED <<plan, count, assigned, started, unopened, prechecked, conns, writing>>

Accept ==
    /\ pstep = "check"
    /\ NodeCountsOk
    /\ pstep' = "assign"
    /\ UNCHANGED <<plan, count, assigned, started, unopened, prechecked, conns, writing>>

\* build_prefill_queues: the keys a prefill stores through an endpoint.
PrefillQueue(e) == {k \in KeyIds : plan.route[k] = e}

\* build_endpoint_keys, and the shares of EndpointZipf::new in units of 1/Mass:
\* the same partition, computed a second time.
EndpointKeys(e) == {k \in KeyIds : plan.route[k] = e}
Share(e) == MapThenSumSet(LAMBDA k : KeyMass[k], EndpointKeys(e))
Mass == MapThenSumSet(LAMBDA k : KeyMass[k], KeyIds)
Live == {e \in Endpoints : Share(e) > 0}

\* connection_endpoints: the sampler exists for zipf over more than one node.
ByKeyShare == plan.key_share /\ plan.nodes > 1

RoundRobin ==
    /\ pstep = "assign"
    /\ ~ByKeyShare
    /\ assigned' = [i \in 1 .. plan.total |-> (i - 1) % plan.nodes]
    /\ pstep' = "start"
    /\ UNCHANGED <<plan, count, started, unopened, prechecked, conns, writing>>

\* key_share_endpoints with fewer connections than endpoints that own keys.
TooFewForShares ==
    /\ pstep = "assign"
    /\ ByKeyShare
    /\ plan.total < Cardinality(Live)
    /\ LET pool == SetToSortSeq(Live, <)
       IN  assigned' = [i \in 1 .. plan.total |-> pool[((i - 1) % Len(pool)) + 1]]
    /\ pstep' = "start"
    /\ UNCHANGED <<plan, count, started, unopened, prechecked, conns, writing>>

\* The floors of the targets Share(e) * total / Mass, at least one where there
\* are keys.
FloorOnly(e) == (Share(e) * plan.total) \div Mass
FirstCount(e) ==
    LET floor == (Share(e) * plan.total) \div Mass
    IN  IF e \notin Live THEN 0 ELSE IF floor < 1 THEN 1 ELSE floor

Floors ==
    /\ pstep = "assign"
    /\ ByKeyShare
    /\ plan.total >= Cardinality(Live)
    /\ count' = [e \in Endpoints |-> FirstCount(e)]
    /\ pstep' = "adjust"
    /\ UNCHANGED <<plan, assigned, started, unopened, prechecked, conns, writing>>

Counted == MapThenSumSet(LAMBDA e : count[e], Endpoints)
\* target[e] - count[e], times Mass.
Short(e) == Share(e) * plan.total - count[e] * Mass

\* While the counts are short, one more for the endpoint furthest below its
\* target: max_by keeps the last of equals.
Raise ==
    /\ pstep = "adjust"
    /\ Counted < plan.total
    /\ LET top == Max({Short(e) : e \in Live})
           e == Max({x \in Live : Short(x) = top})
       IN  count' = [count EXCEPT ![e] = @ + 1]
    /\ UNCHANGED <<plan, pstep, assigned, started, unopened, prechecked, conns, writing>>

\* While they are too many, one less for the endpoint furthest above it that
\* has two or more: min_by keeps the first of equals.
Lower ==
    /\ pstep = "adjust"
    /\ Counted > plan.total
    /\ LET several == {e \in Endpoints : count[e] > 1}
           low == Min({Short(e) : e \in several})
           e == Min({x \in several : Short(x) = low})
       IN  count' = [count EXCEPT ![e] = @ - 1]
    /\ UNCHANGED <<plan, pstep, assigned, started, unopened, prechecked, conns, writing>>

\* The k-th of c connections of an endpoint sits at (k + 1/2) / c; sorted by
\* that position, then by endpoint.
Before(a, b) ==
    \/ (2 * a.k + 1) * b.c < (2 * b.k + 1) * a.c
    \/ (2 * a.k + 1) * b.c = (2 * b.k + 1) * a.c /\ a.e < b.e

Place ==
    /\ pstep = "adjust"
    /\ Counted = plan.total
    /\ LET places == UNION {[k : 0 .. count[e] - 1, c : {count[e]}, e : {e}] : e \in Endpoints}
           order == SetToSortSeq(places, Before)
       IN  assigned' = [i \in DOMAIN order |-> order[i].e]
    /\ pstep' = "start"
    /\ UNCHANGED <<plan, count, started, unopened, prechecked, conns, writing>>

\* connection_share, and the same arithmetic in create_for_worker and
\* my_connection_endpoints: a worker's number of connections and its first one.
ShareCount(total, w) ==
    (total \div plan.threads) + (IF w < total % plan.threads THEN 1 ELSE 0)
ShareStartEven(total, w) == w * (total \div plan.threads)
ShareStart(total, w) ==
    LET base == total \div plan.threads
        rem == total % plan.threads
    IN  IF w < rem THEN w * (base + 1) ELSE rem * (base + 1) + (w - rem) * base

\* standalone_task_capacity: sized from the main connections alone.
TaskCapacity ==
    LET c == CeilDiv(plan.total, plan.threads) + Headroom
    IN  IF c < PoolDefault THEN PoolDefault ELSE c

\* create_for_worker: a worker without connections has nothing to check.
WithoutConns(w) == ShareCount(plan.total, w) = 0

\* The tasks of the slab that on_start leaves for connections: the dispatcher
\* is spawned before them where the worker has a limiter, and WorkerLimiters
\* gives one only to workers with connections.
Room(w) == TaskCapacity - (IF plan.limited /\ ~WithoutConns(w) THEN 1 ELSE 0)

\* spawn_protocol_tasks: the worker's slice of the assignment, as much of it as
\* the slab takes; a failed spawn is logged and counted.
ProtocolTasks(w) ==
    LET first == ShareStart(plan.total, w)
    IN  SubSeq(assigned, first + 1, first + LeastOf(ShareCount(plan.total, w), Room(w)))

\* spawn_append_tasks: writers go round robin over the nodes, into what is left.
AppendTasks(w) ==
    LET first == ShareStart(plan.writers, w)
        left == Room(w) - Len(ProtocolTasks(w))
    IN  [i \in 1 .. LeastOf(ShareCount(plan.writers, w), left) |-> (first + i - 1) % plan.nodes]

\* create_for_worker and on_start of one worker.  A DMA worker whose fabric does
\* not open spawns no connection task and is marked started like the others.
Start(w) ==
    /\ pstep = "start"
    /\ w \notin started
    /\ \E opens \in (IF plan.dma THEN BOOLEAN ELSE {TRUE}) :
          /\ conns' = [conns EXCEPT ![w] = IF opens THEN ProtocolTasks(w) ELSE <<>>]
          /\ unopened' = IF opens THEN unopened ELSE unopened \cup {w}
    /\ writing' = [writing EXCEPT ![w] = AppendTasks(w)]
    /\ prechecked' = IF WithoutConns(w) THEN prechecked \cup {w} ELSE prechecked
    /\ started' = started \cup {w}
    /\ UNCHANGED <<plan, pstep, count, assigned>>

Next ==
    \/ Refuse \/ Accept \/ RoundRobin \/ TooFewForShares \/ Floors \/ Raise \/ Lower \/ Place
    \/ \E w \in Workers : Start(w)

Spec == Init /\ [][Next]_pvars

-----------------------------------------------------------------------------
(* Properties *)

AllStarted == pstep = "start" /\ started = Workers
ServedBy(tasks, e) == {w \in Workers : Contains(tasks[w], e)}

\* Once every worker has started, and unless a DMA fabric did not open, the
\* slices the workers computed on their own are the whole assignment, in order
\* and without overlap, and the slab refused no main connection.  A worker
\* without tasks either passed the precheck at creation or is one whose fabric
\* did not open, and that run ends at the precheck's deadline.
SlicesPartition ==
    AllStarted =>
        /\ unopened = {} => FlattenSeq([i \in 1 .. plan.threads |-> conns[i - 1]]) = assigned
        /\ Len(assigned) = plan.total
        /\ \A w \in Workers : w \in prechecked \cup unopened <=> conns[w] = <<>>

\* No queue is left without a task that drains it: with prefill every endpoint
\* with keys to store has a connection, and in a routed run every worker that has
\* a dispatcher has one to every node.
QueuesDrained ==
    AllStarted /\ unopened = {} =>
        /\ plan.use = "prefill" =>
              \A e \in Endpoints : PrefillQueue(e) # {} => ServedBy(conns, e) # {}
        /\ plan.use = "routed" => \A e \in Endpoints : Workers \ prechecked \subseteq ServedBy(conns, e)

\* With key_share, enough connections for the endpoints that own keys give each
\* of these at least one and the others none (a connection without keys would
\* claim tokens it cannot spend).
SharesSpendable ==
    AllStarted /\ unopened = {} /\ ByKeyShare =>
        /\ \A e \in Endpoints \ Live : ServedBy(conns, e) = {}
        /\ plan.total >= Cardinality(Live) => \A e \in Live : ServedBy(conns, e) # {}

\* Every node's append queue has a writer, as long as a worker's share of the
\* writers and its dispatcher fit the slack the capacity leaves above the
\* busiest worker's connections.
WritersFit ==
    \A w \in Workers :
        ShareCount(plan.total, w) + ShareCount(plan.writers, w) + 1 <= TaskCapacity
AppendDrained ==
    AllStarted /\ plan.use = "append" /\ WritersFit =>
        \A e \in Endpoints : ServedBy(writing, e) # {}

\* Every endpoint and queue the checks let through has the tasks it needs.
PlacementSound == SlicesPartition /\ QueuesDrained /\ SharesSpendable /\ AppendDrained
=============================================================================
