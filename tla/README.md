# TLA+ models of cachecannon

cachecannon is a benchmark client for cache servers. What it reports is only as good as
its own bookkeeping: a wake-up lost in a worker, a key counted twice, a timer that fires for
the wrong request or a replay that ends early shows up as a property of the server. These
modules model the parts where that can happen, TLC checks them on small instances, and TLAPS
proves what matters most for every value of the constants. `src/...` in a module is a path
of the repository with `src/` before it, as in `PROJECT.json`; `worker.rs` is `src/src/worker.rs`.

## The system and its parts

One process. The **main thread** (the runner) launches N **worker threads** and then loops
every 100 ms: it is the only writer of `SharedState::phase` (Precheck, Prefill, Warmup,
Running, Stop) and decides by shared counters. Each worker is a single-threaded `ringline`
executor with a task for each connection and, by workload, a dispatcher task. Replay modes
add a **reader thread**. Tasks of a worker interleave only at awaits; workers, runner and
readers are threads and interleave anywhere.

| part | state | operations | meets the others through |
|---|---|---|---|
| Token dispatch (`worker.rs`, `limiters.rs`) | the worker's share of the limiter; the claim queue, a slot and a waker for each waiting connection | `acquire`, `dispatch`, `drain`, `restart`, poll of a claim | wake-ups between tasks; the runner's `restart` and phase |
| Routed dispatch (`worker.rs`) | a queue and a waiter list for each node | push, wait, take, close | wake-ups; untimed waits |
| Prefill (`worker.rs`, `runner.rs`) | a shared queue of keys for each endpoint; a slot table for each worker; keys in flight | pop, reroute, fire, flush, reply, requeue | the queues (all workers), `prefill_keys_confirmed` (runner) |
| Append stream (`worker.rs`, `runner.rs`, `keydist.rs`) | the head, the totals, shared queues, writers' keys in flight | open, enqueue, commit; writers as in prefill; `Recency::sample` | the queues, `append_keys_*`, the head |
| Trace replay (`tracereplay.rs`) | the channel, rows claimed, rows returned, attempts, counters | read, claim, fire, flush, requeue, give up, `is_finished` | the channel, the returned queue, three atomics |
| KV replay (`kvreplay.rs`) | the channel, a held request for each worker, handed-back requests, waiting connections | claim, hold, assign, give back, fail stranded, close | the channel, wake-ups, `stopped`/`finished`/`sent` |
| Request timeout (`worker.rs`) | fire times in flight; one timer for each connection | push, pop, forget, arm, re-arm, time out | the executor's timers |
| Saturation search (`saturation.rs`) | rate, bracket, failures in a row, best rate | climb, confirm, bisect, stop | `set_rate`, the runner's windows |
| Runner (`runner.rs`) | phase, deadlines, baselines | launch, phase transitions, stop, join, results | all of the above |
| Memcache, ping and memcache append tasks (`worker.rs`) | pipeline, deadlines, keys in flight, backfills, counters | connect, fire, flush, reply, fail, reconnect | the worker's limiter and queues, the phase |
| Limiter split (`limiters.rs`) | a bucket for each worker, the weights | build, `restart`, `set_rate`, take | workers and the saturation search |
| Configuration (`config/mod.rs`, `valkey_lab.rs`, `main.rs`) | the options | load, apply flags, `validate`, launch | read by all parts |
| Discovery (`cluster.rs`, `autodiscovery.rs`) | the seed in turn, time spent, the reply | connect, ask, read, fall back, build | the endpoints and the slot table |
| Placement (`worker.rs`, `runner.rs`, `keydist.rs`) | the assignment of connections, queues and writers | check, assign, slice, spawn | workers agree without talking |
| Send capacity (`runner.rs`) | pool and slab sizes, the slots held | size, check, fire, complete | every connection's sends |
| Receive buffer (`buffer/mod.rs`) | an array and two positions | read, write, consume, compact, grow | one connection |
| Counters (`sharded_counter.rs`, `metrics.rs`) | a shard for each thread | add, read shard by shard | all threads, reports |
| DMA (`dma/`) | libfabric objects, regions, remote keys, requests | open, register, drive, close; get, set, give up | the progress thread, late remote writes |
| Vector search (`search/`) | keys, index, queries | clean up, load, build, poll, query, report | the server indexes on its own |
| Admin thread (`admin/`) | two tasks, a staging file | serve, record, convert, shut down | the runner's `AdminHandle` |

The output formatters, the viewer, the reading of values and type aliases have no module;
`components` in `PROJECT.json` says why.

What is hard here: wake-ups of waits without a timeout; sends that fail with part of a
pipeline buffered, where the client discards the newest requests and every queue that runs
beside the pipeline must follow; lost connections with requests that may have been applied;
slot tables that differ between workers; counters read one after the other while other
threads change them; deadlines kept across requests; phases that change between two
reads of one task; remote writes that land after the request was given up; and arithmetic
spread over workers that never compare notes. `hazards` in `PROJECT.json` lists them at their lines with the
properties that would show them going wrong.

## Modules

A component whose parts interact has an `MCX` module, which gives functions such as
`WorkerOf` their values, and one or more `.cfg` files. The components that share no state
with others are instantiated together: `MCEndpoints` has the four at the program's edge (the
receive buffer, the two of DMA, the admin thread), which EndpointsProofs proves about together
with RequestTimer, and `MCParts` extends it with the other eight. `Subsequences` has the one
helper that Prefill, AppendStream and TraceReplay share: the subsequence that a loop over a
queue keeps, written so that it can be proved about. A definition named "Mutant of D" in its comment
is no part of the model: it is D as a plausible error would write it, kept to show that the
properties notice.

**TokenDispatch.** One worker in open loop. Tokens are sub-units of a request so that the
staggered start of the worker's limiter is exact; `avail`, `owed` and `cap` are the bucket
with its lazy refill, and `restart` is the three calls it makes. The dispatcher's poll
(`DispatchHead`, `DispatchEmpty`, `DispatcherDrains`) is interleaved with connections
(`ConnFires`, `ConnStarves`, `Resumes`, ...), the clock and the runner.

**RoutedQueues.** One worker with `routing = "routed"`. Queued requests are counted; waiter
lists keep their dead entries as the code does, because which entry a push wakes is the
question. `thread` names the task that is between two awaits.

**Prefill.** All workers. `client` is what the ringline client has outstanding and
`inFlight` what the task believes; a failed send drops the newest `n` of the buffered ones
for any `n`. `table[w]` is the worker's slot table, `owner` the cluster's. A slot may move to
a node outside `Recognised`, whose address is none of the endpoints (or does not parse): the
redirect then teaches nothing, and the key is tried at the same node again.

**AppendStream.** The same queues under the runner's batches, with writers that also have a
token budget and flush separately. `Samples(h)` is every id that `Recency::sample` can draw
with head `h`. The keys below the first batch are taken as written before.

**TraceReplay**, **KvDispatch.** The two replays, reader thread included. Each load of
`is_finished` is a step of its own. In TraceReplay a row is its place in the file and can be
one that no send can carry; in KvDispatch a request is due when the clock reaches its place,
and a failed connect is a fact that is set and read rather than a count.

**RequestTimer.** One connection, its pipeline, `InFlight` and `recv_with_timeout`, in
integer time. `Lag` bounds how long a task that can run waits for the executor: it is an
assumption on the machine, and `RecvBounded` is relative to it.

**RateSearch.** The climb and the bisection, and the driver that measures a window for each
rate. Fractions are pairs of integers. The server is a limit that is chosen at the start,
up to which it fails at most `Confirm` windows in a row, or an erratic one.

**RunnerPhases.** The runner's loop against workers, connections and the KV replay's reader,
with requests counted only. A deadline may pass at any iteration after it was set, the same
one included, so it has any length. With a saturation search the search ends the run and the
duration does not. At the end the workers' handles are joined one after the other: each join
waits for its thread, and the 5 s limit is looked at only between two joins (`Join`, `Joined`,
`Return`). Requests
go through `MarkFinished`, `RecordOutcome` and `WriteRow` as separate steps, because the
runner's baseline and phase change fall between them. What happens inside Prefill and inside
a request is left to the modules above.

**MemcacheConn.** The connection tasks of one worker that speak memcache or ping, and the
memcache append writers. `client` is what the client has outstanding, `flight`, `timers` and
`it.fired` are what the task keeps beside it, `stat.prechecks` the replies that belong to no
counted request; every send, flush and receive may fail, and
`sockets` and the gauges are followed on every way out of a connection. The limiter, the
dispatchers and the deadline are the modules above: here they grant, refuse or fire.

**WorkerLimits.** All workers' limiters: caps, staggers, `restart` and `set_rate`. Amounts
are in fractions of a sub-unit that make the division by the weights exact.

**Configuration.** From defaults or a file, over flags, to `validate` and launch. A
configuration is edited in up to two options, which is what it takes to reach a combination
no single check refuses. `None` is an option the code tells from zero (`pool_size`, `batch_size`, `buffer_capacity`).

**Discovery.** Both ways to find the nodes: seeds in turn over a blocking socket, replies in
chunks, per-read timeouts in one mode and one deadline in the other, and the topology that is
built from the reply. The deadline covers what the code puts under it: neither the connect,
which has a timeout of its own, nor the resolution of names in the reply, which has none.

**Placement.** The checks on node counts, the assignment of connections to endpoints (round
robin or by key share), each worker's slice, the append writers, and the spawns that the slab
may refuse. A DMA worker whose fabric does not open spawns nothing and still counts as started;
the properties about queues are about runs where every fabric opened. What each queue needs is compared with what the workers spawned.

**SendCapacity.** What `send_slab_slots` and `send_pool_slots` ask for, next to a connection
that fires any number of requests once there is room for a batch, whose client splits them at
the batch size, whose replies come whatever the kernel has notified, and which in the KV replay
looks up.

**Buffer, ByteQueue.** The array with its positions, and the queue of bytes it promises to
be. `Queue` in Buffer is the refinement mapping: the unread slice and the capacity.

**Counters.** The table of groups and slots is translated whole, with both sharded gauges
(`append_head` and `append_batches` are plain values that the runner alone sets), and threads
add while a reader visits shard after shard.

**DmaFabric, DmaTransfers.** The endpoint's objects and the poller thread, at the grain of one
atomic operation or libfabric call; and the connections above it, whose requests the server
may carry out after they were given up. Remote keys tell a buffer from its successor:
`remote_keys` says where they come from, a counter of the program or the provider, and whether
the provider repeats one that an outstanding transfer still names.

**VectorSearch.** The phases of `valkey-lab search` against a server that scans and indexes
in the background, and query clients that deal numbers from one counter.

**AdminServer.** The admin thread's two tasks at the grain of a turn of their `select!`, since
`notify_waiters` reaches only a task that is inside one.

The components are joined where they share state: AppendStream and Prefill include the part
of the runner that reads their counters, the replays the part that ends them, and
RunnerPhases the workers' part of precheck and shutdown.

## Runs

`PROJECT.json` lists each run with its properties and, for each property, a mutant that
breaks it.

| run | instance | what it shows |
|---|---|---|
| token_dispatch | 3 connections, batch 2, depth 3, cap 3 requests, stagger 1 sub-unit, 6 sub-units minted | no lost wake-up, claims wake the dispatcher, offered load within the rate since restart, unfunded release only at stop, a stop ends the dispatcher and all connections |
| routed_queues | 2 nodes, 3 connections, 3 requests, 1 fault | the waiter lists name exactly the tasks that wait, no push spends its wake on another, no stranded request, a stop reaches untimed waits |
| prefill | 3 keys, 3 nodes of which 2 are endpoints, 3 connections of 2 workers, paced, may be stopped, 1 slot move, 1 fault | the keys in flight match the client's, no key lost or counted twice, Warmup means stored, prefill ends unless slot tables disagree for ever or a key's slot is at the node that is no endpoint |
| append_stream | 2 batches of 2 over a body of 2, 3 writers of 2 workers, a redirect that may not be understood, 1 move, 1 fault | ids conserved, readers draw only written ids, one batch at a time, an open batch commits unless slot tables disagree for ever or an id's slot is at a node that is no endpoint |
| trace_replay | 2 rows (one not sendable), 2 workers with a connection each, 1 retry, backfills | rows sent at most once, fired in order, conserved; no early end; the replay ends although a row can never be sent |
| kv_dispatch | 2 requests, 2 connections, read-ahead 1 | requests conserved, finished once, stored once; no waiter forgotten; no early end |
| kv_dispatch_ends | 1 request, 2 connections | a claimed request finishes even if no connect succeeds again |
| rate_search | rates 1 to 150, up to 6 bisections, every limit and an erratic server | the knee is the best passing rate, transient failures do not cap it, no rate of 0 is probed, the search ends |
| runner_phases | 2 workers, each of which may fail to start, one without connections; 2 connections, 3 requests, a signal, all modes, with and without a search | precheck before traffic, short traces counted whole, no early end, rows marked recorded exceed the totals by at most one a connection, every run joins its workers and returns unless a worker failed to start beside one that runs |
| runner_start_failure (violation) | 2 workers, one may fail to start | the precheck has no deadline then |
| memcache_conn | one reader or one writer, 2 keys of each kind, depth and batch 2, 2 faults, 3 protocols | every request counted as sent has one fate, the task's books match its client, keys are neither lost nor stored twice, gauges follow sockets, a stop ends the tasks |
| parts | twelve parts, see below | one property or two of each part |

`parts` checks twelve components that share no state. Its initial states choose one part; a
behaviour is a behaviour of that part while the others stay in an initial state, so the state
count is the sum of the parts and not their product.

| part of the run | instance | property |
|---|---|---|
| Configuration | 2 options changed, in the file or by a flag, each program and build | AcceptedRuns: a run that starts has one dispatcher, one server for a replay, tasks for its protocol, the parameters its sampler asks for |
| Discovery | 2 seeds, 2 nodes, 2 slots, 3 ranges, deadline 4 with reads of up to 2 | DiscoverySound: handshake and requests to a seed of auto-discovery stay within its deadline, a topology has distinct nodes and every slot on the node that owns it |
| Placement | up to 3 nodes, 6 connections, 2 workers, every routing of 3 keys; DMA with fabrics that may not open | PlacementSound: the workers' slices are the assignment, no queue is without a task, shares can be spent, append queues have writers |
| WorkerLimits | weights 1, 2 and 1, 1, 0, rates 1 and 9, claims of 1 and 2 | LimitsSound: claims can be funded at any rate set later, the workers keep to the rate from `restart` on, the run opens without a burst |
| SendCapacity | depth to 4, values below and above the zero-copy threshold, up to 5 sends not yet notified | CapacitySound: a connection that sends whole batches and whose notifications are not behind by more than a pipeline holds no more than its share, one that sends partial ones no more than the sends its pipeline allows, and a run without a warning has all it asked for |
| RequestTimer | timeouts 0, 2, 3, depth 3, lag 1, time to 6 | NoEarlyTimeout, RecvBounded |
| Buffer | 2 byte values, capacity 4 growing to 8 | BufferIsQueue, the refinement of ByteQueue |
| Counters | 2 shards, 2 threads, one with an assigned shard and one without, 2 adds | CountersSound: a reading lies between the values at its start and its end, a gauge between 0 and the connections |
| DmaFabric | 2 buffers, 2 transfers, open may fail at every call | DmaSound: nothing used after close; ActivePolled: a transfer in flight is polled |
| DmaTransfers | 2 connections, 1 key, 2 transfers; keys from the program (both modules) or the provider (the default module) | DmaSound: a late write never lands in another request's buffer unless the provider repeats a key of an outstanding transfer, keys and requests are accounted for |
| AdminServer | 2 snapshots, a stream, a slow or failing step anywhere | RecordingKept: what was staged is in the recording or still in the staging file, unless the conversion failed; ShutdownUnlessMissed: only a missed notification keeps shutdown from returning |
| VectorSearch | 2 rows, stale keys, 2 clients, 2 loops | SearchSound: queries see the whole index, each is counted once |

Several properties are conjunctions of named parts, each with its own comment and, where the
parts can fail separately, a mutant of its own: RowsSound (SentAtMostOnce, FileOrder,
FinishedMeansAll), RequestsSound (RequestsConserved, StoredOnce, FinishedMeansAll),
PrefillSound (KeysConserved, WarmupMeansStored), AppendsSound (AppendsConserved,
ReadsWritten), GatesHold (CheckedBeforeTraffic, EndsFinished), TotalsSound
(NoWarmupCountsAll, RowsNearTotals), RequestsAccounted (SentAccounted, BackfillOnce),
TasksInStep (FlightMatches, GaugesExact), and the `...Sound` properties of the parts. The type
invariants are conjuncts of these where they are not proved.

One run ends in a violation: what the repository says of the program is not what the code
does, and `findings` quotes the line. In *runner_start_failure*, with one worker that fails
to start and one that runs, the precheck has no deadline. RunEnds in runner_phases shows that
this is the only way not to end as long as a worker's thread exits once it is told to stop;
that it does is assumed there (fairness of `Exit`), since the joins have no limit.

Other disagreements between text and code came up while modelling. The modules follow the
code; no run is about them.

- Two workers that serve one node each hand a moved key to each other for ever, because only
  one slot table learns of the move (`worker.rs:2685`, against "no busy-loop" at 1962 and the
  comment at 975).
- A MOVED to an address that does not parse, or is none of the endpoints, changes no slot table
  (`worker.rs:2690`), and the key is tried at the same node for ever. PrefillEnds and
  BatchCommits show that this and the disagreement above are the only ways not to end.
- `notify_waiters` stores no permit (`admin/mod.rs:109`): a task that is staging a snapshot or
  accepting a connection misses it, and the join after it does not return;
  `docs/reference.md:920` promises a final snapshot on shutdown.
- A conversion that fails is a warning, and the staging file, by then the only copy of the
  recording, is removed all the same (`admin/mod.rs:645` to 650).
- The precheck PING of the ping protocol goes through the client whose callback counts it as a
  response and a GET (`worker.rs:1685`, 3509), while `requests_sent` does not count it: responses
  can exceed requests by one for each precheck. SentAccounted has them as `prechecks`.
- `keyspace.count = 0` is refused under recency only: a uniform or zipf run with it passes
  `validate` and panics (`keydist.rs:81`; `keydist.rs:275` asserts "zipf keyspace must be
  non-empty"). SamplersDefined does not claim it.
- A provider that picks the remote keys (`FI_MR_PROV_KEY`, `dma/fabric/endpoint.rs:237`; the
  default provider is efa-direct) may give a key again once its buffer is closed. Nothing in the
  program keeps such a key from a transfer that was given up and is still outstanding at the
  server, so LateWritesMiss is stated for providers that do not repeat one of these.
- `standalone_task_capacity` (`runner.rs:1494`) counts the main connections only; append
  writers and dispatchers live off its slack, and a spawn that finds none is lost, which is
  what its comment says it prevents. AppendDrained has the slack as its premise.
- `pool_size` in a file makes `--connections` of valkey-lab ineffective
  (`config/mod.rs:269`), although flags are said to override the file (`valkey_lab.rs:411`).
- A connection with `1 < batch < depth` sends whatever is available once there is room for a
  batch, and the KV replay's loads send one at a time, so that a connection can hold more sends
  than the `pipeline_depth / batch` of the comment at `runner.rs:1650`. The pool does not count
  these: with depth 4 and batch 2 three partial batches are outstanding against a share of two.
  WithinShare is about whole batches, PartialSends bounds the others.
- Without a `[workload]` section its derived default gives `prefill_timeout` zero, which is
  not the 300 s of `docs/reference.md:228`.
- `pipeline_depth = 0` is refused for the KV replay only.
- Cluster discovery bounds each read and not the exchange, unlike auto-discovery.
- HELLO, VERSION and PING are awaited without the request timeout (`worker.rs:1771`);
  StopEndsConns has this as its exception, and ClaimedFinishes takes a connect attempt to end.
- `read_from` compacts when less than a quarter of the buffer is writable
  (`buffer/mod.rs:150`). A quarter of 3 bytes is 0, so a full buffer of that size whose first
  bytes were consumed refuses the read, where the comment at 147 says that it is compacted
  first. BufferImplementsQueue is about 4 bytes or more. No part of the program uses the module;
  it is exported and has tests.
- Rows that several workers return are claimed again in the order of the hand-backs, where
  the comment at `tracereplay.rs:472` speaks of file order.
- A hand-back does not end the dispatcher's sleep when the next idle connection asks after
  it (`kvreplay.rs:834` against the comment at 745).
- `start_rate` above `max_rate` is accepted, applied and reported (`saturation.rs:195`;
  `docs/guide.md:581` calls `max_rate` the cap).
- `connect_timeout = "0s"` fails the precheck at once (`runner.rs:570`); the comment in
  `config/example.toml:26` says unbounded.
- Without a warmup, a request that completes as the run stops is counted and its row says
  `recorded = 0` (`kvreplay.rs:981`, `docs/guide.md:371`). RowsNearTotals bounds how far
  the rows can be from the totals.

### Why the bounds are enough

Every queue, pipeline and batch has a bound that the instance reaches: pipelines fill (depth
2 or 3 with batch 1 or 2), a channel with read-ahead 1 blocks its reader, waiter lists reach
their cap and are compacted, buckets reach their cap and go empty, retries reach their limit
(one retry of a row, which is the first and the last attempt after a hand-back at once).
Two connections of one worker show the interleavings at awaits, two workers those of
threads; a third connection in Prefill, AppendStream and RoutedQueues is the one that shares
a node with another worker's or waits behind a dead entry. One fault with one slot move
covers each pair of a failure with a move. Claims of one row in TraceReplay make the two
workers alternate in the file, which is where returned rows and fresh ones meet. In
RunnerPhases a worker without connections and two workers that may fail to start cover the
ways a worker can be done with the precheck; a deadline can pass at any iteration, which
includes deadlines of zero. In RateSearch the bounds of the instance are those of the
configuration: every limit between 1 and the top rate is an initial state. `MaxMint`,
`MaxTime`, `MaxFaults`, `MaxMoves`, `MaxSends`, `MaxAdds`, `MaxDrives`, `MaxTransfers`,
`MaxSnapshots`, `MaxTicks`, `MaxLingering` and `MaxLoops` bound only how long a behaviour is followed.

MemcacheConn has one task at a time because its tasks share nothing that the model keeps
beside queues; two keys and depth 2 let a failed flush split a pipeline of two. In the parts
the bounds reach what each is about: key masses that leave a node with less than one
connection, a rate above and one below what the caps were built for, pools at their clamp,
buffers that compact with unread bytes and grow, a remote key in use after its request was
given up (the run combines keys of the provider with the default module only, the theorem has
all combinations), a notify between the poller's check and its wait.

Deadlock is checked where tasks wait on each other and nothing else ends the model
(TokenDispatch, TraceReplay, KvDispatch). It is off where the model has an end
(a finished search, a run that returned) or where the faults are bounded and a stopped run
has nothing left to do (Prefill, AppendStream, RoutedQueues, MemcacheConn, the parts).

### Fairness

A woken task is polled: weak fairness where the model gives the task a thread of its own,
strong fairness where tasks share a worker's thread and another may run first (KvDispatch,
RoutedQueues), because the executor polls its ready queue in order. Timers fire and time
passes. A reply comes or the request times out, which RequestTimer shows. Reader threads
and the runner's loop go on.

Where connections compete for tokens, for sends that succeed or for connects, nothing is
assumed of any one of them: the limiter or the pacer goes on paying *some* connection that
can use it (`\E c` inside one strong fairness condition in TraceReplay, Prefill and
AppendStream), and in TraceReplay some attempt and some flush among those that keep being
tried gets through. Prefill, AppendStream and RoutedQueues bound their faults and ask of a
connection that it connects once they are used up. KvDispatch and RunnerPhases assume
neither that a connect ever succeeds nor that faults stop. TokenDispatch assumes that the
run is stopped, and nothing of the limiter.

PrefillEnds and BatchCommits are checked with two workers and carry two exceptions. The slot
tables of the two workers disagree from some point on (TablesDisagree): there the fairness
above does not help, since the key is handed over without ever being sent to the node that
would correct the second table. Or a key that is not stored belongs to a node that is no
endpoint from some point on (Stranded): no connection leads there.

RunnerPhases asks of a worker's thread that it exits once it sees Stop, of the runner that it
goes on from one handle to the next, and of a search that it ends, which is SearchEnds of
RateSearch. KvDispatch has a connect attempt end, which the connect timeout gives up to HELLO;
HELLO's own wait has none.

MemcacheConn asks that a task that may run is polled and that a receive ends by a reply, a
failure or its deadline; nothing of the server's answer to VERSION or PING. In the parts,
DmaFabric has the poller running and the worker finishing a notify and its drops, and
AdminServer the admin thread running and the runner calling shutdown and joining; clients of
the server and the streams owe nothing.

## Proofs

| module | theorems | inductive invariant |
|---|---|---|
| TokenDispatchProofs | TypeCorrect, WakeupSafe, ClaimWakes, UnfundedOnlyByDrain, RateConformance | TypeOK, then PhaseInv and WakeInv, then RateInv |
| RateSearchProofs | Inductive, TypeCorrect, ReportsBest, TransientsDoNotCap | TypeOK, BracketInv, LimitInv |
| RunnerPhasesProofs | RunnerInvariant, Gates, Totals | Types, WorkersCounted, RequestsCounted, PhaseMeans, FinishedForGood, ClockAndBase, RowsAndBase |
| KvDispatchProofs | KvInvariant, RequestsNeverLost, WaitersServed | Types, OnePlace, ChanOnce to RunningOnce, SlotsMatch, QueueExact, StoresMatch, CountersMatch |
| RoutedQueuesProofs | RoutedInvariant, ListsExact, NothingStranded | QueueTypes, ConnTypes, ListsGood, LiveWaits, ConnsInStep, NoStrandedRequest |
| KeyQueuesProofs | PrefillCorrect, AppendsCorrect | PrefillInv (KeyBooks, Receiving, Counted); AppendInv (IdBooks, WritersReceiving, RunnerInv, IdsCounted) |
| TraceReplayProofs | TraceReplayCorrect, RowsKept | ReplayInv: ListTypes, Books, Once, Counts, Watched, OnWire, Tries, Tasks, Order |
| EndpointsProofs | TimerInductive, TimerTypes, TimeoutsAreDue, TimersInTime, RecvsEnd; RecordingIsKept, DmaIsSound, BufferImplementsQueue | TimerInv; AdminInv; FabricInv; TransfersInv, KeysApart, TalliesExact; BufferInv |

*TokenDispatch.* NoLostWakeup is not inductive: that the head of the queue has a waker in its
slot depends on no connection being in the queue twice and on a completed slot being out of
it, which WakeInv states; PhaseInv ties the runner's place in `restart` to the phase. The
bound on the offered load needs the balance of RateInv: what the bucket holds, what it is
owed, and what was granted and not yet fired never exceed the stagger and what was minted
since restart. It is proved for any number of connections, batch, cap and stagger below a
batch (`TokenAssumption`, from `WorkerLimiter::build`).

*RateSearch.* KneeIsBest needs that the knee is the lower end of the bracket whenever there
is one and that what failed above is at its upper end (BracketInv); KneeAccurate needs in
addition what the failures in a row say about the limit (LimitInv). `SearchAssumption` is
what validation accepts.

*RequestTimer* (TimerInv, in EndpointsProofs). A timer outlives the request it was armed for, so TimerNotLate holds only
with fire times in order (FiredInOrder: one clock read stamps a batch) and with the reason
the timer has its value (TimerExplained); RecvBounded follows with RecvWatched, that a
bounded recv always has a timer. All for any set of timeouts, depth and lag.

*RunnerPhases.* GatesHold and TotalsSound are about counters that several threads raise and
the runner compares, so the invariant says what each counter counts: `started` with the
workers that have not started is at most the number of threads, `precheck_done` is the number
of workers that set their own flag (WorkersCounted), and every claimed request is running,
handed back or finished, every finished one about to be counted, counted or in a row
(RequestsCounted). EndsFinished then follows from what the phase implies (PhaseMeans) and
because nothing is sent after the runner found the replay finished (FinishedForGood).
RowsNearTotals is not inductive:
a row is written after its request was counted, and the baseline may be taken in between, so
RowsAndBase carries the requests that are counted and not yet in a row. `RunnerAssumption`
asks for finite workers and connections and that `None` is none of the values it stands
beside.

*KvDispatch.* A request is in the reader's hand, in the channel, held by a worker, handed
back, at a connection, or settled; OnePlace says it is in exactly one of these, and that takes
the four facts that no place holds it twice. StoredOnce needs StoresMatch (a request that was
stored is not handed back), NobodyForgotten needs QueueExact (the queue of a worker is the set
of connections that wait, each once, and is empty once closed) and FinishedMeansAll needs
CountersMatch. It holds for any number of requests, workers and connections and any read-ahead.

*RoutedQueues.* WaitersExact counts; what every step preserves is that no connection has two
live entries in its node's list (ListsGood) and that it has one exactly while it waits unwoken
(LiveWaits). The hard step is the compaction, which must keep each live entry and their order:
`Compacted` puts the k-th live entry at place k, and the lemmas on `Rank` show that this is a
bijection. NoStrandedRequest is inductive with these and with ConnsInStep: a task waits only
when the queue is empty, a push wakes a live entry if there is one, and by LiveWaits there is
none only when every task of the node is already on its way.

*Prefill and AppendStream.* Both have queues by endpoint and lists of what is in flight, and
move a key from one to another; the lemmas on `Books` are stated once over the lists and used
by both modules. `Books` says that a key is at most once in all the lists; every move (a
send, a failed send that puts the newest back in front, a reroute, a retry, a requeue of
what a lost connection had) keeps the keys that are held, and only a confirmation takes one
out. Counted, or IdsCounted, then ties the counter to the keys that nobody holds and says that
the server has those. This is why the runner, which only compares two counters, is right to
leave Prefill, and why the head of the append stream moves only over ids that were written.
RunnerInv says which ids the open batch has while the runner still enqueues it. That
`inFlight` agrees with the client's own list after a failed send is part of both invariants.
The requeue after a disconnect spreads a list over all queues; `Picked` and the lemmas on
`Rank` show that each key lands in one of them. `PrefillAssumption` asks for finitely many
keys. AppendsCorrect is about the instance `A` that MCAppendStream checks, whose
variables have names of their own so that one module can prove about both;
`AppendParameters` asks for what validation and the set-up grant.

*TraceReplay.* A row the reader took up is in its batch, in the channel, returned, claimed by
a worker, sent on a connection, answered or abandoned. Books says that these seven sets are
disjoint and Once that no list has a row twice; a connection's step only moves rows among
six of them (`Moved`, `MovedApart`), so most actions reduce to saying which rows move. From this
and from what was taken up only growing, RowsConserved follows step by step. SentAtMostOnce
needs OnWire: a row on the wire is settled or among the flushed ones of a connection, so a
failed send, which gives back buffered rows only, never returns it. The three loads of
`is_finished` happen at different times; Counts says what each counter counts and Watched that
what was read stays a lower bound. FileOrder is not inductive at all by itself: Order puts
the flushed rows of a worker before the buffered ones, these before its claimed ones and all
before the channel, and it takes Tasks, that only the connection being polled has rows
buffered. Order is claimed until a connection fails (`disorder`), as in the code.
For any trace, workers, connections, pipeline, read-ahead and number of attempts.

*The endpoints.* A step of `EndsNext` is a step of one part and leaves the others alone, so
each part's invariant is proved of its own next-state relation and holds of the composition.
The theorems are about `EndsSpec`; every behaviour of the run's `PartsSpec` is one of it, since
the other parts leave its variables alone and it has the same fairness.

- The admin thread (AdminInv): where the recorder is and which step failed decide whether the
  staging file may be gone and what was converted. A flush or sync that fails leaves the file; a
  conversion that fails loses it, and that case is an exception of RecordingKept.
- The fabric (FabricInv): what is open is what `open` acquired first, whichever call failed,
  and registrations, clones and the poller exist only while the endpoint is open and before
  the join. Hence nothing is used after its close, for any number of buffers and transfers.
- The transfers: a buffer's remote key is no other connection's, and, unless the provider
  repeats keys of outstanding transfers, a
  job of the server either belongs to the request its connection awaits or carries a key that
  no buffer has any more (ConnSound, JobSound). This is why a late write misses. A key of the
  prefill is in the queue once, in flight on one connection, or confirmed (KeysApart), and a
  confirmed one is in the server's store; the tallies are exact (TalliesExact).
  `DmaAssumption` asks for finite sets of connections and keys.
- The buffer: BufferImplementsQueue is the refinement itself, `EndsSpec => BufferIsQueue`.
  Initial states map to initial states and each operation to the queue's operation or to a
  stutter (compaction). It has the hypothesis `InitialCapacity >= 4`, which is sharp: below it
  `read_from` can refuse where the queue accepts (with `InitialCapacity = 3` TLC refutes
  BufferIsQueue), see the disagreements above. `BufferInv` keeps the
  positions in order, the unread bytes among those that were written, and the capacity at four
  or more.

The type invariants of TokenDispatch, RateSearch and RequestTimer, ClaimWakesDispatcher and
TimerNotLate are proved and no longer listed as properties of a run.

What stays with TLC: liveness (fairness and ENABLED are out of TLAPS's reach here); what a
recursion or fold computes for every input, which takes an induction the provers cannot
instantiate (LimitsSound, CountersSound, CapacitySound and PlacementSound are about sums,
DiscoverySound about the table that is built); RequestsAccounted and TasksInStep of MemcacheConn;
and AcceptedRuns and SearchSound, which are about one configuration or
search at a time and which TLC covers over the values that matter. No module uses RECURSIVE.

## Not modelled

- Payloads, values, latencies and percentiles: no property here is about them. The
  wire protocols and the clients are external (`ringline`), modelled from how the code
  uses them: requests in order, buffered until flushed, the newest buffered ones dropped
  when a send fails.
- KvDispatch abstracts a request to a look-up and a store; its pipelined exchange, one recv
  for several requests, is not in RequestTimer either. The case that a connection joins while
  another's request is stranded is reached in kv_dispatch only.
- RoutedQueues leaves out the limiter and backfills, RequestTimer the Stop phase.
- A worker thread that dies after it started.
- MemcacheConn runs one task at a time and leaves the limiter, the dispatchers and the ring
  to their modules; its tasks meet only in queues that Prefill and AppendStream check.
- Configuration keeps the options that other parts rely on; the syntax of sizes, durations
  and names, and checks on one value that nothing else compares, are left out.
- The text of replies in Discovery, the wire format of advertisements and the checksum in
  DmaTransfers (a match or a mismatch), the file formats of the vector data sets, the live
  stream and the page of the admin server.
- Output formatters and viewer draw what they are given; read_values touches bytes and keeps
  no state; client holds type aliases.
- Counter overflow at 2^64.

## Plan

Modelled, in this order: token dispatch, the two replays, the search, prefill, routed
dispatch, the request timeout, the append stream, the runner, the memcache tasks, and the
parts. Proved: token dispatch, the search, the timeout, the runner, the KV replay, routed
dispatch, the admin thread's recording, DMA, the receive buffer, prefill, the append stream
and the trace replay.

Next:

1. Proofs: RequestsAccounted and TasksInStep of MemcacheConn.
2. An abstract specification of "each item is handed out, and finished, once" that Prefill,
   AppendStream, TraceReplay and KvDispatch implement by refinement mappings.
3. RateSearch composed with WorkerLimits, and the KV replay's pipelined exchange in
   RequestTimer.
