------------------------------ MODULE Counters ------------------------------
(* The process-wide metrics: counters that live in the slots of a group      *)
(* with one shard per thread (sharded_counter.rs), the table that gives      *)
(* every counter its group and slot (metrics.rs), and the sharded gauges of  *)
(* open connections.  Adding is one atomic step on the adder's own shard;    *)
(* reading visits the shards one after the other while the threads go on     *)
(* adding, and that is the reading every report and every rate step of the   *)
(* benchmark is made of.  A behaviour watches two counters of one group, or  *)
(* a gauge.  u64 overflow is out of reach of a run and is left out.        *)
EXTENDS Integers, FiniteSets, FiniteSetsExt

CONSTANTS WorkerIds,    \* the ids the workers pass to set_thread_shard
          Unset,        \* a thread that never called it (no worker id)
          NumShards,    \* NUM_SHARDS
          MaxAdds,      \* bound on the additions of a behaviour
          MaxReads      \* bound on the readings

VARIABLES watched,      \* the metrics this behaviour touches
          unset_shard,  \* where the address of the unset thread's id falls
          shards,       \* one value per shard and cell <<group, slot>>
          truth,        \* what was really added to each watched metric
          up,           \* the threads whose connection is counted open
          adds,         \* additions so far
          reading       \* the reading under way, or the last one

vars == <<watched, unset_shard, shards, truth, up, adds, reading>>

Threads == WorkerIds \cup {Unset}

SLOTS == 16

RequestSlots == [requests_sent |-> 0, responses_received |-> 1,
                 request_errors |-> 2, request_timeouts |-> 3,
                 requests_send_failed |-> 4, routed_queue_dropped |-> 5]

CacheSlots == [cache_hits |-> 0, cache_misses |-> 1]

ConnectionSlots ==
    [connections_failed |-> 1, disconnects_eof |-> 2,
     disconnects_recv_error |-> 3, disconnects_send_error |-> 4,
     disconnects_closed_event |-> 5, disconnects_error_event |-> 6,
     disconnects_connect_failed |-> 7, disconnects_timeout |-> 8]

BytesSlots == [bytes_tx |-> 0, bytes_rx |-> 1, values_read_bytes |-> 2]

OpsSlots == [get_count |-> 0, set_count |-> 1, delete_count |-> 2,
             backfill_set_count |-> 3]

AppendSlots == [append_set_count |-> 0, append_set_errors |-> 1]

KvSlots ==
    [kv_requests |-> 0, kv_requests_failed |-> 1, kv_input_tokens |-> 2,
     kv_cached_tokens |-> 3, kv_new_tokens |-> 4, kv_full_hits |-> 5,
     kv_chunk0_misses |-> 6, kv_no_full_chunk |-> 7, kv_get_nil |-> 8,
     kv_exists_count |-> 9, kv_lookups |-> 10, kv_loads |-> 11,
     kv_stores |-> 12, kv_loads_with_cached_tokens |-> 13,
     kv_trace_read_waits |-> 14]

\* Mutant of TraceSlots: a slot index used twice.
TraceSlotsCrowded ==
    [trace_rows |-> 0, trace_rows_failed |-> 1, trace_rows_skipped |-> 2,
     trace_gets |-> 3, trace_sets |-> 4, trace_dels |-> 5,
     trace_read_waits |-> 5]

TraceSlots ==
    [trace_rows |-> 0, trace_rows_failed |-> 1, trace_rows_skipped |-> 2,
     trace_gets |-> 3, trace_sets |-> 4, trace_dels |-> 5,
     trace_read_waits |-> 6]

ClusterSlots == [cluster_redirects |-> 0]

Groups == {RequestSlots, CacheSlots, ConnectionSlots, BytesSlots, OpsSlots,
           AppendSlots, KvSlots, TraceSlots, ClusterSlots}

\* The sharded gauges; append_head and append_batches are single values that
\* the runner alone sets.
Gauges == {"connections_active", "append_connections_active"}

SlotOf(m) == (CHOOSE g \in Groups : m \in DOMAIN g)[m]

\* set_thread_shard: a worker's shard is its id modulo the number of shards.
WorkerShard(t) == t % NumShards

\* shard_index: any other thread's comes from an address.
ShardIndex(t) == IF t \in WorkerIds THEN WorkerShard(t) ELSE unset_shard

\* The cells a behaviour can touch: the slots of the watched counters, or the
\* a gauge's one value per shard.
Cells == IF watched \subseteq Gauges THEN {0} ELSE 0 .. SLOTS - 1

Cell(m) == IF m \in Gauges THEN 0 ELSE SlotOf(m)

NoReading == [of |-> "none", at |-> 0, sum |-> 0, floor |-> 0, ceiling |-> 0,
              left |-> MaxReads]

InitOf(sets) ==
    /\ watched \in sets
    /\ unset_shard \in 0 .. NumShards - 1
    /\ shards = [s \in 0 .. NumShards - 1 |-> [c \in Cells |-> 0]]
    /\ truth = [m \in watched |-> 0]
    /\ up = {}
    /\ adds = 0
    /\ reading = NoReading

Init == InitOf(UNION {kSubset(Min({2, Cardinality(DOMAIN g)}), DOMAIN g) : g \in Groups}
               \cup {{g} : g \in Gauges})

\* fetch_add on the thread's own shard: one indivisible step, so that two
\* threads that share a shard lose nothing.
FetchAdd(t, m, d) ==
    /\ adds < MaxAdds
    /\ adds' = adds + 1
    /\ shards' = [shards EXCEPT ![ShardIndex(t)][Cell(m)] = @ + d]
    /\ truth' = [truth EXCEPT ![m] = @ + d]

\* Counter::increment and Counter::add.
Add(t, m) ==
    /\ m \notin Gauges
    /\ FetchAdd(t, m, 1)
    /\ UNCHANGED <<watched, unset_shard, up, reading>>

\* Gauge::increment when a task's connection is up and Gauge::decrement when
\* it is gone: a connection task never leaves its thread.
Opens(t, g) ==
    /\ g \in Gauges
    /\ t \notin up
    /\ up' = up \cup {t}
    /\ FetchAdd(t, g, 1)
    /\ UNCHANGED <<watched, unset_shard, reading>>

Closes(t, g) ==
    /\ g \in Gauges
    /\ t \in up
    /\ up' = up \ {t}
    /\ FetchAdd(t, g, -1)
    /\ UNCHANGED <<watched, unset_shard, reading>>

ReadDone == reading.of = "none" \/ reading.at = NumShards

\* value(): the sum starts at zero ...
ReadStarts(m) ==
    /\ ReadDone
    /\ reading.left > 0
    /\ reading' = [of |-> m, at |-> 0, sum |-> 0, floor |-> truth[m],
                   ceiling |-> truth[m], left |-> reading.left - 1]
    /\ UNCHANGED <<watched, unset_shard, shards, truth, up, adds>>

\* Mutant of ReadShard: the last shard is left out.
ReadShardButLast ==
    /\ ~ReadDone
    /\ reading' = [reading EXCEPT !.at = @ + 1,
                     !.sum = IF reading.at < NumShards - 1
                             THEN @ + shards[reading.at][Cell(reading.of)]
                             ELSE @,
                     !.ceiling = truth[reading.of]]
    /\ UNCHANGED <<watched, unset_shard, shards, truth, up, adds>>

\* ... and loads one shard at a time.
ReadShard ==
    /\ ~ReadDone
    /\ reading' = [reading EXCEPT !.at = @ + 1,
                     !.sum = @ + shards[reading.at][Cell(reading.of)],
                     !.ceiling = truth[reading.of]]
    /\ UNCHANGED <<watched, unset_shard, shards, truth, up, adds>>

Next ==
    \/ \E t \in Threads, m \in watched : Add(t, m) \/ Opens(t, m) \/ Closes(t, m)
    \/ \E m \in watched : ReadStarts(m)
    \/ ReadShard

-----------------------------------------------------------------------------
(* Properties *)

\* A finished reading of a counter lies between what had been added when it
\* began and what had been added when it ended, whatever the other threads
\* and the other counters of the group did meanwhile: the totals of a report
\* never run ahead of the work and never fall back between two reports.  A
\* reading of a gauge is not such a value, since connections open and close
\* behind the reader, but it never falls below zero nor exceeds the number of
\* connections, and with nothing going on the shards add up exactly.
CountersSound ==
    /\ (reading.of # "none" /\ reading.at = NumShards) =>
         IF reading.of \in Gauges
         THEN reading.sum \in 0 .. Cardinality(Threads)
         ELSE reading.sum \in reading.floor .. reading.ceiling
    /\ \A m \in watched :
         MapThenSumSet(LAMBDA s : shards[s][Cell(m)], 0 .. NumShards - 1)
           = truth[m]

=============================================================================
