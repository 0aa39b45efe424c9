---------------------------- MODULE SendCapacity ----------------------------
(***************************************************************************)
(* How much send capacity a run asks ringline for: SendLoad,               *)
(* send_slab_slots, send_pool_slots and check_send_pool of                 *)
(* src/src/runner.rs, next to what a connection then holds: whole batches, *)
(* which is what the sizes count, and partial ones, which they do not.  A  *)
(* send that finds no slab entry or no pool slot fails, and the sizes are  *)
(* clamped to u16::MAX: only the pool's clamp is reported.                 *)
(***************************************************************************)
EXTENDS Integers, Sequences, FiniteSetsExt, SequencesExt

CONSTANTS
    MaxDepth,        \* bound: pipeline_depth
    MaxTotal,        \* bound: connections
    ValueLens,       \* bound: value lengths tried
    MaxLingering,    \* bound: answered sends that the kernel still holds
    ZcThreshold,     \* ZC_VALUE_THRESHOLD
    GuardsPerSend,   \* MAX_GUARDS_PER_SEND
    SlotBytes,       \* RINGLINE_SEND_SLOT_SIZE
    RecordBytes,     \* TLS_RECORD_PLAINTEXT
    Framing,         \* REQUEST_FRAMING and the key, in bytes
    Slack,           \* POOL_HEADROOM
    PoolFloor,       \* RINGLINE_SEND_POOL_DEFAULT
    SlabFloor,       \* RINGLINE_SEND_SLAB_DEFAULT
    SlotMax          \* u16::MAX

VARIABLES
    loads,           \* the groups of connections, as SendLoad records
    queue,           \* one connection of the first group: replies each send still waits for
    lingering,       \* its sends that are answered but not yet notified by the kernel
    whole,           \* has every send so far been a whole batch
    looking          \* is a KV replay lookup being sent

svars == <<loads, queue, lingering, whole, looking>>

Ceil(a, b) == (a + b - 1) \div b
AtLeast(a, b) == IF a > b THEN a ELSE b
AtMost(a, b) == IF a < b THEN a ELSE b

\* SendLoad::main with effective_batch_size (0: batch_size is unset), and the
\* variants for KV replay (a lookup sends every EXISTS of a request at once),
\* trace replay (both copied and zero-copy values) and the append writers.
MainLoad(total, depth, batch, value, tls) ==
    [connections |-> total, pipeline_depth |-> depth,
     batch_size |-> AtMost(AtLeast(IF batch = 0 THEN depth ELSE batch, 1), AtLeast(depth, 1)),
     value_len |-> value, tls |-> tls, lookup_bytes |-> 0]
KvLoad(m, objects) == [m EXCEPT !.lookup_bytes = objects * Framing]
TraceLoads(m) ==
    LET copied == [m EXCEPT !.value_len = AtMost(@, ZcThreshold - 1)]
    IN  IF m.value_len < ZcThreshold THEN <<copied>> ELSE <<copied, m>>
AppendLoad(m, conns, depth) ==
    [m EXCEPT !.connections = conns, !.pipeline_depth = depth, !.batch_size = 1]

\* The loads of a run on one worker thread: what the runner passes on.
Runs ==
    LET mains == {MainLoad(t, d, b, v, tls) : t \in 1 .. MaxTotal, d \in 1 .. MaxDepth,
                                              b \in 0 .. MaxDepth, v \in ValueLens,
                                              tls \in BOOLEAN}
    IN  {<<m>> : m \in mains}
        \cup {<<KvLoad(m, o)>> : m \in mains, o \in {1, 3, 3 * SlotMax * SlotBytes}}
        \cup {TraceLoads(m) : m \in mains}
        \cup {<<m, AppendLoad(m, c, MaxDepth)>> : m \in mains, c \in {1, MaxTotal}}

InitOf(rs) ==
    /\ loads \in rs
    /\ queue = <<>>
    /\ lingering = 0
    /\ whole = TRUE
    /\ looking = FALSE
Init == InitOf(Runs)

Batch(l) == AtMost(AtLeast(l.batch_size, 1), AtLeast(l.pipeline_depth, 1))
WholeBatches(l) == AtLeast(l.pipeline_depth, 1) \div Batch(l)
Batches(l) == Ceil(AtLeast(l.pipeline_depth, 1), Batch(l))
ZeroCopy(l) == ~l.tls /\ l.value_len >= ZcThreshold
SendsPerBatch(l) == IF ZeroCopy(l) THEN Ceil(Batch(l), GuardsPerSend) ELSE 1
SendsPerConnection(l) == Batches(l) * SendsPerBatch(l)
SlotsFor(l, bytes) == Ceil(bytes, IF l.tls THEN RecordBytes ELSE SlotBytes)
SlotsOfBytes(l) ==
    SlotsFor(l, Batch(l) * (Framing + (IF ZeroCopy(l) THEN 0 ELSE l.value_len)))
SlotsPerBatch(l) == AtLeast(SlotsOfBytes(l), SendsPerBatch(l))
LookupSlots(l) == SlotsFor(l, l.lookup_bytes)
PoolSlotsPerConnection(l) == 2 * Batches(l) * SlotsPerBatch(l) + LookupSlots(l)
SlabPerConnection(l) == IF ZeroCopy(l) THEN 2 * SendsPerConnection(l) ELSE 0

\* per_worker_demand of all groups, and per_worker's clamp.
Demand(Per(_)) ==
    Slack + FoldLeft(LAMBDA sum, l : sum + l.connections * Per(l), 0, loads)
Clamped(demand, floor) == AtMost(AtLeast(demand, floor), SlotMax)
SendSlabSlots == Clamped(Demand(SlabPerConnection), SlabFloor)
SendPoolSlots == Clamped(Demand(PoolSlotsPerConnection), PoolFloor)

\* check_send_pool: the run is refused, starts with a warning, or starts.
CheckSendPool ==
    IF \E i \in DOMAIN loads : LookupSlots(loads[i]) > SlotMax THEN "refused"
    ELSE IF Demand(PoolSlotsPerConnection) <= SlotMax THEN "fits" ELSE "warned"

InFlight == FoldLeft(LAMBDA a, b : a + b, 0, queue)

\* What the client makes of n requests: a send for each max_batch_size of them,
\* and one for the rest.
Sends(l, n) ==
    [i \in 1 .. Ceil(n, Batch(l)) |-> AtMost(Batch(l), n - (i - 1) * Batch(l))]

\* The room in the pipeline at which a connection fires: a whole batch's in the
\* fire loops, any in a KV replay, which tops the pipeline up after each reply.
RoomToFire(l) == IF l.lookup_bytes > 0 THEN 1 ELSE Batch(l)

\* The fire loop of a connection: as many requests as there are keys, queued
\* requests or tokens for, within the room.
Fire ==
    LET l == loads[1]
        room == l.pipeline_depth - InFlight
    IN  /\ CheckSendPool # "refused"
        /\ ~looking
        /\ room >= RoomToFire(l)
        /\ \E n \in 1 .. room :
              /\ queue' = queue \o Sends(l, n)
              /\ whole' = (whole /\ n % Batch(l) = 0)
        /\ UNCHANGED <<loads, lingering, looking>>

\* A reply, in order; the last of a send leaves it to the kernel, which holds
\* its slab entry and slots until the notification.
Reply ==
    /\ queue # <<>>
    /\ lingering < MaxLingering
    /\ queue' = IF Head(queue) = 1 THEN Tail(queue) ELSE [queue EXCEPT ![1] = @ - 1]
    /\ lingering' = IF Head(queue) = 1 THEN lingering + 1 ELSE lingering
    /\ UNCHANGED <<loads, whole, looking>>

Notified ==
    /\ lingering > 0
    /\ lingering' = lingering - 1
    /\ UNCHANGED <<loads, queue, whole, looking>>

\* A KV replay lookup: all EXISTS of a request in one send, and its end.
Lookup ==
    /\ CheckSendPool # "refused"
    /\ loads[1].lookup_bytes > 0
    /\ queue = <<>>
    /\ ~looking
    /\ looking' = TRUE
    /\ UNCHANGED <<loads, queue, lingering, whole>>

LookedUp ==
    /\ looking
    /\ looking' = FALSE
    /\ UNCHANGED <<loads, queue, lingering, whole>>

Next == Fire \/ Reply \/ Notified \/ Lookup \/ LookedUp

Spec == Init /\ [][Next]_svars

-----------------------------------------------------------------------------
(* Properties *)

\* A connection whose sends were all whole batches, with the kernel at most one
\* notification behind for each batch of the pipeline (the assumption in the
\* comment on send_slab_slots), never holds more sends, or more slots, than the
\* sizes counted for it.
WithinShare ==
    LET l == loads[1]
        held == Len(queue) + lingering
    IN  whole /\ lingering <= Batches(l) =>
          /\ held * SendsPerBatch(l) <= 2 * SendsPerConnection(l)
          /\ held * SlotsPerBatch(l) + (IF looking THEN LookupSlots(l) ELSE 0)
                <= PoolSlotsPerConnection(l)

\* Partial batches cost at most this: waiting for room for a batch keeps the
\* sends outstanding to one more than the requests beside it, and so within the
\* share when batches are single requests or the whole pipeline; a KV replay
\* may have one for each request.
PartialSends ==
    LET l == loads[1]
    IN  Len(queue) <= l.pipeline_depth - RoomToFire(l) + 1

\* A run that starts without a warning has all it asked for, the slab entries
\* too, although only the pool's size is compared with the maximum; and one
\* that starts at all can send its largest lookup.
FitsWithoutWarning ==
    /\ CheckSendPool = "fits" =>
          /\ SendPoolSlots >= Demand(PoolSlotsPerConnection)
          /\ SendSlabSlots >= Demand(SlabPerConnection)
    /\ CheckSendPool # "refused" => LookupSlots(loads[1]) <= SendPoolSlots

\* Whole batches fit the capacity that was asked for, unless the run was warned,
\* and partial ones are bounded.
CapacitySound == WithinShare /\ PartialSends /\ FitsWithoutWarning
=============================================================================
