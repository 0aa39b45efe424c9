------------------------------ MODULE MCParts -------------------------------
(***************************************************************************)
(* The parts that share no state with each other, each on its own small    *)
(* instance: those of MCEndpoints, and eight more.  Of the set-up, the     *)
(* configuration, the discovery of the nodes, the placement of connections *)
(* on nodes and workers, each worker's share of the rate, and the size of  *)
(* the send pool.  Beside the connection tasks, the request timer, the     *)
(* counters and the vector search.  A behaviour is a behaviour of the one  *)
(* part that PartsInit chooses; the others stay in one of their initial    *)
(* states.  Every behaviour of PartsSpec is one of EndsSpec: the steps of  *)
(* the eight leave the variables of MCEndpoints alone.                     *)
(***************************************************************************)
EXTENDS RequestTimer, MCEndpoints

CONSTANTS
  MaxEdits, PoolBytes, MaxTheta,                               \* Configuration
  SeedCount, Nodes, SlotCount, MaxRanges, Deadline, ReadTicks, MaxChunks,  \* Discovery
  MaxNodes, MaxConns, MaxThreads, Headroom, PoolDefault,       \* Placement
  RatesOf, ClaimsOf, SubUnits, Ticks, MaxTicks,                \* WorkerLimits
  MaxDepth, MaxTotal, ValueLens, MaxLingering, ZcThreshold, GuardsPerSend, SlotBytes, RecordBytes,
  Framing, Slack, PoolFloor, SlabFloor, SlotMax,               \* SendCapacity
  WorkerIds, Unset, NumShards, MaxAdds, MaxReads,              \* Counters
  Rows, StaleIds, Tests, TruthDepth, ClientCount, MaxLoops     \* VectorSearch

(* Three keys, drawn with theta 2: a node can be owed less than the one    *)
(* connection it gets, which another gives up for it, and the whole        *)
(* targets of two nodes can leave a connection over.                       *)
KeyMass == <<36, 9, 4>>

(* Connections per worker: unequal, and a worker without any.              *)
WeightsOf == {<<1, 2>>, <<1, 1, 0>>}

VARIABLES
  program, dma_built, cfg, cstage, edits,
  mode, tls, seed, dpc, left, spent, command, reply, got, found,
  plan, pstep, count, assigned, started, unopened, prechecked, conns, writing,
  weights, claimSize, cap, start, avail, due, rate, open, taken, owed, clock,
  loads, queue, lingering, whole, looking,
  watched, unset_shard, shards, truth, up, adds, reading,
  job, vpc, row, docs, other, index, dealer, query, answered, latencies, hits

Cfg == INSTANCE Configuration
Dsc == INSTANCE Discovery
Plc == INSTANCE Placement
Lim == INSTANCE WorkerLimits
Cap == INSTANCE SendCapacity
Cnt == INSTANCE Counters
Vec == INSTANCE VectorSearch WITH Depth <- TruthDepth

tv == vars
cv == <<program, dma_built, cfg, cstage, edits>>
dv == <<mode, tls, seed, dpc, left, spent, command, reply, got, found>>
pv == <<plan, pstep, count, assigned, started, unopened, prechecked, conns, writing>>
lv == <<weights, claimSize, cap, start, avail, due, rate, open, taken, owed, clock>>
sv == <<loads, queue, lingering, whole, looking>>
nv == <<watched, unset_shard, shards, truth, up, adds, reading>>
vv == <<job, vpc, row, docs, other, index, dealer, query, answered, latencies, hits>>

setup   == <<cv, dv, pv, lv, sv>>
beside  == <<tv, nv, vv>>
partvars == <<allvars, setup, beside>>

Parts == {"buffer", "fabric", "dma", "admin",
          "configuration", "discovery", "placement", "limits", "capacity",
          "timer", "counters", "vector"}

PartsInit ==
  /\ part \in Parts
  /\ EndsInit /\ (largeobj => remote_keys = "application")
  /\ Cfg!Init /\ (part # "configuration" => cfg = Cfg!Defaults)
  /\ Dsc!Init /\ (part # "discovery" => mode = "cluster")
  /\ IF part = "placement" THEN Plc!Init
     ELSE Plc!InitOf([nodes |-> 1, total |-> 1, threads |-> 1, route |-> <<0, 0, 0>>,
                      use |-> "reads", limited |-> FALSE, key_share |-> FALSE,
                      writers |-> 0, dma |-> FALSE])
  /\ IF part = "limits" THEN Lim!Init ELSE Lim!InitOf(<<1, 2>>, 1, 1)
  /\ IF part = "capacity" THEN Cap!Init
     ELSE Cap!InitOf({<<Cap!MainLoad(1, 1, 0, 1, FALSE)>>})
  /\ Init     /\ (part # "timer" => timeout = 0)
  /\ IF part = "counters" THEN Cnt!Init
     ELSE Cnt!InitOf({{"connections_active"}}) /\ unset_shard = 0
  /\ IF part = "vector" THEN Vec!Init
     ELSE Vec!InitOf({CHOOSE j \in Vec!Jobs : TRUE}, {{}}) /\ index = Vec!NoIndex

PartsNext ==
  \/ EndsNext /\ UNCHANGED <<setup, beside>>
  \/ part = "configuration" /\ Cfg!Next /\ UNCHANGED <<allvars, dv, pv, lv, sv, beside>>
  \/ part = "discovery"     /\ Dsc!Next /\ UNCHANGED <<allvars, cv, pv, lv, sv, beside>>
  \/ part = "placement"     /\ Plc!Next /\ UNCHANGED <<allvars, cv, dv, lv, sv, beside>>
  \/ part = "limits"        /\ Lim!Next /\ UNCHANGED <<allvars, cv, dv, pv, sv, beside>>
  \/ part = "capacity"      /\ Cap!Next /\ UNCHANGED <<allvars, cv, dv, pv, lv, beside>>
  \/ part = "timer"    /\ Next     /\ UNCHANGED <<allvars, setup, nv, vv>>
  \/ part = "counters" /\ Cnt!Next /\ UNCHANGED <<allvars, setup, tv, vv>>
  \/ part = "vector"   /\ Vec!Next /\ UNCHANGED <<allvars, setup, tv, nv>>

PartsSpec == PartsInit /\ [][PartsNext]_partvars /\ EndsFairness

-----------------------------------------------------------------------------
(* A configuration that reaches the runner can be run, whether it came     *)
(* from a file, from flags or from both (config/mod.rs, valkey_lab.rs).    *)
AcceptedRuns == part = "configuration" => Cfg!AcceptedRuns

(* No seed outlasts its deadline, and what discovery returns is a          *)
(* topology: distinct nodes, every mapped slot on one of them              *)
(* (cluster.rs, autodiscovery.rs).                                         *)
DiscoverySound == part = "discovery" => Dsc!DiscoverySound

(* Connections, queues, token shares and append writers are dealt out so   *)
(* that nothing is left without a task to serve it (worker.rs:1379-1492).  *)
PlacementSound == part = "placement" => Plc!PlacementSound

(* Every worker's limiter can fund a claim, together they stay within the  *)
(* rate, and they open staggered, also after set_rate (limiters.rs:328).   *)
LimitsSound == part = "limits" => Lim!LimitsSound

(* Whole batches stay within what is counted for a connection, a run that  *)
(* starts without a warning got all that was counted, and partial batches, *)
(* which are not counted, are bounded (send_pool_slots, check_send_pool).  *)
CapacitySound == part = "capacity" => Cap!CapacitySound

(* A reading of a counter is a value the counter had while it was read     *)
(* (sharded_counter.rs).                                                   *)
CountersSound == part = "counters" => Cnt!CountersSound

(* Queries see the whole index and the report counts each of them once     *)
(* (search/phases.rs).                                                     *)
SearchSound == part = "vector" => Vec!SearchSound
=============================================================================
