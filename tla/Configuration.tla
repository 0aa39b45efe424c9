--------------------------- MODULE Configuration ---------------------------
(***************************************************************************)
(* From a TOML file and command-line flags to a configuration a run may    *)
(* start with: Config and its validate of src/src/config/mod.rs, the two   *)
(* programs that build one (src/src/main.rs, src/src/valkey_lab.rs) and    *)
(* the protocol check of resolve_endpoints (src/src/runner.rs).            *)
(*                                                                         *)
(* The rest of the program relies on combinations that no single check     *)
(* names: a replay on one server, one dispatcher, a limiter under a routed *)
(* run.  They hold because of several refusals together, and only if the   *)
(* flags, which are applied after the file was checked, are checked too.   *)
(* Names, paths and durations that nothing compares are left out; sizes    *)
(* are small numbers with the real order between them.  None is an option  *)
(* the code tells from zero; a rate or a timeout of zero is one not set.   *)
(***************************************************************************)
EXTENDS Integers, Sequences, FiniteSets

CONSTANTS
    MaxEdits,       \* bound: options changed from one of the shapes below
    PoolBytes,      \* VALUE_POOL_SIZE
    MaxTheta        \* MAX_ZIPF_THETA

VARIABLES
    program,        \* "cachecannon", "bench" or "saturate" (valkey-lab), once started
    dma_built,      \* was the program built with the dma feature
    cfg,            \* the configuration as it stands
    cstage,         \* "file", "loaded", "launch", "accepted" or "refused"
    edits           \* options that differ from the shape

cvars == <<program, dma_built, cfg, cstage, edits>>

None == -1
Programs == {"cachecannon", "bench", "saturate"}
Resp == {"resp"}                     \* resp and resp3
Memcache == {"memcache"}             \* memcache and memcache-binary

\* The defaults of General, Target, Connection, Workload, Keyspace, Commands,
\* Values, Timestamps, Dma and Resp, as far as something depends on them.
GeneralDefault == [threads |-> 1, cpu_list |-> "none", ring |-> "unset", recv_buffer |-> "unset"]
TargetDefault ==
    [endpoints |-> 1, protocol |-> "resp", tls |-> FALSE, ca |-> FALSE, cert |-> FALSE,
     key |-> FALSE, cluster |-> FALSE, auto |-> FALSE]
ConnectionDefault ==
    [connections |-> 1, pool_size |-> None, depth |-> 1, batch_size |-> None, key_share |-> FALSE]
WorkloadDefault ==
    [rate_limit |-> 0, prefill |-> FALSE, prefill_rate |-> 0, prefill_timeout |-> 3,
     backfill |-> FALSE, routed |-> FALSE, read_values |-> FALSE, commands |-> TRUE,
     value_len |-> 2]
KeyspaceDefault ==
    [count |-> 4, distribution |-> "uniform", theta |-> 1, uuid |-> FALSE, key_len |-> 16,
     hot_window |-> TRUE]
SectionDefault ==
    [saturation |-> "none", append |-> "none", append_conns |-> 1, kv |-> "none",
     trace |-> FALSE, largeobj |-> FALSE, dma_capacity |-> None, timestamps |-> "userspace"]

Merge(f, g) == [x \in DOMAIN f \cup DOMAIN g |-> IF x \in DOMAIN g THEN g[x] ELSE f[x]]
Defaults ==
    Merge(Merge(GeneralDefault, TargetDefault),
          Merge(Merge(ConnectionDefault, WorkloadDefault), Merge(KeyspaceDefault, SectionDefault)))

\* The kinds of run the documentation describes; files are these, edited.
Shapes ==
    {Defaults,
     [Defaults EXCEPT !.distribution = "recency", !.append = "set", !.prefill = TRUE],
     [Defaults EXCEPT !.kv = "bytes"],
     [Defaults EXCEPT !.trace = TRUE, !.rate_limit = 2],
     [Defaults EXCEPT !.routed = TRUE, !.saturation = "set", !.endpoints = 2, !.connections = 2],
     [Defaults EXCEPT !.key_share = TRUE, !.distribution = "zipf", !.endpoints = 2,
                      !.connections = 2],
     [Defaults EXCEPT !.protocol = "memcache", !.auto = TRUE],
     [Defaults EXCEPT !.protocol = "dma", !.dma_capacity = 2]}

\* The optional sections of a file.  "bad" stands for one that its own checks
\* refuse: a search with no start rate, a multiplier of at most 1, a throughput
\* ratio outside 0 .. 1 or no threshold; an append stream whose batch, period or
\* depth is zero; for a KV replay see BadKv.
SearchSections == {"none", "set", "bad"}
AppendSections == {"none", "set", "bad"}
KvSections == {"none", "bytes", "model", "bad"}

\* What an option may be set to: the values some check tells apart.
Values(option) ==
    CASE option \in {"tls", "ca", "cert", "key", "cluster", "auto", "key_share", "prefill", "backfill",
                     "routed", "read_values", "commands", "uuid", "hot_window", "trace",
                     "largeobj"} -> BOOLEAN
      [] option = "cpu_list" -> {"none", "parts", "reversed range"}
      [] option = "ring" -> {"unset", "zero", "power of two", "other"}
      [] option = "recv_buffer" -> {"unset", "zero", "positive"}
      [] option = "protocol" -> {"resp", "memcache", "ping", "dma"}
      [] option = "distribution" -> {"uniform", "zipf", "recency"}
      [] option = "key_len" -> {16, 36}
      [] option = "saturation" -> SearchSections
      [] option = "append" -> AppendSections
      [] option = "kv" -> KvSections
      [] option = "timestamps" -> {"userspace", "software"}
      [] option = "theta" -> {0, 1, MaxTheta + 1}
      [] option = "value_len" -> {0, 2, PoolBytes + 1}
      [] option = "threads" -> {0, 1}
      [] option = "batch_size" -> {None, 0, 3}
      [] option \in {"pool_size", "dma_capacity"} -> {None, 0, 1, 2}
      [] option = "prefill_timeout" -> {0, 3}
      [] option = "rate_limit" -> {0, 2}
      [] option = "count" -> {0, 4}
      [] OTHER -> 0 .. 2

Init ==
    /\ program = "none"
    /\ cfg \in Shapes
    /\ dma_built \in (IF cfg.protocol = "dma" THEN BOOLEAN ELSE {TRUE})
    /\ cstage = "file"
    /\ edits = 0

\* total_connections: pool_size, zero too, goes before connections.
Total(c) == IF c.pool_size # None THEN c.pool_size ELSE c.connections

-----------------------------------------------------------------------------
(* validate: each of these refuses a configuration. *)

BadTarget(c) ==
    \/ c.endpoints = 0
    \/ c.threads = 0
    \/ c.auto /\ (c.cluster \/ c.protocol \notin Memcache)

\* validate_prefill_pace: a paced prefill that cannot end within its timeout.
BadPace(c) ==
    /\ c.prefill
    /\ c.prefill_rate > 0
    /\ c.prefill_timeout > 0
    /\ c.count > c.prefill_rate * c.prefill_timeout

BadReceive(c) == c.ring \in {"zero", "other"} \/ c.recv_buffer = "zero"

BadTls(c) == c.cert # c.key \/ (~c.tls /\ (c.ca \/ c.cert \/ c.key))

BadDma(c) ==
    /\ c.protocol = "dma"
    /\ \/ ~dma_built
       \/ c.depth # 1
       \/ c.append # "none"
       \/ c.dma_capacity # None /\ c.dma_capacity < c.value_len

\* validate_resp_module.
BadModule(c) == c.largeobj /\ (c.protocol \notin Resp \/ c.append # "none" \/ c.kv # "none")

BadKeys(c) ==
    \/ Total(c) = 0
    \/ c.value_len = 0
    \/ c.uuid /\ c.key_len # 36
    \/ c.distribution = "zipf" /\ c.theta \notin 1 .. MaxTheta
    \/ c.key_share /\ c.distribution # "zipf"
    \/ c.key_share /\ c.endpoints > 1 /\ Total(c) < c.endpoints

\* validate_routed: the limiter is the same one the runner would build.
BadRouted(c) ==
    /\ c.routed
    /\ \/ c.rate_limit = 0 /\ c.saturation = "none"
       \/ c.protocol \notin Resp \cup Memcache
       \/ c.kv # "none"
       \/ c.trace
       \/ c.key_share

\* The recency distribution and the append stream, each only with the other.
BadAppend(c) ==
    \/ (c.append = "none") # (c.distribution # "recency")
    \/ c.distribution = "recency" /\ (~c.hot_window \/ c.count = 0)
    \/ c.append = "bad"
    \/ /\ c.append = "set"
       /\ \/ c.append_conns = 0
          \/ c.protocol = "ping"
          \/ c.endpoints > 1 /\ c.append_conns < c.endpoints

BadValues(c) ==
    \/ c.read_values /\ c.protocol \in {"ping", "dma"}
    \/ c.value_len > PoolBytes
    \/ c.timestamps = "software"
    \/ ~c.commands

\* validate_kv_replay; "bad" is an object size given twice, not at all or as
\* zero, one of the options that go with the other form, or a speedup or tp
\* that is refused.
BadKv(c) ==
    /\ c.kv # "none"
    /\ \/ c.kv = "bad"
       \/ c.depth = 0
       \/ c.protocol \notin Resp
       \/ c.cluster \/ c.endpoints > 1
       \/ c.rate_limit > 0 \/ c.saturation # "none" \/ c.prefill \/ c.backfill
       \/ c.read_values \/ c.append # "none"

\* validate_trace_replay.
BadTrace(c) ==
    /\ c.trace
    /\ \/ c.protocol \notin Resp
       \/ c.cluster \/ c.endpoints > 1
       \/ c.saturation # "none" \/ c.prefill \/ c.read_values \/ c.append # "none"
       \/ c.kv # "none"

Validates(c) ==
    ~\/ BadTarget(c) \/ BadPace(c) \/ BadReceive(c) \/ BadTls(c) \/ BadDma(c) \/ BadModule(c)
     \/ BadKeys(c) \/ BadRouted(c) \/ BadAppend(c) \/ BadValues(c) \/ BadKv(c) \/ BadTrace(c)
     \/ c.saturation = "bad"

\* effective_batch_size.
EffectiveBatch(c) ==
    LET wanted == IF c.batch_size # None THEN c.batch_size ELSE IF c.routed THEN 1 ELSE c.depth
        most == IF c.depth > 1 THEN c.depth ELSE 1
    IN  IF wanted < 1 THEN 1 ELSE IF wanted > most THEN most ELSE wanted

-----------------------------------------------------------------------------
(* Building a configuration *)

\* The file says something else.
Edit(option) ==
    /\ cstage = "file"
    /\ edits < MaxEdits
    /\ \E v \in Values(option) \ {cfg[option]} : cfg' = [cfg EXCEPT ![option] = v]
    /\ edits' = edits + 1
    /\ UNCHANGED <<program, dma_built, cstage>>

\* Config::load.  cachecannon has no flag that validate looks at, and starts.
Load(p) ==
    /\ cstage = "file"
    /\ program' = p
    /\ cstage' = IF ~Validates(cfg) THEN "refused"
                 ELSE IF p = "cachecannon" THEN "launch" ELSE "loaded"
    /\ UNCHANGED <<dma_built, cfg, edits>>

\* load_base_config without --config.  Workload::default is derived, so its
\* prefill_timeout is zero, which means none.
LoadDefaults(p) ==
    /\ cstage = "file"
    /\ p # "cachecannon"
    /\ edits = 0
    /\ program' = p
    /\ cfg' = [Defaults EXCEPT !.prefill_timeout = 0]
    /\ cstage' = "loaded"
    /\ UNCHANGED <<dma_built, edits>>

\* apply_bench_flags: a flag of valkey-lab, several in turn.
FlagOptions ==
    {"endpoints", "tls", "cluster", "threads", "cpu_list", "depth", "batch_size",
     "commands", "key_len", "count", "distribution", "value_len", "prefill", "backfill",
     "rate_limit"}
FlagValues(option) ==
    CASE option = "endpoints" -> {1}
      [] option \in {"tls", "cluster", "prefill", "backfill"} -> {TRUE}
      [] option = "distribution" -> {"uniform", "zipf"}
      [] option = "batch_size" -> {0, 3}
      [] OTHER -> Values(option)
Flag(option) ==
    /\ cstage = "loaded"
    /\ edits < MaxEdits
    /\ \E v \in FlagValues(option) \ {cfg[option]} : cfg' = [cfg EXCEPT ![option] = v]
    /\ edits' = edits + 1
    /\ UNCHANGED <<program, dma_built, cstage>>
FlagResp3 ==
    /\ cstage = "loaded"
    /\ cfg.protocol # "resp"
    /\ edits < MaxEdits
    /\ cfg' = [cfg EXCEPT !.protocol = "resp"]
    /\ edits' = edits + 1
    /\ UNCHANGED <<program, dma_built, cstage>>
FlagConnections ==
    /\ cstage = "loaded"
    /\ edits < MaxEdits
    /\ \E n \in 0 .. 2 : cfg' = [cfg EXCEPT !.connections = n]
    /\ edits' = edits + 1
    /\ UNCHANGED <<program, dma_built, cstage>>

\* build_config, and build_config_from_saturate, which replaces the search
\* section from its own flags ("bad": without a threshold, or with values that
\* validate refuses).
CheckedAsFile(c) == TRUE
Validated(c) == Validates(c)
Flagged ==
    /\ cstage = "loaded"
    /\ \E s \in (IF program = "saturate" THEN {"set", "bad"} ELSE {cfg.saturation}) :
          LET c == [cfg EXCEPT !.saturation = s]
          IN  /\ cfg' = c
              /\ cstage' = IF Validated(c) THEN "launch" ELSE "refused"
    /\ UNCHANGED <<program, dma_built, edits>>

\* parse_cpu_list refuses a range that runs backwards, here only: validate
\* does not look at the list.
BadCpuList(c) == c.cpu_list = "reversed range"

\* launch_benchmark, and in resolve_endpoints cluster mode's own look at the
\* protocol.
Launch ==
    /\ cstage = "launch"
    /\ cstage' = IF BadCpuList(cfg) \/ (cfg.cluster /\ cfg.protocol \notin Resp)
                 THEN "refused" ELSE "accepted"
    /\ UNCHANGED <<program, dma_built, cfg, edits>>

Next ==
    \/ \E o \in DOMAIN Defaults : Edit(o)
    \/ \E o \in FlagOptions : Flag(o)
    \/ \E p \in Programs : Load(p) \/ LoadDefaults(p)
    \/ FlagResp3 \/ FlagConnections \/ Flagged \/ Launch

Spec == Init /\ [][Next]_cvars

-----------------------------------------------------------------------------
(* Properties *)

Discovers(c) == c.cluster \/ c.auto
Replays(c) == c.trace \/ c.kv # "none"

\* A replay reaches one server, also after discovery: every key of a row or of
\* a request must live where its connection goes.
ReplayOnOneServer(c) == Replays(c) => c.endpoints = 1 /\ ~Discovers(c) /\ c.protocol \in Resp

\* At most one source of requests besides the workload's own draws, and at most
\* one task that funds them: a KV replay has no limiter, a routed run has one
\* and its own dispatcher, and none of them meets a search it would confuse.
OneDispatcher(c) ==
    /\ Cardinality({s \in {<<"kv", c.kv # "none">>, <<"trace", c.trace>>,
                           <<"append", c.append # "none">>} : s[2]}) <= 1
    /\ c.kv # "none" => c.rate_limit = 0 /\ c.saturation = "none"
    /\ c.routed => ~Replays(c) /\ (c.rate_limit > 0 \/ c.saturation # "none")

\* The tasks spawned for the protocol exist: the arms of spawn_append_tasks for
\* ping and DMA and the DMA arm of a build without it are never taken, and a
\* DMA connection has a registered buffer for its value and one transfer.
TasksExist(c) ==
    /\ c.append # "none" => c.protocol \in Resp \cup Memcache /\ ~c.largeobj
    /\ c.protocol = "dma" =>
          /\ dma_built /\ c.depth = 1 /\ ~c.routed /\ ~Replays(c) /\ ~c.cluster
          /\ c.dma_capacity # None => c.dma_capacity >= c.value_len
    /\ c.cluster => c.protocol \in Resp

\* The samplers get the parameters their constructors ask for - a recency
\* sampler its append stream and a key to begin with, a zipf one a theta that
\* rand_distr takes, also where only a flag made the distribution zipf - and
\* what a paced prefill needs fits its timeout.  It does not say that the
\* keyspace has a key: validate asks for one only under recency, and a uniform
\* or zipf run with keyspace.count = 0 is accepted and panics on its first draw
\* or in Zipfian::new.
SamplersDefined(c) ==
    /\ c.key_share => c.distribution = "zipf" /\ c.append = "none"
    /\ c.distribution = "recency" => c.append = "set" /\ c.hot_window /\ c.count > 0
    /\ c.distribution = "zipf" => c.theta \in 1 .. MaxTheta
    /\ c.prefill /\ c.prefill_rate > 0 /\ c.prefill_timeout > 0 =>
          c.count <= c.prefill_rate * c.prefill_timeout
    /\ EffectiveBatch(c) \in 1 .. (IF c.depth > 1 THEN c.depth ELSE 1)

\* However a configuration came about - a file, flags over a file, flags over
\* defaults - a run that starts has all of the above.
AcceptedRuns ==
    cstage = "accepted" =>
        /\ ReplayOnOneServer(cfg)
        /\ OneDispatcher(cfg)
        /\ TasksExist(cfg)
        /\ SamplersDefined(cfg)
=============================================================================
