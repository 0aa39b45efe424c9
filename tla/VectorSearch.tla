---------------------------- MODULE VectorSearch ----------------------------
(***************************************************************************)
(* `valkey-lab search` (src/src/search/): clean up, load the train set,    *)
(* build the index, run the test set as queries and score the answers.     *)
(* The server works on its own: it scans the keys into a mutation queue    *)
(* and indexes them from there while the client polls FT.INFO.  With more  *)
(* than one query client, tasks deal query numbers from a shared counter.  *)
(***************************************************************************)
EXTENDS Integers, Sequences, FiniteSetsExt, SequencesExt

CONSTANTS
    Rows,         \* train.nrows()
    StaleIds,     \* doc ids an earlier, larger run may have left
    Tests,        \* test.nrows()
    Depth,        \* neighbors_k(): ground truth per test row
    ClientCount,  \* query_clients of a concurrent query phase
    MaxLoops      \* bound: query_loops

VARIABLES
    job,          \* the flags: k, loops, concurrent, reuse_index, keep_index, batch
    vpc,          \* where run_all is
    row,          \* the next train row to load
    docs,         \* ids of the hashes under the prefix on the server
    other,        \* does the server hold a key outside the prefix
    index,        \* [exists, scan, queue, done]: the index on the server
    dealer,       \* the shared query counter
    query,        \* per client: the query number in flight, or one of the states below
    answered,     \* history: how often each query number was answered
    latencies,    \* latencies recorded
    hits          \* recall_sum times k

vvars == <<job, vpc, row, docs, other, index, dealer, query, answered, latencies, hits>>

Train == 0 .. Rows - 1
Ids == Train \cup StaleIds
NoIndex == [exists |-> FALSE, scan |-> {}, queue |-> {}, done |-> {}]
FullIndex(d) == [exists |-> TRUE, scan |-> {}, queue |-> {}, done |-> d]
\* The k nearest neighbours of a test row, by the ground truth.
Truth(qi) == {(qi + i) % Rows : i \in 0 .. job.k - 1}

Clients == 1 .. ClientCount
Idle == -1
Ended == -2
Failed == -3
Total == Tests * job.loops
Numbers == 0 .. Tests * MaxLoops - 1

\* run refuses k beyond the ground truth.  An earlier run may have left an
\* index and its hashes, more of them than this dataset has.
InitOf(jobs, left) ==
    /\ job \in jobs
    /\ vpc = "connect"
    /\ row = 0
    /\ docs \in left
    /\ other \in (IF left = {{}} THEN {FALSE} ELSE BOOLEAN)
    /\ index \in {NoIndex, FullIndex(docs)}
    /\ dealer = 0
    /\ query = [c \in Clients |-> Idle]
    /\ answered = [n \in Numbers |-> 0]
    /\ latencies = 0
    /\ hits = 0
Jobs ==
    {j \in [k : 1 .. Depth, loops : 1 .. MaxLoops, concurrent : BOOLEAN, reuse_index : BOOLEAN,
            keep_index : BOOLEAN, batch : 1 .. Rows] :
        j.reuse_index => ~j.keep_index /\ j.batch = 1}
Init == InitOf(Jobs, {{}, Train, Ids})

-----------------------------------------------------------------------------
(* The server, outside src/: keys are scanned into the queue, then indexed. *)

Scan ==
    /\ index.scan # {}
    /\ \E d \in index.scan :
          index' = [index EXCEPT !.scan = @ \ {d}, !.queue = @ \cup {d}]
    /\ UNCHANGED <<job, vpc, row, docs, other, dealer, query, answered, latencies, hits>>

Indexes ==
    /\ index.queue # {}
    /\ \E d \in index.queue :
          index' = [index EXCEPT !.queue = @ \ {d}, !.done = @ \cup {d}]
    /\ UNCHANGED <<job, vpc, row, docs, other, dealer, query, answered, latencies, hits>>

\* index_ready, from the fields of either server family: no backfill and an
\* empty mutation queue, or all indexed and none being indexed.
BackfillDone == index.scan = {}
IndexReady == index.scan = {} /\ index.queue = {}

-----------------------------------------------------------------------------
(* run_all *)

\* Any command may fail or answer with an error, which ends the run.
Fails ==
    /\ vpc \notin {"done", "failed", "query"}
    /\ vpc' = "failed"
    /\ UNCHANGED <<job, row, docs, other, index, dealer, query, answered, latencies, hits>>

Connect ==
    /\ vpc = "connect"
    /\ vpc' = IF job.reuse_index THEN "verify" ELSE "drop"
    /\ UNCHANGED <<job, row, docs, other, index, dealer, query, answered, latencies, hits>>

\* verify_reusable_index: the index is ready and DBSIZE is the train count.
DbSize == Cardinality(docs) + (IF other THEN 1 ELSE 0)
VerifyReusable ==
    /\ vpc = "verify"
    /\ vpc' = IF index.exists /\ IndexReady /\ DbSize = Rows THEN "query" ELSE "failed"
    /\ UNCHANGED <<job, row, docs, other, index, dealer, query, answered, latencies, hits>>

\* FT.DROPINDEX, whose error is expected without an index.
DropOld ==
    /\ vpc = "drop"
    /\ index' = NoIndex
    /\ vpc' = "delete"
    /\ UNCHANGED <<job, row, docs, other, dealer, query, answered, latencies, hits>>

\* delete_prefix: a script that scans and deletes some keys, until the cursor
\* is back at zero.  The second form runs the script once.
DeleteOnce ==
    /\ vpc = "delete"
    /\ \E some \in SUBSET docs : docs' = docs \ some
    /\ vpc' = "load"
    /\ UNCHANGED <<job, row, other, index, dealer, query, answered, latencies, hits>>
DeletePrefix ==
    /\ vpc = "delete"
    /\ \E some \in SUBSET docs :
          /\ docs' = docs \ some
          /\ docs # {} => some # {}
    /\ vpc' = IF docs' = {} THEN "load" ELSE "delete"
    /\ UNCHANGED <<job, row, other, index, dealer, query, answered, latencies, hits>>

\* load_phase: batches of HSETs, the last one short; no rows left, FT.CREATE.
LoadBatch ==
    /\ vpc = "load"
    /\ row < Rows
    /\ row' = Min({row + job.batch, Rows})
    /\ docs' = docs \cup (row .. row' - 1)
    /\ UNCHANGED <<job, vpc, other, index, dealer, query, answered, latencies, hits>>

CreateIndex ==
    /\ vpc = "load"
    /\ row = Rows
    /\ index' = [exists |-> TRUE, scan |-> docs, queue |-> {}, done |-> {}]
    /\ vpc' = "index"
    /\ UNCHANGED <<job, row, docs, other, dealer, query, answered, latencies, hits>>

\* A poll of FT.INFO that finds the index ready ends index_phase; another one
\* sleeps and polls again, which changes nothing here.
PollReady ==
    /\ vpc = "index"
    /\ IndexReady
    /\ vpc' = "query"
    /\ UNCHANGED <<job, row, docs, other, index, dealer, query, answered, latencies, hits>>

\* query_phase: one client asks in turn, or every client deals for itself.
Asking == IF job.concurrent THEN Clients ELSE {1}

Deal(c) ==
    /\ vpc = "query"
    /\ c \in Asking
    /\ query[c] = Idle
    /\ dealer' = dealer + 1
    /\ query' = [query EXCEPT ![c] = IF dealer < Total THEN dealer ELSE Ended]
    /\ UNCHANGED <<job, vpc, row, docs, other, index, answered, latencies, hits>>

\* run_one_query: parse_knn_reply, then recall over the distinct ids returned.
HitsOfReply(reply, qi) == Cardinality({i \in DOMAIN reply : reply[i] \in Truth(qi)})
Hits(reply, qi) == Cardinality(Range(reply) \cap Truth(qi))

Answer(c) ==
    /\ vpc = "query"
    /\ query[c] >= 0
    /\ \E reply \in BoundedSeq(index.done, job.k + 1) :
          hits' = hits + Hits(reply, query[c] % Tests)
    /\ answered' = [answered EXCEPT ![query[c]] = @ + 1]
    /\ latencies' = latencies + 1
    /\ query' = [query EXCEPT ![c] = Idle]
    /\ UNCHANGED <<job, vpc, row, docs, other, index, dealer>>

\* The query, its connection or its task failed.
QueryFails(c) ==
    /\ vpc = "query"
    /\ c \in Asking
    /\ query[c] \notin {Ended, Failed}
    /\ query' = [query EXCEPT ![c] = Failed]
    /\ UNCHANGED <<job, vpc, row, docs, other, index, dealer, answered, latencies, hits>>

\* The handles are awaited in order and the first error is returned, while
\* later tasks may still run.
JoinFails ==
    /\ vpc = "query"
    /\ \E c \in Asking : query[c] = Failed /\ \A d \in Asking : d < c => query[d] = Ended
    /\ vpc' = "failed"
    /\ UNCHANGED <<job, row, docs, other, index, dealer, query, answered, latencies, hits>>

\* All have ended: the index is dropped unless it was reused or is to be kept,
\* and the report says that Total queries ran.
Join ==
    /\ vpc = "query"
    /\ \A c \in Asking : query[c] = Ended
    /\ vpc' = "done"
    /\ index' = IF job.reuse_index \/ job.keep_index THEN index ELSE NoIndex
    /\ UNCHANGED <<job, row, docs, other, dealer, query, answered, latencies, hits>>

Next ==
    \/ Scan \/ Indexes \/ Fails \/ Connect \/ VerifyReusable \/ DropOld \/ DeletePrefix
    \/ LoadBatch \/ CreateIndex \/ PollReady \/ Join \/ JoinFails
    \/ \E c \in Clients : Deal(c) \/ Answer(c) \/ QueryFails(c)

Spec == Init /\ [][Next]_vvars

-----------------------------------------------------------------------------
(* Properties *)

\* A measured index is the dataset: no query is sent before every train row is
\* searchable, and no hash of an earlier run is in the index (module comment:
\* build time ends at the ready condition, stale keys would poison recall).
QueriesWholeIndex ==
    vpc = "query" /\ ~job.reuse_index => index.done = Train /\ docs = Train

\* The report counts what ran: each query number was answered exactly once
\* although the clients share the dealer, there is a latency for each, and the
\* recall is a ratio, at most one.
ReportExact ==
    vpc = "done" =>
        /\ \A n \in Numbers : answered[n] = (IF n < Total THEN 1 ELSE 0)
        /\ latencies = Total
        /\ hits <= job.k * Total

\* Both of the above.
SearchSound == QueriesWholeIndex /\ ReportExact
=============================================================================
