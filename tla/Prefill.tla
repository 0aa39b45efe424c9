------------------------------ MODULE Prefill ------------------------------
(***************************************************************************)
(* The prefill of a cluster: the shared per-endpoint PrefillQueues, the    *)
(* connection tasks of all workers that drain them (drive_resp_workload in *)
(* Phase::Prefill, src/src/worker.rs), the slot table each worker keeps,   *)
(* and the runner's gate from Prefill to Warmup (src/src/runner.rs).       *)
(*                                                                         *)
(* Workers run on threads of their own and meet only at the queues, whose  *)
(* locks are held for one push or pop, and at the counter of confirmed     *)
(* keys.  A pass of the fill loop takes one key from one queue and leaves  *)
(* it in one other place, so it is one step here.  Every key is in a slot  *)
(* of its own.  The ringline client (external) keeps the requests of a     *)
(* connection in order, buffers what is fired until it is flushed, and     *)
(* drops the newest buffered ones when a send fails.                       *)
(***************************************************************************)
EXTENDS Integers, Sequences, FiniteSets, SequencesExt, Subsequences

CONSTANTS
  Keys,          \* the keyspace
  Nodes,         \* the cluster's nodes
  Endpoints,     \* the ones discovered as the run starts
  Recognised,    \* the ones whose address in a MOVED reply is an endpoint's
  Workers,
  Conns,
  WorkerOf,      \* the worker a connection task runs on
  EndpointOf,    \* the endpoint it serves
  Home,          \* the owner of each key as the run starts
  Depth,         \* connection.pipeline_depth
  Batch,         \* effective_batch_size
  Paced,         \* whether a PrefillPacer is configured
  MayStop,       \* whether the runner may stop the run early
  MaxMoves,      \* bound on the slots the cluster moves
  MaxFaults      \* bound on lost connections, failed sends, error replies

ASSUME PrefillAssumption ==
  /\ IsFiniteSet(Keys) /\ Endpoints \subseteq Nodes /\ Recognised \subseteq Endpoints
  /\ WorkerOf \in [Conns -> Workers] /\ EndpointOf \in [Conns -> Endpoints]
  /\ Home \in [Keys -> Endpoints]
  /\ Depth \in Nat /\ Batch \in 1 .. Depth
  /\ Paced \in BOOLEAN /\ MayStop \in BOOLEAN
  /\ MaxMoves \in Nat /\ MaxFaults \in Nat

VARIABLES
  phase,      \* SharedState::phase
  queue,      \* PrefillQueues, by endpoint
  table,      \* each worker's slot_table
  cpc,        \* where each connection task is
  client,     \* the keys of the client's outstanding requests, oldest first
  buffered,   \* how many of the newest of them are not flushed
  inFlight,   \* prefill_in_flight
  confirmed,  \* SharedState::prefill_keys_confirmed
  owner,      \* environment: the node that owns each key
  stored,     \* environment: the keys the cluster holds
  moves, faults

cluster == <<owner, moves>>
conn    == <<cpc, client, buffered, inFlight>>
vars    == <<phase, queue, table, conn, confirmed, cluster, stored, faults>>

(* build_prefill_queues: every key on the queue of the node that owns it;  *)
(* create_for_worker: the discovered slot table, one copy for each worker. *)
Init ==
  /\ phase = "Prefill"
  /\ queue = [e \in Endpoints |-> SetToSeq({k \in Keys : Home[k] = e})]
  /\ table = [w \in Workers |-> Home]
  /\ cpc = [c \in Conns |-> "down"]
  /\ client = [c \in Conns |-> <<>>]
  /\ buffered = [c \in Conns |-> 0]
  /\ inFlight = [c \in Conns |-> <<>>]
  /\ confirmed = 0
  /\ owner = Home /\ stored = {} /\ moves = 0 /\ faults = 0

Go(c, p) == cpc' = [cpc EXCEPT ![c] = p]

Fault == faults < MaxFaults /\ faults' = faults + 1

PushBack(q, e, k)  == [q EXCEPT ![e] = Append(@, k)]
PushFront(q, e, k) == [q EXCEPT ![e] = <<k>> \o @]

(* route_key against the worker's own slot table                           *)
Route(c, k) == table[WorkerOf[c]][k]

Newest(s, n) == SubSeq(s, Len(s) - n + 1, Len(s))
Older(s, n)  == SubSeq(s, 1, Len(s) - n)

(* requeue_newest: the n newest keys in flight go back to the front of the *)
(* queue q of the connection's endpoint, in their order.                   *)
RequeueNewest(q, c, n) ==
  /\ queue' = [q EXCEPT ![EndpointOf[c]] = Newest(inFlight[c], n) \o @]
  /\ inFlight' = [inFlight EXCEPT ![c] = Older(@, n)]

(* The client drops the n newest of what it has buffered.                  *)
Discard(c, n) ==
  /\ client' = [client EXCEPT ![c] = Older(@, n)]
  /\ buffered' = [buffered EXCEPT ![c] = @ - n]

(* The places of the keys in flight that route to endpoint e now.          *)
RoutedTo(c, e) == {i \in DOMAIN inFlight[c] : Route(c, inFlight[c][i]) = e}

(* Mutant of RequeueDrained: only the key a reply was awaited for.         *)
RequeueOldest(c) ==
  queue' = [e \in Endpoints |-> queue[e] \o Picked(inFlight[c], RoutedTo(c, e) \cap {1})]

(* requeue_drained_prefill: every key in flight goes to the queue of the   *)
(* endpoint it routes to now.                                              *)
RequeueDrained(c) ==
  queue' = [e \in Endpoints |-> queue[e] \o Picked(inFlight[c], RoutedTo(c, e))]

-----------------------------------------------------------------------------
(* resp_connection_task                                                    *)

Connect(c) ==
  /\ cpc[c] = "down"
  /\ Go(c, IF phase = "Stop" THEN "gone" ELSE "top")
  /\ UNCHANGED <<phase, queue, table, client, buffered, inFlight, confirmed,
                 cluster, stored, faults>>

(* drive_resp_workload, top of the loop: with room for a batch the         *)
(* pipeline is filled.  After Prefill the task's traffic is that of        *)
(* TokenDispatch.                                                          *)
LoopTop(c) ==
  /\ cpc[c] = "top"
  /\ Go(c, IF phase = "Stop" THEN "gone"
           ELSE IF phase = "Warmup" THEN "traffic"
           ELSE IF Depth - Len(client[c]) >= Batch THEN "fill" ELSE "flush")
  /\ UNCHANGED <<phase, queue, table, client, buffered, inFlight, confirmed,
                 cluster, stored, faults>>

(* A pass of the fill loop takes the key at the front of the endpoint's    *)
(* queue.                                                                  *)
Pops(c) == cpc[c] = "fill" /\ Len(client[c]) < Depth /\ queue[EndpointOf[c]] # <<>>

Popped(c)   == Head(queue[EndpointOf[c]])
PopFront(c) == [queue EXCEPT ![EndpointOf[c]] = Tail(@)]
Ours(c)     == Route(c, Popped(c)) = EndpointOf[c]

(* A key that no longer routes here goes to the queue of its new owner.    *)
Reroute(c) ==
  /\ Pops(c) /\ ~Ours(c)
  /\ queue' = PushBack(PopFront(c), Route(c, Popped(c)), Popped(c))
  /\ UNCHANGED <<phase, table, conn, confirmed, cluster, stored, faults>>

(* The pacer has no token: the key goes back and the loop ends.            *)
PacerRefuses(c) ==
  /\ Paced
  /\ Pops(c) /\ Ours(c)
  /\ queue' = PushFront(PopFront(c), EndpointOf[c], Popped(c))
  /\ Go(c, "flush")
  /\ UNCHANGED <<phase, table, client, buffered, inFlight, confirmed, cluster, stored, faults>>

Fire(c) ==
  /\ Pops(c) /\ Ours(c)
  /\ queue' = PopFront(c)
  /\ client' = [client EXCEPT ![c] = Append(@, Popped(c))]
  /\ buffered' = [buffered EXCEPT ![c] = @ + 1]
  /\ inFlight' = [inFlight EXCEPT ![c] = Append(@, Popped(c))]
  /\ UNCHANGED <<phase, table, cpc, confirmed, cluster, stored, faults>>

(* fire_set fails, and with it up to all that was buffered.                *)
FireFails(c) ==
  /\ Fault
  /\ Pops(c) /\ Ours(c)
  /\ \E n \in 0 .. buffered[c] :
       Discard(c, n) /\ RequeueNewest(PushFront(PopFront(c), EndpointOf[c], Popped(c)), c, n)
  /\ Go(c, "flush")
  /\ UNCHANGED <<phase, table, confirmed, cluster, stored>>

FillEnds(c) ==
  /\ cpc[c] = "fill"
  /\ Len(client[c]) >= Depth \/ queue[EndpointOf[c]] = <<>>
  /\ Go(c, "flush")
  /\ UNCHANGED <<phase, queue, table, client, buffered, inFlight, confirmed,
                 cluster, stored, faults>>

(* With nothing in flight the task sleeps and loops; else it receives.     *)
AfterFlush(c) == Go(c, IF client'[c] = <<>> THEN "top" ELSE "recv")

Flush(c) ==
  /\ cpc[c] = "flush"
  /\ buffered' = [buffered EXCEPT ![c] = 0]
  /\ UNCHANGED client
  /\ AfterFlush(c)
  /\ UNCHANGED <<phase, queue, table, inFlight, confirmed, cluster, stored, faults>>

(* flush fails: what the client dropped is queued again.                   *)
FlushFails(c) ==
  /\ cpc[c] = "flush" /\ Fault
  /\ Discard(c, buffered[c])
  /\ RequeueNewest(queue, c, buffered[c])
  /\ AfterFlush(c)
  /\ UNCHANGED <<phase, table, confirmed, cluster, stored>>

(* The reply to the oldest request: the node stored the key ...            *)
Stored(c) ==
  /\ cpc[c] = "recv"
  /\ owner[Head(client[c])] = EndpointOf[c]
  /\ stored' = stored \cup {Head(client[c])}
  /\ confirmed' = confirmed + 1
  /\ client' = [client EXCEPT ![c] = Tail(@)]
  /\ inFlight' = [inFlight EXCEPT ![c] = Tail(@)]
  /\ Go(c, "top")
  /\ UNCHANGED <<phase, queue, table, buffered, cluster, faults>>

(* A refused SET is queued again where it was.                             *)
Retry(c) ==
  /\ queue' = PushBack(queue, EndpointOf[c], Head(inFlight[c]))
  /\ client' = [client EXCEPT ![c] = Tail(@)]
  /\ inFlight' = [inFlight EXCEPT ![c] = Tail(@)]
  /\ Go(c, "top")

(* Mutant of Learn: a MOVED reply does not update the slot table.          *)
LearnNothing(c, k) == UNCHANGED table

(* check_resp_redirect_parsed: an address that does not parse (a host      *)
(* name), or is none of the endpoints', changes nothing; nor does any      *)
(* where there is no slot table (then Recognised is empty).                *)
Learn(c, k) ==
  table' = IF owner[k] \in Recognised
           THEN [table EXCEPT ![WorkerOf[c]][k] = owner[k]] ELSE table

(* ... the node does not own it any more, and its MOVED reply says who     *)
(* does ...                                                                *)
Moved(c) ==
  /\ cpc[c] = "recv"
  /\ owner[Head(client[c])] # EndpointOf[c]
  /\ Retry(c)
  /\ Learn(c, Head(client[c]))
  /\ UNCHANGED <<phase, buffered, confirmed, cluster, stored, faults>>

(* ... or it refuses the SET for now (busy, loading, an ASK redirect).     *)
Refused(c) ==
  /\ cpc[c] = "recv" /\ Fault
  /\ Retry(c)
  /\ UNCHANGED <<phase, table, buffered, confirmed, cluster, stored>>

(* The connection is closed, fails or times out while replies are awaited. *)
(* The node may have stored some of the keys without our hearing of it.    *)
Lose(c) ==
  /\ cpc[c] = "recv" /\ Fault
  /\ \E n \in 0 .. Len(client[c]) :
       stored' = stored \cup {k \in ToSet(SubSeq(client[c], 1, n)) : owner[k] = EndpointOf[c]}
  /\ RequeueDrained(c)
  /\ client' = [client EXCEPT ![c] = <<>>]
  /\ buffered' = [buffered EXCEPT ![c] = 0]
  /\ inFlight' = [inFlight EXCEPT ![c] = <<>>]
  /\ Go(c, "down")
  /\ UNCHANGED <<phase, table, confirmed, cluster>>

(* It is found closed at the top of the loop, with nothing in flight.      *)
FoundClosed(c) ==
  /\ cpc[c] = "top" /\ phase # "Stop" /\ client[c] = <<>> /\ Fault
  /\ RequeueDrained(c)
  /\ inFlight' = [inFlight EXCEPT ![c] = <<>>]
  /\ Go(c, "down")
  /\ UNCHANGED <<phase, table, client, buffered, confirmed, cluster, stored>>

-----------------------------------------------------------------------------
(* The runner and the cluster                                              *)

(* Mutant of AllConfirmed: the last key is not waited for.                 *)
AllButOne == confirmed + 1 >= Cardinality(Keys)

AllConfirmed == confirmed >= Cardinality(Keys)

ToWarmup ==
  /\ phase = "Prefill" /\ Keys # {} /\ AllConfirmed
  /\ phase' = "Warmup"
  /\ UNCHANGED <<queue, table, conn, confirmed, cluster, stored, faults>>

(* A signal, a stall or prefill_timeout.                                   *)
StopEarly ==
  /\ MayStop /\ phase = "Prefill"
  /\ phase' = "Stop"
  /\ UNCHANGED <<queue, table, conn, confirmed, cluster, stored, faults>>

(* The cluster moves a slot, with the keys stored in it, to another node.  *)
MoveSlot ==
  /\ moves < MaxMoves /\ moves' = moves + 1
  /\ \E k \in Keys : \E e \in Nodes \ {owner[k]} : owner' = [owner EXCEPT ![k] = e]
  /\ UNCHANGED <<phase, queue, table, conn, confirmed, stored, faults>>

Receives(c) == Stored(c) \/ Moved(c)
Fills(c) == Reroute(c) \/ Fire(c) \/ FillEnds(c)
Fails(c) == FireFails(c) \/ FlushFails(c) \/ Refused(c) \/ Lose(c) \/ FoundClosed(c)

Next ==
  \/ \E c \in Conns : \/ Connect(c) \/ LoopTop(c) \/ Fills(c) \/ PacerRefuses(c)
                      \/ Flush(c) \/ Receives(c) \/ Fails(c)
  \/ ToWarmup \/ StopEarly \/ MoveSlot

Spec == Init /\ [][Next]_vars

(* A connection task is polled again and again, and a node answers what    *)
(* reaches it.  The pacer goes on paying some of the connections that find *)
(* keys to send.  The cluster and the faults owe nothing.                  *)
LiveSpec ==
  /\ Spec
  /\ \A c \in Conns : /\ WF_vars(Connect(c)) /\ WF_vars(LoopTop(c)) /\ WF_vars(Fills(c))
                      /\ WF_vars(Flush(c)) /\ WF_vars(Receives(c))
  /\ SF_vars(\E c \in Conns : Fire(c))
  /\ WF_vars(ToWarmup)

-----------------------------------------------------------------------------
(* Properties                                                              *)

(* The types, with their bounds: a connection never has more keys in       *)
(* flight than its pipeline is deep (worker.rs:1951).                      *)
TypeOK ==
  /\ phase \in {"Prefill", "Warmup", "Stop"}
  /\ queue \in [Endpoints -> Seq(Keys)]
  /\ table \in [Workers -> [Keys -> Endpoints]] /\ owner \in [Keys -> Nodes]
  /\ cpc \in [Conns -> {"down", "top", "fill", "flush", "recv", "traffic", "gone"}]
  /\ client \in [Conns -> Seq(Keys)] /\ inFlight \in [Conns -> Seq(Keys)]
  /\ \A c \in Conns : Len(client[c]) <= Depth /\ buffered[c] \in 0 .. Len(client[c])
  /\ confirmed \in 0 .. Cardinality(Keys)
  /\ stored \subseteq Keys

(* The places where key k is kept: a queue or a connection's flight.       *)
KeptIn(place, lists, k) ==
  UNION {{<<place, x, i>> : i \in {j \in DOMAIN lists[x] : lists[x][j] = k}} : x \in DOMAIN lists}

Kept(k) == KeptIn("queue", queue, k) \cup KeptIn("flight", inFlight, k)

(* No key is lost and none is counted twice: until the run stops, each is  *)
(* kept in one place, or is stored and counted once.  For that, and so     *)
(* that a reply is taken for the key it answers, prefill_in_flight is what *)
(* the client has outstanding, whichever requests a failed send takes with *)
(* it.                                                                     *)
KeysConserved ==
  /\ TypeOK
  /\ \A c \in Conns : inFlight[c] = client[c]
  /\ \A k \in Keys : Cardinality(Kept(k)) <= 1
  /\ \A k \in Keys : Kept(k) = {} => k \in stored
  /\ confirmed = Cardinality({k \in Keys : Kept(k) = {}})

(* "completes when all assigned keys are confirmed": traffic begins only   *)
(* when the cluster holds every key and no prefill SET is queued or out.   *)
WarmupMeansStored ==
  phase = "Warmup" => stored = Keys /\ \A k \in Keys : Kept(k) = {}

(* A prefill that is not stopped reaches Warmup, although slots move and   *)
(* connections fail in the course of it.  There are two exceptions.  The   *)
(* workers' slot tables disagree for ever (worker.rs:1961, 2685): two      *)
(* workers then hand a key to and fro by their own tables.  Or a key that  *)
(* is not stored yet belongs for good to a node that no MOVED reply can    *)
(* lead to (worker.rs:2684-2698): it is sent to the old node for ever.     *)
TablesDisagree == \E v, w \in Workers : table[v] # table[w]

Stranded == \E k \in Keys : /\ Kept(k) # {} /\ owner[k] \notin Recognised
                            /\ \E w \in Workers : table[w][k] # owner[k]

PrefillEnds == <>(phase # "Prefill") \/ <>[]TablesDisagree \/ <>[]Stranded

(* Both, at every moment: no key is lost or counted twice, and traffic     *)
(* starts on a full cache (worker.rs:2001, 4902; runner.rs:605).           *)
PrefillSound == KeysConserved /\ WarmupMeansStored
=============================================================================
