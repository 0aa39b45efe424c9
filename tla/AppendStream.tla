---------------------------- MODULE AppendStream ----------------------------
(***************************************************************************)
(* The append stream: the runner opens a batch of new ids every so often   *)
(* and publishes them to the readers as one when all are written           *)
(* (src/src/runner.rs); the writer connections of all workers drain the    *)
(* shared append queues (src/src/worker.rs); readers draw ids by their     *)
(* distance from the published head (Recency, src/src/keydist.rs).         *)
(*                                                                         *)
(* The runner and the workers are threads that meet at the queues, whose   *)
(* locks are held for one push or pop, and at three counters.  Ids of the  *)
(* prefilled body are written as the run starts (Prefill has their part).  *)
(* The ringline client (external) keeps a connection's requests in order,  *)
(* buffers them until a flush and drops the newest when a send fails.      *)
(***************************************************************************)
EXTENDS Integers, Sequences, FiniteSets, SequencesExt, Subsequences

CONSTANTS
  Body,          \* keyspace.count, the ids prefilled
  BatchSize,     \* append.batch
  Batches,       \* bound on the batches the runner opens
  Generations,   \* how many of the newest batches are hot
  Nodes,         \* the cluster's nodes
  Endpoints,     \* the ones discovered as the run starts
  Recognised,    \* the ones whose address in a MOVED reply is an endpoint's
  Workers,
  Writers,       \* the append-stream writer connections
  WorkerOf,      \* the worker a writer runs on
  EndpointOf,    \* the endpoint it serves
  Home,          \* the endpoint each id routes to in the runner's slot table
  Depth,         \* append.pipeline_depth
  Spread,        \* append.pace = "spread": a rate limiter paces the writers
  MaxMoves,      \* bound on the slots the cluster moves
  MaxFaults      \* bound on lost connections, failed sends, error replies

Ids    == 0 .. Body + BatchSize * Batches - 1
NewIds == Body .. Body + BatchSize * Batches - 1

(* Legal parameters (MCAppendStream assumes them).                         *)
AppendAssumption ==
  /\ Endpoints \subseteq Nodes /\ Recognised \subseteq Endpoints
  /\ Body \in Nat \ {0} /\ BatchSize \in Nat \ {0} /\ Batches \in Nat
  /\ Generations \in Nat \ {0} /\ Depth \in Nat \ {0}
  /\ WorkerOf \in [Writers -> Workers] /\ EndpointOf \in [Writers -> Endpoints]
  /\ Home \in [NewIds -> Endpoints] /\ Spread \in BOOLEAN
  /\ MaxMoves \in Nat /\ MaxFaults \in Nat

VARIABLES
  stopped,    \* SharedState::phase is Stop
  queue,      \* append_queues, by endpoint
  total,      \* SharedState::append_keys_total
  confirmed,  \* SharedState::append_keys_confirmed
  head,       \* Recency::head
  rpc,        \* the runner: idle, enqueue (in enqueue_append_batch) or open
  nextId,     \* append_next_id, and while it enqueues the id it has come to
  table,      \* each worker's slot_table
  wpc,        \* where each writer task is
  budget,     \* what its fill loop may still fire
  client,     \* the ids of the client's outstanding requests, oldest first
  buffered,   \* how many of the newest of them are not flushed
  inFlight,   \* in_flight
  owner,      \* environment: the node that owns each id
  stored,     \* environment: the ids the cluster holds
  moves, faults

runner  == <<total, head, rpc, nextId>>
writer  == <<wpc, budget, client, buffered, inFlight>>
cluster == <<owner, moves>>
vars    == <<stopped, queue, confirmed, runner, table, writer, cluster, stored, faults>>

Init ==
  /\ stopped = FALSE
  /\ queue = [e \in Endpoints |-> <<>>]
  /\ total = 0 /\ confirmed = 0 /\ head = Body
  /\ rpc = "idle" /\ nextId = Body
  /\ table = [w \in Workers |-> Home]
  /\ wpc = [c \in Writers |-> "down"] /\ budget = [c \in Writers |-> 0]
  /\ client = [c \in Writers |-> <<>>] /\ buffered = [c \in Writers |-> 0]
  /\ inFlight = [c \in Writers |-> <<>>]
  /\ owner = Home /\ stored = 0 .. Body - 1 /\ moves = 0 /\ faults = 0

Fault == faults < MaxFaults /\ faults' = faults + 1

PushBack(q, e, k) == [q EXCEPT ![e] = Append(@, k)]

-----------------------------------------------------------------------------
(* The runner                                                              *)

(* The batch's start time has come.                                        *)
OpenBatch ==
  /\ ~stopped /\ rpc = "idle" /\ nextId \in Ids
  /\ rpc' = "enqueue"
  /\ UNCHANGED <<stopped, queue, confirmed, total, head, nextId, table,
                 writer, cluster, stored, faults>>

(* The first id after the batch that head is the start of.                 *)
BatchEnd == head + BatchSize

(* enqueue_append_batch: one push, by the slot table discovered at start.  *)
Enqueue ==
  /\ rpc = "enqueue" /\ nextId < BatchEnd
  /\ queue' = PushBack(queue, Home[nextId], nextId)
  /\ nextId' = nextId + 1
  /\ UNCHANGED <<stopped, confirmed, total, head, rpc, table, writer,
                 cluster, stored, faults>>

(* add_append_total, after the pushes: writers may have confirmed some.    *)
Enqueued ==
  /\ rpc = "enqueue" /\ nextId = BatchEnd
  /\ total' = total + BatchSize /\ rpc' = "open"
  /\ UNCHANGED <<stopped, queue, confirmed, head, nextId, table, writer,
                 cluster, stored, faults>>

(* Mutant of Commit: the head is published as if it were the last id.      *)
CommitPastEnd ==
  /\ ~stopped /\ rpc = "open" /\ confirmed >= total
  /\ rpc' = "idle" /\ head' = nextId + 1
  /\ UNCHANGED <<stopped, queue, confirmed, total, nextId, table, writer,
                 cluster, stored, faults>>

(* Every id of the batch is confirmed: its ids are published.              *)
Commit ==
  /\ ~stopped /\ rpc = "open" /\ confirmed >= total
  /\ rpc' = "idle" /\ head' = nextId
  /\ UNCHANGED <<stopped, queue, confirmed, total, nextId, table, writer,
                 cluster, stored, faults>>

(* A signal or the end of the run.  The runner's loop is not left in the   *)
(* middle of a batch it is enqueueing.                                     *)
Stop ==
  /\ ~stopped /\ rpc # "enqueue" /\ stopped' = TRUE
  /\ UNCHANGED <<queue, confirmed, runner, table, writer, cluster, stored, faults>>

-----------------------------------------------------------------------------
(* Recency::sample                                                         *)

Below(h, n) == IF h > n THEN h - n ELSE 0

(* Generation a: the a-th batch below the head.                            *)
Generation(h, a) == Below(h, (a + 1) * BatchSize) .. Below(h, a * BatchSize) - 1

(* A hot draw takes an id of one of the newest generations, a cold draw    *)
(* one below them all; where that is empty, any id there is.               *)
Samples(h) ==
  LET hot(a) == IF Generation(h, a) # {} THEN Generation(h, a) ELSE 0 .. h - 1
      cold   == 0 .. Below(h, Generations * BatchSize) - 1
  IN  (UNION {hot(a) : a \in 0 .. Generations - 1})
      \cup (IF cold # {} THEN cold ELSE 0 .. h - 1)

-----------------------------------------------------------------------------
(* A writer connection                                                     *)

Go(c, p) == wpc' = [wpc EXCEPT ![c] = p]

(* route_key against the worker's own slot table                           *)
Route(c, k) == table[WorkerOf[c]][k]

Newest(s, n) == SubSeq(s, Len(s) - n + 1, Len(s))
Older(s, n)  == SubSeq(s, 1, Len(s) - n)

(* resp_append_task: connected, or stopped before it was.                  *)
Connect(c) ==
  /\ wpc[c] = "down"
  /\ Go(c, IF stopped THEN "gone" ELSE "top")
  /\ UNCHANGED <<stopped, queue, confirmed, runner, table, budget, client, buffered,
                 inFlight, cluster, stored, faults>>

Room(c) == Depth - Len(client[c])

(* append_token_budget: unlimited, or a pipeline's worth of tokens, or one *)
(* token, or none.                                                         *)
Budgets(c) == IF Spread THEN {0, 1, Room(c)} ELSE {Room(c)}

(* drive_resp_append, top of the loop.                                     *)
LoopTop(c) ==
  /\ wpc[c] = "top"
  /\ \/ stopped /\ Go(c, "gone") /\ UNCHANGED budget
     \/ /\ ~stopped /\ Room(c) > 0 /\ queue[EndpointOf[c]] # <<>>
        /\ Go(c, "fill")
        /\ \E b \in Budgets(c) : budget' = [budget EXCEPT ![c] = b]
     \/ /\ ~stopped /\ (Room(c) = 0 \/ queue[EndpointOf[c]] = <<>>)
        /\ Go(c, "flush") /\ UNCHANGED budget
  /\ UNCHANGED <<stopped, queue, confirmed, runner, table, client, buffered,
                 inFlight, cluster, stored, faults>>

(* A pass of the fill loop pops the front of the endpoint's queue.         *)
Pops(c) ==
  wpc[c] = "fill" /\ budget[c] > 0 /\ Room(c) > 0 /\ queue[EndpointOf[c]] # <<>>

Popped(c)   == Head(queue[EndpointOf[c]])
PopFront(c) == [queue EXCEPT ![EndpointOf[c]] = Tail(@)]
Ours(c)     == Route(c, Popped(c)) = EndpointOf[c]

(* The loop ends; what is left of the budget is gone.                      *)
Leaves(c) == Go(c, "flush") /\ budget' = [budget EXCEPT ![c] = 0]

(* An id whose slot has moved is handed to its new owner's queue.          *)
Reroute(c) ==
  /\ Pops(c) /\ ~Ours(c)
  /\ queue' = PushBack(PopFront(c), Route(c, Popped(c)), Popped(c))
  /\ UNCHANGED <<stopped, confirmed, runner, table, writer, cluster, stored, faults>>

Fire(c) ==
  /\ Pops(c) /\ Ours(c)
  /\ queue' = PopFront(c)
  /\ budget' = [budget EXCEPT ![c] = @ - 1]
  /\ client' = [client EXCEPT ![c] = Append(@, Popped(c))]
  /\ buffered' = [buffered EXCEPT ![c] = @ + 1]
  /\ inFlight' = [inFlight EXCEPT ![c] = Append(@, Popped(c))]
  /\ UNCHANGED <<stopped, confirmed, runner, table, wpc, cluster, stored, faults>>

(* The client drops the n newest of what it has buffered, and              *)
(* requeue_newest puts their ids back at the front of q, in their order.   *)
Discard(c, n, q) ==
  /\ client' = [client EXCEPT ![c] = Older(@, n)]
  /\ buffered' = [buffered EXCEPT ![c] = @ - n]
  /\ inFlight' = [inFlight EXCEPT ![c] = Older(@, n)]
  /\ queue' = [q EXCEPT ![EndpointOf[c]] = Newest(inFlight[c], n) \o @]

(* Mutant of FireFails: the id that could not be sent is not put back.     *)
FireFailsDrops(c) ==
  /\ Pops(c) /\ Ours(c) /\ Fault
  /\ \E n \in 0 .. buffered[c] : Discard(c, n, PopFront(c))
  /\ Leaves(c)
  /\ UNCHANGED <<stopped, confirmed, runner, table, cluster, stored>>

(* fire_set fails, and with it up to all that was buffered.                *)
FireFails(c) ==
  /\ Pops(c) /\ Ours(c) /\ Fault
  /\ \E n \in 0 .. buffered[c] : Discard(c, n, queue)
  /\ Leaves(c)
  /\ UNCHANGED <<stopped, confirmed, runner, table, cluster, stored>>

FillEnds(c) ==
  /\ wpc[c] = "fill"
  /\ budget[c] = 0 \/ Room(c) = 0 \/ queue[EndpointOf[c]] = <<>>
  /\ Leaves(c)
  /\ UNCHANGED <<stopped, queue, confirmed, runner, table, client, buffered,
                 inFlight, cluster, stored, faults>>

(* With nothing outstanding the task naps and loops; else it receives.     *)
AfterFlush(c) == Go(c, IF client'[c] = <<>> THEN "top" ELSE "recv")

Flush(c) ==
  /\ wpc[c] = "flush"
  /\ buffered' = [buffered EXCEPT ![c] = 0]
  /\ UNCHANGED client
  /\ AfterFlush(c)
  /\ UNCHANGED <<stopped, queue, confirmed, runner, table, budget, inFlight,
                 cluster, stored, faults>>

FlushFails(c) ==
  /\ wpc[c] = "flush" /\ Fault
  /\ Discard(c, buffered[c], queue)
  /\ AfterFlush(c)
  /\ UNCHANGED <<stopped, confirmed, runner, table, budget, cluster, stored>>

(* The oldest request is answered.                                         *)
Pop(c) ==
  /\ client' = [client EXCEPT ![c] = Tail(@)]
  /\ inFlight' = [inFlight EXCEPT ![c] = Tail(@)]
  /\ Go(c, "top") /\ UNCHANGED <<budget, buffered>>

(* confirm_append_key                                                      *)
Stored(c) ==
  /\ wpc[c] = "recv" /\ owner[Head(client[c])] = EndpointOf[c]
  /\ stored' = stored \cup {Head(client[c])}
  /\ confirmed' = confirmed + 1
  /\ Pop(c)
  /\ UNCHANGED <<stopped, queue, runner, table, cluster, faults>>

(* A refused id goes back to the queue it came from.                       *)
Retry(c) == queue' = PushBack(queue, EndpointOf[c], Head(inFlight[c]))

(* Mutant of Moved: the redirect is not learned.                           *)
MovedUnlearned(c) ==
  /\ wpc[c] = "recv" /\ owner[Head(client[c])] # EndpointOf[c]
  /\ Retry(c) /\ Pop(c)
  /\ UNCHANGED <<stopped, confirmed, runner, table, cluster, stored, faults>>

(* check_resp_redirect_parsed: an address that does not parse, or is no    *)
(* endpoint's, leaves the slot table as it is.                             *)
Learn(c, k) ==
  table' = IF owner[k] \in Recognised
           THEN [table EXCEPT ![WorkerOf[c]][k] = owner[k]] ELSE table

(* The slot has moved, and a RESP writer may learn where to.               *)
Moved(c) ==
  /\ wpc[c] = "recv" /\ owner[Head(client[c])] # EndpointOf[c]
  /\ Retry(c) /\ Pop(c)
  /\ Learn(c, Head(client[c]))
  /\ UNCHANGED <<stopped, confirmed, runner, cluster, stored, faults>>

(* The node refuses the SET for now.                                       *)
Refused(c) ==
  /\ wpc[c] = "recv" /\ Fault
  /\ Retry(c) /\ Pop(c)
  /\ UNCHANGED <<stopped, confirmed, runner, table, cluster, stored>>

(* The places of the ids in flight that route to endpoint e now.           *)
RoutedTo(c, e) == {i \in DOMAIN inFlight[c] : Route(c, inFlight[c][i]) = e}

(* requeue_drained_append: each id goes where it routes now.               *)
RequeueDrained(c) ==
  queue' = [e \in Endpoints |-> queue[e] \o Picked(inFlight[c], RoutedTo(c, e))]

(* The connection fails or times out.  The node may have written some of   *)
(* the ids without the writer's hearing of it.                             *)
Lose(c) ==
  /\ wpc[c] = "recv" /\ Fault
  /\ \E n \in 0 .. Len(client[c]) :
       stored' = stored \cup {k \in ToSet(SubSeq(client[c], 1, n)) : owner[k] = EndpointOf[c]}
  /\ RequeueDrained(c)
  /\ client' = [client EXCEPT ![c] = <<>>] /\ buffered' = [buffered EXCEPT ![c] = 0]
  /\ inFlight' = [inFlight EXCEPT ![c] = <<>>]
  /\ Go(c, "down")
  /\ UNCHANGED <<stopped, confirmed, runner, table, budget, cluster>>

(* An idle connection is found closed at the top of the loop.              *)
FoundClosed(c) ==
  /\ wpc[c] = "top" /\ ~stopped /\ client[c] = <<>> /\ Fault
  /\ RequeueDrained(c)
  /\ inFlight' = [inFlight EXCEPT ![c] = <<>>]
  /\ Go(c, "down")
  /\ UNCHANGED <<stopped, confirmed, runner, table, budget, client, buffered,
                 cluster, stored>>

-----------------------------------------------------------------------------

(* The cluster moves a slot, with the ids stored in it.                    *)
MoveSlot ==
  /\ moves < MaxMoves /\ moves' = moves + 1
  /\ \E k \in NewIds : \E e \in Nodes \ {owner[k]} : owner' = [owner EXCEPT ![k] = e]
  /\ UNCHANGED <<stopped, queue, confirmed, runner, table, writer, stored, faults>>

Fills(c) == Reroute(c) \/ Fire(c) \/ FillEnds(c)
Receives(c) == Stored(c) \/ Moved(c)
Fails(c) == FireFails(c) \/ FlushFails(c) \/ Refused(c) \/ Lose(c) \/ FoundClosed(c)

Next ==
  \/ OpenBatch \/ Enqueue \/ Enqueued \/ Commit \/ Stop \/ MoveSlot
  \/ \E c \in Writers : \/ Connect(c) \/ LoopTop(c) \/ Fills(c) \/ Flush(c)
                        \/ Receives(c) \/ Fails(c)

Spec == Init /\ [][Next]_vars

(* The runner's loop goes on, a writer task is polled again and again, a   *)
(* node answers what reaches it, and the limiter of a spread batch refills *)
(* while its queue waits.  Faults, moves and Stop owe nothing.             *)
LiveSpec ==
  /\ Spec
  /\ WF_vars(Enqueue) /\ WF_vars(Enqueued) /\ WF_vars(Commit)
  /\ \A c \in Writers :
       /\ WF_vars(Connect(c)) /\ WF_vars(LoopTop(c)) /\ WF_vars(Fills(c))
       /\ WF_vars(Flush(c)) /\ WF_vars(Receives(c))
  /\ SF_vars(\E c \in Writers : LoopTop(c) /\ budget'[c] > 0 /\ queue[EndpointOf[c]] # <<>>)

-----------------------------------------------------------------------------
(* Properties                                                              *)

(* Types.  The pipeline is never deeper than append.pipeline_depth.        *)
TypeOK ==
  /\ stopped \in BOOLEAN
  /\ queue \in [Endpoints -> Seq(NewIds)]
  /\ total \in Nat /\ confirmed \in Nat
  /\ rpc \in {"idle", "enqueue", "open"}
  /\ head \in Body .. Body + BatchSize * Batches
  /\ nextId \in head .. BatchEnd
  /\ table \in [Workers -> [NewIds -> Endpoints]]
  /\ wpc \in [Writers -> {"down", "top", "fill", "flush", "recv", "gone"}]
  /\ \A c \in Writers :
       /\ client[c] \in Seq(NewIds) /\ Len(client[c]) <= Depth
       /\ buffered[c] \in 0 .. Len(client[c]) /\ budget[c] \in 0 .. Depth
  /\ stored \subseteq Ids

(* Where an id waits: in a queue or in a writer's flight.                  *)
KeptIn(place, lists, k) ==
  UNION {{<<place, x, i>> : i \in {j \in DOMAIN lists[x] : lists[x][j] = k}} : x \in DOMAIN lists}

Kept(k) == KeptIn("queue", queue, k) \cup KeptIn("flight", inFlight, k)

(* Whatever sends fail and connections are lost, an id that was enqueued   *)
(* waits in one place or was written and confirmed once, and in_flight is  *)
(* what the client has outstanding, so no reply is taken for another id's. *)
(* Batches do not overlap: what waits is of the one batch that is open.    *)
AppendsConserved ==
  /\ TypeOK
  /\ \A c \in Writers : inFlight[c] = client[c]
  /\ \A k \in NewIds : Cardinality(Kept(k)) <= 1
  /\ \A k \in NewIds : Kept(k) # {} => k \in head .. BatchEnd - 1
  /\ LET done == {k \in Body .. nextId - 1 : Kept(k) = {}}
     IN  done \subseteq stored /\ confirmed = Cardinality(done)

(* "a read never targets an id that has not been written": the head is     *)
(* published when the whole batch is confirmed, and a draw stays below it. *)
ReadsWritten == Samples(head) \subseteq stored

(* A batch that is opened is committed, or the run is stopped: no id gets  *)
(* stuck behind a moved slot or a lost connection.  The exceptions are     *)
(* those of Prefill: workers whose slot tables disagree for ever, and an   *)
(* id that belongs for good to a node no MOVED reply can lead to.          *)
TablesDisagree == \E v, w \in Workers : table[v] # table[w]

Stranded == \E k \in NewIds : /\ Kept(k) # {} /\ owner[k] \notin Recognised
                              /\ \E w \in Workers : table[w][k] # owner[k]

BatchCommits ==
  \/ (rpc = "open") ~> (rpc = "idle" \/ stopped)
  \/ <>[]TablesDisagree \/ <>[]Stranded

(* Both, at every moment: no id is lost or confirmed twice, and no read    *)
(* targets an id that is not there yet (worker.rs:4025, runner.rs:849,     *)
(* keydist.rs:231).                                                        *)
AppendsSound == AppendsConserved /\ ReadsWritten
=============================================================================
