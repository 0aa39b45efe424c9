---------------------------- MODULE DmaTransfers ----------------------------
(***************************************************************************)
(* The connections of a worker that runs protocol = "dma"                  *)
(* (src/src/dma/connection.rs and client.rs): each registers one buffer,   *)
(* asks the server over the control channel to write into it or to read    *)
(* from the value pool, and takes the answer as the completion.            *)
(*                                                                         *)
(* The client never sees the remote writes themselves: after a deadline    *)
(* the server may still perform the transfer it was asked for, into        *)
(* whatever carries the remote key it was given.  The server is external   *)
(* and honest: its answer says what it did.                                *)
(***************************************************************************)
EXTENDS Integers, Sequences, FiniteSets, SequencesExt

CONSTANTS
  DmaConns,      \* the connections of the worker
  DmaKeys,       \* the keys prefill stores
  MaxTransfers   \* bound on the requests sent, and so on the reconnects

Len4  == 4       \* the value length, and the capacity of a buffer
None  == 0

VARIABLES
  largeobj,      \* which dialect: BLOB.RDMA_* or DMA.*
  stage,         \* the run's phase
  task,          \* where each connection's task is
  remote_keys,   \* RKeySource: who chooses a buffer's remote key, and whether
                 \* the provider chose that of a transfer the server still has
  nextKey,       \* the lowest remote key never given to a buffer
  buf,           \* the registered buffer of each connection: remote key and
                 \* the transfer whose bytes it holds
  cur,           \* the request each connection awaits
  jobs,          \* the transfers the server was asked for and has not ended
  todo,          \* the prefill queue
  stored,        \* the keys whose SET was confirmed, as the client counts them
  kept,          \* the keys the server stored whole
  repair,        \* the backfill queue of each connection
  tally          \* the counters

client == <<task, buf, cur, repair>>
vars   == <<largeobj, stage, remote_keys, nextKey, client, jobs, todo, stored, kept, tally>>

Idle    == [id |-> None, op |-> "none", key |-> None, from |-> "none"]
NoBuf   == [rkey |-> None, holds |-> None]
Tallies == {"sent", "received", "abandoned", "active"}

(* The key queue holds each key once; every task is about to connect.      *)
Init ==
  /\ largeobj \in BOOLEAN
  /\ stage = "precheck"
  /\ task = [c \in DmaConns |-> "top"]
  /\ remote_keys \in {"application", "provider"}
  /\ nextKey = 1
  /\ buf = [c \in DmaConns |-> NoBuf] /\ cur = [c \in DmaConns |-> Idle]
  /\ jobs = {} /\ todo = SetToSeq(DmaKeys) /\ stored = {} /\ kept = {}
  /\ repair = [c \in DmaConns |-> <<>>]
  /\ tally = [n \in Tallies |-> 0]

Bump(t, names) == [n \in Tallies |-> t[n] + (IF n \in names THEN 1 ELSE 0)]

-----------------------------------------------------------------------------
(* The replies a transfer can get, and what the client makes of them       *)

Reply(kind, n) == [kind |-> kind, bytes |-> n]

(* TransferReply::receipt: the bytes of a read, None for a missing key.    *)
(* parse refuses any other shape of reply.                                 *)
Receipt(r) ==
  CASE r.kind = "missing"            -> [ok |-> TRUE, found |-> FALSE, bytes |-> 0]
    [] r.kind \in {"bytes", "pair"} /\ r.bytes >= 0
                                     -> [ok |-> TRUE, found |-> TRUE, bytes |-> r.bytes]
    [] OTHER                         -> [ok |-> FALSE, found |-> FALSE, bytes |-> 0]

(* DmaClient::get: a count past the buffer is refused, and so is a         *)
(* checksum the bytes in the buffer do not have.                           *)
GetOutcome(r, whole) ==
  LET rc == Receipt(r)
  IN  IF r.kind = "error" THEN "error"
      ELSE IF ~rc.ok \/ (rc.found /\ (rc.bytes > Len4 \/ (r.kind = "pair" /\ ~whole)))
           THEN "failed"
      ELSE IF rc.found THEN "hit" ELSE "miss"

(* Mutant of SetOutcome: the count of a write is not compared.             *)
AnyCount(r) ==
  IF r.kind = "error" THEN "error"
  ELSE IF r.kind = "ok" \/ (Receipt(r).ok /\ Receipt(r).found) THEN "ok" ELSE "failed"

(* TransferReply::write_receipt: OK, or a count of all the bytes offered.  *)
SetOutcome(r) ==
  IF r.kind = "error" THEN "error"
  ELSE IF r.kind = "ok" \/ (Receipt(r).ok /\ Receipt(r).found /\ Receipt(r).bytes = Len4)
       THEN "ok" ELSE "failed"

DelOutcome(r) == IF r.kind \in {"error", "junk"} THEN r.kind ELSE "ok"

-----------------------------------------------------------------------------
(* dma_connection_task: connect and handshake                              *)

Stopped == stage = "stop"

TaskEnds(c) ==
  /\ task[c] \in {"top", "loop"} /\ Stopped
  /\ task' = [task EXCEPT ![c] = "ended"]
  /\ buf' = [buf EXCEPT ![c] = NoBuf]
  /\ tally' = [tally EXCEPT !.active = @ - (IF task[c] = "loop" THEN 1 ELSE 0)]
  /\ UNCHANGED <<largeobj, stage, remote_keys, nextKey, cur, repair, jobs, todo, stored, kept>>

(* The control channel is up; the hello is sent.  A connect that fails, or *)
(* a backoff, leaves the task where it was.                                *)
Connects(c) ==
  /\ task[c] = "top" /\ ~Stopped
  /\ task' = [task EXCEPT ![c] = "hello"]
  /\ tally' = Bump(tally, {"active"})
  /\ UNCHANGED <<largeobj, stage, remote_keys, nextKey, buf, cur, repair, jobs, todo, stored, kept>>

(* No buffer of the domain carries remote key k.                           *)
Free(k) == \A c \in DmaConns : buf[c].rkey # k

(* Mutant of TakeKey: the lowest key not registered is given again.        *)
LowestFree == {k \in 1..nextKey : Free(k) /\ \A j \in 1..(k - 1) : ~Free(j)}

(* RKeySource::take: with application keys the client counts up; with      *)
(* FI_MR_PROV_KEY it asks for none and the provider (external) picks any   *)
(* that is free, that of a closed buffer included.  One that no transfer   *)
(* names any more is as good as a new one.                                 *)
TakeKey ==
  {nextKey} \cup (IF remote_keys = "application" THEN {}
                  ELSE {k \in {j.rkey : j \in jobs} : Free(k)})

(* DmaClient::connect: the hello answers and the buffer is registered.     *)
(* The precheck is satisfied.                                              *)
HelloAnswered(c) ==
  /\ task[c] = "hello"
  /\ task' = [task EXCEPT ![c] = "loop"]
  /\ \E k \in TakeKey :
       /\ buf' = [buf EXCEPT ![c] = [rkey |-> k, holds |-> None]]
       /\ nextKey' = IF k = nextKey THEN nextKey + 1 ELSE nextKey
       /\ remote_keys' = IF remote_keys = "provider" /\ k # nextKey THEN "repeated"
                         ELSE remote_keys
  /\ UNCHANGED <<largeobj, stage, cur, repair, jobs, todo, stored, kept, tally>>

(* The hello fails, an address does not decode or insert, or the buffer    *)
(* does not register: the control channel is closed.                       *)
HelloFails(c) ==
  /\ task[c] = "hello"
  /\ task' = [task EXCEPT ![c] = "top"]
  /\ tally' = [tally EXCEPT !.active = @ - 1]
  /\ UNCHANGED <<largeobj, stage, remote_keys, nextKey, buf, cur, repair, jobs, todo, stored, kept>>

-----------------------------------------------------------------------------
(* run_transfers: one request at a time                                    *)

(* The request goes out and the server has it to do.                       *)
Issue(c, op, key, from) ==
  /\ tally.sent < MaxTransfers
  /\ LET id == tally.sent + 1
     IN  /\ cur' = [cur EXCEPT ![c] = [id |-> id, op |-> op, key |-> key, from |-> from]]
         /\ jobs' = jobs \cup {[id |-> id, conn |-> c, rkey |-> buf[c].rkey, op |-> op,
                                key |-> key, done |-> FALSE, took |-> 0]}
  /\ tally' = Bump(tally, {"sent"})
  /\ task' = [task EXCEPT ![c] = "await"]
  /\ UNCHANGED <<largeobj, stage, remote_keys, nextKey, buf, stored, kept>>

PrefillSet(c) ==
  /\ task[c] = "loop" /\ stage = "prefill" /\ stored # DmaKeys /\ todo # <<>>
  /\ Issue(c, "set", Head(todo), "prefill")
  /\ todo' = Tail(todo)
  /\ UNCHANGED repair

(* Traffic that is not prefill: in the running phase, and while prefill is *)
(* complete on this worker and the runner has not moved on.                *)
Traffic(c) == task[c] = "loop" /\ (stage = "running" \/ (stage = "prefill" /\ stored = DmaKeys))

BackfillSet(c) ==
  /\ Traffic(c) /\ repair[c] # <<>>
  /\ Issue(c, "set", Last(repair[c]), "backfill")
  /\ repair' = [repair EXCEPT ![c] = Front(@)]
  /\ UNCHANGED todo

(* A key of this endpoint and a token: an empty bucket, a miss of the      *)
(* sampler and a refused token sleep and change nothing here.              *)
WorkloadOp(c) ==
  /\ Traffic(c) /\ repair[c] = <<>>
  /\ \E key \in DmaKeys, op \in {"get", "set", "del"} : Issue(c, op, key, "workload")
  /\ UNCHANGED <<todo, repair>>

(* Mutant of BackOnQueue: a failed SET is forgotten.                       *)
ForgetKey(c) == todo

(* A prefill key goes back to the front of the queue.                      *)
BackOnQueue(c) == IF cur[c].from = "prefill" THEN <<cur[c].key>> \o todo ELSE todo

(* The client is dropped, and its buffer with it, before the next connect. *)
Leave(c) ==
  /\ task' = [task EXCEPT ![c] = "top"]
  /\ buf' = [buf EXCEPT ![c] = NoBuf]
  /\ cur' = [cur EXCEPT ![c] = Idle]

(* recv_with_timeout gives up: the deadline passed, or no timer could be   *)
(* armed; the code counts the two apart.  The server keeps its job.        *)
GivesUp(c) ==
  /\ task[c] = "await"
  /\ Leave(c)
  /\ tally' = [Bump(tally, {"abandoned"}) EXCEPT !.active = @ - 1]
  /\ todo' = BackOnQueue(c)
  /\ UNCHANGED <<largeobj, stage, remote_keys, nextKey, repair, jobs, stored, kept>>

(* The socket fails, or the value pool is not registered: counted as a     *)
(* response, as every outcome of the round trip is.                        *)
SocketFails(c) ==
  /\ task[c] = "await"
  /\ Leave(c)
  /\ tally' = [Bump(tally, {"received"}) EXCEPT !.active = @ - 1]
  /\ todo' = BackOnQueue(c)
  /\ UNCHANGED <<largeobj, stage, remote_keys, nextKey, repair, jobs, stored, kept>>

(* What the client makes of reply r to its request.                        *)
Outcome(c, r) ==
  CASE cur[c].op = "get" -> GetOutcome(r, buf[c].holds = cur[c].id)
    [] cur[c].op = "set" -> SetOutcome(r)
    [] OTHER             -> DelOutcome(r)

(* The rest of the loop after an answer: counters, backfill on a miss, the *)
(* prefill key confirmed or put back, and the connection kept unless the   *)
(* failure is not the server's own error reply.                            *)
Completes(c, out) ==
  /\ tally' = [Bump(tally, {"received"})
                 EXCEPT !.active = @ - (IF out \in {"failed", "junk"} THEN 1 ELSE 0)]
  /\ repair' = [repair EXCEPT ![c] = IF out = "miss" THEN Append(@, cur[c].key) ELSE @]
  /\ IF cur[c].from = "prefill" /\ out = "ok"
       THEN stored' = stored \cup {cur[c].key} /\ UNCHANGED todo
       ELSE todo' = BackOnQueue(c) /\ UNCHANGED stored
  /\ IF out \in {"failed", "junk"} THEN Leave(c)
     ELSE /\ task' = [task EXCEPT ![c] = "loop"]
          /\ cur' = [cur EXCEPT ![c] = Idle]
          /\ UNCHANGED buf

-----------------------------------------------------------------------------
(* The server                                                              *)

(* It performs the transfer: a read lands in the buffer that carries the   *)
(* remote key, if one does; a write stores all or part of the value.       *)
ServerMoves(j) ==
  /\ ~j.done /\ j.op # "del"
  /\ \E n \in (IF j.op = "set" /\ ~largeobj THEN {Len4 - 1, Len4} ELSE {Len4}) :
       /\ jobs' = (jobs \ {j}) \cup {[j EXCEPT !.done = TRUE, !.took = n]}
       /\ kept' = IF j.op = "set" /\ n = Len4 THEN kept \cup {j.key} ELSE kept
       /\ buf' = [c \in DmaConns |-> IF j.op = "get" /\ buf[c].rkey = j.rkey
                                     THEN [buf[c] EXCEPT !.holds = j.id] ELSE buf[c]]
  /\ UNCHANGED <<largeobj, stage, remote_keys, nextKey, task, cur, repair, todo, stored, tally>>

(* The answers an honest server can give for j.                            *)
Answers(j) ==
  {Reply("error", 0), Reply("junk", 0)} \cup
  CASE j.op = "get" -> IF j.done THEN {Reply("bytes", j.took), Reply("pair", j.took)}
                       ELSE {Reply("missing", 0)}
    [] j.op = "set" -> IF ~j.done THEN {} ELSE IF largeobj THEN {Reply("ok", 0)}
                       ELSE {Reply("bytes", j.took)}
    [] OTHER        -> {Reply("ok", 0)}

(* It answers, and the transfer is over: on the connection that asked, if  *)
(* it still awaits this request.                                           *)
ServerAnswers(j) ==
  /\ jobs' = jobs \ {j}
  /\ IF cur[j.conn].id = j.id
       THEN \E r \in Answers(j) : Completes(j.conn, Outcome(j.conn, r))
       ELSE UNCHANGED <<client, todo, stored, tally>>
  /\ UNCHANGED <<largeobj, stage, remote_keys, nextKey, kept>>

(* The runner: out of the precheck when a connection satisfied it, past    *)
(* prefill if the configuration has none, out of prefill when every key is *)
(* confirmed, and to the stop from anywhere.                               *)
StageMoves ==
  /\ \/ stage = "precheck" /\ nextKey > 1 /\ stage' \in {"prefill", "running"}
     \/ stage = "prefill" /\ stored = DmaKeys /\ stage' = "running"
     \/ stage # "stop" /\ stage' = "stop"
  /\ UNCHANGED <<largeobj, remote_keys, nextKey, client, jobs, todo, stored, kept, tally>>

Next ==
  \/ StageMoves
  \/ \E c \in DmaConns : \/ TaskEnds(c) \/ Connects(c) \/ HelloAnswered(c) \/ HelloFails(c)
                         \/ PrefillSet(c) \/ BackfillSet(c) \/ WorkloadOp(c)
                         \/ GivesUp(c) \/ SocketFails(c)
  \/ \E j \in jobs : ServerMoves(j) \/ ServerAnswers(j)

-----------------------------------------------------------------------------
(* Properties                                                              *)

(* Unless the provider gives out the remote key of a transfer the server   *)
(* still has, a transfer the client gave up on never lands in a buffer     *)
(* another request is using: when the server has moved the bytes of a read *)
(* that is still awaited, the buffer holds these, although the checksum    *)
(* may be off (connection.rs:424, endpoint.rs:89-99).  Nothing in the      *)
(* client keeps the provider from doing so.                                *)
LateWritesMiss ==
  remote_keys # "repeated" =>
    \A j \in jobs : j.done /\ j.op = "get" /\ cur[j.conn].id = j.id => buf[j.conn].holds = j.id

(* A prefill key is in the queue, in flight on one connection or           *)
(* confirmed, never two of these and never lost, through timeouts, short   *)
(* writes, error replies and reconnects; a confirmed key was stored whole; *)
(* every request sent is accounted for; and the gauge of connections is    *)
(* their number (connection.rs:427, 485).                                  *)
TransfersConserved ==
  LET flying == {c \in DmaConns : cur[c].from = "prefill"}
  IN  /\ Len(todo) + Cardinality(flying) + Cardinality(stored) = Cardinality(DmaKeys)
      /\ ToSet(todo) \cup {cur[c].key : c \in flying} \cup stored = DmaKeys
      /\ stored \subseteq kept
      /\ tally.sent = tally.received + tally.abandoned
                        + Cardinality({c \in DmaConns : cur[c] # Idle})
      /\ tally.active = Cardinality({c \in DmaConns : task[c] \in {"hello", "loop", "await"}})
=============================================================================
