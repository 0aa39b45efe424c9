----------------------------- MODULE TraceReplay -----------------------------
(***************************************************************************)
(* The trace replay of src/src/tracereplay.rs: a reader thread that sends  *)
(* the rows of a file into a bounded channel of batches, workers that      *)
(* claim batches and send their rows on pipelined connections, the queue   *)
(* of rows a failed connection's worker returns, and the runner that ends  *)
(* the run once every row is answered or abandoned.                        *)
(*                                                                         *)
(* The connections of a worker run on one thread, one task at a time from  *)
(* one await to the next (`task`). Workers, the reader and the runner are  *)
(* threads of their own; each access to what they share is one step.       *)
(* A row is named by its place in the file. Rows whose operation is not    *)
(* replayed are skipped by the reader. How many rows the rate limiter lets *)
(* an iteration send is any number up to a batch (see TokenDispatch).      *)
(***************************************************************************)
EXTENDS Naturals, Sequences, FiniteSets, Subsequences

CONSTANTS
  NRows,        \* rows in the trace file
  Workers,
  Conns,
  WorkerOf,     \* the worker each connection belongs to
  ClaimBatch,   \* CLAIM_BATCH
  ReadAhead,    \* READ_AHEAD_BATCHES
  Batch,        \* connection.batch_size
  Depth,        \* connection.pipeline_depth
  MaxAttempts,  \* MAX_SEND_ATTEMPTS
  Unsendable,   \* rows every send of which ringline refuses with InvalidInput
  BackfillCap   \* BACKFILL_QUEUE_CAP; 0 without backfill_on_miss

Rows == 1..NRows
Backfill == 0     \* Sent::Backfill, as an entry of `sent`
Free == [at |-> "free", conn |-> "none", budget |-> 0]

ASSUME TraceAssumption ==
  /\ NRows \in Nat /\ IsFiniteSet(Workers) /\ IsFiniteSet(Conns) /\ "none" \notin Conns
  /\ WorkerOf \in [Conns -> Workers]
  /\ ClaimBatch \in Nat \ {0} /\ ReadAhead \in Nat \ {0}
  /\ Batch \in Nat \ {0} /\ Depth \in Nat /\ Depth >= Batch
  /\ MaxAttempts \in Nat \ {0} /\ Unsendable \subseteq Rows /\ BackfillCap \in Nat

VARIABLES
  \* the reader thread
  next,      \* the next row of the file
  rbatch,    \* the batch it is filling, or sending
  eof,       \* it has read its last row: the file's end, or a read error
  err,       \* ReaderState::error is set
  rd,        \* "read", "send", "stop" (`stopped` is set) or "gone" (tx dropped)
  counted,   \* ReaderState::sent
  \* shared by the workers
  chan,      \* TraceReplay::batches
  returned,  \* TraceReplay::returned
  done,      \* TraceReplay::done
  \* each worker
  claimed,   \* its CLAIMED
  task,      \* the connection it is polling, how far, and that one's budget
  \* each connection
  cpc,       \* where its task waits: "down", "idle", "recv", "exited"
  sent,      \* rows and backfills not answered yet, oldest first
  buf,       \* how many of the newest of them the client has not flushed
  backfill,  \* GET misses waiting for their backfill
  \* each row
  attempts,  \* Row::failed_sends
  \* the runner
  phase,     \* "Wait" (rows may not be sent yet), "Replay", "Stop"
  watch,     \* how far is_finished has read: "idle", "stopped", or "done"
  seenDone,  \* the value of `done` it read
  finished,  \* it found the replay finished
  \* history
  wired,     \* how often each row was flushed to a server
  answered,  \* rows counted in TRACE_ROWS
  abandoned, \* rows counted in TRACE_ROWS_FAILED
  disorder   \* rows have been returned by a failed connection

readerVars == <<next, rbatch, eof, err, rd, counted>>
runnerVars == <<phase, watch, seenDone, finished>>
connVars   == <<sent, buf, backfill>>
rowVars    == <<attempts, wired, answered, abandoned, done>>
vars == <<readerVars, chan, returned, claimed, task, cpc, connVars, rowVars,
          runnerVars, disorder>>

Entries(s) == {s[i] : i \in 1..Len(s)}
RowsIn(s) == Picked(s, {i \in 1..Len(s) : s[i] # Backfill})
Newest(s, n) == SubSeq(s, Len(s) - n + 1, Len(s))
Oldest(s, n) == SubSeq(s, 1, n)
Least(a, b) == IF a < b THEN a ELSE b

Init ==
  /\ next = 1 /\ rbatch = <<>> /\ eof = FALSE /\ err = FALSE /\ rd = "read" /\ counted = 0
  /\ chan = <<>> /\ returned = <<>> /\ done = 0
  /\ claimed = [w \in Workers |-> <<>>] /\ task = [w \in Workers |-> Free]
  /\ cpc = [c \in Conns |-> "down"]
  /\ sent = [c \in Conns |-> <<>>] /\ buf = [c \in Conns |-> 0]
  /\ backfill = [c \in Conns |-> 0]
  /\ attempts = [r \in Rows |-> 0] /\ wired = [r \in Rows |-> 0]
  /\ answered = {} /\ abandoned = {}
  /\ phase = "Wait" /\ watch = "idle" /\ seenDone = 0 /\ finished = FALSE
  /\ disorder = FALSE

-----------------------------------------------------------------------------
(* The reader thread: spawn_reader.                                        *)

readerOnly == <<returned, claimed, task, cpc, connVars, rowVars, runnerVars, disorder>>

ReadRow ==
  /\ rd = "read" /\ ~eof /\ next <= NRows /\ Len(rbatch) < ClaimBatch
  /\ next' = next + 1
  /\ rbatch' \in {Append(rbatch, next), rbatch}   \* rbatch: the row is skipped
  /\ UNCHANGED <<eof, err, rd, counted, chan, readerOnly>>

ReadEnds ==
  /\ rd = "read" /\ ~eof /\ Len(rbatch) < ClaimBatch
  /\ \/ next > NRows /\ err' = err
     \/ next <= NRows /\ err' = TRUE
  /\ eof' = TRUE
  /\ UNCHANGED <<next, rbatch, rd, counted, chan, readerOnly>>

(* A batch is counted before it is sent.                                   *)
CountBatch ==
  /\ rd = "read" /\ (Len(rbatch) = ClaimBatch \/ (eof /\ rbatch # <<>>))
  /\ rd' = "send"
  /\ counted' = counted + Len(rbatch)
  /\ UNCHANGED <<next, rbatch, eof, err, chan, readerOnly>>

SendBatch ==
  /\ rd = "send" /\ Len(chan) < ReadAhead
  /\ chan' = Append(chan, rbatch) /\ rbatch' = <<>>
  /\ rd' = "read"
  /\ UNCHANGED <<next, eof, err, counted, readerOnly>>

(* `stopped` is set, and then the channel's sender is dropped.             *)
ReaderStops ==
  /\ \/ rd = "read" /\ eof /\ rbatch = <<>> /\ rd' = "stop"
     \/ rd = "stop" /\ rd' = "gone"
  /\ UNCHANGED <<next, rbatch, eof, err, counted, chan, readerOnly>>

Reader == ReadRow \/ ReadEnds \/ CountBatch \/ SendBatch \/ ReaderStops
stopped == rd \in {"stop", "gone"}

-----------------------------------------------------------------------------
(* The runner.                                                             *)

runnerOnly == <<readerVars, chan, returned, claimed, task, cpc, connVars, rowVars, disorder>>

(* wait_read_ahead; a read error it already knows of ends the run.         *)
StartReplay ==
  /\ phase = "Wait" /\ (stopped \/ Len(chan) = ReadAhead)
  /\ phase' = IF err THEN "Stop" ELSE "Replay"
  /\ UNCHANGED <<watch, seenDone, finished, runnerOnly>>

LoadNothing ==   \* a bug: is_finished does not look at `stopped`
  /\ phase = "Replay" /\ watch = "idle"
  /\ watch' = "stopped"
  /\ UNCHANGED <<phase, seenDone, finished, runnerOnly>>

(* is_finished: its three loads, in order. `stopped` is known to be set    *)
(* when `done` and then `sent` are read.                                   *)
LoadStopped ==
  /\ phase = "Replay" /\ watch = "idle" /\ stopped
  /\ watch' = "stopped"
  /\ UNCHANGED <<phase, seenDone, finished, runnerOnly>>

LoadDone ==
  /\ watch = "stopped"
  /\ watch' = "done" /\ seenDone' = done
  /\ UNCHANGED <<phase, finished, runnerOnly>>

LoadSent ==
  /\ watch = "done"
  /\ watch' = "idle" /\ seenDone' = 0
  /\ finished' = (seenDone >= counted)
  /\ phase' = IF finished' THEN "Stop" ELSE phase
  /\ UNCHANGED runnerOnly

(* The duration is over, or a signal arrived.                              *)
StopEarly ==
  /\ phase # "Stop" /\ watch = "idle"
  /\ phase' = "Stop"
  /\ UNCHANGED <<watch, seenDone, finished, runnerOnly>>

Runner == StartReplay \/ LoadStopped \/ LoadDone \/ LoadSent \/ StopEarly

-----------------------------------------------------------------------------
(* A connection's task: the iterations of `run`.                           *)

taskOnly == <<readerVars, runnerVars>>

At(w, c, at) == task[w].at = at /\ task[w].conn = c /\ WorkerOf[c] = w
GoTo(w, at) == task' = [task EXCEPT ![w].at = at]

(* The sleep or the wait for a token is over: the loop goes round.         *)
Wake(c) ==
  LET w == WorkerOf[c]
  IN  /\ task[w] = Free /\ cpc[c] = "idle"
      /\ task' = [task EXCEPT ![w] = [at |-> "top", conn |-> c, budget |-> 0]]
      /\ UNCHANGED <<taskOnly, chan, returned, claimed, cpc, connVars, rowVars, disorder>>

(* The top of the loop, when the run goes on: tokens for up to a batch     *)
(* when one fits in the pipeline, none when starved or before the start.   *)
Top(w, c) ==
  /\ At(w, c, "top") /\ phase # "Stop"
  /\ \E n \in 0..Batch :
       /\ n > 0 => phase = "Replay" /\ Depth - Len(sent[c]) >= Batch
       /\ task' = [task EXCEPT ![w] = [at |-> "fill", conn |-> c, budget |-> n]]
  /\ UNCHANGED <<taskOnly, chan, returned, claimed, cpc, connVars, rowVars, disorder>>

Filling(w, c) == At(w, c, "fill") /\ task[w].budget > 0 /\ Len(sent[c]) < Depth

(* What the fill loop sends next: a backfill first, then a claimed row.    *)
HasNext(w, c) == backfill[c] > 0 \/ claimed[w] # <<>>
NextItem(w, c) == IF backfill[c] > 0 THEN Backfill ELSE Head(claimed[w])
RestOfClaimed(w, c) == IF backfill[c] > 0 THEN claimed[w] ELSE Tail(claimed[w])
TakeBackfill(c) ==
  backfill' = IF backfill[c] > 0 THEN [backfill EXCEPT ![c] = @ - 1] ELSE backfill

(* next_row, when this worker has no claimed row: the returned rows are    *)
(* looked at first, then the channel.                                      *)
ClaimReturned(w, c) ==
  /\ Filling(w, c) /\ ~HasNext(w, c)
  /\ IF returned = <<>>
     THEN GoTo(w, "claim") /\ UNCHANGED <<claimed, returned>>
     ELSE LET n == Least(Len(returned), ClaimBatch)
          IN  /\ claimed' = [claimed EXCEPT ![w] = Oldest(returned, n)]
              /\ returned' = SubSeq(returned, n + 1, Len(returned))
              /\ UNCHANGED task
  /\ UNCHANGED <<taskOnly, chan, cpc, connVars, rowVars, disorder>>

ClaimBatchOrWait(w, c) ==
  /\ At(w, c, "claim")
  /\ IF chan = <<>>
     THEN GoTo(w, "flush") /\ UNCHANGED <<claimed, chan>>
     ELSE /\ claimed' = [claimed EXCEPT ![w] = Head(chan)]
          /\ chan' = Tail(chan)
          /\ GoTo(w, "fill")
  /\ UNCHANGED <<taskOnly, returned, cpc, connVars, rowVars, disorder>>

(* What is buffered reaches the server: at the end of the iteration, when  *)
(* must_flush_first says so, or when the client flushes on its own.        *)
Flushed(c) ==
  /\ wired' = [r \in Rows |->
                 IF r \in Entries(Newest(sent[c], buf[c])) THEN wired[r] + 1 ELSE wired[r]]
  /\ buf' = [buf EXCEPT ![c] = 0]

FlushEarly(w, c) ==
  /\ Filling(w, c) /\ HasNext(w, c) /\ buf[c] > 0
  /\ Flushed(c)
  /\ UNCHANGED <<taskOnly, chan, returned, claimed, task, cpc, sent, backfill,
                 attempts, answered, abandoned, done, disorder>>

(* requeue and note_given_up: the d newest of `sent` and the row `item`,   *)
(* given as a sequence, did not leave. Those that have not failed too      *)
(* often go to the front of the claimed rows, in order.                    *)
Unsent(c, d, item) == RowsIn(Newest(sent[c], d) \o item)
GivenUp(rows, charged) == {r \in rows \cap charged : attempts[r] + 1 >= MaxAttempts}
Without(s, given) == Picked(s, {i \in 1..Len(s) : s[i] \notin given})

PutBack(w, c, d, again, charged, given) ==
  /\ attempts' = [r \in Rows |-> IF r \in charged THEN attempts[r] + 1 ELSE attempts[r]]
  /\ abandoned' = abandoned \cup given
  /\ done' = done + Cardinality(given)
  /\ claimed' = [claimed EXCEPT ![w] = again]
  /\ sent' = [sent EXCEPT ![c] = Oldest(@, Len(@) - d)]

RequeueUnordered(w, c, d, item, rest, charged) ==   \* a bug: push_front in order
  LET unsent == Unsent(c, d, item)
      given  == GivenUp(Entries(unsent), charged)
      again  == Without(unsent, given)
      back   == [i \in 1..Len(again) |-> again[Len(again) + 1 - i]]
  IN  PutBack(w, c, d, back \o rest, charged \cap Entries(unsent), given)

RequeueDropsGivenUp(w, c, d, item, rest, charged) ==   \* a bug: given-up rows not marked done
  LET unsent == Unsent(c, d, item)
      given  == GivenUp(Entries(unsent), charged)
  IN  PutBack(w, c, d, Without(unsent, given) \o rest, charged \cap Entries(unsent), {})

RequeueTooMany(w, c, d, item, rest, charged) ==   \* a bug: all of `sent` taken for unsent
  LET unsent == RowsIn(sent[c] \o item)
      given  == GivenUp(Entries(unsent), charged)
  IN  PutBack(w, c, Len(sent[c]), Without(unsent, given) \o rest,
              charged \cap Entries(unsent), given)

RequeueUncharged(w, c, d, item, rest, charged) ==   \* a bug: failed sends are not counted
  PutBack(w, c, d, Unsent(c, d, item) \o rest, {}, {})

Requeue(w, c, d, item, rest, charged) ==
  LET unsent == Unsent(c, d, item)
      given  == GivenUp(Entries(unsent), charged)
  IN  PutBack(w, c, d, Without(unsent, given) \o rest, charged \cap Entries(unsent), given)

(* must_flush_first's flush fails: what was buffered goes back, charged if *)
(* it can never succeed, and the next row after it, uncharged.             *)
FlushEarlyFails(w, c) ==
  /\ Filling(w, c) /\ HasNext(w, c) /\ buf[c] > 0
  /\ \E charged \in {{}, Entries(Newest(sent[c], buf[c]))} :
       Requeue(w, c, buf[c], <<NextItem(w, c)>>, RestOfClaimed(w, c), charged)
  /\ buf' = [buf EXCEPT ![c] = 0]
  /\ TakeBackfill(c) /\ GoTo(w, "flush")
  /\ UNCHANGED <<taskOnly, chan, returned, cpc, wired, answered, disorder>>

Fire(w, c) ==
  /\ Filling(w, c) /\ HasNext(w, c) /\ NextItem(w, c) \notin Unsendable
  /\ sent' = [sent EXCEPT ![c] = Append(@, NextItem(w, c))]
  /\ buf' = [buf EXCEPT ![c] = @ + 1]
  /\ claimed' = [claimed EXCEPT ![w] = RestOfClaimed(w, c)]
  /\ TakeBackfill(c)
  /\ task' = [task EXCEPT ![w].budget = @ - 1]
  /\ UNCHANGED <<taskOnly, chan, returned, cpc, rowVars, disorder>>

(* A fire_* call fails: the client drops everything buffered with it. Only *)
(* the row it was given is charged, and only if it can never be sent.      *)
FireFails(w, c) ==
  /\ Filling(w, c) /\ HasNext(w, c)
  /\ LET item == NextItem(w, c)
     IN  \E charged \in IF item \in Unsendable THEN {{item}} ELSE {{}} :
           Requeue(w, c, buf[c], <<item>>, RestOfClaimed(w, c), charged)
  /\ buf' = [buf EXCEPT ![c] = 0]
  /\ TakeBackfill(c) /\ GoTo(w, "flush")
  /\ UNCHANGED <<taskOnly, chan, returned, cpc, wired, answered, disorder>>

FillEnds(w, c) ==
  /\ At(w, c, "fill") /\ ~Filling(w, c)
  /\ GoTo(w, "flush")
  /\ UNCHANGED <<taskOnly, chan, returned, claimed, cpc, connVars, rowVars, disorder>>

(* The iteration ends: the connection sleeps with nothing in flight, and   *)
(* otherwise waits for a reply.                                            *)
Await(w, c) ==
  /\ task' = [task EXCEPT ![w] = Free]
  /\ cpc' = [cpc EXCEPT ![c] = IF sent'[c] = <<>> THEN "idle" ELSE "recv"]

Flush(w, c) ==
  /\ At(w, c, "flush")
  /\ Flushed(c) /\ UNCHANGED sent
  /\ Await(w, c)
  /\ UNCHANGED <<taskOnly, chan, returned, claimed, backfill,
                 attempts, answered, abandoned, done, disorder>>

FlushFails(w, c) ==
  /\ At(w, c, "flush") /\ buf[c] > 0
  /\ \E charged \in {{}, Entries(Newest(sent[c], buf[c]))} :
       Requeue(w, c, buf[c], <<>>, claimed[w], charged)
  /\ buf' = [buf EXCEPT ![c] = 0]
  /\ Await(w, c)
  /\ UNCHANGED <<taskOnly, chan, returned, backfill, wired, answered, disorder>>

(* The reply to the oldest request; a GET may have missed.                 *)
Reply(c) ==
  LET w == WorkerOf[c]
      r == Head(sent[c])
  IN  /\ task[w] = Free /\ cpc[c] = "recv"
      /\ task' = [task EXCEPT ![w] = [at |-> "top", conn |-> c, budget |-> 0]]
      /\ cpc' = [cpc EXCEPT ![c] = "idle"]
      /\ sent' = [sent EXCEPT ![c] = Tail(@)]
      /\ IF r = Backfill
         THEN UNCHANGED <<done, answered, backfill>>
         ELSE /\ done' = done + 1 /\ answered' = answered \cup {r}
              /\ \/ UNCHANGED backfill
                 \/ backfill[c] < BackfillCap /\ backfill' = [backfill EXCEPT ![c] = @ + 1]
      /\ UNCHANGED <<taskOnly, chan, returned, claimed, buf, attempts, wired, abandoned, disorder>>

(* What `drive` does as `run` returns: rows in flight are abandoned unless *)
(* the run is stopping, and after an error the worker's claimed rows go to *)
(* the front of the returned queue.                                        *)
GiveUp(c) ==
  LET open == Entries(RowsIn(sent[c]))
  IN  IF phase = "Stop" THEN UNCHANGED <<done, abandoned, sent>>
      ELSE /\ done' = done + Cardinality(open)
           /\ abandoned' = abandoned \cup open
           /\ sent' = [sent EXCEPT ![c] = <<>>]

ReturnClaimed(w) ==
  /\ returned' = claimed[w] \o returned
  /\ claimed' = [claimed EXCEPT ![w] = <<>>]
  /\ disorder' = (disorder \/ claimed[w] # <<>>)

(* The connection is closed or reset, a receive fails or times out, or it  *)
(* is found dead with nothing in flight.                                   *)
ConnFails(c) ==
  LET w == WorkerOf[c]
  IN  /\ \/ task[w] = Free /\ cpc[c] = "recv"
         \/ At(w, c, "top") /\ sent[c] = <<>> /\ phase # "Stop"
      /\ cpc' = [cpc EXCEPT ![c] = "down"]
      /\ task' = [task EXCEPT ![w] = Free]
      /\ GiveUp(c) /\ ReturnClaimed(w)
      /\ backfill' = [backfill EXCEPT ![c] = 0]
      /\ UNCHANGED <<taskOnly, chan, buf, attempts, wired, answered>>

Connect(c) ==
  /\ task[WorkerOf[c]] = Free /\ cpc[c] = "down" /\ phase # "Stop"
  /\ cpc' = [cpc EXCEPT ![c] = "idle"]
  /\ UNCHANGED <<taskOnly, chan, returned, claimed, task, connVars, rowVars, disorder>>

(* The task returns at a stop, seen at the top of a loop.                  *)
Exit(c) ==
  LET w == WorkerOf[c]
  IN  /\ phase = "Stop"
      /\ At(w, c, "top") \/ (task[w] = Free /\ cpc[c] = "down")
      /\ cpc' = [cpc EXCEPT ![c] = "exited"]
      /\ task' = [task EXCEPT ![w] = Free]
      /\ UNCHANGED <<taskOnly, chan, returned, claimed, connVars, rowVars, disorder>>

Connection(c) ==
  LET w == WorkerOf[c]
  IN  \/ Wake(c) \/ Reply(c) \/ ConnFails(c) \/ Connect(c) \/ Exit(c)
      \/ Top(w, c) \/ ClaimReturned(w, c) \/ ClaimBatchOrWait(w, c)
      \/ FlushEarly(w, c) \/ FlushEarlyFails(w, c) \/ Fire(w, c) \/ FireFails(w, c)
      \/ FillEnds(w, c) \/ Flush(w, c) \/ FlushFails(w, c)

(* Every task has returned.                                                *)
Ended == /\ \A c \in Conns : cpc[c] = "exited"
         /\ UNCHANGED vars

Next == Reader \/ Runner \/ (\E c \in Conns : Connection(c)) \/ Ended

Spec == Init /\ [][Next]_vars

(* What ends the replay: the threads run, a reply or the request timeout   *)
(* comes, and, of the connections that keep finding rows to send, the      *)
(* limiter goes on funding some, the client accepts some of their rows     *)
(* (and refuses those that can never be sent), and some flushes succeed.   *)
TopFunded(c) ==
  LET w == WorkerOf[c]
  IN  /\ HasNext(w, c) \/ returned # <<>> \/ chan # <<>>
      /\ Top(w, c) /\ task'[w].budget > 0
Attempt(c) ==
  LET w == WorkerOf[c]
  IN  Fire(w, c) \/ (FireFails(w, c) /\ NextItem(w, c) \in Unsendable)
FlushSome(c) ==
  buf[c] > 0 /\ (Flush(WorkerOf[c], c) \/ FlushEarly(WorkerOf[c], c))

Fairness ==
  /\ WF_vars(Reader)
  /\ WF_vars(StartReplay \/ LoadStopped \/ LoadDone \/ LoadSent)
  /\ \A c \in Conns : WF_vars(Connection(c))
  /\ SF_vars(\E c \in Conns : TopFunded(c))
  /\ SF_vars(\E c \in Conns : Attempt(c))
  /\ SF_vars(\E c \in Conns : FlushSome(c))

LiveSpec == Spec /\ Fairness

-----------------------------------------------------------------------------
TaskType == [at : {"free", "top", "fill", "claim", "flush"}, conn : Conns \cup {"none"},
             budget : 0..Batch]

(* Every variable keeps its type; in particular no more than the pipeline  *)
(* depth is in flight, the channel holds at most its capacity, and a row   *)
(* fails at most MAX_SEND_ATTEMPTS sends.                                  *)
TypeOK ==
  /\ next \in 1..(NRows + 1) /\ rbatch \in Seq(Rows) /\ Len(rbatch) <= ClaimBatch
  /\ eof \in BOOLEAN /\ err \in BOOLEAN /\ rd \in {"read", "send", "stop", "gone"}
  /\ counted \in 0..NRows /\ done \in Nat
  /\ chan \in Seq(Seq(Rows)) /\ Len(chan) <= ReadAhead
  /\ returned \in Seq(Rows) /\ claimed \in [Workers -> Seq(Rows)]
  /\ task \in [Workers -> TaskType]
  /\ cpc \in [Conns -> {"down", "idle", "recv", "exited"}]
  /\ sent \in [Conns -> Seq(Rows \cup {Backfill})]
  /\ \A c \in Conns : Len(sent[c]) <= Depth /\ buf[c] \in 0..Len(sent[c])
  /\ backfill \in [Conns -> 0..BackfillCap]
  /\ attempts \in [Rows -> 0..MaxAttempts] /\ wired \in [Rows -> Nat]
  /\ answered \subseteq Rows /\ abandoned \subseteq Rows
  /\ phase \in {"Wait", "Replay", "Stop"} /\ watch \in {"idle", "stopped", "done"}
  /\ seenDone \in Nat /\ finished \in BOOLEAN /\ disorder \in BOOLEAN

(* The places that hold row r: one element for each occurrence.            *)
At1(s, r) == {i \in 1..Len(s) : s[i] = r}
Waiting(r) ==
  {<<"reader", i>> : i \in At1(rbatch, r)}
    \cup {<<"channel", i>> : i \in {j \in 1..Len(chan) : r \in Entries(chan[j])}}
    \cup {<<"returned", i>> : i \in At1(returned, r)}
    \cup (UNION {{<<"claimed", w, i>> : i \in At1(claimed[w], r)} : w \in Workers})
    \cup (UNION {{<<"sent", c, i>> : i \in At1(sent[c], r)} : c \in Conns})
Settled(r) ==
  (IF r \in answered THEN {<<"answered">>} ELSE {})
    \cup (IF r \in abandoned THEN {<<"abandoned">>} ELSE {})
Places(r) == Waiting(r) \cup Settled(r)

(* No row is lost or duplicated: once the reader has taken a row up, every *)
(* step leaves it in exactly one place, be that a queue, a connection or a *)
(* count (next_row, unclaim, return_claimed, requeue, drive).              *)
RowsConserved == [][\A r \in Rows : Places(r) # {} => Cardinality(Places(r)') = 1]_vars

(* A row the server may have applied is never sent again: a failed send    *)
(* takes back only what was not flushed, and a failed connection abandons  *)
(* what was. The pipeline and every queue keep within their limits.        *)
SentAtMostOnce == TypeOK /\ \A r \in Rows : wired[r] <= 1

(* When the runner finds the replay finished, the reader has stopped and   *)
(* no row it sent is still waiting anywhere, although is_finished reads    *)
(* three counters one after the other while the threads run.               *)
FinishedMeansAll == finished => stopped /\ \A r \in Rows : Waiting(r) = {}

Ascending(s) == \A i, j \in 1..Len(s) : i < j => s[i] < s[j]

(* Until a connection fails, every worker sends its rows in file order,    *)
(* on each connection and across its connections, failed sends included.   *)
FileOrder ==
  ~disorder => \A c \in Conns : Ascending(RowsIn(sent[c]) \o claimed[WorkerOf[c]])

(* Unless it is stopped early, a replay that starts finishes: rows of      *)
(* failed connections find another worker, and rows that can never be sent *)
(* are given up on instead of being retried for ever.                      *)
ReplayFinishes == phase = "Replay" ~> phase = "Stop"

(* What a replay owes its trace at every moment: rows go out once, in the  *)
(* order of the file, and "finished" means that all of them did            *)
(* (tracereplay.rs:268, 526, 830).                                         *)
RowsSound == SentAtMostOnce /\ FileOrder /\ FinishedMeansAll
=============================================================================
