---------------------------- MODULE MemcacheConn ----------------------------
(***************************************************************************)
(* The connection tasks of one worker that speak memcache or the ping      *)
(* protocol (src/src/worker.rs): memcache_connection_task with             *)
(* drive_memcache_workload, ping_connection_task with drive_ping_workload, *)
(* and the append writers, memcache_append_task with                       *)
(* drive_memcache_append.                                                  *)
(*                                                                         *)
(* The tasks of a worker share a thread: from one await to the next a task *)
(* runs alone, and only the runner, on its own thread, changes the phase   *)
(* meanwhile.  `run` is the task that runs, `it` the locals of its         *)
(* iteration.  The ring of a memcache cluster never changes, so the keys   *)
(* of one endpoint's queue all stay there and one endpoint is modelled;    *)
(* a sampled key that another endpoint owns ends the fill.  The limiter,   *)
(* the token dispatcher and the routed dispatcher are those of             *)
(* TokenDispatch and RoutedQueues: here they grant or refuse.  The         *)
(* deadline of a receive is that of RequestTimer: here it fires or not.    *)
(***************************************************************************)
EXTENDS Integers, Sequences, FiniteSets, SequencesExt

CONSTANTS
  Readers, Writers,  \* the connection tasks, and the append writers
  Crews,             \* the sets of tasks connection_share may give a worker
  Keys,              \* the keyspace that is prefilled
  AppendKeys,        \* the ids of the append batch
  Protocols,         \* target.protocol: subset of {"ascii", "binary", "ping"}
  Depth, Batch,      \* connection.pipeline_depth, effective_batch_size
  BackfillCap,       \* BACKFILL_QUEUE_CAP
  MaxSends,          \* bound on the requests of the workload
  MaxFaults          \* bound on failed connects and sends, closes, errors, timeouts

Conns == Readers \cup Writers
None  == "none"

ASSUME MemcacheAssumption ==
  /\ Readers \cap Writers = {} /\ None \notin Conns /\ Crews \subseteq SUBSET Conns
  /\ Keys # {} /\ IsFiniteSet(Keys)
  /\ Protocols \subseteq {"ascii", "binary", "ping"}
  /\ Depth \in Nat /\ Batch \in 1 .. Depth
  /\ BackfillCap \in Nat /\ MaxSends \in Nat /\ MaxFaults \in Nat

VARIABLES
  config,      \* protocol, routed, limited: what the run was set up with
  phase,       \* SharedState::phase
  prechecked, prefillDone,
  queue,       \* prefill_queues and append_queues of the endpoint
  confirmed,   \* the keys whose prefill or append was confirmed
  pc,          \* where each task is
  sockets,     \* the sockets a task has open
  alive,       \* environment: whether the server still holds its end
  client,      \* the client's outstanding requests, oldest first
  unsent,      \* how many of the newest of them are not flushed
  timers,      \* InFlight::len
  flight,      \* prefill_in_flight, and in_flight of a writer
  backfill,    \* backfill_queue, newest last
  carried,     \* carried_tokens
  run, it,     \* the running task and the locals of its iteration
  stat,        \* the counters and gauges of src/src/metrics.rs, and how many
               \* of the responses received are to PINGs of the precheck
  lost,        \* ghost: requests sent whose connection ended unanswered
  missed,      \* ghost: misses taken for backfill, and what became of them
  sends, faults

shared == <<config, phase, prechecked, prefillDone, queue, confirmed>>
conn   == <<sockets, alive, client, unsent, timers, flight, backfill, carried>>
ghost  == <<lost, missed, sends, faults>>
vars   == <<shared, pc, conn, run, it, stat, ghost>>

NoIteration ==
  [ph |-> None, want |-> FALSE, fired |-> 0, budget |-> 0, starved |-> FALSE, failed |-> FALSE]

Init ==
  /\ config \in [protocol : Protocols, routed : BOOLEAN, limited : BOOLEAN]
  /\ config.protocol = "ping" => ~config.routed
  /\ config.routed => config.limited
  /\ phase = "Precheck" /\ prechecked = FALSE /\ prefillDone = FALSE
  /\ queue = [prefill |-> SetToSeq(Keys), append |-> SetToSeq(AppendKeys)]
  /\ confirmed = <<>>
  /\ \E crew \in Crews :
       /\ config.protocol = "ping" => crew \subseteq Readers
       /\ pc = [c \in Conns |-> IF c \in crew THEN "down" ELSE "gone"]
  /\ sockets = [c \in Conns |-> 0] /\ alive = [c \in Conns |-> FALSE]
  /\ client = [c \in Conns |-> <<>>] /\ unsent = [c \in Conns |-> 0]
  /\ timers = [c \in Conns |-> 0] /\ flight = [c \in Conns |-> <<>>]
  /\ backfill = [c \in Conns |-> <<>>] /\ carried = [c \in Conns |-> 0]
  /\ run = None /\ it = NoIteration
  /\ stat = [sent |-> 0, failed |-> 0, received |-> 0, prechecks |-> 0, timeouts |-> 0,
             active |-> 0, appendActive |-> 0, connFailed |-> 0]
  /\ lost = 0 /\ missed = [taken |-> 0, answered |-> 0, lost |-> 0]
  /\ sends = 0 /\ faults = 0

Fault == faults < MaxFaults /\ faults' = faults + 1
Go(c, p) == pc' = [pc EXCEPT ![c] = p]
Set(f, c, v) == [f EXCEPT ![c] = v]
Ping == config.protocol = "ping"

Older(s, n)  == SubSeq(s, 1, Len(s) - n)
Newest(s, n) == SubSeq(s, Len(s) - n + 1, Len(s))
OfKind(s, kinds) == SelectSeq(s, LAMBDA r : r.kind \in kinds)
KeysIn(s) == [i \in DOMAIN s |-> s[i].key]

-----------------------------------------------------------------------------
(* The life of a connection                                                *)

GaugeOf(c) == IF c \in Writers THEN "appendActive" ELSE "active"

(* establish_connection: the connection comes up; the gauge counts it and  *)
(* CloseOnDrop holds its socket.  Only a reader that meets Phase::Precheck *)
(* first checks the server.                                                *)
Connect(c) ==
  /\ run = None /\ pc[c] = "down" /\ phase # "Stop"
  /\ sockets' = Set(sockets, c, sockets[c] + 1)
  /\ alive' = Set(alive, c, TRUE)
  /\ stat' = [stat EXCEPT ![GaugeOf(c)] = @ + 1]
  /\ Go(c, IF c \in Readers /\ phase = "Precheck" /\ ~prechecked THEN "version" ELSE "top")
  /\ UNCHANGED <<shared, client, unsent, timers, flight, backfill, carried, run, it, ghost>>

(* It is refused, times out or cannot be submitted: a sleep and a retry.   *)
ConnectFails(c) ==
  /\ run = None /\ pc[c] = "down" /\ phase # "Stop" /\ Fault
  /\ stat' = [stat EXCEPT !.connFailed = @ + 1]
  /\ UNCHANGED <<shared, pc, conn, run, it, lost, missed, sends>>

Stopped(c) ==
  /\ run = None /\ pc[c] = "down" /\ phase = "Stop"
  /\ Go(c, "gone")
  /\ UNCHANGED <<shared, conn, run, it, stat, ghost>>

(* The PING client's callback counts what it hears of: an answer, and an   *)
(* error it may be told of.  It does so in the precheck too.               *)
Heard(s) == [s EXCEPT !.received = @ + 1, !.prechecks = @ + 1]

(* VERSION, or PING; the binary protocol has no VERSION and asks nothing.  *)
VersionOk(c) ==
  /\ run = None /\ pc[c] = "version"
  /\ alive[c] \/ config.protocol = "binary"
  /\ prechecked' = TRUE
  /\ stat' = IF Ping THEN Heard(stat) ELSE stat
  /\ Go(c, "gate")
  /\ UNCHANGED <<config, phase, prefillDone, queue, confirmed, conn, run, it, ghost>>

(* The task loses its connection and sleeps: what was queued on it goes,   *)
(* its gauge is lowered; the socket is closed when the loop body ends.     *)
Down(c, p) ==
  /\ client' = Set(client, c, <<>>) /\ unsent' = Set(unsent, c, 0)
  /\ timers' = Set(timers, c, 0) /\ flight' = Set(flight, c, <<>>)
  /\ carried' = Set(carried, c, 0)
  /\ missed' = [missed EXCEPT !.lost = @ + Len(OfKind(client[c], {"backfill"}))]
  /\ Go(c, p)

VersionFails(c) ==
  /\ run = None /\ pc[c] = "version" /\ config.protocol # "binary"
  /\ IF alive[c] THEN Fault ELSE UNCHANGED faults
  /\ \E s \in {stat} \cup (IF Ping THEN {Heard(stat)} ELSE {}) :
       stat' = [s EXCEPT !.active = @ - 1, !.connFailed = @ + 1]
  /\ Down(c, "backoff")
  /\ UNCHANGED <<shared, sockets, alive, backfill, run, it, lost, sends>>

(* The wait for the phase to advance.                                      *)
GateOpens(c) ==
  /\ run = None /\ pc[c] = "gate" /\ phase # "Precheck"
  /\ Go(c, "top")
  /\ UNCHANGED <<shared, conn, run, it, stat, ghost>>

(* The wait reads Precheck and then Stop.                                  *)
GateStops(c) ==
  /\ run = None /\ pc[c] = "gate" /\ phase = "Stop"
  /\ stat' = [stat EXCEPT !.active = @ - 1]
  /\ sockets' = Set(sockets, c, sockets[c] - 1)
  /\ Go(c, "gone")
  /\ UNCHANGED <<shared, alive, client, unsent, timers, flight, backfill, carried, run, it, ghost>>

(* The 100 ms before the next attempt end; CloseOnDrop closes the socket.  *)
BackoffEnds(c) ==
  /\ run = None /\ pc[c] = "backoff"
  /\ sockets' = Set(sockets, c, sockets[c] - 1)
  /\ Go(c, "down")
  /\ UNCHANGED <<shared, alive, client, unsent, timers, flight, backfill, carried, run, it, stat, ghost>>

(* Mutant of Disconnect: only the stop path lowers the gauge.              *)
DisconnectKeepsGauge(c) == stat' = stat

Disconnect(c) == stat' = [stat EXCEPT ![GaugeOf(c)] = @ - 1]

(* requeue_drained_prefill, requeue_drained_append                         *)
Requeue(c) ==
  queue' = IF c \in Writers THEN [queue EXCEPT !.append = @ \o flight[c]]
           ELSE [queue EXCEPT !.prefill = @ \o flight[c]]

(* REQUESTS_SENT does not count what a writer sends.                       *)
Unanswered(c) == IF c \in Writers THEN 0 ELSE Len(client[c])

(* The drive loop returns Ok at Stop: the task ends with what it has in    *)
(* flight.                                                                 *)
Leave(c) ==
  /\ run = None /\ pc[c] = "top" /\ phase = "Stop"
  /\ Disconnect(c)
  /\ lost' = lost + Unanswered(c)
  /\ sockets' = Set(sockets, c, sockets[c] - 1)
  /\ Down(c, "gone")
  /\ UNCHANGED <<shared, alive, backfill, run, it, sends, faults>>

(* A connection closed while nothing is in flight is found at the top of   *)
(* the loop (the ping loop has no such test).                              *)
FoundClosed(c) ==
  /\ run = None /\ pc[c] = "top" /\ phase # "Stop" /\ ~Ping
  /\ client[c] = <<>> /\ ~alive[c]
  /\ Requeue(c) /\ Disconnect(c)
  /\ Down(c, "backoff")
  /\ UNCHANGED <<config, phase, prechecked, prefillDone, confirmed, sockets, alive,
                 backfill, run, it, lost, sends, faults>>

-----------------------------------------------------------------------------
(* drive_memcache_workload: filling the pipeline                           *)

Begin(c, budget, starved) ==
  /\ run' = c
  /\ it' = [ph |-> phase, want |-> Depth - Len(client[c]) >= Batch,
            fired |-> 0, budget |-> budget, starved |-> starved, failed |-> FALSE]
  /\ Go(c, "fill")
  /\ UNCHANGED <<shared, sockets, alive, client, unsent, timers, flight, backfill, stat, ghost>>

Running(c) == run = c /\ pc[c] = "fill"
AtTop(c) ==
  /\ run = None /\ pc[c] = "top" /\ phase # "Stop" /\ ~Ping
  /\ client[c] # <<>> \/ alive[c]

(* In Prefill, and in the routed mode, nothing is taken from the limiter.  *)
(* Otherwise the budget of the iteration is the tokens carried here, a     *)
(* batch the limiter grants, or a batch when there is no limiter.          *)
LoopTop(c) ==
  /\ c \in Readers /\ AtTop(c)
  /\ IF phase # "Running" \/ config.routed \/ Depth - Len(client[c]) < Batch
       THEN Begin(c, 0, FALSE) /\ UNCHANGED carried
       ELSE IF ~config.limited
       THEN Begin(c, Batch, FALSE) /\ UNCHANGED carried
       ELSE IF carried[c] > 0
       THEN Begin(c, carried[c], FALSE) /\ carried' = Set(carried, c, 0)
       ELSE /\ \/ Begin(c, Batch, FALSE)
               \/ Begin(c, 0, TRUE)
            /\ UNCHANGED carried

(* fire_* succeeds: the client holds the request until it is flushed.      *)
Fires(c, r) ==
  /\ client' = Set(client, c, Append(client[c], r))
  /\ unsent' = Set(unsent, c, unsent[c] + 1)
  /\ timers' = Set(timers, c, timers[c] + 1)

(* Mutant of NoteDiscarded: InFlight keeps the entries of dropped requests. *)
NoteNothing(c, n) ==
  /\ client' = Set(client, c, Older(client[c], n))
  /\ unsent' = Set(unsent, c, unsent[c] - n)
  /\ UNCHANGED timers

(* note_discarded: the client drops the n newest of what it has buffered.  *)
NoteDiscarded(c, n) ==
  /\ client' = Set(client, c, Older(client[c], n))
  /\ unsent' = Set(unsent, c, unsent[c] - n)
  /\ timers' = Set(timers, c, timers[c] - n)

(* A backfill SET the client drops is gone: only the one that was being    *)
(* fired goes back to backfill_queue.                                      *)
DropsBackfills(c, n) == Len(OfKind(Newest(client[c], n), {"backfill"}))

(* note_failed_fire in the reader: n earlier ones and the one being fired. *)
FailedFire(c, n) ==
  /\ NoteDiscarded(c, n)
  /\ missed' = [missed EXCEPT !.lost = @ + DropsBackfills(c, n)]
  /\ stat' = [stat EXCEPT !.failed = @ + n + 1]
  /\ it' = [it EXCEPT !.fired = @ - n, !.failed = TRUE]
  /\ Go(c, "flush")

Prefills(c) ==
  /\ Running(c) /\ c \in Readers /\ it.ph = "Prefill" /\ ~prefillDone
  /\ it.want /\ Len(client[c]) < Depth /\ queue.prefill # <<>>

Traffic(c) ==
  /\ Running(c) /\ c \in Readers /\ it.ph = "Running" /\ it.want /\ Len(client[c]) < Depth
  /\ config.routed \/ it.budget > 0

Appends(c) ==
  /\ Running(c) /\ c \in Writers /\ it.budget > 0
  /\ Len(client[c]) < Depth /\ queue.append # <<>>

PrefillFire(c) ==
  /\ Prefills(c)
  /\ LET k == Head(queue.prefill) IN
       /\ Fires(c, [kind |-> "prefill", key |-> k])
       /\ flight' = Set(flight, c, Append(flight[c], k))
  /\ queue' = [queue EXCEPT !.prefill = Tail(@)]
  /\ it' = [it EXCEPT !.fired = @ + 1]
  /\ UNCHANGED <<config, phase, prechecked, prefillDone, confirmed, pc, sockets, alive,
                 backfill, carried, run, stat, ghost>>

(* requeue_newest: the dropped keys go back to the front, in their order.  *)
PrefillFireFails(c) ==
  /\ Prefills(c) /\ Fault
  /\ \E n \in 0 .. unsent[c] :
       /\ FailedFire(c, n)
       /\ queue' = [queue EXCEPT !.prefill = Newest(flight[c], n) \o @]
       /\ flight' = Set(flight, c, Older(flight[c], n))
  /\ UNCHANGED <<config, phase, prechecked, prefillDone, confirmed, sockets, alive,
                 backfill, carried, run, lost, sends>>

(* The prefill pacer refuses a token, no sampled key routes here, the      *)
(* node's queue is empty, or the pipeline is full.                         *)
FillEnds(c) ==
  /\ Running(c) /\ ~Appends(c)
  /\ Traffic(c) /\ ~config.routed => backfill[c] = <<>>
  /\ Go(c, "flush")
  /\ UNCHANGED <<shared, conn, run, it, stat, ghost>>

(* The backfill queue is drained first, newest key first; a routed         *)
(* connection pays for a backfill from the limiter.                        *)
BackfillFire(c) ==
  /\ Traffic(c) /\ backfill[c] # <<>>
  /\ Fires(c, [kind |-> "backfill", key |-> Last(backfill[c])])
  /\ backfill' = Set(backfill, c, Front(backfill[c]))
  /\ it' = [it EXCEPT !.fired = @ + 1, !.budget = IF config.routed THEN @ ELSE @ - 1]
  /\ UNCHANGED <<shared, pc, sockets, alive, flight, carried, run, stat, ghost>>

BackfillFireFails(c) ==
  /\ Traffic(c) /\ backfill[c] # <<>> /\ Fault
  /\ \E n \in 0 .. unsent[c] : FailedFire(c, n)
  /\ UNCHANGED <<shared, sockets, alive, flight, backfill, carried, run, lost, sends>>

(* A sampled key, or the next of the node's routed queue, and a roll for   *)
(* the command.                                                            *)
Request == {[kind |-> "get", key |-> k] : k \in Keys} \cup {[kind |-> "write", key |-> None]}

WorkloadFire(c) ==
  /\ Traffic(c) /\ sends < MaxSends /\ sends' = sends + 1
  /\ config.routed \/ backfill[c] = <<>>
  /\ \E r \in Request : Fires(c, r)
  /\ it' = [it EXCEPT !.fired = @ + 1, !.budget = IF config.routed THEN @ ELSE @ - 1]
  /\ UNCHANGED <<shared, pc, sockets, alive, flight, backfill, carried, run, stat, lost, missed,
                 faults>>

(* A routed request whose send fails is given up: it was popped.           *)
WorkloadFireFails(c) ==
  /\ Traffic(c) /\ Fault
  /\ config.routed \/ backfill[c] = <<>>
  /\ \E n \in 0 .. unsent[c] : FailedFire(c, n)
  /\ UNCHANGED <<shared, sockets, alive, flight, backfill, carried, run, lost, sends>>

-----------------------------------------------------------------------------
(* drive_memcache_workload: flushing, waiting and receiving                *)

(* With nothing in flight: wait for the node's queue, for tokens, or sleep. *)
(* With replies outstanding: receive, or, routed and with room for a       *)
(* batch, wait for either.                                                 *)
WaitsAt(c) ==
  LET routes == config.routed /\ it.ph = "Running" /\ ~it.failed
      room   == Depth - Len(client'[c]) >= Batch
  IN IF client'[c] # <<>> THEN (IF routes /\ room THEN "sendOrRecv" ELSE "recv")
     ELSE IF routes THEN "nodeWait"
     ELSE IF it.starved THEN "acquire" ELSE "sleep"

Flush(c) ==
  /\ run = c /\ pc[c] = "flush" /\ c \in Readers
  /\ unsent' = Set(unsent, c, 0) /\ UNCHANGED client
  /\ stat' = [stat EXCEPT !.sent = @ + it.fired]
  /\ Go(c, WaitsAt(c))
  /\ run' = None /\ it' = NoIteration
  /\ UNCHANGED <<shared, sockets, alive, timers, flight, backfill, carried, ghost>>

(* Mutant of StillSent: what a failed flush dropped stays counted as sent. *)
AllFired(n) == it.fired

StillSent(n) == it.fired - n

FlushFails(c) ==
  /\ run = c /\ pc[c] = "flush" /\ c \in Readers /\ unsent[c] > 0 /\ Fault
  /\ LET n == unsent[c] IN
       /\ NoteDiscarded(c, n)
       /\ missed' = [missed EXCEPT !.lost = @ + DropsBackfills(c, n)]
       /\ stat' = [stat EXCEPT !.failed = @ + n, !.sent = @ + StillSent(n)]
       /\ IF it.ph = "Prefill"
            THEN /\ queue' = [queue EXCEPT !.prefill = Newest(flight[c], n) \o @]
                 /\ flight' = Set(flight, c, Older(flight[c], n))
            ELSE UNCHANGED <<queue, flight>>
  /\ Go(c, WaitsAt(c))
  /\ run' = None /\ it' = NoIteration
  /\ UNCHANGED <<config, phase, prechecked, prefillDone, confirmed, sockets, alive,
                 backfill, carried, lost, sends>>

(* A sleep ends, the node's queue has a request, or there is room to send. *)
Wakes(c) ==
  /\ run = None /\ pc[c] \in {"sleep", "nodeWait", "sendOrRecv"}
  /\ Go(c, "top")
  /\ UNCHANGED <<shared, conn, run, it, stat, ghost>>

(* Mutant of Granted: the dispatcher ends at Stop without a drain.         *)
GrantedIfFunded(c) ==
  /\ run = None /\ pc[c] = "acquire" /\ phase # "Stop"
  /\ carried' = Set(carried, c, Batch)
  /\ Go(c, "top")
  /\ UNCHANGED <<shared, sockets, alive, client, unsent, timers, flight, backfill, run, it,
                 stat, ghost>>

(* acquire returns a batch, or nothing once the dispatcher drains at Stop. *)
Granted(c) ==
  /\ run = None /\ pc[c] = "acquire"
  /\ carried' = Set(carried, c, IF phase = "Stop" THEN 0 ELSE Batch)
  /\ Go(c, "top")
  /\ UNCHANGED <<shared, sockets, alive, client, unsent, timers, flight, backfill, run, it,
                 stat, ghost>>

Receiving(c) == run = None /\ pc[c] \in {"recv", "sendOrRecv"}

(* The reply to the oldest request; InFlight drops its oldest entry.       *)
Answered(c) ==
  /\ client' = Set(client, c, Tail(client[c]))
  /\ timers' = Set(timers, c, timers[c] - 1)
  /\ Go(c, "top")

(* confirm_prefill_key, or the SET failed and its key is queued again.     *)
PrefillReply(c) ==
  /\ Receiving(c) /\ alive[c] /\ c \in Readers /\ ~Ping /\ Head(client[c]).kind = "prefill"
  /\ Answered(c)
  /\ LET k == Head(flight[c]) IN
       \/ /\ confirmed' = Append(confirmed, k)
          /\ prefillDone' = (prefillDone \/ Keys \subseteq ToSet(confirmed'))
          /\ UNCHANGED <<queue, faults>>
       \/ /\ Fault
          /\ queue' = [queue EXCEPT !.prefill = Append(@, k)]
          /\ UNCHANGED <<confirmed, prefillDone>>
  /\ flight' = Set(flight, c, Tail(flight[c]))
  /\ stat' = [stat EXCEPT !.received = @ + 1]
  /\ UNCHANGED <<config, phase, prechecked, sockets, alive, unsent, backfill, carried, run, it,
                 lost, missed, sends>>

(* Mutant of TakesBackfill: the cap is not tested.                         *)
TakesAnyBackfill(c) == TRUE

TakesBackfill(c) == Len(backfill[c]) < BackfillCap

(* Any other reply: a miss may be queued for backfill (backfill_on_miss).  *)
WorkloadReply(c) ==
  /\ Receiving(c) /\ alive[c] /\ c \in Readers /\ ~Ping /\ Head(client[c]).kind # "prefill"
  /\ Answered(c)
  /\ LET r == Head(client[c]) IN
       \/ /\ r.kind = "get" /\ TakesBackfill(c)
          /\ backfill' = Set(backfill, c, Append(backfill[c], r.key))
          /\ missed' = [missed EXCEPT !.taken = @ + 1]
       \/ /\ UNCHANGED backfill
          /\ missed' = IF r.kind = "backfill" THEN [missed EXCEPT !.answered = @ + 1] ELSE missed
  /\ stat' = [stat EXCEPT !.received = @ + 1]
  /\ UNCHANGED <<shared, sockets, alive, unsent, flight, carried, run, it, lost, sends, faults>>

(* The receive fails: the connection was closed, or an error is read.  The *)
(* failure of a PING may be counted as a response.                         *)
RecvFails(c) ==
  /\ Receiving(c)
  /\ IF alive[c] THEN Fault ELSE UNCHANGED faults
  /\ Requeue(c)
  /\ \/ Disconnect(c) /\ lost' = lost + Unanswered(c)
     \/ /\ Ping /\ stat' = [stat EXCEPT !.active = @ - 1, !.received = @ + 1]
        /\ UNCHANGED lost
  /\ Down(c, "backoff")
  /\ UNCHANGED <<config, phase, prechecked, prefillDone, confirmed, sockets, alive, backfill,
                 run, it, sends>>

(* recv_with_timeout gives up: REQUEST_TIMEOUTS counts what InFlight holds, *)
(* a writer's requests too, which REQUESTS_SENT does not count: they are   *)
(* taken off `lost`.                                                       *)
TimesOut(c) ==
  /\ Receiving(c) /\ Fault
  /\ Requeue(c)
  /\ stat' = [stat EXCEPT ![GaugeOf(c)] = @ - 1,
                          !.timeouts = @ + timers[c]]
  /\ lost' = IF c \in Writers THEN lost - timers[c] ELSE lost
  /\ Down(c, "backoff")
  /\ UNCHANGED <<config, phase, prechecked, prefillDone, confirmed, sockets, alive, backfill,
                 run, it, sends>>

-----------------------------------------------------------------------------
(* drive_memcache_append                                                   *)

(* append_token_budget: a writer takes up to what its pipeline has free.   *)
WriterTop(c) ==
  /\ c \in Writers /\ AtTop(c)
  /\ \E n \in 0 .. Depth - Len(client[c]) : Begin(c, IF queue.append = <<>> THEN 0 ELSE n, FALSE)
  /\ UNCHANGED carried

WriterFires(c) ==
  /\ Appends(c)
  /\ LET k == Head(queue.append) IN
       /\ Fires(c, [kind |-> "append", key |-> k])
       /\ flight' = Set(flight, c, Append(flight[c], k))
  /\ queue' = [queue EXCEPT !.append = Tail(@)]
  /\ it' = [it EXCEPT !.budget = @ - 1]
  /\ UNCHANGED <<config, phase, prechecked, prefillDone, confirmed, pc, sockets, alive,
                 backfill, carried, run, stat, ghost>>

WriterRequeues(c, n) ==
  /\ NoteDiscarded(c, n)
  /\ queue' = [queue EXCEPT !.append = Newest(flight[c], n) \o @]
  /\ flight' = Set(flight, c, Older(flight[c], n))

WriterFireFails(c) ==
  /\ Appends(c) /\ Fault
  /\ \E n \in 0 .. unsent[c] : WriterRequeues(c, n)
  /\ Go(c, "flush")
  /\ UNCHANGED <<config, phase, prechecked, prefillDone, confirmed, sockets, alive,
                 backfill, carried, run, it, stat, lost, missed, sends>>

WriterFlush(c) ==
  /\ run = c /\ pc[c] = "flush" /\ c \in Writers
  /\ \/ /\ unsent' = Set(unsent, c, 0)
        /\ UNCHANGED <<client, timers, queue, flight, faults>>
     \/ unsent[c] > 0 /\ Fault /\ WriterRequeues(c, unsent[c])
  /\ Go(c, IF client'[c] = <<>> THEN "sleep" ELSE "recv")
  /\ run' = None /\ it' = NoIteration
  /\ UNCHANGED <<config, phase, prechecked, prefillDone, confirmed, sockets, alive,
                 backfill, carried, stat, lost, missed, sends>>

WriterReply(c) ==
  /\ Receiving(c) /\ alive[c] /\ c \in Writers
  /\ Answered(c)
  /\ flight' = Set(flight, c, Tail(flight[c]))
  /\ LET k == Head(flight[c]) IN
       \/ confirmed' = Append(confirmed, k) /\ UNCHANGED <<queue, faults>>
       \/ Fault /\ queue' = [queue EXCEPT !.append = Append(@, k)] /\ UNCHANGED confirmed
  /\ UNCHANGED <<config, phase, prechecked, prefillDone, sockets, alive, unsent, backfill,
                 carried, run, it, stat, lost, missed, sends>>

-----------------------------------------------------------------------------
(* drive_ping_workload: one PING at a time, no prefill                     *)

PingIdles(c) ==
  /\ run = None /\ Ping /\ pc[c] = "top" /\ phase # "Stop"
  /\ phase = "Running" => config.limited
  /\ prefillDone' = (prefillDone \/ phase = "Prefill")
  /\ Go(c, "sleep")
  /\ UNCHANGED <<config, phase, prechecked, queue, confirmed, conn, run, it, stat, ghost>>

PingFires(c) ==
  /\ run = None /\ Ping /\ pc[c] = "top" /\ phase = "Running"
  /\ sends < MaxSends /\ sends' = sends + 1
  /\ stat' = [stat EXCEPT !.sent = @ + 1]
  /\ client' = Set(client, c, <<[kind |-> "ping", key |-> None]>>)
  /\ timers' = Set(timers, c, timers[c] + 1)
  /\ Go(c, "recv")
  /\ UNCHANGED <<shared, sockets, alive, unsent, flight, backfill, carried, run, it, lost,
                 missed, faults>>

PingReply(c) ==
  /\ Receiving(c) /\ Ping /\ alive[c]
  /\ Answered(c)
  /\ stat' = [stat EXCEPT !.received = @ + 1]
  /\ UNCHANGED <<shared, sockets, alive, unsent, flight, backfill, carried, run, it, ghost>>

-----------------------------------------------------------------------------
(* The runner's thread and the server                                      *)

NextPhase ==
  /\ \/ phase = "Precheck" /\ prechecked /\ phase' = "Prefill"
     \/ phase = "Prefill" /\ prefillDone /\ phase' = "Running"
     \/ phase # "Stop" /\ phase' = "Stop"
  /\ UNCHANGED <<config, prechecked, prefillDone, queue, confirmed, pc, conn, run, it, stat, ghost>>

ServerCloses(c) ==
  /\ sockets[c] > 0 /\ alive[c] /\ Fault
  /\ alive' = Set(alive, c, FALSE)
  /\ UNCHANGED <<shared, pc, sockets, client, unsent, timers, flight, backfill, carried, run, it,
                 stat, lost, missed, sends>>

Lives(c)   == Connect(c) \/ Stopped(c) \/ GateOpens(c) \/ GateStops(c) \/ BackoffEnds(c) \/ Leave(c)
Fills(c)   == \/ PrefillFire(c) \/ BackfillFire(c) \/ WorkloadFire(c) \/ WriterFires(c)
              \/ FillEnds(c)
Drives(c)  == \/ LoopTop(c) \/ WriterTop(c) \/ Fills(c) \/ Flush(c) \/ WriterFlush(c)
              \/ FoundClosed(c) \/ PingIdles(c) \/ PingFires(c)
Receives(c) == \/ PrefillReply(c) \/ WorkloadReply(c) \/ WriterReply(c) \/ PingReply(c)
               \/ RecvFails(c)
Fails(c)   == \/ ConnectFails(c) \/ VersionFails(c) \/ PrefillFireFails(c) \/ BackfillFireFails(c)
              \/ WorkloadFireFails(c) \/ FlushFails(c) \/ WriterFireFails(c) \/ TimesOut(c)
              \/ ServerCloses(c)

Next ==
  \/ \E c \in Conns : \/ Lives(c) \/ VersionOk(c) \/ Drives(c) \/ Wakes(c) \/ Granted(c)
                      \/ Receives(c) \/ Fails(c)
  \/ NextPhase

(* A task that may run is polled, a receive ends by a reply, a failure or  *)
(* its deadline, and acquire is drained at Stop.  A server may never       *)
(* answer VERSION or PING, and the runner may never change the phase.      *)
Spec ==
  /\ Init /\ [][Next]_vars
  /\ \A c \in Conns : WF_vars(Lives(c) \/ Drives(c) \/ Wakes(c) \/ Granted(c) \/ Receives(c))

-----------------------------------------------------------------------------
(* Properties                                                              *)

SumOver(f, S) == MapThenSumSet(LAMBDA c : f[c], S)

(* Every request counted in REQUESTS_SENT has one fate: it was answered,   *)
(* is counted as timed out, went down with its connection, or is still in  *)
(* flight; a request that a failed send dropped is not among them          *)
(* (worker.rs:3222), and the subtractions from fired_count never wrap.  Of *)
(* the responses received, those to PINGs of the precheck were not counted *)
(* as sent (worker.rs:1685, 3509).                                         *)
SentAccounted ==
  /\ it.fired >= 0
  /\ stat.sent + it.fired = (stat.received - stat.prechecks) + stat.timeouts + lost
                            + SumOver([c \in Readers |-> Len(client[c])], Readers)

(* What a task believes to be in flight is what its client has             *)
(* outstanding, whichever sends fail and whatever a failure drops: the     *)
(* deadline is that of the oldest request and a reply is booked on the key *)
(* it answers (worker.rs:4282, 3336).  No key of the prefill or of the     *)
(* append batch is lost or confirmed twice.                                *)
FlightMatches ==
  /\ \A c \in Conns :
       /\ timers[c] = Len(client[c]) /\ unsent[c] <= Len(client[c])
       /\ flight[c] = KeysIn(OfKind(client[c], {"prefill", "append"}))
  /\ \A k \in Keys \cup AppendKeys :
       LET at(s) == Cardinality({i \in DOMAIN s : s[i] = k})
       IN at(queue.prefill) + at(queue.append) + at(confirmed)
            + SumOver([c \in Conns |-> at(flight[c])], Conns) <= 1
  /\ phase # "Stop" =>
       \A k \in Keys \cup AppendKeys :
         \/ k \in ToSet(queue.prefill) \cup ToSet(queue.append) \cup ToSet(confirmed)
         \/ \E c \in Conns : k \in ToSet(flight[c])

(* CONNECTIONS_ACTIVE and APPEND_CONNECTIONS_ACTIVE are the numbers of     *)
(* connections in use on every path out of a connection, no task ever has  *)
(* two sockets, and a task that ended has none (worker.rs:1563, 2889).     *)
GaugesExact ==
  LET used(S) == Cardinality({c \in S : pc[c] \notin {"down", "backoff", "gone"}})
  IN /\ stat.active = used(Readers) /\ stat.appendActive = used(Writers)
     /\ \A c \in Conns :
          sockets[c] = IF pc[c] \in {"down", "gone"} THEN 0 ELSE 1

(* A miss taken for backfill is written at most once: it is queued, in     *)
(* flight, answered, or lost to a failed send or connection; the queue     *)
(* keeps its cap although a failed backfill is pushed back (worker.rs:3360,*)
(* 3068).                                                                  *)
BackfillOnce ==
  /\ \A c \in Conns : Len(backfill[c]) <= BackfillCap
  /\ missed.taken = missed.answered + missed.lost
                    + SumOver([c \in Readers |-> Len(backfill[c]) +
                               Len(OfKind(client[c], {"backfill"}))], Readers)

(* After Stop every task ends, unless it waits for the answer to a VERSION *)
(* or PING, which no timeout bounds (worker.rs:2836).                      *)
StopEndsConns == (phase = "Stop") ~> (\A c \in Conns : pc[c] \in {"gone", "version"})

(* Every request has one fate, backfills included (worker.rs:3222, 3360).  *)
RequestsAccounted == SentAccounted /\ BackfillOnce

(* What a task holds is what its client and its socket have, whichever way *)
(* a connection ends (worker.rs:4282, 2889).                               *)
TasksInStep == FlightMatches /\ GaugesExact
=============================================================================
