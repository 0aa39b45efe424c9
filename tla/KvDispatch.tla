------------------------------ MODULE KvDispatch ------------------------------
(***************************************************************************)
(* The KV-cache trace replay of src/src/kvreplay.rs: a reader thread that  *)
(* feeds a bounded channel of requests, one dispatcher task per worker     *)
(* that claims a request once a connection asks for one and holds it until *)
(* it is due, connections that hand a request back when they find          *)
(* themselves closed, and the runner that ends the run when every request  *)
(* has finished.                                                           *)
(*                                                                         *)
(* The dispatcher and the connections of a worker share a thread: `thread` *)
(* says which of them is between two awaits. Workers, reader and runner    *)
(* are threads of their own. A request is named by its place in the trace; *)
(* request r is due once `clock` has reached r (at once in closed loop).   *)
(* The connect_failures kept with a handed-back request are only ever      *)
(* compared with the current count, so they are here the one fact whether  *)
(* a connect failed since.                                                 *)
(***************************************************************************)
EXTENDS Naturals, Sequences, FiniteSets

CONSTANTS
  NReqs,      \* requests in the trace
  Workers,
  Conns,
  WorkerOf,   \* the worker each connection belongs to
  ReadAhead   \* READ_AHEAD: capacity of the channel

Reqs == 1..NReqs
None == 0     \* no request

ASSUME KvAssumption ==
  /\ NReqs \in Nat \ {0} /\ ReadAhead \in Nat \ {0}
  /\ IsFiniteSet(Workers) /\ IsFiniteSet(Conns) /\ Conns \cap Workers = {}
  /\ "none" \notin Conns \cup Workers
  /\ WorkerOf \in [Conns -> Workers]

VARIABLES
  \* the reader thread
  next,      \* the next request of the trace
  rd,        \* "read", "send", "stop" (`stopped` is set) or "gone" (tx dropped)
  err,       \* ReaderState::error is set
  counted,   \* ReaderState::sent
  \* shared
  chan,      \* KvReplay::requests
  finished,  \* KvReplay::finished
  clock,     \* time: the last request that is due
  \* each worker
  thread,    \* "none", the connection it polls, or the worker: its dispatcher
  dpc,       \* where the dispatcher waits: "poll", "wait", "exited"
  pending,   \* its claimed request, not handed to a connection yet
  exhausted, \* it saw the channel disconnected
  waiting,   \* KvDispatcher::waiting, a slot named by its connection
  returned,  \* KvDispatcher::returned
  closed,    \* KvDispatcher::closed
  wants,     \* KvDispatcher::wants_slot, and needs_slot while it waits
  idle,      \* KvDispatcher::idle holds its waker
  timer,     \* its sleep: "off", "armed", "fired"
  woken,     \* its waker was called and it was not polled since
  \* each connection
  cpc,       \* "down", "top", "wait", "nap", "lookup", "ops", "exited"
  alive,     \* client.is_alive()
  ran,       \* ran_any
  slot,      \* its last KvSlot, and then the job it runs
  \* each request
  retried,   \* KvJob::retried
  dead,      \* KvJob::dead_handovers
  \* the runner
  phase,     \* "Wait" (the clock is not started), "Run", "Stop"
  watch,     \* how far is_finished has read: "idle", "stopped", "done"
  seen,      \* the value of `finished` it read
  over,      \* it found the replay finished
  \* history
  settled,   \* requests mark_finished was called for
  stores     \* how many runs of a request went past its lookup

readerVars == <<next, rd, err, counted>>
dispVars   == <<dpc, pending, exhausted, closed, timer>>
wakeVars   == <<wants, idle, woken>>
connVars   == <<cpc, alive, ran>>
jobVars    == <<retried, dead>>
runnerVars == <<phase, watch, seen, over>>
doneVars   == <<finished, settled>>
vars == <<readerVars, chan, doneVars, clock, thread, dispVars, waiting, returned,
          wakeVars, connVars, slot, jobVars, runnerVars, stores>>

NoSlot == [done |-> FALSE, job |-> None]
ConnsOf(w) == {c \in Conns : WorkerOf[c] = w}
Least(a, b) == IF a < b THEN a ELSE b

(* Live: the connections in the replay loop.                               *)
Live(w) == {c \in ConnsOf(w) : cpc[c] \notin {"down", "exited"}}
Due(r) == r <= clock

(* A dispatcher that could not be spawned leaves its queue closed.         *)
Init ==
  /\ next = 1 /\ rd = "read" /\ err = FALSE /\ counted = 0
  /\ chan = <<>> /\ finished = 0 /\ settled = {}
  /\ clock \in {0, NReqs}     \* open loop, closed loop
  /\ thread = [w \in Workers |-> "none"]
  /\ closed \in [Workers -> BOOLEAN]
  /\ dpc = [w \in Workers |-> IF closed[w] THEN "exited" ELSE "poll"]
  /\ timer = [w \in Workers |-> IF closed[w] THEN "off" ELSE "fired"]
  /\ pending = [w \in Workers |-> None] /\ exhausted = [w \in Workers |-> FALSE]
  /\ waiting = [w \in Workers |-> <<>>] /\ returned = [w \in Workers |-> <<>>]
  /\ wants = [w \in Workers |-> FALSE] /\ idle = [w \in Workers |-> FALSE]
  /\ woken = [w \in Workers |-> FALSE]
  /\ cpc = [c \in Conns |-> "down"] /\ alive = [c \in Conns |-> FALSE]
  /\ ran = [c \in Conns |-> FALSE] /\ slot = [c \in Conns |-> NoSlot]
  /\ retried = [r \in Reqs |-> FALSE] /\ dead = [r \in Reqs |-> 0]
  /\ phase = "Wait" /\ watch = "idle" /\ seen = 0 /\ over = FALSE
  /\ stores = [r \in Reqs |-> 0]

-----------------------------------------------------------------------------
(* The reader thread and the clock.                                        *)

readerOnly == <<doneVars, thread, dispVars, waiting, returned, wakeVars, connVars,
                slot, jobVars, runnerVars, stores>>

CountRequest ==
  /\ rd = "read" /\ next <= NReqs
  /\ counted' = counted + 1 /\ rd' = "send"
  /\ UNCHANGED <<next, err, chan, clock, readerOnly>>

SendRequest ==
  /\ rd = "send" /\ Len(chan) < ReadAhead
  /\ chan' = Append(chan, next) /\ next' = next + 1 /\ rd' = "read"
  /\ UNCHANGED <<err, counted, clock, readerOnly>>

(* The end of the trace, or an error after its first request.              *)
ReaderStops ==
  /\ \/ rd = "read" /\ next > NReqs /\ rd' = "stop" /\ err' = err
     \/ rd = "read" /\ next \in 2..NReqs /\ rd' = "stop" /\ err' = TRUE
     \/ rd = "stop" /\ rd' = "gone" /\ err' = err
  /\ UNCHANGED <<next, counted, chan, clock, readerOnly>>

Reader == CountRequest \/ SendRequest \/ ReaderStops
stopped == rd \in {"stop", "gone"}

Tick ==
  /\ phase # "Wait" /\ clock < NReqs
  /\ clock' = clock + 1
  /\ UNCHANGED <<readerVars, chan, readerOnly>>

-----------------------------------------------------------------------------
(* The runner.                                                             *)

runnerOnly == <<readerVars, chan, doneVars, clock, thread, dispVars, waiting, returned,
                wakeVars, connVars, slot, jobVars, stores>>

(* wait_read_ahead; a read error it already knows of ends the run.         *)
StartReplay ==
  /\ phase = "Wait" /\ (stopped \/ Len(chan) = ReadAhead)
  /\ phase' = IF err THEN "Stop" ELSE "Run"
  /\ UNCHANGED <<watch, seen, over, runnerOnly>>

LoadNothing ==   \* a bug: is_finished does not look at `stopped`
  /\ phase = "Run" /\ watch = "idle"
  /\ watch' = "stopped"
  /\ UNCHANGED <<phase, seen, over, runnerOnly>>

(* is_finished: its three loads, in order.                                 *)
LoadStopped ==
  /\ phase = "Run" /\ watch = "idle" /\ stopped
  /\ watch' = "stopped"
  /\ UNCHANGED <<phase, seen, over, runnerOnly>>

LoadFinished ==
  /\ watch = "stopped"
  /\ watch' = "done" /\ seen' = finished
  /\ UNCHANGED <<phase, over, runnerOnly>>

LoadSent ==
  /\ watch = "done"
  /\ watch' = "idle" /\ seen' = 0
  /\ over' = (seen >= counted)
  /\ phase' = IF over' THEN "Stop" ELSE phase
  /\ UNCHANGED runnerOnly

(* The duration is over, or a signal arrived.                              *)
StopEarly ==
  /\ phase # "Stop" /\ watch = "idle"
  /\ phase' = "Stop"
  /\ UNCHANGED <<watch, seen, over, runnerOnly>>

Runner == StartReplay \/ LoadStopped \/ LoadFinished \/ LoadSent \/ StopEarly

-----------------------------------------------------------------------------
(* The dispatcher task: run_dispatcher. An iteration of its loop runs with *)
(* thread[w] = w.                                                          *)

dispOnly == <<readerVars, clock, connVars, jobVars, runnerVars, stores>>

MayRun(w) == thread[w] = w /\ phase = "Run"

(* KvSlot::complete of the connection that has waited longest.             *)
HandTo(w, job) ==
  /\ slot' = [slot EXCEPT ![Head(waiting[w])] = [done |-> TRUE, job |-> job]]
  /\ waiting' = [waiting EXCEPT ![w] = Tail(@)]

CloseForgetsWaiters(w) ==   \* a bug: the waiting connections are not released
  /\ closed' = [closed EXCEPT ![w] = TRUE]
  /\ waiting' = [waiting EXCEPT ![w] = <<>>]
  /\ slot' = slot

Close(w) ==
  /\ closed' = [closed EXCEPT ![w] = TRUE]
  /\ waiting' = [waiting EXCEPT ![w] = <<>>]
  /\ slot' = [c \in Conns |-> IF \E i \in 1..Len(waiting[w]) : waiting[w][i] = c
                              THEN [done |-> TRUE, job |-> None] ELSE slot[c]]

DispatcherStops(w) ==
  /\ thread[w] = w /\ phase = "Stop"
  /\ Close(w)
  /\ dpc' = [dpc EXCEPT ![w] = "exited"]
  /\ thread' = [thread EXCEPT ![w] = "none"]
  /\ UNCHANGED <<dispOnly, chan, doneVars, pending, exhausted, timer, returned, wakeVars>>

(* The clock has not started: a short sleep that nothing else ends.        *)
AwaitStart(w) ==
  /\ thread[w] = w /\ phase = "Wait"
  /\ dpc' = [dpc EXCEPT ![w] = "poll"] /\ timer' = [timer EXCEPT ![w] = "armed"]
  /\ thread' = [thread EXCEPT ![w] = "none"]
  /\ UNCHANGED <<dispOnly, chan, doneVars, pending, exhausted, closed, waiting, slot,
                 returned, wakeVars>>

ServeReturned(w) ==
  /\ MayRun(w) /\ waiting[w] # <<>> /\ returned[w] # <<>>
  /\ HandTo(w, Head(returned[w]).req)
  /\ returned' = [returned EXCEPT ![w] = Tail(@)]
  /\ UNCHANGED <<dispOnly, chan, doneVars, thread, dispVars, wakeVars>>

(* The channel is empty and its sender dropped, or it has a request.       *)
Claim(w) ==
  /\ MayRun(w) /\ waiting[w] # <<>> /\ returned[w] = <<>>
  /\ pending[w] = None /\ ~exhausted[w]
  /\ IF chan = <<>>
     THEN /\ rd = "gone"
          /\ exhausted' = [exhausted EXCEPT ![w] = TRUE]
          /\ UNCHANGED <<pending, chan>>
     ELSE /\ pending' = [pending EXCEPT ![w] = Head(chan)]
          /\ chan' = Tail(chan)
          /\ UNCHANGED exhausted
  /\ UNCHANGED <<dispOnly, doneVars, thread, dpc, closed, timer, waiting, slot, returned,
                 wakeVars>>

HandOut(w) ==
  /\ MayRun(w) /\ waiting[w] # <<>> /\ returned[w] = <<>>
  /\ pending[w] # None /\ Due(pending[w])
  /\ HandTo(w, pending[w])
  /\ pending' = [pending EXCEPT ![w] = None]
  /\ UNCHANGED <<dispOnly, chan, doneVars, thread, dpc, exhausted, closed, timer, returned,
                 wakeVars>>

(* With no live connection, a held request that is due joins the           *)
(* handed-back ones, and those at the front that a connect has failed      *)
(* since are failed.                                                       *)
Stranded(w) == Live(w) = {}
Joins(w) == Stranded(w) /\ pending[w] # None /\ Due(pending[w])
Queue(w) == IF Joins(w) THEN Append(returned[w], [req |-> pending[w], failed |-> FALSE])
            ELSE returned[w]
FailedFront(w) ==
  {i \in 1..Len(Queue(w)) : Stranded(w) /\ \A j \in 1..i : Queue(w)[j].failed}

MarkFinished(rs) ==
  /\ finished' = finished + Cardinality(rs)
  /\ settled' = settled \cup rs

StrandedUnfailed(w) ==   \* a bug: handed-back requests wait for a connection for good
  /\ UNCHANGED doneVars
  /\ returned' = [returned EXCEPT ![w] = Queue(w)]
  /\ pending' = [pending EXCEPT ![w] = IF Joins(w) THEN None ELSE @]

StrandedKeepsHeld(w) ==   \* a bug: the held request joins the queue and stays held
  /\ MarkFinished({Queue(w)[i].req : i \in FailedFront(w)})
  /\ returned' = [returned EXCEPT ![w] =
                    SubSeq(Queue(w), Cardinality(FailedFront(w)) + 1, Len(Queue(w)))]
  /\ pending' = pending

StrandedRules(w) ==
  /\ MarkFinished({Queue(w)[i].req : i \in FailedFront(w)})
  /\ returned' = [returned EXCEPT ![w] =
                    SubSeq(Queue(w), Cardinality(FailedFront(w)) + 1, Len(Queue(w)))]
  /\ pending' = [pending EXCEPT ![w] = IF Joins(w) THEN None ELSE @]

(* Nothing to hand out: the dispatcher waits for its timer, for a          *)
(* connection if it needs one now, or for a request handed back.           *)
DispatcherWaits(w) ==
  /\ MayRun(w)
  /\ waiting[w] # <<>> =>
       /\ returned[w] = <<>>
       /\ IF pending[w] = None THEN exhausted[w] \/ (chan = <<>> /\ rd # "gone")
                               ELSE ~Due(pending[w])
  /\ StrandedRules(w)
  /\ wants' = [wants EXCEPT ![w] =
                 /\ waiting[w] = <<>>
                 /\ \/ pending'[w] # None /\ Due(pending'[w])
                    \/ returned'[w] # <<>>
                    \/ pending'[w] = None /\ ~exhausted[w]]
  /\ idle' = [idle EXCEPT ![w] = TRUE] /\ woken' = [woken EXCEPT ![w] = FALSE]
  /\ dpc' = [dpc EXCEPT ![w] = "wait"] /\ timer' = [timer EXCEPT ![w] = "armed"]
  /\ thread' = [thread EXCEPT ![w] = "none"]
  /\ UNCHANGED <<dispOnly, chan, exhausted, closed, waiting, slot>>

TimerFires(w) ==
  /\ timer[w] = "armed"
  /\ timer' = [timer EXCEPT ![w] = "fired"] /\ woken' = [woken EXCEPT ![w] = TRUE]
  /\ UNCHANGED <<dispOnly, chan, doneVars, thread, dpc, pending, exhausted, closed,
                 waiting, slot, returned, wants, idle>>

WaitOver(w) ==
  \/ timer[w] = "fired"
  \/ dpc[w] = "wait" /\ waiting[w] # <<>> /\ (returned[w] # <<>> \/ wants[w])

DispatcherResumes(w) ==
  /\ thread[w] = "none" /\ dpc[w] \in {"poll", "wait"}
  /\ woken[w] \/ timer[w] = "fired"
  /\ WaitOver(w)
  /\ thread' = [thread EXCEPT ![w] = w]
  /\ wants' = [wants EXCEPT ![w] = FALSE] /\ idle' = [idle EXCEPT ![w] = FALSE]
  /\ woken' = [woken EXCEPT ![w] = FALSE] /\ timer' = [timer EXCEPT ![w] = "off"]
  /\ UNCHANGED <<dispOnly, chan, doneVars, dpc, pending, exhausted, closed, waiting, slot,
                 returned>>

(* Woken with nothing to do yet: it leaves its waker again.                *)
DispatcherRewaits(w) ==
  /\ thread[w] = "none" /\ dpc[w] = "wait" /\ woken[w] /\ ~WaitOver(w)
  /\ idle' = [idle EXCEPT ![w] = TRUE] /\ woken' = [woken EXCEPT ![w] = FALSE]
  /\ UNCHANGED <<dispOnly, chan, doneVars, thread, dispVars, waiting, slot, returned, wants>>

Dispatcher(w) ==
  \/ DispatcherStops(w) \/ AwaitStart(w) \/ ServeReturned(w) \/ Claim(w) \/ HandOut(w)
  \/ DispatcherWaits(w) \/ DispatcherResumes(w) \/ DispatcherRewaits(w)

-----------------------------------------------------------------------------
(* A connection's task: resp_connection_task around `drive`.               *)

connOnly == <<readerVars, chan, clock, dispVars, runnerVars>>

(* The dispatcher's waker, taken and called.                               *)
WakeDispatcher(w) ==
  /\ idle' = [idle EXCEPT ![w] = FALSE]
  /\ woken' = [woken EXCEPT ![w] = @ \/ idle[w]]

(* note_connect_failed.                                                    *)
ConnectFailed(w) ==
  returned' = [returned EXCEPT ![w] =
                 [i \in DOMAIN @ |-> [req |-> @[i].req, failed |-> TRUE]]]

Connect(c) ==
  LET w == WorkerOf[c]
  IN  /\ thread[w] = "none" /\ cpc[c] = "down" /\ phase # "Stop"
      /\ thread' = [thread EXCEPT ![w] = c]
      /\ cpc' = [cpc EXCEPT ![c] = "top"]
      /\ alive' = [alive EXCEPT ![c] = TRUE] /\ ran' = [ran EXCEPT ![c] = FALSE]
      /\ UNCHANGED <<connOnly, doneVars, waiting, returned, wakeVars, slot, jobVars, stores>>

ConnectFails(c) ==
  LET w == WorkerOf[c]
  IN  /\ thread[w] = "none" /\ cpc[c] = "down" /\ phase # "Stop"
      /\ ConnectFailed(w)
      /\ UNCHANGED <<connOnly, doneVars, thread, waiting, wakeVars, connVars, slot, jobVars,
                     stores>>

(* The server, or the network, closes the connection. In the middle of a   *)
(* request that is the outcome of the request's run, below.                *)
Dies(c) ==
  /\ alive[c] /\ cpc[c] \in {"top", "wait"}
  /\ alive' = [alive EXCEPT ![c] = FALSE]
  /\ UNCHANGED <<connOnly, doneVars, thread, waiting, returned, wakeVars, cpc, ran, slot,
                 jobVars, stores>>

Leaves(c, to) ==
  /\ cpc' = [cpc EXCEPT ![c] = to]
  /\ alive' = [alive EXCEPT ![c] = FALSE] /\ ran' = [ran EXCEPT ![c] = FALSE]
  /\ slot' = [slot EXCEPT ![c] = NoSlot]
  /\ thread' = [thread EXCEPT ![WorkerOf[c]] = "none"]

(* The top of the loop of `drive`: a stop, a connection closed meanwhile,  *)
(* or the next request asked for.                                          *)
TopLeaves(c) ==
  LET w == WorkerOf[c]
  IN  /\ thread[w] = c /\ cpc[c] = "top"
      /\ \/ phase = "Stop" /\ Leaves(c, "exited") /\ UNCHANGED returned
         \/ /\ phase # "Stop" /\ ~alive[c] /\ Leaves(c, "down")
            /\ IF ran[c] THEN UNCHANGED returned ELSE ConnectFailed(w)
      /\ UNCHANGED <<connOnly, doneVars, waiting, wakeVars, jobVars, stores>>

NextJob(c) ==
  LET w == WorkerOf[c]
  IN  /\ thread[w] = c /\ cpc[c] = "top" /\ phase # "Stop" /\ alive[c]
      /\ thread' = [thread EXCEPT ![w] = "none"]
      /\ IF closed[w]
         THEN cpc' = [cpc EXCEPT ![c] = "nap"] /\ UNCHANGED <<waiting, slot, idle, woken>>
         ELSE /\ cpc' = [cpc EXCEPT ![c] = "wait"]
              /\ slot' = [slot EXCEPT ![c] = NoSlot]
              /\ waiting' = [waiting EXCEPT ![w] = Append(@, c)]
              /\ IF wants[w] THEN WakeDispatcher(w) ELSE UNCHANGED <<idle, woken>>
      /\ UNCHANGED <<connOnly, doneVars, returned, wants, alive, ran, jobVars, stores>>

(* Released without a job: the run stopped, or there is no dispatcher.     *)
Released(c) ==
  LET w == WorkerOf[c]
  IN  /\ thread[w] = "none"
      /\ \/ cpc[c] = "wait" /\ slot[c].done /\ slot[c].job = None
         \/ cpc[c] = "nap"
      /\ thread' = [thread EXCEPT ![w] = c] /\ cpc' = [cpc EXCEPT ![c] = "top"]
      /\ UNCHANGED <<connOnly, doneVars, waiting, returned, wakeVars, alive, ran, slot,
                     jobVars, stores>>

GetsJob(c) ==
  LET w == WorkerOf[c]
  IN  /\ thread[w] = "none" /\ cpc[c] = "wait" /\ slot[c].job # None /\ alive[c]
      /\ cpc' = [cpc EXCEPT ![c] = "lookup"] /\ ran' = [ran EXCEPT ![c] = TRUE]
      /\ UNCHANGED <<connOnly, doneVars, thread, waiting, returned, wakeVars, alive, slot,
                     jobVars, stores>>

MayAlwaysGiveBack(c, r, why) == TRUE   \* a bug: hand-backs are not bounded

(* give_back: false once the request has used up this kind of hand-back.   *)
MayGiveBack(c, r, why) ==
  IF why = "Unsent" THEN dead[r] < Cardinality(ConnsOf(WorkerOf[c])) ELSE ~retried[r]

GiveBack(w, r, why) ==
  /\ dead' = IF why = "Unsent" THEN [dead EXCEPT ![r] = @ + 1] ELSE dead
  /\ retried' = IF why = "LookupSent" THEN [retried EXCEPT ![r] = TRUE] ELSE retried
  /\ returned' = [returned EXCEPT ![w] = Append(@, [req |-> r, failed |-> FALSE])]
  /\ WakeDispatcher(w)

GiveBackOrFail(c, why) ==
  LET r == slot[c].job
  IN  IF MayGiveBack(c, r, why)
      THEN GiveBack(WorkerOf[c], r, why) /\ UNCHANGED doneVars
      ELSE MarkFinished({r}) /\ UNCHANGED <<returned, idle, woken, jobVars>>

(* The connection closed while it waited for the request it now gets.      *)
GetsJobDead(c) ==
  /\ thread[WorkerOf[c]] = "none" /\ cpc[c] = "wait" /\ slot[c].job # None /\ ~alive[c]
  /\ GiveBackOrFail(c, "Unsent")
  /\ Leaves(c, "down")
  /\ UNCHANGED <<connOnly, waiting, wants, stores>>

OpsHandedBack(c) ==   \* a bug: handed back although its SETs may have been applied
  /\ thread[WorkerOf[c]] = "none" /\ cpc[c] \in {"lookup", "ops"}
  /\ GiveBackOrFail(c, "LookupSent")
  /\ Leaves(c, "down")
  /\ UNCHANGED <<connOnly, waiting, wants, stores>>

(* run_request: the connection closes before the lookup is answered.       *)
LookupClosed(c) ==
  /\ thread[WorkerOf[c]] = "none" /\ cpc[c] = "lookup"
  /\ GiveBackOrFail(c, "LookupSent")
  /\ Leaves(c, "down")
  /\ UNCHANGED <<connOnly, waiting, wants, stores>>

(* The lookup is answered: the request's GETs and SETs follow.             *)
LookupAnswered(c) ==
  /\ thread[WorkerOf[c]] = "none" /\ cpc[c] = "lookup"
  /\ cpc' = [cpc EXCEPT ![c] = "ops"]
  /\ stores' = [stores EXCEPT ![slot[c].job] = @ + 1]
  /\ UNCHANGED <<connOnly, doneVars, thread, waiting, returned, wakeVars, alive, ran, slot,
                 jobVars>>

(* The connection fails later on, by a send, a receive or the timeout.     *)
RunDisconnects(c) ==
  /\ thread[WorkerOf[c]] = "none" /\ cpc[c] \in {"lookup", "ops"}
  /\ MarkFinished({slot[c].job})
  /\ Leaves(c, "down")
  /\ UNCHANGED <<connOnly, waiting, returned, wakeVars, jobVars, stores>>

(* The request is done, or refused: nothing to look up, a lookup that      *)
(* could not be sent or was answered with an error, or all of it answered. *)
RunEnds(c) ==
  LET w == WorkerOf[c]
  IN  /\ thread[w] = "none" /\ cpc[c] \in {"lookup", "ops"}
      /\ MarkFinished({slot[c].job})
      /\ thread' = [thread EXCEPT ![w] = c]
      /\ cpc' = [cpc EXCEPT ![c] = "top"]
      /\ slot' = [slot EXCEPT ![c] = NoSlot]
      /\ UNCHANGED <<connOnly, waiting, returned, wakeVars, alive, ran, jobVars, stores>>

Exit(c) ==
  /\ thread[WorkerOf[c]] = "none" /\ cpc[c] = "down" /\ phase = "Stop"
  /\ Leaves(c, "exited")
  /\ UNCHANGED <<connOnly, doneVars, waiting, returned, wakeVars, jobVars, stores>>

Connection(c) ==
  \/ Connect(c) \/ ConnectFails(c) \/ TopLeaves(c) \/ NextJob(c) \/ Released(c)
  \/ GetsJob(c) \/ GetsJobDead(c) \/ LookupClosed(c) \/ LookupAnswered(c)
  \/ RunDisconnects(c) \/ RunEnds(c) \/ Exit(c)

-----------------------------------------------------------------------------
(* Every task has returned.                                                *)
Ended == /\ \A c \in Conns : cpc[c] = "exited"
         /\ \A w \in Workers : dpc[w] = "exited"
         /\ UNCHANGED vars

Next ==
  \/ Reader \/ Tick \/ Runner \/ Ended
  \/ \E w \in Workers : Dispatcher(w) \/ TimerFires(w)
  \/ \E c \in Conns : Connection(c) \/ Dies(c)

Spec == Init /\ [][Next]_vars

(* Time passes, timers fire, connects succeed or fail, and a request in    *)
(* flight is answered or times out. No connect needs ever to succeed. The  *)
(* executor polls each task that stays ready, although others run first.   *)
Fairness ==
  /\ WF_vars(Tick)
  /\ \A w \in Workers : SF_vars(Dispatcher(w)) /\ WF_vars(TimerFires(w))
  /\ \A c \in Conns : SF_vars(Connection(c))

LiveSpec == Spec /\ Fairness

-----------------------------------------------------------------------------
(* Every variable keeps its type; the channel holds at most READ_AHEAD     *)
(* requests, and a request is handed back unsent at most once per          *)
(* connection of a worker.                                                 *)
TypeOK ==
  /\ next \in 1..(NReqs + 1) /\ rd \in {"read", "send", "stop", "gone"} /\ err \in BOOLEAN
  /\ counted \in 0..NReqs /\ chan \in Seq(Reqs) /\ Len(chan) <= ReadAhead
  /\ finished \in Nat /\ clock \in 0..NReqs /\ settled \subseteq Reqs
  /\ thread \in [Workers -> {"none"} \cup Workers \cup Conns]
  /\ dpc \in [Workers -> {"poll", "wait", "exited"}]
  /\ pending \in [Workers -> Reqs \cup {None}] /\ exhausted \in [Workers -> BOOLEAN]
  /\ waiting \in [Workers -> Seq(Conns)]
  /\ returned \in [Workers -> Seq([req : Reqs, failed : BOOLEAN])]
  /\ closed \in [Workers -> BOOLEAN] /\ wants \in [Workers -> BOOLEAN]
  /\ idle \in [Workers -> BOOLEAN] /\ woken \in [Workers -> BOOLEAN]
  /\ timer \in [Workers -> {"off", "armed", "fired"}]
  /\ cpc \in [Conns -> {"down", "top", "wait", "nap", "lookup", "ops", "exited"}]
  /\ alive \in [Conns -> BOOLEAN] /\ ran \in [Conns -> BOOLEAN]
  /\ slot \in [Conns -> [done : BOOLEAN, job : Reqs \cup {None}]]
  /\ retried \in [Reqs -> BOOLEAN] /\ dead \in [Reqs -> 0..Cardinality(Conns)]
  /\ phase \in {"Wait", "Run", "Stop"} /\ watch \in {"idle", "stopped", "done"}
  /\ seen \in Nat /\ over \in BOOLEAN /\ stores \in [Reqs -> Nat]

(* Where request r is, before it is settled: one element each place.       *)
AtReader(r)  == IF rd = "send" /\ next = r THEN {<<"reader">>} ELSE {}
AtChannel(r) == {<<"channel", i>> : i \in {j \in 1..Len(chan) : chan[j] = r}}
AtPending(r) == {<<"pending", w>> : w \in {v \in Workers : pending[v] = r}}
AtReturned(r) ==
  UNION {{<<"returned", w, i>> : i \in {j \in 1..Len(returned[w]) : returned[w][j].req = r}}
           : w \in Workers}
AtConn(r) == {<<"conn", c>> : c \in {d \in Conns : slot[d].job = r}}

Open(r) == AtReader(r) \cup AtChannel(r) \cup AtPending(r) \cup AtReturned(r) \cup AtConn(r)

(* A request the reader has taken up is never lost and never runs twice at *)
(* once: it is in one place, or it is finished, and not both (next_job,    *)
(* give_back, the held request that joins the handed-back ones). It was    *)
(* counted by mark_finished once, whichever of connection and dispatcher   *)
(* called it.                                                              *)
RequestsConserved ==
  /\ finished = Cardinality(settled)
  /\ \A r \in Reqs :
       IF r < next \/ (r = next /\ rd = "send")
       THEN Cardinality(Open(r)) = (IF r \in settled THEN 0 ELSE 1)
       ELSE Open(r) = {} /\ r \notin settled

(* When the runner finds the replay finished, no request is left: the      *)
(* three counters are read while reader and workers run.                   *)
FinishedMeansAll == over => stopped /\ \A r \in Reqs : Open(r) = {}

(* A request whose SETs the server may have applied is not run again: only *)
(* one run of it gets past its lookup (Failure::Closed).                   *)
StoredOnce == \A r \in Reqs : stores[r] <= 1

(* A connection that waits, untimed, is in its worker's queue and the      *)
(* dispatcher that serves the queue is not gone, or it has been released   *)
(* (next_job, close; `closed` is sticky for this).                         *)
NobodyForgotten ==
  \A c \in Conns : cpc[c] = "wait" /\ ~slot[c].done =>
    /\ dpc[WorkerOf[c]] # "exited"
    /\ Cardinality({i \in 1..Len(waiting[WorkerOf[c]]) : waiting[WorkerOf[c]][i] = c}) = 1

(* A request a worker has claimed finishes unless the run stops, even if   *)
(* the server never accepts another connection: hand-backs are bounded and *)
(* a stranded worker fails what was handed back (note_connect_failed).     *)
(* It takes a connect attempt to end, which the code bounds up to HELLO:   *)
(* the wait for HELLO's answer has no timeout (worker.rs:1771).            *)
Claimed(r) == \E w \in Workers : pending[w] = r
ClaimedFinishes == \A r \in Reqs : Claimed(r) ~> (r \in settled \/ phase = "Stop")

(* What the dispatcher owes the trace at every moment: a request is in one *)
(* place or finished once, its SETs are not repeated, the bounds on        *)
(* hand-backs and read-ahead hold, and "finished" means that no request is *)
(* left (kvreplay.rs:242, 610, 963).                                       *)
RequestsSound == TypeOK /\ RequestsConserved /\ StoredOnce /\ FinishedMeansAll
=============================================================================
