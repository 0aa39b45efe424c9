---------------------------- MODULE RoutedQueues ----------------------------
(***************************************************************************)
(* One worker of a run with workload.routing = "routed": the RoutedQueues, *)
(* the routed dispatcher that fills them and the connection tasks that     *)
(* drain them (src/src/worker.rs).                                         *)
(*                                                                         *)
(* All of them are tasks of one thread.  A connection task that is polled  *)
(* has the thread until it awaits; `thread` says which one that is while   *)
(* it goes round its loop.  Requests are counted, not told apart.  One     *)
(* step of the dispatcher funds one request: the dispatcher may nap after  *)
(* any of them.  What the limiter grants is up to the environment here     *)
(* (TokenDispatch has the limiter), and backfills are left out.            *)
(***************************************************************************)
EXTENDS Integers, Sequences, FiniteSets, SequencesExt

CONSTANTS
  Nodes,
  Conns,           \* this worker's connection tasks
  NodeOf,          \* the node each serves
  Depth,           \* connection.pipeline_depth
  Batch,           \* effective_batch_size
  QueuePipelines,  \* ROUTED_QUEUE_PIPELINES
  WaiterSlack,     \* what waiters_cap adds to two entries a connection
  MaxMint,         \* bound on the requests the limiter funds
  MaxFaults        \* bound on failed sends and lost connections

ASSUME RoutedAssumption ==
  /\ IsFiniteSet(Conns) /\ NodeOf \in [Conns -> Nodes]
  /\ Depth \in Nat /\ Batch \in 1 .. Depth
  /\ QueuePipelines \in Nat \ {0} /\ WaiterSlack \in Nat \ {0}
  /\ MaxMint \in Nat /\ MaxFaults \in Nat

Free == "free"
ASSUME FreeAssumption == Free \notin Conns

VARIABLES
  phase,    \* SharedState::phase: Warmup (or Running), or Stop
  queued,   \* NodeQueue::requests, by node
  waiters,  \* NodeQueue::waiters: entries [conn, live]
  closed,   \* RoutedQueues::closed
  cpc,      \* where each connection task waits
  pend,     \* client.pending_count()
  dead,     \* the connection was closed and its task has not noticed
  woken,    \* tasks whose waker was called and that were not polled since
  thread,   \* the connection task that is running, or Free
  minted,   \* how many requests were funded
  faults

queues == <<queued, waiters, closed>>
conn   == <<cpc, pend, dead, woken, thread>>
vars   == <<phase, queues, conn, minted, faults>>

ConnsOf(n)    == {c \in Conns : NodeOf[c] = n}
Cap(n)        == Cardinality(ConnsOf(n)) * Depth * QueuePipelines
WaitersCap(n) == Cardinality(ConnsOf(n)) * 2 + WaiterSlack

Init ==
  /\ phase = "Warmup"
  /\ queued = [n \in Nodes |-> 0]
  /\ waiters = [n \in Nodes |-> <<>>] /\ closed = FALSE
  /\ cpc = [c \in Conns |-> "down"]
  /\ pend = [c \in Conns |-> 0] /\ dead = [c \in Conns |-> FALSE]
  /\ woken = {} /\ thread = Free
  /\ minted = 0 /\ faults = 0

Fault == faults < MaxFaults /\ faults' = faults + 1

(* The entries of connection c among ws are dead.                          *)
Kill(ws, c) == [i \in DOMAIN ws |-> [ws[i] EXCEPT !.live = @ /\ ws[i].conn # c]]

HasLive(ws, c) == \E i \in DOMAIN ws : ws[i].conn = c /\ ws[i].live

(* retain: the live entries of ws in their order, the k-th of them at k.   *)
LiveAt(ws)   == {i \in DOMAIN ws : ws[i].live}
Rank(ws, i)  == Cardinality({j \in LiveAt(ws) : j <= i})
Compacted(ws) ==
  [k \in 1 .. Cardinality(LiveAt(ws)) |-> ws[CHOOSE i \in LiveAt(ws) : Rank(ws, i) = k]]

(* Mutant of Register: the list is never compacted.                        *)
RegisterUncompacted(ws, c) ==
  IF HasLive(ws, c) THEN ws ELSE Append(ws, [conn |-> c, live |-> TRUE])

(* NodeWait::poll with nothing queued: a live entry is kept, else one is   *)
(* appended, after a compaction when the list has reached its cap.         *)
Register(ws, c) ==
  IF HasLive(ws, c) THEN ws
  ELSE Append(IF Len(ws) >= WaitersCap(NodeOf[c]) THEN Compacted(ws) ELSE ws,
              [conn |-> c, live |-> TRUE])

-----------------------------------------------------------------------------
(* The dispatcher and the runner                                           *)

(* Where the longest-waiting live entry is, among ws.                      *)
FirstLive(ws) == CHOOSE i \in DOMAIN ws : ws[i].live /\ \A j \in 1 .. i - 1 : ~ws[j].live

(* Mutant of WakeOne: one entry is popped, and if it is dead none is woken. *)
WakeFront(n) ==
  IF waiters[n] = <<>>
  THEN UNCHANGED <<waiters, woken>>
  ELSE /\ woken' = IF Head(waiters[n]).live THEN woken \cup {Head(waiters[n]).conn} ELSE woken
       /\ waiters' = [waiters EXCEPT ![n] = Tail(@)]

(* push pops entries up to the first live one, and wakes it.               *)
WakeOne(n) ==
  IF \E i \in DOMAIN waiters[n] : waiters[n][i].live
  THEN LET i == FirstLive(waiters[n]) IN
       /\ woken' = woken \cup {waiters[n][i].conn}
       /\ waiters' = [waiters EXCEPT ![n] = SubSeq(@, i + 1, Len(@))]
  ELSE waiters' = [waiters EXCEPT ![n] = <<>>] /\ UNCHANGED woken

(* A token funds a request for node n; a full queue drops it.              *)
Mint(n) ==
  /\ thread = Free /\ phase = "Warmup" /\ minted < MaxMint
  /\ minted' = minted + 1
  /\ \/ /\ queued[n] < Cap(n)
        /\ queued' = [queued EXCEPT ![n] = @ + 1]
        /\ WakeOne(n)
     \/ /\ queued[n] >= Cap(n)
        /\ UNCHANGED <<queued, waiters, woken>>
  /\ UNCHANGED <<phase, closed, cpc, pend, dead, thread, faults>>

(* close: every waiting task is woken.                                     *)
Close ==
  /\ closed' = TRUE
  /\ woken' = woken \cup {c \in Conns : HasLive(waiters[NodeOf[c]], c)}
  /\ waiters' = [n \in Nodes |-> <<>>]

DispatcherStops ==
  /\ thread = Free /\ phase = "Stop" /\ ~closed
  /\ Close
  /\ UNCHANGED <<phase, queued, cpc, pend, dead, thread, minted, faults>>

Stop ==
  /\ phase = "Warmup" /\ phase' = "Stop"
  /\ UNCHANGED <<queues, conn, minted, faults>>

-----------------------------------------------------------------------------
(* A connection task                                                       *)

Go(c, p) == cpc' = [cpc EXCEPT ![c] = p]

(* The task is polled and runs on to the top of its loop.                  *)
Resumes(c) == thread' = c /\ woken' = woken \ {c} /\ Go(c, "top")

(* It comes to an await.                                                   *)
Awaits(c, p) == thread' = Free /\ Go(c, p) /\ UNCHANGED woken

(* Mutant of Leave: a wait that is dropped leaves its entry live.          *)
LeaveNothing(c) == UNCHANGED waiters

(* The wait returns, or is dropped: its entry is dead.                     *)
Leave(c) == waiters' = [waiters EXCEPT ![NodeOf[c]] = Kill(@, c)]

(* Mutant of Ready: the poll does not look at `closed`.                    *)
ReadyUnlessClosed(c) == queued[NodeOf[c]] > 0

(* NodeWait::poll is ready.                                                *)
Ready(c) == closed \/ queued[NodeOf[c]] > 0

(* A connection is established, or the run has stopped.                    *)
Connect(c) ==
  /\ thread = Free /\ cpc[c] = "down"
  /\ \/ phase = "Warmup" /\ thread' = c /\ Go(c, "top")
     \/ phase = "Stop" /\ thread' = Free /\ Go(c, "gone")
  /\ dead' = [dead EXCEPT ![c] = FALSE]
  /\ UNCHANGED <<phase, queues, pend, woken, minted, faults>>

Exits(c) ==
  /\ thread = c /\ phase = "Stop"
  /\ thread' = Free /\ Go(c, "gone")
  /\ UNCHANGED <<phase, queues, pend, dead, woken, minted, faults>>

(* Closed while nothing was in flight: reconnect.                          *)
FindsClosed(c) ==
  /\ thread = c /\ phase = "Warmup" /\ pend[c] = 0 /\ dead[c]
  /\ Awaits(c, "down")
  /\ UNCHANGED <<phase, queues, pend, dead, minted, faults>>

Runs(c) == thread = c /\ phase = "Warmup" /\ ~(pend[c] = 0 /\ dead[c])

(* How many requests the fill loop takes.                                  *)
Room(c) == IF Depth - pend[c] >= Batch THEN Depth - pend[c] ELSE 0
Takes(c) == IF Room(c) < queued[NodeOf[c]] THEN Room(c) ELSE queued[NodeOf[c]]

(* The rest of an iteration in which no fire failed, with p requests now   *)
(* in flight and q queued: wait for the queue, for the queue or a reply,   *)
(* or for a reply; a wait that is ready at once goes round again.          *)
WaitOn(c, p, q) ==
  /\ UNCHANGED <<phase, closed, dead>>
  /\ IF p > 0 /\ Depth - p < Batch
     THEN Awaits(c, "recv") /\ UNCHANGED waiters
     ELSE IF closed \/ q > 0
     THEN UNCHANGED <<cpc, thread, woken, waiters>>
     ELSE /\ waiters' = [waiters EXCEPT ![NodeOf[c]] = Register(@, c)]
          /\ Awaits(c, IF p = 0 THEN "park" ELSE "select")

(* Everything taken is fired and flushed.                                  *)
Fill(c) == LET m == Takes(c) IN
  /\ Runs(c)
  /\ queued' = [queued EXCEPT ![NodeOf[c]] = @ - m]
  /\ pend' = [pend EXCEPT ![c] = @ + m]
  /\ WaitOn(c, pend[c] + m, queued[NodeOf[c]] - m)
  /\ UNCHANGED <<minted, faults>>

(* The flush fails: what this iteration fired is dropped by the client.    *)
FlushFails(c) == LET m == Takes(c) IN
  /\ Runs(c) /\ m > 0 /\ Fault
  /\ queued' = [queued EXCEPT ![NodeOf[c]] = @ - m]
  /\ UNCHANGED <<pend, minted>>
  /\ WaitOn(c, pend[c], queued[NodeOf[c]] - m)

(* The m-th fire fails, and the client drops d of the ones before it.  The *)
(* task does not wait on the queue, which may still hold requests: it      *)
(* sleeps, or receives what is in flight.                                  *)
FireFails(c) == \E m \in 1 .. Takes(c) : \E d \in 0 .. m - 1 :
  /\ Runs(c) /\ Fault
  /\ queued' = [queued EXCEPT ![NodeOf[c]] = @ - m]
  /\ pend' = [pend EXCEPT ![c] = @ + m - 1 - d]
  /\ Awaits(c, IF pend'[c] = 0 THEN "nap" ELSE "recv")
  /\ UNCHANGED <<phase, waiters, closed, dead, minted>>

(* IDLE_SLEEP_MIN is over.                                                 *)
NapEnds(c) ==
  /\ thread = Free /\ cpc[c] = "nap"
  /\ Resumes(c)
  /\ UNCHANGED <<phase, queues, pend, dead, minted, faults>>

(* NodeWait::poll, on a wake or by chance: the queue has a request ...     *)
WaitReturns(c) ==
  /\ thread = Free /\ cpc[c] \in {"park", "select"} /\ Ready(c)
  /\ Leave(c) /\ Resumes(c)
  /\ UNCHANGED <<phase, queued, closed, pend, dead, minted, faults>>

(* ... or another task has taken it.                                       *)
WaitsAgain(c) ==
  /\ thread = Free /\ cpc[c] \in {"park", "select"} /\ ~Ready(c)
  /\ waiters' = [waiters EXCEPT ![NodeOf[c]] = Register(@, c)]
  /\ woken' = woken \ {c}
  /\ UNCHANGED <<phase, queued, closed, cpc, pend, dead, thread, minted, faults>>

(* A reply is there while the task waits for either: the queue goes first. *)
ReplyFound(c) ==
  /\ thread = Free /\ cpc[c] = "select"
  /\ Leave(c) /\ Resumes(c)
  /\ pend' = [pend EXCEPT ![c] = IF Ready(c) THEN @ ELSE @ - 1]
  /\ UNCHANGED <<phase, queued, closed, dead, minted, faults>>

Reply(c) ==
  /\ thread = Free /\ cpc[c] = "recv"
  /\ Resumes(c)
  /\ pend' = [pend EXCEPT ![c] = @ - 1]
  /\ UNCHANGED <<phase, queues, dead, minted, faults>>

(* The request timeout, or the end of the connection.                      *)
Lose(c) ==
  /\ thread = Free /\ Fault
  /\ cpc[c] = "recv" \/ (cpc[c] = "select" /\ ~Ready(c))
  /\ Leave(c)
  /\ pend' = [pend EXCEPT ![c] = 0]
  /\ Go(c, "down") /\ woken' = woken \ {c}
  /\ UNCHANGED <<phase, queued, closed, dead, thread, minted>>

(* The server closes a connection with nothing in flight; the parked task  *)
(* does not hear of it.                                                    *)
CloseIdle(c) ==
  /\ cpc[c] = "park" /\ ~dead[c] /\ Fault
  /\ dead' = [dead EXCEPT ![c] = TRUE]
  /\ UNCHANGED <<phase, queues, cpc, pend, woken, thread, minted>>

Polled(c)  == WaitReturns(c) \/ WaitsAgain(c)
Iterates(c) == Exits(c) \/ FindsClosed(c) \/ Fill(c) \/ FlushFails(c) \/ FireFails(c)
Answers(c) == Reply(c) \/ ReplyFound(c)

Next ==
  \/ \E n \in Nodes : Mint(n)
  \/ DispatcherStops \/ Stop
  \/ \E c \in Conns : \/ Connect(c) \/ Iterates(c) \/ NapEnds(c) \/ Polled(c)
                      \/ Answers(c) \/ Lose(c) \/ CloseIdle(c)

Spec == Init /\ [][Next]_vars

(* A task whose waker was called or whose sleep is over is polled although *)
(* others take the thread in between, and a request is answered.  Nothing  *)
(* is assumed of polls by chance.                                          *)
LiveSpec ==
  /\ Spec
  /\ SF_vars(DispatcherStops)
  /\ \A c \in Conns :
       /\ WF_vars(Iterates(c))
       /\ SF_vars(Connect(c) \/ NapEnds(c) \/ Answers(c) \/ (c \in woken /\ Polled(c)))

-----------------------------------------------------------------------------
(* Properties                                                              *)

(* Every variable has its type; a pipeline and a queue keep to their       *)
(* limits, and the dead entries of the waiter lists, which only a push or  *)
(* a compaction removes, never grow them past waiters_cap.                 *)
TypeOK ==
  /\ phase \in {"Warmup", "Stop"} /\ closed \in BOOLEAN
  /\ \A n \in Nodes : queued[n] \in 0 .. Cap(n)
  /\ \A n \in Nodes : /\ waiters[n] \in Seq([conn : ConnsOf(n), live : BOOLEAN])
                      /\ Len(waiters[n]) <= WaitersCap(n)
  /\ cpc \in [Conns -> {"down", "top", "park", "select", "recv", "nap", "gone"}]
  /\ pend \in [Conns -> 0 .. Depth] /\ dead \in [Conns -> BOOLEAN]
  /\ woken \subseteq Conns /\ thread \in Conns \cup {Free}

(* "a push never spends its wake on a task that is no longer waiting", and *)
(* close reaches every task that is: the live entries of a node's list are *)
(* those of the tasks that wait for it and have not been woken, one each,  *)
(* and the dead ones never grow a list past waiters_cap (in TypeOK).       *)
WaitersExact ==
  TypeOK /\ \A c \in Conns :
    Cardinality({i \in DOMAIN waiters[NodeOf[c]] :
                   waiters[NodeOf[c]][i] = [conn |-> c, live |-> TRUE]})
      = IF cpc[c] \in {"park", "select"} /\ c \notin woken THEN 1 ELSE 0

(* A connection that will look at its node's queue without a further push. *)
Attends(c) == c \in woken \/ cpc[c] \notin {"park", "select", "gone"}

(* No request is stranded: while one is queued, a connection to its node   *)
(* is on its way to the queue; the wake of a push is not lost when another *)
(* task takes the request, a send fails or the woken connection turns out  *)
(* to be closed.                                                           *)
NoStrandedRequest ==
  \A n \in Nodes : queued[n] > 0 /\ phase = "Warmup" => \E c \in ConnsOf(n) : Attends(c)

(* A stop ends every connection task, the untimed waits included.          *)
StopEndsTasks == (phase = "Stop") ~> (\A c \in Conns : cpc[c] = "gone")
=============================================================================
