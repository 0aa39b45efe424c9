---------------------------- MODULE TokenDispatch ----------------------------
(***************************************************************************)
(* One worker's rate-limited traffic: the WorkerLimiter (src/src/limiters.rs),*)
(* the TokenDispatcher and its task (src/src/worker.rs), the worker's      *)
(* connection tasks as far as they spend tokens, and the runner's restart  *)
(* of the limiter as traffic begins.                                       *)
(*                                                                         *)
(* The dispatcher task and the connection tasks of a worker run on one     *)
(* thread, so a poll of one is not interleaved with a poll of another; the *)
(* runner's thread and the passage of time interleave with all of them.    *)
(* The phases Connect, Precheck and Prefill are the one phase "Prefill"    *)
(* here (no token is asked for in any of them), and Warmup and Running are *)
(* the one phase "Warmup" (the same code runs in both).                    *)
(***************************************************************************)
EXTENDS Integers, Sequences, FiniteSets

CONSTANTS
  Conns,    \* the connection tasks of this worker
  Batch,    \* connection.batch_size: the requests a claim asks for
  Depth,    \* connection.pipeline_depth
  SUB,      \* limiter units per request
  Burst,    \* the limiter's cap in requests, before its stagger
  Stagger,  \* what the limiter starts with, in sub-units
  MaxMint   \* bound on the sub-units that accrue before, and after, restart

Disp == "dispatcher"   \* the dispatcher task, as a member of `woken`

(* WorkerLimiters::new: at least one claim fits under the cap, and the     *)
(* stagger of the last worker is below one claim.                          *)
ASSUME TokenAssumption ==
  /\ IsFiniteSet(Conns) /\ Disp \notin Conns
  /\ Batch \in Nat \ {0} /\ Depth \in Nat /\ Depth >= Batch
  /\ SUB \in Nat \ {0} /\ Burst \in Nat /\ Burst >= Batch
  /\ Stagger \in Nat /\ Stagger < Batch * SUB
  /\ MaxMint \in Nat

VARIABLES
  phase,    \* SharedState::phase
  rpc,      \* how far the runner is with restart and set_phase(Warmup)
  cap,      \* the limiter's max_tokens, in sub-units
  avail,    \* the sub-units it holds as of its last refill
  owed,     \* what has accrued since that refill
  minted,   \* history: what has accrued since restart
  fired,    \* history: requests sent in Warmup
  queue,    \* TokenDispatcher::queue, a claim named by its connection
  closed,   \* TokenDispatcher::closed
  idle,     \* TokenDispatcher::idle holds the dispatcher's waker
  slot,     \* each connection's last TokenSlot
  cpc,      \* where each connection task waits (down: between connections)
  pend,     \* client.pending_count()
  dpc,      \* where the dispatcher task is
  timer,    \* the dispatcher's sleep
  woken     \* tasks whose waker was called and that were not polled since

limiterVars == <<cap, avail, owed>>
historyVars == <<minted, fired>>
connVars    == <<slot, cpc, pend>>
dispVars    == <<queue, closed, idle, dpc, timer>>
vars == <<phase, rpc, limiterVars, historyVars, connVars, dispVars, woken>>

FullCap == Burst * SUB + Stagger

NoSlot     == [done |-> FALSE, granted |-> 0, waker |-> FALSE]
QueuedSlot == [done |-> FALSE, granted |-> 0, waker |-> TRUE]

Least(a, b) == IF a < b THEN a ELSE b
Most(a, b)  == IF a < b THEN b ELSE a

Init ==
  /\ phase = "Prefill" /\ rpc = "prefill"
  /\ cap = FullCap /\ avail = Stagger /\ owed = 0
  /\ minted = 0 /\ fired = 0
  /\ queue = <<>> /\ closed = FALSE /\ idle = FALSE
  /\ slot = [c \in Conns |-> NoSlot]
  /\ cpc = [c \in Conns |-> "down"]
  /\ pend = [c \in Conns |-> 0]
  /\ dpc = "sleep" /\ timer = "fired" /\ woken = {Disp}   \* spawned

-----------------------------------------------------------------------------
(* The ratelimit crate's bucket, as WorkerLimiter uses it: it refills      *)
(* lazily, at the next take, up to the cap then in force.                  *)

Refilled == Least(cap, avail + owed)

(* try_wait_n(n): n sub-units above the cap are refused outright.          *)
Funds(n)   == n <= cap /\ n <= Refilled
Exceeds(n) == n > cap

(* The bucket after try_wait_n(n), whether or not it funded n.             *)
TakeUnits(n) ==
  /\ avail' = IF Funds(n) THEN Refilled - n ELSE Refilled
  /\ owed' = 0

(* WorkerLimiter::max_tokens: the largest claim, in whole requests.        *)
MaxTokens == cap \div SUB

(* Time passes: one more sub-unit is due at the next refill.               *)
Accrue ==
  /\ minted < MaxMint
  /\ owed' = owed + 1
  /\ minted' = minted + 1
  /\ UNCHANGED <<phase, rpc, cap, avail, fired, connVars, dispVars, woken>>

-----------------------------------------------------------------------------
(* The runner: WorkerLimiter::restart in its three calls on the bucket,    *)
(* then set_phase(Warmup); set_phase(Stop) at the end or at a signal.      *)

RestartNarrow ==
  /\ phase = "Prefill" /\ rpc = "prefill"
  /\ rpc' = "narrowed"
  /\ cap' = Stagger + 1
  /\ UNCHANGED <<phase, avail, owed, historyVars, connVars, dispVars, woken>>

RestartNoTake ==   \* a bug: the cap is lowered and restored, with no take between
  /\ rpc = "narrowed"
  /\ rpc' = "emptied"
  /\ minted' = 0
  /\ UNCHANGED <<phase, limiterVars, fired, connVars, dispVars, woken>>

RestartTake ==
  /\ rpc = "narrowed"
  /\ rpc' = "emptied"
  /\ TakeUnits(1)
  /\ minted' = 0
  /\ UNCHANGED <<phase, cap, fired, connVars, dispVars, woken>>

RestartRestore ==
  /\ rpc = "emptied"
  /\ rpc' = "restored"
  /\ cap' = FullCap
  /\ UNCHANGED <<phase, avail, owed, historyVars, connVars, dispVars, woken>>

SetWarmup ==
  /\ phase = "Prefill" /\ rpc = "restored"
  /\ rpc' = "traffic" /\ phase' = "Warmup"
  /\ UNCHANGED <<limiterVars, historyVars, connVars, dispVars, woken>>

SetStop ==
  /\ phase # "Stop" /\ rpc \in {"prefill", "traffic"}
  /\ rpc' = "stopped" /\ phase' = "Stop"
  /\ UNCHANGED <<limiterVars, historyVars, connVars, dispVars, woken>>

-----------------------------------------------------------------------------
(* The dispatcher task: run_dispatcher.                                    *)

CompleteNoWake(c, granted) ==   \* a bug: the slot's waiter is not woken
  /\ slot' = [slot EXCEPT ![c] = [done |-> TRUE, granted |-> granted, waker |-> FALSE]]
  /\ woken' = woken

(* TokenSlot::complete of connection c's claim.                            *)
Complete(c, granted) ==
  /\ slot' = [slot EXCEPT ![c] = [done |-> TRUE, granted |-> granted, waker |-> FALSE]]
  /\ woken' = IF slot[c].waker THEN woken \cup {c} ELSE woken

DispatchReleasesStarved ==   \* a bug: a claim out of funds is released, not put back
  /\ dpc = "dispatch" /\ queue # <<>>
  /\ LET want  == Most(Least(Batch, MaxTokens), 1)
         units == want * SUB
     IN  /\ Complete(Head(queue), IF Funds(units) THEN want ELSE 0)
         /\ queue' = Tail(queue)
         /\ TakeUnits(units)
  /\ UNCHANGED <<phase, rpc, cap, historyVars, cpc, pend, closed, idle, dpc, timer>>

(* dispatch: the head of the queue is funded, released unfunded because    *)
(* the bucket can never hold it, or put back until its nap is over.        *)
DispatchHead ==
  /\ dpc = "dispatch" /\ queue # <<>>
  /\ LET want  == Most(Least(Batch, MaxTokens), 1)
         units == want * SUB
     IN  IF Exceeds(units) \/ Funds(units)
         THEN /\ Complete(Head(queue), IF Funds(units) THEN want ELSE 0)
              /\ queue' = Tail(queue)
              /\ IF Exceeds(units) THEN UNCHANGED <<avail, owed>> ELSE TakeUnits(units)
              /\ UNCHANGED <<dpc, timer>>
         ELSE /\ TakeUnits(units)
              /\ dpc' = "sleep" /\ timer' = "armed"
              /\ UNCHANGED <<queue, slot, woken>>
  /\ UNCHANGED <<phase, rpc, cap, historyVars, cpc, pend, closed, idle>>

(* dispatch on an empty queue, then the first poll of the idle wait:       *)
(* claim_pending registers the waker and the backstop starts.              *)
DispatchEmpty ==
  /\ dpc = "dispatch" /\ queue = <<>>
  /\ dpc' = "idle" /\ idle' = TRUE /\ timer' = "armed"
  /\ UNCHANGED <<phase, rpc, limiterVars, historyVars, connVars, queue, closed, woken>>

TimerFires ==
  /\ timer = "armed"
  /\ timer' = "fired"
  /\ woken' = woken \cup {Disp}
  /\ UNCHANGED <<phase, rpc, limiterVars, historyVars, connVars, queue, closed, idle, dpc>>

ResumesAfterStop ==   \* a bug: the loop does not look at the phase
  /\ Disp \in woken /\ dpc \in {"sleep", "idle"}
  /\ timer = "fired" \/ (dpc = "idle" /\ queue # <<>>)
  /\ dpc' = "dispatch" /\ idle' = FALSE /\ timer' = "off"
  /\ woken' = woken \ {Disp}
  /\ UNCHANGED <<phase, rpc, limiterVars, historyVars, connVars, queue, closed>>

(* The dispatcher is polled, leaves its sleep or its idle wait (taking     *)
(* its waker back) and finds the run still going.                          *)
DispatcherResumes ==
  /\ Disp \in woken /\ dpc \in {"sleep", "idle"}
  /\ timer = "fired" \/ (dpc = "idle" /\ queue # <<>>)
  /\ phase # "Stop"
  /\ dpc' = "dispatch" /\ idle' = FALSE /\ timer' = "off"
  /\ woken' = woken \ {Disp}
  /\ UNCHANGED <<phase, rpc, limiterVars, historyVars, connVars, queue, closed>>

(* ... or finds that it stopped: drain releases every claim.               *)
DispatcherDrains ==
  /\ Disp \in woken /\ dpc \in {"sleep", "idle"}
  /\ timer = "fired" \/ (dpc = "idle" /\ queue # <<>>)
  /\ phase = "Stop"
  /\ dpc' = "exited" /\ idle' = FALSE /\ timer' = "off"
  /\ closed' = TRUE /\ queue' = <<>>
  /\ LET claims == {queue[i] : i \in 1..Len(queue)}
     IN  /\ slot' = [c \in Conns |->
                       IF c \in claims
                       THEN [done |-> TRUE, granted |-> 0, waker |-> FALSE]
                       ELSE slot[c]]
         /\ woken' = (woken \ {Disp}) \cup {c \in claims : slot[c].waker}
  /\ UNCHANGED <<phase, rpc, limiterVars, historyVars, cpc, pend>>

-----------------------------------------------------------------------------
(* A connection task: one iteration of the drive loop, from the await it   *)
(* resumes at to the next one.                                             *)

(* The three ways an iteration begins. The task then has p requests        *)
(* pending and k tokens carried.                                           *)
Resumes(c, p, k) ==
  /\ dpc # "dispatch"
  /\ \/ cpc[c] = "nap" /\ p = pend[c] /\ k = 0
     \/ cpc[c] = "recv" /\ p = pend[c] - 1 /\ k = 0
     \/ cpc[c] = "park" /\ c \in woken /\ slot[c].done
        /\ p = pend[c] /\ k = slot[c].granted

(* What every iteration that leaves c's claim behind does with it.         *)
Leave(c) ==
  /\ slot' = [slot EXCEPT ![c] = NoSlot]
  /\ woken' = woken \ {c}

(* Awaiting a reply with requests in flight, a fixed sleep without.        *)
WaitAfter(c, p) ==
  /\ pend' = [pend EXCEPT ![c] = p]
  /\ cpc' = [cpc EXCEPT ![c] = IF p = 0 THEN "nap" ELSE "recv"]

ConnIdles(c) ==
  \E p \in 0..Depth, k \in 0..Batch :
    /\ Resumes(c, p, k)
    /\ phase = "Prefill" \/ (phase = "Warmup" /\ Depth - p < Batch)
    /\ WaitAfter(c, p) /\ Leave(c)
    /\ UNCHANGED <<phase, rpc, limiterVars, historyVars, dispVars>>

(* Carried tokens are spent first; only a connection that carries none     *)
(* asks the limiter. Some of the batch may fail to be sent.                *)
ConnFires(c) ==
  \E p \in 0..Depth, k \in 0..Batch :
    LET n == IF k > 0 THEN k ELSE Least(Batch, MaxTokens)
    IN  /\ Resumes(c, p, k)
        /\ phase = "Warmup" /\ Depth - p >= Batch
        /\ n > 0
        /\ IF k > 0 THEN UNCHANGED <<avail, owed>> ELSE Funds(n * SUB) /\ TakeUnits(n * SUB)
        /\ \E f \in 0..n : fired' = fired + f /\ WaitAfter(c, p + f)
        /\ Leave(c)
        /\ UNCHANGED <<phase, rpc, cap, minted, dispVars>>

(* acquire, and the first poll of its TokenWait, which leaves the          *)
(* connection's waker in the slot.                                         *)
Acquire(c) ==
  /\ slot' = [slot EXCEPT ![c] = QueuedSlot]
  /\ queue' = Append(queue, c)
  /\ idle' = FALSE
  /\ woken' = (woken \ {c}) \cup (IF idle THEN {Disp} ELSE {})

(* The limiter refuses a batch. With replies pending the connection waits  *)
(* for one; with none it queues a claim and parks, unless the dispatcher   *)
(* is gone.                                                                *)
ConnStarves(c) ==
  \E p \in 0..Depth :
    LET n == Least(Batch, MaxTokens)
    IN  /\ Resumes(c, p, 0)
        /\ phase = "Warmup" /\ Depth - p >= Batch
        /\ ~ (n > 0 /\ Funds(n * SUB))
        /\ IF n > 0 THEN TakeUnits(n * SUB) ELSE UNCHANGED <<avail, owed>>
        /\ IF p > 0 \/ closed
           THEN /\ WaitAfter(c, p) /\ Leave(c)
                /\ UNCHANGED <<queue, idle>>
           ELSE /\ pend' = [pend EXCEPT ![c] = 0]
                /\ cpc' = [cpc EXCEPT ![c] = "park"]
                /\ Acquire(c)
        /\ UNCHANGED <<phase, rpc, cap, historyVars, closed, dpc, timer>>

(* The connection fails (closed, a receive error or a timeout): what it    *)
(* had in flight and what it carried are gone, and it reconnects.          *)
ConnFails(c) ==
  /\ dpc # "dispatch"
  /\ \/ cpc[c] = "recv"
     \/ cpc[c] = "nap" /\ phase # "Stop"
     \/ cpc[c] = "park" /\ c \in woken /\ slot[c].done /\ phase # "Stop"
  /\ cpc' = [cpc EXCEPT ![c] = "down"]
  /\ pend' = [pend EXCEPT ![c] = 0]
  /\ Leave(c)
  /\ UNCHANGED <<phase, rpc, limiterVars, historyVars, dispVars>>

ConnReconnects(c) ==
  /\ dpc # "dispatch"
  /\ cpc[c] = "down" /\ phase # "Stop"
  /\ cpc' = [cpc EXCEPT ![c] = "nap"]
  /\ UNCHANGED <<phase, rpc, limiterVars, historyVars, slot, pend, dispVars, woken>>

ConnExits(c) ==
  /\ dpc # "dispatch"
  /\ phase = "Stop"
  /\ \/ cpc[c] \in {"recv", "nap", "down"}
     \/ cpc[c] = "park" /\ c \in woken /\ slot[c].done
  /\ cpc' = [cpc EXCEPT ![c] = "exited"]
  /\ pend' = [pend EXCEPT ![c] = 0]
  /\ Leave(c)
  /\ UNCHANGED <<phase, rpc, limiterVars, historyVars, dispVars>>

-----------------------------------------------------------------------------
Runner     == RestartNarrow \/ RestartTake \/ RestartRestore \/ SetWarmup \/ SetStop
Dispatcher == DispatchHead \/ DispatchEmpty \/ DispatcherResumes \/ DispatcherDrains
Connection(c) ==
  ConnIdles(c) \/ ConnFires(c) \/ ConnStarves(c) \/ ConnFails(c)
    \/ ConnReconnects(c) \/ ConnExits(c)

(* Every task has returned: the worker is done.                            *)
Finished == /\ dpc = "exited" /\ \A c \in Conns : cpc[c] = "exited"
            /\ UNCHANGED vars

Next == Accrue \/ Runner \/ TimerFires \/ Dispatcher
          \/ (\E c \in Conns : Connection(c)) \/ Finished

Spec == Init /\ [][Next]_vars

(* A sleep ends, the executor polls what it woke, and a connection awaiting *)
(* a reply gets it, or its request timeout.                                *)
Fairness ==
  /\ WF_vars(TimerFires) /\ WF_vars(Dispatcher) /\ WF_vars(SetStop)
  /\ WF_vars(RestartTake) /\ WF_vars(RestartRestore) /\ WF_vars(SetWarmup)
  /\ \A c \in Conns : WF_vars(Connection(c))

LiveSpec == Spec /\ Fairness

-----------------------------------------------------------------------------
SlotType == [done : BOOLEAN, granted : 0..Batch, waker : BOOLEAN]

(* Every variable keeps its type: in particular a take never leaves the    *)
(* bucket below zero or above its cap, and a claim is granted a batch at   *)
(* most (WorkerLimiter::try_wait_n, TokenDispatcher::dispatch).            *)
TypeOK ==
  /\ phase \in {"Prefill", "Warmup", "Stop"}
  /\ rpc \in {"prefill", "narrowed", "emptied", "restored", "traffic", "stopped"}
  /\ cap \in {FullCap, Stagger + 1}
  /\ avail \in 0..FullCap /\ owed \in Nat
  /\ minted \in 0..MaxMint /\ fired \in Nat
  /\ queue \in Seq(Conns) /\ closed \in BOOLEAN /\ idle \in BOOLEAN
  /\ slot \in [Conns -> SlotType]
  /\ cpc \in [Conns -> {"nap", "recv", "park", "down", "exited"}]
  /\ pend \in [Conns -> 0..Depth]
  /\ dpc \in {"dispatch", "sleep", "idle", "exited"}
  /\ timer \in {"off", "armed", "fired"}
  /\ woken \subseteq Conns \cup {Disp}

Queued(c) == \E i \in 1..Len(queue) : queue[i] = c

(* No connection is parked with nobody left to wake it: its claim is still *)
(* in the queue, once, with its waker in the slot, and the dispatcher that *)
(* will serve it is running, woken or has a timer set; or its claim was    *)
(* completed and it is about to be polled (TokenSlot::complete, acquire,   *)
(* drain; the wait is untimed, so a lost wakeup would hang the task).      *)
NoLostWakeup ==
  \A c \in Conns : cpc[c] = "park" =>
    \/ /\ Queued(c) /\ ~slot[c].done /\ slot[c].waker
       /\ \A i, j \in 1..Len(queue) : queue[i] = c /\ queue[j] = c => i = j
       /\ dpc = "dispatch" \/ (dpc # "exited" /\ (timer = "armed" \/ Disp \in woken))
    \/ ~Queued(c) /\ slot[c].done /\ c \in woken

(* A claim that arrives while the dispatcher idles on an empty queue does  *)
(* not wait for the idle backstop: acquire has woken the dispatcher (#174). *)
ClaimWakesDispatcher == dpc = "idle" /\ queue # <<>> => Disp \in woken

(* Offered load is paced from the first request: what Warmup and Running   *)
(* have sent never exceeds the worker's stagger plus what accrued since    *)
(* restart, whatever built up in the bucket during connect and prefill     *)
(* (WorkerLimiter::restart; acquire debits once for a granted claim).      *)
OfferedWithinRate == fired * SUB <= Stagger + minted

(* A claim is released unfunded only by the drain at the end of the run:   *)
(* the narrowed cap of restart is never seen by a taker, so dispatch never *)
(* meets ExceedsCapacity (restart's "Nothing may take tokens while this    *)
(* runs").                                                                 *)
UnfundedOnlyAtStop ==
  \A c \in Conns : slot[c].done /\ slot[c].granted = 0 => closed

(* A stop ends the worker: every parked connection is released by drain,   *)
(* every other one leaves its loop, and the dispatcher returns.            *)
StopEndsWorker ==
  phase = "Stop" ~> (dpc = "exited" /\ \A c \in Conns : cpc[c] = "exited")
=============================================================================
