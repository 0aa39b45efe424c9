------------------------- MODULE TokenDispatchProofs -------------------------
(***************************************************************************)
(* Proofs, for every set of connections, batch size, pipeline depth, cap   *)
(* and stagger, of the safety properties of TokenDispatch.                 *)
(***************************************************************************)
EXTENDS TokenDispatch, FiniteSetTheorems, TLAPS

(* Multiplication by SUB keeps the order: what the limiter's unit          *)
(* conversion (WorkerLimiter::try_wait_n) needs of arithmetic.             *)
LEMMA SubMonotone ==
  ASSUME NEW a \in Nat, NEW b \in Nat, a <= b
  PROVE  a * SUB \in Nat /\ a * SUB <= b * SUB
<1>1. SUB \in Nat
  BY TokenAssumption
<1>2. PICK d \in Nat : b = a + d
  BY SMT
<1>3. b * SUB = a * SUB + d * SUB
  BY <1>1, <1>2, SMT
<1>4. a * SUB \in Nat /\ d * SUB \in Nat
  BY <1>1, SMT
<1> QED
  BY <1>3, <1>4, SMT

(* The full cap holds a claim and the unit above the stagger that restart  *)
(* narrows to (WorkerLimiters::new, WorkerLimiter::build).                 *)
LEMMA CapFacts ==
  /\ FullCap \in Nat
  /\ Batch * SUB \in Nat
  /\ Batch * SUB <= FullCap
  /\ Stagger + 1 <= FullCap
<1>1. Batch * SUB \in Nat /\ Batch * SUB <= Burst * SUB
  BY SubMonotone, TokenAssumption
<1>2. 0 * SUB = 0 /\ Burst * SUB \in Nat
  BY TokenAssumption, SMT
<1>3. 1 * SUB <= Batch * SUB
  BY SubMonotone, TokenAssumption
<1>4. 1 * SUB = SUB
  BY TokenAssumption, SMT
<1> QED
  BY <1>1, <1>2, <1>3, <1>4, TokenAssumption, SMT DEF FullCap

(* WorkerLimiter::max_tokens in whole requests never exceeds the cap.      *)
LEMMA MaxTokensFacts ==
  ASSUME cap \in Nat
  PROVE  /\ MaxTokens \in Nat
         /\ MaxTokens * SUB <= cap
         /\ SUB <= cap => MaxTokens >= 1
<1>1. SUB \in Nat /\ SUB > 0
  BY TokenAssumption
<1>2. MaxTokens \in Nat /\ cap = SUB * MaxTokens + (cap % SUB) /\ cap % SUB \in 0..(SUB - 1)
  BY <1>1, Z3 DEF MaxTokens
<1>3. SUB * MaxTokens = MaxTokens * SUB
  BY <1>1, <1>2, SMT
<1>4. MaxTokens * SUB <= cap
  BY <1>1, <1>2, <1>3, SMT
<1>5. ASSUME SUB <= cap PROVE MaxTokens >= 1
  <2>1. ASSUME MaxTokens = 0 PROVE FALSE
    <3>1. SUB * MaxTokens = 0
      BY <1>1, <2>1, SMT
    <3> QED BY <3>1, <1>1, <1>2, <1>5, SMT
  <2> QED BY <2>1, <1>2, SMT
<1> QED
  BY <1>2, <1>4, <1>5

(* A take leaves the bucket between empty and full, whether it is funded   *)
(* or refused.                                                             *)
LEMMA TakeType ==
  ASSUME NEW n \in Nat, TypeOK, TakeUnits(n)
  PROVE  /\ avail' \in 0..FullCap /\ owed' = 0
         /\ avail' <= avail + owed
         /\ Funds(n) => avail' + n <= avail + owed
<1>1. cap \in Nat /\ cap <= FullCap /\ FullCap \in Nat
  BY CapFacts, TokenAssumption DEF TypeOK
<1> QED
  BY <1>1, SMT DEF TypeOK, TakeUnits, Refilled, Funds, Least

-----------------------------------------------------------------------------
(* The batch a connection or the dispatcher asks the limiter for.          *)
LEMMA WantType ==
  ASSUME TypeOK
  PROVE  /\ cap \in Nat
         /\ Least(Batch, MaxTokens) \in 0..Batch
         /\ Most(Least(Batch, MaxTokens), 1) \in 1..Batch
         /\ \A n \in 0..Batch : n * SUB \in Nat
<1>1. cap \in Nat
  BY CapFacts, TokenAssumption DEF TypeOK
<1>2. MaxTokens \in Nat
  BY <1>1, MaxTokensFacts
<1>3. \A n \in 0..Batch : n * SUB \in Nat
  BY SubMonotone, TokenAssumption
<1> QED
  BY <1>1, <1>2, <1>3, TokenAssumption DEF Least, Most

(* The slots the code builds: empty, queued, granted and drained.          *)
LEMMA SlotTypes ==
  /\ NoSlot \in SlotType
  /\ QueuedSlot \in SlotType
  /\ \A g \in 0..Batch : [done |-> TRUE, granted |-> g, waker |-> FALSE] \in SlotType
<1>1. 0 \in 0..Batch
  BY TokenAssumption
<1> QED
  <2>1. \A b, w \in BOOLEAN, g \in 0..Batch :
           [done |-> b, granted |-> g, waker |-> w] \in SlotType
    BY DEF SlotType
  <2>2. TRUE \in BOOLEAN /\ FALSE \in BOOLEAN
    BY Zenon
  <2> QED BY <1>1, <2>1, <2>2, Zenon DEF NoSlot, QueuedSlot

LEMMA TypeInit == Init => TypeOK
<1> SUFFICES ASSUME Init PROVE TypeOK
  OBVIOUS
<1>1. cap = FullCap /\ avail \in 0..FullCap /\ owed \in Nat
  BY CapFacts, TokenAssumption, SMT DEF Init
<1>2. slot \in [Conns -> SlotType] /\ closed \in BOOLEAN /\ idle \in BOOLEAN
  BY SlotTypes, Zenon DEF Init
<1>3. pend \in [Conns -> 0..Depth]
  BY TokenAssumption DEF Init
<1> QED
  BY <1>1, <1>2, <1>3, TokenAssumption DEF Init, TypeOK

(* TypeOK is inductive by itself.                                          *)
LEMMA TypeStep == TypeOK /\ [Next]_vars => TypeOK'
<1> SUFFICES ASSUME TypeOK, [Next]_vars PROVE TypeOK'
  OBVIOUS
<1> USE DEF limiterVars, historyVars, connVars, dispVars
<1>1. CASE Accrue
  BY <1>1, TokenAssumption DEF Accrue, TypeOK
<1>2. CASE RestartNarrow
  BY <1>2 DEF RestartNarrow, TypeOK
<1>3. CASE RestartTake
  <2>1. avail' \in 0..FullCap /\ owed' = 0
    BY <1>3, TakeType DEF RestartTake
  <2> QED BY <1>3, <2>1, TokenAssumption DEF RestartTake, TypeOK
<1>4. CASE RestartRestore
  BY <1>4 DEF RestartRestore, TypeOK
<1>5. CASE SetWarmup
  BY <1>5 DEF SetWarmup, TypeOK
<1>6. CASE SetStop
  BY <1>6 DEF SetStop, TypeOK
<1>7. CASE TimerFires
  BY <1>7 DEF TimerFires, TypeOK
<1>8. CASE DispatchHead
  <2> DEFINE want == Most(Least(Batch, MaxTokens), 1)
             units == want * SUB
  <2>1. want \in 1..Batch /\ units \in Nat
    BY WantType, TokenAssumption
  <2>2. Head(queue) \in Conns /\ Tail(queue) \in Seq(Conns)
    BY <1>8 DEF DispatchHead, TypeOK
  <2>3. avail' \in 0..FullCap /\ owed' \in Nat
    <3>1. TakeUnits(units) \/ UNCHANGED <<avail, owed>>
      BY <1>8 DEF DispatchHead
    <3>2. CASE TakeUnits(units)
      <4> HIDE DEF units
      <4> QED BY <3>2, <2>1, TakeType
    <3> QED BY <3>1, <3>2 DEF TypeOK
  <2> HIDE DEF want, units
  <2>4. CASE Exceeds(units) \/ Funds(units)
    <3>1. /\ Complete(Head(queue), IF Funds(units) THEN want ELSE 0)
          /\ queue' = Tail(queue)
          /\ UNCHANGED <<dpc, timer>>
      BY <1>8, <2>4 DEF DispatchHead, want, units
    <3>2. slot' \in [Conns -> SlotType] /\ woken' \subseteq Conns \cup {Disp}
      <4>1. (IF Funds(units) THEN want ELSE 0) \in 0..Batch
        BY <2>1, TokenAssumption
      <4> QED BY <3>1, <2>2, <4>1, SlotTypes, Zenon DEF Complete, TypeOK
    <3> QED BY <1>8, <3>1, <3>2, <2>2, <2>3 DEF DispatchHead, TypeOK
  <2>5. CASE ~(Exceeds(units) \/ Funds(units))
    <3>1. /\ dpc' = "sleep" /\ timer' = "armed"
          /\ UNCHANGED <<queue, slot, woken>>
      BY <1>8, <2>5 DEF DispatchHead, want, units
    <3> QED BY <1>8, <3>1, <2>3 DEF DispatchHead, TypeOK
  <2> QED BY <2>4, <2>5
<1>9. CASE DispatchEmpty
  BY <1>9 DEF DispatchEmpty, TypeOK
<1>10. CASE DispatcherResumes
  BY <1>10 DEF DispatcherResumes, TypeOK
<1>11. CASE DispatcherDrains
  <2>1. slot' \in [Conns -> SlotType]
    <3>1. 0 \in 0..Batch
      BY TokenAssumption
    <3> QED BY <1>11, <3>1, SlotTypes, Zenon DEF DispatcherDrains, TypeOK
  <2>2. woken' \subseteq Conns \cup {Disp}
    <3>1. {queue[i] : i \in 1..Len(queue)} \subseteq Conns
      BY DEF TypeOK
    <3> QED BY <1>11, <3>1 DEF DispatcherDrains, TypeOK
  <2>3. closed' \in BOOLEAN /\ idle' \in BOOLEAN
    BY <1>11, Zenon DEF DispatcherDrains
  <2>4. queue' \in Seq(Conns)
    BY <1>11, SMT DEF DispatcherDrains
  <2>5. dpc' = "exited" /\ timer' = "off"
        /\ UNCHANGED <<phase, rpc, limiterVars, historyVars, cpc, pend>>
    BY <1>11 DEF DispatcherDrains
  <2> QED BY <2>1, <2>2, <2>3, <2>4, <2>5 DEF TypeOK
<1>12. ASSUME NEW c \in Conns, Connection(c) PROVE TypeOK'
  <2>0. NoSlot \in SlotType /\ QueuedSlot \in SlotType
    BY SlotTypes
  <2>1. ASSUME Leave(c) PROVE slot' \in [Conns -> SlotType] /\ woken' \subseteq Conns \cup {Disp}
    BY <2>0, <2>1 DEF Leave, TypeOK
  <2>2. ASSUME NEW p \in 0..Depth, WaitAfter(c, p)
        PROVE /\ pend' \in [Conns -> 0..Depth]
              /\ cpc' \in [Conns -> {"nap", "recv", "park", "down", "exited"}]
    BY <2>2 DEF WaitAfter, TypeOK
  <2>3. CASE ConnIdles(c)
    BY <2>3, <2>1, <2>2 DEF ConnIdles, TypeOK
  <2>4. CASE ConnFires(c)
    <3>1. PICK p \in 0..Depth, k \in 0..Batch : ConnFires(c)!(p, k)
      BY <2>4 DEF ConnFires
    <3> DEFINE n == IF k > 0 THEN k ELSE Least(Batch, MaxTokens)
    <3>2. n \in 0..Batch /\ n * SUB \in Nat
      BY WantType
    <3>3. PICK f \in 0..n : fired' = fired + f /\ WaitAfter(c, p + f)
      BY <3>1
    <3>4. p + f \in 0..Depth
      BY <3>1, <3>2, <3>3, TokenAssumption
    <3>5. avail' \in 0..FullCap /\ owed' \in Nat
      <4>1. TakeUnits(n * SUB) \/ UNCHANGED <<avail, owed>>
        BY <3>1
      <4>2. CASE TakeUnits(n * SUB)
        <5> HIDE DEF n
        <5> QED BY <4>2, <3>2, TakeType
      <4> QED BY <4>1, <4>2 DEF TypeOK
    <3>6. fired' \in Nat
      BY <3>2, <3>3 DEF TypeOK
    <3> HIDE DEF n
    <3>7. Leave(c) /\ UNCHANGED <<phase, rpc, cap, minted, dispVars>>
      BY <3>1
    <3> QED BY <3>3, <3>4, <3>5, <3>6, <3>7, <2>1, <2>2 DEF TypeOK
  <2>5. CASE ConnStarves(c)
    <3>1. PICK p \in 0..Depth : ConnStarves(c)!(p)
      BY <2>5 DEF ConnStarves
    <3> DEFINE n == Least(Batch, MaxTokens)
    <3>2. n \in 0..Batch /\ n * SUB \in Nat
      BY WantType
    <3>3. avail' \in 0..FullCap /\ owed' \in Nat
      <4>1. TakeUnits(n * SUB) \/ UNCHANGED <<avail, owed>>
        BY <3>1
      <4>2. CASE TakeUnits(n * SUB)
        <5> HIDE DEF n
        <5> QED BY <4>2, <3>2, TakeType
      <4> QED BY <4>1, <4>2 DEF TypeOK
    <3>4. CASE p > 0 \/ closed
      <4>1. WaitAfter(c, p) /\ Leave(c) /\ UNCHANGED <<queue, idle>>
        BY <3>1, <3>4
      <4> QED BY <3>1, <3>3, <4>1, <2>1, <2>2 DEF TypeOK
    <3>5. CASE ~(p > 0 \/ closed)
      <4>1. /\ pend' = [pend EXCEPT ![c] = 0]
            /\ cpc' = [cpc EXCEPT ![c] = "park"]
            /\ Acquire(c)
        BY <3>1, <3>5
      <4>2. slot' \in [Conns -> SlotType] /\ woken' \subseteq Conns \cup {Disp}
            /\ queue' \in Seq(Conns) /\ idle' \in BOOLEAN
        <5>1. idle' \in BOOLEAN
          BY <4>1, Zenon DEF Acquire
        <5>2. slot' \in [Conns -> SlotType] /\ woken' \subseteq Conns \cup {Disp}
          BY <4>1, <2>0, Zenon DEF Acquire, TypeOK
        <5>3. queue' \in Seq(Conns)
          BY <4>1, SMT DEF Acquire, TypeOK
        <5> QED BY <5>1, <5>2, <5>3
      <4>3. pend' \in [Conns -> 0..Depth]
            /\ cpc' \in [Conns -> {"nap", "recv", "park", "down", "exited"}]
        BY <4>1, TokenAssumption DEF TypeOK
      <4> QED BY <3>1, <3>3, <4>2, <4>3 DEF TypeOK
    <3> QED BY <3>4, <3>5
  <2>6. CASE ConnFails(c)
    <3>1. /\ pend' = [pend EXCEPT ![c] = 0]
          /\ cpc' \in [Conns -> {"nap", "recv", "park", "down", "exited"}]
          /\ Leave(c)
          /\ UNCHANGED <<phase, rpc, limiterVars, historyVars, dispVars>>
      BY <2>6 DEF ConnFails, TypeOK
    <3>2. pend' \in [Conns -> 0..Depth]
      BY <3>1, TokenAssumption DEF TypeOK
    <3> QED BY <3>1, <3>2, <2>1 DEF TypeOK
  <2>7. CASE ConnReconnects(c)
    BY <2>7 DEF ConnReconnects, TypeOK
  <2>8. CASE ConnExits(c)
    <3>1. /\ pend' = [pend EXCEPT ![c] = 0]
          /\ cpc' \in [Conns -> {"nap", "recv", "park", "down", "exited"}]
          /\ Leave(c)
          /\ UNCHANGED <<phase, rpc, limiterVars, historyVars, dispVars>>
      BY <2>8 DEF ConnExits, TypeOK
    <3>2. pend' \in [Conns -> 0..Depth]
      BY <3>1, TokenAssumption DEF TypeOK
    <3> QED BY <3>1, <3>2, <2>1 DEF TypeOK
  <2> QED BY <1>12, <2>3, <2>4, <2>5, <2>6, <2>7, <2>8 DEF Connection
<1>13. CASE Finished \/ UNCHANGED vars
  BY <1>13 DEF Finished, vars, TypeOK
<1> QED
  BY <1>1, <1>2, <1>3, <1>4, <1>5, <1>6, <1>7, <1>8, <1>9, <1>10, <1>11, <1>12, <1>13
  DEF Next, Runner, Dispatcher

(* Every reachable state is of its type, whatever the constants.           *)
THEOREM TypeCorrect == Spec => []TypeOK
BY TypeInit, TypeStep, PTL DEF Spec

-----------------------------------------------------------------------------
(* Where the runner is decides the phase and the cap, and before traffic   *)
(* nobody has asked for a token.                                           *)
PhaseInv ==
  /\ phase = "Prefill" <=> rpc \in {"prefill", "narrowed", "emptied", "restored"}
  /\ phase = "Warmup" <=> rpc = "traffic"
  /\ cap = IF rpc \in {"narrowed", "emptied"} THEN Stagger + 1 ELSE FullCap
  /\ phase = "Prefill" => queue = <<>> /\ \A c \in Conns : cpc[c] # "park"
  /\ closed => phase = "Stop"

(* The queue holds each parked, uncompleted claim once, with its waker; a  *)
(* completed claim's connection is about to be polled; the dispatcher is   *)
(* never asleep without a timer or a wakeup.                               *)
WakeInv ==
  /\ \A i, j \in 1..Len(queue) : queue[i] = queue[j] => i = j
  /\ \A i \in 1..Len(queue) : cpc[queue[i]] = "park" /\ slot[queue[i]] = QueuedSlot
  /\ \A c \in Conns : cpc[c] = "park" => Queued(c) \/ (slot[c].done /\ c \in woken)
  /\ \A c \in Conns : cpc[c] # "park" => slot[c] = NoSlot
  /\ dpc \in {"sleep", "idle"} => timer = "armed" \/ (timer = "fired" /\ Disp \in woken)
  /\ dpc = "idle" => Disp \in woken \/ (idle /\ queue = <<>>)
  /\ idle => dpc = "idle"
  /\ closed <=> dpc = "exited"
  /\ dpc = "exited" => queue = <<>>

LEMMA PhaseInit == Init => PhaseInv
BY DEF Init, PhaseInv

LEMMA PhaseStep ==
  ASSUME TypeOK, PhaseInv, [Next]_vars
  PROVE  PhaseInv'
<1> USE DEF limiterVars, historyVars, connVars, dispVars
<1>1. CASE Accrue \/ TimerFires \/ Finished \/ UNCHANGED vars
  BY <1>1 DEF Accrue, TimerFires, Finished, vars, PhaseInv
<1>2. CASE Runner
  BY <1>2 DEF Runner, RestartNarrow, RestartTake, RestartRestore, SetWarmup, SetStop, PhaseInv, TypeOK
<1>3. CASE DispatchHead
  <2>1. UNCHANGED <<phase, rpc, cap, cpc, closed>> /\ phase # "Prefill"
    BY <1>3 DEF DispatchHead, PhaseInv
  <2> QED BY <2>1 DEF PhaseInv
<1>4. CASE DispatchEmpty \/ DispatcherResumes \/ DispatcherDrains
  BY <1>4 DEF DispatchEmpty, DispatcherResumes, DispatcherDrains, PhaseInv
<1>5. ASSUME NEW c \in Conns, Connection(c) PROVE PhaseInv'
  <2>0. cpc \in [Conns -> {"nap", "recv", "park", "down", "exited"}]
    BY DEF TypeOK
  <2>1. CASE ConnIdles(c)
    BY <2>0, <2>1 DEF ConnIdles, WaitAfter, PhaseInv
  <2>2. CASE ConnFires(c)
    BY <2>0, <2>2 DEF ConnFires, PhaseInv
  <2>3. CASE ConnStarves(c)
    BY <2>0, <2>3 DEF ConnStarves, PhaseInv
  <2>4. CASE ConnFails(c) \/ ConnReconnects(c) \/ ConnExits(c)
    BY <2>0, <2>4 DEF ConnFails, ConnReconnects, ConnExits, PhaseInv
  <2> QED BY <1>5, <2>1, <2>2, <2>3, <2>4 DEF Connection
<1> QED
  BY <1>1, <1>2, <1>3, <1>4, <1>5 DEF Next, Dispatcher

-----------------------------------------------------------------------------
(* A queued claim is not done and holds its connection's waker.            *)
LEMMA QueuedSlotFields == ~QueuedSlot.done /\ QueuedSlot.waker
BY DEF QueuedSlot

LEMMA WakeInit == Init => WakeInv
BY DEF Init, WakeInv, Queued

(* A connection that leaves its claim behind was not in the queue, so the  *)
(* queue and every other connection's claim stay as they were.             *)
LEMMA LeaveKeepsWake ==
  ASSUME TypeOK, WakeInv, NEW c \in Conns, Leave(c),
         cpc[c] # "park" \/ slot[c].done,
         NEW w \in {"nap", "recv", "down", "exited"},
         cpc' = [cpc EXCEPT ![c] = w],
         UNCHANGED dispVars
  PROVE  WakeInv'
<1> USE DEF dispVars
<1>1. c # Disp /\ QueuedSlot.done = FALSE
  BY TokenAssumption DEF QueuedSlot
<1>2. \A i \in 1..Len(queue) : queue[i] # c /\ queue[i] \in Conns
  BY <1>1 DEF WakeInv, TypeOK
<1>3. \A d \in Conns \ {c} : slot'[d] = slot[d] /\ cpc'[d] = cpc[d] /\ (d \in woken' <=> d \in woken)
  BY DEF Leave, TypeOK
<1>4. slot'[c] = NoSlot /\ cpc'[c] # "park"
  BY DEF Leave, TypeOK
<1>5. Disp \in woken' <=> Disp \in woken
  BY <1>1 DEF Leave
<1>6. \A d \in Conns : Queued(d)' <=> Queued(d)
  BY DEF Queued
<1> QED
  BY <1>2, <1>3, <1>4, <1>5, <1>6 DEF WakeInv

LEMMA WakeStep ==
  ASSUME TypeOK, PhaseInv, WakeInv, [Next]_vars
  PROVE  WakeInv'
<1> USE DEF limiterVars, historyVars, connVars, dispVars
<1>1. CASE Accrue \/ Runner \/ Finished \/ UNCHANGED vars
  BY <1>1 DEF Accrue, Finished, vars, Runner, RestartNarrow, RestartTake, RestartRestore,
              SetWarmup, SetStop, WakeInv, Queued
<1>2. CASE TimerFires
  BY <1>2, TokenAssumption DEF TimerFires, WakeInv, Queued
<1>3. CASE DispatchHead
  <2> DEFINE want == Most(Least(Batch, MaxTokens), 1)
             units == want * SUB
  <2>1. CASE Exceeds(units) \/ Funds(units)
    <3> DEFINE h == Head(queue)
    <3>1. PICK g : Complete(h, g)
      BY <1>3, <2>1 DEF DispatchHead
    <3>2. queue' = Tail(queue) /\ UNCHANGED <<dpc, timer, cpc, closed, idle>> /\ dpc = "dispatch" /\ queue # <<>>
      BY <1>3, <2>1 DEF DispatchHead
    <3>3. h \in Conns /\ h = queue[1] /\ Len(queue) >= 1 /\ queue \in Seq(Conns)
      BY <3>2 DEF TypeOK
    <3>4. Len(queue') = Len(queue) - 1 /\ \A i \in 1..Len(queue') : i + 1 \in 1..Len(queue) /\ queue'[i] = queue[i + 1]
      BY <3>2, <3>3
    <3>5. \A i \in 1..Len(queue') : queue'[i] # h /\ queue'[i] \in Conns
      BY <3>3, <3>4 DEF WakeInv
    <3>6. slot[h].waker /\ cpc[h] = "park"
      <4>1. 1 \in 1..Len(queue)
        BY <3>3
      <4>2. cpc[h] = "park" /\ slot[h] = QueuedSlot
        BY <3>3, <4>1 DEF WakeInv
      <4> QED BY <4>2, QueuedSlotFields
    <3>7. slot'[h].done /\ h \in woken' /\ woken \subseteq woken' /\ \A d \in Conns \ {h} : slot'[d] = slot[d]
      <4>1. slot' = [slot EXCEPT ![h] = [done |-> TRUE, granted |-> g, waker |-> FALSE]]
            /\ slot \in [Conns -> SlotType]
        BY <3>1 DEF Complete, TypeOK
      <4>2. slot'[h].done /\ \A d \in Conns \ {h} : slot'[d] = slot[d]
        BY <4>1, <3>3, Zenon
      <4>3. h \in woken' /\ woken \subseteq woken'
        BY <3>1, <3>6, Zenon DEF Complete
      <4> QED BY <4>2, <4>3
    <3>8. \A d \in Conns \ {h} : Queued(d) => Queued(d)'
      <4> SUFFICES ASSUME NEW d \in Conns \ {h}, Queued(d)
                   PROVE  \E j \in 1..Len(queue') : queue'[j] = d
        BY DEF Queued
      <4>1. PICK i \in 1..Len(queue) : queue[i] = d
        BY DEF Queued
      <4>2. i - 1 \in 1..Len(queue') /\ (i - 1) + 1 = i
        BY <4>1, <3>3, <3>4
      <4> QED BY <4>1, <4>2, <3>4
    <3> HIDE DEF h
    <3> QED BY <3>2, <3>3, <3>4, <3>5, <3>6, <3>7, <3>8 DEF WakeInv
  <2>2. CASE ~(Exceeds(units) \/ Funds(units))
    <3>1. dpc' = "sleep" /\ timer' = "armed" /\ UNCHANGED <<queue, slot, woken, cpc, closed, idle>> /\ dpc = "dispatch"
      BY <1>3, <2>2 DEF DispatchHead
    <3> QED BY <3>1 DEF WakeInv, Queued
  <2> QED BY <2>1, <2>2
<1>4. CASE DispatchEmpty
  BY <1>4 DEF DispatchEmpty, WakeInv, Queued
<1>5. CASE DispatcherResumes
  BY <1>5, TokenAssumption DEF DispatcherResumes, WakeInv, Queued
<1>6. CASE DispatcherDrains
  <2>1. queue' = <<>> /\ dpc' = "exited" /\ closed' /\ ~idle' /\ cpc' = cpc
    BY <1>6 DEF DispatcherDrains
  <2>2. \A c \in Conns : Queued(c) => slot'[c].done /\ c \in woken'
    <3>1. SUFFICES ASSUME NEW c \in Conns, Queued(c) PROVE slot'[c].done /\ c \in woken'
      OBVIOUS
    <3>2. c \in {queue[i] : i \in 1..Len(queue)} /\ slot[c].waker
      <4>1. PICK i \in 1..Len(queue) : queue[i] = c
        BY <3>1 DEF Queued
      <4>2. slot[c] = QueuedSlot
        BY <4>1 DEF WakeInv
      <4> QED BY <4>1, <4>2, QueuedSlotFields
    <3> QED BY <1>6, <3>1, <3>2 DEF DispatcherDrains
  <2>3. \A c \in Conns : ~Queued(c) => slot'[c] = slot[c] /\ (c \in woken => c \in woken')
    BY <1>6, TokenAssumption DEF DispatcherDrains, Queued
  <2>4. \A c \in Conns : cpc[c] # "park" => ~Queued(c)
    BY DEF WakeInv, Queued
  <2> QED BY <2>1, <2>2, <2>3, <2>4 DEF WakeInv
<1>7. ASSUME NEW c \in Conns, Connection(c) PROVE WakeInv'
  <2>1. ASSUME NEW p, NEW k, Resumes(c, p, k) PROVE cpc[c] # "park" \/ slot[c].done
    BY <2>1 DEF Resumes
  <2>2. ASSUME NEW p, WaitAfter(c, p)
        PROVE \E w \in {"nap", "recv", "down", "exited"} : cpc' = [cpc EXCEPT ![c] = w]
    BY <2>2 DEF WaitAfter
  <2>3. CASE ConnIdles(c)
    <3>1. PICK p \in 0..Depth, k \in 0..Batch : ConnIdles(c)!(p, k)
      BY <2>3 DEF ConnIdles
    <3> QED BY <3>1, <2>1, <2>2, LeaveKeepsWake
  <2>4. CASE ConnFires(c)
    <3>1. PICK p \in 0..Depth, k \in 0..Batch : ConnFires(c)!(p, k)
      BY <2>4 DEF ConnFires
    <3>2. Resumes(c, p, k) /\ Leave(c) /\ UNCHANGED dispVars /\ \E q : WaitAfter(c, q)
      BY <3>1
    <3> QED BY <3>2, <2>1, <2>2, LeaveKeepsWake
  <2>5. CASE ConnStarves(c)
    <3>1. PICK p \in 0..Depth : ConnStarves(c)!(p)
      BY <2>5 DEF ConnStarves
    <3>2. CASE p > 0 \/ closed
      <4>1. Resumes(c, p, 0) /\ WaitAfter(c, p) /\ Leave(c) /\ UNCHANGED dispVars
        BY <3>1, <3>2
      <4> QED BY <4>1, <2>1, <2>2, LeaveKeepsWake
    <3>3. CASE ~(p > 0 \/ closed)
      <4>1. Resumes(c, p, 0) /\ cpc' = [cpc EXCEPT ![c] = "park"] /\ Acquire(c)
            /\ UNCHANGED <<closed, dpc, timer>>
        BY <3>1, <3>3
      <4>2. \A i \in 1..Len(queue) : queue[i] # c /\ queue[i] \in Conns
        <5>1. \A i \in 1..Len(queue) : queue[i] \in Conns
          BY DEF TypeOK
        <5>2. \A i \in 1..Len(queue) : cpc[queue[i]] = "park" /\ ~slot[queue[i]].done
          BY QueuedSlotFields DEF WakeInv
        <5>3. cpc[c] # "park" \/ slot[c].done
          BY <4>1, <2>1
        <5> QED BY <5>1, <5>2, <5>3
      <4>3. queue' = Append(queue, c) /\ queue \in Seq(Conns)
        BY <4>1 DEF Acquire, TypeOK
      <4>4. /\ Len(queue') = Len(queue) + 1
            /\ queue'[Len(queue) + 1] = c
            /\ \A i \in 1..Len(queue) : queue'[i] = queue[i]
        BY <4>3
      <4>5. slot'[c] = QueuedSlot /\ cpc'[c] = "park"
            /\ \A d \in Conns \ {c} : slot'[d] = slot[d] /\ cpc'[d] = cpc[d] /\ (d \in woken => d \in woken')
        BY <4>1 DEF Acquire, TypeOK
      <4>6. c # Disp /\ (Disp \in woken => Disp \in woken') /\ (idle => Disp \in woken') /\ ~idle'
        BY <4>1, TokenAssumption DEF Acquire
      <4>7. Queued(c)' /\ \A d \in Conns : Queued(d) => Queued(d)'
        BY <4>3, <4>4 DEF Queued
      <4>8. dpc # "exited"
        BY <3>3 DEF WakeInv
      <4>9. \A i, j \in 1..Len(queue') : queue'[i] = queue'[j] => i = j
        BY <4>2, <4>3, <4>4 DEF WakeInv
      <4>10. \A i \in 1..Len(queue') : cpc'[queue'[i]] = "park" /\ slot'[queue'[i]] = QueuedSlot
        BY <4>2, <4>3, <4>4, <4>5 DEF WakeInv
      <4> QED BY <4>1, <4>5, <4>6, <4>7, <4>8, <4>9, <4>10 DEF WakeInv
    <3> QED BY <3>2, <3>3
  <2>6. CASE ConnFails(c) \/ ConnExits(c)
    <3>1. Leave(c) /\ (cpc[c] # "park" \/ slot[c].done) /\ UNCHANGED dispVars
          /\ \E w \in {"nap", "recv", "down", "exited"} : cpc' = [cpc EXCEPT ![c] = w]
      BY <2>6 DEF ConnFails, ConnExits
    <3> QED BY <3>1, LeaveKeepsWake
  <2>7. CASE ConnReconnects(c)
    BY <2>7 DEF ConnReconnects, WakeInv, Queued, TypeOK
  <2> QED BY <1>7, <2>3, <2>4, <2>5, <2>6, <2>7 DEF Connection
<1> QED
  BY <1>1, <1>2, <1>3, <1>4, <1>5, <1>6, <1>7 DEF Next, Dispatcher

LEMMA WakeAlways == Spec => [](TypeOK /\ PhaseInv /\ WakeInv)
BY TypeInit, TypeStep, PhaseInit, PhaseStep, WakeInit, WakeStep, PTL DEF Spec

(* No parked connection is ever left with nobody to wake it.               *)
THEOREM WakeupSafe == Spec => []NoLostWakeup
<1>1. TypeOK /\ WakeInv => NoLostWakeup
  <2> SUFFICES ASSUME TypeOK, WakeInv, NEW c \in Conns, cpc[c] = "park"
               PROVE  NoLostWakeup!(c)!2
    BY DEF NoLostWakeup
  <2>1. CASE Queued(c)
    <3>1. PICK n \in 1..Len(queue) : queue[n] = c
      BY <2>1 DEF Queued
    <3>2. slot[c] = QueuedSlot /\ queue # <<>>
      BY <3>1 DEF WakeInv, TypeOK
    <3>3. ~slot[c].done /\ slot[c].waker
      BY <3>2, QueuedSlotFields
    <3>4. dpc = "dispatch" \/ (dpc # "exited" /\ (timer = "armed" \/ Disp \in woken))
      BY <3>2 DEF WakeInv, TypeOK
    <3>5. \A i, j \in 1..Len(queue) : queue[i] = c /\ queue[j] = c => i = j
      BY DEF WakeInv
    <3> QED BY <2>1, <3>3, <3>4, <3>5
  <2>2. CASE ~Queued(c)
    BY <2>2 DEF WakeInv
  <2> QED BY <2>1, <2>2
<1> QED BY <1>1, WakeAlways, PTL

(* A claim never waits for the dispatcher's idle backstop.                 *)
THEOREM ClaimWakes == Spec => []ClaimWakesDispatcher
<1>1. WakeInv => ClaimWakesDispatcher
  BY DEF WakeInv, ClaimWakesDispatcher
<1> QED BY <1>1, WakeAlways, PTL

-----------------------------------------------------------------------------
(* With a claim queued, restart is over and the cap holds a batch, so what *)
(* dispatch asks for never exceeds it.                                     *)
LEMMA NeverExceeds ==
  ASSUME TypeOK, PhaseInv, queue # <<>>
  PROVE  ~Exceeds(Most(Least(Batch, MaxTokens), 1) * SUB)
<1>1. cap = FullCap /\ cap \in Nat
  BY CapFacts DEF PhaseInv, TypeOK
<1>2. SUB <= cap /\ SUB \in Nat
  <2>1. 1 * SUB <= Batch * SUB
    BY SubMonotone, TokenAssumption
  <2>2. 1 * SUB = SUB /\ SUB \in Nat
    BY TokenAssumption, SMT
  <2> QED BY <2>1, <2>2, <1>1, CapFacts
<1>3. MaxTokens \in Nat /\ MaxTokens * SUB <= cap /\ MaxTokens >= 1
  BY <1>1, <1>2, MaxTokensFacts
<1> DEFINE w == Most(Least(Batch, MaxTokens), 1)
<1>4. w \in Nat /\ w <= MaxTokens
  BY <1>3, TokenAssumption DEF Least, Most
<1> HIDE DEF w
<1>5. w * SUB \in Nat /\ w * SUB <= MaxTokens * SUB
  BY <1>3, <1>4, SubMonotone
<1>6. MaxTokens * SUB \in Nat
  BY <1>3, SubMonotone
<1>7. ~Exceeds(w * SUB)
  BY <1>1, <1>3, <1>5, <1>6 DEF Exceeds
<1> QED BY <1>7 DEF w

LEMMA UnfundedStep ==
  ASSUME TypeOK, PhaseInv, UnfundedOnlyAtStop, [Next]_vars
  PROVE  UnfundedOnlyAtStop'
<1> USE DEF limiterVars, historyVars, connVars, dispVars
<1>0. ~NoSlot.done /\ ~QueuedSlot.done
  BY DEF NoSlot, QueuedSlot
<1>1. CASE UNCHANGED <<slot, closed>>
  BY <1>1 DEF UnfundedOnlyAtStop
<1>2. CASE DispatchHead
  <2> DEFINE want == Most(Least(Batch, MaxTokens), 1)
             units == want * SUB
  <2>1. CASE Exceeds(units) \/ Funds(units)
    <3>1. Complete(Head(queue), want) /\ closed' = closed
      BY <1>2, <2>1, NeverExceeds DEF DispatchHead
    <3>2. want \in 1..Batch /\ want # 0
      BY WantType
    <3> HIDE DEF want
    <3>3. Head(queue) \in Conns /\ slot \in [Conns -> SlotType]
      BY <1>2 DEF DispatchHead, TypeOK
    <3>4. slot'[Head(queue)].granted = want /\ \A d \in Conns \ {Head(queue)} : slot'[d] = slot[d]
      BY <3>1, <3>3 DEF Complete
    <3> QED BY <3>1, <3>2, <3>4 DEF UnfundedOnlyAtStop
  <2>2. CASE ~(Exceeds(units) \/ Funds(units))
    BY <1>2, <2>2, <1>1 DEF DispatchHead
  <2> QED BY <2>1, <2>2
<1>3. CASE DispatcherDrains
  BY <1>3 DEF DispatcherDrains, UnfundedOnlyAtStop
<1>4. ASSUME NEW c \in Conns, Leave(c), closed' = closed PROVE UnfundedOnlyAtStop'
  BY <1>0, <1>4 DEF Leave, UnfundedOnlyAtStop, TypeOK
<1>5. ASSUME NEW c \in Conns, Acquire(c), closed' = closed PROVE UnfundedOnlyAtStop'
  BY <1>0, <1>5 DEF Acquire, UnfundedOnlyAtStop, TypeOK
<1>6. ASSUME NEW c \in Conns, Connection(c) PROVE UnfundedOnlyAtStop'
  <2>1. closed' = closed
    BY <1>6 DEF Connection, ConnIdles, ConnFires, ConnStarves, ConnFails, ConnReconnects, ConnExits
  <2>2. Leave(c) \/ Acquire(c) \/ slot' = slot
    BY <1>6 DEF Connection, ConnIdles, ConnFires, ConnStarves, ConnFails, ConnReconnects, ConnExits
  <2> QED BY <2>1, <2>2, <1>1, <1>4, <1>5
<1>7. CASE Accrue \/ Runner \/ TimerFires \/ DispatchEmpty \/ DispatcherResumes \/ Finished \/ UNCHANGED vars
  BY <1>1, <1>7 DEF Accrue, Runner, RestartNarrow, RestartTake, RestartRestore, SetWarmup, SetStop,
     TimerFires, DispatchEmpty, DispatcherResumes, Finished, vars
<1> QED
  BY <1>2, <1>3, <1>6, <1>7 DEF Next, Dispatcher

(* A claim is released unfunded only at the end of the run: no taker ever  *)
(* meets the cap that restart narrows.                                     *)
THEOREM UnfundedOnlyByDrain == Spec => []UnfundedOnlyAtStop
<1>1. Init => UnfundedOnlyAtStop
  BY DEF Init, UnfundedOnlyAtStop, NoSlot
<1> QED BY <1>1, UnfundedStep, WakeAlways, PTL DEF Spec

-----------------------------------------------------------------------------
(* The tokens granted to parked connections and not yet spent, one element *)
(* for each: <<c, i>> is the i-th token of c's grant.                      *)
Tokens(c, g) == {c} \X (1..g)
HeldIn(s) == {x \in Conns \X (1..Batch) : x[2] <= s[x[1]].granted}
Held == HeldIn(slot)

(* Every sub-unit in the bucket, every token granted and every request     *)
(* sent since restart is paid for by the stagger or by what accrued since. *)
Balanced == avail + owed + (Cardinality(Held) + fired) * SUB <= Stagger + minted

RateInv ==
  /\ rpc \in {"prefill", "narrowed"} => fired = 0
  /\ rpc \in {"emptied", "restored", "traffic"} => Balanced
  /\ OfferedWithinRate

LEMMA TokensCount ==
  ASSUME NEW c, NEW g \in Nat
  PROVE  IsFiniteSet(Tokens(c, g)) /\ Cardinality(Tokens(c, g)) = g
<1> DEFINE f == [i \in 1..g |-> <<c, i>>]
<1>1. f \in Bijection(1..g, Tokens(c, g))
  <2>1. f \in [1..g -> Tokens(c, g)]
    BY DEF Tokens
  <2>2. \A i, j \in 1..g : f[i] = f[j] => i = j
    OBVIOUS
  <2>3. \A t \in Tokens(c, g) : \E i \in 1..g : f[i] = t
    BY DEF Tokens
  <2> QED BY <2>1, <2>2, <2>3 DEF Bijection, Injection, Surjection, IsInjective
<1>2. ExistsBijection(1..g, Tokens(c, g))
  BY <1>1 DEF ExistsBijection
<1>3. IsFiniteSet(1..g) /\ Cardinality(1..g) = g
  BY FS_Interval
<1> QED BY <1>2, <1>3, FS_Bijection

LEMMA HeldFinite ==
  ASSUME NEW s
  PROVE  IsFiniteSet(HeldIn(s)) /\ Cardinality(HeldIn(s)) \in Nat
<1>1. IsFiniteSet(Conns \X (1..Batch))
  <2>1. IsFiniteSet(1..Batch)
    BY TokenAssumption, FS_Interval
  <2> QED BY <2>1, TokenAssumption, FS_Product
<1>2. HeldIn(s) \in SUBSET (Conns \X (1..Batch))
  BY DEF HeldIn
<1> QED BY <1>1, <1>2, FS_Subset, FS_CardinalityType

(* Two sets of slots that differ only in c's differ by c's grants.         *)
LEMMA HeldChange ==
  ASSUME NEW s \in [Conns -> SlotType], NEW t \in [Conns -> SlotType], NEW c \in Conns,
         \A d \in Conns \ {c} : t[d] = s[d]
  PROVE  Cardinality(HeldIn(t)) + s[c].granted = Cardinality(HeldIn(s)) + t[c].granted
<1> DEFINE rest == {x \in HeldIn(s) : x[1] # c}
           g == s[c].granted
           h == t[c].granted
<1>1. g \in 0..Batch /\ h \in 0..Batch
  BY DEF SlotType
<1>2. HeldIn(s) = rest \cup Tokens(c, g)
  BY <1>1, TokenAssumption DEF HeldIn, Tokens
<1>3. HeldIn(t) = rest \cup Tokens(c, h)
  BY <1>1, TokenAssumption DEF HeldIn, Tokens
<1>4. rest \cap Tokens(c, g) = {} /\ rest \cap Tokens(c, h) = {}
  BY DEF Tokens
<1>5. IsFiniteSet(rest)
  <2>1. rest \in SUBSET HeldIn(s)
    OBVIOUS
  <2> HIDE DEF rest
  <2> QED BY <2>1, HeldFinite, FS_Subset
<1> HIDE DEF rest, g, h
<1>6. /\ IsFiniteSet(Tokens(c, g)) /\ Cardinality(Tokens(c, g)) = g
      /\ IsFiniteSet(Tokens(c, h)) /\ Cardinality(Tokens(c, h)) = h
  BY <1>1, TokensCount
<1>7. Cardinality({}) = 0 /\ Cardinality(rest) \in Nat
  BY <1>5, FS_EmptySet, FS_CardinalityType
<1>8. ASSUME NEW n \in Nat, IsFiniteSet(Tokens(c, n)), Cardinality(Tokens(c, n)) = n,
             rest \cap Tokens(c, n) = {}
      PROVE  Cardinality(rest \cup Tokens(c, n)) = Cardinality(rest) + n
  <2>1. Cardinality(rest \cup Tokens(c, n))
          = Cardinality(rest) + Cardinality(Tokens(c, n)) - Cardinality(rest \cap Tokens(c, n))
    BY <1>5, <1>8, FS_Union
  <2>2. Cardinality(rest \cap Tokens(c, n)) = 0
    BY <1>7, <1>8, Zenon
  <2> QED BY <2>1, <2>2, <1>7, <1>8
<1>9. g \in Nat /\ h \in Nat
  BY <1>1
<1>10. Cardinality(HeldIn(s)) = Cardinality(rest) + g /\ Cardinality(HeldIn(t)) = Cardinality(rest) + h
  BY <1>2, <1>3, <1>4, <1>6, <1>8, <1>9
<1>11. Cardinality(HeldIn(t)) + g = Cardinality(HeldIn(s)) + h
  BY <1>7, <1>9, <1>10
<1> QED BY <1>11 DEF g, h

(* Sub-units taken for n requests pay for n more tokens or requests.       *)
LEMMA Paid ==
  ASSUME NEW x \in Nat, NEW y \in Nat, NEW n \in Nat, y <= x + n
  PROVE  /\ y * SUB \in Nat /\ x * SUB \in Nat /\ n * SUB \in Nat
         /\ y * SUB <= x * SUB + n * SUB
<1>1. (x + n) * SUB = x * SUB + n * SUB
  BY TokenAssumption, SMT
<1>2. y * SUB \in Nat /\ x * SUB \in Nat /\ n * SUB \in Nat
  BY SubMonotone
<1>3. y * SUB <= (x + n) * SUB
  BY SubMonotone
<1> QED BY <1>1, <1>2, <1>3

(* A step that takes the sub-units of n requests from the bucket ...       *)
Pays(n) == avail' + owed' + n * SUB <= avail + owed

(* ... and makes at most n more tokens held or requests sent.              *)
Issues(n) == Cardinality(Held') + fired' <= Cardinality(Held) + fired + n

LEMMA BalanceArithmetic ==
  ASSUME NEW b \in Nat, NEW b2 \in Nat, NEW x \in Nat, NEW y \in Nat, NEW n \in Nat,
         NEW f \in Nat, NEW s \in Nat,
         b + x <= s, b2 + n <= b, y <= x + n, f <= y
  PROVE  b2 + y <= s /\ f <= s
OBVIOUS

(* Such a step keeps the balance.                                          *)
LEMMA RateBalance ==
  ASSUME TypeOK, TypeOK', NEW n \in Nat, minted' = minted, Balanced, Pays(n), Issues(n)
  PROVE  Balanced' /\ OfferedWithinRate'
<1>1. PICK hx \in Nat : hx = Cardinality(Held)
  BY HeldFinite DEF Held
<1>2. PICK hy \in Nat : hy = Cardinality(Held')
  BY HeldFinite DEF Held
<1>3. /\ fired \in Nat /\ fired' \in Nat /\ minted \in Nat /\ Stagger \in Nat
      /\ avail \in Nat /\ avail' \in Nat /\ owed \in Nat /\ owed' \in Nat
  BY TokenAssumption DEF TypeOK
<1>4. PICK x \in Nat : x = hx + fired
  BY <1>3
<1>5. PICK y \in Nat : y = hy + fired' /\ fired' <= y
  <2>1. PICK g \in Nat : g = fired'
    BY <1>3
  <2>2. hy + g \in Nat /\ g <= hy + g
    OBVIOUS
  <2> QED BY <2>1, <2>2, Zenon
<1>6. PICK b \in Nat : b = avail + owed
  BY <1>3
<1>7. PICK b2 \in Nat : b2 = avail' + owed'
  <2>1. PICK g \in Nat, h \in Nat : g = avail' /\ h = owed'
    BY <1>3
  <2>2. g + h \in Nat
    OBVIOUS
  <2> QED BY <2>1, <2>2, Zenon
<1>8. PICK s \in Nat : s = Stagger + minted
  BY <1>3
<1>9. y <= x + n
  BY <1>1, <1>2, <1>4, <1>5 DEF Issues
<1>10. b2 + n * SUB <= b
  BY <1>6, <1>7, Zenon DEF Pays
<1>11. b + x * SUB <= s
  BY <1>1, <1>4, <1>6, <1>8, Zenon DEF Balanced
<1>12. x * SUB \in Nat /\ y * SUB \in Nat /\ n * SUB \in Nat /\ y * SUB <= x * SUB + n * SUB
  BY <1>9, Paid
<1>13. fired' * SUB \in Nat /\ fired' * SUB <= y * SUB
  BY <1>3, <1>5, SubMonotone
<1>14. b2 + y * SUB <= s /\ fired' * SUB <= s
  BY <1>10, <1>11, <1>12, <1>13, BalanceArithmetic
<1> QED BY <1>2, <1>5, <1>7, <1>8, <1>14, Zenon DEF Balanced, OfferedWithinRate

(* A step that issues nothing and adds nothing to the bucket.              *)
LEMMA RateKept ==
  ASSUME TypeOK, TypeOK', RateInv, UNCHANGED <<rpc, fired, minted>>,
         rpc \in {"emptied", "restored", "traffic"} =>
            avail' + owed' <= avail + owed /\ Cardinality(Held') <= Cardinality(Held)
  PROVE  RateInv'
<1>1. OfferedWithinRate'
  BY DEF RateInv, OfferedWithinRate
<1>2. ASSUME rpc \in {"emptied", "restored", "traffic"}
      PROVE  Balanced'
  <2>1. 0 * SUB = 0 /\ 0 \in Nat
    BY TokenAssumption, SMT
  <2>2. Pays(0)
    <3>1. avail' \in Nat /\ owed' \in Nat
      BY DEF TypeOK
    <3>2. PICK b2 \in Nat : b2 = avail' + owed'
      <4>1. PICK g \in Nat, h \in Nat : g = avail' /\ h = owed'
        BY <3>1
      <4>2. g + h \in Nat
        OBVIOUS
      <4> QED BY <4>1, <4>2, Zenon
    <3>3. b2 + 0 * SUB = b2
      BY <2>1
    <3> QED BY <1>2, <3>2, <3>3, Zenon DEF Pays
  <2>3. Issues(0)
    <3>1. PICK hx \in Nat : hx = Cardinality(Held)
      BY HeldFinite DEF Held
    <3>2. PICK hy \in Nat : hy = Cardinality(Held')
      BY HeldFinite DEF Held
    <3>3. hy <= hx
      BY <1>2, <3>1, <3>2
    <3>4. fired \in Nat /\ fired' = fired
      BY DEF TypeOK
    <3>5. hy + fired <= hx + fired + 0
      BY <3>3, <3>4
    <3> QED BY <3>1, <3>2, <3>4, <3>5, Zenon DEF Issues
  <2>4. Balanced
    BY <1>2 DEF RateInv
  <2> QED BY <2>1, <2>2, <2>3, <2>4, RateBalance
<1> QED BY <1>1, <1>2 DEF RateInv

(* Before traffic no token is held.                                        *)
LEMMA NothingHeld ==
  ASSUME TypeOK, PhaseInv, WakeInv, phase = "Prefill"
  PROVE  Cardinality(Held) = 0
<1>1. \A c \in Conns : slot[c] = NoSlot
  BY DEF PhaseInv, WakeInv
<1>2. NoSlot.granted = 0
  BY DEF NoSlot
<1>3. Held = {}
  BY <1>1, <1>2 DEF Held, HeldIn
<1> QED BY <1>3, FS_EmptySet

(* RestartTake opens the balance: exactly the stagger, at most, is left.   *)
LEMMA RestartBalances ==
  ASSUME TypeOK, TypeOK', PhaseInv, WakeInv, RateInv, RestartTake
  PROVE  RateInv'
<1> USE DEF connVars, dispVars
<1>1. rpc = "narrowed" /\ rpc' = "emptied" /\ fired' = fired /\ fired = 0 /\ slot' = slot /\ minted' = 0
  BY DEF RestartTake, RateInv
<1>2. Stagger \in Nat /\ avail \in Nat /\ owed \in Nat
  BY TokenAssumption DEF TypeOK
<1>3. avail' <= Stagger /\ avail' \in Nat /\ owed' = 0
  <2>1. cap = Stagger + 1
    BY <1>1 DEF PhaseInv
  <2>2. TakeUnits(1)
    BY DEF RestartTake
  <2> QED BY <1>2, <2>1, <2>2, SMT DEF TakeUnits, Refilled, Funds, Least
<1>4. Cardinality(Held') = 0
  <2>1. phase = "Prefill"
    BY <1>1 DEF PhaseInv
  <2>2. Held' = Held
    BY <1>1 DEF Held
  <2> QED BY <2>1, <2>2, NothingHeld
<1>5. (0 + 0) * SUB = 0 /\ 0 * SUB = 0
  BY TokenAssumption, SMT
<1>6. OfferedWithinRate'
  BY <1>1, <1>2, <1>5 DEF OfferedWithinRate
<1>7. Balanced'
  <2>1. PICK a \in Nat : a = avail'
    BY <1>3
  <2>2. a + 0 + 0 <= Stagger + 0
    <3>1. a <= Stagger
      BY <1>3, <2>1, Zenon
    <3>2. Stagger \in Nat
      BY <1>2
    <3> QED BY <3>1, <3>2
  <2>3. a + 0 + (0 + 0) * SUB <= Stagger + 0
    BY <1>5, <2>2
  <2> QED BY <1>1, <1>3, <1>4, <2>1, <2>3, Zenon DEF Balanced
<1> QED BY <1>1, <1>6, <1>7 DEF RateInv

(* A connection that fires spends what it carried, or what it takes now.   *)
LEMMA FiringBalances ==
  ASSUME TypeOK, TypeOK', PhaseInv, WakeInv, RateInv, NEW c \in Conns, ConnFires(c)
  PROVE  RateInv'
<1>1. PICK p \in 0..Depth, k \in 0..Batch : ConnFires(c)!(p, k)
  BY DEF ConnFires
<1> DEFINE n == IF k > 0 THEN k ELSE Least(Batch, MaxTokens)
<1>2. n \in 0..Batch
  BY WantType
<1>3. Resumes(c, p, k) /\ phase = "Warmup" /\ Leave(c) /\ rpc' = rpc /\ minted' = minted
  BY <1>1
<1>4. PICK f \in 0..n : fired' = fired + f
  BY <1>1
<1>5. rpc = "traffic" /\ Balanced
  BY <1>3 DEF PhaseInv, RateInv
<1>6. slot[c].granted = k
  <2>1. CASE cpc[c] = "park"
    BY <1>3, <2>1 DEF Resumes
  <2>2. CASE cpc[c] # "park"
    <3>1. slot[c] = NoSlot /\ k = 0
      BY <1>3, <2>2 DEF Resumes, WakeInv
    <3> QED BY <3>1 DEF NoSlot
  <2> QED BY <2>1, <2>2
<1>7. Cardinality(Held') + k = Cardinality(Held)
  <2>1. slot \in [Conns -> SlotType] /\ slot' \in [Conns -> SlotType]
    BY DEF TypeOK
  <2>2. slot'[c] = NoSlot /\ \A d \in Conns \ {c} : slot'[d] = slot[d]
    BY <1>3, <2>1 DEF Leave
  <2>3. slot'[c].granted = 0
    BY <2>2 DEF NoSlot
  <2>4. Cardinality(HeldIn(slot')) + slot[c].granted = Cardinality(HeldIn(slot)) + slot'[c].granted
    BY <2>1, <2>2, HeldChange
  <2>5. Cardinality(HeldIn(slot)) \in Nat
    BY HeldFinite
  <2>6. Cardinality(HeldIn(slot')) + k = Cardinality(HeldIn(slot)) + 0
    BY <1>6, <2>3, <2>4
  <2> QED BY <2>5, <2>6 DEF Held
<1>8. PICK hx \in Nat : hx = Cardinality(Held)
  BY HeldFinite DEF Held
<1>9. PICK hy \in Nat : hy = Cardinality(Held')
  BY HeldFinite DEF Held
<1>10. fired \in Nat /\ avail \in Nat /\ owed \in Nat
  BY DEF TypeOK
<1>11. CASE k > 0
  <2>1. avail' = avail /\ owed' = owed
    BY <1>1, <1>11
  <2>2. 0 * SUB = 0
    BY TokenAssumption, SMT
  <2>3. Pays(0)
    BY <2>1, <2>2, <1>10 DEF Pays
  <2>4. f <= k
    BY <1>4, <1>11
  <2>5. hy + (fired + f) <= hx + fired + 0
    BY <1>4, <1>7, <1>8, <1>9, <1>10, <2>4
  <2>6. Issues(0)
    BY <1>4, <1>8, <1>9, <2>5, Zenon DEF Issues
  <2>7. Balanced' /\ OfferedWithinRate'
    BY <1>3, <1>5, <2>3, <2>6, RateBalance
  <2> QED BY <1>3, <1>5, <2>7 DEF RateInv
<1>12. CASE ~(k > 0)
  <2>1. Funds(n * SUB) /\ TakeUnits(n * SUB)
    BY <1>1, <1>12
  <2>2. n * SUB \in Nat /\ n \in Nat
    BY <1>2, WantType
  <2> HIDE DEF n
  <2>3. avail' + n * SUB <= avail + owed /\ owed' = 0 /\ avail' \in 0..FullCap
    BY <2>1, <2>2, TakeType
  <2>4. Pays(n)
    <3>1. PICK a \in Nat : a = avail'
      BY <2>3
    <3>2. a + 0 = a
      OBVIOUS
    <3> QED BY <2>3, <3>1, <3>2, Zenon DEF Pays
  <2>5. hy + (fired + f) <= hx + fired + n
    BY <1>2, <1>4, <1>7, <1>8, <1>9, <1>10, <1>12
  <2>6. Issues(n)
    BY <1>4, <1>8, <1>9, <2>5, Zenon DEF Issues
  <2>7. Balanced' /\ OfferedWithinRate'
    BY <1>3, <1>5, <2>2, <2>4, <2>6, RateBalance
  <2> QED BY <1>3, <1>5, <2>7 DEF RateInv
<1> QED BY <1>11, <1>12

(* A refused take leaves no more in the bucket than was due.               *)
LEMMA RefusedTake ==
  ASSUME TypeOK, NEW n \in Nat, TakeUnits(n)
  PROVE  avail' + owed' <= avail + owed
<1>1. avail' <= avail + owed /\ owed' = 0 /\ avail' \in 0..FullCap
  BY TakeType
<1>2. PICK a \in Nat : a = avail'
  BY <1>1
<1>3. a + 0 = a
  OBVIOUS
<1> QED BY <1>1, <1>2, <1>3, Zenon

(* The dispatcher debits the bucket for exactly what it grants.            *)
LEMMA GrantBalances ==
  ASSUME TypeOK, TypeOK', PhaseInv, WakeInv, RateInv, DispatchHead
  PROVE  RateInv'
<1> DEFINE want == Most(Least(Batch, MaxTokens), 1)
           units == want * SUB
<1>1. want \in Nat /\ units \in Nat
  BY WantType, TokenAssumption
<1>2. UNCHANGED <<rpc, minted, fired>> /\ queue # <<>>
  BY DEF DispatchHead, historyVars
<1>3. CASE ~(Exceeds(units) \/ Funds(units))
  <2>1. TakeUnits(units) /\ slot' = slot
    BY <1>3 DEF DispatchHead
  <2> HIDE DEF units
  <2>2. avail' + owed' <= avail + owed
    BY <1>1, <2>1, RefusedTake
  <2>3. Held' = Held
    BY <2>1 DEF Held
  <2>4. Cardinality(Held') <= Cardinality(Held)
    <3>1. Cardinality(Held) \in Nat
      BY HeldFinite DEF Held
    <3> QED BY <2>3, <3>1
  <2> QED BY <1>2, <2>2, <2>4, RateKept
<1>4. CASE Exceeds(units) \/ Funds(units)
  <2>1. ~Exceeds(units)
    BY <1>2, NeverExceeds
  <2>2. Funds(units) /\ TakeUnits(units) /\ Complete(Head(queue), want)
    BY <1>4, <2>1 DEF DispatchHead
  <2> HIDE DEF want, units
  <2>3. Head(queue) \in Conns /\ Head(queue) = queue[1] /\ 1 \in 1..Len(queue)
    BY <1>2 DEF TypeOK
  <2> DEFINE h == Head(queue)
  <2>4. slot[h].granted = 0
    <3>1. slot[h] = QueuedSlot
      BY <2>3 DEF WakeInv
    <3> QED BY <3>1 DEF QueuedSlot
  <2>5. slot \in [Conns -> SlotType] /\ slot' \in [Conns -> SlotType]
    BY DEF TypeOK
  <2>6. slot'[h].granted = want /\ \A d \in Conns \ {h} : slot'[d] = slot[d]
    BY <2>2, <2>3, <2>5 DEF Complete
  <2>7. Cardinality(HeldIn(slot')) + slot[h].granted = Cardinality(HeldIn(slot)) + slot'[h].granted
    BY <2>3, <2>5, <2>6, HeldChange
  <2> HIDE DEF h
  <2>8. PICK hx \in Nat : hx = Cardinality(Held) /\ hx = Cardinality(HeldIn(slot))
    BY HeldFinite DEF Held
  <2>9. PICK hy \in Nat : hy = Cardinality(Held') /\ hy = Cardinality(HeldIn(slot'))
    BY HeldFinite DEF Held
  <2>10. hy = hx + want
    BY <1>1, <2>4, <2>6, <2>7, <2>8, <2>9
  <2>11. fired \in Nat
    BY DEF TypeOK
  <2>12. hy + fired <= hx + fired + want
    BY <1>1, <2>10, <2>11
  <2>13. Issues(want)
    BY <1>2, <2>8, <2>9, <2>12, Zenon DEF Issues
  <2>14. avail' + units <= avail + owed /\ owed' = 0 /\ avail' \in 0..FullCap
    BY <1>1, <2>2, TakeType
  <2>15. Pays(want)
    <3>1. PICK a \in Nat : a = avail'
      BY <2>14
    <3>2. a + 0 = a
      OBVIOUS
    <3> QED BY <2>14, <3>1, <3>2, Zenon DEF Pays, units
  <2>16. rpc \in {"emptied", "restored", "traffic"} => Balanced' /\ OfferedWithinRate'
    BY <1>1, <1>2, <2>13, <2>15, RateBalance DEF RateInv
  <2>17. OfferedWithinRate'
    BY <1>2 DEF RateInv, OfferedWithinRate
  <2> QED BY <1>2, <2>16, <2>17 DEF RateInv
<1> QED BY <1>3, <1>4

(* One more sub-unit due is one more accrued.                              *)
LEMMA AccrualBalances ==
  ASSUME TypeOK, TypeOK', RateInv, Accrue
  PROVE  RateInv'
<1>1. /\ UNCHANGED <<rpc, fired, avail, slot>>
      /\ owed' = owed + 1 /\ minted' = minted + 1
  BY DEF Accrue, connVars
<1>2. Held' = Held
  BY <1>1 DEF Held
<1>3. avail \in Nat /\ owed \in Nat /\ minted \in Nat /\ fired \in Nat /\ Stagger \in Nat
  BY TokenAssumption DEF TypeOK
<1>4. ASSUME Balanced PROVE Balanced'
  <2>1. PICK h \in Nat : h = Cardinality(Held)
    BY HeldFinite DEF Held
  <2>2. PICK x \in Nat : x = h + fired
    BY <1>3
  <2>3. x * SUB \in Nat
    BY SubMonotone
  <2>4. avail + owed + x * SUB <= Stagger + minted
    BY <1>4, <2>1, <2>2, Zenon DEF Balanced
  <2>5. avail + (owed + 1) + x * SUB <= Stagger + (minted + 1)
    BY <1>3, <2>3, <2>4
  <2> QED BY <1>1, <1>2, <2>1, <2>2, <2>5, Zenon DEF Balanced
<1>5. OfferedWithinRate'
  <2>1. fired * SUB \in Nat
    BY <1>3, SubMonotone
  <2> QED BY <1>1, <1>3, <2>1 DEF RateInv, OfferedWithinRate
<1> QED BY <1>1, <1>4, <1>5 DEF RateInv

(* A connection whose slot ends with no grant gives up what it held.       *)
LEMMA HeldDrops ==
  ASSUME TypeOK, TypeOK', NEW c \in Conns, slot'[c].granted = 0,
         \A d \in Conns \ {c} : slot'[d] = slot[d]
  PROVE  Cardinality(Held') <= Cardinality(Held)
<1>1. slot \in [Conns -> SlotType] /\ slot' \in [Conns -> SlotType]
  BY DEF TypeOK
<1>2. Cardinality(HeldIn(slot')) + slot[c].granted = Cardinality(HeldIn(slot)) + slot'[c].granted
  BY <1>1, HeldChange
<1>3. PICK hx \in Nat : hx = Cardinality(Held) /\ hx = Cardinality(HeldIn(slot))
  BY HeldFinite DEF Held
<1>4. PICK hy \in Nat : hy = Cardinality(Held') /\ hy = Cardinality(HeldIn(slot'))
  BY HeldFinite DEF Held
<1>5. PICK g \in Nat : g = slot[c].granted
  BY <1>1 DEF SlotType
<1>6. hy + g = hx + 0
  BY <1>2, <1>3, <1>4, <1>5, Zenon
<1>7. hy <= hx
  BY <1>6
<1> QED BY <1>3, <1>4, <1>7, Zenon

LEMMA RateStep ==
  ASSUME TypeOK, TypeOK', PhaseInv, WakeInv, RateInv, [Next]_vars
  PROVE  RateInv'
<1> USE DEF limiterVars, historyVars, connVars, dispVars
<1>0. avail \in Nat /\ owed \in Nat /\ Cardinality(Held) \in Nat
  BY HeldFinite DEF TypeOK, Held
<1>1. ASSUME UNCHANGED <<rpc, fired, minted, avail, owed, slot>> PROVE RateInv'
  <2>1. Held' = Held
    BY <1>1 DEF Held
  <2>2. avail' + owed' <= avail + owed /\ Cardinality(Held') <= Cardinality(Held)
    BY <1>0, <1>1, <2>1
  <2> QED BY <1>1, <2>2, RateKept
<1>2. CASE RestartNarrow \/ RestartRestore \/ SetWarmup \/ SetStop
  <2>1. UNCHANGED <<fired, minted, avail, owed, slot>>
    BY <1>2 DEF RestartNarrow, RestartRestore, SetWarmup, SetStop
  <2>2. Held' = Held
    BY <2>1 DEF Held
  <2>3. (Balanced <=> Balanced') /\ (OfferedWithinRate <=> OfferedWithinRate')
    BY <2>1, <2>2 DEF Balanced, OfferedWithinRate
  <2> QED BY <1>2, <2>1, <2>3 DEF RestartNarrow, RestartRestore, SetWarmup, SetStop, RateInv
<1>3. CASE RestartTake
  BY <1>3, RestartBalances
<1>4. CASE Accrue
  BY <1>4, AccrualBalances
<1>5. CASE DispatchHead
  BY <1>5, GrantBalances
<1>6. CASE TimerFires \/ DispatchEmpty \/ DispatcherResumes \/ Finished \/ UNCHANGED vars
  BY <1>1, <1>6 DEF TimerFires, DispatchEmpty, DispatcherResumes, Finished, vars
<1>7. CASE DispatcherDrains
  <2>1. UNCHANGED <<rpc, fired, minted>> /\ rpc \notin {"emptied", "restored", "traffic"}
    BY <1>7 DEF DispatcherDrains, PhaseInv
  <2> QED BY <2>1, RateKept
<1>8. ASSUME NEW c \in Conns, Connection(c) PROVE RateInv'
  <2>0. NoSlot.granted = 0 /\ QueuedSlot.granted = 0
    BY DEF NoSlot, QueuedSlot
  <2>1. ASSUME Leave(c) \/ Acquire(c) PROVE Cardinality(Held') <= Cardinality(Held)
    <3>1. slot'[c].granted = 0 /\ \A d \in Conns \ {c} : slot'[d] = slot[d]
      BY <2>0, <2>1 DEF Leave, Acquire, TypeOK
    <3> QED BY <3>1, HeldDrops
  <2>2. CASE ConnFires(c)
    BY <2>2, FiringBalances
  <2>3. CASE ConnIdles(c) \/ ConnFails(c) \/ ConnExits(c)
    <3>1. Leave(c) /\ UNCHANGED <<rpc, fired, minted, avail, owed>>
      BY <2>3 DEF ConnIdles, ConnFails, ConnExits
    <3>2. avail' + owed' <= avail + owed
      BY <1>0, <3>1
    <3> QED BY <2>1, <3>1, <3>2, RateKept
  <2>4. CASE ConnReconnects(c)
    BY <1>1, <2>4 DEF ConnReconnects
  <2>5. CASE ConnStarves(c)
    <3>1. PICK p \in 0..Depth : ConnStarves(c)!(p)
      BY <2>5 DEF ConnStarves
    <3> DEFINE n == Least(Batch, MaxTokens)
    <3>2. UNCHANGED <<rpc, fired, minted>> /\ (Leave(c) \/ Acquire(c))
      BY <3>1
    <3>3. TakeUnits(n * SUB) \/ UNCHANGED <<avail, owed>>
      BY <3>1
    <3>4. n * SUB \in Nat
      BY WantType
    <3> HIDE DEF n
    <3>5. avail' + owed' <= avail + owed
      BY <1>0, <3>3, <3>4, RefusedTake
    <3> QED BY <2>1, <3>2, <3>5, RateKept
  <2> QED BY <1>8, <2>2, <2>3, <2>4, <2>5 DEF Connection
<1> QED
  BY <1>2, <1>3, <1>4, <1>5, <1>6, <1>7, <1>8 DEF Next, Runner, Dispatcher

LEMMA RateInit == Init => RateInv
<1> SUFFICES ASSUME Init PROVE RateInv
  OBVIOUS
<1>1. rpc = "prefill" /\ fired = 0 /\ minted = 0
  BY DEF Init
<1>2. 0 * SUB = 0 /\ Stagger \in Nat
  BY TokenAssumption, SMT
<1> QED BY <1>1, <1>2 DEF RateInv, OfferedWithinRate

(* Offered load never exceeds the stagger plus what accrued since restart. *)
THEOREM RateConformance == Spec => []OfferedWithinRate
<1>1. RateInv => OfferedWithinRate
  BY DEF RateInv
<1> QED BY <1>1, RateInit, RateStep, WakeAlways, PTL DEF Spec
=============================================================================
