------------------------- MODULE RunnerPhasesProofs -------------------------
(***************************************************************************)
(* Proofs, for every number of workers, set of connections, trace length   *)
(* and read-ahead, of the safety properties of RunnerPhases.               *)
(***************************************************************************)
EXTENDS RunnerPhases, FiniteSetTheorems, TLAPS

(* The connections that are at p, and how many they are.                   *)
At(p)  == {c \in Conns : cpc[c] = p}
Num(p) == Cardinality(At(p))

(* The rows that are marked recorded and the ones that are not.            *)
RowsIn  == rows[TRUE]
RowsOut == rows[FALSE]

(* What made the runner stop, and how it returned.                         *)
Reasons == {None, "signal", "trace error", "no connectivity", "prefill failed", "finished",
            "time", "searched"}
Results == {None, "startup failed", "no connectivity", "prefill failed", "trace error",
            "nothing recorded", "ok"}

Types ==
  /\ mode \in Modes /\ warmup \in BOOLEAN /\ search \in BOOLEAN
  /\ phase \in {"Precheck", "Prefill", "Warmup", "Running", "Stop"}
  /\ started \in Nat /\ prechecks \in Nat /\ checked \in SUBSET Workers
  /\ thread \in [Workers -> {"setup", "made", "up", "exited"}]
  /\ cpc \in [Conns -> {"unborn", "down", "ping", "drive", "run", "marked", "counted", "gone"}]
  /\ rpc \in {"launch", "loop", "base", "join", "joining", "end"} /\ joined \in 0..NumThreads
  /\ deadline \in BOOLEAN /\ clock \in BOOLEAN /\ signalled \in BOOLEAN
  /\ reader \in {"reading", "read", "broken"} /\ sent \in Nat
  /\ claimed \in Nat /\ returned \in Nat /\ finished \in Nat
  /\ counted \in [ok : Nat, failed : Nat]
  /\ base \in [ok : Nat, failed : Nat] \cup {None}
  /\ rows \in [BOOLEAN -> Nat]
  /\ why \in Reasons /\ result \in Results

(* The workers that have not started.                                      *)
Waiting == {w \in Workers : thread[w] \in {"setup", "made"}}

(* A worker starts once and is counted in precheck_done once, with its own *)
(* flag; a connection task runs only while its worker's event loop does.   *)
WorkersCounted ==
  /\ prechecks = Cardinality(checked)
  /\ started + Cardinality(Waiting) <= NumThreads
  /\ \A w \in Workers : thread[w] = "setup" => w \notin checked
  /\ \A c \in Conns : cpc[c] \notin {"unborn", "gone"} => thread[WorkerOf[c]] = "up"

(* Where every claimed request is: waiting, being run, finished; and every *)
(* finished one: about to be counted, counted, and in a row.               *)
RequestsCounted ==
  /\ sent <= Requests /\ claimed <= sent
  /\ finished + returned + Num("run") <= claimed
  /\ finished = counted.ok + counted.failed + Num("marked")
  /\ counted.ok = RowsIn + RowsOut + Num("counted")

(* What the phase says of the run so far.                                  *)
PhaseMeans ==
  /\ phase \in {"Prefill", "Warmup", "Running"} \/ clock => checked = Workers
  /\ claimed > 0 => clock
  /\ phase = "Stop" => rpc \in {"join", "joining", "end"}
  /\ rpc = "base" => phase = "Warmup"
  /\ rpc = "joining" => joined < NumThreads
  /\ why # None => phase = "Stop"
  /\ reader = "read" => sent = Requests

(* A replay ended as finished has no request left anywhere.                *)
FinishedForGood ==
  why = "finished" => finished = sent /\ reader # "reading"

(* When the replay's clock starts, and what the baseline is.               *)
ClockAndBase ==
  /\ clock => mode = "replay"
  /\ ~warmup /\ phase \in {"Precheck", "Prefill", "Warmup"} => ~clock
  /\ mode = "replay" /\ (rpc = "base" \/ phase = "Running" \/ (~warmup /\ clock)) => base # None
  /\ ~warmup /\ base # None => base = [ok |-> 0, failed |-> 0]
  /\ base # None => base.ok <= counted.ok /\ base.failed <= counted.failed

(* No row is marked recorded before Running; from the baseline on, what is *)
(* counted and not yet in a row makes up for the requests before it.       *)
RowsAndBase ==
  /\ phase \in {"Precheck", "Prefill", "Warmup"} => RowsIn = 0
  /\ base # None =>
       RowsIn + Num("counted") <= (counted.ok - base.ok) + Cardinality(Conns)

IInv ==
  /\ Types /\ WorkersCounted /\ RequestsCounted /\ PhaseMeans /\ FinishedForGood
  /\ ClockAndBase /\ RowsAndBase

-----------------------------------------------------------------------------
(* Counting connections                                                    *)

(* At(p) is finite and counts no more than all connections.                *)
LEMMA NumFacts ==
  ASSUME NEW p
  PROVE  /\ IsFiniteSet(At(p)) /\ Num(p) \in Nat
         /\ Num(p) <= Cardinality(Conns) /\ Cardinality(Conns) \in Nat
         /\ \A c \in Conns : cpc[c] = p => Num(p) >= 1
<1>1. IsFiniteSet(Conns) /\ At(p) \in SUBSET Conns
  BY RunnerAssumption DEF At
<1>2. IsFiniteSet(At(p)) /\ Num(p) \in Nat /\ Num(p) <= Cardinality(Conns)
  BY <1>1, FS_Subset, FS_CardinalityType DEF Num
<1>3. ASSUME NEW c \in Conns, cpc[c] = p PROVE Num(p) >= 1
  <2>1. At(p) # {}
    BY <1>3 DEF At
  <2> QED BY <2>1, <1>2, FS_EmptySet DEF Num
<1> QED
  BY <1>1, <1>2, <1>3, FS_CardinalityType

(* A task that goes from o to q is counted at q and no longer at o.        *)
LEMMA GoCounts ==
  ASSUME Types, NEW c \in Conns, NEW q, Go(c, q), cpc[c] # q, NEW p
  PROVE  Num(p)' = IF p = q THEN Num(p) + 1
                   ELSE IF p = cpc[c] THEN Num(p) - 1 ELSE Num(p)
<1>1. IsFiniteSet(At(p))
  BY NumFacts
<1>2. cpc' = [cpc EXCEPT ![c] = q] /\ DOMAIN cpc = Conns
  BY DEF Go, Types
<1>3. CASE p = q
  <2>1. At(p)' = At(p) \cup {c} /\ c \notin At(p)
    BY <1>2, <1>3 DEF At
  <2> QED BY <2>1, <1>1, <1>3, FS_AddElement DEF Num
<1>4. CASE p # q /\ p = cpc[c]
  <2>1. At(p)' = At(p) \ {c} /\ c \in At(p)
    BY <1>2, <1>4 DEF At
  <2> QED BY <2>1, <1>1, <1>4, FS_RemoveElement DEF Num
<1>5. CASE p # q /\ p # cpc[c]
  <2>1. At(p)' = At(p)
    BY <1>2, <1>5 DEF At
  <2> QED BY <2>1, <1>5 DEF Num
<1> QED
  BY <1>3, <1>4, <1>5

(* Tasks that stay where they are are counted as before.                   *)
LEMMA SameCounts ==
  ASSUME cpc' = cpc, NEW p
  PROVE  Num(p)' = Num(p)
<1>1. At(p)' = At(p)
  BY DEF At
<1> QED
  BY <1>1 DEF Num

(* Enough prechecks are those of every worker.                             *)
LEMMA AllChecked ==
  ASSUME Types, prechecks = Cardinality(checked)
  PROVE  /\ prechecks <= NumThreads
         /\ prechecks >= NumThreads => checked = Workers
<1>1. IsFiniteSet(Workers) /\ Cardinality(Workers) = NumThreads
  BY FS_Interval, RunnerAssumption DEF Workers
<1>2. checked \in SUBSET Workers /\ prechecks \in Nat
  BY DEF Types
<1>3. Cardinality(checked) <= Cardinality(Workers)
      /\ (Cardinality(Workers) = Cardinality(checked) => Workers = checked)
  BY <1>1, <1>2, FS_Subset
<1> QED
  BY <1>1, <1>2, <1>3, RunnerAssumption

LEMMA InvInit == Init => IInv
<1> SUFFICES ASSUME Init PROVE IInv
  OBVIOUS
<1>1. Types
  <2>1. why \in Reasons /\ result \in Results
    BY Zenon DEF Init, Reasons, Results
  <2>2. search \in BOOLEAN /\ joined = 0 /\ 0 \in 0..NumThreads
    BY RunnerAssumption DEF Init
  <2> QED BY <2>1, <2>2, RunnerAssumption DEF Init, Types
<1>2. \A p \in {"run", "marked", "counted"} : Num(p) = 0
  <2>1. \A p \in {"run", "marked", "counted"} : At(p) = {}
    BY DEF Init, At
  <2> QED BY <2>1, FS_EmptySet DEF Num
<1>3. WorkersCounted
  <2>1. Waiting \subseteq Workers /\ Waiting = Workers
    BY DEF Init, Waiting
  <2>2. Cardinality(Workers) = NumThreads
    BY FS_Interval, RunnerAssumption DEF Workers
  <2>3. Cardinality(checked) = 0
    BY FS_EmptySet DEF Init
  <2> QED BY <2>1, <2>2, <2>3, RunnerAssumption DEF Init, WorkersCounted
<1>4. RequestsCounted
  BY <1>2, RunnerAssumption DEF Init, RequestsCounted, RowsIn, RowsOut
<1>5. PhaseMeans /\ FinishedForGood /\ ClockAndBase /\ RowsAndBase
  BY RunnerAssumption DEF Init, PhaseMeans, FinishedForGood, ClockAndBase, RowsAndBase, RowsIn, RowsOut
<1> QED
  BY <1>1, <1>3, <1>4, <1>5 DEF IInv

-----------------------------------------------------------------------------
(* One step of a worker                                                    *)

(* A worker that has started is no longer waiting.                         *)
LEMMA WaitingStep ==
  ASSUME Types, NEW w \in Workers, NEW q \in {"made", "up", "exited"},
         q = "made" => thread[w] = "setup", thread' = [thread EXCEPT ![w] = q]
  PROVE  /\ Cardinality(Waiting) \in Nat /\ Cardinality(Waiting)' \in Nat
         /\ Cardinality(Waiting)' <= Cardinality(Waiting)
         /\ thread[w] = "made" /\ q = "up" => Cardinality(Waiting)' = Cardinality(Waiting) - 1
<1>1. IsFiniteSet(Workers)
  BY FS_Interval, RunnerAssumption DEF Workers
<1>2. IsFiniteSet(Waiting) /\ Cardinality(Waiting) \in Nat
  BY <1>1, FS_Subset, FS_CardinalityType DEF Waiting
<1>3. CASE q = "made"
  <2>1. Waiting' = Waiting
    BY <1>3 DEF Waiting, Types
  <2> QED BY <2>1, <1>2, <1>3
<1>4. CASE q # "made"
  <2>1. Waiting' = Waiting \ {w} /\ (thread[w] = "made" => w \in Waiting)
    BY <1>4 DEF Waiting, Types
  <2>2. /\ Cardinality(Waiting \ {w}) = IF w \in Waiting THEN Cardinality(Waiting) - 1
                                                       ELSE Cardinality(Waiting)
        /\ Cardinality(Waiting \ {w}) \in Nat
    BY <1>2, FS_RemoveElement, FS_CardinalityType
  <2> QED BY <2>1, <2>2, <1>2
<1> QED
  BY <1>3, <1>4

(* Only a worker that is not up has tasks that have not started, so the    *)
(* requests that tasks hold are those of the workers that are up.          *)
LEMMA StartCounts ==
  ASSUME Types, WorkersCounted, NEW w \in Workers, Start(w),
         NEW p \in {"run", "marked", "counted"}
  PROVE  Num(p)' = Num(p)
<1>1. \A c \in Conns : WorkerOf[c] = w => cpc[c] \in {"unborn", "gone"}
  BY DEF Start, WorkersCounted, Types
<1>2. At(p)' = At(p)
  BY <1>1 DEF Start, At, Types
<1> QED
  BY <1>2 DEF Num

(* The tasks of a worker that exits hold no request that has finished.     *)
LEMMA ExitCounts ==
  ASSUME Types, NEW w \in Workers, Exit(w)
  PROVE  /\ Num("run")' <= Num("run") /\ Num("run")' \in Nat
         /\ Num("marked")' = Num("marked") /\ Num("counted")' = Num("counted")
<1>1. At("run")' \in SUBSET At("run")
  BY DEF Exit, At, Types
<1>2. At("marked")' = At("marked") /\ At("counted")' = At("counted")
  BY DEF Exit, AtAwait, ConnsOf, At, Types
<1>3. Cardinality(At("run")') <= Cardinality(At("run")) /\ Cardinality(At("run")') \in Nat
  BY <1>1, NumFacts, FS_Subset, FS_CardinalityType
<1> QED
  BY <1>2, <1>3 DEF Num

LEMMA WorkerStep ==
  ASSUME IInv, NEW w \in Workers, Worker(w)
  PROVE  IInv'
<1> USE DEF IInv, config, checks, file, replay, runner
<1>1. \A p : Num(p) \in Nat
  BY NumFacts
<1>2. CASE Create(w)
  <2>1. \A p : Num(p)' = Num(p)
    BY <1>2, SameCounts DEF Create
  <2>2. Types'
    BY <1>2 DEF Create, Types
  <2>3. WorkersCounted'
    <3>1. started' + Cardinality(Waiting)' <= NumThreads
      <4>1. /\ Cardinality(Waiting) \in Nat /\ Cardinality(Waiting)' \in Nat
            /\ Cardinality(Waiting)' <= Cardinality(Waiting)
        BY <1>2, WaitingStep DEF Create
      <4> QED BY <1>2, <4>1, RunnerAssumption DEF Create, WorkersCounted, Types
    <3>2. IsFiniteSet(checked)
      <4>1. IsFiniteSet(Workers)
        BY FS_Interval, RunnerAssumption DEF Workers
      <4> QED BY <4>1, FS_Subset DEF Types
    <3>3. prechecks' = Cardinality(checked)'
      BY <1>2, <3>2, FS_AddElement DEF Create, WorkersCounted, Types
    <3> QED BY <1>2, <3>1, <3>3 DEF Create, WorkersCounted, Types, ConnsOf
  <2>4. RequestsCounted'
    BY <1>2, <2>1 DEF Create, RequestsCounted, RowsIn, RowsOut
  <2>5. PhaseMeans'
    BY <1>2 DEF Create, PhaseMeans, WorkersCounted
  <2>6. FinishedForGood' /\ ClockAndBase' /\ RowsAndBase'
    BY <1>2, <2>1 DEF Create, FinishedForGood, ClockAndBase, RowsAndBase, RowsIn, RowsOut
  <2> QED BY <2>2, <2>3, <2>4, <2>5, <2>6
<1>3. CASE Start(w)
  <2>1. \A p \in {"run", "marked", "counted"} : Num(p)' = Num(p)
    BY <1>3, StartCounts
  <2>2. Types'
    BY <1>3 DEF Start, Types
  <2>3. WorkersCounted'
    <3>1. started' + Cardinality(Waiting)' <= NumThreads
      <4>1. /\ Cardinality(Waiting) \in Nat /\ Cardinality(Waiting)' \in Nat
            /\ Cardinality(Waiting)' = Cardinality(Waiting) - 1
        BY <1>3, WaitingStep DEF Start
      <4> QED BY <1>3, <4>1, RunnerAssumption DEF Start, WorkersCounted, Types
    <3> QED BY <1>3, <3>1, RunnerAssumption DEF Start, WorkersCounted, Types
  <2>4. RequestsCounted'
    BY <1>3, <2>1 DEF Start, RequestsCounted, RowsIn, RowsOut
  <2>5. PhaseMeans' /\ FinishedForGood' /\ ClockAndBase' /\ RowsAndBase'
    BY <1>3, <2>1 DEF Start, PhaseMeans, FinishedForGood, ClockAndBase, RowsAndBase, RowsIn, RowsOut
  <2> QED BY <2>2, <2>3, <2>4, <2>5
<1>4. CASE FailsToStart(w)
  <2>1. \A p : Num(p)' = Num(p)
    BY <1>4, SameCounts DEF FailsToStart
  <2>2. Types'
    BY <1>4 DEF FailsToStart, Types
  <2>3. WorkersCounted'
    <3>1. started' + Cardinality(Waiting)' <= NumThreads
      <4>1. /\ Cardinality(Waiting) \in Nat /\ Cardinality(Waiting)' \in Nat
            /\ Cardinality(Waiting)' <= Cardinality(Waiting)
        BY <1>4, WaitingStep DEF FailsToStart
      <4> QED BY <1>4, <4>1, RunnerAssumption DEF FailsToStart, WorkersCounted, Types
    <3> QED BY <1>4, <3>1, RunnerAssumption DEF FailsToStart, WorkersCounted, Types
  <2>4. RequestsCounted'
    BY <1>4, <2>1 DEF FailsToStart, RequestsCounted, RowsIn, RowsOut
  <2>5. PhaseMeans' /\ FinishedForGood' /\ ClockAndBase' /\ RowsAndBase'
    BY <1>4, <2>1 DEF FailsToStart, PhaseMeans, FinishedForGood, ClockAndBase, RowsAndBase, RowsIn, RowsOut
  <2> QED BY <2>2, <2>3, <2>4, <2>5
<1>5. CASE Exit(w)
  <2>1. /\ Num("run")' <= Num("run") /\ Num("run")' \in Nat
        /\ Num("marked")' = Num("marked") /\ Num("counted")' = Num("counted")
    BY <1>5, ExitCounts
  <2>2. Types'
    BY <1>5 DEF Exit, Types
  <2>3. WorkersCounted'
    <3>1. started' + Cardinality(Waiting)' <= NumThreads
      <4>1. /\ Cardinality(Waiting) \in Nat /\ Cardinality(Waiting)' \in Nat
            /\ Cardinality(Waiting)' <= Cardinality(Waiting)
        BY <1>5, WaitingStep DEF Exit
      <4> QED BY <1>5, <4>1, RunnerAssumption DEF Exit, WorkersCounted, Types
    <3> QED BY <1>5, <3>1, RunnerAssumption DEF Exit, WorkersCounted, Types
  <2>4. RequestsCounted'
    <3>1. Num("run") \in Nat /\ finished \in Nat /\ returned \in Nat /\ claimed \in Nat
      BY <1>1 DEF Types
    <3>2. finished' = finished /\ returned' = returned /\ claimed' = claimed
          /\ sent' = sent /\ counted' = counted /\ rows' = rows
      BY <1>5 DEF Exit
    <3>3. finished' + returned' + Num("run")' <= claimed'
      <4>1. finished + returned + Num("run") <= claimed
        BY DEF RequestsCounted
      <4> QED BY <2>1, <3>1, <3>2, <4>1
    <3> QED BY <2>1, <3>2, <3>3 DEF RequestsCounted, RowsIn, RowsOut
  <2>5. PhaseMeans' /\ FinishedForGood' /\ ClockAndBase' /\ RowsAndBase'
    BY <1>5, <2>1 DEF Exit, PhaseMeans, FinishedForGood, ClockAndBase, RowsAndBase, RowsIn, RowsOut
  <2> QED BY <2>2, <2>3, <2>4, <2>5
<1> QED
  BY <1>2, <1>3, <1>4, <1>5 DEF Worker

-----------------------------------------------------------------------------
(* One step of a connection task                                           *)

(* The numbers the invariants add up.                                      *)
LEMMA Numbers ==
  ASSUME IInv
  PROVE  /\ sent \in Nat /\ claimed \in Nat /\ returned \in Nat /\ finished \in Nat
         /\ counted.ok \in Nat /\ counted.failed \in Nat
         /\ RowsIn \in Nat /\ RowsOut \in Nat /\ Requests \in Nat
         /\ Num("run") \in Nat /\ Num("marked") \in Nat /\ Num("counted") \in Nat
         /\ Cardinality(Conns) \in Nat
<1>1. RowsIn \in Nat /\ RowsOut \in Nat
  BY DEF IInv, Types, RowsIn, RowsOut
<1> QED
  BY <1>1, NumFacts, RunnerAssumption DEF IInv, Types

(* A task moves while its worker's event loop runs.                        *)
LEMMA TaskWorkers ==
  ASSUME IInv, NEW c \in Conns, Task(c)
  PROVE  WorkersCounted'
<1> USE DEF IInv, config, checks, file, replay, runner
<1>1. thread' = thread /\ started' = started
  BY DEF Task, Connect, Pong, PingFails, Claim, MarkFinished, RecordOutcome, RecordFailure,
         WriteRow, Lose
<1>2. /\ cpc[c] \in {"down", "ping", "drive", "run", "marked", "counted"}
      /\ \E q : cpc' = [cpc EXCEPT ![c] = q]
  BY DEF Task, Connect, Pong, PingFails, Claim, MarkFinished, RecordOutcome, RecordFailure,
         WriteRow, Lose, Go
<1>3. WorkerOf[c] \in Workers /\ thread[WorkerOf[c]] = "up"
  BY <1>2, RunnerAssumption DEF WorkersCounted
<1>4. \A d \in Conns : cpc'[d] \notin {"unborn", "gone"} => thread'[WorkerOf[d]] = "up"
  BY <1>1, <1>2, <1>3 DEF WorkersCounted, Types
<1>5. Cardinality(Waiting)' = Cardinality(Waiting)
  BY <1>1 DEF Waiting
<1>6. CASE checked' = checked /\ prechecks' = prechecks
  BY <1>1, <1>4, <1>5, <1>6 DEF WorkersCounted
<1>7. CASE MarkPrecheckDone(WorkerOf[c])
  <2>1. IsFiniteSet(checked)
    <3>1. IsFiniteSet(Workers)
      BY FS_Interval, RunnerAssumption DEF Workers
    <3> QED BY <3>1, FS_Subset DEF Types
  <2>2. prechecks' = Cardinality(checked)'
    BY <1>7, <2>1, FS_AddElement DEF MarkPrecheckDone, WorkersCounted
  <2>3. \A w \in Workers : thread'[w] = "setup" => w \notin checked'
    BY <1>1, <1>3, <1>7 DEF MarkPrecheckDone, WorkersCounted
  <2> QED BY <1>1, <1>4, <1>5, <2>2, <2>3 DEF WorkersCounted
<1> QED
  BY <1>6, <1>7 DEF Task, Connect, Pong, PingFails, Claim, MarkFinished, RecordOutcome,
         RecordFailure, WriteRow, Lose

(* The tasks that have no request to do with change no total.              *)
LEMMA QuietStep ==
  ASSUME IInv, NEW c \in Conns, Connect(c) \/ Pong(c) \/ PingFails(c)
  PROVE  IInv'
<1> USE DEF IInv, config, checks, file, replay, runner
<1>1. \A p \in {"run", "marked", "counted"} : Num(p)' = Num(p)
  <2>1. cpc[c] \in {"down", "ping"} /\ \E q \in {"down", "ping", "drive"} : q # cpc[c] /\ Go(c, q)
    BY DEF Connect, Pong, PingFails
  <2> QED BY <2>1, GoCounts
<1>2. Types'
  <2>1. WorkerOf[c] \in Workers
    BY RunnerAssumption
  <2> QED BY <2>1 DEF Connect, Pong, PingFails, MarkPrecheckDone, Go, Types
<1>3. WorkersCounted'
  BY TaskWorkers DEF Task
<1>4. RequestsCounted' /\ FinishedForGood' /\ ClockAndBase' /\ RowsAndBase'
  <2>1. UNCHANGED <<mode, warmup, search, phase, reader, sent, clock, claimed, returned, finished,
                    counted, rows, rpc, joined, base, why>>
    BY DEF Connect, Pong, PingFails
  <2> QED BY <1>1, <2>1 DEF RequestsCounted, FinishedForGood, ClockAndBase, RowsAndBase, RowsIn, RowsOut
<1>5. PhaseMeans'
  <2>1. WorkerOf[c] \in Workers
    BY RunnerAssumption
  <2> QED BY <2>1 DEF Connect, Pong, PingFails, MarkPrecheckDone, PhaseMeans
<1> QED
  BY <1>2, <1>3, <1>4, <1>5

(* A request is claimed while the run goes on, so none is claimed once the *)
(* replay was ended as finished.                                           *)
LEMMA ClaimStep ==
  ASSUME IInv, NEW c \in Conns, Claim(c)
  PROVE  IInv'
<1> USE DEF IInv, config, checks, file, replay, runner
<1>1. /\ Num("run")' = Num("run") + 1
      /\ Num("marked")' = Num("marked") /\ Num("counted")' = Num("counted")
  BY GoCounts DEF Claim
<1>2. Types'
  BY DEF Claim, Go, Types
<1>3. WorkersCounted'
  BY TaskWorkers DEF Task
<1>4. RequestsCounted'
  <2>1. /\ finished \in Nat /\ returned \in Nat /\ Num("run") \in Nat /\ claimed \in Nat
        /\ sent \in Nat
    BY Numbers
  <2>2. finished + returned + Num("run") <= claimed /\ claimed <= sent
    BY DEF RequestsCounted
  <2>3. UNCHANGED <<sent, finished, counted, rows>>
    BY DEF Claim
  <2>4. claimed' <= sent /\ finished + returned' + (Num("run") + 1) <= claimed'
    BY <2>1, <2>2 DEF Claim
  <2> QED BY <1>1, <2>3, <2>4 DEF RequestsCounted, RowsIn, RowsOut
<1>5. PhaseMeans' /\ FinishedForGood' /\ ClockAndBase' /\ RowsAndBase'
  BY <1>1, Numbers DEF Claim, PhaseMeans, FinishedForGood, ClockAndBase, RowsAndBase, RowsIn, RowsOut
<1> QED
  BY <1>2, <1>3, <1>4, <1>5

(* A finished request was running: not all requests were finished before.  *)
LEMMA MarkStep ==
  ASSUME IInv, NEW c \in Conns, MarkFinished(c)
  PROVE  IInv'
<1> USE DEF IInv, config, checks, file, replay, runner
<1>1. /\ Num("run")' = Num("run") - 1 /\ Num("run") >= 1
      /\ Num("marked")' = Num("marked") + 1 /\ Num("counted")' = Num("counted")
  BY GoCounts, NumFacts DEF MarkFinished
<1>2. Types'
  BY DEF MarkFinished, Go, Types
<1>3. WorkersCounted'
  BY TaskWorkers DEF Task
<1>4. RequestsCounted' /\ finished < sent
  <2>1. /\ finished \in Nat /\ returned \in Nat /\ Num("run") \in Nat /\ claimed \in Nat
        /\ sent \in Nat /\ counted.ok \in Nat /\ counted.failed \in Nat /\ Num("marked") \in Nat
    BY Numbers
  <2>2. /\ finished + returned + Num("run") <= claimed /\ claimed <= sent
        /\ finished = counted.ok + counted.failed + Num("marked")
    BY DEF RequestsCounted
  <2>3. finished' = finished + 1 /\ UNCHANGED <<sent, returned, claimed, counted, rows>>
    BY DEF MarkFinished
  <2>4. /\ finished < sent
        /\ finished' + returned + (Num("run") - 1) <= claimed
        /\ finished' = counted.ok + counted.failed + (Num("marked") + 1)
    BY <1>1, <2>1, <2>2, <2>3
  <2> QED BY <1>1, <2>3, <2>4 DEF RequestsCounted, RowsIn, RowsOut
<1>5. FinishedForGood'
  BY <1>4, Numbers DEF MarkFinished, FinishedForGood
<1>6. PhaseMeans' /\ ClockAndBase' /\ RowsAndBase'
  BY <1>1 DEF MarkFinished, PhaseMeans, ClockAndBase, RowsAndBase, RowsIn, RowsOut
<1> QED
  BY <1>2, <1>3, <1>4, <1>5, <1>6

(* A finished request is counted among the ones that are done, or failed.  *)
LEMMA RecordStep ==
  ASSUME IInv, NEW c \in Conns, RecordOutcome(c) \/ RecordFailure(c)
  PROVE  IInv'
<1> USE DEF IInv, config, checks, file, replay, runner
<1>1. /\ finished \in Nat /\ counted.ok \in Nat /\ counted.failed \in Nat
      /\ RowsIn \in Nat /\ RowsOut \in Nat
      /\ Num("marked") \in Nat /\ Num("counted") \in Nat /\ Cardinality(Conns) \in Nat
  BY Numbers
<1>2. Num("run")' = Num("run") /\ Num("marked")' = Num("marked") - 1
  BY GoCounts DEF RecordOutcome, RecordFailure
<1>3. \/ /\ Num("counted")' = Num("counted") + 1
         /\ counted'.ok = counted.ok + 1 /\ counted'.failed = counted.failed
      \/ /\ Num("counted")' = Num("counted")
         /\ counted'.ok = counted.ok /\ counted'.failed = counted.failed + 1
  <2>1. CASE RecordOutcome(c)
    BY <2>1, GoCounts DEF RecordOutcome, Types
  <2>2. CASE RecordFailure(c)
    BY <2>2, GoCounts DEF RecordFailure, Types
  <2> QED BY <2>1, <2>2
<1>4. UNCHANGED <<mode, warmup, search, phase, checks, reader, sent, clock, claimed, returned, finished,
                  rows, rpc, joined, base, why>>
  BY DEF RecordOutcome, RecordFailure
<1>5. Types'
  BY <1>1 DEF RecordOutcome, RecordFailure, Go, Types
<1>6. WorkersCounted'
  BY TaskWorkers DEF Task
<1>7. RequestsCounted'
  <2>1. /\ finished = counted.ok + counted.failed + Num("marked")
        /\ counted.ok = RowsIn + RowsOut + Num("counted")
    BY DEF RequestsCounted
  <2>2. /\ finished = counted'.ok + counted'.failed + Num("marked")'
        /\ counted'.ok = RowsIn + RowsOut + Num("counted")'
    <3> HIDE DEF IInv
    <3>1. CASE counted'.ok = counted.ok + 1 /\ Num("counted")' = Num("counted") + 1
               /\ counted'.failed = counted.failed
      BY <1>1, <1>2, <2>1, <3>1
    <3>2. CASE counted'.failed = counted.failed + 1 /\ Num("counted")' = Num("counted")
               /\ counted'.ok = counted.ok
      BY <1>1, <1>2, <2>1, <3>2
    <3> QED BY <1>3, <3>1, <3>2
  <2> QED BY <1>2, <1>4, <2>2 DEF RequestsCounted, RowsIn, RowsOut
<1>8. PhaseMeans' /\ FinishedForGood'
  BY <1>4 DEF PhaseMeans, FinishedForGood
<1>9. ClockAndBase' /\ RowsAndBase'
  <2>1. CASE base = None
    BY <1>4, <2>1 DEF ClockAndBase, RowsAndBase, RowsIn, RowsOut
  <2>2. CASE base # None
    <3>1. base.ok \in Nat /\ base.failed \in Nat
      BY <2>2 DEF Types
    <3>2. /\ base.ok <= counted.ok /\ base.failed <= counted.failed
          /\ RowsIn + Num("counted") <= (counted.ok - base.ok) + Cardinality(Conns)
      BY <2>2 DEF ClockAndBase, RowsAndBase
    <3>3. /\ base.ok <= counted'.ok /\ base.failed <= counted'.failed
          /\ RowsIn + Num("counted")' <= (counted'.ok - base.ok) + Cardinality(Conns)
      <4> HIDE DEF IInv
      <4>1. CASE counted'.ok = counted.ok + 1 /\ Num("counted")' = Num("counted") + 1
                 /\ counted'.failed = counted.failed
        BY <1>1, <1>2, <3>1, <3>2, <4>1
      <4>2. CASE counted'.failed = counted.failed + 1 /\ Num("counted")' = Num("counted")
                 /\ counted'.ok = counted.ok
        BY <1>1, <1>2, <3>1, <3>2, <4>2
      <4> QED BY <1>3, <4>1, <4>2
    <3> QED BY <1>4, <2>2, <3>3 DEF ClockAndBase, RowsAndBase, RowsIn, RowsOut
  <2> QED BY <2>1, <2>2
<1> QED
  BY <1>5, <1>6, <1>7, <1>8, <1>9

(* The row of a counted request is marked recorded only while Running.     *)
LEMMA RowStep ==
  ASSUME IInv, NEW c \in Conns, WriteRow(c)
  PROVE  IInv'
<1> USE DEF IInv, config, checks, file, replay, runner
<1>1. /\ counted.ok \in Nat /\ RowsIn \in Nat /\ RowsOut \in Nat
      /\ Num("counted") \in Nat /\ Cardinality(Conns) \in Nat
  BY Numbers
<1>2. /\ Num("run")' = Num("run") /\ Num("marked")' = Num("marked")
      /\ Num("counted")' = Num("counted") - 1
  BY GoCounts DEF WriteRow
<1>3. /\ phase = "Running" => RowsIn' = RowsIn + 1 /\ RowsOut' = RowsOut
      /\ phase # "Running" => RowsOut' = RowsOut + 1 /\ RowsIn' = RowsIn
      /\ rows' \in [BOOLEAN -> Nat]
  <2>1. rows' = [rows EXCEPT ![phase = "Running"] = rows[phase = "Running"] + 1]
    BY DEF WriteRow
  <2>2. CASE phase = "Running"
    <3>1. rows' = [rows EXCEPT ![TRUE] = RowsIn + 1]
      BY <2>1, <2>2 DEF RowsIn
    <3>2. RowsIn' = RowsIn + 1 /\ RowsOut' = RowsOut
      BY <3>1 DEF Types, RowsIn, RowsOut
    <3>3. rows' \in [BOOLEAN -> Nat]
      <4>1. rows \in [BOOLEAN -> Nat] /\ RowsIn + 1 \in Nat
        BY <1>1 DEF Types
      <4> QED BY <3>1, <4>1, Zenon
    <3> QED BY <2>2, <3>2, <3>3
  <2>3. CASE phase # "Running"
    <3>1. (phase = "Running") = FALSE
      BY <2>3
    <3>2. rows' = [rows EXCEPT ![FALSE] = RowsOut + 1]
      BY <2>1, <3>1 DEF RowsOut
    <3>3. RowsOut' = RowsOut + 1 /\ RowsIn' = RowsIn
      BY <3>2 DEF Types, RowsIn, RowsOut
    <3>4. rows' \in [BOOLEAN -> Nat]
      <4>1. rows \in [BOOLEAN -> Nat] /\ RowsOut + 1 \in Nat
        BY <1>1 DEF Types
      <4> QED BY <3>2, <4>1, Zenon
    <3> QED BY <2>3, <3>3, <3>4
  <2> QED BY <2>2, <2>3
<1>4. UNCHANGED <<mode, warmup, search, phase, checks, reader, sent, clock, claimed, returned, finished,
                  counted, rpc, joined, base, why>>
  BY DEF WriteRow
<1>5. Types'
  BY <1>3 DEF WriteRow, Go, Types
<1>6. WorkersCounted'
  BY TaskWorkers DEF Task
<1>7. RequestsCounted'
  <2>1. counted.ok = RowsIn + RowsOut + Num("counted")
    BY DEF RequestsCounted
  <2>2. counted.ok = RowsIn' + RowsOut' + Num("counted")'
    BY <1>1, <1>2, <1>3, <2>1
  <2> QED BY <1>2, <1>4, <2>2 DEF RequestsCounted
<1>8. PhaseMeans' /\ FinishedForGood' /\ ClockAndBase'
  BY <1>4 DEF PhaseMeans, FinishedForGood, ClockAndBase
<1>9. RowsAndBase'
  <2>1. phase \in {"Precheck", "Prefill", "Warmup"} => RowsIn' = 0
    BY <1>3 DEF RowsAndBase
  <2>2. ASSUME base # None
        PROVE  RowsIn' + Num("counted")' <= (counted.ok - base.ok) + Cardinality(Conns)
    <3>1. base.ok \in Nat
      BY <2>2 DEF Types
    <3>2. RowsIn + Num("counted") <= (counted.ok - base.ok) + Cardinality(Conns)
      BY <2>2 DEF RowsAndBase
    <3> QED BY <1>1, <1>2, <1>3, <3>1, <3>2
  <2> QED BY <1>4, <2>1, <2>2 DEF RowsAndBase
<1> QED
  BY <1>5, <1>6, <1>7, <1>8, <1>9

(* A request that is handed back was running.                              *)
LEMMA LoseStep ==
  ASSUME IInv, NEW c \in Conns, Lose(c)
  PROVE  IInv'
<1> USE DEF IInv, config, checks, file, replay, runner
<1>1. /\ finished \in Nat /\ returned \in Nat /\ claimed \in Nat /\ Num("run") \in Nat
  BY Numbers
<1>2. /\ Num("run")' = IF cpc[c] = "run" THEN Num("run") - 1 ELSE Num("run")
      /\ Num("marked")' = Num("marked") /\ Num("counted")' = Num("counted")
  BY GoCounts DEF Lose
<1>3. UNCHANGED <<mode, warmup, search, phase, checks, reader, sent, clock, claimed, finished, counted,
                  rows, rpc, joined, base, why>>
  BY DEF Lose
<1>4. Types'
  BY DEF Lose, Go, Types
<1>5. WorkersCounted'
  BY TaskWorkers DEF Task
<1>6. RequestsCounted'
  <2>1. finished + returned + Num("run") <= claimed
    BY DEF RequestsCounted
  <2>2. finished + returned' + Num("run")' <= claimed
    BY <1>1, <1>2, <2>1 DEF Lose
  <2> QED BY <1>2, <1>3, <2>2 DEF RequestsCounted, RowsIn, RowsOut
<1>7. PhaseMeans' /\ FinishedForGood' /\ ClockAndBase' /\ RowsAndBase'
  BY <1>2, <1>3 DEF PhaseMeans, FinishedForGood, ClockAndBase, RowsAndBase, RowsIn, RowsOut
<1> QED
  BY <1>4, <1>5, <1>6, <1>7

LEMMA TaskStep ==
  ASSUME IInv, NEW c \in Conns, Task(c)
  PROVE  IInv'
BY QuietStep, ClaimStep, MarkStep, RecordStep, RowStep, LoseStep DEF Task

-----------------------------------------------------------------------------
(* The reader, the signal and the runner                                   *)

LEMMA ReaderStep ==
  ASSUME IInv, Read \/ Breaks \/ Signal
  PROVE  IInv'
<1> USE DEF IInv, config, checks, file, replay, runner
<1>1. \A p : Num(p)' = Num(p)
  BY SameCounts DEF Read, Breaks, Signal
<1>2. Types'
  <2>1. CASE Read
    BY <2>1 DEF Read, Types
  <2>2. CASE Breaks
    BY <2>2 DEF Breaks, Types
  <2>3. CASE Signal
    <3>1. signalled' \in BOOLEAN
      BY <2>3 DEF Signal
    <3> QED BY <2>3, <3>1 DEF Signal, Types
  <2> QED BY <2>1, <2>2, <2>3
<1>3. WorkersCounted'
  BY DEF Read, Breaks, Signal, WorkersCounted, Waiting
<1>4. sent <= sent' /\ sent' <= Requests /\ (sent' # sent => reader = "reading")
  BY RunnerAssumption DEF Read, Breaks, Signal, Types, RequestsCounted
<1>5. RequestsCounted'
  <2>1. claimed <= sent'
    BY <1>4, Numbers, <1>2 DEF RequestsCounted, Types
  <2>2. UNCHANGED <<claimed, finished, returned, counted, rows>>
    BY DEF Read, Breaks, Signal
  <2> QED BY <1>1, <1>4, <2>1, <2>2 DEF RequestsCounted, RowsIn, RowsOut
<1>6. PhaseMeans' /\ FinishedForGood'
  BY DEF Read, Breaks, Signal, PhaseMeans, FinishedForGood
<1>7. ClockAndBase' /\ RowsAndBase'
  <2>1. UNCHANGED <<mode, warmup, search, phase, clock, counted, rows, rpc, joined, base>>
    BY DEF Read, Breaks, Signal
  <2> QED BY <1>1, <2>1 DEF ClockAndBase, RowsAndBase, RowsIn
<1> QED
  BY <1>2, <1>3, <1>5, <1>6, <1>7

(* What the runner leaves alone.                                           *)
LEMMA RunnerFrame ==
  ASSUME IInv, Runner
  PROVE  /\ \A p : Num(p)' = Num(p)
         /\ WorkersCounted' /\ RequestsCounted'
         /\ UNCHANGED <<mode, warmup, search, reader, sent, claimed, returned, finished, counted, rows,
                        started, prechecks, checked, thread, cpc, signalled>>
         /\ joined' \in 0..NumThreads
<1>1. UNCHANGED <<mode, warmup, search, reader, sent, claimed, returned, finished, counted, rows,
                  started, prechecks, checked, thread, cpc, signalled>>
  <2> USE DEF config, checks, file, replay, runner
  <2>1. CASE Launched \/ StartDeadline \/ TakeBaseline \/ EnterRunning \/ Join \/ Joined \/ Return
    BY <2>1 DEF Launched, StartDeadline, TakeBaseline, EnterRunning, Join, Joined, Return
  <2>2. CASE \E r : StopRun(r)
    BY <2>2 DEF StopRun
  <2>3. CASE \E p : Move(p)
    BY <2>3 DEF Move
  <2>4. PrecheckPassed => (\E r : StopRun(r)) \/ \E p : Move(p)
    BY DEF PrecheckPassed, ToWarmup
  <2> QED BY <2>1, <2>2, <2>3, <2>4 DEF Runner, Interrupted, PrecheckFails, Filled, PrefillFails,
        ReplayDone, TimeDone, SearchDone, ToWarmup
<1>2. \A p : Num(p)' = Num(p)
  BY <1>1, SameCounts
<1>3. WorkersCounted' /\ RequestsCounted'
  BY <1>1, <1>2 DEF IInv, WorkersCounted, RequestsCounted, Waiting, RowsIn, RowsOut
<1>4. joined' \in 0..NumThreads
  <2>1. joined \in 0..NumThreads /\ joined \in Nat
    BY RunnerAssumption DEF IInv, Types
  <2>2. CASE Joined
    BY <2>1, <2>2, RunnerAssumption DEF Joined, IInv, PhaseMeans
  <2>3. CASE ~Joined
    <3>1. joined' = joined
      <4>1. CASE Launched \/ StartDeadline \/ TakeBaseline \/ EnterRunning \/ Join \/ Return
        BY <4>1 DEF Launched, StartDeadline, TakeBaseline, EnterRunning, Join, Return
      <4>2. CASE (\E r : StopRun(r)) \/ \E p : Move(p)
        BY <4>2 DEF StopRun, Move, runner
      <4>3. PrecheckPassed => (\E r : StopRun(r)) \/ \E p : Move(p)
        BY DEF PrecheckPassed, ToWarmup
      <4> QED BY <2>3, <4>1, <4>2, <4>3 DEF Runner, Interrupted, PrecheckFails, Filled,
            PrefillFails, ReplayDone, TimeDone, SearchDone, ToWarmup
    <3> QED BY <2>1, <3>1
  <2> QED BY <2>2, <2>3
<1> QED
  BY <1>1, <1>2, <1>3, <1>4

(* Stop is set once, from the loop, and why is the reason it was.          *)
LEMMA StopStep ==
  ASSUME IInv, Runner, NEW r \in Reasons, rpc = "loop", StopRun(r),
         r = "finished" => finished = sent /\ reader # "reading"
  PROVE  IInv'
<1> USE DEF config, checks, file, replay, runner
<1>1. /\ \A p : Num(p)' = Num(p)
      /\ WorkersCounted' /\ RequestsCounted'
      /\ UNCHANGED <<mode, warmup, search, reader, sent, claimed, returned, finished, counted, rows,
                     started, prechecks, checked, thread, cpc, signalled>>
      /\ joined' \in 0..NumThreads
  BY RunnerFrame
<1>2. /\ phase' = "Stop" /\ why' = r /\ rpc' = "join" /\ UNCHANGED <<clock, deadline, base, result>>
  BY DEF StopRun
<1>3. Types'
  BY <1>1, <1>2 DEF IInv, Types
<1>4. PhaseMeans' /\ FinishedForGood'
  BY <1>1, <1>2 DEF IInv, PhaseMeans, FinishedForGood
<1>5. ClockAndBase' /\ RowsAndBase'
  BY <1>1, <1>2 DEF IInv, ClockAndBase, RowsAndBase, RowsIn
<1> QED
  BY <1>1, <1>3, <1>4, <1>5 DEF IInv

(* The phase moves on only after every worker's precheck, and the clock    *)
(* starts with the warmup if there is one.                                 *)
LEMMA MoveStep ==
  ASSUME IInv, Runner, checked = Workers, rpc = "loop",
         \/ phase \in {"Precheck", "Prefill"} /\ ToWarmup
         \/ phase = "Precheck" /\ Move("Prefill") /\ UNCHANGED clock
  PROVE  IInv'
<1> USE DEF config, checks, file, replay, runner
<1>1. /\ \A p : Num(p)' = Num(p)
      /\ WorkersCounted' /\ RequestsCounted'
      /\ UNCHANGED <<mode, warmup, search, reader, sent, claimed, returned, finished, counted, rows,
                     started, prechecks, checked, thread, cpc, signalled>>
      /\ joined' \in 0..NumThreads
  BY RunnerFrame
<1>2. /\ phase' \in {"Prefill", "Warmup"} /\ UNCHANGED <<rpc, deadline, base, why, result>>
      /\ clock' \in BOOLEAN /\ (clock => clock')
      /\ clock' /\ ~clock => mode = "replay" /\ warmup
  <2>1. clock \in BOOLEAN
    BY DEF IInv, Types
  <2>2. CASE ToWarmup
    BY <2>2, Zenon DEF ToWarmup, Move
  <2>3. CASE Move("Prefill") /\ UNCHANGED clock
    BY <2>1, <2>3, Zenon DEF Move
  <2> QED BY <2>2, <2>3, Zenon
<1>3. Types'
  BY <1>1, <1>2 DEF IInv, Types
<1>4. PhaseMeans' /\ FinishedForGood'
  BY <1>1, <1>2 DEF IInv, PhaseMeans, FinishedForGood
<1>5. ClockAndBase' /\ RowsAndBase'
  BY <1>1, <1>2 DEF IInv, ClockAndBase, RowsAndBase, RowsIn
<1> QED
  BY <1>1, <1>3, <1>4, <1>5 DEF IInv

(* Without a warmup nothing has run when the baseline is taken; with one   *)
(* each connection has at most one request counted that has no row.        *)
LEMMA BaselineStep ==
  ASSUME IInv, Runner, TakeBaseline
  PROVE  IInv'
<1> USE DEF config, checks, file, replay, runner
<1>1. /\ \A p : Num(p)' = Num(p)
      /\ WorkersCounted' /\ RequestsCounted'
      /\ UNCHANGED <<mode, warmup, search, reader, sent, claimed, returned, finished, counted, rows,
                     started, prechecks, checked, thread, cpc, signalled>>
      /\ joined' \in 0..NumThreads
  BY RunnerFrame
<1>2. /\ rpc = "loop" /\ phase = "Warmup" /\ rpc' = "base"
      /\ base' = IF mode = "replay" THEN counted ELSE base
      /\ UNCHANGED <<phase, clock, deadline, why, result>>
  BY DEF TakeBaseline, InPhase
<1>3. Types'
  BY <1>1, <1>2 DEF IInv, Types
<1>4. PhaseMeans' /\ FinishedForGood'
  BY <1>1, <1>2 DEF IInv, PhaseMeans, FinishedForGood
<1>5. counted \in [ok : Nat, failed : Nat] /\ counted # None
  BY RunnerAssumption DEF IInv, Types
<1>6. ASSUME ~warmup PROVE counted = [ok |-> 0, failed |-> 0]
  <2>1. claimed = 0
    BY <1>2, <1>6, Numbers DEF IInv, ClockAndBase, PhaseMeans
  <2>2. counted.ok = 0 /\ counted.failed = 0
    <3>1. /\ finished + returned + Num("run") <= claimed
          /\ finished = counted.ok + counted.failed + Num("marked")
      BY DEF IInv, RequestsCounted
    <3>2. /\ finished \in Nat /\ returned \in Nat /\ Num("run") \in Nat /\ Num("marked") \in Nat
          /\ counted.ok \in Nat /\ counted.failed \in Nat
      BY Numbers
    <3>3. finished = 0
      BY <2>1, <3>1, <3>2
    <3>4. \A a, b, n \in Nat : 0 = a + b + n => a = 0 /\ b = 0
      OBVIOUS
    <3>5. 0 = counted.ok + counted.failed + Num("marked")
      BY <3>1, <3>3
    <3> QED BY <3>2, <3>4, <3>5, Zenon
  <2> QED BY <1>5, <2>2
<1>7. RowsIn = 0 /\ Num("counted") \in Nat /\ Num("counted") <= Cardinality(Conns)
      /\ Cardinality(Conns) \in Nat /\ RowsIn' = RowsIn /\ counted.ok \in Nat /\ counted.failed \in Nat
  BY <1>1, <1>2, <1>5, NumFacts DEF IInv, RowsAndBase, RowsIn
<1>8. CASE mode = "replay"
  <2>1. base' = counted /\ counted' = counted
    BY <1>1, <1>2, <1>8
  <2>2. ClockAndBase'
    BY <1>1, <1>2, <1>5, <1>6, <1>7, <2>1 DEF IInv, ClockAndBase
  <2>3. RowsIn' + Num("counted")' <= (counted.ok - counted.ok) + Cardinality(Conns)
    BY <1>1, <1>7
  <2> QED BY <1>1, <1>2, <1>3, <1>4, <1>7, <2>1, <2>2, <2>3 DEF IInv, RowsAndBase
<1>9. CASE mode # "replay"
  <2>1. base' = base
    BY <1>2, <1>9
  <2>2. ClockAndBase' /\ RowsAndBase'
    BY <1>1, <1>2, <1>7, <1>9, <2>1 DEF IInv, ClockAndBase, RowsAndBase
  <2> QED BY <1>1, <1>3, <1>4, <2>2 DEF IInv
<1> QED
  BY <1>8, <1>9

LEMMA RunningStep ==
  ASSUME IInv, Runner, EnterRunning
  PROVE  IInv'
<1> USE DEF config, checks, file, replay, runner
<1>1. /\ \A p : Num(p)' = Num(p)
      /\ WorkersCounted' /\ RequestsCounted'
      /\ UNCHANGED <<mode, warmup, search, reader, sent, claimed, returned, finished, counted, rows,
                     started, prechecks, checked, thread, cpc, signalled>>
      /\ joined' \in 0..NumThreads
  BY RunnerFrame
<1>2. /\ rpc = "base" /\ rpc' = "loop" /\ phase' = "Running"
      /\ UNCHANGED <<deadline, base, why, result>>
      /\ clock' \in BOOLEAN /\ (clock => clock') /\ (clock' => clock \/ mode = "replay")
  BY Zenon DEF EnterRunning
<1>3. phase = "Warmup"
  BY <1>2 DEF IInv, PhaseMeans
<1>4. Types'
  BY <1>1, <1>2 DEF IInv, Types
<1>5. PhaseMeans' /\ FinishedForGood'
  BY <1>1, <1>2, <1>3 DEF IInv, PhaseMeans, FinishedForGood
<1>6. ClockAndBase' /\ RowsAndBase'
  BY <1>1, <1>2 DEF IInv, ClockAndBase, RowsAndBase, RowsIn
<1> QED
  BY <1>1, <1>4, <1>5, <1>6 DEF IInv

(* The rest of what the runner does changes no phase.                      *)
LEMMA LoopStep ==
  ASSUME IInv, Runner, Launched \/ StartDeadline \/ Join \/ Joined \/ Return
  PROVE  IInv'
<1> USE DEF config, checks, file, replay, runner
<1>1. /\ \A p : Num(p)' = Num(p)
      /\ WorkersCounted' /\ RequestsCounted'
      /\ UNCHANGED <<mode, warmup, search, reader, sent, claimed, returned, finished, counted, rows,
                     started, prechecks, checked, thread, cpc, signalled>>
      /\ joined' \in 0..NumThreads
  BY RunnerFrame
<1>2. UNCHANGED <<phase, clock, base, why>> /\ deadline' \in BOOLEAN
  <2>1. deadline \in BOOLEAN
    BY DEF IInv, Types
  <2> QED BY <2>1, Zenon DEF Launched, StartDeadline, Join, Joined, Return
<1>3. result' \in Results
  <2>1. result \in Results
    BY DEF IInv, Types
  <2>2. Outcome \in Results
    BY Zenon DEF Outcome, Results
  <2>3. "startup failed" \in Results
    BY Zenon DEF Results
  <2> QED BY <2>1, <2>2, <2>3 DEF Launched, StartDeadline, Join, Joined, Return
<1>4. /\ rpc' \in {"launch", "loop", "base", "join", "joining", "end"} /\ (rpc' = "base" => rpc = "base")
      /\ (phase = "Stop" => rpc' \in {"join", "joining", "end"})
  <2>1. /\ rpc \in {"launch", "loop", "base", "join", "joining", "end"}
        /\ phase = "Stop" => rpc \in {"join", "joining", "end"}
    BY DEF IInv, Types, PhaseMeans
  <2> QED BY <2>1 DEF Launched, StartDeadline, Join, Joined, Return, InPhase
<1>5. Types'
  BY <1>1, <1>2, <1>3, <1>4 DEF IInv, Types
<1>6. PhaseMeans' /\ FinishedForGood'
  <2>1. rpc' = "joining" => joined' < NumThreads
    BY DEF Launched, StartDeadline, Join, Joined, Return, InPhase
  <2> QED BY <1>1, <1>2, <1>4, <2>1 DEF IInv, PhaseMeans, FinishedForGood
<1>7. ClockAndBase' /\ RowsAndBase'
  BY <1>1, <1>2, <1>4 DEF IInv, ClockAndBase, RowsAndBase, RowsIn
<1> QED
  BY <1>1, <1>5, <1>6, <1>7 DEF IInv

LEMMA RunnerStep ==
  ASSUME IInv, Runner
  PROVE  IInv'
<1>1. {"signal", "trace error", "no connectivity", "prefill failed", "finished", "time",
      "searched"}
        \subseteq Reasons
  BY Zenon DEF Reasons
<1>2. CASE Interrupted \/ PrecheckFails \/ PrefillFails \/ TimeDone \/ SearchDone
  <2>1. \E r \in Reasons : r # "finished" /\ StopRun(r)
    BY <1>1, <1>2 DEF Interrupted, PrecheckFails, PrefillFails, TimeDone, SearchDone
  <2>2. rpc = "loop"
    BY <1>2 DEF Interrupted, PrecheckFails, PrefillFails, TimeDone, SearchDone, InPhase, Measuring
  <2> QED BY <2>1, <2>2, StopStep
<1>3. CASE ReplayDone
  <2>1. rpc = "loop" /\ "finished" \in Reasons /\ StopRun("finished") /\ reader # "reading"
    BY <1>1, <1>3 DEF ReplayDone, InPhase, Measuring, IsFinished
  <2>2. finished = sent
    <3>1. finished >= sent
      BY <1>3 DEF ReplayDone, IsFinished
    <3>2. finished + returned + Num("run") <= claimed /\ claimed <= sent
      BY DEF IInv, RequestsCounted
    <3>3. /\ finished \in Nat /\ returned \in Nat /\ Num("run") \in Nat /\ claimed \in Nat
          /\ sent \in Nat
      BY Numbers
    <3> QED BY <3>1, <3>2, <3>3
  <2> QED BY <2>1, <2>2, StopStep
<1>4. CASE PrecheckPassed
  <2>1. rpc = "loop" /\ phase = "Precheck" /\ checked = Workers
    BY <1>4, AllChecked DEF PrecheckPassed, InPhase, IInv, WorkersCounted
  <2>2. StopRun("trace error") \/ (Move("Prefill") /\ UNCHANGED clock) \/ ToWarmup
    BY <1>4 DEF PrecheckPassed
  <2>3. "trace error" \in Reasons /\ "trace error" # "finished"
    BY <1>1
  <2>4. CASE StopRun("trace error")
    BY <2>1, <2>3, <2>4, StopStep
  <2>5. CASE (Move("Prefill") /\ UNCHANGED clock) \/ ToWarmup
    BY <2>1, <2>5, MoveStep
  <2> QED BY <2>2, <2>4, <2>5
<1>5. CASE Filled
  <2>1. rpc = "loop" /\ phase = "Prefill" /\ checked = Workers /\ ToWarmup
    BY <1>5 DEF Filled, InPhase, IInv, PhaseMeans
  <2> QED BY <2>1, MoveStep
<1> QED
  BY <1>2, <1>3, <1>4, <1>5, BaselineStep, RunningStep, LoopStep DEF Runner

LEMMA InvStep == IInv /\ [Next]_vars => IInv'
<1>1. ASSUME IInv, UNCHANGED vars PROVE IInv'
  <2>1. \A p : Num(p)' = Num(p)
    BY <1>1, SameCounts DEF vars
  <2> USE <1>1, <2>1 DEF vars, config, checks, file, replay, runner
  <2>2. Types'
    BY DEF IInv, Types
  <2>3. WorkersCounted'
    BY DEF IInv, WorkersCounted, Waiting
  <2>4. RequestsCounted'
    BY DEF IInv, RequestsCounted, RowsIn, RowsOut
  <2>5. PhaseMeans' /\ FinishedForGood'
    BY DEF IInv, PhaseMeans, FinishedForGood
  <2>6. ClockAndBase' /\ RowsAndBase'
    BY DEF IInv, ClockAndBase, RowsAndBase, RowsIn
  <2> QED BY <2>2, <2>3, <2>4, <2>5, <2>6 DEF IInv
<1> QED
  BY <1>1, WorkerStep, TaskStep, ReaderStep, RunnerStep DEF Next

(* The runner's loop, the workers and their connections keep every count   *)
(* in step, whatever fails and whenever the run is interrupted.            *)
THEOREM RunnerInvariant == Spec => []IInv
  BY InvInit, InvStep, PTL DEF Spec

-----------------------------------------------------------------------------
LEMMA TypesHold ==
  ASSUME IInv
  PROVE  TypeOK
<1>1. /\ finished + returned + Num("run") <= claimed /\ claimed <= sent /\ sent <= Requests
      /\ finished = counted.ok + counted.failed + Num("marked")
      /\ counted.ok = RowsIn + RowsOut + Num("counted")
  BY DEF IInv, RequestsCounted
<1>2. /\ sent \in Nat /\ claimed \in Nat /\ returned \in Nat /\ finished \in Nat
      /\ counted.ok \in Nat /\ counted.failed \in Nat /\ RowsIn \in Nat /\ RowsOut \in Nat
      /\ Num("run") \in Nat /\ Num("marked") \in Nat /\ Num("counted") \in Nat /\ Requests \in Nat
  BY Numbers
<1>3. finished + returned <= claimed /\ claimed \in 0..sent /\ sent \in 0..Requests
      /\ finished <= Requests
  BY <1>1, <1>2
<1>4. counted.ok \in 0..Requests /\ counted.failed \in 0..Requests
  BY <1>1, <1>2, <1>3
<1>5. RowsIn \in 0..Requests /\ RowsOut \in 0..Requests
  BY <1>1, <1>2, <1>4
<1>6. counted \in [ok : 0..Requests, failed : 0..Requests]
  BY <1>4 DEF IInv, Types
<1>7. base \in [ok : 0..Requests, failed : 0..Requests] \cup {None}
  <2>1. CASE base # None
    <3>1. base \in [ok : Nat, failed : Nat] /\ base.ok <= counted.ok /\ base.failed <= counted.failed
      BY <2>1 DEF IInv, Types, ClockAndBase
    <3>2. base.ok \in 0..Requests /\ base.failed \in 0..Requests
      BY <3>1, <1>2, <1>4
    <3> QED BY <3>1, <3>2
  <2> QED BY <2>1
<1>8. rows \in [BOOLEAN -> 0..Requests]
  <2>1. rows \in [BOOLEAN -> Nat] /\ BOOLEAN = {TRUE, FALSE}
    BY Zenon DEF IInv, Types
  <2>2. \A r \in BOOLEAN : rows[r] \in 0..Requests
    BY <1>5, Zenon DEF RowsIn, RowsOut
  <2> QED BY <2>1, <2>2, Zenon
<1>9. prechecks \in 0..NumThreads
  BY AllChecked, RunnerAssumption DEF IInv, WorkersCounted, Types
<1>10. started \in 0..NumThreads
  <2>1. IsFiniteSet(Workers) /\ Waiting \in SUBSET Workers
    BY FS_Interval, RunnerAssumption DEF Workers, Waiting
  <2>2. Cardinality(Waiting) \in Nat
    BY <2>1, FS_Subset, FS_CardinalityType
  <2>3. started \in Nat /\ started + Cardinality(Waiting) <= NumThreads
    BY DEF IInv, WorkersCounted, Types
  <2> QED BY <2>2, <2>3, RunnerAssumption
<1> QED
  BY <1>2, <1>3, <1>6, <1>7, <1>8, <1>9, <1>10, Zenon DEF IInv, Types, TypeOK, Reasons, Results

(* No shared counter passes what it counts, the phases carry traffic only  *)
(* after every worker's PING was answered, and a replay that was ended as  *)
(* finished had finished (worker.rs:1030, runner.rs:487, kvreplay.rs:240). *)
THEOREM Gates == Spec => []GatesHold
<1>1. ASSUME IInv PROVE GatesHold
  <2>1. CheckedBeforeTraffic
    BY <1>1, TypesHold DEF CheckedBeforeTraffic, IInv, PhaseMeans
  <2>2. ASSUME why = "finished"
        PROVE  /\ finished = sent /\ claimed = sent /\ returned = 0
               /\ reader = "broken" \/ sent = Requests
    <3>1. finished = sent /\ (reader = "broken" \/ sent = Requests)
      BY <1>1, <2>2 DEF IInv, FinishedForGood, PhaseMeans, Types
    <3>2. finished + returned + Num("run") <= claimed /\ claimed <= sent
      BY <1>1 DEF IInv, RequestsCounted
    <3>3. /\ finished \in Nat /\ returned \in Nat /\ Num("run") \in Nat /\ claimed \in Nat
          /\ sent \in Nat
      BY <1>1, Numbers
    <3> QED BY <3>1, <3>2, <3>3
  <2> QED BY <2>1, <2>2 DEF GatesHold, EndsFinished
<1> QED
  BY <1>1, RunnerInvariant, PTL

(* The results count every request of a run without a warmup, and miss at  *)
(* most one recorded row of each connection otherwise: the counter, the    *)
(* baseline, the phase and the row are written in that order               *)
(* (runner.rs:738, 781).                                                   *)
THEOREM Totals == Spec => []TotalsSound
<1>1. ASSUME IInv PROVE TotalsSound
  <2>1. NoWarmupCountsAll
    <3>1. claimed \in Nat
      BY <1>1, Numbers
    <3> QED BY <1>1, <3>1 DEF IInv, ClockAndBase, PhaseMeans, NoWarmupCountsAll
  <2>2. ASSUME base # None
        PROVE  RowsIn <= (counted.ok - base.ok) + Cardinality(Conns)
    <3>1. RowsIn + Num("counted") <= (counted.ok - base.ok) + Cardinality(Conns)
      BY <1>1, <2>2 DEF IInv, RowsAndBase
    <3>2. base.ok \in Nat /\ counted.ok \in Nat /\ RowsIn \in Nat /\ Num("counted") \in Nat
          /\ Cardinality(Conns) \in Nat
      BY <1>1, <2>2, Numbers DEF IInv, Types
    <3> QED BY <3>1, <3>2
  <2> QED BY <2>1, <2>2 DEF TotalsSound, RowsNearTotals, RowsIn
<1> QED
  BY <1>1, RunnerInvariant, PTL
=============================================================================
