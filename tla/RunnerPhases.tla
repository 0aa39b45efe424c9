---------------------------- MODULE RunnerPhases ----------------------------
(***************************************************************************)
(* A run from launch to its results: the runner's 100 ms loop, which takes *)
(* the shared phase from Precheck to Stop (src/src/runner.rs), and what    *)
(* the workers and their connections do by it: start, precheck, replay     *)
(* requests of a KV trace and count them, stop (src/src/worker.rs,         *)
(* src/src/kvreplay.rs).                                                   *)
(*                                                                         *)
(* Only the runner writes the phase; the workers read it at any moment.    *)
(* Times are left to the environment: a deadline may pass at any loop      *)
(* iteration after it was set, and one of zero has passed in the same      *)
(* iteration.  How requests are dispatched is in TokenDispatch and         *)
(* KvDispatch, how the keys are written during Prefill is in Prefill.      *)
(***************************************************************************)
EXTENDS Integers, FiniteSets

CONSTANTS
  NumThreads,      \* how many worker threads there are
  Conns,           \* the connection tasks
  WorkerOf,        \* the worker each runs on
  Modes,           \* what the run may be: "plain", "prefill" or "replay"
  Requests,        \* how many requests the trace has
  ReadAhead,       \* how many of them the reader may be ahead
  MayFail,         \* the workers whose event loop may fail to start
  MaySignal,       \* whether the user may interrupt the run
  None

Workers == 1..NumThreads

ASSUME RunnerAssumption ==
  /\ NumThreads \in Nat \ {0} /\ IsFiniteSet(Conns) /\ WorkerOf \in [Conns -> Workers]
  /\ Requests \in Nat /\ ReadAhead \in Nat \ {0}
  /\ Modes \subseteq {"plain", "prefill", "replay"}
  /\ MayFail \subseteq Workers /\ MaySignal \in BOOLEAN
  /\ None \notin [ok : Nat, failed : Nat] /\ None # "finished"

VARIABLES
  mode, warmup,  \* the configuration: the workload, whether warmup > 0, and
  search,        \* whether a saturation search is configured
  phase,         \* SharedState::phase
  started,       \* SharedState::workers_started
  prechecks,     \* SharedState::precheck_done
  checked,       \* the workers whose own precheck_done is set
  thread,        \* each worker's thread: setup, made, up, exited
  cpc,           \* where each connection task is
  rpc,           \* the runner: launch, loop, base (baselines taken), join (at
                 \* the next handle), joining (waiting for its thread), end
  deadline,      \* precheck_start is set
  clock,         \* KvReplay::start is set
  reader,        \* the trace reader: reading, read, broken
  sent,          \* how many requests it has read
  claimed,       \* how many of them were claimed
  returned,      \* how many were handed back and wait to be run again
  finished,      \* KvReplay::finished
  counted,       \* the KV_REQUESTS and KV_REQUESTS_FAILED counters
  base,          \* kv_baseline, or None
  rows,          \* the rows of requests_out, by their `recorded` flag
  signalled,     \* the user has interrupted the run
  joined,        \* how many workers' handles were joined
  why,           \* what made the runner set Stop, or None
  result         \* how run_benchmark returned, or None

config == <<mode, warmup, search>>
checks == <<started, prechecks, checked, thread>>
file   == <<reader, sent>>
replay == <<clock, claimed, returned, finished, counted, rows>>
runner == <<rpc, deadline, base, signalled, why, joined, result>>
vars   == <<config, phase, checks, cpc, file, replay, runner>>

ConnsOf(w) == {c \in Conns : WorkerOf[c] = w}

(* The phase is Precheck before the workers are launched.  validate()      *)
(* refuses a saturation search with a trace.                               *)
Init ==
  /\ mode \in Modes /\ warmup \in BOOLEAN
  /\ search \in BOOLEAN /\ (search => mode # "replay")
  /\ phase = "Precheck" /\ started = 0 /\ prechecks = 0 /\ checked = {}
  /\ thread = [w \in Workers |-> "setup"]
  /\ cpc = [c \in Conns |-> "unborn"]
  /\ rpc = "launch" /\ deadline = FALSE
  /\ reader = "reading" /\ sent = 0
  /\ clock = FALSE /\ claimed = 0 /\ returned = 0 /\ finished = 0
  /\ counted = [ok |-> 0, failed |-> 0]
  /\ rows = [r \in BOOLEAN |-> 0] /\ base = None
  /\ signalled = FALSE /\ why = None /\ joined = 0 /\ result = None

-----------------------------------------------------------------------------
(* A worker                                                                *)

(* create_for_worker: a worker without connections passes the precheck.    *)
Create(w) ==
  /\ thread[w] = "setup"
  /\ thread' = [thread EXCEPT ![w] = "made"]
  /\ IF ConnsOf(w) = {}
     THEN prechecks' = prechecks + 1 /\ checked' = checked \cup {w}
     ELSE UNCHANGED <<prechecks, checked>>
  /\ UNCHANGED <<config, phase, started, cpc, file, replay, runner>>

(* on_start: the connection tasks are spawned.                             *)
Start(w) ==
  /\ thread[w] = "made"
  /\ thread' = [thread EXCEPT ![w] = "up"]
  /\ started' = started + 1
  /\ cpc' = [c \in Conns |-> IF WorkerOf[c] = w THEN "down" ELSE cpc[c]]
  /\ UNCHANGED <<config, phase, prechecks, checked, file, replay, runner>>

(* Its event loop cannot be set up, or on_start panics.                    *)
FailsToStart(w) ==
  /\ thread[w] \in {"setup", "made"} /\ w \in MayFail
  /\ thread' = [thread EXCEPT ![w] = "exited"]
  /\ UNCHANGED <<config, phase, started, prechecks, checked, cpc, file, replay, runner>>

(* No task of the worker is between two awaits.                            *)
AtAwait(w) == \A c \in ConnsOf(w) : cpc[c] \notin {"marked", "counted"}

(* on_tick sees Stop: the event loop ends and its tasks are dropped.       *)
Exit(w) ==
  /\ thread[w] = "up" /\ phase = "Stop" /\ AtAwait(w)
  /\ thread' = [thread EXCEPT ![w] = "exited"]
  /\ cpc' = [c \in Conns |-> IF WorkerOf[c] = w THEN "gone" ELSE cpc[c]]
  /\ UNCHANGED <<config, phase, started, prechecks, checked, file, replay, runner>>

-----------------------------------------------------------------------------
(* A connection task                                                       *)

Go(c, p) == cpc' = [cpc EXCEPT ![c] = p]

(* Connected: the first of its worker's connections in Precheck sends PING *)
(* (several may before one is answered), the others go on to their loop.   *)
Connect(c) ==
  /\ cpc[c] = "down" /\ phase # "Stop"
  /\ Go(c, IF phase = "Precheck" /\ WorkerOf[c] \notin checked THEN "ping" ELSE "drive")
  /\ UNCHANGED <<config, phase, checks, file, replay, runner>>

(* Mutant of MarkPrecheckDone: every connection counts its own PING.       *)
MarkEveryPrecheck(w) == prechecks' = prechecks + 1 /\ checked' = checked \cup {w}

(* mark_precheck_done: compare_exchange lets one connection count.         *)
MarkPrecheckDone(w) ==
  /\ checked' = checked \cup {w}
  /\ prechecks' = IF w \in checked THEN prechecks ELSE prechecks + 1

(* PING is answered; the task then waits for the phase to leave Precheck.  *)
Pong(c) ==
  /\ cpc[c] = "ping"
  /\ MarkPrecheckDone(WorkerOf[c])
  /\ Go(c, "drive")
  /\ UNCHANGED <<config, phase, started, thread, file, replay, runner>>

PingFails(c) ==
  /\ cpc[c] = "ping" /\ Go(c, "down")
  /\ UNCHANGED <<config, phase, checks, file, replay, runner>>

(* A trace request is claimed once the replay's clock has started; one     *)
(* that was handed back goes first.                                        *)
Claim(c) ==
  /\ cpc[c] = "drive" /\ phase # "Stop" /\ mode = "replay" /\ clock
  /\ \/ returned > 0 /\ returned' = returned - 1 /\ UNCHANGED claimed
     \/ returned = 0 /\ claimed < sent /\ claimed' = claimed + 1 /\ UNCHANGED returned
  /\ Go(c, "run")
  /\ UNCHANGED <<config, phase, checks, file, clock, finished, counted, rows, runner>>

(* It is done: mark_finished, ...                                          *)
MarkFinished(c) ==
  /\ cpc[c] = "run" /\ Go(c, "marked")
  /\ finished' = finished + 1
  /\ UNCHANGED <<config, phase, checks, file, clock, returned, claimed, counted, rows,
                 runner>>

(* ... record_outcome, ...                                                 *)
RecordOutcome(c) ==
  /\ cpc[c] = "marked" /\ Go(c, "counted")
  /\ counted' = [counted EXCEPT !.ok = @ + 1]
  /\ UNCHANGED <<config, phase, checks, file, clock, returned, claimed, finished, rows,
                 runner>>

(* ... and write_row, with the phase as it is now.                         *)
WriteRow(c) ==
  /\ cpc[c] = "counted" /\ Go(c, "drive")
  /\ rows' = [rows EXCEPT ![phase = "Running"] = @ + 1]
  /\ UNCHANGED <<config, phase, checks, file, clock, returned, claimed, finished,
                 counted, runner>>

(* The request failed, and perhaps the connection with it.                 *)
RecordFailure(c) ==
  /\ cpc[c] = "marked"
  /\ \E p \in {"drive", "down"} : Go(c, p)
  /\ counted' = [counted EXCEPT !.failed = @ + 1]
  /\ UNCHANGED <<config, phase, checks, file, clock, returned, claimed, finished, rows,
                 runner>>

(* The connection is lost; a request it was running is handed back.        *)
Lose(c) ==
  /\ cpc[c] \in {"drive", "run"} /\ Go(c, "down")
  /\ returned' = IF cpc[c] = "run" THEN returned + 1 ELSE returned
  /\ UNCHANGED <<config, phase, checks, file, clock, claimed, finished, counted, rows,
                 runner>>

-----------------------------------------------------------------------------
(* The trace reader's thread                                               *)

(* A request is counted, then sent to a channel that holds ReadAhead.      *)
Read ==
  /\ mode = "replay" /\ reader = "reading"
  /\ \/ sent < Requests /\ sent - claimed <= ReadAhead
        /\ sent' = sent + 1 /\ UNCHANGED reader
     \/ sent = Requests /\ reader' = "read" /\ UNCHANGED sent
  /\ UNCHANGED <<config, phase, checks, cpc, replay, runner>>

(* A row after the first, which was read as the trace was opened, cannot   *)
(* be read: the trace ends with the requests before it.                    *)
Breaks ==
  /\ mode = "replay" /\ reader = "reading" /\ sent \in 1 .. Requests - 1
  /\ reader' = "broken"
  /\ UNCHANGED <<config, phase, checks, cpc, sent, replay, runner>>

-----------------------------------------------------------------------------
(* The runner.  Each action is one iteration of its loop, or a part of one.*)

AllExited == \A w \in Workers : thread[w] = "exited"

(* 200 ms after the launch at least one worker must be alive.              *)
Launched ==
  /\ rpc = "launch"
  /\ IF AllExited THEN rpc' = "end" /\ result' = "startup failed"
                  ELSE rpc' = "loop" /\ UNCHANGED result
  /\ UNCHANGED <<config, phase, checks, cpc, file, replay, deadline, base, signalled,
                 why, joined>>

(* Ctrl-C: `running` is cleared.                                           *)
Signal ==
  /\ MaySignal /\ ~signalled /\ signalled' = TRUE
  /\ UNCHANGED <<config, phase, checks, cpc, file, replay, rpc, deadline, base, why,
                 joined, result>>

(* The loop is left for the reason r; the workers are told.                *)
StopRun(r) ==
  /\ phase' = "Stop" /\ why' = r /\ rpc' = "join"
  /\ UNCHANGED <<config, checks, cpc, file, replay, deadline, base, signalled, joined, result>>

Interrupted == rpc = "loop" /\ signalled /\ StopRun("signal")

InPhase(p) == rpc = "loop" /\ ~signalled /\ phase = p

Move(p) ==
  /\ phase' = p
  /\ UNCHANGED <<config, checks, cpc, file, claimed, returned, finished, counted, rows,
                 runner>>

(* Mutant of ToWarmup: the replay's clock starts with or without a warmup. *)
ToWarmupStarts == Move("Warmup") /\ clock' = (clock \/ mode = "replay")

(* The replay starts with the warmup when there is one.                    *)
ToWarmup == Move("Warmup") /\ clock' = (clock \/ (mode = "replay" /\ warmup))

(* Every worker's precheck is done.  A replay waits for the read-ahead,    *)
(* and stops there when the trace cannot be read.                          *)
PrecheckPassed ==
  /\ InPhase("Precheck") /\ prechecks >= NumThreads
  /\ mode = "replay" => (reader # "reading" \/ sent - claimed >= ReadAhead)
  /\ CASE mode = "replay" /\ reader = "broken" -> StopRun("trace error")
       [] mode = "prefill" -> Move("Prefill") /\ UNCHANGED clock
       [] OTHER -> ToWarmup

(* The precheck's deadline is set once every worker has started.           *)
StartDeadline ==
  /\ InPhase("Precheck") /\ prechecks < NumThreads
  /\ ~deadline /\ started >= NumThreads
  /\ deadline' = TRUE
  /\ UNCHANGED <<config, phase, checks, cpc, file, replay, rpc, base, signalled, why,
                 joined, result>>

(* Mutant of PrecheckFails: the deadline is set and never looked at.       *)
PrecheckFailsOnExit ==
  /\ InPhase("Precheck") /\ prechecks < NumThreads
  /\ started < NumThreads /\ AllExited
  /\ StopRun("no connectivity")

(* It has passed, if connect_timeout is zero in the same iteration, or     *)
(* every worker has exited before all had started.                         *)
PrecheckFails ==
  /\ InPhase("Precheck") /\ prechecks < NumThreads
  /\ \/ deadline
     \/ started < NumThreads /\ AllExited
  /\ StopRun("no connectivity")

(* Every key is confirmed.                                                 *)
Filled == InPhase("Prefill") /\ ToWarmup

(* No key for 30 s, or prefill_timeout has passed.                         *)
PrefillFails == InPhase("Prefill") /\ StopRun("prefill failed")

Measuring == InPhase("Warmup") \/ InPhase("Running")

(* Mutant of IsFinished: what was read so far has finished.                *)
IsFinishedSoFar == clock /\ finished >= sent

(* KvReplay::is_finished                                                   *)
IsFinished == reader # "reading" /\ finished >= sent

ReplayDone == Measuring /\ mode = "replay" /\ IsFinished /\ StopRun("finished")

(* warmup + duration has passed, which does not end a saturation search.   *)
TimeDone == Measuring /\ ~search /\ StopRun("time")

(* saturation_state, which is there from Running on, is_completed.         *)
SearchDone == InPhase("Running") /\ search /\ StopRun("searched")

(* The warmup is over.  The baselines are taken first, ...                 *)
TakeBaseline ==
  /\ InPhase("Warmup") /\ ~(mode = "replay" /\ IsFinished)
  /\ base' = IF mode = "replay" THEN counted ELSE base
  /\ rpc' = "base"
  /\ UNCHANGED <<config, phase, checks, cpc, file, replay, deadline, signalled, why,
                 joined, result>>

(* Mutant of EnterRunning: the baselines are taken again, after the phase. *)
EnterRunningCounts ==
  /\ rpc = "base" /\ rpc' = IF phase = "Running" THEN "loop" ELSE "base"
  /\ phase' = "Running"
  /\ base' = IF mode = "replay" /\ warmup THEN counted ELSE base
  /\ clock' = (clock \/ mode = "replay")
  /\ UNCHANGED <<config, checks, cpc, file, claimed, returned, finished, counted, rows, deadline,
                 signalled, why, joined, result>>

(* ... then the phase changes and a replay without a warmup starts.        *)
EnterRunning ==
  /\ rpc = "base" /\ rpc' = "loop"
  /\ phase' = "Running"
  /\ clock' = (clock \/ mode = "replay")
  /\ UNCHANGED <<config, checks, cpc, file, claimed, returned, finished, counted, rows, deadline, base,
                 signalled, why, joined, result>>

Recorded == IF base = None THEN 0
            ELSE (counted.ok - base.ok) + (counted.failed - base.failed)

(* What run_benchmark returns after the results are printed.               *)
Outcome ==
  CASE why \in {"no connectivity", "prefill failed"} -> why
    [] mode = "replay" /\ reader = "broken" -> "trace error"
    [] mode = "replay" /\ IsFinished /\ Recorded = 0 -> "nothing recorded"
    [] OTHER -> "ok"

(* The workers are joined in order.  handle.join() has no time limit.      *)
Join ==
  /\ rpc = "join" /\ joined < NumThreads /\ rpc' = "joining"
  /\ UNCHANGED <<config, phase, checks, cpc, file, replay, deadline, base, signalled,
                 why, joined, result>>

Joined ==
  /\ rpc = "joining" /\ thread[joined + 1] = "exited"
  /\ rpc' = "join" /\ joined' = joined + 1
  /\ UNCHANGED <<config, phase, checks, cpc, file, replay, deadline, base, signalled,
                 why, result>>

(* The runner returns when it has joined them all, or when it comes to the *)
(* next one after 5 s of joining the ones before.                          *)
Return ==
  /\ rpc = "join" /\ joined > 0
  /\ rpc' = "end" /\ result' = Outcome
  /\ UNCHANGED <<config, phase, checks, cpc, file, replay, deadline, base, signalled,
                 why, joined>>

-----------------------------------------------------------------------------
Worker(w) == Create(w) \/ Start(w) \/ FailsToStart(w) \/ Exit(w)

Task(c) ==
  \/ Connect(c) \/ Pong(c) \/ PingFails(c) \/ Claim(c) \/ MarkFinished(c)
  \/ RecordOutcome(c) \/ RecordFailure(c) \/ WriteRow(c) \/ Lose(c)

Runner ==
  \/ Launched \/ Interrupted \/ PrecheckPassed \/ StartDeadline \/ PrecheckFails
  \/ Filled \/ PrefillFails \/ ReplayDone \/ TimeDone \/ SearchDone \/ TakeBaseline
  \/ EnterRunning \/ Join \/ Joined \/ Return

Next ==
  \/ \E w \in Workers : Worker(w)
  \/ \E c \in Conns : Task(c)
  \/ Read \/ Breaks \/ Signal \/ Runner

Spec == Init /\ [][Next]_vars

(* Every worker's event loop comes up or fails and ticks, and a task that  *)
(* is between two awaits runs on; the runner loops and its deadlines pass; *)
(* a saturation search ends (RateSearch's SearchEnds); the reader reads.   *)
(* Nothing is said of the server.                                          *)
Fairness ==
  /\ \A w \in Workers : WF_vars(Worker(w))
  /\ \A c \in Conns : WF_vars(RecordOutcome(c) \/ RecordFailure(c)) /\ WF_vars(WriteRow(c))
  /\ WF_vars(Read \/ Breaks)
  /\ WF_vars(Launched) /\ WF_vars(Interrupted) /\ WF_vars(PrecheckPassed)
  /\ WF_vars(StartDeadline) /\ WF_vars(PrecheckFails)
  /\ WF_vars(Filled \/ PrefillFails) /\ WF_vars(TimeDone) /\ WF_vars(SearchDone)
  /\ WF_vars(TakeBaseline) /\ WF_vars(EnterRunning)
  /\ WF_vars(Join \/ Return) /\ WF_vars(Joined)

LiveSpec == Spec /\ Fairness

-----------------------------------------------------------------------------
(* The types of the shared counters, and that no counter passes what it    *)
(* counts: each worker starts and passes the precheck at most once, though *)
(* several of its connections may have sent a PING (worker.rs:1030).       *)
TypeOK ==
  /\ mode \in Modes /\ warmup \in BOOLEAN /\ search \in BOOLEAN
  /\ phase \in {"Precheck", "Prefill", "Warmup", "Running", "Stop"}
  /\ started \in 0..NumThreads /\ prechecks \in 0..NumThreads /\ checked \subseteq Workers
  /\ thread \in [Workers -> {"setup", "made", "up", "exited"}]
  /\ cpc \in [Conns -> {"unborn", "down", "ping", "drive", "run", "marked", "counted", "gone"}]
  /\ rpc \in {"launch", "loop", "base", "join", "joining", "end"} /\ joined \in 0..NumThreads
  /\ deadline \in BOOLEAN /\ clock \in BOOLEAN /\ signalled \in BOOLEAN
  /\ reader \in {"reading", "read", "broken"} /\ sent \in 0..Requests
  /\ claimed \in 0..sent /\ returned \in Nat /\ finished \in Nat
  /\ finished + returned <= claimed
  /\ counted \in [ok : 0..Requests, failed : 0..Requests]
  /\ base \in [ok : 0..Requests, failed : 0..Requests] \cup {None}
  /\ rows \in [BOOLEAN -> 0..Requests]
  /\ why \in {None, "signal", "trace error", "no connectivity", "prefill failed", "finished",
              "time", "searched"}
  /\ result \in {None, "startup failed", "no connectivity", "prefill failed", "trace error",
                 "nothing recorded", "ok"}

(* The run leaves Precheck for traffic only when every worker with a       *)
(* connection has had a PING answered, and no trace request is claimed     *)
(* before: PINGs that were already sent when the worker passed do not      *)
(* stand in for another worker's (runner.rs:487, worker.rs:1030).          *)
CheckedBeforeTraffic ==
  /\ TypeOK
  /\ phase \in {"Prefill", "Warmup", "Running"} \/ claimed > 0 => checked = Workers

(* A request finishing as recording starts may be on either side of the    *)
(* totals (docs/reference.md:485): it counts itself, then reads the phase  *)
(* for its row, and the runner takes its baseline and then sets the phase  *)
(* (runner.rs:738).  In that order at most one request of each connection  *)
(* has a row marked recorded and is not among the requests of the results. *)
RowsNearTotals ==
  base # None => rows[TRUE] <= (counted.ok - base.ok) + Cardinality(Conns)

(* Without a warmup the results count every request that ran, however      *)
(* short the trace: none runs before the baselines (runner.rs:781).        *)
NoWarmupCountsAll ==
  ~warmup => /\ base # None => base = [ok |-> 0, failed |-> 0]
             /\ base = None => claimed = 0

(* A replay that the runner ended because it was finished had finished     *)
(* every request of the trace, or every one before a read error: a reader  *)
(* that is behind does not end it (kvreplay.rs:240).                       *)
EndsFinished ==
  why = "finished" => /\ finished = sent /\ claimed = sent /\ returned = 0
                      /\ reader = "broken" \/ sent = Requests

(* Every run returns, whatever the server does: no connection is needed    *)
(* for the phases to be left (runner.rs:472-1029). The one exception, that *)
(* PrecheckEnds is about, is a run that stays in Precheck for ever because *)
(* some of its workers failed to start and others did not.                 *)
StuckInPrecheck == phase = "Precheck" /\ started \in 1..(NumThreads - 1)
RunEnds == <>(result # None) \/ <>[]StuckInPrecheck

(* docs/reference.md:161, connect_timeout: "doubles as the precheck        *)
(* deadline": a run whose workers cannot all start still leaves Precheck.  *)
PrecheckEnds == <>(phase # "Precheck" \/ result # None)

(* The gates at both ends of a run: traffic starts when every worker has   *)
(* been answered, and a replay is ended as finished only when it is        *)
(* (worker.rs:1791, kvreplay.rs:240).                                      *)
GatesHold == CheckedBeforeTraffic /\ EndsFinished

(* What the results count: all that ran, without a warmup, and with one    *)
(* all but a request of each connection at most (runner.rs:741, 781).      *)
TotalsSound == NoWarmupCountsAll /\ RowsNearTotals
=============================================================================
