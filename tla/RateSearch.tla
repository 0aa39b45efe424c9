----------------------------- MODULE RateSearch -----------------------------
(***************************************************************************)
(* The saturation search (src/src/saturation.rs): RateSearch, which climbs *)
(* geometrically to the first confirmed SLO failure and then bisects, and  *)
(* SaturationSearchState::check_and_advance, which drives it from one      *)
(* measured window to the next and sets the limiter's rate.                *)
(*                                                                         *)
(* The fractions of the configuration (step_multiplier, bisect_tolerance,  *)
(* floor_improvement_ratio) are numerator/denominator pairs: f64 computes  *)
(* with them exactly at the rates of an instance.  A rate is at least 1,   *)
(* so 0 stands for None where the code has an Option of a rate.            *)
(*                                                                         *)
(* What a window measures comes from the server.  `limit` is the highest   *)
(* rate it sustains: above it every window fails, up to it at most Confirm *)
(* windows in a row fail.  An Erratic server passes and fails as it likes. *)
(***************************************************************************)
EXTENDS Integers

CONSTANTS
  StartRate,           \* saturation_search.start_rate
  MaxRate,             \* saturation_search.max_rate
  MulNum, MulDen,      \* step_multiplier
  TolNum, TolDen,      \* bisect_tolerance
  MaxBisect,           \* max_bisect_steps
  Confirm,             \* confirm_failures
  FloorNum, FloorDen,  \* floor_improvement_ratio
  Latencies            \* SLO-percentile latencies a window may show; 0: none

(* What Config::validate asks of a search; that StartRate <= MaxRate it    *)
(* does not ask.                                                           *)
ASSUME SearchAssumption ==
  /\ StartRate \in Nat \ {0} /\ MaxRate \in Nat
  /\ MulDen \in Nat \ {0} /\ MulNum \in Nat /\ MulNum > MulDen
  /\ TolNum \in Nat /\ TolDen \in Nat \ {0}
  /\ MaxBisect \in Nat /\ Confirm \in Nat
  /\ FloorNum \in Nat /\ FloorDen \in Nat \ {0}
  /\ Latencies \subseteq Nat

None    == 0
Erratic == -1

VARIABLES
  phase,      \* RateSearch::phase
  rate,       \* RateSearch::current_rate
  lastGood,   \* last_good
  lo, hi,     \* the bisected interval
  steps,      \* bisect_steps
  fails,      \* failures_at_rate
  failRate,   \* last_confirmed_fail: the rate (None: it is None)
  failUs,     \* last_confirmed_fail: the latency
  floor,      \* floor_detected
  target,     \* SaturationSearchState::current_rate, the limiter's rate
  baselined,  \* baseline_at is set: the drain window is over
  completed,
  knee,       \* SaturationSearchState::last_good_rate
  limit,      \* environment: the highest rate the server sustains, or Erratic
  streak,     \* history: windows in a row that failed at a sustained rate
  met         \* history: the applied rates whose window met the SLO

search == <<phase, rate, lastGood, lo, hi, steps, fails, failRate, failUs, floor>>
driver == <<target, baselined, completed, knee>>
vars   == <<search, driver, limit, streak, met>>

TopRate == IF StartRate > MaxRate THEN StartRate ELSE MaxRate

MaxOf(a, b) == IF a > b THEN a ELSE b
MinOf(a, b) == IF a < b THEN a ELSE b

(* RateSearch::new and SaturationSearchState::new, which sets the rate.    *)
Init ==
  /\ phase = "Climb" /\ rate = StartRate /\ lastGood = None
  /\ lo = 0 /\ hi = 0 /\ steps = 0
  /\ fails = 0 /\ failRate = None /\ failUs = 0 /\ floor = FALSE
  /\ target = StartRate /\ baselined = FALSE
  /\ completed = FALSE /\ knee = None
  /\ limit \in 0 .. TopRate \cup {Erratic}
  /\ streak = 0 /\ met = {}

-----------------------------------------------------------------------------
(* check_and_advance                                                       *)

(* The first call after the drain window takes the window's baselines.     *)
CaptureBaseline ==
  /\ ~completed /\ ~baselined
  /\ baselined' = TRUE
  /\ UNCHANGED <<search, target, completed, knee, limit, streak, met>>

Sustained(r) == limit # Erratic /\ r <= limit

(* What the server may show in a window at the applied rate.               *)
Observable(passed) ==
  \/ limit = Erratic
  \/ passed /\ target <= limit
  \/ ~passed /\ (target > limit \/ streak < Confirm)

(* Whichever way a window ends, the histories record it.                   *)
Record(passed) ==
  /\ met' = IF passed THEN met \cup {target} ELSE met
  /\ streak' = IF ~passed /\ Sustained(target) THEN streak + 1 ELSE 0

(* SearchOutcome::Probe(r): the rate is applied, the next window drains.   *)
Probe(r) ==
  /\ rate' = r /\ target' = r
  /\ baselined' = FALSE
  /\ UNCHANGED <<completed, knee>>

(* SearchOutcome::Done { knee }                                            *)
Done(k) ==
  /\ completed' = TRUE /\ knee' = k
  /\ UNCHANGED <<rate, target, baselined>>

-----------------------------------------------------------------------------
(* RateSearch::advance                                                     *)

(* bisect_probe on the interval [l, h]                                     *)
BisectProbe(l, h) ==
  MaxOf(MinOf(MaxOf(l + (h - l) \div 2, l + 1), MaxOf(h - 1, 0)), 1)

(* The multiplied rate, rounded down.                                      *)
Multiplied(r) == (r * MulNum) \div MulDen

(* Mutant of NextClimb: without the max(current_rate + 1).                 *)
NextClimbRounded(r) == Multiplied(r)

(* The rate the climb goes to from r, short of max_rate.                   *)
NextClimb(r) == MaxOf(Multiplied(r), r + 1)

(* The interval is narrow enough, or the steps are spent.                  *)
Closed(l, h, n) ==
  \/ (h - l) * TolDen <= TolNum * h
  \/ n >= MaxBisect
  \/ h - l <= 1

(* The window failed and fewer than Confirm failures came before it at     *)
(* this rate: the same rate is measured again.                             *)
Retry ==
  /\ fails < Confirm
  /\ fails' = fails + 1
  /\ Probe(rate)
  /\ UNCHANGED <<phase, lastGood, lo, hi, steps, failRate, failUs, floor>>

(* Only while no rate has passed is a confirmed failure compared with the  *)
(* one before it.                                                          *)
FloorWatched(us) == lastGood = None /\ FloorNum > 0 /\ us > 0

(* Halving the rate left the latency where it was.                         *)
Unresponsive(us) ==
  /\ FloorWatched(us)
  /\ failRate # None /\ failRate >= 2 * rate /\ failUs > 0
  /\ (failUs - us) * FloorDen < FloorNum * failUs

StopAtFloor(us) ==
  /\ fails = Confirm
  /\ Unresponsive(us)
  /\ fails' = 0 /\ floor' = TRUE
  /\ Done(None)
  /\ UNCHANGED <<phase, lastGood, lo, hi, steps, failRate, failUs>>

(* A failure is acted on when it is confirmed and is no latency floor.     *)
ConfirmedFailure(us) ==
  /\ fails = Confirm
  /\ ~Unresponsive(us)
  /\ fails' = 0
  /\ failRate' = IF FloorWatched(us) THEN rate ELSE failRate
  /\ failUs' = IF FloorWatched(us) THEN us ELSE failUs
  /\ UNCHANGED <<lastGood, floor>>

(* Mutant of Pass: a retry that passes does not clear the failures.        *)
PassKeepsFails ==
  /\ fails' = fails
  /\ lastGood' = rate
  /\ failRate' = None /\ failUs' = 0
  /\ UNCHANGED floor

(* A pass clears the failures counted at the rate.                         *)
Pass ==
  /\ fails' = 0
  /\ lastGood' = rate
  /\ failRate' = None /\ failUs' = 0
  /\ UNCHANGED floor

StartBisect(us) ==
  /\ phase = "Climb" /\ ConfirmedFailure(us)
  /\ phase' = "Bisect"
  /\ lo' = lastGood /\ hi' = rate
  /\ UNCHANGED steps
  /\ Probe(BisectProbe(lastGood, rate))

ClimbOn ==
  /\ phase = "Climb" /\ Pass
  /\ UNCHANGED <<phase, lo, hi, steps>>
  /\ \/ Multiplied(rate) < MaxRate /\ Probe(NextClimb(rate))
     \/ Multiplied(rate) >= MaxRate /\ rate < MaxRate /\ Probe(MaxRate)
     \/ Multiplied(rate) >= MaxRate /\ rate >= MaxRate /\ Done(rate)

(* One bisection step leaves [l, h].                                       *)
Narrow(l, h) ==
  /\ lo' = l /\ hi' = h /\ steps' = steps + 1
  /\ UNCHANGED phase
  /\ \/ Closed(l, h, steps + 1) /\ Done(IF l > 0 THEN l ELSE lastGood')
     \/ ~Closed(l, h, steps + 1) /\ Probe(BisectProbe(l, h))

(* Mutant of BisectUp: a pass moves the high end of the bracket.           *)
BisectUpMovesHigh == phase = "Bisect" /\ Pass /\ Narrow(lo, rate)

BisectUp == phase = "Bisect" /\ Pass /\ Narrow(rate, hi)

BisectDown(us) == phase = "Bisect" /\ ConfirmedFailure(us) /\ Narrow(lo, rate)

Advance(passed, us) ==
  /\ ~completed /\ baselined
  /\ Observable(passed)
  /\ Record(passed)
  /\ UNCHANGED limit
  /\ \/ passed /\ (ClimbOn \/ BisectUp)
     \/ ~passed /\ (Retry \/ StopAtFloor(us) \/ StartBisect(us) \/ BisectDown(us))

Next == CaptureBaseline \/ \E passed \in BOOLEAN, us \in Latencies : Advance(passed, us)

Spec == Init /\ [][Next]_vars

(* The runner's loop calls check_and_advance at every report until the     *)
(* search has completed.                                                   *)
LiveSpec == Spec /\ WF_vars(Next)

-----------------------------------------------------------------------------
(* Properties                                                              *)

(* Every variable has its type; no rate of 0 is ever applied (the limiter  *)
(* would stop, and the throughput ratio divide by zero), none above both   *)
(* StartRate and MaxRate, and the bracket of a bisection is in order, so   *)
(* that hi - lo of two u64 never wraps.                                    *)
TypeOK ==
  /\ phase \in {"Climb", "Bisect"}
  /\ rate \in 1 .. TopRate /\ target \in 1 .. TopRate
  /\ lastGood \in 0 .. TopRate /\ knee \in 0 .. TopRate
  /\ lo \in 0 .. TopRate /\ hi \in 0 .. TopRate /\ lo <= hi
  /\ steps \in 0 .. MaxOf(MaxBisect, 1)
  /\ fails \in 0 .. Confirm
  /\ failRate \in 0 .. TopRate /\ failUs \in Latencies \cup {0}
  /\ floor \in BOOLEAN /\ baselined \in BOOLEAN /\ completed \in BOOLEAN
  /\ limit \in 0 .. TopRate \cup {Erratic}
  /\ streak \in 0 .. Confirm
  /\ met \subseteq 1 .. TopRate

(* "`knee` is the highest rate that met SLO (if any)" (SearchOutcome):     *)
(* whatever the server does, the rate the search reports is the highest    *)
(* rate that was really applied to the limiter and met the SLO, and it     *)
(* reports none only when no rate did; stopping at a latency floor never   *)
(* hides a rate that passed.                                               *)
KneeIsBest ==
  completed =>
    IF knee = None THEN met = {}
    ELSE knee \in met /\ \A r \in met : r <= knee

(* The windows of the search separate a server that sustains h from one    *)
(* that sustains k as finely as bisect_tolerance asks.                     *)
Resolved(k, h) == (h - k) * TolDen <= TolNum * h \/ h - k <= 1

(* confirm_failures does what it is for: with a server that has a definite *)
(* limit and fails at most Confirm windows in a row below it, no transient *)
(* caps the search.  Unless it stopped at a latency floor or ran out of    *)
(* bisection steps, the reported rate is one the server sustains and is    *)
(* max_rate, or within bisect_tolerance of a rate it does not sustain.     *)
KneeAccurate ==
  completed /\ limit # Erratic /\ ~floor /\ steps < MaxBisect =>
    /\ knee <= limit
    /\ knee >= MaxRate \/ \E h \in limit + 1 .. TopRate : Resolved(knee, h)

(* The search ends, whatever the server does: the climb gains at least one *)
(* request per second on every pass, also where the multiplier rounds to   *)
(* nothing, and the bisection is bounded.                                  *)
SearchEnds == <>completed
=============================================================================
