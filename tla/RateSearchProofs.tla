-------------------------- MODULE RateSearchProofs --------------------------
(***************************************************************************)
(* Proofs about RateSearch for every configuration the search accepts and  *)
(* every server: its rates and its bracket stay in range, the reported     *)
(* knee is the best rate that passed, and no transient failure caps it.    *)
(***************************************************************************)
EXTENDS RateSearch, TLAPS

(* How the search's state relates to what was measured: the last good rate *)
(* is the best one measured, a climb probes above it, a bisection between  *)
(* it and a rate that failed.                                              *)
BracketInv ==
  /\ completed \/ target = rate
  /\ \A r \in met : r <= lastGood
  /\ lastGood = None \/ lastGood \in met
  /\ phase = "Climb" => steps = 0 /\ (completed \/ lastGood < rate)
  /\ phase = "Bisect" =>
       /\ lo = lastGood /\ lo <= hi
       /\ completed \/ (lo <= rate /\ rate <= hi /\ lo < hi)
       /\ completed \/ steps = 0 \/ steps < MaxBisect
  /\ completed => knee = lastGood

(* What a server with a limit adds to it: the bracket holds the limit, and *)
(* a failure at a sustained rate is not confirmed.                         *)
LimitInv ==
  /\ limit # Erratic => lastGood <= limit
  /\ limit # Erratic /\ phase = "Bisect" => limit < hi
  /\ completed \/ ~Sustained(rate) \/ fails <= streak
  /\ completed /\ ~floor /\ phase = "Climb" => lastGood >= MaxRate
  /\ completed /\ ~floor /\ phase = "Bisect" => Closed(lo, hi, steps)

IInv == TypeOK /\ BracketInv /\ LimitInv

-----------------------------------------------------------------------------
(* The operators                                                           *)

(* bisect_probe stays inside the bracket and never asks for a rate of 0.   *)
LEMMA ProbeInside ==
  ASSUME NEW l \in Nat, NEW h \in Nat, l < h
  PROVE  /\ BisectProbe(l, h) \in Nat
         /\ BisectProbe(l, h) >= 1
         /\ l <= BisectProbe(l, h)
         /\ BisectProbe(l, h) <= h
  BY DEF BisectProbe, MaxOf, MinOf

(* A multiplier above 1 never takes the rate down.                         *)
LEMMA MultipliedGrows ==
  ASSUME NEW r \in Nat
  PROVE  Multiplied(r) \in Nat /\ r <= Multiplied(r)
<1> DEFINE p == r * MulNum
           q == p \div MulDen
<1>1. MulDen \in Nat \ {0} /\ MulNum \in Nat /\ MulNum > MulDen
  BY SearchAssumption
<1>2. p \in Nat
  BY <1>1
<1>3. r * MulDen <= p
  BY <1>1
<1> HIDE DEF p
<1>4. q \in Nat /\ p < (q + 1) * MulDen
  BY <1>1, <1>2
<1>5. r <= q
  <2> HIDE DEF q
  <2>1. SUFFICES ASSUME q + 1 <= r PROVE FALSE
    BY <1>4
  <2>2. (q + 1) * MulDen <= r * MulDen
    BY <2>1, <1>1, <1>4
  <2>3. QED
    BY <2>2, <1>1, <1>2, <1>3, <1>4
<1>6. QED
  BY <1>4, <1>5 DEF Multiplied, p

(* The bound on rates is a bound on both configured rates.                 *)
LEMMA TopRateBounds ==
  TopRate \in Nat /\ StartRate <= TopRate /\ MaxRate <= TopRate /\ 1 <= StartRate
  BY SearchAssumption DEF TopRate

(* A bracket still open has room for a probe and steps to spend.           *)
LEMMA OpenBracket ==
  ASSUME NEW l \in Nat, NEW h \in Nat, NEW n \in Nat, ~Closed(l, h, n)
  PROVE  l < h /\ n < MaxBisect
<1>1. ~(h - l <= 1) /\ ~(n >= MaxBisect)
  BY Zenon DEF Closed
<1>2. QED
  BY <1>1, SearchAssumption

(* The configuration, without the fractions.                               *)
LEMMA Config ==
  /\ StartRate \in Nat /\ 1 <= StartRate /\ MaxRate \in Nat
  /\ MaxBisect \in Nat /\ Confirm \in Nat
  BY SearchAssumption

-----------------------------------------------------------------------------
(* Every step preserves the invariant                                      *)

LEMMA InitInv == Init => IInv
<1> SUFFICES ASSUME Init PROVE IInv
  OBVIOUS
<1> USE Config, TopRateBounds DEF Init, None, Erratic
<1>1. TypeOK
  <2>1. met \subseteq 1 .. TopRate /\ limit \in 0 .. TopRate \cup {Erratic}
    BY Zenon
  <2>2. floor \in BOOLEAN /\ baselined \in BOOLEAN /\ completed \in BOOLEAN
    BY Zenon
  <2>3. failUs \in Latencies \cup {0}
    BY Zenon
  <2>4. QED
    BY <2>1, <2>2, <2>3 DEF TypeOK, MaxOf
<1>2. BracketInv
  BY DEF BracketInv
<1>3. LimitInv
  BY DEF LimitInv, Sustained
<1>4. QED
  BY <1>1, <1>2, <1>3 DEF IInv

(* A window that passed, at a rate the server may pass at.                 *)
PassedWindow ==
  /\ ~completed
  /\ limit = Erratic \/ target <= limit
  /\ met' = met \cup {target} /\ streak' = 0
  /\ limit' = limit

(* A window that failed.                                                   *)
FailedWindow ==
  /\ ~completed
  /\ limit = Erratic \/ target > limit \/ streak < Confirm
  /\ met' = met
  /\ streak' = IF Sustained(target) THEN streak + 1 ELSE 0
  /\ limit' = limit

LEMMA ClimbOnInv ==
  ASSUME IInv, PassedWindow, ClimbOn
  PROVE  IInv'
<1> USE Config, TopRateBounds DEF None, Erratic
<1>1. Multiplied(rate) \in Nat /\ rate <= Multiplied(rate)
  BY MultipliedGrows DEF IInv, TypeOK
<1> DEFINE m == Multiplied(rate)
<1> HIDE DEF m
<1>2. \/ m < MaxRate /\ Probe(MaxOf(m, rate + 1))
      \/ m >= MaxRate /\ rate < MaxRate /\ Probe(MaxRate)
      \/ m >= MaxRate /\ rate >= MaxRate /\ Done(rate)
  BY Zenon DEF ClimbOn, m, NextClimb
<1>3. /\ phase = "Climb" /\ phase' = phase /\ lo' = lo /\ hi' = hi /\ steps' = steps
      /\ fails' = 0 /\ lastGood' = rate /\ failRate' = None /\ failUs' = 0
      /\ floor' = floor
  BY DEF ClimbOn, Pass
<1>4. /\ m \in Nat /\ rate <= m
  BY <1>1 DEF m
<1>5. TypeOK'
  <2>1. limit' \in 0 .. TopRate \cup {Erratic} /\ failUs' \in Latencies \cup {0}
    BY <1>3, Zenon DEF IInv, TypeOK, PassedWindow
  <2>2. floor' \in BOOLEAN /\ baselined' \in BOOLEAN /\ completed' \in BOOLEAN
    BY <1>2, <1>3, Zenon DEF IInv, TypeOK, Probe, Done
  <2>3. met' \subseteq 1 .. TopRate
    BY Zenon DEF IInv, TypeOK, PassedWindow
  <2>4. /\ rate' \in 1 .. TopRate /\ target' \in 1 .. TopRate
        /\ knee' \in 0 .. TopRate
    BY <1>2, <1>4 DEF IInv, TypeOK, Probe, Done, MaxOf
  <2>5. QED
    BY <2>1, <2>2, <2>3, <2>4, <1>3 DEF IInv, TypeOK, PassedWindow
<1>6. BracketInv'
  BY <1>2, <1>3, <1>4 DEF IInv, TypeOK, BracketInv, PassedWindow, Probe, Done, MaxOf
<1>7. LimitInv'
  BY <1>2, <1>3, <1>4
  DEF IInv, TypeOK, BracketInv, LimitInv, PassedWindow, Probe, Done, MaxOf, Sustained
<1>8. QED
  BY <1>5, <1>6, <1>7 DEF IInv

(* What the end of a bisection step leaves, whichever end moved.           *)
NarrowResult(l, h) ==
  \/ /\ completed' = TRUE /\ knee' = l /\ Closed(l, h, steps + 1)
     /\ rate' = rate /\ target' = target /\ baselined' = baselined
  \/ /\ completed' = completed /\ knee' = knee /\ baselined' = FALSE
     /\ target' = rate' /\ rate' \in Nat /\ 1 <= rate'
     /\ l <= rate' /\ rate' <= h /\ l < h /\ steps + 1 < MaxBisect

LEMMA NarrowOutcome ==
  ASSUME NEW l \in Nat, NEW h \in Nat, steps \in Nat, l = lastGood', Narrow(l, h)
  PROVE  NarrowResult(l, h)
<1>1. CASE Closed(l, h, steps + 1)
  <2>1. Done(IF l > 0 THEN l ELSE lastGood')
    BY <1>1, Zenon DEF Narrow
  <2>2. QED
    BY <1>1, <2>1 DEF Done, NarrowResult
<1>2. CASE ~Closed(l, h, steps + 1)
  <2>1. Probe(BisectProbe(l, h))
    BY <1>2, Zenon DEF Narrow
  <2>2. steps + 1 \in Nat
    OBVIOUS
  <2>3. l < h /\ steps + 1 < MaxBisect
    BY <1>2, <2>2, OpenBracket, Zenon
  <2>4. /\ BisectProbe(l, h) \in Nat /\ BisectProbe(l, h) >= 1
        /\ l <= BisectProbe(l, h) /\ BisectProbe(l, h) <= h
    BY <2>3, ProbeInside, Zenon
  <2>5. QED
    BY <2>1, <2>3, <2>4, Config DEF Probe, NarrowResult
<1>3. QED
  BY <1>1, <1>2

LEMMA BisectUpInv ==
  ASSUME IInv, PassedWindow, BisectUp
  PROVE  IInv'
<1> USE Config, TopRateBounds DEF None, Erratic
<1>1. /\ phase = "Bisect" /\ phase' = phase /\ lo' = rate /\ hi' = hi
      /\ steps' = steps + 1 /\ fails' = 0 /\ lastGood' = rate
      /\ failRate' = None /\ failUs' = 0 /\ floor' = floor
  BY Zenon DEF BisectUp, Pass, Narrow
<1>2. NarrowResult(rate, hi)
  <2>1. rate \in Nat /\ hi \in Nat /\ steps \in Nat
    BY DEF IInv, TypeOK, MaxOf
  <2>2. Narrow(rate, hi)
    BY Zenon DEF BisectUp
  <2>3. QED
    BY <1>1, <2>1, <2>2, NarrowOutcome
<1>3. TypeOK'
  <2>1. limit' \in 0 .. TopRate \cup {Erratic} /\ failUs' \in Latencies \cup {0}
    BY <1>1, Zenon DEF IInv, TypeOK, PassedWindow
  <2>2. floor' \in BOOLEAN /\ baselined' \in BOOLEAN /\ completed' \in BOOLEAN
    BY <1>1, <1>2, Zenon DEF IInv, TypeOK, NarrowResult
  <2>3. met' \subseteq 1 .. TopRate
    BY Zenon DEF IInv, TypeOK, PassedWindow
  <2>4. /\ rate' \in 1 .. TopRate /\ target' \in 1 .. TopRate
        /\ knee' \in 0 .. TopRate
    BY <1>1, <1>2 DEF IInv, TypeOK, NarrowResult
  <2>5. lo' <= hi' /\ steps' \in 0 .. MaxOf(MaxBisect, 1)
    BY <1>1 DEF IInv, TypeOK, BracketInv, PassedWindow, MaxOf
  <2>6. QED
    BY <2>1, <2>2, <2>3, <2>4, <2>5, <1>1 DEF IInv, TypeOK, PassedWindow
<1>4. BracketInv'
  BY <1>1, <1>2 DEF IInv, TypeOK, BracketInv, PassedWindow, NarrowResult
<1>5. LimitInv'
  BY <1>1, <1>2
  DEF IInv, TypeOK, BracketInv, LimitInv, PassedWindow, NarrowResult, Sustained
<1>6. QED
  BY <1>3, <1>4, <1>5 DEF IInv

(* A failure that is confirmed is no transient: the rate is above the      *)
(* limit of a server that has one.                                         *)
LEMMA ConfirmedMeansUnsustained ==
  ASSUME IInv, FailedWindow, fails = Confirm
  PROVE  limit # Erratic => limit < rate
  BY Config DEF IInv, TypeOK, BracketInv, LimitInv, FailedWindow, Sustained, Erratic

(* What a confirmed failure leaves of the failure bookkeeping.             *)
LEMMA ConfirmedTypes ==
  ASSUME IInv, NEW us \in Latencies, ConfirmedFailure(us)
  PROVE  /\ failRate' \in 0 .. TopRate /\ failUs' \in Latencies \cup {0}
         /\ fails = Confirm /\ fails' = 0 /\ lastGood' = lastGood /\ floor' = floor
<1>1. failUs' \in Latencies \cup {0}
  BY Zenon DEF ConfirmedFailure, IInv, TypeOK
<1>2. failRate' = rate \/ failRate' = failRate
  BY Zenon DEF ConfirmedFailure
<1>3. fails = Confirm /\ fails' = 0 /\ lastGood' = lastGood /\ floor' = floor
  BY Zenon DEF ConfirmedFailure
<1>4. QED
  BY <1>1, <1>2, <1>3, TopRateBounds DEF IInv, TypeOK

LEMMA BisectDownInv ==
  ASSUME IInv, FailedWindow, NEW us \in Latencies, BisectDown(us)
  PROVE  IInv'
<1> USE Config, TopRateBounds DEF None, Erratic
<1>0. ConfirmedFailure(us)
  BY Zenon DEF BisectDown
<1>1. /\ phase = "Bisect" /\ phase' = phase /\ lo' = lo /\ hi' = rate
      /\ steps' = steps + 1
  BY Zenon DEF BisectDown, Narrow
<1>2. /\ failRate' \in 0 .. TopRate /\ failUs' \in Latencies \cup {0}
      /\ fails = Confirm /\ fails' = 0 /\ lastGood' = lastGood /\ floor' = floor
  BY <1>0, ConfirmedTypes
<1>3. NarrowResult(lo, rate)
  <2>1. rate \in Nat /\ lo \in Nat /\ steps \in Nat /\ lo = lastGood
    BY <1>1 DEF IInv, TypeOK, BracketInv, MaxOf
  <2>2. Narrow(lo, rate)
    BY Zenon DEF BisectDown
  <2>3. QED
    BY <1>2, <2>1, <2>2, NarrowOutcome
<1>4. limit # Erratic => limit < rate
  BY <1>2, ConfirmedMeansUnsustained
<1>5. TypeOK'
  <2>1. limit' \in 0 .. TopRate \cup {Erratic}
    BY Zenon DEF IInv, TypeOK, FailedWindow
  <2>2. floor' \in BOOLEAN /\ baselined' \in BOOLEAN /\ completed' \in BOOLEAN
    BY <1>2, <1>3, Zenon DEF IInv, TypeOK, NarrowResult
  <2>3. met' \subseteq 1 .. TopRate
    BY Zenon DEF IInv, TypeOK, FailedWindow
  <2>4. /\ rate' \in 1 .. TopRate /\ target' \in 1 .. TopRate
        /\ knee' \in 0 .. TopRate
    BY <1>1, <1>3 DEF IInv, TypeOK, NarrowResult
  <2>5. lo' <= hi' /\ steps' \in 0 .. MaxOf(MaxBisect, 1)
    BY <1>1 DEF IInv, TypeOK, BracketInv, FailedWindow, MaxOf
  <2>6. streak' \in 0 .. Confirm
    BY DEF IInv, TypeOK, FailedWindow, Sustained
  <2>7. QED
    BY <2>1, <2>2, <2>3, <2>4, <2>5, <2>6, <1>1, <1>2 DEF IInv, TypeOK
<1>6. BracketInv'
  BY <1>1, <1>2, <1>3 DEF IInv, TypeOK, BracketInv, FailedWindow, NarrowResult
<1>7. LimitInv'
  <2>1. streak' \in 0 .. Confirm
    BY DEF IInv, TypeOK, FailedWindow, Sustained
  <2>2. limit' = limit
    BY DEF FailedWindow
  <2>3. QED
    BY <1>1, <1>2, <1>3, <1>4, <2>1, <2>2
    DEF IInv, TypeOK, BracketInv, LimitInv, FailedWindow, NarrowResult
<1>8. QED
  BY <1>5, <1>6, <1>7 DEF IInv

LEMMA StartBisectInv ==
  ASSUME IInv, FailedWindow, NEW us \in Latencies, StartBisect(us)
  PROVE  IInv'
<1> USE Config, TopRateBounds DEF None, Erratic
<1>0. ConfirmedFailure(us)
  BY Zenon DEF StartBisect
<1>1. /\ phase = "Climb" /\ phase' = "Bisect" /\ lo' = lastGood /\ hi' = rate
      /\ steps' = steps /\ Probe(BisectProbe(lastGood, rate))
  BY Zenon DEF StartBisect
<1>2. /\ failRate' \in 0 .. TopRate /\ failUs' \in Latencies \cup {0}
      /\ fails = Confirm /\ fails' = 0 /\ lastGood' = lastGood /\ floor' = floor
  BY <1>0, ConfirmedTypes
<1>3. lastGood \in Nat /\ rate \in Nat /\ lastGood < rate /\ rate <= TopRate
  BY <1>1 DEF IInv, TypeOK, BracketInv, FailedWindow
<1>4. /\ rate' \in Nat /\ 1 <= rate' /\ lastGood <= rate' /\ rate' <= rate
      /\ target' = rate' /\ baselined' = FALSE
      /\ completed' = completed /\ knee' = knee
  BY <1>1, <1>3, ProbeInside DEF Probe
<1>5. limit # Erratic => limit < rate
  BY <1>2, ConfirmedMeansUnsustained
<1>6. streak' \in 0 .. Confirm /\ limit' = limit /\ met' = met
  BY DEF IInv, TypeOK, FailedWindow, Sustained
<1>7. TypeOK'
  <2>1. floor' \in BOOLEAN /\ baselined' \in BOOLEAN /\ completed' \in BOOLEAN
    BY <1>2, <1>4, Zenon DEF IInv, TypeOK
  <2>2. QED
    BY <2>1, <1>1, <1>2, <1>3, <1>4, <1>6 DEF IInv, TypeOK
<1>8. BracketInv'
  BY <1>1, <1>2, <1>3, <1>4, <1>6 DEF IInv, TypeOK, BracketInv, FailedWindow
<1>9. LimitInv'
  BY <1>1, <1>2, <1>3, <1>4, <1>5, <1>6
  DEF IInv, TypeOK, LimitInv, FailedWindow
<1>10. QED
  BY <1>7, <1>8, <1>9 DEF IInv

LEMMA RetryInv ==
  ASSUME IInv, FailedWindow, Retry
  PROVE  IInv'
<1> USE Config, TopRateBounds DEF None, Erratic
<1>1. /\ fails < Confirm /\ fails' = fails + 1
      /\ phase' = phase /\ lastGood' = lastGood /\ lo' = lo /\ hi' = hi
      /\ steps' = steps /\ failRate' = failRate /\ failUs' = failUs
      /\ floor' = floor /\ rate' = rate /\ target' = rate /\ baselined' = FALSE
      /\ completed' = completed /\ knee' = knee
  BY DEF Retry, Probe
<1>2. streak' \in 0 .. Confirm /\ limit' = limit /\ met' = met
  BY DEF IInv, TypeOK, FailedWindow, Sustained
<1>3. TypeOK'
  <2>1. /\ floor' \in BOOLEAN /\ baselined' \in BOOLEAN /\ completed' \in BOOLEAN
        /\ failUs' \in Latencies \cup {0}
    BY <1>1, Zenon DEF IInv, TypeOK
  <2>2. QED
    BY <2>1, <1>1, <1>2 DEF IInv, TypeOK
<1>4. BracketInv'
  BY <1>1, <1>2 DEF IInv, TypeOK, BracketInv, FailedWindow
<1>5. LimitInv'
  <2>1. ~Sustained(rate)' \/ fails' <= streak'
    BY <1>1, <1>2 DEF IInv, TypeOK, BracketInv, LimitInv, FailedWindow, Sustained
  <2>2. ~completed'
    BY <1>1 DEF FailedWindow
  <2>3. QED
    BY <2>1, <2>2, <1>1, <1>2 DEF IInv, LimitInv
<1>6. QED
  BY <1>3, <1>4, <1>5 DEF IInv

LEMMA StopAtFloorInv ==
  ASSUME IInv, FailedWindow, NEW us \in Latencies, StopAtFloor(us)
  PROVE  IInv'
<1> USE Config, TopRateBounds DEF None, Erratic
<1>1. /\ fails' = 0 /\ floor' = TRUE /\ lastGood = None
      /\ phase' = phase /\ lastGood' = lastGood /\ lo' = lo /\ hi' = hi
      /\ steps' = steps /\ failRate' = failRate /\ failUs' = failUs
      /\ rate' = rate /\ target' = target /\ baselined' = baselined
      /\ completed' = TRUE /\ knee' = None
  BY Zenon DEF StopAtFloor, Unresponsive, FloorWatched, Done
<1>2. streak' \in 0 .. Confirm /\ limit' = limit /\ met' = met
  BY DEF IInv, TypeOK, FailedWindow, Sustained
<1>3. TypeOK'
  <2>1. /\ floor' \in BOOLEAN /\ baselined' \in BOOLEAN /\ completed' \in BOOLEAN
        /\ failUs' \in Latencies \cup {0}
    BY <1>1, Zenon DEF IInv, TypeOK
  <2>2. QED
    BY <2>1, <1>1, <1>2 DEF IInv, TypeOK
<1>4. BracketInv'
  BY <1>1, <1>2 DEF IInv, TypeOK, BracketInv
<1>5. LimitInv'
  BY <1>1, <1>2 DEF IInv, TypeOK, LimitInv
<1>6. QED
  BY <1>3, <1>4, <1>5 DEF IInv

LEMMA BaselineInv ==
  ASSUME IInv, CaptureBaseline
  PROVE  IInv'
<1>1. /\ baselined' = TRUE /\ UNCHANGED <<search, target, completed, knee>>
      /\ UNCHANGED <<limit, streak, met>>
  BY DEF CaptureBaseline
<1>2. baselined' \in BOOLEAN
  BY <1>1
<1>3. TypeOK'
  BY <1>1, <1>2, Zenon DEF IInv, TypeOK, search
<1>4. BracketInv'
  BY <1>1, Zenon DEF IInv, BracketInv, search
<1>5. LimitInv'
  BY <1>1, Zenon DEF IInv, LimitInv, search, Sustained
<1>6. QED
  BY <1>3, <1>4, <1>5 DEF IInv

LEMMA AdvanceInv ==
  ASSUME IInv, NEW passed \in BOOLEAN, NEW us \in Latencies, Advance(passed, us)
  PROVE  IInv'
<1>1. CASE passed
  <2>1. PassedWindow
    BY <1>1, Zenon DEF Advance, Observable, Record, PassedWindow
  <2>2. ClimbOn \/ BisectUp
    BY <1>1, Zenon DEF Advance
  <2>3. QED
    BY <2>1, <2>2, ClimbOnInv, BisectUpInv
<1>2. CASE ~passed
  <2>1. FailedWindow
    BY <1>2, Zenon DEF Advance, Observable, Record, FailedWindow
  <2>2. Retry \/ StopAtFloor(us) \/ StartBisect(us) \/ BisectDown(us)
    BY <1>2, Zenon DEF Advance
  <2>3. QED
    BY <2>1, <2>2, RetryInv, StopAtFloorInv, StartBisectInv, BisectDownInv
<1>3. QED
  BY <1>1, <1>2

(* The inductive invariant of the search.                                  *)
THEOREM Inductive == Spec => []IInv
<1>1. IInv /\ [Next]_vars => IInv'
  <2> SUFFICES ASSUME IInv, [Next]_vars PROVE IInv'
    OBVIOUS
  <2>1. CASE CaptureBaseline
    BY <2>1, BaselineInv
  <2>2. ASSUME NEW passed \in BOOLEAN, NEW us \in Latencies, Advance(passed, us)
        PROVE  IInv'
    BY <2>2, AdvanceInv
  <2>3. CASE UNCHANGED vars
    <3>1. TypeOK' /\ BracketInv'
      BY <2>3, Zenon DEF IInv, TypeOK, BracketInv, vars, search, driver
    <3>2. LimitInv'
      BY <2>3, Zenon DEF IInv, LimitInv, vars, search, driver, Sustained
    <3>3. QED
      BY <3>1, <3>2 DEF IInv
  <2>4. QED
    BY <2>1, <2>2, <2>3 DEF Next
<1>2. QED
  BY <1>1, InitInv, PTL DEF Spec

(* Every rate the search applies is at least 1 and at most the larger of   *)
(* start_rate and max_rate, and a bracket is never out of order, for every *)
(* configuration validate accepts.                                         *)
THEOREM TypeCorrect == Spec => []TypeOK
<1>1. IInv => TypeOK
  BY DEF IInv
<1>2. QED
  BY <1>1, Inductive, PTL

(* The reported knee is the highest applied rate that met the SLO, however *)
(* the server behaves.                                                     *)
THEOREM ReportsBest == Spec => []KneeIsBest
<1>1. IInv => KneeIsBest
  BY DEF IInv, TypeOK, BracketInv, KneeIsBest, None
<1>2. QED
  BY <1>1, Inductive, PTL

(* With a server that has a limit, up to confirm_failures transients in a  *)
(* row never cap the search.                                               *)
THEOREM TransientsDoNotCap == Spec => []KneeAccurate
<1>1. IInv => KneeAccurate
  <2> SUFFICES ASSUME IInv, completed, limit # Erratic, ~floor, steps < MaxBisect
               PROVE  /\ knee <= limit
                      /\ knee >= MaxRate \/ \E h \in limit + 1 .. TopRate : Resolved(knee, h)
    BY DEF KneeAccurate
  <2> USE Config, TopRateBounds
  <2>1. knee = lastGood /\ knee <= limit
    BY DEF IInv, BracketInv, LimitInv
  <2>2. CASE phase = "Climb"
    BY <2>1, <2>2 DEF IInv, LimitInv
  <2>3. CASE phase = "Bisect"
    <3>1. lo = knee /\ limit < hi /\ Closed(lo, hi, steps)
      BY <2>1, <2>3 DEF IInv, BracketInv, LimitInv
    <3>2. limit \in Nat /\ hi \in limit + 1 .. TopRate
      BY <3>1 DEF IInv, TypeOK, Erratic
    <3>3. ~(steps >= MaxBisect)
      BY DEF IInv, TypeOK, MaxOf
    <3>4. Resolved(knee, hi)
      BY <3>1, <3>3, Zenon DEF Closed, Resolved
    <3>5. QED
      BY <2>1, <3>2, <3>4
  <2>4. QED
    BY <2>1, <2>2, <2>3 DEF IInv, TypeOK
<1>2. QED
  BY <1>1, Inductive, PTL
=============================================================================
