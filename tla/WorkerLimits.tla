---------------------------- MODULE WorkerLimits ----------------------------
(***************************************************************************)
(* The split of one rate over the workers' limiters: WorkerLimiters and    *)
(* WorkerLimiter of src/src/limiters.rs.  TokenDispatch looks at one       *)
(* worker's limiter from its dispatcher; this module looks at all of them, *)
(* over the restart that opens the run and over set_rate, with which the   *)
(* saturation search moves the rate while the caps stay as built.          *)
(*                                                                         *)
(* A limiter counts sub-units, SUB to a request, and refills lazily: what  *)
(* accrued is added, up to the cap, when somebody takes.  Amounts are kept *)
(* in 1/(total_weight * Ticks) of a sub-unit, so that they are integers.   *)
(***************************************************************************)
EXTENDS Integers, Sequences, FiniteSetsExt, SequencesExt

CONSTANTS
    WeightsOf,    \* bound: the connections per worker that are tried
    RatesOf,      \* bound: the total rates that are tried, per second
    ClaimsOf,     \* bound: the claim sizes that are tried
    SubUnits,     \* SUB, small
    Ticks,        \* ticks in a second
    MaxTicks      \* bound: ticks in a behaviour

VARIABLES
    weights,      \* connections per worker
    claimSize,    \* requests a claim asks for
    cap,          \* max_tokens of each worker's limiter, as built
    start,        \* what it holds when the run starts: its stagger
    avail,        \* available tokens at the last refill
    due,          \* accrued since then
    rate,         \* the total rate now
    open,         \* has restart been called and traffic begun
    taken,        \* history: tokens taken since
    owed,         \* history: tokens the rate allowed since
    clock         \* history: ticks so far

lvars == <<weights, claimSize, cap, start, avail, due, rate, open, taken, owed, clock>>

Active == {w \in DOMAIN weights : weights[w] > 0}
TotalWeight == MapThenSumSet(LAMBDA w : weights[w], DOMAIN weights)
Scale == TotalWeight * Ticks
ClaimTokens == claimSize * SubUnits * Scale
Lower2(a, b) == IF a < b THEN a ELSE b

\* share_ceil: a worker's share of one second.
ShareCeil(r, w) == (r * weights[w] + TotalWeight - 1) \div TotalWeight

\* WorkerLimiters::new and WorkerLimiter::build: a cap of the worker's share of
\* a second, at least one claim, plus its stagger, which is all it starts with.
Rank(w) == Cardinality({v \in Active : v < w})
Stagger(w) == (Rank(w) * claimSize * SubUnits) \div Cardinality(Active)
CapOf(r, w) ==
    Scale * (Stagger(w) + SubUnits * Max({ShareCeil(r, w), claimSize}))

InitOf(ws, r, c) ==
    /\ weights = ws
    /\ claimSize = c
    /\ rate = r
    /\ cap = [w \in Active |-> CapOf(r, w)]
    /\ start = [w \in Active |-> Scale * Stagger(w)]
    /\ avail = [w \in Active |-> Scale * Stagger(w)]
    /\ due = [w \in Active |-> 0]
    /\ open = FALSE
    /\ taken = 0
    /\ owed = 0
    /\ clock = 0
Init == \E ws \in WeightsOf, r \in RatesOf, c \in ClaimsOf : InitOf(ws, r, c)

\* One tick of time: every limiter accrues its share of the rate.
Tick ==
    /\ clock < MaxTicks
    /\ clock' = clock + 1
    /\ due' = [w \in Active |-> due[w] + rate * weights[w] * SubUnits]
    /\ owed' = IF open THEN owed + rate * TotalWeight * SubUnits ELSE 0
    /\ UNCHANGED <<weights, claimSize, cap, start, avail, rate, open, taken>>

\* The refill of the ratelimit crate, under a given cap.
Refilled(w, limit) == Lower2(limit, avail[w] + due[w])

\* WorkerLimiters::restart as the runner opens the run: under a cap one above
\* the start, a take of one forces the refill, and then the cap is put back.
\* The second form lowers the cap and takes nothing, so the refill is still due.
RestartCapOnly ==
    /\ ~open
    /\ avail' = [w \in Active |-> Lower2(start[w], avail[w])]
    /\ open' = TRUE
    /\ UNCHANGED <<weights, claimSize, cap, start, due, rate, taken, owed, clock>>
Restart ==
    /\ ~open
    /\ avail' = [w \in Active |->
                   LET a == Refilled(w, start[w] + Scale)
                   IN  IF a >= Scale THEN a - Scale ELSE a]
    /\ due' = [w \in Active |-> 0]
    /\ open' = TRUE
    /\ UNCHANGED <<weights, claimSize, cap, start, rate, taken, owed, clock>>

\* try_wait of one worker: a whole claim, or nothing but the refill.
Take(w) ==
    /\ open
    /\ LET a == Refilled(w, cap[w])
       IN  IF a >= ClaimTokens
           THEN /\ avail' = [avail EXCEPT ![w] = a - ClaimTokens]
                /\ taken' = taken + ClaimTokens
           ELSE /\ avail' = [avail EXCEPT ![w] = a]
                /\ UNCHANGED taken
    /\ due' = [due EXCEPT ![w] = 0]
    /\ UNCHANGED <<weights, claimSize, cap, start, rate, open, owed, clock>>

\* set_rate, from the saturation search: the rate is split anew, the caps stay.
\* The second form sizes the caps by the new rate alone.
SetRateAndCaps(r) ==
    /\ open
    /\ rate' = r
    /\ cap' = [w \in Active |-> Scale * (Stagger(w) + SubUnits * ShareCeil(r, w))]
    /\ UNCHANGED <<weights, claimSize, start, avail, due, open, taken, owed, clock>>
SetRate(r) ==
    /\ open
    /\ rate' = r
    /\ UNCHANGED <<weights, claimSize, cap, start, avail, due, open, taken, owed, clock>>

Next ==
    \/ Tick \/ Restart
    \/ \E w \in Active : Take(w)
    \/ \E r \in RatesOf : SetRate(r)

Spec == Init /\ [][Next]_lvars

-----------------------------------------------------------------------------
(* Properties *)

\* Whatever rate the search asks for after the limiters were built, every
\* worker with connections can hold a whole claim, so its dispatcher is not
\* refused for ever.
ClaimFundable == \A w \in Active : cap[w] >= ClaimTokens

\* From the restart on, all workers together take no more than the staggers
\* and what the rates in force have allowed: what accrued while connections
\* opened and prefill ran is gone, also from the refill that was still due.
SplitWithinRate ==
    open => taken <= owed + MapThenSumSet(LAMBDA w : start[w], Active)

\* The run does not open with a burst: before time has passed since the
\* restart, no worker holds a claim.
OpensStaggered ==
    open /\ owed = 0 => \A w \in Active : Refilled(w, cap[w]) < ClaimTokens

\* The limiters fund claims at any rate, and together keep to it.
LimitsSound == ClaimFundable /\ SplitWithinRate /\ OpensStaggered
=============================================================================
