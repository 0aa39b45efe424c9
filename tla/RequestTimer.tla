---------------------------- MODULE RequestTimer ----------------------------
(***************************************************************************)
(* The request timeout of one connection: InFlight, recv_with_timeout and  *)
(* the loop of a connection task around them (src/src/worker.rs).          *)
(*                                                                         *)
(* The deadline timer outlives the recv that armed it.  It is left running *)
(* when the request it was armed for is answered, and what it says when it *)
(* fires is checked against the request that is the oldest by then.        *)
(*                                                                         *)
(* Time is an integer clock.  Lag bounds how long a task that can go on    *)
(* waits for the thread; the code gives no bound of its own.               *)
(***************************************************************************)
EXTENDS Integers, Sequences

CONSTANTS
  Timeouts,  \* the values connection.request_timeout may have; 0 disables it
  Depth,     \* connection.pipeline_depth
  Lag,       \* bound on the time from a task's wake to its poll
  MaxTime,   \* bound on the clock
  Off        \* no timer

ASSUME TimerAssumption ==
  /\ Timeouts \subseteq Nat /\ Depth \in Nat \ {0}
  /\ Lag \in Nat /\ MaxTime \in Nat /\ Off \notin Nat

VARIABLES
  timeout,   \* connection.request_timeout
  now,       \* the clock
  pc,        \* top or fill: in the loop; recv: in recv_with_timeout; down: lost
  firedAt,   \* fired_at, read at the top of the loop
  fired,     \* InFlight::fired, oldest first
  buffered,  \* how many of them the client has not flushed
  timer,     \* InFlight::timer: when it fires, or Off
  ready,     \* how many replies the server has sent that were not received
  late,      \* how long the task has been able to go on
  began,     \* when the last recv was entered
  expired    \* how old the oldest request was at the last timeout, or Off

loop == <<firedAt, fired, buffered>>
vars == <<timeout, now, pc, loop, timer, ready, late, began, expired>>

Init ==
  /\ timeout \in Timeouts
  /\ now = 0 /\ pc = "top" /\ firedAt = 0
  /\ fired = <<>> /\ buffered = 0 /\ timer = Off
  /\ ready = 0 /\ late = 0 /\ began = 0 /\ expired = Off

-----------------------------------------------------------------------------
(* InFlight                                                                *)

Bounded == timeout > 0 /\ fired # <<>>

(* Mutant of Remaining: the time left of the newest request.               *)
RemainingOfNewest ==
  IF now < fired[Len(fired)] + timeout THEN fired[Len(fired)] + timeout - now ELSE 0

(* remaining, where it is Some.                                            *)
Remaining ==
  IF now < fired[1] + timeout THEN fired[1] + timeout - now ELSE 0

(* arm(remaining), where the pool has a timer.                             *)
Arm == timer' = now + Remaining

ForgetNewest(n) == SubSeq(fired, 1, Len(fired) - n)

-----------------------------------------------------------------------------
(* The loop                                                                *)

Moves == late' = 0 /\ UNCHANGED <<timeout, now>>

(* One clock read stamps every request that this iteration fires.          *)
LoopTop ==
  /\ pc = "top" /\ pc' = "fill"
  /\ firedAt' = now
  /\ Moves /\ UNCHANGED <<fired, buffered, timer, ready, began, expired>>

(* push                                                                    *)
Fire ==
  /\ pc = "fill" /\ Len(fired) < Depth
  /\ fired' = Append(fired, firedAt) /\ buffered' = buffered + 1
  /\ Moves /\ UNCHANGED <<pc, firedAt, timer, ready, began, expired>>

(* note_discarded: a failed fire or flush drops requests that were only    *)
(* buffered.                                                               *)
Discard ==
  /\ pc = "fill"
  /\ \E n \in 1 .. buffered :
       /\ fired' = ForgetNewest(n)
       /\ buffered' = buffered - n
  /\ Moves /\ UNCHANGED <<pc, firedAt, timer, ready, began, expired>>

(* Nothing is in flight: the task naps or parks.                           *)
Idle ==
  /\ pc = "fill" /\ fired = <<>> /\ pc' = "top"
  /\ Moves /\ UNCHANGED <<loop, timer, ready, began, expired>>

-----------------------------------------------------------------------------
(* recv_with_timeout                                                       *)

(* It is entered once the requests are flushed: without a bound, with the  *)
(* timer an earlier recv left, or with one armed now.                      *)
Enter ==
  /\ pc = "fill" /\ fired # <<>>
  /\ pc' = "recv" /\ began' = now /\ buffered' = 0
  /\ IF Bounded /\ timer = Off THEN Arm ELSE UNCHANGED timer
  /\ Moves /\ UNCHANGED <<firedAt, fired, ready, expired>>

(* The reply is polled first, and pop takes the request it answers.        *)
Receive ==
  /\ pc = "recv" /\ ready > 0
  /\ pc' = "top" /\ ready' = ready - 1
  /\ fired' = Tail(fired)
  /\ Moves /\ UNCHANGED <<firedAt, buffered, timer, began, expired>>

(* routed_wait_send_or_recv returns because its node has a request queued. *)
QueueHasOne ==
  /\ pc = "recv" /\ pc' = "top"
  /\ Moves /\ UNCHANGED <<loop, timer, ready, began, expired>>

(* No reply is there, and the timer that the poll looks at has fired.      *)
TimerFires == pc = "recv" /\ ready = 0 /\ timer # Off /\ timer <= now

(* It was armed for another request: it is armed again for what remains.   *)
Rearm ==
  /\ TimerFires /\ Remaining > 0
  /\ Arm
  /\ Moves /\ UNCHANGED <<pc, loop, ready, began, expired>>

(* The connection is given up, and its InFlight with it.                   *)
Abandon ==
  /\ pc' = "down" /\ fired' = <<>> /\ buffered' = 0
  /\ timer' = Off /\ ready' = 0
  /\ Moves /\ UNCHANGED <<firedAt, began>>

(* Mutant of TimedOut: what the timer was armed for is not looked at.      *)
TimedOutUnchecked ==
  /\ TimerFires
  /\ expired' = now - fired[1]
  /\ Abandon

(* The oldest request has expired: all in flight count as timed out.       *)
TimedOut ==
  /\ TimerFires /\ Remaining = 0
  /\ expired' = now - fired[1]
  /\ Abandon

(* The pool has no timer, as the recv is entered or as it re-arms.         *)
PoolExhausted ==
  /\ \/ pc = "fill" /\ Bounded /\ timer = Off
     \/ TimerFires /\ Remaining > 0
  /\ Abandon /\ UNCHANGED expired

(* The recv fails, or the loop finds an idle connection closed.            *)
Lose ==
  /\ pc = "recv" \/ (pc = "top" /\ fired = <<>>)
  /\ Abandon /\ UNCHANGED expired

(* A new connection gets an InFlight of its own.                           *)
Reconnect ==
  /\ pc = "down" /\ pc' = "top"
  /\ Moves /\ UNCHANGED <<loop, timer, ready, began, expired>>

-----------------------------------------------------------------------------
(* The server and the clock                                                *)

Answer ==
  /\ ready < Len(fired) - buffered
  /\ ready' = ready + 1
  /\ UNCHANGED <<timeout, now, pc, loop, timer, late, began, expired>>

(* The task can go on: it is in its loop, or its recv was woken.           *)
Runnable ==
  \/ pc = "fill" \/ (pc = "top" /\ fired # <<>>)
  \/ pc = "recv" /\ (ready > 0 \/ (timer # Off /\ timer <= now))

Tick ==
  /\ now < MaxTime /\ now' = now + 1
  /\ \/ Runnable /\ late < Lag /\ late' = late + 1
     \/ ~Runnable /\ late' = 0
  /\ UNCHANGED <<timeout, pc, loop, timer, ready, began, expired>>

Next ==
  \/ LoopTop \/ Fire \/ Discard \/ Idle
  \/ Enter \/ Receive \/ QueueHasOne \/ Rearm \/ TimedOut
  \/ PoolExhausted \/ Lose \/ Reconnect
  \/ Answer \/ Tick

Spec == Init /\ [][Next]_vars

-----------------------------------------------------------------------------
(* Properties                                                              *)

(* Types.  Every reply that waits is the reply to a request that was       *)
(* flushed and is still in InFlight, so a pop takes its own request off.   *)
TypeOK ==
  /\ timeout \in Timeouts /\ now \in 0 .. MaxTime
  /\ pc \in {"top", "fill", "recv", "down"}
  /\ firedAt \in 0 .. now /\ began \in 0 .. now
  /\ fired \in Seq(Nat) /\ Len(fired) <= Depth
  /\ \A i \in 1 .. Len(fired) : fired[i] <= firedAt
  /\ buffered \in Nat /\ ready \in Nat
  /\ ready + buffered <= Len(fired)
  /\ pc # "fill" => buffered = 0
  /\ pc = "recv" => fired # <<>>
  /\ timer \in Nat \cup {Off} /\ expired \in Nat \cup {Off}
  /\ late \in 0 .. Lag

(* A request is counted as timed out only when the oldest one in flight is *)
(* as old as request_timeout, although the timer that fired may have been  *)
(* armed for a request answered long ago (recv_with_timeout).              *)
NoEarlyTimeout == expired # Off => timeout > 0 /\ expired >= timeout

(* A running timer never fires later than the deadline of the oldest       *)
(* request, or the start of the recv that found it already expired: it may *)
(* be left running across replies (the comment on recv_with_timeout).      *)
TimerNotLate ==
  (timer # Off /\ fired # <<>>) =>
    timer <= fired[1] + timeout \/ timer <= began

(* With a timeout set no recv outlasts the deadline of the oldest request, *)
(* or its own start if that had passed, by more than the time it takes to  *)
(* poll the task: a stalled server cannot hold the connection.             *)
RecvBounded ==
  (pc = "recv" /\ timeout > 0) =>
    now <= fired[1] + timeout + Lag \/ now <= began + Lag
=============================================================================
