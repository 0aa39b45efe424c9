----------------------------- MODULE ByteQueue -----------------------------
(***************************************************************************)
(* What a network buffer promises: a queue of bytes with a room.  Bytes    *)
(* come out in the order they went in, each once, and a read is refused    *)
(* only when the queue holds as many bytes as there is room for.           *)
(***************************************************************************)
EXTENDS Integers, Sequences, SequencesExt

CONSTANT Byte

VARIABLES queue, room, said

vars == <<queue, room, said>>

Init == queue = <<>> /\ room \in Nat /\ said = "ok"

(* Bytes arrive behind the ones queued, as many as fit.                    *)
Put == /\ IsPrefix(queue, queue')
       /\ Len(queue') \in Len(queue)..room
       /\ \A i \in 1..Len(queue') : queue'[i] \in Byte
       /\ said' = "ok" /\ UNCHANGED room

(* The n oldest bytes leave.                                               *)
Take == /\ \E n \in 0..Len(queue) : queue' = SubSeq(queue, n + 1, Len(queue))
        /\ said' = "ok" /\ UNCHANGED room

Clear == queue' = <<>> /\ said' = "ok" /\ UNCHANGED room

(* Room is added; what is queued stays.                                    *)
Widen == room' >= room /\ said' = "ok" /\ UNCHANGED queue

Refuse == Len(queue) = room /\ said' = "full" /\ UNCHANGED <<queue, room>>

Next == Put \/ Take \/ Clear \/ Widen \/ Refuse

Spec == Init /\ [][Next]_vars
=============================================================================
