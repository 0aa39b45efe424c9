------------------------------- MODULE Buffer -------------------------------
(***************************************************************************)
(* The pre-allocated buffer of src/src/buffer: one array, a read and a     *)
(* write position, compaction when the writable tail runs low.  BufferPair *)
(* is two of them.  It implements ByteQueue.                               *)
(***************************************************************************)
EXTENDS Integers, Sequences, SequencesExt

CONSTANTS
  Byte,
  InitialCapacity,   \* with_capacity
  MaxCapacity        \* bound on grow

VARIABLES
  data,        \* the bytes of the allocation
  read_pos,    \* what is before it has been consumed
  write_pos,   \* data has been written up to here
  said         \* "full" after a read_from that was refused

vars == <<data, read_pos, write_pos, said>>

Init ==
  /\ data = [i \in 1..InitialCapacity |-> 0]
  /\ read_pos = 0 /\ write_pos = 0 /\ said = "ok"

capacity == Len(data)
readable == write_pos - read_pos
as_slice == SubSeq(data, read_pos + 1, write_pos)

(* The bytes s written at position at of array d.                          *)
Written(d, at, s) ==
  [i \in 1..Len(d) |-> IF at < i /\ i <= at + Len(s) THEN s[i - at] ELSE d[i]]

(* Mutant of Compacted: the consumed space is reclaimed, the bytes stay    *)
(* where they were.                                                        *)
PositionsOnly == [d |-> data, r |-> 0, w |-> readable]

(* compact: the readable bytes move to the front.                          *)
Compacted ==
  IF read_pos = 0 THEN [d |-> data, r |-> 0, w |-> write_pos]
  ELSE [d |-> Written(data, 0, as_slice), r |-> 0, w |-> readable]

compact ==
  /\ data' = Compacted.d /\ read_pos' = Compacted.r /\ write_pos' = Compacted.w
  /\ said' = "ok"

(* consume: callers assert n <= readable.  An empty buffer starts over.    *)
consume(n) ==
  /\ n <= readable
  /\ IF n = readable THEN read_pos' = 0 /\ write_pos' = 0
     ELSE read_pos' = read_pos + n /\ UNCHANGED write_pos
  /\ said' = "ok" /\ UNCHANGED data

clear == read_pos' = 0 /\ write_pos' = 0 /\ said' = "ok" /\ UNCHANGED data

(* grow: at least twice the size, the readable bytes copied to the front.  *)
grow(needed) ==
  LET cap == IF 2 * capacity > readable + needed THEN 2 * capacity ELSE readable + needed
  IN  /\ cap <= MaxCapacity
      /\ data' = Written([i \in 1..cap |-> 0], 0, as_slice)
      /\ read_pos' = 0 /\ write_pos' = readable /\ said' = "ok"

(* read_from: compacts when less than a quarter is writable, refuses when  *)
(* nothing is, and takes what the reader has, which may be nothing or an   *)
(* error after the compaction.                                             *)
read_from(s) ==
  LET b == IF capacity - write_pos < capacity \div 4 THEN Compacted
           ELSE [d |-> data, r |-> read_pos, w |-> write_pos]
  IN  IF b.w = capacity
      THEN /\ data' = b.d /\ read_pos' = b.r /\ write_pos' = b.w
           /\ said' = "full"
      ELSE /\ Len(s) <= capacity - b.w
           /\ data' = Written(b.d, b.w, s) /\ read_pos' = b.r /\ write_pos' = b.w + Len(s)
           /\ said' = "ok"

(* write_to: the writer takes a prefix, or nothing.                        *)
write_to(n) == consume(n)

(* extend_from_slice: callers assert that the slice fits.                  *)
extend_from_slice(s) ==
  /\ Len(s) <= capacity - write_pos
  /\ data' = Written(data, write_pos, s)
  /\ write_pos' = write_pos + Len(s)
  /\ said' = "ok" /\ UNCHANGED read_pos

Slices == BoundedSeq(Byte, 2)

Next ==
  \/ compact \/ clear
  \/ \E n \in 0..readable : consume(n) \/ write_to(n)
  \/ \E n \in 1..2 : grow(n)
  \/ \E s \in Slices : read_from(s) \/ extend_from_slice(s)

-----------------------------------------------------------------------------
Queue == INSTANCE ByteQueue WITH queue <- as_slice, room <- capacity

(* A buffer is a queue of bytes: whatever the order of reads, writes,      *)
(* compactions and growth, the bytes come out once and in order, and       *)
(* read_from says "buffer is full" only when all of the room holds unread  *)
(* bytes (buffer/mod.rs:98, 147).                                          *)
BufferIsQueue == Queue!Spec
=============================================================================
