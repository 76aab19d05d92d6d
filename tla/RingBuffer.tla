----------------------------- MODULE RingBuffer -----------------------------
(***************************************************************************)
(* The bounded memory of past blocks (block_range_scanner/ring_buffer.rs). *)
(* A buffer is a sequence, oldest element first; the owner holds it in a   *)
(* variable.  Clearing a buffer is assigning << >>.                        *)
(***************************************************************************)
EXTENDS Integers, Sequences

CONSTANTS
    Capacity,   \* RingBufferCapacity: a number for Limited(n), or Infinite
    Infinite    \* RingBufferCapacity::Infinite, not a number

ASSUME CapacityAssumption ==
    /\ Infinite \notin Nat
    /\ Capacity \in Nat \cup {Infinite}

\* Mistake: a full buffer keeps its oldest element.
PushUnbounded(buffer, item) == IF Capacity = 0 THEN buffer ELSE Append(buffer, item)

\* RingBuffer::push: a full buffer drops its oldest element, one of capacity
\* zero stores nothing.
Push(buffer, item) ==
    IF Capacity = Infinite THEN Append(buffer, item)
    ELSE IF Capacity = 0 THEN buffer
    ELSE IF Len(buffer) = Capacity THEN Append(Tail(buffer), item)
    ELSE Append(buffer, item)

\* RingBuffer::pop_back, for a buffer that is not empty.
PopBack(buffer) == SubSeq(buffer, 1, Len(buffer) - 1)

\* RingBuffer::back, for a buffer that is not empty.
Back(buffer) == buffer[Len(buffer)]

WithinCapacity(buffer) == Capacity = Infinite \/ Len(buffer) <= Capacity
=============================================================================
