--------------------------- MODULE RangeIteration ---------------------------
(***************************************************************************)
(* One iterator in use: it is created in either direction, next() is       *)
(* called at will, and a forward iterator may be reset at any moment, as   *)
(* stream_range_with_reorg_handling does after a reorg.  A pass starts     *)
(* when the iterator is created or reset.                                  *)
(***************************************************************************)
EXTENDS RangeIterator

CONSTANTS
    MaxBlock,   \* largest block number an iterator is created with or reset to
    MaxCount    \* resets happen only below this batch_count; bounds the runs

ASSUME MaxBlockAssumption == MaxBlock \in Nat /\ MaxBlock + 1 < MaxU64
ASSUME MaxCountAssumption == MaxCount \in Nat

VARIABLES
    direction,  \* "forward" or "reverse"
    it,         \* the iterator
    origin,     \* where the current pass started
    covered,    \* block numbers yielded in the current pass
    batch       \* the last batch yielded, [lo |-> 1, hi |-> 0] before the first

vars == <<direction, it, origin, covered, batch>>

Empty == [lo |-> 1, hi |-> 0]

Init ==
    \E start, end \in 0 .. MaxBlock, size \in 1 .. MaxU64 :
        /\ direction \in {"forward", "reverse"}
        /\ it = IF direction = "forward" THEN Forward(start, end, size)
                ELSE Reverse(start, end, size)
        /\ origin = start
        /\ covered = {}
        /\ batch = Empty

NextForward ==
    /\ direction = "forward"
    /\ HasNext(it)
    /\ batch' = ForwardBatch(it)
    /\ covered' = covered \cup (batch'.lo .. batch'.hi)
    /\ it' = ForwardAdvance(it)
    /\ UNCHANGED <<direction, origin>>

NextReverse ==
    /\ direction = "reverse"
    /\ HasNext(it)
    /\ batch' = ReverseBatch(it)
    /\ covered' = covered \cup (batch'.lo .. batch'.hi)
    /\ it' = ReverseAdvance(it)
    /\ UNCHANGED <<direction, origin>>

Reset(block) ==
    /\ direction = "forward"
    /\ it.batch_count < MaxCount
    /\ it' = ResetTo(it, block)
    /\ origin' = block
    /\ covered' = {}
    /\ batch' = Empty
    /\ UNCHANGED direction

Next ==
    \/ NextForward
    \/ NextReverse
    \/ \E block \in 0 .. MaxBlock : Reset(block)

Spec == Init /\ [][Next]_vars

-----------------------------------------------------------------------------

\* Every variable has its type.
TypeOK ==
    /\ direction \in {"forward", "reverse"}
    /\ it \in Iterator
    /\ origin \in BlockNumber
    /\ covered \subseteq BlockNumber
    /\ batch \in [lo : Int, hi : Int]

\* The block numbers a whole pass has to yield.
Wanted == IF direction = "forward" THEN origin .. it.end ELSE it.end .. origin

\* An iterator stops exactly when its pass has yielded every block of the
\* range: the batch counters of next() and reset_to never end a pass early
\* nor let it run on, whatever the resets (range_iterator.rs:43-50, 80-114).
StopsWhenCovered == HasNext(it) <=> covered # Wanted

\* A pass never yields a block twice, skips one or leaves its range: what it
\* has yielded is always contiguous with where it started, and a batch is
\* non-empty and no longer than range_size.
PassIsContiguous ==
    /\ covered = IF direction = "forward"
                 THEN origin .. it.current - 1
                 ELSE (IF HasNext(it) THEN it.current + 1 ELSE it.end) .. origin
    /\ covered \subseteq Wanted
    /\ batch # Empty => /\ batch.lo <= batch.hi
                        /\ batch.hi - batch.lo < it.range_size

\* Every batch is new to its pass and inside its range, whatever the step sizes,
\* the saturation at block 0 and the resets before it (range_iterator.rs:80-114).
YieldsOnce ==
    [][it'.batch_count > it.batch_count =>
            batch'.lo .. batch'.hi \subseteq Wanted \ covered]_vars
=============================================================================
