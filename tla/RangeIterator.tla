--------------------------- MODULE RangeIterator ---------------------------
(***************************************************************************)
(* The iterator that cuts a range of block numbers into batches of at most *)
(* max_block_range blocks (block_range_scanner/range_iterator.rs).         *)
(*                                                                         *)
(* An iterator is a record with the fields of the Rust struct.  This       *)
(* module only has operators: the components that own an iterator hold it  *)
(* in a variable of theirs.                                                *)
(***************************************************************************)
EXTENDS Integers

CONSTANT MaxU64     \* the largest u64; a small number when TLC runs

ASSUME MaxU64Assumption == MaxU64 \in Nat \ {0}

BlockNumber == 0 .. MaxU64

\* The fields of RangeIterator<D>; the direction is a phantom type in the
\* code and is chosen by the operators below.
Iterator == [current : BlockNumber, end : BlockNumber, range_size : BlockNumber \ {0},
             batch_count : Nat, total_batches : Nat]

\* u64 arithmetic that clamps at the ends of the type.
SaturatingAdd(a, b) == IF a + b > MaxU64 THEN MaxU64 ELSE a + b
SaturatingSub(a, b) == IF a > b THEN a - b ELSE 0

Least(a, b)    == IF a < b THEN a ELSE b
Greatest(a, b) == IF a < b THEN b ELSE a

\* Mistake: the last, shorter batch is not counted.
BatchesForRoundedDown(n, size) == n \div size

\* Batches of at most size blocks that n + 1 consecutive blocks need.
BatchesFor(n, size) == n \div size + 1

\* RangeIterator::forward, oldest to newest.
Forward(start, end, max_block_range) ==
    [current |-> start, end |-> end, range_size |-> max_block_range, batch_count |-> 0,
     total_batches |-> IF start > end THEN 0 ELSE BatchesFor(end - start, max_block_range)]

\* RangeIterator::reverse, newest to oldest: start is the higher end.
Reverse(start, end, max_block_range) ==
    [current |-> start, end |-> end, range_size |-> max_block_range, batch_count |-> 0,
     total_batches |-> IF start < end THEN 0 ELSE BatchesFor(start - end, max_block_range)]

\* next() returns Some(_).
HasNext(it) == it.batch_count < it.total_batches

\* Mistake: range_size is added instead of range_size - 1.
ForwardBatchTooLong(it) ==
    [lo |-> it.current, hi |-> Least(SaturatingAdd(it.current, it.range_size), it.end)]

\* The batch the next call of next() yields.
ForwardBatch(it) ==
    [lo |-> it.current,
     hi |-> Least(SaturatingAdd(it.current, it.range_size - 1), it.end)]

ReverseBatch(it) ==
    [lo |-> Greatest(SaturatingSub(it.current, it.range_size - 1), it.end),
     hi |-> it.current]

\* Mistake: the subtraction is not clamped at block 0.
ReverseAdvanceUnclamped(it) ==
    [it EXCEPT !.current = ReverseBatch(it).lo - 1, !.batch_count = @ + 1]

\* The iterator once that batch has been yielded.
ForwardAdvance(it) ==
    [it EXCEPT !.current = ForwardBatch(it).hi + 1, !.batch_count = @ + 1]

ReverseAdvance(it) ==
    [it EXCEPT !.current = SaturatingSub(ReverseBatch(it).lo, 1), !.batch_count = @ + 1]

\* RangeIterator::<Forward>::reset_to.
ResetTo(it, block) ==
    [it EXCEPT !.current = block,
               !.total_batches = IF block > it.end THEN it.batch_count
                                 ELSE it.batch_count + BatchesFor(it.end - block, it.range_size)]
=============================================================================
