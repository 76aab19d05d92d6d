----------------------- MODULE RangeIteration_proofs -----------------------
(***************************************************************************)
(* For every largest integer, range, batch size and sequence of resets, an *)
(* iterator yields exactly the blocks of its range: no pass ends early,    *)
(* runs on, skips a block or repeats one.                                  *)
(*                                                                         *)
(* The invariants of RangeIteration speak of the blocks yielded and of     *)
(* HasNext, which only compares two counters.  What ties them together is  *)
(* the number of batches that are left: IInv says that it is the number    *)
(* the remaining blocks need, and the division lemmas (BlockLemmas) *)
(* say how that number changes when a batch is taken off.                  *)
(***************************************************************************)
EXTENDS RangeIteration, BlockLemmas

\* A batch is not empty and not longer than range_size.
BatchShape == batch # Empty => batch.lo <= batch.hi /\ batch.hi - batch.lo < it.range_size

ForwardInv ==
    /\ origin <= it.current
    /\ it.current <= it.end + 1 \/ it.current = origin
    /\ covered = origin .. it.current - 1
    /\ it.total_batches - it.batch_count =
            IF it.current > it.end THEN 0 ELSE BatchesFor(it.end - it.current, it.range_size)

ReverseInv ==
    /\ it.current <= origin
    /\ it.batch_count <= it.total_batches
    /\ HasNext(it) =>
            /\ it.end <= it.current
            /\ covered = it.current + 1 .. origin
            /\ it.total_batches - it.batch_count = BatchesFor(it.current - it.end, it.range_size)
    /\ ~HasNext(it) => covered = it.end .. origin

\* The inductive invariant.
IInv ==
    /\ TypeOK
    /\ it.end <= MaxBlock /\ origin <= MaxBlock
    /\ BatchShape
    /\ direction = "forward" => ForwardInv
    /\ direction = "reverse" => ReverseInv

-----------------------------------------------------------------------------

\* A new iterator.
LEMMA InitInv == Init => IInv
<1> SUFFICES ASSUME Init PROVE IInv
    OBVIOUS
<1>1. PICK start, end \in 0 .. MaxBlock, size \in 1 .. MaxU64 :
        /\ direction \in {"forward", "reverse"}
        /\ it = IF direction = "forward" THEN Forward(start, end, size)
                ELSE Reverse(start, end, size)
        /\ origin = start
        /\ covered = {}
        /\ batch = Empty
    BY DEF Init
<1>2. /\ MaxBlock \in Nat /\ MaxU64 \in Nat /\ MaxBlock + 1 < MaxU64
      /\ start \in Nat /\ end \in Nat /\ size \in Nat \ {0}
    BY MaxBlockAssumption, MaxU64Assumption
<1>3. /\ start <= end => BatchesFor(end - start, size) \in Nat \ {0}
      /\ end <= start => BatchesFor(start - end, size) \in Nat \ {0}
    BY <1>2, BatchesForFew
<1>4. BatchShape
    BY <1>1 DEF BatchShape
<1>5. CASE direction = "forward"
  <2>1. it = Forward(start, end, size)
    BY <1>1, <1>5
  <2>2. TypeOK
    BY <1>1, <1>2, <1>3, <1>5, <2>1 DEF TypeOK, Forward, Iterator, BlockNumber, Empty
  <2>3. ForwardInv
    BY <1>1, <1>2, <1>3, <2>1 DEF ForwardInv, Forward
  <2>4. it.end <= MaxBlock /\ origin <= MaxBlock
    BY <1>1, <1>2, <2>1 DEF Forward
  <2> QED
    BY <1>4, <1>5, <2>2, <2>3, <2>4 DEF IInv
<1>6. CASE direction = "reverse"
  <2>1. it = Reverse(start, end, size)
    BY <1>1, <1>6
  <2>2. TypeOK
    BY <1>1, <1>2, <1>3, <1>6, <2>1 DEF TypeOK, Reverse, Iterator, BlockNumber, Empty
  <2>3. ReverseInv
    BY <1>1, <1>2, <1>3, <2>1 DEF ReverseInv, Reverse, HasNext
  <2>4. it.end <= MaxBlock /\ origin <= MaxBlock
    BY <1>1, <1>2, <2>1 DEF Reverse
  <2> QED
    BY <1>4, <1>6, <2>2, <2>3, <2>4 DEF IInv
<1> QED
    BY <1>1, <1>5, <1>6

\* next() of a forward iterator.
LEMMA NextForwardInv == IInv /\ NextForward => IInv'
<1> SUFFICES ASSUME IInv, NextForward PROVE IInv'
    OBVIOUS
<1> DEFINE b == ForwardBatch(it)
<1>1. /\ direction = "forward" /\ direction' = direction /\ origin' = origin
      /\ HasNext(it) /\ batch' = b /\ covered' = covered \cup (b.lo .. b.hi)
    BY DEF NextForward
<1>2. /\ it \in Iterator /\ origin \in Nat /\ origin \in BlockNumber
      /\ covered \subseteq BlockNumber /\ ForwardInv /\ it.end <= MaxBlock
    BY <1>1 DEF IInv, TypeOK, BlockNumber
<1>3. /\ MaxBlock \in Nat /\ MaxU64 \in Nat /\ MaxBlock + 1 < MaxU64
    BY MaxBlockAssumption, MaxU64Assumption
<1>4. /\ it.current \in Nat /\ it.end \in Nat /\ it.range_size \in Nat \ {0}
      /\ it.batch_count \in Nat /\ it.total_batches \in Nat
    BY <1>2 DEF Iterator, BlockNumber
<1>5. it.current <= it.end
    BY <1>1, <1>2, <1>4 DEF ForwardInv, HasNext
<1>6. /\ b \in [lo : BlockNumber, hi : BlockNumber] /\ b.lo = it.current
      /\ it.current <= b.hi /\ b.hi <= it.end /\ b.hi - it.current < it.range_size
      /\ b.hi = it.end \/ b.hi = it.current + it.range_size - 1
      /\ it.end - it.current < it.range_size => b.hi = it.end
    BY <1>2, <1>5, ForwardBatchBounds
<1>7. /\ b.lo \in Nat /\ b.hi \in Nat /\ b \in [lo : Int, hi : Int]
    BY <1>6 DEF BlockNumber
<1>8. /\ it'.current = b.hi + 1 /\ it'.batch_count = it.batch_count + 1
      /\ it'.end = it.end /\ it'.range_size = it.range_size
      /\ it'.total_batches = it.total_batches /\ it' \in Iterator
  <2>1. it' = ForwardAdvance(it)
    BY DEF NextForward
  <2>2. b.hi + 1 \in BlockNumber
    BY <1>2, <1>3, <1>4, <1>6, <1>7 DEF BlockNumber
  <2> QED
    BY <1>2, <2>1, <2>2, ForwardAdvanceFields
<1> HIDE DEF b
<1>9. TypeOK'
  <2>1. b.lo .. b.hi \subseteq BlockNumber
    BY <1>2, <1>3, <1>4, <1>6, <1>7 DEF BlockNumber
  <2> QED
    BY <1>1, <1>2, <1>7, <1>8, <2>1 DEF TypeOK
<1>10. BatchShape'
    BY <1>1, <1>6, <1>7, <1>8 DEF BatchShape
<1>11. it'.total_batches - it'.batch_count =
          IF it'.current > it'.end THEN 0 ELSE BatchesFor(it'.end - it'.current, it'.range_size)
  <2>1. it.total_batches - it.batch_count = BatchesFor(it.end - it.current, it.range_size)
    BY <1>2, <1>4, <1>5 DEF ForwardInv
  <2>2. CASE it.end - it.current < it.range_size
    <3>1. BatchesFor(it.end - it.current, it.range_size) = 1
      BY <1>4, <1>5, <2>2, BatchesForFew
    <3> QED
      BY <1>4, <1>6, <1>8, <2>1, <2>2, <3>1
  <2>3. CASE it.end - it.current >= it.range_size
    <3>1. BatchesFor(it.end - it.current - it.range_size, it.range_size)
            = BatchesFor(it.end - it.current, it.range_size) - 1
      BY <1>4, <1>5, <2>3, BatchesForMany
    <3>2. CASE b.hi = it.current + it.range_size - 1
      <4>1. it'.end - it'.current = it.end - it.current - it.range_size
        BY <1>4, <1>8, <3>2
      <4>2. ~(it'.current > it'.end)
        BY <1>4, <1>8, <2>3, <3>2
      <4>3. BatchesFor(it.end - it.current, it.range_size) \in Nat
        BY <1>4, <1>5, BatchesForFew
      <4>4. BatchesFor(it'.end - it'.current, it'.range_size)
                = BatchesFor(it.end - it.current, it.range_size) - 1
        BY <1>8, <3>1, <4>1
      <4>5. it'.batch_count = it.batch_count + 1 /\ it'.total_batches = it.total_batches
        BY <1>8
      <4>6. it'.total_batches - it'.batch_count = BatchesFor(it'.end - it'.current, it'.range_size)
        BY <1>4, <2>1, <4>3, <4>4, <4>5
      <4> QED
        BY <4>2, <4>6
    <3>3. CASE b.hi = it.end /\ b.hi # it.current + it.range_size - 1
      <4>1. it.end - it.current < it.range_size
        BY <1>6, <3>3
      <4> QED
        BY <1>4, <2>3, <4>1
    <3> QED
      <4>1. b.hi = it.end \/ b.hi = it.current + it.range_size - 1
        BY <1>6
      <4> QED
        BY <3>2, <3>3, <4>1
  <2>4. it.end - it.current < it.range_size \/ it.end - it.current >= it.range_size
    BY <1>4
  <2> QED
    BY <2>2, <2>3, <2>4
<1>12. ForwardInv'
  <2>1. origin' <= it'.current /\ it'.current <= it'.end + 1
    <3>1. origin' = origin /\ origin <= it.current
      BY <1>1, <1>2 DEF ForwardInv
    <3>2. it'.current = b.hi + 1 /\ it'.end = it.end
      BY <1>8
    <3> QED
      BY <1>2, <1>4, <1>6, <1>7, <3>1, <3>2
  <2>2. covered' = origin' .. it'.current - 1
    <3>1. covered' = (origin .. it.current - 1) \cup (it.current .. b.hi)
      BY <1>1, <1>2, <1>6 DEF ForwardInv
    <3>2. origin \in Int /\ it.current \in Int /\ origin <= it.current /\ it.current <= b.hi
      BY <1>2, <1>4, <1>6 DEF ForwardInv
    <3>3. covered' = origin .. b.hi
      BY <1>7, <3>1, <3>2
    <3>4. it'.current - 1 = b.hi
      BY <1>7, <1>8
    <3> QED
      BY <1>1, <3>3, <3>4
  <2> QED
    BY <1>11, <2>1, <2>2 DEF ForwardInv
<1> QED
    BY <1>1, <1>2, <1>8, <1>9, <1>10, <1>12 DEF IInv

\* next() of a reverse iterator.
LEMMA NextReverseInv == IInv /\ NextReverse => IInv'
<1> SUFFICES ASSUME IInv, NextReverse PROVE IInv'
    OBVIOUS
<1> DEFINE b == ReverseBatch(it)
<1>1. /\ direction = "reverse" /\ direction' = direction /\ origin' = origin
      /\ HasNext(it) /\ batch' = b /\ covered' = covered \cup (b.lo .. b.hi)
    BY DEF NextReverse
<1>2. /\ it \in Iterator /\ origin \in Nat /\ origin \in BlockNumber
      /\ covered \subseteq BlockNumber /\ ReverseInv /\ it.end <= MaxBlock
    BY <1>1 DEF IInv, TypeOK, BlockNumber
<1>3. /\ MaxBlock \in Nat /\ MaxU64 \in Nat /\ MaxBlock + 1 < MaxU64
    BY MaxBlockAssumption, MaxU64Assumption
<1>4. /\ it.current \in Nat /\ it.end \in Nat /\ it.range_size \in Nat \ {0}
      /\ it.batch_count \in Nat /\ it.total_batches \in Nat
    BY <1>2 DEF Iterator, BlockNumber
<1>5. /\ it.end <= it.current /\ it.current <= origin
      /\ covered = it.current + 1 .. origin
      /\ it.total_batches - it.batch_count = BatchesFor(it.current - it.end, it.range_size)
    BY <1>1, <1>2 DEF ReverseInv
<1>6. /\ b \in [lo : BlockNumber, hi : BlockNumber] /\ b.hi = it.current
      /\ it.end <= b.lo /\ b.lo <= it.current /\ it.current - b.lo < it.range_size
      /\ b.lo = it.end \/ b.lo = it.current - it.range_size + 1
      /\ it.current - it.end < it.range_size => b.lo = it.end
    BY <1>2, <1>5, ReverseBatchBounds
<1>7. /\ b.lo \in Nat /\ b.hi \in Nat /\ b \in [lo : Int, hi : Int]
      /\ SaturatingSub(b.lo, 1) = IF b.lo > 1 THEN b.lo - 1 ELSE 0
    BY <1>6 DEF BlockNumber, SaturatingSub
<1>8. /\ it'.current = SaturatingSub(b.lo, 1) /\ it'.batch_count = it.batch_count + 1
      /\ it'.end = it.end /\ it'.range_size = it.range_size
      /\ it'.total_batches = it.total_batches /\ it' \in Iterator
  <2>1. it' = ReverseAdvance(it)
    BY DEF NextReverse
  <2>2. SaturatingSub(b.lo, 1) \in BlockNumber
    BY <1>3, <1>4, <1>6, <1>7 DEF BlockNumber
  <2> QED
    BY <1>2, <2>1, <2>2, ReverseAdvanceFields
<1> HIDE DEF b
<1>9. TypeOK'
  <2>1. b.lo .. b.hi \subseteq BlockNumber
    BY <1>2, <1>3, <1>4, <1>6, <1>7 DEF BlockNumber
  <2> QED
    BY <1>1, <1>2, <1>7, <1>8, <2>1 DEF TypeOK
<1>10. BatchShape'
    BY <1>1, <1>6, <1>7, <1>8 DEF BatchShape
<1>11. covered' = b.lo .. origin
    BY <1>1, <1>2, <1>4, <1>5, <1>6, <1>7
<1>12. /\ it.current - it.end \in Nat
       /\ BatchesFor(it.current - it.end, it.range_size) \in Nat
  <2>1. it.current - it.end \in Nat
    BY <1>4, <1>5
  <2> QED
    BY <1>4, <2>1, BatchesForFew
<1>13. ReverseInv'
  <2>1. CASE it.current - it.end < it.range_size
    <3>1. BatchesFor(it.current - it.end, it.range_size) = 1
      BY <1>4, <1>12, <2>1, BatchesForFew
    <3>2. ~HasNext(it)' /\ it'.batch_count = it'.total_batches
      BY <1>4, <1>5, <1>8, <3>1 DEF HasNext
    <3>3. covered' = it'.end .. origin' /\ it'.current <= origin'
      BY <1>1, <1>2, <1>4, <1>5, <1>6, <1>7, <1>8, <1>11, <2>1
    <3> QED
      BY <1>4, <1>8, <3>2, <3>3 DEF ReverseInv, HasNext
  <2>2. CASE it.current - it.end >= it.range_size
    <3>1. BatchesFor(it.current - it.end - it.range_size, it.range_size)
            = BatchesFor(it.current - it.end, it.range_size) - 1
      BY <1>4, <1>12, <2>2, BatchesForMany
    <3>2. b.lo = it.current - it.range_size + 1 /\ b.lo > it.end
      BY <1>4, <1>6, <1>7, <2>2
    <3>3. it'.current = it.current - it.range_size /\ it'.current = b.lo - 1
      BY <1>4, <1>7, <1>8, <3>2
    <3>4. it'.total_batches - it'.batch_count = BatchesFor(it'.current - it'.end, it'.range_size)
      <4>1. it'.current - it'.end = it.current - it.end - it.range_size
        BY <1>4, <1>8, <3>3
      <4>2. BatchesFor(it'.current - it'.end, it'.range_size)
                = BatchesFor(it.current - it.end, it.range_size) - 1
        BY <1>8, <3>1, <4>1
      <4>3. /\ it'.batch_count = it.batch_count + 1 /\ it'.total_batches = it.total_batches
            /\ it.total_batches - it.batch_count
                    = BatchesFor(it.current - it.end, it.range_size)
        BY <1>5, <1>8
      <4>4. it'.total_batches - it'.batch_count
                = (it.total_batches - it.batch_count) - 1
        BY <1>4, <4>3
      <4>5. it.total_batches - it.batch_count = BatchesFor(it.current - it.end, it.range_size)
        BY <4>3
      <4> QED
        BY <4>2, <4>4, <4>5
    <3>5. /\ it'.current <= origin' /\ it'.end <= it'.current
          /\ covered' = it'.current + 1 .. origin'
      <4>1. /\ origin' = origin /\ it'.end = it.end /\ it.current <= origin
            /\ covered' = b.lo .. origin
        BY <1>1, <1>5, <1>8, <1>11
      <4>2. it'.current + 1 = b.lo
        BY <1>4, <1>7, <3>3
      <4>3. it'.current <= it.current /\ it.end <= it'.current
        BY <1>4, <2>2, <3>3
      <4>4. it'.current \in Int
        BY <1>7, <3>3
      <4> QED
        BY <1>2, <1>4, <4>1, <4>2, <4>3, <4>4
    <3>6. BatchesFor(it'.current - it'.end, it'.range_size) \in Nat \ {0}
      BY <1>4, <1>8, <2>2, <3>3, BatchesForFew
    <3>7. it'.batch_count < it'.total_batches
      BY <1>4, <1>8, <3>4, <3>6
    <3> QED
      BY <1>4, <1>8, <3>4, <3>5, <3>7 DEF ReverseInv, HasNext
  <2> QED
    BY <1>4, <2>1, <2>2
<1> QED
    BY <1>1, <1>2, <1>8, <1>9, <1>10, <1>13 DEF IInv, TypeOK

\* reset_to.
LEMMA ResetInv == ASSUME NEW block \in 0 .. MaxBlock PROVE IInv /\ Reset(block) => IInv'
<1> SUFFICES ASSUME IInv, Reset(block) PROVE IInv'
    OBVIOUS
<1>1. /\ direction = "forward" /\ direction' = direction /\ origin' = block
      /\ covered' = {} /\ batch' = Empty
    BY DEF Reset
<1>2. it \in Iterator /\ it.end <= MaxBlock
    BY DEF IInv, TypeOK
<1>3. /\ MaxBlock \in Nat /\ MaxU64 \in Nat /\ MaxBlock + 1 < MaxU64 /\ block \in Nat
      /\ block <= MaxBlock
    BY MaxBlockAssumption, MaxU64Assumption
<1>4. /\ it.current \in Nat /\ it.end \in Nat /\ it.range_size \in Nat \ {0}
      /\ it.batch_count \in Nat /\ it.total_batches \in Nat
    BY <1>2 DEF Iterator, BlockNumber
<1>5. block <= it.end => BatchesFor(it.end - block, it.range_size) \in Nat \ {0}
    BY <1>3, <1>4, BatchesForFew
<1> DEFINE total == IF block > it.end THEN it.batch_count
                      ELSE it.batch_count + BatchesFor(it.end - block, it.range_size)
<1>7. total \in Nat
    BY <1>3, <1>4, <1>5
<1>8. /\ it'.current = block /\ it'.end = it.end /\ it'.range_size = it.range_size
      /\ it'.batch_count = it.batch_count /\ it'.total_batches = total
      /\ it' \in Iterator
  <2>1. it' = ResetTo(it, block)
    BY DEF Reset
  <2>2. block \in BlockNumber
    BY <1>3 DEF BlockNumber
  <2> QED
    BY <1>2, <1>5, <2>1, <2>2, ResetToFields
<1>9. TypeOK'
    BY <1>1, <1>3, <1>8 DEF TypeOK, BlockNumber, Empty
<1>10. ForwardInv'
    BY <1>1, <1>3, <1>4, <1>5, <1>8 DEF ForwardInv
<1>11. BatchShape'
    BY <1>1 DEF BatchShape
<1> QED
    BY <1>1, <1>2, <1>3, <1>8, <1>9, <1>10, <1>11 DEF IInv

\* IInv is an invariant.
THEOREM IteratorInvariant == Spec => []IInv
<1>1. Init => IInv
    BY InitInv
<1>2. IInv /\ [Next]_vars => IInv'
  <2> SUFFICES ASSUME IInv, [Next]_vars PROVE IInv'
    OBVIOUS
  <2>1. CASE NextForward
    BY <2>1, NextForwardInv
  <2>2. CASE NextReverse
    BY <2>2, NextReverseInv
  <2>3. CASE \E block \in 0 .. MaxBlock : Reset(block)
    BY <2>3, ResetInv
  <2>4. CASE UNCHANGED vars
    BY <2>4 DEF vars, IInv, TypeOK, BatchShape, ForwardInv, ReverseInv, HasNext
  <2> QED
    BY <2>1, <2>2, <2>3, <2>4 DEF Next
<1> QED
    BY <1>1, <1>2, PTL DEF Spec

-----------------------------------------------------------------------------

\* The fields are numbers (the struct, range_iterator.rs:9-16).
LEMMA FieldTypes ==
    IInv => /\ it.current \in Nat /\ it.end \in Nat /\ it.range_size \in Nat \ {0}
            /\ it.batch_count \in Nat /\ it.total_batches \in Nat /\ origin \in Nat
            /\ direction \in {"forward", "reverse"}
BY MaxU64Assumption DEF IInv, TypeOK, Iterator, BlockNumber

\* The counters and the blocks of a forward pass agree on whether it is over.
LEMMA ForwardHasNext ==
    ASSUME IInv, direction = "forward"
    PROVE  HasNext(it) <=> it.current <= it.end
<1>1. ForwardInv
    BY DEF IInv
<1>2. CASE it.current <= it.end
  <2>1. it.end - it.current \in Nat
    BY <1>2, FieldTypes
  <2>2. BatchesFor(it.end - it.current, it.range_size) \in Nat \ {0}
    BY <2>1, FieldTypes, BatchesForFew
  <2> QED
    BY <1>1, <1>2, <2>2, FieldTypes DEF ForwardInv, HasNext
<1>3. CASE it.current > it.end
    BY <1>1, <1>3, FieldTypes DEF ForwardInv, HasNext
<1> QED
    BY <1>2, <1>3, FieldTypes

\* The counters and the blocks agree, in either direction.
LEMMA InvStopsWhenCovered == IInv => StopsWhenCovered
<1> SUFFICES ASSUME IInv PROVE StopsWhenCovered
    OBVIOUS
<1>1. CASE direction = "forward"
  <2>1. ForwardInv /\ Wanted = origin .. it.end
    BY <1>1 DEF IInv, Wanted
  <2>2. CASE it.current <= it.end
    <3>1. it.end \in Wanted /\ it.end \notin covered
      BY <2>1, <2>2, FieldTypes DEF ForwardInv
    <3> QED
      BY <1>1, <2>2, <3>1, ForwardHasNext DEF StopsWhenCovered
  <2>3. CASE it.current > it.end
    <3>1. covered = Wanted
      BY <2>1, <2>3, FieldTypes DEF ForwardInv
    <3> QED
      BY <1>1, <2>3, <3>1, FieldTypes, ForwardHasNext DEF StopsWhenCovered
  <2> QED
    BY <2>2, <2>3, FieldTypes
<1>2. CASE direction = "reverse"
  <2>1. ReverseInv /\ Wanted = it.end .. origin
    BY <1>2 DEF IInv, Wanted
  <2>2. CASE HasNext(it)
    <3>1. it.current \in Wanted /\ it.current \notin covered
      BY <2>1, <2>2, FieldTypes DEF ReverseInv
    <3> QED
      BY <2>2, <3>1 DEF StopsWhenCovered
  <2>3. CASE ~HasNext(it)
    BY <2>1, <2>3 DEF ReverseInv, StopsWhenCovered
  <2> QED
    BY <2>2, <2>3
<1> QED
    BY <1>1, <1>2, FieldTypes

\* The blocks yielded have the shape PassIsContiguous states.
LEMMA InvPassIsContiguous == IInv => PassIsContiguous
<1> SUFFICES ASSUME IInv PROVE PassIsContiguous
    OBVIOUS
<1>1. BatchShape
    BY DEF IInv
<1>2. CASE direction = "forward"
  <2>1. ForwardInv
    BY <1>2 DEF IInv
  <2>2. covered = origin .. it.current - 1
    BY <2>1 DEF ForwardInv
  <2>3. covered \subseteq Wanted
    BY <1>2, <2>1, FieldTypes DEF ForwardInv, Wanted
  <2> QED
    BY <1>1, <1>2, <2>2, <2>3 DEF PassIsContiguous, BatchShape
<1>3. CASE direction = "reverse"
  <2>1. ReverseInv
    BY <1>3 DEF IInv
  <2>2. covered = (IF HasNext(it) THEN it.current + 1 ELSE it.end) .. origin
    BY <2>1 DEF ReverseInv
  <2>3. covered \subseteq Wanted
    BY <1>3, <2>1, FieldTypes DEF ReverseInv, Wanted
  <2> QED
    BY <1>1, <1>3, <2>2, <2>3 DEF PassIsContiguous, BatchShape
<1> QED
    BY <1>2, <1>3, FieldTypes

\* The batch of a step starts where the blocks yielded end, and stays in the range.
LEMMA StepYieldsOnce ==
    IInv /\ PassIsContiguous' /\ [Next]_vars =>
        (it'.batch_count > it.batch_count => batch'.lo .. batch'.hi \subseteq Wanted \ covered)
<1> SUFFICES ASSUME IInv, PassIsContiguous', [Next]_vars, it'.batch_count > it.batch_count
             PROVE  batch'.lo .. batch'.hi \subseteq Wanted \ covered
    OBVIOUS
<1>1. it \in Iterator
    BY DEF IInv, TypeOK
<1>2. CASE NextForward
  <2>1. /\ batch' = ForwardBatch(it) /\ it.current <= it.end
        /\ covered = origin .. it.current - 1
    BY <1>2, ForwardHasNext DEF NextForward, IInv, ForwardInv
  <2>2. batch'.lo = it.current /\ batch'.hi \in Int
    BY <1>1, <2>1, MaxU64Assumption, ForwardBatchBounds DEF BlockNumber
  <2>3. batch'.lo .. batch'.hi \subseteq Wanted
    <3>1. covered' \subseteq Wanted'
      BY DEF PassIsContiguous
    <3>2. Wanted' = Wanted
      BY <1>2 DEF NextForward, ForwardAdvance, Wanted
    <3> QED
      BY <1>2, <3>1, <3>2 DEF NextForward
  <2> QED
    BY <2>1, <2>2, <2>3, FieldTypes
<1>3. CASE NextReverse
  <2>1. /\ batch' = ReverseBatch(it) /\ it.end <= it.current
        /\ covered = it.current + 1 .. origin
    BY <1>3 DEF NextReverse, IInv, ReverseInv
  <2>2. batch'.hi = it.current /\ batch'.lo \in Int
    BY <1>1, <2>1, MaxU64Assumption, ReverseBatchBounds DEF BlockNumber
  <2>3. batch'.lo .. batch'.hi \subseteq Wanted
    <3>1. covered' \subseteq Wanted'
      BY DEF PassIsContiguous
    <3>2. Wanted' = Wanted
      BY <1>3 DEF NextReverse, ReverseAdvance, Wanted
    <3> QED
      BY <1>3, <3>1, <3>2 DEF NextReverse
  <2> QED
    BY <2>1, <2>2, <2>3, FieldTypes
<1>4. CASE \E block \in 0 .. MaxBlock : Reset(block)
  <2>1. PICK block \in 0 .. MaxBlock : Reset(block)
    BY <1>4
  <2>2. covered' = {} /\ batch' = Empty /\ it' = ResetTo(it, block)
    BY <2>1 DEF Reset
  <2>3. block \in BlockNumber /\ block \in Nat
    BY MaxBlockAssumption, MaxU64Assumption DEF BlockNumber
  <2>4. block <= it.end => BatchesFor(it.end - block, it.range_size) \in Nat
    BY <2>3, FieldTypes, BatchesForFew
  <2>5. it'.batch_count = it.batch_count
    BY <1>1, <2>2, <2>3, <2>4, ResetToFields
  <2> QED
    BY <2>5, FieldTypes
<1>5. CASE UNCHANGED vars
    BY <1>5, FieldTypes DEF vars
<1> QED
    BY <1>2, <1>3, <1>4, <1>5 DEF Next

\* Every variable always has its type: block numbers stay u64 values although
\* next() steps past the end of a range and, in reverse, below block 0.
THEOREM IteratorTypes == Spec => []TypeOK
<1>1. IInv => TypeOK
    BY DEF IInv
<1> QED
    BY <1>1, IteratorInvariant, PTL

\* An iterator stops exactly when its pass has yielded every block of the
\* range, for every range, batch size and sequence of resets.
THEOREM IteratorStopsWhenCovered == Spec => []StopsWhenCovered
BY InvStopsWhenCovered, IteratorInvariant, PTL

\* What a pass has yielded is always contiguous, inside its range, and cut
\* into non-empty batches of at most range_size blocks.
THEOREM IteratorPassIsContiguous == Spec => []PassIsContiguous
BY InvPassIsContiguous, IteratorInvariant, PTL

\* No step of a pass yields a block the pass has yielded before, or one that is
\* not in its range.
THEOREM IteratorYieldsOnce == Spec => YieldsOnce
<1>1. IInv /\ PassIsContiguous' /\ [Next]_vars =>
        [it'.batch_count > it.batch_count =>
            batch'.lo .. batch'.hi \subseteq Wanted \ covered]_vars
    BY StepYieldsOnce
<1> QED
    BY <1>1, IteratorInvariant, IteratorPassIsContiguous, PTL DEF Spec, YieldsOnce
=============================================================================
