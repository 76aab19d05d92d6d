----------------------------- MODULE BlockLemmas -----------------------------
(***************************************************************************)
(* Facts about the parts that all block streams are built from, for every  *)
(* chain, every batch size and every capacity of the memory:               *)
(*                                                                         *)
(*  - the node: its steps keep the types, and which blocks each of them    *)
(*    leaves canonical (Chain);                                            *)
(*  - the range iterator: how many batches a range needs, which fields     *)
(*    next() and reset_to change, where the next batch lies                *)
(*    (RangeIterator);                                                     *)
(*  - the reorg handler: the types its steps keep, the ascending order of  *)
(*    its memory, and what a verdict means (ReorgHandler).                 *)
(***************************************************************************)
EXTENDS ReorgHandler, RangeIterator, SequenceTheorems, TLAPS

(* The node. *)

\* The chain at the start.
LEMMA ChainInitTypes == ASSUME ChainInit PROVE ChainTypeOK
<1>1. chain = [n \in 1 .. InitialHeight |-> 0] /\ InitialHeight \in Nat
  BY ChainAssumption DEF ChainInit
<1>2. chain \in Seq(0 .. MaxReorgs) /\ Len(chain) = InitialHeight
  BY <1>1, ChainAssumption
<1> QED
  BY <1>1, <1>2, ChainAssumption DEF ChainInit, ChainTypeOK, Height

\* A block the node has is a block.
LEMMA BlockAtType ==
    ASSUME ChainTypeOK, NEW n \in 0 .. Height
    PROVE  BlockAt(n) \in Block
<1>1. Height \in Nat /\ MaxHeight \in Nat /\ MaxReorgs \in Nat /\ Height <= MaxHeight
    BY ChainAssumption, LenProperties DEF ChainTypeOK, Height
<1>2. n \in 1 .. Height => chain[n] \in 0 .. MaxReorgs
    BY ElementOfSeq DEF ChainTypeOK, Height
<1> QED
    BY <1>1, <1>2 DEF BlockAt, Block

-----------------------------------------------------------------------------

\* The node keeps its types when it mines a block.
LEMMA MineTypes == ASSUME ChainTypeOK, Mine PROVE ChainTypeOK'
<1>1. chain' = Append(chain, reorgs) /\ chain \in Seq(0 .. MaxReorgs) /\ reorgs \in 0 .. MaxReorgs
    BY DEF Mine, ChainTypeOK
<1>2. chain' \in Seq(0 .. MaxReorgs) /\ Height' = Height + 1
    BY <1>1 DEF Height
<1>3. Height \in Nat /\ MaxHeight \in Nat
    BY ChainAssumption, LenProperties DEF ChainTypeOK, Height
<1> QED
    BY <1>2, <1>3 DEF Mine, ChainTypeOK

\* A reorg keeps the types, and its branch has a tip above genesis.
LEMMA ReorgTypes ==
    ASSUME ChainTypeOK, NEW fork \in 0 .. MaxHeight, NEW tip \in 0 .. MaxHeight,
           Reorg(fork, tip)
    PROVE  ChainTypeOK' /\ tip \in 1 .. MaxHeight
<1>1. /\ Height \in Nat /\ MaxHeight \in Nat /\ MaxReorgs \in Nat /\ Height <= MaxHeight
      /\ finalized \in Nat /\ reorgs \in Nat
    BY ChainAssumption, LenProperties DEF ChainTypeOK, Height
<1>2. /\ reorgs < MaxReorgs /\ reorgs' = reorgs + 1 /\ finalized' = finalized
      /\ fork \in Nat /\ finalized <= fork /\ fork <= Height - 1
      /\ tip \in Nat /\ fork + 1 <= tip /\ tip <= MaxHeight
    BY <1>1 DEF Reorg
<1>3. chain' = [n \in 1 .. tip |-> IF n <= fork THEN chain[n] ELSE reorgs + 1]
    BY DEF Reorg
<1>4. \A n \in 1 .. tip : (IF n <= fork THEN chain[n] ELSE reorgs + 1) \in 0 .. MaxReorgs
  <2> SUFFICES ASSUME NEW n \in 1 .. tip
               PROVE  (IF n <= fork THEN chain[n] ELSE reorgs + 1) \in 0 .. MaxReorgs
      OBVIOUS
  <2>1. CASE n <= fork
    <3>1. n \in 1 .. Len(chain)
      BY <1>1, <1>2, <2>1 DEF Height
    <3> QED
      BY <2>1, <3>1, ElementOfSeq DEF ChainTypeOK
  <2>2. CASE ~(n <= fork)
      BY <1>1, <1>2, <2>2
  <2> QED
      BY <2>1, <2>2
<1>5. chain' \in Seq(0 .. MaxReorgs) /\ Len(chain') = tip
  <2> DEFINE new == [n \in 1 .. tip |-> IF n <= fork THEN chain[n] ELSE reorgs + 1]
  <2>1. new \in Seq(0 .. MaxReorgs) /\ Len(new) = tip
    BY <1>2, <1>4
  <2> QED
    BY <1>3, <2>1
<1> QED
    BY <1>1, <1>2, <1>5 DEF ChainTypeOK, Height

\* So does finality.
LEMMA FinalizeTypes ==
    ASSUME ChainTypeOK, NEW n \in 1 .. MaxHeight, Finalize(n)
    PROVE  ChainTypeOK'
<1>1. Height \in Nat /\ finalized \in Nat
    BY LenProperties DEF ChainTypeOK, Height
<1> QED
    BY <1>1 DEF Finalize, ChainTypeOK, Height

-----------------------------------------------------------------------------

\* No hash is from the future.
Timely == \A n \in 1 .. Height : chain[n] <= reorgs

\* A block that the node has, or has had: if it was replaced, a reorg came
\* after it.
Known(b) == b # NoBlock => b.hash <= reorgs /\ (~Canonical(b) => b.hash < reorgs)

\* A block that is not canonical is not final either.
Unfinal(b) == b # NoBlock /\ ~Canonical(b) => finalized < b.number

\* What is canonical, in terms of the chain.
LEMMA CanonicalIs ==
    ASSUME NEW b \in Block
    PROVE  Canonical(b) <=> /\ b.number <= Height
                            /\ b.hash = IF b.number = 0 THEN 0 ELSE chain[b.number]
<1>1. b.number \in Nat /\ b = [number |-> b.number, hash |-> b.hash]
    BY DEF Block
<1>2. Height \in Int => (b.number \in 0 .. Height <=> b.number <= Height)
    BY <1>1
<1> QED
    BY <1>1 DEF Canonical, BlockAt

\* What the node answers with is canonical.
LEMMA CanonicalBlocks ==
    ASSUME ChainTypeOK, Timely, NEW n \in 0 .. Height
    PROVE  /\ BlockAt(n) \in Block /\ BlockAt(n).number = n /\ Canonical(BlockAt(n))
           /\ Known(BlockAt(n)) /\ Unfinal(BlockAt(n))
<1>1. BlockAt(n).number = n /\ BlockAt(n) \in Block
    BY BlockAtType DEF BlockAt
<1>2. Canonical(BlockAt(n))
    BY <1>1 DEF Canonical
<1>3. Height \in Nat /\ reorgs \in Nat
    BY ChainAssumption, LenProperties DEF ChainTypeOK, Height
<1>4. BlockAt(n).hash <= reorgs
    BY <1>3 DEF BlockAt, Timely
<1> QED
    BY <1>1, <1>2, <1>4 DEF Known, Unfinal

\* NoBlock is not a block.
LEMMA NoBlockIsNone == NoBlock \notin Block
BY ChainAssumption DEF NoBlock, Block

\* Mining changes no block.
LEMMA MineBlocks ==
    ASSUME ChainTypeOK, Timely, Mine
    PROVE  /\ Timely' /\ Height' = Height + 1 /\ finalized' = finalized
           /\ \A b \in Block : Known(b) => Known(b)' /\ (Canonical(b)' <=> Canonical(b))
<1>1. /\ reorgs \in Nat /\ reorgs' = reorgs /\ finalized' = finalized /\ Height \in Nat
    BY ChainAssumption, LenProperties DEF Mine, ChainTypeOK, Height
<1>2. /\ chain' = Append(chain, reorgs) /\ chain \in Seq(0 .. MaxReorgs)
      /\ reorgs \in 0 .. MaxReorgs
    BY DEF Mine, ChainTypeOK
<1>3. /\ Height' = Height + 1
      /\ \A n \in 1 .. Height : chain'[n] = chain[n]
      /\ chain'[Height + 1] = reorgs
    BY <1>2, AppendProperties DEF Height
<1>4. Timely'
  <2> SUFFICES ASSUME NEW n \in 1 .. Height' PROVE chain'[n] <= reorgs'
      BY DEF Timely
  <2>1. n \in 1 .. Height \/ n = Height + 1
    BY <1>1, <1>3
  <2> QED
    BY <1>1, <1>3, <2>1 DEF Timely
<1>5. ASSUME NEW b \in Block, Known(b)
      PROVE  Known(b)' /\ (Canonical(b)' <=> Canonical(b))
  <2>1. b # NoBlock /\ b.number \in Nat /\ b.hash \in Nat
    BY NoBlockIsNone, ChainAssumption DEF Block
  <2>2. Canonical(b)' <=> /\ b.number <= Height'
                          /\ b.hash = IF b.number = 0 THEN 0 ELSE chain'[b.number]
    BY <2>1 DEF Canonical, BlockAt, Block
  <2>3. Canonical(b) => Canonical(b)'
    <3>1. b.number # 0 /\ b.number <= Height => b.number \in 1 .. Height
      BY <1>1, <2>1
    <3>2. b.number # 0 /\ b.number <= Height => chain'[b.number] = chain[b.number]
      BY <1>3, <3>1
    <3>3. b.number <= Height => b.number <= Height'
      BY <1>1, <1>3, <2>1
    <3> QED
      BY <2>2, <3>2, <3>3, CanonicalIs
  <2>4. ASSUME ~Canonical(b), Canonical(b)'
        PROVE  FALSE
    <3>1. b.hash < reorgs
      BY <1>5, <2>1, <2>4 DEF Known
    <3>2. b.number = Height + 1
      <4>1. b.number <= Height /\ b.number # 0 => chain'[b.number] = chain[b.number]
        BY <1>1, <1>3, <2>1
      <4>2. ~(b.number <= Height)
        BY <2>2, <2>4, <4>1, CanonicalIs
      <4> QED
        BY <1>1, <1>3, <2>1, <2>2, <2>4, <4>2
    <3>3. b.hash = reorgs
      BY <1>1, <1>3, <2>2, <2>4, <3>2
    <3> QED
      BY <1>1, <2>1, <3>1, <3>3
  <2> QED
    BY <1>1, <1>5, <2>1, <2>3, <2>4 DEF Known
<1> QED
    BY <1>1, <1>3, <1>4, <1>5

\* A reorg replaces blocks above its fork only, and none that it replaces
\* ever comes back.
LEMMA ReorgBlocks ==
    ASSUME ChainTypeOK, Timely, NEW fork \in 0 .. MaxHeight, NEW tip \in 0 .. MaxHeight,
           Reorg(fork, tip)
    PROVE  /\ Timely' /\ Height' = tip /\ finalized' = finalized /\ finalized <= fork
           /\ \A b \in Block : Known(b) =>
                /\ Known(b)'
                /\ Canonical(b)' <=> (Canonical(b) /\ b.number <= fork)
<1>1. /\ Height \in Nat /\ MaxHeight \in Nat /\ reorgs \in Nat /\ finalized \in Nat
      /\ fork \in Nat /\ tip \in Nat
    BY ChainAssumption, LenProperties DEF ChainTypeOK, Height
<1>2. /\ reorgs' = reorgs + 1 /\ finalized' = finalized
      /\ finalized <= fork /\ fork <= Height - 1 /\ fork + 1 <= tip
    BY <1>1 DEF Reorg
<1>3. chain' = [n \in 1 .. tip |-> IF n <= fork THEN chain[n] ELSE reorgs + 1]
    BY DEF Reorg
<1>4. Height' = tip
  <2> DEFINE new == [n \in 1 .. tip |-> IF n <= fork THEN chain[n] ELSE reorgs + 1]
  <2>1. Len(new) = tip
    BY <1>1
  <2> QED
    BY <1>3, <2>1 DEF Height
<1>5. \A n \in 1 .. tip : chain'[n] = IF n <= fork THEN chain[n] ELSE reorgs + 1
    BY <1>3
<1>6. Timely'
  <2> SUFFICES ASSUME NEW n \in 1 .. tip PROVE chain'[n] <= reorgs'
      BY <1>4 DEF Timely
  <2>1. CASE n <= fork
    <3>1. n \in 1 .. Height /\ chain'[n] = chain[n]
      BY <1>1, <1>2, <1>5, <2>1
    <3>2. chain[n] \in 0 .. MaxReorgs
      BY <3>1, ElementOfSeq DEF ChainTypeOK, Height
    <3> QED
      BY <1>1, <1>2, <3>1, <3>2 DEF Timely
  <2>2. CASE ~(n <= fork)
    BY <1>1, <1>2, <1>5, <2>2
  <2> QED
    BY <2>1, <2>2
<1>7. ASSUME NEW b \in Block, Known(b)
      PROVE  /\ Known(b)'
             /\ Canonical(b)' <=> (Canonical(b) /\ b.number <= fork)
  <2>1. b # NoBlock /\ b.number \in Nat /\ b.hash \in Nat /\ b.hash <= reorgs
    BY <1>7, NoBlockIsNone, ChainAssumption DEF Block, Known
  <2>2. Canonical(b)' <=> /\ b.number <= Height'
                          /\ b.hash = IF b.number = 0 THEN 0 ELSE chain'[b.number]
    BY <2>1 DEF Canonical, BlockAt, Block
  <2>3. Canonical(b) /\ b.number <= fork <=> Canonical(b)'
    <3>1. CASE b.number <= fork
      <4>1. b.number <= Height /\ b.number <= Height'
        BY <1>1, <1>2, <1>4, <2>1, <3>1
      <4>2. b.number # 0 => chain'[b.number] = chain[b.number]
        BY <1>1, <1>2, <1>5, <2>1, <3>1
      <4> QED
        BY <2>2, <3>1, <4>1, <4>2, CanonicalIs
    <3>2. CASE ~(b.number <= fork)
      <4>1. b.number <= tip => chain'[b.number] = reorgs + 1 /\ b.number # 0
        BY <1>1, <1>5, <2>1, <3>2
      <4> QED
        BY <1>1, <1>4, <2>1, <2>2, <3>2, <4>1
    <3> QED
      BY <3>1, <3>2
  <2> QED
    BY <1>1, <1>2, <2>1, <2>3 DEF Known
<1> QED
    BY <1>2, <1>4, <1>6, <1>7

\* Nor does finality change any.
LEMMA FinalizeBlocks ==
    ASSUME Timely, NEW n \in 1 .. MaxHeight, Finalize(n)
    PROVE  /\ Timely' /\ Height' = Height /\ finalized' = n
           /\ \A b : (Canonical(b)' <=> Canonical(b)) /\ (Known(b)' <=> Known(b))
<1>1. UNCHANGED <<chain, reorgs>> /\ finalized' = n
    BY DEF Finalize
<1> QED
    BY <1>1 DEF Timely, Height, Canonical, BlockAt, Known

-----------------------------------------------------------------------------
(* The range iterator. *)

\* Blocks that need a batch need at least one, and one is enough for as many
\* as fit in it (n + 1 blocks, range_iterator.rs:28, 46-49, 65).
LEMMA BatchesForFew ==
    ASSUME NEW n \in Nat, NEW size \in Nat \ {0}
    PROVE  /\ BatchesFor(n, size) \in Nat \ {0}
           /\ n < size => BatchesFor(n, size) = 1
BY SMT DEF BatchesFor

\* A full batch less needs one batch less.
LEMMA BatchesForMany ==
    ASSUME NEW n \in Nat, NEW size \in Nat \ {0}, n >= size
    PROVE  BatchesFor(n - size, size) = BatchesFor(n, size) - 1
BY SMT DEF BatchesFor

\* The fields of an iterator after next() and reset_to, which change two each.
LEMMA ForwardAdvanceFields ==
    ASSUME NEW i \in Iterator,
           ForwardBatch(i).hi + 1 \in BlockNumber
    PROVE  /\ ForwardAdvance(i) \in Iterator
           /\ ForwardAdvance(i).current = ForwardBatch(i).hi + 1
           /\ ForwardAdvance(i).batch_count = i.batch_count + 1
           /\ ForwardAdvance(i).end = i.end
           /\ ForwardAdvance(i).range_size = i.range_size
           /\ ForwardAdvance(i).total_batches = i.total_batches
<1> DEFINE c == ForwardBatch(i).hi + 1
           k == i.batch_count + 1
           j == [i EXCEPT !.current = c]
<1>1. c \in BlockNumber /\ k \in Nat /\ ForwardAdvance(i) = [j EXCEPT !.batch_count = k]
    BY SMT DEF ForwardAdvance, Iterator
<1> HIDE DEF c, k
<1>2. j \in Iterator /\ j.current = c /\ j.end = i.end /\ j.range_size = i.range_size
      /\ j.total_batches = i.total_batches
    BY <1>1, SMT DEF Iterator
<1> HIDE DEF j
<1>3. /\ [j EXCEPT !.batch_count = k] \in Iterator
      /\ [j EXCEPT !.batch_count = k].current = j.current
      /\ [j EXCEPT !.batch_count = k].batch_count = k
      /\ [j EXCEPT !.batch_count = k].end = j.end
      /\ [j EXCEPT !.batch_count = k].range_size = j.range_size
      /\ [j EXCEPT !.batch_count = k].total_batches = j.total_batches
    BY <1>1, <1>2, SMT DEF Iterator
<1> QED
    BY <1>1, <1>2, <1>3, Zenon DEF c, k

\* The same for a reverse iterator.
LEMMA ReverseAdvanceFields ==
    ASSUME NEW i \in Iterator,
           SaturatingSub(ReverseBatch(i).lo, 1) \in BlockNumber
    PROVE  /\ ReverseAdvance(i) \in Iterator
           /\ ReverseAdvance(i).current = SaturatingSub(ReverseBatch(i).lo, 1)
           /\ ReverseAdvance(i).batch_count = i.batch_count + 1
           /\ ReverseAdvance(i).end = i.end
           /\ ReverseAdvance(i).range_size = i.range_size
           /\ ReverseAdvance(i).total_batches = i.total_batches
<1> DEFINE c == SaturatingSub(ReverseBatch(i).lo, 1)
           k == i.batch_count + 1
           j == [i EXCEPT !.current = c]
<1>1. c \in BlockNumber /\ k \in Nat /\ ReverseAdvance(i) = [j EXCEPT !.batch_count = k]
    BY SMT DEF ReverseAdvance, Iterator
<1> HIDE DEF c, k
<1>2. j \in Iterator /\ j.current = c /\ j.end = i.end /\ j.range_size = i.range_size
      /\ j.total_batches = i.total_batches
    BY <1>1, SMT DEF Iterator
<1> HIDE DEF j
<1>3. /\ [j EXCEPT !.batch_count = k] \in Iterator
      /\ [j EXCEPT !.batch_count = k].current = j.current
      /\ [j EXCEPT !.batch_count = k].batch_count = k
      /\ [j EXCEPT !.batch_count = k].end = j.end
      /\ [j EXCEPT !.batch_count = k].range_size = j.range_size
      /\ [j EXCEPT !.batch_count = k].total_batches = j.total_batches
    BY <1>1, <1>2, SMT DEF Iterator
<1> QED
    BY <1>1, <1>2, <1>3, Zenon DEF c, k

\* And for one that was reset.
LEMMA ResetToFields ==
    ASSUME NEW i \in Iterator, NEW block \in BlockNumber,
           block <= i.end => BatchesFor(i.end - block, i.range_size) \in Nat
    PROVE  /\ ResetTo(i, block) \in Iterator
           /\ ResetTo(i, block).current = block
           /\ ResetTo(i, block).total_batches = IF block > i.end THEN i.batch_count ELSE i.batch_count + BatchesFor(i.end - block, i.range_size)
           /\ ResetTo(i, block).end = i.end
           /\ ResetTo(i, block).range_size = i.range_size
           /\ ResetTo(i, block).batch_count = i.batch_count
<1> DEFINE c == block
           k == IF block > i.end THEN i.batch_count ELSE i.batch_count + BatchesFor(i.end - block, i.range_size)
           j == [i EXCEPT !.current = c]
<1>1. c \in BlockNumber /\ k \in Nat /\ ResetTo(i, block) = [j EXCEPT !.total_batches = k]
  <2>1. i.batch_count \in Nat /\ i.end \in Int /\ block \in Int
    BY MaxU64Assumption DEF Iterator, BlockNumber
  <2>2. k \in Nat
    BY <2>1
  <2> QED
    BY <2>2, Zenon DEF ResetTo
<1> HIDE DEF c, k
<1>2. j \in Iterator /\ j.current = c /\ j.end = i.end /\ j.range_size = i.range_size
      /\ j.batch_count = i.batch_count
    BY <1>1, SMT DEF Iterator
<1> HIDE DEF j
<1>3. /\ [j EXCEPT !.total_batches = k] \in Iterator
      /\ [j EXCEPT !.total_batches = k].current = j.current
      /\ [j EXCEPT !.total_batches = k].total_batches = k
      /\ [j EXCEPT !.total_batches = k].end = j.end
      /\ [j EXCEPT !.total_batches = k].range_size = j.range_size
      /\ [j EXCEPT !.total_batches = k].batch_count = j.batch_count
    BY <1>1, <1>2, SMT DEF Iterator
<1> QED
    BY <1>1, <1>2, <1>3, Zenon DEF c, k

\* What the batch of a forward iterator that has one looks like.
LEMMA ForwardBatchBounds ==
    ASSUME NEW i \in Iterator, i.current <= i.end
    PROVE  /\ ForwardBatch(i) \in [lo : BlockNumber, hi : BlockNumber]
           /\ ForwardBatch(i).lo = i.current
           /\ i.current <= ForwardBatch(i).hi
           /\ ForwardBatch(i).hi <= i.end
           /\ ForwardBatch(i).hi - i.current < i.range_size
           /\ ForwardBatch(i).hi = i.end \/ ForwardBatch(i).hi = i.current + i.range_size - 1
           /\ i.end - i.current < i.range_size => ForwardBatch(i).hi = i.end
BY MaxU64Assumption, SMT DEF Iterator, ForwardBatch, Least, SaturatingAdd, BlockNumber

\* The same for a reverse iterator.
LEMMA ReverseBatchBounds ==
    ASSUME NEW i \in Iterator, i.end <= i.current
    PROVE  /\ ReverseBatch(i) \in [lo : BlockNumber, hi : BlockNumber]
           /\ ReverseBatch(i).hi = i.current
           /\ i.end <= ReverseBatch(i).lo
           /\ ReverseBatch(i).lo <= i.current
           /\ i.current - ReverseBatch(i).lo < i.range_size
           /\ ReverseBatch(i).lo = i.end \/ ReverseBatch(i).lo = i.current - i.range_size + 1
           /\ i.current - i.end < i.range_size => ReverseBatch(i).lo = i.end
BY MaxU64Assumption, SMT DEF Iterator, ReverseBatch, Greatest, SaturatingSub, BlockNumber

\* The fields of an iterator are numbers.
LEMMA IteratorNumbers ==
    ASSUME NEW i \in Iterator
    PROVE  /\ i.current \in Nat /\ i.end \in Nat /\ i.range_size \in Nat \ {0}
           /\ i.batch_count \in Nat /\ i.total_batches \in Nat
BY MaxU64Assumption DEF Iterator, BlockNumber

\* A forward iterator has as many batches left as the blocks left need: next()
\* counts batches, while the position decides where they lie.
CountsWhatIsLeft(i) ==
    i.total_batches - i.batch_count =
        IF i.current > i.end THEN 0 ELSE BatchesFor(i.end - i.current, i.range_size)

\* It does when it is new (range_iterator.rs:24-35).
LEMMA ForwardCounts ==
    ASSUME NEW s \in BlockNumber, NEW e \in BlockNumber, NEW size \in BlockNumber \ {0}
    PROVE  LET i == Forward(s, e, size) IN
           /\ i \in Iterator /\ CountsWhatIsLeft(i)
           /\ i.current = s /\ i.end = e /\ i.range_size = size
<1>1. s \in Nat /\ e \in Nat /\ size \in Nat \ {0}
    BY MaxU64Assumption DEF BlockNumber
<1>2. s <= e => BatchesFor(e - s, size) \in Nat
    BY <1>1, BatchesForFew
<1> QED
    BY <1>1, <1>2 DEF Forward, Iterator, CountsWhatIsLeft

\* So next() has a batch exactly while blocks are left.
LEMMA HasNextIffLeft ==
    ASSUME NEW i \in Iterator, CountsWhatIsLeft(i)
    PROVE  HasNext(i) <=> i.current <= i.end
<1>1. i.current <= i.end => BatchesFor(i.end - i.current, i.range_size) \in Nat \ {0}
    BY IteratorNumbers, BatchesForFew
<1> QED
    BY <1>1, IteratorNumbers DEF CountsWhatIsLeft, HasNext

\* And it still does after next() (range_iterator.rs:55-78).
LEMMA AdvanceCounts ==
    ASSUME NEW i \in Iterator, CountsWhatIsLeft(i), i.current <= i.end, i.end < MaxU64
    PROVE  LET b == ForwardBatch(i)
               j == ForwardAdvance(i)
           IN  /\ b.lo = i.current /\ b.hi \in Nat /\ i.current <= b.hi /\ b.hi <= i.end
               /\ b.hi - b.lo < i.range_size
               /\ j \in Iterator /\ CountsWhatIsLeft(j)
               /\ j.current = b.hi + 1 /\ j.end = i.end /\ j.range_size = i.range_size
<1> DEFINE b == ForwardBatch(i)
           j == ForwardAdvance(i)
<1>1. /\ i.current \in Nat /\ i.end \in Nat /\ i.range_size \in Nat \ {0}
      /\ i.batch_count \in Nat /\ i.total_batches \in Nat /\ MaxU64 \in Nat
    BY IteratorNumbers, MaxU64Assumption
<1>2. /\ b \in [lo : BlockNumber, hi : BlockNumber] /\ b.lo = i.current
      /\ i.current <= b.hi /\ b.hi <= i.end /\ b.hi - i.current < i.range_size
      /\ b.hi = i.end \/ b.hi = i.current + i.range_size - 1
      /\ i.end - i.current < i.range_size => b.hi = i.end
    BY ForwardBatchBounds
<1>3. b.hi \in Nat
    BY <1>2 DEF BlockNumber
<1>4. /\ j \in Iterator
      /\ j.current = b.hi + 1 /\ j.batch_count = i.batch_count + 1
      /\ j.end = i.end /\ j.range_size = i.range_size
      /\ j.total_batches = i.total_batches
  <2>1. b.hi + 1 \in BlockNumber
    BY <1>1, <1>2, <1>3 DEF BlockNumber
  <2> QED
    BY <2>1, ForwardAdvanceFields
<1> HIDE DEF b, j
<1>5. CountsWhatIsLeft(j)
  <2>1. /\ i.total_batches - i.batch_count = BatchesFor(i.end - i.current, i.range_size)
        /\ i.end - i.current \in Nat
    BY <1>1 DEF CountsWhatIsLeft
  <2>2. BatchesFor(i.end - i.current, i.range_size) \in Nat
    BY <1>1, <2>1, BatchesForFew
  <2>3. CASE i.end - i.current < i.range_size
    <3>1. BatchesFor(i.end - i.current, i.range_size) = 1
      BY <1>1, <2>1, <2>3, BatchesForFew
    <3> QED
      BY <1>1, <1>2, <1>4, <2>1, <2>3, <3>1 DEF CountsWhatIsLeft
  <2>4. CASE i.end - i.current >= i.range_size
    <3>1. BatchesFor(i.end - i.current - i.range_size, i.range_size)
            = BatchesFor(i.end - i.current, i.range_size) - 1
      BY <1>1, <2>1, <2>4, BatchesForMany
    <3>2. CASE b.hi = i.current + i.range_size - 1
      <4>1. /\ j.end - j.current = i.end - i.current - i.range_size
            /\ ~(j.current > j.end)
        BY <1>1, <1>4, <2>4, <3>2
      <4> QED
        BY <1>1, <1>4, <2>1, <2>2, <3>1, <4>1 DEF CountsWhatIsLeft
    <3>3. CASE b.hi = i.end /\ b.hi # i.current + i.range_size - 1
      BY <1>1, <1>2, <1>3, <2>4, <3>3
    <3> QED
      BY <1>2, <3>2, <3>3
  <2> QED
    BY <1>1, <2>3, <2>4
<1> QED
    BY <1>2, <1>3, <1>4, <1>5 DEF b, j

-----------------------------------------------------------------------------
(* The reorg handler. *)

\* The memory never holds more than its capacity (ring_buffer.rs:53-83).
LEMMA PushTypes ==
    ASSUME NEW b \in Seq(Block), WithinCapacity(b), NEW item \in Block
    PROVE  Push(b, item) \in Seq(Block) /\ WithinCapacity(Push(b, item))
<1>1. Len(b) \in Nat
    BY LenProperties
<1>2. Append(b, item) \in Seq(Block) /\ Len(Append(b, item)) = Len(b) + 1
    OBVIOUS
<1>3. CASE Capacity = Infinite
    BY <1>2, <1>3 DEF Push, WithinCapacity
<1>4. CASE Capacity # Infinite
  <2>1. Capacity \in Nat /\ Len(b) <= Capacity
    BY <1>4, CapacityAssumption DEF WithinCapacity
  <2>2. CASE Capacity = 0
    BY <1>4, <2>2 DEF Push, WithinCapacity
  <2>3. CASE Capacity # 0 /\ Len(b) = Capacity
    <3>1. b # <<>>
      BY <2>1, <2>3
    <3>2. Tail(b) \in Seq(Block) /\ Len(Tail(b)) = Len(b) - 1
      BY <3>1, HeadTailProperties
    <3>3. /\ Append(Tail(b), item) \in Seq(Block)
          /\ Len(Append(Tail(b), item)) = Len(Tail(b)) + 1
      BY <3>2
    <3>4. Push(b, item) = Append(Tail(b), item)
      BY <1>4, <2>3 DEF Push
    <3> QED
      BY <1>1, <2>1, <2>3, <3>2, <3>3, <3>4 DEF WithinCapacity
  <2>4. CASE Capacity # 0 /\ Len(b) # Capacity
    <3>1. Push(b, item) = Append(b, item)
      BY <1>4, <2>4 DEF Push
    <3> QED
      BY <1>1, <1>2, <2>1, <2>4, <3>1 DEF WithinCapacity
  <2> QED
    BY <2>2, <2>3, <2>4
<1> QED
    BY <1>3, <1>4

\* Popping the newest block, which is a block of the memory.
LEMMA PopBackTypes ==
    ASSUME NEW b \in Seq(Block), WithinCapacity(b), b # <<>>
    PROVE  PopBack(b) \in Seq(Block) /\ WithinCapacity(PopBack(b)) /\ Back(b) \in Block
<1>1. Len(b) \in Nat /\ Len(b) > 0
    BY EmptySeq, LenProperties
<1>2. \A i \in 1 .. Len(b) - 1 : b[i] \in Block
    BY <1>1, ElementOfSeq
<1>3. PopBack(b) \in Seq(Block) /\ Len(PopBack(b)) = Len(b) - 1
  <2> DEFINE n == Len(b) - 1
  <2>1. n \in Nat
    BY <1>1
  <2> HIDE DEF n
  <2>2. /\ SubSeq(b, 1, n) \in Seq(Block)
        /\ Len(SubSeq(b, 1, n)) = IF 1 <= n THEN n - 1 + 1 ELSE 0
    BY <1>2, <2>1, SubSeqProperties DEF n
  <2>3. (IF 1 <= n THEN n - 1 + 1 ELSE 0) = n
    BY <2>1
  <2> QED
    BY <2>2, <2>3 DEF PopBack, n
<1>4. Back(b) \in Block
    BY <1>1, ElementOfSeq DEF Back
<1> QED
    BY <1>1, <1>3, <1>4, CapacityAssumption DEF WithinCapacity

-----------------------------------------------------------------------------

\* The common ancestor that is confirmed is a remembered block.
HandlerInv ==
    /\ HandlerTypeOK
    /\ step = "confirm" => buffer # <<>>

\* The caller's two steps, and the steps of a call (reorg_handler.rs:77-186).
LEMMA CheckInv ==
    ASSUME HandlerInv, NEW block \in OptionalBlock, Check(block)
    PROVE  HandlerInv'
BY DEF HandlerInv, HandlerTypeOK, Check, OptionalBlock

\* The caller takes the verdict.
LEMMA AnsweredInv == ASSUME HandlerInv, Answered PROVE HandlerInv'
BY DEF HandlerInv, HandlerTypeOK, Answered, OptionalBlock

\* A step of a call, whatever the node answers or fails to answer.
LEMMA CheckStepInv ==
    ASSUME ChainTypeOK, HandlerInv, CheckStep
    PROVE  HandlerInv'
<1>1. CASE DetectCanonical
  <2>1. checked \in Block
    <3>1. NoBlock.number = -1
      BY DEF NoBlock
    <3>2. Height \in Nat
      BY LenProperties DEF ChainTypeOK, Height
    <3>3. checked # NoBlock
      BY <1>1, <3>1, <3>2 DEF DetectCanonical, Canonical
    <3> QED
      BY <3>3 DEF HandlerInv, HandlerTypeOK, OptionalBlock
  <2>2. buffer' \in Seq(Block) /\ WithinCapacity(buffer')
    BY <1>1, <2>1, PushTypes DEF DetectCanonical, HandlerInv, HandlerTypeOK
  <2> QED
    BY <1>1, <2>2 DEF DetectCanonical, Return, HandlerInv, HandlerTypeOK, OptionalBlock, WithinCapacity
<1>2. CASE DetectReorg
    BY <1>2 DEF DetectReorg, HandlerInv, HandlerTypeOK, WithinCapacity
<1>3. CASE Discard
    BY <1>3, PopBackTypes DEF Discard, HandlerInv, HandlerTypeOK, WithinCapacity
<1>4. CASE FindAncestor
    BY <1>4 DEF FindAncestor, HandlerInv, HandlerTypeOK, WithinCapacity
<1>5. CASE Confirm \/ FallBack
  <2>1. BlockAt(finalized) \in OptionalBlock
    BY BlockAtType DEF ChainTypeOK, OptionalBlock
  <2>2. CASE FallBack
    BY <2>1, <2>2 DEF FallBack, Return, HandlerInv, HandlerTypeOK, OptionalBlock, WithinCapacity
  <2>3. CASE Confirm /\ finalized <= Back(buffer).number
    <3>1. verdict' = Back(buffer) /\ buffer' = buffer /\ step' = "done" /\ checked' = NoBlock
      BY <2>3 DEF Confirm, Return
    <3>2. Back(buffer) \in OptionalBlock
      BY <2>3, PopBackTypes DEF Confirm, HandlerInv, HandlerTypeOK, OptionalBlock
    <3> QED
      BY <3>1, <3>2 DEF HandlerInv, HandlerTypeOK, OptionalBlock, WithinCapacity
  <2>4. CASE Confirm /\ ~(finalized <= Back(buffer).number)
    <3>1. /\ verdict' = BlockAt(finalized) /\ buffer' = <<>> /\ step' = "done"
          /\ checked' = NoBlock
      BY <2>4 DEF Confirm, Return
    <3>2. WithinCapacity(<<>>)
      BY CapacityAssumption DEF WithinCapacity
    <3> QED
      BY <2>1, <3>1, <3>2 DEF HandlerInv, HandlerTypeOK, OptionalBlock, WithinCapacity
  <2> QED
    BY <1>5, <2>2, <2>3, <2>4
<1>6. CASE CheckFails
    BY <1>6 DEF CheckFails, HandlerInv, HandlerTypeOK, OptionalBlock, WithinCapacity
<1> QED
    BY <1>1, <1>2, <1>3, <1>4, <1>5, <1>6 DEF CheckStep

-----------------------------------------------------------------------------
(* The memory as a set of blocks in ascending order. *)

Elements(b) == {b[i] : i \in 1 .. Len(b)}

Ascends(b) == \A i, j \in 1 .. Len(b) : i < j => b[i].number < b[j].number

\* All of them are below a block, or are that block.
UpTo(b, block) == \A r \in Elements(b) : r.number < block.number \/ r = block

\* The newest block is the highest.
LEMMA BackIsHighest ==
    ASSUME NEW b \in Seq(Block), Ascends(b), b # <<>>
    PROVE  Back(b) \in Elements(b) /\ UpTo(b, Back(b))
<1>1. Len(b) \in Nat /\ Len(b) > 0
    BY EmptySeq, LenProperties
<1>2. ASSUME NEW i \in 1 .. Len(b)
      PROVE  b[i].number < b[Len(b)].number \/ b[i] = b[Len(b)]
    BY <1>1 DEF Ascends
<1> QED
    BY <1>1, <1>2 DEF Back, Elements, UpTo

\* Appending a block above all others.
LEMMA AppendAscends ==
    ASSUME NEW b \in Seq(Block), Ascends(b), NEW item \in Block,
           \A r \in Elements(b) : r.number < item.number
    PROVE  Ascends(Append(b, item)) /\ Elements(Append(b, item)) = Elements(b) \cup {item}
<1> DEFINE c == Append(b, item)
<1>1. Len(b) \in Nat
    BY LenProperties
<1>2. /\ Len(c) = Len(b) + 1
      /\ \A i \in 1 .. Len(b) : c[i] = b[i]
      /\ c[Len(b) + 1] = item
    BY AppendProperties
<1> HIDE DEF c
<1>3. Ascends(c)
  <2> SUFFICES ASSUME NEW i \in 1 .. Len(c), NEW j \in 1 .. Len(c), i < j
               PROVE  c[i].number < c[j].number
      BY DEF Ascends
  <2>1. i \in 1 .. Len(b) /\ c[i] = b[i]
    BY <1>1, <1>2
  <2>2. CASE j = Len(b) + 1
    BY <1>2, <2>1, <2>2 DEF Elements
  <2>3. CASE j # Len(b) + 1
    <3>1. j \in 1 .. Len(b) /\ c[j] = b[j]
      BY <1>1, <1>2, <2>3
    <3> QED
      BY <2>1, <3>1 DEF Ascends
  <2> QED
    BY <2>2, <2>3
<1>4. Elements(c) \subseteq Elements(b) \cup {item}
  <2> SUFFICES ASSUME NEW i \in 1 .. Len(c) PROVE c[i] \in Elements(b) \cup {item}
      BY DEF Elements
  <2>1. i \in 1 .. Len(b) \/ i = Len(b) + 1
    BY <1>1, <1>2
  <2> QED
    BY <1>2, <2>1 DEF Elements
<1>5. Elements(b) \cup {item} \subseteq Elements(c)
  <2>1. item \in Elements(c)
    <3>1. Len(b) + 1 \in 1 .. Len(c)
      BY <1>1, <1>2
    <3> QED
      BY <1>2, <3>1 DEF Elements
  <2>2. ASSUME NEW i \in 1 .. Len(b) PROVE b[i] \in Elements(c)
    <3>1. i \in 1 .. Len(c) /\ c[i] = b[i]
      BY <1>1, <1>2
    <3> QED
      BY <3>1 DEF Elements
  <2> QED
    BY <2>1, <2>2 DEF Elements
<1> QED
    BY <1>3, <1>4, <1>5 DEF c

\* Dropping the oldest block.
LEMMA TailAscends ==
    ASSUME NEW b \in Seq(Block), Ascends(b), b # <<>>
    PROVE  Tail(b) \in Seq(Block) /\ Ascends(Tail(b)) /\ Elements(Tail(b)) \subseteq Elements(b)
<1> DEFINE c == Tail(b)
<1>1. Len(b) \in Nat
    BY LenProperties
<1>2. /\ c \in Seq(Block) /\ Len(c) = Len(b) - 1
      /\ \A i \in 1 .. Len(c) : c[i] = b[i + 1]
    BY HeadTailProperties
<1> HIDE DEF c
<1>3. \A i \in 1 .. Len(c) : i + 1 \in 1 .. Len(b)
    BY <1>1, <1>2
<1>4. Ascends(c)
    BY <1>2, <1>3 DEF Ascends
<1>5. Elements(c) \subseteq Elements(b)
    BY <1>2, <1>3 DEF Elements
<1> QED
    BY <1>2, <1>4, <1>5 DEF c

\* Dropping the newest block.
LEMMA PopBackAscends ==
    ASSUME NEW b \in Seq(Block), Ascends(b), b # <<>>
    PROVE  Ascends(PopBack(b)) /\ Elements(PopBack(b)) \subseteq Elements(b)
<1> DEFINE n == Len(b) - 1
           c == SubSeq(b, 1, n)
<1>1. Len(b) \in Nat /\ n \in Nat
    BY EmptySeq, LenProperties
<1>2. Len(c) = n /\ \A i \in 1 .. n : c[i] = b[i]
  <2>1. \A i \in 1 .. n : b[i] \in Block
    BY <1>1, ElementOfSeq
  <2> HIDE DEF n
  <2>2. /\ Len(c) = IF 1 <= n THEN n - 1 + 1 ELSE 0
        /\ \A i \in 1 .. n - 1 + 1 : c[i] = b[1 + i - 1]
    BY <1>1, <2>1, SubSeqProperties
  <2> HIDE DEF c
  <2>3. ASSUME NEW i \in 1 .. n PROVE c[i] = b[i]
    <3>1. i \in 1 .. n - 1 + 1 /\ 1 + i - 1 = i
      BY <1>1
    <3> QED
      BY <2>2, <3>1
  <2> QED
    BY <1>1, <2>2, <2>3
<1> HIDE DEF c
<1>3. \A i \in 1 .. n : i \in 1 .. Len(b)
    BY <1>1
<1>4. Ascends(c)
    BY <1>2, <1>3 DEF Ascends
<1>5. Elements(c) \subseteq Elements(b)
    BY <1>2, <1>3 DEF Elements
<1> QED
    BY <1>4, <1>5 DEF c, PopBack

\* Remembering a block above all that are remembered, in a memory of any
\* capacity (ring_buffer.rs:53-83).
LEMMA PushAscends ==
    ASSUME NEW b \in Seq(Block), WithinCapacity(b), Ascends(b), NEW item \in Block,
           \A r \in Elements(b) : r.number < item.number
    PROVE  Ascends(Push(b, item)) /\ Elements(Push(b, item)) \subseteq Elements(b) \cup {item}
<1>1. CASE Push(b, item) = b
    BY <1>1
<1>2. CASE Push(b, item) = Append(b, item)
    BY <1>2, AppendAscends
<1>3. CASE Push(b, item) = Append(Tail(b), item) /\ b # <<>>
  <2>1. /\ Tail(b) \in Seq(Block) /\ Ascends(Tail(b))
        /\ Elements(Tail(b)) \subseteq Elements(b)
    BY <1>3, TailAscends
  <2>2. \A r \in Elements(Tail(b)) : r.number < item.number
    BY <2>1
  <2>3. /\ Ascends(Append(Tail(b), item))
        /\ Elements(Append(Tail(b), item)) = Elements(Tail(b)) \cup {item}
    BY <2>1, <2>2, AppendAscends
  <2> QED
    BY <1>3, <2>1, <2>3
<1>4. \/ Push(b, item) = b
      \/ Push(b, item) = Append(b, item)
      \/ Push(b, item) = Append(Tail(b), item) /\ b # <<>>
  <2>1. Capacity # 0 /\ Len(b) = Capacity => b # <<>>
    BY CapacityAssumption, EmptySeq
  <2> QED
    BY <2>1 DEF Push
<1> QED
    BY <1>1, <1>2, <1>3, <1>4

-----------------------------------------------------------------------------
(* What a call promises about the block it is asked about. *)

\* The verdict on block q is an ancestor below q, and unless the memory is
\* given up it is the newest block there; without a reorg everything
\* remembered is below q, or q.
CallOf(q) ==
    /\ step \in {"detect", "search", "confirm"} => checked = q /\ UpTo(buffer, q)
    /\ step \in {"search", "confirm"} => ~Canonical(q)
    /\ step = "confirm" => Back(buffer).number < q.number
    /\ verdict # NoBlock =>
        /\ step = "done" /\ verdict.number < q.number
        /\ buffer = <<>> \/ verdict = Back(buffer)
    /\ step = "done" /\ verdict = NoBlock => UpTo(buffer, q)

\* Every step of a call keeps to that, as long as no block that is not
\* canonical is final (reorg_handler.rs:77-186).
LEMMA CheckStepCall ==
    ASSUME ChainTypeOK, HandlerInv, Ascends(buffer), NEW q \in Block, CallOf(q), Unfinal(q),
           CheckStep, UNCHANGED chainVars
    PROVE  /\ CallOf(q)' /\ Ascends(buffer')
           /\ Elements(buffer') \subseteq Elements(buffer) \cup (IF Canonical(q) THEN {q} ELSE {})
<1> USE DEF HandlerInv, HandlerTypeOK
<1>0. Canonical(q)' <=> Canonical(q)
    BY DEF chainVars, Canonical, BlockAt, Height
<1>1. /\ step \in {"detect", "search", "confirm"} /\ verdict = NoBlock
      /\ checked = q /\ UpTo(buffer, q)
  <2>1. step \in {"detect", "search", "confirm"}
    BY DEF CheckStep, DetectCanonical, DetectReorg, Discard, FindAncestor, Confirm, FallBack,
           CheckFails
  <2> QED
    BY <2>1 DEF CallOf
<1>2. q # NoBlock /\ q.number \in Nat
    BY NoBlockIsNone, ChainAssumption DEF Block
<1>3. CASE DetectCanonical
  <2>1. /\ step' = "done" /\ verdict' = NoBlock /\ Canonical(q)
        /\ buffer' = IF Duplicate(q) THEN buffer ELSE Push(buffer, q)
    BY <1>1, <1>3 DEF DetectCanonical, Return
  <2>2. CASE Duplicate(q)
    BY <1>1, <2>1, <2>2 DEF CallOf
  <2>3. CASE ~Duplicate(q)
    <3>1. \A r \in Elements(buffer) : r.number < q.number
      <4> SUFFICES ASSUME NEW r \in Elements(buffer), r = q PROVE FALSE
          BY <1>1 DEF UpTo
      <4>1. buffer # <<>>
        BY EmptySeq DEF Elements
      <4>2. Back(buffer) \in Elements(buffer) /\ UpTo(buffer, Back(buffer))
        BY <4>1, BackIsHighest
      <4>3. Back(buffer) # q
        BY <2>3, <4>1 DEF Duplicate
      <4>4. Back(buffer) \in Block
        BY <4>1, PopBackTypes
      <4>5. q.number < Back(buffer).number /\ Back(buffer).number < q.number
        BY <1>1, <4>2, <4>3 DEF UpTo
      <4> QED
        BY <1>2, <4>4, <4>5, ChainAssumption DEF Block
    <3>2. Ascends(buffer') /\ Elements(buffer') \subseteq Elements(buffer) \cup {q}
      BY <2>1, <2>3, <3>1, PushAscends
    <3>3. UpTo(buffer', q)
      BY <1>1, <3>2 DEF UpTo
    <3> QED
      BY <2>1, <3>2, <3>3 DEF CallOf
  <2> QED
    BY <2>2, <2>3
<1>4. CASE DetectReorg
    BY <1>0, <1>1, <1>4 DEF DetectReorg, CallOf
<1>5. CASE Discard
  <2>1. Ascends(buffer') /\ Elements(buffer') \subseteq Elements(buffer)
    BY <1>5, PopBackAscends DEF Discard
  <2>2. UpTo(buffer', q)
    BY <1>1, <2>1 DEF UpTo
  <2>3. step = "search" /\ ~Canonical(q) /\ UNCHANGED <<step, checked, verdict>>
    BY <1>5 DEF Discard, CallOf
  <2>4. CallOf(q)'
    BY <1>0, <1>1, <2>2, <2>3 DEF CallOf
  <2> QED
    BY <2>1, <2>4
<1>6. CASE FindAncestor
  <2>1. /\ buffer # <<>> /\ Canonical(Back(buffer)) /\ ~Canonical(q) /\ step' = "confirm"
        /\ UNCHANGED <<buffer, checked, verdict>>
    BY <1>6 DEF FindAncestor, CallOf
  <2>2. Back(buffer).number < q.number
    BY <1>1, <2>1, BackIsHighest DEF UpTo
  <2> QED
    BY <1>0, <1>1, <2>1, <2>2 DEF CallOf
<1>7. CASE Confirm
  <2>1. step = "confirm" /\ step' = "done" /\ ~Canonical(q) /\ Back(buffer).number < q.number
    BY <1>7 DEF Confirm, Return, CallOf
  <2>2. CASE finalized <= Back(buffer).number
    BY <1>7, <2>1, <2>2 DEF Confirm, Return, CallOf
  <2>3. CASE ~(finalized <= Back(buffer).number)
    <3>1. /\ verdict' = BlockAt(finalized) /\ buffer' = <<>> /\ BlockAt(finalized).number = finalized
      BY <1>7, <2>3 DEF Confirm, Return, BlockAt
    <3>2. finalized < q.number
      BY <1>2, <2>1 DEF Unfinal
    <3>3. Elements(buffer') = {} /\ Ascends(buffer') /\ UpTo(buffer', q)
      BY <3>1, EmptySeq DEF Elements, Ascends, UpTo
    <3>4. verdict'.number < q.number
      BY <3>1, <3>2
    <3> QED
      BY <2>1, <3>1, <3>3, <3>4 DEF CallOf
  <2> QED
    BY <2>2, <2>3
<1>8. CASE FallBack
  <2>1. /\ step = "search" /\ step' = "done" /\ ~Canonical(q) /\ buffer = <<>> /\ buffer' = buffer
        /\ verdict' = BlockAt(finalized) /\ BlockAt(finalized).number = finalized
    BY <1>8 DEF FallBack, Return, CallOf, BlockAt
  <2>2. finalized < q.number
    BY <1>2, <2>1 DEF Unfinal
  <2> QED
    BY <2>1, <2>2 DEF CallOf
<1>9. CASE CheckFails
    BY <1>1, <1>9 DEF CheckFails, CallOf
<1> QED
    BY <1>3, <1>4, <1>5, <1>6, <1>7, <1>8, <1>9 DEF CheckStep

\* What a call answers with, and the moments at which it has seen a block to
\* be canonical.
LEMMA CheckStepAnswers ==
    ASSUME ChainTypeOK, HandlerInv, Timely, CheckStep, verdict = NoBlock
    PROVE  /\ checked' \in {checked, NoBlock}
           /\ verdict' # NoBlock =>
                \/ verdict' = Back(buffer) /\ step = "confirm" /\ buffer # <<>>
                \/ /\ Known(verdict') /\ Unfinal(verdict') /\ Canonical(verdict')
                   /\ verdict'.number = finalized
           /\ step' = "done" /\ verdict' = NoBlock => Canonical(checked)
           /\ step' = "confirm" => Canonical(Back(buffer')) /\ buffer # <<>>
           /\ step' \in {"detect", "search", "confirm", "done", "failed"}
           /\ step' # "detect"
<1> USE DEF HandlerInv, HandlerTypeOK
<1>1. /\ BlockAt(finalized) \in Block /\ Canonical(BlockAt(finalized))
      /\ Known(BlockAt(finalized)) /\ Unfinal(BlockAt(finalized))
      /\ BlockAt(finalized).number = finalized
    BY CanonicalBlocks DEF ChainTypeOK
<1>2. BlockAt(finalized) # NoBlock
    BY <1>1, NoBlockIsNone
<1>3. CASE DetectCanonical
    BY <1>3 DEF DetectCanonical, Return
<1>4. CASE DetectReorg \/ Discard \/ CheckFails
    BY <1>4 DEF DetectReorg, Discard, CheckFails
<1>5. CASE FindAncestor
    BY <1>5 DEF FindAncestor
<1>6. CASE Confirm
  <2>1. buffer # <<>> /\ Back(buffer) # NoBlock
    BY <1>6, PopBackTypes, NoBlockIsNone DEF Confirm
  <2> QED
    BY <1>1, <1>2, <1>6, <2>1 DEF Confirm, Return
<1>7. CASE FallBack
    BY <1>1, <1>2, <1>7 DEF FallBack, Return
<1> QED
    BY <1>3, <1>4, <1>5, <1>6, <1>7 DEF CheckStep
=============================================================================
