---------------------------- MODULE Sync_proofs ----------------------------
(***************************************************************************)
(* The live stream, of its own and as the end of sync, for every chain,    *)
(* every capacity of the memory and of the subscription, every depth of    *)
(* confirmation and every batch size.                                      *)
(*                                                                         *)
(* The first part says that the variables of the live stream keep their    *)
(* types, that no block is sent before it is confirmed whatever reorgs did *)
(* to the range that is being streamed, and that the stream does not end   *)
(* in silence.  BatchConfirmed speaks of the header that is being          *)
(* processed, and a range is cut into batches over many steps: the         *)
(* inductive invariant carries that the end of the range is the confirmed  *)
(* block of that very header until the call returns (RangeOfHeader).  What *)
(* the steps of the call itself keep comes first: RangeInv says that the   *)
(* counters of the range iterator agree with the blocks that are left, so  *)
(* that every batch is non-empty, short enough and inside the range asked  *)
(* for, also after a reorg reset the iterator.                             *)
(*                                                                         *)
(* The second part is what the consumer may rely on: the ranges meet one   *)
(* another, a ReorgDetected names a block below everything replaced that   *)
(* is held, what the scanner remembers is what the consumer holds, and all *)
(* of it is the promise of RollbackStream.  The inductive invariant        *)
(* SafeInv joins what the code keeps in six places.  Control says which    *)
(* calls are in progress where the task stands; Position that the          *)
(* consumer's blocks end where prev, the batch or the iterator say, over   *)
(* whatever it held before the stream; Call that the check in progress is  *)
(* about the block just sent; Memory that the ring buffer ascends and      *)
(* holds only what the consumer holds; Finality that nothing in hand that  *)
(* was replaced is final; and Tips that a block which stood when it was    *)
(* last looked at still does, or a header is waiting.  Alone adds that     *)
(* a live stream of its own found the consumer with nothing, and Settled   *)
(* what is true while the chain only reorganises between two headers.  All *)
(* of it assumes FinalityWaits: the finalized block does not overtake a    *)
(* replaced block that the scanner still has in hand.                      *)
(*                                                                         *)
(* The third part is sync: SyncInv says that every round begins where the  *)
(* rounds before it ended, and where the one under way stands.  With it,   *)
(* SafeInv holds from the first round on, and the live stream takes over   *)
(* exactly where the last round ended.                                     *)
(***************************************************************************)
EXTENDS Sync, BlockLemmas

-----------------------------------------------------------------------------
(* stream_range_with_reorg_handling. *)

\* The batch lies in the range asked for.
BatchFits ==
    /\ batch.lo <= batch.hi
    /\ batch.hi - batch.lo < MaxBlockRange
    /\ batch.hi <= it.end

\* The iterator has as many batches left as the blocks left need.
IteratorInv ==
    /\ it.end <= MaxHeight
    /\ it.current <= MaxHeight + 1
    /\ it.range_size = MaxBlockRange
    /\ it.total_batches - it.batch_count =
            IF it.current > it.end THEN 0 ELSE BatchesFor(it.end - it.current, it.range_size)

RangeInv ==
    /\ RangeTypeOK
    /\ IteratorInv
    /\ stage = "send" => BatchFits

-----------------------------------------------------------------------------

\* The constants are numbers.
LEMMA Numbers ==
    /\ MaxHeight \in Nat /\ MaxU64 \in Nat /\ MaxHeight + 1 < MaxU64
    /\ MaxBlockRange \in Nat \ {0} /\ MaxBlockRange \in BlockNumber
BY ChainAssumption, MaxU64Assumption, MaxBlockRangeAssumption DEF BlockNumber

\* The fields of an iterator are numbers.
LEMMA FieldTypes ==
    ASSUME it \in Iterator
    PROVE  /\ it.current \in Nat /\ it.end \in Nat /\ it.range_size \in Nat \ {0}
           /\ it.batch_count \in Nat /\ it.total_batches \in Nat
BY MaxU64Assumption DEF Iterator, BlockNumber

\* The iterator of a new call (common.rs:410).
LEMMA ForwardIterator ==
    ASSUME NEW s \in 0 .. MaxHeight + 1, NEW e \in 0 .. MaxHeight
    PROVE  LET i == Forward(s, e, MaxBlockRange) IN
           /\ i \in Iterator
           /\ i.end = e /\ i.current = s /\ i.range_size = MaxBlockRange
           /\ i.batch_count = 0
           /\ i.total_batches = IF s > e THEN 0 ELSE BatchesFor(e - s, MaxBlockRange)
<1>1. s \in Nat /\ e \in Nat /\ s \in BlockNumber /\ e \in BlockNumber
    BY Numbers DEF BlockNumber
<1>2. s <= e => BatchesFor(e - s, MaxBlockRange) \in Nat
    BY <1>1, Numbers, BatchesForFew
<1> QED
    BY <1>1, <1>2, Numbers DEF Forward, Iterator

\* The caller starts a call.
LEMMA StreamRangeInv ==
    ASSUME RangeInv,
           NEW a \in 0 .. MaxHeight, NEW s \in 0 .. MaxHeight + 1, NEW e \in 0 .. MaxHeight,
           StreamRange(a, s, e)
    PROVE  RangeInv' /\ it'.end = e
<1>1. /\ stage' = "fetch" /\ minAncestor' = a /\ it' = Forward(s, e, MaxBlockRange)
      /\ lastEnd' = NoBlock /\ batch' = batch /\ batchEnd' = batchEnd
    BY DEF StreamRange
<1>2. /\ it' \in Iterator /\ it'.end = e /\ it'.current = s
      /\ it'.range_size = MaxBlockRange /\ it'.batch_count = 0
      /\ it'.total_batches = IF s > e THEN 0 ELSE BatchesFor(e - s, MaxBlockRange)
    BY <1>1, ForwardIterator
<1>3. IteratorInv'
  <2>1. s \in Nat /\ e \in Nat /\ s <= MaxHeight + 1 /\ e <= MaxHeight
    BY Numbers
  <2>2. s <= e => BatchesFor(e - s, MaxBlockRange) \in Nat
    BY <2>1, Numbers, BatchesForFew
  <2> QED
    BY <1>2, <2>1, <2>2 DEF IteratorInv
<1> QED
    BY <1>1, <1>2, <1>3 DEF RangeInv, RangeTypeOK, OptionalBlock

\* The caller takes the result.
LEMMA RangeTakenInv == ASSUME RangeInv, RangeTaken PROVE RangeInv'
<1>1. /\ stage' = "idle" /\ minAncestor' = 0 /\ it' = NoRange /\ batch' = NoBatch
      /\ batchEnd' = NoBlock /\ lastEnd' = NoBlock
    BY DEF RangeTaken
<1>2. /\ it' \in Iterator /\ it'.end = 0 /\ it'.current = 1
      /\ it'.range_size = MaxBlockRange /\ it'.batch_count = 0 /\ it'.total_batches = 0
    BY <1>1, Numbers, ForwardIterator DEF NoRange
<1>3. IteratorInv'
    BY <1>2, Numbers DEF IteratorInv
<1>4. batch' \in [lo : BlockNumber, hi : BlockNumber]
    BY <1>1, MaxU64Assumption DEF NoBatch, BlockNumber
<1> QED
    BY <1>1, <1>2, <1>3, <1>4, Numbers DEF RangeInv, RangeTypeOK, OptionalBlock

\* Before the first call.
LEMMA RangeInitInv == RangeInit => RangeInv
<1> SUFFICES ASSUME RangeInit PROVE RangeInv
    OBVIOUS
<1>1. /\ stage = "idle" /\ minAncestor = 0 /\ it = NoRange /\ batch = NoBatch
      /\ batchEnd = NoBlock /\ lastEnd = NoBlock
    BY DEF RangeInit
<1>2. /\ it \in Iterator /\ it.end = 0 /\ it.current = 1
      /\ it.range_size = MaxBlockRange /\ it.batch_count = 0 /\ it.total_batches = 0
    BY <1>1, Numbers, ForwardIterator DEF NoRange
<1>3. IteratorInv
    BY <1>2, Numbers DEF IteratorInv
<1>4. batch \in [lo : BlockNumber, hi : BlockNumber]
    BY <1>1, MaxU64Assumption DEF NoBatch, BlockNumber
<1> QED
    BY <1>1, <1>2, <1>3, <1>4, Numbers DEF RangeInv, RangeTypeOK, OptionalBlock

-----------------------------------------------------------------------------

\* next() has a batch only while blocks are left.
LEMMA HasNextBlocks ==
    ASSUME it \in Iterator, IteratorInv, HasNext(it)
    PROVE  it.current <= it.end
BY FieldTypes DEF IteratorInv, HasNext

\* The next batch and its last block (common.rs:412-426).
LEMMA FetchBatchEndInv ==
    ASSUME ChainTypeOK, RangeInv, FetchBatchEnd
    PROVE  RangeInv' /\ it'.end = it.end
<1> DEFINE b == ForwardBatch(it)
<1>1. /\ HasNext(it) /\ b.hi <= Height /\ batch' = b /\ it' = ForwardAdvance(it)
      /\ batchEnd' = BlockAt(b.hi) /\ stage' = "send"
      /\ minAncestor' = minAncestor /\ lastEnd' = lastEnd
    BY DEF FetchBatchEnd
<1>2. it \in Iterator /\ IteratorInv
    BY DEF RangeInv, RangeTypeOK
<1>3. /\ it.current \in Nat /\ it.end \in Nat /\ it.range_size \in Nat \ {0}
      /\ it.batch_count \in Nat /\ it.total_batches \in Nat
      /\ it.end <= MaxHeight /\ it.range_size = MaxBlockRange
    BY <1>2, FieldTypes DEF IteratorInv
<1>4. it.current <= it.end
    BY <1>1, <1>2, HasNextBlocks
<1>5. /\ b \in [lo : BlockNumber, hi : BlockNumber] /\ b.lo = it.current
      /\ it.current <= b.hi /\ b.hi <= it.end /\ b.hi - it.current < it.range_size
      /\ b.hi = it.end \/ b.hi = it.current + it.range_size - 1
      /\ it.end - it.current < it.range_size => b.hi = it.end
    BY <1>2, <1>4, ForwardBatchBounds
<1>6. b.hi \in Nat
    BY <1>5 DEF BlockNumber
<1>7. /\ it' \in Iterator
      /\ it'.current = b.hi + 1 /\ it'.batch_count = it.batch_count + 1
      /\ it'.end = it.end /\ it'.range_size = it.range_size
      /\ it'.total_batches = it.total_batches
  <2>1. b.hi + 1 \in BlockNumber
    BY <1>3, <1>5, <1>6, Numbers DEF BlockNumber
  <2> QED
    BY <1>1, <1>2, <2>1, ForwardAdvanceFields
<1>8. batchEnd' \in Block
  <2>1. Height \in Nat
    BY LenProperties DEF ChainTypeOK, Height
  <2>2. b.hi \in 0 .. Height
    BY <1>1, <1>6, <2>1
  <2> QED
    BY <1>1, <2>2, BlockAtType
<1> HIDE DEF b
<1>9. it'.total_batches - it'.batch_count =
          IF it'.current > it'.end THEN 0 ELSE BatchesFor(it'.end - it'.current, it'.range_size)
  <2>1. /\ it.total_batches - it.batch_count = BatchesFor(it.end - it.current, it.range_size)
        /\ it.end - it.current \in Nat
    BY <1>2, <1>3, <1>4 DEF IteratorInv
  <2>2. BatchesFor(it.end - it.current, it.range_size) \in Nat
    BY <1>3, <2>1, BatchesForFew
  <2>3. CASE it.end - it.current < it.range_size
    <3>1. BatchesFor(it.end - it.current, it.range_size) = 1
      BY <1>3, <2>1, <2>3, BatchesForFew
    <3> QED
      BY <1>3, <1>5, <1>7, <2>1, <2>3, <3>1
  <2>4. CASE it.end - it.current >= it.range_size
    <3>1. BatchesFor(it.end - it.current - it.range_size, it.range_size)
            = BatchesFor(it.end - it.current, it.range_size) - 1
      BY <1>3, <2>1, <2>4, BatchesForMany
    <3>2. CASE b.hi = it.current + it.range_size - 1
      <4>1. it'.end - it'.current = it.end - it.current - it.range_size
        BY <1>3, <1>7, <3>2
      <4>2. ~(it'.current > it'.end)
        BY <1>3, <1>7, <2>4, <3>2
      <4> QED
        BY <1>3, <1>7, <2>1, <2>2, <3>1, <4>1, <4>2
    <3>3. CASE b.hi = it.end /\ b.hi # it.current + it.range_size - 1
      BY <1>3, <1>5, <1>6, <2>4, <3>3
    <3> QED
      BY <1>5, <3>2, <3>3
  <2> QED
    BY <1>3, <2>3, <2>4
<1>10. IteratorInv'
    BY <1>3, <1>5, <1>6, <1>7, <1>9, Numbers DEF IteratorInv
<1>11. BatchFits'
    BY <1>1, <1>3, <1>5, <1>6, <1>7 DEF BatchFits
<1> QED
    BY <1>1, <1>5, <1>7, <1>8, <1>10, <1>11 DEF RangeInv, RangeTypeOK, OptionalBlock

\* A reorg resets the iterator (common.rs:440-455).
LEMMA NotifyReorgInv ==
    ASSUME HandlerInv, RangeInv, NotifyReorg
    PROVE  RangeInv' /\ it'.end = it.end
<1> DEFINE block == Greatest(verdict.number + 1, minAncestor)
<1>1. /\ verdict # NoBlock /\ it' = ResetTo(it, block) /\ lastEnd' = batchEnd /\ stage' = "fetch"
      /\ minAncestor' = minAncestor /\ batch' = batch /\ batchEnd' = batchEnd
    BY DEF NotifyReorg
<1>2. it \in Iterator /\ IteratorInv
    BY DEF RangeInv, RangeTypeOK
<1>3. /\ it.current \in Nat /\ it.end \in Nat /\ it.range_size \in Nat \ {0}
      /\ it.batch_count \in Nat /\ it.total_batches \in Nat
      /\ it.end <= MaxHeight /\ it.range_size = MaxBlockRange
    BY <1>2, FieldTypes DEF IteratorInv
<1>4. block \in 0 .. MaxHeight + 1
  <2>1. verdict \in Block
    BY <1>1 DEF HandlerInv, HandlerTypeOK, OptionalBlock
  <2>2. verdict.number \in 0 .. MaxHeight
    BY <2>1 DEF Block
  <2>3. minAncestor \in 0 .. MaxHeight
    BY DEF RangeInv, RangeTypeOK
  <2> QED
    BY <2>2, <2>3, Numbers DEF Greatest
<1> HIDE DEF block
<1>5. block \in Nat /\ block <= MaxHeight + 1 /\ block \in BlockNumber
    BY <1>4, Numbers DEF BlockNumber
<1>6. block <= it.end => BatchesFor(it.end - block, it.range_size) \in Nat
    BY <1>3, <1>5, BatchesForFew
<1>7. /\ it' \in Iterator
      /\ it'.current = block /\ it'.end = it.end /\ it'.range_size = it.range_size
      /\ it'.batch_count = it.batch_count
      /\ it'.total_batches = IF block > it.end THEN it.batch_count
                             ELSE it.batch_count + BatchesFor(it.end - block, it.range_size)
    BY <1>1, <1>2, <1>5, <1>6, ResetToFields
<1>8. IteratorInv'
    BY <1>3, <1>5, <1>6, <1>7 DEF IteratorInv
<1> QED
    BY <1>1, <1>7, <1>8 DEF RangeInv, RangeTypeOK

\* What every step of a call keeps, and that the end of the range is fixed.
LEMMA RangeStepInv ==
    ASSUME ChainTypeOK, HandlerInv, ListenerTypeOK, RangeInv, RangeStep
    PROVE  HandlerInv' /\ ListenerTypeOK' /\ RangeInv' /\ it'.end = it.end
<1>0. (/\ UNCHANGED <<it, minAncestor, batch, batchEnd, lastEnd>>
       /\ stage' \in {"fetch", "check", "done", "none"})
      => RangeInv' /\ it'.end = it.end
    BY DEF RangeInv, RangeTypeOK, IteratorInv
<1>1. UNCHANGED handlerVars => HandlerInv'
    BY DEF handlerVars, HandlerInv, HandlerTypeOK, WithinCapacity
<1>2. UNCHANGED listenerVars => ListenerTypeOK'
    BY DEF listenerVars, ListenerTypeOK
<1>3. CASE FetchBatchEnd
    BY <1>1, <1>2, <1>3, FetchBatchEndInv DEF FetchBatchEnd
<1>4. CASE FetchFails
    BY <1>0, <1>1, <1>4 DEF FetchFails, ReportError, ListenerTypeOK
<1>5. CASE SendBatch
  <2>1. /\ Deliver(batch) /\ Check(batchEnd) /\ stage' = "check" /\ BatchFits
        /\ UNCHANGED <<minAncestor, it, batch, batchEnd, lastEnd>>
    BY <1>5 DEF SendBatch, RangeInv
  <2>2. HandlerInv'
    BY <2>1, CheckInv DEF RangeInv, RangeTypeOK
  <2>3. ListenerTypeOK'
    <3>1. Blocks(batch) \subseteq 0 .. MaxHeight
      <4>1. batch.lo \in Nat /\ batch.hi \in Nat
        BY Numbers DEF RangeInv, RangeTypeOK, BlockNumber
      <4>2. batch.hi <= MaxHeight
        BY <2>1, <4>1, Numbers, FieldTypes
        DEF BatchFits, RangeInv, RangeTypeOK, IteratorInv
      <4> QED
        BY <4>1, <4>2, Numbers DEF Blocks
    <3> QED
      BY <2>1, <3>1 DEF Deliver, ListenerTypeOK
  <2> QED
    BY <1>0, <2>1, <2>2, <2>3
<1>6. CASE BatchStands
  <2>1. HandlerInv' /\ ListenerTypeOK'
    BY <1>2, <1>6, AnsweredInv DEF BatchStands
  <2>2. RangeInv' /\ it'.end = it.end
    BY <1>6 DEF BatchStands, RangeInv, RangeTypeOK, IteratorInv
  <2> QED
    BY <2>1, <2>2
<1>7. CASE NotifyReorg
  <2>1. HandlerInv'
    BY <1>7, AnsweredInv DEF NotifyReorg
  <2>2. ListenerTypeOK'
    BY <1>7 DEF NotifyReorg, Rollback, ListenerTypeOK
  <2> QED
    BY <1>7, <2>1, <2>2, NotifyReorgInv
<1>8. CASE BatchCheckFails
    BY <1>0, <1>1, <1>8 DEF BatchCheckFails, ReportError, ListenerTypeOK
<1>9. CASE SendFindsClosed
    BY <1>0, <1>1, <1>2, <1>9 DEF SendFindsClosed
<1>10. CASE RangeDone
    BY <1>0, <1>1, <1>2, <1>10 DEF RangeDone
<1> QED
    BY <1>3, <1>4, <1>5, <1>6, <1>7, <1>8, <1>9, <1>10 DEF RangeStep

-----------------------------------------------------------------------------
(* The live stream. *)

\* A call is in progress only while the task waits for it, and its range ends
\* with the block that the header in hand confirms.
RangeOfHeader ==
    /\ stage \in {"fetch", "send", "check", "done"} => pc \in {"initial", "range", "stopped"}
    /\ stage \in {"fetch", "send", "check", "done"} => it.end = Confirmed(incoming)

\* The inductive invariant.
IInv ==
    /\ ChainTypeOK
    /\ HandlerInv
    /\ ListenerTypeOK
    /\ RangeInv
    /\ SubscriptionTypeOK
    /\ LiveTypeOK
    /\ RangeOfHeader

-----------------------------------------------------------------------------

\* The confirmed block of a header is a block before it (common.rs:184, 281).
LEMMA ConfirmedTypes ==
    ASSUME NEW m \in Nat, NEW number \in 0 .. m
    PROVE  Confirmed(number) \in 0 .. m
BY LiveAssumption DEF Confirmed, SaturatingSub

\* min_common_ancestor is a block number (common.rs:187, 363).
LEMMA MinAncestorTypes ==
    ASSUME start \in 0 .. MaxHeight + 1
    PROVE  SaturatingSub(start, 1) \in 0 .. MaxHeight
BY Numbers DEF SaturatingSub

\* A header is published to the subscription.
LEMMA PublishTypes ==
    ASSUME SubscriptionTypeOK, raced' \in BOOLEAN, ended' = ended,
           NEW number \in 1 .. MaxHeight, Publish(number)
    PROVE  SubscriptionTypeOK'
<1>1. /\ headers \in Seq(1 .. MaxHeight) /\ Len(headers) \in Nat
      /\ Len(headers) <= SubscriptionBuffer /\ SubscriptionBuffer \in Nat \ {0}
      /\ lagged \in BOOLEAN
    BY LiveAssumption, LenProperties DEF SubscriptionTypeOK
<1>2. announced' \in BOOLEAN
    BY DEF Publish, Subscribed
<1>3. CASE ~Subscribed
    BY <1>2, <1>3 DEF Publish, SubscriptionTypeOK
<1>4. CASE Subscribed /\ Len(headers) = SubscriptionBuffer
  <2>1. headers' = Append(Tail(headers), number) /\ lagged' = TRUE
    BY <1>4 DEF Publish
  <2>2. headers # <<>>
    BY <1>1, <1>4
  <2>3. Tail(headers) \in Seq(1 .. MaxHeight) /\ Len(Tail(headers)) = Len(headers) - 1
    BY <1>1, <2>2, HeadTailProperties
  <2>4. /\ Append(Tail(headers), number) \in Seq(1 .. MaxHeight)
        /\ Len(Append(Tail(headers), number)) = Len(Tail(headers)) + 1
    BY <2>3
  <2> QED
    BY <1>1, <1>2, <2>1, <2>3, <2>4 DEF SubscriptionTypeOK
<1>5. CASE Subscribed /\ Len(headers) # SubscriptionBuffer
  <2>1. headers' = Append(headers, number) /\ lagged' = lagged
    BY <1>1, <1>5 DEF Publish
  <2>2. /\ Append(headers, number) \in Seq(1 .. MaxHeight)
        /\ Len(Append(headers, number)) = Len(headers) + 1
    BY <1>1
  <2> QED
    BY <1>1, <1>2, <1>5, <2>1, <2>2 DEF SubscriptionTypeOK
<1> QED
    BY <1>3, <1>4, <1>5

\* And taken from it.
LEMMA TakeHeaderTypes ==
    ASSUME SubscriptionTypeOK, TakeHeader
    PROVE  SubscriptionTypeOK' /\ Head(headers) \in 1 .. MaxHeight
<1>1. /\ Head(headers) \in 1 .. MaxHeight
      /\ Tail(headers) \in Seq(1 .. MaxHeight) /\ Len(Tail(headers)) = Len(headers) - 1
    BY HeadTailProperties DEF SubscriptionTypeOK, TakeHeader
<1>2. Len(headers) \in Nat /\ SubscriptionBuffer \in Nat
    BY LiveAssumption, LenProperties DEF SubscriptionTypeOK
<1> QED
    BY <1>1, <1>2 DEF SubscriptionTypeOK, TakeHeader

-----------------------------------------------------------------------------

\* Every variable that a step leaves alone keeps its part of the invariant.
LEMMA Frames ==
    ASSUME IInv
    PROVE  /\ UNCHANGED chainVars => ChainTypeOK'
           /\ UNCHANGED handlerVars => HandlerInv'
           /\ UNCHANGED listenerVars => ListenerTypeOK'
           /\ ReportError => ListenerTypeOK'
           /\ UNCHANGED rangeVars => RangeInv'
           /\ UNCHANGED subscriptionVars => SubscriptionTypeOK'
           /\ UNCHANGED liveVars => LiveTypeOK'
           /\ UNCHANGED <<rangeVars, pc, incoming>> => RangeOfHeader'
           /\ Stop => LiveTypeOK'
           /\ Stop /\ UNCHANGED rangeVars => RangeOfHeader'
<1>1. UNCHANGED chainVars => ChainTypeOK'
    BY DEF IInv, chainVars, ChainTypeOK, Height
<1>2. UNCHANGED handlerVars => HandlerInv'
    BY DEF IInv, handlerVars, HandlerInv, HandlerTypeOK, WithinCapacity
<1>3. UNCHANGED listenerVars => ListenerTypeOK'
    BY DEF IInv, listenerVars, ListenerTypeOK
<1>4. ReportError => ListenerTypeOK'
    BY DEF IInv, ReportError, ListenerTypeOK
<1>5. UNCHANGED rangeVars => RangeInv'
    BY DEF IInv, rangeVars, RangeInv, RangeTypeOK, IteratorInv, BatchFits
<1>6. UNCHANGED subscriptionVars => SubscriptionTypeOK'
    BY DEF IInv, subscriptionVars, SubscriptionTypeOK
<1>7. UNCHANGED liveVars => LiveTypeOK'
    BY DEF IInv, liveVars, LiveTypeOK
<1>8. UNCHANGED <<rangeVars, pc, incoming>> => RangeOfHeader'
    BY DEF IInv, rangeVars, RangeOfHeader, Confirmed
<1>9. Stop => LiveTypeOK'
    BY DEF IInv, Stop, LiveTypeOK
<1>10. Stop /\ UNCHANGED rangeVars => RangeOfHeader'
    BY DEF IInv, Stop, rangeVars, RangeOfHeader, Confirmed
<1> QED
    BY <1>1, <1>2, <1>3, <1>4, <1>5, <1>6, <1>7, <1>8, <1>9, <1>10

\* The chain, its headers and the receiver (external).
LEMMA EnvironmentInv == ASSUME IInv, Environment PROVE IInv'
<1>0. /\ MaxHeight \in Nat /\ Height \in Nat
    BY Numbers, LenProperties DEF IInv, ChainTypeOK, Height
<1>1. CASE NodeMines
  <2>1. /\ Mine /\ Publish(Height + 1)
        /\ UNCHANGED <<handlerVars, listenerVars, rangeVars, liveVars>>
    BY <1>1 DEF NodeMines
  <2>2. ChainTypeOK'
    BY <2>1, MineTypes DEF IInv
  <2>3. SubscriptionTypeOK'
    <3>1. Height + 1 \in 1 .. MaxHeight
      BY <1>0, <2>1 DEF Mine
    <3>2. raced' \in BOOLEAN
      BY <1>1 DEF NodeMines, IInv, SubscriptionTypeOK
    <3>3. ended' = ended
      BY <1>1 DEF NodeMines
    <3> QED
      BY <2>1, <3>1, <3>2, <3>3, PublishTypes DEF IInv
  <2> QED
    BY <2>1, <2>2, <2>3, Frames DEF IInv, liveVars
<1>2. CASE \E fork, tip \in 0 .. MaxHeight : NodeReorgs(fork, tip)
  <2>1. PICK fork \in 0 .. MaxHeight, tip \in 0 .. MaxHeight : NodeReorgs(fork, tip)
    BY <1>2
  <2>2. /\ Reorg(fork, tip) /\ Orphan(fork) /\ Publish(tip)
        /\ UNCHANGED <<handlerVars, rangeVars, liveVars>>
    BY <2>1 DEF NodeReorgs
  <2>3. ChainTypeOK' /\ tip \in 1 .. MaxHeight
    BY <2>2, ReorgTypes DEF IInv
  <2>4. SubscriptionTypeOK'
    <3>1. raced' \in BOOLEAN
      BY <2>1 DEF NodeReorgs, AtRest, IInv, SubscriptionTypeOK
    <3>2. ended' = ended
      BY <2>1 DEF NodeReorgs
    <3> QED
      BY <2>2, <2>3, <3>1, <3>2, PublishTypes DEF IInv
  <2>5. ListenerTypeOK'
    BY <2>2 DEF IInv, Orphan, ListenerTypeOK
  <2> QED
    BY <2>2, <2>3, <2>4, <2>5, Frames DEF IInv, liveVars
<1>3. CASE \E n \in 1 .. MaxHeight : NodeFinalizes(n)
  <2>1. PICK n \in 1 .. MaxHeight : NodeFinalizes(n)
    BY <1>3
  <2>2. ChainTypeOK'
    BY <2>1, FinalizeTypes DEF NodeFinalizes, IInv
  <2>3. SubscriptionTypeOK'
    BY <2>1 DEF NodeFinalizes, IInv, SubscriptionTypeOK
  <2> QED
    BY <2>1, <2>2, <2>3, Frames DEF NodeFinalizes, IInv, liveVars
<1>4. CASE ReceiverDropped
  <2>1. ListenerTypeOK'
    BY <1>4 DEF ReceiverDropped, DropReceiver, ListenerTypeOK, IInv
  <2> QED
    BY <1>4, <2>1, Frames DEF ReceiverDropped, IInv, liveVars
<1> QED
    BY <1>1, <1>2, <1>3, <1>4 DEF Environment

-----------------------------------------------------------------------------

\* A range call for the header in hand (common.rs:184-199, 357-374).
LEMMA StreamRangeOfHeader ==
    ASSUME IInv, NEW begin \in 0 .. MaxHeight + 1, NEW number \in 0 .. MaxHeight,
           StreamRange(SaturatingSub(start, 1), begin, Confirmed(number)),
           pc' \in {"initial", "range"}, incoming' = number
    PROVE  RangeInv' /\ RangeOfHeader'
<1>1. SaturatingSub(start, 1) \in 0 .. MaxHeight
    BY MinAncestorTypes DEF IInv, LiveTypeOK
<1>2. Confirmed(number) \in 0 .. MaxHeight
    BY Numbers, ConfirmedTypes
<1>3. RangeInv' /\ it'.end = Confirmed(number)
    BY <1>1, <1>2, StreamRangeInv DEF IInv
<1> QED
    BY <1>3 DEF RangeOfHeader, Confirmed

\* stream_live, the live-only branch of sync, and their subscription.
LEMMA StartInv ==
    ASSUME IInv,
           StreamLive \/ (\E block \in 1 .. MaxHeight : SyncLiveOnly(block)) \/ Subscribe
           \/ StartFails \/ SubscriptionEnds
    PROVE  IInv'
<1>1. CASE StreamLive
  <2>1. Confirmed(Height + 1) \in 0 .. MaxHeight + 1
    <3>1. MaxHeight + 1 \in Nat /\ Height + 1 \in 0 .. MaxHeight + 1
      BY Numbers, LenProperties DEF IInv, ChainTypeOK, Height
    <3> QED
      BY <3>1, ConfirmedTypes
  <2>2. LiveTypeOK'
    BY <1>1, <2>1 DEF StreamLive, IInv, LiveTypeOK
  <2>3. RangeOfHeader'
    BY <1>1 DEF StreamLive, IInv, RangeOfHeader, rangeVars, Confirmed
  <2> QED
    BY <1>1, <2>2, <2>3, Frames DEF StreamLive, IInv
<1>2. CASE \E block \in 1 .. MaxHeight : SyncLiveOnly(block)
  <2>1. PICK block \in 1 .. MaxHeight : SyncLiveOnly(block)
    BY <1>2
  <2>2. LiveTypeOK'
    BY <2>1, Numbers DEF SyncLiveOnly, IInv, LiveTypeOK
  <2>3. RangeOfHeader'
    BY <2>1 DEF SyncLiveOnly, IInv, RangeOfHeader, rangeVars, Confirmed
  <2> QED
    BY <2>1, <2>2, <2>3, Frames DEF SyncLiveOnly, IInv
<1>3. CASE Subscribe
  <2>1. LiveTypeOK' /\ RangeOfHeader'
    BY <1>3 DEF Subscribe, IInv, LiveTypeOK, RangeOfHeader, rangeVars, Confirmed
  <2> QED
    BY <1>3, <2>1, Frames DEF Subscribe, IInv
<1>4. CASE StartFails
    BY <1>4, Frames DEF StartFails, IInv
<1>5. CASE SubscriptionEnds
  <2>1. ListenerTypeOK'
    BY <1>5, Frames DEF SubscriptionEnds
  <2>2. SubscriptionTypeOK'
    BY <1>5 DEF SubscriptionEnds, IInv, SubscriptionTypeOK
  <2> QED
    BY <1>5, <2>1, <2>2, Frames DEF SubscriptionEnds, IInv
<1> QED
    BY <1>1, <1>2, <1>3, <1>4, <1>5

\* Taking headers, up to the call for the first range (common.rs:66-104).
LEMMA HeaderInv ==
    ASSUME IInv,
           IgnoreLag \/ SkipHeader \/ FirstHeader \/ SwitchToLive \/ ProcessHeader
           \/ IgnoreHeader
    PROVE  IInv'
<1>1. CASE IgnoreLag
  <2>1. SubscriptionTypeOK'
    BY <1>1 DEF IgnoreLag, IInv, SubscriptionTypeOK
  <2> QED
    BY <1>1, <2>1, Frames DEF IgnoreLag, IInv, liveVars
<1>2. CASE SkipHeader
    BY <1>2, TakeHeaderTypes, Frames DEF SkipHeader, IInv, liveVars
<1>3. CASE FirstHeader
  <2>1. SubscriptionTypeOK' /\ Head(headers) \in 1 .. MaxHeight
    BY <1>3, TakeHeaderTypes DEF FirstHeader, IInv
  <2>2. LiveTypeOK'
    BY <1>3, <2>1 DEF FirstHeader, InitialRange, IInv, LiveTypeOK
  <2>3. RangeInv' /\ RangeOfHeader'
    <3>1. CASE notify
      <4>1. pc = "first" /\ pc' = "switch" /\ UNCHANGED rangeVars
        BY <1>3, <3>1 DEF FirstHeader
      <4> QED
        BY <4>1, Frames DEF IInv, RangeOfHeader, rangeVars
    <3>2. CASE ~notify
      <4>1. /\ pc' = "initial" /\ incoming' = Head(headers)
            /\ StreamRange(SaturatingSub(start, 1), start, Confirmed(Head(headers)))
        BY <1>3, <3>2 DEF FirstHeader, InitialRange
      <4>2. start \in 0 .. MaxHeight + 1 /\ Head(headers) \in 0 .. MaxHeight
        BY <2>1, Numbers DEF IInv, LiveTypeOK
      <4> QED
        BY <4>1, <4>2, StreamRangeOfHeader
    <3> QED
      BY <3>1, <3>2
  <2> QED
    BY <1>3, <2>1, <2>2, <2>3, Frames DEF FirstHeader, IInv
<1>4. CASE SwitchToLive
  <2>1. /\ pc' = "initial" /\ incoming' = incoming
        /\ StreamRange(SaturatingSub(start, 1), start, Confirmed(incoming))
    BY <1>4 DEF SwitchToLive, InitialRange
  <2>2. start \in 0 .. MaxHeight + 1 /\ incoming \in 0 .. MaxHeight
    BY DEF IInv, LiveTypeOK
  <2>3. RangeInv' /\ RangeOfHeader'
    BY <2>1, <2>2, StreamRangeOfHeader
  <2>4. LiveTypeOK'
    BY <1>4, <2>1 DEF SwitchToLive, IInv, LiveTypeOK
  <2> QED
    BY <1>4, <2>3, <2>4, Frames DEF SwitchToLive, Announce, IInv
<1>5. CASE ProcessHeader
  <2>1. SubscriptionTypeOK' /\ Head(headers) \in 1 .. MaxHeight
    BY <1>5, TakeHeaderTypes DEF ProcessHeader, IInv
  <2>2. LiveTypeOK'
    BY <1>5, <2>1 DEF ProcessHeader, IInv, LiveTypeOK
  <2>3. HandlerInv'
    BY <1>5, CheckInv DEF ProcessHeader, IInv, LiveTypeOK
  <2>4. RangeOfHeader'
    BY <1>5 DEF ProcessHeader, IInv, RangeOfHeader, rangeVars
  <2> QED
    BY <1>5, <2>1, <2>2, <2>3, <2>4, Frames DEF ProcessHeader, IInv
<1>6. CASE IgnoreHeader
    BY <1>6, TakeHeaderTypes, Frames DEF IgnoreHeader, IInv, liveVars
<1> QED
    BY <1>1, <1>2, <1>3, <1>4, <1>5, <1>6

-----------------------------------------------------------------------------

\* stream_next_batch, which may have nothing to stream (common.rs:348-385).
LEMMA StreamNextBatchInv ==
    ASSUME IInv, pc = "check", NEW begin \in 0 .. MaxHeight + 1, StreamNextBatch(begin),
           notify' = notify, start' = start, prev' \in OptionalBlock
    PROVE  RangeInv' /\ RangeOfHeader' /\ LiveTypeOK'
<1>1. incoming \in 0 .. MaxHeight
    BY DEF IInv, LiveTypeOK
<1>2. CASE Confirmed(incoming) < begin
  <2>1. pc' = "wait" /\ incoming' = 0 /\ UNCHANGED rangeVars /\ batchStart' = begin
    BY <1>2 DEF StreamNextBatch
  <2>2. RangeInv'
    BY <2>1, Frames
  <2>3. RangeOfHeader'
    BY <2>1 DEF IInv, RangeOfHeader, rangeVars
  <2> QED
    BY <2>1, <2>2, <2>3, Numbers DEF IInv, LiveTypeOK
<1>3. CASE ~(Confirmed(incoming) < begin)
  <2>1. /\ pc' = "range" /\ incoming' = incoming /\ batchStart' = begin
        /\ StreamRange(SaturatingSub(start, 1), begin, Confirmed(incoming))
    BY <1>3 DEF StreamNextBatch
  <2>2. RangeInv' /\ RangeOfHeader'
    BY <1>1, <2>1, StreamRangeOfHeader
  <2> QED
    BY <2>1, <2>2 DEF IInv, LiveTypeOK
<1> QED
    BY <1>2, <1>3

\* One turn of the loop (common.rs:261-295).
LEMMA TurnInv ==
    ASSUME IInv, NoReorg \/ ReorgDetected \/ CheckOfPreviousFails
    PROVE  IInv'
<1>1. CASE NoReorg
  <2>1. prev.number + 1 \in 0 .. MaxHeight + 1
    BY Numbers DEF IInv, LiveTypeOK, OptionalBlock, Block, NoBlock
  <2>2. RangeInv' /\ RangeOfHeader' /\ LiveTypeOK'
    BY <1>1, <2>1, StreamNextBatchInv DEF NoReorg, IInv, LiveTypeOK
  <2>3. HandlerInv'
    BY <1>1, AnsweredInv DEF NoReorg, IInv
  <2> QED
    BY <1>1, <2>2, <2>3, Frames DEF NoReorg, IInv
<1>2. CASE ReorgDetected
  <2>1. verdict \in Block
    BY <1>2 DEF ReorgDetected, IInv, HandlerInv, HandlerTypeOK, OptionalBlock
  <2>2. verdict.number + 1 \in 0 .. MaxHeight + 1
    BY <2>1, Numbers DEF Block
  <2>3. RangeInv' /\ RangeOfHeader' /\ LiveTypeOK'
    <3>1. CASE verdict.number < start
      <4>1. prev' = NoBlock /\ StreamNextBatch(start)
        BY <1>2, <3>1 DEF ReorgDetected
      <4> QED
        BY <1>2, <4>1, StreamNextBatchInv DEF ReorgDetected, IInv, LiveTypeOK, OptionalBlock
    <3>2. CASE ~(verdict.number < start)
      <4>1. prev' = verdict /\ StreamNextBatch(verdict.number + 1)
        BY <1>2, <3>2 DEF ReorgDetected
      <4> QED
        BY <1>2, <2>1, <2>2, <4>1, StreamNextBatchInv DEF ReorgDetected, OptionalBlock
    <3> QED
      BY <3>1, <3>2
  <2>4. HandlerInv'
    BY <1>2, AnsweredInv DEF ReorgDetected, IInv
  <2>5. ListenerTypeOK'
    BY <1>2 DEF ReorgDetected, Rollback, ListenerTypeOK, IInv
  <2> QED
    BY <1>2, <2>3, <2>4, <2>5, Frames DEF ReorgDetected, IInv
<1>3. CASE CheckOfPreviousFails
    BY <1>3, Frames DEF CheckOfPreviousFails, IInv
<1> QED
    BY <1>1, <1>2, <1>3

\* A range call has returned (common.rs:199-204, 374-384).
LEMMA ReturnInv ==
    ASSUME IInv, InitialRangeDone \/ RangeStreamed \/ RangeGaveUp \/ NotifyFindsClosed
    PROVE  IInv'
<1>1. CASE InitialRangeDone
  <2>1. LiveTypeOK'
    BY <1>1, Numbers DEF InitialRangeDone, IInv, LiveTypeOK, RangeInv, RangeTypeOK
  <2>2. RangeInv' /\ RangeOfHeader'
    BY <1>1, RangeTakenInv DEF InitialRangeDone, IInv, RangeTaken, RangeOfHeader
  <2> QED
    BY <1>1, <2>1, <2>2, Frames DEF InitialRangeDone, IInv
<1>2. CASE RangeStreamed
  <2>1. Confirmed(incoming) + 1 \in 0 .. MaxHeight + 1
    <3>1. incoming \in 0 .. MaxHeight
      BY DEF IInv, LiveTypeOK
    <3>2. Confirmed(incoming) \in 0 .. MaxHeight
      BY <3>1, Numbers, ConfirmedTypes
    <3> QED
      BY <3>2, Numbers
  <2>2. LiveTypeOK'
    BY <1>2, <2>1, Numbers DEF RangeStreamed, IInv, LiveTypeOK, RangeInv, RangeTypeOK
  <2>3. RangeInv' /\ RangeOfHeader'
    BY <1>2, RangeTakenInv DEF RangeStreamed, IInv, RangeTaken, RangeOfHeader
  <2> QED
    BY <1>2, <2>2, <2>3, Frames DEF RangeStreamed, IInv
<1>3. CASE RangeGaveUp
    BY <1>3, Frames DEF RangeGaveUp, IInv
<1>4. CASE NotifyFindsClosed
    BY <1>4, Frames DEF NotifyFindsClosed, IInv
<1> QED
    BY <1>1, <1>2, <1>3, <1>4

\* The steps inside the two calls.
LEMMA CallInv == ASSUME IInv, Checking \/ Ranging PROVE IInv'
<1>1. CASE Checking
  <2>1. HandlerInv'
    BY <1>1, CheckStepInv DEF Checking, IInv
  <2> QED
    BY <1>1, <2>1, Frames DEF Checking, IInv, liveVars
<1>2. CASE Ranging
  <2>1. HandlerInv' /\ ListenerTypeOK' /\ RangeInv' /\ it'.end = it.end
    BY <1>2, RangeStepInv DEF Ranging, IInv
  <2>2. stage \in {"fetch", "send", "check"}
    BY <1>2 DEF Ranging, RangeStep, FetchBatchEnd, FetchFails, SendBatch, BatchStands,
                NotifyReorg, BatchCheckFails, SendFindsClosed, RangeDone
  <2>3. RangeOfHeader'
    BY <1>2, <2>1, <2>2 DEF Ranging, IInv, RangeOfHeader, liveVars, Confirmed
  <2> QED
    BY <1>2, <2>1, <2>3, Frames DEF Ranging, IInv
<1> QED
    BY <1>1, <1>2

-----------------------------------------------------------------------------

\* The invariant holds before anything is asked for.
LEMMA InitInv == ASSUME Init PROVE IInv
<1>1. ChainTypeOK
  BY ChainInitTypes DEF Init
<1>2. HandlerInv
  <2>1. <<>> \in Seq(Block) /\ WithinCapacity(<<>>)
    BY CapacityAssumption DEF WithinCapacity
  <2> QED
    BY <2>1 DEF Init, HandlerInit, HandlerInv, HandlerTypeOK, OptionalBlock
<1>3. ListenerTypeOK
  BY DEF Init, ListenerInit, ListenerTypeOK
<1>4. RangeInv
  BY RangeInitInv DEF Init
<1>5. SubscriptionTypeOK
  <2>1. <<>> \in Seq(1 .. MaxHeight) /\ Len(<<>>) = 0
    OBVIOUS
  <2>2. 0 <= SubscriptionBuffer
    BY LiveAssumption
  <2>3. /\ headers = <<>> /\ lagged = FALSE /\ announced = FALSE
        /\ ended = FALSE /\ raced = FALSE
    BY DEF Init
  <2> QED
    BY <2>1, <2>2, <2>3, Zenon DEF SubscriptionTypeOK
<1>6. LiveTypeOK
  <2>1. 0 \in 0 .. MaxHeight /\ 0 \in 0 .. MaxHeight + 1
    BY Numbers
  <2>2. /\ pc = "start" /\ notify = FALSE
        /\ start = 0 /\ batchStart = 0 /\ prev = NoBlock /\ incoming = 0
    BY DEF Init
  <2>3. prev \in OptionalBlock
    BY <2>2 DEF OptionalBlock
  <2> QED
    BY <2>1, <2>2, <2>3, Zenon DEF LiveTypeOK
<1>7. RangeOfHeader
  BY DEF Init, RangeInit, RangeOfHeader
<1> QED
  BY <1>1, <1>2, <1>3, <1>4, <1>5, <1>6, <1>7 DEF IInv

\* Every step of the streaming task and of what is around it keeps it.
LEMMA StepInv ==
    ASSUME IInv, Environment \/ Streaming \/ SubscriptionEnds
    PROVE  IInv'
<1>1. CASE Environment
    BY <1>1, EnvironmentInv
<1>2. CASE Streaming
    BY <1>2, HeaderInv, TurnInv, ReturnInv, CallInv DEF Streaming
<1>3. CASE SubscriptionEnds
    BY <1>3, StartInv
<1> QED
    BY <1>1, <1>2, <1>3

\* IInv is an invariant of the live stream.
THEOREM LiveInvariant == Spec => []IInv
<1>1. Init => IInv
    BY InitInv
<1>2. IInv /\ [Next]_vars => IInv'
  <2> SUFFICES ASSUME IInv, [Next]_vars PROVE IInv'
      OBVIOUS
  <2>1. CASE Starting
    BY <2>1, StartInv DEF Starting
  <2>2. CASE UNCHANGED vars
    BY <2>2, Frames DEF vars, IInv, liveVars
  <2> QED
    BY <2>1, <2>2, StepInv DEF Next, Working
<1> QED
    BY <1>1, <1>2, PTL DEF Spec

\* Every variable always has its type: the memory and the subscription never
\* outgrow their capacities, and the number of every block that is asked for,
\* sent or remembered is one the node can have.
THEOREM LiveTypes == Spec => []TypeOK
<1>1. IInv => TypeOK
    BY DEF IInv, TypeOK, HandlerInv, RangeInv
<1> QED
    BY <1>1, LiveInvariant, PTL

\* No block but genesis is sent before it has its confirmations, and batches
\* are never empty or longer than max_block_range, whatever reorgs did to the
\* iterator (common.rs:281-295, 411-450).
THEOREM LiveConfirmed == Spec => []BatchConfirmed
<1>1. IInv => BatchConfirmed
  <2> SUFFICES ASSUME IInv, stage = "send"
               PROVE  /\ batch.hi = 0 \/ batch.hi + Confirmations <= incoming
                      /\ batch.lo <= batch.hi
                      /\ batch.hi - batch.lo < MaxBlockRange
      BY DEF BatchConfirmed
  <2>1. BatchFits /\ it.end = Confirmed(incoming)
    BY DEF IInv, RangeInv, RangeOfHeader
  <2>2. batch.hi \in Nat /\ incoming \in Nat /\ Confirmations \in Nat
    BY Numbers, LiveAssumption DEF IInv, RangeInv, RangeTypeOK, LiveTypeOK, BlockNumber
  <2> QED
    BY <2>1, <2>2 DEF BatchFits, Confirmed, SaturatingSub
<1> QED
    BY <1>1, LiveInvariant, PTL

-----------------------------------------------------------------------------

\* A call that gave up, like the task that ended, told why or has no receiver,
\* unless the subscription is over.
Told == errored \/ ~open \/ ended

ReasonInv ==
    /\ stage = "none" => Told
    /\ pc = "stopped" => Told

\* An error stays delivered, a receiver dropped and a subscription over.
LEMMA ToldStays ==
    ASSUME Next, Told
    PROVE  Told'
<1>0. ended' = ended \/ ended' = TRUE
    BY DEF Next, Environment, NodeMines, NodeReorgs, NodeFinalizes, ReceiverDropped, Working,
           Starting, Streaming, StreamLive, SyncLiveOnly, Subscribe, StartFails, IgnoreLag,
           SkipHeader, FirstHeader, SwitchToLive, InitialRangeDone, ProcessHeader, IgnoreHeader,
           TakeHeader, NoReorg, ReorgDetected, CheckOfPreviousFails, RangeStreamed, RangeGaveUp,
           NotifyFindsClosed, Checking, Ranging, SubscriptionEnds, subscriptionVars
<1>1. UNCHANGED listenerVars => Told'
    BY <1>0 DEF listenerVars, Told
<1>2. ReportError => Told'
    BY DEF ReportError, Told
<1>3. \A n : Rollback(n) => Told'
    BY <1>0 DEF Rollback, Told
<1>4. Announce \/ SendBatch => Told'
    BY <1>0, <1>1 DEF Announce, SendBatch, Deliver, Told
<1>5. Environment => Told'
    BY <1>0, <1>1
    DEF Environment, NodeMines, NodeReorgs, Orphan, NodeFinalizes, ReceiverDropped,
                DropReceiver, Told
<1>6. RangeStep => Told'
    BY <1>1, <1>2, <1>3, <1>4
    DEF RangeStep, FetchBatchEnd, FetchFails, BatchStands, NotifyReorg, BatchCheckFails,
        SendFindsClosed, RangeDone
<1>7. Working \/ SubscriptionEnds => Told'
    BY <1>1, <1>2, <1>3, <1>4, <1>6
    DEF Working, Starting, Streaming, StreamLive, SyncLiveOnly, Subscribe, StartFails,
        IgnoreLag, SkipHeader, FirstHeader, SwitchToLive, InitialRangeDone, ProcessHeader,
        IgnoreHeader, NoReorg, ReorgDetected, CheckOfPreviousFails, RangeStreamed,
        RangeGaveUp, NotifyFindsClosed, Checking, Ranging, SubscriptionEnds
<1> QED
    BY <1>5, <1>7 DEF Next

\* A range call only gives up with an error or without a receiver
\* (common.rs:418-456).
LEMMA RangeGivesUpForAReason ==
    ASSUME ReasonInv, RangeStep
    PROVE  stage' = "none" => Told'
<1>1. ReportError => Told'
    BY DEF ReportError, Told
<1>2. stage # "none"
    BY DEF RangeStep, FetchBatchEnd, FetchFails, SendBatch, BatchStands, NotifyReorg,
           BatchCheckFails, SendFindsClosed, RangeDone
<1>3. CASE FetchFails \/ BatchCheckFails
    BY <1>1, <1>3 DEF FetchFails, BatchCheckFails
<1>4. CASE SendFindsClosed
    BY <1>4 DEF SendFindsClosed, listenerVars, Told
<1>5. CASE FetchBatchEnd \/ SendBatch \/ BatchStands \/ NotifyReorg \/ RangeDone
    BY <1>5 DEF FetchBatchEnd, SendBatch, BatchStands, NotifyReorg, RangeDone
<1> QED
    BY <1>3, <1>4, <1>5 DEF RangeStep

\* Nothing else but the task itself makes the call or the task give up.
LEMMA ReasonStep ==
    ASSUME ReasonInv, Next
    PROVE  ReasonInv'
<1>1. Told => ReasonInv'
    BY ToldStays DEF ReasonInv
<1>2. ASSUME ~Told
      PROVE  ReasonInv'
  <2>1. stage # "none" /\ pc # "stopped"
    BY <1>2 DEF ReasonInv
  <2>2. ReportError => Told'
    BY DEF ReportError, Told
  <2>3. CASE Environment
    BY <2>1, <2>3
    DEF Environment, NodeMines, NodeReorgs, NodeFinalizes, ReceiverDropped, rangeVars,
        liveVars, ReasonInv
  <2>4. CASE StartFails \/ CheckOfPreviousFails \/ SubscriptionEnds
    BY <2>2, <2>4 DEF StartFails, CheckOfPreviousFails, SubscriptionEnds, Told, ReasonInv
  <2>5. CASE RangeGaveUp \/ NotifyFindsClosed
    BY <1>2, <2>1, <2>5 DEF RangeGaveUp, NotifyFindsClosed, Told
  <2>6. CASE Ranging
    BY <2>1, <2>6, RangeGivesUpForAReason DEF Ranging, liveVars, ReasonInv
  <2>7. CASE StreamLive \/ (\E block \in 1 .. MaxHeight : SyncLiveOnly(block)) \/ Subscribe
    BY <2>1, <2>7 DEF StreamLive, SyncLiveOnly, Subscribe, rangeVars, ReasonInv
  <2>8. CASE IgnoreLag \/ SkipHeader \/ ProcessHeader \/ IgnoreHeader \/ Checking
    BY <2>1, <2>8
    DEF IgnoreLag, SkipHeader, ProcessHeader, IgnoreHeader, Checking, rangeVars, liveVars,
        ReasonInv
  <2>9. CASE FirstHeader \/ SwitchToLive
    BY <2>1, <2>9
    DEF FirstHeader, SwitchToLive, InitialRange, StreamRange, rangeVars, ReasonInv
  <2>10. CASE NoReorg \/ ReorgDetected
    BY <2>1, <2>10
    DEF NoReorg, ReorgDetected, StreamNextBatch, StreamRange, rangeVars, ReasonInv
  <2>11. CASE InitialRangeDone \/ RangeStreamed
    BY <2>1, <2>11 DEF InitialRangeDone, RangeStreamed, RangeTaken, ReasonInv
  <2> QED
    BY <2>3, <2>4, <2>5, <2>6, <2>7, <2>8, <2>9, <2>10, <2>11
    DEF Next, Working, Starting, Streaming
<1> QED
    BY <1>1, <1>2

\* The live stream never ends in silence: whichever of its awaits failed, an
\* error was delivered, unless nobody listens any more or the subscription itself
\* ended without one (common.rs:209-297).
THEOREM LiveEndsForAReason == Spec => []EndsForAReason
<1>1. Init => ReasonInv
    BY DEF Init, RangeInit, ReasonInv
<1>2. ReasonInv /\ [Next]_vars => ReasonInv'
  <2> SUFFICES ASSUME ReasonInv, [Next]_vars PROVE ReasonInv'
      OBVIOUS
  <2>1. CASE UNCHANGED vars
    BY <2>1 DEF vars, rangeVars, liveVars, listenerVars, subscriptionVars, ReasonInv, Told
  <2> QED
    BY <2>1, ReasonStep
<1>3. ReasonInv => EndsForAReason
    BY DEF ReasonInv, Told, EndsForAReason
<1> QED
    BY <1>1, <1>2, <1>3, PTL DEF Spec

\* Where the task stands when it has met an error, and with it its call.
TerminalInv ==
    /\ pc \in {"start", "subscribe", "first", "switch", "wait", "check"} => stage = "idle"
    /\ pc = "stopped" => stage \in {"idle", "none"}
    /\ errored => pc = "stopped" \/ stage = "none"

\* A range call that met an error does nothing more, and one that meets none
\* delivers none (common.rs:416-456).
LEMMA RangeTerminal ==
    ASSUME IInv, TerminalInv, Ranging
    PROVE  TerminalInv' /\ (errored => kept' = kept)
<1>1. /\ stage \notin {"idle", "none"} /\ pc' = pc /\ pc \in {"initial", "range"}
  <2>1. stage \in {"fetch", "send", "check"}
    BY DEF Ranging, RangeStep, FetchBatchEnd, FetchFails, SendBatch, BatchStands, NotifyReorg,
           BatchCheckFails, SendFindsClosed, RangeDone
  <2> QED
    BY <2>1 DEF Ranging, liveVars, TerminalInv, IInv, LiveTypeOK
<1>2. ~errored
    BY <1>1 DEF TerminalInv
<1>3. errored' => stage' = "none"
    BY <1>2
    DEF Ranging, RangeStep, FetchBatchEnd, FetchFails, SendBatch, Deliver, BatchStands, NotifyReorg,
        Rollback, BatchCheckFails, SendFindsClosed, RangeDone, listenerVars
<1> QED
    BY <1>1, <1>2, <1>3 DEF TerminalInv

\* Every other step of the live stream keeps it too.
LEMMA TerminalStep ==
    ASSUME IInv, TerminalInv, Next
    PROVE  TerminalInv' /\ (errored => kept' = kept)
<1>1. CASE Environment \/ Checking
  <2>1. UNCHANGED <<pc, stage, errored, kept>>
    BY <1>1 DEF Environment, NodeMines, NodeReorgs, Orphan, NodeFinalizes, ReceiverDropped,
                DropReceiver, Checking, listenerVars, rangeVars, liveVars
  <2> QED
    BY <2>1 DEF TerminalInv
<1>2. CASE \/ StreamLive \/ (\E block \in 1 .. MaxHeight : SyncLiveOnly(block)) \/ Subscribe
           \/ IgnoreLag \/ SkipHeader \/ FirstHeader \/ SwitchToLive \/ ProcessHeader
           \/ IgnoreHeader \/ NoReorg \/ ReorgDetected
  <2>1. pc \in {"start", "subscribe", "first", "switch", "wait", "check"} /\ errored' = errored
    BY <1>2
    DEF StreamLive, SyncLiveOnly, Subscribe, IgnoreLag, SkipHeader, FirstHeader, SwitchToLive,
        Announce, ProcessHeader, IgnoreHeader, NoReorg, ReorgDetected, Rollback, listenerVars,
        liveVars
  <2>2. ~errored /\ stage = "idle"
    BY <2>1 DEF TerminalInv
  <2>3. /\ pc' \in {"subscribe", "first", "switch", "wait", "check"} => stage' = "idle"
        /\ pc' \in {"subscribe", "first", "switch", "initial", "wait", "check", "range"}
    BY <1>2, <2>2
    DEF StreamLive, SyncLiveOnly, Subscribe, IgnoreLag, SkipHeader, FirstHeader, SwitchToLive,
        InitialRange, ProcessHeader, IgnoreHeader, NoReorg, ReorgDetected, StreamNextBatch,
        StreamRange, rangeVars, liveVars
  <2> QED
    BY <2>1, <2>2, <2>3 DEF TerminalInv
<1>3. CASE StartFails \/ SubscriptionEnds \/ CheckOfPreviousFails \/ RangeGaveUp \/ NotifyFindsClosed
  <2>1. pc' = "stopped" /\ kept' = kept /\ stage' = stage
    BY <1>3 DEF StartFails, SubscriptionEnds, CheckOfPreviousFails, RangeGaveUp,
                NotifyFindsClosed, Stop, ReportError, listenerVars, rangeVars
  <2>2. stage \in {"idle", "none"}
    BY <1>3 DEF StartFails, SubscriptionEnds, CheckOfPreviousFails, RangeGaveUp,
                NotifyFindsClosed, TerminalInv
  <2> QED
    BY <2>1, <2>2 DEF TerminalInv
<1>4. CASE InitialRangeDone \/ RangeStreamed
  <2>1. stage = "done" /\ stage' = "idle" /\ pc' = "wait" /\ UNCHANGED <<errored, kept>>
    BY <1>4 DEF InitialRangeDone, RangeStreamed, RangeTaken, listenerVars
  <2>2. ~errored
    BY <2>1 DEF TerminalInv
  <2> QED
    BY <2>1, <2>2 DEF TerminalInv
<1> QED
    BY <1>1, <1>2, <1>3, <1>4, RangeTerminal DEF Next, Working, Starting, Streaming

\* No error of the live stream is followed by anything else it delivers: the
\* call that met one gives up, and so does the task (common.rs:209-297, 416-456).
THEOREM LiveErrorsAreTerminal == Spec => ErrorsAreTerminal
<1>1. Init => TerminalInv
    BY DEF Init, RangeInit, ListenerInit, TerminalInv
<1>2. IInv /\ TerminalInv /\ [Next]_vars => TerminalInv' /\ (errored => kept' = kept)
  <2> SUFFICES ASSUME IInv, TerminalInv, [Next]_vars
               PROVE  TerminalInv' /\ (errored => kept' = kept)
      OBVIOUS
  <2>1. CASE UNCHANGED vars
    BY <2>1 DEF vars, rangeVars, liveVars, listenerVars, TerminalInv
  <2> QED
    BY <2>1, TerminalStep
<1> QED
    BY <1>1, <1>2, LiveInvariant, PTL DEF Spec, ErrorsAreTerminal

-----------------------------------------------------------------------------
(* What the consumer holds. *)

\* A set of numbers ends before p, and has all the blocks from stream_start to there.
\* Below stream_start it has what came before the live stream, as far as that was
\* not taken back.
RunBefore(numbers, p) ==
    /\ SaturatingSub(start, 1) <= p
    /\ \A n \in numbers : n < p
    /\ start .. p - 1 \subseteq numbers

\* What the consumer holds ends before p.
Held(p) == RunBefore(kept, p)

\* Everything remembered is below number n.
Before(n) == \A r \in Elements(buffer) : r.number < n

InRange == pc \in {"initial", "range"}

\* Where the task stands, and with it the calls it makes.
Control ==
    /\ pc \in {"start", "subscribe", "first", "switch"} =>
            buffer = <<>> /\ stage = "idle" /\ step = "idle" /\ verdict = NoBlock
    /\ pc = "wait" => stage = "idle" /\ step = "idle" /\ verdict = NoBlock
    /\ pc = "check" => stage = "idle" /\ step # "idle" /\ prev # NoBlock
    /\ InRange => stage # "idle" /\ minAncestor = SaturatingSub(start, 1)
    /\ InRange /\ stage \in {"fetch", "send", "done"} => step = "idle" /\ verdict = NoBlock
    /\ InRange /\ stage = "check" => step # "idle"
    /\ InRange /\ stage = "none" => step \notin {"detect", "search", "confirm"}
    /\ pc = "stopped" =>
            stage \in {"idle", "none"} /\ step \notin {"detect", "search", "confirm"}

\* What the consumer holds ends right where the scanner believes it does.
Position ==
    /\ pc \in {"subscribe", "first", "switch"} => Held(start)
    /\ pc \in {"wait", "check"} /\ prev # NoBlock =>
            prev.number \in kept /\ Held(prev.number + 1)
    /\ pc = "wait" /\ prev # NoBlock => UpTo(buffer, prev)
    /\ InRange /\ stage \in {"fetch", "done"} => Held(it.current) /\ Before(it.current)
    /\ InRange /\ stage \in {"fetch", "done"} /\ ~HasNext(it) /\ lastEnd # NoBlock =>
            /\ lastEnd.number + 1 = it.current /\ lastEnd.number \in kept
            /\ UpTo(buffer, lastEnd)
    /\ InRange /\ stage = "done" => ~HasNext(it)
    /\ InRange /\ stage \in {"send", "check"} =>
            /\ batchEnd # NoBlock /\ batchEnd.number = batch.hi
            /\ batch.lo <= batch.hi /\ batch.hi <= it.end /\ it.current = batch.hi + 1
            /\ minAncestor <= batch.hi
    /\ InRange /\ stage = "send" => Held(batch.lo) /\ Before(batch.lo)
    /\ InRange /\ stage = "check" => Held(batch.hi + 1) /\ batch.hi \in kept

\* The check in progress is about the block in question.
Call == pc # "stopped" => CallOf(BlockInQuestion)

\* What is remembered is held, and known to be replaced when it was.
Memory ==
    /\ Ascends(buffer)
    /\ \A r \in Elements(buffer) :
            r.number \in kept /\ (~Canonical(r) => r.number \in stale)

\* Nothing the scanner has in hand was replaced after it was final.
Finality ==
    /\ Timely
    /\ \A b \in InHand : Known(b) /\ Unfinal(b)

\* Every change of the chain since block b was last seen to be canonical has a
\* header that is waiting.
Seen(b) == headers = <<>> /\ b # NoBlock => Canonical(b)

Tips ==
    pc # "stopped" =>
        /\ pc = "wait" => Seen(prev)
        /\ InRange /\ stage \in {"fetch", "done"} /\ ~HasNext(it) => Seen(lastEnd)
        /\ step = "done" /\ verdict = NoBlock => Seen(BlockInQuestion)
        /\ step = "confirm" => Seen(Back(buffer))
        /\ verdict # NoBlock => Seen(verdict)

SafeInv == Control /\ Position /\ Call /\ Memory /\ Finality /\ Tips

-----------------------------------------------------------------------------

\* What is in hand are blocks.
LEMMA InHandTypes ==
    ASSUME IInv
    PROVE  /\ buffer \in Seq(Block) /\ Elements(buffer) \subseteq Block
           /\ \A b \in InHand : b # NoBlock => b \in Block
<1>1. buffer \in Seq(Block)
    BY DEF IInv, HandlerInv, HandlerTypeOK
<1>2. Elements(buffer) \subseteq Block
    BY <1>1, ElementOfSeq DEF Elements
<1>3. {checked, verdict, batchEnd, lastEnd, prev} \subseteq OptionalBlock
    BY DEF IInv, HandlerInv, HandlerTypeOK, RangeInv, RangeTypeOK, LiveTypeOK
<1> QED
    BY <1>1, <1>2, <1>3 DEF InHand, Elements, OptionalBlock

\* A published header waits for a scanner that is subscribed.
LEMMA PublishedWaits ==
    ASSUME IInv, NEW number \in 1 .. MaxHeight, Publish(number), Subscribed
    PROVE  headers' # <<>>
<1>1. headers \in Seq(1 .. MaxHeight) /\ SubscriptionBuffer \in Nat \ {0}
    BY LiveAssumption DEF IInv, SubscriptionTypeOK
<1>2. Len(headers) = SubscriptionBuffer => Tail(headers) \in Seq(1 .. MaxHeight)
    BY <1>1, EmptySeq, HeadTailProperties
<1>3. Append(headers, number) # <<>>
    BY <1>1, AppendProperties
<1>4. Len(headers) = SubscriptionBuffer => Append(Tail(headers), number) # <<>>
    BY <1>2, AppendProperties
<1> QED
    BY <1>3, <1>4 DEF Publish

\* The environment moves nothing that the scanner has in hand.
LEMMA FrameSafe ==
    ASSUME SafeInv, UNCHANGED <<handlerVars, rangeVars, liveVars, kept>>
    PROVE  Control' /\ Position' /\ InHand' = InHand
<1>1. UNCHANGED <<buffer, step, checked, verdict, stage, minAncestor, it, batch, batchEnd,
                  lastEnd, pc, start, prev, kept>>
    BY DEF handlerVars, rangeVars, liveVars
<1>2. Control'
    BY <1>1 DEF SafeInv, Control, InRange
<1>3. Position'
    BY <1>1 DEF SafeInv, Position, InRange, Held, RunBefore, Before
<1>4. InHand' = InHand
    BY <1>1 DEF InHand, Elements
<1> QED
    BY <1>2, <1>3, <1>4

\* What a step of the chain may do to the blocks in hand.
LEMMA ChainSafe ==
    ASSUME IInv, SafeInv, UNCHANGED <<handlerVars, rangeVars, liveVars, kept>>,
           Timely', stale \subseteq stale',
           \A b \in InHand : b # NoBlock =>
                /\ Known(b)' /\ Unfinal(b)'
                /\ Canonical(b)' => Canonical(b)
                /\ Canonical(b) /\ ~Canonical(b)' =>
                        /\ b.number \in kept => b.number \in stale'
                        /\ Subscribed => headers' # <<>>,
           pc # "stopped",
           Subscribed /\ headers' = <<>> => headers = <<>>
    PROVE  SafeInv'
<1>1. Control' /\ Position' /\ InHand' = InHand
    BY FrameSafe
<1>2. UNCHANGED <<buffer, step, checked, verdict, stage, minAncestor, it, batch, batchEnd,
                  lastEnd, pc, start, prev, kept>>
    BY DEF handlerVars, rangeVars, liveVars
<1>3. Finality'
    BY <1>1 DEF Finality, Known, Unfinal
<1>4. Memory'
    BY <1>2, InHandTypes, NoBlockIsNone DEF SafeInv, Memory, InHand, Elements
<1>5. BlockInQuestion' = BlockInQuestion /\ BlockInQuestion \in InHand
    BY <1>2 DEF BlockInQuestion, InHand, Elements
<1>6. Call'
  <2>1. BlockInQuestion # NoBlock \/ step \notin {"search", "confirm"}
    <3>1. /\ pc \in {"start", "subscribe", "first", "switch", "initial", "wait", "check", "range"}
          /\ stage \in {"idle", "fetch", "send", "check", "done", "none"}
      BY DEF IInv, LiveTypeOK, RangeInv, RangeTypeOK
    <3>2. step \in {"search", "confirm"} => pc = "check" \/ (InRange /\ stage = "check")
      BY <3>1 DEF SafeInv, Control, InRange
    <3> QED
      BY <3>2 DEF SafeInv, Control, Position, BlockInQuestion, InRange
  <2>2. step \in {"search", "confirm"} => ~Canonical(BlockInQuestion)'
    BY <1>5, <2>1 DEF SafeInv, Call, CallOf
  <2>3. CallOf(BlockInQuestion)
    BY DEF SafeInv, Call
  <2> QED
    BY <1>2, <1>5, <2>2, <2>3 DEF Call, CallOf
<1>7. Tips'
  <2>1. \A b \in InHand : Subscribed /\ Seen(b) => Seen(b)'
    BY DEF Seen
  <2>2. step = "confirm" => Back(buffer) \in InHand
    BY InHandTypes, BackIsHighest DEF SafeInv, Memory, InHand, Elements, IInv, HandlerInv
  <2>3. (step \in {"done", "confirm"} \/ verdict # NoBlock \/ pc = "wait" \/ InRange) => Subscribed
    BY DEF SafeInv, Control, InRange, Subscribed
  <2>4. {verdict, lastEnd, prev, BlockInQuestion} \subseteq InHand
    BY <1>5 DEF InHand, Elements
  <2> QED
    BY <1>2, <1>5, <2>1, <2>2, <2>3, <2>4 DEF SafeInv, Tips, InRange, Seen
<1> QED
    BY <1>1, <1>3, <1>4, <1>6, <1>7 DEF SafeInv

\* What may happen outside the scanner between any two of its steps: the
\* header of a reorg waits until the scanner has seen what was replaced.
LEMMA EnvironmentSafe ==
    ASSUME FinalityWaits, IInv, SafeInv, Environment
    PROVE  SafeInv'
<1>0. /\ pc # "stopped" /\ Height \in Nat /\ finalized \in Nat /\ MaxHeight \in Nat
      /\ kept \subseteq 0 .. MaxHeight /\ stale \subseteq kept
    BY Numbers, LenProperties DEF Environment, IInv, ChainTypeOK, Height, ListenerTypeOK
<1>1. /\ ChainTypeOK /\ Timely
      /\ \A b \in InHand : Known(b) /\ Unfinal(b)
    BY DEF IInv, SafeInv, Finality
<1>2. \A b \in InHand : b # NoBlock => b \in Block
    BY InHandTypes
<1>3. CASE NodeMines
  <2>1. /\ Mine /\ Publish(Height + 1) /\ UNCHANGED <<handlerVars, rangeVars, liveVars>>
        /\ kept' = kept /\ stale' = stale
    BY <1>3 DEF NodeMines, listenerVars
  <2>2. /\ Timely' /\ finalized' = finalized
        /\ \A b \in Block : Known(b) => Known(b)' /\ (Canonical(b)' <=> Canonical(b))
    BY <1>1, <2>1, MineBlocks
  <2>3. Subscribed => headers' # <<>>
    <3>1. Height + 1 \in 1 .. MaxHeight
      BY <1>0, <2>1 DEF Mine
    <3> QED
      BY <2>1, <3>1, PublishedWaits
  <2>4. ASSUME NEW b \in InHand, b # NoBlock
        PROVE  Known(b)' /\ Unfinal(b)' /\ (Canonical(b)' <=> Canonical(b))
    BY <1>1, <1>2, <2>2, <2>4 DEF Unfinal
  <2> QED
    BY <1>0, <1>1, <2>1, <2>2, <2>3, <2>4, ChainSafe
<1>4. CASE \E fork, tip \in 0 .. MaxHeight : NodeReorgs(fork, tip)
  <2>1. PICK fork \in 0 .. MaxHeight, tip \in 0 .. MaxHeight : NodeReorgs(fork, tip)
    BY <1>4
  <2>2. /\ Reorg(fork, tip) /\ Publish(tip) /\ UNCHANGED <<handlerVars, rangeVars, liveVars>>
        /\ kept' = kept /\ stale' = stale \cup {n \in kept : n > fork}
    BY <2>1 DEF NodeReorgs, Orphan
  <2>3. /\ Timely' /\ finalized' = finalized /\ finalized <= fork
        /\ \A b \in Block : Known(b) =>
                /\ Known(b)'
                /\ Canonical(b)' <=> (Canonical(b) /\ b.number <= fork)
    BY <1>1, <2>2, ReorgBlocks
  <2>4. Subscribed => headers' # <<>>
    BY <1>1, <2>2, ReorgTypes, PublishedWaits
  <2>5. ASSUME NEW b \in InHand, b # NoBlock
        PROVE  /\ Known(b)' /\ Unfinal(b)'
               /\ Canonical(b)' => Canonical(b)
               /\ Canonical(b) /\ ~Canonical(b)' => (b.number \in kept => b.number \in stale')
    <3>1. b \in Block /\ Known(b) /\ Unfinal(b) /\ b.number \in Nat
      BY <1>0, <1>1, <1>2, <2>5 DEF Block
    <3>2. /\ Known(b)'
          /\ Canonical(b)' => Canonical(b)
          /\ Canonical(b) /\ b.number <= fork => Canonical(b)'
      BY <2>3, <3>1
    <3>3. Unfinal(b)'
      BY <1>0, <2>3, <3>1, <3>2 DEF Unfinal
    <3>4. Canonical(b) /\ ~Canonical(b)' => (b.number \in kept => b.number \in stale')
      BY <1>0, <2>2, <3>1, <3>2
    <3> QED
      BY <3>2, <3>3, <3>4
  <2>6. stale \subseteq stale'
    BY <2>2
  <2> QED
    BY <1>0, <2>2, <2>3, <2>4, <2>5, <2>6, ChainSafe
<1>5. CASE \E n \in 1 .. MaxHeight : NodeFinalizes(n)
  <2>1. PICK n \in 1 .. MaxHeight : NodeFinalizes(n)
    BY <1>5
  <2>2. /\ Finalize(n) /\ \A orphan \in Unsettled : n < orphan
        /\ UNCHANGED <<handlerVars, rangeVars, liveVars, headers>>
        /\ kept' = kept /\ stale' = stale
    BY <2>1 DEF NodeFinalizes, listenerVars
  <2>3. /\ Timely' /\ finalized' = n
        /\ \A b : (Canonical(b)' <=> Canonical(b)) /\ (Known(b)' <=> Known(b))
    BY <1>1, <2>2, FinalizeBlocks
  <2>4. ASSUME NEW b \in InHand, b # NoBlock, ~Canonical(b)
        PROVE  n < b.number
    BY <2>2, <2>4 DEF Unsettled
  <2>5. ASSUME NEW b \in InHand, b # NoBlock
        PROVE  Known(b)' /\ Unfinal(b)' /\ (Canonical(b)' <=> Canonical(b))
    BY <1>1, <2>3, <2>4, <2>5 DEF Unfinal
  <2> QED
    BY <1>0, <2>2, <2>3, <2>5, ChainSafe
<1>6. CASE ReceiverDropped
  <2>1. /\ UNCHANGED <<chainVars, handlerVars, rangeVars, liveVars, headers>>
        /\ kept' = kept /\ stale' = stale
    BY <1>6 DEF ReceiverDropped, DropReceiver, subscriptionVars
  <2>2. /\ Timely' /\ finalized' = finalized
        /\ \A b \in InHand : Known(b)' /\ Unfinal(b)' /\ (Canonical(b)' <=> Canonical(b))
    BY <1>1, <2>1 DEF chainVars, Timely, Known, Unfinal, Canonical, BlockAt, Height
  <2> QED
    BY <1>0, <1>1, <2>1, <2>2, ChainSafe
<1> QED
    BY <1>3, <1>4, <1>5, <1>6 DEF Environment

-----------------------------------------------------------------------------

\* The task ends, with no call under way.
LEMMA EndSafe ==
    ASSUME SafeInv, Stop, UNCHANGED <<chainVars, handlerVars, rangeVars, kept, stale>>,
           stage \in {"idle", "none"}, step \notin {"detect", "search", "confirm"}
    PROVE  SafeInv'
<1>1. /\ UNCHANGED <<chainVars, handlerVars, rangeVars, kept, stale>> /\ pc' = "stopped"
      /\ UNCHANGED <<start, prev>>
    BY DEF Stop
<1>2. UNCHANGED <<chain, finalized, reorgs, buffer, step, checked, verdict, stage, minAncestor,
                  it, batch, batchEnd, lastEnd>>
    BY <1>1 DEF chainVars, handlerVars, rangeVars
<1>3. Control' /\ Position' /\ Call' /\ Tips'
    BY <1>1, <1>2 DEF Control, Position, Call, Tips, InRange
<1>4. Memory'
    BY <1>1, <1>2 DEF SafeInv, Memory, Canonical, BlockAt, Height
<1>5. Finality'
    BY <1>1, <1>2
    DEF SafeInv, Finality, InHand, Elements, Timely, Known, Unfinal, Canonical, BlockAt, Height
<1> QED
    BY <1>3, <1>4, <1>5 DEF SafeInv

\* The live stream ends.
LEMMA StopSafe ==
    ASSUME SafeInv, StartFails \/ SubscriptionEnds \/ CheckOfPreviousFails
                    \/ RangeGaveUp \/ NotifyFindsClosed
    PROVE  SafeInv'
<1>1. Stop /\ UNCHANGED <<chainVars, handlerVars, rangeVars, kept, stale>>
    BY DEF StartFails, SubscriptionEnds, CheckOfPreviousFails, RangeGaveUp, NotifyFindsClosed,
           ReportError, listenerVars
<1>2. stage \in {"idle", "none"} /\ step \notin {"detect", "search", "confirm"}
    BY DEF StartFails, SubscriptionEnds, CheckOfPreviousFails, RangeGaveUp, NotifyFindsClosed,
           SafeInv, Control, InRange, Call, CallOf
<1> QED
    BY <1>1, <1>2, EndSafe

\* What is not canonical, and what is known of it, when the chain does not move.
LEMMA ChainStill ==
    ASSUME UNCHANGED chainVars
    PROVE  /\ Timely' <=> Timely
           /\ finalized' = finalized
           /\ \A b : /\ Canonical(b)' <=> Canonical(b)
                     /\ Known(b)' <=> Known(b)
                     /\ Unfinal(b)' <=> Unfinal(b)
BY DEF chainVars, Timely, Known, Unfinal, Canonical, BlockAt, Height

\* What is in hand stays what it was, or is what the node just answered with.
LEMMA FinalityStays ==
    ASSUME SafeInv, UNCHANGED chainVars,
           \A b \in InHand' : b = NoBlock \/ b \in InHand \/ (Known(b) /\ Unfinal(b))
    PROVE  Finality'
<1>1. ASSUME NEW b \in InHand'
      PROVE  Known(b)' /\ Unfinal(b)'
  <2>1. Known(b) /\ Unfinal(b)
    BY <1>1 DEF SafeInv, Finality, Known, Unfinal
  <2> QED
    BY <2>1, ChainStill
<1> QED
    BY <1>1, ChainStill DEF SafeInv, Finality

\* Before the first range no call is under way.
LEMMA StartSafe ==
    ASSUME IInv, IInv', SafeInv, pc = "start" => kept = {},
           \/ StreamLive \/ (\E block \in 1 .. MaxHeight : SyncLiveOnly(block)) \/ Subscribe
           \/ IgnoreLag \/ SkipHeader \/ IgnoreHeader \/ (FirstHeader /\ notify)
    PROVE  SafeInv'
<1>1. /\ UNCHANGED <<chainVars, handlerVars, rangeVars, kept, stale, prev>>
      /\ \/ /\ pc \in {"start", "subscribe", "first"} /\ pc' \in {"subscribe", "first", "switch"}
            /\ pc # "start" => start' = start
         \/ /\ pc = "wait" /\ pc' = "wait" /\ start' = start
            /\ headers' = headers \/ prev = NoBlock
    BY DEF StreamLive, SyncLiveOnly, Subscribe, IgnoreLag, SkipHeader, IgnoreHeader, FirstHeader,
           listenerVars, liveVars
<1>2. UNCHANGED <<chain, finalized, reorgs, buffer, step, checked, verdict, stage, minAncestor,
                  it, batch, batchEnd, lastEnd>>
    BY <1>1 DEF chainVars, handlerVars, rangeVars
<1>3. stage = "idle" /\ step = "idle" /\ verdict = NoBlock
    BY <1>1 DEF SafeInv, Control
<1>4. Control'
    BY <1>1, <1>2, <1>3 DEF SafeInv, Control, InRange
<1>5. Position'
  <2>1. pc' \in {"subscribe", "first", "switch"} => Held(start)'
    <3>1. CASE pc = "start"
      <4>1. kept' = {} /\ start' \in Nat
        BY <1>1, <3>1, Numbers DEF IInv, LiveTypeOK
      <4>2. \A s \in Nat : SaturatingSub(s, 1) <= s /\ s .. s - 1 = {}
        BY DEF SaturatingSub
      <4> QED
        BY <4>1, <4>2 DEF Held, RunBefore
    <3>2. CASE pc # "start"
      BY <1>1, <3>2 DEF SafeInv, Position, Held, RunBefore
    <3> QED
      BY <3>1, <3>2
  <2> QED
    BY <1>1, <1>2, <1>3, <2>1 DEF SafeInv, Position, InRange, Held, RunBefore, Before
<1>6. Call'
    BY <1>2, <1>3 DEF Call, CallOf
<1>7. Memory'
    BY <1>1, <1>2, ChainStill DEF SafeInv, Memory
<1>8. Finality'
    BY <1>1, <1>2, FinalityStays DEF SafeInv, Finality, InHand, Elements
<1>9. Tips'
    BY <1>1, <1>2, <1>3 DEF SafeInv, Tips, InRange, Seen, Canonical, BlockAt, Height
<1> QED
    BY <1>4, <1>5, <1>6, <1>7, <1>8, <1>9 DEF SafeInv

-----------------------------------------------------------------------------

\* A range call from the block after what is held (common.rs:184-199, 357-374).
LEMMA EnterSafe ==
    ASSUME IInv', NEW begin \in 0 .. MaxHeight + 1, NEW end \in 0 .. MaxHeight,
           StreamRange(SaturatingSub(start, 1), begin, end),
           pc' \in {"initial", "range"}, start' = start,
           step' = "idle", verdict' = NoBlock,
           RunBefore(kept', begin), \A r \in Elements(buffer') : r.number < begin,
           Memory', Finality'
    PROVE  SafeInv'
<1>1. /\ stage' = "fetch" /\ minAncestor' = SaturatingSub(start, 1) /\ lastEnd' = NoBlock
      /\ it'.current = begin
    BY ForwardIterator DEF StreamRange
<1>2. InRange' /\ pc' \notin {"wait", "check", "start", "subscribe", "first", "switch", "stopped"}
    BY DEF InRange
<1>3. Control'
    BY <1>1, <1>2 DEF Control
<1>4. Held(it.current)' /\ Before(it.current)'
  <2>1. Held(it.current)'
    BY <1>1 DEF Held, RunBefore
  <2>2. Before(it.current)'
    BY <1>1 DEF Before
  <2> QED
    BY <2>1, <2>2
<1>5. Position'
    BY <1>1, <1>2, <1>4 DEF Position
<1>6. Call' /\ Tips'
    BY <1>1, <1>2 DEF Call, CallOf, Tips, Seen
<1> QED
    BY <1>3, <1>5, <1>6 DEF SafeInv

\* The first range starts at stream_start (common.rs:184-199).
LEMMA InitialSafe ==
    ASSUME IInv, IInv', SafeInv, (FirstHeader /\ ~notify) \/ SwitchToLive
    PROVE  SafeInv'
<1>1. /\ UNCHANGED <<chainVars, handlerVars, kept, stale, prev, start>>
      /\ pc \in {"first", "switch"} /\ pc' = "initial"
    BY DEF FirstHeader, SwitchToLive, InitialRange, Announce, listenerVars
<1>2. PICK number \in 0 .. MaxHeight : StreamRange(SaturatingSub(start, 1), start, Confirmed(number))
  <2>1. CASE SwitchToLive
    BY <2>1 DEF SwitchToLive, InitialRange, IInv, LiveTypeOK
  <2>2. CASE FirstHeader /\ ~notify
    <3>1. Head(headers) \in 1 .. MaxHeight /\ 1 .. MaxHeight \subseteq 0 .. MaxHeight
      BY <2>2, TakeHeaderTypes, Numbers DEF FirstHeader, IInv
    <3> QED
      BY <2>2, <3>1 DEF FirstHeader, InitialRange
  <2> QED
    BY <2>1, <2>2
<1>3. Confirmed(number) \in 0 .. MaxHeight /\ start \in 0 .. MaxHeight + 1 /\ start \in Nat
    BY Numbers, ConfirmedTypes DEF IInv, LiveTypeOK
<1>4. /\ buffer' = <<>> /\ step' = "idle" /\ verdict' = NoBlock
    BY <1>1 DEF SafeInv, Control, handlerVars
<1>5. RunBefore(kept', start) /\ \A r \in Elements(buffer') : r.number < start
  <2>1. RunBefore(kept, start)
    BY <1>1 DEF SafeInv, Position, Held
  <2> QED
    BY <1>1, <1>4, <2>1, EmptySeq DEF Elements
<1>6. Memory'
    BY <1>1, ChainStill DEF SafeInv, Memory, handlerVars
<1>7. Finality'
  <2>1. \A b \in InHand' : b = NoBlock \/ b \in InHand
    BY <1>1, <1>2 DEF InHand, Elements, handlerVars, StreamRange
  <2> QED
    BY <1>1, <2>1, FinalityStays DEF SafeInv, Finality
<1> QED
    BY <1>1, <1>2, <1>3, <1>4, <1>5, <1>6, <1>7, EnterSafe

\* The check of the last block streamed begins (common.rs:225-243).
LEMMA ProcessSafe ==
    ASSUME IInv, SafeInv, ProcessHeader
    PROVE  SafeInv'
<1>1. /\ UNCHANGED <<chainVars, rangeVars, kept, stale, start, prev, buffer, verdict>>
      /\ pc = "wait" /\ pc' = "check" /\ prev # NoBlock
      /\ step' = "detect" /\ checked' = prev
    BY DEF ProcessHeader, Check, listenerVars
<1>2. UNCHANGED <<stage, minAncestor, it, batch, batchEnd, lastEnd>>
    BY <1>1 DEF rangeVars
<1>3. stage = "idle" /\ verdict = NoBlock
    BY <1>1 DEF SafeInv, Control
<1>4. Control'
    BY <1>1, <1>2, <1>3 DEF Control, InRange
<1>5. Position'
    BY <1>1, <1>2, <1>3 DEF SafeInv, Position, InRange, Held, RunBefore, Before
<1>6. Call'
    BY <1>1, <1>3 DEF SafeInv, Position, Call, CallOf, BlockInQuestion
<1>7. Memory'
    BY <1>1, ChainStill DEF SafeInv, Memory
<1>8. Finality'
  <2>1. \A b \in InHand' : b \in InHand
    BY <1>1, <1>2 DEF InHand, Elements
  <2> QED
    BY <1>1, <2>1, FinalityStays DEF SafeInv, Finality
<1>9. Tips'
    BY <1>1, <1>2, <1>3 DEF Tips, InRange
<1> QED
    BY <1>4, <1>5, <1>6, <1>7, <1>8, <1>9 DEF SafeInv

-----------------------------------------------------------------------------

\* A rollback to the newest remembered block, or past all of them, keeps the
\* memory a record of what is held (common.rs:301-344, 440-447).
LEMMA RollbackMemory ==
    ASSUME IInv, SafeInv, NEW q \in Block, CallOf(q), verdict # NoBlock,
           Rollback(verdict.number), UNCHANGED <<chainVars, buffer>>
    PROVE  /\ Memory'
           /\ \A r \in Elements(buffer') : r.number <= verdict.number
           /\ verdict \in Block /\ verdict.number \in Nat
<1>1. /\ verdict \in Block /\ verdict.number \in Nat /\ buffer \in Seq(Block)
      /\ Elements(buffer) \subseteq Block
    BY InHandTypes, ChainAssumption DEF InHand, Elements, Block
<1>2. buffer = <<>> \/ verdict = Back(buffer)
    BY DEF CallOf
<1>3. \A r \in Elements(buffer) : r.number <= verdict.number
  <2>1. CASE buffer = <<>>
    BY <2>1, EmptySeq DEF Elements
  <2>2. CASE buffer # <<>> /\ verdict = Back(buffer)
    <3>1. UpTo(buffer, verdict)
      BY <1>1, <2>2, BackIsHighest DEF SafeInv, Memory
    <3>2. \A r \in Elements(buffer) : r.number \in Nat
      BY <1>1, ChainAssumption DEF Block
    <3> QED
      BY <1>1, <3>1, <3>2 DEF UpTo
  <2> QED
    BY <1>2, <2>1, <2>2
<1>4. /\ kept' = {n \in kept : n <= verdict.number} /\ stale' = {n \in stale : n <= verdict.number}
      /\ buffer' = buffer
    BY DEF Rollback
<1>5. Memory'
  <2>1. ASSUME NEW r \in Elements(buffer)
        PROVE  r.number \in kept' /\ (~Canonical(r)' => r.number \in stale')
    BY <1>3, <1>4, <2>1, ChainStill DEF SafeInv, Memory
  <2> QED
    BY <1>4, <2>1 DEF SafeInv, Memory
<1> QED
    BY <1>1, <1>3, <1>4, <1>5 DEF SafeInv, Finality

\* What is left of a run after a rollback.
LEMMA RollbackRun ==
    ASSUME start \in Nat, kept \subseteq Nat, NEW p \in Nat, RunBefore(kept, p + 1),
           NEW ancestor \in Nat, ancestor < p, Rollback(ancestor)
    PROVE  /\ start <= ancestor => RunBefore(kept', ancestor + 1) /\ ancestor \in kept'
           /\ ancestor < start => RunBefore(kept', start)
           /\ ancestor + 1 < start => RunBefore(kept', start - 1)
<1>1. /\ SaturatingSub(start, 1) \in Nat /\ SaturatingSub(start, 1) <= start
      /\ 0 < start => SaturatingSub(start, 1) = start - 1
    BY DEF SaturatingSub
<1>2. kept' = {n \in kept : n <= ancestor}
    BY DEF Rollback
<1>3. \A n \in start .. p : n \in kept
    BY DEF RunBefore
<1>4. CASE start <= ancestor
  <2>1. SaturatingSub(start, 1) <= ancestor + 1
    BY <1>1, <1>4
  <2>2. \A n \in kept' : n < ancestor + 1
    BY <1>2
  <2>3. start .. (ancestor + 1) - 1 \subseteq kept' /\ ancestor \in kept'
    BY <1>2, <1>3, <1>4
  <2> QED
    BY <1>4, <2>1, <2>2, <2>3 DEF RunBefore
<1>5. CASE ancestor < start
  <2>1. \A n \in kept' : n < start /\ (ancestor + 1 < start => n < start - 1)
    BY <1>2, <1>5
  <2>2. start .. start - 1 = {} /\ start .. (start - 1) - 1 = {}
    OBVIOUS
  <2>3. 0 < start /\ SaturatingSub(start, 1) <= start - 1
    BY <1>1, <1>5
  <2> QED
    BY <1>1, <1>5, <2>1, <2>2, <2>3 DEF RunBefore
<1> QED
    BY <1>4, <1>5

\* stream_next_batch from the block after what is held (common.rs:348-385).
LEMMA NextBatchSafe ==
    ASSUME IInv, IInv', SafeInv, pc = "check", NEW begin \in 0 .. MaxHeight + 1,
           StreamNextBatch(begin), UNCHANGED <<chainVars, headers, start>>,
           step' = "idle", verdict' = NoBlock,
           RunBefore(kept', begin), \A r \in Elements(buffer') : r.number < begin,
           Memory', Finality',
           prev' # NoBlock =>
                /\ prev'.number \in kept' /\ RunBefore(kept', prev'.number + 1)
                /\ UpTo(buffer', prev') /\ (headers = <<>> => Canonical(prev'))
    PROVE  SafeInv'
<1>1. CASE Confirmed(incoming) < begin
  <2>1. pc' = "wait" /\ UNCHANGED rangeVars
    BY <1>1 DEF StreamNextBatch
  <2>2. stage' = "idle"
    BY <2>1 DEF SafeInv, Control, rangeVars
  <2>3. Control'
    BY <2>1, <2>2 DEF Control, InRange
  <2>4. Position'
    BY <2>1, <2>2 DEF Position, InRange, Held, RunBefore
  <2>5. Call'
    BY DEF Call, CallOf
  <2>6. Tips'
    BY <2>1, <2>2, ChainStill DEF Tips, InRange, Seen
  <2> QED
    BY <2>3, <2>4, <2>5, <2>6 DEF SafeInv
<1>2. CASE ~(Confirmed(incoming) < begin)
  <2>1. /\ pc' = "range"
        /\ StreamRange(SaturatingSub(start, 1), begin, Confirmed(incoming))
    BY <1>2 DEF StreamNextBatch
  <2>2. Confirmed(incoming) \in 0 .. MaxHeight
    BY Numbers, ConfirmedTypes DEF IInv, LiveTypeOK
  <2> QED
    BY <2>1, <2>2, EnterSafe
<1> QED
    BY <1>1, <1>2

\* The last block streamed stands: the stream goes on after it
\* (common.rs:281-295).
LEMMA NoReorgSafe ==
    ASSUME IInv, IInv', SafeInv, NoReorg
    PROVE  SafeInv'
<1>1. /\ pc = "check" /\ step = "done" /\ verdict = NoBlock /\ step' = "idle" /\ verdict' = NoBlock
      /\ StreamNextBatch(prev.number + 1)
      /\ UNCHANGED <<chainVars, headers, start, kept, stale, prev, buffer, checked>>
    BY DEF NoReorg, Answered, listenerVars, subscriptionVars
<1>2. /\ prev \in Block /\ prev.number \in Nat /\ prev.number + 1 \in 0 .. MaxHeight + 1
      /\ buffer \in Seq(Block) /\ Elements(buffer) \subseteq Block
  <2>1. prev # NoBlock /\ prev \in InHand
    BY <1>1 DEF SafeInv, Control, InHand, Elements
  <2> QED
    BY <2>1, InHandTypes, Numbers DEF Block
<1>3. /\ prev.number \in kept /\ Held(prev.number + 1) /\ UpTo(buffer, prev)
      /\ headers = <<>> => Canonical(prev)
    BY <1>1 DEF SafeInv, Control, Position, Call, CallOf, Tips, Seen, BlockInQuestion
<1>4. RunBefore(kept', prev.number + 1) /\ \A r \in Elements(buffer') : r.number < prev.number + 1
  <2>1. \A r \in Elements(buffer) : r.number \in Nat
    BY <1>2, Numbers DEF Block
  <2> QED
    BY <1>1, <1>2, <1>3, <2>1 DEF Held, UpTo
<1>5. Memory'
    BY <1>1, ChainStill DEF SafeInv, Memory
<1>6. Finality'
  <2>1. batchEnd' = batchEnd /\ lastEnd' \in {lastEnd, NoBlock}
    BY <1>1 DEF StreamNextBatch, StreamRange, rangeVars
  <2>2. \A b \in InHand' : b = NoBlock \/ b \in InHand
    BY <1>1, <2>1 DEF InHand, Elements
  <2> QED
    BY <1>1, <2>2, FinalityStays DEF SafeInv, Finality
<1>7. RunBefore(kept', prev'.number + 1) /\ UpTo(buffer', prev') /\ prev'.number \in kept'
    BY <1>1, <1>3 DEF Held, UpTo
<1> QED
    BY <1>1, <1>2, <1>3, <1>4, <1>5, <1>6, <1>7, NextBatchSafe

\* It was reorged: the consumer is told to drop everything after the common
\* ancestor, and the stream goes on from there, or from its start when the
\* reorg is deeper than that (common.rs:301-344).
LEMMA ReorgDetectedSafe ==
    ASSUME IInv, IInv', SafeInv, ReorgDetected
    PROVE  SafeInv'
<1>1. /\ pc = "check" /\ step = "done" /\ verdict # NoBlock /\ step' = "idle" /\ verdict' = NoBlock
      /\ Rollback(verdict.number)
      /\ UNCHANGED <<chainVars, headers, start, buffer, checked>>
    BY DEF ReorgDetected, Answered, subscriptionVars
<1>2. prev \in Block /\ prev.number \in Nat /\ start \in 0 .. MaxHeight + 1 /\ start \in Nat
  <2>1. prev # NoBlock /\ prev \in InHand
    BY <1>1 DEF SafeInv, Control, InHand, Elements
  <2> QED
    BY <2>1, InHandTypes, Numbers DEF Block, IInv, LiveTypeOK
<1>3. /\ CallOf(prev) /\ verdict.number < prev.number
      /\ Held(prev.number + 1) /\ (headers = <<>> => Canonical(verdict))
    BY <1>1 DEF SafeInv, Control, Position, Call, CallOf, Tips, Seen, BlockInQuestion
<1>4. /\ Memory'
      /\ \A r \in Elements(buffer') : r.number <= verdict.number
      /\ verdict \in Block /\ verdict.number \in Nat
    BY <1>1, <1>2, <1>3, RollbackMemory
<1>5. /\ start <= verdict.number => RunBefore(kept', verdict.number + 1) /\ verdict.number \in kept'
      /\ verdict.number < start => RunBefore(kept', start)
  <2>1. kept \subseteq Nat
    BY Numbers DEF IInv, ListenerTypeOK
  <2> QED
    BY <1>1, <1>2, <1>3, <1>4, <2>1, RollbackRun DEF Held
<1>7. Finality'
  <2>1. batchEnd' = batchEnd /\ lastEnd' \in {lastEnd, NoBlock} /\ prev' \in {NoBlock, verdict}
    BY DEF ReorgDetected, StreamNextBatch, StreamRange, rangeVars
  <2>2. \A b \in InHand' : b = NoBlock \/ b \in InHand
    BY <1>1, <2>1 DEF InHand, Elements
  <2> QED
    BY <1>1, <1>4, <2>2, FinalityStays
<1>8. CASE verdict.number < start
  <2>1. prev' = NoBlock /\ StreamNextBatch(start)
    BY <1>8 DEF ReorgDetected
  <2>2. RunBefore(kept', start)
    BY <1>5, <1>8
  <2>3. \A r \in Elements(buffer') : r.number < start
    <3>1. \A r \in Elements(buffer') : r.number \in Int
      BY <1>1, InHandTypes, Numbers DEF Block
    <3> QED
      BY <1>2, <1>4, <1>8, <3>1
  <2> QED
    BY <1>1, <1>2, <1>4, <1>7, <2>1, <2>2, <2>3, NextBatchSafe
<1>9. CASE ~(verdict.number < start)
  <2>1. prev' = verdict /\ StreamNextBatch(verdict.number + 1)
    BY <1>9 DEF ReorgDetected
  <2>2. RunBefore(kept', verdict.number + 1) /\ verdict.number \in kept'
    BY <1>2, <1>4, <1>5, <1>9
  <2>3. \A r \in Elements(buffer') : r.number < verdict.number + 1
    <3>1. \A r \in Elements(buffer') : r.number \in Int
      BY <1>1, InHandTypes, Numbers DEF Block
    <3> QED
      BY <1>4, <3>1
  <2>4. UpTo(buffer', verdict)
    <3>1. CASE buffer = <<>>
      BY <1>1, <3>1, EmptySeq DEF Elements, UpTo
    <3>2. CASE buffer # <<>>
      BY <1>1, <1>3, <3>2, BackIsHighest, InHandTypes DEF CallOf, SafeInv, Memory
    <3> QED
      BY <3>1, <3>2
  <2>5. verdict.number + 1 \in 0 .. MaxHeight + 1
    BY <1>4, Numbers DEF Block
  <2> QED
    BY <1>1, <1>2, <1>3, <1>4, <1>7, <2>1, <2>2, <2>3, <2>4, <2>5, NextBatchSafe
<1> QED
    BY <1>8, <1>9

\* A range call returned the last block it streamed (common.rs:199-204,
\* 374-384).
LEMMA ReturnSafe ==
    ASSUME IInv, SafeInv, InitialRangeDone \/ RangeStreamed
    PROVE  SafeInv'
<1>1. /\ UNCHANGED <<chainVars, handlerVars, headers, start, kept, stale>>
      /\ InRange /\ stage = "done" /\ pc' = "wait" /\ prev' = lastEnd
      /\ stage' = "idle" /\ batchEnd' = NoBlock /\ lastEnd' = NoBlock
    BY DEF InitialRangeDone, RangeStreamed, RangeTaken, InRange, listenerVars, subscriptionVars
<1>2. UNCHANGED <<buffer, step, checked, verdict>>
    BY <1>1 DEF handlerVars
<1>3. ~HasNext(it) /\ Held(it.current) /\ step = "idle" /\ verdict = NoBlock
    BY <1>1 DEF SafeInv, Control, Position
<1>4. lastEnd # NoBlock =>
        /\ lastEnd.number + 1 = it.current /\ lastEnd.number \in kept /\ UpTo(buffer, lastEnd)
        /\ Held(lastEnd.number + 1) /\ Seen(lastEnd)
    BY <1>1, <1>3 DEF SafeInv, Position, Tips, InRange
<1>5. Control'
    BY <1>1, <1>2, <1>3 DEF Control, InRange
<1>6. Position'
    BY <1>1, <1>2, <1>4 DEF Position, InRange, Held, RunBefore, UpTo
<1>7. Call'
    BY <1>2, <1>3 DEF Call, CallOf
<1>8. Memory'
    BY <1>1, <1>2, ChainStill DEF SafeInv, Memory
<1>9. Finality'
  <2>1. \A b \in InHand' : b = NoBlock \/ b \in InHand
    BY <1>1, <1>2 DEF InHand, Elements
  <2> QED
    BY <1>1, <2>1, FinalityStays DEF SafeInv, Finality
<1>10. Tips'
  <2>1. Seen(prev)'
    BY <1>1, <1>4, ChainStill DEF Seen
  <2> QED
    BY <1>1, <1>2, <1>3, <2>1 DEF Tips, InRange
<1> QED
    BY <1>5, <1>6, <1>7, <1>8, <1>9, <1>10 DEF SafeInv

-----------------------------------------------------------------------------

\* A step of the check of a block, between batches or between headers
\* (reorg_handler.rs:77-186).
LEMMA CheckingSafe ==
    ASSUME IInv, SafeInv, CheckStep,
           UNCHANGED <<chainVars, rangeVars, headers, pc, start, prev, kept, stale>>
    PROVE  SafeInv'
<1> DEFINE q == BlockInQuestion
<1>1. UNCHANGED <<stage, minAncestor, it, batch, batchEnd, lastEnd>>
    BY DEF rangeVars
<1>2. step \in {"detect", "search", "confirm"}
    BY DEF CheckStep, DetectCanonical, DetectReorg, Discard, FindAncestor, Confirm, FallBack,
           CheckFails
<1>3. pc = "check" \/ (InRange /\ stage = "check")
  <2>1. /\ pc \in {"start", "subscribe", "first", "switch", "initial", "wait", "check", "range",
                   "stopped"}
        /\ stage \in {"idle", "fetch", "send", "check", "done", "none"}
    BY DEF IInv, LiveTypeOK, RangeInv, RangeTypeOK
  <2> QED
    BY <1>2, <2>1 DEF SafeInv, Control, InRange
<1>4. q # NoBlock /\ q \in InHand /\ q.number \in kept /\ CallOf(q) /\ q' = q
    BY <1>1, <1>3 DEF SafeInv, Control, Position, Call, InRange, BlockInQuestion, InHand, Elements
<1>5. q \in Block /\ Unfinal(q)
    BY <1>4, InHandTypes DEF SafeInv, Finality
<1> HIDE DEF q
<1>6. checked = q /\ verdict = NoBlock
    BY <1>2, <1>4 DEF CallOf
<1>7. /\ CallOf(q)' /\ Ascends(buffer')
      /\ Elements(buffer') \subseteq Elements(buffer) \cup (IF Canonical(q) THEN {q} ELSE {})
    BY <1>4, <1>5, CheckStepCall DEF IInv, SafeInv, Memory
<1>8. /\ checked' \in {checked, NoBlock}
      /\ verdict' # NoBlock =>
            \/ verdict' = Back(buffer) /\ step = "confirm" /\ buffer # <<>>
            \/ Known(verdict') /\ Unfinal(verdict') /\ Canonical(verdict')
      /\ step' = "done" /\ verdict' = NoBlock => Canonical(checked)
      /\ step' = "confirm" => Canonical(Back(buffer'))
      /\ step' \in {"search", "confirm", "done", "failed"}
    BY <1>6, CheckStepAnswers DEF IInv, SafeInv, Finality
<1>9. buffer # <<>> => Back(buffer) \in InHand
    BY InHandTypes, BackIsHighest DEF SafeInv, Memory, InHand, Elements
<1>10. Control'
    BY <1>1, <1>3, <1>8 DEF SafeInv, Control, InRange
<1>11. Position'
    BY <1>1, <1>3 DEF SafeInv, Position, InRange, Held, RunBefore
<1>12. Call'
    BY <1>4, <1>7 DEF Call, CallOf, q
<1>13. Memory'
  <2>1. ASSUME NEW r \in Elements(buffer')
        PROVE  r.number \in kept' /\ (~Canonical(r)' => r.number \in stale')
    <3>1. CASE r \in Elements(buffer)
      BY <3>1, ChainStill DEF SafeInv, Memory
    <3>2. CASE r = q /\ Canonical(q)
      BY <1>4, <3>2, ChainStill
    <3> QED
      BY <1>7, <2>1, <3>1, <3>2
  <2> QED
    BY <1>7, <2>1 DEF Memory
<1>14. Finality'
  <2>1. verdict' = NoBlock \/ verdict' \in InHand \/ (Known(verdict') /\ Unfinal(verdict'))
    BY <1>8, <1>9
  <2>2. Elements(buffer') \subseteq InHand
    BY <1>4, <1>7 DEF InHand, Elements
  <2>3. \A b \in InHand' : b = NoBlock \/ b \in InHand \/ (Known(b) /\ Unfinal(b))
    BY <1>1, <1>8, <2>1, <2>2 DEF InHand, Elements
  <2> QED
    BY <2>3, FinalityStays DEF SafeInv, Finality
<1>15. Tips'
  <2>1. step' = "done" /\ verdict' = NoBlock => Seen(q)'
    BY <1>4, <1>6, <1>8 DEF Seen, Canonical, BlockAt, Height, chainVars
  <2>2. step' = "confirm" => Seen(Back(buffer))'
    BY <1>8 DEF Seen, Canonical, BlockAt, Height, chainVars
  <2>3. verdict' # NoBlock => Seen(verdict)'
    <3>1. verdict' # NoBlock => (headers = <<>> => Canonical(verdict'))
      BY <1>3, <1>8 DEF SafeInv, Tips, Seen, InRange
    <3> QED
      BY <3>1, ChainStill DEF Seen
  <2>4. pc' # "wait" /\ ~(InRange' /\ stage' \in {"fetch", "done"})
    BY <1>1, <1>3 DEF InRange
  <2> QED
    BY <2>1, <2>2, <2>3, <2>4 DEF Tips, q
<1> QED
    BY <1>10, <1>11, <1>12, <1>13, <1>14, <1>15 DEF SafeInv

-----------------------------------------------------------------------------

\* While a range is being streamed the task waits for it.
LEMMA RangingWhere ==
    ASSUME IInv, SafeInv, stage \in {"fetch", "send", "check"}
    PROVE  /\ InRange /\ pc \notin {"start", "subscribe", "first", "switch", "wait", "check", "stopped"}
           /\ minAncestor = SaturatingSub(start, 1)
           /\ stage # "check" => step = "idle" /\ verdict = NoBlock
           /\ stage = "check" => step # "idle"
           /\ BlockInQuestion = batchEnd
<1>1. pc \in {"start", "subscribe", "first", "switch", "initial", "wait", "check", "range", "stopped"}
    BY DEF IInv, LiveTypeOK
<1>2. pc \in {"initial", "range"}
    BY <1>1 DEF SafeInv, Control
<1> QED
    BY <1>2 DEF SafeInv, Control, InRange, BlockInQuestion

\* The next batch starts where the last one ended (common.rs:412-426).
LEMMA FetchSafe ==
    ASSUME IInv, SafeInv, FetchBatchEnd,
           UNCHANGED <<chainVars, headers, pc, start, prev>>
    PROVE  SafeInv'
<1> DEFINE b == ForwardBatch(it)
<1>1. /\ stage = "fetch" /\ stage' = "send" /\ HasNext(it) /\ b.hi <= Height
      /\ batch' = b /\ batchEnd' = BlockAt(b.hi) /\ it' = ForwardAdvance(it)
      /\ UNCHANGED <<minAncestor, lastEnd, buffer, step, checked, verdict, kept, stale>>
    BY DEF FetchBatchEnd, handlerVars, listenerVars
<1>2. /\ InRange /\ pc \notin {"start", "subscribe", "first", "switch", "wait", "check", "stopped"}
      /\ step = "idle" /\ verdict = NoBlock /\ minAncestor = SaturatingSub(start, 1)
    BY <1>1, RangingWhere
<1>3. Held(it.current) /\ Before(it.current)
    BY <1>1, <1>2 DEF SafeInv, Position
<1>4. it \in Iterator /\ IteratorInv /\ it.current <= it.end /\ it.end \in Nat /\ it.end <= MaxHeight
  <2>1. it \in Iterator /\ IteratorInv
    BY DEF IInv, RangeInv, RangeTypeOK
  <2> QED
    BY <1>1, <2>1, HasNextBlocks, FieldTypes DEF IteratorInv
<1>5. b.lo = it.current /\ it.current <= b.hi /\ b.hi <= it.end /\ b.hi \in Nat
    BY <1>4, ForwardBatchBounds DEF BlockNumber
<1>6. it'.current = b.hi + 1 /\ it'.end = it.end
  <2>1. b.hi + 1 \in BlockNumber
    BY <1>4, <1>5, Numbers DEF BlockNumber
  <2> QED
    BY <1>1, <1>4, <2>1, ForwardAdvanceFields
<1>7. /\ batchEnd' \in Block /\ batchEnd'.number = b.hi /\ batchEnd' # NoBlock
      /\ Known(batchEnd') /\ Unfinal(batchEnd')
  <2>1. b.hi \in 0 .. Height
    BY <1>1, <1>5, LenProperties DEF IInv, ChainTypeOK, Height
  <2> QED
    BY <1>1, <2>1, CanonicalBlocks, NoBlockIsNone DEF IInv, SafeInv, Finality
<1> HIDE DEF b
<1>8. Control'
    BY <1>1, <1>2 DEF Control, InRange
<1>9. Position'
  <2>1. Held(batch.lo)' /\ Before(batch.lo)'
    BY <1>1, <1>3, <1>5 DEF Held, RunBefore, Before
  <2>2. minAncestor <= it.current /\ minAncestor \in Nat
    BY <1>2, <1>3, Numbers DEF Held, RunBefore, IInv, RangeInv, RangeTypeOK
  <2>3. minAncestor' <= batch'.hi
    <3>1. it.current \in Nat
      BY <1>4, FieldTypes
    <3> QED
      BY <1>1, <1>5, <2>2, <3>1
  <2> QED
    BY <1>1, <1>2, <1>5, <1>6, <1>7, <2>1, <2>3 DEF Position
<1>10. Call'
    BY <1>1, <1>2 DEF Call, CallOf
<1>11. Memory'
    BY <1>1, ChainStill DEF SafeInv, Memory
<1>12. Finality'
  <2>1. \A c \in InHand' : c \in InHand \/ (Known(c) /\ Unfinal(c))
    BY <1>1, <1>7 DEF InHand, Elements
  <2> QED
    BY <1>1, <2>1, FinalityStays DEF SafeInv, Finality
<1>13. Tips'
    BY <1>1, <1>2 DEF Tips
<1> QED
    BY <1>8, <1>9, <1>10, <1>11, <1>12, <1>13 DEF SafeInv

\* The batch goes out and its last block is checked (common.rs:427-438).
LEMMA SendSafe ==
    ASSUME IInv, SafeInv, SendBatch,
           UNCHANGED <<chainVars, headers, pc, start, prev>>
    PROVE  SafeInv'
<1>1. /\ stage = "send" /\ stage' = "check" /\ step' = "detect" /\ checked' = batchEnd
      /\ kept' = kept \cup Blocks(batch)
      /\ stale' = (stale \ Blocks(batch)) \cup {n \in Blocks(batch) : n > Height}
      /\ UNCHANGED <<minAncestor, it, batch, batchEnd, lastEnd, buffer, verdict>>
    BY DEF SendBatch, Deliver, Check
<1>2. /\ InRange /\ pc \notin {"start", "subscribe", "first", "switch", "wait", "check", "stopped"}
      /\ verdict = NoBlock /\ minAncestor = SaturatingSub(start, 1)
      /\ BlockInQuestion = batchEnd
    BY <1>1, RangingWhere
<1>3. /\ batchEnd # NoBlock /\ batchEnd.number = batch.hi
      /\ batch.lo <= batch.hi /\ batch.hi <= it.end /\ it.current = batch.hi + 1
      /\ minAncestor <= batch.hi
      /\ Held(batch.lo) /\ Before(batch.lo)
    BY <1>1, <1>2 DEF SafeInv, Position
<1>4. /\ batch.lo \in Nat /\ batch.hi \in Nat /\ start \in Nat /\ Height \in Nat /\ finalized \in Nat
      /\ finalized <= Height
    BY Numbers, LenProperties
    DEF IInv, RangeInv, RangeTypeOK, LiveTypeOK, BlockNumber, ChainTypeOK, Height
<1>5. /\ Elements(buffer) \subseteq Block /\ \A r \in Elements(buffer) : r.number \in Nat
    BY InHandTypes, Numbers DEF Block
<1>6. Held(batch.hi + 1)' /\ batch.hi \in kept'
  <2>1. /\ SaturatingSub(start, 1) <= batch.lo /\ \A n \in kept : n < batch.lo
        /\ \A n \in start .. batch.lo - 1 : n \in kept
    BY <1>3 DEF Held, RunBefore
  <2>2. SaturatingSub(start, 1) \in Nat /\ kept \subseteq Nat
    BY <1>4, Numbers DEF SaturatingSub, IInv, ListenerTypeOK
  <2>3. kept' = kept \cup (batch.lo .. batch.hi)
    BY <1>1 DEF Blocks
  <2>4. SaturatingSub(start, 1) <= batch.hi + 1
    BY <1>3, <1>4, <2>1, <2>2
  <2>5. \A n \in kept' : n < batch.hi + 1
    BY <1>3, <1>4, <2>1, <2>2, <2>3
  <2>6. start .. (batch.hi + 1) - 1 \subseteq kept' /\ batch.hi \in kept'
    BY <1>3, <1>4, <2>1, <2>3
  <2> QED
    BY <1>1, <2>4, <2>5, <2>6 DEF Held, RunBefore
<1>7. Control'
    BY <1>1, <1>2 DEF Control, InRange
<1>8. Position'
    BY <1>1, <1>2, <1>3, <1>6 DEF Position
<1>9. Call'
  <2>1. BlockInQuestion' = batchEnd
    BY <1>1, <1>2 DEF BlockInQuestion
  <2>2. UpTo(buffer, batchEnd)
    BY <1>3, <1>4, <1>5 DEF UpTo, Before
  <2> QED
    BY <1>1, <1>2, <2>1, <2>2 DEF Call, CallOf
<1>10. Memory'
  <2>1. \A r \in Elements(buffer) : r.number \notin Blocks(batch)
    BY <1>3, <1>4, <1>5 DEF Before, Blocks
  <2> QED
    BY <1>1, <2>1, ChainStill DEF SafeInv, Memory
<1>11. Finality'
  <2>1. \A c \in InHand' : c \in InHand
    BY <1>1 DEF InHand, Elements
  <2> QED
    BY <1>1, <2>1, FinalityStays
<1>12. Tips'
    BY <1>1, <1>2 DEF Tips
<1> QED
    BY <1>7, <1>8, <1>9, <1>10, <1>11, <1>12 DEF SafeInv

\* No reorg: the next batch follows the one that stands (common.rs:449, 460).
LEMMA StandsSafe ==
    ASSUME IInv, SafeInv, BatchStands,
           UNCHANGED <<chainVars, headers, pc, start, prev>>
    PROVE  SafeInv'
<1>1. /\ stage = "check" /\ stage' = "fetch" /\ step = "done" /\ step' = "idle"
      /\ verdict = NoBlock /\ verdict' = NoBlock /\ lastEnd' = batchEnd
      /\ UNCHANGED <<minAncestor, it, batch, batchEnd, buffer, checked, kept, stale>>
    BY DEF BatchStands, Answered, listenerVars
<1>2. /\ InRange /\ pc \notin {"start", "subscribe", "first", "switch", "wait", "check", "stopped"}
      /\ minAncestor = SaturatingSub(start, 1) /\ BlockInQuestion = batchEnd
    BY <1>1, RangingWhere
<1>3. /\ batchEnd # NoBlock /\ batchEnd.number = batch.hi /\ it.current = batch.hi + 1
      /\ Held(batch.hi + 1) /\ batch.hi \in kept
    BY <1>1, <1>2 DEF SafeInv, Position
<1>4. UpTo(buffer, batchEnd) /\ Seen(batchEnd)
    BY <1>1, <1>2 DEF SafeInv, Call, CallOf, Tips
<1>5. batch.hi \in Nat /\ \A r \in Elements(buffer) : r.number \in Nat
    BY InHandTypes, Numbers DEF Block, IInv, RangeInv, RangeTypeOK, BlockNumber
<1>6. Before(it.current)
    BY <1>3, <1>4, <1>5 DEF Before, UpTo
<1>7. Control'
    BY <1>1, <1>2 DEF Control, InRange
<1>8. Position'
  <2>1. Held(it.current)' /\ Before(it.current)'
    BY <1>1, <1>3, <1>6 DEF Held, RunBefore, Before
  <2>2. /\ lastEnd'.number + 1 = it'.current /\ lastEnd'.number \in kept'
        /\ UpTo(buffer', lastEnd')
    BY <1>1, <1>3, <1>4
  <2> QED
    BY <1>1, <1>2, <2>1, <2>2 DEF Position
<1>9. Call'
    BY <1>1 DEF Call, CallOf
<1>10. Memory'
    BY <1>1, ChainStill DEF SafeInv, Memory
<1>11. Finality'
  <2>1. \A b \in InHand' : b \in InHand
    BY <1>1 DEF InHand, Elements
  <2> QED
    BY <1>1, <2>1, FinalityStays DEF SafeInv, Finality
<1>12. Tips'
  <2>1. Seen(lastEnd)'
    BY <1>1, <1>4 DEF Seen, Canonical, BlockAt, Height, chainVars
  <2> QED
    BY <1>1, <1>2, <2>1 DEF Tips
<1> QED
    BY <1>7, <1>8, <1>9, <1>10, <1>11, <1>12 DEF SafeInv

\* A reorg: the consumer drops what is above the common ancestor, and the range
\* goes on from there, even when it was over (common.rs:440-455).
LEMMA NotifySafe ==
    ASSUME IInv, IInv', SafeInv, NotifyReorg,
           UNCHANGED <<chainVars, headers, pc, start, prev>>
    PROVE  SafeInv'
<1> DEFINE p == Greatest(verdict.number + 1, minAncestor)
<1>1. /\ stage = "check" /\ stage' = "fetch" /\ step = "done" /\ step' = "idle"
      /\ verdict # NoBlock /\ verdict' = NoBlock /\ lastEnd' = batchEnd
      /\ it' = ResetTo(it, p) /\ Rollback(verdict.number)
      /\ UNCHANGED <<minAncestor, batch, batchEnd, buffer, checked>>
    BY DEF NotifyReorg, Answered
<1>2. /\ InRange /\ pc \notin {"start", "subscribe", "first", "switch", "wait", "check", "stopped"}
      /\ minAncestor = SaturatingSub(start, 1) /\ BlockInQuestion = batchEnd
    BY <1>1, RangingWhere
<1>3. /\ batchEnd # NoBlock /\ batchEnd.number = batch.hi /\ batch.hi <= it.end
      /\ minAncestor <= batch.hi /\ Held(batch.hi + 1) /\ batch.hi \in kept
    BY <1>1, <1>2 DEF SafeInv, Position
<1>4. /\ CallOf(batchEnd) /\ verdict.number < batch.hi
      /\ batchEnd \in Block /\ batch.hi \in Nat /\ start \in Nat
    BY <1>1, <1>2, <1>3, InHandTypes, Numbers
    DEF SafeInv, Call, CallOf, InHand, Elements, IInv, RangeInv, RangeTypeOK, LiveTypeOK, BlockNumber
<1>5. /\ Memory'
      /\ \A r \in Elements(buffer') : r.number <= verdict.number
      /\ verdict \in Block /\ verdict.number \in Nat /\ verdict.number <= MaxHeight
  <2>1. /\ Memory'
        /\ \A r \in Elements(buffer') : r.number <= verdict.number
        /\ verdict \in Block /\ verdict.number \in Nat
    BY <1>1, <1>4, RollbackMemory
  <2> QED
    BY <2>1, Numbers DEF Block
<1>6. /\ start <= verdict.number => RunBefore(kept', verdict.number + 1)
      /\ verdict.number < start => RunBefore(kept', start)
      /\ verdict.number + 1 < start => RunBefore(kept', start - 1)
  <2>1. kept \subseteq Nat
    BY Numbers DEF IInv, ListenerTypeOK
  <2> QED
    BY <1>1, <1>3, <1>4, <1>5, <2>1, RollbackRun DEF Held
<1>7. minAncestor \in Nat /\ minAncestor = IF start = 0 THEN 0 ELSE start - 1
    BY <1>2, <1>4 DEF SaturatingSub
<1>8. p \in Nat /\ p <= batch.hi /\ verdict.number < p
    BY <1>3, <1>4, <1>5, <1>7 DEF Greatest
<1>9. RunBefore(kept', p)
  <2>1. CASE start <= verdict.number
    <3>1. p = verdict.number + 1
      BY <1>4, <1>5, <1>7, <2>1 DEF Greatest
    <3> QED
      BY <1>6, <2>1, <3>1
  <2>2. CASE start = verdict.number + 1
    <3>1. p = start
      BY <1>4, <1>5, <1>7, <2>2 DEF Greatest
    <3> QED
      BY <1>4, <1>5, <1>6, <2>2, <3>1
  <2>3. CASE verdict.number + 1 < start
    <3>1. p = start - 1
      BY <1>4, <1>5, <1>7, <2>3 DEF Greatest
    <3> QED
      BY <1>6, <2>3, <3>1
  <2> QED
    BY <1>4, <1>5, <2>1, <2>2, <2>3
<1>10. it'.current = p /\ it'.end = it.end /\ HasNext(it)'
  <2>1. it \in Iterator /\ it' \in Iterator /\ IteratorInv /\ IteratorInv'
    BY DEF IInv, RangeInv, RangeTypeOK
  <2>2. /\ it.end \in Nat /\ it.end <= MaxHeight /\ it.range_size \in Nat \ {0}
        /\ it.batch_count \in Nat
    BY <2>1, FieldTypes DEF IteratorInv
  <2>3. p <= it.end /\ p \in BlockNumber
    BY <1>3, <1>4, <1>8, <2>2, Numbers DEF BlockNumber
  <2> HIDE DEF p
  <2>4. BatchesFor(it.end - p, it.range_size) \in Nat \ {0}
    BY <1>8, <2>2, <2>3, BatchesForFew
  <2>5. /\ it'.current = p /\ it'.end = it.end /\ it'.batch_count = it.batch_count
        /\ it'.total_batches = it.batch_count + BatchesFor(it.end - p, it.range_size)
    BY <1>1, <1>8, <2>1, <2>2, <2>3, <2>4, ResetToFields
  <2> QED
    BY <2>2, <2>4, <2>5 DEF HasNext
<1> HIDE DEF p
<1>11. Control'
    BY <1>1, <1>2 DEF Control, InRange
<1>12. Position'
  <2>1. Held(it.current)'
    BY <1>9, <1>10 DEF Held, RunBefore
  <2>2. Before(it.current)'
    <3>1. \A r \in Elements(buffer') : r.number \in Nat
      BY <1>1, InHandTypes, Numbers DEF Block
    <3> QED
      BY <1>5, <1>8, <1>10, <3>1 DEF Before
  <2> QED
    BY <1>1, <1>2, <1>10, <2>1, <2>2 DEF Position
<1>13. Call'
    BY <1>1 DEF Call, CallOf
<1>14. Finality'
  <2>1. \A b \in InHand' : b = NoBlock \/ b \in InHand
    BY <1>1 DEF InHand, Elements
  <2> QED
    BY <1>5, <2>1, FinalityStays
<1>15. Tips'
    BY <1>1, <1>2, <1>10 DEF Tips
<1> QED
    BY <1>5, <1>11, <1>12, <1>13, <1>14, <1>15 DEF SafeInv

\* The range is over, or the call gives up (common.rs:418-426, 433-437, 462).
LEMMA GiveUpSafe ==
    ASSUME IInv, SafeInv, FetchFails \/ BatchCheckFails \/ SendFindsClosed \/ RangeDone,
           UNCHANGED <<chainVars, headers, pc, start, prev>>
    PROVE  SafeInv'
<1>1. /\ stage \in {"fetch", "send", "check"}
      /\ stage' = "none" \/ (stage = "fetch" /\ stage' = "done" /\ ~HasNext(it))
      /\ stage = "check" => step = "failed" \/ verdict # NoBlock
      /\ UNCHANGED <<minAncestor, it, batch, batchEnd, lastEnd, handlerVars, kept, stale>>
    BY DEF FetchFails, BatchCheckFails, SendFindsClosed, RangeDone, ReportError, listenerVars
<1>2. UNCHANGED <<buffer, step, checked, verdict>>
    BY <1>1 DEF handlerVars
<1>3. /\ InRange /\ pc \notin {"start", "subscribe", "first", "switch", "wait", "check", "stopped"}
      /\ minAncestor = SaturatingSub(start, 1)
      /\ stage # "check" => step = "idle" /\ verdict = NoBlock
      /\ BlockInQuestion = batchEnd
    BY <1>1, RangingWhere
<1>4. step \notin {"detect", "search", "confirm"} /\ CallOf(batchEnd)
    BY <1>1, <1>3 DEF SafeInv, Call, CallOf
<1>5. Control'
    BY <1>1, <1>2, <1>3, <1>4 DEF Control, InRange
<1>6. Position'
    BY <1>1, <1>2, <1>3 DEF SafeInv, Position, InRange, Held, RunBefore, Before
<1>7. BlockInQuestion' = batchEnd
    BY <1>1, <1>3 DEF BlockInQuestion
<1>8. Call'
    BY <1>2, <1>4, <1>7 DEF Call, CallOf
<1>9. Memory'
    BY <1>1, <1>2, ChainStill DEF SafeInv, Memory
<1>10. Finality'
  <2>1. \A b \in InHand' : b \in InHand
    BY <1>1, <1>2 DEF InHand, Elements
  <2> QED
    BY <1>1, <2>1, FinalityStays DEF SafeInv, Finality
<1>11. Tips'
    BY <1>1, <1>2, <1>3, <1>4, <1>7
    DEF SafeInv, Tips, InRange, Seen, Canonical, BlockAt, Height, chainVars
<1> QED
    BY <1>5, <1>6, <1>8, <1>9, <1>10, <1>11 DEF SafeInv

-----------------------------------------------------------------------------

\* Before the stream is started.
LEMMA InitSafe == ASSUME Init, IInv PROVE SafeInv
<1>1. /\ buffer = <<>> /\ step = "idle" /\ checked = NoBlock /\ verdict = NoBlock
      /\ kept = {} /\ stale = {} /\ stage = "idle" /\ batchEnd = NoBlock /\ lastEnd = NoBlock
      /\ pc = "start" /\ prev = NoBlock /\ reorgs = 0
    BY DEF Init, ChainInit, HandlerInit, ListenerInit, RangeInit
<1>2. Elements(buffer) = {}
    BY <1>1, EmptySeq DEF Elements
<1>3. Control /\ Position /\ Call /\ Tips
    BY <1>1 DEF Control, Position, Call, CallOf, Tips, InRange
<1>4. Memory
    BY <1>1, <1>2, EmptySeq DEF Memory, Ascends
<1>5. Timely
  <2>1. chain = [n \in 1 .. InitialHeight |-> 0] /\ InitialHeight \in Nat
    BY ChainAssumption DEF Init, ChainInit
  <2>2. Height = InitialHeight
    BY <2>1 DEF Height
  <2> QED
    BY <1>1, <2>1, <2>2 DEF Timely
<1>6. Finality
    BY <1>1, <1>2, <1>5 DEF Finality, InHand, Elements, Known, Unfinal
<1> QED
    BY <1>3, <1>4, <1>6 DEF SafeInv

\* Every step of the task and around it keeps the invariant.
LEMMA StreamingSafe ==
    ASSUME FinalityWaits, IInv, IInv', SafeInv, Environment \/ Streaming \/ SubscriptionEnds
    PROVE  SafeInv'
<1>1. CASE Environment
    BY <1>1, EnvironmentSafe
<1>2. CASE IgnoreLag \/ SkipHeader \/ IgnoreHeader \/ (FirstHeader /\ notify)
  <2>1. pc # "start"
    BY <1>2 DEF IgnoreLag, SkipHeader, IgnoreHeader, FirstHeader
  <2> QED
    BY <1>2, <2>1, StartSafe
<1>3. CASE (FirstHeader /\ ~notify) \/ SwitchToLive
    BY <1>3, InitialSafe
<1>4. CASE ProcessHeader
    BY <1>4, ProcessSafe
<1>5. CASE NoReorg
    BY <1>5, NoReorgSafe
<1>6. CASE ReorgDetected
    BY <1>6, ReorgDetectedSafe
<1>7. CASE InitialRangeDone \/ RangeStreamed
    BY <1>7, ReturnSafe
<1>8. CASE CheckOfPreviousFails \/ RangeGaveUp \/ NotifyFindsClosed \/ SubscriptionEnds
    BY <1>8, StopSafe
<1>9. CASE Checking
  <2>1. /\ CheckStep
        /\ UNCHANGED <<chainVars, rangeVars, headers, pc, start, prev, kept, stale>>
    BY <1>9 DEF Checking, listenerVars, subscriptionVars, liveVars
  <2> QED
    BY <2>1, CheckingSafe
<1>10. CASE Ranging
  <2>1. RangeStep /\ UNCHANGED <<chainVars, headers, pc, start, prev>>
    BY <1>10 DEF Ranging, subscriptionVars, liveVars
  <2> QED
    BY <2>1, FetchSafe, SendSafe, StandsSafe, NotifySafe, GiveUpSafe DEF RangeStep
<1> QED
    BY <1>1, <1>2, <1>3, <1>4, <1>5, <1>6, <1>7, <1>8, <1>9, <1>10 DEF Streaming

\* Nothing of the stream changes.
LEMMA StutterSafe == ASSUME SafeInv, UNCHANGED vars PROVE SafeInv'
<1>1. /\ UNCHANGED <<chainVars, handlerVars, rangeVars, kept, stale, headers, pc, start, prev>>
  BY DEF vars, listenerVars, subscriptionVars, liveVars
<1>2. UNCHANGED <<buffer, step, checked, verdict, stage, minAncestor, it, batch, batchEnd, lastEnd>>
  BY <1>1 DEF handlerVars, rangeVars
<1>3. Control' /\ Position' /\ Call'
  BY <1>1, <1>2, ChainStill
  DEF SafeInv, Control, Position, Call, CallOf, BlockInQuestion, InRange, Held, RunBefore, Before
<1>4. Memory'
  BY <1>1, <1>2, ChainStill DEF SafeInv, Memory
<1>5. Finality'
  BY <1>1, <1>2, FinalityStays DEF SafeInv, Finality, InHand, Elements
<1>6. Tips'
  BY <1>1, <1>2
  DEF SafeInv, Tips, Seen, InRange, BlockInQuestion, Canonical, BlockAt, Height, chainVars
<1> QED
  BY <1>3, <1>4, <1>5, <1>6 DEF SafeInv

\* What holds of a live stream that nothing was streamed before: until the first
\* range nothing is held, and never anything below stream_start and the block
\* before it.
Alone ==
    /\ pc \in {"start", "subscribe", "first", "switch"} => kept = {}
    /\ \A n \in kept : SaturatingSub(start, 1) <= n

\* Every step keeps both.
LEMMA NextSafe ==
    ASSUME FinalityWaits, IInv, IInv', SafeInv, Alone, [Next]_vars
    PROVE  SafeInv' /\ Alone'
<1>1. SafeInv'
  <2>1. CASE Starting
      BY <2>1, StartSafe, StopSafe DEF Starting, Alone
  <2> QED
      BY <2>1, StreamingSafe, StutterSafe DEF Next, Working
<1>2. Alone'
  <2>1. CASE SendBatch /\ Ranging
    <3>1. /\ kept' = kept \cup (batch.lo .. batch.hi) /\ pc' = pc /\ start' = start /\ stage = "send"
      BY <2>1 DEF SendBatch, Deliver, Blocks, Ranging, liveVars
    <3>2. InRange /\ Held(batch.lo)
      BY <3>1, RangingWhere DEF SafeInv, Position
    <3>3. SaturatingSub(start, 1) <= batch.lo /\ batch.lo \in Nat /\ batch.hi \in Nat
      BY <3>2, Numbers DEF Held, RunBefore, IInv, RangeInv, RangeTypeOK, BlockNumber
    <3>4. SaturatingSub(start, 1) \in Nat
      BY DEF SaturatingSub, IInv, LiveTypeOK
    <3>5. \A n \in batch.lo .. batch.hi : SaturatingSub(start, 1) <= n
      BY <3>3, <3>4
    <3> QED
      BY <3>1, <3>2, <3>5 DEF Alone, InRange
  <2>2. CASE StreamLive \/ \E block \in 1 .. MaxHeight : SyncLiveOnly(block)
    <3>1. kept' = {}
      BY <2>2 DEF StreamLive, SyncLiveOnly, Alone, listenerVars
    <3> QED
      BY <3>1 DEF Alone
  <2>3. CASE ~(SendBatch /\ Ranging) /\ ~(StreamLive \/ \E block \in 1 .. MaxHeight : SyncLiveOnly(block))
    <3>1. CASE Environment \/ Starting \/ SubscriptionEnds \/ UNCHANGED vars
      BY <2>3, <3>1
      DEF Environment, NodeMines, NodeReorgs, Orphan, NodeFinalizes, ReceiverDropped, DropReceiver,
          Starting, Subscribe, StartFails, SubscriptionEnds, ReportError, Stop, Alone, vars,
          listenerVars, liveVars
    <3>2. CASE Ranging
      BY <2>3, <3>2
      DEF Ranging, RangeStep, FetchBatchEnd, FetchFails, BatchStands, NotifyReorg, BatchCheckFails,
          SendFindsClosed, RangeDone, ReportError, Rollback, Alone, listenerVars, liveVars
    <3>3. CASE Streaming /\ ~Ranging
      <4>1. /\ kept' \subseteq kept /\ start' = start
            /\ pc' \in {"first", "switch"} => pc \in {"first", "switch"}
            /\ pc' \notin {"start", "subscribe"} \/ pc' = pc
        BY <3>3
        DEF Streaming, IgnoreLag, SkipHeader, FirstHeader, SwitchToLive, InitialRange, Announce,
            InitialRangeDone, ProcessHeader, IgnoreHeader, NoReorg, ReorgDetected, Rollback,
            StreamNextBatch, CheckOfPreviousFails, ReportError, RangeStreamed, RangeGaveUp,
            NotifyFindsClosed, Stop, Checking, listenerVars, liveVars
      <4> QED
        BY <4>1 DEF Alone
    <3> QED
      BY <3>1, <3>2, <3>3 DEF Next, Working
  <2> QED
    BY <2>1, <2>2, <2>3
<1> QED
    BY <1>1, <1>2

\* What a live stream of its own holds is a run of blocks from stream_start, or
\* the block before it.
LEMMA AloneHolds ==
    ASSUME IInv, Alone, NEW p \in Nat, Held(p)
    PROVE  \E lo \in {SaturatingSub(start, 1), start} : lo <= p /\ kept = lo .. p - 1
<1> DEFINE low == SaturatingSub(start, 1)
<1>1. start \in Nat /\ low \in Nat /\ low <= start /\ start <= low + 1 /\ kept \subseteq Nat
    BY Numbers DEF SaturatingSub, IInv, LiveTypeOK, ListenerTypeOK
<1>2. /\ low <= p /\ \A n \in kept : n < p /\ low <= n
      /\ \A n \in start .. p - 1 : n \in kept
    BY DEF Held, RunBefore, Alone
<1> HIDE DEF low
<1>3. CASE low \in kept
  <2>1. ASSUME NEW n \in low .. p - 1
        PROVE  n \in kept
    <3>1. n = low \/ n \in start .. p - 1
      BY <1>1
    <3> QED
      BY <1>2, <1>3, <3>1
  <2>2. \A n \in kept : n \in low .. p - 1
    BY <1>1, <1>2
  <2>3. kept = low .. p - 1
    BY <2>1, <2>2
  <2> QED
    BY <1>2, <2>3 DEF low
<1>4. CASE low \notin kept
  <2>1. kept = start .. p - 1
    <3>1. ASSUME NEW n \in kept
          PROVE  n \in start .. p - 1
      <4>1. n \in Nat /\ n < p /\ low <= n /\ n # low
        BY <1>1, <1>2, <1>4
      <4> QED
        BY <1>1, <4>1
    <3> QED
      BY <1>2, <3>1
  <2>2. CASE start <= p
    BY <2>1, <2>2
  <2>3. CASE p < start
    <3>1. p = low /\ kept = low .. p - 1
      BY <1>1, <1>2, <2>1, <2>3
    <3> QED
      BY <3>1 DEF low
  <2> QED
    BY <1>1, <2>2, <2>3
<1> QED
    BY <1>3, <1>4

\* SafeInv is an invariant of the live stream, as long as the finalized block
\* does not pass an orphaned block that the scanner has not acted upon.
THEOREM LiveSafety == ASSUME FinalityWaits PROVE Spec => [](SafeInv /\ Alone)
<1>1. Init /\ IInv => SafeInv /\ Alone
    BY InitSafe DEF Init, ListenerInit, Alone
<1>2. IInv /\ IInv' /\ SafeInv /\ Alone /\ [Next]_vars => SafeInv' /\ Alone'
    BY NextSafe
<1> QED
    BY <1>1, <1>2, LiveInvariant, PTL DEF Spec

\* No hole and no repetition: a consumer that rolls back on ReorgDetected gets
\* every range right after the last block it holds, across batches, lost
\* headers and reorgs of any depth at any moment (common.rs:301-344, 348-385,
\* 440-455).
THEOREM LiveGapFree == ASSUME FinalityWaits PROVE Spec => []GapFree
<1>1. IInv /\ SafeInv /\ Alone => GapFree
  <2> SUFFICES ASSUME IInv, SafeInv, Alone, stage = "send"
               PROVE  /\ Blocks(batch) \cap kept = {}
                      /\ IF kept = {} THEN batch.lo \in {SaturatingSub(start, 1), start}
                         ELSE batch.lo - 1 \in kept
      BY DEF GapFree
  <2>1. Held(batch.lo)
    BY RangingWhere DEF SafeInv, Position
  <2>2. PICK lo \in {SaturatingSub(start, 1), start} :
            lo <= batch.lo /\ kept = lo .. batch.lo - 1
    BY <2>1, AloneHolds, Numbers DEF IInv, RangeInv, RangeTypeOK, BlockNumber
  <2>3. lo \in Nat /\ batch.lo \in Nat /\ batch.hi \in Nat
    BY Numbers DEF SaturatingSub, IInv, LiveTypeOK, RangeInv, RangeTypeOK, BlockNumber
  <2>4. Blocks(batch) \cap kept = {}
    BY <2>2, <2>3 DEF Blocks
  <2>5. CASE lo = batch.lo
    BY <2>2, <2>3, <2>4, <2>5
  <2>6. CASE lo # batch.lo
    <3>1. batch.lo - 1 \in kept
      BY <2>2, <2>3, <2>6
    <3> QED
      BY <2>4, <3>1
  <2> QED
    BY <2>5, <2>6
<1> QED
    BY <1>1, LiveInvariant, LiveSafety, PTL

\* Every ReorgDetected takes back the block that was found reorged, whichever
\* way its common ancestor was found (reorg_handler.rs:100-141, 157-186).
THEOREM LiveNoticeUndoesOrphan == ASSUME FinalityWaits PROVE Spec => []NoticeUndoesOrphan
<1>1. SafeInv => NoticeUndoesOrphan
    BY DEF SafeInv, Call, CallOf, NoticeUndoesOrphan
<1> QED
    BY <1>1, LiveSafety, PTL

\* The memory of past blocks is in ascending order and holds nothing that a
\* rollback took back (ring_buffer.rs:53-83, reorg_handler.rs:86-93).
THEOREM LiveMemoryFollowsStream == ASSUME FinalityWaits PROVE Spec => []MemoryFollowsStream
<1>1. SafeInv => MemoryFollowsStream
    BY DEF SafeInv, Memory, Ascends, Elements, MemoryFollowsStream
<1> QED
    BY <1>1, LiveSafety, PTL

\* Whenever no header waits, the last block streamed is canonical and is the
\* highest that the consumer holds: no reorg of the tip is missed, whenever it
\* happens (common.rs:209-297).
THEOREM LiveTipSettled == ASSUME FinalityWaits PROVE Spec => []TipSettled
<1>1. IInv /\ SafeInv => TipSettled
  <2> SUFFICES ASSUME IInv, SafeInv, Quiet, prev # NoBlock
               PROVE  Canonical(prev) /\ prev.number \in kept /\ \A n \in kept : n <= prev.number
      BY DEF TipSettled
  <2>1. prev.number \in kept /\ Held(prev.number + 1) /\ Canonical(prev)
    BY DEF Quiet, SafeInv, Position, Tips, Seen
  <2>2. prev.number \in Nat /\ start \in Nat
    BY InHandTypes, Numbers DEF InHand, Elements, Block, IInv, LiveTypeOK
  <2>3. \A n \in kept : n \in Nat /\ n < prev.number + 1
    BY <2>1, Numbers DEF Held, RunBefore, IInv, ListenerTypeOK
  <2>4. \A n \in kept : n <= prev.number
    BY <2>2, <2>3
  <2> QED
    BY <2>1, <2>4
<1> QED
    BY <1>1, LiveInvariant, LiveSafety, PTL

-----------------------------------------------------------------------------
(* The promise of RollbackStream. *)

Phase == IF pc = "start" THEN "new" ELSE IF pc = "stopped" THEN "over" ELSE "open"

Offered == IF stage = "send" /\ pc # "stopped" THEN batch ELSE NoBatch

\* Steps that a consumer does not see.
LEMMA Stutters ==
    ASSUME UNCHANGED <<Phase, start, kept, Offered>>
    PROVE  UNCHANGED Promise!vars
BY DEF Promise!vars, Phase, Offered

\* A range that follows what is held may be offered.
LEMMA RunOffers ==
    ASSUME IInv, Alone, NEW p \in Nat, Held(p)
    PROVE  p \in Promise!NextBlocks(kept)
<1>1. PICK lo \in {SaturatingSub(start, 1), start} : lo <= p /\ kept = lo .. p - 1
    BY AloneHolds
<1>2. lo \in Nat /\ start \in Nat
    BY DEF SaturatingSub, IInv, LiveTypeOK
<1>3. CASE lo = p
  <2>1. kept = {}
    BY <1>1, <1>2, <1>3
  <2>2. p \in {start} \cup ({start - 1} \cap Nat)
    BY <1>1, <1>2, <1>3 DEF SaturatingSub
  <2> QED
    BY <2>1, <2>2 DEF Promise!NextBlocks
<1>4. CASE lo # p
  <2>1. p - 1 \in kept /\ (p - 1) + 1 = p /\ p \notin kept
    BY <1>1, <1>2, <1>4
  <2>2. p - 1 \in {m \in kept : m + 1 \notin kept}
    BY <2>1
  <2> QED
    BY <2>1, <2>2 DEF Promise!NextBlocks
<1> QED
    BY <1>3, <1>4

\* What the steps of a range call are to a consumer (common.rs:400-459).
LEMMA RangingPromise ==
    ASSUME IInv, IInv', SafeInv, Alone, RangeStep, UNCHANGED <<pc, start>>
    PROVE  [Promise!Next]_(Promise!vars)
<1>1. stage \in {"fetch", "send", "check"}
    BY DEF RangeStep, FetchBatchEnd, FetchFails, SendBatch, BatchStands, NotifyReorg,
           BatchCheckFails, SendFindsClosed, RangeDone
<1>2. /\ InRange /\ Phase = "open" /\ Phase' = "open"
      /\ pc # "stopped" /\ pc' # "stopped"
    BY <1>1, RangingWhere DEF Phase
<1>3. start \in Nat /\ start' = start
    BY DEF IInv, LiveTypeOK
<1>4. CASE FetchBatchEnd
  <2>1. /\ stage = "fetch" /\ stage' = "send" /\ batch' = ForwardBatch(it) /\ kept' = kept
        /\ HasNext(it)
    BY <1>4 DEF FetchBatchEnd, listenerVars
  <2>2. it \in Iterator /\ IteratorInv /\ it.current <= it.end /\ it.current \in Nat
    BY <2>1, HasNextBlocks, FieldTypes DEF IInv, RangeInv, RangeTypeOK
  <2>3. batch'.lo = it.current
    BY <2>1, <2>2, ForwardBatchBounds
  <2>4. batch'.lo \in Promise!NextBlocks(kept)
    BY <1>2, <1>3, <2>1, <2>2, <2>3, RunOffers DEF SafeInv, Position
  <2>5. /\ batch'.lo <= batch'.hi /\ batch'.hi - batch'.lo < MaxBlockRange
        /\ batch'.hi \in 0 .. MaxHeight /\ batch' \in [lo : BlockNumber, hi : BlockNumber]
    <3>1. /\ batch'.lo <= batch'.hi /\ batch'.hi - batch'.lo < MaxBlockRange
          /\ batch'.hi <= it'.end /\ it'.end <= MaxHeight
          /\ batch' \in [lo : BlockNumber, hi : BlockNumber] /\ it' \in Iterator
      BY <2>1 DEF IInv, RangeInv, RangeTypeOK, BatchFits, IteratorInv
    <3>2. batch'.hi \in Nat /\ it'.end \in Nat
      BY <3>1, Numbers DEF BlockNumber, Iterator
    <3> QED
      BY <3>1, <3>2, Numbers
  <2>6. batch' \in [lo : Promise!NextBlocks(kept), hi : 0 .. MaxHeight]
    BY <2>4, <2>5
  <2>7. batch' \in Promise!Offers(kept)
    BY <2>5, <2>6 DEF Promise!Offers
  <2>8. Offered = NoBatch /\ Offered' = batch'
    BY <1>2, <2>1 DEF Offered
  <2>9. Promise!Offer
    BY <1>2, <1>3, <2>1, <2>7, <2>8 DEF Promise!Offer, Promise!NoOffer, NoBatch, Phase, Offered
  <2> QED
    BY <2>9 DEF Promise!Next
<1>5. CASE SendBatch
  <2>1. stage = "send" /\ stage' = "check" /\ kept' = kept \cup (batch.lo .. batch.hi)
    BY <1>5 DEF SendBatch, Deliver, Blocks
  <2>2. Offered = batch /\ Offered' = NoBatch
    BY <1>2, <2>1 DEF Offered
  <2>3. batch # NoBatch
    BY <2>1 DEF IInv, RangeInv, BatchFits, NoBatch
  <2>4. Promise!Take
    BY <1>2, <1>3, <2>1, <2>2, <2>3 DEF Promise!Take, Promise!NoOffer, NoBatch, Phase, Offered
  <2> QED
    BY <2>4 DEF Promise!Next
<1>6. CASE NotifyReorg
  <2>1. /\ stage = "check" /\ stage' = "fetch" /\ verdict # NoBlock
        /\ kept' = {n \in kept : n <= verdict.number}
    BY <1>6 DEF NotifyReorg, Rollback
  <2>2. verdict.number \in 0 .. MaxHeight
    BY <2>1, InHandTypes DEF InHand, Elements, Block
  <2>3. Offered = NoBatch /\ Offered' = NoBatch
    BY <2>1 DEF Offered
  <2>4. Promise!Rollback
    BY <1>2, <1>3, <2>1, <2>2, <2>3 DEF Promise!Rollback, Promise!NoOffer, NoBatch, Phase, Offered
  <2> QED
    BY <2>4 DEF Promise!Next
<1>7. CASE SendFindsClosed
  <2>1. stage' = "none" /\ kept' = kept /\ stage \in {"send", "check"} /\ batch' = batch
    BY <1>7 DEF SendFindsClosed, listenerVars
  <2>2. CASE stage = "check"
    <3>1. Offered = NoBatch /\ Offered' = NoBatch
      BY <2>1, <2>2 DEF Offered
    <3> QED
      BY <1>2, <1>3, <2>1, <3>1, Stutters
  <2>3. CASE stage = "send"
    <3>1. Offered = batch /\ Offered' = NoBatch
      BY <1>2, <2>1, <2>3 DEF Offered
    <3>2. batch # NoBatch
      BY <2>3 DEF IInv, RangeInv, BatchFits, NoBatch
    <3>3. Promise!Withdraw
      BY <1>2, <1>3, <2>1, <3>1, <3>2
      DEF Promise!Withdraw, Promise!NoOffer, NoBatch, Phase, Offered
    <3> QED
      BY <3>3 DEF Promise!Next
  <2> QED
    BY <2>1, <2>2, <2>3
<1>8. CASE FetchFails \/ BatchStands \/ BatchCheckFails \/ RangeDone
  <2>1. kept' = kept /\ stage # "send" /\ stage' # "send"
    BY <1>8 DEF FetchFails, BatchStands, BatchCheckFails, RangeDone, listenerVars, ReportError
  <2>2. Offered = NoBatch /\ Offered' = NoBatch
    BY <2>1 DEF Offered
  <2> QED
    BY <1>2, <1>3, <2>1, <2>2, Stutters
<1> QED
    BY <1>4, <1>5, <1>6, <1>7, <1>8 DEF RangeStep

\* What every other step is to a consumer.
LEMMA LivePromise ==
    ASSUME IInv, IInv', SafeInv, Next, ~Ranging
    PROVE  [Promise!Next]_(Promise!vars)
<1>1. stage = "send" => InRange
    BY RangingWhere
<1>2. CASE Environment \/ Checking
  <2>1. UNCHANGED <<pc, start, kept, stage, batch>>
    BY <1>2 DEF Environment, NodeMines, NodeReorgs, Orphan, NodeFinalizes, ReceiverDropped,
                DropReceiver, Checking, listenerVars, rangeVars, liveVars
  <2> QED
    BY <2>1, Stutters DEF Phase, Offered
<1>3. CASE StreamLive \/ \E block \in 1 .. MaxHeight : SyncLiveOnly(block)
  <2>1. pc = "start" /\ pc' = "subscribe" /\ UNCHANGED <<kept, stage, batch>>
    BY <1>3 DEF StreamLive, SyncLiveOnly, listenerVars, rangeVars
  <2>2. Offered = NoBatch /\ Offered' = NoBatch
    BY <1>1, <2>1 DEF Offered, InRange
  <2>3. start' \in 0 .. MaxHeight + 1
    BY DEF IInv, LiveTypeOK
  <2>4. Promise!Open
    BY <2>1, <2>2, <2>3 DEF Promise!Open, Offered
  <2> QED
    BY <2>4 DEF Promise!Next
<1>4. CASE StartFails \/ SubscriptionEnds \/ CheckOfPreviousFails \/ RangeGaveUp \/ NotifyFindsClosed
  <2>1. pc # "stopped" /\ pc' = "stopped" /\ UNCHANGED <<start, kept>>
    BY <1>4
    DEF StartFails, SubscriptionEnds, CheckOfPreviousFails, RangeGaveUp, NotifyFindsClosed,
        ReportError, Stop, listenerVars
  <2>2. Promise!End
    BY <2>1 DEF Promise!End, Promise!NoOffer, NoBatch
  <2> QED
    BY <2>2 DEF Promise!Next
<1>5. CASE ReorgDetected
  <2>1. /\ pc = "check" /\ pc' \in {"wait", "range"} /\ verdict # NoBlock /\ start' = start
        /\ kept' = {n \in kept : n <= verdict.number}
        /\ stage' \in {stage, "fetch"}
    BY <1>5 DEF ReorgDetected, Rollback, StreamNextBatch, StreamRange, rangeVars
  <2>2. verdict.number \in 0 .. MaxHeight
    BY <2>1, InHandTypes DEF InHand, Elements, Block
  <2>3. Offered = NoBatch /\ Offered' = NoBatch
    BY <1>1, <2>1 DEF Offered, InRange
  <2>4. Promise!Rollback
    BY <2>1, <2>2, <2>3 DEF Promise!Rollback, Promise!NoOffer, NoBatch, Offered
  <2> QED
    BY <2>4 DEF Promise!Next
<1>6. CASE \/ Subscribe \/ IgnoreLag \/ SkipHeader \/ FirstHeader \/ SwitchToLive \/ ProcessHeader
           \/ IgnoreHeader \/ NoReorg
  <2>1. /\ pc \in {"subscribe", "first", "switch", "wait", "check"} /\ pc' \notin {"start", "stopped"}
        /\ start' = start /\ kept' = kept /\ stage' \in {stage, "fetch"}
    BY <1>6
    DEF Subscribe, IgnoreLag, SkipHeader, FirstHeader, SwitchToLive, InitialRange, Announce,
        ProcessHeader, IgnoreHeader, NoReorg, StreamNextBatch, StreamRange, listenerVars,
        rangeVars, liveVars
  <2>2. Offered = NoBatch /\ Offered' = NoBatch
    BY <1>1, <2>1 DEF Offered, InRange
  <2> QED
    BY <2>1, <2>2, Stutters DEF Phase
<1>7. CASE InitialRangeDone \/ RangeStreamed
  <2>1. /\ pc \in {"initial", "range"} /\ pc' = "wait" /\ stage = "done" /\ stage' = "idle"
        /\ start' = start /\ kept' = kept
    BY <1>7 DEF InitialRangeDone, RangeStreamed, RangeTaken, listenerVars
  <2>2. Offered = NoBatch /\ Offered' = NoBatch
    BY <2>1 DEF Offered
  <2> QED
    BY <2>1, <2>2, Stutters DEF Phase
<1> QED
    BY <1>2, <1>3, <1>4, <1>5, <1>6, <1>7 DEF Next, Working, Starting, Streaming

\* The live stream implements RollbackStream: whatever the chain does, a
\* consumer that rolls back on ReorgDetected only ever sees its run of blocks
\* extended at the end, in ranges of bounded length, or its end taken back, and
\* nothing after the stream is over (common.rs:142-460).
THEOREM LiveKeepsPromise == ASSUME FinalityWaits PROVE Spec => KeepsPromise
<1>1. Init => Promise!Init
  <2> SUFFICES ASSUME Init PROVE Promise!Init
      OBVIOUS
  <2>1. pc = "start" /\ start = 0 /\ kept = {} /\ stage = "idle"
    BY DEF Init, ListenerInit, RangeInit
  <2> QED
    BY <2>1 DEF Promise!Init, Promise!NoOffer, NoBatch
<1>2. IInv /\ IInv' /\ SafeInv /\ Alone /\ [Next]_vars => [Promise!Next]_(Promise!vars)
  <2> SUFFICES ASSUME IInv, IInv', SafeInv, Alone, [Next]_vars
               PROVE  [Promise!Next]_(Promise!vars)
      OBVIOUS
  <2>1. CASE Ranging
    BY <2>1, RangingPromise DEF Ranging, liveVars
  <2>2. CASE UNCHANGED vars
    <3>1. UNCHANGED <<pc, start, kept, stage, batch>>
      BY <2>2 DEF vars, listenerVars, rangeVars, liveVars
    <3> QED
      BY <3>1, Stutters DEF Phase, Offered
  <2> QED
    BY <2>1, <2>2, LivePromise
<1> QED
    BY <1>1, <1>2, LiveInvariant, LiveSafety, PTL DEF Spec, KeepsPromise, Promise!Spec

-----------------------------------------------------------------------------
(* What is delivered stands, as long as the chain only reorganises while the *)
(* scanner awaits a header.                                                  *)

\* What the consumer holds that is replaced lies above every block that is
\* final, and above every remembered block that still stands.
MemoryStands ==
    /\ \A n \in kept : start <= n
    /\ \A n \in stale : finalized < n
    /\ \A r \in Elements(buffer) : Canonical(r) => \A n \in stale : r.number < n

\* If anything is replaced, the last block streamed is.
TipStands ==
    pc \in {"wait", "check"} =>
        IF prev = NoBlock THEN kept = {} ELSE Canonical(prev) => stale = {}

\* The check of the last block streamed answers for everything that is held.
AnswerStands ==
    pc = "check" =>
        /\ step = "done" /\ verdict = NoBlock => Canonical(prev)
        /\ step = "confirm" => Canonical(Back(buffer))
        /\ verdict # NoBlock => \A n \in stale : verdict.number < n

\* Nothing is replaced while a range is streamed.
RangeStands ==
    InRange =>
        /\ stale = {} /\ verdict = NoBlock
        /\ stage = "fetch" => start <= it.current
        /\ stage \in {"fetch", "done"} /\ ~HasNext(it) /\ lastEnd = NoBlock => kept = {}
        /\ stage \in {"send", "check"} => start <= batch.lo /\ Canonical(batchEnd)

Settled ==
    ~raced /\ pc # "stopped" => MemoryStands /\ TipStands /\ AnswerStands /\ RangeStands

\* Blocks in hand that stay as canonical as they were.
LEMMA SettledStays ==
    ASSUME IInv, SafeInv, Settled, UNCHANGED <<handlerVars, rangeVars, pc, start, prev, kept, stale>>,
           raced => raced', raced' \/ finalized' = finalized \/ \A n \in stale : finalized' < n,
           \A b \in InHand : b # NoBlock => (Canonical(b)' <=> Canonical(b))
    PROVE  Settled'
<1>1. UNCHANGED <<buffer, step, checked, verdict, stage, minAncestor, it, batch, batchEnd, lastEnd>>
    BY DEF handlerVars, rangeVars
<1> SUFFICES ASSUME ~raced', ~raced, pc # "stopped"
             PROVE  Settled'
    BY <1>1 DEF Settled
<1>2. \A r \in Elements(buffer) : Canonical(r)' <=> Canonical(r)
    BY InHandTypes, NoBlockIsNone DEF InHand, Elements
<1>3. prev # NoBlock => (Canonical(prev)' <=> Canonical(prev))
    BY <1>1 DEF InHand, Elements, Canonical, BlockAt
<1>4. batchEnd # NoBlock => (Canonical(batchEnd)' <=> Canonical(batchEnd))
    BY <1>1 DEF InHand, Elements, Canonical, BlockAt
<1>5. step = "confirm" => (Canonical(Back(buffer))' <=> Canonical(Back(buffer)))
  <2>1. step = "confirm" => Back(buffer) \in Elements(buffer)
    BY BackIsHighest, InHandTypes DEF SafeInv, Memory, IInv, HandlerInv
  <2> QED
    BY <1>1, <1>2, <2>1 DEF Canonical, BlockAt
<1>6. InRange /\ stage \in {"send", "check"} => batchEnd # NoBlock
    BY DEF SafeInv, Position
<1>7. MemoryStands' /\ TipStands'
    BY <1>1, <1>2, <1>3 DEF Settled, MemoryStands, TipStands
<1>8. AnswerStands'
    BY <1>1, <1>3, <1>5 DEF Settled, AnswerStands, SafeInv, Control
<1>9. RangeStands'
    BY <1>1, <1>4, <1>6 DEF Settled, RangeStands, InRange
<1> QED
    BY <1>7, <1>8, <1>9 DEF Settled

\* A reorg while the scanner awaits a header: everything that is held and
\* replaced lies above the fork.
LEMMA ReorgSettled ==
    ASSUME IInv, SafeInv, Settled, NEW fork \in 0 .. MaxHeight, NEW tip \in 0 .. MaxHeight,
           NodeReorgs(fork, tip), pc # "stopped"
    PROVE  Settled'
<1>1. /\ Reorg(fork, tip) /\ UNCHANGED <<handlerVars, rangeVars, liveVars>>
      /\ kept' = kept /\ stale' = stale \cup {n \in kept : n > fork}
      /\ ~raced' => ~raced /\ pc \in {"start", "subscribe", "first", "wait"}
    BY DEF NodeReorgs, Orphan, AtRest
<1>2. UNCHANGED <<buffer, step, checked, verdict, stage, minAncestor, it, batch, batchEnd,
                  lastEnd, pc, start, prev>>
    BY <1>1 DEF handlerVars, rangeVars, liveVars
<1> SUFFICES ASSUME ~raced, pc \in {"start", "subscribe", "first", "wait"}
             PROVE  Settled'
    BY <1>1, <1>2 DEF Settled
<1>3. \A b \in InHand : b # NoBlock => (Canonical(b)' <=> (Canonical(b) /\ b.number <= fork))
    BY <1>1, ReorgBlocks, InHandTypes DEF IInv, SafeInv, Finality
<1>4. fork \in Nat /\ kept \subseteq Nat /\ stale \subseteq kept
    BY Numbers DEF IInv, ListenerTypeOK
<1>5. ASSUME NEW r \in Elements(buffer), Canonical(r)', NEW n \in stale'
      PROVE  r.number < n
  <2>1. r \in Block /\ r # NoBlock /\ r \in InHand /\ r.number \in Nat
    BY <1>5, InHandTypes, NoBlockIsNone, Numbers DEF InHand, Elements, Block
  <2>2. Canonical(r) /\ r.number <= fork
    BY <1>3, <1>5, <2>1
  <2>3. n \in stale \/ n > fork
    BY <1>1, <1>5
  <2>4. n \in stale => r.number < n
    BY <1>5, <2>2 DEF Settled, MemoryStands
  <2>5. n \in Nat
    BY <1>1, <1>4, <1>5
  <2> QED
    BY <1>4, <2>1, <2>2, <2>3, <2>4, <2>5
<1>6. pc = "wait" => IF prev = NoBlock THEN kept' = {} ELSE Canonical(prev)' => stale' = {}
  <2>1. CASE pc = "wait" /\ prev = NoBlock
    BY <1>1, <2>1 DEF Settled, TipStands
  <2>2. CASE pc = "wait" /\ prev # NoBlock /\ Canonical(prev)'
    <3>1. Canonical(prev) /\ prev.number <= fork
      BY <1>2, <1>3, <2>2 DEF InHand, Elements, Canonical, BlockAt
    <3>2. stale = {}
      BY <2>2, <3>1 DEF Settled, TipStands
    <3>3. Held(prev.number + 1) /\ prev.number \in Nat
      BY <1>4, <2>2 DEF SafeInv, Position
    <3>4. \A n \in kept : n <= prev.number
      BY <1>4, <3>3 DEF Held, RunBefore, SaturatingSub, IInv, LiveTypeOK
    <3>5. {n \in kept : n > fork} = {}
      <4> SUFFICES ASSUME NEW n \in kept, n > fork PROVE FALSE
          OBVIOUS
      <4>1. n \in Nat /\ n <= prev.number
        BY <1>4, <3>4
      <4> QED
        BY <1>4, <3>1, <3>3, <4>1
    <3> QED
      BY <1>1, <2>2, <3>2, <3>5
  <2> QED
    BY <2>1, <2>2
<1>7. \A n \in stale' : finalized' < n
  <2>1. finalized' = finalized /\ finalized <= fork /\ finalized \in Nat
    BY <1>1, ReorgBlocks DEF IInv, SafeInv, Finality, ChainTypeOK
  <2>2. \A n \in stale : finalized < n
    BY <1>2 DEF Settled, MemoryStands
  <2> QED
    BY <1>1, <1>4, <2>1, <2>2
<1> QED
    BY <1>1, <1>2, <1>5, <1>6, <1>7
    DEF Settled, MemoryStands, TipStands, AnswerStands, RangeStands, InRange

\* What happens outside the scanner.
LEMMA EnvironmentSettled ==
    ASSUME IInv, SafeInv, Settled, Environment
    PROVE  Settled'
<1>1. CASE NodeMines
  <2>1. /\ Mine /\ UNCHANGED <<handlerVars, rangeVars, pc, start, prev, kept, stale>> /\ raced' = raced
    BY <1>1 DEF NodeMines, listenerVars, liveVars
  <2>2. \A b \in InHand : b # NoBlock => (Canonical(b)' <=> Canonical(b))
    BY <2>1, MineBlocks, InHandTypes DEF IInv, SafeInv, Finality
  <2>3. finalized' = finalized
    BY <2>1, MineBlocks DEF IInv, SafeInv, Finality
  <2> QED
    BY <2>1, <2>2, <2>3, SettledStays
<1>2. CASE \E fork, tip \in 0 .. MaxHeight : NodeReorgs(fork, tip)
    BY <1>2, ReorgSettled DEF Environment
<1>3. CASE \E n \in 1 .. MaxHeight : NodeFinalizes(n)
  <2>1. PICK n \in 1 .. MaxHeight : NodeFinalizes(n)
    BY <1>3
  <2>2. /\ Finalize(n) /\ raced' = (raced \/ \E m \in stale : m <= n)
        /\ UNCHANGED <<handlerVars, rangeVars, pc, start, prev, kept, stale>>
    BY <2>1 DEF NodeFinalizes, listenerVars, liveVars
  <2>3. finalized' = n /\ \A b \in InHand : b # NoBlock => (Canonical(b)' <=> Canonical(b))
    BY <2>2, FinalizeBlocks DEF SafeInv, Finality
  <2>4. raced' \/ \A m \in stale : finalized' < m
    <3>1. stale \subseteq Nat /\ n \in Nat
      BY Numbers DEF IInv, ListenerTypeOK
    <3>2. CASE \E m \in stale : m <= n
      BY <2>2, <3>2
    <3>3. CASE \A m \in stale : ~(m <= n)
      BY <2>3, <3>1, <3>3
    <3> QED
      BY <3>2, <3>3
  <2> QED
    BY <2>2, <2>3, <2>4, SettledStays
<1>4. CASE ReceiverDropped
  <2>1. UNCHANGED <<chainVars, handlerVars, rangeVars, pc, start, prev, kept, stale, raced>>
    BY <1>4 DEF ReceiverDropped, DropReceiver, subscriptionVars, liveVars
  <2> QED
    BY <2>1, ChainStill, SettledStays
<1> QED
    BY <1>1, <1>2, <1>3, <1>4 DEF Environment

\* A range call when nothing that is held was replaced.
LEMMA EnterSettled ==
    ASSUME IInv', NEW begin \in 0 .. MaxHeight + 1, NEW end \in 0 .. MaxHeight,
           StreamRange(SaturatingSub(start, 1), begin, end), begin <= end \/ kept' = {},
           pc' \in {"initial", "range"}, start' = start, start <= begin,
           verdict' = NoBlock, stale' = {}, \A n \in kept' : start <= n
    PROVE  Settled'
<1>1. /\ stage' = "fetch" /\ lastEnd' = NoBlock /\ it'.current = begin /\ it'.end = end
    BY ForwardIterator DEF StreamRange
<1>2. begin <= end => HasNext(it)'
  <2>1. it' \in Iterator /\ IteratorInv'
    BY DEF IInv, RangeInv, RangeTypeOK
  <2>2. /\ it'.range_size \in Nat \ {0} /\ it'.batch_count \in Nat /\ it'.total_batches \in Nat
        /\ begin \in Nat /\ end \in Nat
    BY <2>1, Numbers DEF Iterator, BlockNumber
  <2>3. begin <= end => BatchesFor(end - begin, it'.range_size) \in Nat \ {0}
    BY <2>2, BatchesForFew
  <2>4. begin <= end => it'.total_batches - it'.batch_count = BatchesFor(end - begin, it'.range_size)
    BY <1>1, <2>1, <2>2 DEF IteratorInv
  <2> QED
    BY <2>2, <2>3, <2>4 DEF HasNext
<1>3. MemoryStands'
    BY DEF MemoryStands
<1>4. TipStands' /\ AnswerStands'
    BY DEF TipStands, AnswerStands
<1>5. RangeStands'
    BY <1>1, <1>2 DEF RangeStands
<1> QED
    BY <1>3, <1>4, <1>5 DEF Settled

\* Up to the first range.
LEMMA StartSettled ==
    ASSUME IInv, IInv', SafeInv, Alone, Settled,
           \/ StreamLive \/ (\E block \in 1 .. MaxHeight : SyncLiveOnly(block)) \/ Subscribe
           \/ IgnoreLag \/ SkipHeader \/ IgnoreHeader \/ FirstHeader \/ SwitchToLive
    PROVE  Settled'
<1>1. CASE IgnoreLag \/ SkipHeader \/ IgnoreHeader
  <2>1. UNCHANGED <<chainVars, handlerVars, rangeVars, pc, start, prev, kept, stale, raced>>
    BY <1>1 DEF IgnoreLag, SkipHeader, IgnoreHeader, TakeHeader, listenerVars, liveVars
  <2> QED
    BY <2>1, ChainStill, SettledStays
<1>2. CASE \/ StreamLive \/ (\E block \in 1 .. MaxHeight : SyncLiveOnly(block)) \/ Subscribe
           \/ (FirstHeader /\ notify)
  <2>1. /\ kept' = {} /\ stale' = stale /\ buffer' = <<>> /\ pc' \in {"subscribe", "first", "switch"}
    BY <1>2 DEF StreamLive, SyncLiveOnly, Subscribe, FirstHeader, listenerVars, handlerVars,
                SafeInv, Control, Alone
  <2>2. Elements(buffer') = {} /\ stale' = {}
    BY <2>1, EmptySeq DEF Elements, IInv, ListenerTypeOK
  <2> QED
    BY <2>1, <2>2
    DEF Settled, MemoryStands, TipStands, AnswerStands, RangeStands, InRange
<1>3. CASE (FirstHeader /\ ~notify) \/ SwitchToLive
  <2>1. /\ pc \in {"first", "switch"} /\ pc' = "initial" /\ start' = start /\ kept' = kept
        /\ stale' = stale /\ verdict' = verdict
    BY <1>3 DEF FirstHeader, SwitchToLive, InitialRange, Announce, listenerVars, handlerVars
  <2>2. PICK number \in 0 .. MaxHeight : StreamRange(SaturatingSub(start, 1), start, Confirmed(number))
    <3>1. CASE SwitchToLive
      BY <3>1 DEF SwitchToLive, InitialRange, IInv, LiveTypeOK
    <3>2. CASE FirstHeader /\ ~notify
      <4>1. Head(headers) \in 1 .. MaxHeight /\ 1 .. MaxHeight \subseteq 0 .. MaxHeight
        BY <3>2, TakeHeaderTypes, Numbers DEF FirstHeader, IInv
      <4> QED
        BY <3>2, <4>1 DEF FirstHeader, InitialRange
    <3> QED
      BY <1>3, <3>1, <3>2
  <2>3. Confirmed(number) \in 0 .. MaxHeight /\ start \in 0 .. MaxHeight + 1 /\ start \in Nat
    BY Numbers, ConfirmedTypes DEF IInv, LiveTypeOK
  <2>4. kept' = {} /\ stale' = {} /\ verdict' = NoBlock
    BY <2>1 DEF SafeInv, Control, IInv, ListenerTypeOK, Alone
  <2> QED
    BY <2>1, <2>2, <2>3, <2>4, EnterSettled
<1> QED
    BY <1>1, <1>2, <1>3

\* One turn of the loop (common.rs:225-295, 301-344).
LEMMA TurnSettled ==
    ASSUME IInv, IInv', SafeInv, Settled, ProcessHeader \/ NoReorg \/ ReorgDetected
    PROVE  Settled'
<1>0. raced' = raced /\ pc # "stopped" /\ UNCHANGED chainVars /\ start' = start /\ buffer' = buffer
    BY DEF ProcessHeader, Check, NoReorg, ReorgDetected, Answered, TakeHeader, subscriptionVars
<1> SUFFICES ASSUME ~raced
             PROVE  Settled'
    BY <1>0 DEF Settled
<1>1. MemoryStands /\ TipStands /\ AnswerStands
    BY <1>0 DEF Settled
<1>2. start \in Nat /\ start \in 0 .. MaxHeight + 1 /\ Confirmed(incoming) \in 0 .. MaxHeight
    BY Numbers, ConfirmedTypes DEF IInv, LiveTypeOK
<1>3. ASSUME stale' = {}, verdict' = NoBlock, \A n \in kept' : start <= n,
             NEW begin \in 0 .. MaxHeight + 1, StreamNextBatch(begin), start <= begin,
             prev' = NoBlock => kept' = {}
      PROVE  Settled'
  <2>1. CASE Confirmed(incoming) < begin
    <3>1. pc' = "wait"
      BY <2>1, <1>3 DEF StreamNextBatch
    <3> QED
      BY <1>0, <1>3, <3>1 DEF Settled, MemoryStands, TipStands, AnswerStands, RangeStands, InRange
  <2>2. CASE ~(Confirmed(incoming) < begin)
    <3>1. pc' = "range" /\ StreamRange(SaturatingSub(start, 1), begin, Confirmed(incoming))
      BY <2>2, <1>3 DEF StreamNextBatch
    <3>2. begin <= Confirmed(incoming) /\ pc' \in {"initial", "range"}
      BY <1>2, <2>2, <3>1, Numbers
    <3>3. start' = start /\ start <= begin
      BY <1>0, <1>3
    <3>4. stale' = {} /\ verdict' = NoBlock /\ \A n \in kept' : start <= n
      BY <1>3
    <3> QED
      BY <1>2, <1>3, <3>1, <3>2, <3>3, <3>4, EnterSettled
  <2> QED
    BY <2>1, <2>2
<1>4. CASE ProcessHeader
  <2>1. /\ pc = "wait" /\ pc' = "check" /\ prev # NoBlock /\ prev' = prev /\ step' = "detect"
        /\ verdict' = verdict /\ kept' = kept /\ stale' = stale
    BY <1>4 DEF ProcessHeader, Check, listenerVars
  <2>2. verdict' = NoBlock
    BY <2>1 DEF SafeInv, Control
  <2>3. MemoryStands'
    BY <1>0, <1>1, <2>1, ChainStill DEF MemoryStands
  <2>4. TipStands'
    BY <1>0, <1>1, <2>1 DEF TipStands, Canonical, BlockAt, Height, chainVars
  <2> QED
    BY <2>1, <2>2, <2>3, <2>4 DEF Settled, AnswerStands, RangeStands, InRange
<1>5. CASE NoReorg
  <2>1. /\ pc = "check" /\ step = "done" /\ verdict = NoBlock /\ verdict' = NoBlock
        /\ StreamNextBatch(prev.number + 1) /\ kept' = kept /\ stale' = stale /\ prev' = prev
    BY <1>5 DEF NoReorg, Answered, listenerVars
  <2>2. prev # NoBlock /\ prev.number \in kept
    BY <2>1 DEF SafeInv, Control, Position
  <2>3. stale = {} /\ start <= prev.number /\ \A n \in kept : start <= n
    BY <1>1, <2>1, <2>2 DEF MemoryStands, TipStands, AnswerStands
  <2>4. prev.number + 1 \in 0 .. MaxHeight + 1 /\ start <= prev.number + 1
    <3>1. prev.number \in 0 .. MaxHeight
      BY <2>2 DEF IInv, ListenerTypeOK
    <3> QED
      BY <1>2, <2>3, <3>1, Numbers
  <2> QED
    BY <1>3, <2>1, <2>2, <2>3, <2>4
<1>6. CASE ReorgDetected
  <2>1. /\ pc = "check" /\ verdict # NoBlock /\ verdict' = NoBlock
        /\ kept' = {n \in kept : n <= verdict.number}
        /\ stale' = {n \in stale : n <= verdict.number}
    BY <1>6 DEF ReorgDetected, Answered, Rollback
  <2>2. verdict.number \in 0 .. MaxHeight /\ kept \subseteq Nat /\ stale \subseteq Nat
    BY <2>1, InHandTypes, Numbers DEF InHand, Elements, Block, IInv, ListenerTypeOK
  <2>3. stale' = {}
    <3>1. \A n \in stale : verdict.number < n
      BY <1>1, <2>1 DEF AnswerStands
    <3> SUFFICES ASSUME NEW n \in stale' PROVE FALSE
        OBVIOUS
    <3>2. n \in Nat /\ n <= verdict.number /\ verdict.number < n
      BY <2>1, <2>2, <3>1
    <3> QED
      BY <2>2, <3>2
  <2>4. \A n \in kept' : start <= n
    BY <1>1, <2>1 DEF MemoryStands
  <2>5. CASE verdict.number < start
    <3>1. prev' = NoBlock /\ StreamNextBatch(start)
      BY <1>6, <2>5 DEF ReorgDetected
    <3>2. kept' = {}
      <4> SUFFICES ASSUME NEW n \in kept' PROVE FALSE
          OBVIOUS
      <4>1. n \in Nat /\ n <= verdict.number /\ start <= n
        BY <2>1, <2>2, <2>4
      <4> QED
        BY <1>2, <2>2, <2>5, <4>1
    <3> QED
      BY <1>2, <1>3, <2>1, <2>3, <2>4, <3>1, <3>2
  <2>6. CASE ~(verdict.number < start)
    <3>1. prev' = verdict /\ StreamNextBatch(verdict.number + 1)
      BY <1>6, <2>6 DEF ReorgDetected
    <3>2. verdict.number + 1 \in 0 .. MaxHeight + 1 /\ start <= verdict.number + 1
      BY <1>2, <2>2, <2>6, Numbers
    <3> QED
      BY <1>3, <2>1, <2>3, <2>4, <3>1, <3>2
  <2> QED
    BY <2>5, <2>6
<1> QED
    BY <1>4, <1>5, <1>6

\* A range call returned (common.rs:199-204, 374-384).
LEMMA ReturnSettled ==
    ASSUME IInv, SafeInv, Settled, InitialRangeDone \/ RangeStreamed
    PROVE  Settled'
<1>1. /\ InRange /\ stage = "done" /\ pc' = "wait" /\ prev' = lastEnd /\ raced' = raced
      /\ UNCHANGED <<chainVars, start, kept, stale, buffer>> /\ pc # "stopped"
    BY DEF InitialRangeDone, RangeStreamed, RangeTaken, InRange, listenerVars, subscriptionVars,
           handlerVars
<1> SUFFICES ASSUME ~raced
             PROVE  Settled'
    BY <1>1 DEF Settled
<1>2. stale = {} /\ MemoryStands /\ ~HasNext(it) /\ (lastEnd = NoBlock => kept = {})
    BY <1>1 DEF Settled, RangeStands, SafeInv, Position
<1>3. MemoryStands' /\ TipStands'
    BY <1>1, <1>2 DEF MemoryStands, TipStands
<1> QED
    BY <1>1, <1>3 DEF Settled, AnswerStands, RangeStands, InRange

\* A step of the check of a block (reorg_handler.rs:77-186).
LEMMA CheckingSettled ==
    ASSUME IInv, SafeInv, Settled, CheckStep,
           UNCHANGED <<chainVars, rangeVars, pc, start, prev, kept, stale, raced>>
    PROVE  Settled'
<1> DEFINE q == BlockInQuestion
<1>1. UNCHANGED <<stage, minAncestor, it, batch, batchEnd, lastEnd>>
    BY DEF rangeVars
<1>2. step \in {"detect", "search", "confirm"}
    BY DEF CheckStep, DetectCanonical, DetectReorg, Discard, FindAncestor, Confirm, FallBack,
           CheckFails
<1>3. (pc = "check" /\ ~InRange) \/ (pc \notin {"wait", "check"} /\ InRange /\ stage = "check")
  <2>1. /\ pc \in {"start", "subscribe", "first", "switch", "initial", "wait", "check", "range",
                   "stopped"}
        /\ stage \in {"idle", "fetch", "send", "check", "done", "none"}
    BY DEF IInv, LiveTypeOK, RangeInv, RangeTypeOK
  <2> QED
    BY <1>2, <2>1 DEF SafeInv, Control, InRange
<1> SUFFICES ASSUME ~raced, pc # "stopped"
             PROVE  Settled'
    BY DEF Settled
<1>4. MemoryStands /\ TipStands /\ AnswerStands /\ RangeStands
    BY DEF Settled
<1>5. q # NoBlock /\ q \in InHand /\ CallOf(q)
    BY <1>3 DEF SafeInv, Control, Position, Call, InRange, BlockInQuestion, InHand, Elements
<1>6. q \in Block /\ Unfinal(q)
    BY <1>5, InHandTypes DEF SafeInv, Finality
<1>7. /\ pc = "check" => q = prev
      /\ pc # "check" => q = batchEnd
    BY DEF BlockInQuestion
<1> HIDE DEF q
<1>8. checked = q /\ verdict = NoBlock
    BY <1>2, <1>5 DEF CallOf
<1>9. Elements(buffer') \subseteq Elements(buffer) \cup (IF Canonical(q) THEN {q} ELSE {})
    BY <1>5, <1>6, CheckStepCall DEF IInv, SafeInv, Memory
<1>10. /\ verdict' # NoBlock =>
            \/ verdict' = Back(buffer) /\ step = "confirm" /\ buffer # <<>>
            \/ verdict'.number = finalized
       /\ step' = "done" /\ verdict' = NoBlock => Canonical(checked)
       /\ step' = "confirm" => Canonical(Back(buffer'))
    BY <1>8, CheckStepAnswers DEF IInv, SafeInv, Finality
<1>11. MemoryStands'
  <2>1. Canonical(q) => stale = {}
    BY <1>3, <1>4, <1>5, <1>7 DEF TipStands, RangeStands
  <2>2. ASSUME NEW r \in Elements(buffer'), Canonical(r)
        PROVE  \A n \in stale : r.number < n
    BY <1>4, <1>9, <2>1, <2>2 DEF MemoryStands
  <2> QED
    BY <1>4, <2>2, ChainStill DEF MemoryStands
<1>12. TipStands'
    BY <1>4 DEF TipStands, Canonical, BlockAt, Height, chainVars
<1>13. AnswerStands'
  <2>1. CASE pc # "check"
    BY <2>1 DEF AnswerStands
  <2>2. CASE pc = "check"
    <3>1. step' = "done" /\ verdict' = NoBlock => Canonical(prev)'
      BY <1>7, <1>8, <1>10, <2>2 DEF Canonical, BlockAt, Height, chainVars
    <3>2. step' = "confirm" => Canonical(Back(buffer))'
      BY <1>10 DEF Canonical, BlockAt, Height, chainVars
    <3>3. ASSUME verdict' # NoBlock
          PROVE  \A n \in stale : verdict'.number < n
      <4>1. CASE verdict' = Back(buffer) /\ step = "confirm" /\ buffer # <<>>
        <5>1. Back(buffer) \in Elements(buffer) /\ Canonical(Back(buffer))
          BY <1>4, <2>2, <4>1, BackIsHighest, InHandTypes DEF AnswerStands, SafeInv, Memory
        <5> QED
          BY <1>4, <4>1, <5>1 DEF MemoryStands
      <4>2. CASE verdict'.number = finalized
        BY <1>4, <4>2 DEF MemoryStands
      <4> QED
        BY <1>10, <3>3, <4>1, <4>2
    <3> QED
      BY <3>1, <3>2, <3>3 DEF AnswerStands
  <2> QED
    BY <2>1, <2>2
<1>14. RangeStands'
  <2>1. CASE ~InRange
    BY <2>1 DEF RangeStands, InRange
  <2>2. CASE InRange
    <3>1. stage = "check" /\ Canonical(q) /\ q = batchEnd
      BY <1>3, <1>4, <1>7, <2>2 DEF RangeStands
    <3>2. step = "detect"
      BY <1>2, <1>5, <3>1 DEF CallOf
    <3>3. verdict' = NoBlock
      BY <1>8, <3>1, <3>2
      DEF CheckStep, DetectCanonical, DetectReorg, Discard, FindAncestor, Confirm, FallBack,
          CheckFails, Return
    <3>4. Canonical(batchEnd)'
      BY <1>1, <3>1 DEF Canonical, BlockAt, Height, chainVars
    <3> QED
      BY <1>1, <1>4, <2>2, <3>1, <3>3, <3>4 DEF RangeStands, InRange
  <2> QED
    BY <2>1, <2>2
<1> QED
    BY <1>11, <1>12, <1>13, <1>14 DEF Settled

\* A step of a range call (common.rs:400-459).
LEMMA RangingSettled ==
    ASSUME IInv, SafeInv, Settled, RangeStep,
           UNCHANGED <<chainVars, pc, start, prev, raced>>
    PROVE  Settled'
<1>1. stage \in {"fetch", "send", "check"}
    BY DEF RangeStep, FetchBatchEnd, FetchFails, SendBatch, BatchStands, NotifyReorg,
           BatchCheckFails, SendFindsClosed, RangeDone
<1>2. InRange /\ pc \notin {"wait", "check", "stopped"}
    BY <1>1, RangingWhere
<1> SUFFICES ASSUME ~raced
             PROVE  Settled'
    BY DEF Settled
<1>3. MemoryStands /\ RangeStands /\ stale = {} /\ verdict = NoBlock
    BY <1>2 DEF Settled, RangeStands
<1>4. TipStands' /\ AnswerStands'
    BY <1>2 DEF TipStands, AnswerStands
<1>5. /\ batch.lo \in Nat /\ batch.hi \in Nat /\ it.current \in Nat /\ start \in Nat /\ Height \in Nat
    BY FieldTypes, Numbers, LenProperties
    DEF IInv, RangeInv, RangeTypeOK, BlockNumber, LiveTypeOK, ChainTypeOK, Height
<1>6. CASE FetchBatchEnd
  <2>1. /\ stage = "fetch" /\ stage' = "send" /\ HasNext(it) /\ batch' = ForwardBatch(it)
        /\ ForwardBatch(it).hi <= Height /\ batchEnd' = BlockAt(ForwardBatch(it).hi)
        /\ kept' = kept /\ stale' = stale /\ buffer' = buffer /\ verdict' = verdict
    BY <1>6 DEF FetchBatchEnd, listenerVars, handlerVars
  <2>2. it \in Iterator /\ it.current <= it.end
    BY <2>1, HasNextBlocks DEF IInv, RangeInv, RangeTypeOK
  <2>3. batch'.lo = it.current /\ ForwardBatch(it).hi \in 0 .. Height
    BY <1>5, <2>1, <2>2, ForwardBatchBounds DEF BlockNumber
  <2>4. Canonical(batchEnd') /\ Canonical(batchEnd)'
    <3>1. Canonical(BlockAt(ForwardBatch(it).hi))
      BY <2>3, CanonicalBlocks DEF IInv, SafeInv, Finality
    <3> QED
      BY <2>1, <3>1 DEF Canonical, BlockAt, Height, chainVars
  <2>5. MemoryStands'
    BY <1>3, <2>1 DEF MemoryStands
  <2>6. RangeStands'
    BY <1>2, <1>3, <2>1, <2>3, <2>4 DEF RangeStands
  <2> QED
    BY <1>4, <2>5, <2>6 DEF Settled
<1>7. CASE SendBatch
  <2>1. /\ stage = "send" /\ stage' = "check" /\ kept' = kept \cup Blocks(batch)
        /\ stale' = (stale \ Blocks(batch)) \cup {n \in Blocks(batch) : n > Height}
        /\ UNCHANGED <<batch, batchEnd, buffer, verdict>>
    BY <1>7 DEF SendBatch, Deliver, Check
  <2>2. start <= batch.lo /\ Canonical(batchEnd) /\ batchEnd.number = batch.hi
    BY <1>2, <1>3, <2>1 DEF RangeStands, SafeInv, Position
  <2>3. batch.hi <= Height
    BY <1>5, <2>2 DEF Canonical
  <2>4. stale' = {}
    BY <1>3, <1>5, <2>1, <2>3 DEF Blocks
  <2>5. \A n \in kept' : start <= n
    BY <1>3, <1>5, <2>1, <2>2 DEF MemoryStands, Blocks
  <2>6. Canonical(batchEnd)'
    BY <2>1, <2>2 DEF Canonical, BlockAt, Height, chainVars
  <2>7. MemoryStands'
    BY <2>4, <2>5 DEF MemoryStands
  <2>8. RangeStands'
    BY <1>3, <2>1, <2>2, <2>4, <2>6 DEF RangeStands
  <2> QED
    BY <1>4, <2>7, <2>8 DEF Settled
<1>8. CASE BatchStands
  <2>1. /\ stage = "check" /\ stage' = "fetch" /\ lastEnd' = batchEnd /\ verdict' = NoBlock
        /\ UNCHANGED <<it, buffer, kept, stale>>
    BY <1>8 DEF BatchStands, Answered, listenerVars
  <2>2. batchEnd # NoBlock /\ it.current = batch.hi + 1 /\ batch.lo <= batch.hi /\ start <= batch.lo
    BY <1>2, <1>3, <2>1 DEF RangeStands, SafeInv, Position
  <2>3. start <= it.current
    BY <1>5, <2>2
  <2>4. MemoryStands' /\ RangeStands'
    BY <1>3, <2>1, <2>2, <2>3 DEF MemoryStands, RangeStands
  <2> QED
    BY <1>4, <2>4 DEF Settled
<1>9. CASE NotifyReorg
    BY <1>3, <1>9 DEF NotifyReorg
<1>10. CASE FetchFails \/ BatchCheckFails \/ SendFindsClosed \/ RangeDone
  <2>1. /\ stage' = "none" \/ (stage = "fetch" /\ stage' = "done")
        /\ UNCHANGED <<it, lastEnd, buffer, verdict, kept, stale>>
    BY <1>10 DEF FetchFails, BatchCheckFails, SendFindsClosed, RangeDone, ReportError,
                 listenerVars, handlerVars
  <2>2. MemoryStands' /\ RangeStands'
    BY <1>2, <1>3, <2>1, ChainStill DEF MemoryStands, RangeStands
  <2> QED
    BY <1>4, <2>2 DEF Settled
<1> QED
    BY <1>6, <1>7, <1>8, <1>9, <1>10 DEF RangeStep

\* Every step keeps what stands.
LEMMA NextSettled ==
    ASSUME IInv, IInv', SafeInv, Alone, Settled, [Next]_vars
    PROVE  Settled'
<1>1. CASE Environment
    BY <1>1, EnvironmentSettled
<1>2. CASE StartFails \/ SubscriptionEnds \/ CheckOfPreviousFails \/ RangeGaveUp \/ NotifyFindsClosed
  <2>1. pc' = "stopped"
    BY <1>2 DEF StartFails, SubscriptionEnds, CheckOfPreviousFails, RangeGaveUp,
                NotifyFindsClosed, Stop
  <2> QED
    BY <2>1 DEF Settled
<1>3. CASE \/ StreamLive \/ (\E block \in 1 .. MaxHeight : SyncLiveOnly(block)) \/ Subscribe
           \/ IgnoreLag \/ SkipHeader \/ IgnoreHeader \/ FirstHeader \/ SwitchToLive
    BY <1>3, StartSettled
<1>4. CASE ProcessHeader \/ NoReorg \/ ReorgDetected
    BY <1>4, TurnSettled
<1>5. CASE InitialRangeDone \/ RangeStreamed
    BY <1>5, ReturnSettled
<1>6. CASE Checking
  <2>1. /\ CheckStep
        /\ UNCHANGED <<chainVars, rangeVars, pc, start, prev, kept, stale, raced>>
    BY <1>6 DEF Checking, listenerVars, subscriptionVars, liveVars
  <2> QED
    BY <2>1, CheckingSettled
<1>7. CASE Ranging
  <2>1. RangeStep /\ UNCHANGED <<chainVars, pc, start, prev, raced>>
    BY <1>7 DEF Ranging, subscriptionVars, liveVars
  <2> QED
    BY <2>1, RangingSettled
<1>8. CASE UNCHANGED vars
  <2>1. UNCHANGED <<chainVars, handlerVars, rangeVars, pc, start, prev, kept, stale, raced>>
    BY <1>8 DEF vars, listenerVars, subscriptionVars, liveVars
  <2> QED
    BY <2>1, ChainStill, SettledStays
<1> QED
    BY <1>1, <1>2, <1>3, <1>4, <1>5, <1>6, <1>7, <1>8 DEF Next, Working, Starting, Streaming

\* Each delivered block that was reorged, however deep, is taken back and
\* streamed again before the scanner awaits its next header, unless the reorg
\* raced with the fetches of a range (common.rs:209-297, 411-431).
THEOREM LiveStreamSettled == ASSUME FinalityWaits PROVE Spec => []StreamSettled
<1>1. Init => Settled
  <2> SUFFICES ASSUME Init PROVE Settled
      OBVIOUS
  <2>1. pc = "start" /\ kept = {} /\ stale = {} /\ buffer = <<>>
    BY DEF Init, ListenerInit, HandlerInit
  <2> QED
    BY <2>1 DEF Settled, MemoryStands, TipStands, AnswerStands, RangeStands, InRange
<1>2. IInv /\ IInv' /\ SafeInv /\ Alone /\ Settled /\ [Next]_vars => Settled'
    BY NextSettled
<1>3. IInv /\ SafeInv /\ Settled => StreamSettled
  <2> SUFFICES ASSUME IInv, SafeInv, Settled, Quiet, ~raced
               PROVE  stale = {}
      BY DEF StreamSettled
  <2>1. TipStands /\ stale \subseteq kept
    BY DEF Settled, Quiet, IInv, ListenerTypeOK
  <2>2. CASE prev = NoBlock
    BY <2>1, <2>2 DEF TipStands, Quiet
  <2>3. CASE prev # NoBlock
    <3>1. Canonical(prev)
      BY <2>3 DEF Quiet, SafeInv, Tips, Seen
    <3> QED
      BY <2>1, <2>3, <3>1 DEF TipStands, Quiet
  <2> QED
    BY <2>2, <2>3
<1> QED
    BY <1>1, <1>2, <1>3, LiveInvariant, LiveSafety, PTL DEF Spec

-----------------------------------------------------------------------------
(* Sync: the rounds before the live stream. *)

\* Where the sync task stands, and with it the calls it makes.
SyncControl ==
    /\ phase \in {"start", "rounds", "latest"} => pc \in {"start", "stopped"}
    /\ phase = "announce" => pc \in {"first", "stopped"}
    /\ phase = "live" => pc \notin {"start", "subscribe"}
    /\ phase # "rounds" => scan = "idle"

\* Where the iterator of the round stands, and what its counters say about it.
Iteration ==
    /\ CountsWhatIsLeft(iter)
    /\ iter.range_size = MaxBlockRange
    /\ iter.end <= MaxHeight
    /\ iter.current <= MaxHeight + 1

\* The consumer holds everything from the start block to where the round stands.
Progress ==
    /\ from = startBlock /\ to = confirmedTip /\ from < to
    /\ scan = "finality" => kept = origin .. from - 1
    /\ scan = "finalized" =>
        /\ iter.end = Least(finalizedNum, to)
        /\ from <= iter.current /\ iter.current <= Greatest(from, iter.end + 1)
        /\ kept = origin .. iter.current - 1
    /\ scan = "tip" => kept = origin .. NonFinalizedStart - 1
    /\ scan = "pass" =>
        /\ iter.end = to
        /\ NonFinalizedStart <= iter.current /\ iter.current <= to + 1
        /\ kept = origin .. iter.current - 1
    /\ scan \in {"reorged", "open"} => kept = origin .. to
    /\ scan \in {"tip", "pass", "reorged"} => NonFinalizedStart <= to

\* Every round begins where the ones before it ended, and so does the live stream.
Rounds ==
    /\ origin <= startBlock
    /\ phase = "start" => kept = {}
    /\ phase = "rounds" /\ scan = "idle" => kept = origin .. startBlock - 1
    /\ phase = "rounds" /\ scan # "idle" => Progress
    /\ phase = "latest" => startBlock < confirmedTip /\ kept = origin .. confirmedTip
    /\ phase = "announce" => start = startBlock /\ kept = origin .. start - 1

\* The variables that sync adds to the live stream have their types.
RoundTypes ==
    /\ HistoricalTypeOK
    /\ phase \in {"start", "rounds", "latest", "announce", "live"}
    /\ origin \in 0 .. MaxHeight
    /\ startBlock \in 0 .. MaxHeight + 1
    /\ confirmedTip \in 0 .. MaxHeight

\* The inductive invariant.
SyncInv == IInv /\ RoundTypes /\ SyncControl /\ Iteration /\ Rounds

-----------------------------------------------------------------------------

\* The variables of a round are numbers.
LEMMA CallNumbers ==
    ASSUME SyncInv
    PROVE  /\ from \in Nat /\ from <= MaxHeight /\ to \in Nat /\ to <= MaxHeight
           /\ finalizedNum \in Nat /\ finalizedNum <= MaxHeight
           /\ finalized \in Nat /\ finalized <= Height /\ Height \in Nat /\ Height <= MaxHeight
           /\ origin \in Nat /\ startBlock \in Nat /\ startBlock <= MaxHeight + 1
           /\ confirmedTip \in Nat /\ confirmedTip <= MaxHeight
           /\ start \in Nat /\ MaxHeight \in Nat
           /\ kept \subseteq 0 .. MaxHeight /\ stale \subseteq kept
           /\ iter \in Iterator /\ iter.current \in Nat /\ iter.end \in Nat
           /\ HasNext(iter) <=> iter.current <= iter.end
<1>1. Height \in Nat
    BY LenProperties DEF SyncInv, IInv, ChainTypeOK, Height
<1>2. iter \in Iterator /\ CountsWhatIsLeft(iter)
    BY DEF SyncInv, RoundTypes, HistoricalTypeOK, Iteration
<1>3. iter.current \in Nat /\ iter.end \in Nat /\ (HasNext(iter) <=> iter.current <= iter.end)
    BY <1>2, IteratorNumbers, HasNextIffLeft
<1>4. MaxHeight \in Nat /\ ChainTypeOK /\ ListenerTypeOK /\ HistoricalTypeOK /\ LiveTypeOK
    BY Numbers DEF SyncInv, RoundTypes, IInv
<1>5. origin \in Nat /\ startBlock \in Nat /\ startBlock <= MaxHeight + 1
      /\ confirmedTip \in Nat /\ confirmedTip <= MaxHeight
    BY <1>4 DEF SyncInv, RoundTypes
<1> QED
    BY <1>1, <1>2, <1>3, <1>4, <1>5
    DEF ChainTypeOK, ListenerTypeOK, HistoricalTypeOK, LiveTypeOK

\* Where the part of a round that is not finalized begins, and what a
\* ReorgDetected leaves (historical_range_handler.rs:97, 115, 150-154).
LEMMA StartsAfterFinalized ==
    ASSUME SyncInv, from <= to
    PROVE  /\ NonFinalizedStart \in Nat /\ NonFinalizedStart <= MaxHeight + 1
           /\ from <= NonFinalizedStart
           /\ NonFinalizedStart = Greatest(from, Least(finalizedNum, to) + 1)
           /\ NonFinalizedStart <= to => MinCommonAncestor = NonFinalizedStart - 1
           /\ NonFinalizedStart > to => NonFinalizedStart = to + 1
BY CallNumbers
DEF NonFinalizedStart, MinCommonAncestor, Greatest, Least, SaturatingSub

\* A pass is about to begin with a new iterator (historical_range_handler.rs:128).
LEMMA PassBegins ==
    ASSUME SyncInv, from <= to
    PROVE  /\ Pass \in Iterator /\ CountsWhatIsLeft(Pass)
           /\ Pass.current = NonFinalizedStart /\ Pass.end = to /\ Pass.range_size = MaxBlockRange
<1>1. NonFinalizedStart \in BlockNumber /\ to \in BlockNumber
    BY CallNumbers, StartsAfterFinalized, Numbers DEF BlockNumber
<1>2. MaxBlockRange \in BlockNumber \ {0}
    BY Numbers
<1> QED
    BY <1>1, <1>2, ForwardCounts DEF Pass

\* The iterator of a round that has not begun.
LEMMA NoIterationCounts ==
    /\ NoIteration \in Iterator /\ CountsWhatIsLeft(NoIteration)
    /\ NoIteration.current = 1 /\ NoIteration.end = 0
    /\ NoIteration.range_size = MaxBlockRange
<1>1. 0 \in BlockNumber /\ 1 \in BlockNumber /\ MaxBlockRange \in BlockNumber \ {0}
    BY Numbers DEF BlockNumber
<1> QED
    BY <1>1, ForwardCounts DEF NoIteration

-----------------------------------------------------------------------------

\* Nothing of the stream changes.
LEMMA LiveStutters == ASSUME IInv, UNCHANGED vars PROVE IInv'
BY Frames DEF vars, IInv, liveVars

\* The task that streams live does not go back to its start.
LEMMA LiveGoesOn ==
    ASSUME Streaming \/ SubscriptionEnds
    PROVE  pc \notin {"start", "subscribe"} => pc' \notin {"start", "subscribe"}
BY DEF Streaming, IgnoreLag, SkipHeader, FirstHeader, SwitchToLive, InitialRange,
       InitialRangeDone, ProcessHeader, IgnoreHeader, NoReorg, ReorgDetected, StreamNextBatch,
       CheckOfPreviousFails, RangeStreamed, RangeGaveUp, NotifyFindsClosed, Stop, Checking,
       Ranging, SubscriptionEnds, liveVars

\* The live stream runs, and all around it, while the rounds stand still.
LEMMA AroundInv ==
    ASSUME SyncInv, Around \/ Live \/ LiveSubscriptionEnds
    PROVE  SyncInv'
<1>1. /\ UNCHANGED <<scan, from, to, finalizedNum, iter, endBlock>>
      /\ UNCHANGED <<phase, origin, startBlock, confirmedTip>>
      /\ Environment \/ Streaming \/ SubscriptionEnds
      /\ phase = "live" \/ Environment
    BY DEF Around, Live, LiveSubscriptionEnds, historicalVars, syncVars
<1>2. IInv'
    BY <1>1, StepInv DEF SyncInv
<1>3. RoundTypes' /\ Iteration'
    BY <1>1, <1>2
    DEF SyncInv, RoundTypes, HistoricalTypeOK, Iteration, CountsWhatIsLeft
<1>4. CASE Environment
  <2>1. UNCHANGED <<kept, pc, start>>
    BY <1>4 DEF Environment, NodeMines, NodeReorgs, Orphan, NodeFinalizes, ReceiverDropped,
                DropReceiver, listenerVars, liveVars
  <2>2. SyncControl' /\ Rounds'
    BY <1>1, <2>1 DEF SyncInv, SyncControl, Rounds, Progress, NonFinalizedStart
  <2> QED
    BY <1>2, <1>3, <2>2 DEF SyncInv
<1>5. CASE phase = "live" /\ ~Environment
  <2>1. SyncControl'
    BY <1>1, <1>5, LiveGoesOn DEF SyncInv, SyncControl
  <2>2. Rounds'
    BY <1>1, <1>5 DEF SyncInv, Rounds
  <2> QED
    BY <1>2, <1>3, <2>1, <2>2 DEF SyncInv
<1> QED
    BY <1>1, <1>4, <1>5

\* The task ends with its error told, or nobody to tell.
LEMMA SyncEndInv ==
    ASSUME SyncInv, End, ReportError \/ UNCHANGED listenerVars
    PROVE  SyncInv'
<1>1. /\ Stop /\ UNCHANGED <<kept, scan, from, to, finalizedNum, iter, endBlock>>
      /\ UNCHANGED <<phase, origin, startBlock, confirmedTip>>
      /\ pc' = "stopped" /\ start' = start
    BY DEF End, Stop, ReportError, listenerVars, historicalVars, syncVars
<1>2. IInv'
    BY Frames DEF SyncInv, IInv, End
<1>3. RoundTypes' /\ Iteration'
    BY <1>1, <1>2
    DEF SyncInv, RoundTypes, HistoricalTypeOK, Iteration, CountsWhatIsLeft
<1>4. SyncControl' /\ Rounds'
    BY <1>1 DEF SyncInv, SyncControl, Rounds, Progress, NonFinalizedStart
<1> QED
    BY <1>2, <1>3, <1>4 DEF SyncInv

-----------------------------------------------------------------------------
(* The steps of the sync task itself. *)

\* The rounds begin at the start block (sync_handler.rs:90-118).
LEMMA SpawnInv ==
    ASSUME SyncInv, NEW block \in 0 .. MaxHeight, SpawnCatchUp(block)
    PROVE  SyncInv' /\ UNCHANGED vars
<1>1. /\ UNCHANGED vars /\ kept' = kept /\ pc' = pc
      /\ UNCHANGED <<scan, from, to, finalizedNum, iter, endBlock>>
      /\ phase = "start" /\ phase' = "rounds" /\ origin' = block /\ startBlock' = block
      /\ confirmedTip' = Confirmed(Height)
    BY DEF SpawnCatchUp, vars, liveUnchanged, liveVars, historicalVars, listenerVars
<1>2. Confirmed(Height) \in 0 .. MaxHeight
  <2>1. Height \in 0 .. MaxHeight
    BY CallNumbers
  <2> QED
    BY <2>1, Numbers, ConfirmedTypes
<1>3. IInv'
    BY <1>1, LiveStutters DEF SyncInv
<1>4. RoundTypes' /\ Iteration'
    BY <1>1, <1>2, <1>3, Numbers
    DEF SyncInv, RoundTypes, HistoricalTypeOK, Iteration, CountsWhatIsLeft
<1>5. SyncControl'
    BY <1>1 DEF SyncInv, SyncControl
<1>6. Rounds'
  <2>1. scan = "idle" /\ kept = {}
    BY <1>1 DEF SyncInv, SyncControl, Rounds
  <2>2. block \in Nat /\ block .. block - 1 = {}
    BY Numbers
  <2> QED
    BY <1>1, <2>1, <2>2 DEF Rounds
<1> QED
    BY <1>1, <1>3, <1>4, <1>5, <1>6 DEF SyncInv

\* A round is called for, and its result taken (sync_handler.rs:150-173).
LEMMA RoundInv ==
    ASSUME SyncInv, pc # "stopped", BeginRound \/ (RoundDone /\ phase = "rounds")
    PROVE  SyncInv' /\ UNCHANGED vars
<1>1. /\ UNCHANGED vars /\ kept' = kept /\ pc' = pc
      /\ UNCHANGED <<origin, startBlock, confirmedTip>>
    BY DEF BeginRound, RoundDone, vars, liveUnchanged, liveVars, listenerVars, syncVars
<1>2. IInv'
    BY <1>1, LiveStutters DEF SyncInv
<1>3. CASE BeginRound
  <2>1. /\ phase = "rounds" /\ phase' = "rounds" /\ scan = "idle" /\ scan' = "finality"
        /\ startBlock < confirmedTip /\ from' = startBlock /\ to' = confirmedTip
        /\ UNCHANGED <<finalizedNum, iter, endBlock>>
    BY <1>3 DEF BeginRound, StreamBlocks, syncVars
  <2>2. from' \in 0 .. MaxHeight /\ to' \in 0 .. MaxHeight /\ startBlock <= confirmedTip
    BY <2>1, CallNumbers
  <2>3. RoundTypes' /\ Iteration'
    BY <1>1, <1>2, <2>1, <2>2
    DEF SyncInv, RoundTypes, HistoricalTypeOK, Iteration, CountsWhatIsLeft
  <2>4. SyncControl'
    BY <1>1, <2>1 DEF SyncInv, SyncControl
  <2>5. Rounds'
    BY <1>1, <2>1, <2>2 DEF SyncInv, Rounds, Progress
  <2> QED
    BY <1>1, <1>2, <2>3, <2>4, <2>5 DEF SyncInv
<1>4. CASE RoundDone /\ phase = "rounds"
  <2>1. /\ scan = "open" /\ scan' = "idle" /\ phase' = "latest" /\ iter' = NoIteration
        /\ from' = 0 /\ to' = 0 /\ finalizedNum' = 0 /\ endBlock' = NoBlock
    BY <1>4 DEF RoundDone, ScanTaken
  <2>2. RoundTypes'
    BY <1>1, <1>2, <2>1, NoIterationCounts, Numbers
    DEF SyncInv, RoundTypes, HistoricalTypeOK, OptionalBlock
  <2>3. Iteration'
    BY <2>1, NoIterationCounts, Numbers DEF Iteration, CountsWhatIsLeft
  <2>4. SyncControl'
    BY <1>1, <1>4, <2>1 DEF SyncInv, SyncControl
  <2>5. Rounds'
    BY <1>1, <1>4, <2>1 DEF SyncInv, Rounds, Progress
  <2> QED
    BY <1>1, <1>2, <2>2, <2>3, <2>4, <2>5 DEF SyncInv
<1> QED
    BY <1>3, <1>4

\* The tip has moved on: the next round begins after the last one
\* (sync_handler.rs:174-183).
LEMMA NextRoundInv == ASSUME SyncInv, NextRound PROVE SyncInv' /\ UNCHANGED vars
<1>1. /\ UNCHANGED vars /\ kept' = kept /\ pc' = pc
      /\ UNCHANGED <<scan, from, to, finalizedNum, iter, endBlock>>
      /\ phase = "latest" /\ phase' = "rounds" /\ origin' = origin
      /\ startBlock' = confirmedTip + 1 /\ confirmedTip' = Confirmed(Height)
    BY DEF NextRound, vars, liveUnchanged, liveVars, historicalVars, listenerVars
<1>2. Confirmed(Height) \in 0 .. MaxHeight
  <2>1. Height \in 0 .. MaxHeight
    BY CallNumbers
  <2> QED
    BY <2>1, Numbers, ConfirmedTypes
<1>3. startBlock' \in 0 .. MaxHeight + 1
    BY <1>1, CallNumbers
<1>4. IInv'
    BY <1>1, LiveStutters DEF SyncInv
<1>5. RoundTypes' /\ Iteration'
    BY <1>1, <1>2, <1>3, <1>4
    DEF SyncInv, RoundTypes, HistoricalTypeOK, Iteration, CountsWhatIsLeft
<1>6. SyncControl'
    BY <1>1 DEF SyncInv, SyncControl
<1>7. Rounds'
  <2>1. scan = "idle" /\ kept = origin .. confirmedTip /\ startBlock <= confirmedTip
        /\ origin <= startBlock
    BY <1>1, CallNumbers DEF SyncInv, SyncControl, Rounds
  <2>2. origin <= confirmedTip + 1 /\ (confirmedTip + 1) - 1 = confirmedTip
    BY <2>1, CallNumbers
  <2> QED
    BY <1>1, <2>1, <2>2 DEF Rounds
<1> QED
    BY <1>1, <1>4, <1>5, <1>6, <1>7 DEF SyncInv

-----------------------------------------------------------------------------
(* The steps of a round. *)

\* A step of a round leaves all else alone.
LEMMA CatchingFrame ==
    ASSUME SyncInv, Catching, scan # "idle", scan' # "idle",
           ListenerTypeOK', HistoricalTypeOK', Iteration', Progress'
    PROVE  SyncInv'
<1>1. /\ UNCHANGED <<chainVars, handlerVars, rangeVars, subscriptionVars, liveVars>>
      /\ UNCHANGED <<phase, origin, startBlock, confirmedTip, pc>> /\ phase = "rounds"
    BY DEF Catching, liveUnchanged, liveVars, syncVars, SyncInv, SyncControl
<1>2. IInv'
    BY <1>1, Frames DEF SyncInv, IInv, liveVars
<1>3. RoundTypes'
    BY <1>1 DEF SyncInv, RoundTypes
<1>4. SyncControl' /\ Rounds'
    BY <1>1 DEF SyncInv, SyncControl, Rounds
<1> QED
    BY <1>2, <1>3, <1>4 DEF SyncInv

\* What a round that is under way has to go by.
LEMMA UnderWay ==
    ASSUME SyncInv, Catching
    PROVE  /\ scan \in {"finality", "finalized", "tip", "pass", "reorged"}
           /\ phase = "rounds" /\ Progress /\ from <= to /\ origin <= from /\ origin' = origin
           /\ startBlock' = startBlock /\ confirmedTip' = confirmedTip
<1>1. scan \in {"finality", "finalized", "tip", "pass", "reorged"}
    BY DEF Catching, HistoricalStep, ReadFinalized, SendRange, FinalizedStreamed, FetchEndBlock,
           EndBlockFails, EndBlockStands, RefetchFails, EndBlockReorged, StreamAgain,
           ScanFindsClosed, PassStreamed
<1>2. phase = "rounds"
    BY <1>1 DEF SyncInv, SyncControl
<1>3. Progress /\ origin <= startBlock
    BY <1>1, <1>2 DEF SyncInv, Rounds
<1> QED
    BY <1>1, <1>2, <1>3, CallNumbers DEF Progress, Catching, syncVars

\* The finalized block is read (historical_range_handler.rs:74-82).
LEMMA ReadFinalizedInv == ASSUME SyncInv, Catching, ReadFinalized PROVE SyncInv'
<1>1. /\ UNCHANGED <<open, kept, stale, errored, from, to, endBlock>>
      /\ scan = "finality" /\ scan' = "finalized" /\ finalizedNum' \in {finalized, 0}
      /\ iter' = Forward(from, Least(finalizedNum', to), MaxBlockRange)
    BY DEF ReadFinalized, listenerVars
<1>2. PICK e \in Nat : e = Least(finalizedNum', to)
    BY <1>1, CallNumbers, Numbers DEF Least
<1>3. finalizedNum' \in 0 .. MaxHeight /\ e <= MaxHeight
    BY <1>1, <1>2, CallNumbers DEF Least
<1>4. /\ iter' \in Iterator /\ CountsWhatIsLeft(iter') /\ iter'.current = from
      /\ iter'.end = e /\ iter'.range_size = MaxBlockRange
  <2>1. from \in BlockNumber /\ e \in BlockNumber /\ MaxBlockRange \in BlockNumber \ {0}
    BY <1>3, CallNumbers, Numbers DEF BlockNumber
  <2>2. iter' = Forward(from, e, MaxBlockRange)
    BY <1>1, <1>2
  <2> QED
    BY <2>1, <2>2, ForwardCounts
<1>5. ListenerTypeOK' /\ HistoricalTypeOK'
    BY <1>1, <1>3, <1>4
    DEF SyncInv, IInv, RoundTypes, ListenerTypeOK, HistoricalTypeOK
<1>6. Iteration'
    BY <1>3, <1>4, CallNumbers DEF Iteration, CountsWhatIsLeft
<1>7. Progress'
  <2>1. from <= Greatest(from, e + 1)
    BY CallNumbers DEF Greatest
  <2>2. Greatest(from, iter.end + 1)' = Greatest(from, e + 1)
    BY <1>1, <1>4
  <2> QED
    BY <1>1, <1>2, <1>4, <2>1, <2>2, CallNumbers, UnderWay DEF Progress
<1> QED
    BY <1>1, <1>5, <1>6, <1>7, CatchingFrame

\* What a batch adds to the blocks the consumer holds.
LEMMA BatchExtends ==
    ASSUME SyncInv, phase = "rounds", scan \in {"finalized", "pass"}, iter.current <= iter.end
    PROVE  /\ kept = origin .. iter.current - 1 /\ origin <= iter.current
           /\ ForwardBatch(iter).lo = iter.current /\ ForwardBatch(iter).hi \in Nat
           /\ ForwardBatch(iter).lo <= ForwardBatch(iter).hi
           /\ ForwardBatch(iter).hi <= iter.end
           /\ ForwardAdvance(iter) \in Iterator /\ CountsWhatIsLeft(ForwardAdvance(iter))
           /\ ForwardAdvance(iter).current = ForwardBatch(iter).hi + 1
           /\ ForwardAdvance(iter).end = iter.end
           /\ ForwardAdvance(iter).range_size = MaxBlockRange
           /\ kept \cup Blocks(ForwardBatch(iter)) = origin .. ForwardAdvance(iter).current - 1
<1> DEFINE b == ForwardBatch(iter)
           j == ForwardAdvance(iter)
<1>1. /\ CountsWhatIsLeft(iter) /\ iter.range_size = MaxBlockRange /\ iter.end < MaxU64
      /\ iter \in Iterator
    BY CallNumbers, Numbers DEF SyncInv, Iteration
<1>2. /\ b.lo = iter.current /\ b.hi \in Nat /\ iter.current <= b.hi /\ b.hi <= iter.end
      /\ j \in Iterator /\ CountsWhatIsLeft(j)
      /\ j.current = b.hi + 1 /\ j.end = iter.end /\ j.range_size = iter.range_size
    BY <1>1, AdvanceCounts
<1>3. Progress /\ from <= to /\ origin <= from
    BY CallNumbers DEF SyncInv, Rounds, Progress
<1>4. kept = origin .. iter.current - 1 /\ from <= iter.current
  <2>1. scan = "pass" => NonFinalizedStart <= iter.current
    BY <1>3 DEF Progress
  <2>2. from <= iter.current
    BY <1>3, <2>1, CallNumbers, StartsAfterFinalized DEF Progress
  <2> QED
    BY <1>3, <2>2 DEF Progress
<1>5. origin <= iter.current
    BY <1>3, <1>4, CallNumbers
<1> HIDE DEF b, j
<1>6. kept \cup (b.lo .. b.hi) = origin .. j.current - 1
  <2>1. origin \in Int /\ iter.current \in Int /\ b.hi \in Int
    BY <1>2, CallNumbers
  <2>2. kept = origin .. iter.current - 1 /\ b.lo = iter.current /\ j.current - 1 = b.hi
    BY <1>2, <1>4
  <2>3. origin <= iter.current /\ iter.current <= b.hi
    BY <1>2, <1>5
  <2> QED
    BY <2>1, <2>2, <2>3
<1> QED
    BY <1>1, <1>2, <1>4, <1>5, <1>6 DEF b, j, Blocks

\* A batch goes out (historical_range_handler.rs:84-93, 130-139).
LEMMA SendRangeInv ==
    ASSUME SyncInv, Catching, SendRange
    PROVE  SyncInv' /\ \A n \in stale' : n \in stale \/ Height < n
<1>1. /\ UNCHANGED <<open, errored, scan, from, to, finalizedNum, endBlock>>
      /\ scan \in {"finalized", "pass"} /\ iter.current <= iter.end
      /\ iter' = ForwardAdvance(iter) /\ kept' = kept \cup Blocks(ForwardBatch(iter))
      /\ stale' = (stale \ Blocks(ForwardBatch(iter)))
                    \cup {n \in Blocks(ForwardBatch(iter)) : n > Height}
    BY CallNumbers DEF SendRange, Deliver
<1>2. PICK hi \in Nat :
      /\ hi = ForwardBatch(iter).hi /\ iter.current <= hi /\ hi <= iter.end
      /\ iter' \in Iterator /\ CountsWhatIsLeft(iter')
      /\ iter'.current = hi + 1 /\ iter'.end = iter.end /\ iter'.range_size = MaxBlockRange
      /\ kept' = origin .. iter'.current - 1
      /\ Blocks(ForwardBatch(iter)) = iter.current .. hi
  <2>1. Blocks(ForwardBatch(iter)) = ForwardBatch(iter).lo .. ForwardBatch(iter).hi
    BY DEF Blocks
  <2> QED
    BY <1>1, <2>1, UnderWay, BatchExtends
<1>3. stale' = (stale \ (iter.current .. hi)) \cup {n \in iter.current .. hi : n > Height}
    BY <1>1, <1>2
<1>4. iter.end <= MaxHeight
    BY DEF SyncInv, Iteration
<1>5. ListenerTypeOK'
  <2>1. kept' = origin .. hi
    BY <1>2
  <2>2. kept' \subseteq 0 .. MaxHeight
    <3>1. hi <= MaxHeight /\ origin \in Nat /\ MaxHeight \in Nat
      BY <1>2, <1>4, CallNumbers
    <3> QED
      BY <2>1, <3>1
  <2>3. stale' \subseteq kept'
    BY <1>1, CallNumbers
  <2> QED
    BY <1>1, <2>2, <2>3 DEF SyncInv, IInv, ListenerTypeOK
<1>6. HistoricalTypeOK'
    BY <1>1, <1>2 DEF SyncInv, RoundTypes, HistoricalTypeOK
<1>7. Iteration'
  <2>1. iter'.current <= MaxHeight + 1
    <3>1. iter.end \in Nat /\ MaxHeight \in Nat
      BY CallNumbers
    <3>2. hi <= MaxHeight
      BY <1>2, <1>4, <3>1
    <3> QED
      BY <1>2, <3>1, <3>2
  <2> QED
    BY <1>2, <1>4, <2>1 DEF Iteration, CountsWhatIsLeft
<1>8. Progress'
  <2>1. NonFinalizedStart' = NonFinalizedStart
    BY <1>1 DEF NonFinalizedStart
  <2>2. CASE scan = "finalized"
    <3>1. iter.end = Least(finalizedNum, to) /\ from <= iter.current
      BY <2>2, UnderWay DEF Progress
    <3>2. from <= iter'.current /\ iter'.current <= Greatest(from, iter.end + 1)
      <4>1. /\ from \in Nat /\ iter.current \in Nat /\ iter.end \in Nat
            /\ from <= iter.current /\ iter.current <= hi /\ hi <= iter.end
        BY <1>2, <3>1, CallNumbers
      <4>2. from <= hi + 1 /\ hi + 1 <= Greatest(from, iter.end + 1)
        BY <4>1 DEF Greatest
      <4> QED
        BY <1>2, <4>2
    <3>3. Greatest(from, iter.end + 1)' = Greatest(from, iter.end + 1)
      BY <1>1, <1>2
    <3> QED
      BY <1>1, <1>2, <2>2, <3>1, <3>2, <3>3, UnderWay DEF Progress
  <2>3. CASE scan = "pass"
    <3>1. iter.end = to /\ NonFinalizedStart <= iter.current /\ NonFinalizedStart <= to
      BY <2>3, UnderWay DEF Progress
    <3>2. NonFinalizedStart <= iter'.current /\ iter'.current <= to + 1
      <4>1. NonFinalizedStart \in Nat /\ iter.current \in Nat /\ to \in Nat
        BY CallNumbers, StartsAfterFinalized, UnderWay
      <4>2. NonFinalizedStart <= hi /\ hi <= to
        BY <1>2, <3>1, <4>1
      <4> QED
        BY <1>2, <4>1, <4>2
    <3> QED
      BY <1>1, <1>2, <2>1, <2>3, <3>1, <3>2, UnderWay DEF Progress
  <2> QED
    BY <1>1, <2>2, <2>3
<1>9. \A n \in stale' : n \in stale \/ Height < n
    BY <1>3, CallNumbers
<1>10. SyncInv'
    BY <1>1, <1>5, <1>6, <1>7, <1>8, CatchingFrame
<1> QED
    BY <1>9, <1>10

\* A step that only moves the call on, or reports an error
\* (historical_range_handler.rs:97-125, 141-146, 150-199).
LEMMA MovesOnInv ==
    ASSUME SyncInv, Catching,
           FinalizedStreamed \/ EndBlockFails \/ EndBlockStands \/ RefetchFails
           \/ EndBlockReorged \/ ScanFindsClosed
    PROVE  SyncInv' /\ stale' = stale
<1>1. /\ UNCHANGED <<open, kept, stale, from, to, finalizedNum, iter>>
      /\ errored' \in {errored, errored \/ open}
      /\ endBlock' = endBlock \/ (endBlock' = BlockAt(to) /\ to <= Height)
    BY DEF FinalizedStreamed, EndBlockFails, EndBlockStands, RefetchFails, EndBlockReorged,
           ScanFindsClosed, PassStreamed, ReportError, listenerVars
<1>2. scan' \in {"open", "tip", "closed", "reorged"} /\ scan' # "idle" /\ scan # "idle"
    BY UnderWay
    DEF FinalizedStreamed, EndBlockFails, EndBlockStands, RefetchFails, EndBlockReorged,
        ScanFindsClosed, PassStreamed
<1>3. ListenerTypeOK'
    BY <1>1 DEF SyncInv, IInv, ListenerTypeOK
<1>4. HistoricalTypeOK'
  <2>1. endBlock' \in OptionalBlock
    BY <1>1, BlockAtType, CallNumbers
    DEF SyncInv, IInv, RoundTypes, HistoricalTypeOK, OptionalBlock
  <2> QED
    BY <1>1, <1>2, <2>1 DEF SyncInv, RoundTypes, HistoricalTypeOK
<1>5. Iteration'
    BY <1>1 DEF SyncInv, Iteration, CountsWhatIsLeft
<1>6. NonFinalizedStart' = NonFinalizedStart
    BY <1>1 DEF NonFinalizedStart
<1>7. CASE FinalizedStreamed
  <2>1. /\ scan = "finalized" /\ iter.current > iter.end
        /\ scan' = IF NonFinalizedStart > to THEN "open" ELSE "tip"
    BY <1>7, CallNumbers DEF FinalizedStreamed
  <2>2. /\ iter.end = Least(finalizedNum, to) /\ from <= iter.current
        /\ iter.current <= Greatest(from, iter.end + 1) /\ kept = origin .. iter.current - 1
    BY <2>1, UnderWay DEF Progress
  <2>3. iter.current = NonFinalizedStart
    <3>1. iter.end \in Nat /\ iter.current \in Nat /\ from \in Nat
      BY CallNumbers
    <3>2. iter.current = Greatest(from, iter.end + 1)
      BY <2>1, <2>2, <3>1 DEF Greatest
    <3> QED
      BY <2>2, <3>2 DEF NonFinalizedStart
  <2>4. NonFinalizedStart > to => kept = origin .. to
    BY <2>2, <2>3, CallNumbers, StartsAfterFinalized, UnderWay
  <2>5. NonFinalizedStart <= to \/ NonFinalizedStart > to
    BY CallNumbers, StartsAfterFinalized, UnderWay
  <2>6. Progress'
    BY <1>1, <1>6, <2>1, <2>2, <2>3, <2>4, <2>5, UnderWay DEF Progress
  <2> QED
    BY <1>1, <1>2, <1>3, <1>4, <1>5, <2>6, CatchingFrame
<1>8. CASE EndBlockStands \/ RefetchFails \/ EndBlockReorged
  <2>1. scan = "pass" /\ iter.current > iter.end /\ scan' \in {"open", "reorged"}
    BY <1>8, CallNumbers DEF EndBlockStands, RefetchFails, EndBlockReorged, PassStreamed
  <2>2. iter.end = to /\ iter.current <= to + 1 /\ kept = origin .. iter.current - 1
        /\ NonFinalizedStart <= to
    BY <2>1, UnderWay DEF Progress
  <2>3. iter.current - 1 = to
    <3>1. iter.current \in Nat /\ to \in Nat
      BY CallNumbers
    <3> QED
      BY <2>1, <2>2, <3>1
  <2>4. Progress'
    BY <1>1, <1>6, <2>1, <2>2, <2>3, UnderWay DEF Progress
  <2> QED
    BY <1>1, <1>2, <1>3, <1>4, <1>5, <2>4, CatchingFrame
<1>9. CASE EndBlockFails \/ ScanFindsClosed
  <2>1. scan' = "closed"
    BY <1>9 DEF EndBlockFails, ScanFindsClosed
  <2>2. Progress'
    BY <1>1, <2>1, UnderWay DEF Progress
  <2> QED
    BY <1>1, <1>2, <1>3, <1>4, <1>5, <2>2, CatchingFrame
<1> QED
    BY <1>7, <1>8, <1>9

\* A pass begins, the first one or one after a ReorgDetected
\* (historical_range_handler.rs:117-128, 147-160).
LEMMA PassBeginsInv ==
    ASSUME SyncInv, Catching, FetchEndBlock \/ StreamAgain
    PROVE  SyncInv' /\ stale' \subseteq stale
<1>1. /\ UNCHANGED <<open, errored, from, to, finalizedNum>>
      /\ scan \in {"tip", "reorged"} /\ scan' = "pass" /\ iter' = Pass
      /\ stale' \subseteq stale /\ stale' \subseteq kept'
    BY CallNumbers DEF FetchEndBlock, StreamAgain, Rollback, listenerVars
<1>2. NonFinalizedStart <= to /\ NonFinalizedStart' = NonFinalizedStart
    BY <1>1, UnderWay DEF Progress, NonFinalizedStart
<1>3. kept' = origin .. NonFinalizedStart - 1
  <2>1. CASE FetchEndBlock
    BY <2>1, UnderWay DEF FetchEndBlock, listenerVars, Progress
  <2>2. CASE StreamAgain
    <3>1. kept' = {n \in kept : n <= MinCommonAncestor} /\ kept = origin .. to
      BY <2>2, UnderWay DEF StreamAgain, Rollback, Progress
    <3>2. MinCommonAncestor = NonFinalizedStart - 1 /\ NonFinalizedStart \in Nat
      BY <1>2, StartsAfterFinalized, UnderWay
    <3>3. \A n \in origin .. to : n <= NonFinalizedStart - 1 <=> n \in origin .. NonFinalizedStart - 1
      BY <3>2, CallNumbers
    <3>4. \A n \in origin .. NonFinalizedStart - 1 : n \in origin .. to
      BY <1>2, <3>2, CallNumbers
    <3> QED
      BY <3>1, <3>2, <3>3, <3>4
  <2> QED
    BY <2>1, <2>2
<1>4. /\ iter' \in Iterator /\ CountsWhatIsLeft(iter') /\ iter'.current = NonFinalizedStart
      /\ iter'.end = to /\ iter'.range_size = MaxBlockRange
    BY <1>1, PassBegins, UnderWay
<1>5. endBlock' \in OptionalBlock
    BY BlockAtType, CallNumbers
    DEF FetchEndBlock, StreamAgain, SyncInv, IInv, RoundTypes, HistoricalTypeOK, OptionalBlock
<1>6. ListenerTypeOK'
  <2>1. kept' \subseteq 0 .. MaxHeight
    BY <1>2, <1>3, CallNumbers, StartsAfterFinalized, UnderWay
  <2> QED
    BY <1>1, <2>1 DEF SyncInv, IInv, ListenerTypeOK
<1>7. HistoricalTypeOK'
    BY <1>1, <1>4, <1>5 DEF SyncInv, RoundTypes, HistoricalTypeOK
<1>8. Iteration'
    BY <1>2, <1>4, CallNumbers, StartsAfterFinalized, UnderWay DEF Iteration, CountsWhatIsLeft
<1>9. Progress'
    BY <1>1, <1>2, <1>3, <1>4, CallNumbers, StartsAfterFinalized, UnderWay DEF Progress
<1>10. scan' # "idle" /\ scan # "idle"
    BY <1>1
<1> QED
    BY <1>1, <1>6, <1>7, <1>8, <1>9, <1>10, CatchingFrame

\* Whatever a round does, what it makes stale is above the finalized block.
LEMMA CatchingInv ==
    ASSUME SyncInv, Catching
    PROVE  SyncInv' /\ \A n \in stale' : n \in stale \/ Height < n
<1>1. CASE ReadFinalized
    BY <1>1, ReadFinalizedInv DEF ReadFinalized, listenerVars
<1>2. CASE SendRange
    BY <1>2, SendRangeInv
<1>3. CASE FinalizedStreamed \/ EndBlockFails \/ EndBlockStands \/ RefetchFails
           \/ EndBlockReorged \/ ScanFindsClosed
    BY <1>3, MovesOnInv
<1>4. CASE FetchEndBlock \/ StreamAgain
    BY <1>4, PassBeginsInv
<1> QED
    BY <1>1, <1>2, <1>3, <1>4 DEF Catching, HistoricalStep

-----------------------------------------------------------------------------
(* From the rounds to the live stream. *)

\* The rounds are over: subscribe (sync_handler.rs:193-207).
LEMMA TransitionInv ==
    ASSUME SyncInv, pc # "stopped", TransitionToLive
    PROVE  /\ SyncInv' /\ pc = "start" /\ pc' = "first" /\ kept' = kept
           /\ kept = origin .. startBlock - 1 /\ start' = startBlock
<1>1. /\ UNCHANGED <<chainVars, listenerVars, handlerVars, rangeVars, subscriptionVars, kept>>
      /\ UNCHANGED <<notify, batchStart, prev, incoming>>
      /\ UNCHANGED <<scan, from, to, finalizedNum, iter, endBlock, origin, startBlock, confirmedTip>>
      /\ phase = "rounds" /\ startBlock >= confirmedTip /\ phase' = "announce"
      /\ pc' = "first" /\ start' = startBlock
    BY DEF TransitionToLive, historicalVars, listenerVars
<1>2. pc = "start"
    BY <1>1 DEF SyncInv, SyncControl
<1>3. scan = "idle" /\ kept = origin .. startBlock - 1
  <2>1. ~Progress => scan = "idle"
    BY <1>1 DEF SyncInv, Rounds
  <2>2. CASE scan = "idle"
    BY <1>1, <2>2 DEF SyncInv, Rounds
  <2>3. CASE Progress
    BY <1>1, <2>3, CallNumbers DEF Progress
  <2> QED
    BY <2>1, <2>2, <2>3
<1>4. IInv'
  <2>1. LiveTypeOK'
    BY <1>1 DEF SyncInv, IInv, LiveTypeOK, RoundTypes
  <2>2. RangeOfHeader'
    BY <1>1, <1>2 DEF SyncInv, IInv, RangeOfHeader, rangeVars, Confirmed
  <2> QED
    BY <1>1, <2>1, <2>2, Frames DEF SyncInv, IInv
<1>5. RoundTypes' /\ Iteration'
    BY <1>1 DEF SyncInv, RoundTypes, HistoricalTypeOK, Iteration, CountsWhatIsLeft
<1>6. SyncControl' /\ Rounds'
    BY <1>1, <1>3 DEF SyncInv, SyncControl, Rounds
<1> QED
    BY <1>1, <1>2, <1>3, <1>4, <1>5, <1>6 DEF SyncInv

\* SwitchingToLive is sent (sync_handler.rs:209-212).
LEMMA AnnounceInv ==
    ASSUME SyncInv, pc # "stopped", AnnounceLive
    PROVE  SyncInv' /\ UNCHANGED vars
<1>1. /\ UNCHANGED vars /\ kept' = kept /\ pc' = pc
      /\ UNCHANGED <<scan, from, to, finalizedNum, iter, endBlock, origin, startBlock, confirmedTip>>
      /\ phase = "announce" /\ phase' = "live"
    BY DEF AnnounceLive, Announce, vars, liveUnchanged, liveVars, historicalVars, listenerVars
<1>2. IInv'
    BY <1>1, LiveStutters DEF SyncInv
<1>3. RoundTypes' /\ Iteration'
    BY <1>1 DEF SyncInv, RoundTypes, HistoricalTypeOK, Iteration, CountsWhatIsLeft
<1>4. SyncControl' /\ Rounds'
    BY <1>1 DEF SyncInv, SyncControl, Rounds
<1> QED
    BY <1>1, <1>2, <1>3, <1>4 DEF SyncInv

\* The ways in which the sync task ends before it is live.
SyncEnds == End /\ (ReportError \/ UNCHANGED listenerVars) /\ phase # "live"

\* Every step of sync is one of a few kinds.
LEMMA SyncSteps ==
    ASSUME SyncInv, [SyncNext]_allVars
    PROVE  \/ Around \/ Live \/ LiveSubscriptionEnds
           \/ /\ pc # "stopped"
              /\ \/ SyncEnds
                 \/ \E block \in 0 .. MaxHeight : SpawnCatchUp(block)
                 \/ BeginRound
                 \/ RoundDone /\ phase = "rounds"
                 \/ NextRound
                 \/ TransitionToLive
                 \/ AnnounceLive
                 \/ Catching
           \/ UNCHANGED allVars
<1>1. SpawnFails \/ LatestFails \/ TransitionFails \/ AnnounceFindsClosed => SyncEnds
    BY DEF SpawnFails, LatestFails, TransitionFails, AnnounceFindsClosed, SyncEnds
<1>2. RoundClosed => SyncEnds
    BY DEF RoundClosed, SyncEnds, SyncInv, SyncControl
<1>3. RoundDone => phase = "rounds"
    BY DEF RoundDone, SyncInv, SyncControl
<1> QED
    BY <1>1, <1>2, <1>3 DEF SyncNext, SyncWorking

\* Before anything.
LEMMA SyncInitInv == ASSUME SyncInit PROVE SyncInv
<1>1. /\ phase = "start" /\ origin = 0 /\ startBlock = 0 /\ confirmedTip = 0 /\ scan = "idle"
      /\ from = 0 /\ to = 0 /\ finalizedNum = 0 /\ iter = NoIteration /\ endBlock = NoBlock
      /\ kept = {} /\ pc = "start"
    BY DEF SyncInit, Init, HistoricalInit, ListenerInit
<1>2. IInv
    BY InitInv DEF SyncInit
<1>3. RoundTypes
    BY <1>1, NoIterationCounts, Numbers DEF RoundTypes, HistoricalTypeOK, OptionalBlock
<1>4. Iteration
    BY <1>1, NoIterationCounts, Numbers DEF Iteration
<1>5. SyncControl /\ Rounds
    BY <1>1 DEF SyncControl, Rounds
<1> QED
    BY <1>2, <1>3, <1>4, <1>5 DEF SyncInv

\* Every step keeps the invariant.
LEMMA SyncNextInv == ASSUME SyncInv, [SyncNext]_allVars PROVE SyncInv'
<1>1. SyncEnds => SyncInv'
    BY SyncEndInv DEF SyncEnds
<1>2. CASE UNCHANGED allVars
  <2>1. /\ UNCHANGED <<vars, kept, pc, start>>
        /\ UNCHANGED <<scan, from, to, finalizedNum, iter, endBlock>>
        /\ UNCHANGED <<phase, origin, startBlock, confirmedTip>>
    BY <1>2 DEF allVars, vars, listenerVars, liveVars, historicalVars, syncVars
  <2>2. IInv'
    BY <2>1, LiveStutters DEF SyncInv
  <2>3. RoundTypes' /\ Iteration'
    BY <2>1 DEF SyncInv, RoundTypes, HistoricalTypeOK, Iteration, CountsWhatIsLeft
  <2>4. SyncControl' /\ Rounds'
    BY <2>1 DEF SyncInv, SyncControl, Rounds, Progress, NonFinalizedStart
  <2> QED
    BY <2>2, <2>3, <2>4 DEF SyncInv
<1> QED
    BY <1>1, <1>2, SyncSteps, AroundInv, SpawnInv, RoundInv, NextRoundInv, TransitionInv,
       AnnounceInv, CatchingInv

\* Sync keeps its invariant: every round begins where the last one ended, and
\* the live stream where the last round did (sync_handler.rs:142-183).
THEOREM SyncInvariant == SyncSpec => []SyncInv
<1> QED
    BY SyncInitInv, SyncNextInv, PTL DEF SyncSpec

\* Every variable of sync has its type: no round, nor the live stream, begins
\* beyond the block after the highest one, and no batch of a round leaves its
\* range (sync_handler.rs:150-183).
THEOREM SyncTypes == SyncSpec => []SyncTypeOK
<1>1. SyncInv => SyncTypeOK
    BY DEF SyncInv, RoundTypes, SyncTypeOK, IInv, TypeOK, HandlerInv, RangeInv
<1> QED
    BY <1>1, SyncInvariant, PTL

\* At SwitchingToLive the consumer holds exactly the blocks from the start block
\* to where the live stream begins: whatever the reorgs, failures and new blocks
\* of the rounds, they leave no gap and stream nothing past it
\* (sync_handler.rs:150-183, 193-225).
THEOREM SyncSwitchesSeamlessly == SyncSpec => []SwitchesSeamlessly
<1>1. SyncInv => SwitchesSeamlessly
    BY DEF SyncInv, Rounds, SwitchesSeamlessly
<1> QED
    BY <1>1, SyncInvariant, PTL

-----------------------------------------------------------------------------

\* A round streams with nothing in the memory and no call under way, and what
\* it makes stale is above the finalized block.
LEMMA BeforeLiveSafe ==
    ASSUME SyncInv, SyncInv', SafeInv, pc = "start",
           UNCHANGED <<chainVars, handlerVars, rangeVars, prev>>,
           \/ pc' = "start"
           \/ pc' = "first" /\ start' \in Nat /\ \A n \in kept' : n < start',
           \A n \in stale' : n \in stale \/ Height < n
    PROVE  SafeInv'
<1>1. UNCHANGED <<chain, finalized, reorgs, buffer, step, checked, verdict, stage, minAncestor,
                  it, batch, batchEnd, lastEnd, prev>>
    BY DEF chainVars, handlerVars, rangeVars
<1>2. stage = "idle" /\ step = "idle" /\ verdict = NoBlock /\ buffer = <<>>
    BY DEF SafeInv, Control
<1>3. Control'
    BY <1>1, <1>2 DEF Control, InRange
<1>4. Position'
  <2>1. CASE pc' = "start"
    BY <2>1 DEF Position, InRange
  <2>2. CASE pc' = "first" /\ start' \in Nat /\ \A n \in kept' : n < start'
    <3>1. \A s \in Nat : SaturatingSub(s, 1) <= s /\ s .. s - 1 = {}
      BY DEF SaturatingSub
    <3>2. Held(start)'
      BY <2>2, <3>1 DEF Held, RunBefore
    <3> QED
      BY <2>2, <3>2 DEF Position, InRange
  <2> QED
    BY <2>1, <2>2
<1>5. Call'
    BY <1>1, <1>2 DEF Call, CallOf
<1>6. Memory'
  <2>1. Elements(<<>>) = {} /\ Ascends(<<>>)
    BY DEF Elements, Ascends
  <2> QED
    BY <1>1, <1>2, <2>1 DEF Memory
<1>7. Finality'
    BY <1>1, FinalityStays DEF InHand, Elements
<1>8. Tips'
    BY <1>1, <1>2 DEF Tips, InRange
<1> QED
    BY <1>3, <1>4, <1>5, <1>6, <1>7, <1>8 DEF SafeInv

\* SafeInv holds through all of sync.
LEMMA SyncSafe ==
    ASSUME FinalityWaits, SyncInv, SyncInv', SafeInv, [SyncNext]_allVars
    PROVE  SafeInv'
<1>0. IInv /\ IInv'
    BY DEF SyncInv
<1>1. CASE Around \/ Live \/ LiveSubscriptionEnds
    BY <1>0, <1>1, StreamingSafe DEF Around, Live, LiveSubscriptionEnds
<1>2. CASE pc # "stopped" /\ SyncEnds
  <2>1. stage \in {"idle", "none"} /\ step \notin {"detect", "search", "confirm"}
    <3>1. pc \in {"start", "first"}
      BY <1>2 DEF SyncEnds, SyncInv, SyncControl, RoundTypes
    <3> QED
      BY <3>1 DEF SafeInv, Control
  <2>2. Stop /\ UNCHANGED <<chainVars, handlerVars, rangeVars, kept, stale>>
    BY <1>2 DEF SyncEnds, End, ReportError, listenerVars
  <2> QED
    BY <2>1, <2>2, EndSafe
<1>3. CASE UNCHANGED vars
    BY <1>3, StutterSafe
<1>4. CASE pc # "stopped" /\ Catching
  <2>1. pc = "start"
    BY <1>4, UnderWay DEF SyncInv, SyncControl
  <2>2. UNCHANGED <<chainVars, handlerVars, rangeVars, prev>> /\ pc' = pc
    BY <1>4 DEF Catching, liveUnchanged, liveVars
  <2> QED
    BY <1>4, <2>1, <2>2, CatchingInv, BeforeLiveSafe
<1>5. CASE pc # "stopped" /\ TransitionToLive
  <2>1. /\ pc = "start" /\ pc' = "first" /\ kept' = kept
        /\ kept = origin .. startBlock - 1 /\ start' = startBlock
    BY <1>5, TransitionInv
  <2>2. UNCHANGED <<chainVars, handlerVars, rangeVars, prev>> /\ stale' = stale
    BY <1>5 DEF TransitionToLive, listenerVars
  <2>3. start' \in Nat /\ \A n \in kept' : n < start'
    BY <2>1, CallNumbers
  <2> QED
    BY <2>1, <2>2, <2>3, BeforeLiveSafe
<1>6. UNCHANGED allVars => UNCHANGED vars
    BY DEF allVars
<1> QED
    BY <1>1, <1>2, <1>3, <1>4, <1>5, <1>6, SyncSteps, SpawnInv, RoundInv, NextRoundInv, AnnounceInv

\* What the live stream may count on, it may count on after the rounds.
THEOREM SyncSafety == ASSUME FinalityWaits PROVE SyncSpec => []SafeInv
<1>1. SyncInit /\ SyncInv => SafeInv
    BY InitSafe DEF SyncInit, SyncInv
<1>2. SyncInv /\ SyncInv' /\ SafeInv /\ [SyncNext]_allVars => SafeInv'
    BY SyncSafe
<1> QED
    BY <1>1, <1>2, SyncInvariant, PTL DEF SyncSpec

\* Every range of sync, of a round or of the live stream, begins right after the
\* last block held, or at the start block when none is.  Only a reorg below the
\* first block of the live stream leaves a hole below the next range, and even
\* then no block is held twice (sync_handler.rs:150-183, common.rs:324-332,
\* 440-455).
THEOREM SyncGapless == ASSUME FinalityWaits PROVE SyncSpec => []SyncGapFree
<1>1. SyncInv /\ SafeInv => SyncGapFree
  <2> SUFFICES ASSUME SyncInv, SafeInv, pc # "stopped", RangeInFlight # NoBatch
               PROVE  /\ Blocks(RangeInFlight) \cap kept = {}
                      /\ \/ RangeInFlight.lo - 1 \in kept
                         \/ kept = {} /\ RangeInFlight.lo = origin
                         \/ /\ phase = "live"
                            /\ RangeInFlight.lo \in {SaturatingSub(start, 1), start}
                            /\ \A n \in kept : n < RangeInFlight.lo
      BY DEF SyncGapFree
  <2>1. CASE phase = "live"
    <3>1. stage = "send" /\ RangeInFlight = batch
      BY <2>1 DEF RangeInFlight
    <3>2. Held(batch.lo)
      BY <3>1, RangingWhere DEF SafeInv, Position, SyncInv
    <3>3. /\ batch.lo \in Nat /\ batch.hi \in Nat /\ start \in Nat /\ kept \subseteq Nat
      BY Numbers, CallNumbers DEF SyncInv, IInv, RangeInv, RangeTypeOK, BlockNumber
    <3>4. /\ SaturatingSub(start, 1) <= batch.lo /\ \A n \in kept : n < batch.lo
          /\ \A n \in start .. batch.lo - 1 : n \in kept
      BY <3>2 DEF Held, RunBefore
    <3>5. Blocks(batch) \cap kept = {}
      BY <3>3, <3>4 DEF Blocks
    <3>6. batch.lo - 1 \in kept \/ batch.lo \in {SaturatingSub(start, 1), start}
      <4>1. CASE start < batch.lo
        BY <3>3, <3>4, <4>1
      <4>2. CASE batch.lo <= start
        BY <3>3, <3>4, <4>2 DEF SaturatingSub
      <4> QED
        BY <3>3, <4>1, <4>2
    <3> QED
      BY <2>1, <3>1, <3>4, <3>5, <3>6
  <2>2. CASE phase # "live"
    <3>1. RangeInFlight = RangeInHand /\ RangeInHand # [lo |-> 1, hi |-> 0]
      BY <2>2 DEF RangeInFlight, NoBatch
    <3>2. /\ scan \in {"finalized", "pass"} /\ HasNext(iter)
          /\ RangeInFlight = ForwardBatch(iter)
      BY <3>1 DEF RangeInHand
    <3>3. phase = "rounds" /\ iter.current <= iter.end
      BY <3>2, CallNumbers DEF SyncInv, SyncControl
    <3>4. /\ kept = origin .. iter.current - 1 /\ origin <= iter.current
          /\ RangeInFlight.lo = iter.current
      BY <3>2, <3>3, BatchExtends
    <3>5. origin \in Nat /\ iter.current \in Nat
      BY CallNumbers
    <3>6. Blocks(RangeInFlight) \cap kept = {}
      <4>1. \A n \in Blocks(RangeInFlight) : n \in Int /\ iter.current <= n
        BY <3>2, <3>3, <3>4, BatchExtends DEF Blocks
      <4> QED
        BY <3>4, <3>5, <4>1
    <3>7. CASE origin = iter.current
      <4>1. kept = {}
        BY <3>4, <3>5, <3>7
      <4> QED
        BY <3>4, <3>6, <3>7, <4>1
    <3>8. CASE origin # iter.current
      <4>1. iter.current - 1 \in kept
        BY <3>4, <3>5, <3>8
      <4> QED
        BY <3>4, <3>6, <4>1
    <3> QED
      BY <3>7, <3>8
  <2> QED
    BY <2>1, <2>2
<1> QED
    BY <1>1, SyncInvariant, SyncSafety, PTL
=============================================================================
