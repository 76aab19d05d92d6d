---------------------- MODULE HistoricalStream_proofs ----------------------
(***************************************************************************)
(* Proofs about a historical stream, for every chain, range and batch      *)
(* size, however often the chain reorganises while it runs.                *)
(*                                                                         *)
(* IInv says where the iterator of the current pass stands, that the       *)
(* consumer holds exactly the blocks from the start of the range up to     *)
(* there, and that the end block as it was fetched before a pass vouches   *)
(* for the whole pass: hashes are never used again, so once a block of     *)
(* the pass is replaced, the end block is no longer canonical, and never   *)
(* will be.                                                                *)
(***************************************************************************)
EXTENDS HistoricalStream, BlockLemmas

\* Where the iterator of the call stands, and what the counters say about it.
Iteration ==
    /\ CountsWhatIsLeft(iter)
    /\ iter.range_size = MaxBlockRange
    /\ iter.end <= MaxHeight
    /\ iter.current <= MaxHeight + 1

\* The consumer holds the range from its start to where the call stands, however
\* often the part that is not finalized was taken back and streamed again.
Progress ==
    /\ from <= to /\ finalizedNum <= finalized
    /\ scan \in {"idle", "finality"} => kept = {} /\ stale = {}
    /\ scan = "finalized" =>
        /\ iter.end = Least(finalizedNum, to)
        /\ from <= iter.current /\ iter.current <= Greatest(from, iter.end + 1)
        /\ kept = from .. iter.current - 1
    /\ scan = "tip" => kept = from .. NonFinalizedStart - 1
    /\ scan = "pass" =>
        /\ iter.end = to
        /\ NonFinalizedStart <= iter.current /\ iter.current <= to + 1
        /\ kept = from .. iter.current - 1
    /\ scan = "reorged" => kept = from .. to
    /\ scan \in {"tip", "pass", "reorged"} => NonFinalizedStart <= to
    /\ scan = "open" /\ ~errored /\ open => kept = from .. to
    /\ scan = "closed" => errored \/ ~open

\* No finalized block is ever replaced; the end block as it was read before the
\* pass vouches for all that the consumer holds.
Freshness ==
    /\ Timely
    /\ \A n \in stale : finalizedNum < n
    /\ scan \in {"pass", "reorged"} => endBlock \in Block /\ endBlock.number = to /\ Known(endBlock)
    /\ scan = "pass" /\ Canonical(endBlock) => stale = {}

IInv == TypeOK /\ Iteration /\ Progress /\ Freshness

-----------------------------------------------------------------------------

\* The constants are numbers.
LEMMA Numbers ==
    /\ MaxHeight \in Nat /\ MaxReorgs \in Nat /\ MaxU64 \in Nat /\ MaxHeight + 1 < MaxU64
    /\ MaxBlockRange \in Nat \ {0} /\ MaxBlockRange \in BlockNumber \ {0}
BY ChainAssumption, MaxU64Assumption, MaxBlockRangeAssumption DEF BlockNumber

\* The variables of a call are numbers, and the height is one.
LEMMA CallNumbers ==
    ASSUME IInv
    PROVE  /\ from \in Nat /\ from <= MaxHeight /\ to \in Nat /\ to <= MaxHeight /\ from <= to
           /\ finalizedNum \in Nat /\ finalizedNum <= MaxHeight
           /\ finalized \in Nat /\ finalized <= Height /\ finalizedNum <= finalized
           /\ Height \in Nat /\ Height <= MaxHeight
           /\ kept \subseteq Nat /\ kept \subseteq 0 .. MaxHeight /\ stale \subseteq kept
           /\ iter \in Iterator /\ iter.current \in Nat /\ iter.end \in Nat
           /\ HasNext(iter) <=> iter.current <= iter.end
<1>1. Height \in Nat
    BY LenProperties DEF IInv, TypeOK, ChainTypeOK, Height
<1>2. iter \in Iterator /\ CountsWhatIsLeft(iter)
    BY DEF IInv, TypeOK, HistoricalTypeOK, Iteration
<1>3. iter.current \in Nat /\ iter.end \in Nat /\ (HasNext(iter) <=> iter.current <= iter.end)
    BY <1>2, IteratorNumbers, HasNextIffLeft
<1> QED
    BY <1>1, <1>2, <1>3, Numbers
    DEF IInv, TypeOK, ChainTypeOK, ListenerTypeOK, HistoricalTypeOK, Progress

\* Where the part that is not finalized begins, and what a ReorgDetected of the
\* handler leaves: exactly what lies before it (historical_range_handler.rs:97,
\* 115, 150-154).
LEMMA StartsAfterFinalized ==
    ASSUME IInv
    PROVE  /\ NonFinalizedStart \in Nat /\ NonFinalizedStart <= MaxHeight + 1
           /\ from <= NonFinalizedStart
           /\ NonFinalizedStart = Greatest(from, Least(finalizedNum, to) + 1)
           /\ NonFinalizedStart <= to =>
                /\ finalizedNum < NonFinalizedStart
                /\ MinCommonAncestor = NonFinalizedStart - 1
           /\ NonFinalizedStart > to => NonFinalizedStart = to + 1 /\ to <= finalizedNum
           /\ NonFinalizedStart - 1 <= finalizedNum \/ NonFinalizedStart = from
BY CallNumbers, Numbers
DEF NonFinalizedStart, MinCommonAncestor, Greatest, Least, SaturatingSub

\* What the consumer holds before the first pass is final, so it stands.
LEMMA FinalPartStands ==
    ASSUME IInv, kept \subseteq from .. NonFinalizedStart - 1
    PROVE  stale = {}
<1> SUFFICES ASSUME NEW n \in stale PROVE FALSE
    OBVIOUS
<1>1. finalizedNum < n
    BY DEF IInv, Freshness
<1>2. n \in kept
    BY CallNumbers
<1>3. n \in from .. NonFinalizedStart - 1
    BY <1>2
<1> QED
    BY <1>1, <1>3, CallNumbers, StartsAfterFinalized

\* A pass is about to begin with a new iterator (historical_range_handler.rs:128).
LEMMA PassBegins ==
    ASSUME IInv, NonFinalizedStart <= to
    PROVE  /\ Pass \in Iterator /\ CountsWhatIsLeft(Pass)
           /\ Pass.current = NonFinalizedStart /\ Pass.end = to /\ Pass.range_size = MaxBlockRange
<1>1. NonFinalizedStart \in BlockNumber /\ to \in BlockNumber
    BY CallNumbers, StartsAfterFinalized, Numbers DEF BlockNumber
<1> QED
    BY <1>1, Numbers, ForwardCounts DEF Pass

-----------------------------------------------------------------------------

\* Before the call.
LEMMA InitInv == Init => IInv
<1> SUFFICES ASSUME Init PROVE IInv
    OBVIOUS
<1>1. /\ scan = "idle" /\ from = 0 /\ to = 0 /\ finalizedNum = 0 /\ iter = NoIteration
      /\ endBlock = NoBlock /\ open = TRUE /\ kept = {} /\ stale = {} /\ errored = FALSE
    BY DEF Init, ListenerInit, HistoricalInit
<1>2. ChainTypeOK
    BY ChainInitTypes DEF Init
<1>3. /\ iter \in Iterator /\ CountsWhatIsLeft(iter) /\ iter.end = 0 /\ iter.current = 1
      /\ iter.range_size = MaxBlockRange
  <2>1. 0 \in BlockNumber /\ 1 \in BlockNumber
    BY Numbers DEF BlockNumber
  <2> QED
    BY <1>1, <2>1, Numbers, ForwardCounts DEF NoIteration
<1>4. finalized \in Nat
    BY <1>2, LenProperties DEF ChainTypeOK, Height
<1>5. Timely
  <2>1. chain = [n \in 1 .. InitialHeight |-> 0] /\ reorgs = 0 /\ InitialHeight \in Nat
    BY ChainAssumption DEF Init, ChainInit
  <2>2. Len(chain) = InitialHeight
    BY <2>1
  <2> QED
    BY <2>1, <2>2 DEF Timely, Height
<1>6. TypeOK
  <2>1. ListenerTypeOK
    BY <1>1 DEF ListenerTypeOK
  <2>2. HistoricalTypeOK
    BY <1>1, <1>3, Numbers DEF HistoricalTypeOK, OptionalBlock
  <2> QED
    BY <1>2, <2>1, <2>2 DEF TypeOK
<1> QED
    BY <1>1, <1>3, <1>4, <1>5, <1>6, Numbers DEF IInv, Iteration, Progress, Freshness

\* The node moves, and with it what it takes for canonical.
LEMMA NodeInv ==
    ASSUME IInv, NodeMines \/ \E n \in 1 .. MaxHeight : NodeFinalizes(n)
    PROVE  IInv'
<1>1. UNCHANGED <<open, kept, stale, errored, scan, from, to, finalizedNum, iter, endBlock>>
    BY DEF NodeMines, NodeFinalizes, listenerVars, historicalVars
<1>2. /\ ChainTypeOK' /\ Timely' /\ finalized <= finalized'
      /\ \A b \in Block : Known(b) => Known(b)' /\ (Canonical(b)' <=> Canonical(b))
  <2>1. ChainTypeOK /\ Timely
    BY DEF IInv, TypeOK, Freshness
  <2>2. CASE NodeMines
    BY <2>1, <2>2, MineTypes, MineBlocks, CallNumbers DEF NodeMines
  <2>3. ASSUME NEW n \in 1 .. MaxHeight, NodeFinalizes(n)
        PROVE  /\ ChainTypeOK' /\ Timely' /\ finalized <= finalized'
               /\ \A b \in Block : Known(b) => Known(b)' /\ (Canonical(b)' <=> Canonical(b))
    <3>1. Finalize(n) /\ n >= finalized + 1
      BY <2>3, CallNumbers DEF NodeFinalizes, Finalize
    <3> QED
      BY <2>1, <3>1, FinalizeTypes, FinalizeBlocks, CallNumbers
  <2> QED
    BY <2>2, <2>3
<1>3. ListenerTypeOK' /\ HistoricalTypeOK' /\ Iteration'
    BY <1>1 DEF IInv, TypeOK, ListenerTypeOK, HistoricalTypeOK, Iteration, CountsWhatIsLeft
<1>4. finalizedNum' <= finalized'
  <2>1. finalized' \in Nat
    BY <1>2, LenProperties DEF ChainTypeOK, Height
  <2> QED
    BY <1>1, <1>2, <2>1, CallNumbers
<1>5. Progress'
    BY <1>1, <1>4 DEF IInv, Progress, NonFinalizedStart
<1>6. scan \in {"pass", "reorged"} => Known(endBlock)' /\ (Canonical(endBlock)' <=> Canonical(endBlock))
    BY <1>1, <1>2 DEF IInv, Freshness, Known, Canonical, BlockAt
<1>7. Freshness'
    BY <1>1, <1>2, <1>6 DEF IInv, Freshness
<1> QED
    BY <1>2, <1>3, <1>5, <1>7 DEF IInv, TypeOK

\* A reorg replaces what lies above the fork, the end block with it whenever it
\* replaces a block of the range.
LEMMA ReorgInv ==
    ASSUME IInv, NEW fork \in 0 .. MaxHeight, NEW tip \in 0 .. MaxHeight, NodeReorgs(fork, tip)
    PROVE  IInv'
<1>1. /\ UNCHANGED <<open, kept, errored, scan, from, to, finalizedNum, iter, endBlock>>
      /\ stale' = stale \cup {n \in kept : n > fork} /\ Reorg(fork, tip)
    BY DEF NodeReorgs, Orphan, historicalVars
<1>2. /\ ChainTypeOK' /\ Timely' /\ finalized' = finalized /\ finalized <= fork
      /\ \A b \in Block : Known(b) =>
            Known(b)' /\ (Canonical(b)' <=> (Canonical(b) /\ b.number <= fork))
    BY <1>1, ReorgTypes, ReorgBlocks DEF IInv, TypeOK, Freshness
<1>3. ListenerTypeOK'
    BY <1>1 DEF IInv, TypeOK, ListenerTypeOK
<1>4. HistoricalTypeOK' /\ Iteration'
    BY <1>1 DEF IInv, TypeOK, HistoricalTypeOK, Iteration, CountsWhatIsLeft
<1>5. Progress'
  <2>1. scan \in {"idle", "finality"} => stale' = {}
    BY <1>1 DEF IInv, Progress
  <2> QED
    BY <1>1, <1>2, <2>1 DEF IInv, Progress, NonFinalizedStart
<1>6. \A n \in stale' : finalizedNum' < n
  <2>1. \A n \in kept : n > fork => finalizedNum < n
    BY <1>2, CallNumbers
  <2> QED
    BY <1>1, <2>1 DEF IInv, Freshness
<1>7. scan \in {"pass", "reorged"} =>
        /\ endBlock \in Block /\ endBlock.number = to /\ Known(endBlock)'
        /\ Canonical(endBlock)' <=> (Canonical(endBlock) /\ to <= fork)
    BY <1>1, <1>2 DEF IInv, Freshness, Known, Canonical, BlockAt
<1>8. scan = "pass" /\ Canonical(endBlock)' => stale' = {}
  <2> SUFFICES ASSUME scan = "pass", Canonical(endBlock)'
               PROVE  stale' = {}
      OBVIOUS
  <2>1. stale = {} /\ to <= fork
    BY <1>7 DEF IInv, Freshness
  <2>2. kept = from .. iter.current - 1 /\ iter.current <= to + 1
    BY DEF IInv, Progress
  <2>3. \A n \in kept : ~(n > fork)
    BY <2>1, <2>2, CallNumbers
  <2> QED
    BY <1>1, <2>1, <2>3
<1>9. Freshness'
    BY <1>1, <1>2, <1>6, <1>7, <1>8 DEF IInv, Freshness
<1> QED
    BY <1>2, <1>3, <1>4, <1>5, <1>9 DEF IInv, TypeOK

\* Nothing of a call changes.
LEMMA StutterInv == ASSUME IInv, UNCHANGED vars PROVE IInv'
<1>1. /\ UNCHANGED <<chain, finalized, reorgs, open, kept, stale, errored>>
      /\ UNCHANGED <<scan, from, to, finalizedNum, iter, endBlock>>
    BY DEF vars, chainVars, listenerVars, historicalVars
<1>2. ChainTypeOK' /\ ListenerTypeOK' /\ HistoricalTypeOK' /\ Iteration'
    BY <1>1
    DEF IInv, TypeOK, ChainTypeOK, Height, ListenerTypeOK, HistoricalTypeOK, Iteration,
        CountsWhatIsLeft
<1>3. Progress'
    BY <1>1 DEF IInv, Progress, NonFinalizedStart
<1>4. Freshness'
    BY <1>1 DEF IInv, Freshness, Timely, Height, Known, Canonical, BlockAt
<1> QED
    BY <1>2, <1>3, <1>4 DEF IInv, TypeOK

\* While the node stands still, it takes the same blocks for canonical.
LEMMA ChainStill ==
    ASSUME IInv, UNCHANGED chainVars
    PROVE  /\ ChainTypeOK' /\ Timely' /\ finalized' = finalized /\ Height' = Height
           /\ \A b : (Known(b)' <=> Known(b)) /\ (Canonical(b)' <=> Canonical(b))
BY DEF IInv, TypeOK, Freshness, chainVars, ChainTypeOK, Height, Timely, Known, Canonical, BlockAt

\* The consumer leaves.
LEMMA DropInv == ASSUME IInv, ReceiverDropped PROVE IInv'
<1>1. /\ UNCHANGED <<chain, finalized, reorgs, kept, stale, errored>> /\ open' = FALSE
      /\ UNCHANGED <<scan, from, to, finalizedNum, iter, endBlock>> /\ UNCHANGED chainVars
    BY DEF ReceiverDropped, DropReceiver, chainVars, historicalVars
<1>2. ListenerTypeOK' /\ HistoricalTypeOK' /\ Iteration'
    BY <1>1
    DEF IInv, TypeOK, ListenerTypeOK, HistoricalTypeOK, Iteration, CountsWhatIsLeft
<1>3. Progress'
    BY <1>1 DEF IInv, Progress, NonFinalizedStart
<1>4. Freshness'
    BY <1>1, ChainStill DEF IInv, Freshness, Known, Canonical, BlockAt
<1> QED
    BY <1>1, <1>2, <1>3, <1>4, ChainStill DEF IInv, TypeOK

-----------------------------------------------------------------------------
(* The steps of the call. *)

\* The call begins, or there is none.
LEMMA BeginInv ==
    ASSUME IInv, StartFails \/ \E s, e \in 0 .. MaxHeight : StreamHistorical(s, e)
    PROVE  IInv'
<1>1. CASE StartFails
  <2>1. /\ UNCHANGED <<open, kept, stale, from, to, finalizedNum, iter, endBlock>>
        /\ UNCHANGED chainVars
        /\ scan = "idle" /\ scan' = "closed" /\ errored' = (errored \/ open)
    BY <1>1 DEF StartFails, ReportError
  <2>2. ListenerTypeOK' /\ HistoricalTypeOK' /\ Iteration'
    BY <2>1
    DEF IInv, TypeOK, ListenerTypeOK, HistoricalTypeOK, Iteration, CountsWhatIsLeft
  <2>3. Progress' /\ Freshness'
    BY <2>1, ChainStill DEF IInv, Progress, Freshness
  <2> QED
    BY <2>1, <2>2, <2>3, ChainStill DEF IInv, TypeOK
<1>2. ASSUME NEW s \in 0 .. MaxHeight, NEW e \in 0 .. MaxHeight, StreamHistorical(s, e)
      PROVE  IInv'
  <2>1. /\ UNCHANGED <<open, kept, stale, errored, finalizedNum, iter, endBlock>>
        /\ UNCHANGED chainVars /\ UNCHANGED listenerVars
        /\ scan = "idle" /\ scan' = "finality" /\ from' = Least(s, e) /\ to' = Greatest(s, e)
    BY <1>2 DEF StreamHistorical, StreamBlocks, listenerVars
  <2>2. from' \in 0 .. MaxHeight /\ to' \in 0 .. MaxHeight /\ from' <= to'
    BY <2>1, Numbers DEF Least, Greatest
  <2>3. ListenerTypeOK' /\ HistoricalTypeOK' /\ Iteration'
    BY <2>1, <2>2
    DEF IInv, TypeOK, ListenerTypeOK, HistoricalTypeOK, Iteration, CountsWhatIsLeft
  <2>4. Progress' /\ Freshness'
    BY <2>1, <2>2, ChainStill DEF IInv, Progress, Freshness
  <2> QED
    BY <2>1, <2>3, <2>4, ChainStill DEF IInv, TypeOK
<1> QED
    BY <1>1, <1>2

\* The finalized block is read (historical_range_handler.rs:74-82).
LEMMA ReadFinalizedInv ==
    ASSUME IInv, ReadFinalized, UNCHANGED chainVars
    PROVE  IInv'
<1>1. /\ UNCHANGED <<open, kept, stale, errored, from, to, endBlock>>
      /\ scan = "finality" /\ scan' = "finalized" /\ finalizedNum' \in {finalized, 0}
      /\ iter' = Forward(from, Least(finalizedNum', to), MaxBlockRange)
    BY DEF ReadFinalized, listenerVars
<1> DEFINE e == Least(finalizedNum', to)
<1>2. /\ finalizedNum' \in 0 .. MaxHeight /\ finalizedNum' <= finalized
      /\ e \in Nat /\ e <= MaxHeight
    BY <1>1, CallNumbers, Numbers DEF Least
<1>3. /\ iter' \in Iterator /\ CountsWhatIsLeft(iter') /\ iter'.current = from
      /\ iter'.end = e /\ iter'.range_size = MaxBlockRange
  <2>1. from \in BlockNumber /\ e \in BlockNumber
    BY <1>2, CallNumbers, Numbers DEF BlockNumber
  <2>2. iter' = Forward(from, e, MaxBlockRange)
    BY <1>1
  <2> HIDE DEF e
  <2> QED
    BY <2>1, <2>2, Numbers, ForwardCounts
<1>4. ListenerTypeOK' /\ HistoricalTypeOK'
    BY <1>1, <1>2, <1>3 DEF IInv, TypeOK, ListenerTypeOK, HistoricalTypeOK
<1>5. Iteration'
    BY <1>2, <1>3, CallNumbers, Numbers DEF Iteration, CountsWhatIsLeft
<1>6. kept = {} /\ stale = {}
    BY <1>1 DEF IInv, Progress
<1>7. Progress'
  <2>1. from .. from - 1 = {} /\ from <= Greatest(from, e + 1)
    BY <1>2, CallNumbers DEF Greatest
  <2> QED
    BY <1>1, <1>2, <1>3, <1>6, <2>1, CallNumbers, ChainStill DEF Progress
<1>8. Freshness'
    BY <1>1, <1>6, ChainStill DEF Freshness
<1> QED
    BY <1>4, <1>5, <1>7, <1>8, ChainStill DEF IInv, TypeOK

\* What a batch adds to the blocks the consumer holds.
LEMMA BatchExtends ==
    ASSUME IInv, scan \in {"finalized", "pass"}, iter.current <= iter.end
    PROVE  LET b == ForwardBatch(iter)
               j == ForwardAdvance(iter)
           IN  /\ kept = from .. iter.current - 1 /\ from <= iter.current
               /\ b.lo = iter.current /\ b.hi \in Nat /\ b.lo <= b.hi /\ b.hi <= iter.end
               /\ b.hi - b.lo < MaxBlockRange
               /\ j \in Iterator /\ CountsWhatIsLeft(j)
               /\ j.current = b.hi + 1 /\ j.end = iter.end /\ j.range_size = MaxBlockRange
               /\ kept \cup Blocks(b) = from .. j.current - 1
               /\ iter.end <= to
<1> DEFINE b == ForwardBatch(iter)
           j == ForwardAdvance(iter)
<1>1. CountsWhatIsLeft(iter) /\ iter.range_size = MaxBlockRange /\ iter.end < MaxU64
    BY CallNumbers, Numbers DEF IInv, Iteration
<1>2. /\ b.lo = iter.current /\ b.hi \in Nat /\ iter.current <= b.hi /\ b.hi <= iter.end
      /\ b.hi - b.lo < iter.range_size
      /\ j \in Iterator /\ CountsWhatIsLeft(j)
      /\ j.current = b.hi + 1 /\ j.end = iter.end /\ j.range_size = iter.range_size
    BY <1>1, CallNumbers, AdvanceCounts
<1>3. kept = from .. iter.current - 1 /\ from <= iter.current
    BY CallNumbers, StartsAfterFinalized DEF IInv, Progress
<1>4. iter.end <= to
    BY CallNumbers DEF IInv, Progress, Least
<1> HIDE DEF b, j
<1>5. kept \cup (b.lo .. b.hi) = from .. j.current - 1
  <2>1. from \in Int /\ iter.current \in Int /\ b.hi \in Int
    BY <1>2, CallNumbers
  <2>2. kept = from .. iter.current - 1 /\ b.lo = iter.current /\ j.current - 1 = b.hi
    BY <1>2, <1>3
  <2>3. from <= iter.current /\ iter.current <= b.hi
    BY <1>2, <1>3
  <2> QED
    BY <2>1, <2>2, <2>3
<1> QED
    BY <1>1, <1>2, <1>3, <1>4, <1>5 DEF b, j, Blocks

\* A batch goes out (historical_range_handler.rs:84-93, 130-139).
LEMMA SendRangeInv ==
    ASSUME IInv, SendRange, UNCHANGED chainVars
    PROVE  IInv'
<1> DEFINE b == ForwardBatch(iter)
<1>1. /\ UNCHANGED <<open, errored, scan, from, to, finalizedNum, endBlock>>
      /\ scan \in {"finalized", "pass"} /\ iter.current <= iter.end
      /\ iter' = ForwardAdvance(iter) /\ kept' = kept \cup Blocks(b)
      /\ stale' = (stale \ Blocks(b)) \cup {n \in Blocks(b) : n > Height}
    BY CallNumbers DEF SendRange, Deliver
<1>2. /\ kept = from .. iter.current - 1 /\ from <= iter.current
      /\ b.lo = iter.current /\ b.hi \in Nat /\ b.lo <= b.hi /\ b.hi <= iter.end
      /\ iter' \in Iterator /\ CountsWhatIsLeft(iter')
      /\ iter'.current = b.hi + 1 /\ iter'.end = iter.end /\ iter'.range_size = MaxBlockRange
      /\ kept' = from .. iter'.current - 1 /\ iter.end <= to
    BY <1>1, BatchExtends
<1> HIDE DEF b
<1>3. ListenerTypeOK'
  <2>1. kept' \subseteq 0 .. MaxHeight
    <3>1. /\ from \in Nat /\ iter.end \in Nat /\ b.hi \in Nat /\ to \in Nat /\ MaxHeight \in Nat
          /\ to <= MaxHeight
      BY <1>2, CallNumbers, Numbers
    <3>2. iter'.current - 1 <= MaxHeight /\ iter'.current \in Int
      BY <1>2, <3>1
    <3> QED
      BY <1>2, <3>1, <3>2
  <2>2. stale' \subseteq kept'
    BY <1>1, CallNumbers
  <2> QED
    BY <1>1, <2>1, <2>2 DEF IInv, TypeOK, ListenerTypeOK
<1>4. HistoricalTypeOK'
    BY <1>1, <1>2 DEF IInv, TypeOK, HistoricalTypeOK
<1>5. Iteration'
  <2>1. iter.end <= MaxHeight
    BY DEF IInv, Iteration
  <2> QED
    BY <1>2, <2>1, CallNumbers, Numbers DEF Iteration, CountsWhatIsLeft
<1>6. Progress'
  <2>1. NonFinalizedStart' = NonFinalizedStart
    BY <1>1 DEF NonFinalizedStart
  <2>2. CASE scan = "finalized"
    <3>1. iter.end = Least(finalizedNum, to)
      BY <2>2 DEF IInv, Progress
    <3>2. from <= iter'.current /\ iter'.current <= Greatest(from, iter.end + 1)
      BY <1>2, CallNumbers DEF Greatest
    <3> QED
      BY <1>1, <1>2, <2>2, <3>1, <3>2, ChainStill DEF IInv, Progress
  <2>3. CASE scan = "pass"
    <3>1. iter.end = to /\ NonFinalizedStart <= iter.current /\ NonFinalizedStart <= to
      BY <2>3 DEF IInv, Progress
    <3>2. NonFinalizedStart <= iter'.current /\ iter'.current <= to + 1
      BY <1>2, <3>1, CallNumbers, StartsAfterFinalized
    <3> QED
      BY <1>1, <1>2, <2>1, <2>3, <3>1, <3>2, ChainStill DEF IInv, Progress
  <2> QED
    BY <1>1, <2>2, <2>3
<1>7. \A n \in stale' : finalizedNum' < n
  <2>1. \A n \in Blocks(b) : n > Height => finalizedNum < n
    BY <1>2, CallNumbers DEF Blocks
  <2> QED
    BY <1>1, <2>1 DEF IInv, Freshness
<1>8. scan = "pass" /\ Canonical(endBlock) => stale' = {}
  <2> SUFFICES ASSUME scan = "pass", Canonical(endBlock) PROVE stale' = {}
      OBVIOUS
  <2>1. stale = {} /\ to <= Height
    BY CallNumbers DEF IInv, Freshness, Canonical
  <2>2. \A n \in Blocks(b) : ~(n > Height)
    BY <1>2, <2>1, CallNumbers DEF Blocks
  <2> QED
    BY <1>1, <2>1, <2>2
<1>9. Freshness'
  <2>1. Known(endBlock)' <=> Known(endBlock)
    BY <1>1, ChainStill DEF Known, Canonical, BlockAt
  <2>2. Canonical(endBlock)' <=> Canonical(endBlock)
    BY <1>1, ChainStill DEF Canonical, BlockAt, chainVars
  <2> QED
    BY <1>1, <1>7, <1>8, <2>1, <2>2, ChainStill DEF IInv, Freshness
<1> QED
    BY <1>3, <1>4, <1>5, <1>6, <1>9, ChainStill DEF IInv, TypeOK

\* A step that only moves scan on, or reports an error.
LEMMA ScanFrame ==
    ASSUME IInv, UNCHANGED chainVars,
           UNCHANGED <<open, kept, stale, from, to, finalizedNum, iter, endBlock>>,
           errored' \in BOOLEAN,
           scan' \in {"idle", "finality", "finalized", "tip", "pass", "reorged", "open", "closed"}
    PROVE  /\ TypeOK' /\ Iteration' /\ NonFinalizedStart' = NonFinalizedStart
           /\ Canonical(endBlock)' <=> Canonical(endBlock)
           /\ Known(endBlock)' <=> Known(endBlock)
<1>1. ListenerTypeOK' /\ HistoricalTypeOK' /\ Iteration'
    BY DEF IInv, TypeOK, ListenerTypeOK, HistoricalTypeOK, Iteration, CountsWhatIsLeft
<1>2. Canonical(endBlock)' <=> Canonical(endBlock)
    BY ChainStill DEF Canonical, BlockAt, chainVars
<1>3. Known(endBlock)' <=> Known(endBlock)
    BY <1>2 DEF Known, chainVars
<1> QED
    BY <1>1, <1>2, <1>3, ChainStill DEF TypeOK, NonFinalizedStart

\* The finalized part is out (historical_range_handler.rs:59-64, 97).
LEMMA FinalizedStreamedInv ==
    ASSUME IInv, FinalizedStreamed, UNCHANGED chainVars
    PROVE  /\ IInv' /\ kept = from .. NonFinalizedStart - 1 /\ stale = {}
           /\ NonFinalizedStart > to => kept = from .. to
<1>1. /\ UNCHANGED <<open, kept, stale, errored, from, to, finalizedNum, iter, endBlock>>
      /\ scan = "finalized" /\ iter.current > iter.end
      /\ scan' = IF NonFinalizedStart > to THEN "open" ELSE "tip"
    BY CallNumbers DEF FinalizedStreamed, listenerVars
<1>2. kept = from .. NonFinalizedStart - 1
  <2>1. /\ iter.end = Least(finalizedNum, to) /\ from <= iter.current
        /\ iter.current <= Greatest(from, iter.end + 1) /\ kept = from .. iter.current - 1
    BY <1>1 DEF IInv, Progress
  <2>2. iter.current = NonFinalizedStart
    BY <1>1, <2>1, CallNumbers DEF NonFinalizedStart, Greatest
  <2> QED
    BY <2>1, <2>2
<1>3. stale = {}
    BY <1>2, FinalPartStands
<1>4. NonFinalizedStart > to => kept = from .. to
    BY <1>2, CallNumbers, StartsAfterFinalized
<1>5. TypeOK' /\ Iteration' /\ NonFinalizedStart' = NonFinalizedStart
    BY <1>1, ScanFrame DEF IInv, TypeOK, ListenerTypeOK
<1>6. Progress'
    BY <1>1, <1>2, <1>4, <1>5, CallNumbers, StartsAfterFinalized, ChainStill DEF IInv, Progress
<1>7. Freshness'
    BY <1>1, <1>3, ChainStill DEF Freshness
<1> QED
    BY <1>2, <1>3, <1>4, <1>5, <1>6, <1>7 DEF IInv

\* The end block is fetched, then the first pass begins
\* (historical_range_handler.rs:117-128).
LEMMA FetchEndBlockInv ==
    ASSUME IInv, FetchEndBlock, UNCHANGED chainVars
    PROVE  IInv'
<1>1. /\ UNCHANGED <<open, kept, stale, errored, from, to, finalizedNum>>
      /\ scan = "tip" /\ scan' = "pass" /\ to <= Height
      /\ endBlock' = BlockAt(to) /\ iter' = Pass
    BY DEF FetchEndBlock, listenerVars
<1>2. /\ kept = from .. NonFinalizedStart - 1 /\ NonFinalizedStart <= to
      /\ NonFinalizedStart' = NonFinalizedStart
    BY <1>1 DEF IInv, Progress, NonFinalizedStart
<1>3. stale = {}
    BY <1>2, FinalPartStands
<1>4. /\ iter' \in Iterator /\ CountsWhatIsLeft(iter') /\ iter'.current = NonFinalizedStart
      /\ iter'.end = to /\ iter'.range_size = MaxBlockRange
    BY <1>1, <1>2, PassBegins
<1>5. endBlock' \in Block /\ endBlock'.number = to /\ Known(endBlock')
    BY <1>1, CallNumbers, CanonicalBlocks DEF IInv, TypeOK, Freshness
<1>6. Known(endBlock)'
    BY <1>5, ChainStill DEF Known, Canonical, BlockAt, chainVars
<1>7. ListenerTypeOK' /\ HistoricalTypeOK'
    BY <1>1, <1>4, <1>5
    DEF IInv, TypeOK, ListenerTypeOK, HistoricalTypeOK, OptionalBlock
<1>8. Iteration'
    BY <1>2, <1>4, CallNumbers, StartsAfterFinalized DEF Iteration, CountsWhatIsLeft
<1>9. Progress'
    BY <1>1, <1>2, <1>4, CallNumbers, StartsAfterFinalized, ChainStill DEF Progress
<1>10. Freshness'
    BY <1>1, <1>3, <1>5, <1>6, ChainStill DEF Freshness
<1> QED
    BY <1>7, <1>8, <1>9, <1>10, ChainStill DEF IInv, TypeOK

\* The call ends with its error told, or nobody to tell
\* (historical_range_handler.rs:90-92, 119-122, 136-138, 150-159).
LEMMA CallClosesInv ==
    ASSUME IInv, EndBlockFails \/ ScanFindsClosed, UNCHANGED chainVars
    PROVE  IInv' /\ scan' = "closed" /\ kept' = kept /\ from' = from
<1>1. /\ UNCHANGED <<open, kept, stale, from, to, finalizedNum, iter, endBlock>>
      /\ scan' = "closed" /\ errored' \in {errored, errored \/ open} /\ (errored' \/ ~open)
    BY DEF EndBlockFails, ScanFindsClosed, ReportError, listenerVars
<1>2. errored' \in BOOLEAN
    BY <1>1 DEF IInv, TypeOK, ListenerTypeOK
<1>3. TypeOK' /\ Iteration' /\ NonFinalizedStart' = NonFinalizedStart
    BY <1>1, <1>2, ScanFrame
<1>4. Progress' /\ Freshness'
    BY <1>1, ChainStill DEF IInv, Progress, Freshness
<1> QED
    BY <1>1, <1>3, <1>4 DEF IInv

\* What a pass that is streamed leaves with the consumer.
LEMMA PassHoldsAll == ASSUME IInv, PassStreamed PROVE kept = from .. to
<1>1. iter.current > iter.end /\ iter.end = to /\ iter.current <= to + 1
      /\ kept = from .. iter.current - 1
    BY CallNumbers DEF PassStreamed, IInv, Progress
<1>2. iter.current - 1 = to
    BY <1>1, CallNumbers
<1> QED
    BY <1>1, <1>2

\* The pass ends the call: its end block stands, or cannot be fetched
\* (historical_range_handler.rs:141-146, 176-189).
LEMMA CallEndsInv ==
    ASSUME IInv, EndBlockStands \/ RefetchFails, UNCHANGED chainVars
    PROVE  IInv'
<1>1. /\ UNCHANGED <<open, kept, stale, from, to, finalizedNum, iter, endBlock>>
      /\ scan' = "open" /\ errored' \in {errored, errored \/ open} /\ PassStreamed
    BY DEF EndBlockStands, RefetchFails, ReportError, listenerVars
<1>2. errored' \in BOOLEAN
    BY <1>1 DEF IInv, TypeOK, ListenerTypeOK
<1>3. TypeOK' /\ Iteration' /\ NonFinalizedStart' = NonFinalizedStart
    BY <1>1, <1>2, ScanFrame
<1>4. Progress' /\ Freshness'
    BY <1>1, PassHoldsAll, ChainStill DEF IInv, Progress, Freshness
<1> QED
    BY <1>1, <1>3, <1>4 DEF IInv

\* The end block was replaced: the new one is tracked
\* (historical_range_handler.rs:147-160, 186-198).
LEMMA EndBlockReorgedInv ==
    ASSUME IInv, EndBlockReorged, UNCHANGED chainVars
    PROVE  IInv'
<1>1. /\ UNCHANGED <<open, kept, stale, errored, from, to, finalizedNum, iter>>
      /\ scan = "pass" /\ scan' = "reorged" /\ to <= Height /\ PassStreamed
      /\ endBlock' = BlockAt(to)
    BY DEF EndBlockReorged, PassStreamed, listenerVars
<1>2. endBlock' \in Block /\ endBlock'.number = to /\ Known(endBlock')
    BY <1>1, CallNumbers, CanonicalBlocks DEF IInv, TypeOK, Freshness
<1>3. Known(endBlock)'
    BY <1>2, ChainStill DEF Known, Canonical, BlockAt, chainVars
<1>4. ListenerTypeOK' /\ HistoricalTypeOK' /\ Iteration'
    BY <1>1, <1>2
    DEF IInv, TypeOK, ListenerTypeOK, HistoricalTypeOK, OptionalBlock, Iteration, CountsWhatIsLeft
<1>5. Progress'
    BY <1>1, PassHoldsAll, ChainStill DEF IInv, Progress, NonFinalizedStart
<1>6. Freshness'
    BY <1>1, <1>2, <1>3, ChainStill DEF IInv, Freshness
<1> QED
    BY <1>4, <1>5, <1>6, ChainStill DEF IInv, TypeOK

\* ReorgDetected takes back what is not finalized, and the pass begins again
\* (historical_range_handler.rs:150-160).
LEMMA StreamAgainInv ==
    ASSUME IInv, StreamAgain, UNCHANGED chainVars
    PROVE  IInv' /\ kept' = from .. NonFinalizedStart - 1
<1>1. /\ UNCHANGED <<open, errored, from, to, finalizedNum, endBlock>>
      /\ scan = "reorged" /\ scan' = "pass" /\ iter' = Pass
      /\ kept' = {n \in kept : n <= MinCommonAncestor}
      /\ stale' = {n \in stale : n <= MinCommonAncestor}
    BY DEF StreamAgain, Rollback
<1>2. /\ kept = from .. to /\ NonFinalizedStart <= to /\ NonFinalizedStart' = NonFinalizedStart
      /\ MinCommonAncestor = NonFinalizedStart - 1
    BY <1>1, StartsAfterFinalized DEF IInv, Progress, NonFinalizedStart
<1>3. kept' = from .. NonFinalizedStart - 1
    BY <1>1, <1>2, CallNumbers, StartsAfterFinalized
<1>4. stale' = {}
  <2> SUFFICES ASSUME NEW n \in stale, n <= NonFinalizedStart - 1 PROVE FALSE
      BY <1>1, <1>2
  <2>1. finalizedNum < n
    BY DEF IInv, Freshness
  <2>2. n \in from .. to
    BY <1>2, CallNumbers
  <2> QED
    BY <2>1, <2>2, CallNumbers, StartsAfterFinalized
<1>5. /\ iter' \in Iterator /\ CountsWhatIsLeft(iter') /\ iter'.current = NonFinalizedStart
      /\ iter'.end = to /\ iter'.range_size = MaxBlockRange
    BY <1>1, <1>2, PassBegins
<1>6. ListenerTypeOK'
  <2>1. kept' \subseteq 0 .. MaxHeight
    BY <1>1, CallNumbers
  <2> QED
    BY <1>1, <1>4, <2>1 DEF IInv, TypeOK, ListenerTypeOK
<1>7. HistoricalTypeOK'
    BY <1>1, <1>5 DEF IInv, TypeOK, HistoricalTypeOK
<1>8. Iteration'
    BY <1>2, <1>5, CallNumbers, StartsAfterFinalized DEF Iteration, CountsWhatIsLeft
<1>9. Progress'
    BY <1>1, <1>2, <1>3, <1>5, CallNumbers, StartsAfterFinalized, ChainStill DEF Progress
<1>10. endBlock \in Block /\ endBlock.number = to /\ Known(endBlock)
    BY <1>1 DEF IInv, Freshness
<1>11. Known(endBlock)'
    BY <1>1, <1>10, ChainStill DEF Known, Canonical, BlockAt, chainVars
<1>12. Freshness'
    BY <1>1, <1>4, <1>10, <1>11, ChainStill DEF Freshness
<1> QED
    BY <1>3, <1>6, <1>7, <1>8, <1>9, <1>12, ChainStill DEF IInv, TypeOK

-----------------------------------------------------------------------------

\* Every step of the call keeps the invariant.
LEMMA CallInv == ASSUME IInv, Streaming PROVE IInv'
<1>1. HistoricalStep /\ UNCHANGED chainVars
    BY DEF Streaming
<1> QED
    BY <1>1, ReadFinalizedInv, SendRangeInv, FinalizedStreamedInv, FetchEndBlockInv,
       CallClosesInv, CallEndsInv, EndBlockReorgedInv, StreamAgainInv
    DEF HistoricalStep

\* And so does every step of the stream and of its environment.
LEMMA NextInv == ASSUME IInv, [Next]_vars PROVE IInv'
<1>1. CASE Environment
    BY <1>1, NodeInv, ReorgInv, DropInv DEF Environment
<1>2. CASE Working
    BY <1>2, BeginInv, CallInv DEF Working
<1>3. CASE UNCHANGED vars
    BY <1>3, StutterInv
<1> QED
    BY <1>1, <1>2, <1>3 DEF Next

\* The counters of the iterator, the blocks that the consumer holds and the end
\* block agree at every step of a historical stream.
THEOREM HistoricalInvariant == Spec => []IInv
<1> QED
    BY InitInv, NextInv, PTL DEF Spec

\* Every variable of a historical stream has its type, for every chain, range
\* and batch size: no batch leaves the range asked for
\* (historical_range_handler.rs:58-167).
THEOREM HistoricalTypes == Spec => []TypeOK
<1>1. IInv => TypeOK
    BY DEF IInv
<1> QED
    BY <1>1, HistoricalInvariant, PTL

\* A historical stream that ends without an error has delivered its whole range:
\* the finalized and the other part meet, and each pass streams everything the
\* ReorgDetected before it took back (historical_range_handler.rs:97, 115, 128).
THEOREM HistoricalEndsComplete == Spec => []EndsComplete
<1>1. IInv => EndsComplete
    BY DEF IInv, Progress, EndsComplete
<1> QED
    BY <1>1, HistoricalInvariant, PTL

\* It ends early only after it told why, or when nobody listens
\* (historical_range_handler.rs:53-57, 90-92, 117-124, 136-138).
THEOREM HistoricalEndsForAReason == Spec => []EndsForAReason
<1>1. IInv => EndsForAReason
    BY DEF IInv, Progress, EndsForAReason
<1> QED
    BY <1>1, HistoricalInvariant, PTL

-----------------------------------------------------------------------------

\* A step that ends the call finds nothing replaced among the blocks that the
\* consumer holds.
LEMMA EndsSettledStep ==
    ASSUME IInv, Next, scan' = "open", ~errored', open
    PROVE  stale' = {}
<1>1. scan # "open"
  <2>1. Environment => ~Ended
    BY DEF Environment
  <2>2. Working => scan # "open"
    BY DEF Working, StreamHistorical, StreamBlocks, StartFails, Streaming, HistoricalStep,
           ReadFinalized, SendRange, FinalizedStreamed, FetchEndBlock, EndBlockFails,
           EndBlockStands, RefetchFails, EndBlockReorged, StreamAgain, ScanFindsClosed,
           PassStreamed
  <2> QED
    BY <2>1, <2>2 DEF Next, Ended
<1>2. UNCHANGED scan \/ Working
    BY DEF Next, Environment, NodeMines, NodeReorgs, NodeFinalizes, ReceiverDropped,
           historicalVars
<1>3. FinalizedStreamed \/ EndBlockStands \/ RefetchFails
    BY <1>1, <1>2
    DEF Working, StreamHistorical, StreamBlocks, StartFails, Streaming, HistoricalStep,
        ReadFinalized, SendRange, FetchEndBlock, EndBlockFails, EndBlockReorged, StreamAgain,
        ScanFindsClosed
<1>4. UNCHANGED chainVars
    BY <1>1, <1>2 DEF Working, StreamHistorical, StartFails, Streaming
<1>5. CASE FinalizedStreamed
    BY <1>4, <1>5, FinalizedStreamedInv DEF FinalizedStreamed, listenerVars
<1>6. CASE EndBlockStands
    BY <1>6 DEF EndBlockStands, PassStreamed, IInv, Freshness, listenerVars
<1>7. CASE RefetchFails
    BY <1>7 DEF RefetchFails, ReportError
<1> QED
    BY <1>3, <1>5, <1>6, <1>7

\* Comparing the hash of the end block before and after a pass is enough: when
\* the stream ends well, no block that the consumer holds was replaced since its
\* delivery, in spite of reorgs during the passes and of blocks that go missing
\* on a shorter branch (historical_range_handler.rs:141-146, 172-199).
THEOREM HistoricalEndsSettled == Spec => EndsSettled
<1>1. IInv /\ [Next]_vars => [scan' = "open" /\ ~errored' /\ open => stale' = {}]_vars
    BY EndsSettledStep
<1> QED
    BY <1>1, HistoricalInvariant, PTL DEF Spec, EndsSettled

-----------------------------------------------------------------------------
(* A historical stream implements RollbackStream. *)

\* The phase of the stream, as RollbackStream has it.
Phase == IF scan = "idle" THEN "new" ELSE IF Ended THEN "over" ELSE "open"

\* With a run of blocks from `from` up to before c, the next range begins at c.
LEMMA RunContinues ==
    ASSUME IInv, NEW c \in Nat, from <= c, NEW held, held = from .. c - 1
    PROVE  c \in Promise!NextBlocks(held)
<1>1. from \in Nat
    BY CallNumbers
<1>2. CASE c = from
  <2>1. held = {}
    BY <1>1, <1>2
  <2> QED
    BY <1>2, <2>1 DEF Promise!NextBlocks
<1>3. CASE from < c
  <2>1. c - 1 \in held /\ (c - 1) + 1 \notin held /\ (c - 1) + 1 = c /\ held # {}
    BY <1>1, <1>3
  <2> QED
    BY <2>1 DEF Promise!NextBlocks
<1> QED
    BY <1>1, <1>2, <1>3

\* The batch of an iterator that continues such a run is one to be offered.
LEMMA BatchIsOffered ==
    ASSUME IInv, NEW i \in Iterator, CountsWhatIsLeft(i), i.range_size = MaxBlockRange,
           i.end <= MaxHeight, from <= i.current, i.current <= i.end,
           NEW held, held = from .. i.current - 1
    PROVE  ForwardBatch(i) \in Promise!Offers(held) /\ ForwardBatch(i) # [lo |-> 1, hi |-> 0]
<1> DEFINE b == ForwardBatch(i)
<1>1. /\ i.current \in Nat /\ i.end \in Nat
      /\ b.lo = i.current /\ b.hi \in Nat /\ i.current <= b.hi /\ b.hi <= i.end
      /\ b.hi - b.lo < MaxBlockRange
    BY IteratorNumbers, AdvanceCounts, Numbers
<1>2. i.current \in Promise!NextBlocks(held)
    BY <1>1, RunContinues
<1>3. b = [lo |-> b.lo, hi |-> b.hi]
    BY DEF ForwardBatch
<1> HIDE DEF b
<1>4. b.hi \in 0 .. MaxHeight
    BY <1>1, Numbers
<1>5. b \in [lo : Promise!NextBlocks(held), hi : 0 .. MaxHeight]
    BY <1>1, <1>2, <1>3, <1>4
<1>6. b \in Promise!Offers(held)
    BY <1>1, <1>5 DEF Promise!Offers
<1>7. b # [lo |-> 1, hi |-> 0]
  <2> SUFFICES ASSUME b = [lo |-> 1, hi |-> 0] PROVE FALSE
      OBVIOUS
  <2>1. b.lo = 1 /\ b.hi = 0
      OBVIOUS
  <2> QED
    BY <1>1, <2>1
<1> QED
    BY <1>6, <1>7 DEF b

\* The range in hand continues what the consumer holds.
LEMMA InHandFits ==
    ASSUME IInv
    PROVE  /\ RangeInHand \in {Promise!NoOffer} \cup Promise!Offers(kept)
           /\ RangeInHand = Promise!NoOffer <=>
                ~(scan \in {"finalized", "pass"} /\ iter.current <= iter.end)
<1>1. CASE scan \in {"finalized", "pass"} /\ iter.current <= iter.end
  <2>1. RangeInHand = ForwardBatch(iter)
    BY <1>1, CallNumbers DEF RangeInHand
  <2>2. kept = from .. iter.current - 1 /\ from <= iter.current
    BY <1>1, BatchExtends
  <2>3. CountsWhatIsLeft(iter) /\ iter.range_size = MaxBlockRange /\ iter.end <= MaxHeight
    BY DEF IInv, Iteration
  <2> QED
    BY <1>1, <2>1, <2>2, <2>3, BatchIsOffered, CallNumbers DEF Promise!NoOffer
<1>2. CASE ~(scan \in {"finalized", "pass"} /\ iter.current <= iter.end)
    BY <1>2, CallNumbers DEF RangeInHand, Promise!NoOffer
<1> QED
    BY <1>1, <1>2

\* So does the one after a step that leaves an iterator in the right place.
LEMMA NextInHandFits ==
    ASSUME IInv, iter' \in Iterator, CountsWhatIsLeft(iter'), iter'.range_size = MaxBlockRange,
           iter'.end <= MaxHeight, from <= iter'.current, kept' = from .. iter'.current - 1,
           scan' \in {"finalized", "pass"}
    PROVE  /\ RangeInHand' \in {Promise!NoOffer} \cup Promise!Offers(kept')
           /\ iter'.current <= iter'.end => RangeInHand' \in Promise!Offers(kept')
           /\ iter'.current > iter'.end => RangeInHand' = Promise!NoOffer
<1>1. HasNext(iter') <=> iter'.current <= iter'.end
    BY HasNextIffLeft
<1>2. iter'.current \in Nat /\ iter'.end \in Nat
    BY IteratorNumbers
<1>3. CASE iter'.current <= iter'.end
  <2>1. RangeInHand' = ForwardBatch(iter')
    BY <1>1, <1>3 DEF RangeInHand
  <2>2. ForwardBatch(iter') \in Promise!Offers(kept')
    BY <1>3, BatchIsOffered
  <2> QED
    BY <1>2, <1>3, <2>1, <2>2
<1>4. CASE ~(iter'.current <= iter'.end)
  <2>1. RangeInHand' = Promise!NoOffer
    BY <1>1, <1>4 DEF RangeInHand, Promise!NoOffer
  <2> QED
    BY <1>2, <1>4, <2>1
<1> QED
    BY <1>3, <1>4

\* A step that the consumer does not see.
LEMMA Stutters ==
    ASSUME Phase' = Phase, from' = from, kept' = kept, RangeInHand' = RangeInHand
    PROVE  UNCHANGED Promise!vars
BY DEF Promise!vars, Phase

\* A step after which the stream is over.
LEMMA EndsPromise ==
    ASSUME Phase # "over", scan' \in {"open", "closed"}, from' = from, kept' = kept
    PROVE  Promise!Next
<1>1. Phase' = "over" /\ RangeInHand' = Promise!NoOffer
    BY DEF Phase, Ended, RangeInHand, Promise!NoOffer
<1> QED
    BY <1>1 DEF Promise!Next, Promise!End, Phase

\* What the environment and the start of a call mean to the consumer.
LEMMA OutsidePromise ==
    ASSUME IInv,
           \/ Environment
           \/ StartFails
           \/ \E s, e \in 0 .. MaxHeight : StreamHistorical(s, e)
    PROVE  [Promise!Next]_(Promise!vars)
<1>1. CASE Environment
  <2>1. UNCHANGED <<scan, from, iter, kept>>
    BY <1>1
    DEF Environment, NodeMines, NodeReorgs, NodeFinalizes, ReceiverDropped, Orphan, DropReceiver,
        listenerVars, historicalVars
  <2> QED
    BY <2>1, Stutters DEF Phase, Ended, RangeInHand
<1>2. CASE StartFails
  <2>1. scan = "idle" /\ scan' = "closed" /\ from' = from /\ kept' = kept
    BY <1>2 DEF StartFails, ReportError
  <2> QED
    BY <2>1, EndsPromise DEF Phase
<1>3. ASSUME NEW s \in 0 .. MaxHeight, NEW e \in 0 .. MaxHeight, StreamHistorical(s, e)
      PROVE  Promise!Next
  <2>1. scan = "idle" /\ scan' = "finality" /\ kept' = kept /\ from' = Least(s, e)
    BY <1>3 DEF StreamHistorical, StreamBlocks, listenerVars
  <2>2. from' \in 0 .. MaxHeight + 1
    BY <2>1, Numbers DEF Least
  <2>3. Phase = "new" /\ Phase' = "open" /\ RangeInHand' = RangeInHand
    BY <2>1 DEF Phase, Ended, RangeInHand
  <2> QED
    BY <2>1, <2>2, <2>3 DEF Promise!Next, Promise!Open, Phase
<1> QED
    BY <1>1, <1>2, <1>3

\* What the steps of a call mean to the consumer: a batch is taken, the blocks
\* that are not finalized are taken back, or the stream is over.
LEMMA CallPromise ==
    ASSUME IInv, IInv', Streaming
    PROVE  [Promise!Next]_(Promise!vars)
<1>0. HistoricalStep /\ UNCHANGED chainVars
    BY DEF Streaming
<1>1. iter' \in Iterator /\ CountsWhatIsLeft(iter') /\ iter'.range_size = MaxBlockRange
      /\ iter'.end <= MaxHeight
    BY DEF IInv, TypeOK, HistoricalTypeOK, Iteration, CountsWhatIsLeft
<1>2. CASE ReadFinalized
  <2>1. /\ scan = "finality" /\ scan' = "finalized" /\ from' = from /\ kept' = kept /\ kept = {}
        /\ iter'.current = from
    BY <1>2 DEF ReadFinalized, listenerVars, Forward, IInv, Progress
  <2>2. kept' = from .. iter'.current - 1 /\ from <= iter'.current
    BY <2>1, CallNumbers
  <2>3. RangeInHand' \in {Promise!NoOffer} \cup Promise!Offers(kept')
    BY <1>1, <2>1, <2>2, NextInHandFits
  <2>4. RangeInHand = Promise!NoOffer /\ Phase = "open" /\ Phase' = "open"
    BY <2>1 DEF RangeInHand, Promise!NoOffer, Phase, Ended
  <2>5. CASE RangeInHand' = Promise!NoOffer
    BY <2>1, <2>4, <2>5, Stutters
  <2>6. CASE RangeInHand' \in Promise!Offers(kept')
    BY <2>1, <2>4, <2>6 DEF Promise!Next, Promise!Offer, Phase
  <2> QED
    BY <2>3, <2>5, <2>6
<1>3. CASE SendRange
  <2> DEFINE b == ForwardBatch(iter)
  <2>1. /\ scan \in {"finalized", "pass"} /\ scan' = scan /\ iter.current <= iter.end
        /\ from' = from /\ iter' = ForwardAdvance(iter) /\ kept' = kept \cup Blocks(b)
    BY <1>3, CallNumbers DEF SendRange, Deliver
  <2>2. /\ from <= iter.current /\ b.lo = iter.current /\ b.hi \in Nat /\ b.lo <= b.hi
        /\ iter'.current = b.hi + 1 /\ kept' = from .. iter'.current - 1
    BY <2>1, BatchExtends
  <2>3. from <= iter'.current
    BY <2>2, CallNumbers
  <2>4. RangeInHand' \in {Promise!NoOffer} \cup Promise!Offers(kept')
    BY <1>1, <2>1, <2>2, <2>3, NextInHandFits
  <2>5. RangeInHand = b /\ RangeInHand # Promise!NoOffer
    BY <2>1, InHandFits, CallNumbers DEF RangeInHand
  <2>6. Phase = "open" /\ Phase' = "open"
    BY <2>1 DEF Phase, Ended
  <2> QED
    BY <2>1, <2>4, <2>5, <2>6 DEF Promise!Next, Promise!Take, Phase, Blocks
<1>4. CASE FinalizedStreamed
  <2>1. /\ scan = "finalized" /\ scan' \in {"open", "tip"} /\ from' = from /\ kept' = kept
        /\ ~HasNext(iter)
    BY <1>4 DEF FinalizedStreamed, listenerVars
  <2>2. CASE scan' = "open"
    BY <2>1, <2>2, EndsPromise DEF Phase, Ended
  <2>3. CASE scan' = "tip"
    BY <2>1, <2>3, Stutters DEF Phase, Ended, RangeInHand
  <2> QED
    BY <2>1, <2>2, <2>3
<1>5. CASE FetchEndBlock \/ StreamAgain
  <2>1. /\ scan \in {"tip", "reorged"} /\ scan' = "pass" /\ from' = from /\ iter' = Pass
        /\ NonFinalizedStart <= to
    BY <1>5 DEF FetchEndBlock, StreamAgain, IInv, Progress
  <2>2. /\ kept' = from .. NonFinalizedStart - 1
        /\ \/ kept' = kept
           \/ \E a \in 0 .. MaxHeight : kept' = {n \in kept : n <= a}
    <3>1. CASE FetchEndBlock
      BY <3>1 DEF FetchEndBlock, listenerVars, IInv, Progress
    <3>2. CASE StreamAgain
      <4>1. MinCommonAncestor \in 0 .. MaxHeight
        BY <2>1, StartsAfterFinalized, CallNumbers, Numbers
      <4> QED
        BY <1>0, <3>2, <4>1, StreamAgainInv DEF StreamAgain, Rollback
    <3> QED
      BY <1>5, <3>1, <3>2
  <2>3. iter'.current = NonFinalizedStart /\ iter'.end = to
    BY <2>1, PassBegins
  <2>4. RangeInHand' \in Promise!Offers(kept')
    BY <1>1, <2>1, <2>2, <2>3, NextInHandFits, StartsAfterFinalized
  <2>5. RangeInHand = Promise!NoOffer /\ Phase = "open" /\ Phase' = "open"
    BY <2>1 DEF RangeInHand, Promise!NoOffer, Phase, Ended
  <2>6. CASE kept' = kept
    BY <2>1, <2>4, <2>5, <2>6 DEF Promise!Next, Promise!Offer, Phase
  <2>7. CASE \E a \in 0 .. MaxHeight : kept' = {n \in kept : n <= a}
    BY <2>1, <2>4, <2>5, <2>7 DEF Promise!Next, Promise!Rollback, Phase
  <2> QED
    BY <2>2, <2>6, <2>7
<1>6. CASE EndBlockFails \/ EndBlockStands \/ RefetchFails \/ ScanFindsClosed
  <2>1. /\ scan \in {"tip", "pass", "finalized", "reorged"} /\ scan' \in {"open", "closed"}
        /\ from' = from /\ kept' = kept
    BY <1>6
    DEF EndBlockFails, EndBlockStands, RefetchFails, ScanFindsClosed, ReportError, PassStreamed,
        listenerVars
  <2> QED
    BY <2>1, EndsPromise DEF Phase, Ended
<1>7. CASE EndBlockReorged
  <2>1. /\ scan = "pass" /\ scan' = "reorged" /\ from' = from /\ kept' = kept
        /\ ~HasNext(iter)
    BY <1>7 DEF EndBlockReorged, PassStreamed, listenerVars
  <2> QED
    BY <2>1, Stutters DEF Phase, Ended, RangeInHand
<1> QED
    BY <1>0, <1>2, <1>3, <1>4, <1>5, <1>6, <1>7 DEF HistoricalStep

\* A historical stream implements RollbackStream: the consumer always holds one
\* run of blocks, every range continues it, and a ReorgDetected takes back
\* exactly what the next pass streams again (historical_range_handler.rs:69-167,
\* lib.rs "Handle reorgs by rollback").
THEOREM HistoricalKeepsPromise == Spec => KeepsPromise
<1>1. Init => Promise!Init
  <2> SUFFICES ASSUME Init PROVE Promise!Init
      OBVIOUS
  <2>1. scan = "idle" /\ from = 0 /\ kept = {}
    BY DEF Init, ListenerInit, HistoricalInit
  <2> QED
    BY <2>1 DEF Promise!Init, Promise!NoOffer, RangeInHand
<1>2. IInv /\ IInv' /\ [Next]_vars => [Promise!Next]_(Promise!vars)
  <2> SUFFICES ASSUME IInv, IInv', [Next]_vars
               PROVE  [Promise!Next]_(Promise!vars)
      OBVIOUS
  <2>1. CASE UNCHANGED vars
    <3>1. UNCHANGED <<scan, from, iter, kept>>
      BY <2>1 DEF vars, listenerVars, historicalVars
    <3> QED
      BY <3>1, Stutters DEF Phase, Ended, RangeInHand
  <2> QED
    BY <2>1, OutsidePromise, CallPromise DEF Next, Working
<1> QED
    BY <1>1, <1>2, HistoricalInvariant, PTL DEF Spec, KeepsPromise, Promise!Spec
=============================================================================
