----------------------------- MODULE Historical -----------------------------
(***************************************************************************)
(* HistoricalRangeHandler (block_range_scanner/historical_range_handler.rs): *)
(* one call streams a range of blocks that exist already, the finalized    *)
(* ones without checks, the others again and again until their last block  *)
(* is the same before and after they were streamed.                        *)
(*                                                                         *)
(*   idle -> finality -> finalized -> tip -> pass -> open                  *)
(*                                          pass -> reorged -> pass        *)
(*                                                                         *)
(* "open" and "closed" are the ChannelState the call returns.              *)
(***************************************************************************)
EXTENDS BlockRangeScanner

VARIABLES
    scan,           \* where the current call stands
    from, to,       \* self.start and self.end
    finalizedNum,   \* finalized_block_num, as read at the begin of the call
    iter,           \* the iterator of the finalized part or of the current pass
    endBlock        \* the end block as it was fetched last

historicalVars == <<scan, from, to, finalizedNum, iter, endBlock>>

NoIteration == Forward(1, 0, MaxBlockRange)

HistoricalInit ==
    /\ scan = "idle"
    /\ from = 0 /\ to = 0 /\ finalizedNum = 0
    /\ iter = NoIteration
    /\ endBlock = NoBlock

\* Mistake: one block more than asked for.
StreamBlocksPastEnd(start, end) ==
    /\ scan = "idle"
    /\ scan' = "finality"
    /\ from' = start /\ to' = end + 1
    /\ UNCHANGED <<finalizedNum, iter, endBlock>>

\* A call for the blocks start .. end.
StreamBlocks(start, end) ==
    /\ scan = "idle"
    /\ scan' = "finality"
    /\ from' = start /\ to' = end
    /\ UNCHANGED <<finalizedNum, iter, endBlock>>

\* The caller takes the result and the locals of the call go.
ScanTaken ==
    /\ scan' = "idle"
    /\ from' = 0 /\ to' = 0 /\ finalizedNum' = 0
    /\ iter' = NoIteration
    /\ endBlock' = NoBlock

\* The finalized block, or 0 when the provider has none or fails.
ReadFinalized ==
    /\ scan = "finality"
    /\ finalizedNum' \in {finalized, 0}
    /\ iter' = Forward(from, Least(finalizedNum', to), MaxBlockRange)
    /\ scan' = "finalized"
    /\ UNCHANGED <<from, to, endBlock, listenerVars>>

\* Either loop sends the next range.
SendRange ==
    /\ scan \in {"finalized", "pass"}
    /\ HasNext(iter)
    /\ Deliver(ForwardBatch(iter))
    /\ iter' = ForwardAdvance(iter)
    /\ UNCHANGED <<scan, from, to, finalizedNum, endBlock>>

NonFinalizedStart == Greatest(from, Least(finalizedNum, to) + 1)

\* Mistake: a part of one block is taken for an empty one.
FinalizedStreamedButLast ==
    /\ scan = "finalized"
    /\ ~HasNext(iter)
    /\ scan' = IF NonFinalizedStart >= to THEN "open" ELSE "tip"
    /\ UNCHANGED <<from, to, finalizedNum, iter, endBlock, listenerVars>>

\* The finalized part is out, and with it everything or not.
FinalizedStreamed ==
    /\ scan = "finalized"
    /\ ~HasNext(iter)
    /\ scan' = IF NonFinalizedStart > to THEN "open" ELSE "tip"
    /\ UNCHANGED <<from, to, finalizedNum, iter, endBlock, listenerVars>>

Pass == Forward(NonFinalizedStart, to, MaxBlockRange)

\* The end block before the first pass.
FetchEndBlock ==
    /\ scan = "tip"
    /\ to <= Height
    /\ endBlock' = BlockAt(to)
    /\ iter' = Pass
    /\ scan' = "pass"
    /\ UNCHANGED <<from, to, finalizedNum, listenerVars>>

\* Mistake: the error is logged only.
EndBlockFailsSilently ==
    /\ scan = "tip"
    /\ scan' = "closed"
    /\ UNCHANGED <<from, to, finalizedNum, iter, endBlock, listenerVars>>

\* The provider has no such block (the chain shrank) or the call fails.
EndBlockFails ==
    /\ scan = "tip"
    /\ ReportError
    /\ scan' = "closed"
    /\ UNCHANGED <<from, to, finalizedNum, iter, endBlock>>

PassStreamed == scan = "pass" /\ ~HasNext(iter)

\* Mistake: any block under the end's number is good enough.
EndBlockStandsByNumber ==
    /\ PassStreamed
    /\ to <= Height
    /\ scan' = "open"
    /\ UNCHANGED <<from, to, finalizedNum, iter, endBlock, listenerVars>>

\* get_reorged_end_block is None: the end block is still the same.
EndBlockStands ==
    /\ PassStreamed
    /\ Canonical(endBlock)
    /\ scan' = "open"
    /\ UNCHANGED <<from, to, finalizedNum, iter, endBlock, listenerVars>>

\* get_reorged_end_block is None as well when the fetch fails: the error is
\* sent, the channel is reported open.
RefetchFails ==
    /\ PassStreamed
    /\ ReportError
    /\ scan' = "open"
    /\ UNCHANGED <<from, to, finalizedNum, iter, endBlock>>

\* Mistake: the tracked end block is not updated.
EndBlockReorgedForgotten ==
    /\ PassStreamed
    /\ to <= Height
    /\ ~Canonical(endBlock)
    /\ scan' = "reorged"
    /\ UNCHANGED <<from, to, finalizedNum, iter, endBlock, listenerVars>>

\* get_reorged_end_block is the new end block.
EndBlockReorged ==
    /\ PassStreamed
    /\ to <= Height
    /\ ~Canonical(endBlock)
    /\ endBlock' = BlockAt(to)
    /\ scan' = "reorged"
    /\ UNCHANGED <<from, to, finalizedNum, iter, listenerVars>>

MinCommonAncestor == Greatest(SaturatingSub(NonFinalizedStart, 1), finalizedNum)

\* Mistake: only the end block is taken back.
StreamAgainFromEnd ==
    /\ scan = "reorged"
    /\ Rollback(SaturatingSub(to, 1))
    /\ iter' = Pass
    /\ scan' = "pass"
    /\ UNCHANGED <<from, to, finalizedNum, endBlock>>

\* ReorgDetected, then everything that is not finalized once more.
StreamAgain ==
    /\ scan = "reorged"
    /\ Rollback(MinCommonAncestor)
    /\ iter' = Pass
    /\ scan' = "pass"
    /\ UNCHANGED <<from, to, finalizedNum, endBlock>>

\* A send finds the channel closed.
ScanFindsClosed ==
    /\ ~open
    /\ (scan \in {"finalized", "pass"} /\ HasNext(iter)) \/ scan = "reorged"
    /\ scan' = "closed"
    /\ UNCHANGED <<from, to, finalizedNum, iter, endBlock, listenerVars>>

HistoricalStep ==
    \/ ReadFinalized
    \/ SendRange
    \/ FinalizedStreamed
    \/ FetchEndBlock
    \/ EndBlockFails
    \/ EndBlockStands
    \/ RefetchFails
    \/ EndBlockReorged
    \/ StreamAgain
    \/ ScanFindsClosed

\* The range that goes out next.
RangeInHand ==
    IF scan \in {"finalized", "pass"} /\ HasNext(iter) THEN ForwardBatch(iter)
    ELSE [lo |-> 1, hi |-> 0]

HistoricalTypeOK ==
    /\ scan \in {"idle", "finality", "finalized", "tip", "pass", "reorged", "open", "closed"}
    /\ from \in 0 .. MaxHeight /\ to \in 0 .. MaxHeight
    /\ finalizedNum \in 0 .. MaxHeight
    /\ iter \in Iterator
    /\ endBlock \in OptionalBlock
=============================================================================
