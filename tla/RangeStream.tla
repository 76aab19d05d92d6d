---------------------------- MODULE RangeStream ----------------------------
(***************************************************************************)
(* stream_range_with_reorg_handling (block_range_scanner/common.rs): one   *)
(* call streams the blocks of a range in batches and checks the last block *)
(* of each batch, after it was sent, for a reorg.                          *)
(*                                                                         *)
(*   idle -> fetch -> send -> check -> fetch ...                    done   *)
(*                                  -> notify -> fetch ...          none   *)
(*                                                                         *)
(* "done" and "none" are the two ways the call returns: Some(last batch    *)
(* end), held in lastEnd, and None.                                        *)
(***************************************************************************)
EXTENDS ReorgHandler, BlockRangeScanner

VARIABLES
    stage,          \* where the current call stands
    minAncestor,    \* min_common_ancestor
    it,             \* the range iterator
    batch,          \* the batch the iterator yielded last
    batchEnd,       \* its last block, as fetched before the batch was sent
    lastEnd         \* last_batch_end, and the result of a call that is done

rangeVars == <<stage, minAncestor, it, batch, batchEnd, lastEnd>>

NoBatch == [lo |-> 1, hi |-> 0]
NoRange == Forward(1, 0, MaxBlockRange)

RangeInit ==
    /\ stage = "idle"
    /\ minAncestor = 0
    /\ it = NoRange
    /\ batch = NoBatch
    /\ batchEnd = NoBlock
    /\ lastEnd = NoBlock

\* A call for the blocks start .. end.
StreamRange(min_common_ancestor, start, end) ==
    /\ stage = "idle"
    /\ stage' = "fetch"
    /\ minAncestor' = min_common_ancestor
    /\ it' = Forward(start, end, MaxBlockRange)
    /\ lastEnd' = NoBlock
    /\ UNCHANGED <<batch, batchEnd>>

\* The caller takes the result and the locals of the call go.
RangeTaken ==
    /\ stage' = "idle"
    /\ minAncestor' = 0
    /\ it' = NoRange
    /\ batch' = NoBatch
    /\ batchEnd' = NoBlock
    /\ lastEnd' = NoBlock

\* The next batch, and its last block from the provider.
FetchBatchEnd ==
    /\ stage = "fetch"
    /\ HasNext(it)
    /\ ForwardBatch(it).hi <= Height
    /\ batch' = ForwardBatch(it)
    /\ batchEnd' = BlockAt(batch'.hi)
    /\ it' = ForwardAdvance(it)
    /\ stage' = "send"
    /\ UNCHANGED <<minAncestor, lastEnd, handlerVars, listenerVars>>

\* The provider has no such block (the chain shrank) or the call fails.
FetchFails ==
    /\ stage = "fetch"
    /\ HasNext(it)
    /\ stage' = "none"
    /\ ReportError
    /\ UNCHANGED <<minAncestor, it, batch, batchEnd, lastEnd, handlerVars>>

\* The batch goes out, then its last block is checked.
SendBatch ==
    /\ stage = "send"
    /\ Deliver(batch)
    /\ Check(batchEnd)
    /\ stage' = "check"
    /\ UNCHANGED <<minAncestor, it, batch, batchEnd, lastEnd>>

\* No reorg: on to the next batch.
BatchStands ==
    /\ stage = "check"
    /\ verdict = NoBlock
    /\ Answered
    /\ lastEnd' = batchEnd
    /\ stage' = "fetch"
    /\ UNCHANGED <<minAncestor, it, batch, batchEnd, listenerVars>>

\* Mistake: the range is resumed at the common ancestor itself.
NotifyReorgTooEarly ==
    /\ stage = "check"
    /\ verdict # NoBlock
    /\ Rollback(verdict.number)
    /\ Answered
    /\ it' = ResetTo(it, Greatest(verdict.number, minAncestor))
    /\ lastEnd' = batchEnd
    /\ stage' = "fetch"
    /\ UNCHANGED <<minAncestor, batch, batchEnd>>

\* A reorg: tell the consumer and go on from after the common ancestor.
NotifyReorg ==
    /\ stage = "check"
    /\ verdict # NoBlock
    /\ Rollback(verdict.number)
    /\ Answered
    /\ it' = ResetTo(it, Greatest(verdict.number + 1, minAncestor))
    /\ lastEnd' = batchEnd
    /\ stage' = "fetch"
    /\ UNCHANGED <<minAncestor, batch, batchEnd>>

\* The check failed.
BatchCheckFails ==
    /\ stage = "check"
    /\ step = "failed"
    /\ stage' = "none"
    /\ ReportError
    /\ UNCHANGED <<minAncestor, it, batch, batchEnd, lastEnd, handlerVars>>

\* The channel is closed: give up without a word.
SendFindsClosed ==
    /\ ~open
    /\ stage = "send" \/ (stage = "check" /\ verdict # NoBlock)
    /\ stage' = "none"
    /\ UNCHANGED <<minAncestor, it, batch, batchEnd, lastEnd, handlerVars, listenerVars>>

\* The iterator is exhausted.
RangeDone ==
    /\ stage = "fetch"
    /\ ~HasNext(it)
    /\ stage' = "done"
    /\ UNCHANGED <<minAncestor, it, batch, batchEnd, lastEnd, handlerVars, listenerVars>>

RangeStep ==
    \/ FetchBatchEnd
    \/ FetchFails
    \/ SendBatch
    \/ BatchStands
    \/ NotifyReorg
    \/ BatchCheckFails
    \/ SendFindsClosed
    \/ RangeDone

RangeTypeOK ==
    /\ stage \in {"idle", "fetch", "send", "check", "done", "none"}
    /\ minAncestor \in 0 .. MaxHeight
    /\ it \in Iterator
    /\ batch \in [lo : BlockNumber, hi : BlockNumber]
    /\ batchEnd \in OptionalBlock
    /\ lastEnd \in OptionalBlock
=============================================================================
