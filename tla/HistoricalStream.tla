-------------------------- MODULE HistoricalStream --------------------------
(***************************************************************************)
(* A historical block stream: BlockRangeScanner::stream_historical starts  *)
(* one HistoricalRangeHandler, while the chain goes on and the consumer    *)
(* may leave.                                                              *)
(***************************************************************************)
EXTENDS Historical

vars == <<chainVars, listenerVars, historicalVars>>

Init == ChainInit /\ ListenerInit /\ HistoricalInit

NodeMines == Mine /\ UNCHANGED <<listenerVars, historicalVars>>

NodeReorgs(fork, tip) == Reorg(fork, tip) /\ Orphan(fork) /\ UNCHANGED historicalVars

NodeFinalizes(n) == Finalize(n) /\ UNCHANGED <<listenerVars, historicalVars>>

ReceiverDropped == DropReceiver /\ UNCHANGED <<chainVars, historicalVars>>

Ended == scan \in {"open", "closed"}

Environment ==
    /\ ~Ended
    /\ \/ NodeMines
       \/ \E fork, tip \in 0 .. MaxHeight : NodeReorgs(fork, tip)
       \/ \E n \in 1 .. MaxHeight : NodeFinalizes(n)
       \/ ReceiverDropped

\* stream_historical resolves both ids, puts them in order and spawns the task.
StreamHistorical(start, end) ==
    /\ start <= Height /\ end <= Height
    /\ StreamBlocks(Least(start, end), Greatest(start, end))
    /\ UNCHANGED <<chainVars, listenerVars>>

\* An id cannot be resolved: the error goes to the caller.
StartFails ==
    /\ scan = "idle"
    /\ ReportError
    /\ scan' = "closed"
    /\ UNCHANGED <<chainVars, from, to, finalizedNum, iter, endBlock>>

Streaming == HistoricalStep /\ UNCHANGED chainVars

Working ==
    \/ \E start, end \in 0 .. MaxHeight : StreamHistorical(start, end)
    \/ StartFails
    \/ Streaming

Next == Environment \/ Working

Spec == Init /\ [][Next]_vars

\* The executor runs the task, the channel drains or closes, and every RPC
\* call answers or fails.
FairSpec == Spec /\ WF_vars(Working)

-----------------------------------------------------------------------------

\* Every variable has its type.
TypeOK == ChainTypeOK /\ ListenerTypeOK /\ HistoricalTypeOK

\* A stream that ends without an error, before a consumer that is still there,
\* has delivered all of its range, in spite of the reorgs that cut a pass short
\* of the consumer's blocks and of finality that moves while it runs.
EndsComplete == scan = "open" /\ ~errored /\ open => kept = from .. to

\* Nor does it end while the consumer holds a block that was replaced since its
\* delivery: comparing the end block before and after a pass is enough to know
\* that no block of the pass changed (historical_range_handler.rs:100-189).
EndsSettled == [][scan' = "open" /\ ~errored' /\ open => stale' = {}]_vars

\* The stream ends early only after it told why, or when nobody listens.
EndsForAReason == scan = "closed" => errored \/ ~open

\* Reorgs cannot keep a historical stream from its end for ever.
Completes == <>Ended

\* The stream as a consumer that rolls back sees it.
Promise == INSTANCE RollbackStream WITH
    MaxBlock <- MaxHeight,
    phase    <- IF scan = "idle" THEN "new" ELSE IF Ended THEN "over" ELSE "open",
    first    <- from,
    held     <- kept,
    offered  <- RangeInHand

\* A historical stream implements RollbackStream: each pass takes the blocks of
\* the one before it back before it streams them again, and meets the finalized
\* part without a gap or an overlap.
KeepsPromise == Promise!Spec
=============================================================================
