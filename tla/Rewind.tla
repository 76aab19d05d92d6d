------------------------------- MODULE Rewind -------------------------------
(***************************************************************************)
(* RewindHandler (block_range_scanner/rewind_handler.rs): streams a range  *)
(* of blocks backwards, in batches that ascend, checks the tip of the range *)
(* after each batch, and streams what a reorg replaced again, upwards,     *)
(* before it goes on downwards.                                            *)
(*                                                                         *)
(*   start -> finality -> next -> check -> next ... over                   *)
(*                                check -> tip -> rescan -> next           *)
(***************************************************************************)
EXTENDS ReorgHandler, BlockRangeScanner

VARIABLES
    rewind,     \* where the handler stands
    top,        \* `tip`: the highest block of the range, as it was fetched last
    bottom,     \* `to`
    checkReorg, \* check_reorg
    down,       \* the iterator of the rewind
    up          \* the iterator of a rescan

rewindVars == <<rewind, top, bottom, checkReorg, down, up>>

NoIteration == Forward(1, 0, MaxBlockRange)

RewindInit ==
    /\ rewind = "start"
    /\ top = NoBlock /\ bottom = 0 /\ checkReorg = FALSE
    /\ down = NoIteration /\ up = NoIteration

\* RewindHandler::run: both ids are there; they are put in order.
StreamRewind(a, b) ==
    /\ rewind = "start"
    /\ a <= Height /\ b <= Height
    /\ top' = BlockAt(Greatest(a, b))
    /\ bottom' = Least(a, b)
    /\ rewind' = "finality"
    /\ UNCHANGED <<checkReorg, down, up, handlerVars, listenerVars>>

\* An id cannot be resolved: the error goes to the caller.
RewindFails ==
    /\ rewind = "start"
    /\ rewind' = "over"
    /\ ReportError
    /\ UNCHANGED <<top, bottom, checkReorg, down, up, handlerVars>>

\* The finalized block, or 0 when the provider has none or fails.
DecideChecks ==
    /\ rewind = "finality"
    /\ \E n \in {finalized, 0} : checkReorg' = (top.number > n)
    /\ down' = Reverse(top.number, bottom, MaxBlockRange)
    /\ rewind' = "next"
    /\ UNCHANGED <<top, bottom, up, handlerVars, listenerVars>>

\* A batch of the rewind goes out and the check of the tip begins.
SendBatch ==
    /\ rewind = "next"
    /\ HasNext(down)
    /\ Deliver(ReverseBatch(down))
    /\ down' = ReverseAdvance(down)
    /\ IF checkReorg THEN rewind' = "check" /\ Check(top)
       ELSE UNCHANGED <<rewind, handlerVars>>
    /\ UNCHANGED <<top, bottom, checkReorg, up>>

Rewound ==
    /\ rewind = "next"
    /\ ~HasNext(down)
    /\ rewind' = "over"
    /\ UNCHANGED <<top, bottom, checkReorg, down, up, handlerVars, listenerVars>>

TipStands ==
    /\ rewind = "check"
    /\ verdict = NoBlock
    /\ Answered
    /\ rewind' = "next"
    /\ UNCHANGED <<top, bottom, checkReorg, down, up, listenerVars>>

\* Mistake: the first block above the ancestor is left out.
TipReorgedAboveAncestor ==
    /\ rewind = "check"
    /\ verdict # NoBlock
    /\ Answered
    /\ Rollback(verdict.number)
    /\ up' = Forward(verdict.number + 2, top.number, MaxBlockRange)
    /\ rewind' = "tip"
    /\ UNCHANGED <<top, bottom, checkReorg, down>>

\* handle_reorg_rescan: ReorgDetected goes out; the blocks above the common
\* ancestor, up to the number of the tip, come next.
TipReorged ==
    /\ rewind = "check"
    /\ verdict # NoBlock
    /\ Answered
    /\ Rollback(verdict.number)
    /\ up' = Forward(verdict.number + 1, top.number, MaxBlockRange)
    /\ rewind' = "tip"
    /\ UNCHANGED <<top, bottom, checkReorg, down>>

TipCheckFails ==
    /\ rewind = "check"
    /\ step = "failed"
    /\ ReportError
    /\ rewind' = "over"
    /\ UNCHANGED <<top, bottom, checkReorg, down, up, handlerVars>>

\* The block that now has the tip's number.
FetchTip ==
    /\ rewind = "tip"
    /\ top.number <= Height
    /\ top' = BlockAt(top.number)
    /\ rewind' = "rescan"
    /\ UNCHANGED <<bottom, checkReorg, down, up, handlerVars, listenerVars>>

\* The chain is shorter now, or the call fails.
FetchTipFails ==
    /\ rewind = "tip"
    /\ ReportError
    /\ rewind' = "over"
    /\ UNCHANGED <<top, bottom, checkReorg, down, up, handlerVars>>

SendRescanBatch ==
    /\ rewind = "rescan"
    /\ HasNext(up)
    /\ Deliver(ForwardBatch(up))
    /\ up' = ForwardAdvance(up)
    /\ UNCHANGED <<rewind, top, bottom, checkReorg, down, handlerVars>>

\* The rewind goes on where it was.
Rescanned ==
    /\ rewind = "rescan"
    /\ ~HasNext(up)
    /\ up' = NoIteration
    /\ rewind' = "next"
    /\ UNCHANGED <<top, bottom, checkReorg, down, handlerVars, listenerVars>>

\* A send finds the channel closed.
RewindFindsClosed ==
    /\ ~open
    /\ \/ rewind = "next" /\ HasNext(down)
       \/ rewind = "check" /\ verdict # NoBlock
       \/ rewind = "rescan" /\ HasNext(up)
    /\ rewind' = "over"
    /\ UNCHANGED <<top, bottom, checkReorg, down, up, handlerVars, listenerVars>>

Checking == CheckStep /\ UNCHANGED <<rewindVars, listenerVars>>

\* The steps that send nothing to an open channel.
RewindSilently ==
    \/ DecideChecks
    \/ Rewound
    \/ TipStands
    \/ FetchTip
    \/ Rescanned
    \/ RewindFindsClosed
    \/ Checking

RewindTypeOK ==
    /\ rewind \in {"start", "finality", "next", "check", "tip", "rescan", "over"}
    /\ top \in OptionalBlock
    /\ bottom \in 0 .. MaxHeight
    /\ checkReorg \in BOOLEAN
    /\ down \in Iterator /\ up \in Iterator
=============================================================================
