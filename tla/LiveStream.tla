----------------------------- MODULE LiveStream -----------------------------
(***************************************************************************)
(* The live block stream (block_range_scanner/common.rs,                   *)
(* stream_live_blocks) with its two entries: BlockRangeScanner::stream_live *)
(* and the live-only branch of SyncHandler::run.  One task of the scanner  *)
(* takes headers from a subscription, asks the ReorgHandler whether the    *)
(* last block it streamed still stands, and streams the newly confirmed    *)
(* blocks, or those after the common ancestor, through RangeStream.        *)
(*                                                                         *)
(*   start -> subscribe -> first -> [switch ->] initial -> wait            *)
(*   wait -> check -> wait | range -> wait                   ... stopped   *)
(***************************************************************************)
EXTENDS RangeStream

CONSTANTS
    Confirmations,      \* block_confirmations
    SubscriptionBuffer, \* headers the subscription holds for a slow reader
    FinalityWaits       \* the finalized block does not pass an orphan in hand

ASSUME LiveAssumption ==
    /\ Confirmations \in Nat
    /\ SubscriptionBuffer \in Nat \ {0}
    /\ FinalityWaits \in BOOLEAN

VARIABLES
    headers,    \* numbers of the headers the subscription holds, oldest first
    lagged,     \* the subscription dropped headers since the last read
    announced,  \* the node's current tip was published to the subscription
    ended,      \* the subscription is over and left no error
    raced,      \* the chain replaced or finalized a block before the scanner could
                \* take it back
    pc,         \* where the task stands
    notify,     \* notify_after_first_block
    start,      \* stream_start
    batchStart, \* state.batch_start
    prev,       \* state.previous_batch_end
    incoming    \* number of the header being processed, 0 when none is

subscriptionVars == <<headers, lagged, announced, ended, raced>>
liveVars == <<pc, notify, start, batchStart, prev, incoming>>
vars == <<chainVars, handlerVars, listenerVars, rangeVars, subscriptionVars, liveVars>>

Init ==
    /\ ChainInit /\ HandlerInit /\ ListenerInit /\ RangeInit
    /\ headers = <<>> /\ lagged = FALSE /\ announced = FALSE /\ ended = FALSE /\ raced = FALSE
    /\ pc = "start" /\ notify = FALSE
    /\ start = 0 /\ batchStart = 0 /\ prev = NoBlock /\ incoming = 0

\* Mistake: a block counts as its own first confirmation.
ConfirmedTooEarly(number) ==
    SaturatingSub(number, IF Confirmations = 0 THEN 0 ELSE Confirmations - 1)

Confirmed(number) == SaturatingSub(number, Confirmations)

Stop == pc' = "stopped" /\ UNCHANGED <<notify, start, batchStart, prev, incoming>>

-----------------------------------------------------------------------------
(* The subscription and the chain behind it (external). *)

Subscribed == pc \notin {"start", "subscribe", "stopped"}

\* Subscribers hear of the new tip; a full subscription drops its oldest
\* header and tells the reader that it lagged.
Publish(number) ==
    /\ announced' = Subscribed
    /\ IF ~Subscribed THEN UNCHANGED <<headers, lagged>>
       ELSE /\ headers' = Append(IF Len(headers) = SubscriptionBuffer THEN Tail(headers)
                                 ELSE headers, number)
            /\ lagged' = (lagged \/ Len(headers) = SubscriptionBuffer)

NodeMines ==
    /\ Mine
    /\ Publish(Height + 1)
    /\ UNCHANGED <<ended, raced, handlerVars, listenerVars, rangeVars, liveVars>>

\* The scanner awaits a header, with no RPC call under way.
AtRest == pc \in {"start", "subscribe", "first", "wait"}

NodeReorgs(fork, tip) ==
    /\ Reorg(fork, tip)
    /\ Orphan(fork)
    /\ Publish(tip)
    /\ raced' = (raced \/ ~AtRest)
    /\ UNCHANGED <<ended, handlerVars, rangeVars, liveVars>>

\* The blocks the scanner has in hand, those it remembers among them.
InHand == {checked, verdict, batchEnd, lastEnd, prev} \cup {buffer[i] : i \in 1 .. Len(buffer)}

\* Numbers of the orphaned blocks in hand, which the scanner has yet to act upon.
Unsettled == {b.number : b \in {c \in InHand : c # NoBlock /\ ~Canonical(c)}}

NodeFinalizes(n) ==
    /\ FinalityWaits => \A orphan \in Unsettled : n < orphan
    /\ Finalize(n)
    /\ raced' = (raced \/ \E m \in stale : m <= n)
    /\ UNCHANGED <<handlerVars, listenerVars, rangeVars, headers, lagged, announced, ended,
                   liveVars>>

ReceiverDropped ==
    /\ DropReceiver
    /\ UNCHANGED <<chainVars, handlerVars, rangeVars, subscriptionVars, liveVars>>

Environment ==
    /\ pc # "stopped"
    /\ \/ NodeMines
       \/ \E fork, tip \in 0 .. MaxHeight : NodeReorgs(fork, tip)
       \/ \E n \in 1 .. MaxHeight : NodeFinalizes(n)
       \/ ReceiverDropped

-----------------------------------------------------------------------------
(* Starting the stream. *)

\* stream_live: from the first block that is not confirmed yet.
StreamLive ==
    /\ pc = "start"
    /\ pc' = "subscribe"
    /\ start' = Confirmed(Height + 1)
    /\ UNCHANGED <<chainVars, handlerVars, listenerVars, rangeVars, subscriptionVars,
                   notify, batchStart, prev, incoming>>

\* SyncHandler::run with a start block above the confirmed tip.
SyncLiveOnly(block) ==
    /\ pc = "start"
    /\ block > Confirmed(Height)
    /\ pc' = "subscribe"
    /\ start' = block
    /\ notify' = TRUE
    /\ UNCHANGED <<chainVars, handlerVars, listenerVars, rangeVars, subscriptionVars,
                   batchStart, prev, incoming>>

\* subscribe_blocks, then the task is spawned.
Subscribe ==
    /\ pc = "subscribe"
    /\ pc' = "first"
    /\ UNCHANGED <<chainVars, handlerVars, listenerVars, rangeVars, subscriptionVars,
                   notify, start, batchStart, prev, incoming>>

\* An RPC call of either entry fails: the error goes to the caller.
StartFails ==
    /\ pc \in {"start", "subscribe"}
    /\ ReportError
    /\ Stop
    /\ UNCHANGED <<chainVars, handlerVars, rangeVars, subscriptionVars>>

-----------------------------------------------------------------------------
(* Taking headers. *)

\* Err(Lagged): the next header is enough to go on, so it is ignored.
IgnoreLag ==
    /\ pc \in {"first", "wait"}
    /\ lagged
    /\ lagged' = FALSE
    /\ UNCHANGED <<chainVars, handlerVars, listenerVars, rangeVars, headers, announced, ended,
                   raced, liveVars>>

TakeHeader ==
    /\ ~lagged
    /\ headers # <<>>
    /\ headers' = Tail(headers)
    /\ UNCHANGED <<lagged, announced, ended, raced>>

\* skip_to_first_relevant_block: the header's confirmed block is before start.
SkipHeader ==
    /\ pc = "first"
    /\ TakeHeader
    /\ Confirmed(Head(headers)) < start
    /\ UNCHANGED <<chainVars, handlerVars, listenerVars, rangeVars, liveVars>>

\* The first range: what is confirmed by now, from stream_start.
InitialRange(number) ==
    /\ pc' = "initial"
    /\ StreamRange(SaturatingSub(start, 1), start, Confirmed(number))

FirstHeader ==
    /\ pc = "first"
    /\ TakeHeader
    /\ Confirmed(Head(headers)) >= start
    /\ incoming' = Head(headers)
    /\ IF notify THEN pc' = "switch" /\ UNCHANGED rangeVars
       ELSE InitialRange(Head(headers))
    /\ UNCHANGED <<chainVars, handlerVars, listenerVars, notify, start, batchStart, prev>>

\* Notification::SwitchingToLive.
SwitchToLive ==
    /\ pc = "switch"
    /\ Announce
    /\ InitialRange(incoming)
    /\ UNCHANGED <<chainVars, handlerVars, subscriptionVars, notify, start, batchStart,
                   prev, incoming>>

\* The end of initialize_live_streaming_state.
InitialRangeDone ==
    /\ pc = "initial"
    /\ stage = "done"
    /\ prev' = lastEnd
    /\ batchStart' = start
    /\ incoming' = 0
    /\ pc' = "wait"
    /\ RangeTaken
    /\ UNCHANGED <<chainVars, handlerVars, listenerVars, subscriptionVars, notify, start>>

\* A header of the loop: is the last streamed block still canonical?
ProcessHeader ==
    /\ pc = "wait"
    /\ TakeHeader
    /\ prev # NoBlock
    /\ incoming' = Head(headers)
    /\ pc' = "check"
    /\ Check(prev)
    /\ UNCHANGED <<chainVars, listenerVars, rangeVars, notify, start, batchStart, prev>>

\* No last block is known since a reorg went below stream_start: `continue`.
IgnoreHeader ==
    /\ pc = "wait"
    /\ TakeHeader
    /\ prev = NoBlock
    /\ UNCHANGED <<chainVars, handlerVars, listenerVars, rangeVars, liveVars>>

\* No more headers: any other error is passed on and ends the stream, while
\* None, the end of the subscription's own stream, ends it without a word.
SubscriptionEnds ==
    /\ pc \in {"first", "wait"}
    /\ \/ ReportError /\ UNCHANGED ended
       \/ ended' = TRUE /\ UNCHANGED listenerVars
    /\ Stop
    /\ UNCHANGED <<chainVars, handlerVars, rangeVars, headers, lagged, announced, raced>>

-----------------------------------------------------------------------------
(* One turn of the loop. *)

\* Mistake: a batch of one block is taken for an empty one.
StreamNextBatchNotLast(from) ==
    /\ batchStart' = from
    /\ IF Confirmed(incoming) <= from
       THEN pc' = "wait" /\ incoming' = 0 /\ UNCHANGED rangeVars
       ELSE /\ pc' = "range"
            /\ StreamRange(SaturatingSub(start, 1), from, Confirmed(incoming))
            /\ UNCHANGED incoming

\* stream_next_batch for the blocks `from` .. the incoming header's confirmed.
StreamNextBatch(from) ==
    /\ batchStart' = from
    /\ IF Confirmed(incoming) < from
       THEN pc' = "wait" /\ incoming' = 0 /\ UNCHANGED rangeVars
       ELSE /\ pc' = "range"
            /\ StreamRange(SaturatingSub(start, 1), from, Confirmed(incoming))
            /\ UNCHANGED incoming

\* Mistake: the last block of the previous batch is streamed again.
NoReorgOverlapping ==
    /\ pc = "check"
    /\ verdict = NoBlock
    /\ Answered
    /\ StreamNextBatch(prev.number)
    /\ UNCHANGED <<chainVars, listenerVars, subscriptionVars, notify, start, prev>>

NoReorg ==
    /\ pc = "check"
    /\ verdict = NoBlock
    /\ Answered
    /\ StreamNextBatch(prev.number + 1)
    /\ UNCHANGED <<chainVars, listenerVars, subscriptionVars, notify, start, prev>>

\* handle_reorg_detected, then stream_next_batch.
ReorgDetected ==
    /\ pc = "check"
    /\ verdict # NoBlock
    /\ Rollback(verdict.number)
    /\ Answered
    /\ IF verdict.number < start
       THEN prev' = NoBlock /\ StreamNextBatch(start)
       ELSE prev' = verdict /\ StreamNextBatch(verdict.number + 1)
    /\ UNCHANGED <<chainVars, subscriptionVars, notify, start>>

\* Mistake: the error is logged only.
CheckOfPreviousFailsSilently ==
    /\ pc = "check"
    /\ step = "failed"
    /\ Stop
    /\ UNCHANGED <<chainVars, handlerVars, listenerVars, rangeVars, subscriptionVars>>

\* Mistake: the error is passed on, and the stream goes on with the next header.
CheckOfPreviousFailsOnce ==
    /\ pc = "check"
    /\ step = "failed"
    /\ ReportError
    /\ step' = "idle" /\ UNCHANGED <<buffer, checked, verdict>>
    /\ pc' = "wait" /\ incoming' = 0
    /\ UNCHANGED <<chainVars, rangeVars, subscriptionVars, notify, start, batchStart, prev>>

CheckOfPreviousFails ==
    /\ pc = "check"
    /\ step = "failed"
    /\ ReportError
    /\ Stop
    /\ UNCHANGED <<chainVars, handlerVars, rangeVars, subscriptionVars>>

\* The end of stream_next_batch.
RangeStreamed ==
    /\ pc = "range"
    /\ stage = "done"
    /\ prev' = lastEnd
    /\ batchStart' = Confirmed(incoming) + 1
    /\ incoming' = 0
    /\ pc' = "wait"
    /\ RangeTaken
    /\ UNCHANGED <<chainVars, handlerVars, listenerVars, subscriptionVars, notify, start>>

\* A range call returned None: the channel is closed or an error was sent.
RangeGaveUp ==
    /\ pc \in {"initial", "range"}
    /\ stage = "none"
    /\ Stop
    /\ UNCHANGED <<chainVars, handlerVars, listenerVars, rangeVars, subscriptionVars>>

\* A notification finds the channel closed.
NotifyFindsClosed ==
    /\ ~open
    /\ pc = "switch" \/ (pc = "check" /\ verdict # NoBlock)
    /\ Stop
    /\ UNCHANGED <<chainVars, handlerVars, listenerVars, rangeVars, subscriptionVars>>

\* The steps of the calls the task makes.
Checking ==
    /\ CheckStep
    /\ UNCHANGED <<chainVars, listenerVars, rangeVars, subscriptionVars, liveVars>>

Ranging ==
    /\ RangeStep
    /\ UNCHANGED <<chainVars, subscriptionVars, liveVars>>

\* Entering the stream.
Starting ==
    \/ StreamLive
    \/ \E block \in 1 .. MaxHeight : SyncLiveOnly(block)
    \/ Subscribe
    \/ StartFails

\* The task: stream_live_blocks.
Streaming ==
    \/ IgnoreLag
    \/ SkipHeader
    \/ FirstHeader
    \/ SwitchToLive
    \/ InitialRangeDone
    \/ ProcessHeader
    \/ IgnoreHeader
    \/ NoReorg
    \/ ReorgDetected
    \/ CheckOfPreviousFails
    \/ RangeStreamed
    \/ RangeGaveUp
    \/ NotifyFindsClosed
    \/ Checking
    \/ Ranging

Working == Starting \/ Streaming

Next == Environment \/ Working \/ SubscriptionEnds

Spec == Init /\ [][Next]_vars

\* The executor runs the task, the channel drains or closes, and every RPC
\* call answers or fails: the scanner always makes its next step.  Nothing
\* makes the subscription end.
FairSpec == Spec /\ WF_vars(Working)

-----------------------------------------------------------------------------

SubscriptionTypeOK ==
    /\ headers \in Seq(1 .. MaxHeight) /\ Len(headers) <= SubscriptionBuffer
    /\ lagged \in BOOLEAN /\ announced \in BOOLEAN /\ ended \in BOOLEAN /\ raced \in BOOLEAN

LiveTypeOK ==
    /\ pc \in {"start", "subscribe", "first", "switch", "initial", "wait", "check",
               "range", "stopped"}
    /\ notify \in BOOLEAN
    /\ start \in 0 .. MaxHeight + 1
    /\ batchStart \in 0 .. MaxHeight + 1
    /\ prev \in OptionalBlock
    /\ incoming \in 0 .. MaxHeight

\* Every variable has its type; the memory and the subscription stay within
\* their capacities, and block numbers within what the node can have.
TypeOK ==
    /\ ChainTypeOK /\ HandlerTypeOK /\ ListenerTypeOK /\ RangeTypeOK
    /\ SubscriptionTypeOK /\ LiveTypeOK

\* A consumer that rolls back on ReorgDetected never has a hole in what it
\* holds and never gets a block it still holds a second time: every range
\* begins right after the last block held, across batches, lost headers, reorgs
\* found inside a range or between two headers, and the fallback to the
\* finalized block.  A consumer that holds nothing gets stream_start or, after
\* a reorg below it, the block before (common.rs:301-344, 442-455).
GapFree ==
    stage = "send" =>
        /\ Blocks(batch) \cap kept = {}
        /\ IF kept = {} THEN batch.lo \in {SaturatingSub(start, 1), start}
           ELSE batch.lo - 1 \in kept

\* A range is never sent before its blocks have their confirmations under the
\* header that caused it, whatever the iterator was reset to, and it is never
\* empty nor longer than max_block_range (common.rs:282, 348-385, 411-450).
\* The genesis block needs no confirmations.
BatchConfirmed ==
    stage = "send" =>
        /\ batch.hi = 0 \/ batch.hi + Confirmations <= incoming
        /\ batch.lo <= batch.hi
        /\ batch.hi - batch.lo < MaxBlockRange

\* The block whose check is answered.
BlockInQuestion == IF pc = "check" THEN prev ELSE batchEnd

\* A ReorgDetected notification takes back the block that was found reorged:
\* its common ancestor lies below that block, also when the ancestor is the
\* finalized block and the chain moved on during the search
\* (reorg_handler.rs:100-141, 157-186).
NoticeUndoesOrphan ==
    pc # "stopped" /\ verdict # NoBlock => verdict.number < BlockInQuestion.number

\* The memory of past blocks stays a record of what the consumer holds: in
\* ascending order, so that popping from the back finds the highest common
\* ancestor, and without blocks that a rollback took back.
MemoryFollowsStream ==
    /\ \A i, j \in 1 .. Len(buffer) : i < j => buffer[i].number < buffer[j].number
    /\ stage \notin {"check"} /\ pc # "check" =>
            \A i \in 1 .. Len(buffer) : buffer[i].number \in kept

\* The scanner awaits a header and the node has none for it: whatever happened
\* to the chain has been seen by the scanner.
Quiet == pc = "wait" /\ headers = <<>>

\* Whenever the scanner is quiet, the block it will check next is canonical and
\* is the highest block the consumer holds: no reorg of the tip of the stream
\* is missed, even one that races with the fetches (common.rs:209-297).
TipSettled ==
    Quiet /\ prev # NoBlock =>
        /\ Canonical(prev)
        /\ prev.number \in kept
        /\ \A n \in kept : n <= prev.number

\* As long as the chain only reorganises while the scanner awaits a header, and
\* finality passes no replaced block before the scanner takes it back, every block
\* the consumer holds is canonical whenever the scanner is quiet:
\* each delivered block that was reorged, however deep, was taken back and
\* streamed again.  A reorg that races with the fetches of a range may replace
\* a block below the end of a batch unnoticed (common.rs:411-431).
StreamSettled == Quiet /\ ~raced => stale = {}

\* The scanner ends only after it told why, when nobody listens, or when the
\* subscription had no more to give and no error either: every failed call and
\* every failed check on the way to the end of the task is passed on
\* (common.rs:122-158, 223-296, 416-456).
EndsForAReason == pc = "stopped" => errored \/ ~open \/ ended

\* Errors are terminal (error.rs:15): after one was delivered nothing more is,
\* neither a range nor a notification that takes blocks back, although the call
\* that met it and the task it belongs to end in different steps.
ErrorsAreTerminal == [][errored => kept' = kept]_vars

\* A reorg went below stream_start and left no block to check.
Stalled == pc = "wait" /\ prev = NoBlock

\* The consumer holds every confirmed block.  A block mined between the read of
\* the latest block and the subscription comes with the header of the next one.
CaughtUp == announced => start .. Confirmed(Height) \subseteq kept

\* Once the chain stops moving, the consumer gets everything that is confirmed,
\* however many headers were lost, unless the stream ended or is stalled.
CatchesUp == <>[](pc = "stopped" \/ ~open \/ Stalled \/ CaughtUp)

\* The stream as a consumer that rolls back sees it.
Promise == INSTANCE RollbackStream WITH
    MaxBlock <- MaxHeight,
    phase    <- IF pc = "start" THEN "new" ELSE IF pc = "stopped" THEN "over" ELSE "open",
    first    <- start,
    held     <- kept,
    offered  <- IF stage = "send" /\ pc # "stopped" THEN batch ELSE NoBatch

\* The live stream implements RollbackStream: seen by a rolling-back consumer
\* it only ever extends what that holds at the end, or takes back its end.
KeepsPromise == Promise!Spec

-----------------------------------------------------------------------------
(* What the documentation says and the code does not do. *)

\* "Continuous operation: Runs indefinitely until the scanner is dropped or
\* encounters an error" and, on a reorg, "Continues streaming from the new
\* chain state" (event_scanner/builder.rs:251-260).
ContinuousOperation == <>[](pc = "stopped" \/ ~open \/ CaughtUp)
=============================================================================
