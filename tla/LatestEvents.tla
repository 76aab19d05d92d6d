---------------------------- MODULE LatestEvents ----------------------------
(***************************************************************************)
(* The latest mode: EventScanner<LatestEvents>::start streams a range      *)
(* backwards (Rewind), and for each listener the LatestEventsHandler       *)
(* collects the newest logs from it and sends them at the end, oldest      *)
(* first.                                                                  *)
(*                                                                         *)
(*   Rewind -> pipe -> collector -> listener                               *)
(*                                                                         *)
(* There is one listener, and `pipe` stands for the channels between the   *)
(* two, whose tasks BlockRangeHandler has.  The logs of a batch are        *)
(* fetched when the batch is collected: a fetch that ran ahead is a        *)
(* collection that did, for nothing but the collector sees it.             *)
(***************************************************************************)
EXTENDS Rewind, LogCollector

CONSTANTS
    PipeCapacity,   \* messages on their way to the collector
    FinalityWaits   \* the finalized block does not pass an orphan in hand

ASSUME LatestAssumption == PipeCapacity \in Nat \ {0} /\ FinalityWaits \in BOOLEAN

VARIABLES
    logs,       \* numbers of the canonical blocks with a matching log
    pipe,       \* messages on their way, oldest first
    collected,  \* `collected`
    ancestor,   \* reorg_ancestor, NoAncestor for None
    collector,  \* the processor task of the listener
    warned,     \* an error was sent to the listener, and the task goes on
    overlapped  \* the descent streamed blocks that a rescan had streamed

collectorVars == <<collected, ancestor, collector, warned>>
latestVars == <<logs, pipe, collectorVars, overlapped>>
vars == <<chainVars, handlerVars, listenerVars, rewindVars, latestVars>>

NoAncestor == -1

BlocksMessage(range) == [kind |-> "blocks", lo |-> range.lo, hi |-> range.hi]
ReorgMessage(n) == [kind |-> "reorg", lo |-> n, hi |-> n]
ErrorMessage == [kind |-> "error", lo |-> 0, hi |-> 0]

Message == [kind : {"blocks", "reorg", "error"}, lo : 0 .. MaxHeight, hi : 0 .. MaxHeight]

Init ==
    /\ ChainInit /\ HandlerInit /\ ListenerInit /\ RewindInit
    /\ logs \in SUBSET (1 .. InitialHeight)
    /\ pipe = << >>
    /\ collected = << >> /\ ancestor = NoAncestor
    /\ collector = "waiting"
    /\ warned = FALSE /\ overlapped = FALSE

-----------------------------------------------------------------------------
(* The node and the consumer. *)

Idle == UNCHANGED <<pipe, collectorVars, overlapped>>

NodeMines ==
    /\ Mine
    /\ logs' \in {logs, logs \cup {Height + 1}}
    /\ UNCHANGED <<handlerVars, listenerVars, rewindVars>> /\ Idle

\* All of the new blocks have a matching log, or none has.
NodeReorgs(fork, tip) ==
    /\ Reorg(fork, tip)
    /\ Orphan(fork)
    /\ \E new \in {{}, fork + 1 .. tip} : logs' = {n \in logs : n <= fork} \cup new
    /\ UNCHANGED <<handlerVars, rewindVars>> /\ Idle

\* Numbers of the orphaned blocks the rewind has yet to act upon.
Unsettled ==
    stale \cup {b.number : b \in {c \in {checked, top} : c # NoBlock /\ ~Canonical(c)}}

NodeFinalizes(n) ==
    /\ FinalityWaits => \A orphan \in Unsettled : n < orphan
    /\ Finalize(n)
    /\ UNCHANGED <<handlerVars, listenerVars, rewindVars, logs>> /\ Idle

Over == rewind = "over" /\ collector = "over"

\* What happens before the start is another initial state, and nothing is
\* promised after an error but that the tasks end.
Environment ==
    /\ collector \in {"collecting", "sending"} /\ ~warned
    /\ \/ NodeMines
       \/ \E fork, tip \in 0 .. MaxHeight : NodeReorgs(fork, tip)
       \/ \E n \in 1 .. MaxHeight : NodeFinalizes(n)

-----------------------------------------------------------------------------
(* The rewind and what it sends. *)

\* A message goes into the pipe when there is room.
Send(message) == Len(pipe) < PipeCapacity /\ pipe' = Append(pipe, message)

\* stream_rewind, after which the handler is spawned.
StartLatest(a, b) ==
    /\ StreamRewind(a, b)
    /\ collector' = "collecting"
    /\ UNCHANGED <<chainVars, logs, pipe, collected, ancestor, warned, overlapped>>

\* The caller gets the error; the listeners' streams end.
StartFails ==
    /\ RewindFails
    /\ collector' = "over"
    /\ UNCHANGED <<chainVars, logs, pipe, collected, ancestor, warned, overlapped>>

Descend ==
    /\ SendBatch
    /\ Send(BlocksMessage(ReverseBatch(down)))
    /\ overlapped' = (overlapped \/ Blocks(ReverseBatch(down)) \cap kept # {})
    /\ UNCHANGED <<chainVars, logs, collectorVars>>

AnnounceReorg ==
    /\ TipReorged
    /\ Send(ReorgMessage(verdict.number))
    /\ UNCHANGED <<chainVars, logs, collectorVars, overlapped>>

Rescan ==
    /\ SendRescanBatch
    /\ Send(BlocksMessage(ForwardBatch(up)))
    /\ UNCHANGED <<chainVars, logs, collectorVars, overlapped>>

RewindGivesUp ==
    /\ TipCheckFails \/ FetchTipFails
    /\ IF open THEN Send(ErrorMessage) ELSE UNCHANGED pipe
    /\ UNCHANGED <<chainVars, logs, collectorVars, overlapped>>

RewindGoesOn == RewindSilently /\ UNCHANGED <<chainVars, latestVars>>

\* Mistake: the handler holds on to a stream it does not read any more.
StreamDroppedAtItsEnd ==
    /\ collector = "over" /\ rewind = "over"
    /\ DropReceiver
    /\ pipe' = << >>
    /\ UNCHANGED <<chainVars, handlerVars, rewindVars, logs, collectorVars, overlapped>>

\* The forwarder has a message for a collector that is over: it ends, and with
\* it the handler and its block stream.
StreamDropped ==
    /\ collector = "over" /\ pipe # << >>
    /\ DropReceiver
    /\ pipe' = << >>
    /\ UNCHANGED <<chainVars, handlerVars, rewindVars, logs, collectorVars, overlapped>>

-----------------------------------------------------------------------------
(* The collector. *)

Outside == UNCHANGED <<chainVars, handlerVars, listenerVars, rewindVars, logs, overlapped>>

\* The first message, and what else it changes.
Take(kind) ==
    /\ collector = "collecting"
    /\ pipe # << >>
    /\ Head(pipe).kind = kind
    /\ pipe' = Tail(pipe)

\* get_logs for the batch in hand.
LogsInHand == {n \in logs : Head(pipe).lo <= n /\ n <= Head(pipe).hi}

\* The logs are newer than those collected: they come from a rescan.
ShouldPrepend(a) == a # NoAncestor

\* Mistake: the rescan is never over.
AncestorForGood(numbers) == ancestor

\* reorg_ancestor after a batch with the logs `numbers`.
AncestorAfter(numbers) ==
    IF ancestor # NoAncestor /\ Max(numbers) <= ancestor THEN NoAncestor ELSE ancestor

\* The loop breaks when `count` logs are there.
CollectLogs ==
    /\ Take("blocks")
    /\ LogsInHand # {}
    /\ ancestor' = AncestorAfter(LogsInHand)
    /\ collected' = IF ShouldPrepend(ancestor') THEN Prepend(collected, NewestFirst(LogsInHand))
                    ELSE Extend(collected, NewestFirst(LogsInHand))
    /\ collector' = IF Len(collected') >= Count THEN "sending" ELSE collector
    /\ UNCHANGED warned /\ Outside

\* A batch without logs.
SkipBatch ==
    /\ Take("blocks")
    /\ LogsInHand = {}
    /\ UNCHANGED collectorVars /\ Outside

\* ReorgDetected: not passed on to the listener.
DiscardOnReorg ==
    /\ Take("reorg")
    /\ ancestor' = Head(pipe).lo
    /\ collected' = DiscardOrphaned(collected, Head(pipe).lo)
    /\ UNCHANGED <<collector, warned>> /\ Outside

\* The task ends, and its locals go.
CollectorEnds ==
    /\ collector' = "over"
    /\ collected' = << >> /\ ancestor' = NoAncestor /\ warned' = FALSE

\* An error of the stream or of get_logs, or Lagged in place of any message,
\* goes to the listener.  The collector goes on, unless the listener is gone.
PassError ==
    /\ \E kind \in {"blocks", "reorg", "error"} : Take(kind)
    /\ \/ warned' = TRUE /\ UNCHANGED <<collected, ancestor, collector>>
       \/ CollectorEnds
    /\ Outside

\* The block stream has ended and everything is collected.
StreamEnds ==
    /\ collector = "collecting"
    /\ rewind = "over" /\ pipe = << >>
    /\ collector' = "sending"
    /\ UNCHANGED <<pipe, collected, ancestor, warned>> /\ Outside

\* The collection goes out, oldest log first, or NoPastLogsFound when it is empty.
SendCollected ==
    /\ collector = "sending"
    /\ CollectorEnds
    /\ UNCHANGED pipe /\ Outside

Rewinding ==
    \/ \E a, b \in 0 .. MaxHeight : StartLatest(a, b)
    \/ StartFails
    \/ Descend
    \/ AnnounceReorg
    \/ Rescan
    \/ RewindGivesUp
    \/ RewindGoesOn

Collecting ==
    \/ StreamDropped
    \/ CollectLogs
    \/ SkipBatch
    \/ DiscardOnReorg
    \/ PassError
    \/ StreamEnds
    \/ SendCollected

Next == Environment \/ Rewinding \/ Collecting

Spec == Init /\ [][Next]_vars

\* The executor runs both tasks, RPC calls answer or fail, and the listener
\* reads its stream or drops it.
FairSpec == Spec /\ WF_vars(Rewinding) /\ WF_vars(Collecting)

-----------------------------------------------------------------------------

\* Every variable has its type; in particular a collection never holds more
\* than `count` logs, also while a rescan puts newer ones in front
\* (block_range_handler.rs:433-455).
TypeOK ==
    /\ ChainTypeOK /\ HandlerTypeOK /\ ListenerTypeOK /\ RewindTypeOK
    /\ logs \subseteq 0 .. Height
    /\ pipe \in Seq(Message) /\ Len(pipe) <= PipeCapacity
    /\ IsCollection(collected, 0 .. MaxHeight)
    /\ ancestor \in {NoAncestor} \cup 0 .. MaxHeight
    /\ collector \in {"waiting", "collecting", "sending", "over"}
    /\ warned \in BOOLEAN /\ overlapped \in BOOLEAN

\* Everything the rewind has sent is collected, and no rescan is under way.
Collected == open /\ pipe = << >> /\ rewind \notin {"tip", "rescan"}

\* The collection is what it is meant to be, the newest logs of the blocks
\* streamed so far, without those of blocks that a reorg replaced, whenever it
\* has caught up with the stream; unless there is a reorg the rewind has yet to
\* find, the listener was told of an error, or the descent went over blocks of
\* a rescan once more (block_range_handler.rs:265-306).
CollectsWhatStands ==
    collector \in {"collecting", "sending"} /\ Collected /\ stale = {} /\ ~warned /\ ~overlapped =>
        collected = FirstOf(NewestFirst(logs \cap kept), Count)

\* A rewind that ends without an error has streamed its whole range, and what a
\* consumer that rolls back holds then has no hole: a rescan begins right above
\* the common ancestor and the descent goes on where it was
\* (rewind_handler.rs:133-225).
RewindCovers ==
    rewind = "over" /\ ~errored /\ open => \E lo \in 0 .. bottom : kept = lo .. top.number

\* Looking at the tip alone is enough: when it is found canonical no block that
\* was streamed before is stale, reorgs during a rescan included
\* (rewind_handler.rs:140-147, 183-203).
TipVouchesForAll ==
    [][step = "detect" /\ step' = "done" => stale = {}]_vars

\* Every collection is sent in the end and no task is left behind, whether the
\* stream ends, `count` is reached before, or the listener leaves.
AnswerArrives == <>Over

-----------------------------------------------------------------------------
(* What the documentation says and the code does not do. *)

\* "Final delivery to log listeners preserves chronological order regardless of
\* reorgs." (event_scanner/builder.rs:392).  It does not, even if the listener was
\* told of no error.
ChronologicalOrder ==
    collector = "sending" /\ ~warned =>
        \A i \in 1 .. Len(collected) - 1 : collected[i] >= collected[i + 1]
=============================================================================
