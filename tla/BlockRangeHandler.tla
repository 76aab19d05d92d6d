------------------------- MODULE BlockRangeHandler -------------------------
(***************************************************************************)
(* The handlers between one block stream and the listeners of an event     *)
(* scanner (event_scanner/block_range_handler.rs), and the tasks in which  *)
(* the modes run them (event_scanner/modes/).                              *)
(*                                                                         *)
(*   block stream -> broadcast -> forwarder -> queue -> processor -> listener *)
(*                                                                         *)
(* A handler broadcasts the messages of its block stream.  For each of its *)
(* listeners a forwarder takes them from the broadcast channel to a queue, *)
(* and a processor fetches the logs of several messages at once and hands  *)
(* the results on in order (`buffered`).  "stream" is the StreamHandler,   *)
(* "latest" the LatestEventsHandler, whose processors collect logs and     *)
(* send them at the end.  The sync-from-latest mode runs "latest", then    *)
(* "stream".                                                               *)
(*                                                                         *)
(* A message is its place in the block stream.                             *)
(***************************************************************************)
EXTENDS Integers, Sequences, SequencesExt

CONSTANTS
    Listeners,
    MaxMessages,            \* bounds the block streams
    MaxConcurrentFetches,   \* max_concurrent_fetches
    BroadcastCapacity       \* broadcast_channel_capacity

HandlerAssumption ==
    /\ MaxMessages \in Nat
    /\ MaxConcurrentFetches \in Nat \ {0}
    /\ BroadcastCapacity \in Nat \ {0}

ASSUME HandlersAreConfigured == HandlerAssumption

Handlers == {"latest", "stream"}

VARIABLES
    handler,    \* handle() of each handler
    published,  \* how many messages it has broadcast
    present,    \* the listeners whose consumer holds on to its stream
    streamed,   \* the listeners that got something from the StreamHandler
    answered,   \* the listeners that got their collection
    forwarder,  \* per handler and listener, the task that forwards
    next,       \* ... the message it receives next
    hand,       \* ... what it sends to the queue
    queue,      \* ... the queue of the processor
    fetching,   \* ... the messages in `buffered`, and whether they are fetched
    processor,  \* ... the task that processes
    account     \* ... the last message whose logs, or loss, the listener knows of

taskVars == <<forwarder, next, hand, queue, fetching, processor, account>>
handleVars == <<handler, published>>
consumerVars == <<present, streamed, answered>>
vars == <<handleVars, consumerVars, taskVars>>

Item == [lag : BOOLEAN, from : 1 .. MaxMessages, to : 1 .. MaxMessages]
Message(n) == [lag |-> FALSE, from |-> n, to |-> n]
Lagged(n, m) == [lag |-> TRUE, from |-> n, to |-> m]
Nothing == [lag |-> FALSE, from |-> 1, to |-> 0]

\* spawn: the tasks of the listeners L begin.
Spawned(L, task) == [l \in Listeners |-> IF l \in L THEN task ELSE "none"]

\* The subscriptions are made before the start.  The modes: live, historic and
\* sync-from-block stream, latest collects, sync-from-latest does one after the
\* other.
Init ==
    /\ present \in SUBSET Listeners
    /\ handler \in {[latest |-> "unused",  stream |-> "running"],
                    [latest |-> "running", stream |-> "unused"],
                    [latest |-> "running", stream |-> "waiting"]}
    /\ LET starting(h) == IF handler[h] = "running" THEN present ELSE {} IN
       /\ forwarder = [h \in Handlers |-> Spawned(starting(h), "receiving")]
       /\ processor = [h \in Handlers |-> Spawned(starting(h), "processing")]
    /\ streamed = {} /\ answered = {}
    /\ published = [h \in Handlers |-> 0]
    /\ next = [h \in Handlers |-> [l \in Listeners |-> 1]]
    /\ hand = [h \in Handlers |-> [l \in Listeners |-> Nothing]]
    /\ queue = [h \in Handlers |-> [l \in Listeners |-> << >>]]
    /\ fetching = [h \in Handlers |-> [l \in Listeners |-> << >>]]
    /\ account = [h \in Handlers |-> [l \in Listeners |-> 0]]

-----------------------------------------------------------------------------
(* broadcast_stream *)

Receives(h, l) == forwarder[h][l] \in {"receiving", "sending"}

\* A message of the block stream is broadcast; slow forwarders do not hold it up.
Broadcast(h) ==
    /\ handler[h] = "running"
    /\ published[h] < MaxMessages
    /\ \E l \in Listeners : Receives(h, l)
    /\ published' = [published EXCEPT ![h] = @ + 1]
    /\ UNCHANGED <<handler, consumerVars, taskVars>>

\* The block stream ends, or nobody receives any more; the sender is dropped.
BroadcastEnds(h) ==
    /\ handler[h] = "running"
    /\ handler' = [handler EXCEPT ![h] = "joining"]
    /\ UNCHANGED <<published, consumerVars, taskVars>>

\* Every forwarder has ended.
JoinAll(h) ==
    /\ handler[h] = "joining"
    /\ \A l \in Listeners : forwarder[h][l] \in {"none", "done"}
    /\ handler' = [handler EXCEPT ![h] = "over"]
    /\ UNCHANGED <<published, consumerVars, taskVars>>

\* A forwarder has panicked: so does join_all, which drops the others.
JoinPanics(h) ==
    /\ handler[h] = "joining"
    /\ \E l \in Listeners : forwarder[h][l] = "panicked"
    /\ handler' = [handler EXCEPT ![h] = "panicked"]
    /\ forwarder' = [forwarder EXCEPT ![h] =
                        [l \in Listeners |-> IF Receives(h, l) THEN "aborted" ELSE @[l]]]
    /\ UNCHANGED <<published, consumerVars, next, hand, queue, fetching, processor, account>>

\* sync-from-latest: the sync stream is there, the StreamHandler starts.
StartStreaming ==
    /\ handler["latest"] = "over" /\ handler["stream"] = "waiting"
    /\ handler' = [handler EXCEPT !["stream"] = "running"]
    /\ LET subscribed == {l \in Listeners : processor["latest"][l] # "none"} IN
       /\ forwarder' = [forwarder EXCEPT !["stream"] = Spawned(subscribed, "receiving")]
       /\ processor' = [processor EXCEPT !["stream"] = Spawned(subscribed, "processing")]
    /\ UNCHANGED <<published, consumerVars, next, hand, queue, fetching, account>>

\* sync-from-latest: there is no sync stream; the listeners get the error.
StartStreamingFails ==
    /\ handler["latest"] = "over" /\ handler["stream"] = "waiting"
    /\ handler' = [handler EXCEPT !["stream"] = "unused"]
    /\ UNCHANGED <<published, consumerVars, taskVars>>

-----------------------------------------------------------------------------
(* The forwarder of a listener *)

\* The oldest message the broadcast channel still holds.
Oldest(h) == published[h] - BroadcastCapacity + 1

Receive(h, l) ==
    /\ forwarder[h][l] = "receiving"
    /\ next[h][l] \in Oldest(h) .. published[h]
    /\ hand' = [hand EXCEPT ![h][l] = Message(next[h][l])]
    /\ next' = [next EXCEPT ![h][l] = @ + 1]
    /\ forwarder' = [forwarder EXCEPT ![h][l] = "sending"]
    /\ UNCHANGED <<handleVars, consumerVars, queue, fetching, processor, account>>

\* Messages were overwritten before this listener's forwarder got to them.
ReceiveLagged(h, l) ==
    /\ forwarder[h][l] = "receiving"
    /\ next[h][l] < Oldest(h)
    /\ hand' = [hand EXCEPT ![h][l] = Lagged(next[h][l], Oldest(h) - 1)]
    /\ next' = [next EXCEPT ![h][l] = Oldest(h)]
    /\ forwarder' = [forwarder EXCEPT ![h][l] = "sending"]
    /\ UNCHANGED <<handleVars, consumerVars, queue, fetching, processor, account>>

\* Mistake: a closed channel is left without draining it.
ReceiveClosedAtOnce(h, l) ==
    /\ forwarder[h][l] = "receiving"
    /\ handler[h] = "joining"
    /\ forwarder' = [forwarder EXCEPT ![h][l] = "done"]
    /\ UNCHANGED <<handleVars, consumerVars, next, hand, queue, fetching, processor, account>>

\* Everything is received and the sender is gone.
ReceiveClosed(h, l) ==
    /\ forwarder[h][l] = "receiving"
    /\ handler[h] = "joining"
    /\ next[h][l] > published[h]
    /\ forwarder' = [forwarder EXCEPT ![h][l] = "done"]
    /\ UNCHANGED <<handleVars, consumerVars, next, hand, queue, fetching, processor, account>>

\* Mistake: the queue has no bound.
ForwardUnbounded(h, l) ==
    /\ forwarder[h][l] = "sending"
    /\ processor[h][l] # "over"
    /\ queue' = [queue EXCEPT ![h][l] = Append(@, hand[h][l])]
    /\ hand' = [hand EXCEPT ![h][l] = Nothing]
    /\ forwarder' = [forwarder EXCEPT ![h][l] = "receiving"]
    /\ UNCHANGED <<handleVars, consumerVars, next, fetching, processor, account>>

\* The queue takes what is at hand, when it has room.
Forward(h, l) ==
    /\ forwarder[h][l] = "sending"
    /\ processor[h][l] # "over"
    /\ Len(queue[h][l]) < MaxConcurrentFetches
    /\ queue' = [queue EXCEPT ![h][l] = Append(@, hand[h][l])]
    /\ hand' = [hand EXCEPT ![h][l] = Nothing]
    /\ forwarder' = [forwarder EXCEPT ![h][l] = "receiving"]
    /\ UNCHANGED <<handleVars, consumerVars, next, fetching, processor, account>>

\* The processor is gone.  The LatestEventsHandler takes it for the end of a
\* complete collection, unless a lag is at hand; everything else is expected
\* not to happen, and panics.
ForwardFindsClosed(h, l) ==
    /\ forwarder[h][l] = "sending"
    /\ processor[h][l] = "over"
    /\ forwarder' = [forwarder EXCEPT ![h][l] =
                        IF h = "latest" /\ ~hand[h][l].lag THEN "done" ELSE "panicked"]
    /\ hand' = [hand EXCEPT ![h][l] = Nothing]
    /\ UNCHANGED <<handleVars, consumerVars, next, queue, fetching, processor, account>>

-----------------------------------------------------------------------------
(* The processor of a listener *)

\* `buffered` takes the next message and begins to fetch its logs.
Fetch(h, l) ==
    /\ processor[h][l] = "processing"
    /\ queue[h][l] # << >>
    /\ Len(fetching[h][l]) < MaxConcurrentFetches
    /\ fetching' = [fetching EXCEPT ![h][l] = Append(@, [item |-> Head(queue[h][l]),
                                                           done |-> FALSE])]
    /\ queue' = [queue EXCEPT ![h][l] = Tail(@)]
    /\ UNCHANGED <<handleVars, consumerVars, forwarder, next, hand, processor, account>>

\* The logs of one of them are there, or their fetch failed.
Fetched(h, l) ==
    /\ processor[h][l] = "processing"
    /\ \E i \in DOMAIN fetching[h][l] :
        /\ ~fetching[h][l][i].done
        /\ fetching' = [fetching EXCEPT ![h][l][i].done = TRUE]
    /\ UNCHANGED <<handleVars, consumerVars, forwarder, next, hand, queue, processor, account>>

\* Mistake: the results come as they are ready (buffer_unordered).
ReadyUnordered(h, l) ==
    {i \in DOMAIN fetching[h][l] : processor[h][l] = "processing" /\ fetching[h][l][i].done}

\* The place of the result that `buffered` yields: the first one, once it is there.
Ready(h, l) ==
    {i \in DOMAIN fetching[h][l] :
        processor[h][l] = "processing" /\ i = 1 /\ fetching[h][l][i].done}

\* The result leaves `buffered`, and the listener is told or need not be.
Account(h, l, i) ==
    /\ fetching' = [fetching EXCEPT ![h][l] = RemoveAt(@, i)]
    /\ account' = [account EXCEPT ![h][l] = fetching[h][l][i].item.to]

\* A message without logs tells the listener nothing.  The LatestEventsHandler
\* does not pass a ReorgDetected on either, and keeps logs until it has enough.
\* Which messages have logs is open: any message but a lag may come to nothing.
Absorb(h, l) ==
    /\ \E i \in Ready(h, l) :
        /\ ~fetching[h][l][i].item.lag
        /\ Account(h, l, i)
    /\ UNCHANGED <<handleVars, consumerVars, forwarder, next, hand, queue, processor>>

\* Mistake: an error ends the processor.
DeliverErrorEnds(h, l) ==
    /\ l \in present
    /\ \E i \in Ready(h, l) : Account(h, l, i)
    /\ streamed' = IF h = "stream" THEN streamed \cup {l} ELSE streamed
    /\ processor' \in {processor, [processor EXCEPT ![h][l] = "over"]}
    /\ UNCHANGED <<handleVars, present, answered, forwarder, next, hand, queue>>

\* Logs (of the StreamHandler), a notification, or an error go to the listener.
Deliver(h, l) ==
    /\ l \in present
    /\ \E i \in Ready(h, l) : Account(h, l, i)
    /\ streamed' = IF h = "stream" THEN streamed \cup {l} ELSE streamed
    /\ UNCHANGED <<handleVars, present, answered, forwarder, next, hand, queue, processor>>

\* The listener's channel is closed: the processor returns.
DeliverFindsClosed(h, l) ==
    /\ l \notin present
    /\ Ready(h, l) # {}
    /\ processor' = [processor EXCEPT ![h][l] = "over"]
    /\ UNCHANGED <<handleVars, consumerVars, forwarder, next, hand, queue, fetching, account>>

\* LatestEventsHandler: `count` logs are collected; the queue stays open while
\* the collection is sent.
Complete(l) ==
    /\ \E i \in Ready("latest", l) :
        /\ ~fetching["latest"][l][i].item.lag
        /\ Account("latest", l, i)
    /\ processor' = [processor EXCEPT !["latest"][l] = "sending"]
    /\ UNCHANGED <<handleVars, consumerVars, forwarder, next, hand, queue>>

\* The forwarder has ended and so the queue.
QueueClosed(h, l) == forwarder[h][l] \in {"done", "panicked", "aborted"} /\ queue[h][l] = << >>

\* Mistake: what is being fetched is dropped.
StreamEndsEarly(h, l) ==
    /\ processor[h][l] = "processing"
    /\ QueueClosed(h, l)
    /\ processor' = [processor EXCEPT ![h][l] = IF h = "latest" THEN "sending" ELSE "over"]
    /\ UNCHANGED <<handleVars, consumerVars, forwarder, next, hand, queue, fetching, account>>

\* Mistake: a collection that did not get to `count` is not sent.
StreamEndsSilently(h, l) ==
    /\ processor[h][l] = "processing"
    /\ QueueClosed(h, l) /\ fetching[h][l] = << >>
    /\ processor' = [processor EXCEPT ![h][l] = "over"]
    /\ UNCHANGED <<handleVars, consumerVars, forwarder, next, hand, queue, fetching, account>>

\* Everything is processed.
StreamEnds(h, l) ==
    /\ processor[h][l] = "processing"
    /\ QueueClosed(h, l) /\ fetching[h][l] = << >>
    /\ processor' = [processor EXCEPT ![h][l] = IF h = "latest" THEN "sending" ELSE "over"]
    /\ UNCHANGED <<handleVars, consumerVars, forwarder, next, hand, queue, fetching, account>>

\* LatestEventsHandler: the collection, or NoPastLogsFound, goes out.
SendCollected(l) ==
    /\ processor["latest"][l] = "sending"
    /\ processor' = [processor EXCEPT !["latest"][l] = "over"]
    /\ answered' = answered \cup ({l} \cap present)
    /\ UNCHANGED <<handleVars, present, streamed, forwarder, next, hand, queue, fetching, account>>

-----------------------------------------------------------------------------

\* A consumer drops its stream.
ReceiverDropped(l) ==
    /\ l \in present
    /\ present' = present \ {l}
    /\ UNCHANGED <<handleVars, streamed, answered, taskVars>>

\* The block streams and the consumers.
Environment ==
    \/ \E h \in Handlers : Broadcast(h) \/ BroadcastEnds(h)
    \/ \E l \in Listeners : ReceiverDropped(l)

Forwarding(h, l) ==
    \/ Receive(h, l)
    \/ ReceiveLagged(h, l)
    \/ ReceiveClosed(h, l)
    \/ Forward(h, l)
    \/ ForwardFindsClosed(h, l)

Processing(h, l) ==
    \/ Fetch(h, l)
    \/ Fetched(h, l)
    \/ Absorb(h, l)
    \/ Deliver(h, l)
    \/ DeliverFindsClosed(h, l)
    \/ StreamEnds(h, l)

Tasks ==
    \/ StartStreaming
    \/ StartStreamingFails
    \/ \E h \in Handlers : JoinAll(h) \/ JoinPanics(h)
    \/ \E h \in Handlers, l \in Listeners : Forwarding(h, l) \/ Processing(h, l)
    \/ \E l \in Listeners : Complete(l) \/ SendCollected(l)

Next == Environment \/ Tasks

Spec == Init /\ [][Next]_vars

\* The executor runs the tasks that can run; a fetch answers or fails, and a
\* consumer reads its stream or drops it.  A block stream may go on for ever.
FairSpec == Spec /\ WF_vars(Tasks)

-----------------------------------------------------------------------------

\* Every variable has its type; in particular no queue exceeds its capacity and
\* no listener has more fetches in flight than max_concurrent_fetches.
TypeOK ==
    /\ handler \in [Handlers -> {"unused", "waiting", "running", "joining", "over", "panicked"}]
    /\ published \in [Handlers -> 0 .. MaxMessages]
    /\ present \subseteq Listeners /\ streamed \subseteq Listeners /\ answered \subseteq Listeners
    /\ forwarder \in [Handlers -> [Listeners ->
                        {"none", "receiving", "sending", "done", "panicked", "aborted"}]]
    /\ processor \in [Handlers -> [Listeners -> {"none", "processing", "sending", "over"}]]
    /\ next \in [Handlers -> [Listeners -> 1 .. MaxMessages + 1]]
    /\ account \in [Handlers -> [Listeners -> 0 .. MaxMessages]]
    /\ \A h \in Handlers, l \in Listeners :
        /\ hand[h][l] \in Item \cup {Nothing}
        /\ queue[h][l] \in Seq(Item) /\ Len(queue[h][l]) <= MaxConcurrentFetches
        /\ fetching[h][l] \in Seq([item : Item, done : BOOLEAN])
        /\ Len(fetching[h][l]) <= MaxConcurrentFetches

\* What a listener is told next is about the message right after the last one
\* it knows of: its logs, or that it and some after it were lost.  Concurrent
\* fetches change no order, and nothing is lost in silence or told twice
\* (block_range_handler.rs:88-146).
NothingLostSilently ==
    [][\A h \in Handlers, l \in Listeners : account'[h][l] # account[h][l] =>
        \E i \in DOMAIN fetching[h][l] :
            /\ fetching[h][l][i].item.to = account'[h][l]
            /\ fetching[h][l][i].item.from = account[h][l] + 1]_vars

\* What is on its way to the listener behind the processor's queue.
Pending(h, l) == [i \in DOMAIN fetching[h][l] |-> fetching[h][l][i].item] \o queue[h][l]

\* When handle() returns, every message of the block stream is with the
\* processor of every listener, if that still wants any (join_all waits for the
\* forwarders, and these drain the broadcast channel).
HandsEverythingOn ==
    \A h \in Handlers, l \in Listeners :
        handler[h] = "over" /\ processor[h][l] = "processing" =>
            published[h] = IF Pending(h, l) = << >> THEN account[h][l] ELSE Last(Pending(h, l)).to

\* As long as its consumer is there, the forwarder of a listener of the
\* StreamHandler does not panic: nothing the block stream or the provider
\* reports ends its processor.
LoyalListenersAreServed ==
    \A l \in present : forwarder["stream"][l] # "panicked"

\* In the end every listener of a StreamHandler knows of every message, unless it
\* left or another one did and handle() panicked.
EverythingArrives ==
    <>[](\A l \in present :
            \/ handler["stream"] \in {"unused", "waiting", "panicked"}
            \/ account["stream"][l] = published["stream"])

\* In the end every listener of a LatestEventsHandler has its collection, or
\* knows that there is none, in whatever way the rewind ended.
CollectionsArrive ==
    <>[](handler["latest"] \in {"over", "panicked"} => present \subseteq answered)

-----------------------------------------------------------------------------
(* What comments of the code say and the code does not do. *)

\* "Each subscription produces an independent stream" (event_scanner/mod.rs:10-11):
\* a forwarder is only dropped when it has nothing more to forward, whatever
\* became of the other listeners.
IndependentListeners ==
    \A l \in present :
        forwarder["stream"][l] = "aborted" =>
            next["stream"][l] > published["stream"] /\ hand["stream"][l] = Nothing

\* "receiver dropped only if we exit this loop" of the LatestEventsHandler
\* (block_range_handler.rs:350), for a listener whose consumer is there.
CollectorOutlivesLoop == \A l \in present : forwarder["latest"][l] # "panicked"

\* "we must ensure that all latest events are streamed before consuming the live
\* stream" (modes/sync/from_latest.rs:134-137): nothing of the second phase gets
\* to a listener before what was collected from the ranges of the first.
CollectionFirst ==
    \A l \in present :
        l \in streamed /\ published["latest"] > 0 => l \in answered
=============================================================================
