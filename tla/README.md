# A TLA+ model of Event-Scanner

Event-Scanner is a Rust crate that turns an Ethereum node into streams of event
logs. Underneath, its *block range scanner* turns the node into streams of block
ranges with notifications about reorgs, and everything a user can rely on
(no gaps, no unconfirmed events, reorgs reported and made good) is decided
there. On top of it, handlers fetch the logs and builders configure it all. These
modules model both layers from the code, `tlc` checks them on small instances,
and `tlapm` proves type invariants and safety properties for every value of the
constants. Paths below are relative to the
crate's own `src/`.

1. [The system](#1-the-system)
2. [The modules](#2-the-modules)
3. [What the runs check](#3-what-the-runs-check)
4. [Assumptions, bounds and fairness](#4-assumptions-bounds-and-fairness)
5. [What is proved](#5-what-is-proved)
6. [Where the code and its documentation part](#6-where-the-code-and-its-documentation-part)
7. [What is not modelled](#7-what-is-not-modelled)

## 1. The system

| part | state it keeps | operations | what makes it correct |
|---|---|---|---|
| range iterator (`range_iterator.rs`) | bounds, batch size, two batch counters | `forward`, `reverse`, `next`, `reset_to` | every block of the range exactly once, in batches that are neither empty nor too long, and then it stops |
| ring buffer (`ring_buffer.rs`) | a bounded queue | `push`, `pop_back`, `back`, `clear` | never beyond its capacity, the oldest goes first |
| reorg handler (`reorg_handler.rs`) | past blocks in a ring buffer | `check(block)` | a reorg of the block is noticed; the ancestor it returns lies below the block and is canonical; memory never disagrees with what was streamed |
| range streaming (`common.rs:395-459`) | an iterator, the last batch end, a minimal ancestor | stream, check, notify, reset | batches continue one another through any number of reorgs |
| live stream (`common.rs:56-385`, `scanner.rs:154-207`) | `LiveStreamingState`, a header subscription | wait for the first relevant header, initial range, one turn per header | no gap, nothing unconfirmed, every reorg of the streamed tip seen, all confirmed blocks reach the consumer in the end |
| sync handler (`sync_handler.rs`) | next block, confirmed tip | catch up in rounds, subscribe, go live | the seam between historical rounds and live |
| historical handler (`historical_range_handler.rs`) | end block, finalized number | stream the finalized part, then stream the rest until its end is stable | the last pass over the non-finalized part is canonical |
| rewind handler (`rewind_handler.rs`) | tip, reverse iterator, reorg handler | stream backwards, rescan reorged blocks upwards | the whole range, orphaned blocks again; a canonical tip vouches for all that was streamed |
| stream handler (`event_scanner/block_range_handler.rs`) | a broadcast channel, per listener a queue of concurrent log fetches | broadcast, fetch, forward | per listener the order of the block stream; a slow listener learns that it lagged |
| latest events handler (same file) | per listener the collected logs | collect, discard, prepend, emit | the newest `count` logs of the canonical chain, oldest first |
| builders and modes (`builder.rs`, `event_scanner/modes/`) | configuration, the ids of the range | setters, `connect`, `start` | what `connect` validated still holds when `start` uses it; the sync-from-latest mode hands over from a rewind to a live stream |
| listeners and filters (`scanner.rs`, `filter.rs`) | per subscription a filter and a channel | `subscribe`, the filter's builder | a listener gets the logs its calls asked for |

**How they interact.** A block stream is one spawned task. It awaits the node
(an external, here the *provider*) for blocks and for headers, calls the reorg
handler in its own task, and sends ranges, notifications and errors into a
bounded `mpsc` channel (`types.rs`, `try_stream`) whose receiver the user, or a
handler of the event scanner, holds. The reorg handler keeps the only memory
of the past. Nothing is shared between block streams, and nothing is persisted.
The event scanner puts a broadcast channel between one block stream and its
listeners.

**What is hard.** The chain changes between any two awaits: between the fetch
of a batch's last block, the send of the batch, the check of that block, each
step of the search for an ancestor, the read of the finalized block. Headers are
lost when the scanner is slow. A reorg may shorten the chain, hit twice, go
below the start of the stream, below everything in memory, or hit between two
checks. An RPC call can fail at each await and the receiver can be dropped at
each send. The arithmetic saturates at zero, where the genesis block is due
before it has confirmations. `PROJECT.json` lists these hazards at their lines
with the properties that would catch each one going wrong.

## 2. The modules

```
RangeIterator   RingBuffer   Chain (the node)   Listener (the channel)
   |     |            |        |    |    |        |
   |  RangeIteration  ReorgHandler  |    |        |
   |                       |        |    |        |
BlockRangeScanner          |        |    |        |      RollbackStream (abstract)
   |   |      |            |        |    |        |        ^          ^
   |   |    RangeStream  <-+--------+----+--------+        |          |
   |   |      |                     |    |        |        | refines  | refines
   |   |    LiveStream -------------+----+--------+--------+          |
   |   |      |                     |    |        |                   |
Historical ---+---------------------+----+--------+                   |
   |   |   |  |                          |                            |
   |   | HistoricalStream ---------------+----------------------------+
   |   |      |                          |
   +---+---- Sync                        |
       |                                 |
     Rewind     LogCollector             |   EventFilter
       |             |                   |        |
       +- LatestEvents                   +-- EventScanner <- MCEventScanner

BlockRangeHandler  <-  MCBlockRangeHandler
```

* `RangeIterator` has the iterator as a record and its methods as operators:
  `Forward`, `Reverse`, `ForwardBatch`/`ForwardAdvance` (`next()`), `ResetTo`.
  `u64` is `0 .. MaxU64` and the saturating operations saturate there.
* `RangeIteration` drives one iterator through every legal sequence of `next()`
  and `reset_to` and remembers what the current pass has yielded.
* `RingBuffer` has the buffer's methods; `Capacity` is a number or `Infinite`.
* `Chain` is the node as the scanner sees it: one canonical chain, mining,
  reorgs and finality. A block is its number and hash; the hash is the number
  of reorgs before the block was mined.
* `ReorgHandler` is `DefaultReorgHandler::check` as a state machine in which
  each awaited RPC call is one step: `detect` compares the block's hash
  (`reorg_detected`), `search` pops remembered blocks until one is canonical,
  `confirm` compares it with the finalized block (`return_common_ancestor`),
  and an empty memory falls back to the finalized block.
  `Check` and `Answered` are the caller's two ends of the call.
* `Listener` is the channel and a consumer that follows the crate's advice for
  reorgs ("Handle reorgs by rollback", `lib.rs`): `kept` is what it holds,
  `stale` the part of it that the chain has since replaced.
* `RangeStream` is `stream_range_with_reorg_handling`: `FetchBatchEnd`,
  `SendBatch` (which starts the check), `BatchStands` or `NotifyReorg`, and its
  two returns `done` (`Some(last_batch_end)`) and `none` (`None`).
* `LiveStream` is `stream_live_blocks` with everything it calls, and both of its
  entries, `StreamLive` (`BlockRangeScanner::stream_live`) and `SyncLiveOnly`
  (`SyncHandler::spawn_live_only`). `pc` is the place in the task, `start`,
  `batchStart`, `prev` and `incoming` are `stream_start`, the two fields of
  `LiveStreamingState` and the header's number. `SubscriptionEnds` is the end of
  the subscription's own stream, with an error or, which `ended` remembers, with
  `None`. `Environment` is the node and the consumer.
* `Historical` is one call of `HistoricalRangeHandler`: the finalized part, then
  passes over the rest. `scan` is the place in the call, `from` and `to` its
  range, `endBlock` the end block as fetched last; `open` and `closed` are the
  `ChannelState` the call returns. `HistoricalStream` runs one call as the task
  of `BlockRangeScanner::stream_historical`.
* `Sync` is `SyncHandler` when it has to catch up: `phase` moves from rounds,
  each a call of `Historical`, over the announcement of `SwitchingToLive` to the
  task of `LiveStream`. It extends both and adds only what `sync_handler.rs`
  adds: `start_block`, `confirmed_tip` and the start the user asked for.
* `BlockRangeScanner` holds the configured batch size all of them share.
* `BlockRangeHandler` stands by itself: the tasks between one block stream, here
  a sequence of numbered messages, and the listeners. The handler `"stream"` is
  `StreamHandler`, `"latest"` is `LatestEventsHandler`, and `handler` says how
  far `handle()` of each is; the modes are the three initial states. Per
  listener `next` and `hand` belong to the forwarding task, `queue` is the
  `mpsc` channel, `fetching` the futures in `buffered`, and `account` the last
  message of which the listener knows the logs, or the loss. What the logs are
  is left to `LatestEvents`. `MCBlockRangeHandler` bounds it for TLC.
* `Rewind` is `RewindHandler`: `down` is the iterator of the descent, `up` that of
  a rescan, `top` and `bottom` are `tip` and `to`. After each batch of the descent
  the tip is checked (`TipStands`); `TipReorged` is the notification and
  `FetchTip`, `SendRescanBatch`, `Rescanned` the rest of `handle_reorg_rescan`.
* `LogCollector` has what a `LatestEventsHandler` does to its collection
  (`collect_logs`, `discard_logs_from_orphaned_blocks`) as operators on
  sequences of logs, newest first. A log is the number of its block.
* `LatestEvents` composes the two: the rewind puts its messages into a `pipe`, the
  collector takes them, fetches the logs of each batch as the chain has them by
  then, and sends the collection. There is one listener, and a block has one
  matching log or none. `AncestorAfter` and `ShouldPrepend` are the code's
  decision between putting logs in front and behind.
* `EventFilter` is the builder of a subscription's filter and the RPC filter made
  of it, as the set of logs that this selects.
* `EventScanner` is the way of a scanner from its builder to its streams in each of
  the five modes: `phase` is the call that is awaited next. `connect` is `Connect`,
  `ReadLatest` and the validations; `start` is `Start`, the calls that resolve
  the ids (`FetchStart` and `FetchEnd` run at once), and the block stream it ends
  with, where the other modules begin. Parameters are zero or one, which is all
  that the code distinguishes. `MCEventScanner` bounds it for TLC.
* `RollbackStream` is the promise: seen by a consumer that rolls back, a stream
  only extends what is held at its end by ranges of bounded length, or takes
  back its end, and is silent once over. `LiveStream` and `HistoricalStream`
  implement it; `Sync` does not ("Caught-up blocks are lost" in section 6).
* `BlockLemmas` holds the facts about the chain, the range iterator, the ring
  buffer and the reorg handler that the proofs share. `RangeIteration_proofs`,
  `Sync_proofs` (of `LiveStream` too), `HistoricalStream_proofs`, `LatestEvents_proofs`,
  `BlockRangeHandler_proofs`, `EventScanner_proofs` and `RollbackStream_proofs`
  hold the theorems and their proofs (section 5).

Definitions with a comment that begins "Mistake:" are variants of the
definition after them, each with one plausible bug. They occur in no behaviour;
they show that the property named with them in `PROJECT.json` ("mutants")
notices the bug.

## 3. What the runs check

| run | instance | property | what it shows |
|---|---|---|---|
| `range_iteration` | every range in 0..7, batch sizes 1 and up, resets to any block | `TypeOK`, `StopsWhenCovered`, `PassIsContiguous` | the counters and the bounds of an iterator never disagree, also after resets outside the range |
| `live_races` | 4 blocks, 2 reorgs, memory of 2, 1 confirmation, 2 headers | `TypeOK`, `GapFree`, `BatchConfirmed`, `NoticeUndoesOrphan`, `MemoryFollowsStream`, `TipSettled`, `StreamSettled`, `EndsForAReason`, `ErrorsAreTerminal` | the safety of the live stream while reorgs, finality, failures, lost headers and the consumer's departure race with each of its steps |
| `live_promise` | 3 blocks, 2 reorgs, one header, a memory of 0 | `KeepsPromise`, `CatchesUp` | with every reorg taking the fallback, the live stream implements `RollbackStream`, and all confirmed blocks reach the consumer however many headers were lost |
| `live_stall` | violation | `ContinuousOperation` | section 6 |
| `historical` | 4 blocks, 2 reorgs, every range and order of the two ids | `TypeOK`, `EndsComplete`, `EndsForAReason`, `EndsSettled`, `KeepsPromise`, `Completes` | a historical stream implements `RollbackStream`, always ends, and then the consumer holds exactly the range, as the chain has it |
| `sync_races` | 3 blocks, 2 reorgs, one header, every start block | `SyncTypeOK`, `SwitchesSeamlessly`, `SyncGapFree`, `SyncCatchesUp` | rounds and live stream meet without a gap or an overlap, the rounds end, and the live stream gets to every confirmed block |
| `sync_loses_blocks` | violation | `ReorgedBlocksStreamed` | section 6 |
| `event_handlers` | one listener and 3 messages in every mode, two listeners and 2 messages in the modes with one handler; 2 concurrent fetches, a broadcast channel of 1 | `TypeOK`, `HandsEverythingOn`, `LoyalListenersAreServed`, `NothingLostSilently`, `EverythingArrives`, `CollectionsArrive` | order and completeness per listener, while forwarders lag, fetches answer in any order, listeners leave, tasks panic and block streams end |
| `event_independence` | violation | `IndependentListeners` | section 6 |
| `latest_events` | 3 blocks, 2 reorgs, every range, batches of 2, memory of 2, the 2 newest logs, a pipe of 1 | `TypeOK`, `CollectsWhatStands`, `RewindCovers`, `TipVouchesForAll`, `AnswerArrives` | the rewind and the collector that follows it while the chain reorganises between any two of their steps, also during a rescan, and each call or channel may fail |
| `latest_order` | violation | `ChronologicalOrder` | section 6 |
| `scanner_modes` | 3 blocks, 1 reorg, every mode, every block id and zero of each parameter; 2 addresses, 2 events, 1 listener | `TypeOK`, `NothingIsZero`, `AcceptedIdsResolve`, `PhasesMeet`, `LaterCallsWiden` | what `connect` promised holds at `start`, while the node moves between each of their calls |

Why these properties. `GapFree` is what a consumer's bookkeeping rests on: a
range that overlaps what is held would double events, one that leaves a hole
would lose them, and it can only be seen over several batches and reorgs.
`TipSettled` is the code's real guarantee about reorgs (the tip of the stream is
checked with each header), `StreamSettled` the stronger one its documentation
suggests; the first holds under every race, the second only without them.
`ErrorsAreTerminal` is why a consumer may drop its stream at the first error: the
call that met it and the task that has to end for it are several returns apart,
and in sync, where one of these returns says the wrong thing, it does not hold (section 6).
`MemoryFollowsStream` is why the reorg handler may take the newest canonical
block of its memory as the common ancestor. `NoticeUndoesOrphan` excludes a
notification that would leave the orphan in place and make the stream skip it.
`EndsSettled` is the claim behind the end block's double fetch: a hash that did
not change vouches for every block below it. It says nothing of the moment
after, and neither does the code. `SwitchesSeamlessly` speaks of the seam only;
what a live stream makes of a reorg that goes below the seam is in `SyncGapFree`,
with the hole the code leaves spelled out. `NothingLostSilently` is the promise
of the event scanner in one formula: a listener is told of each message of the
block stream in turn, be it by logs, by silence where there are none, or by a
`Lagged` that stands for exactly those it missed.

`TipVouchesForAll` is the assumption under which the rewind works at all: it only
looks at the highest block of its range, and a canonical tip has to mean that
nothing streamed before is orphaned, also when the second reorg comes during the
rescan of the first. `CollectsWhatStands` is the whole purpose of the collector:
batches come from above in the descent and from below in a rescan, and nothing
in a message says which of the two it is. It is claimed where the code keeps it;
`overlapped` marks the descents that go over the blocks of a rescan once more,
and what becomes of those is `latest_order`. `AcceptedIdsResolve` and `PhasesMeet` are
about values that are read in one call and used in a later one. `NothingIsZero`
looks like four comparisons, but they are in five `connect`s and two builders,
and one of them is made by the other builder.

## 4. Assumptions, bounds and fairness

What the environment is assumed to do, and where the assumption shows:

* *Hashes are fresh.* A branch that was abandoned never becomes canonical
  again. With a branch that comes back, a comparison of hashes can see no
  reorg at all where there were two.
* *One answer at a time.* Each RPC call is answered from one chain at one
  moment. A provider that fails over between nodes of different opinions looks
  like a chain that reorganised, and those that answer from a finalized chain
  that is not a prefix of the canonical one are excluded.
* *Each change of the tip publishes a header* to the subscription, the number
  of the new tip. A full subscription drops its oldest header and reports a
  lag.
* `FinalityWaits = TRUE`: the node does not finalize a block at or above an orphan
  that the scanner has in hand or remembers and has yet to act upon (`InHand`,
  `Unsettled`). On a live network finality is many minutes behind, but nothing in
  the code relies on time. `LiveFinality.cfg` shows what happens without it (section 6).
  `latest_events` assumes it too, and with `FALSE` violates `TipVouchesForAll`.
  `HistoricalStream` needs no such assumption, it never looks for an ancestor.
* `StreamSettled` speaks of behaviours in which no reorg came while the scanner was
  at work between two headers, and finality passed no block that the consumer
  still holds and the chain has replaced; `raced` remembers whether one did. It
  restricts nothing, it only says what the property is about.
* The subscription's stream may end in each of the ways its type allows, with an
  error or with `None`. Whether the library that makes it ever does the latter
  is not decided in this repository, so the model does not exclude it.
* In `LatestEvents` the node moves while the collector is at work and was not told
  of an error. Before the start every chain is an initial state; after an error
  only `AnswerArrives` is promised, and that does not depend on the chain.
* In `MCEventScanner` the client refines a filter only for scanners with default
  ids, before any reorg. Filters and ids have nothing to do with each other in
  the code; the bound keeps TLC from their product.

A full channel makes the sender wait, so backpressure is a send that happens
later; the channel's length is not a variable. Sending an error and stopping is
one step, since nothing else can happen to the stream in between. An RPC call
fails or answers; the provider's own retries are inside the call.

Bounds. `MaxHeight` ends the growth of the chain, `MaxReorgs` the number of
reorgs, and `SubscriptionBuffer` is 1 or 2 so that headers are lost often. Four
blocks and two reorgs suffice for a reorg in a reorg, reorgs that shorten the
chain, ranges of two batches (`MaxBlockRange = 2`), a memory (`Capacity = 2`)
that overflows, and starts at, below and above the tip. In `latest_events` three
blocks give ranges of two batches, a rescan of two batches in the middle of a
descent, a reorg in that rescan, and more matching logs than are asked for. Capacities 0, 2 and
`Infinite`, and 0 and 1 confirmations occur. In `sync_races` three blocks
suffice for two rounds, a live stream and a reorg into each of them. In
`event_handlers` one listener shows lag, a full queue and fetches out of order;
the second is there for what listeners do to one another, which takes a panic
and two messages. `MaxU64` stands for 2^64 - 1: the
iterator's saturation at zero is reached, at the top it is not, as no chain has
that many blocks. `CHECK_DEADLOCK FALSE` is set where the task ends
(`pc = "stopped"`), or an iterator is exhausted.

Fairness. `FairSpec` adds `WF_vars(Working)`: as long as the task can make a
step, it makes one. The executor polls a woken task, and an awaited RPC call
answers or fails within the provider's timeout; a send to a full channel
completes when the consumer reads or leaves. The choice between an answer and
a failure is left open. Nothing is assumed of the environment (it may mine,
reorganise or stop), and an end of the subscription itself is possible but
not forced, which is why `SubscriptionEnds` is outside `Working`. `CatchesUp`
and `SyncCatchesUp` excuse a stream that ended, a consumer that left, and the
stall of section 6. The fairness of `BlockRangeHandler` is the same, for its
tasks together, as each of its steps brings it nearer to its end: a consumer
reads or drops its stream, and block streams need not end. `EverythingArrives`
excuses a `handle()` that panicked, which takes a listener that left
(`LoyalListenersAreServed`). `LatestEvents` has weak fairness of `Rewinding` and
of `Collecting`, its two tasks: either one may wait for the other through the
pipe, and neither may be left waiting. `Completes` and the end of the rounds rest on the bounds as
well: the code itself repeats a pass for each reorg and a round for each new
tip, so with reorgs that never end, or a chain that always grows faster than a
round streams it, neither would end.

## 5. What is proved

Every theorem holds for all values of the constants under the assumptions the
modules name (`MaxU64Assumption`, `ChainAssumption`, `CapacityAssumption`,
`MaxBlockRangeAssumption`, `LiveAssumption`, `HandlersAreConfigured`,
`ListenersAssumption`, `FilterAssumption`, `CountAssumption`, `LatestAssumption`,
and those of `RangeIteration`): any height, number of reorgs, capacity, batch
size, confirmations, listeners, messages, addresses, events and number of logs.
`LatestTipVouchesForAll`, `SyncSafety`, `SyncGapless` and the theorems of the live
stream from `LiveSafety` on assume `FinalityWaits` as well (section 4); nothing
else is assumed anywhere. Each inductive invariant was first model-checked on
the instance of the component's run.

* `RangeIteration_proofs`: `IteratorInvariant`, and from it `IteratorTypes`,
  `IteratorStopsWhenCovered`, `IteratorPassIsContiguous`, `IteratorYieldsOnce`.
  `StopsWhenCovered` is not inductive: whether the iterator stops depends on
  two counters that `next` does not compare with the bounds. The inductive
  invariant ties them together, "the number of batches left is the number that
  the blocks left need", and the arithmetic lies in two lemmas of
  `BlockLemmas`: when a full batch is taken off, the number of batches needed
  drops by one (`BatchesForMany`), and the last batch needs one
  (`BatchesForFew`). They need a division with rounding by a symbolic divisor.
  `IteratorYieldsOnce` (each batch lies in the range and is new to its pass) is
  proved only: no run checks it, as `PassIsContiguous` notices the same mistakes.
* `Sync_proofs`, first part: `LiveInvariant` (`Spec => []IInv`), `LiveTypes`,
  `LiveConfirmed`, `LiveEndsForAReason` and the action property
  `LiveErrorsAreTerminal`. `BatchConfirmed` speaks of the header in hand, while a range
  is cut into batches over many steps, any of which may see a reorg that resets
  the iterator. `IInv` adds that the end of the range is the confirmed block of
  that very header until the call returns (`RangeOfHeader`), that the
  iterator's counters agree with what is left (`RangeInv`), and that the reorg
  handler has a block in hand in each step that compares one (`HandlerInv`).
  There is one lemma per group of actions, first for the handler
  (`CheckStepInv`), then for a range call (`RangeStepInv`), then for the task.
  `EndsForAReason` needs that a range call that gave up told why as well
  (`ReasonInv`), and that what was told stays told; `Told` has the end of the
  subscription with `None` as its third case, which the code does not report.
  `ErrorsAreTerminal` rests on `TerminalInv`: once an error went out, the task has
  ended or is in a range call that gave up.
* `Sync_proofs`, second part: `LiveSafety` (`Spec => [](SafeInv /\ Alone)`), and from it
  `LiveGapFree`, `LiveNoticeUndoesOrphan`, `LiveMemoryFollowsStream`,
  `LiveTipSettled`, `LiveStreamSettled` and the refinement `LiveKeepsPromise`.
  None of these is inductive. That the next range meets what is held
  (`GapFree`) depends, after a reorg, on the common ancestor that the reorg
  handler returns; that one comes from the ring buffer or, when the memory ran
  empty, from the finalized block; and it is a place where the consumer's blocks
  end only if the buffer holds nothing that the consumer does not (`Memory`), if
  the search pops the buffer from the highest block downwards (`Call`), and if
  nothing the scanner has yet to take back is final (`Finality`, the one place
  where `FinalityWaits` is used). `Position` says for each place in the task
  where the consumer's blocks end, `Tips` that a block which was canonical when
  it was last looked at still is, or a header is waiting. `Settled`, for
  `StreamSettled`, adds what holds while no reorg comes between two headers: the
  last block streamed answers for all that is held, and nothing of it that was
  replaced is final. The refinement follows from
  `Position` step by step: a batch is sent where the held blocks end, a
  notification takes back their end, all else is a stutter. `SafeInv` speaks of a
  consumer that may already hold blocks when the stream starts, so that it can be
  used of sync; `Alone` adds that a live stream of its own finds it with none.
* `Sync_proofs`, third part: `SyncInvariant` (`SyncSpec => []SyncInv`), and from it
  `SyncTypes` and `SyncSwitchesSeamlessly`; then `SyncSafety`, `SafeInv` in sync,
  and `SyncGapless` from both. `SwitchesSeamlessly` is about one moment, after any
  number of rounds: `SyncInv` says that the consumer holds every block from the
  origin to where the next round begins (`Rounds`), and of a round under way how
  far it got, in the finalized part, in a pass, or after a reorg that took the
  pass back (`Progress`). Each round is a historical stream with an iterator of
  its own, and `Iteration` is what the iterator lemmas need of it. Before the live
  phase `SafeInv` holds because nothing of the live stream has begun, which needs
  `Rounds` at the switch; in that phase its proof is the one of the second part.
  The proof does not go through unless a sync task that ended stays ended, in
  whatever phase it was: the first conjunct of `SyncWorking`.
* `HistoricalStream_proofs`: `HistoricalInvariant`, and from it `HistoricalTypes`,
  `HistoricalEndsComplete`, `HistoricalEndsForAReason`, the action property
  `HistoricalEndsSettled` and the refinement `HistoricalKeepsPromise`. The
  inductive invariant says how much of the range is held in each phase of the
  call, that the part below the finalized block as it was read at the begin
  cannot be replaced any more, and that of the blocks of the current pass none
  has been replaced while the end block is the one fetched before the pass. The
  last is why comparing one hash is enough: a reorg that replaces a block
  replaces all above it, and an abandoned branch never comes back (`Timely`).
* `LatestEvents_proofs`: `LatestInvariant`, and from it `LatestTypes`,
  `LatestRewindCovers`, the action property `LatestTipVouchesForAll` and
  `LatestCollectsWhatStands`. The first part of the module says what the operators
  of a collection do: `NewestFirst` lists a set of numbers, and appending a batch
  of the descent, putting one of a rescan in front and discarding orphans give
  such lists again (`ExtendIs`, `PrependIs`, `DiscardIs`). The inductive invariant
  `IInv` says of the rewind that what is held has no hole from the iterator of
  the descent up to that of the rescan, and that the handler remembers nothing
  but the tip (`RewindInv`), and of the collector that its list is in order and
  within `Count`, and short of it while it collects (`CollectorInv`). `Vouched`
  adds which blocks can be stale while the tip is canonical. `CollectsWhatStands`
  is far from inductive, as the pipe lets the rewind run several messages ahead,
  over a reorg and into the rescan: `Witnessed` says that there is, before every
  message on its way, a view of the stream, what a consumer holds who has read
  so far and how far down the last reorg went, such that each message leads from
  its view to the next (`Chained`), every batch lies above or below everything
  in its view (`Follows`), the first view is what the collector has gathered
  except for blocks that a notification on its way takes back (`Gathered`), and
  the last one is where the rewind stands (`Streamed`).
* `BlockRangeHandler_proofs`: `HandlersInvariant`, and from it `HandlerTypes`,
  `HandlersHandEverythingOn`, `HandlersServeLoyalListeners` and the action property
  `HandlersLoseNothingSilently`. Per listener, the inductive invariant reads the
  places from the listener to the broadcast channel (what it knows of, the
  fetches in flight, the queue, what the forwarder has in hand, what it receives
  next) as one chain in which each place goes on right where the one before it
  ends (`Flow`). A step of either task moves one item from one place to the next,
  at the end of which the chain ends where it did; a lag is one item that stands
  for all it skipped. `Drained` says that a forwarder which is done left nothing
  in the channel, `Roles` which of a listener's two tasks can end first. The
  listeners' tables are changed at one place at a time, and `TaskStep` says once
  that this disturbs no other listener.
* `EventScanner_proofs`: `ScannerInvariant`, and from it `ScannerTypes`,
  `ScannerNothingIsZero`, `ScannerAcceptedIdsResolve`, `ScannerPhasesMeet`, and the
  action property `ScannerLaterCallsWiden`. What `connect` reads is used many steps
  later: the inductive invariant says which modes get to which phase, that the
  ids are at or below the latest block read (`IdsHold`), that the chain still has
  this block as long as there was no reorg (`LatestHolds`), and that the boundary
  of the two phases of from_latest stays where it is (`BoundaryHolds`).
* `RollbackStream_proofs`: `PromiseLeavesNoHoles`, what the abstract
  specification gives a consumer: no hole, ever. With the two refinements it
  holds of the live and of the historical stream.

Only model-checked: the liveness properties (`CatchesUp`, `Completes`,
`SyncCatchesUp`, `EverythingArrives`, `CollectionsArrive`, `AnswerArrives`), as
TLAPS has no fairness or ENABLED here. The runs that expect a violation have
nothing to prove.

## 6. Where the code and its documentation part

* **Stall** (`common.rs:331`, `256-259`). A reorg below `stream_start` forgets
  the block to check next. If nothing from `stream_start` on is confirmed by
  the header at hand, it stays forgotten and every later header is skipped: the
  stream is open, quiet, and dead.
* **Caught-up blocks are lost** (`common.rs:324-331`, `450`). After catching up,
  the live stream's `stream_start` is its first own block. A reorg below it is
  announced with its true ancestor, and the stream starts again at
  `stream_start` (or at the block before it, in the middle of a range): what the
  rounds had streamed above the ancestor is taken back by the consumer and never
  streamed again.
* **One listener takes others with it** (`block_range_handler.rs:137-139`, `401`).
  When a consumer drops its stream, its processor returns, and the forwarder's
  `expect` ("receiver dropped only if we exit this loop") fails at the next
  message. At the end of the block stream `join_all` panics too and aborts the
  forwarders of the other listeners: they never get what those had still to
  forward, without an error, although each subscription is documented as
  independent.
* **Latest logs out of order** (`block_range_handler.rs:278-287`, `435-444`). The
  memory of a rewind's reorg handler holds only tips, so the common ancestor of a
  reorg is mostly the finalized block and the rescan starts far below what the
  descent has reached. The descent then streams those blocks once more. As long
  as their logs lie above the ancestor they are put in front of the newer ones,
  and a collection is sent that is neither in order nor the newest.

Four more, each with a configuration beside the routine runs with which TLC finds
the counterexample (of `MCBlockRangeHandler`, `LiveStream` and `Sync`):

* *A complete collection and a lag*, `EventCollectorGone.cfg`
  (`block_range_handler.rs:338-350`). The collecting task of the latest mode
  ends when it has its logs. A forwarder that lags at that moment panics, with
  `join_all` and `handle()` behind it, and the sync-from-latest mode does not
  get to its second phase.
* *The live phase overtakes the collection*, `EventCollectionFirst.cfg`
  (`block_range_handler.rs:401`). `broadcast_stream` joins the forwarders, not
  the tasks they spawn. In the sync-from-latest mode the logs of the live phase
  can reach a listener before the collected ones, which `from_latest.rs:134-137`
  means to exclude.
* *Finality overtakes an orphan*, `LiveFinality.cfg` (`reorg_handler.rs:138`,
  `163-181`). The fallback reads the finalized block when the search is over. If
  finality has passed the orphan by then, the stream goes on above that block,
  and the canonical blocks below it that the consumer never got are skipped. It
  takes a scanner that is minutes behind the node.
* *Sync goes on after an error*, `SyncGoesOn.cfg`
  (`historical_range_handler.rs:174-184`). When the second fetch of an end block
  fails, the error is sent and the call returns as if there had been no reorg:
  the next round follows an error that `error.rs:15` calls terminal
  (`RefetchFails`). A live stream of its own keeps `ErrorsAreTerminal`.

Seen while modelling, and part of the modules:

* A reorg between the check of one batch and the fetch of the next leaves the first
  one orphaned with the consumer (`common.rs:414-438`): without its condition
  `~raced`, `StreamSettled` is violated in `live_races`.
* A past-blocks capacity of 0 does not disable reorg detection
  (`ring_buffer.rs:10-11`, `builder.rs:20`): `check` compares hashes before it
  looks at the buffer, and each reorg falls back to the finalized block, as in
  `live_promise`.
* Both loops over the subscription end on `None` as well (`common.rs:127`, `223`);
  the task then returns (`157`, `296`) without an error, and the consumer sees its
  stream end like one that is complete (`SubscriptionEnds`, `EndsForAReason`).
* A reorg below `stream_start` inside a range makes the stream go on at the block
  before `stream_start` (`common.rs:450`, allowed for in `SyncGapFree`).
* A rescan begins right above the common ancestor, also when that lies below the
  range the client asked for (`rewind_handler.rs:183-203`): the collection may hold
  logs from below the range (`RewindCovers` allows for it with its `lo`).
* When a reorg leaves the chain shorter than the tip of a rewind, the tip is not
  found, and the stream ends with an error after `ReorgDetected` and without a
  rescan (`FetchTipFails`). The collector passes the error on and still sends what
  it holds, or `NoPastLogsFound` (`PassError`, `SendCollected`).
* A reorg that comes after the last check of the tip, or during the last rescan's
  last batch, goes unnoticed: `CollectsWhatStands` has `stale = {}` as a condition.
* The documentation of the latest mode lists `ReorgDetected` among what a listener
  sees; the handler acts on it and does not forward it (`DiscardOnReorg`).
* `connect` takes `finalized` for block 0 and `start` asks the node for it, which may
  have none; a hash of a block above the latest one that `connect` read is refused
  even when it is canonical by then; `SyncFromBlock::connect` does not refuse
  `pending` (`Validate`, `ValidateHash`, `BlockNumbers`).
* `EventFilter::event("")` is ignored, `events([""])` is not, and then selects no log
  (`WithEvent`, `WithEvents`).

## 7. What is not modelled

* The texts of `Display` and `Debug`, the conversions between error types and
  between message types, tracing and the test macros: they hold no state and
  decide nothing about a stream.
* The dump generator, benches and examples, which use the crate.
* The retries and the failover inside the provider: they belong to another crate,
  and a call that succeeds after three attempts is one that succeeded.
* Block numbers near 2^64, which no chain has.
* Several listeners of a `LatestEventsHandler` with the logs they collect: the
  collections share nothing, and what listeners do to one another through their
  tasks is in `BlockRangeHandler`.
