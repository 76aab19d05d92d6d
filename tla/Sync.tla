-------------------------------- MODULE Sync --------------------------------
(***************************************************************************)
(* SyncHandler (block_range_scanner/sync_handler.rs) when it has to catch  *)
(* up: historical rounds up to the confirmed tip, until a round ends at a  *)
(* tip that has not moved on, then the live stream.                        *)
(*                                                                         *)
(*   start -> rounds <-> latest                                            *)
(*            rounds -> announce -> live                                   *)
(*                                                                         *)
(* The rounds are calls of Historical, the live phase is the task of       *)
(* LiveStream.  The live-only branch of SyncHandler::run is an entry of    *)
(* LiveStream itself.  The task has ended when LiveStream's pc is          *)
(* "stopped".                                                              *)
(***************************************************************************)
EXTENDS LiveStream, Historical

VARIABLES
    phase,          \* where the sync task stands
    origin,         \* the block that start_id stands for
    startBlock,     \* start_block
    confirmedTip    \* confirmed_tip

syncVars == <<phase, origin, startBlock, confirmedTip>>
allVars == <<vars, historicalVars, syncVars>>

SyncInit ==
    /\ Init
    /\ HistoricalInit
    /\ phase = "start" /\ origin = 0 /\ startBlock = 0 /\ confirmedTip = 0

liveUnchanged == <<handlerVars, rangeVars, subscriptionVars, liveVars>>

\* The task ends.
End == Stop /\ UNCHANGED <<chainVars, handlerVars, rangeVars, subscriptionVars,
                           historicalVars, syncVars>>

\* SyncHandler::run: the start block is not above the confirmed tip.
SpawnCatchUp(block) ==
    /\ phase = "start"
    /\ block <= Confirmed(Height)
    /\ phase' = "rounds"
    /\ origin' = block
    /\ startBlock' = block
    /\ confirmedTip' = Confirmed(Height)
    /\ UNCHANGED <<chainVars, listenerVars, historicalVars, liveUnchanged>>

\* An RPC call of run fails: the error goes to the caller.
SpawnFails ==
    /\ phase = "start"
    /\ ReportError
    /\ End

\* catchup_historical_blocks: the next round.
BeginRound ==
    /\ phase = "rounds"
    /\ startBlock < confirmedTip
    /\ StreamBlocks(startBlock, confirmedTip)
    /\ UNCHANGED <<chainVars, listenerVars, liveUnchanged, syncVars>>

Catching ==
    /\ HistoricalStep
    /\ UNCHANGED <<chainVars, liveUnchanged, syncVars>>

RoundDone ==
    /\ scan = "open"
    /\ ScanTaken
    /\ phase' = "latest"
    /\ UNCHANGED <<chainVars, listenerVars, liveUnchanged, origin, startBlock, confirmedTip>>

RoundClosed ==
    /\ scan = "closed"
    /\ End
    /\ UNCHANGED listenerVars

\* Mistake: the next round begins at the old tip.
NextRoundOverlapping ==
    /\ phase = "latest"
    /\ phase' = "rounds"
    /\ startBlock' = confirmedTip
    /\ confirmedTip' = Confirmed(Height)
    /\ UNCHANGED <<chainVars, listenerVars, historicalVars, liveUnchanged, origin>>

\* Mistake: start_block is not moved on.
NextRoundStuck ==
    /\ phase = "latest"
    /\ phase' = "rounds"
    /\ confirmedTip' = Confirmed(Height)
    /\ UNCHANGED <<chainVars, listenerVars, historicalVars, liveUnchanged, origin, startBlock>>

\* The chain went on while the round ran.
NextRound ==
    /\ phase = "latest"
    /\ phase' = "rounds"
    /\ startBlock' = confirmedTip + 1
    /\ confirmedTip' = Confirmed(Height)
    /\ UNCHANGED <<chainVars, listenerVars, historicalVars, liveUnchanged, origin>>

LatestFails ==
    /\ phase = "latest"
    /\ ReportError
    /\ End

\* Mistake: the stream starts at the confirmed tip.
TransitionToLiveAtTip ==
    /\ phase = "rounds"
    /\ startBlock >= confirmedTip
    /\ phase' = "announce"
    /\ pc' = "first"
    /\ start' = confirmedTip
    /\ UNCHANGED <<chainVars, listenerVars, handlerVars, rangeVars, subscriptionVars,
                   notify, batchStart, prev, incoming, historicalVars,
                   origin, startBlock, confirmedTip>>

\* transition_to_live: subscribe to headers.
TransitionToLive ==
    /\ phase = "rounds"
    /\ startBlock >= confirmedTip
    /\ phase' = "announce"
    /\ pc' = "first"
    /\ start' = startBlock
    /\ UNCHANGED <<chainVars, listenerVars, handlerVars, rangeVars, subscriptionVars,
                   notify, batchStart, prev, incoming, historicalVars,
                   origin, startBlock, confirmedTip>>

TransitionFails ==
    /\ phase = "rounds"
    /\ startBlock >= confirmedTip
    /\ ReportError
    /\ End

\* Notification::SwitchingToLive, then stream_live_blocks.
AnnounceLive ==
    /\ phase = "announce"
    /\ Announce
    /\ phase' = "live"
    /\ UNCHANGED <<chainVars, historicalVars, liveUnchanged, origin, startBlock, confirmedTip>>

AnnounceFindsClosed ==
    /\ phase = "announce"
    /\ ~open
    /\ End
    /\ UNCHANGED listenerVars

\* stream_live_blocks runs in this task.
Live ==
    /\ phase = "live"
    /\ Streaming
    /\ UNCHANGED <<historicalVars, syncVars>>

LiveSubscriptionEnds ==
    /\ phase = "live"
    /\ SubscriptionEnds
    /\ UNCHANGED <<historicalVars, syncVars>>

Around == Environment /\ UNCHANGED <<historicalVars, syncVars>>

\* The task of sync is one async function: once it has returned, in any phase,
\* nothing of it goes on.
SyncWorking ==
    /\ pc # "stopped"
    /\ \/ \E block \in 0 .. MaxHeight : SpawnCatchUp(block)
       \/ SpawnFails
       \/ BeginRound
       \/ Catching
       \/ RoundDone
       \/ RoundClosed
       \/ NextRound
       \/ LatestFails
       \/ TransitionToLive
       \/ TransitionFails
       \/ AnnounceLive
       \/ AnnounceFindsClosed
       \/ Live

SyncNext == Around \/ SyncWorking \/ LiveSubscriptionEnds

SyncSpec == SyncInit /\ [][SyncNext]_allVars

\* As for the live stream and the historical stream.
FairSyncSpec == SyncSpec /\ WF_allVars(SyncWorking)

-----------------------------------------------------------------------------

\* Every variable has its type.
SyncTypeOK ==
    /\ TypeOK /\ HistoricalTypeOK
    /\ phase \in {"start", "rounds", "latest", "announce", "live"}
    /\ origin \in 0 .. MaxHeight
    /\ startBlock \in 0 .. MaxHeight + 1
    /\ confirmedTip \in 0 .. MaxHeight

\* When SwitchingToLive is sent, the consumer holds every block from the start
\* block up to where the live stream begins, and no other: rounds meet one
\* another and the live stream without a gap or an overlap, whatever reorgs,
\* failures of the check for them and new blocks happened between them.
SwitchesSeamlessly == phase = "announce" => kept = origin .. start - 1

\* The range that goes out next, of a round or of the live stream.
RangeInFlight == IF phase = "live" THEN (IF stage = "send" THEN batch ELSE NoBatch)
                 ELSE RangeInHand

\* Every range begins right after the last block held, or at the start block
\* when none is.  Only a reorg below the first block of the live stream leaves
\* a hole, and then the range begins the live stream anew, above all that is
\* held: a block is never held twice (common.rs:324-332, 442-450).
SyncGapFree ==
    pc # "stopped" /\ RangeInFlight # NoBatch =>
        /\ Blocks(RangeInFlight) \cap kept = {}
        /\ \/ RangeInFlight.lo - 1 \in kept
           \/ kept = {} /\ RangeInFlight.lo = origin
           \/ /\ phase = "live" /\ RangeInFlight.lo \in {SaturatingSub(start, 1), start}
              /\ \A n \in kept : n < RangeInFlight.lo

\* Once the chain stops moving, the rounds end and the live stream gets to
\* everything that is confirmed.
SyncCatchesUp == <>[](pc = "stopped" \/ ~open \/ Stalled \/ (phase = "live" /\ CaughtUp))

-----------------------------------------------------------------------------
(* What the documentation says and the code does not do. *)

\* "When a reorg is detected, ... the next confirmed window is adjusted to
\* stream the reorged blocks" (event_scanner/modes/sync/mod.rs): what the
\* consumer holds has no hole.
ReorgedBlocksStreamed == \A n, m \in kept : n .. m \subseteq kept

\* "All errors except [`ScannerError::Lagged`] are terminal and will halt further
\* stream processing" (error.rs:15).
SyncErrorsAreTerminal == [][errored => kept' = kept]_allVars
=============================================================================
