--------------------------- MODULE RollbackStream ---------------------------
(***************************************************************************)
(* What a block stream promises to a consumer that rolls back on reorgs    *)
(* (lib.rs, "Reorgs and finality" and "Dedupe vs rollback"; the detailed   *)
(* components implement this specification).                               *)
(*                                                                         *)
(* Such a consumer always holds one contiguous run of blocks: the stream   *)
(* extends it at the end by ranges of bounded length, or takes back        *)
(* everything above a common ancestor, and does nothing any more once it   *)
(* is over.                                                                *)
(***************************************************************************)
EXTENDS Integers

CONSTANTS
    MaxBlock,       \* the largest block number
    MaxBlockRange   \* the largest length of a range

VARIABLES
    phase,      \* "new", "open" or "over"
    first,      \* the block the stream starts from, once it is open
    held,       \* numbers of the blocks the consumer holds
    offered     \* the range about to be delivered, NoOffer if there is none

vars == <<phase, first, held, offered>>

NoOffer == [lo |-> 1, hi |-> 0]

\* Where the range after `blocks` may begin: after the last of them.  With none
\* it is `first`, or the block before once a reorg went below it.
NextBlocks(blocks) ==
    IF blocks = {} THEN {first} \cup ({first - 1} \cap Nat)
    ELSE {n + 1 : n \in {m \in blocks : m + 1 \notin blocks}}

\* The ranges a consumer that holds `blocks` may be offered.
Offers(blocks) ==
    {o \in [lo : NextBlocks(blocks), hi : 0 .. MaxBlock] :
        o.lo <= o.hi /\ o.hi - o.lo < MaxBlockRange}

Init == phase = "new" /\ first = 0 /\ held = {} /\ offered = NoOffer

Open ==
    /\ phase = "new"
    /\ phase' = "open"
    /\ first' \in 0 .. MaxBlock + 1
    /\ UNCHANGED <<held, offered>>

Offer ==
    /\ phase = "open"
    /\ offered = NoOffer
    /\ offered' \in Offers(held)
    /\ UNCHANGED <<phase, first, held>>

\* The consumer takes what is offered; the next range may be ready.
Take ==
    /\ phase = "open"
    /\ offered # NoOffer
    /\ held' = held \cup (offered.lo .. offered.hi)
    /\ offered' \in {NoOffer} \cup Offers(held')
    /\ UNCHANGED <<phase, first>>

\* A rollback takes something back or finds nothing to take back.
Rollback ==
    /\ phase = "open"
    /\ offered = NoOffer
    /\ \E common_ancestor \in 0 .. MaxBlock :
            held' = {n \in held : n <= common_ancestor}
    /\ offered' \in {NoOffer} \cup Offers(held')
    /\ UNCHANGED <<phase, first>>

End ==
    /\ phase # "over"
    /\ phase' = "over"
    /\ offered' = NoOffer
    /\ UNCHANGED <<first, held>>

\* The receiver is gone: what was offered is never taken.
Withdraw ==
    /\ offered # NoOffer
    /\ offered' = NoOffer
    /\ UNCHANGED <<phase, first, held>>

Next == Open \/ Offer \/ Take \/ Rollback \/ End \/ Withdraw

Spec == Init /\ [][Next]_vars

-----------------------------------------------------------------------------

\* What a consumer holds has no holes, whatever was taken back and streamed
\* again (lib.rs, "Dedupe vs rollback").
NoHoles == \A n, m \in held : n .. m \subseteq held
=============================================================================
