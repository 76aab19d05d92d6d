-------------------------- MODULE BlockRangeScanner --------------------------
(***************************************************************************)
(* What every block stream of a BlockRangeScanner (scanner.rs) shares: the *)
(* node, the channel to the consumer, and max_block_range.                 *)
(***************************************************************************)
EXTENDS RangeIterator, Listener

CONSTANT MaxBlockRange      \* max_block_range

ASSUME MaxBlockRangeAssumption ==
    MaxBlockRange \in 1 .. MaxU64 /\ MaxHeight + 1 < MaxU64
=============================================================================
