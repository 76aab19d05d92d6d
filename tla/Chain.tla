------------------------------- MODULE Chain -------------------------------
(***************************************************************************)
(* The node the scanner talks to (external: everything here is modelled    *)
(* from how the scanner uses its RobustProvider).  A node holds one        *)
(* canonical chain above the genesis block; it mines on top of it,         *)
(* reorganises its non-finalized part and finalizes blocks.                *)
(*                                                                         *)
(* A block is its number and its hash.  The hash is the number of reorgs   *)
(* that had happened when the block was mined, which names a block at a    *)
(* height uniquely: a branch that was abandoned never comes back.          *)
(***************************************************************************)
EXTENDS Integers, Sequences

CONSTANTS
    MaxHeight,      \* the chain stops growing here
    MaxReorgs,      \* the number of reorgs a behaviour may have
    InitialHeight   \* height of the chain when the scanner starts

ASSUME ChainAssumption ==
    /\ MaxHeight \in Nat /\ MaxReorgs \in Nat
    /\ InitialHeight \in 0 .. MaxHeight

VARIABLES
    chain,      \* chain[n] is the hash of the canonical block number n > 0
    finalized,  \* number of the finalized block; block 0 is final from the start
    reorgs      \* reorgs so far, also the hash that new blocks get

chainVars == <<chain, finalized, reorgs>>

Height == Len(chain)

Block == [number : 0 .. MaxHeight, hash : 0 .. MaxReorgs]

\* Option<Block>::None.
NoBlock == [number |-> -1, hash |-> -1]

OptionalBlock == Block \cup {NoBlock}

\* get_block_by_number(n) for a block the node has, n \in 0 .. Height.
BlockAt(n) == [number |-> n, hash |-> IF n = 0 THEN 0 ELSE chain[n]]

\* The node knows block b, and not another one, under b's number: what the
\* scanner learns by comparing hashes.  A number above the tip is BlockNotFound.
Canonical(b) == b.number \in 0 .. Height /\ BlockAt(b.number) = b

ChainInit ==
    /\ chain = [n \in 1 .. InitialHeight |-> 0]
    /\ finalized \in 0 .. InitialHeight
    /\ reorgs = 0

\* A block is mined on top of the chain.
Mine ==
    /\ Height < MaxHeight
    /\ chain' = Append(chain, reorgs)
    /\ UNCHANGED <<finalized, reorgs>>

\* Every block above `fork` is replaced by new ones up to number `tip`.  The
\* new chain may be shorter than the old one: the nodes tell subscribers of
\* each block of a new branch, so the scanner sees it at every length.
Reorg(fork, tip) ==
    /\ reorgs < MaxReorgs
    /\ fork \in finalized .. Height - 1
    /\ tip \in fork + 1 .. MaxHeight
    /\ chain' = [n \in 1 .. tip |-> IF n <= fork THEN chain[n] ELSE reorgs + 1]
    /\ reorgs' = reorgs + 1
    /\ UNCHANGED finalized

\* The finalized block moves up to number n.
Finalize(n) ==
    /\ n \in finalized + 1 .. Height
    /\ finalized' = n
    /\ UNCHANGED <<chain, reorgs>>

ChainTypeOK ==
    /\ chain \in Seq(0 .. MaxReorgs) /\ Height <= MaxHeight
    /\ finalized \in 0 .. Height
    /\ reorgs \in 0 .. MaxReorgs
=============================================================================
