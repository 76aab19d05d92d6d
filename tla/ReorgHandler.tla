---------------------------- MODULE ReorgHandler ----------------------------
(***************************************************************************)
(* DefaultReorgHandler (block_range_scanner/reorg_handler.rs): tells       *)
(* whether a block was reorged and, if so, finds a common ancestor.        *)
(*                                                                         *)
(* check(block) awaits the provider once per step, and the chain may       *)
(* change between any two of them, so a call is a small state machine:     *)
(*                                                                         *)
(*    idle -> detect -> done                       no reorg                *)
(*            detect -> search* -> done            nothing left: finalized *)
(*                      search* -> confirm -> done  a remembered ancestor  *)
(*                                                                         *)
(* and from every awaiting step to "failed" when the RPC call fails.  The  *)
(* caller starts a call with Check and takes the verdict with Answered.    *)
(***************************************************************************)
EXTENDS Chain, RingBuffer

VARIABLES
    buffer,     \* remembered blocks, oldest first
    step,       \* where the current call of check stands
    checked,    \* the block under check
    verdict     \* of a call that is done: NoBlock or the common ancestor

handlerVars == <<buffer, step, checked, verdict>>

HandlerInit ==
    /\ buffer = <<>>
    /\ step = "idle"
    /\ checked = NoBlock
    /\ verdict = NoBlock

\* The caller's side of a call: begin it, and leave it once it is done.
Check(block) ==
    /\ step = "idle"
    /\ step' = "detect"
    /\ checked' = block
    /\ UNCHANGED <<buffer, verdict>>

Answered ==
    /\ step = "done"
    /\ step' = "idle"
    /\ verdict' = NoBlock
    /\ UNCHANGED <<buffer, checked>>

\* The call returns v; the block under check is forgotten.
Return(v) ==
    /\ step' = "done"
    /\ verdict' = v
    /\ checked' = NoBlock

\* Mistake: a block checked twice is remembered twice.
NeverDuplicate(block) == FALSE

\* The newest remembered block is `block` already.
Duplicate(block) == buffer # <<>> /\ Back(buffer) = block

\* Mistake: blocks are compared by number only.
DetectCanonicalByNumber ==
    /\ step = "detect"
    /\ checked.number <= Height
    /\ buffer' = IF Duplicate(checked) THEN buffer ELSE Push(buffer, checked)
    /\ Return(NoBlock)

\* reorg_detected is false: remember the block.
DetectCanonical ==
    /\ step = "detect"
    /\ Canonical(checked)
    /\ buffer' = IF Duplicate(checked) THEN buffer ELSE Push(buffer, checked)
    /\ Return(NoBlock)

\* reorg_detected is true: another hash, or no block, under this number.
DetectReorg ==
    /\ step = "detect"
    /\ ~Canonical(checked)
    /\ step' = "search"
    /\ UNCHANGED <<buffer, checked, verdict>>

\* The newest remembered block is not canonical any more.
Discard ==
    /\ step = "search"
    /\ buffer # <<>>
    /\ ~Canonical(Back(buffer))
    /\ buffer' = PopBack(buffer)
    /\ UNCHANGED <<step, checked, verdict>>

\* Mistake: any block under the remembered number is taken for the ancestor.
FindAncestorByNumber ==
    /\ step = "search"
    /\ buffer # <<>>
    /\ Back(buffer).number <= Height
    /\ step' = "confirm"
    /\ UNCHANGED <<buffer, checked, verdict>>

\* The newest remembered block is canonical: it is the common ancestor,
\* unless the finalized block, fetched next, is above it.
FindAncestor ==
    /\ step = "search"
    /\ buffer # <<>>
    /\ Canonical(Back(buffer))
    /\ step' = "confirm"
    /\ UNCHANGED <<buffer, checked, verdict>>

\* return_common_ancestor.
Confirm ==
    /\ step = "confirm"
    /\ IF finalized <= Back(buffer).number
       THEN Return(Back(buffer)) /\ UNCHANGED buffer
       ELSE Return(BlockAt(finalized)) /\ buffer' = <<>>

\* No remembered block is canonical: the finalized block is the ancestor.
FallBack ==
    /\ step = "search"
    /\ buffer = <<>>
    /\ Return(BlockAt(finalized))
    /\ UNCHANGED buffer

\* An RPC call of check fails with something else than BlockNotFound, or the
\* finalized block is unavailable.
CheckFails ==
    /\ step \in {"detect", "search", "confirm"}
    /\ step' = "failed"
    /\ checked' = NoBlock
    /\ UNCHANGED <<buffer, verdict>>

CheckStep ==
    \/ DetectCanonical
    \/ DetectReorg
    \/ Discard
    \/ FindAncestor
    \/ Confirm
    \/ FallBack
    \/ CheckFails

HandlerTypeOK ==
    /\ buffer \in Seq(Block)
    /\ WithinCapacity(buffer)
    /\ step \in {"idle", "detect", "search", "confirm", "done", "failed"}
    /\ checked \in OptionalBlock
    /\ verdict \in OptionalBlock
=============================================================================
