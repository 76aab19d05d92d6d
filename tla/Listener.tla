------------------------------ MODULE Listener ------------------------------
(***************************************************************************)
(* The receiving end of a block stream, and what its consumer makes of the *)
(* messages.  The channel is FIFO and bounded: a full one makes the sender *)
(* wait, which here is a send that happens later.  A send to a dropped     *)
(* receiver finds the channel closed (types.rs, try_stream).               *)
(*                                                                         *)
(* The consumer is the one the crate documents (lib.rs, "Handle reorgs by  *)
(* rollback"): it keeps the blocks of each range and, on ReorgDetected,    *)
(* drops those above the common ancestor.                                  *)
(***************************************************************************)
EXTENDS Chain

VARIABLES
    open,       \* the receiver has not been dropped
    kept,       \* numbers of the blocks the consumer holds
    stale,      \* those of kept that the canonical chain replaced since delivery
    errored     \* an error was delivered, or returned to the caller

listenerVars == <<open, kept, stale, errored>>

ListenerInit == open = TRUE /\ kept = {} /\ stale = {} /\ errored = FALSE

\* The numbers in [lo |-> ., hi |-> .].
Blocks(range) == range.lo .. range.hi

\* Message::Data(range).  A block the chain has lost by then (a shorter
\* branch took over) is stale on arrival.
Deliver(range) ==
    /\ open
    /\ kept' = kept \cup Blocks(range)
    /\ stale' = (stale \ Blocks(range)) \cup {n \in Blocks(range) : n > Height}
    /\ UNCHANGED <<open, errored>>

\* Notification::ReorgDetected { common_ancestor }.
Rollback(common_ancestor) ==
    /\ open
    /\ kept' = {n \in kept : n <= common_ancestor}
    /\ stale' = {n \in stale : n <= common_ancestor}
    /\ UNCHANGED <<open, errored>>

\* A notification that carries no block number.
Announce == open /\ UNCHANGED listenerVars

\* Err(_): nobody hears it when the receiver is gone.
ReportError ==
    /\ errored' = (errored \/ open)
    /\ UNCHANGED <<open, kept, stale>>

DropReceiver ==
    /\ open
    /\ open' = FALSE
    /\ UNCHANGED <<kept, stale, errored>>

\* The chain replaces its blocks above `fork`.
Orphan(fork) ==
    /\ stale' = stale \cup {n \in kept : n > fork}
    /\ UNCHANGED <<open, kept, errored>>

ListenerTypeOK ==
    /\ open \in BOOLEAN /\ errored \in BOOLEAN
    /\ kept \subseteq 0 .. MaxHeight
    /\ stale \subseteq kept
=============================================================================
