---------------------------- MODULE LogCollector ----------------------------
(***************************************************************************)
(* The collection of a LatestEventsHandler (block_range_handler.rs): the   *)
(* newest logs seen so far, newest first, Count at most.                   *)
(*                                                                         *)
(* A block has one matching log or none, and a log is the number of its    *)
(* block.                                                                  *)
(***************************************************************************)
EXTENDS Integers, Sequences, FiniteSetsExt

CONSTANT Count      \* the number of events asked for

ASSUME CountAssumption == Count \in Nat \ {0}

\* At most the first n elements (Iterator::take, Vec::truncate).
FirstOf(seq, n) == SubSeq(seq, 1, Min({n, Len(seq)}))

\* The logs of a batch in the order they are collected (`logs.rev()`).
NewestFirst(numbers) ==
    [i \in 1 .. Cardinality(numbers) |->
        CHOOSE n \in numbers : Cardinality({m \in numbers : m > n}) = i - 1]

\* Mistake: the older logs stay, however many there are.
PrependKeepingAll(collected, logs) == FirstOf(logs, Count) \o collected

\* collect_logs with `prepend`: the logs are newer than all there are.
Prepend(collected, logs) ==
    LET new == FirstOf(logs, Count) IN new \o FirstOf(collected, Count - Len(new))

\* collect_logs without it: the logs are older.
Extend(collected, logs) == collected \o FirstOf(logs, Count - Len(collected))

\* discard_logs_from_orphaned_blocks: skip_while the logs are above the ancestor.
DiscardOrphaned(collected, common_ancestor) ==
    LET standing == {i \in 1 .. Len(collected) : collected[i] <= common_ancestor} IN
    SubSeq(collected, Min(standing \cup {Len(collected) + 1}), Len(collected))

IsCollection(collected, numbers) ==
    collected \in Seq(numbers) /\ Len(collected) <= Count
=============================================================================
