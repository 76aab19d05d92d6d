------------------------ MODULE MCBlockRangeHandler ------------------------
(***************************************************************************)
(* BlockRangeHandler for TLC: one listener in every mode, and two in the   *)
(* modes with one handler, where they get fewer messages.                  *)
(***************************************************************************)
EXTENDS BlockRangeHandler, FiniteSets

CONSTANT MaxMessagesForTwo

\* The listeners that subscribed before the start.
Subscribed == {l \in Listeners : \E h \in Handlers : processor[h][l] # "none"}

\* One of the listeners subscribes first.
MCInit ==
    /\ Init
    /\ present # {} => (CHOOSE l \in Listeners : TRUE) \in present
    /\ handler["stream"] = "waiting" => Cardinality(present) <= 1

MCNext ==
    /\ Next
    /\ Cardinality(Subscribed) > 1 =>
            \A h \in Handlers : published'[h] <= MaxMessagesForTwo

MCSpec == MCInit /\ [][MCNext]_vars

MCFairSpec == MCSpec /\ WF_vars(Tasks)
=============================================================================
