----------------------- MODULE RollbackStream_proofs -----------------------
(***************************************************************************)
(* What the promise of RollbackStream amounts to: a consumer that rolls    *)
(* back never holds a run of blocks with a hole in it.  Every component    *)
(* that implements RollbackStream inherits this.                           *)
(***************************************************************************)
EXTENDS RollbackStream, TLAPS

\* A range on offer fits at the end of what is held, because nothing is taken
\* or rolled back while it is on offer.
OfferFits ==
    offered # NoOffer => offered.lo \in NextBlocks(held) /\ offered.lo <= offered.hi

\* The inductive invariant.
IInv ==
    /\ first \in Nat
    /\ held \subseteq Nat
    /\ offered \in [lo : Nat, hi : Nat]
    /\ phase = "new" => offered = NoOffer
    /\ OfferFits
    /\ NoHoles

-----------------------------------------------------------------------------

\* Blocks that begin where the held ones end leave no hole (common.rs:400-459).
LEMMA ExtensionLeavesNoHoles ==
    ASSUME held \subseteq Nat, NoHoles, first \in Nat,
           NEW lo \in NextBlocks(held), NEW hi \in Nat, lo <= hi
    PROVE  \A n, m \in held \cup (lo .. hi) : n .. m \subseteq held \cup (lo .. hi)
<1> SUFFICES ASSUME NEW n \in held \cup (lo .. hi), NEW m \in held \cup (lo .. hi),
                    NEW k \in n .. m
             PROVE  k \in held \cup (lo .. hi)
    OBVIOUS
<1>1. lo \in Nat
    BY DEF NextBlocks
<1>2. n \in Nat /\ m \in Nat /\ k \in Nat /\ n <= k /\ k <= m
    BY <1>1
<1>3. CASE held = {}
    BY <1>1, <1>2, <1>3
<1>4. CASE held # {}
  <2>1. PICK last \in held : lo = last + 1 /\ last + 1 \notin held
    BY <1>4 DEF NextBlocks
  \* A held block above `last` would have last + 1 between them.
  <2>2. \A h \in held : h <= last
    <3> SUFFICES ASSUME NEW h \in held, h > last PROVE FALSE
        BY <2>1
    <3>1. last + 1 \in last .. h
        BY <2>1
    <3> QED
        BY <2>1, <3>1 DEF NoHoles
  <2>3. CASE k > hi
    BY <1>1, <1>2, <2>1, <2>2, <2>3
  <2>4. CASE lo <= k /\ k <= hi
    BY <1>1, <1>2, <2>4
  <2>5. CASE k < lo
    <3>1. n \in held
      BY <1>1, <1>2, <2>5
    <3>2. k \in n .. last
      BY <1>2, <2>1, <2>5
    <3> QED
      BY <2>1, <3>1, <3>2 DEF NoHoles
  <2> QED
    BY <1>1, <1>2, <2>3, <2>4, <2>5
<1> QED
    BY <1>3, <1>4

\* What is on offer after a step fits what is held then.
LEMMA OffersFit ==
    ASSUME MaxBlock \in Nat, first' \in Nat, held' \subseteq Nat, first' = first,
           offered' \in {NoOffer} \cup Offers(held')
    PROVE  offered' \in [lo : Nat, hi : Nat] /\ OfferFits'
<1>1. NextBlocks(held') \subseteq Nat
    BY DEF NextBlocks
<1>2. NextBlocks(held') = NextBlocks(held)'
    BY DEF NextBlocks
<1>3. CASE offered' = NoOffer
    BY <1>3 DEF NoOffer, OfferFits
<1>4. CASE offered' \in Offers(held')
  <2>1. /\ offered' \in [lo : NextBlocks(held'), hi : 0 .. MaxBlock]
        /\ offered'.lo <= offered'.hi
    BY <1>4 DEF Offers
  <2> QED
    BY <1>1, <1>2, <2>1 DEF OfferFits
<1> QED
    BY <1>3, <1>4

\* Every step keeps IInv.
LEMMA StepInv == ASSUME MaxBlock \in Nat PROVE IInv /\ [Next]_vars => IInv'
<1> SUFFICES ASSUME IInv, [Next]_vars PROVE IInv'
    OBVIOUS
<1>0. NoOffer \in [lo : Nat, hi : Nat]
    BY DEF NoOffer
<1>1. CASE Open
  <2>1. first' \in Nat /\ held' = held /\ offered' = offered
    BY <1>1 DEF Open
  <2>2. offered = NoOffer
    BY <1>1 DEF Open, IInv
  <2> QED
    BY <1>1, <2>1, <2>2 DEF Open, IInv, OfferFits, NoHoles
<1>2. CASE Offer
  <2>1. first' = first /\ held' = held /\ phase' = "open" /\ offered' \in Offers(held')
    BY <1>2 DEF Offer
  <2>2. first' \in Nat /\ held' \subseteq Nat /\ NoHoles'
    BY <2>1 DEF IInv, NoHoles
  <2> QED
    BY <2>1, <2>2, OffersFit DEF IInv
<1>3. CASE Take
  <2>1. /\ offered # NoOffer /\ first' = first /\ phase' = "open"
        /\ held' = held \cup (offered.lo .. offered.hi)
        /\ offered' \in {NoOffer} \cup Offers(held')
    BY <1>3 DEF Take
  <2>2. /\ offered.lo \in NextBlocks(held) /\ offered.hi \in Nat /\ offered.lo \in Nat
        /\ offered.lo <= offered.hi
    BY <2>1 DEF IInv, OfferFits
  <2>3. NoHoles'
    BY <2>1, <2>2, ExtensionLeavesNoHoles DEF IInv, NoHoles
  <2>4. held' \subseteq Nat
    <3>1. offered.lo .. offered.hi \subseteq Nat /\ held \subseteq Nat
      BY <2>2 DEF IInv
    <3> QED
      BY <2>1, <3>1
  <2>5. first' \in Nat
    BY <2>1 DEF IInv
  <2> QED
    BY <2>1, <2>3, <2>4, <2>5, OffersFit DEF IInv
<1>4. CASE Rollback
  <2>1. PICK common_ancestor \in 0 .. MaxBlock :
            held' = {n \in held : n <= common_ancestor}
    BY <1>4 DEF Rollback
  <2>2. /\ first' = first /\ phase' = "open"
        /\ offered' \in {NoOffer} \cup Offers(held')
    BY <1>4 DEF Rollback
  <2>3. NoHoles'
    <3> SUFFICES ASSUME NEW n \in held', NEW m \in held', NEW k \in n .. m PROVE k \in held'
        BY DEF NoHoles
    <3>1. n \in held /\ m \in held /\ n \in Nat /\ m \in Nat /\ m <= common_ancestor
        BY <2>1 DEF IInv
    <3>2. k \in held
        BY <3>1 DEF IInv, NoHoles
    <3> QED
        BY <2>1, <3>1, <3>2
  <2>4. first' \in Nat /\ held' \subseteq Nat
    BY <2>1, <2>2 DEF IInv
  <2> QED
    BY <2>2, <2>3, <2>4, OffersFit DEF IInv
<1>5. CASE End
    BY <1>0, <1>5 DEF End, IInv, OfferFits, NoHoles
<1>6. CASE Withdraw
    BY <1>0, <1>6 DEF Withdraw, IInv, OfferFits, NoHoles
<1>7. CASE UNCHANGED vars
    BY <1>7 DEF vars, IInv, OfferFits, NoHoles, NextBlocks
<1> QED
    BY <1>1, <1>2, <1>3, <1>4, <1>5, <1>6, <1>7 DEF Next

\* A consumer that rolls back on every ReorgDetected never has a hole in what
\* it holds, if the stream keeps its promise (RollbackStream!Spec).
THEOREM PromiseLeavesNoHoles == ASSUME MaxBlock \in Nat PROVE Spec => []NoHoles
<1>1. Init => IInv
    BY DEF Init, IInv, NoOffer, OfferFits, NoHoles
<1>2. IInv /\ [Next]_vars => IInv'
    BY StepInv
<1>3. IInv => NoHoles
    BY DEF IInv
<1> QED
    BY <1>1, <1>2, <1>3, PTL DEF Spec
=============================================================================
