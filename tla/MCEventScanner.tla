--------------------------- MODULE MCEventScanner ---------------------------
(***************************************************************************)
(* EventScanner for TLC: filters are made for scanners with default ids.   *)
(***************************************************************************)
EXTENDS EventScanner

MCNext ==
    /\ Next
    /\ filter' # filter => /\ config.from_block = DefaultFrom(mode)
                           /\ config.to_block = DefaultTo(mode)
                           /\ reorgs = 0

MCSpec == Init /\ [][MCNext]_vars
=============================================================================
