---------------------------- MODULE MCLookupTree ----------------------------
(***************************************************************************)
(* LookupTree for TLC: regions of two bytes with a gap after each, added   *)
(* in every order.  Eight regions are the fewest for a rotation in the     *)
(* middle of a search; the looked up program counters are the start of a   *)
(* region, the end of one and the last byte of the last.                   *)
(***************************************************************************)
EXTENDS LookupTree

MCNode == {3 * i : i \in 1..8}
MCFewNodes == {3 * i : i \in 1..5}
MCCounter == {6, 14, 25}
=============================================================================
