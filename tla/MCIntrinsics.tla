---------------------------- MODULE MCIntrinsics ----------------------------
(***************************************************************************)
(* Intrinsics for TLC, with an int of 8 values and a long of 64: every     *)
(* operation on every pair of values.                                      *)
(***************************************************************************)
EXTENDS Intrinsics
=============================================================================
