----------------------------- MODULE MCOnDemand -----------------------------
(***************************************************************************)
(* OnDemand for TLC: the on-demand compiler of lazy may build plain too.   *)
(***************************************************************************)
EXTENDS OnDemand

CONSTANTS lazy, plain, s, t

MCHelper == [i \in Function |-> IF i = lazy THEN Function \ {lazy} ELSE {}]
=============================================================================
