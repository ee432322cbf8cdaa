---------------------------- MODULE MCExceptions ----------------------------
(***************************************************************************)
(* Exceptions for TLC.  f has a catcher and calls out; g has none, calls   *)
(* out and throws; h is a leaf.  Each of the other instances adds one      *)
(* body, or one function that is built again, to the first.                *)
(***************************************************************************)
EXTENDS Exceptions

CONSTANTS f, g, h

Catcher == <<TRUE, TRUE, FALSE, "value", FALSE>>
ThrowingCatcher == <<TRUE, TRUE, TRUE, "value", FALSE>>
Thrower == <<FALSE, TRUE, TRUE, "ptr", FALSE>>
Looper == <<FALSE, TRUE, FALSE, "value", TRUE>>
Leaf == <<FALSE, FALSE, FALSE, "value", FALSE>>
ThrowingLeaf == <<FALSE, FALSE, TRUE, "none", FALSE>>
PtrCatcher == <<TRUE, FALSE, FALSE, "ptr", FALSE>>
LoopingCatcher == <<TRUE, FALSE, FALSE, "value", TRUE>>
Dispatcher == <<FALSE, TRUE, FALSE, "none", FALSE>>

MCBody ==
  [i \in Function |-> CASE i = f -> {Catcher, ThrowingCatcher}
                        [] i = g -> {Thrower, Looper}
                        [] i = h -> {Leaf, ThrowingLeaf}]
MCBodyPtr == [MCBody EXCEPT ![f] = @ \cup {PtrCatcher}]
MCBodyLoop == [MCBody EXCEPT ![f] = @ \cup {LoopingCatcher}]
MCBodyAgain == [MCBody EXCEPT ![g] = {Thrower, Dispatcher}]

\* The first instance is one of those the proofs are about.
ASSUME FirstInstance == Body = MCBody /\ Recompilable = {h} => BodiesRight
=============================================================================
