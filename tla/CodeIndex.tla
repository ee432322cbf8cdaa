------------------------------ MODULE CodeIndex ------------------------------
(***************************************************************************)
(* What the lookup tree of jit-cache.c promises its users: regions are     *)
(* added one by one, and the answer to a query for a program counter is    *)
(* the region that holds it, or NoRegion when none does.                   *)
(***************************************************************************)
EXTENDS Integers

CONSTANTS
    Region,    \* start addresses of the regions
    Size,      \* bytes in a region
    Counter,   \* program counters that are looked up
    NoRegion

VARIABLES
    index,     \* the regions that have been added
    answer     \* the last query and its answer

vars == <<index, answer>>

Holds(region, pc) == region <= pc /\ pc < region + Size

Init == index = {} /\ answer = <<>>

Add(region) ==
    /\ index' = index \cup {region}
    /\ UNCHANGED answer

Answer(pc) ==
    LET found == {region \in index : Holds(region, pc)}
    IN  IF found = {} THEN NoRegion ELSE CHOOSE region \in found : TRUE

Query ==
    /\ \E pc \in Counter : answer' = <<pc, Answer(pc)>>
    /\ UNCHANGED index

Next == Query \/ \E region \in Region : Add(region)

Spec == Init /\ [][Next]_vars

=============================================================================
