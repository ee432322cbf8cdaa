---------------------------- MODULE MCOptimizer ----------------------------
(***************************************************************************)
(* Optimizer for TLC.  A function is made of the calls of one menu.        *)
(***************************************************************************)
EXTENDS Optimizer

CONSTANTS x, c

\* Computations and copies in one block, branches over labels, comparisons that
\* become branches, accesses behind an address_of, and accesses behind an
\* add_relative whose pointer is assigned.
MenuOf(names, number, jumps, offsets) ==
    [calls |-> names, most |-> number, branches |-> jumps, offsets |-> offsets]

DataMenu    == MenuOf({"op", "load", "store", "return"}, 4, 0, {})
ControlMenu == MenuOf({"label", "branch", "branch_if", "store", "return"}, 6, 3, {})
CompareMenu == MenuOf({"lt", "branch_if", "store", "label"}, 4, 1, {})
AddressMenu == MenuOf({"address_of", "add_relative", "load_relative", "store_relative"},
                      4, 0, {0})
PointerMenu == MenuOf({"add_relative", "store", "load_relative", "return"}, 4, 0, {1})
MCMenu       == {DataMenu, ControlMenu, CompareMenu, AddressMenu, PointerMenu}
ControlMenus == {ControlMenu}
AddressMenus == {AddressMenu}
=============================================================================
