---------------------------- MODULE MCOperations ----------------------------
(***************************************************************************)
(* Operations for TLC, with an int of 8 values and a long of 64: the       *)
(* operands lie at the bounds of the types.                                *)
(***************************************************************************)
EXTENDS Operations

MenuOf(names, types, numbers, quarters, tests) ==
    [calls |-> names, types |-> types, numbers |-> numbers, quarters |-> quarters,
     tests |-> tests]

Bounds   == {-32, -31, -9, -5, -4, -3, -2, -1, 0, 1, 2, 3, 4, 7, 8, 31, 32, 63}
Quarters == {-136, -132, -131, -18, -17, -16, -4, -3, -1, 0, 1, 3, 4, 6, 16, 28, 31, 32,
             127, 128, 256}
UnaryMenu == MenuOf({"convert", "neg", "not", "abs", "sign", "is_nan", "is_finite", "is_inf"},
                    Types, Bounds, Quarters, {<<>>})

Few == {-32, -4, -1, 0, 3, 7, 31, 63}
ArithmeticMenu == MenuOf(Arithmetics \cup Bits \cup Shifts, DOMAIN Integral, Few, {}, {<<>>})
OrderMenu == MenuOf(Comparisons \cup Threeway \cup {"min", "max"},
                    {"short", "int", "uint", "long", "ulong", "float32", "nfloat"},
                    {-4, -1, 0, 3, 7, 63}, {-4, 0, 1, 2, 8, 28}, {<<>>})

Branches == {"branch_if", "branch_if_not"}
Testing  == {"to_bool", "to_not_bool", "others"}
TestMenu == MenuOf({"LT", "EQ", "value", "sign"}, {"int", "ulong", "float64"}, {-1, 0, 3}, {0, 4},
                   UNION {[1 .. n -> Testing] : n \in 1 .. 2}
                   \cup {Append(values, branch) :
                            values \in UNION {[1 .. n -> Testing] : n \in 0 .. 2},
                            branch \in Branches})
MCMenus == {UnaryMenu, ArithmeticMenu, OrderMenu, TestMenu}
=============================================================================
