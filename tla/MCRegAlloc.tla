----------------------------- MODULE MCRegAlloc -----------------------------
(***************************************************************************)
(* RegAlloc for TLC.  The registers are numbered as on x86-64 in small:    *)
(* 0 stands for rax and 1 and 2 for the other registers a call changes;    *)
(* the one register that is kept across calls comes last (r15), or in      *)
(* front of register 2 (rbx, which lies before rsi).  The forms are those  *)
(* of rules of jit-rules-x86-64.ins.                                       *)
(***************************************************************************)
EXTENDS RegAllocParts

MCRegs == 0 .. 3
LastGlobal  == {3}
FirstGlobal == {1}
CalledLast  == {0, 1, 2}
CalledFirst == {0, 2, 3}

MCValues      == <<"x", "t", "k">>
MCConstants   == {"k"}
MCTemporaries == {"t"}
MCCounts      == {[x |-> 3], [x |-> 1]}

All   == <<0, 1, 2, 3>>
Operand(kind, class, fixed, clobber) == [kind |-> kind, class |-> class, fixed |-> fixed, clobber |-> clobber]
None  == Operand("none", <<>>, NoReg, "no")
InReg == Operand("reg", All, NoReg, "no")
Local == Operand("local", All, NoReg, "no")
Frame == Operand("frame", <<>>, NoReg, "no")
Pin(r) == Operand("reg", All, r, "no")

Form(name, flags, dest, first, second, scratch, clobbers) ==
    [name |-> name, ternary |-> "ternary" \in flags, free |-> "free" \in flags,
     copy |-> "copy" \in flags, commutative |-> "commutative" \in flags,
     branch |-> "branch" \in flags, scratch |-> scratch, clobbers |-> clobbers,
     operands |-> [i \in 0 .. 2 |-> CASE i = 0 -> dest [] i = 1 -> first [] OTHER -> second]]

Incoming == Form("incoming", {}, None, InReg, None, <<>>, <<>>)
Copy     == Form("copy", {"copy"}, InReg, InReg, None, <<>>, <<>>)
Add      == Form("add", {"commutative"}, InReg, InReg, Local, <<>>, <<>>)
Sub      == Form("sub", {}, InReg, InReg, Local, <<>>, <<>>)
Less     == Form("less", {"free"}, InReg, InReg, InReg, <<>>, <<>>)
Sign     == Form("sign", {"free"}, Operand("reg", All, NoReg, "early"),
                 Operand("reg", All, NoReg, "early"), None, <<>>, <<>>)
Shift    == Form("shift", {}, Operand("reg", <<0, 2, 3>>, NoReg, "no"),
                 Operand("reg", <<0, 2, 3>>, NoReg, "no"), Pin(1), <<>>, <<>>)
Rem      == Form("rem", {"free"}, Pin(2), Operand("reg", All, 0, "late"),
                 Operand("reg", <<1, 3>>, NoReg, "no"), <<[class |-> All, fixed |-> 2]>>, <<>>)
Address  == Form("address", {"free"}, InReg, Frame, None, <<>>, <<>>)
Branch   == Form("branch", {"branch"}, None, InReg, InReg, <<>>, <<>>)
Return   == Form("return", {}, None, Pin(0), None, <<>>, <<>>)
Param    == Form("set_param", {}, None, InReg, None, <<>>, <<>>)
Store    == Form("store", {"ternary"}, InReg, InReg, None, <<>>, <<>>)
Fill(called) == Form("fill", {"ternary"}, Pin(called[3]), Pin(called[2]), Pin(called[1]), <<>>, called)

At(r, v) == [reg |-> r, value |-> v]
MCArrivals == {<<>>, <<At(0, "x")>>, <<At(NoReg, "x")>>, <<At(2, "x")>>}

BlockForms == {Incoming, Copy, Add, Sub, Less, Sign, Shift, Rem, Address, Branch, Return, Param, Store,
               Fill(<<0, 1, 2>>)}
ClassForms == {Incoming, Copy, Add, Fill(<<0, 2, 3>>)}

\* Two registers beside the global one, both taken when a block begins.
ShortRegs   == 0 .. 2
ShortGlobal == {2}
ShortCalled == {0, 1}
MoreValues  == <<"x", "y", "z", "k">>
NoTemporaries == {}
MoreCounts  == {[x |-> 3, y |-> 1, z |-> 1]}
Short       == Operand("reg", <<0, 1, 2>>, NoReg, "no")
ShortForms  == {Form("incoming", {}, None, Short, None, <<>>, <<>>),
                Form("copy", {"copy"}, Short, Short, None, <<>>, <<>>),
                Form("less", {"free"}, Short, Short, Short, <<>>, <<>>)}
FullArrivals == {<<At(0, "y"), At(1, "z")>>}
=============================================================================
