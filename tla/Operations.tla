----------------------------- MODULE Operations -----------------------------
(***************************************************************************)
(* What the calls of the instruction builder compute: the conversions, the *)
(* arithmetic, the comparisons and the tests of jit-insn.c, from the call  *)
(* over the opcodes or the constant that it emits to the interpreter that  *)
(* runs them.  A float is the sequence of its value in quarters, empty if  *)
(* it is not a number: a float64 keeps only halves and a float32 only even  *)
(* numbers.  Conversions that a back end does not support call intrinsics   *)
(* with the same results, and are not told apart; floating-point sums,     *)
(* products and mathematical functions are left to C.                      *)
(***************************************************************************)
EXTENDS Arithmetic, SequencesExt, Bitwise

CONSTANT Menus   \* The calls that are made together, the types of their operands,
                 \* the integers and the floats in quarters that those are, and
                 \* the sequences of tests that follow a call.

VARIABLES asked,     \* The call, its operands and how it is compiled.
          code,      \* The operands with the conversions that are left to run,
                     \* the opcode, the comparisons and the branch after it.
          done       \* What came of it.

vars == <<asked, code, done>>

-----------------------------------------------------------------------------
(* Types and values.                                                       *)

Integral == [sbyte  |-> [size |-> Byte, signed |-> TRUE],
             ubyte  |-> [size |-> Byte, signed |-> FALSE],
             short  |-> [size |-> Short, signed |-> TRUE],
             ushort |-> [size |-> Short, signed |-> FALSE],
             int |-> IntT, uint |-> UIntT, long |-> LongT, ulong |-> ULongT]
Narrow == {"sbyte", "ubyte", "short", "ushort"}
Floats == {"float32", "float64", "nfloat"}

NaN      == <<>>
Infinity == 16 * Long
Keeps    == [float32 |-> 8, float64 |-> 2, nfloat |-> 1]

\* jit_nfloat_to_float32, jit_nfloat_to_float64.
Rounded(value, type) ==
    IF value = NaN \/ value[1] \in {Infinity, -Infinity} THEN value
    ELSE <<((value[1] + Keeps[type] \div 2) \div Keeps[type]) * Keeps[type]>>

Operands(type, menu) ==
    IF type \in Floats
    THEN {value \in {NaN} \cup {<<n>> : n \in menu.quarters \cup {Infinity, -Infinity}} :
              Rounded(value, type) = value}
    ELSE menu.numbers \cap Values(Integral[type])
Types == DOMAIN Integral \cup Floats

\* jit_type_promote_int.
Promoted(type) == CASE type \in {"sbyte", "short"} -> "int"
                    [] type \in {"ubyte", "ushort"} -> "uint"
                    [] OTHER -> type

\* common_binary.
CommonFloat(type1, type2) ==
    CASE "nfloat" \in {type1, type2} -> "nfloat"
      [] "float64" \in {type1, type2} -> "float64"
      [] "float32" \in {type1, type2} -> "float32"

Common(type1, type2, intOnly) ==
    LET left  == Promoted(type1)
        right == Promoted(type2)
    IN IF {left, right} \cap Floats # {}
       THEN IF intOnly THEN "long" ELSE CommonFloat(left, right)
       ELSE CASE left = "int"   -> IF right \in {"int", "uint"} THEN "int" ELSE "long"
              [] left = "uint"  -> right
              [] left = "long"  -> "long"
              [] left = "ulong" -> IF right \in {"int", "long"} THEN "long" ELSE "ulong"

-----------------------------------------------------------------------------
(* Conversions.                                                            *)

Fine(result) == {Checked(TRUE, result)}

\* The integer that is left of a float without its fraction.
Whole(value) == IF value[1] >= 0 THEN value[1] \div 4 ELSE -((-value[1]) \div 4)
Finite(value) == value # NaN /\ value[1] \notin {Infinity, -Infinity}

\* A cast of a float that no value of the type is near is undefined.
FloatToInteger(value, type) ==
    IF type = "ulong" THEN
        IF value = NaN \/ value[1] < 0 THEN Fine(0)
        ELSE Fine(IF value[1] < 4 * Long THEN Whole(value) ELSE Long - 1)
    ELSE IF Finite(value) /\ Whole(value) \in Values(Integral[type]) THEN Fine(Whole(value))
    ELSE {Checked(TRUE, any) : any \in Values(Integral[type])}

\* jit_nfloat_to_..._ovf: a negative fraction is zero to the signed types.
FloatToIntegerOvf(value, type) ==
    LET size == Integral[type].size
        fits == IF Integral[type].signed
                THEN value[1] > -(4 * (size \div 2) + 4) /\ value[1] < 4 * (size \div 2)
                ELSE value[1] >= 0 /\ value[1] < 4 * size
    IN {Checked(Finite(value) /\ fits, IF Finite(value) /\ fits THEN Whole(value) ELSE 0)}

\* jit_int_to_sbyte_ovf ... jit_ulong_to_ulong_ovf, on what the register holds.
IntegerOvf(value, from, to) ==
    LET source == To(value, Integral[from])
        result == To(value, Integral[to])
    IN {Checked(ConversionFits(Integral[from], Integral[to], source, result), result)}

\* A step of a conversion: the opcode, the type that it reads, that it leaves.
Step(op, from, to) == [op |-> op, from |-> from, to |-> to]

Trunc(from, to)    == Step("TRUNC", from, to)    \* TRUNC_*, LOW_WORD, EXPAND_*, COPY_*.
Check(from, to)    == Step("CHECK", from, to)    \* CHECK_*.
FromFloat(op, to)  == Step(op, "nfloat", to)     \* NFLOAT_TO_*, CHECK_NFLOAT_TO_*.

\* to_sbyte, to_ubyte, to_short, to_ushort.
ToNarrow(from, to, check) ==
    LET signed == Integral[to].signed
    IN CASE ~check /\ from \in {"int", "uint"}  -> <<Trunc("int", to)>>
         [] ~check /\ from \in {"long", "ulong"} -> <<Trunc("long", "int"), Trunc("int", to)>>
         [] check /\ from = "int"  -> <<Check("int", to)>>
         [] check /\ from = "uint" -> IF signed THEN <<Check("uint", "int"), Check("int", to)>>
                                      ELSE <<Check("int", to)>>
         [] check /\ from = "long" -> <<Check("long", "int"), Check("int", to)>>
         [] check /\ from = "ulong" ->
                IF signed THEN <<Check("long", "uint"), Check("uint", "int"), Check("int", to)>>
                ELSE <<Check("long", "uint"), Check("int", to)>>
         [] ~check /\ from \in Floats -> <<FromFloat("CONVERT", "int"), Trunc("int", to)>>
         [] check /\ from \in Floats  -> <<FromFloat("CONVERT_OVF", "int"), Check("int", to)>>

\* to_int.
ToInt(from, check) ==
    CASE ~check /\ from \in {"int", "uint"} -> <<Trunc("int", "int")>>
      [] ~check /\ from \in {"long", "ulong"} -> <<Trunc("long", "int")>>
      [] check /\ from = "int"   -> <<Trunc("int", "int")>>
      [] check /\ from = "uint"  -> <<Check("uint", "int")>>
      [] check /\ from = "long"  -> <<Check("long", "int")>>
      [] check /\ from = "ulong" -> <<Check("long", "uint"), Check("uint", "int")>>
      [] from \in Floats -> <<FromFloat(IF check THEN "CONVERT_OVF" ELSE "CONVERT", "int")>>

\* to_uint.
ToUInt(from, check) ==
    CASE from = "uint" \/ (~check /\ from = "int") -> <<Trunc("int", "uint")>>
      [] check /\ from = "int" -> <<Check("int", "uint")>>
      [] ~check /\ from \in {"long", "ulong"} -> <<Trunc("long", "uint")>>
      [] check /\ from \in {"long", "ulong"}  -> <<Check("long", "uint")>>
      [] from \in Floats -> <<FromFloat(IF check THEN "CONVERT_OVF" ELSE "CONVERT", "uint")>>

\* to_long.
ToLong(from, check) ==
    CASE from \in {"int", "uint", "long"} -> <<Trunc(from, "long")>>
      [] ~check /\ from = "ulong" -> <<Trunc("long", "long")>>
      [] check /\ from = "ulong"  -> <<Check("ulong", "long")>>
      [] from \in Floats -> <<FromFloat(IF check THEN "CONVERT_OVF" ELSE "CONVERT", "long")>>

\* A mutant of ToULong: a checked int is only expanded.
ToULong_Expanded(from, check) ==
    CASE from = "int" -> <<Trunc("int", "ulong")>>
      [] from \in {"uint", "ulong"} -> <<Trunc(from, "ulong")>>
      [] from = "long" -> <<IF check THEN Check("long", "ulong") ELSE Trunc("long", "ulong")>>
      [] from \in Floats -> <<FromFloat(IF check THEN "CONVERT_OVF" ELSE "CONVERT", "ulong")>>

\* to_ulong.
ToULong(from, check) ==
    CASE from = "int" -> IF check THEN <<Check("int", "uint"), Trunc("uint", "ulong")>>
                         ELSE <<Trunc("int", "ulong")>>
      [] from \in {"uint", "ulong"} -> <<Trunc(from, "ulong")>>
      [] from = "long" -> <<IF check THEN Check("long", "ulong") ELSE Trunc("long", "ulong")>>
      [] from \in Floats -> <<FromFloat(IF check THEN "CONVERT_OVF" ELSE "CONVERT", "ulong")>>

\* to_float32, to_float64, to_nfloat.
ToFloat(from, to) ==
    CASE from = to -> <<>>
      [] from \notin Floats -> <<Step("FLOAT", from, "nfloat"), Step("ROUND", "nfloat", to)>>
      [] OTHER -> <<Step("ROUND", "nfloat", to)>>

\* jit_insn_convert, of a value that is no constant.
Chain(from, to, check) ==
    CASE to \in Narrow    -> ToNarrow(from, to, check)
      [] to = "int"       -> ToInt(from, check)
      [] to = "uint"      -> ToUInt(from, check)
      [] to = "long"      -> ToLong(from, check)
      [] to = "ulong"     -> ToULong(from, check)
      [] to \in Floats    -> ToFloat(from, to)

\* The handlers of the conversion opcodes.
Runs(step, value) ==
    CASE step.op = "TRUNC" -> Fine(To(To(value, Integral[step.from]), Integral[step.to]))
      [] step.op = "CHECK" -> IntegerOvf(value, step.from, step.to)
      [] step.op = "CONVERT" -> FloatToInteger(value, step.to)
      [] step.op = "CONVERT_OVF" -> FloatToIntegerOvf(value, step.to)
      [] step.op = "FLOAT" -> Fine(<<4 * value>>)
      [] step.op = "ROUND" -> Fine(Rounded(value, step.to))

-----------------------------------------------------------------------------
(* Constants.                                                              *)

\* jit_..._to_..., jit_..._to_..._ovf: a conversion in one step.
Direct(from, to, check) ==
    IF from \in Floats THEN FromFloat(IF check THEN "CONVERT_OVF" ELSE "CONVERT", to)
    ELSE IF check THEN Check(from, to) ELSE Trunc(from, to)

\* jit_constant_convert: the narrow types are reached from int, and the floats by
\* the steps that the code takes.
ConstantToNarrow(from, to, check) ==
    IF from = "int" THEN <<Direct("int", to, check)>>
    ELSE <<Direct(from, "int", check), Direct("int", to, check)>>

ConstantToFloat(from, to) == ToFloat(from, to)

ConstantSteps(from, to, check) ==
    CASE to \in Narrow -> ConstantToNarrow(from, to, check)
      [] to \in Floats -> ConstantToFloat(from, to)
      [] OTHER -> <<Direct(from, to, check)>>

\* The outcomes of running steps on a value: an overflow ends them.
Outcomes(steps, value) ==
    FoldLeft(LAMBDA outcomes, step :
                 UNION {IF outcome.code = "OK" THEN Runs(step, outcome.result) ELSE {outcome} :
                            outcome \in outcomes},
             Fine(value), steps)

\* jit_insn_convert: a constant that cannot be converted is converted at run
\* time, by the steps for its type.
Operand(value, steps, constant) == [value |-> value, steps |-> steps, constant |-> constant]

Converted(value, from, to, check, constant) ==
    IF from = to THEN {Operand(value, <<>>, constant)}
    ELSE IF constant
    THEN {IF outcome.code = "OK" THEN Operand(outcome.result, <<>>, TRUE)
          ELSE Operand(value, Chain(Promoted(from), to, check), FALSE) :
             outcome \in Outcomes(ConstantSteps(Promoted(from), to, check), value)}
    ELSE {Operand(value, Chain(Promoted(from), to, check), FALSE)}

-----------------------------------------------------------------------------
(* The calls.                                                              *)

Checking    == {"add_ovf", "sub_ovf", "mul_ovf"}
Arithmetics == {"add", "sub", "mul", "div", "rem"} \cup Checking
Bits        == {"and", "or", "xor"}
Shifts      == {"shl", "shr", "ushr", "sshr"}
Comparisons == {"EQ", "NE", "LT", "LE", "GT", "GE"}
Threeway    == {"cmpl", "cmpg"}
FloatTests  == {"is_nan", "is_finite", "is_inf"}
Binary      == Arithmetics \cup Bits \cup Shifts \cup Comparisons \cup Threeway \cup {"min", "max"}

\* apply_shift: the type of the count.
CountType(type) == IF Promoted(type) = "int" THEN "int" ELSE "uint"

\* jit_insn_neg: the type that is negated.
NegatedType(type) == CASE Promoted(type) = "uint"  -> "int"
                       [] Promoted(type) = "ulong" -> "long"
                       [] OTHER -> Promoted(type)

\* apply_arith, apply_unary_arith, apply_compare, apply_shift: the types that the
\* operands are converted to; the first is the type of the operation.
Coerced(call, types, to) ==
    CASE call = "convert"   -> <<to>>
      [] call = "value" \/ call \in FloatTests -> <<types[1]>>
      [] call \in {"abs", "sign"} -> <<Promoted(types[1])>>
      [] call = "neg"       -> <<NegatedType(types[1])>>
      [] call = "not"       -> <<Common(types[1], types[1], TRUE)>>
      [] call \in Shifts    -> <<Common(types[1], types[1], TRUE), CountType(types[2])>>
      [] OTHER -> LET common == Common(types[1], types[2], call \in Bits)
                  IN <<common, common>>

\* Only the operands of these calls are converted with a check.
Checks(call, check) == call \in Checking \/ (call = "convert" /\ check)

\* The type of what the call answers. The intrinsics that jit_insn_ushr and
\* jit_insn_sshr name shift, and answer, a type of the other sign.
Unsign(type) == CASE type = "int" -> "uint" [] type = "long" -> "ulong" [] OTHER -> type
Resign(type) == CASE type = "uint" -> "int" [] type = "ulong" -> "long" [] OTHER -> type
ResultType(call, type, supported) ==
    CASE call \in Comparisons \cup Threeway \cup FloatTests \cup {"sign"} -> "int"
      [] call = "ushr" /\ ~supported -> Unsign(type)
      [] call = "sshr" /\ ~supported -> Resign(type)
      [] OTHER -> type

-----------------------------------------------------------------------------
(* What the opcodes compute, and the intrinsics that stand for them.       *)

\* Floating-point numbers compare by their size; NaN has no order.
Less(x, y, type)   == IF type \in Floats THEN NaN \notin {x, y} /\ x[1] < y[1] ELSE x < y
Same(x, y, type)   == IF type \in Floats THEN NaN \notin {x, y} /\ x[1] = y[1] ELSE x = y
Unordered(x, y, type) == type \in Floats /\ NaN \in {x, y}

\* JIT_OP_IADD ... JIT_OP_LSUB_OVF_UN.
AddOrSub(call, type, x, y) ==
    CASE call = "add"     -> Fine(To(x + y, Integral[type]))
      [] call = "sub"     -> Fine(To(x - y, Integral[type]))
      [] call = "add_ovf" -> Additions(Integral[type], x, y)
      [] call = "sub_ovf" -> Subtractions(Integral[type], x, y)

\* JIT_OP_IMUL ... JIT_OP_LREM_UN.
MulOrDiv(call, type, x, y) ==
    CASE call = "mul"     -> Fine(To(x * y, Integral[type]))
      [] call = "mul_ovf" -> {Multiply(Integral[type], x, y)}
      [] call = "div"     -> {Divide(Integral[type], x, y, Quotient(x, y))}
      [] call = "rem"     -> {Divide(Integral[type], x, y, Remainder(x, y))}

\* JIT_OP_IAND ... JIT_OP_LNOT, on the bits of the values.
BitwiseOf(call, type, x, y) ==
    LET size == Integral[type].size
        a == ToUnsigned(x, size)
        b == ToUnsigned(y, size)
    IN Fine(To(CASE call = "and" -> a & b [] call = "or" -> a | b [] call = "xor" -> a ^^ b,
               Integral[type]))

\* A mutant of ShiftOf: an unsigned shift keeps the sign of its operand.
ShiftOf_KeepsSign(call, type, x, count) ==
    LET integral == Integral[type]
        width == CHOOSE bits \in 1 .. integral.size : 2 ^ bits = integral.size
        power == 2 ^ ((count % Word) % width)
    IN Fine(To(IF call = "shl" THEN x * power
               ELSE IF call = "sshr" THEN ToSigned(x, integral.size) \div power
               ELSE x \div power, integral))

\* JIT_OP_ISHL ... JIT_OP_LSHR_UN: the count is cut to the bits of the type.
ShiftOf(call, type, x, count) ==
    LET integral == Integral[type]
        width == CHOOSE bits \in 1 .. integral.size : 2 ^ bits = integral.size
        power == 2 ^ ((count % Word) % width)
    IN Fine(To(CASE call = "shl"  -> x * power
                 [] call = "shr"  -> x \div power
                 [] call = "ushr" -> ToUnsigned(x, integral.size) \div power
                 [] call = "sshr" -> ToSigned(x, integral.size) \div power, integral))

\* JIT_OP_ICMP ... JIT_OP_NFCMPG: the interpreter compares native floats as
\* float64.
ThreewayOf(call, type, x, y, intrinsic) ==
    LET left  == IF type = "nfloat" /\ ~intrinsic THEN Rounded(x, "float64") ELSE x
        right == IF type = "nfloat" /\ ~intrinsic THEN Rounded(y, "float64") ELSE y
    IN Fine(CASE Unordered(left, right, type) -> IF call = "cmpl" THEN -1 ELSE 1
              [] Less(left, right, type) -> -1
              [] Less(right, left, type) -> 1
              [] OTHER -> 0)

\* A mutant of Extreme: only the first operand is tested for NaN.
Extreme_FirstNaN(call, type, x, y) ==
    Fine(IF type \in Floats /\ x = NaN THEN NaN
         ELSE IF call = "min" THEN IF Less(y, x, type) THEN y ELSE x
         ELSE IF Less(x, y, type) THEN y ELSE x)

\* JIT_OP_IMIN ... JIT_OP_NFMAX.
Extreme(call, type, x, y) ==
    Fine(CASE Unordered(x, y, type) -> NaN
           [] call = "min" /\ ~Unordered(x, y, type) -> IF Less(y, x, type) THEN y ELSE x
           [] call = "max" /\ ~Unordered(x, y, type) -> IF Less(x, y, type) THEN y ELSE x)

\* JIT_OP_INEG ... JIT_OP_NFNEG, JIT_OP_INOT, JIT_OP_LNOT.
NegOrNot(call, type, x) ==
    Fine(CASE type \in Floats -> IF x = NaN THEN NaN ELSE <<-x[1]>>
           [] type \notin Floats /\ call = "neg" -> To(-x, Integral[type])
           [] type \notin Floats /\ call = "not" -> To(-x - 1, Integral[type]))

\* JIT_OP_IABS ... JIT_OP_NFABS.
AbsOf(type, x) ==
    Fine(IF type \in Floats THEN IF x = NaN \/ x[1] >= 0 THEN x ELSE <<-x[1]>>
         ELSE To(Size(x), Integral[type]))

\* JIT_OP_ISIGN ... JIT_OP_NFSIGN: of a float that is positive, 0.
SignOf(type, x) ==
    Fine(IF type \in Floats THEN IF x # NaN /\ x[1] < 0 THEN -1 ELSE 0
         ELSE IF x < 0 THEN -1 ELSE IF x > 0 THEN 1 ELSE 0)

\* test_float_value: an integer passes no test.
FloatTestOf(call, type, x) ==
    Fine(IF type \in Floats /\ (CASE call = "is_nan"    -> x = NaN
                                  [] call = "is_finite" -> Finite(x)
                                  [] call = "is_inf"    -> x # NaN /\ ~Finite(x))
         THEN 1 ELSE 0)

\* JIT_OP_IEQ ... JIT_OP_NFGE.
Opposite == [EQ |-> "NE", NE |-> "EQ", LT |-> "GE", GE |-> "LT", LE |-> "GT", GT |-> "LE"]
Plain(op, type, x, y) ==
    CASE op = "EQ" -> Same(x, y, type)
      [] op = "NE" -> ~Same(x, y, type)
      [] op = "LT" -> Less(x, y, type)
      [] op = "LE" -> Less(x, y, type) \/ Same(x, y, type)
      [] op = "GT" -> Less(y, x, type)
      [] op = "GE" -> Less(y, x, type) \/ Same(x, y, type)

Truth(holds) == IF holds THEN 1 ELSE 0

Computes(call, type, x, y, intrinsic) ==
    CASE call \in {"add", "sub", "add_ovf", "sub_ovf"} -> AddOrSub(call, type, x, y)
      [] call \in {"mul", "mul_ovf", "div", "rem"} -> MulOrDiv(call, type, x, y)
      [] call \in Bits -> BitwiseOf(call, type, x, y)
      [] call \in Shifts -> ShiftOf(call, ResultType(call, type, ~intrinsic), x, y)
      [] call \in Comparisons -> Fine(Truth(Plain(call, type, x, y)))
      [] call \in Threeway -> ThreewayOf(call, type, x, y, intrinsic)
      [] call \in {"min", "max"} -> Extreme(call, type, x, y)
      [] call \in {"neg", "not"} -> NegOrNot(call, type, x)
      [] call = "abs" -> AbsOf(type, x)
      [] call = "sign" -> SignOf(type, x)
      [] call \in FloatTests -> FloatTestOf(call, type, x)
      [] call \in {"convert", "value"} -> Fine(x)

-----------------------------------------------------------------------------
(* Tests of what a call answers.                                           *)

\* A comparison that was emitted: inv marks the opcodes ..._INV.
Comparison(op, inv, float) == [op |-> op, inv |-> inv, float |-> float]

\* A mutant of Inverted: the nan test is not inverted.
Inverted_KeepsNaN(comparison) == [comparison EXCEPT !.op = Opposite[@]]

\* What jit_insn_to_not_bool and jit_insn_branch_if_not make of a comparison.
Inverted(comparison) ==
    [comparison EXCEPT !.op = Opposite[@], !.inv = IF comparison.float THEN ~@ ELSE FALSE]

\* JIT_OP_FEQ_INV ... JIT_OP_NFGE_INV, and the branches of the same names.
Holds(comparison, type, x, y) ==
    IF comparison.inv THEN ~Plain(Opposite[comparison.op], type, x, y)
    ELSE Plain(comparison.op, type, x, y)

\* What the builder knows of the value that a call answered: its type; its
\* constant, if it is one; the comparisons that compute it; whether the last
\* instruction is one of them, and whether a branch took it up.
Emitted(type, constant, comparisons, last) ==
    [type |-> type, constant |-> constant, comparisons |-> comparisons,
     last |-> last, branch |-> FALSE]
Compared(emitted, op, inv) ==
    Append(emitted.comparisons, Comparison(op, inv, emitted.type \in Floats))

\* jit_value_is_true.
IsTrue(type, value) == IF type \in Floats THEN ~Same(value, <<0>>, type) ELSE value # 0

\* jit_insn_to_bool and jit_insn_to_not_bool of a value that is no comparison:
\* jit_insn_ne, jit_insn_eq with a zero. Those are folded or called where the
\* back end has no opcode for them.
AgainstZero(emitted, op, supported) ==
    IF emitted.constant # <<>> /\ ~supported
    THEN [emitted EXCEPT !.type = "int",
                         !.constant = <<Truth(IsTrue(emitted.type, @[1]) = (op = "NE"))>>]
    ELSE [emitted EXCEPT !.type = "int", !.constant = <<>>, !.last = supported,
                         !.comparisons = Compared(emitted, op, FALSE)]

InvertedLast(emitted) ==
    [emitted EXCEPT !.comparisons[Len(emitted.comparisons)] = Inverted(@)]

ToBool(emitted, supported) ==
    IF emitted.last THEN emitted ELSE AgainstZero(emitted, "NE", supported)

ToNotBool(emitted, supported) ==
    IF emitted.last THEN InvertedLast(emitted) ELSE AgainstZero(emitted, "EQ", supported)

\* A branch on a constant is taken or left out.
Decided(emitted, holds) ==
    [emitted EXCEPT !.type = "int", !.constant = <<Truth(holds)>>, !.branch = TRUE]
OnValue(emitted, op, inv) ==
    [emitted EXCEPT !.type = "int", !.comparisons = Compared(emitted, op, inv), !.branch = TRUE]

BranchIf(emitted) ==
    IF emitted.constant # <<>> THEN Decided(emitted, IsTrue(emitted.type, emitted.constant[1]))
    ELSE IF emitted.last THEN [emitted EXCEPT !.branch = TRUE]
    ELSE OnValue(emitted, "NE", FALSE)

BranchIfNot(emitted) ==
    IF emitted.constant # <<>> THEN Decided(emitted, ~IsTrue(emitted.type, emitted.constant[1]))
    ELSE IF emitted.last THEN [InvertedLast(emitted) EXCEPT !.branch = TRUE]
    ELSE OnValue(emitted, "EQ", emitted.type \in Floats)

\* Other instructions that come between leave the value behind.
Followed(emitted, test, supported) ==
    CASE test = "to_bool"       -> ToBool(emitted, supported)
      [] test = "to_not_bool"   -> ToNotBool(emitted, supported)
      [] test = "branch_if"     -> BranchIf(emitted)
      [] test = "branch_if_not" -> BranchIfNot(emitted)
      [] test = "others"        -> [emitted EXCEPT !.last = FALSE]

-----------------------------------------------------------------------------
(* Building the code of a call, and running it.                            *)

Nothing == [call |-> "none"]

\* jit_insn_sign: the sign of an unsigned value is whether it is not zero.
SignIsNE(call, type) == call = "sign" /\ Promoted(type) \in {"uint", "ulong"}

\* apply_arith ... test_float_value, jit_insn_call_intrinsic: an opcode of the
\* back end, or a call of an intrinsic, which constants make at once unless it
\* reports an exception.
Code(call, type, operands, supported) ==
    LET constants == \A i \in DOMAIN operands : operands[i].constant
        computes  == Computes(call, type, operands[1].value, Last(operands).value, TRUE)
        result    == ResultType(call, type, supported)
        known     == call \in {"convert", "value"} \/ (call \in FloatTests /\ type \notin Floats)
                     \/ ~supported
        with(emitted) == [call |-> call, type |-> type, operands |-> operands,
                          intrinsic |-> ~supported, emitted |-> emitted]
    IN IF call \in Comparisons /\ supported
       THEN {with(Emitted("int", <<>>, <<Comparison(call, FALSE, type \in Floats)>>, TRUE))}
       ELSE IF known /\ (constants \/ (call \in FloatTests /\ type \notin Floats))
       THEN {with(Emitted(result, IF outcome.code = "OK" THEN <<outcome.result>> ELSE <<>>,
                          <<>>, FALSE)) : outcome \in computes}
       ELSE {with(Emitted(result, <<>>, <<>>, FALSE))}

Coercions(request, to) ==
    [i \in DOMAIN request.types |->
        Converted(request.values[i], request.types[i], to[i],
                  Checks(request.call, request.check), request.constant)]

\* The call is compiled, with the tests that follow it.
Ask(request) ==
    LET first == request.types[1]
        zero  == Operand(0, <<>>, TRUE)
        call  == IF SignIsNE(request.call, first) THEN "NE" ELSE request.call
        to    == Coerced(request.call, request.types, request.to)
        coercions == Coercions(request, to)
    IN \E operand1 \in coercions[1], operand2 \in Last(coercions) :
          /\ Len(coercions) = 1 => operand2 = operand1
          /\ LET operands == IF SignIsNE(request.call, first) THEN <<operand1, zero>>
                             ELSE IF Len(coercions) = 1 THEN <<operand1>>
                             ELSE <<operand1, operand2>>
             IN \E built \in Code(call, to[1], operands, request.supported) :
                   code' = [built EXCEPT !.emitted =
                               FoldLeft(LAMBDA emitted, test :
                                            Followed(emitted, test, request.supported),
                                        @, request.tests)]
          /\ asked' = request
          /\ done' = Nothing

Request(call, types, values, to, check, constant, supported, tests) ==
    [call |-> call, types |-> types, values |-> values, to |-> to, check |-> check,
     constant |-> constant, supported |-> supported, tests |-> tests]

\* Sums and products of floats are left to C.
Asks(call, types, values, to, check, menu) ==
    /\ ~(call \in Arithmetics /\ \E i \in DOMAIN types : types[i] \in Floats)
    /\ \E constant \in BOOLEAN, supported \in BOOLEAN, tests \in menu.tests :
          Ask(Request(call, types, values, to, check, constant, supported, tests))

AskOne(menu) ==
    \E call \in menu.calls \ (Binary \cup {"convert"}), type \in menu.types :
        \E value \in Operands(type, menu) : Asks(call, <<type>>, <<value>>, type, FALSE, menu)

AskConvert(menu) ==
    /\ "convert" \in menu.calls
    /\ \E from \in menu.types, to \in Types, check \in BOOLEAN :
          \E value \in Operands(from, menu) :
              Asks("convert", <<from>>, <<value>>, to, check, menu)

AskTwo(menu) ==
    \E call \in menu.calls \cap Binary, type1 \in menu.types, type2 \in menu.types :
        \E value1 \in Operands(type1, menu), value2 \in Operands(type2, menu) :
            Asks(call, <<type1, type2>>, <<value1, value2>>, type1, FALSE, menu)

\* VM_BUILTIN: an exception ends the function.
Throw(outcome) == done' = [call |-> asked.call, code |-> outcome.code]
Answer(type, result) ==
    done' = [call |-> asked.call, code |-> "OK", type |-> type, result |-> result]

\* The next conversion of an operand.
Convert(i) ==
    /\ code.operands[i].steps # <<>>
    /\ \A j \in 1 .. i - 1 : code.operands[j].steps = <<>>
    /\ \E outcome \in Runs(Head(code.operands[i].steps), code.operands[i].value) :
          IF outcome.code = "OK"
          THEN /\ code' = [code EXCEPT !.operands[i].value = outcome.result,
                                       !.operands[i].steps = Tail(@)]
               /\ UNCHANGED done
          ELSE Throw(outcome) /\ UNCHANGED code
    /\ UNCHANGED asked

\* The comparisons that follow, each on the answer of the one before.
Chained(comparisons, type, x, y) ==
    FoldLeft(LAMBDA truth, comparison : Truth(Holds(comparison, "int", truth, 0)),
             Truth(Holds(Head(comparisons), type, x, y)), Tail(comparisons))

Operate ==
    /\ \A i \in DOMAIN code.operands : code.operands[i].steps = <<>>
    /\ LET x == code.operands[1].value
           y == Last(code.operands).value
           emitted == code.emitted
           direct  == code.call \in Comparisons /\ ~code.intrinsic
           zero(type) == IF type \in Floats THEN <<0>> ELSE 0
       IN \E outcome \in IF direct THEN Fine(0)
                         ELSE Computes(code.call, code.type, x, y, code.intrinsic) :
             CASE outcome.code # "OK" -> Throw(outcome)
               [] emitted.constant # <<>> -> Answer(emitted.type, emitted.constant[1])
               [] emitted.comparisons = <<>> -> Answer(emitted.type, outcome.result)
               [] direct -> Answer("int", Chained(emitted.comparisons, code.type, x, y))
               [] OTHER -> LET type == ResultType(code.call, code.type, ~code.intrinsic)
                           IN Answer("int", Chained(emitted.comparisons, type,
                                                     outcome.result, zero(type)))
    /\ UNCHANGED <<asked, code>>

Init == asked = Nothing /\ code = Nothing /\ done = Nothing

\* The function that was compiled returns.
Resume == asked' = Nothing /\ code' = Nothing /\ done' = Nothing

Next ==
    \/ asked = Nothing /\ \E menu \in Menus : AskOne(menu) \/ AskConvert(menu) \/ AskTwo(menu)
    \/ asked # Nothing /\ done = Nothing /\ (Operate \/ \E i \in DOMAIN code.operands : Convert(i))
    \/ done # Nothing /\ Resume

Spec == Init /\ [][Next]_vars

-----------------------------------------------------------------------------
(* What the calls promise.                                                 *)

Answered(calls) == done.call \in calls
OK == done.code = "OK"

\* n is what the type keeps of an integer.
Keeping(n, type) == done.result \in Values(type) /\ (done.result - n) % type.size = 0

\* A conversion rounds to the nearest float or to the integer towards zero and
\* keeps the low bits of what is too large; with overflow checking it answers
\* the integer itself or throws, whether the compiler converts a constant or
\* the code converts at run time ("Convert the contents of a value into a new
\* type, with optional overflow checking", jit-insn.c:4242). A fraction between
\* -1 and 0 is too small for uint and ulong alone, and a float that is near no
\* value of the first integer type on its way may become anything.
ConversionsExact ==
    Answered({"convert"}) =>
        LET from  == asked.types[1]
            to    == asked.to
            value == asked.values[1]
            special == from \in Floats /\ ~Finite(value)
            quarters == IF from \in Floats THEN value[1] ELSE 4 * value
            whole    == IF from \in Floats THEN Whole(value) ELSE value
            first    == IF to \in Narrow THEN "int" ELSE to
            fraction == from \in Floats /\ to \in {"uint", "ulong"} /\ quarters \in -3 .. -1
        IN CASE to \in Floats ->
                  /\ OK
                  /\ IF special THEN done.result = value
                     ELSE /\ done.result[1] % Keeps[to] = 0
                          /\ 2 * Size(done.result[1] - quarters) <= Keeps[to]
             [] to \notin Floats /\ asked.check ->
                  /\ OK <=> ~special /\ whole \in Values(Integral[to]) /\ ~fraction
                  /\ OK => done.result = whole
             [] to \notin Floats /\ ~asked.check ->
                  /\ OK
                  /\ \/ ~special /\ Keeping(whole, Integral[to])
                     \/ /\ special \/ (from \in Floats /\ whole \notin Values(Integral[first]))
                        /\ done.result \in Values(Integral[to])

\* Bit i of a number, from the lowest.
Bit(n, i) == (n \div 2 ^ i) % 2

\* The calls answer the exact result, cut to the type that both operands are
\* converted to; those that check for overflow throw exactly when an operand or
\* the result is no value of it ("Throw an exception if overflow occurs",
\* jit-insn.c:1943), and a division throws as jit-insn.c:2081-2083 says. Constants
\* that are folded and operands that are converted by the code agree.
ArithmeticExact ==
    Answered(Arithmetics \cup Bits \cup Shifts \cup {"neg", "not", "abs"})
        /\ asked.types[1] \notin Floats =>
        LET call == asked.call
            type == Integral[Coerced(call, asked.types, asked.to)[1]]
            x == asked.values[1]
            y == Last(asked.values)
            a == To(x, type)
            b == To(y, type)
            width == CHOOSE bits \in 1 .. type.size : 2 ^ bits = type.size
            power == 2 ^ ((y % Word) % width)
            exact == CASE call \in {"add", "add_ovf"} -> x + y
                       [] call \in {"sub", "sub_ovf"} -> x - y
                       [] call \in {"mul", "mul_ovf"} -> x * y
                       [] call = "shl" -> x * power
                       [] call = "neg" -> -x
                       [] call = "not" -> -x - 1
                       [] call = "abs" -> Size(x)
            sees(n)  == CASE call = "shr"  -> To(n, type)
                          [] call = "ushr" -> ToUnsigned(n, type.size)
                          [] call = "sshr" -> ToSigned(n, type.size)
        IN CASE call \in Checking ->
                  /\ OK <=> {x, y, exact} \subseteq Values(type)
                  /\ OK => done.result = exact
             [] call \in {"div", "rem"} ->
                  /\ done.code = "DIVISION_BY_ZERO" <=> b = 0
                  /\ done.code = "ARITHMETIC" <=> b = -1 /\ -a \notin Values(type)
                  /\ OK => Leaves(a, b, IF call = "div" THEN a - done.result * b ELSE done.result)
             [] call \in Bits ->
                  OK /\ \A i \in 0 .. width - 1 :
                      LET both == <<Bit(x, i), Bit(y, i)>>
                      IN Bit(done.result, i) = 1 <=>
                           \/ call = "and" /\ both = <<1, 1>>
                           \/ call = "or"  /\ both # <<0, 0>>
                           \/ call = "xor" /\ both[1] # both[2]
             [] call \in Shifts \ {"shl"} ->
                  OK /\ sees(done.result) * power \in sees(x) - power + 1 .. sees(x)
             [] OTHER -> OK /\ Keeping(exact, type)

\* What a value is in the common type of a comparison, in quarters, and how two
\* of them compare: not at all if one is not a number.
Seen(i) ==
    LET type  == Coerced(asked.call, asked.types, asked.to)[1]
        value == asked.values[i]
    IN IF type \notin Floats THEN <<4 * To(value, Integral[type])>>
       ELSE Rounded(IF asked.types[i] \in Floats THEN value ELSE <<4 * value>>, type)
Order == LET x == Seen(1)
             y == Seen(Len(asked.values))
         IN CASE NaN \in {x, y} -> {}
              [] NaN \notin {x, y} /\ x[1] < y[1] -> {-1}
              [] NaN \notin {x, y} /\ x[1] = y[1] -> {0}
              [] NaN \notin {x, y} /\ x[1] > y[1] -> {1}

\* Whatever tests follow a value, each at once or when other instructions came
\* between, the answer is the truth of the value turned round once for every
\* jit_insn_to_not_bool and jit_insn_branch_if_not: the branch on a comparison
\* with "not a number" is the opposite of the inverted one, and constants are
\* decided as the code would (jit_insn_to_bool, "i.e. the inverse of
\* jit_insn_to_bool", jit-insn.c:2754, jit_insn_branch_if).
TestsAgree ==
    LET tested == {i \in DOMAIN asked.tests : asked.tests[i] # "others"}
        turns  == {i \in tested : asked.tests[i] \in {"to_not_bool", "branch_if_not"}}
        holds  == CASE asked.call = "EQ" -> Order = {0}
                    [] asked.call = "NE" -> Order # {0}
                    [] asked.call = "LT" -> Order = {-1}
                    [] asked.call = "LE" -> Order \in {{-1}, {0}}
                    [] asked.call = "GT" -> Order = {1}
                    [] asked.call = "GE" -> Order \in {{0}, {1}}
                    [] asked.call = "value" -> Seen(1) # <<0>>
    IN Answered(Comparisons \cup {"value"}) /\ (tested # {} \/ asked.call # "value") =>
           OK /\ done.result = Truth(holds = (Cardinality(turns) % 2 = 0))

\* The three-way comparisons, the least and the greatest agree with the order of
\* the numbers, and what is not a number comes out on the side that was asked
\* for ("If either value is "not a number", then -1 is returned",
\* jit-insn.c:2623); but the interpreter compares native floats as float64.
OrderAgrees ==
    /\ Answered({"cmpl", "cmpg"}) /\ (code.type = "nfloat" => code.intrinsic) =>
           {done.result} = IF Order # {} THEN Order
                           ELSE IF asked.call = "cmpl" THEN {-1} ELSE {1}
    /\ Answered({"min", "max"}) =>
           LET result == IF done.type \in Floats THEN done.result ELSE <<4 * done.result>>
           IN result = CASE Order = {} -> NaN
                         [] Order = {IF asked.call = "min" THEN 1 ELSE -1} -> Seen(2)
                         [] OTHER -> Seen(1)

\* The sign of a value is -1, 0 or 1 as it is below, at or above zero
\* ("Calculate the absolute value, minimum, maximum, or sign of the specified
\* values", jit-insn.c:3319).
SignIsSign ==
    Answered({"sign"}) /\ asked.tests = <<>> =>
        LET value == Seen(1)
        IN done.result = IF value = NaN \/ value = <<0>> THEN 0
                         ELSE IF value[1] < 0 THEN -1 ELSE 1
=============================================================================
