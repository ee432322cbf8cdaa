----------------------------- MODULE Intrinsics -----------------------------
(***************************************************************************)
(* The integer operations of jit-intrinsic.c that report an exception, as  *)
(* they are called: generated code, the interpreter and constant folding   *)
(* call them and throw what they report.                                   *)
(***************************************************************************)
EXTENDS Arithmetic

VARIABLE answer   \* The last call and what it returned and stored.

-----------------------------------------------------------------------------
None == [call |-> "none"]

Answers(call, type, value1, value2, outcome) ==
    answer' = [call |-> call, type |-> type, value1 |-> value1, value2 |-> value2,
               code |-> outcome.code, result |-> outcome.result]

AddOvf(type, value1, value2) ==
    \E outcome \in Additions(type, value1, value2) :
        Answers("add", type, value1, value2, outcome)

SubOvf(type, value1, value2) ==
    \E outcome \in Subtractions(type, value1, value2) :
        Answers("sub", type, value1, value2, outcome)

MulOvf(type, value1, value2) ==
    Answers("mul", type, value1, value2, Multiply(type, value1, value2))

Div(type, value1, value2) ==
    Answers("div", type, value1, value2,
            Divide(type, value1, value2, Quotient(value1, value2)))

Rem(type, value1, value2) ==
    Answers("rem", type, value1, value2,
            Divide(type, value1, value2, Remainder(value1, value2)))

ConvertOvf(from, to, value) ==
    Answers("convert", to, value, value,
            Checked(ConversionFits(from, to, value, To(value, to)), To(value, to)))

Init == answer = None

\* The caller goes on with what it was told.
Resume == answer # None /\ answer' = None

Call ==
    \/ \E type \in Wide : \E value1 \in Values(type), value2 \in Values(type) :
           \/ AddOvf(type, value1, value2)
           \/ SubOvf(type, value1, value2)
           \/ MulOvf(type, value1, value2)
           \/ Div(type, value1, value2)
           \/ Rem(type, value1, value2)
    \/ \E from \in Wide : \E to \in Convertible(from), value \in Values(from) :
           ConvertOvf(from, to, value)

Next == (answer = None /\ Call) \/ Resume

Spec == Init /\ [][Next]_answer

-----------------------------------------------------------------------------
Answered(calls) == answer.call \in calls

\* Whatever is reported, what is stored is a value of the result's type: code
\* that goes on after an exception finds no value that its type cannot hold
\* (jit_..._ovf store to *result before the caller looks at the code).
TypeOK == answer # None => answer.result \in Values(answer.type)

\* The exact result, computed without bounds.
Exact == CASE answer.call = "add" -> answer.value1 + answer.value2
           [] answer.call = "sub" -> answer.value1 - answer.value2
           [] answer.call = "mul" -> answer.value1 * answer.value2
           [] answer.call = "convert" -> answer.value1

\* C leaves open what a signed sum or difference compares as when it is no value
\* of its type (jit_int_add_ovf, jit_int_sub_ovf and those of long look for
\* overflow in it), and a build that uses that may miss the overflow.
LeftOpen == ~Wraps /\ answer.type.signed /\ Answered({"add", "sub"})

\* In every build, the operations of the jit_..._ovf family answer OK and store
\* the exact result when that is a value of the type.  When it is none they
\* report overflow: all of them, but for the signed sums and differences that C
\* leaves open.
OverflowIsReported ==
    Answered({"add", "sub", "mul", "convert"}) =>
        /\ Exact \in Values(answer.type) => answer.code = "OK" /\ answer.result = Exact
        /\ Exact \notin Values(answer.type) => answer.code # "OK" \/ LeftOpen

\* What jit-intrinsic.c:115 promises: "with overflow checking.  Returns
\* JIT_RESULT_OK or JIT_RESULT_OVERFLOW".  It is the same where signed arithmetic
\* wraps, and not so elsewhere (README).
OverflowPromised ==
    Answered({"add", "sub", "mul", "convert"}) =>
        /\ answer.code = "OK" <=> Exact \in Values(answer.type)
        /\ answer.code = "OK" => answer.result = Exact

\* A division by zero is reported, a quotient that is no value of the type is
\* an arithmetic exception, and all other quotients and remainders are those of
\* the truncating division (jit_int_div ... jit_ulong_rem).
DivisionIsExact ==
    Answered({"div", "rem"}) =>
        LET a == answer.value1
            b == answer.value2
        IN CASE answer.code = "DIVISION_BY_ZERO" -> b = 0
             [] answer.code = "ARITHMETIC" -> b # 0 /\ -a \notin Values(answer.type) /\ b = -1
             [] answer.code = "OK" ->
                  /\ b # 0
                  /\ Leaves(a, b, IF answer.call = "div" THEN a - answer.result * b
                                  ELSE answer.result)
=============================================================================
