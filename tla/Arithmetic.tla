----------------------------- MODULE Arithmetic -----------------------------
(***************************************************************************)
(* The integer types and the functions of jit-intrinsic.c that may report  *)
(* an exception: arithmetic with overflow checking, division and           *)
(* remainder, conversions with overflow detection.                         *)
(***************************************************************************)
EXTENDS Integers


CONSTANTS Byte, Short,  \* How many values a byte and a short have: 2^8, 2^16.
          Word,         \* How many values an int has: 2^32.
          Wraps         \* Signed overflow wraps, as it does when the library is
                        \* built without optimization or with -fwrapv.

ASSUME IntrinsicsAssumption ==
    /\ \A size \in {Byte, Short, Word} : size \in Nat /\ size >= 2 /\ size % 2 = 0
    /\ Byte <= Short /\ Short <= Word
    /\ Wraps \in BOOLEAN

-----------------------------------------------------------------------------
(* Types.                                                                  *)

Long == Word * Word   \* A long has the values of two words.

Signed(size)   == -(size \div 2) .. (size \div 2 - 1)
Unsigned(size) == 0 .. (size - 1)

\* A conversion to a type keeps the low bits.
ToUnsigned(n, size) == n % size
ToSigned(n, size)   == LET low == n % size
                       IN IF low < size \div 2 THEN low ELSE low - size

Type == [size : {Byte, Short, Word, Long}, signed : BOOLEAN]
Values(type)  == IF type.signed THEN Signed(type.size) ELSE Unsigned(type.size)
To(n, type)   == IF type.signed THEN ToSigned(n, type.size) ELSE ToUnsigned(n, type.size)

IntT   == [size |-> Word, signed |-> TRUE]
UIntT  == [size |-> Word, signed |-> FALSE]
LongT  == [size |-> Long, signed |-> TRUE]
ULongT == [size |-> Long, signed |-> FALSE]

\* What a signed result compares as: a compiler may take it that signed
\* arithmetic does not overflow.
Compares(n, size) == {ToSigned(n, size)} \cup (IF Wraps THEN {} ELSE {n})

-----------------------------------------------------------------------------
(* JIT_RESULT_OK and the built-in exceptions.                              *)

Checked(ok, result) == [code |-> IF ok THEN "OK" ELSE "OVERFLOW", result |-> result]
Failed(code) == [code |-> code, result |-> 0]

\* jit_int_add_ovf, jit_long_add_ovf; sum is what value1 + value2 compares as.
AddFits(value1, value2, sum) ==
    IF value1 >= 0 /\ value2 >= 0 THEN sum >= value1
    ELSE value1 < 0 /\ value2 < 0 => sum < value1

\* jit_int_sub_ovf, jit_long_sub_ovf.
SubFits(value1, value2, difference) ==
    IF (value1 >= 0) = (value2 >= 0) THEN TRUE
    ELSE IF value1 < 0 THEN difference <= value1 ELSE difference >= value1

\* jit_int_add_ovf, jit_uint_add_ovf, jit_long_add_ovf, jit_ulong_add_ovf.
Additions(type, value1, value2) ==
    {Checked(IF type.signed THEN AddFits(value1, value2, sum) ELSE sum >= value1,
             To(value1 + value2, type)) :
        sum \in IF type.signed THEN Compares(value1 + value2, type.size)
                ELSE {ToUnsigned(value1 + value2, type.size)}}

\* jit_int_sub_ovf, jit_uint_sub_ovf, jit_long_sub_ovf, jit_ulong_sub_ovf.
Subtractions(type, value1, value2) ==
    {Checked(IF type.signed THEN SubFits(value1, value2, difference) ELSE difference <= value1,
             To(value1 - value2, type)) :
        difference \in IF type.signed THEN Compares(value1 - value2, type.size)
                       ELSE {ToUnsigned(value1 - value2, type.size)}}

\* jit_int_mul_ovf and jit_uint_mul_ovf multiply as longs.
IntMul(value1, value2) ==
    LET temp == ToSigned(value1 * value2, Long)
    IN Checked(temp \in Signed(Word), ToSigned(temp, Word))

UIntMul(value1, value2) ==
    LET temp == ToUnsigned(value1 * value2, Long)
    IN Checked(temp <= Word - 1, ToUnsigned(temp, Word))

\* Adding the low word of a product to a word; the high word and the carry.
Low(n)         == n % Word
High(n)        == n \div Word
Sum(word, n)   == (word + Low(n)) % Word
Carry(word, n) == IF Sum(word, n) < word THEN 1 ELSE 0

\* A mutant of ULongMul: the carry into the third column is lost.
ULongMul_LostCarry(value1, value2) ==
    LET temp1 == Low(value1) * Low(value2)
        temp2 == Low(value1) * High(value2)
        temp3 == High(value1) * Low(value2)
        temp4 == High(value1) * High(value2)
        second  == Sum(High(temp1), temp2)
        result2 == Sum(second, temp3)
        middle  == (High(temp2) + High(temp3)) % Word
    IN IF temp4 # 0 \/ middle # 0 THEN Checked(FALSE, Long - 1)
       ELSE Checked(TRUE, result2 * Word + Low(temp1))

\* jit_ulong_mul_ovf multiplies words and adds the products with their carries.
ULongMul(value1, value2) ==
    LET low1  == Low(value1)
        low2  == Low(value2)
        high1 == High(value1)
        high2 == High(value2)
        temp1 == low1 * low2
        temp2 == low1 * high2
        temp3 == high1 * low2
        temp4 == high1 * high2
        second  == Sum(High(temp1), temp2)
        third   == (High(temp2) + Carry(High(temp1), temp2)) % Word
        result2 == Sum(second, temp3)
        added   == High(temp3) + Carry(second, temp3)
        middle  == (third + added) % Word
        fourth  == IF middle < third THEN 1 ELSE 0
        result3 == Sum(middle, temp4)
        result4 == (fourth + High(temp4) + Carry(middle, temp4)) % Word
    IN IF result3 # 0 \/ result4 # 0 THEN Checked(FALSE, Long - 1)
       ELSE Checked(TRUE, result2 * Word + Low(temp1))

\* jit_long_mul_ovf multiplies magnitudes.
Magnitude(value) == ToUnsigned(IF value >= 0 THEN value ELSE -value, Long)

LongMul(value1, value2) ==
    LET same == (value1 >= 0) = (value2 >= 0)
        temp == ULongMul(Magnitude(value1), Magnitude(value2))
        most == IF same THEN Long \div 2 - 1 ELSE Long \div 2
    IN IF temp.code # "OK" \/ temp.result > most
       THEN Checked(FALSE, IF same THEN Long \div 2 - 1 ELSE -(Long \div 2))
       ELSE Checked(TRUE, ToSigned(IF same THEN temp.result ELSE -temp.result, Long))

Multiply(type, value1, value2) ==
    CASE type = IntT   -> IntMul(value1, value2)
      [] type = UIntT  -> UIntMul(value1, value2)
      [] type = LongT  -> LongMul(value1, value2)
      [] type = ULongT -> ULongMul(value1, value2)

\* Division truncates; the remainder has the sign of the dividend.
Size(value)           == IF value >= 0 THEN value ELSE -value
Quotient(value1, value2) ==
    LET quotient == Size(value1) \div Size(value2)
    IN IF (value1 >= 0) = (value2 >= 0) THEN quotient ELSE -quotient
Remainder(value1, value2) == value1 - value2 * Quotient(value1, value2)

\* r is what a leaves when it is divided by b the way C does.
Leaves(a, b, r) ==
    /\ (a - r) % Size(b) = 0
    /\ Size(r) < Size(b)
    /\ r = 0 \/ (r > 0) = (a > 0)

\* A mutant of Divide: the least value may be divided by -1.
Divide_Least(type, value1, value2, result) ==
    IF value2 = 0 THEN Failed("DIVISION_BY_ZERO") ELSE Checked(TRUE, To(result, type))

\* jit_int_div, jit_uint_div and the rest.
Divide(type, value1, value2, result) ==
    IF value2 = 0 THEN Failed("DIVISION_BY_ZERO")
    ELSE IF type.signed /\ value2 = -1 /\ value1 = -(type.size \div 2) THEN Failed("ARITHMETIC")
    ELSE Checked(TRUE, To(result, type))

\* What the conversions jit_..._to_..._ovf test.
ConversionFits(from, to, value, result) ==
    IF to.size < Word \/ (from = LongT /\ to.size = Word) THEN result = value
    ELSE IF from = ULongT /\ to.size = Word THEN value <= (IF to.signed THEN Word \div 2 - 1
                                                                        ELSE Word - 1)
    ELSE IF from.signed /\ ~to.signed THEN value >= 0
    ELSE IF ~from.signed /\ to.signed /\ from.size = to.size THEN result >= 0
    ELSE TRUE

\* The conversions there are: among int, uint, long and ulong, and from int to
\* the narrow types.
Wide == {IntT, UIntT, LongT, ULongT}
Convertible(from) == IF from = IntT THEN Type ELSE Wide
=============================================================================
