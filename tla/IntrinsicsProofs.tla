-------------------------- MODULE IntrinsicsProofs --------------------------
(***************************************************************************)
(* The integer operations are exact for every even word size, the          *)
(* multiplication of longs by its four products of words included.         *)
(***************************************************************************)
EXTENDS Intrinsics, TLAPS

-----------------------------------------------------------------------------
(* Words.                                                                  *)

\* Division by a positive number leaves a remainder below it.
LEMMA Divided ==
    ASSUME NEW n \in Int, NEW d \in Nat, d > 0
    PROVE  /\ n \div d \in Int /\ n % d \in 0..(d - 1)
           /\ n = d * (n \div d) + (n % d)
    OBVIOUS

\* The quotient and the remainder are the only numbers that divide so.
LEMMA DividedOnce ==
    ASSUME NEW d \in Nat, d > 0, NEW q \in Int, NEW r \in 0..(d - 1)
    PROVE  /\ (d * q + r) \div d = q /\ (d * q + r) % d = r
  <1> DEFINE n == d * q + r
             p == n \div d
             s == n % d
  <1>1. n \in Int /\ p \in Int /\ s \in 0..(d - 1) /\ n = d * p + s
    BY Divided
  <1> HIDE DEF n, p, s
  <1>2. d * q + r = d * p + s
    BY <1>1 DEF n
  <1>3. CASE p < q
    <2>1. d * (q - p) >= d
      BY <1>1, <1>3, SMTT(30)
    <2>2. d * (q - p) = s - r
      BY <1>1, <1>2, SMTT(30)
    <2> QED  BY <1>1, <2>1, <2>2
  <1>4. CASE p > q
    <2>1. d * (p - q) >= d
      BY <1>1, <1>4, SMTT(30)
    <2>2. d * (p - q) = r - s
      BY <1>1, <1>2, SMTT(30)
    <2> QED  BY <1>1, <2>1, <2>2
  <1>5. CASE p = q
    BY <1>1, <1>2, <1>5 DEF n, p, s
  <1> QED  BY <1>1, <1>3, <1>4, <1>5

\* The constants are positive, and so is the size of a long.
LEMMA Sizes == Word \in Nat /\ Word >= 2 /\ Word % 2 = 0 /\ Long \in Nat /\ Long > 0
  <1>1. Word \in Nat /\ Word >= 2 /\ Word % 2 = 0
    BY IntrinsicsAssumption
  <1>2. Word * Word > 0
    BY <1>1, SMTT(30)
  <1> QED  BY <1>1, <1>2 DEF Long

\* A word plus the low word of a product is a word and a carry.
LEMMA Column ==
    ASSUME NEW word \in 0..(Word - 1), NEW n \in Nat
    PROVE  /\ Sum(word, n) \in 0..(Word - 1) /\ Carry(word, n) \in {0, 1}
           /\ Sum(word, n) + Word * Carry(word, n) = word + Low(n)
  <1> DEFINE total == word + Low(n)
  <1>1. Low(n) \in 0..(Word - 1)
    BY Sizes, Divided DEF Low
  <1>2. CASE total < Word
    <2>1. Sum(word, n) = total
      <3>1. (Word * 0 + total) % Word = total
        BY <1>1, <1>2, Sizes, DividedOnce, 0 \in Int, total \in 0..(Word - 1)
      <3> QED  BY <3>1, <1>1, Sizes DEF Sum
    <2> QED  BY <2>1, <1>1, <1>2, Sizes DEF Carry
  <1>3. CASE total >= Word
    <2>1. Sum(word, n) = total - Word
      <3>1. total - Word \in 0..(Word - 1)
        BY <1>1, <1>3, Sizes
      <3>2. (Word * 1 + (total - Word)) % Word = total - Word
        BY <3>1, Sizes, DividedOnce, 1 \in Int
      <3> QED  BY <3>2, <1>1, Sizes DEF Sum
    <2> QED  BY <2>1, <1>1, <1>3, Sizes DEF Carry
  <1> QED  BY <1>1, <1>2, <1>3, Sizes

\* The product of two words: its high word is not the greatest.
LEMMA WordProduct ==
    ASSUME NEW x \in 0..(Word - 1), NEW y \in 0..(Word - 1)
    PROVE  /\ x * y \in Nat /\ Low(x * y) \in 0..(Word - 1) /\ High(x * y) \in 0..(Word - 2)
           /\ x * y = Word * High(x * y) + Low(x * y)
  <1> DEFINE n == x * y
  <1>1. n \in Nat /\ n <= (Word - 1) * (Word - 1)
    <2>1. x * y >= 0 /\ x * y <= x * (Word - 1)
      BY Sizes, SMTT(30)
    <2>2. x * (Word - 1) <= (Word - 1) * (Word - 1)
      BY Sizes, SMTT(30)
    <2> QED  BY <2>1, <2>2, Sizes
  <1>2. /\ High(n) \in Int /\ Low(n) \in 0..(Word - 1)
        /\ n = Word * High(n) + Low(n)
    BY <1>1, Sizes, Divided DEF High, Low
  <1> HIDE DEF n
  <1>3. High(n) >= 0
    <2> SUFFICES ASSUME High(n) <= -1 PROVE FALSE
      BY <1>2
    <2>1. Word * High(n) <= -Word
      BY <1>2, Sizes, SMTT(30)
    <2> QED  BY <2>1, <1>1, <1>2, Sizes
  <1>4. High(n) <= Word - 2
    <2> SUFFICES ASSUME High(n) >= Word - 1 PROVE FALSE
      BY <1>2, Sizes
    <2>1. Word * High(n) >= Word * (Word - 1)
      BY <1>2, Sizes, SMTT(30)
    <2>2. Word * (Word - 1) = (Word - 1) * (Word - 1) + (Word - 1)
      BY Sizes, SMTT(30)
    <2> QED  BY <2>1, <2>2, <1>1, <1>2, Sizes
  <1> QED  BY <1>1, <1>2, <1>3, <1>4, Sizes DEF n

\* The four columns hold the product; numbers in the third or fourth mean that
\* it needs more than two words.
LEMMA Columns ==
    ASSUME NEW low \in 0..(Word - 1), NEW second \in 0..(Word - 1),
           NEW third \in 0..(Word - 1), NEW fourth \in Nat, NEW product \in Nat,
           product = low + Word * second + Long * third + Long * (Word * fourth),
           product < Long * Long
    PROVE  /\ fourth < Word
           /\ third = 0 /\ fourth = 0 => product = second * Word + low /\ product < Long
           /\ third # 0 \/ fourth # 0 => product >= Long
  <1>1. Word * second + low < Long /\ Word * second + low >= 0
    <2>1. Word * second <= Word * (Word - 1)
      BY Sizes, SMTT(30)
    <2>2. Word * (Word - 1) = Long - Word
      BY Sizes, SMTT(30) DEF Long
    <2>3. Word * second >= 0
      BY Sizes, SMTT(30)
    <2> QED  BY <2>1, <2>2, <2>3, Sizes
  <1>2. Long * third >= 0 /\ (third # 0 => Long * third >= Long)
    BY Sizes, SMTT(30)
  <1>3. Long * (Word * fourth) >= 0 /\ (fourth # 0 => Long * (Word * fourth) >= Long)
    <2>1. Word * fourth >= 0 /\ (fourth # 0 => Word * fourth >= 1)
      BY Sizes, SMTT(30)
    <2> DEFINE n == Word * fourth
    <2>2. n \in Int
      BY Sizes
    <2> HIDE DEF n
    <2>3. n >= 0 => Long * n >= 0
      BY <2>2, Sizes, SMTT(30)
    <2>4. n >= 1 => Long * n >= Long
      BY <2>2, Sizes, SMTT(30)
    <2> QED  BY <2>1, <2>3, <2>4 DEF n
  <1>4. fourth < Word
    <2> SUFFICES ASSUME fourth >= Word PROVE FALSE
      BY Sizes
    <2>1. Word * fourth >= Long
      BY Sizes, SMTT(30) DEF Long
    <2> DEFINE n == Word * fourth
    <2>2. n \in Int
      BY Sizes
    <2> HIDE DEF n
    <2>3. n >= Long => Long * n >= Long * Long
      BY <2>2, Sizes, SMTT(30)
    <2>4. Long * (Word * fourth) >= Long * Long
      BY <2>1, <2>3 DEF n
    <2> QED  BY <2>4, <1>1, <1>2, Sizes
  <1>5. third = 0 /\ fourth = 0 => product = second * Word + low
    BY Sizes
  <1>6. third # 0 \/ fourth # 0 => product >= Long
    BY <1>1, <1>2, <1>3, Sizes
  <1> QED  BY <1>1, <1>4, <1>5, <1>6, Sizes

\* An unsigned long is two words.
LEMMA TwoWords ==
    ASSUME NEW n \in 0..(Long - 1)
    PROVE  /\ High(n) \in 0..(Word - 1) /\ Low(n) \in 0..(Word - 1)
           /\ n = Word * High(n) + Low(n)
  <1>1. High(n) \in Int /\ Low(n) \in 0..(Word - 1) /\ n = Word * High(n) + Low(n)
    BY Sizes, Divided DEF High, Low
  <1>2. High(n) >= 0
    <2> SUFFICES ASSUME High(n) <= -1 PROVE FALSE
      BY <1>1
    <2>1. Word * High(n) <= -Word
      BY <1>1, Sizes, SMTT(30)
    <2> QED  BY <2>1, <1>1, Sizes
  <1>3. High(n) <= Word - 1
    <2> SUFFICES ASSUME High(n) >= Word PROVE FALSE
      BY <1>1, Sizes
    <2>1. Word * High(n) >= Long
      BY <1>1, Sizes, SMTT(30) DEF Long
    <2> QED  BY <2>1, <1>1, Sizes
  <1> QED  BY <1>1, <1>2, <1>3, Sizes

\* The columns, with their carries, add up to the four products.
LEMMA Regrouped ==
    ASSUME NEW h1 \in Int, NEW h2 \in Int, NEW h3 \in Int, NEW h4 \in Int,
           NEW l1 \in Int, NEW l2 \in Int, NEW l3 \in Int, NEW l4 \in Int,
           NEW c1 \in Int, NEW c2 \in Int, NEW c3 \in Int, NEW c4 \in Int,
           NEW second \in Int, NEW third \in Int, NEW middle \in Int,
           NEW r2 \in Int, NEW r3 \in Int, NEW r4 \in Int,
           second + Word * c1 = h1 + l2, third = h2 + c1, r2 + Word * c2 = second + l3,
           middle + Word * c3 = third + h3 + c2, r3 + Word * c4 = middle + l4,
           r4 = c3 + h4 + c4
    PROVE  l1 + Word * r2 + Long * r3 + Long * (Word * r4)
             = (Word * h1 + l1) + Word * (Word * h2 + l2) + Word * (Word * h3 + l3)
                 + Long * (Word * h4 + l4)
  <1>1. Word * r2 = Word * h1 + Word * l2 + Word * l3 - Long * c1 - Long * c2
    <2>1. r2 = h1 + l2 + l3 - Word * c1 - Word * c2
      BY Sizes
    <2>2. Word * (h1 + l2 + l3 - Word * c1 - Word * c2)
            = Word * h1 + Word * l2 + Word * l3 - (Word * Word) * c1 - (Word * Word) * c2
      BY Sizes, SMTT(30)
    <2> QED  BY <2>1, <2>2 DEF Long
  <1>2. Long * r3 = Long * h2 + Long * h3 + Long * l4 + Long * c1 + Long * c2
                      - Long * (Word * c3) - Long * (Word * c4)
    <2>1. r3 = h2 + h3 + l4 + c1 + c2 - Word * c3 - Word * c4
      BY Sizes
    <2>2. Long * (h2 + h3 + l4 + c1 + c2 - Word * c3 - Word * c4)
            = Long * h2 + Long * h3 + Long * l4 + Long * c1 + Long * c2
                - Long * (Word * c3) - Long * (Word * c4)
      BY Sizes, SMTT(30)
    <2> QED  BY <2>1, <2>2
  <1>3. Long * (Word * r4) = Long * (Word * c3) + Long * (Word * h4) + Long * (Word * c4)
    BY Sizes, SMTT(30)
  <1>4. /\ Word * (Word * h2 + l2) = Long * h2 + Word * l2
        /\ Word * (Word * h3 + l3) = Long * h3 + Word * l3
    BY Sizes, SMTT(30) DEF Long
  <1>5. Long * (Word * h4 + l4) = Long * (Word * h4) + Long * l4
    BY Sizes, SMTT(30)
  <1> QED  BY <1>1, <1>2, <1>3, <1>4, <1>5, Sizes

\* jit_ulong_mul_ovf: the word products and their carries give the product, or
\* tell that it is no unsigned long.
THEOREM ULongMulExact ==
    ASSUME NEW value1 \in 0..(Long - 1), NEW value2 \in 0..(Long - 1)
    PROVE  ULongMul(value1, value2) =
               IF value1 * value2 < Long THEN Checked(TRUE, value1 * value2)
               ELSE Checked(FALSE, Long - 1)
  <1> DEFINE low1  == Low(value1)
             low2  == Low(value2)
             high1 == High(value1)
             high2 == High(value2)
             temp1 == low1 * low2
             temp2 == low1 * high2
             temp3 == high1 * low2
             temp4 == high1 * high2
             second  == Sum(High(temp1), temp2)
             third   == (High(temp2) + Carry(High(temp1), temp2)) % Word
             result2 == Sum(second, temp3)
             added   == High(temp3) + Carry(second, temp3)
             middle  == (third + added) % Word
             fourth  == IF middle < third THEN 1 ELSE 0
             result3 == Sum(middle, temp4)
             top     == fourth + High(temp4) + Carry(middle, temp4)
             product == value1 * value2
  <1>1. /\ high1 \in 0..(Word - 1) /\ low1 \in 0..(Word - 1) /\ value1 = Word * high1 + low1
        /\ high2 \in 0..(Word - 1) /\ low2 \in 0..(Word - 1) /\ value2 = Word * high2 + low2
    BY TwoWords
  <1> HIDE DEF low1, low2, high1, high2
  <1>2. /\ temp1 \in Nat /\ temp2 \in Nat /\ temp3 \in Nat /\ temp4 \in Nat
        /\ \A t \in {temp1, temp2, temp3, temp4} :
               /\ Low(t) \in 0..(Word - 1) /\ High(t) \in 0..(Word - 2)
               /\ t = Word * High(t) + Low(t)
    BY <1>1, WordProduct
  <1>3. product = temp1 + Word * temp2 + Word * temp3 + Long * temp4
    <2>1. (Word * high1 + low1) * (Word * high2 + low2)
            = low1 * low2 + Word * (low1 * high2) + Word * (high1 * low2)
                + (Word * Word) * (high1 * high2)
      BY <1>1, Sizes, SMTT(30)
    <2> QED  BY <2>1, <1>1 DEF Long
  <1>4. product \in Nat /\ product < Long * Long
    <2>1. value1 * value2 >= 0 /\ value1 * value2 <= value1 * Long
      BY Sizes, SMTT(30)
    <2>2. value1 * Long <= (Long - 1) * Long
      BY Sizes, SMTT(30)
    <2>3. (Long - 1) * Long < Long * Long
      BY Sizes, SMTT(30)
    <2> QED  BY <2>1, <2>2, <2>3, Sizes
  <1> HIDE DEF temp1, temp2, temp3, temp4, product
  <1> DEFINE carry1 == Carry(High(temp1), temp2)
             carry2 == Carry(second, temp3)
             carry4 == Carry(middle, temp4)
  <1>5. /\ second \in 0..(Word - 1) /\ carry1 \in {0, 1}
        /\ second + Word * carry1 = High(temp1) + Low(temp2)
    BY <1>2, Column, Sizes
  <1>6. third = High(temp2) + carry1 /\ third \in 0..(Word - 1)
    <2>1. High(temp2) + carry1 \in 0..(Word - 1)
      BY <1>2, <1>5, Sizes
    <2>2. (Word * 0 + (High(temp2) + carry1)) % Word = High(temp2) + carry1
      BY <2>1, Sizes, DividedOnce, 0 \in Int
    <2> QED  BY <2>1, <2>2, Sizes
  <1> HIDE DEF second, carry1
  <1>7. /\ result2 \in 0..(Word - 1) /\ carry2 \in {0, 1}
        /\ result2 + Word * carry2 = second + Low(temp3)
    BY <1>2, <1>5, Column
  <1> HIDE DEF third, result2, carry2
  <1>8. /\ middle \in 0..(Word - 1) /\ fourth \in {0, 1}
        /\ middle + Word * fourth = third + High(temp3) + carry2
    <2>1. added = High(temp3) + carry2 /\ added \in 0..(Word - 1)
      BY <1>2, <1>7, Sizes DEF carry2
    <2>2. Low(added) = added
      <3>1. (Word * 0 + added) % Word = added
        BY <2>1, Sizes, DividedOnce, 0 \in Int
      <3> QED  BY <3>1, <2>1, Sizes DEF Low
    <2>3. middle = Sum(third, added) /\ fourth = Carry(third, added)
      BY <2>2 DEF Sum, Carry
    <2> HIDE DEF middle, fourth, added
    <2>4. /\ Sum(third, added) \in 0..(Word - 1) /\ Carry(third, added) \in {0, 1}
          /\ Sum(third, added) + Word * Carry(third, added) = third + Low(added)
      BY <2>1, <1>6, Column
    <2>5. third + Low(added) = third + High(temp3) + carry2
      BY <2>1, <2>2, <1>2, <1>6, <1>7, Sizes
    <2> QED  BY <2>3, <2>4, <2>5
  <1> HIDE DEF middle, fourth
  <1>9. /\ result3 \in 0..(Word - 1) /\ carry4 \in {0, 1}
        /\ result3 + Word * carry4 = middle + Low(temp4)
    BY <1>2, <1>8, Column
  <1>10. top = fourth + High(temp4) + carry4 /\ top \in Nat
    BY <1>2, <1>8, <1>9, Sizes
  <1> HIDE DEF result3, carry4, top
  <1>11. product = Low(temp1) + Word * result2 + Long * result3 + Long * (Word * top)
    <2>1. /\ \A t \in {temp1, temp2, temp3, temp4} : High(t) \in Int /\ Low(t) \in Int
          /\ carry1 \in Int /\ carry2 \in Int /\ fourth \in Int /\ carry4 \in Int
          /\ second \in Int /\ third \in Int /\ middle \in Int
          /\ result2 \in Int /\ result3 \in Int /\ top \in Int
      BY <1>2, <1>5, <1>6, <1>7, <1>8, <1>9, <1>10, Sizes
    <2>2. Low(temp1) + Word * result2 + Long * result3 + Long * (Word * top)
            = (Word * High(temp1) + Low(temp1)) + Word * (Word * High(temp2) + Low(temp2))
                + Word * (Word * High(temp3) + Low(temp3))
                + Long * (Word * High(temp4) + Low(temp4))
      BY <2>1, <1>5, <1>6, <1>7, <1>8, <1>9, <1>10, Regrouped
    <2>3. /\ temp1 = Word * High(temp1) + Low(temp1) /\ temp2 = Word * High(temp2) + Low(temp2)
          /\ temp3 = Word * High(temp3) + Low(temp3) /\ temp4 = Word * High(temp4) + Low(temp4)
      BY <1>2
    <2> QED  BY <2>2, <2>3, <1>3
  <1>12. /\ top < Word
         /\ result3 = 0 /\ top = 0 => product = result2 * Word + Low(temp1) /\ product < Long
         /\ result3 # 0 \/ top # 0 => product >= Long
    <2>1. /\ Low(temp1) \in 0..(Word - 1) /\ result2 \in 0..(Word - 1)
          /\ result3 \in 0..(Word - 1) /\ top \in Nat /\ product \in Nat
      BY <1>2, <1>4, <1>7, <1>9, <1>10
    <2> HIDE DEF result2
    <2>2. product < Long * Long
      BY <1>4
    <2> QED  BY ONLY <2>1, <2>2, <1>11, Columns
  <1>13. top % Word = top
    <2>1. (Word * 0 + top) % Word = top
      BY <1>10, <1>12, Sizes, DividedOnce, 0 \in Int
    <2> QED  BY <2>1, <1>10, Sizes
  <1>14. ULongMul(value1, value2) =
            IF result3 # 0 \/ top % Word # 0 THEN Checked(FALSE, Long - 1)
            ELSE Checked(TRUE, result2 * Word + Low(temp1))
    BY DEF ULongMul, low1, low2, high1, high2, temp1, temp2, temp3, temp4, second, third,
           result2, carry1, carry2, middle, fourth, result3, carry4, top
  <1>15. product = value1 * value2
    BY DEF product
  <1>16. CASE result3 # 0 \/ top # 0
    <2>1. ULongMul(value1, value2) = Checked(FALSE, Long - 1)
      BY <1>13, <1>14, <1>16
    <2>2. ~(product < Long)
      BY <1>4, <1>12, <1>16, Sizes
    <2> QED  BY <2>1, <2>2, <1>15
  <1>17. CASE result3 = 0 /\ top = 0
    <2>1. ULongMul(value1, value2) = Checked(TRUE, result2 * Word + Low(temp1))
      BY <1>13, <1>14, <1>17
    <2>2. product < Long /\ product = result2 * Word + Low(temp1)
      BY <1>12, <1>17
    <2> QED  BY <2>1, <2>2, <1>15
  <1> QED  BY <1>16, <1>17

-----------------------------------------------------------------------------
(* Types and conversions.                                                  *)

\* A type has an even number of values.
LEMMA Halves ==
    ASSUME NEW type \in Type
    PROVE  /\ type.size \in Nat /\ type.size \div 2 \in Nat /\ type.size \div 2 >= 1
           /\ type.size = 2 * (type.size \div 2) /\ type.signed \in BOOLEAN
  <1>1. /\ type.size \in {Byte, Short, Word, Long} /\ type.signed \in BOOLEAN
    BY DEF Type
  <1>2. type.size \in Nat /\ type.size >= 2 /\ type.size % 2 = 0
    <2>1. CASE type.size \in {Byte, Short, Word}
      BY <2>1, IntrinsicsAssumption
    <2>2. CASE type.size = Long
      <3>1. Word \div 2 \in Int /\ Word = 2 * (Word \div 2) + 0
        BY Sizes
      <3> DEFINE n == (Word \div 2) * Word
      <3>2. n \in Int /\ Long = 2 * n + 0 /\ Long >= 2
        <4>1. (2 * (Word \div 2)) * Word = 2 * ((Word \div 2) * Word)
          BY <3>1, Sizes, SMTT(30)
        <4>2. Word * Word >= 2
          BY Sizes, SMTT(30)
        <4> QED  BY <3>1, <4>1, <4>2, Sizes DEF Long
      <3> HIDE DEF n
      <3>3. (2 * n + 0) % 2 = 0
        BY <3>2, DividedOnce, 0 \in 0..1, 2 \in Nat, 2 > 0
      <3> QED  BY <2>2, <3>2, <3>3
    <2> QED  BY <1>1, <2>1, <2>2
  <1> QED  BY <1>1, <1>2

\* What a conversion to a signed type makes of a number that is out of range by
\* less than the number of values.
LEMMA ToSignedNear ==
    ASSUME NEW size \in Nat, NEW half \in Nat, half >= 1, size = 2 * half,
           NEW n \in Int, -size <= n, n < size
    PROVE  ToSigned(n, size) = IF n >= half THEN n - size
                               ELSE IF n < -half THEN n + size ELSE n
  <1>1. size \div 2 = half
    <2>1. (2 * half + 0) \div 2 = half
      BY DividedOnce, 0 \in 0..1, 2 \in Nat, 2 > 0
    <2> QED  BY <2>1
  <1>2. CASE n >= 0
    <2>1. (size * 0 + n) % size = n
      BY <1>2, DividedOnce, 0 \in Int, n \in 0..(size - 1)
    <2> QED  BY <1>1, <1>2, <2>1 DEF ToSigned
  <1>3. CASE n < 0
    <2>1. n + size \in 0..(size - 1)
      BY <1>3
    <2>2. (size * (-1) + (n + size)) % size = n + size
      BY <2>1, DividedOnce, -1 \in Int
    <2>3. n % size = n + size
      BY <2>2
    <2> QED  BY <1>1, <1>3, <2>3 DEF ToSigned
  <1> QED  BY <1>2, <1>3

\* The same for an unsigned type.
LEMMA ToUnsignedNear ==
    ASSUME NEW size \in Nat, size > 0, NEW n \in Int, -size <= n, n < 2 * size
    PROVE  ToUnsigned(n, size) = IF n >= size THEN n - size ELSE IF n < 0 THEN n + size ELSE n
  <1>1. CASE n >= size
    <2>1. (size * 1 + (n - size)) % size = n - size
      BY <1>1, DividedOnce, 1 \in Int, n - size \in 0..(size - 1)
    <2> QED  BY <1>1, <2>1 DEF ToUnsigned
  <1>2. CASE n < 0
    <2>1. (size * (-1) + (n + size)) % size = n + size
      BY <1>2, DividedOnce, -1 \in Int, n + size \in 0..(size - 1)
    <2> QED  BY <1>2, <2>1 DEF ToUnsigned
  <1>3. CASE 0 <= n /\ n < size
    <2>1. (size * 0 + n) % size = n
      BY <1>3, DividedOnce, 0 \in Int, n \in 0..(size - 1)
    <2> QED  BY <1>3, <2>1 DEF ToUnsigned
  <1> QED  BY <1>1, <1>2, <1>3

\* A conversion gives a value of the type, and leaves its values alone.
LEMMA Converted ==
    ASSUME NEW type \in Type, NEW n \in Int
    PROVE  To(n, type) \in Values(type) /\ (n \in Values(type) => To(n, type) = n)
  <1> DEFINE size == type.size
             half == type.size \div 2
  <1>1. size \in Nat /\ half \in Nat /\ half >= 1 /\ size = 2 * half /\ type.signed \in BOOLEAN
    BY Halves
  <1>2. n % size \in 0..(size - 1)
    BY <1>1, Divided
  <1>3. CASE type.signed
    <2>1. ToSigned(n, size) \in Signed(size)
      BY <1>1, <1>2 DEF ToSigned, Signed
    <2>2. n \in Signed(size) => ToSigned(n, size) = n
      <3> SUFFICES ASSUME n \in Signed(size) PROVE ToSigned(n, size) = n
        OBVIOUS
      <3>1. -half <= n /\ n < half
        BY <1>1 DEF Signed
      <3> HIDE DEF size, half
      <3> QED  BY <1>1, <3>1, ToSignedNear
    <2> QED  BY <1>3, <2>1, <2>2 DEF To, Values
  <1>4. CASE ~type.signed
    <2>1. n \in Unsigned(size) => ToUnsigned(n, size) = n
      <3> SUFFICES ASSUME n \in Unsigned(size) PROVE ToUnsigned(n, size) = n
        OBVIOUS
      <3>1. 0 <= n /\ n < size
        BY <1>1 DEF Unsigned
      <3> HIDE DEF size, half
      <3> QED  BY <1>1, <3>1, ToUnsignedNear
    <2> QED  BY <1>2, <1>4, <2>1 DEF To, Values, ToUnsigned, Unsigned
  <1> QED  BY <1>1, <1>3, <1>4

-----------------------------------------------------------------------------
(* Addition, subtraction, multiplication.                                  *)

\* What an operation with overflow checking shall tell of an exact result.
Reports(outcome, exact, type) ==
    /\ outcome.code = "OK" <=> exact \in Values(type)
    /\ outcome.code = "OK" => outcome.result = exact

\* When signed arithmetic wraps, the comparisons find every overflow.
LEMMA AddAndSubFit ==
    ASSUME NEW type \in Type, type.signed,
           NEW value1 \in Values(type), NEW value2 \in Values(type)
    PROVE  /\ AddFits(value1, value2, ToSigned(value1 + value2, type.size))
                 <=> value1 + value2 \in Values(type)
           /\ SubFits(value1, value2, ToSigned(value1 - value2, type.size))
                 <=> value1 - value2 \in Values(type)
  <1> DEFINE size == type.size
             half == type.size \div 2
  <1>1. size \in Nat /\ half \in Nat /\ half >= 1 /\ size = 2 * half
    BY Halves
  <1>2. Values(type) = -half .. (half - 1)
    BY DEF Values, Signed
  <1> HIDE DEF size, half
  <1>3. value1 \in -half .. (half - 1) /\ value2 \in -half .. (half - 1)
    BY <1>2
  <1>4. ToSigned(value1 + value2, size) =
            IF value1 + value2 >= half THEN value1 + value2 - size
            ELSE IF value1 + value2 < -half THEN value1 + value2 + size ELSE value1 + value2
    BY <1>1, <1>3, ToSignedNear
  <1>5. ToSigned(value1 - value2, size) =
            IF value1 - value2 >= half THEN value1 - value2 - size
            ELSE IF value1 - value2 < -half THEN value1 - value2 + size ELSE value1 - value2
    BY <1>1, <1>3, ToSignedNear
  <1>6. AddFits(value1, value2, ToSigned(value1 + value2, size))
          <=> value1 + value2 \in -half .. (half - 1)
    BY <1>1, <1>3, <1>4 DEF AddFits
  <1>7. SubFits(value1, value2, ToSigned(value1 - value2, size))
          <=> value1 - value2 \in -half .. (half - 1)
    BY <1>1, <1>3, <1>5 DEF SubFits
  <1> QED  BY <1>2, <1>6, <1>7 DEF size

\* Unsigned sums and differences.
LEMMA UnsignedFit ==
    ASSUME NEW type \in Type, ~type.signed,
           NEW value1 \in Values(type), NEW value2 \in Values(type)
    PROVE  /\ ToUnsigned(value1 + value2, type.size) >= value1
                 <=> value1 + value2 \in Values(type)
           /\ ToUnsigned(value1 - value2, type.size) <= value1
                 <=> value1 - value2 \in Values(type)
  <1> DEFINE size == type.size
  <1>1. size \in Nat /\ size > 0
    BY Halves
  <1>2. Values(type) = 0 .. (size - 1)
    BY DEF Values, Unsigned
  <1> HIDE DEF size
  <1>3. value1 \in 0 .. (size - 1) /\ value2 \in 0 .. (size - 1)
    BY <1>2
  <1>4. ToUnsigned(value1 + value2, size) =
            IF value1 + value2 >= size THEN value1 + value2 - size ELSE value1 + value2
    BY <1>1, <1>3, ToUnsignedNear
  <1>5. ToUnsigned(value1 - value2, size) =
            IF value1 - value2 < 0 THEN value1 - value2 + size ELSE value1 - value2
    BY <1>1, <1>3, ToUnsignedNear
  <1>6. /\ ToUnsigned(value1 + value2, size) >= value1 <=> value1 + value2 \in 0 .. (size - 1)
        /\ ToUnsigned(value1 - value2, size) <= value1 <=> value1 - value2 \in 0 .. (size - 1)
    BY <1>1, <1>3, <1>4, <1>5
  <1> QED  BY <1>2, <1>6 DEF size

\* The four types that have arithmetic.
LEMMA WideTypes ==
    /\ Wide \subseteq Type
    /\ Values(IntT) = -(Word \div 2) .. (Word \div 2 - 1)
    /\ Values(UIntT) = 0 .. (Word - 1)
    /\ Values(LongT) = -(Long \div 2) .. (Long \div 2 - 1)
    /\ Values(ULongT) = 0 .. (Long - 1)
    /\ Word = 2 * (Word \div 2) /\ Long = 2 * (Long \div 2)
    /\ Word \div 2 \in Nat /\ Word \div 2 >= 1 /\ Long \div 2 \in Nat /\ Long \div 2 >= 1
  <1>1. Wide \subseteq Type
    BY DEF Wide, Type, IntT, UIntT, LongT, ULongT
  <1>2. IntT \in Type /\ LongT \in Type
    BY <1>1 DEF Wide
  <1>3. /\ IntT.size \in Nat /\ IntT.size \div 2 \in Nat /\ IntT.size \div 2 >= 1
        /\ IntT.size = 2 * (IntT.size \div 2)
        /\ LongT.size \in Nat /\ LongT.size \div 2 \in Nat /\ LongT.size \div 2 >= 1
        /\ LongT.size = 2 * (LongT.size \div 2)
    BY <1>2, Halves
  <1>4. IntT.size = Word /\ LongT.size = Long
    BY DEF IntT, LongT
  <1>5. /\ Values(IntT) = -(Word \div 2) .. (Word \div 2 - 1)
        /\ Values(UIntT) = 0 .. (Word - 1)
        /\ Values(LongT) = -(Long \div 2) .. (Long \div 2 - 1)
        /\ Values(ULongT) = 0 .. (Long - 1)
    BY DEF Values, Signed, Unsigned, IntT, UIntT, LongT, ULongT
  <1> QED  BY <1>1, <1>3, <1>4, <1>5

\* A product of magnitudes is bounded by the product of the bounds.
LEMMA ProductBound ==
    ASSUME NEW x \in Int, NEW y \in Int, NEW m \in Nat, -m <= x, x <= m, -m <= y, y <= m
    PROVE  x * y \in Int /\ -(m * m) <= x * y /\ x * y <= m * m
  <1>1. CASE x >= 0 /\ y >= 0
    <2>1. x * y >= 0 /\ x * y <= m * y /\ m * y <= m * m
      BY <1>1, SMTT(30)
    <2> QED  BY <2>1
  <1>2. CASE x >= 0 /\ y < 0
    <2>1. x * (-y) >= 0 /\ x * (-y) <= m * (-y) /\ m * (-y) <= m * m /\ x * y = -(x * (-y))
      BY <1>2, SMTT(30)
    <2> QED  BY <2>1
  <1>3. CASE x < 0 /\ y >= 0
    <2>1. (-x) * y >= 0 /\ (-x) * y <= m * y /\ m * y <= m * m /\ x * y = -((-x) * y)
      BY <1>3, SMTT(30)
    <2> QED  BY <2>1
  <1>4. CASE x < 0 /\ y < 0
    <2>1. /\ (-x) * (-y) >= 0 /\ (-x) * (-y) <= m * (-y) /\ m * (-y) <= m * m
          /\ x * y = (-x) * (-y)
      BY <1>4, SMTT(30)
    <2> QED  BY <2>1
  <1> QED  BY <1>1, <1>2, <1>3, <1>4

\* The product of two ints is a long, that of two unsigned ints an unsigned
\* long, so comparing with the bounds tells everything.
LEMMA WordMulExact ==
    /\ \A value1, value2 \in Values(IntT) :
           Reports(IntMul(value1, value2), value1 * value2, IntT)
    /\ \A value1, value2 \in Values(UIntT) :
           Reports(UIntMul(value1, value2), value1 * value2, UIntT)
  <1>1. ASSUME NEW value1 \in Values(IntT), NEW value2 \in Values(IntT)
        PROVE  Reports(IntMul(value1, value2), value1 * value2, IntT)
    <2> DEFINE half == Word \div 2
               product == value1 * value2
    <2>1. /\ half \in Nat /\ half >= 1 /\ Word = 2 * half
          /\ value1 \in -half .. (half - 1) /\ value2 \in -half .. (half - 1)
      BY WideTypes
    <2>2. product \in Int /\ -(half * half) <= product /\ product <= half * half
      <3> HIDE DEF half
      <3> QED  BY <2>1, ProductBound
    <2>3. Long = 4 * (half * half) /\ half * half >= 1
      <3> HIDE DEF half
      <3>1. (2 * half) * (2 * half) = 4 * (half * half) /\ half * half >= 1
        BY <2>1, SMTT(30)
      <3> QED  BY <2>1, <3>1 DEF Long
    <2>4. product \in Values(LongT)
      <3> DEFINE square == half * half
      <3>1. square \in Int
        BY <2>1
      <3> HIDE DEF half, product, square
      <3>2. Long = 2 * (Long \div 2) /\ Long \div 2 \in Nat
        BY WideTypes
      <3>3. -square <= product /\ product <= square /\ Long = 4 * square /\ square >= 1
        BY <2>2, <2>3 DEF square
      <3>4. product \in -(Long \div 2) .. (Long \div 2 - 1)
        BY <2>2, <3>1, <3>2, <3>3
      <3> QED  BY <3>4, WideTypes
    <2> HIDE DEF product
    <2>5. To(product, LongT) = product /\ (product \in Values(IntT) => To(product, IntT) = product)
      BY <2>2, <2>4, WideTypes, Converted DEF Wide
    <2>6. ToSigned(product, Long) = product
      BY <2>5 DEF To, LongT
    <2>7. product \in Values(IntT) => ToSigned(product, Word) = product
      BY <2>5 DEF To, IntT
    <2>8. product \in Signed(Word) <=> product \in Values(IntT)
      BY DEF Values, IntT
    <2>9. IntMul(value1, value2) = Checked(product \in Signed(Word), ToSigned(product, Word))
      BY <2>6 DEF IntMul, product
    <2>10. Reports(IntMul(value1, value2), product, IntT)
      BY <2>7, <2>8, <2>9 DEF Reports, Checked
    <2> QED  BY <2>10 DEF product
  <1>2. ASSUME NEW value1 \in Values(UIntT), NEW value2 \in Values(UIntT)
        PROVE  Reports(UIntMul(value1, value2), value1 * value2, UIntT)
    <2> DEFINE product == value1 * value2
    <2>1. value1 \in 0 .. (Word - 1) /\ value2 \in 0 .. (Word - 1)
      BY WideTypes
    <2>2. product \in Nat /\ product < Long
      <3>1. value1 * value2 >= 0 /\ value1 * value2 <= value1 * Word
        BY <2>1, Sizes, SMTT(30)
      <3>2. value1 * Word <= (Word - 1) * Word /\ (Word - 1) * Word = Word * Word - Word
        BY <2>1, Sizes, SMTT(30)
      <3> QED  BY <2>1, <3>1, <3>2, Sizes DEF Long
    <2> HIDE DEF product
    <2>3. ToUnsigned(product, Long) = product
      BY <2>2, Sizes, ToUnsignedNear
    <2>4. product \in Values(UIntT) <=> product <= Word - 1
      BY <2>2, WideTypes, Sizes
    <2>5. product <= Word - 1 => ToUnsigned(product, Word) = product
      BY <2>2, Sizes, ToUnsignedNear
    <2>6. UIntMul(value1, value2) = Checked(product <= Word - 1, ToUnsigned(product, Word))
      BY <2>3 DEF UIntMul, product
    <2>7. Reports(UIntMul(value1, value2), product, UIntT)
      BY <2>4, <2>5, <2>6 DEF Reports, Checked
    <2> QED  BY <2>7 DEF product
  <1> QED  BY <1>1, <1>2

\* The product of the magnitudes, with the sign that the factors give it.
LEMMA Signs ==
    ASSUME NEW x \in Int, NEW y \in Int
    PROVE  /\ Size(x) * Size(y) \in Nat
           /\ x * y = IF (x >= 0) = (y >= 0) THEN Size(x) * Size(y) ELSE -(Size(x) * Size(y))
  <1>1. CASE x >= 0 /\ y >= 0
    BY <1>1, x * y >= 0, SMTT(30) DEF Size
  <1>2. CASE x >= 0 /\ y < 0
    <2>1. x * (-y) >= 0 /\ x * y = -(x * (-y))
      BY <1>2, SMTT(30)
    <2> QED  BY <1>2, <2>1 DEF Size
  <1>3. CASE x < 0 /\ y >= 0
    <2>1. (-x) * y >= 0 /\ x * y = -((-x) * y)
      BY <1>3, SMTT(30)
    <2> QED  BY <1>3, <2>1 DEF Size
  <1>4. CASE x < 0 /\ y < 0
    <2>1. (-x) * (-y) >= 0 /\ x * y = (-x) * (-y)
      BY <1>4, SMTT(30)
    <2> QED  BY <1>4, <2>1 DEF Size
  <1> QED  BY <1>1, <1>2, <1>3, <1>4

\* The magnitude of a long is an unsigned long, that of the least one too.
LEMMA Magnitudes ==
    ASSUME NEW value \in Values(LongT)
    PROVE  Magnitude(value) = Size(value) /\ Size(value) \in 0 .. (Long - 1)
  <1> DEFINE half == Long \div 2
  <1>1. half \in Nat /\ half >= 1 /\ Long = 2 * half /\ value \in -half .. (half - 1)
    BY WideTypes
  <1> HIDE DEF half
  <1>2. Size(value) \in 0 .. (Long - 1)
    BY <1>1 DEF Size
  <1>3. ToUnsigned(Size(value), Long) = Size(value)
    BY <1>2, Sizes, ToUnsignedNear
  <1> QED  BY <1>2, <1>3 DEF Magnitude, Size

\* jit_long_mul_ovf: the product of the magnitudes tells it all.
LEMMA LongMulExact ==
    ASSUME NEW value1 \in Values(LongT), NEW value2 \in Values(LongT)
    PROVE  Reports(LongMul(value1, value2), value1 * value2, LongT)
  <1> DEFINE same    == (value1 >= 0) = (value2 >= 0)
             product == Size(value1) * Size(value2)
             exact   == value1 * value2
             half    == Long \div 2
             temp    == ULongMul(Magnitude(value1), Magnitude(value2))
             most    == IF same THEN half - 1 ELSE half
             signed  == IF same THEN temp.result ELSE -temp.result
  <1>1. half \in Nat /\ half >= 1 /\ Long = 2 * half /\ Values(LongT) = -half .. (half - 1)
    BY WideTypes
  <1>2. value1 \in Int /\ value2 \in Int
    BY <1>1
  <1>3. product \in Nat /\ exact = IF same THEN product ELSE -product
    BY <1>2, Signs
  <1>4. temp = IF product < Long THEN Checked(TRUE, product) ELSE Checked(FALSE, Long - 1)
    BY Magnitudes, ULongMulExact
  <1>5. LongMul(value1, value2) =
            IF temp.code # "OK" \/ temp.result > most
            THEN Checked(FALSE, IF same THEN half - 1 ELSE -half)
            ELSE Checked(TRUE, ToSigned(signed, Long))
    BY DEF LongMul
  <1> HIDE DEF product, exact, half, temp
  <1>6. CASE product >= Long
    <2>1. temp.code = "OVERFLOW"
      BY <1>3, <1>4, <1>6, Sizes DEF Checked
    <2>2. exact \notin -half .. (half - 1)
      BY <1>1, <1>3, <1>6
    <2>3. LongMul(value1, value2).code = "OVERFLOW"
      BY <1>5, <2>1 DEF Checked
    <2>4. Reports(LongMul(value1, value2), exact, LongT)
      BY <1>1, <2>2, <2>3 DEF Reports
    <2> QED  BY <2>4 DEF exact
  <1>7. CASE product < Long
    <2>1. temp.code = "OK" /\ temp.result = product
      BY <1>4, <1>7 DEF Checked
    <2>2. product > most <=> exact \notin -half .. (half - 1)
      BY <1>1, <1>3
    <2>3. CASE product > most
      <3>1. LongMul(value1, value2).code = "OVERFLOW"
        BY <1>5, <2>1, <2>3 DEF Checked
      <3>2. Reports(LongMul(value1, value2), exact, LongT)
        BY <1>1, <2>2, <2>3, <3>1 DEF Reports
      <3> QED  BY <3>2 DEF exact
    <2>4. CASE ~(product > most)
      <3>1. signed = exact
        BY <1>3, <2>1
      <3>2. exact \in Values(LongT) /\ exact \in Int
        BY <1>1, <1>3, <2>2, <2>4
      <3>3. LongT \in Type
        BY WideTypes DEF Wide
      <3>4. To(exact, LongT) = exact
        BY <3>2, <3>3, Converted
      <3>5. ToSigned(exact, Long) = exact
        BY <3>4 DEF To, LongT
      <3>6. LongMul(value1, value2) = Checked(TRUE, exact)
        BY <1>5, <2>1, <2>4, <3>1, <3>5
      <3>7. Reports(LongMul(value1, value2), exact, LongT)
        BY <3>2, <3>6 DEF Reports, Checked
      <3> QED  BY <3>7 DEF exact
    <2> QED  BY <2>3, <2>4
  <1> QED  BY <1>3, <1>6, <1>7, Sizes

\* jit_ulong_mul_ovf.
LEMMA ULongMulReports ==
    ASSUME NEW value1 \in Values(ULongT), NEW value2 \in Values(ULongT)
    PROVE  Reports(ULongMul(value1, value2), value1 * value2, ULongT)
  <1> DEFINE product == value1 * value2
  <1>1. value1 \in 0 .. (Long - 1) /\ value2 \in 0 .. (Long - 1)
    BY WideTypes
  <1>2. product \in Nat
    <2>1. value1 * value2 >= 0
      BY <1>1, Sizes, SMTT(30)
    <2> QED  BY <1>1, <2>1, Sizes
  <1>3. ULongMul(value1, value2) = IF product < Long THEN Checked(TRUE, product)
                                   ELSE Checked(FALSE, Long - 1)
    BY <1>1, ULongMulExact
  <1> HIDE DEF product
  <1>4. product \in Values(ULongT) <=> product < Long
    BY <1>2, WideTypes, Sizes
  <1>5. Reports(ULongMul(value1, value2), product, ULongT)
    <2>1. CASE product < Long
      BY <1>3, <1>4, <2>1 DEF Reports, Checked
    <2>2. CASE ~(product < Long)
      <3>1. ULongMul(value1, value2).code = "OVERFLOW"
        BY <1>3, <2>2 DEF Checked
      <3> QED  BY <1>4, <2>2, <3>1 DEF Reports
    <2> QED  BY <2>1, <2>2
  <1> QED  BY <1>5 DEF product

-----------------------------------------------------------------------------
(* Conversion and division.                                                *)

\* A conversion's test finds every value that the new type does not have.
LEMMA ConversionExact ==
    ASSUME NEW from \in Wide, NEW to \in Convertible(from), NEW value \in Values(from)
    PROVE  /\ value \in Int
           /\ ConversionFits(from, to, value, To(value, to)) <=> value \in Values(to)
  <1> DEFINE result == To(value, to)
             word   == Word \div 2
             long   == Long \div 2
  <1>1. /\ Values(IntT) = -word .. (word - 1) /\ Values(UIntT) = 0 .. (Word - 1)
        /\ Values(LongT) = -long .. (long - 1) /\ Values(ULongT) = 0 .. (Long - 1)
        /\ word \in Nat /\ word >= 1 /\ Word = 2 * word
        /\ long \in Nat /\ long >= 1 /\ Long = 2 * long
    BY WideTypes
  <1>2. 2 * Word <= Long
    <2>1. 2 * Word <= Word * Word
      BY Sizes, SMTT(30)
    <2> QED  BY <2>1, Sizes DEF Long
  <1> HIDE DEF word, long, result
  <1>3. value \in Int /\ to \in Type /\ from \in Type
    BY <1>1, WideTypes, Sizes DEF Wide, Convertible
  <1>4. result \in Values(to) /\ (value \in Values(to) => result = value)
    BY <1>3, Converted DEF result
  <1>5. ConversionFits(from, to, value, result) <=> value \in Values(to)
    <2>1. CASE to.size < Word \/ (from = LongT /\ to.size = Word)
      BY <1>4, <2>1 DEF ConversionFits
    <2>2. CASE ~(to.size < Word \/ (from = LongT /\ to.size = Word))
      <3>1. to.size \in {Word, Long}
        BY <1>3, <2>2, IntrinsicsAssumption DEF Type
      <3>2. to = [size |-> to.size, signed |-> to.signed] /\ to.signed \in BOOLEAN
        BY <1>3 DEF Type
      <3>3. to \in Wide
        BY <3>1, <3>2 DEF Wide, IntT, UIntT, LongT, ULongT
      <3>4. /\ IntT.size = Word /\ UIntT.size = Word /\ LongT.size = Long /\ ULongT.size = Long
            /\ IntT.signed /\ ~UIntT.signed /\ LongT.signed /\ ~ULongT.signed
        BY DEF IntT, UIntT, LongT, ULongT
      <3>5. Word # Long /\ Word < Long
        BY <1>2, Sizes
      <3>6. from = UIntT /\ to = IntT /\ value >= word => result = value - Word
        <4> SUFFICES ASSUME from = UIntT, to = IntT, value >= word
                     PROVE  ToSigned(value, Word) = value - Word
          BY <3>4 DEF result, To
        <4>1. -Word <= value /\ value < Word
          BY <1>1, <1>3, Sizes
        <4> QED  BY <1>1, <1>3, <4>1, Sizes, ToSignedNear
      <3>7. from = ULongT /\ to = LongT /\ value >= long => result = value - Long
        <4> SUFFICES ASSUME from = ULongT, to = LongT, value >= long
                     PROVE  ToSigned(value, Long) = value - Long
          BY <3>4 DEF result, To
        <4>1. -Long <= value /\ value < Long
          BY <1>1, <1>3, Sizes
        <4> QED  BY <1>1, <1>3, <4>1, Sizes, ToSignedNear
      <3>8. CASE from = IntT
        BY <1>1, <1>2, <1>3, <1>4, <2>2, <3>3, <3>4, <3>5, <3>8
        DEF ConversionFits, Wide
      <3>9. CASE from = UIntT
        BY <1>1, <1>2, <1>3, <1>4, <2>2, <3>3, <3>4, <3>5, <3>9, <3>6
        DEF ConversionFits, Wide
      <3>10. CASE from = LongT
        BY <1>1, <1>2, <1>3, <1>4, <2>2, <3>3, <3>4, <3>5, <3>10
        DEF ConversionFits, Wide
      <3>11. CASE from = ULongT
        BY <1>1, <1>2, <1>3, <1>4, <2>2, <3>3, <3>4, <3>5, <3>11, <3>7
        DEF ConversionFits, Wide, word
      <3> QED  BY <3>8, <3>9, <3>10, <3>11 DEF Wide
    <2> QED  BY <2>1, <2>2
  <1> QED  BY <1>3, <1>5 DEF result

\* The truncating division of two numbers.
LEMMA Truncates ==
    ASSUME NEW a \in Int, NEW b \in Int, b # 0
    PROVE  /\ Quotient(a, b) \in Int /\ Remainder(a, b) \in Int
           /\ a = b * Quotient(a, b) + Remainder(a, b)
           /\ Size(Quotient(a, b)) <= Size(a)
           /\ b # 1 /\ b # -1 /\ a # 0 => Size(Quotient(a, b)) < Size(a)
           /\ a >= 0 => Remainder(a, b) >= 0 /\ (b >= 0 => Quotient(a, b) >= 0)
           /\ Leaves(a, b, Remainder(a, b))
  <1> DEFINE n == Size(a)
             d == Size(b)
             q == n \div d
             r == n % d
  <1>1. n \in Nat /\ d \in Nat /\ d > 0
    BY DEF Size
  <1>2. q \in Int /\ r \in 0..(d - 1) /\ n = d * q + r
    BY <1>1, Divided
  <1>3. Quotient(a, b) = IF (a >= 0) = (b >= 0) THEN q ELSE -q
    BY DEF Quotient
  <1>4. Remainder(a, b) = a - b * Quotient(a, b)
    BY DEF Remainder
  <1>5. b = (IF b >= 0 THEN d ELSE -d) /\ a = (IF a >= 0 THEN n ELSE -n)
    BY DEF Size
  <1> HIDE DEF n, d, q, r
  <1>6. b * Quotient(a, b) = IF a >= 0 THEN d * q ELSE -(d * q)
    <2>1. d * (-q) = -(d * q) /\ (-d) * q = -(d * q) /\ (-d) * (-q) = d * q
      BY <1>1, <1>2, SMTT(30)
    <2> QED  BY <1>3, <1>5, <2>1, <1>1, <1>2
  <1>7. Remainder(a, b) = IF a >= 0 THEN r ELSE -r
    BY <1>2, <1>4, <1>5, <1>6, <1>1
  <1>8. q >= 0 /\ q <= n /\ (d # 1 /\ n # 0 => q < n)
    <2>1. q >= 0
      <3> SUFFICES ASSUME q <= -1 PROVE FALSE
        BY <1>2
      <3>1. d * q <= -d
        BY <1>1, <1>2, SMTT(30)
      <3> QED  BY <3>1, <1>1, <1>2
    <2>2. d * q >= q /\ (d >= 2 => d * q >= 2 * q)
      BY <1>1, <1>2, <2>1, SMTT(30)
    <2> QED  BY <1>1, <1>2, <2>1, <2>2
  <1>9. Size(Quotient(a, b)) = q
    BY <1>2, <1>3, <1>8 DEF Size
  <1>10. Leaves(a, b, Remainder(a, b))
    <2>1. a - Remainder(a, b) = d * (IF a >= 0 THEN q ELSE -q) + 0
      <3>1. d * (-q) = -(d * q)
        BY <1>1, <1>2, SMTT(30)
      <3> QED  BY <1>1, <1>2, <1>4, <1>6, <3>1, <1>3
    <2>2. (d * (IF a >= 0 THEN q ELSE -q) + 0) % d = 0
      BY <1>1, <1>2, DividedOnce, (IF a >= 0 THEN q ELSE -q) \in Int, 0 \in 0..(d - 1)
    <2>3. Size(Remainder(a, b)) < d
      BY <1>1, <1>2, <1>7 DEF Size
    <2>4. Remainder(a, b) = 0 \/ (Remainder(a, b) > 0) = (a > 0)
      BY <1>1, <1>2, <1>5, <1>7
    <2> QED  BY <2>1, <2>2, <2>3, <2>4 DEF Leaves, d
  <1>11. Quotient(a, b) \in Int /\ Remainder(a, b) \in Int
    BY <1>2, <1>3, <1>7
  <1>12. a = b * Quotient(a, b) + Remainder(a, b)
    BY <1>4, <1>11
  <1>13. b # 1 /\ b # -1 /\ a # 0 => d # 1 /\ n # 0
    BY DEF d, n, Size
  <1>14. a >= 0 => Remainder(a, b) >= 0 /\ (b >= 0 => Quotient(a, b) >= 0)
    BY <1>2, <1>3, <1>7, <1>8
  <1> QED  BY <1>8, <1>9, <1>10, <1>11, <1>12, <1>13, <1>14 DEF n

\* Quotients and remainders are values of the type, but for one quotient.
LEMMA DivisionInType ==
    ASSUME NEW type \in Type, NEW a \in Values(type), NEW b \in Values(type), b # 0,
           ~(type.signed /\ b = -1 /\ a = -(type.size \div 2))
    PROVE  /\ a \in Int /\ b \in Int
           /\ Quotient(a, b) \in Values(type) /\ Remainder(a, b) \in Values(type)
  <1> DEFINE half == type.size \div 2
             q    == Quotient(a, b)
             r    == Remainder(a, b)
  <1>1. /\ type.size \in Nat /\ half \in Nat /\ half >= 1 /\ type.size = 2 * half
        /\ type.signed \in BOOLEAN
    BY Halves
  <1>2. a \in Int /\ b \in Int
    BY <1>1 DEF Values, Signed, Unsigned
  <1>3. /\ q \in Int /\ r \in Int /\ a = b * q + r /\ Size(q) <= Size(a)
        /\ b # 1 /\ b # -1 /\ a # 0 => Size(q) < Size(a)
        /\ a >= 0 => r >= 0 /\ (b >= 0 => q >= 0)
        /\ Size(r) < Size(b)
    BY <1>2, Truncates DEF Leaves
  <1>4. Values(type) = IF type.signed THEN -half .. (half - 1) ELSE 0 .. (type.size - 1)
    BY DEF Values, Signed, Unsigned
  <1> HIDE DEF half, q, r
  <1>5. (b = 1 => q = a) /\ (b = -1 => q = -a)
    BY <1>2, <1>3 DEF Size
  <1>6. CASE type.signed
    <2>1. a \in -half .. (half - 1) /\ b \in -half .. (half - 1) /\ (b = -1 => a # -half)
      BY <1>4, <1>6 DEF half
    <2>2. q \in -half .. (half - 1)
      BY <1>1, <1>2, <1>3, <1>5, <2>1 DEF Size
    <2>3. r \in -half .. (half - 1)
      BY <1>1, <1>2, <1>3, <2>1 DEF Size
    <2> QED  BY <1>2, <1>4, <1>6, <2>2, <2>3 DEF q, r
  <1>7. CASE ~type.signed
    <2>1. a \in 0 .. (type.size - 1) /\ b \in 0 .. (type.size - 1)
      BY <1>4, <1>7
    <2>2. q \in 0 .. (type.size - 1) /\ r \in 0 .. (type.size - 1)
      BY <1>1, <1>2, <1>3, <2>1 DEF Size
    <2> QED  BY <1>2, <1>4, <1>7, <2>2 DEF q, r
  <1> QED  BY <1>1, <1>6, <1>7

-----------------------------------------------------------------------------
(* The specification.                                                      *)

\* Every product is stored as a value of the type, whether it fits or not.
LEMMA MulInType ==
    /\ \A value1, value2 \in Values(IntT) : IntMul(value1, value2).result \in Values(IntT)
    /\ \A value1, value2 \in Values(UIntT) : UIntMul(value1, value2).result \in Values(UIntT)
    /\ \A value1, value2 \in Values(LongT) : LongMul(value1, value2).result \in Values(LongT)
    /\ \A value1, value2 \in Values(ULongT) : ULongMul(value1, value2).result \in Values(ULongT)
  <1>1. /\ IntT \in Type /\ UIntT \in Type /\ LongT \in Type /\ ULongT \in Type
        /\ \A n \in Int : /\ To(n, IntT) = ToSigned(n, Word) /\ To(n, UIntT) = ToUnsigned(n, Word)
                          /\ To(n, LongT) = ToSigned(n, Long) /\ To(n, ULongT) = ToUnsigned(n, Long)
    BY WideTypes DEF Wide, To, IntT, UIntT, LongT, ULongT
  <1>2. \A n \in Int : /\ ToSigned(n, Word) \in Values(IntT) /\ ToUnsigned(n, Word) \in Values(UIntT)
                       /\ ToSigned(n, Long) \in Values(LongT)
                       /\ ToUnsigned(n, Long) \in Values(ULongT)
    BY <1>1, Converted
  <1>3. /\ Values(IntT) \subseteq Int /\ Values(UIntT) \subseteq Int
        /\ Values(LongT) \subseteq Int /\ Values(ULongT) \subseteq Int
    BY WideTypes, Sizes
  <1>4. ASSUME NEW value1 \in Values(IntT), NEW value2 \in Values(IntT)
        PROVE  IntMul(value1, value2).result \in Values(IntT)
    <2>1. value1 * value2 \in Int
      BY <1>3
    <2>2. ToSigned(value1 * value2, Long) \in Int
      BY <1>2, <1>3, <2>1
    <2> QED  BY <1>2, <2>2 DEF IntMul, Checked
  <1>5. ASSUME NEW value1 \in Values(UIntT), NEW value2 \in Values(UIntT)
        PROVE  UIntMul(value1, value2).result \in Values(UIntT)
    <2>1. value1 * value2 \in Int
      BY <1>3
    <2>2. ToUnsigned(value1 * value2, Long) \in Int
      BY <1>2, <1>3, <2>1
    <2> QED  BY <1>2, <2>2 DEF UIntMul, Checked
  <1>6. ASSUME NEW value1 \in Values(LongT), NEW value2 \in Values(LongT)
        PROVE  LongMul(value1, value2).result \in Values(LongT)
    <2>1. CASE LongMul(value1, value2).code = "OK"
      <3>1. value1 * value2 \in Values(LongT) /\ LongMul(value1, value2).result = value1 * value2
        BY <2>1, LongMulExact DEF Reports
      <3> QED  BY <3>1
    <2>2. CASE LongMul(value1, value2).code # "OK"
      <3>1. LongMul(value1, value2).result \in {Long \div 2 - 1, -(Long \div 2)}
        BY <2>2 DEF LongMul, Checked
      <3> QED  BY <3>1, WideTypes
    <2> QED  BY <2>1, <2>2
  <1>7. ASSUME NEW value1 \in Values(ULongT), NEW value2 \in Values(ULongT)
        PROVE  ULongMul(value1, value2).result \in Values(ULongT)
    <2>1. value1 \in 0 .. (Long - 1) /\ value2 \in 0 .. (Long - 1)
      BY WideTypes
    <2>2. value1 * value2 \in Nat
      <3>1. value1 * value2 >= 0
        BY <2>1, Sizes, SMTT(30)
      <3> QED  BY <2>1, <3>1, Sizes
    <2> DEFINE product == value1 * value2
    <2>3. ULongMul(value1, value2) = IF product < Long THEN Checked(TRUE, product)
                                     ELSE Checked(FALSE, Long - 1)
      BY <2>1, ULongMulExact
    <2> HIDE DEF product
    <2>4. product \in Nat
      BY <2>2 DEF product
    <2>5. CASE product < Long
      <3>1. ULongMul(value1, value2).result = product
        BY <2>3, <2>5 DEF Checked
      <3> QED  BY <2>4, <2>5, <3>1, WideTypes, Sizes
    <2>6. CASE ~(product < Long)
      <3>1. ULongMul(value1, value2).result = Long - 1
        BY <2>3, <2>6 DEF Checked
      <3> QED  BY <3>1, WideTypes, Sizes
    <2> QED  BY <2>5, <2>6
  <1> QED  BY <1>4, <1>5, <1>6, <1>7

\* The four multiplications report exactly the overflows, and store values.
LEMMA Multiplied ==
    ASSUME NEW type \in Wide, NEW value1 \in Values(type), NEW value2 \in Values(type)
    PROVE  /\ Reports(Multiply(type, value1, value2), value1 * value2, type)
           /\ Multiply(type, value1, value2).result \in Values(type)
  <1>1. Word # Long
    <2>1. Word * Word >= 2 * Word
      BY Sizes, SMTT(30)
    <2> QED  BY <2>1, Sizes DEF Long
  <1>2. /\ IntT # UIntT /\ IntT # LongT /\ IntT # ULongT
        /\ UIntT # LongT /\ UIntT # ULongT /\ LongT # ULongT
    BY <1>1 DEF IntT, UIntT, LongT, ULongT
  <1>3. CASE type = IntT
    <2>1. Multiply(type, value1, value2) = IntMul(value1, value2)
      BY <1>2, <1>3 DEF Multiply
    <2> QED  BY <1>3, <2>1, WordMulExact, MulInType
  <1>4. CASE type = UIntT
    <2>1. Multiply(type, value1, value2) = UIntMul(value1, value2)
      BY <1>2, <1>4 DEF Multiply
    <2> QED  BY <1>4, <2>1, WordMulExact, MulInType
  <1>5. CASE type = LongT
    <2>1. Multiply(type, value1, value2) = LongMul(value1, value2)
      BY <1>2, <1>5 DEF Multiply
    <2> QED  BY <1>5, <2>1, LongMulExact, MulInType
  <1>6. CASE type = ULongT
    <2>1. Multiply(type, value1, value2) = ULongMul(value1, value2)
      BY <1>2, <1>6 DEF Multiply
    <2> QED  BY <1>6, <2>1, ULongMulReports, MulInType
  <1> QED  BY <1>3, <1>4, <1>5, <1>6 DEF Wide

\* What the properties say of an answer just given.
LEMMA Told ==
    ASSUME NEW call, NEW type, NEW value1, NEW value2, NEW outcome,
           Answers(call, type, value1, value2, outcome)
    PROVE  /\ outcome.result \in Values(type) => TypeOK'
           /\ call = "add" /\ Reports(outcome, value1 + value2, type) => OverflowIsReported'
           /\ call = "sub" /\ Reports(outcome, value1 - value2, type) => OverflowIsReported'
           /\ (/\ ~Wraps /\ type.signed
               /\ \/ call = "add" /\ value1 + value2 \notin Values(type)
                  \/ call = "sub" /\ value1 - value2 \notin Values(type))
                => OverflowIsReported'
           /\ call = "mul" /\ Reports(outcome, value1 * value2, type) => OverflowIsReported'
           /\ call = "convert" /\ Reports(outcome, value1, type) => OverflowIsReported'
           /\ call \in {"div", "rem"} => OverflowIsReported'
           /\ call \in {"add", "sub", "mul", "convert"} => DivisionIsExact'
  <1>1. /\ answer'.call = call /\ answer'.type = type /\ answer'.value1 = value1
        /\ answer'.value2 = value2 /\ answer'.code = outcome.code
        /\ answer'.result = outcome.result
    BY DEF Answers
  <1> QED
    BY <1>1 DEF TypeOK, OverflowIsReported, LeftOpen, DivisionIsExact, Answered, Exact, Reports

\* Before and between the calls there is nothing to tell.
LEMMA Nothing ==
    /\ answer = None => TypeOK /\ OverflowIsReported /\ DivisionIsExact
    /\ answer' = None => TypeOK' /\ OverflowIsReported' /\ DivisionIsExact'
    /\ UNCHANGED answer => /\ TypeOK => TypeOK'
                           /\ OverflowIsReported => OverflowIsReported'
                           /\ DivisionIsExact => DivisionIsExact'
  <1>1. answer = None => TypeOK /\ OverflowIsReported /\ DivisionIsExact
    BY DEF None, TypeOK, OverflowIsReported, DivisionIsExact, Answered
  <1>2. answer' = None => TypeOK' /\ OverflowIsReported' /\ DivisionIsExact'
    BY DEF None, TypeOK, OverflowIsReported, DivisionIsExact, Answered
  <1>3. UNCHANGED answer => (TypeOK => TypeOK')
    BY DEF TypeOK
  <1>4. UNCHANGED answer => (OverflowIsReported => OverflowIsReported')
    BY DEF OverflowIsReported, LeftOpen, Answered, Exact
  <1>5. UNCHANGED answer => (DivisionIsExact => DivisionIsExact')
    BY DEF DivisionIsExact, Answered
  <1> QED  BY <1>1, <1>2, <1>3, <1>4, <1>5

\* The values of every type are integers, and 0 is one.
LEMMA Integral == \A type \in Type : Values(type) \subseteq Int /\ 0 \in Values(type)
  <1> SUFFICES ASSUME NEW type \in Type PROVE Values(type) \subseteq Int /\ 0 \in Values(type)
    OBVIOUS
  <1>1. /\ type.size \in Nat /\ type.size \div 2 \in Nat /\ type.size \div 2 >= 1
        /\ type.size = 2 * (type.size \div 2) /\ type.signed \in BOOLEAN
    BY Halves
  <1> QED  BY <1>1 DEF Values, Signed, Unsigned

\* Whatever an operation reports, it stores a value of the result's type.
THEOREM ResultsAreValues == Spec => []TypeOK
  <1>1. Init => TypeOK
    BY Nothing DEF Init
  <1>2. TypeOK /\ [Next]_answer => TypeOK'
    <2> SUFFICES ASSUME TypeOK, Next PROVE TypeOK'
      BY Nothing
    <2>1. ASSUME NEW type \in Wide, NEW value1 \in Values(type), NEW value2 \in Values(type)
          PROVE  /\ type \in Type /\ value1 \in Int /\ value2 \in Int
                 /\ value1 + value2 \in Int /\ value1 - value2 \in Int
      BY WideTypes, Integral
    <2>2. ASSUME NEW type \in Wide, NEW value1 \in Values(type), NEW value2 \in Values(type),
                 AddOvf(type, value1, value2)
          PROVE  TypeOK'
      <3>1. To(value1 + value2, type) \in Values(type)
        BY <2>1, Converted
      <3>2. PICK sum : Answers("add", type, value1, value2,
                Checked(IF type.signed THEN AddFits(value1, value2, sum) ELSE sum >= value1,
                        To(value1 + value2, type)))
        BY <2>2 DEF AddOvf, Additions
      <3>3. Checked(IF type.signed THEN AddFits(value1, value2, sum) ELSE sum >= value1,
                    To(value1 + value2, type)).result = To(value1 + value2, type)
        BY DEF Checked
      <3> QED  BY <3>1, <3>2, <3>3, Told
    <2>3. ASSUME NEW type \in Wide, NEW value1 \in Values(type), NEW value2 \in Values(type),
                 SubOvf(type, value1, value2)
          PROVE  TypeOK'
      <3>1. To(value1 - value2, type) \in Values(type)
        BY <2>1, Converted
      <3>2. PICK difference : Answers("sub", type, value1, value2,
                Checked(IF type.signed THEN SubFits(value1, value2, difference)
                        ELSE difference <= value1,
                        To(value1 - value2, type)))
        BY <2>3 DEF SubOvf, Subtractions
      <3>3. Checked(IF type.signed THEN SubFits(value1, value2, difference)
                    ELSE difference <= value1,
                    To(value1 - value2, type)).result = To(value1 - value2, type)
        BY DEF Checked
      <3> QED  BY <3>1, <3>2, <3>3, Told
    <2>4. ASSUME NEW type \in Wide, NEW value1 \in Values(type), NEW value2 \in Values(type),
                 MulOvf(type, value1, value2)
          PROVE  TypeOK'
      BY <2>4, Multiplied, Told DEF MulOvf
    <2>5. ASSUME NEW type \in Wide, NEW value1 \in Values(type), NEW value2 \in Values(type),
                 NEW result \in Int
          PROVE  Divide(type, value1, value2, result).result \in Values(type)
      BY <2>1, Converted, Integral DEF Divide, Failed, Checked
    <2>6. ASSUME NEW type \in Wide, NEW value1 \in Values(type), NEW value2 \in Values(type),
                 Div(type, value1, value2)
          PROVE  TypeOK'
      <3>1. Divide(type, value1, value2, Quotient(value1, value2)).result \in Values(type)
        <4>1. CASE value2 = 0
          BY <2>1, <4>1, Integral DEF Divide, Failed
        <4>2. CASE value2 # 0
          BY <2>1, <2>5, <4>2, Truncates
        <4> QED  BY <4>1, <4>2
      <3> QED  BY <2>6, <3>1, Told DEF Div
    <2>7. ASSUME NEW type \in Wide, NEW value1 \in Values(type), NEW value2 \in Values(type),
                 Rem(type, value1, value2)
          PROVE  TypeOK'
      <3>1. Divide(type, value1, value2, Remainder(value1, value2)).result \in Values(type)
        <4>1. CASE value2 = 0
          BY <2>1, <4>1, Integral DEF Divide, Failed
        <4>2. CASE value2 # 0
          BY <2>1, <2>5, <4>2, Truncates
        <4> QED  BY <4>1, <4>2
      <3> QED  BY <2>7, <3>1, Told DEF Rem
    <2>8. ASSUME NEW from \in Wide, NEW to \in Convertible(from), NEW value \in Values(from),
                 ConvertOvf(from, to, value)
          PROVE  TypeOK'
      <3>1. to \in Type /\ value \in Int
        BY WideTypes, ConversionExact DEF Convertible
      <3>2. Checked(ConversionFits(from, to, value, To(value, to)), To(value, to)).result
              \in Values(to)
        BY <3>1, Converted DEF Checked
      <3> QED  BY <2>8, <3>2, Told DEF ConvertOvf
    <2> QED
      BY <2>2, <2>3, <2>4, <2>6, <2>7, <2>8, Nothing DEF Next, Call, Resume
  <1> QED  BY <1>1, <1>2, PTL DEF Spec

\* What a signed result compares as when it is a value of its type, or when
\* arithmetic wraps.
LEMMA ComparesOnce ==
    ASSUME NEW type \in Type, type.signed, NEW exact \in Int,
           Wraps \/ exact \in Values(type), NEW n \in Compares(exact, type.size)
    PROVE  n = ToSigned(exact, type.size)
  <1>1. exact \in Values(type) => ToSigned(exact, type.size) = exact
    BY Converted DEF To
  <1> QED  BY <1>1 DEF Compares

\* Whatever the build makes of signed sums, the operations of the jit_..._ovf
\* family are exact where the result is a value of the type; where it is none,
\* they report it, but for the signed sums and differences that C leaves open.
THEOREM OverflowsAreReported == Spec => []OverflowIsReported
  <1>1. Init => OverflowIsReported
    BY Nothing DEF Init
  <1>2. OverflowIsReported /\ [Next]_answer => OverflowIsReported'
    <2> SUFFICES ASSUME OverflowIsReported, Next PROVE OverflowIsReported'
      BY Nothing
    <2>1. ASSUME NEW type \in Wide, NEW value1 \in Values(type), NEW value2 \in Values(type)
          PROVE  /\ type \in Type /\ type.signed \in BOOLEAN
                 /\ value1 + value2 \in Int /\ value1 - value2 \in Int
      BY WideTypes, Integral, Halves
    <2>2. ASSUME NEW type \in Wide, NEW value1 \in Values(type), NEW value2 \in Values(type),
                 AddOvf(type, value1, value2)
          PROVE  OverflowIsReported'
      <3> DEFINE exact == value1 + value2
                 Fits(sum) == IF type.signed THEN AddFits(value1, value2, sum) ELSE sum >= value1
      <3>1. exact \in Values(type) => To(exact, type) = exact
        BY <2>1, Converted
      <3>2. PICK sum \in IF type.signed THEN Compares(exact, type.size)
                         ELSE {ToUnsigned(exact, type.size)} :
                Answers("add", type, value1, value2, Checked(Fits(sum), To(exact, type)))
        BY <2>2 DEF AddOvf, Additions
      <3>3. ASSUME ~type.signed \/ Wraps \/ exact \in Values(type)
            PROVE  Fits(sum) <=> exact \in Values(type)
        <4>1. CASE type.signed
          <5>1. sum = ToSigned(exact, type.size)
            BY <2>1, <3>2, <3>3, <4>1, ComparesOnce
          <5> QED  BY <2>1, <5>1, <4>1, AddAndSubFit
        <4>2. CASE ~type.signed
          BY <2>1, <3>2, <4>2, UnsignedFit
        <4> QED  BY <4>1, <4>2
      <3> HIDE DEF Fits
      <3>4. CASE ~type.signed \/ Wraps \/ exact \in Values(type)
        <4>1. Reports(Checked(Fits(sum), To(exact, type)), exact, type)
          BY <3>1, <3>3, <3>4 DEF Reports, Checked
        <4> QED  BY <3>2, <4>1, Told
      <3>5. CASE type.signed /\ ~Wraps /\ exact \notin Values(type)
        BY <3>2, <3>5, Told
      <3> QED  BY <2>1, <3>4, <3>5
    <2>3. ASSUME NEW type \in Wide, NEW value1 \in Values(type), NEW value2 \in Values(type),
                 SubOvf(type, value1, value2)
          PROVE  OverflowIsReported'
      <3> DEFINE exact == value1 - value2
                 Fits(difference) == IF type.signed THEN SubFits(value1, value2, difference)
                                     ELSE difference <= value1
      <3>1. exact \in Values(type) => To(exact, type) = exact
        BY <2>1, Converted
      <3>2. PICK difference \in IF type.signed THEN Compares(exact, type.size)
                                ELSE {ToUnsigned(exact, type.size)} :
                Answers("sub", type, value1, value2, Checked(Fits(difference), To(exact, type)))
        BY <2>3 DEF SubOvf, Subtractions
      <3>3. ASSUME ~type.signed \/ Wraps \/ exact \in Values(type)
            PROVE  Fits(difference) <=> exact \in Values(type)
        <4>1. CASE type.signed
          <5>1. difference = ToSigned(exact, type.size)
            BY <2>1, <3>2, <3>3, <4>1, ComparesOnce
          <5> QED  BY <2>1, <5>1, <4>1, AddAndSubFit
        <4>2. CASE ~type.signed
          BY <2>1, <3>2, <4>2, UnsignedFit
        <4> QED  BY <4>1, <4>2
      <3> HIDE DEF Fits
      <3>4. CASE ~type.signed \/ Wraps \/ exact \in Values(type)
        <4>1. Reports(Checked(Fits(difference), To(exact, type)), exact, type)
          BY <3>1, <3>3, <3>4 DEF Reports, Checked
        <4> QED  BY <3>2, <4>1, Told
      <3>5. CASE type.signed /\ ~Wraps /\ exact \notin Values(type)
        BY <3>2, <3>5, Told
      <3> QED  BY <2>1, <3>4, <3>5
    <2>4. ASSUME NEW type \in Wide, NEW value1 \in Values(type), NEW value2 \in Values(type),
                 MulOvf(type, value1, value2)
          PROVE  OverflowIsReported'
      BY <2>4, Multiplied, Told DEF MulOvf
    <2>5. ASSUME NEW type \in Wide, NEW value1 \in Values(type), NEW value2 \in Values(type),
                 Div(type, value1, value2) \/ Rem(type, value1, value2)
          PROVE  OverflowIsReported'
      BY <2>5, Told DEF Div, Rem
    <2>6. ASSUME NEW from \in Wide, NEW to \in Convertible(from), NEW value \in Values(from),
                 ConvertOvf(from, to, value)
          PROVE  OverflowIsReported'
      <3>1. to \in Type
        BY WideTypes DEF Convertible
      <3> DEFINE fits == ConversionFits(from, to, value, To(value, to))
      <3>2. value \in Int /\ (fits <=> value \in Values(to))
        BY ConversionExact
      <3>3. value \in Values(to) => To(value, to) = value
        BY <3>1, <3>2, Converted
      <3>4. Answers("convert", to, value, value, Checked(fits, To(value, to)))
        BY <2>6 DEF ConvertOvf
      <3> HIDE DEF fits
      <3>5. Reports(Checked(fits, To(value, to)), value, to)
        BY <3>2, <3>3 DEF Reports, Checked
      <3> QED  BY <3>4, <3>5, Told
    <2> QED
      BY <2>2, <2>3, <2>4, <2>5, <2>6, Nothing DEF Next, Call, Resume
  <1> QED  BY <1>1, <1>2, PTL DEF Spec

\* What jit_..._div and jit_..._rem report, they report for good reason.
LEMMA Divides ==
    ASSUME NEW type \in Wide, NEW value1 \in Values(type), NEW value2 \in Values(type)
    PROVE  /\ Div(type, value1, value2) => DivisionIsExact'
           /\ Rem(type, value1, value2) => DivisionIsExact'
  <1> DEFINE a == value1
             b == value2
             q == Quotient(a, b)
             r == Remainder(a, b)
  <1>1. /\ type \in Type /\ type.signed \in BOOLEAN /\ a \in Int /\ b \in Int
        /\ type.size \div 2 \in Nat /\ type.size \div 2 >= 1
    BY WideTypes, Integral, Halves
  <1>2. CASE b = 0
    <2>1. Divide(type, a, b, q).code = "DIVISION_BY_ZERO"
          /\ Divide(type, a, b, r).code = "DIVISION_BY_ZERO"
      BY <1>2 DEF Divide, Failed
    <2>2. Div(type, a, b) \/ Rem(type, a, b) =>
              answer'.value2 = 0 /\ answer'.code = "DIVISION_BY_ZERO"
      BY <1>2, <2>1 DEF Div, Rem, Answers
    <2> QED  BY <2>2 DEF DivisionIsExact
  <1>3. CASE b # 0 /\ type.signed /\ b = -1 /\ a = -(type.size \div 2)
    <2>1. Divide(type, a, b, q).code = "ARITHMETIC" /\ Divide(type, a, b, r).code = "ARITHMETIC"
      BY <1>3 DEF Divide, Failed
    <2>2. -a \notin Values(type)
      BY <1>1, <1>3 DEF Values, Signed
    <2>3. Div(type, a, b) \/ Rem(type, a, b) =>
              /\ answer'.value1 = a /\ answer'.value2 = b /\ answer'.type = type
              /\ answer'.code = "ARITHMETIC"
      BY <2>1 DEF Div, Rem, Answers
    <2> QED  BY <1>3, <2>2, <2>3 DEF DivisionIsExact
  <1>4. CASE b # 0 /\ ~(type.signed /\ b = -1 /\ a = -(type.size \div 2))
    <2>1. /\ q \in Values(type) /\ r \in Values(type) /\ q \in Int /\ r \in Int
          /\ a = b * q + r /\ Leaves(a, b, r)
      BY <1>1, <1>4, DivisionInType, Truncates
    <2>2. Divide(type, a, b, q) = Checked(TRUE, q) /\ Divide(type, a, b, r) = Checked(TRUE, r)
      BY <1>1, <1>4, <2>1, Converted DEF Divide
    <2>3. a - q * b = r
      BY <1>1, <2>1, q * b = b * q
    <2>4. Div(type, a, b) =>
              /\ answer'.value1 = a /\ answer'.value2 = b /\ answer'.code = "OK"
              /\ answer'.call = "div" /\ answer'.result = q
      BY <2>2 DEF Div, Answers, Checked
    <2>5. Rem(type, a, b) =>
              /\ answer'.value1 = a /\ answer'.value2 = b /\ answer'.code = "OK"
              /\ answer'.call = "rem" /\ answer'.result = r
      BY <2>2 DEF Rem, Answers, Checked
    <2> HIDE DEF q, r
    <2>6. Div(type, a, b) => DivisionIsExact'
      BY <1>4, <2>1, <2>3, <2>4 DEF DivisionIsExact
    <2>7. Rem(type, a, b) => DivisionIsExact'
      BY <1>4, <2>1, <2>5 DEF DivisionIsExact
    <2> QED  BY <2>6, <2>7
  <1> QED  BY <1>2, <1>3, <1>4

\* Quotients and remainders are those of the truncating division, and a division
\* that has none is reported.
THEOREM DivisionsAreExact == Spec => []DivisionIsExact
  <1>1. Init => DivisionIsExact
    BY Nothing DEF Init
  <1>2. DivisionIsExact /\ [Next]_answer => DivisionIsExact'
    <2> SUFFICES ASSUME DivisionIsExact, Next PROVE DivisionIsExact'
      BY Nothing
    <2>1. ASSUME NEW type \in Wide, NEW value1 \in Values(type), NEW value2 \in Values(type),
                 \/ AddOvf(type, value1, value2)
                 \/ SubOvf(type, value1, value2)
                 \/ MulOvf(type, value1, value2)
          PROVE  DivisionIsExact'
      BY <2>1, Told DEF AddOvf, SubOvf, Additions, Subtractions, MulOvf
    <2>2. ASSUME NEW from \in Wide, NEW to \in Convertible(from), NEW value \in Values(from),
                 ConvertOvf(from, to, value)
          PROVE  DivisionIsExact'
      BY <2>2, Told DEF ConvertOvf
    <2> QED
      BY <2>1, <2>2, Divides, Nothing DEF Next, Call, Resume
  <1> QED  BY <1>1, <1>2, PTL DEF Spec
=============================================================================
