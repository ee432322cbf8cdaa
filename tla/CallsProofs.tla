----------------------------- MODULE CallsProofs -----------------------------
(***************************************************************************)
(* Proofs about Calls: for every set of parameter and result types, the    *)
(* argument area of jit_apply is large enough, and the parties of a call   *)
(* agree on the place of every byte where no known disagreement is let in. *)
(***************************************************************************)
EXTENDS Calls, FiniteSetTheorems, TLAPS

-----------------------------------------------------------------------------
(***************************************************************************)
(* Sizes.                                                                  *)
(***************************************************************************)
LEMMA RoundedUp ==
    ASSUME NEW n \in Nat
    PROVE  /\ RoundStack(n) \in Nat /\ RoundStack(n) % 8 = 0
           /\ n <= RoundStack(n) /\ RoundStack(n) < n + 8
           /\ RoundStack(n) = 8 * WordsOf(n)
  BY DEF RoundStack, AlignTo, WordsOf

LEMMA MultipleOf8 ==
    ASSUME NEW n \in Nat, n % 8 = 0
    PROVE  /\ RoundStack(n) = n
           /\ n % 16 \in {0, 8}
  BY DEF RoundStack, AlignTo

\* The argument area that one parameter may take is counted.
LEMMA AreaOfOne ==
    ASSUME NEW type, TypeRight(type)
    PROVE  /\ MaxArgSize(type) \in Nat /\ MaxArgSize(type) >= 8
           /\ type.kind = "nfloat" => RoundStack(type.size) <= MaxArgSize(type)
           /\ IsAggregate(type) => 8 * WordsOf(type.size) + 8 = MaxArgSize(type)
  <1>1. NFloat.size = 16
    BY DEF NFloat, Primitive
  <1>2. type.size \in Nat /\ type.kind \in {"int", "float", "nfloat", "struct", "union"}
    BY DEF TypeRight
  <1>3. type.kind = "nfloat" => type.size = 16
    BY DEF TypeRight, ScalarSizes
  <1> QED
    BY <1>1, <1>2, <1>3 DEF MaxArgSize, IsAggregate, WordsOf, RoundStack, AlignTo

-----------------------------------------------------------------------------
(***************************************************************************)
(* The argument area of jit_apply.  No fault is excluded: its counts may   *)
(* be wrong, and even run past the six word registers, but what it takes   *)
(* from the stack is covered by what jit_type_get_max_arg_size adds.       *)
(***************************************************************************)
Counts == [word : Nat, float : 0..NumFloatRegs, stack : Nat]

AreaInv == /\ builder \in Counts /\ argSize \in Nat
           /\ builder.stack <= argSize

\* What a parameter of size n leaves used of b takes no more than the area.
Covered(r, b, n) == r \in Counts /\ r.stack <= b.stack + n

LEMMA CountsByParts ==
    ASSUME NEW b \in Counts, NEW w \in Nat, NEW s \in Nat
    PROVE  /\ b.word \in Nat /\ b.float \in 0..NumFloatRegs /\ b.stack \in Nat
           /\ b = [word |-> b.word, float |-> b.float, stack |-> b.stack]
           /\ [b EXCEPT !.word = w, !.stack = s] \in Counts
           /\ [b EXCEPT !.word = w, !.stack = s].stack = s
  BY DEF Counts

LEMMA WordCovered ==
    ASSUME NEW b \in Counts, NEW size
    PROVE  Covered(PassWord(b, size).used, b, 8)
  BY DEF PassWord, Done, Counts, Covered, NumWordRegs, NumFloatRegs

LEMMA FloatCovered ==
    ASSUME NEW b \in Counts, NEW size
    PROVE  Covered(PassFloat(b, size).used, b, 8)
  BY DEF PassFloat, Done, Counts, Covered, NumWordRegs, NumFloatRegs

LEMMA OnStackCovered ==
    ASSUME NEW b \in Counts, NEW size \in Nat
    PROVE  Covered(PassOnStack(b, size).used, b, RoundStack(size))
  BY RoundedUp DEF PassOnStack, Done, Counts, Covered, NumFloatRegs

LEMMA LargeCovered ==
    ASSUME NEW b \in Counts, NEW type, type.size \in Nat
    PROVE  Covered(AddLarge(b, type).used, b, 8 * WordsOf(type.size))
  <1> DEFINE n == WordsOf(type.size)
             w == IF type.align > 8 /\ n > 1 /\ ~Enough(b, n) THEN NumWordRegs ELSE b.word
             fit == NumWordRegs - w
  <1>1. n \in Nat
    BY DEF WordsOf
  <1>2. w \in Nat /\ fit \in Int /\ fit = 6 - w
    BY DEF Counts, NumWordRegs
  <1>3. AddLarge(b, type).used =
          IF Enough([b EXCEPT !.word = w], n) THEN [b EXCEPT !.word = w + n]
          ELSE IF fit > 0 THEN [b EXCEPT !.word = NumWordRegs, !.stack = n - fit]
          ELSE [b EXCEPT !.word = NumWordRegs, !.stack = @ + 8 * n]
    BY DEF AddLarge, Done
  <1>4. ~Enough([b EXCEPT !.word = w], n) => w <= 6 /\ n > fit
    BY <1>1, <1>2 DEF Enough, Counts, NumWordRegs
  <1> SUFFICES Covered(AddLarge(b, type).used, b, 8 * n)
    OBVIOUS
  <1> HIDE DEF n, w, fit
  <1>. 8 * n \in Nat
    BY <1>1
  <1>. b.word \in Nat /\ b.float \in 0..NumFloatRegs /\ b.stack \in Nat
    BY DEF Counts
  <1>5. CASE Enough([b EXCEPT !.word = w], n)
    <2>1. AddLarge(b, type).used = [b EXCEPT !.word = w + n]
      BY <1>3, <1>5
    <2>2. w + n \in Nat /\ b.stack <= b.stack + 8 * n
      BY <1>1, <1>2
    <2> QED
      BY <2>1, <2>2 DEF Covered, Counts
  <1>6. CASE ~Enough([b EXCEPT !.word = w], n) /\ fit > 0
    <2>1. AddLarge(b, type).used = [b EXCEPT !.word = 6, !.stack = n - fit]
      BY <1>3, <1>6 DEF NumWordRegs
    <2>2. n - fit \in Nat /\ n - fit <= 8 * n
      BY <1>1, <1>2, <1>4, <1>6
    <2>3. n - fit <= b.stack + 8 * n
      BY <1>1, <2>2
    <2> QED
      <3> DEFINE s == n - fit
      <3> HIDE DEF s
      <3>1. s \in Nat /\ s <= b.stack + 8 * n
        BY <2>2, <2>3 DEF s
      <3>2. AddLarge(b, type).used = [b EXCEPT !.word = 6, !.stack = s]
        BY <2>1 DEF s
      <3>3. [b EXCEPT !.word = 6, !.stack = s] \in Counts /\ [b EXCEPT !.word = 6, !.stack = s].stack = s
        BY <3>1, CountsByParts, 6 \in Nat
      <3> QED
        BY <3>1, <3>2, <3>3 DEF Covered
  <1>7. CASE ~Enough([b EXCEPT !.word = w], n) /\ ~(fit > 0)
    <2>1. AddLarge(b, type).used = [b EXCEPT !.word = 6, !.stack = @ + 8 * n]
      BY <1>3, <1>7 DEF NumWordRegs
    <2>2. b.stack + 8 * n \in Nat /\ b.stack + 8 * n <= b.stack + 8 * n
      BY <1>1
    <2> QED
      <3> DEFINE s == b.stack + 8 * n
      <3> HIDE DEF s
      <3>1. s \in Nat /\ s <= b.stack + 8 * n
        BY <2>2 DEF s
      <3>2. AddLarge(b, type).used = [b EXCEPT !.word = 6, !.stack = s]
        BY <2>1 DEF s
      <3>3. [b EXCEPT !.word = 6, !.stack = s] \in Counts /\ [b EXCEPT !.word = 6, !.stack = s].stack = s
        BY <3>1, CountsByParts, 6 \in Nat
      <3> QED
        BY <3>1, <3>2, <3>3 DEF Covered
  <1> QED
    BY <1>5, <1>6, <1>7

LEMMA StructCovered ==
    ASSUME NEW b \in Counts, NEW type, type.size \in Nat
    PROVE  Covered(AddStruct(b, type).used, b, 8 * WordsOf(type.size))
  <1>1. CASE ~InRegisters(b, type)
    BY <1>1, LargeCovered DEF AddStruct
  <1>2. CASE InRegisters(b, type)
    <2>1. AddStruct(b, type) = PassStruct(b, type)
      BY <1>2 DEF AddStruct
    <2> DEFINE plus(i, j) == [b EXCEPT !.word = @ + i, !.float = @ + j]
    <2>2. \A i \in Nat : \A j \in {0, 1} :
            (j = 1 => b.float < 8) => Covered(plus(i, j), b, 8 * WordsOf(type.size))
      <3>1. 8 * WordsOf(type.size) \in Nat
        BY DEF WordsOf
      <3>2. b.word \in Nat /\ b.float \in 0..8 /\ b.stack \in Nat
        BY DEF Counts, NumFloatRegs
      <3> SUFFICES ASSUME NEW i \in Nat, NEW j \in {0, 1}, j = 1 => b.float < 8
                   PROVE  Covered(plus(i, j), b, 8 * WordsOf(type.size))
        OBVIOUS
      <3>3. b.word + i \in Nat /\ b.float + j \in 0..8 /\ b.stack <= b.stack + 8 * WordsOf(type.size)
        BY <3>1, <3>2
      <3> QED
        BY <3>2, <3>3 DEF Covered, Counts, NumFloatRegs
    <2> HIDE DEF plus
    <2>3. \/ PassStruct(b, type).used = plus(1, 0)
          \/ PassStruct(b, type).used = plus(2, 0)
          \/ PassStruct(b, type).used = plus(1, 1) /\ FreeFloat(b)
          \/ PassStruct(b, type).used = plus(0, 1) /\ FreeFloat(b)
      BY <1>2 DEF PassStruct, Done, InRegisters, plus
    <2> QED
      BY <2>1, <2>2, <2>3, 0 \in Nat, 1 \in Nat, 2 \in Nat DEF FreeFloat, NumFloatRegs
  <1> QED
    BY <1>1, <1>2

LEMMA ArgumentCovered ==
    ASSUME NEW b \in Counts, NEW type, TypeRight(type)
    PROVE  Covered(AddArgument(b, type).used, b, MaxArgSize(type))
  <1>1. /\ type.size \in Nat /\ type.kind \in {"int", "float", "nfloat", "struct", "union"}
        /\ type.kind = "nfloat" => RoundStack(type.size) <= MaxArgSize(type)
        /\ IsAggregate(type) => 8 * WordsOf(type.size) + 8 = MaxArgSize(type)
        /\ MaxArgSize(type) \in Nat /\ MaxArgSize(type) >= 8
    BY AreaOfOne DEF TypeRight
  <1>2. \A r, m, n : Covered(r, b, m) /\ m \in Int /\ n \in Nat /\ m <= n => Covered(r, b, n)
    BY DEF Covered, Counts
  <1>3. CASE type.kind = "int"
    BY <1>1, <1>2, <1>3, WordCovered DEF AddArgument
  <1>4. CASE type.kind = "float"
    BY <1>1, <1>2, <1>4, FloatCovered DEF AddArgument
  <1>5. CASE type.kind = "nfloat"
    <2>1. AddArgument(b, type) = PassOnStack(b, type.size)
      BY <1>5 DEF AddArgument
    <2>2. RoundStack(type.size) \in Int /\ RoundStack(type.size) <= MaxArgSize(type)
      BY <1>1, <1>5, RoundedUp
    <2>3. Covered(PassOnStack(b, type.size).used, b, RoundStack(type.size))
      BY <1>1, OnStackCovered
    <2> QED
      BY <1>1, <1>2, <2>1, <2>2, <2>3
  <1>6. CASE IsAggregate(type)
    <2>1. AddArgument(b, type) = AddStruct(b, type)
      BY <1>6 DEF AddArgument, IsAggregate
    <2>2. 8 * WordsOf(type.size) \in Nat /\ 8 * WordsOf(type.size) <= MaxArgSize(type)
      BY <1>1, <1>6 DEF WordsOf
    <2> QED
      BY <1>1, <1>2, <2>1, <2>2, StructCovered
  <1> QED
    BY <1>1, <1>3, <1>4, <1>5, <1>6 DEF IsAggregate

LEMMA HiddenWordUsed ==
    HiddenWord.used = Used(IF ReturnViaPointer(result) THEN 1 ELSE 0, 0, 0)
  BY DEF HiddenWord, PassWord, Done, Used, NumWordRegs

LEMMA AreaStep ==
    ASSUME AreaInv, [Next]_vars
    PROVE  AreaInv'
  <1>1. CASE UNCHANGED vars
    BY <1>1 DEF AreaInv, vars
  <1>2. ASSUME NEW type \in ParamTypes, AddParam(type)
        PROVE  AreaInv'
    <2>1. TypeRight(type)
      BY CallsAssumption
    <2> DEFINE n == MaxArgSize(type)
               r == AddArgument(builder, type).used
    <2>2. builder' = IF isNested THEN builder ELSE r
      BY <1>2 DEF AddParam, Done
    <2>3. argSize' = argSize + n
      BY <1>2 DEF AddParam
    <2>4. n \in Nat /\ Covered(r, builder, n)
      BY <2>1, AreaOfOne, ArgumentCovered DEF AreaInv
    <2> HIDE DEF n, r
    <2>5. builder.stack \in Nat
      BY DEF AreaInv, Counts
    <2>6. CASE isNested
      BY <2>2, <2>3, <2>4, <2>5, <2>6 DEF AreaInv
    <2>7. CASE ~isNested
      <3>1. r \in Counts /\ r.stack \in Nat /\ r.stack <= builder.stack + n
        BY <2>4 DEF Covered, Counts
      <3>2. r.stack <= argSize + n /\ argSize + n \in Nat
        BY <2>4, <2>5, <3>1 DEF AreaInv
      <3> QED
        BY <2>2, <2>3, <2>7, <3>1, <3>2 DEF AreaInv
    <2> QED
      BY <2>6, <2>7
  <1> QED
    BY <1>1, <1>2 DEF Next

\* ArgumentsFit holds for every signature, whatever disagreements Faults lets
\* in: jit_apply never writes past the argument area whose size
\* jit_type_get_max_arg_size gives.
THEOREM ArgumentsAlwaysFit == Spec => []ArgumentsFit
  <1>1. Init => AreaInv
    <2> SUFFICES ASSUME Init
                 PROVE  AreaInv
      OBVIOUS
    <2>1. builder = Used(IF ReturnViaPointer(result) THEN 1 ELSE 0, 0, 0)
      BY HiddenWordUsed DEF Init
    <2>2. argSize \in {0, 8}
      BY DEF Init
    <2>3. builder \in Counts /\ builder.stack = 0
      BY <2>1 DEF Counts, Used, NumFloatRegs
    <2> QED
      BY <2>2, <2>3 DEF AreaInv
  <1>2. AreaInv /\ [Next]_vars => AreaInv'
    BY AreaStep
  <1>3. AreaInv => ArgumentsFit
    BY DEF AreaInv, ArgumentsFit
  <1> QED
    BY <1>1, <1>2, <1>3, PTL DEF Spec

-----------------------------------------------------------------------------
(***************************************************************************)
(* Moves that put the bytes of a value in the same places.                 *)
(***************************************************************************)
\* Position pos of a location.
Where(loc, pos) == IF loc[1] = "stack" THEN Stack(loc[2] + pos) ELSE <<loc, pos>>

SamePlaces(one, other, size) == \A byte \in 0..(size - 1) :
  \E place : Places(one, byte) = {place} /\ Places(other, byte) = {place}

LEMMA PlaceOfOne ==
    ASSUME NEW loc, NEW w \in Int, NEW byte \in Nat, byte < w
    PROVE  Places({Move(loc, 0, w)}, byte) = {Where(loc, byte)}
  <1>1. {m \in {Move(loc, 0, w)} : m.at <= byte /\ byte < m.at + m.width} = {Move(loc, 0, w)}
    BY DEF Move
  <1>2. Move(loc, 0, w).loc = loc /\ byte - Move(loc, 0, w).at = byte
    BY DEF Move
  <1> QED
    BY <1>1, <1>2 DEF Places, Where

LEMMA PlaceOfTwo ==
    ASSUME NEW one, NEW two, NEW w \in Int, NEW byte \in Nat, byte < 8 + w
    PROVE  Places({Move(one, 0, 8), Move(two, 8, w)}, byte)
             = {IF byte < 8 THEN Where(one, byte) ELSE Where(two, byte - 8)}
  <1> DEFINE m1 == Move(one, 0, 8)
             m2 == Move(two, 8, w)
  <1>1. m1.loc = one /\ m1.at = 0 /\ m1.width = 8 /\ m2.loc = two /\ m2.at = 8 /\ m2.width = w
    BY DEF Move
  <1> HIDE DEF m1, m2
  <1>2. {m \in {m1, m2} : m.at <= byte /\ byte < m.at + m.width} = {IF byte < 8 THEN m1 ELSE m2}
    BY <1>1
  <1>3. Places({m1, m2}, byte)
          = {Where(m.loc, byte - m.at) : m \in {IF byte < 8 THEN m1 ELSE m2}}
    BY <1>2 DEF Places, Where
  <1>4. byte - 0 = byte
    OBVIOUS
  <1> QED
    BY <1>1, <1>3, <1>4 DEF m1, m2

\* A move may be wider than what is left of the value.
LEMMA OneMove ==
    ASSUME NEW loc, NEW size \in Nat, NEW v \in Int, NEW w \in Int, size <= v, size <= w
    PROVE  SamePlaces({Move(loc, 0, v)}, {Move(loc, 0, w)}, size)
  <1> SUFFICES ASSUME NEW byte \in 0..(size - 1)
               PROVE  \E place : /\ Places({Move(loc, 0, v)}, byte) = {place}
                                 /\ Places({Move(loc, 0, w)}, byte) = {place}
    BY DEF SamePlaces
  <1>1. byte \in Nat /\ byte < v /\ byte < w
    OBVIOUS
  <1> QED
    BY <1>1, PlaceOfOne

LEMMA TwoMoves ==
    ASSUME NEW one, NEW two, NEW size \in Nat, NEW v \in Int, NEW w \in Int,
           size <= 8 + v, size <= 8 + w
    PROVE  SamePlaces({Move(one, 0, 8), Move(two, 8, v)},
                      {Move(one, 0, 8), Move(two, 8, w)}, size)
  <1> SUFFICES ASSUME NEW byte \in 0..(size - 1)
               PROVE  \E place : /\ Places({Move(one, 0, 8), Move(two, 8, v)}, byte) = {place}
                                 /\ Places({Move(one, 0, 8), Move(two, 8, w)}, byte) = {place}
    BY DEF SamePlaces
  <1>1. byte \in Nat /\ byte < 8 + v /\ byte < 8 + w
    OBVIOUS
  <1> DEFINE place == IF byte < 8 THEN Where(one, byte) ELSE Where(two, byte - 8)
  <1>2. Places({Move(one, 0, 8), Move(two, 8, v)}, byte) = {place}
    BY <1>1, PlaceOfTwo
  <1>3. Places({Move(one, 0, 8), Move(two, 8, w)}, byte) = {place}
    BY <1>1, PlaceOfTwo
  <1> QED
    BY <1>2, <1>3

LEMMA SignificantInside ==
    ASSUME NEW type, TypeRight(type)
    PROVE  Significant(type) \subseteq 0..(type.size - 1)
  <1> SUFFICES ASSUME NEW x \in ScalarsOf(type),
                      NEW byte \in x.offset..(x.offset + (IF x.kind = "nfloat" THEN 10 ELSE x.size) - 1)
               PROVE  byte \in 0..(type.size - 1)
    BY DEF Significant
  <1>1. type.size \in Nat
    BY DEF TypeRight
  <1>2. ScalarInside(x, type.size)
    <2>1. CASE IsAggregate(type)
      BY <2>1 DEF ScalarsOf, TypeRight, IsAggregate
    <2>2. CASE ~IsAggregate(type)
      <3>1. type.kind \in {"int", "float", "nfloat"} /\ type.size \in ScalarSizes[type.kind]
        BY <2>2 DEF TypeRight, IsAggregate
      <3>2. x = [kind |-> type.kind, offset |-> 0, size |-> type.size]
        BY <2>2 DEF ScalarsOf
      <3>3. 0 + type.size <= type.size
        BY <1>1
      <3> QED
        BY <3>1, <3>2, <3>3 DEF ScalarInside
    <2> QED
      BY <2>1, <2>2
  <1>3. /\ x.offset \in Nat /\ x.size \in Nat /\ x.offset + x.size <= type.size
        /\ x.kind = "nfloat" => x.size = 16
    BY <1>2 DEF ScalarInside, ScalarSizes
  <1> QED
    BY <1>1, <1>3

LEMMA Meeting ==
    ASSUME NEW type, TypeRight(type), NEW one, NEW other,
           SamePlaces(one, other, type.size)
    PROVE  Meet(type, one, other)
  <1> SUFFICES ASSUME NEW byte \in Significant(type)
               PROVE  Cardinality(Places(one, byte)) = 1 /\ Places(one, byte) = Places(other, byte)
    BY DEF Meet
  <1>1. byte \in 0..(type.size - 1)
    BY SignificantInside
  <1>2. PICK place : Places(one, byte) = {place} /\ Places(other, byte) = {place}
    BY <1>1 DEF SamePlaces
  <1> QED
    BY <1>2, FS_Singleton

-----------------------------------------------------------------------------
(***************************************************************************)
(* Aggregates in registers.                                                *)
(***************************************************************************)
LEMMA CountTo1 ==
    ASSUME NEW s, NEW c
    PROVE  Cardinality({i \in 1..1 : s[i] = c}) = IF s[1] = c THEN 1 ELSE 0
  <1>1. {i \in 1..1 : s[i] = c} = IF s[1] = c THEN {1} ELSE {}
    OBVIOUS
  <1> QED
    BY <1>1, FS_Singleton, FS_EmptySet

LEMMA CountTo2 ==
    ASSUME NEW s, NEW c
    PROVE  Cardinality({i \in 1..2 : s[i] = c})
             = IF s[1] = c THEN (IF s[2] = c THEN 2 ELSE 1) ELSE (IF s[2] = c THEN 1 ELSE 0)
  <1>1. {i \in 1..2 : s[i] = c} = IF s[1] = c THEN (IF s[2] = c THEN 1..2 ELSE {1})
                                            ELSE (IF s[2] = c THEN {2} ELSE {})
    OBVIOUS
  <1>2. Cardinality(1..2) = 2
    <2>1. Cardinality({1} \cup {2}) = Cardinality({1}) + 1
      BY FS_AddElement, FS_Singleton, 2 \notin {1}
    <2>2. 1..2 = {1} \cup {2}
      OBVIOUS
    <2> QED
      BY <2>1, <2>2, FS_Singleton
  <1> QED
    BY <1>1, <1>2, FS_Singleton, FS_EmptySet

LEMMA ListOfOne ==
    ASSUME NEW a
    PROVE  /\ DOMAIN <<a>> = 1..1 /\ <<a>>[1] = a /\ Len(<<a>>) = 1
           /\ ToSet(<<a>>) = {a}
  BY DEF ToSet

LEMMA ListOfTwo ==
    ASSUME NEW a, NEW b
    PROVE  /\ DOMAIN <<a, b>> = 1..2 /\ <<a, b>>[1] = a /\ <<a, b>>[2] = b
           /\ Len(<<a, b>>) = 2 /\ ToSet(<<a, b>>) = {a, b}
  BY DEF ToSet

\* How many word and float registers a list of classes takes.
Words(c)  == Cardinality({i \in DOMAIN c : c[i] = "integer"})
Floats(c) == IF "sse" \in ToSet(c) THEN 1 ELSE 0

LEMMA RegistersOfOne ==
    ASSUME NEW a
    PROVE  /\ Words(<<a>>) = IF a = "integer" THEN 1 ELSE 0
           /\ Floats(<<a>>) = IF a = "sse" THEN 1 ELSE 0
           /\ "memory" \in ToSet(<<a>>) <=> a = "memory"
  BY ListOfOne, CountTo1 DEF Words, Floats

LEMMA RegistersOfTwo ==
    ASSUME NEW a, NEW b
    PROVE  /\ Words(<<a, b>>) = IF a = "integer" THEN (IF b = "integer" THEN 2 ELSE 1)
                                                ELSE (IF b = "integer" THEN 1 ELSE 0)
           /\ Floats(<<a, b>>) = IF a = "sse" \/ b = "sse" THEN 1 ELSE 0
           /\ "memory" \in ToSet(<<a, b>>) <=> a = "memory" \/ b = "memory"
  <1> DEFINE c == <<a, b>>
  <1>1. DOMAIN c = 1..2 /\ c[1] = a /\ c[2] = b /\ ToSet(c) = {a, b}
    BY ListOfTwo
  <1> HIDE DEF c
  <1>2. Words(c) = IF c[1] = "integer" THEN (IF c[2] = "integer" THEN 2 ELSE 1)
                                      ELSE (IF c[2] = "integer" THEN 1 ELSE 0)
    BY <1>1, CountTo2 DEF Words
  <1>3. Floats(c) = IF a = "sse" \/ b = "sse" THEN 1 ELSE 0
    BY <1>1 DEF Floats
  <1>4. "memory" \in ToSet(c) <=> a = "memory" \/ b = "memory"
    BY <1>1
  <1>5. Words(c) = IF a = "integer" THEN (IF b = "integer" THEN 2 ELSE 1)
                                   ELSE (IF b = "integer" THEN 1 ELSE 0)
    BY <1>1, <1>2
  <1> QED
    BY <1>3, <1>4, <1>5 DEF c

\* The lists of classes of an aggregate that may go into registers.
InRegisterLists == {<<"integer">>, <<"sse">>, <<"integer", "integer">>, <<"integer", "sse">>,
                    <<"sse", "integer">>, <<"sse", "sse">>}

LEMMA ListsOfClasses ==
    ASSUME NEW type, TypeRight(type), IsAggregate(type)
    PROVE  /\ "memory" \notin ToSet(type.classes) => type.classes \in InRegisterLists
           /\ type.classes \in {<<"integer">>, <<"sse">>} => type.size <= 8
           /\ type.classes \in InRegisterLists \ {<<"integer">>, <<"sse">>} =>
                type.size > 8 /\ type.size <= 16
  <1>1. type.size \in Nat /\ type.classes \in ClassesOf(type.size)
    BY DEF TypeRight, IsAggregate
  <1>2. CASE type.size > 16
    <2>1. type.classes = <<"memory">>
      BY <1>1, <1>2 DEF ClassesOf
    <2> QED
      BY <2>1, ListOfOne DEF InRegisterLists
  <1>3. CASE type.size > 8 /\ type.size <= 16
    <2>1. PICK a \in {"integer", "sse", "memory"}, b \in {"integer", "sse", "memory"} :
            type.classes = <<a, b>>
      BY <1>1, <1>3 DEF ClassesOf
    <2>2. "memory" \in ToSet(type.classes) <=> a = "memory" \/ b = "memory"
      BY <2>1, RegistersOfTwo
    <2> QED
      BY <1>3, <2>1, <2>2 DEF InRegisterLists
  <1>4. CASE type.size <= 8
    <2>1. PICK a \in {"integer", "sse", "memory"} : type.classes = <<a>>
      BY <1>1, <1>4 DEF ClassesOf
    <2>2. "memory" \in ToSet(type.classes) <=> a = "memory"
      BY <2>1, RegistersOfOne
    <2> QED
      BY <1>4, <2>1, <2>2 DEF InRegisterLists
  <1> QED
    BY <1>1, <1>2, <1>3, <1>4

LEMMA CountsOfLists ==
    /\ Words(<<"integer">>) = 1 /\ Floats(<<"integer">>) = 0
    /\ Words(<<"sse">>) = 0 /\ Floats(<<"sse">>) = 1
    /\ Words(<<"integer", "integer">>) = 2 /\ Floats(<<"integer", "integer">>) = 0
    /\ Words(<<"integer", "sse">>) = 1 /\ Floats(<<"integer", "sse">>) = 1
    /\ Words(<<"sse", "integer">>) = 1 /\ Floats(<<"sse", "integer">>) = 1
    /\ Words(<<"sse", "sse">>) = 0 /\ Floats(<<"sse", "sse">>) = 1
    /\ \A c \in InRegisterLists : "memory" \notin ToSet(c)
  <1>1. \A a : /\ Words(<<a>>) = IF a = "integer" THEN 1 ELSE 0
               /\ Floats(<<a>>) = IF a = "sse" THEN 1 ELSE 0
               /\ "memory" \in ToSet(<<a>>) <=> a = "memory"
    BY RegistersOfOne
  <1>2. \A a, b :
          /\ Words(<<a, b>>) = IF a = "integer" THEN (IF b = "integer" THEN 2 ELSE 1)
                                                ELSE (IF b = "integer" THEN 1 ELSE 0)
          /\ Floats(<<a, b>>) = IF a = "sse" \/ b = "sse" THEN 1 ELSE 0
          /\ "memory" \in ToSet(<<a, b>>) <=> a = "memory" \/ b = "memory"
    BY RegistersOfTwo
  <1>3. \A c \in InRegisterLists : "memory" \notin ToSet(c)
    BY <1>1, <1>2 DEF InRegisterLists
  <1> QED
    BY <1>1, <1>2, <1>3

\* Where the list of classes puts an aggregate.
AsRegisters(regs, used, type) ==
  LET c    == type.classes
      w(i) == regs.word[used.word + i]
      f    == regs.float[used.float + 1]
      tail == PartWidth(type.size - 8)
  IN CASE c = <<"integer">> -> {Move(w(1), 0, WordWidth(type.size))}
       [] c \in {<<"sse">>, <<"sse", "sse">>} -> {Move(f, 0, SseWidth(type.size))}
       [] c = <<"integer", "integer">> -> {Move(w(1), 0, 8), Move(w(2), 8, tail)}
       [] c = <<"integer", "sse">> -> {Move(w(1), 0, 8), Move(f, 8, tail)}
       [] c = <<"sse", "integer">> -> {Move(f, 0, 8), Move(w(1), 8, tail)}

\* There are registers for all of an aggregate.
Room(regs, used, c) == /\ used.word + Words(c) <= Len(regs.word)
                       /\ used.float + Floats(c) <= Len(regs.float)

Taken(used, c) == [used EXCEPT !.word = @ + Words(c), !.float = @ + Floats(c)]

LEMMA StructMoves ==
    ASSUME NEW type, TypeRight(type), IsAggregate(type), NEW regs, NEW used,
           Len(regs.word) \in Nat, Len(regs.float) \in Nat,
           used.word \in Nat, used.float \in Nat
    PROVE  ClassifyStruct(regs, used, type) =
             IF type.classes \in InRegisterLists /\ Room(regs, used, type.classes)
             THEN Done(Taken(used, type.classes), AsRegisters(regs, used, type))
             ELSE AllocSlot(used, type)
  <1> DEFINE c == type.classes
             Reg(i) == IF c[i] = "sse" THEN regs.float[used.float + 1]
                       ELSE regs.word[used.word + Cardinality({j \in 1..i : c[j] = "integer"})]
             Width == IF Words(c) = 1 THEN WordWidth(type.size) ELSE SseWidth(type.size)
             moves == IF Words(c) + Floats(c) = 1
                      THEN {Move(Reg(1), 0, Width)}
                      ELSE {Move(Reg(1), 0, 8), Move(Reg(2), 8, PartWidth(type.size - 8))}
  <1>1. ClassifyStruct(regs, used, type) =
          IF \/ "memory" \in ToSet(c)
             \/ used.word + Words(c) > Len(regs.word)
             \/ used.float + Floats(c) > Len(regs.float)
          THEN AllocSlot(used, type)
          ELSE Done(Taken(used, c), moves)
    BY DEF ClassifyStruct, Words, Floats, Taken
  <1>2. c \in InRegisterLists <=> "memory" \notin ToSet(c)
    BY ListsOfClasses, CountsOfLists
  <1>3. c \in InRegisterLists => Words(c) \in Nat /\ Floats(c) \in Nat
    BY CountsOfLists DEF InRegisterLists
  <1>4. ASSUME c \in InRegisterLists
        PROVE  moves = AsRegisters(regs, used, type)
    <2>1. /\ Reg(1) = IF c[1] = "sse" THEN regs.float[used.float + 1]
                      ELSE regs.word[used.word + (IF c[1] = "integer" THEN 1 ELSE 0)]
          /\ Reg(2) = IF c[2] = "sse" THEN regs.float[used.float + 1]
                      ELSE regs.word[used.word + (IF c[1] = "integer" THEN (IF c[2] = "integer" THEN 2 ELSE 1)
                                                  ELSE (IF c[2] = "integer" THEN 1 ELSE 0))]
      <3>1. Cardinality({j \in 1..1 : c[j] = "integer"}) = IF c[1] = "integer" THEN 1 ELSE 0
        BY CountTo1
      <3>2. Cardinality({j \in 1..2 : c[j] = "integer"})
              = IF c[1] = "integer" THEN (IF c[2] = "integer" THEN 2 ELSE 1)
                ELSE (IF c[2] = "integer" THEN 1 ELSE 0)
        BY CountTo2
      <3> QED
        BY <3>1, <3>2
    <2> HIDE DEF Reg
    <2>2. CASE c = <<"integer">>
      BY <2>1, <2>2, CountsOfLists DEF AsRegisters
    <2>3. CASE c = <<"sse">>
      BY <2>1, <2>3, CountsOfLists DEF AsRegisters
    <2>4. CASE c = <<"integer", "integer">>
      BY <2>1, <2>4, CountsOfLists DEF AsRegisters
    <2>5. CASE c = <<"integer", "sse">>
      BY <2>1, <2>5, CountsOfLists DEF AsRegisters
    <2>6. CASE c = <<"sse", "integer">>
      BY <2>1, <2>6, CountsOfLists DEF AsRegisters
    <2>7. CASE c = <<"sse", "sse">>
      BY <2>1, <2>7, CountsOfLists DEF AsRegisters
    <2> QED
      BY <1>4, <2>2, <2>3, <2>4, <2>5, <2>6, <2>7 DEF InRegisterLists
  <1> HIDE DEF moves, c
  <1>5. (c \in InRegisterLists /\ Room(regs, used, c)) <=>
          ~ \/ "memory" \in ToSet(c)
            \/ used.word + Words(c) > Len(regs.word)
            \/ used.float + Floats(c) > Len(regs.float)
    BY <1>2, <1>3 DEF Room
  <1>6. ClassifyStruct(regs, used, type) =
          IF c \in InRegisterLists /\ Room(regs, used, c)
          THEN Done(Taken(used, c), AsRegisters(regs, used, type))
          ELSE AllocSlot(used, type)
    BY <1>1, <1>4, <1>5
  <1> QED
    BY <1>6 DEF c

-----------------------------------------------------------------------------
(***************************************************************************)
(* What compiled code does with a parameter.  The callee counts from       *)
(* sixteen bytes further up than the caller, and comes to the same.        *)
(***************************************************************************)
Party == {used \in [word : 0..NumWordRegs, float : 0..NumFloatRegs, stack : Nat] :
            used.stack % 8 = 0}

\* The same counts, from the frame pointer of the callee.
Above(used) == [used EXCEPT !.stack = @ + EntryFrame]

LEMMA PartyParts ==
    ASSUME NEW used \in Party
    PROVE  /\ used.word \in 0..6 /\ used.float \in 0..8
           /\ used.stack \in Nat /\ used.stack % 8 = 0
           /\ used = [word |-> used.word, float |-> used.float, stack |-> used.stack]
  BY DEF Party, NumWordRegs, NumFloatRegs

LEMMA PartyOf ==
    ASSUME NEW w \in 0..6, NEW f \in 0..8, NEW s \in Nat, s % 8 = 0
    PROVE  [word |-> w, float |-> f, stack |-> s] \in Party
  BY DEF Party, NumWordRegs, NumFloatRegs

\* The offset at which the next value of an alignment goes on the stack.
SlotAt(n, align) == n + (IF align = 16 THEN n % 16 ELSE 0)

LEMMA SlotOffset ==
    ASSUME NEW n \in Nat, n % 8 = 0, NEW align \in {1, 2, 4, 8, 16}
    PROVE  /\ SlotAt(n, align) \in Nat /\ SlotAt(n, align) % 8 = 0
           /\ SlotAt(n, align) = n + (n % RoundStack(align))
           /\ SlotAt(n, align) = AlignTo(n, RoundStack(align))
           /\ SlotAt(n + 16, align) = SlotAt(n, align) + 16
           /\ (align <= 8 \/ n % align = 0) => SlotAt(n, align) = n
  <1>1. CASE align = 16
    <2>1. RoundStack(align) = 16
      BY <1>1 DEF RoundStack, AlignTo
    <2>2. n % 16 = 0 \/ n % 16 = 8
      BY MultipleOf8
    <2> QED
      BY <1>1, <2>1, <2>2 DEF SlotAt, AlignTo
  <1>2. CASE align \in {1, 2, 4, 8}
    <2>1. RoundStack(align) = 8
      BY <1>2 DEF RoundStack, AlignTo
    <2> QED
      BY <1>2, <2>1 DEF SlotAt, AlignTo
  <1> QED
    BY <1>1, <1>2

LEMMA SlotOnStack ==
    ASSUME NEW used \in Party, NEW type, TypeRight(type)
    PROVE  LET off == SlotAt(used.stack, type.align)
           IN /\ AllocSlot(used, type) =
                   Done([used EXCEPT !.stack = off + RoundStack(type.size)],
                        {Move(Stack(off), 0, type.size)})
              /\ AllocSlot(used, type).used \in Party
  <1> DEFINE off == SlotAt(used.stack, type.align)
             r == [used EXCEPT !.stack = off + RoundStack(type.size)]
  <1>1. type.size \in Nat /\ type.align \in {1, 2, 4, 8, 16}
    BY DEF TypeRight
  <1>2. off \in Nat /\ off % 8 = 0 /\ off = used.stack + (used.stack % RoundStack(type.align))
    BY <1>1, PartyParts, SlotOffset
  <1>3. AllocSlot(used, type) = Done(r, {Move(Stack(off), 0, type.size)})
    BY <1>2 DEF AllocSlot
  <1>4. r \in Party
    <2> HIDE DEF off
    <2> DEFINE s == off + RoundStack(type.size)
    <2>1. s \in Nat /\ s % 8 = 0
      <3>1. RoundStack(type.size) \in Nat /\ RoundStack(type.size) % 8 = 0
        BY <1>1, RoundedUp
      <3>2. \A m, n \in Nat : m % 8 = 0 /\ n % 8 = 0 => (m + n) \in Nat /\ (m + n) % 8 = 0
        OBVIOUS
      <3> QED
        BY <1>2, <3>1, <3>2
    <2> HIDE DEF s
    <2>2. r = [word |-> used.word, float |-> used.float, stack |-> s]
      BY PartyParts DEF s
    <2> QED
      BY <2>1, <2>2, PartyParts, PartyOf
  <1> QED
    BY <1>3, <1>4 DEF Done

\* Whether a parameter finds registers, which, and what is used then.
FindsRegs(used, type) ==
  \/ type.kind = "int" /\ used.word < NumWordRegs
  \/ type.kind = "float" /\ used.float < NumFloatRegs
  \/ /\ IsAggregate(type)
     /\ type.classes \in InRegisterLists /\ Room(ArgRegs, used, type.classes)

RegMoves(used, type) ==
  CASE type.kind = "int" -> {Move(Word(used.word), 0, type.size)}
    [] type.kind = "float" -> {Move(Sse(used.float), 0, type.size)}
    [] OTHER -> AsRegisters(ArgRegs, used, type)

RegsTaken(used, type) ==
  CASE type.kind = "int" -> [used EXCEPT !.word = @ + 1]
    [] type.kind = "float" -> [used EXCEPT !.float = @ + 1]
    [] OTHER -> Taken(used, type.classes)

LEMMA ArgRegsParts ==
    /\ Len(ArgRegs.word) = 6 /\ Len(ArgRegs.float) = 8
    /\ \A i \in 1..6 : ArgRegs.word[i] = Word(i - 1)
    /\ \A i \in 1..8 : ArgRegs.float[i] = Sse(i - 1)
  <1>1. /\ ArgRegs.word = [i \in 1..6 |-> Word(i - 1)]
        /\ ArgRegs.float = [i \in 1..8 |-> Sse(i - 1)]
    BY DEF ArgRegs, NumWordRegs, NumFloatRegs
  <1>3. Len(ArgRegs.word) = 6
    BY <1>1
  <1>4. Len(ArgRegs.float) = 8
    BY <1>1
  <1> QED
    BY <1>1, <1>3, <1>4

LEMMA ParamMoves ==
    ASSUME NEW used \in Party, NEW type, TypeRight(type)
    PROVE  ClassifyParam(used, type) =
             IF FindsRegs(used, type) THEN Done(RegsTaken(used, type), RegMoves(used, type))
             ELSE AllocSlot(used, type)
  <1>1. type.kind \in {"int", "float", "nfloat", "struct", "union"}
    BY DEF TypeRight
  <1>2. CASE IsAggregate(type)
    <2>1. /\ Len(ArgRegs.word) \in Nat /\ Len(ArgRegs.float) \in Nat
          /\ used.word \in Nat /\ used.float \in Nat
      BY ArgRegsParts, PartyParts
    <2>2. ClassifyParam(used, type) = ClassifyStruct(ArgRegs, used, type)
      BY <1>2 DEF ClassifyParam
    <2>3. ClassifyStruct(ArgRegs, used, type) =
             IF type.classes \in InRegisterLists /\ Room(ArgRegs, used, type.classes)
             THEN Done(Taken(used, type.classes), AsRegisters(ArgRegs, used, type))
             ELSE AllocSlot(used, type)
      BY <1>2, <2>1, StructMoves
    <2>4. /\ RegsTaken(used, type) = Taken(used, type.classes)
          /\ RegMoves(used, type) = AsRegisters(ArgRegs, used, type)
          /\ FindsRegs(used, type) <=>
               type.classes \in InRegisterLists /\ Room(ArgRegs, used, type.classes)
      BY <1>2 DEF RegsTaken, RegMoves, FindsRegs, IsAggregate
    <2> QED
      BY <2>2, <2>3, <2>4
  <1>3. CASE type.kind = "int"
    BY <1>3 DEF ClassifyParam, ClassifyArg, IsAggregate, FindsRegs, RegsTaken, RegMoves
  <1>4. CASE type.kind = "float"
    BY <1>4 DEF ClassifyParam, ClassifyArg, IsAggregate, FindsRegs, RegsTaken, RegMoves
  <1>5. CASE type.kind = "nfloat"
    BY <1>5 DEF ClassifyParam, ClassifyArg, IsAggregate, FindsRegs, RegsTaken, RegMoves
  <1> QED
    BY <1>1, <1>2, <1>3, <1>4, <1>5 DEF IsAggregate

LEMMA TakenIsParty ==
    ASSUME NEW used \in Party, NEW type, TypeRight(type), FindsRegs(used, type)
    PROVE  RegsTaken(used, type) \in Party
  <1>1. CASE type.kind = "int"
    <2>1. used.word + 1 \in 0..6
      BY <1>1, PartyParts DEF FindsRegs, IsAggregate, NumWordRegs
    <2>2. RegsTaken(used, type) = [word |-> used.word + 1, float |-> used.float, stack |-> used.stack]
      BY <1>1, PartyParts DEF RegsTaken
    <2> QED
      BY <2>1, <2>2, PartyParts, PartyOf
  <1>2. CASE type.kind = "float"
    <2>1. used.float + 1 \in 0..8
      BY <1>2, PartyParts DEF FindsRegs, IsAggregate, NumFloatRegs
    <2>2. RegsTaken(used, type) = [word |-> used.word, float |-> used.float + 1, stack |-> used.stack]
      BY <1>2, PartyParts DEF RegsTaken
    <2> QED
      BY <2>1, <2>2, PartyParts, PartyOf
  <1>3. CASE ~(type.kind = "int") /\ ~(type.kind = "float")
    <2> DEFINE c == type.classes
               w == Words(c)
               f == Floats(c)
    <2>1. c \in InRegisterLists /\ used.word + w <= 6 /\ used.float + f <= 8
      BY <1>3, ArgRegsParts DEF FindsRegs, Room
    <2>2. w \in 0..2 /\ f \in 0..1
      BY <2>1, CountsOfLists DEF InRegisterLists
    <2>3. RegsTaken(used, type) = [word |-> used.word + w, float |-> used.float + f,
                                   stack |-> used.stack]
      <3>1. RegsTaken(used, type) = Taken(used, c)
        BY <1>3 DEF RegsTaken
      <3>2. Taken(used, c) = [used EXCEPT !.word = @ + w, !.float = @ + f]
        BY DEF Taken
      <3> HIDE DEF w, f, c
      <3> QED
        BY <3>1, <3>2, PartyParts
    <2> HIDE DEF w, f
    <2>4. used.word + w \in 0..6 /\ used.float + f \in 0..8
      BY <2>1, <2>2, PartyParts
    <2> QED
      BY <2>3, <2>4, PartyParts, PartyOf
  <1> QED
    BY <1>1, <1>2, <1>3

LEMMA AboveParts ==
    ASSUME NEW used \in Party
    PROVE  /\ Above(used).word = used.word /\ Above(used).float = used.float
           /\ Above(used).stack = used.stack + 16
           /\ Above(used) \in Party
  <1>1. Above(used) = [word |-> used.word, float |-> used.float, stack |-> used.stack + 16]
    BY PartyParts DEF Above, EntryFrame
  <1>2. used.stack + 16 \in Nat /\ (used.stack + 16) % 8 = 0
    BY PartyParts
  <1>3. [word |-> used.word, float |-> used.float, stack |-> used.stack + 16] \in Party
    BY <1>2, PartyParts, PartyOf
  <1> QED
    BY <1>1, <1>3

\* A register is no place on the stack.
LEMMA RegistersOnly ==
    ASSUME NEW used \in Party, NEW type, TypeRight(type), FindsRegs(used, type)
    PROVE  \A m \in RegMoves(used, type) : m.loc[1] # "stack"
  <1>1. \A i : Word(i)[1] # "stack" /\ Sse(i)[1] # "stack"
    BY DEF Word, Sse
  <1>2. \A loc, at, w : Move(loc, at, w).loc = loc
    BY DEF Move
  <1>3. CASE type.kind = "int" \/ type.kind = "float"
    BY <1>1, <1>2, <1>3 DEF RegMoves
  <1>4. CASE ~(type.kind = "int") /\ ~(type.kind = "float")
    <2> DEFINE c == type.classes
               w(i) == ArgRegs.word[used.word + i]
               f == ArgRegs.float[used.float + 1]
    <2>1. c \in InRegisterLists /\ used.word + Words(c) <= 6 /\ used.float + Floats(c) <= 8
      BY <1>4, ArgRegsParts DEF FindsRegs, Room
    <2>2. \A i \in 1..2 : used.word + i <= 6 => w(i)[1] # "stack"
      BY <1>1, PartyParts, ArgRegsParts
    <2>3. used.float + 1 <= 8 => f[1] # "stack"
      BY <1>1, PartyParts, ArgRegsParts
    <2>4. RegMoves(used, type) = AsRegisters(ArgRegs, used, type)
      BY <1>4 DEF RegMoves
    <2>5. CASE c = <<"integer">>
      BY <1>2, <2>1, <2>2, <2>4, <2>5, CountsOfLists DEF AsRegisters
    <2>6. CASE c \in {<<"sse">>, <<"sse", "sse">>}
      BY <1>2, <2>1, <2>3, <2>4, <2>6, CountsOfLists DEF AsRegisters
    <2>7. CASE c = <<"integer", "integer">>
      <3>1. w(1)[1] # "stack" /\ w(2)[1] # "stack"
        BY <2>1, <2>2, <2>7, CountsOfLists, PartyParts
      <3>2. RegMoves(used, type) = {Move(w(1), 0, 8), Move(w(2), 8, PartWidth(type.size - 8))}
        BY <2>4, <2>7 DEF AsRegisters
      <3> QED
        BY <1>2, <3>1, <3>2
    <2>8. CASE c = <<"integer", "sse">>
      <3>1. w(1)[1] # "stack" /\ f[1] # "stack"
        BY <2>1, <2>2, <2>3, <2>8, CountsOfLists
      <3>2. RegMoves(used, type) = {Move(w(1), 0, 8), Move(f, 8, PartWidth(type.size - 8))}
        BY <2>4, <2>8 DEF AsRegisters
      <3> QED
        BY <1>2, <3>1, <3>2
    <2>9. CASE c = <<"sse", "integer">>
      <3>1. w(1)[1] # "stack" /\ f[1] # "stack"
        BY <2>1, <2>2, <2>3, <2>9, CountsOfLists
      <3>2. RegMoves(used, type) = {Move(f, 0, 8), Move(w(1), 8, PartWidth(type.size - 8))}
        BY <2>4, <2>9 DEF AsRegisters
      <3> QED
        BY <1>2, <3>1, <3>2
    <2> QED
      BY <2>1, <2>5, <2>6, <2>7, <2>8, <2>9 DEF InRegisterLists
  <1> QED
    BY <1>3, <1>4

LEMMA SameFromFrame ==
    ASSUME NEW moves, \A m \in moves : m.loc[1] # "stack"
    PROVE  FromStack(moves) = moves
  BY DEF FromStack

LEMMA SlotFromFrame ==
    ASSUME NEW off \in Nat, NEW w
    PROVE  FromStack({Move(Stack(off + 16), 0, w)}) = {Move(Stack(off), 0, w)}
  <1> DEFINE m == Move(Stack(off + 16), 0, w)
  <1>1. m.loc[1] = "stack" /\ m.loc[2] - EntryFrame = off
    BY DEF Move, Stack, EntryFrame
  <1>2. [m EXCEPT !.loc = Stack(off)] = Move(Stack(off), 0, w)
    BY DEF Move
  <1> HIDE DEF m
  <1>3. FromStack({m}) = {Move(Stack(off), 0, w)}
    BY <1>1, <1>2 DEF FromStack
  <1> QED
    BY <1>3 DEF m

\* Whatever the parameter, caller and callee use up the same and look in the
\* same places.
LEMMA ParamFromFrame ==
    ASSUME NEW used \in Party, NEW type, TypeRight(type)
    PROVE  /\ ClassifyParam(used, type).used \in Party
           /\ ClassifyParam(Above(used), type).used = Above(ClassifyParam(used, type).used)
           /\ FromStack(ClassifyParam(Above(used), type).moves) = ClassifyParam(used, type).moves
  <1> DEFINE up == Above(used)
  <1>1. /\ up \in Party /\ up.word = used.word /\ up.float = used.float
        /\ up.stack = used.stack + 16
    BY AboveParts
  <1>2. /\ FindsRegs(up, type) <=> FindsRegs(used, type)
        /\ RegMoves(up, type) = RegMoves(used, type)
    BY <1>1 DEF FindsRegs, RegMoves, Room, AsRegisters
  <1>3. /\ ClassifyParam(used, type) =
             IF FindsRegs(used, type) THEN Done(RegsTaken(used, type), RegMoves(used, type))
             ELSE AllocSlot(used, type)
        /\ ClassifyParam(up, type) =
             IF FindsRegs(up, type) THEN Done(RegsTaken(up, type), RegMoves(up, type))
             ELSE AllocSlot(up, type)
    BY <1>1, ParamMoves
  <1>4. CASE FindsRegs(used, type)
    <2>1. ClassifyParam(used, type).used = RegsTaken(used, type)
      BY <1>3, <1>4 DEF Done
    <2>2. ClassifyParam(up, type).used = RegsTaken(up, type)
      BY <1>2, <1>3, <1>4 DEF Done
    <2>3. RegsTaken(up, type) = Above(RegsTaken(used, type))
      BY PartyParts DEF RegsTaken, Taken, Above
    <2>4. ClassifyParam(up, type).moves = ClassifyParam(used, type).moves
      BY <1>2, <1>3, <1>4 DEF Done
    <2>5. ClassifyParam(used, type).moves = RegMoves(used, type)
      BY <1>3, <1>4 DEF Done
    <2>6. FromStack(RegMoves(used, type)) = RegMoves(used, type)
      BY <1>4, RegistersOnly, SameFromFrame
    <2> QED
      BY <1>4, <2>1, <2>2, <2>3, <2>4, <2>5, <2>6, TakenIsParty
  <1>5. CASE ~FindsRegs(used, type)
    <2> DEFINE off == SlotAt(used.stack, type.align)
               more == RoundStack(type.size)
    <2>1. off \in Nat /\ SlotAt(up.stack, type.align) = off + 16
      BY <1>1, PartyParts, SlotOffset DEF TypeRight
    <2>2. /\ AllocSlot(used, type) = Done([used EXCEPT !.stack = off + more],
                                          {Move(Stack(off), 0, type.size)})
          /\ AllocSlot(used, type).used \in Party
      BY SlotOnStack
    <2>3. AllocSlot(up, type) = Done([up EXCEPT !.stack = off + 16 + more],
                                     {Move(Stack(off + 16), 0, type.size)})
      BY <1>1, <2>1, SlotOnStack
    <2>4. more \in Nat
      BY RoundedUp DEF TypeRight
    <2> HIDE DEF off, more
    <2>5. [up EXCEPT !.stack = off + 16 + more] = Above([used EXCEPT !.stack = off + more])
      <3>1. up = [word |-> used.word, float |-> used.float, stack |-> used.stack + 16]
        BY PartyParts DEF Above, EntryFrame
      <3>2. off + 16 + more = off + more + 16
        BY <2>1, <2>4
      <3>3. [up EXCEPT !.stack = off + 16 + more]
               = [word |-> used.word, float |-> used.float, stack |-> off + more + 16]
        BY <3>1, <3>2
      <3>4. [used EXCEPT !.stack = off + more]
               = [word |-> used.word, float |-> used.float, stack |-> off + more]
        BY PartyParts
      <3> QED
        BY <3>3, <3>4 DEF Above, EntryFrame
    <2>6. FromStack({Move(Stack(off + 16), 0, type.size)}) = {Move(Stack(off), 0, type.size)}
      BY <2>1, SlotFromFrame
    <2>7. ClassifyParam(used, type) = AllocSlot(used, type) /\ ClassifyParam(up, type) = AllocSlot(up, type)
      BY <1>2, <1>3, <1>5
    <2> QED
      BY <2>2, <2>3, <2>5, <2>6, <2>7 DEF Done
  <1> QED
    BY <1>4, <1>5

-----------------------------------------------------------------------------
(***************************************************************************)
(* What the convention does with a parameter.                              *)
(***************************************************************************)
LEMMA ScalarClasses ==
    ASSUME NEW type, TypeRight(type), ~IsAggregate(type)
    PROVE  ConventionClasses(type) = CASE type.kind = "int"    -> <<"integer">>
                                       [] type.kind = "float"  -> <<"sse">>
                                       [] type.kind = "nfloat" -> <<"memory">>
  <1> DEFINE x == [kind |-> type.kind, offset |-> 0, size |-> type.size]
             Within(k) == {y \in {x} : y.offset \div 8 = k}
  <1>1. /\ type.kind \in {"int", "float", "nfloat"}
        /\ type.kind \in {"int", "float"} => type.size \in {1, 2, 4, 8}
        /\ type.size \in Nat /\ type.size <= 16
    BY DEF TypeRight, IsAggregate, ScalarSizes
  <1>2. ScalarsOf(type) = {x}
    BY DEF ScalarsOf
  <1>3. CASE type.kind = "nfloat"
    BY <1>2, <1>3 DEF ConventionClasses
  <1>4. CASE type.kind \in {"int", "float"}
    <2>1. WordsOf(type.size) = 1 /\ 0 % type.size = 0
      BY <1>1, <1>4 DEF WordsOf
    <2>2. ~(\E y \in {x} : y.kind = "nfloat" \/ y.offset % y.size # 0)
      BY <1>4, <2>1
    <2>3. 0 \div 8 = 0
      OBVIOUS
    <2>4. Within(0) = {x}
      BY <2>3
    <2>5. ConventionClasses(type) =
            [k \in 1..1 |-> IF \E y \in Within(k - 1) : y.kind = "int" THEN "integer" ELSE "sse"]
      BY <1>1, <1>2, <2>1, <2>2 DEF ConventionClasses
    <2>6. \A k \in 1..1 : k - 1 = 0
      OBVIOUS
    <2> HIDE DEF Within
    <2>7. ConventionClasses(type) = [k \in 1..1 |-> IF type.kind = "int" THEN "integer" ELSE "sse"]
      <3>1. \A k \in 1..1 : (\E y \in Within(k - 1) : y.kind = "int") <=> type.kind = "int"
        <4>1. (\E y \in {x} : y.kind = "int") <=> type.kind = "int"
          OBVIOUS
        <4> HIDE DEF x
        <4>2. \A k \in 1..1 : Within(k - 1) = {x}
          BY <2>4, <2>6
        <4> QED
          BY <4>1, <4>2
      <3> HIDE DEF x
      <3> QED
        BY <2>5, <3>1
    <2> QED
      BY <1>4, <2>7
  <1> QED
    BY <1>1, <1>3, <1>4

\* The lists of classes of which no two share a register.
PlainLists == InRegisterLists \ {<<"sse", "sse">>}

\* Where the convention puts what goes into registers.
ByConvention(regs, used, c) ==
  LET w(i) == regs.word[used.word + i]
      f    == regs.float[used.float + 1]
  IN CASE c = <<"integer">> -> {Move(w(1), 0, 8)}
       [] c = <<"sse">> -> {Move(f, 0, 8)}
       [] c = <<"integer", "integer">> -> {Move(w(1), 0, 8), Move(w(2), 8, 8)}
       [] c = <<"integer", "sse">> -> {Move(w(1), 0, 8), Move(f, 8, 8)}
       [] c = <<"sse", "integer">> -> {Move(f, 0, 8), Move(w(1), 8, 8)}

LEMMA ConventionMoves ==
    ASSUME NEW type, NEW regs, NEW used,
           Len(regs.word) \in Nat, Len(regs.float) \in Nat,
           used.word \in Nat, used.float \in Nat,
           ConventionClasses(type) \in PlainLists
    PROVE  Convention(regs, used, type) =
             IF Room(regs, used, ConventionClasses(type))
             THEN ByConvention(regs, used, ConventionClasses(type))
             ELSE {Move(Stack(AlignTo(used.stack, RoundStack(type.align))), 0, type.size)}
  <1> DEFINE c == ConventionClasses(type)
             Of(k, n) == Cardinality({i \in 1..n : c[i] = k})
             all == Len(c)
             Reg(i) == IF c[i] = "integer"
                       THEN regs.word[used.word + Of("integer", i)]
                       ELSE regs.float[used.float + Of("sse", i)]
             stack == {Move(Stack(AlignTo(used.stack, RoundStack(type.align))), 0, type.size)}
  <1>1. Convention(regs, used, type) =
          IF \/ "memory" \in ToSet(c)
             \/ used.word + Of("integer", all) > Len(regs.word)
             \/ used.float + Of("sse", all) > Len(regs.float)
          THEN stack
          ELSE {Move(Reg(i), 8 * (i - 1), 8) : i \in 1..all}
    BY DEF Convention
  <1>2. "memory" \notin ToSet(c)
    BY CountsOfLists DEF PlainLists
  <1>3. \A k : /\ Of(k, 1) = IF c[1] = k THEN 1 ELSE 0
               /\ Of(k, 2) = IF c[1] = k THEN (IF c[2] = k THEN 2 ELSE 1)
                             ELSE (IF c[2] = k THEN 1 ELSE 0)
    <2> HIDE DEF c
    <2> TAKE k
    <2>1. Of(k, 1) = IF c[1] = k THEN 1 ELSE 0
      BY CountTo1
    <2>2. Of(k, 2) = IF c[1] = k THEN (IF c[2] = k THEN 2 ELSE 1)
                     ELSE (IF c[2] = k THEN 1 ELSE 0)
      BY CountTo2
    <2> QED
      BY <2>1, <2>2
  <1> HIDE DEF Of, stack, c
  <1>4. c \in PlainLists
    BY DEF c
  <1>5. /\ Of("integer", all) = Words(c) /\ Of("sse", all) = Floats(c)
        /\ Words(c) \in Nat /\ Floats(c) \in Nat
    <2>1. CASE c = <<"integer">>
      BY <1>3, <2>1, CountsOfLists
    <2>2. CASE c = <<"sse">>
      BY <1>3, <2>2, CountsOfLists
    <2>3. CASE c = <<"integer", "integer">>
      BY <1>3, <2>3, CountsOfLists
    <2>4. CASE c = <<"integer", "sse">>
      BY <1>3, <2>4, CountsOfLists
    <2>5. CASE c = <<"sse", "integer">>
      BY <1>3, <2>5, CountsOfLists
    <2> QED
      BY <1>4, <2>1, <2>2, <2>3, <2>4, <2>5 DEF PlainLists, InRegisterLists
  <1>6. {Move(Reg(i), 8 * (i - 1), 8) : i \in 1..all} = ByConvention(regs, used, c)
    <2>1. Len(c) = 1 => {Move(Reg(i), 8 * (i - 1), 8) : i \in 1..all} = {Move(Reg(1), 0, 8)}
      <3> SUFFICES ASSUME Len(c) = 1
                   PROVE  {Move(Reg(i), 8 * (i - 1), 8) : i \in 1..1} = {Move(Reg(1), 0, 8)}
        OBVIOUS
      <3>1. 1..1 = {1} /\ 8 * (1 - 1) = 0
        OBVIOUS
      <3> QED
        BY <3>1
    <2>2. Len(c) = 2 => {Move(Reg(i), 8 * (i - 1), 8) : i \in 1..all}
                          = {Move(Reg(1), 0, 8), Move(Reg(2), 8, 8)}
      <3> SUFFICES ASSUME Len(c) = 2
                   PROVE  {Move(Reg(i), 8 * (i - 1), 8) : i \in 1..2}
                            = {Move(Reg(1), 0, 8), Move(Reg(2), 8, 8)}
        OBVIOUS
      <3>1. 1..2 = {1, 2} /\ 8 * (1 - 1) = 0 /\ 8 * (2 - 1) = 8
        OBVIOUS
      <3> QED
        BY <3>1
    <2>3. CASE c = <<"integer">>
      BY <1>3, <2>1, <2>3 DEF ByConvention
    <2>4. CASE c = <<"sse">>
      BY <1>3, <2>1, <2>4 DEF ByConvention
    <2>5. CASE c = <<"integer", "integer">>
      BY <1>3, <2>2, <2>5 DEF ByConvention
    <2>6. CASE c = <<"integer", "sse">>
      BY <1>3, <2>2, <2>6 DEF ByConvention
    <2>7. CASE c = <<"sse", "integer">>
      BY <1>3, <2>2, <2>7 DEF ByConvention
    <2> QED
      BY <1>4, <2>3, <2>4, <2>5, <2>6, <2>7 DEF PlainLists, InRegisterLists
  <1>7. Convention(regs, used, type) = IF Room(regs, used, c) THEN ByConvention(regs, used, c) ELSE stack
    <2> HIDE DEF all, Reg
    <2>1. Room(regs, used, c) <=> ~ \/ used.word + Of("integer", all) > Len(regs.word)
                                    \/ used.float + Of("sse", all) > Len(regs.float)
      BY <1>5 DEF Room
    <2> QED
      BY <1>1, <1>2, <1>6, <2>1
  <1> QED
    BY <1>7 DEF c, stack

LEMMA WideEnough ==
    ASSUME NEW n \in Nat
    PROVE  /\ n <= 8 => WordWidth(n) \in Int /\ n <= WordWidth(n)
           /\ n <= 16 => SseWidth(n) \in Int /\ n <= SseWidth(n)
           /\ n <= 16 => PartWidth(n - 8) \in Int /\ n <= 8 + PartWidth(n - 8)
  BY DEF WordWidth, SseWidth, PartWidth

\* An aggregate of which no known fault is told has the classes of the
\* convention, or goes into memory by both.
LEMMA RightlyClassified ==
    ASSUME NEW type, TypeRight(type), IsAggregate(type), ClassFaults(type) = {}
    PROVE  \/ /\ type.classes \in PlainLists
              /\ type.classes = ConventionClasses(type)
           \/ /\ "memory" \in ToSet(type.classes)
              /\ "memory" \in ToSet(ConventionClasses(type))
  <1>1. /\ type.classes # <<"sse", "sse">>
        /\ \/ type.classes = ConventionClasses(type)
           \/ "memory" \in ToSet(type.classes) /\ "memory" \in ToSet(ConventionClasses(type))
    BY DEF ClassFaults
  <1>2. "memory" \notin ToSet(type.classes) => type.classes \in InRegisterLists
    BY ListsOfClasses
  <1>3. CASE "memory" \in ToSet(type.classes)
    BY <1>1, <1>3
  <1>4. CASE "memory" \notin ToSet(type.classes)
    BY <1>1, <1>2, <1>4 DEF PlainLists
  <1> QED
    BY <1>3, <1>4

LEMMA StructAsConvention ==
    ASSUME NEW type, TypeRight(type), IsAggregate(type), NEW regs, NEW used,
           Len(regs.word) \in Nat, Len(regs.float) \in Nat,
           used.word \in Nat, used.float \in Nat,
           type.classes \in PlainLists, type.classes = ConventionClasses(type),
           Room(regs, used, type.classes)
    PROVE  SamePlaces(AsRegisters(regs, used, type), Convention(regs, used, type), type.size)
  <1> DEFINE c == type.classes
             n == type.size
             w(i) == regs.word[used.word + i]
             f == regs.float[used.float + 1]
  <1>1. Convention(regs, used, type) = ByConvention(regs, used, c)
    BY ConventionMoves
  <1>2. /\ n \in Nat
        /\ c \in {<<"integer">>, <<"sse">>} => n <= 8
        /\ c \in InRegisterLists \ {<<"integer">>, <<"sse">>} => n > 8 /\ n <= 16
    BY ListsOfClasses DEF TypeRight
  <1>3. /\ n <= 8 => WordWidth(n) \in Int /\ n <= WordWidth(n)
        /\ n <= 16 => SseWidth(n) \in Int /\ n <= SseWidth(n)
        /\ n <= 16 => PartWidth(n - 8) \in Int /\ n <= 8 + PartWidth(n - 8)
    BY <1>2, WideEnough
  <1> HIDE DEF n
  <1>4. ASSUME n <= 8, NEW loc
        PROVE  /\ SamePlaces({Move(loc, 0, WordWidth(n))}, {Move(loc, 0, 8)}, n)
               /\ SamePlaces({Move(loc, 0, SseWidth(n))}, {Move(loc, 0, 8)}, n)
    <2>1. /\ WordWidth(n) \in Int /\ n <= WordWidth(n)
          /\ SseWidth(n) \in Int /\ n <= SseWidth(n)
      BY <1>2, <1>3, <1>4
    <2>2. \A v \in Int : n <= v => SamePlaces({Move(loc, 0, v)}, {Move(loc, 0, 8)}, n)
      BY <1>2, <1>4, 8 \in Int, OneMove
    <2> QED
      BY <2>1, <2>2
  <1>5. ASSUME n <= 16, NEW one, NEW two
        PROVE  SamePlaces({Move(one, 0, 8), Move(two, 8, PartWidth(n - 8))},
                          {Move(one, 0, 8), Move(two, 8, 8)}, n)
    <2>1. PartWidth(n - 8) \in Int /\ n <= 8 + PartWidth(n - 8) /\ n <= 8 + 8
      BY <1>2, <1>3, <1>5
    <2>2. \A v \in Int : n <= 8 + v => SamePlaces({Move(one, 0, 8), Move(two, 8, v)},
                                                {Move(one, 0, 8), Move(two, 8, 8)}, n)
      BY <1>2, <2>1, 8 \in Int, TwoMoves
    <2> QED
      BY <2>1, <2>2
  <1> HIDE DEF w, f
  <1>6. CASE c = <<"integer">>
    <2>1. n <= 8
      BY <1>2, <1>6 DEF InRegisterLists
    <2>2. AsRegisters(regs, used, type) = {Move(w(1), 0, WordWidth(n))}
      BY <1>6 DEF AsRegisters, n, w, f
    <2>3. ByConvention(regs, used, c) = {Move(w(1), 0, 8)}
      BY <1>6 DEF ByConvention, w, f
    <2> QED
      BY <1>1, <1>4, <2>1, <2>2, <2>3 DEF n
  <1>7. CASE c = <<"sse">>
    <2>1. n <= 8
      BY <1>2, <1>7 DEF InRegisterLists
    <2>2. AsRegisters(regs, used, type) = {Move(f, 0, SseWidth(n))}
      BY <1>7 DEF AsRegisters, n, w, f
    <2>3. ByConvention(regs, used, c) = {Move(f, 0, 8)}
      BY <1>7 DEF ByConvention, w, f
    <2> QED
      BY <1>1, <1>4, <2>1, <2>2, <2>3 DEF n
  <1>8. CASE c = <<"integer", "integer">>
    <2>1. n <= 16
      BY <1>2, <1>8 DEF InRegisterLists
    <2>2. AsRegisters(regs, used, type) = {Move(w(1), 0, 8), Move(w(2), 8, PartWidth(n - 8))}
      BY <1>8 DEF AsRegisters, n, w, f
    <2>3. ByConvention(regs, used, c) = {Move(w(1), 0, 8), Move(w(2), 8, 8)}
      BY <1>8 DEF ByConvention, w, f
    <2> QED
      BY <1>1, <1>5, <2>1, <2>2, <2>3 DEF n
  <1>9. CASE c = <<"integer", "sse">>
    <2>1. n <= 16
      BY <1>2, <1>9 DEF InRegisterLists
    <2>2. AsRegisters(regs, used, type) = {Move(w(1), 0, 8), Move(f, 8, PartWidth(n - 8))}
      BY <1>9 DEF AsRegisters, n, w, f
    <2>3. ByConvention(regs, used, c) = {Move(w(1), 0, 8), Move(f, 8, 8)}
      BY <1>9 DEF ByConvention, w, f
    <2> QED
      BY <1>1, <1>5, <2>1, <2>2, <2>3 DEF n
  <1>10. CASE c = <<"sse", "integer">>
    <2>1. n <= 16
      BY <1>2, <1>10 DEF InRegisterLists
    <2>2. AsRegisters(regs, used, type) = {Move(f, 0, 8), Move(w(1), 8, PartWidth(n - 8))}
      BY <1>10 DEF AsRegisters, n, w, f
    <2>3. ByConvention(regs, used, c) = {Move(f, 0, 8), Move(w(1), 8, 8)}
      BY <1>10 DEF ByConvention, w, f
    <2> QED
      BY <1>1, <1>5, <2>1, <2>2, <2>3 DEF n
  <1> QED
    BY <1>6, <1>7, <1>8, <1>9, <1>10 DEF PlainLists, InRegisterLists

\* Compiled code passes a parameter as the convention says.
LEMMA ParamAsConvention ==
    ASSUME NEW used \in Party, NEW type, TypeRight(type), ClassFaults(type) = {}
    PROVE  SamePlaces(ClassifyParam(used, type).moves, Convention(ArgRegs, used, type), type.size)
  <1> DEFINE off == SlotAt(used.stack, type.align)
             classes == ConventionClasses(type)
  <1>1. /\ off = AlignTo(used.stack, RoundStack(type.align))
        /\ AllocSlot(used, type).moves = {Move(Stack(off), 0, type.size)}
    BY PartyParts, SlotOffset, SlotOnStack DEF TypeRight, Done
  <1>2. ClassifyParam(used, type).moves =
          IF FindsRegs(used, type) THEN RegMoves(used, type) ELSE {Move(Stack(off), 0, type.size)}
    BY <1>1, ParamMoves DEF Done
  <1>3. /\ Len(ArgRegs.word) = 6 /\ Len(ArgRegs.float) = 8
        /\ used.word \in 0..6 /\ used.float \in 0..8
    BY ArgRegsParts, PartyParts
  <1>4. /\ type.size \in Nat /\ type.size <= type.size
        /\ SamePlaces({Move(Stack(off), 0, type.size)}, {Move(Stack(off), 0, type.size)}, type.size)
    BY OneMove DEF TypeRight
  <1>5. classes \in PlainLists =>
          Convention(ArgRegs, used, type) =
            IF Room(ArgRegs, used, classes) THEN ByConvention(ArgRegs, used, classes)
            ELSE {Move(Stack(off), 0, type.size)}
    BY <1>1, <1>3, ConventionMoves
  <1>6. "memory" \in ToSet(classes) => Convention(ArgRegs, used, type) = {Move(Stack(off), 0, type.size)}
    BY <1>1 DEF Convention
  <1> HIDE DEF off
  <1>7. CASE IsAggregate(type)
    <2>1. FindsRegs(used, type) <=> /\ type.classes \in InRegisterLists
                                    /\ Room(ArgRegs, used, type.classes)
      BY <1>7 DEF FindsRegs, IsAggregate
    <2>2. RegMoves(used, type) = AsRegisters(ArgRegs, used, type)
      BY <1>7 DEF RegMoves, IsAggregate
    <2>3. CASE "memory" \in ToSet(type.classes) /\ "memory" \in ToSet(classes)
      <3>1. type.classes \notin InRegisterLists
        BY <2>3, CountsOfLists
      <3> QED
        BY <1>2, <1>4, <1>6, <2>1, <2>3, <3>1
    <2>4. CASE type.classes \in PlainLists /\ type.classes = classes
      <3>1. CASE Room(ArgRegs, used, type.classes)
        <4>1. SamePlaces(AsRegisters(ArgRegs, used, type), Convention(ArgRegs, used, type), type.size)
          BY <1>3, <1>7, <2>4, <3>1, StructAsConvention
        <4> QED
          BY <1>2, <2>1, <2>2, <2>4, <3>1, <4>1 DEF PlainLists
      <3>2. CASE ~Room(ArgRegs, used, type.classes)
        BY <1>2, <1>4, <1>5, <2>1, <2>4, <3>2
      <3> QED
        BY <3>1, <3>2
    <2> QED
      BY <1>7, <2>3, <2>4, RightlyClassified
  <1>8. CASE type.kind = "nfloat"
    <2>1. classes = <<"memory">>
      BY <1>8, ScalarClasses DEF IsAggregate
    <2>2. "memory" \in ToSet(classes)
      BY <2>1, RegistersOfOne
    <2>3. ~FindsRegs(used, type)
      BY <1>8 DEF FindsRegs, IsAggregate
    <2> QED
      BY <1>2, <1>4, <1>6, <2>2, <2>3
  <1>9. CASE type.kind = "int"
    <2>1. classes = <<"integer">> /\ type.size <= 8
      BY <1>9, ScalarClasses DEF IsAggregate, TypeRight, ScalarSizes
    <2>2. FindsRegs(used, type) <=> used.word < 6
      BY <1>9 DEF FindsRegs, IsAggregate, NumWordRegs
    <2>3. Room(ArgRegs, used, classes) <=> used.word < 6
      BY <1>3, <2>1, CountsOfLists DEF Room
    <2>4. CASE used.word < 6
      <3>1. ByConvention(ArgRegs, used, classes) = {Move(ArgRegs.word[used.word + 1], 0, 8)}
        BY <2>1 DEF ByConvention
      <3>2. ArgRegs.word[used.word + 1] = Word(used.word)
        <4>1. used.word + 1 \in 1..6 /\ (used.word + 1) - 1 = used.word
          BY <1>3, <2>4
        <4> QED
          BY <4>1, ArgRegsParts
      <3>3. RegMoves(used, type) = {Move(Word(used.word), 0, type.size)}
        BY <1>9 DEF RegMoves
      <3>4. SamePlaces({Move(Word(used.word), 0, type.size)}, {Move(Word(used.word), 0, 8)}, type.size)
        BY <1>4, <2>1, OneMove
      <3> QED
        BY <1>2, <1>5, <2>1, <2>2, <2>3, <2>4, <3>1, <3>2, <3>3, <3>4 DEF PlainLists, InRegisterLists
    <2>5. CASE ~(used.word < 6)
      BY <1>2, <1>4, <1>5, <2>1, <2>2, <2>3, <2>5 DEF PlainLists, InRegisterLists
    <2> QED
      BY <2>4, <2>5
  <1>10. CASE type.kind = "float"
    <2>1. classes = <<"sse">> /\ type.size <= 8
      BY <1>10, ScalarClasses DEF IsAggregate, TypeRight, ScalarSizes
    <2>2. FindsRegs(used, type) <=> used.float < 8
      BY <1>10 DEF FindsRegs, IsAggregate, NumFloatRegs
    <2>3. Room(ArgRegs, used, classes) <=> used.float < 8
      BY <1>3, <2>1, CountsOfLists DEF Room
    <2>4. CASE used.float < 8
      <3>1. ByConvention(ArgRegs, used, classes) = {Move(ArgRegs.float[used.float + 1], 0, 8)}
        BY <2>1 DEF ByConvention
      <3>2. ArgRegs.float[used.float + 1] = Sse(used.float)
        <4>1. used.float + 1 \in 1..8 /\ (used.float + 1) - 1 = used.float
          BY <1>3, <2>4
        <4> QED
          BY <4>1, ArgRegsParts
      <3>3. RegMoves(used, type) = {Move(Sse(used.float), 0, type.size)}
        BY <1>10 DEF RegMoves
      <3>4. SamePlaces({Move(Sse(used.float), 0, type.size)}, {Move(Sse(used.float), 0, 8)}, type.size)
        BY <1>4, <2>1, OneMove
      <3> QED
        BY <1>2, <1>5, <2>1, <2>2, <2>3, <2>4, <3>1, <3>2, <3>3, <3>4 DEF PlainLists, InRegisterLists
    <2>5. CASE ~(used.float < 8)
      BY <1>2, <1>4, <1>5, <2>1, <2>2, <2>3, <2>5 DEF PlainLists, InRegisterLists
    <2> QED
      BY <2>4, <2>5
  <1> QED
    BY <1>7, <1>8, <1>9, <1>10 DEF TypeRight, IsAggregate

-----------------------------------------------------------------------------
(***************************************************************************)
(* Caller and callee.  What they have used and where they put the last     *)
(* parameter is the same for both, for every signature and all of Faults.  *)
(***************************************************************************)
CompiledInv ==
  /\ caller \in Party /\ entry = Above(caller)
  /\ FromStack(last.entry) = last.caller

LEMMA PointerRight == TypeRight(Int64) /\ ~IsAggregate(Int64) /\ Int64.kind = "int"
  BY DEF Int64, Primitive, TypeRight, ScalarSizes, IsAggregate

LEMMA NothingUsed ==
    /\ Used(0, 0, 0) \in Party
    /\ Used(0, 0, EntryFrame) = Above(Used(0, 0, 0))
  <1>1. Used(0, 0, 0) \in Party
    BY 0 \in 0..6, 0 \in 0..8, 0 % 8 = 0, PartyOf DEF Used
  <1>2. Used(0, 0, EntryFrame) = Above(Used(0, 0, 0))
    BY DEF Used, Above, EntryFrame
  <1> QED
    BY <1>1, <1>2

LEMMA NoMoves == FromStack({}) = {}
  BY DEF FromStack

LEMMA HiddenFromFrame ==
    ASSUME NEW used \in Party
    PROVE  /\ HiddenParams(used).used \in Party
           /\ HiddenParams(Above(used)).used = Above(HiddenParams(used).used)
           /\ FromStack(HiddenParams(Above(used)).moves) = HiddenParams(used).moves
  <1>1. \A u \in Party :
          /\ Hidden(u).used \in Party
          /\ Hidden(Above(u)).used = Above(Hidden(u).used)
          /\ FromStack(Hidden(Above(u)).moves) = Hidden(u).moves
    BY PointerRight, ParamFromFrame DEF Hidden
  <1> DEFINE start == IF isNested THEN Hidden(used).used ELSE used
  <1>2. start \in Party
    BY <1>1
  <1>3. (IF isNested THEN Hidden(Above(used)).used ELSE Above(used)) = Above(start)
    BY <1>1
  <1> HIDE DEF start
  <1>4. HiddenParams(used) = IF ReturnViaPointer(result) THEN Hidden(start) ELSE Done(start, {})
    BY DEF HiddenParams, start
  <1>5. HiddenParams(Above(used)) =
          IF ReturnViaPointer(result) THEN Hidden(Above(start)) ELSE Done(Above(start), {})
    BY <1>3 DEF HiddenParams
  <1>6. CASE ReturnViaPointer(result)
    BY <1>1, <1>2, <1>4, <1>5, <1>6
  <1>7. CASE ~ReturnViaPointer(result)
    BY <1>2, <1>4, <1>5, <1>7, NoMoves DEF Done
  <1> QED
    BY <1>6, <1>7

LEMMA CompiledInit ==
    ASSUME Init
    PROVE  CompiledInv
  <1>1. /\ caller = HiddenParams(Used(0, 0, 0)).used
        /\ entry = HiddenParams(Used(0, 0, EntryFrame)).used
        /\ last.caller = HiddenParams(Used(0, 0, 0)).moves
        /\ last.entry = HiddenParams(Used(0, 0, EntryFrame)).moves
    BY DEF Init
  <1> QED
    BY <1>1, NothingUsed, HiddenFromFrame DEF CompiledInv

LEMMA CompiledStep ==
    ASSUME CompiledInv, [Next]_vars
    PROVE  CompiledInv'
  <1>1. CASE UNCHANGED vars
    BY <1>1 DEF CompiledInv, vars
  <1>2. ASSUME NEW type \in ParamTypes, AddParam(type)
        PROVE  CompiledInv'
    <2>1. TypeRight(type)
      BY CallsAssumption
    <2>2. /\ caller' = ClassifyParam(caller, type).used
          /\ entry' = ClassifyParam(entry, type).used
          /\ last'.caller = ClassifyParam(caller, type).moves
          /\ last'.entry = ClassifyParam(entry, type).moves
      BY <1>2 DEF AddParam
    <2> QED
      BY <2>1, <2>2, ParamFromFrame DEF CompiledInv
  <1> QED
    BY <1>1, <1>2 DEF Next

\* The parameter passed last is one of a signature.
LastRight == last.type = Void \/ TypeRight(last.type)

LEMMA LastInit ==
    ASSUME Init
    PROVE  LastRight
  <1>1. last.type = IF ReturnViaPointer(result) THEN Int64 ELSE Void
    BY DEF Init
  <1> QED
    BY <1>1, PointerRight DEF LastRight

LEMMA LastStep ==
    ASSUME LastRight, [Next]_vars
    PROVE  LastRight'
  <1>1. CASE UNCHANGED vars
    BY <1>1 DEF LastRight, vars
  <1>2. ASSUME NEW type \in ParamTypes, AddParam(type)
        PROVE  LastRight'
    <2>1. TypeRight(type)
      BY CallsAssumption
    <2>2. last'.type = type
      BY <1>2 DEF AddParam
    <2> QED
      BY <2>1, <2>2 DEF LastRight
  <1> QED
    BY <1>1, <1>2 DEF Next

-----------------------------------------------------------------------------
(***************************************************************************)
(* The convention.                                                         *)
(***************************************************************************)
\* No fault of the classification is let in.
Classified == Faults \cap {"oneRegister", "nested"} = {}

LEMMA NoClassFaults ==
    ASSUME Classified, NEW type, ClassFaults(type) \subseteq Faults
    PROVE  ClassFaults(type) = {}
  BY DEF Classified, ClassFaults

ConventionInv == last.known \subseteq Faults =>
  last.type = Void \/ SamePlaces(last.caller, last.convention, last.type.size)

LEMMA ConventionInit ==
    ASSUME Init
    PROVE  ConventionInv
  <1>1. /\ last.type = IF ReturnViaPointer(result) THEN Int64 ELSE Void
        /\ last.caller = HiddenParams(Used(0, 0, 0)).moves
        /\ last.convention = HiddenParams(Used(0, 0, 0)).moves
    BY DEF Init
  <1>2. CASE ~ReturnViaPointer(result)
    BY <1>1, <1>2 DEF ConventionInv
  <1>3. CASE ReturnViaPointer(result)
    <2> DEFINE start == IF isNested THEN Hidden(Used(0, 0, 0)).used ELSE Used(0, 0, 0)
    <2>1. last.caller = Hidden(start).moves
      BY <1>1, <1>3 DEF HiddenParams
    <2>2. \A u \in Party : FindsRegs(u, Int64) <=> u.word < 6
      BY PointerRight DEF FindsRegs, NumWordRegs
    <2>3. \A u \in Party : u.word < 6 =>
            /\ Hidden(u).moves = {Move(Word(u.word), 0, 8)}
            /\ Hidden(u).used.word = u.word + 1
      <3> SUFFICES ASSUME NEW u \in Party, u.word < 6
                   PROVE  /\ Hidden(u).moves = {Move(Word(u.word), 0, 8)}
                          /\ Hidden(u).used.word = u.word + 1
        OBVIOUS
      <3>1. Hidden(u) = Done(RegsTaken(u, Int64), RegMoves(u, Int64))
        BY <2>2, PointerRight, ParamMoves DEF Hidden
      <3>2. RegMoves(u, Int64) = {Move(Word(u.word), 0, 8)}
        BY DEF RegMoves, Int64, Primitive
      <3>3. RegsTaken(u, Int64).word = u.word + 1
        BY PartyParts DEF RegsTaken, Int64, Primitive
      <3> QED
        BY <3>1, <3>2, <3>3 DEF Done
    <2>4. Used(0, 0, 0) \in Party /\ Used(0, 0, 0).word = 0
      BY NothingUsed DEF Used
    <2>5. start \in Party /\ start.word < 6
      <3>1. Hidden(Used(0, 0, 0)).used \in Party
        BY <2>4, PointerRight, ParamFromFrame DEF Hidden
      <3> QED
        BY <2>3, <2>4, <3>1
    <2> HIDE DEF start
    <2>6. last.caller = {Move(Word(start.word), 0, 8)}
      BY <2>1, <2>3, <2>5
    <2>7. last.type.size = 8
      BY <1>1, <1>3 DEF Int64, Primitive
    <2>8. SamePlaces({Move(Word(start.word), 0, 8)}, {Move(Word(start.word), 0, 8)}, 8)
      <3>1. 8 \in Nat /\ 8 \in Int /\ 8 <= 8
        OBVIOUS
      <3> QED
        BY <3>1, OneMove
    <2> QED
      BY <1>1, <2>6, <2>7, <2>8 DEF ConventionInv
  <1> QED
    BY <1>2, <1>3

LEMMA ConventionStep ==
    ASSUME Classified, CompiledInv, ConventionInv, [Next]_vars
    PROVE  ConventionInv'
  <1>1. CASE UNCHANGED vars
    BY <1>1 DEF ConventionInv, vars
  <1>2. ASSUME NEW type \in ParamTypes, AddParam(type)
        PROVE  ConventionInv'
    <2>1. TypeRight(type)
      BY CallsAssumption
    <2>2. /\ last'.type = type /\ last'.known = ClassFaults(type)
          /\ last'.caller = ClassifyParam(caller, type).moves
          /\ last'.convention = Convention(ArgRegs, caller, type)
      BY <1>2 DEF AddParam
    <2>3. ASSUME ClassFaults(type) \subseteq Faults
          PROVE  SamePlaces(ClassifyParam(caller, type).moves,
                            Convention(ArgRegs, caller, type), type.size)
      BY <2>1, <2>3, NoClassFaults, ParamAsConvention DEF CompiledInv
    <2> QED
      BY <2>2, <2>3 DEF ConventionInv
  <1> QED
    BY <1>1, <1>2 DEF Next

\* AsConvention holds for every signature unless one of the two known faults of
\* the classification of structures is let in: the compiled caller and the
\* compiled callee, which count from different bases, put and find every byte of
\* every parameter where the System V convention has it.
THEOREM AlwaysAsConvention == ASSUME Classified PROVE Spec => []AsConvention
  <1> DEFINE Inv == CompiledInv /\ LastRight /\ ConventionInv
  <1>1. Init => Inv
    BY CompiledInit, LastInit, ConventionInit
  <1>2. Inv /\ [Next]_vars => Inv'
    BY CompiledStep, LastStep, ConventionStep
  <1>3. Inv => AsConvention
    <2> SUFFICES ASSUME Inv, last.known \subseteq Faults
                 PROVE  /\ Meet(last.type, last.caller, last.convention)
                        /\ Meet(last.type, FromStack(last.entry), last.convention)
      BY DEF AsConvention
    <2>1. FromStack(last.entry) = last.caller
      BY DEF CompiledInv
    <2>2. CASE last.type = Void
      BY <2>2 DEF Meet
    <2>3. CASE last.type # Void
      BY <2>1, <2>3, Meeting DEF LastRight, ConventionInv
    <2> QED
      BY <2>2, <2>3
  <1> QED
    BY <1>1, <1>2, <1>3, PTL DEF Spec

-----------------------------------------------------------------------------
(***************************************************************************)
(* jit_apply and closures.  Where none of the three known faults is met,   *)
(* they use up what compiled code does and look in the same places.        *)
(***************************************************************************)
NoFault(b, type) ==
  /\ IsAggregate(type) /\ type.classes = <<"integer", "integer">> =>
       b.word \notin {NumWordRegs - 1, NumWordRegs}
  /\ IsAggregate(type) /\ ~InRegisters(b, type) => ~(b.word < NumWordRegs)
  /\ type.align > 8 => b.stack % type.align = 0

\* The moves put the bytes in the same places, those that a closure's parser
\* reads through the register block included.
Alike(one, other, size) ==
  SamePlaces(one, other, size) /\ SamePlaces(ThroughBlock(one), ThroughBlock(other), size)

\* What an argument does to the counts b and where it goes.
SameAs(passed, param, size) ==
  passed.used = param.used /\ Alike(passed.moves, param.moves, size)

LEMMA ThroughMove ==
    ASSUME NEW loc, NEW at, NEW width
    PROVE  [Move(loc, at, width) EXCEPT !.loc = Unset(Move(loc, at, width).loc)]
             = Move(Unset(loc), at, width)
  BY DEF Move

LEMMA OneThrough ==
    ASSUME NEW loc, NEW at, NEW width
    PROVE  ThroughBlock({Move(loc, at, width)}) = {Move(Unset(loc), at, width)}
  BY ThroughMove DEF ThroughBlock

LEMMA TwoThrough ==
    ASSUME NEW one, NEW two, NEW at, NEW v, NEW w
    PROVE  ThroughBlock({Move(one, 0, v), Move(two, at, w)})
             = {Move(Unset(one), 0, v), Move(Unset(two), at, w)}
  BY ThroughMove DEF ThroughBlock

LEMMA OneAlike ==
    ASSUME NEW loc, NEW size \in Nat, NEW v \in Int, NEW w \in Int, size <= v, size <= w
    PROVE  Alike({Move(loc, 0, v)}, {Move(loc, 0, w)}, size)
  <1>1. SamePlaces({Move(loc, 0, v)}, {Move(loc, 0, w)}, size)
    BY OneMove
  <1>2. SamePlaces({Move(Unset(loc), 0, v)}, {Move(Unset(loc), 0, w)}, size)
    BY OneMove
  <1>3. /\ ThroughBlock({Move(loc, 0, v)}) = {Move(Unset(loc), 0, v)}
        /\ ThroughBlock({Move(loc, 0, w)}) = {Move(Unset(loc), 0, w)}
    BY OneThrough
  <1> QED
    BY <1>1, <1>2, <1>3 DEF Alike

LEMMA TwoAlike ==
    ASSUME NEW one, NEW two, NEW size \in Nat, NEW v \in Int, NEW w \in Int,
           size <= 8 + v, size <= 8 + w
    PROVE  Alike({Move(one, 0, 8), Move(two, 8, v)}, {Move(one, 0, 8), Move(two, 8, w)}, size)
  <1> DEFINE moves(a, b, width) == {Move(a, 0, 8), Move(b, 8, width)}
  <1>1. SamePlaces(moves(one, two, v), moves(one, two, w), size)
    BY TwoMoves
  <1>2. SamePlaces(moves(Unset(one), Unset(two), v), moves(Unset(one), Unset(two), w), size)
    BY TwoMoves
  <1>3. /\ ThroughBlock(moves(one, two, v)) = moves(Unset(one), Unset(two), v)
        /\ ThroughBlock(moves(one, two, w)) = moves(Unset(one), Unset(two), w)
    BY TwoThrough
  <1> QED
    BY <1>1, <1>2, <1>3 DEF Alike

LEMMA SameMoves ==
    ASSUME NEW loc, NEW size \in Nat
    PROVE  Alike({Move(loc, 0, size)}, {Move(loc, 0, size)}, size)
  BY OneAlike

LEMMA FreeSlot ==
    ASSUME NEW b \in Party, NEW type, TypeRight(type), NoFault(b, type)
    PROVE  AllocSlot(b, type) = Done([b EXCEPT !.stack = @ + RoundStack(type.size)],
                                     {Move(Stack(b.stack), 0, type.size)})
  <1>1. type.align \in {1, 2, 4, 8, 16} /\ (type.align <= 8 \/ b.stack % type.align = 0)
    BY DEF TypeRight, NoFault
  <1>2. SlotAt(b.stack, type.align) = b.stack
    BY <1>1, PartyParts, SlotOffset
  <1> QED
    BY <1>2, SlotOnStack

LEMMA WordAsCompiled ==
    ASSUME NEW b \in Party, NEW type, TypeRight(type), NoFault(b, type), type.kind = "int"
    PROVE  SameAs(PassWord(b, type.size), ClassifyParam(b, type), type.size)
  <1>1. type.size \in {1, 2, 4, 8}
    BY DEF TypeRight, ScalarSizes
  <1>2. RoundStack(type.size) = 8
    BY <1>1 DEF RoundStack, AlignTo
  <1>3. FindsRegs(b, type) <=> b.word < NumWordRegs
    BY DEF FindsRegs, IsAggregate
  <1>4. /\ RegsTaken(b, type) = [b EXCEPT !.word = @ + 1]
        /\ RegMoves(b, type) = {Move(Word(b.word), 0, type.size)}
    BY DEF RegsTaken, RegMoves
  <1>5. PassWord(b, type.size) = ClassifyParam(b, type)
    BY <1>2, <1>3, <1>4, ParamMoves, FreeSlot DEF PassWord
  <1>6. \/ PassWord(b, type.size).moves = {Move(Word(b.word), 0, type.size)}
        \/ PassWord(b, type.size).moves = {Move(Stack(b.stack), 0, type.size)}
    BY DEF PassWord, Done
  <1> QED
    BY <1>1, <1>5, <1>6, SameMoves DEF SameAs

LEMMA FloatAsCompiled ==
    ASSUME NEW b \in Party, NEW type, TypeRight(type), NoFault(b, type), type.kind = "float"
    PROVE  SameAs(PassFloat(b, type.size), ClassifyParam(b, type), type.size)
  <1>1. type.size \in {4, 8}
    BY DEF TypeRight, ScalarSizes
  <1>2. RoundStack(type.size) = 8
    BY <1>1 DEF RoundStack, AlignTo
  <1>3. FindsRegs(b, type) <=> b.float < NumFloatRegs
    BY DEF FindsRegs, IsAggregate
  <1>4. /\ RegsTaken(b, type) = [b EXCEPT !.float = @ + 1]
        /\ RegMoves(b, type) = {Move(Sse(b.float), 0, type.size)}
    BY DEF RegsTaken, RegMoves
  <1>5. PassFloat(b, type.size) = ClassifyParam(b, type)
    BY <1>2, <1>3, <1>4, ParamMoves, FreeSlot DEF PassFloat
  <1>6. \/ PassFloat(b, type.size).moves = {Move(Sse(b.float), 0, type.size)}
        \/ PassFloat(b, type.size).moves = {Move(Stack(b.stack), 0, type.size)}
    BY DEF PassFloat, Done
  <1> QED
    BY <1>1, <1>5, <1>6, SameMoves DEF SameAs

LEMMA NFloatAsCompiled ==
    ASSUME NEW b \in Party, NEW type, TypeRight(type), NoFault(b, type), type.kind = "nfloat"
    PROVE  SameAs(PassOnStack(b, type.size), ClassifyParam(b, type), type.size)
  <1>1. ~FindsRegs(b, type) /\ type.size \in Nat
    BY DEF FindsRegs, IsAggregate, TypeRight
  <1>2. PassOnStack(b, type.size) = ClassifyParam(b, type)
    BY <1>1, ParamMoves, FreeSlot DEF PassOnStack
  <1>3. PassOnStack(b, type.size).moves = {Move(Stack(b.stack), 0, type.size)}
    BY DEF PassOnStack, Done
  <1> QED
    BY <1>1, <1>2, <1>3, SameMoves DEF SameAs

\* A structure that finds no register is passed on the stack by both ways of
\* passing it word by word.
LEMMA LargeAsCompiled ==
    ASSUME NEW b \in Party, NEW type, TypeRight(type), NoFault(b, type),
           IsAggregate(type), ~InRegisters(b, type)
    PROVE  /\ SameAs(AddLarge(b, type), ClassifyParam(b, type), type.size)
           /\ SameAs(GetLarge(b, type), ClassifyParam(b, type), type.size)
  <1> DEFINE n == WordsOf(type.size)
             slot == Done([b EXCEPT !.stack = @ + 8 * n], {Move(Stack(b.stack), 0, type.size)})
  <1>1. b.word = 6 /\ NumWordRegs = 6
    BY PartyParts DEF NoFault, NumWordRegs
  <1>2. type.size \in Nat /\ n \in Nat /\ 8 * n = RoundStack(type.size)
    <2>1. type.size \in Nat
      BY DEF TypeRight
    <2>2. n \in Nat
      BY <2>1 DEF WordsOf
    <2> QED
      BY <2>1, <2>2, RoundedUp
  <1>3. ~FindsRegs(b, type)
    <2> DEFINE c == type.classes
    <2> SUFFICES ASSUME c \in InRegisterLists, Room(ArgRegs, b, c)
                 PROVE  FALSE
      BY DEF FindsRegs, IsAggregate
    <2>1. 6 + Words(c) <= 6 /\ b.float + Floats(c) <= 8 /\ b.float \in 0..8
      BY <1>1, ArgRegsParts, PartyParts DEF Room
    <2>2. c \in {<<"sse">>, <<"sse", "sse">>}
      BY <2>1, CountsOfLists DEF InRegisterLists
    <2>3. Floats(c) = 1
      BY <2>2, CountsOfLists
    <2>4. b.float < 8
      BY <2>1, <2>3
    <2> QED
      BY <2>2, <2>4 DEF InRegisters, FreeFloat, NumFloatRegs
  <1>4. ClassifyParam(b, type) = slot
    BY <1>2, <1>3, ParamMoves, FreeSlot
  <1> HIDE DEF n
  <1>5. [b EXCEPT !.word = 6] = b
    BY <1>1, PartyParts
  <1>6. Enough(b, n) <=> n = 0
    BY <1>1, <1>2 DEF Enough
  <1>7. CASE n = 0
    <2>1. type.size = 0
      BY <1>2, <1>7, RoundedUp
    <2>2. \A one, other : Alike(one, other, type.size)
      BY <2>1 DEF Alike, SamePlaces
    <2>3. slot.used = b
      <3>1. b.stack + 8 * n = b.stack
        BY <1>7, PartyParts
      <3>2. [b EXCEPT !.stack = b.stack] = b
        BY PartyParts
      <3> QED
        BY <3>1, <3>2 DEF Done
    <2>4. AddLarge(b, type).used = [b EXCEPT !.word = b.word + n]
      <3>1. (IF type.align > 8 /\ n > 1 /\ ~Enough(b, n) THEN NumWordRegs ELSE b.word) = b.word
        BY <1>1
      <3>2. [b EXCEPT !.word = b.word] = b
        BY PartyParts
      <3> QED
        BY <1>6, <1>7, <3>1, <3>2 DEF AddLarge, Done, n
    <2>5. GetLarge(b, type).used = [b EXCEPT !.word = b.word + n]
      BY <1>6, <1>7 DEF GetLarge, Done, n
    <2>6. [b EXCEPT !.word = b.word + n] = b
      BY <1>1, <1>5, <1>7
    <2> QED
      BY <1>4, <2>2, <2>3, <2>4, <2>5, <2>6 DEF SameAs
  <1>8. CASE n # 0
    <2>1. GetLarge(b, type) = Done([b EXCEPT !.word = 6, !.stack = @ + 8 * n],
                                   {Move(Stack(b.stack), 0, type.size)})
      BY <1>1, <1>6, <1>8 DEF GetLarge, n
    <2>2. AddLarge(b, type) = Done([b EXCEPT !.word = 6, !.stack = @ + 8 * n],
                                   {Move(Stack(b.stack), 0, type.size)})
      <3>1. (IF type.align > 8 /\ n > 1 /\ ~Enough(b, n) THEN NumWordRegs ELSE b.word) = 6
        BY <1>1
      <3>2. [b EXCEPT !.word = 6] = b /\ ~(6 - 6 > 0)
        BY <1>5
      <3> QED
        BY <1>1, <1>6, <1>8, <3>1, <3>2 DEF AddLarge, n
    <2>3. [b EXCEPT !.word = 6, !.stack = @ + 8 * n] = [b EXCEPT !.stack = @ + 8 * n]
      BY <1>1, PartyParts
    <2>4. slot.moves = {Move(Stack(b.stack), 0, type.size)}
      BY DEF Done
    <2>5. AddLarge(b, type) = slot /\ GetLarge(b, type) = slot
      BY <2>1, <2>2, <2>3
    <2>6. Alike(slot.moves, slot.moves, type.size)
      BY <1>2, <2>4, SameMoves
    <2> QED
      BY <1>4, <2>5, <2>6 DEF SameAs
  <1> QED
    BY <1>7, <1>8

LEMMA BlockWords ==
    ASSUME NEW i \in 0..5
    PROVE  BlockWord(i) = Word(i)
  BY DEF BlockWord, NumWordRegs

LEMMA CopyTwoWords ==
    ASSUME NEW first \in 0..4, NEW size \in 9..16
    PROVE  CopyWords(first, 2, size)
             = {Move(Word(first), 0, 8), Move(Word(first + 1), 8, size - 8)}
  <1>1. 0..(2 - 1) = {0, 1}
    OBVIOUS
  <1>2. /\ first + 0 = first /\ 8 * 0 = 0 /\ 8 * 1 = 8 /\ first + 1 \in 0..5
        /\ Least(8, size - 8 * 0) = 8 /\ Least(8, size - 8 * 1) = size - 8
    BY DEF Least
  <1>3. BlockWord(first) = Word(first) /\ BlockWord(first + 1) = Word(first + 1)
    BY <1>2, BlockWords
  <1>4. CopyWords(first, 2, size) =
          {Move(BlockWord(first + 0), 8 * 0, Least(8, size - 8 * 0)),
           Move(BlockWord(first + 1), 8 * 1, Least(8, size - 8 * 1))}
    BY <1>1 DEF CopyWords
  <1> QED
    BY <1>2, <1>3, <1>4

LEMMA StructAsCompiled ==
    ASSUME NEW b \in Party, NEW type, TypeRight(type), NoFault(b, type),
           IsAggregate(type), InRegisters(b, type)
    PROVE  SameAs(PassStruct(b, type), ClassifyParam(b, type), type.size)
  <1> DEFINE c == type.classes
             n == type.size
             w(i) == ArgRegs.word[b.word + i]
             f == ArgRegs.float[b.float + 1]
             t == n - 8
  <1>1. /\ b.word \in 0..6 /\ b.float \in 0..8
        /\ NumWordRegs = 6 /\ NumFloatRegs = 8
    BY PartyParts DEF NumWordRegs, NumFloatRegs
  <1>2. /\ c \in InRegisterLists
        /\ c = <<"integer">> => b.word < 6
        /\ c \in {<<"sse">>, <<"sse", "sse">>} => b.float < 8
        /\ c = <<"integer", "integer">> => b.word <= 4
        /\ c \in {<<"integer", "sse">>, <<"sse", "integer">>} => b.word < 6 /\ b.float < 8
    BY <1>1 DEF InRegisters, InRegisterLists, FreeWord, FreeFloat, FreePair, NoFault
  <1>3. Room(ArgRegs, b, c)
    <2>1. Len(ArgRegs.word) = 6 /\ Len(ArgRegs.float) = 8
      BY ArgRegsParts
    <2>2. b.word + Words(c) <= 6 /\ b.float + Floats(c) <= 8
      BY <1>1, <1>2, CountsOfLists DEF InRegisterLists
    <2> QED
      BY <2>1, <2>2 DEF Room
  <1>4. ClassifyParam(b, type) = Done(Taken(b, c), AsRegisters(ArgRegs, b, type))
    <2>1. FindsRegs(b, type)
      BY <1>2, <1>3 DEF FindsRegs
    <2>2. RegsTaken(b, type) = Taken(b, c) /\ RegMoves(b, type) = AsRegisters(ArgRegs, b, type)
      BY DEF RegsTaken, RegMoves, IsAggregate
    <2> QED
      BY <2>1, <2>2, ParamMoves
  <1>5. /\ n \in Nat
        /\ c \in {<<"integer">>, <<"sse">>} => n <= 8
        /\ c \in InRegisterLists \ {<<"integer">>, <<"sse">>} => n > 8 /\ n <= 16
    BY ListsOfClasses DEF TypeRight
  <1>6. /\ n <= 8 => WordWidth(n) \in Int /\ n <= WordWidth(n)
        /\ n <= 16 => SseWidth(n) \in Int /\ n <= SseWidth(n)
        /\ n <= 16 => PartWidth(n - 8) \in Int /\ n <= 8 + PartWidth(n - 8)
    BY <1>5, WideEnough
  <1>7. /\ b.word < 6 => w(1) = Word(b.word) /\ BlockWord(b.word) = Word(b.word)
        /\ b.word <= 4 => w(2) = Word(b.word + 1)
        /\ b.float < 8 => f = Sse(b.float)
    <2>1. b.word < 6 => b.word + 1 \in 1..6 /\ (b.word + 1) - 1 = b.word /\ b.word \in 0..5
      BY <1>1
    <2>2. b.word <= 4 => b.word + 2 \in 1..6 /\ (b.word + 2) - 1 = b.word + 1
      BY <1>1
    <2>3. b.float < 8 => b.float + 1 \in 1..8 /\ (b.float + 1) - 1 = b.float
      BY <1>1
    <2> QED
      BY <2>1, <2>2, <2>3, ArgRegsParts, BlockWords
  <1>8. /\ \A loc : \A v \in Int : n <= v => Alike({Move(loc, 0, n)}, {Move(loc, 0, v)}, n)
        /\ \A one, two : \A v \in Int : n <= 8 + v =>
             Alike({Move(one, 0, 8), Move(two, 8, t)}, {Move(one, 0, 8), Move(two, 8, v)}, n)
    <2>1. n \in Int /\ n <= n /\ t \in Int /\ n <= 8 + t
      BY <1>5
    <2> HIDE DEF n, t
    <2>2. \A loc : \A v \in Int : n <= v => Alike({Move(loc, 0, n)}, {Move(loc, 0, v)}, n)
      BY <1>5, <2>1, OneAlike
    <2>3. \A one, two : \A v \in Int : n <= 8 + v =>
             Alike({Move(one, 0, 8), Move(two, 8, t)}, {Move(one, 0, 8), Move(two, 8, v)}, n)
      BY <1>5, <2>1, TwoAlike
    <2> QED
      BY <2>2, <2>3
  <1> DEFINE plus(i, j) == [b EXCEPT !.word = @ + i, !.float = @ + j]
  <1>9. SUFFICES /\ PassStruct(b, type).used = plus(Words(c), Floats(c))
                 /\ Alike(PassStruct(b, type).moves, AsRegisters(ArgRegs, b, type), n)
    BY <1>4 DEF SameAs, Done, Taken
  <1>10. CASE c = <<"integer">>
    <2>1. PassStruct(b, type) = Done(plus(1, 0), {Move(BlockWord(b.word), 0, n)})
      BY <1>10 DEF PassStruct
    <2>2. AsRegisters(ArgRegs, b, type) = {Move(w(1), 0, WordWidth(n))}
      BY <1>10 DEF AsRegisters
    <2>3. w(1) = BlockWord(b.word) /\ WordWidth(n) \in Int /\ n <= WordWidth(n)
      BY <1>2, <1>5, <1>6, <1>7, <1>10
    <2>4. Words(c) = 1 /\ Floats(c) = 0
      BY <1>10, CountsOfLists
    <2> HIDE DEF n, w, plus, c
    <2> QED
      BY <1>8, <2>1, <2>2, <2>3, <2>4 DEF Done
  <1>11. CASE c \in {<<"sse">>, <<"sse", "sse">>}
    <2>1. PassStruct(b, type) = Done(plus(0, 1), {Move(Sse(b.float), 0, n)})
      BY <1>11 DEF PassStruct
    <2>2. AsRegisters(ArgRegs, b, type) = {Move(f, 0, SseWidth(n))}
      BY <1>11 DEF AsRegisters
    <2>3. f = Sse(b.float) /\ SseWidth(n) \in Int /\ n <= SseWidth(n)
      <3>1. n <= 16
        BY <1>2, <1>5, <1>11
      <3> QED
        BY <1>2, <1>6, <1>7, <1>11, <3>1
    <2>4. Words(c) = 0 /\ Floats(c) = 1
      BY <1>11, CountsOfLists
    <2> HIDE DEF n, f, plus, c
    <2> QED
      BY <1>8, <2>1, <2>2, <2>3, <2>4 DEF Done
  <1>12. CASE c = <<"integer", "integer">>
    <2>1. PassStruct(b, type) = Done(plus(2, 0), CopyWords(b.word, 2, n))
      BY <1>12 DEF PassStruct
    <2>2. AsRegisters(ArgRegs, b, type) = {Move(w(1), 0, 8), Move(w(2), 8, PartWidth(n - 8))}
      BY <1>12 DEF AsRegisters
    <2>3. b.word \in 0..4 /\ b.word < 6 /\ n \in 9..16
      BY <1>1, <1>2, <1>5, <1>12 DEF InRegisterLists
    <2>4. CopyWords(b.word, 2, n) = {Move(w(1), 0, 8), Move(w(2), 8, t)}
      BY <1>7, <2>3, CopyTwoWords
    <2>5. PartWidth(n - 8) \in Int /\ n <= 8 + PartWidth(n - 8)
      BY <1>6, <2>3
    <2>6. Words(c) = 2 /\ Floats(c) = 0
      BY <1>12, CountsOfLists
    <2> HIDE DEF n, w, plus, c, t
    <2> QED
      BY <1>8, <2>1, <2>2, <2>4, <2>5, <2>6 DEF Done
  <1>13. CASE c = <<"integer", "sse">>
    <2>1. PassStruct(b, type) = Done(plus(1, 1), {Move(BlockWord(b.word), 0, 8), Move(Sse(b.float), 8, t)})
      BY <1>13 DEF PassStruct
    <2>2. AsRegisters(ArgRegs, b, type) = {Move(w(1), 0, 8), Move(f, 8, PartWidth(n - 8))}
      BY <1>13 DEF AsRegisters
    <2>3. w(1) = BlockWord(b.word) /\ f = Sse(b.float)
      BY <1>2, <1>7, <1>13
    <2>4. PartWidth(n - 8) \in Int /\ n <= 8 + PartWidth(n - 8)
      BY <1>2, <1>5, <1>6, <1>13
    <2>5. Words(c) = 1 /\ Floats(c) = 1
      BY <1>13, CountsOfLists
    <2> HIDE DEF n, w, f, plus, c, t
    <2> QED
      BY <1>8, <2>1, <2>2, <2>3, <2>4, <2>5 DEF Done
  <1>14. CASE c = <<"sse", "integer">>
    <2>1. PassStruct(b, type) = Done(plus(1, 1), {Move(Sse(b.float), 0, 8), Move(BlockWord(b.word), 8, t)})
      BY <1>14 DEF PassStruct
    <2>2. AsRegisters(ArgRegs, b, type) = {Move(f, 0, 8), Move(w(1), 8, PartWidth(n - 8))}
      BY <1>14 DEF AsRegisters
    <2>3. w(1) = BlockWord(b.word) /\ f = Sse(b.float)
      BY <1>2, <1>7, <1>14
    <2>4. PartWidth(n - 8) \in Int /\ n <= 8 + PartWidth(n - 8)
      BY <1>2, <1>5, <1>6, <1>14
    <2>5. Words(c) = 1 /\ Floats(c) = 1
      BY <1>14, CountsOfLists
    <2> HIDE DEF n, w, f, plus, c, t
    <2> QED
      BY <1>8, <2>1, <2>2, <2>3, <2>4, <2>5 DEF Done
  <1> QED
    BY <1>2, <1>10, <1>11, <1>12, <1>13, <1>14 DEF InRegisterLists

\* What jit_apply stores goes where compiled code passes it, and what a closure
\* reads is what compiled code passes, through the register block.
LEMMA ArgumentAsCompiled ==
    ASSUME NEW b \in Party, NEW type, TypeRight(type), NoFault(b, type)
    PROVE  LET param == ClassifyParam(b, type)
           IN  /\ AddArgument(b, type).used = param.used
               /\ GetArgument(b, type).used = param.used
               /\ SamePlaces(AddArgument(b, type).moves, param.moves, type.size)
               /\ SamePlaces(GetArgument(b, type).moves, ThroughBlock(param.moves), type.size)
  <1> DEFINE param == ClassifyParam(b, type)
             arg == CASE type.kind = "int"    -> PassWord(b, type.size)
                      [] type.kind = "float"  -> PassFloat(b, type.size)
                      [] type.kind = "nfloat" -> PassOnStack(b, type.size)
                      [] OTHER                -> GetStruct(b, type)
  <1>1. SameAs(AddArgument(b, type), param, type.size) /\ SameAs(arg, param, type.size)
    <2>1. CASE type.kind = "int"
      BY <2>1, WordAsCompiled DEF AddArgument
    <2>2. CASE type.kind = "float"
      BY <2>2, FloatAsCompiled DEF AddArgument
    <2>3. CASE type.kind = "nfloat"
      BY <2>3, NFloatAsCompiled DEF AddArgument
    <2>4. CASE IsAggregate(type)
      <3>1. AddArgument(b, type) = AddStruct(b, type) /\ arg = GetStruct(b, type)
        BY <2>4 DEF AddArgument, IsAggregate
      <3> HIDE DEF arg, param
      <3>2. CASE InRegisters(b, type)
        BY <2>4, <3>1, <3>2, StructAsCompiled DEF AddStruct, GetStruct, param
      <3>3. CASE ~InRegisters(b, type)
        BY <2>4, <3>1, <3>3, LargeAsCompiled DEF AddStruct, GetStruct, param
      <3> QED
        BY <3>2, <3>3
    <2> QED
      BY <2>1, <2>2, <2>3, <2>4 DEF TypeRight, IsAggregate
  <1>2. GetArgument(b, type) = Done(arg.used, ThroughBlock(arg.moves))
    BY DEF GetArgument
  <1> HIDE DEF arg, param
  <1>3. /\ GetArgument(b, type).used = arg.used
        /\ GetArgument(b, type).moves = ThroughBlock(arg.moves)
    BY <1>2 DEF Done
  <1> QED
    BY <1>1, <1>3 DEF SameAs, Alike, param

\* No fault of the counts of jit_apply and closures is let in.
Agreed == Faults \cap {"straddle", "inRegisters", "unaligned"} = {}

\* In the calls that jit_apply and closures take part in, they have used what
\* the compiled caller has used.
AppliedInv == ~isNested =>
  /\ builder = caller /\ parser = caller
  /\ \/ last.type = Void
     \/ /\ SamePlaces(last.builder, last.caller, last.type.size)
        /\ SamePlaces(last.parser, ThroughBlock(last.caller), last.type.size)

LEMMA AppliedInit ==
    ASSUME Init
    PROVE  AppliedInv
  <1> SUFFICES ASSUME ~isNested
               PROVE  /\ builder = caller /\ parser = caller
                      /\ \/ last.type = Void
                         \/ /\ SamePlaces(last.builder, last.caller, last.type.size)
                            /\ SamePlaces(last.parser, ThroughBlock(last.caller), last.type.size)
    BY DEF AppliedInv
  <1> DEFINE none == Used(0, 0, 0)
  <1>1. /\ caller = HiddenParams(none).used /\ last.caller = HiddenParams(none).moves
        /\ builder = HiddenWord.used /\ last.builder = HiddenWord.moves
        /\ parser = HiddenWord.used /\ last.parser = HiddenWord.moves
        /\ last.type = IF ReturnViaPointer(result) THEN Int64 ELSE Void
    BY DEF Init
  <1>2. HiddenParams(none) = IF ReturnViaPointer(result) THEN ClassifyParam(none, Int64)
                             ELSE Done(none, {})
    BY DEF HiddenParams, Hidden
  <1>3. Int64.size = 8 /\ Int64.align = 8
    BY DEF Int64, Primitive
  <1>4. none \in Party /\ none.word = 0
    BY NothingUsed DEF Used
  <1>5. NoFault(none, Int64)
    BY <1>3, PointerRight DEF NoFault
  <1>6. SameAs(PassWord(none, 8), ClassifyParam(none, Int64), 8)
    BY <1>3, <1>4, <1>5, PointerRight, WordAsCompiled
  <1>7. CASE ReturnViaPointer(result)
    <2>1. PassWord(none, 8).moves = {Move(Word(0), 0, 8)}
      BY <1>4, PartyParts DEF PassWord, Done, NumWordRegs
    <2>2. Unset(Word(0)) = Word(0)
      BY DEF Unset, Word
    <2>3. ThroughBlock(PassWord(none, 8).moves) = PassWord(none, 8).moves
      BY <2>1, <2>2, OneThrough
    <2> QED
      BY <1>1, <1>2, <1>3, <1>6, <1>7, <2>3 DEF HiddenWord, SameAs, Alike
  <1>8. CASE ~ReturnViaPointer(result)
    BY <1>1, <1>2, <1>8 DEF HiddenWord
  <1> QED
    BY <1>7, <1>8

LEMMA AppliedStep ==
    ASSUME Agreed, CompiledInv, AppliedInv, [Next]_vars
    PROVE  AppliedInv'
  <1>1. CASE UNCHANGED vars
    BY <1>1 DEF AppliedInv, vars
  <1>2. ASSUME NEW type \in ParamTypes, AddParam(type)
        PROVE  AppliedInv'
    <2>1. TypeRight(type)
      BY CallsAssumption
    <2>2. isNested' = isNested
      BY <1>2 DEF AddParam
    <2> SUFFICES ASSUME ~isNested
                 PROVE  /\ builder' = caller' /\ parser' = caller'
                        /\ SamePlaces(last'.builder, last'.caller, last'.type.size)
                        /\ SamePlaces(last'.parser, ThroughBlock(last'.caller), last'.type.size)
      BY <2>2 DEF AppliedInv
    <2>3. builder = caller /\ parser = caller /\ caller \in Party
      BY DEF AppliedInv, CompiledInv
    <2>4. NoFault(caller, type)
      <3>1. ApplyFaults(type) \subseteq Faults
        BY <1>2 DEF AddParam
      <3>2. "straddle" \notin Faults /\ "inRegisters" \notin Faults /\ "unaligned" \notin Faults
        BY DEF Agreed
      <3>3. "straddle" \notin ApplyFaults(type) /\ "inRegisters" \notin ApplyFaults(type)
              /\ "unaligned" \notin ApplyFaults(type)
        BY <3>1, <3>2
      <3>4. ~(/\ IsAggregate(type) /\ type.classes = <<"integer", "integer">>
              /\ builder.word \in {NumWordRegs - 1, NumWordRegs})
        BY <3>3 DEF ApplyFaults
      <3>5. ~(IsAggregate(type) /\ ~InRegisters(builder, type) /\ builder.word < NumWordRegs)
        BY <3>3 DEF ApplyFaults
      <3>6. ~(type.align > 8 /\ caller.stack % type.align # 0)
        BY <3>3 DEF ApplyFaults
      <3> QED
        BY <2>3, <3>4, <3>5, <3>6 DEF NoFault
    <2>5. /\ caller' = ClassifyParam(caller, type).used
          /\ builder' = AddArgument(caller, type).used
          /\ parser' = GetArgument(caller, type).used
          /\ last'.type = type
          /\ last'.caller = ClassifyParam(caller, type).moves
          /\ last'.builder = AddArgument(caller, type).moves
          /\ last'.parser = GetArgument(caller, type).moves
      BY <1>2, <2>3 DEF AddParam
    <2> QED
      BY <2>1, <2>3, <2>4, <2>5, ArgumentAsCompiled
  <1> QED
    BY <1>1, <1>2 DEF Next

LEMMA AppliedInvariant == ASSUME Agreed PROVE Spec => [](CompiledInv /\ LastRight /\ AppliedInv)
  <1> DEFINE Inv == CompiledInv /\ LastRight /\ AppliedInv
  <1>1. Init => Inv
    BY CompiledInit, LastInit, AppliedInit
  <1>2. Inv /\ [Next]_vars => Inv'
    BY CompiledStep, LastStep, AppliedStep
  <1> QED
    BY <1>1, <1>2, PTL DEF Spec

\* ApplyMeetsCallee holds for every signature unless one of the three known
\* faults is met: what jit_apply stores in the register block and the argument
\* area is what the compiled callee takes from the registers and its frame.
THEOREM AlwaysApplyMeetsCallee == ASSUME Agreed PROVE Spec => []ApplyMeetsCallee
  <1>1. CompiledInv /\ LastRight /\ AppliedInv => ApplyMeetsCallee
    <2> SUFFICES ASSUME CompiledInv, LastRight, AppliedInv, ~isNested
                 PROVE  Meet(last.type, last.builder, FromStack(last.entry))
      BY DEF ApplyMeetsCallee
    <2>1. FromStack(last.entry) = last.caller
      BY DEF CompiledInv
    <2>2. CASE last.type = Void
      BY <2>2 DEF Meet
    <2>3. CASE last.type # Void
      BY <2>1, <2>3, Meeting DEF LastRight, AppliedInv
    <2> QED
      BY <2>2, <2>3
  <1> QED
    BY <1>1, AppliedInvariant, PTL

\* ClosureMeetsCaller holds for every signature under the same condition, if the
\* pointer to the stack arguments that _jit_create_closure leaves unset is not
\* held against it: a closure finds every argument that is passed in registers
\* and keeps in step with compiled code on the stack.
THEOREM AlwaysClosureMeetsCaller ==
  ASSUME Agreed, "stackArgs" \notin Faults
  PROVE  Spec => []ClosureMeetsCaller
  <1>1. CompiledInv /\ LastRight /\ AppliedInv => ClosureMeetsCaller
    <2> SUFFICES ASSUME CompiledInv, LastRight, AppliedInv, ~isNested
                 PROVE  Meet(last.type, last.parser, ThroughBlock(last.caller))
      BY DEF ClosureMeetsCaller
    <2>1. CASE last.type = Void
      BY <2>1 DEF Meet
    <2>2. CASE last.type # Void
      BY <2>2, Meeting DEF LastRight, AppliedInv
    <2> QED
      BY <2>1, <2>2
  <1> QED
    BY <1>1, AppliedInvariant, PTL

-----------------------------------------------------------------------------
(***************************************************************************)
(* Results.                                                                *)
(***************************************************************************)
ResultRight == result \in ReturnTypes

\* No fault of a result is let in.
ResultsAgreed == Faults \cap {"memoryResult", "closureResult", "oneRegister", "nested"} = {}

LEMMA ReturnRegsParts ==
    /\ Len(ReturnRegs.word) = 2 /\ Len(ReturnRegs.float) = 2
    /\ ReturnRegs.word[0 + 1] = <<"rax">> /\ ReturnRegs.word[0 + 2] = <<"rdx">>
    /\ ReturnRegs.float[0 + 1] = Sse(0)
  BY DEF ReturnRegs

LEMMA ScalarResult ==
    ASSUME NEW type, TypeRight(type), ~IsAggregate(type)
    PROVE  /\ Meet(type, AppliedResult(type), CompiledResult(type))
           /\ Meet(type, ClosureResult(type), CompiledResult(type))
  <1>1. type.kind \in {"int", "float", "nfloat"} /\ type.size \in Nat
    BY DEF TypeRight, IsAggregate
  <1>2. PICK loc : /\ CompiledResult(type) = {Move(loc, 0, type.size)}
                   /\ AppliedResult(type) = {Move(loc, 0, type.size)}
                   /\ ClosureResult(type) = {Move(loc, 0, type.size)}
    <2>1. CASE type.kind = "int"
      BY <2>1 DEF CompiledResult, AppliedResult, ClosureResult, IsAggregate
    <2>2. CASE type.kind = "float"
      BY <2>2 DEF CompiledResult, AppliedResult, ClosureResult, IsAggregate
    <2>3. CASE type.kind = "nfloat"
      BY <2>3 DEF CompiledResult, AppliedResult, ClosureResult, IsAggregate
    <2> QED
      BY <1>1, <2>1, <2>2, <2>3
  <1>3. SamePlaces({Move(loc, 0, type.size)}, {Move(loc, 0, type.size)}, type.size)
    BY <1>1, SameMoves DEF Alike
  <1> QED
    BY <1>2, <1>3, Meeting

\* An aggregate that is returned in registers.
LEMMA StructResult ==
    ASSUME NEW type, TypeRight(type), IsAggregate(type), type.classes \in InRegisterLists
    PROVE  /\ CompiledResult(type) = AsRegisters(ReturnRegs, Used(0, 0, 0), type)
           /\ Room(ReturnRegs, Used(0, 0, 0), type.classes)
           /\ SamePlaces(AppliedResult(type), CompiledResult(type), type.size)
           /\ "sse" \notin ToSet(type.classes) =>
                SamePlaces(ClosureResult(type), CompiledResult(type), type.size)
  <1> DEFINE none == Used(0, 0, 0)
             c == type.classes
             n == type.size
             t == n - 8
             rax == <<"rax">>
             rdx == <<"rdx">>
  <1>1. /\ none.word = 0 /\ none.float = 0
        /\ Len(ReturnRegs.word) = 2 /\ Len(ReturnRegs.float) = 2
        /\ ReturnRegs.word[none.word + 1] = rax /\ ReturnRegs.word[none.word + 2] = rdx
        /\ ReturnRegs.float[none.float + 1] = Sse(0)
    BY ReturnRegsParts DEF Used
  <1>2. Room(ReturnRegs, none, c)
    <2>1. 0 + Words(c) <= 2 /\ 0 + Floats(c) <= 2
      BY CountsOfLists DEF InRegisterLists
    <2> QED
      BY <1>1, <2>1 DEF Room
  <1>3. CompiledResult(type) = AsRegisters(ReturnRegs, none, type)
    <2>1. CompiledResult(type) = ClassifyStruct(ReturnRegs, none, type).moves
      BY DEF CompiledResult, IsAggregate
    <2>2. ClassifyStruct(ReturnRegs, none, type) = Done(Taken(none, c), AsRegisters(ReturnRegs, none, type))
      BY <1>1, <1>2, StructMoves
    <2> QED
      BY <2>1, <2>2 DEF Done
  <1>4. /\ n \in Nat
        /\ c \in {<<"integer">>, <<"sse">>} => n <= 8
        /\ c \in InRegisterLists \ {<<"integer">>, <<"sse">>} => n > 8 /\ n <= 16
    BY ListsOfClasses DEF TypeRight
  <1>5. /\ n <= 8 => WordWidth(n) \in Int /\ n <= WordWidth(n)
        /\ n <= 16 => SseWidth(n) \in Int /\ n <= SseWidth(n)
        /\ n <= 16 => PartWidth(t) \in Int /\ n <= 8 + PartWidth(t)
    BY <1>4, WideEnough
  <1>6. /\ \A loc : \A v \in Int : n <= v => SamePlaces({Move(loc, 0, n)}, {Move(loc, 0, v)}, n)
        /\ \A one, two : \A v \in Int : n <= 8 + v =>
             SamePlaces({Move(one, 0, 8), Move(two, 8, t)}, {Move(one, 0, 8), Move(two, 8, v)}, n)
    <2>1. n \in Int /\ n <= n /\ t \in Int /\ n <= 8 + t
      BY <1>4
    <2> HIDE DEF n, t
    <2>2. \A loc : \A v \in Int : n <= v => SamePlaces({Move(loc, 0, n)}, {Move(loc, 0, v)}, n)
      BY <1>4, <2>1, OneMove
    <2>3. \A one, two : \A v \in Int : n <= 8 + v =>
             SamePlaces({Move(one, 0, 8), Move(two, 8, t)}, {Move(one, 0, 8), Move(two, 8, v)}, n)
      BY <1>4, <2>1, TwoMoves
    <2> QED
      BY <2>2, <2>3
  <1>7. "sse" \notin ToSet(c) => c \in {<<"integer">>, <<"integer", "integer">>}
    BY ListOfOne, ListOfTwo DEF InRegisterLists
  <1>8. type.kind \in {"struct", "union"}
    BY DEF IsAggregate
  <1>9. ClosureResult(type) = IF n <= 8 THEN {Move(rax, 0, n)} ELSE {Move(rax, 0, 8), Move(rdx, 8, t)}
    BY <1>8 DEF ClosureResult
  <1> SUFFICES /\ SamePlaces(AppliedResult(type), AsRegisters(ReturnRegs, none, type), n)
               /\ c \in {<<"integer">>, <<"integer", "integer">>} =>
                    SamePlaces(ClosureResult(type), AsRegisters(ReturnRegs, none, type), n)
    BY <1>2, <1>3, <1>7
  <1>10. CASE c = <<"integer">>
    <2>1. AppliedResult(type) = {Move(rax, 0, n)}
      BY <1>8, <1>10 DEF AppliedResult
    <2>2. AsRegisters(ReturnRegs, none, type) = {Move(rax, 0, WordWidth(n))}
      BY <1>1, <1>10 DEF AsRegisters
    <2>3. n <= 8 /\ WordWidth(n) \in Int /\ n <= WordWidth(n)
      BY <1>4, <1>5, <1>10
    <2> HIDE DEF n, rax, rdx, none, t
    <2> QED
      BY <1>6, <1>9, <2>1, <2>2, <2>3
  <1>11. CASE c \in {<<"sse">>, <<"sse", "sse">>}
    <2>1. AppliedResult(type) = {Move(Sse(0), 0, n)}
      BY <1>8, <1>11 DEF AppliedResult
    <2>2. AsRegisters(ReturnRegs, none, type) = {Move(Sse(0), 0, SseWidth(n))}
      BY <1>1, <1>11 DEF AsRegisters
    <2>3. n <= 16
      BY <1>4, <1>11
    <2>4. SseWidth(n) \in Int /\ n <= SseWidth(n)
      BY <1>5, <2>3
    <2>5. c \notin {<<"integer">>, <<"integer", "integer">>}
      BY <1>11
    <2> HIDE DEF n, none, c
    <2> QED
      BY <1>6, <2>1, <2>2, <2>4, <2>5
  <1>12. CASE c = <<"integer", "integer">>
    <2>1. AppliedResult(type) = {Move(rax, 0, 8), Move(rdx, 8, t)}
      BY <1>8, <1>12 DEF AppliedResult
    <2>2. AsRegisters(ReturnRegs, none, type) = {Move(rax, 0, 8), Move(rdx, 8, PartWidth(t))}
      BY <1>1, <1>12 DEF AsRegisters
    <2>3. n > 8 /\ n <= 16
      BY <1>4, <1>12 DEF InRegisterLists
    <2>4. ~(n <= 8) /\ PartWidth(t) \in Int /\ n <= 8 + PartWidth(t)
      BY <1>4, <1>5, <2>3
    <2> HIDE DEF n, rax, rdx, none, t
    <2> QED
      BY <1>6, <1>9, <2>1, <2>2, <2>4
  <1>13. CASE c = <<"integer", "sse">>
    <2>1. AppliedResult(type) = {Move(rax, 0, 8), Move(Sse(0), 8, t)}
      BY <1>8, <1>13 DEF AppliedResult
    <2>2. AsRegisters(ReturnRegs, none, type) = {Move(rax, 0, 8), Move(Sse(0), 8, PartWidth(t))}
      BY <1>1, <1>13 DEF AsRegisters
    <2>3. n > 8 /\ n <= 16
      BY <1>4, <1>13 DEF InRegisterLists
    <2>4. PartWidth(t) \in Int /\ n <= 8 + PartWidth(t)
      BY <1>5, <2>3
    <2>5. c \notin {<<"integer">>, <<"integer", "integer">>}
      BY <1>13
    <2> HIDE DEF n, rax, rdx, none, t, c
    <2> QED
      BY <1>6, <2>1, <2>2, <2>4, <2>5
  <1>14. CASE c = <<"sse", "integer">>
    <2>1. AppliedResult(type) = {Move(Sse(0), 0, 8), Move(rax, 8, t)}
      BY <1>8, <1>14 DEF AppliedResult
    <2>2. AsRegisters(ReturnRegs, none, type) = {Move(Sse(0), 0, 8), Move(rax, 8, PartWidth(t))}
      BY <1>1, <1>14 DEF AsRegisters
    <2>3. n > 8 /\ n <= 16
      BY <1>4, <1>14 DEF InRegisterLists
    <2>4. PartWidth(t) \in Int /\ n <= 8 + PartWidth(t)
      BY <1>5, <2>3
    <2>5. c \notin {<<"integer">>, <<"integer", "integer">>}
      BY <1>14
    <2> HIDE DEF n, rax, rdx, none, t, c
    <2> QED
      BY <1>6, <2>1, <2>2, <2>4, <2>5
  <1> QED
    BY <1>10, <1>11, <1>12, <1>13, <1>14 DEF InRegisterLists

\* ResultMeets holds for every result type unless one of the four known faults
\* is let in: compiled code, jit_apply and closures give back and look for a
\* result in the same registers, those of the convention.
THEOREM ResultAlwaysMeets == ASSUME ResultsAgreed PROVE Spec => []ResultMeets
  <1>1. Init => ResultRight
    BY DEF Init, ResultRight
  <1>2. ResultRight /\ [Next]_vars => ResultRight'
    BY DEF ResultRight, Next, AddParam, vars
  <1>3. ResultRight => ResultMeets
    <2> DEFINE compiled == CompiledResult(result)
    <2> SUFFICES ASSUME ResultRight, MemoryFaults(result) \subseteq Faults
                 PROVE  /\ Meet(result, AppliedResult(result), compiled)
                        /\ ClosureFaults(result) \subseteq Faults =>
                             Meet(result, ClosureResult(result), compiled)
                        /\ IsAggregate(result) /\ ClassFaults(result) \subseteq Faults =>
                             Meet(result, compiled, Convention(ReturnRegs, Used(0, 0, 0), result))
      BY DEF ResultMeets
    <2>1. CASE result = Void
      BY <2>1 DEF Meet
    <2>2. CASE result # Void /\ ~IsAggregate(result)
      <3>1. TypeRight(result)
        BY <2>2, CallsAssumption DEF ResultRight
      <3> QED
        BY <2>2, <3>1, ScalarResult
    <2>3. CASE result # Void /\ IsAggregate(result)
      <3>1. TypeRight(result)
        BY <2>3, CallsAssumption DEF ResultRight
      <3>2. "memory" \notin ToSet(result.classes)
        BY <2>3 DEF MemoryFaults, ResultsAgreed
      <3>3. result.classes \in InRegisterLists
        BY <2>3, <3>1, <3>2, ListsOfClasses
      <3>4. /\ compiled = AsRegisters(ReturnRegs, Used(0, 0, 0), result)
            /\ Room(ReturnRegs, Used(0, 0, 0), result.classes)
            /\ SamePlaces(AppliedResult(result), compiled, result.size)
            /\ "sse" \notin ToSet(result.classes) =>
                 SamePlaces(ClosureResult(result), compiled, result.size)
        BY <2>3, <3>1, <3>3, StructResult
      <3> HIDE DEF compiled
      <3>5. Meet(result, AppliedResult(result), compiled)
        BY <3>1, <3>4, Meeting
      <3>6. ASSUME ClosureFaults(result) \subseteq Faults
            PROVE  Meet(result, ClosureResult(result), compiled)
        <4>1. "sse" \notin ToSet(result.classes)
          BY <2>3, <3>6 DEF ClosureFaults, ResultsAgreed
        <4> QED
          BY <3>1, <3>4, <4>1, Meeting
      <3>7. ASSUME ClassFaults(result) \subseteq Faults
            PROVE  Meet(result, compiled, Convention(ReturnRegs, Used(0, 0, 0), result))
        <4>1. ClassFaults(result) = {}
          BY <3>7, NoClassFaults DEF ResultsAgreed, Classified
        <4>2. result.classes \in PlainLists /\ result.classes = ConventionClasses(result)
          BY <2>3, <3>1, <3>2, <4>1, RightlyClassified
        <4>3. /\ Len(ReturnRegs.word) \in Nat /\ Len(ReturnRegs.float) \in Nat
              /\ Used(0, 0, 0).word \in Nat /\ Used(0, 0, 0).float \in Nat
          BY ReturnRegsParts DEF Used
        <4>4. SamePlaces(compiled, Convention(ReturnRegs, Used(0, 0, 0), result), result.size)
          BY <2>3, <3>1, <3>4, <4>2, <4>3, StructAsConvention
        <4> QED
          BY <3>1, <4>4, Meeting
      <3> QED
        BY <3>5, <3>6, <3>7
    <2> QED
      BY <2>1, <2>2, <2>3
  <1> QED
    BY <1>1, <1>2, <1>3, PTL DEF Spec

=============================================================================
