-------------------------------- MODULE Calls --------------------------------
(***************************************************************************)
(* One call on x86-64, seen by the five pieces of code that must agree on  *)
(* where every argument and the result are: a compiled caller              *)
(* (_jit_create_call_setup_insns), a compiled callee                       *)
(* (_jit_create_entry_insns), jit_apply, the handler of a closure, and the *)
(* System V calling convention the first four follow.                      *)
(*                                                                         *)
(* An argument travels as a set of moves: the bytes from "at" on, "width"  *)
(* of them, go through one location.  The parameters are classified from   *)
(* left to right; every party keeps its own counts of what is used, and    *)
(* nothing tells one party what the others decided.                        *)
(***************************************************************************)
EXTENDS TypeLayout, FiniteSets, FiniteSetsExt

CONSTANTS
  ParamTypes,     \* the types a parameter may have
  ReturnTypes,    \* the types the result may have; Void for none
  MaxStack,       \* bound: no parameter is added above this many bytes of stack
  Faults          \* the known disagreements an execution may run into

Void == [kind |-> "void", size |-> 0, align |-> 0, components |-> <<>>]

\* What the properties of a call take a type to be: the sizes of scalars are those
\* of x86-64, no alignment beyond sixteen is imposed (the frame of a callee is
\* aligned to no more), an aggregate has one class for each of up to two
\* eightbytes, and its scalars lie inside of it.
ScalarSizes == [int |-> {1, 2, 4, 8}, float |-> {4, 8}, nfloat |-> {16}]

ClassesOf(size) ==
  CASE size > 16 -> {<<"memory">>}
    [] size \in 9..16 -> {<<a, b>> : a \in {"integer", "sse", "memory"},
                                     b \in {"integer", "sse", "memory"}}
    [] OTHER -> {<<a>> : a \in {"integer", "sse", "memory"}}

ScalarInside(x, size) ==
  /\ x.kind \in {"int", "float", "nfloat"} /\ x.size \in ScalarSizes[x.kind]
  /\ x.offset \in Nat /\ x.offset + x.size <= size

TypeRight(type) ==
  /\ type.size \in Nat /\ type.align \in {1, 2, 4, 8, 16}
  /\ \/ /\ type.kind \in {"int", "float", "nfloat"}
        /\ type.size \in ScalarSizes[type.kind]
     \/ /\ type.kind \in {"struct", "union"}
        /\ type.classes \in ClassesOf(type.size)
        /\ \A x \in type.scalars : ScalarInside(x, type.size)

ASSUME CallsAssumption ==
  /\ MaxStack \in Nat
  /\ Faults \subseteq {"straddle", "inRegisters", "unaligned", "oneRegister",
                       "nested", "memoryResult", "closureResult", "stackArgs"}
  /\ \A type \in ParamTypes \cup (ReturnTypes \ {Void}) : TypeRight(type)

VARIABLES
  result,     \* the return type of the signature
  isNested,   \* whether the callee is a nested function
  caller,     \* jit_param_passing_t of the compiled caller
  entry,      \* jit_param_passing_t of the compiled callee
  builder,    \* jit_apply_builder of jit_apply
  parser,     \* jit_apply_builder a closure parses its arguments with
  argSize,    \* jit_type_get_max_arg_size of the parameters so far
  last        \* the moves of the last parameter, as each party made them

vars == <<result, isNested, caller, entry, builder, parser, argSize, last>>

-----------------------------------------------------------------------------
(* Locations and moves *)

NumWordRegs  == 6
NumFloatRegs == 8

Word(i)    == <<"word", i>>
Sse(i)     == <<"sse", i>>
Stack(off) == <<"stack", off>>
Move(loc, at, width) == [loc |-> loc, at |-> at, width |-> width]

RoundStack(n) == AlignTo(n, 8)
Least(a, b)   == IF a < b THEN a ELSE b

\* What a party has used: registers of both kinds, and bytes of stack.
Used(words, floats, bytes) == [word |-> words, float |-> floats, stack |-> bytes]
Done(used, moves) == [used |-> used, moves |-> moves]

-----------------------------------------------------------------------------
(* Classification (jit-apply-x86-64.c) *)

\* The widths in which registers are loaded and stored: a general register with
\* a small aggregate, an SSE register, and the second of two registers.
WordWidth(n) == IF n <= 2 THEN n ELSE IF n <= 4 THEN 4 ELSE 8
SseWidth(n)  == IF n <= 4 THEN 4 ELSE IF n <= 8 THEN 8 ELSE 16
PartWidth(n) == IF n <= 4 THEN 4 ELSE 8

\* A mutant of AllocSlot: the slot follows the last one, whatever the alignment.
AllocSlot_Packed(used, type) ==
  Done([used EXCEPT !.stack = @ + RoundStack(type.size)],
       {Move(Stack(used.stack), 0, type.size)})

\* _jit_alloc_param_slot
AllocSlot(used, type) ==
  LET align == RoundStack(type.align)
      off   == used.stack + (used.stack % align)
  IN Done([used EXCEPT !.stack = off + RoundStack(type.size)],
          {Move(Stack(off), 0, type.size)})

\* A mutant of ReturnRegs: the two halves of a result change places.
ReturnRegs_Swapped == [word  |-> <<<<"rdx">>, <<"rax">>>>,
                       float |-> <<Sse(0), Sse(1)>>]

\* The argument registers (_jit_init_args) and those of a result
\* (_jit_classify_struct_return), in the order they are handed out.
ArgRegs    == [word  |-> [i \in 1..NumWordRegs |-> Word(i - 1)],
               float |-> [i \in 1..NumFloatRegs |-> Sse(i - 1)]]
ReturnRegs == [word  |-> <<<<"rax">>, <<"rdx">>>>,
               float |-> <<Sse(0), Sse(1)>>]

\* _jit_classify_struct: an aggregate goes into registers when there are enough
\* for all of it.  Two SSE eightbytes share one register.
ClassifyStruct(regs, used, type) ==
  LET classes == type.classes
      words   == Cardinality({i \in DOMAIN classes : classes[i] = "integer"})
      floats  == IF "sse" \in ToSet(classes) THEN 1 ELSE 0
      Reg(i)  == IF classes[i] = "sse" THEN regs.float[used.float + 1]
                 ELSE regs.word[used.word + Cardinality({j \in 1..i : classes[j] = "integer"})]
      Width   == IF words = 1 THEN WordWidth(type.size) ELSE SseWidth(type.size)
  IN IF \/ "memory" \in ToSet(classes)
        \/ used.word + words > Len(regs.word)
        \/ used.float + floats > Len(regs.float)
     THEN AllocSlot(used, type)
     ELSE Done([used EXCEPT !.word = @ + words, !.float = @ + floats],
               IF words + floats = 1
               THEN {Move(Reg(1), 0, Width)}
               ELSE {Move(Reg(1), 0, 8), Move(Reg(2), 8, PartWidth(type.size - 8))})

\* _jit_classify_param
ClassifyParam(used, type) ==
  IF IsAggregate(type) THEN ClassifyStruct(ArgRegs, used, type)
  ELSE CASE ClassifyArg(type) = "integer" /\ used.word < NumWordRegs ->
              Done([used EXCEPT !.word = @ + 1], {Move(Word(used.word), 0, type.size)})
         [] ClassifyArg(type) = "sse" /\ used.float < NumFloatRegs ->
              Done([used EXCEPT !.float = @ + 1], {Move(Sse(used.float), 0, type.size)})
         [] OTHER -> AllocSlot(used, type)

-----------------------------------------------------------------------------
(* jit_apply and the handler of a closure (jit-apply.c and the macros      *)
(* gen-apply.c writes): their own counts over the register block.          *)

\* Slot i of word_regs in the register block; behind the six lie a padding word
\* and the SSE registers.
BlockWord(i) == CASE i < NumWordRegs      -> Word(i)
                  [] i = NumWordRegs      -> <<"padding">>
                  [] i = NumWordRegs + 1  -> Sse(0)
                  [] OTHER                -> <<"behind", i>>

WordsOf(n) == (n + 7) \div 8

\* Word after word of a value through consecutive slots.
CopyWords(first, n, size) ==
  {Move(BlockWord(first + i), 8 * i, Least(8, size - 8 * i)) : i \in 0..(n - 1)}

\* What a parser reads at these places.  It reads the stack through the pointer
\* stack_args of the register block, which _jit_create_closure does not store: the
\* block has the registers, and what was in its memory before for the pointer.
Unset(loc) == IF loc[1] = "stack" THEN <<"unset", loc[2]>> ELSE loc
ThroughBlock(moves) == {[m EXCEPT !.loc = Unset(m.loc)] : m \in moves}

\* jit_apply_builder_add_word, jit_apply_parser_get_word
PassWord(b, size) ==
  IF b.word < NumWordRegs
  THEN Done([b EXCEPT !.word = @ + 1], {Move(Word(b.word), 0, size)})
  ELSE Done([b EXCEPT !.stack = @ + 8], {Move(Stack(b.stack), 0, size)})

\* jit_apply_builder_add_float32 and _float64, and their counterparts.
PassFloat(b, size) ==
  IF b.float < NumFloatRegs
  THEN Done([b EXCEPT !.float = @ + 1], {Move(Sse(b.float), 0, size)})
  ELSE Done([b EXCEPT !.stack = @ + 8], {Move(Stack(b.stack), 0, size)})

\* jit_apply_builder_add_large_stack: behind what is there, whatever the
\* alignment.
PassOnStack(b, size) ==
  Done([b EXCEPT !.stack = @ + RoundStack(size)], {Move(Stack(b.stack), 0, size)})

\* (6 - word_used) >= num_words, in unsigned arithmetic.
Enough(b, n) == b.word > NumWordRegs \/ NumWordRegs - b.word >= n

\* jit_apply_builder_add_large_inner
AddLarge(b, type) ==
  LET n    == WordsOf(type.size)
      w    == IF type.align > 8 /\ n > 1 /\ ~Enough(b, n) THEN NumWordRegs ELSE b.word
      fit  == NumWordRegs - w
  IN IF Enough([b EXCEPT !.word = w], n)
     THEN Done([b EXCEPT !.word = w + n], CopyWords(w, n, type.size))
     ELSE IF fit > 0
     THEN Done([b EXCEPT !.word = NumWordRegs, !.stack = n - fit],
               CopyWords(w, fit, 8 * fit)
                 \cup {Move(Stack(0), 8 * fit, type.size - 8 * fit)})
     ELSE Done([b EXCEPT !.word = NumWordRegs, !.stack = @ + 8 * n],
               {Move(Stack(b.stack), 0, type.size)})

\* jit_apply_parser_get_struct
GetLarge(b, type) ==
  LET n == WordsOf(type.size)
  IN IF Enough(b, n)
     THEN Done([b EXCEPT !.word = @ + n], CopyWords(b.word, n, type.size))
     ELSE Done([b EXCEPT !.word = NumWordRegs, !.stack = @ + 8 * n],
               {Move(Stack(b.stack), 0, type.size)})

\* The ways in which _jit_builtin_apply_add_struct and _get_struct use registers,
\* and the tests they make: two words are tested for with one too many.
FreeWord(b)  == b.word < NumWordRegs
FreeFloat(b) == b.float < NumFloatRegs
FreePair(b)  == b.word < NumWordRegs + 1

InRegisters(b, type) ==
  LET c == type.classes
  IN \/ c = <<"integer">> /\ FreeWord(b)
     \/ c \in {<<"sse">>, <<"sse", "sse">>} /\ FreeFloat(b)
     \/ c = <<"integer", "integer">> /\ FreePair(b)
     \/ c \in {<<"integer", "sse">>, <<"sse", "integer">>} /\ FreeWord(b) /\ FreeFloat(b)

PassStruct(b, type) ==
  LET c      == type.classes
      tail   == type.size - 8
      word   == BlockWord(b.word)
      float  == Sse(b.float)
      plus(w, f) == [b EXCEPT !.word = @ + w, !.float = @ + f]
  IN CASE c = <<"integer">>            -> Done(plus(1, 0), {Move(word, 0, type.size)})
       [] c = <<"integer", "integer">> -> Done(plus(2, 0), CopyWords(b.word, 2, type.size))
       [] c = <<"integer", "sse">>     -> Done(plus(1, 1), {Move(word, 0, 8), Move(float, 8, tail)})
       [] c = <<"sse", "integer">>     -> Done(plus(1, 1), {Move(float, 0, 8), Move(word, 8, tail)})
       [] OTHER                        -> Done(plus(0, 1), {Move(float, 0, type.size)})

\* A mutant of GetStruct: the parser of the machines without a convention for
\* structures of their own.
GetStruct_Words(b, type) == GetLarge(b, type)

\* _jit_builtin_apply_add_struct and _jit_builtin_apply_get_struct
AddStruct(b, type) == IF InRegisters(b, type) THEN PassStruct(b, type) ELSE AddLarge(b, type)
GetStruct(b, type) == IF InRegisters(b, type) THEN PassStruct(b, type) ELSE GetLarge(b, type)

\* A mutant of AddArgument: a native float goes into the word registers.
AddArgument_Large(b, type) ==
  CASE type.kind = "int"    -> PassWord(b, type.size)
    [] type.kind = "float"  -> PassFloat(b, type.size)
    [] type.kind = "nfloat" -> AddLarge(b, type)
    [] OTHER                -> AddStruct(b, type)

\* One parameter of jit_apply_builder_add_arguments
AddArgument(b, type) ==
  CASE type.kind = "int"    -> PassWord(b, type.size)
    [] type.kind = "float"  -> PassFloat(b, type.size)
    [] type.kind = "nfloat" -> PassOnStack(b, type.size)
    [] OTHER                -> AddStruct(b, type)

\* One round of the loop of closure_handler
GetArgument(b, type) ==
  LET arg == CASE type.kind = "int"    -> PassWord(b, type.size)
               [] type.kind = "float"  -> PassFloat(b, type.size)
               [] type.kind = "nfloat" -> PassOnStack(b, type.size)
               [] OTHER                -> GetStruct(b, type)
  IN Done(arg.used, ThroughBlock(arg.moves))

\* A mutant of MaxArgSize: every scalar takes one word.
MaxArgSize_Words(type) ==
  IF IsAggregate(type) THEN 8 * ((type.size + 15) \div 8) ELSE 8

\* What one parameter adds to jit_type_get_max_arg_size
MaxArgSize(type) ==
  CASE type.kind = "int" -> 8
    [] type.kind \in {"float", "nfloat"} -> 8 * ((NFloat.size + 15) \div 8)
    [] OTHER -> 8 * ((type.size + 15) \div 8)

-----------------------------------------------------------------------------
(* The System V calling convention: every party implements this.           *)

\* The scalars a type is made of, at their offsets.
ScalarsOf(type) ==
  IF IsAggregate(type) THEN type.scalars
  ELSE {[kind |-> type.kind, offset |-> 0, size |-> type.size]}

ConventionClasses(type) ==
  LET scalars == ScalarsOf(type)
      Within(k) == {x \in scalars : x.offset \div 8 = k}
  IN IF \/ type.size > 16
        \/ \E x \in scalars : x.kind = "nfloat" \/ x.offset % x.size # 0
     THEN <<"memory">>
     ELSE [k \in 1..WordsOf(type.size) |->
             IF \E x \in Within(k - 1) : x.kind = "int" THEN "integer" ELSE "sse"]

\* Every eightbyte has a register of its own, or the value is on the stack.
Convention(regs, used, type) ==
  LET classes  == ConventionClasses(type)
      Of(c, n) == Cardinality({i \in 1..n : classes[i] = c})
      all      == Len(classes)
      Reg(i)   == IF classes[i] = "integer"
                  THEN regs.word[used.word + Of("integer", i)]
                  ELSE regs.float[used.float + Of("sse", i)]
      off      == AlignTo(used.stack, RoundStack(type.align))
  IN IF \/ "memory" \in ToSet(classes)
        \/ used.word + Of("integer", all) > Len(regs.word)
        \/ used.float + Of("sse", all) > Len(regs.float)
     THEN {Move(Stack(off), 0, type.size)}
     ELSE {Move(Reg(i), 8 * (i - 1), 8) : i \in 1..all}

-----------------------------------------------------------------------------
(* Results *)

\* jit_type_return_via_pointer; sizes 1 to 16 are returned in registers.
ReturnViaPointer(type) == IsAggregate(type) /\ type.size \notin 1..16

\* return_struct and flush_return_struct, _jit_setup_return_value
CompiledResult(type) ==
  CASE IsAggregate(type)       -> ClassifyStruct(ReturnRegs, Used(0, 0, 0), type).moves
    [] type.kind = "int"    -> {Move(<<"rax">>, 0, type.size)}
    [] type.kind = "float"  -> {Move(Sse(0), 0, type.size)}
    [] type.kind = "nfloat" -> {Move(<<"st0">>, 0, type.size)}
    [] OTHER                -> {}

\* jit_apply_builder_get_return and _jit_builtin_apply_get_struct_return: what is
\* in no register is copied from the structure return pointer, which is not set.
AppliedResult(type) ==
  LET classes == type.classes
      tail    == type.size - 8
      rax     == <<"rax">>
  IN CASE type.kind = "int"    -> {Move(rax, 0, type.size)}
       [] type.kind = "float"  -> {Move(Sse(0), 0, type.size)}
       [] type.kind = "nfloat" -> {Move(<<"st0">>, 0, type.size)}
       [] type.kind = "void"   -> {}
       [] OTHER ->
            CASE classes = <<"integer">>                    -> {Move(rax, 0, type.size)}
              [] classes \in {<<"sse">>, <<"sse", "sse">>}  -> {Move(Sse(0), 0, type.size)}
              [] classes = <<"integer", "integer">> -> {Move(rax, 0, 8), Move(<<"rdx">>, 8, tail)}
              [] classes = <<"integer", "sse">>     -> {Move(rax, 0, 8), Move(Sse(0), 8, tail)}
              [] classes = <<"sse", "integer">>     -> {Move(Sse(0), 0, 8), Move(rax, 8, tail)}
              [] OTHER                              -> {Move(<<"null">>, 0, type.size)}

\* The end of closure_handler: an aggregate is copied to the front of the result
\* block, which is loaded into rax and rdx.
ClosureResult(type) ==
  CASE type.kind = "int"    -> {Move(<<"rax">>, 0, type.size)}
    [] type.kind = "float"  -> {Move(Sse(0), 0, type.size)}
    [] type.kind = "nfloat" -> {Move(<<"st0">>, 0, type.size)}
    [] type.kind = "void"   -> {}
    [] OTHER ->
         IF type.size <= 8 THEN {Move(<<"rax">>, 0, type.size)}
         ELSE {Move(<<"rax">>, 0, 8), Move(<<"rdx">>, 8, type.size - 8)}

-----------------------------------------------------------------------------
(* The call *)

\* A hidden parameter is a pointer.
Hidden(used) == ClassifyParam(used, Int64)

\* What the hidden parameters of a compiled function take: the frame of the
\* parent of a nested function, then the address of a structure result.
HiddenParams(used) ==
  LET start == IF isNested THEN Hidden(used).used ELSE used
  IN IF ReturnViaPointer(result) THEN Hidden(start) ELSE Done(start, {})

\* jit_apply_builder_init and jit_apply_builder_set_struct_return, and what a
\* closure does with the same signature.
HiddenWord ==
  IF ReturnViaPointer(result) THEN PassWord(Used(0, 0, 0), 8)
  ELSE Done(Used(0, 0, 0), {})

\* The bytes between the frame pointer of the callee and its first argument.
EntryFrame == 16

Init ==
  /\ result \in ReturnTypes
  /\ isNested \in BOOLEAN
  /\ LET type == IF ReturnViaPointer(result) THEN Int64 ELSE Void
         c    == HiddenParams(Used(0, 0, 0))
         e    == HiddenParams(Used(0, 0, EntryFrame))
         b    == HiddenWord
     IN /\ caller  = c.used
        /\ entry   = e.used
        /\ builder = b.used
        /\ parser  = b.used
        /\ last = [type |-> type, caller |-> c.moves, entry |-> e.moves,
                   builder |-> b.moves, parser |-> b.moves, convention |-> c.moves,
                   known |-> {}]
  /\ argSize = IF IsAggregate(result) THEN 8 ELSE 0

\* Where the classification of a type is known to differ from the convention.
ClassFaults(type) ==
  LET classes == type.classes
  IN IF ~IsAggregate(type) THEN {}
     ELSE IF classes = <<"sse", "sse">> THEN {"oneRegister"}
     ELSE IF \/ classes = ConventionClasses(type)
             \/ "memory" \in ToSet(classes) \cap ToSet(ConventionClasses(type))
     THEN {}
     ELSE {"nested"}

\* Where jit_apply and closures are known to differ from compiled code.
ApplyFaults(type) ==
  {f \in {"straddle", "inRegisters", "unaligned"} :
     CASE f = "straddle" ->
            IsAggregate(type) /\ type.classes = <<"integer", "integer">>
              /\ builder.word \in {NumWordRegs - 1, NumWordRegs}
       [] f = "inRegisters" ->
            IsAggregate(type) /\ ~InRegisters(builder, type) /\ builder.word < NumWordRegs
       [] f = "unaligned" ->
            type.align > 8 /\ caller.stack % type.align # 0}

\* The next parameter of the signature.  jit_apply and closures know nothing of
\* nested functions: they take part only in the calls of others.
AddParam(type) ==
  LET c == ClassifyParam(caller, type)
      e == ClassifyParam(entry, type)
      b == IF isNested THEN Done(builder, {}) ELSE AddArgument(builder, type)
      p == IF isNested THEN Done(parser, {}) ELSE GetArgument(parser, type)
  IN /\ caller.stack < MaxStack
     /\ isNested \/ ApplyFaults(type) \subseteq Faults
     /\ caller' = c.used
     /\ entry' = e.used
     /\ builder' = b.used
     /\ parser' = p.used
     /\ argSize' = argSize + MaxArgSize(type)
     /\ last' = [type |-> type, caller |-> c.moves, entry |-> e.moves,
                 builder |-> b.moves, parser |-> p.moves,
                 convention |-> Convention(ArgRegs, caller, type),
                 known |-> ClassFaults(type)]
     /\ UNCHANGED <<result, isNested>>

Next == \E type \in ParamTypes : AddParam(type)

Spec == Init /\ [][Next]_vars

-----------------------------------------------------------------------------
(* Properties *)

\* The bytes of a value that mean something: no padding, and ten of the sixteen
\* bytes of a native float.
Significant(type) ==
  UNION {x.offset..(x.offset + (IF x.kind = "nfloat" THEN 10 ELSE x.size) - 1) :
           x \in ScalarsOf(type)}

\* Where one byte is: a position in a register, or an offset on the stack.
Places(moves, byte) ==
  {LET pos == byte - m.at
   IN IF m.loc[1] = "stack" THEN Stack(m.loc[2] + pos) ELSE <<m.loc, pos>> :
     m \in {m \in moves : m.at <= byte /\ byte < m.at + m.width}}

\* Both parties have every byte of the value at the same one place.
Meet(type, one, other) ==
  type = Void \/ \A byte \in Significant(type) :
                   /\ Cardinality(Places(one, byte)) = 1
                   /\ Places(one, byte) = Places(other, byte)

\* The callee's offsets are from its frame pointer.
FromStack(moves) ==
  {IF m.loc[1] = "stack" THEN [m EXCEPT !.loc = Stack(m.loc[2] - EntryFrame)] ELSE m :
     m \in moves}

\* Compiled code calls and is called as the System V convention says: every byte
\* of every parameter is in the register, or at the offset of the argument area,
\* where a native caller or callee has it.  The caller and the callee count
\* registers and stack separately, from different bases (_jit_classify_param).
AsConvention ==
  last.known \subseteq Faults =>
    /\ Meet(last.type, last.caller, last.convention)
    /\ Meet(last.type, FromStack(last.entry), last.convention)

\* What jit_apply stores in the register block and the argument area is what the
\* compiled callee takes from the registers and its frame: two independent
\* implementations of one convention, that classify a parameter by the registers
\* all the earlier ones have used.
ApplyMeetsCallee ==
  isNested \/ Meet(last.type, last.builder, FromStack(last.entry))

\* A closure that compiled code calls finds every argument that comes in registers
\* where its caller has put it, and looks for every other one at its caller's
\* offset behind stack_args, whatever that points to: its counts keep in step with
\* the caller's (closure_handler and _jit_create_call_setup_insns).  That the
\* pointer is not set is the disagreement "stackArgs".
ClosureMeetsCaller ==
  isNested \/ Meet(last.type, last.parser, IF "stackArgs" \in Faults THEN last.caller
                                           ELSE ThroughBlock(last.caller))

\* jit_apply sizes its argument area by jit_type_get_max_arg_size before it knows
\* what goes into registers: whatever the order of the parameters, the area is
\* not written past its end.
ArgumentsFit == builder.stack <= argSize

\* Where a result is known to be given back wrongly: a closure leaves every
\* aggregate in the general registers, and an aggregate that holds a native float
\* goes into no register though it is not returned by a pointer.
ClosureFaults(type) ==
  IF IsAggregate(type) /\ "sse" \in ToSet(type.classes) THEN {"closureResult"} ELSE {}
MemoryFaults(type) ==
  IF IsAggregate(type) /\ "memory" \in ToSet(type.classes) THEN {"memoryResult"} ELSE {}

\* The result of a call that is not returned by a pointer is where its receiver
\* looks for it: compiled code, jit_apply and closures load and read the same
\* registers for every class of result, those the convention names.
ResultMeets ==
  ~ReturnViaPointer(result) /\ MemoryFaults(result) \subseteq Faults =>
    LET compiled == CompiledResult(result)
    IN /\ Meet(result, AppliedResult(result), compiled)
       /\ ClosureFaults(result) \subseteq Faults =>
            Meet(result, ClosureResult(result), compiled)
       /\ IsAggregate(result) /\ ClassFaults(result) \subseteq Faults =>
            Meet(result, compiled, Convention(ReturnRegs, Used(0, 0, 0), result))

=============================================================================
