---------------------------- MODULE StructClasses ----------------------------
(***************************************************************************)
(* The classes of the eightbytes of a structure or union on x86-64         *)
(* (jit-apply-x86-64.c), found by a walk over its fields and theirs.       *)
(***************************************************************************)
EXTENDS TypeLayout, FiniteSets, TLC

\* How the classes of two fields of one eightbyte combine.
Merge(a, b) ==
  CASE a = "none"                  -> b
    [] a = b                       -> a
    [] "memory" \in {a, b}         -> "memory"
    [] "integer" \in {a, b}        -> "integer"
    [] OTHER                       -> "sse"

\* _jit_classify_structpart: the class of the bytes from..to of a structure that
\* itself starts at start.
RECURSIVE ClassifyPart(_, _, _, _)
ClassifyPart(type, start, from, to) ==
  LET current   == start + from
      Inside(f) == f.offset <= to /\ f.offset + f.type.size > from
      Lo(f)     == IF f.offset < current THEN current - f.offset ELSE 0
      Hi(f)     == IF f.offset + f.type.size - 1 > to
                   THEN f.offset + f.type.size - (Lo(f) + 1)
                   ELSE f.type.size - 1
      fields    == SelectSeq(type.components, Inside)
      classes   == [i \in DOMAIN fields |->
        LET f == fields[i]
        IN IF IsAggregate(f.type) THEN ClassifyPart(f.type, start + f.offset, Lo(f), Hi(f))
           ELSE IF current % f.type.size # 0 THEN "memory" ELSE ClassifyArg(f.type)]
  IN FoldLeft(Merge, "none", classes)

\* The class of one eightbyte; one without fields goes into an SSE register.
Eightbyte(type, from, to) ==
  LET class == ClassifyPart(type, 0, from, to)
  IN IF class = "none" THEN "sse" ELSE class

\* The classes of the eightbytes of an aggregate, <<"memory">> when it is larger
\* than two of them.
Classes(type) ==
  CASE type.size > 16 -> <<"memory">>
    [] type.size \in 9..16 -> <<Eightbyte(type, 0, 7), Eightbyte(type, 8, type.size - 1)>>
    [] OTHER          -> <<Eightbyte(type, 0, type.size - 1)>>

-----------------------------------------------------------------------------
(* What a call needs to know of a type *)

\* The scalars a type is made of, at their offsets.
RECURSIVE Scalars(_, _)
Scalars(type, off) ==
  IF IsAggregate(type)
  THEN UNION {Scalars(f.type, off + f.offset) : f \in ToSet(type.components)}
  ELSE {[kind |-> type.kind, offset |-> off, size |-> type.size]}

\* A type of a signature: an aggregate is taken with its classes, which every
\* party finds anew from the type alone, and with its scalars, from which the
\* convention finds them.
Described(type) ==
  IF IsAggregate(type)
  THEN type @@ ("classes" :> Classes(type)) @@ ("scalars" :> Scalars(type, 0))
  ELSE type

=============================================================================
