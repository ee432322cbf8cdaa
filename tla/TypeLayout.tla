----------------------------- MODULE TypeLayout -----------------------------
(***************************************************************************)
(* Type descriptors and the layout of structures and unions (jit-type.c).  *)
(* A type is a record: its kind, its size and alignment in bytes and, for  *)
(* an aggregate, its components, each with its type and its offset.  The   *)
(* sizes are those of x86-64, where a native float is a long double.       *)
(***************************************************************************)
EXTENDS Integers, Sequences, SequencesExt

\* JIT_OFFSET_IS_INTERNAL: the offset of the field is computed by the layout.
Internal == -1

\* size += align - (size % align), unless it already is a multiple.
AlignTo(n, align) == n + ((align - (n % align)) % align)

-----------------------------------------------------------------------------
(* perform_layout *)

\* What the loop over the fields carries.
NoFields == [size |-> 0, maxSize |-> 0, maxAlign |-> 1, offsets |-> <<>>]

\* A mutant of LayoutField: the next field follows the last, whatever its alignment.
LayoutField_Packed(kind, limit, lay, fieldSize, naturalAlign, offset) ==
  LET start == IF kind = "union" THEN 0 ELSE IF offset = Internal THEN lay.size ELSE offset
      end   == start + fieldSize
  IN [size     |-> IF kind = "union" THEN lay.size ELSE end,
      maxSize  |-> IF end > lay.maxSize THEN end ELSE lay.maxSize,
      maxAlign |-> IF naturalAlign > lay.maxAlign THEN naturalAlign ELSE lay.maxAlign,
      offsets  |-> Append(lay.offsets, start)]

\* One round of the loop: a structure continues behind the previous field or at
\* the explicit offset, a union starts every field at zero.  A limit clamps the
\* alignment of the field.
LayoutField(kind, limit, lay, fieldSize, naturalAlign, offset) ==
  LET align == IF limit # 0 /\ naturalAlign > limit THEN limit ELSE naturalAlign
      start == IF kind = "union" THEN 0
               ELSE IF offset = Internal THEN AlignTo(lay.size, align)
               ELSE offset
      end   == IF kind = "union" THEN AlignTo(fieldSize, align) ELSE start + fieldSize
  IN [size     |-> IF kind = "union" THEN lay.size ELSE end,
      maxSize  |-> IF end > lay.maxSize THEN end ELSE lay.maxSize,
      maxAlign |-> IF align > lay.maxAlign THEN align ELSE lay.maxAlign,
      offsets  |-> Append(lay.offsets, start)]

\* The size and the alignment the descriptor ends with, given those it had: an
\* explicit size is a minimum, and the alignment never shrinks.
FinishLayout(lay, size, hasSize, align) ==
  LET whole == AlignTo(lay.maxSize, lay.maxAlign)
  IN [size  |-> IF hasSize /\ size >= whole THEN size ELSE whole,
      align |-> IF lay.maxAlign > align THEN lay.maxAlign ELSE align]

-----------------------------------------------------------------------------
(* Descriptors *)

Primitive(kind, n) == [kind |-> kind, size |-> n, align |-> n, components |-> <<>>]

Int32   == Primitive("int", 4)
Int64   == Primitive("int", 8)
Float32 == Primitive("float", 4)
Float64 == Primitive("float", 8)
NFloat  == Primitive("nfloat", 16)

\* create_complex with types, laid out at its first use; align is 0, or the
\* alignment jit_type_set_size_and_alignment has imposed.
Aggregate(kind, types, align) ==
  LET lay == FoldLeft(LAMBDA l, t : LayoutField(kind, align, l, t.size, t.align, Internal),
                      NoFields, types)
      end == FinishLayout(lay, 0, FALSE, align)
  IN [kind |-> kind, size |-> end.size, align |-> end.align,
      components |-> [i \in DOMAIN types |->
                        [type |-> types[i], offset |-> lay.offsets[i]]]]

Struct(types) == Aggregate("struct", types, 0)
Union(types)  == Aggregate("union", types, 0)

\* is_struct_or_union
IsAggregate(type) == type.kind \in {"struct", "union"}

\* _jit_classify_arg: the class of a scalar.
ClassifyArg(type) == CASE type.kind = "int"    -> "integer"
                       [] type.kind = "float"  -> "sse"
                       [] type.kind = "nfloat" -> "memory"

=============================================================================
