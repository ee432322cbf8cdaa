-------------------------------- MODULE Types --------------------------------
(***************************************************************************)
(* The type descriptors of jit-type.c and the references that keep them    *)
(* alive: the program builds, shares, changes and frees them through the   *)
(* API, and asks for sizes, alignments and offsets at any time.            *)
(*                                                                         *)
(* A program frees only references it has.  It may also use a type it has  *)
(* no reference to, as long as it is alive: jit_type_get_ref and its like  *)
(* return such types.                                                      *)
(***************************************************************************)
EXTENDS TypeLayout, FiniteSets, FiniteSetsExt, Functions

CONSTANTS
  Handles,     \* addresses of descriptors the program creates
  FieldLists,  \* the lists of field types a program uses
  ParamLists,  \* the lists of parameter types it uses
  Plain,       \* the pre-defined type it points to, tags and returns
  Offsets,     \* explicit offsets the program sets
  Sizes,       \* explicit sizes, Internal among them
  Aligns,      \* explicit alignments, Internal among them
  MaxOwned,    \* bound: references to one type the program holds at once
  MaxCalls,    \* bound: calls of the API
  Faults       \* the known faults an execution may run into

Null == "null"
Fixed == {"byte", "long"}      \* two of the pre-defined descriptors (is_fixed)

ASSUME TypesAssumption ==
  /\ Handles \cap (Fixed \cup {Null}) = {}
  /\ FieldLists \cup ParamLists \subseteq Seq(Handles \cup Fixed)
  /\ Plain \in Fixed
  /\ MaxOwned \in Nat /\ MaxCalls \in Nat
  /\ Faults \subseteq {"released", "sentinel", "stale"}

VARIABLES
  desc,        \* the descriptors
  owned,       \* how many references to each the program itself has
  given,       \* the size and alignment the program last set for each
  answer,      \* the layout the last call has returned, Null for none
  calls        \* calls made

vars == <<desc, owned, given, answer, calls>>

\* ~0 in a jit_nuint, larger than every size here.
AllOnes == 1000000

Blank == [kind |-> "free", refs |-> 0, sub |-> Null, fields |-> <<>>, size |-> 0,
          align |-> 0, hasSize |-> FALSE, hasAlign |-> FALSE, data |-> Null]

Live(d)  == {h \in Handles : d[h].kind # "free"}
Known(d) == Live(d) \cup Fixed
FieldTypes(x) == {f.type : f \in ToSet(x.fields)}

-----------------------------------------------------------------------------
(* References *)

\* jit_type_copy
Copied(d, t) == IF t \in Handles THEN [d EXCEPT ![t].refs = @ + 1] ELSE d
CopiedAll(d, types) == FoldLeft(Copied, d, types)

\* A mutant of Freed: the components of a type are not released with it.
RECURSIVE Freed_Shallow(_, _)
Freed_Shallow(d, t) ==
  IF t \notin Handles THEN d
  ELSE IF d[t].refs > 1 THEN [d EXCEPT ![t].refs = @ - 1]
  ELSE [FoldLeft(Freed_Shallow, d, <<d[t].sub, d[t].data>>) EXCEPT ![t] = Blank]

\* jit_type_free.  The data of a tagged type is freed with it; the data is a type
\* here, and its free function is jit_type_free.
RECURSIVE Freed(_, _)
Freed(d, t) ==
  IF t \notin Handles THEN d
  ELSE IF d[t].refs > 1 THEN [d EXCEPT ![t].refs = @ - 1]
  ELSE LET x == d[t]
           held == <<x.sub>> \o [i \in DOMAIN x.fields |-> x.fields[i].type] \o <<x.data>>
       IN [FoldLeft(Freed, d, held) EXCEPT ![t] = Blank]

\* How often types refers to t, and whether the program has as many references to
\* give away: with incref zero the callee takes the program's, otherwise it counts
\* its own.
Uses(types, t) == Cardinality({i \in DOMAIN types : types[i] = t})
CanGive(types) == \A t \in Handles : owned[t] >= Uses(types, t)
Given(types)   == [t \in Handles |-> owned[t] - Uses(types, t)]

-----------------------------------------------------------------------------
(* Layout *)

\* jit_type_get_size and jit_type_get_alignment of what is already laid out.
RECURSIVE SizeOf(_, _)
SizeOf(d, t) ==
  CASE t = Null   -> 0
    [] t = "byte" -> 1
    [] t = "long" -> 8
    [] d[t].kind = "tagged"               -> SizeOf(d, d[t].sub)
    [] d[t].kind \in {"pointer", "signature"} -> 8
    [] OTHER                              -> d[t].size

RECURSIVE AlignOf(_, _)
AlignOf(d, t) ==
  CASE t \in Fixed \cup {Null} -> SizeOf(d, t)
    [] d[t].kind = "tagged"    -> AlignOf(d, d[t].sub)
    [] OTHER                   -> d[t].align

\* perform_layout, which lays out the aggregates inside first.
LaidOut(d, t) ==
  LET x     == d[t]
      limit == IF x.hasAlign THEN x.align ELSE 0
      lay   == FoldLeft(LAMBDA l, f : LayoutField(x.kind, limit, l, SizeOf(d, f.type),
                                                  AlignOf(d, f.type), f.offset),
                        NoFields, x.fields)
      end   == FinishLayout(lay, x.size, x.hasSize, x.align)
  IN [d EXCEPT ![t].size = end.size, ![t].align = end.align,
               ![t].fields = [i \in DOMAIN x.fields |-> [x.fields[i] EXCEPT !.at = lay.offsets[i]]]]

\* A query lays out what it reaches by value; JIT_LAYOUT_NEEDED is never cleared,
\* so every query does it again.
RECURSIVE Asked(_, _)
Asked(d, t) ==
  CASE t \notin Handles       -> d
    [] d[t].kind = "tagged"   -> Asked(d, d[t].sub)
    [] IsAggregate(d[t])      ->
         LaidOut(FoldLeft(LAMBDA e, f : Asked(e, f.type), d, d[t].fields), t)
    [] OTHER                  -> d

\* What a type contains by value, and whether all of it is defined: the layout of
\* an undefined type divides by its alignment, zero.
RECURSIVE Contents(_, _)
Contents(d, t) ==
  {t} \cup
  (CASE t \notin Handles     -> {}
     [] d[t].kind = "tagged" -> Contents(d, d[t].sub)
     [] IsAggregate(d[t])    -> UNION {Contents(d, u) : u \in FieldTypes(d[t])}
     [] OTHER                -> {})
Complete(d, t) == Null \notin Contents(d, t)

\* Everything a type refers to, however.
RECURSIVE Reaches(_, _)
Reaches(d, t) ==
  {t} \cup
  (IF t \in Handles
   THEN UNION {Reaches(d, u) : u \in FieldTypes(d[t]) \cup {d[t].sub, d[t].data}}
   ELSE {})

\* An aggregate that has been laid out keeps an alignment and an explicit size it
\* has outgrown: the contents of one must not change any more.
ContentsMayChange(t) ==
  "stale" \in Faults \/
  \A h \in Live(desc) :
    IsAggregate(desc[h]) /\ desc[h].align # 0 /\ t \in Contents(desc, h) =>
      h = t /\ ~desc[h].hasSize

-----------------------------------------------------------------------------
NoAnswer   == [type |-> Null]
InternalLayout == [size |-> Internal, align |-> Internal]

Init ==
  /\ desc   = [h \in Handles |-> Blank]
  /\ owned  = [h \in Handles |-> 0]
  /\ given  = [h \in Handles |-> InternalLayout]
  /\ answer = NoAnswer
  /\ calls  = 0

Call == calls < MaxCalls /\ calls' = calls + 1
Unasked == answer' = NoAnswer

\* A descriptor x at h; the references to counted are copied, those to taken come
\* from the program.
Create(h, x, counted, taken) ==
  /\ Call
  /\ desc[h].kind = "free"
  /\ ToSet(counted \o taken) \subseteq Known(desc) \cup {Null}
  /\ CanGive(taken)
  /\ desc' = [CopiedAll(desc, counted) EXCEPT ![h] = x]
  /\ owned' = [Given(taken) EXCEPT ![h] = 1]
  /\ given' = [given EXCEPT ![h] = InternalLayout]
  /\ Unasked

CreateOf(h, x, types, incref) ==
  IF incref THEN Create(h, x, types, <<>>) ELSE Create(h, x, <<>>, types)

\* create_complex
Complex(kind, types) ==
  [Blank EXCEPT !.kind = kind, !.refs = 1,
                !.fields = [i \in DOMAIN types |-> [type |-> types[i], offset |-> Internal, at |-> 0]]]

\* jit_type_create_struct, jit_type_create_union
CreateAggregate(h, kind, types, incref) == CreateOf(h, Complex(kind, types), types, incref)

\* jit_type_create_signature
CreateSignature(h, return, params, incref) ==
  CreateOf(h, [Complex("signature", params) EXCEPT !.sub = return, !.align = 8],
           Append(params, return), incref)

\* jit_type_create_pointer
CreatePointer(h, type, incref) ==
  CreateOf(h, [Blank EXCEPT !.kind = "pointer", !.refs = 1, !.sub = type, !.size = 8, !.align = 8],
           <<type>>, incref)

\* jit_type_create_tagged, without an underlying type for a forward declaration.
\* The reference to the data is always given away.
CreateTagged(h, type, data, incref) ==
  LET x == [Blank EXCEPT !.kind = "tagged", !.refs = 1, !.sub = type, !.align = 1, !.data = data]
  IN IF incref THEN Create(h, x, <<type>>, <<data>>) ELSE Create(h, x, <<>>, <<type, data>>)

\* jit_type_copy, of any type that is alive.
Copy(t) ==
  /\ Call
  /\ t \in Live(desc)
  /\ owned[t] < MaxOwned
  /\ desc' = Copied(desc, t)
  /\ owned' = [owned EXCEPT ![t] = @ + 1]
  /\ Unasked /\ UNCHANGED given

\* jit_type_free
Free(t) ==
  /\ Call
  /\ owned[t] > 0
  /\ desc' = Freed(desc, t)
  /\ owned' = [owned EXCEPT ![t] = @ - 1]
  /\ Unasked /\ UNCHANGED given

\* jit_type_set_offset; a union ignores it at its next layout.
SetOffset(t, i, offset) ==
  /\ Call
  /\ t \in Live(desc) /\ IsAggregate(desc[t]) /\ i \in DOMAIN desc[t].fields
  /\ ContentsMayChange(t)
  /\ desc' = [desc EXCEPT ![t].fields[i].offset = IF desc[t].kind = "union" THEN @ ELSE offset]
  /\ Unasked /\ UNCHANGED <<owned, given>>

\* jit_type_set_size_and_alignment.  -1 is stored like any other value.
SetSizeAndAlignment(t, size, align) ==
  LET word(n) == IF n = Internal THEN AllOnes ELSE n
  IN /\ Call
     /\ t \in Live(desc) /\ IsAggregate(desc[t])
     /\ ContentsMayChange(t)
     /\ "sentinel" \in Faults \/ (align # Internal /\ (size = Internal => ~desc[t].hasSize))
     /\ desc' = [desc EXCEPT ![t].size = word(size), ![t].align = word(align),
                             ![t].hasSize = @ \/ size # Internal,
                             ![t].hasAlign = @ \/ align # Internal]
     /\ given' = [given EXCEPT ![t] = [size |-> size, align |-> align]]
     /\ Unasked /\ UNCHANGED owned

\* jit_type_set_tagged_type: the old type is released before the new one is
\* counted.  A type that contains itself has no layout, and one that refers to
\* itself is never freed; programs here make neither.
SetTaggedType(t, type, incref) ==
  /\ Call
  /\ t \in Live(desc) /\ desc[t].kind = "tagged"
  /\ type \in Known(desc)
  /\ type # desc[t].sub
  /\ t \notin Reaches(desc, type)
  /\ incref \/ CanGive(<<type>>)
  /\ desc[t].sub = Null \/ ContentsMayChange(t)
  /\ LET released == Freed(desc, desc[t].sub)
     IN /\ "released" \in Faults \/ type \in Known(released)
        /\ desc' = [(IF incref THEN Copied(released, type) ELSE released) EXCEPT
                      ![t].sub = type]
  /\ owned' = IF incref THEN owned ELSE Given(<<type>>)
  /\ Unasked /\ UNCHANGED given

\* jit_type_set_tagged_data
SetTaggedData(t, data) ==
  /\ Call
  /\ t \in Live(desc) /\ desc[t].kind = "tagged"
  /\ data # desc[t].data
  /\ data # Null => CanGive(<<data>>) /\ t \notin Reaches(desc, data)
  /\ desc' = [Freed(desc, desc[t].data) EXCEPT ![t].data = data]
  /\ owned' = Given(<<data>>)
  /\ Unasked /\ UNCHANGED given

\* jit_type_get_size, jit_type_get_alignment and jit_type_get_offset
Ask(t) ==
  /\ Call
  /\ t \in Live(desc) /\ IsAggregate(desc[t]) /\ Complete(desc, t)
  /\ desc' = Asked(desc, t)
  /\ answer' = [type |-> t, size |-> desc'[t].size, align |-> desc'[t].align,
               offsets |-> [i \in DOMAIN desc[t].fields |-> desc'[t].fields[i].at]]
  /\ UNCHANGED <<owned, given>>

Used == Live(desc) \cup {Plain}

Next ==
  \/ \E h \in Handles, incref \in BOOLEAN :
       \/ \E kind \in {"struct", "union"}, types \in FieldLists :
            CreateAggregate(h, kind, types, incref)
       \/ \E return \in Used, params \in ParamLists :
            CreateSignature(h, return, params, incref)
       \/ \E type \in Used : CreatePointer(h, type, incref)
       \/ \E type \in Used \cup {Null}, data \in Live(desc) \cup {Null} :
            CreateTagged(h, type, data, incref)
  \/ \E t \in Handles :
       \/ Copy(t)
       \/ Free(t)
       \/ Ask(t)
       \/ \E i \in DOMAIN desc[t].fields, offset \in Offsets : SetOffset(t, i, offset)
       \/ \E size \in Sizes, align \in Aligns : SetSizeAndAlignment(t, size, align)
       \/ \E type \in Used, incref \in BOOLEAN : SetTaggedType(t, type, incref)
       \/ \E data \in Live(desc) \cup {Null} : SetTaggedData(t, data)

Spec == Init /\ [][Next]_vars

-----------------------------------------------------------------------------
(* Properties *)

\* How often the descriptors refer to t.
Referrers(t) ==
  MapThenSumSet(LAMBDA h : Uses(<<desc[h].sub, desc[h].data>>, t)
                             + Cardinality({i \in DOMAIN desc[h].fields : desc[h].fields[i].type = t}),
                Handles)

\* Every reference is counted once: the count of a descriptor is what the program
\* holds and what other descriptors refer to it by, so it is freed with its last
\* reference, no sooner, no later, and nothing refers to freed memory
\* (jit_type_copy, jit_type_free, incref and the free functions of tagged data).
RefsCounted ==
  \A h \in Handles :
    /\ desc[h].refs = owned[h] + Referrers(h)
    /\ desc[h].kind # "free" <=> desc[h].refs > 0

\* The alignment of a field in t, clamped by an explicit alignment of t, and what
\* the fields ask of t together.
FieldAlign(t, i) ==
  LET align == AlignOf(desc, desc[t].fields[i].type)
  IN IF given[t].align \in {Internal, 0} \/ align < given[t].align THEN align ELSE given[t].align
FieldsAlign(t) == Max({1} \cup {FieldAlign(t, i) : i \in DOMAIN desc[t].fields})

\* Whatever was set, asked and completed before, in whatever order, the answer is
\* the layout of the type as it now stands: explicit offsets are kept and the
\* other fields are at the first suitable place, the size is the smallest that
\* holds them, or the explicit one if that is larger, and the alignment is the
\* explicit one, or what the fields ask for (perform_layout).
LayoutRight ==
  answer.type # Null =>
    LET t       == answer.type
        fields  == desc[t].fields
        at      == answer.offsets
        End(i)  == IF i = 0 THEN 0 ELSE at[i] + SizeOf(desc, fields[i].type)
        ends    == {End(i) : i \in 0..Len(fields)}
        whole   == CHOOSE n \in 0..AllOnes :
                     /\ n % FieldsAlign(t) = 0
                     /\ \A e \in ends : e <= n
                     /\ \E e \in ends : n - e < FieldsAlign(t)
    IN /\ \A i \in DOMAIN fields :
            IF desc[t].kind = "union" THEN at[i] = 0
            ELSE IF fields[i].offset # Internal THEN at[i] = fields[i].offset
            ELSE /\ at[i] % FieldAlign(t, i) = 0
                 /\ at[i] - End(i - 1) \in 0..(FieldAlign(t, i) - 1)
       /\ answer.size = IF given[t].size = Internal \/ given[t].size < whole
                         THEN whole ELSE given[t].size
       /\ answer.align = IF given[t].align \in {Internal, 0} THEN FieldsAlign(t)
                          ELSE given[t].align

=============================================================================
