------------------------------- MODULE MCCalls -------------------------------
(***************************************************************************)
(* Signatures made of integers, floats, native floats and aggregates of    *)
(* every class of register and of memory.                                  *)
(***************************************************************************)
EXTENDS Calls, StructClasses

\* Aggregates of one eightbyte, of two, nested ones and a larger one.
Point == Struct(<<Float32, Float32>>)
Mixed == Struct(<<Float32, Int32>>)

Pair     == Struct(<<Int64, Int32>>)
IntFloat == Struct(<<Int64, Float32>>)
FloatInt == Struct(<<Float64, Int64>>)
Doubles  == Struct(<<Float64, Float64>>)
Words3   == Struct(<<Int64, Int64, Int64>>)
Either   == Union(<<Int32, Float64>>)
Holder   == Struct(<<NFloat>>)
Inner    == Struct(<<Point, Int64>>)
Wrapped  == Struct(<<FloatInt>>)
Outer    == Struct(<<Int32, Mixed>>)

MCParamTypes == {Described(type) : type \in
  {Int32, Float64, NFloat, Mixed, Pair, IntFloat, FloatInt, Doubles,
   Words3, Inner, Outer, Wrapped}}

MCReturnTypes == {Described(type) : type \in
  {Void, NFloat, Point, Pair, IntFloat, FloatInt, Words3, Either, Holder}}
=============================================================================
