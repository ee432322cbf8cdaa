--------------------------- MODULE RegAllocProofs ---------------------------
(***************************************************************************)
(* The register allocator for any registers, values and instruction forms: *)
(* RegAllocInv is an inductive invariant of RegAlloc, so no value is lost  *)
(* between the registers and the frame, whatever instructions a block has. *)
(* The argument has three parts, in this order: what the generator does    *)
(* with an assignment that has the properties Assigned (the saves, loads   *)
(* and commits of _jit_regs_gen and _jit_regs_commit); that                *)
(* _jit_regs_assign finds such an assignment (the choice of the registers, *)
(* then the flags of each operand); and the steps of a block.              *)
(***************************************************************************)
EXTENDS RegAllocParts, NaturalsInduction, FiniteSetTheorems, WellFoundedInduction, TLAPS

-----------------------------------------------------------------------------
\* No register and no value are apart from the registers and the values.
LEMMA NoRegApart == NoReg \notin Regs /\ NoValue \notin Values /\ Constants \subseteq Values /\ Slots \subseteq Values
  BY RegAllocAssumption DEF NoReg, Slots

\* The fields of a state of the generator.
LEMMA GenFields ==
    ASSUME NEW g \in Gens
    PROVE  /\ g.contents \in [Regs -> SUBSET Values] /\ g.in_reg \in [Values \cup {NoValue} -> Regs \cup {NoReg}]
           /\ g.in_frame \in SUBSET Slots /\ g.in_global \in SUBSET Slots /\ g.age \in [Regs -> Nat]
           /\ g.inhibit \in SUBSET Regs /\ g.holds \in [Regs -> SUBSET Values] /\ g.slot \in [Slots -> SUBSET Values]
  BY DEF Gens

\* FreeValues changes only the binding of the values freed.
LEMMA FreeEffect ==
    ASSUME NEW g, GenOK(global, g), NEW vs, vs \subseteq Values
    PROVE  LET h == FreeValues(g, vs)
           IN /\ GenOK(global, h)
              /\ \A v \in Values : h.in_reg[v] = IF v \in vs THEN NoReg ELSE g.in_reg[v]
              /\ h.in_frame = g.in_frame /\ h.in_global = g.in_global /\ h.age = g.age
              /\ h.inhibit = g.inhibit /\ h.holds = g.holds /\ h.slot = g.slot
<1> DEFINE h == FreeValues(g, vs)
<1>1. g \in Gens
  BY DEF GenOK
<1> DEFINE cs == [r \in Regs |-> g.contents[r] \ {v \in vs : g.in_reg[v] = r}]
           at == [v \in Values \cup {NoValue} |-> IF v \in vs THEN NoReg ELSE g.in_reg[v]]
<1>2. h = [g EXCEPT !.contents = cs, !.in_reg = at]
  BY DEF FreeValues
<1>3. cs \in [Regs -> SUBSET Values] /\ at \in [Values \cup {NoValue} -> Regs \cup {NoReg}]
  BY <1>1, GenFields
<1>4. \A r \in Regs : cs[r] = g.contents[r] \ {v \in vs : g.in_reg[v] = r}
  OBVIOUS
<1>5. \A v \in Values \cup {NoValue} : at[v] = IF v \in vs THEN NoReg ELSE g.in_reg[v]
  OBVIOUS
<1> HIDE DEF h, cs, at
<1>6. /\ h \in Gens /\ h.contents = cs /\ h.in_reg = at
      /\ h.in_frame = g.in_frame /\ h.in_global = g.in_global /\ h.age = g.age
      /\ h.inhibit = g.inhibit /\ h.holds = g.holds /\ h.slot = g.slot
  BY <1>1, <1>2, <1>3 DEF Gens
<1>7. \A r \in Regs : h.contents[r] = {v \in Values : h.in_reg[v] = r}
  <2> TAKE r \in Regs
  <2>1. g.contents[r] = {v \in Values : g.in_reg[v] = r}
    BY DEF GenOK
  <2> QED
    BY <2>1, <1>4, <1>5, <1>6, NoRegApart
<1>8. h.in_reg[NoValue] = NoReg
  BY <1>5, <1>6 DEF GenOK
<1>9. GenOK(global, h)
  BY <1>6, <1>7, <1>8 DEF GenOK
<1> QED
  BY <1>5, <1>6, <1>9 DEF h

\* FreeValues keeps what is right of a value that is at home or not freed.
LEMMA FreeKeeps ==
    ASSUME NEW g, GenOK(global, g), NEW vs, vs \subseteq Values, NEW v \in Slots
    PROVE  LET h == FreeValues(g, vs)
           IN /\ Right(global, g, v) /\ (v \in vs => Home(global, g, v)) => Right(global, h, v)
              /\ Readable(global, g, v) /\ (v \in vs => Settled(global, g, v)) => Readable(global, h, v)
              /\ Settled(global, h, v) = Settled(global, g, v)
              /\ Home(global, h, v) = Home(global, g, v)
<1> DEFINE h == FreeValues(g, vs)
<1>1. v \in Values
  BY NoRegApart
<1>2. /\ h.in_reg[v] = IF v \in vs THEN NoReg ELSE g.in_reg[v]
      /\ h.in_frame = g.in_frame /\ h.in_global = g.in_global
      /\ h.holds = g.holds /\ h.slot = g.slot
  BY <1>1, FreeEffect
<1> HIDE DEF h
<1>3. Settled(global, h, v) = Settled(global, g, v) /\ Home(global, h, v) = Home(global, g, v)
  BY <1>2 DEF Settled, Home
<1>4. Right(global, g, v) /\ (v \in vs => Home(global, g, v)) => Right(global, h, v)
  BY <1>2, <1>3 DEF Right
<1>5. Readable(global, g, v) /\ (v \in vs => Settled(global, g, v)) => Readable(global, h, v)
  BY <1>2, <1>3 DEF Readable, Settled
<1> QED
  BY <1>3, <1>4, <1>5 DEF h

\* Saving values changes no binding: it brings each of them up to date at its home.
LEMMA SaveEffect ==
    ASSUME Static, NEW g, GenOK(global, g), NEW vs, vs \subseteq Values
    PROVE  LET h == SaveValues(g, vs)
               moved == Moved(global, g, vs)
               saved == Saved(global, g, vs)
           IN /\ GenOK(global, h)
              /\ h.contents = g.contents /\ h.in_reg = g.in_reg /\ h.age = g.age /\ h.inhibit = g.inhibit
              /\ h.in_global = g.in_global \cup moved /\ h.in_frame = g.in_frame \cup saved
              /\ \A q \in Regs : (\A v \in moved : global[v] # q) => h.holds[q] = g.holds[q]
              /\ \A v \in moved : h.holds[global[v]] = g.holds[g.in_reg[v]]
              /\ \A v \in Slots : h.slot[v] = IF v \in saved THEN g.holds[g.in_reg[v]] ELSE g.slot[v]
<1> DEFINE h == SaveValues(g, vs)
           moved == Moved(global, g, vs)
           saved == Saved(global, g, vs)
           hs == [q \in Regs |-> IF \E v \in moved : global[v] = q
                                 THEN g.holds[g.in_reg[CHOOSE v \in moved : global[v] = q]] ELSE g.holds[q]]
           sl == [v \in Slots |-> IF v \in saved THEN g.holds[g.in_reg[v]] ELSE g.slot[v]]
<1>1. g \in Gens
  BY DEF GenOK
<1>2. h = [g EXCEPT !.holds = hs, !.slot = sl, !.in_global = @ \cup moved, !.in_frame = @ \cup saved]
  BY DEF SaveValues, Moved, Saved, Bound, HasGlobal
<1>3. /\ moved \subseteq Slots /\ saved \subseteq Slots
      /\ \A v \in moved \cup saved : g.in_reg[v] \in Regs
      /\ \A v \in moved : global[v] # NoReg
      /\ \A v \in saved : global[v] = NoReg
  BY <1>1, GenFields DEF Moved, Saved, Bound, Slots
<1>4. \A u \in moved, v \in moved : global[u] = global[v] => u = v
  BY <1>3, NoRegApart DEF Static, StaticOK
<1>5. \A v \in moved : global[v] \in Regs
  BY <1>3, NoRegApart DEF Static, StaticOK
<1> HIDE DEF moved, saved
<1>6. hs \in [Regs -> SUBSET Values]
  <2> SUFFICES ASSUME NEW q \in Regs
               PROVE  (IF \E v \in moved : global[v] = q
                       THEN g.holds[g.in_reg[CHOOSE v \in moved : global[v] = q]] ELSE g.holds[q]) \in SUBSET Values
    OBVIOUS
  <2>1. CASE \E v \in moved : global[v] = q
    <3>1. (CHOOSE v \in moved : global[v] = q) \in moved
      BY <2>1
    <3> QED
      BY <2>1, <3>1, <1>1, <1>3, GenFields
  <2>2. CASE ~\E v \in moved : global[v] = q
    BY <2>2, <1>1, GenFields
  <2> QED
    BY <2>1, <2>2
<1>7. sl \in [Slots -> SUBSET Values]
  BY <1>1, <1>3, GenFields
<1>8. \A q \in Regs : (\A v \in moved : global[v] # q) => hs[q] = g.holds[q]
  OBVIOUS
<1>9. \A v \in moved : hs[global[v]] = g.holds[g.in_reg[v]]
  <2> TAKE v \in moved
  <2>1. (CHOOSE u \in moved : global[u] = global[v]) = v
    BY <1>4
  <2> QED
    BY <2>1, <1>5
<1>10. \A v \in Slots : sl[v] = IF v \in saved THEN g.holds[g.in_reg[v]] ELSE g.slot[v]
  OBVIOUS
<1> HIDE DEF h, hs, sl
<1>11. /\ h \in Gens /\ h.contents = g.contents /\ h.in_reg = g.in_reg /\ h.age = g.age /\ h.inhibit = g.inhibit
       /\ h.holds = hs /\ h.slot = sl
       /\ h.in_global = g.in_global \cup moved /\ h.in_frame = g.in_frame \cup saved
  BY <1>1, <1>2, <1>3, <1>6, <1>7 DEF Gens
<1>12. GenOK(global, h)
  BY <1>3, <1>11 DEF GenOK
<1> QED
  BY <1>8, <1>9, <1>10, <1>11, <1>12 DEF h, moved, saved

\* SaveValues keeps what is right of every value, and puts a bound one at home.
LEMMA SaveKeeps ==
    ASSUME Static, NEW g, GenOK(global, g), Apart(permanent, g), NEW vs, vs \subseteq Values
    PROVE  LET h == SaveValues(g, vs)
           IN /\ \A q \in Regs \ permanent : h.holds[q] = g.holds[q]
              /\ Apart(permanent, h)
              /\ \A v \in Slots : Right(global, g, v) =>
                    /\ Right(global, h, v)
                    /\ Settled(global, g, v) => Settled(global, h, v)
                    /\ v \in vs /\ g.in_reg[v] # NoReg => Settled(global, h, v)
              /\ \A v \in Slots : Readable(global, g, v) => Readable(global, h, v)
<1> DEFINE h == SaveValues(g, vs)
           moved == Moved(global, g, vs)
           saved == Saved(global, g, vs)
<1>1. /\ h.in_reg = g.in_reg
      /\ h.in_global = g.in_global \cup moved /\ h.in_frame = g.in_frame \cup saved
      /\ \A q \in Regs : (\A v \in moved : global[v] # q) => h.holds[q] = g.holds[q]
      /\ \A v \in moved : h.holds[global[v]] = g.holds[g.in_reg[v]]
      /\ \A v \in Slots : h.slot[v] = IF v \in saved THEN g.holds[g.in_reg[v]] ELSE g.slot[v]
  BY SaveEffect
<1>2. /\ moved \subseteq Slots
      /\ \A v \in moved : global[v] # NoReg /\ g.in_reg[v] # NoReg /\ v \notin g.in_global
      /\ \A v \in saved : global[v] = NoReg /\ g.in_reg[v] # NoReg /\ v \notin g.in_frame
  BY DEF Moved, Saved, Bound, Slots
<1>3. \A v \in Slots : v \in vs /\ g.in_reg[v] # NoReg =>
           (global[v] # NoReg => v \in g.in_global \cup moved) /\ (global[v] = NoReg => v \in g.in_frame \cup saved)
  BY DEF Moved, Saved, Bound, Slots
<1> HIDE DEF h, moved, saved
<1>4. \A v \in moved : global[v] \in permanent
  BY <1>2, NoRegApart DEF Static, StaticOK
<1>5. \A q \in Regs \ permanent : h.holds[q] = g.holds[q]
  BY <1>1, <1>4
<1>6. Apart(permanent, h)
  BY <1>1 DEF Apart
<1>7. \A v \in Slots : Readable(global, g, v) => Readable(global, h, v)
  BY <1>1 DEF Readable
<1>8. ASSUME NEW v \in Slots, Right(global, g, v)
      PROVE  /\ Right(global, h, v)
             /\ Settled(global, g, v) => Settled(global, h, v)
             /\ v \in vs /\ g.in_reg[v] # NoReg => Settled(global, h, v)
  <2>1. v \in Values /\ g.in_reg[v] \in Regs \cup {NoReg} /\ g.in_reg[v] \notin permanent
    BY <1>8, NoRegApart, GenFields DEF Apart, GenOK
  <2>2. global[v] # NoReg => global[v] \in Regs
    BY <1>8, <2>1 DEF Static, StaticOK
  <2>3. g.in_reg[v] # NoReg => h.holds[g.in_reg[v]] = g.holds[g.in_reg[v]]
    BY <2>1, <1>5
  <2>4. ASSUME global[v] # NoReg, v \notin moved
        PROVE  h.holds[global[v]] = g.holds[global[v]]
    <3>1. \A u \in moved : global[u] # global[v]
      BY <2>1, <2>4, <1>2, NoRegApart DEF Static, StaticOK
    <3> QED
      BY <3>1, <2>2, <2>4, <1>1
  <2>5. v \in moved => v \in h.holds[global[v]]
    BY <1>8, <1>1, <1>2 DEF Right
  <2>6. v \in saved => v \in h.slot[v]
    BY <1>8, <1>1, <1>2 DEF Right
  <2>7. v \notin saved => h.slot[v] = g.slot[v]
    BY <1>8, <1>1
  <2>8. v \in h.in_global => v \in h.holds[global[v]]
    <3>1. v \in g.in_global => global[v] # NoReg
      BY DEF GenOK
    <3> QED
      BY <1>8, <3>1, <1>1, <2>4, <2>5 DEF Right
  <2>9. v \in h.in_frame => v \in h.slot[v]
    BY <1>8, <1>1, <2>6, <2>7 DEF Right
  <2>10. g.in_reg[v] = NoReg => Home(global, h, v)
    BY <1>8, <1>2, <2>4, <2>7 DEF Right, Home
  <2>11. Right(global, h, v)
    BY <1>8, <1>1, <2>3, <2>8, <2>9, <2>10 DEF Right
  <2>12. Settled(global, g, v) => Settled(global, h, v)
    BY <1>8, <1>1, <2>6, <2>7 DEF Settled
  <2>13. v \in vs /\ g.in_reg[v] # NoReg => Settled(global, h, v)
    BY <1>8, <1>1, <1>3, <2>9 DEF Settled
  <2> QED
    BY <2>11, <2>12, <2>13
<1> QED
  BY <1>5, <1>6, <1>7, <1>8 DEF h

\* The ages stay natural numbers.
LEMMA TouchedType ==
    ASSUME NEW g \in Gens, NEW r \in Regs
    PROVE  Untouched(g, r) \in [Regs -> Nat] /\ Touched(g, r) \in [Regs -> Nat]
<1>1. g.age \in [Regs -> Nat]
  BY GenFields
<1>2. Untouched(g, r) \in [Regs -> Nat]
  BY <1>1 DEF Untouched
<1>3. IsFiniteSet({q \in Regs \ {r} : g.age[q] # 0})
  BY RegAllocAssumption, FS_Subset
<1>4. 1 + Cardinality({q \in Regs \ {r} : g.age[q] # 0}) \in Nat
  BY <1>3, FS_CardinalityType
<1> QED
  BY <1>2, <1>4 DEF Touched

\* BindValue into a register that is not the value's global one.
LEMMA BindEffect ==
    ASSUME Static, NEW g, GenOK(global, g), NEW v \in Values, NEW r \in Regs, NEW flag \in BOOLEAN,
           global[v] # r, g.in_reg[v] \in {NoReg, r}
    PROVE  LET h == BindValue(g, v, r, flag)
           IN /\ GenOK(global, h)
              /\ \A w \in Values : h.in_reg[w] = IF w = v THEN r ELSE g.in_reg[w]
              /\ h.inhibit = g.inhibit /\ h.holds = g.holds /\ h.slot = g.slot
              /\ \A w \in Values \ {v} : (w \in h.in_global <=> w \in g.in_global) /\ (w \in h.in_frame <=> w \in g.in_frame)
              /\ v \in h.in_global <=> global[v] # NoReg /\ flag
              /\ v \in h.in_frame <=> global[v] = NoReg /\ flag /\ v \notin Constants
<1> DEFINE h == BindValue(g, v, r, flag)
           in(f) == IF flag /\ v \notin Constants THEN f \cup {v} ELSE f \ {v}
           homed == IF global[v] # NoReg THEN in(g.in_global) ELSE g.in_global
           framed == IF global[v] # NoReg THEN g.in_frame ELSE in(g.in_frame)
           cs == [g.contents EXCEPT ![r] = @ \cup {v}]
           at == [g.in_reg EXCEPT ![v] = r]
           old == Touched(g, r)
<1>1. g \in Gens
  BY DEF GenOK
<1>2. h = [g EXCEPT !.contents[r] = @ \cup {v}, !.age = old, !.in_reg[v] = r,
                    !.in_global = homed, !.in_frame = framed]
  BY DEF BindValue, HasGlobal
<1>3. old \in [Regs -> Nat]
  BY <1>1, TouchedType
<1>4. cs \in [Regs -> SUBSET Values] /\ at \in [Values \cup {NoValue} -> Regs \cup {NoReg}]
  BY <1>1, GenFields
<1>5. \A q \in Regs : cs[q] = IF q = r THEN g.contents[r] \cup {v} ELSE g.contents[q]
  BY <1>1, GenFields
<1>6. \A w \in Values \cup {NoValue} : at[w] = IF w = v THEN r ELSE g.in_reg[w]
  BY <1>1, GenFields
<1>7. g.in_frame \subseteq Slots /\ g.in_global \subseteq Slots
  BY <1>1, GenFields
<1>8. global[v] # NoReg => v \in Slots
  BY DEF Static, StaticOK
<1>9. homed \in SUBSET Slots /\ framed \in SUBSET Slots
  BY <1>7 DEF Slots
<1>10. /\ \A w \in Values \ {v} : (w \in homed <=> w \in g.in_global) /\ (w \in framed <=> w \in g.in_frame)
       /\ v \in homed <=> global[v] # NoReg /\ flag
       /\ v \in framed <=> global[v] = NoReg /\ flag /\ v \notin Constants
  BY <1>8 DEF Slots, GenOK
<1> HIDE DEF homed, framed, old, in
<1>11. h = [g EXCEPT !.contents = cs, !.age = old, !.in_reg = at, !.in_global = homed, !.in_frame = framed]
  BY <1>1, <1>2 DEF Gens
<1> HIDE DEF h, cs, at
<1>12. /\ h \in Gens /\ h.contents = cs /\ h.in_reg = at /\ h.in_frame = framed /\ h.in_global = homed
       /\ h.inhibit = g.inhibit /\ h.holds = g.holds /\ h.slot = g.slot
  BY <1>1, <1>3, <1>4, <1>9, <1>11 DEF Gens
<1>13. \A q \in Regs : h.contents[q] = {w \in Values : h.in_reg[w] = q}
  <2> TAKE q \in Regs
  <2>1. g.contents[q] = {w \in Values : g.in_reg[w] = q}
    BY DEF GenOK
  <2> QED
    BY <2>1, <1>5, <1>6, <1>12, NoRegApart
<1>14. h.in_reg[NoValue] = NoReg
  BY <1>6, <1>12, NoRegApart DEF GenOK
<1>15. /\ \A w \in h.in_global : global[w] # NoReg
       /\ \A w \in h.in_frame : global[w] = NoReg
  <2>1. h.in_global \subseteq Values /\ h.in_frame \subseteq Values
    BY <1>9, <1>12, NoRegApart
  <2>2. /\ \A w \in g.in_global : global[w] # NoReg
        /\ \A w \in g.in_frame : global[w] = NoReg
    BY DEF GenOK
  <2>3. ASSUME NEW w \in h.in_global PROVE global[w] # NoReg
    BY <2>1, <2>2, <2>3, <1>10, <1>12
  <2>4. ASSUME NEW w \in h.in_frame PROVE global[w] = NoReg
    BY <2>1, <2>2, <2>4, <1>10, <1>12
  <2> QED
    BY <2>3, <2>4
<1>16. GenOK(global, h)
  BY <1>12, <1>13, <1>14, <1>15 DEF GenOK
<1> QED
  BY <1>6, <1>10, <1>12, <1>16 DEF h

\* BindValue of a result in the global register of its value.
LEMMA BindHome ==
    ASSUME Static, NEW g, GenOK(global, g), NEW v \in Values, NEW r \in Regs, NEW flag \in BOOLEAN,
           global[v] = r, g.in_reg[v] = NoReg
    PROVE  LET h == BindValue(g, v, r, flag)
           IN /\ GenOK(global, h)
              /\ h.in_reg = g.in_reg /\ h.inhibit = g.inhibit /\ h.holds = g.holds /\ h.slot = g.slot
              /\ h.in_global = g.in_global \cup {v} /\ h.in_frame = g.in_frame
<1> DEFINE h == BindValue(g, v, r, flag)
<1>1. g \in Gens /\ v \in Slots /\ global[v] # NoReg
  BY NoRegApart DEF GenOK, Static, StaticOK
<1>2. h = [g EXCEPT !.in_reg[v] = NoReg, !.in_global = @ \cup {v}]
  BY DEF BindValue
<1>3. [g.in_reg EXCEPT ![v] = NoReg] = g.in_reg
  BY <1>1, GenFields
<1>4. h = [g EXCEPT !.in_reg = [g.in_reg EXCEPT ![v] = NoReg], !.in_global = @ \cup {v}]
  BY <1>1, <1>2 DEF Gens
<1>5. h = [g EXCEPT !.in_global = @ \cup {v}]
  BY <1>1, <1>3, <1>4 DEF Gens
<1> HIDE DEF h
<1>6. /\ h \in Gens /\ h.contents = g.contents /\ h.in_reg = g.in_reg /\ h.in_frame = g.in_frame
      /\ h.in_global = g.in_global \cup {v}
      /\ h.inhibit = g.inhibit /\ h.holds = g.holds /\ h.slot = g.slot
  BY <1>1, <1>5 DEF Gens
<1>7. GenOK(global, h)
  BY <1>1, <1>6 DEF GenOK
<1> QED
  BY <1>6, <1>7 DEF h

\* BindTemporary of a register that no value is bound to.
LEMMA TemporaryEffect ==
    ASSUME NEW g, GenOK(global, g), NEW r \in Regs, g.contents[r] = {}
    PROVE  LET h == BindTemporary(g, r)
           IN /\ GenOK(global, h)
              /\ h.in_reg = g.in_reg /\ h.inhibit = g.inhibit /\ h.holds = g.holds /\ h.slot = g.slot
              /\ h.in_global = g.in_global /\ h.in_frame = g.in_frame
<1> DEFINE h == BindTemporary(g, r)
           old == Untouched(g, r)
<1>1. g \in Gens
  BY DEF GenOK
<1>2. old \in [Regs -> Nat]
  BY <1>1, TouchedType
<1>3. h = [g EXCEPT !.contents[r] = {}, !.age = old]
  BY DEF BindTemporary
<1>4. [g.contents EXCEPT ![r] = {}] = g.contents
  BY <1>1, GenFields
<1> HIDE DEF old
<1>5. h = [g EXCEPT !.contents = [g.contents EXCEPT ![r] = {}], !.age = old]
  BY <1>1, <1>3 DEF Gens
<1>6. h = [g EXCEPT !.age = old]
  BY <1>1, <1>4, <1>5 DEF Gens
<1> HIDE DEF h
<1>7. /\ h \in Gens /\ h.contents = g.contents /\ h.in_reg = g.in_reg /\ h.in_frame = g.in_frame
      /\ h.in_global = g.in_global
      /\ h.inhibit = g.inhibit /\ h.holds = g.holds /\ h.slot = g.slot
  BY <1>1, <1>2, <1>6 DEF Gens
<1>8. GenOK(global, h)
  BY <1>7 DEF GenOK
<1> QED
  BY <1>7, <1>8 DEF h

\* Looking a register up changes its age only.
LEMMA AgeEffect ==
    ASSUME NEW g, GenOK(global, g), NEW r \in Regs
    PROVE  LET h == [g EXCEPT !.age = Touched(g, r)]
           IN /\ GenOK(global, h)
              /\ h.in_reg = g.in_reg /\ h.inhibit = g.inhibit /\ h.holds = g.holds /\ h.slot = g.slot
              /\ h.in_global = g.in_global /\ h.in_frame = g.in_frame
<1> DEFINE old == Touched(g, r)
           h == [g EXCEPT !.age = old]
<1>1. g \in Gens
  BY DEF GenOK
<1>2. old \in [Regs -> Nat]
  BY <1>1, TouchedType
<1> HIDE DEF old
<1>3. /\ h \in Gens /\ h.contents = g.contents /\ h.in_reg = g.in_reg /\ h.in_frame = g.in_frame
      /\ h.in_global = g.in_global
      /\ h.inhibit = g.inhibit /\ h.holds = g.holds /\ h.slot = g.slot
  BY <1>1, <1>2 DEF Gens
<1>4. GenOK(global, h)
  BY <1>3 DEF GenOK
<1> QED
  BY <1>3, <1>4 DEF h, old

\* What a load takes.
LEMMA SourceType ==
    ASSUME Static, NEW g, GenOK(global, g), NEW v \in Values
    PROVE  Source(g, v) \subseteq Values
<1>1. g \in Gens
  BY DEF GenOK
<1>2. v \in g.in_global => global[v] \in Regs
  BY NoRegApart DEF GenOK, Static, StaticOK
<1>3. g.in_reg[v] # NoReg => g.in_reg[v] \in Regs
  BY <1>1, GenFields
<1> QED
  BY <1>1, <1>2, <1>3, GenFields DEF Source, Slots

\* A value that is right where it is bound, or in its home, is found by a load.
LEMMA SourceRight ==
    ASSUME NEW g, NEW v, v \notin Constants => Right(global, g, v) /\ Readable(global, g, v)
    PROVE  v \in Source(g, v)
  BY DEF Source, Right, Readable, Home

\* A load changes the content of its register only.
LEMMA LoadEffect ==
    ASSUME Static, NEW g, GenOK(global, g), NEW v \in Values, NEW r \in Regs
    PROVE  LET h == EmitLoad(g, r, v)
           IN /\ GenOK(global, h)
              /\ h.contents = g.contents /\ h.in_reg = g.in_reg /\ h.inhibit = g.inhibit /\ h.slot = g.slot
              /\ h.in_global = g.in_global /\ h.in_frame = g.in_frame
              /\ \A q \in Regs : h.holds[q] = IF q = r THEN Source(g, v) ELSE g.holds[q]
<1> DEFINE h == EmitLoad(g, r, v)
           hs == [g.holds EXCEPT ![r] = Source(g, v)]
<1>1. g \in Gens
  BY DEF GenOK
<1>2. hs \in [Regs -> SUBSET Values]
  BY <1>1, GenFields, SourceType
<1>3. \A q \in Regs : hs[q] = IF q = r THEN Source(g, v) ELSE g.holds[q]
  BY <1>1, GenFields
<1>4. h = [g EXCEPT !.holds = hs]
  BY <1>1 DEF EmitLoad, Gens
<1> HIDE DEF hs, h
<1>5. /\ h \in Gens /\ h.contents = g.contents /\ h.in_reg = g.in_reg /\ h.in_frame = g.in_frame
      /\ h.in_global = g.in_global
      /\ h.inhibit = g.inhibit /\ h.holds = hs /\ h.slot = g.slot
  BY <1>1, <1>2, <1>4 DEF Gens
<1>6. GenOK(global, h)
  BY <1>5 DEF GenOK
<1> QED
  BY <1>3, <1>5, <1>6 DEF h

\* The fields of an operand.
LEMMA DescFields ==
    ASSUME NEW d \in Descs
    PROVE  /\ d.value \in Values \cup {NoValue} /\ d.class \in Seq(Regs) /\ d.reg \in Regs \cup {NoReg}
           /\ d.live \in BOOLEAN /\ d.used \in BOOLEAN /\ d.clobber \in BOOLEAN /\ d.early \in BOOLEAN
           /\ d.duplicate \in BOOLEAN /\ d.thrash \in BOOLEAN /\ d.store \in BOOLEAN
           /\ d.copy \in BOOLEAN /\ d.kill \in BOOLEAN
  BY DEF Descs

\* What a run of saves stores, a longer one stores too.
LEMMA StoredTrans ==
    ASSUME NEW a, NEW b, NEW c, Stored(global, permanent, a, b), Stored(global, permanent, b, c)
    PROVE  Stored(global, permanent, a, c)
<1>1. \A w \in Values : c.in_reg[w] \in {a.in_reg[w], NoReg}
  BY DEF Stored
<1>2. \A w \in Slots : a.in_reg[w] = NoReg => c.slot[w] = a.slot[w]
  <2> TAKE w \in Slots
  <2> HAVE a.in_reg[w] = NoReg
  <2>1. b.in_reg[w] = NoReg
    BY NoRegApart DEF Stored
  <2> QED
    BY <2>1 DEF Stored
<1> QED
  BY <1>1, <1>2 DEF Stored

\* Values that two steps preserve are preserved by both.
LEMMA PreservedTrans ==
    ASSUME NEW a, NEW b, NEW c, NEW vs, Preserved(global, vs, a, b), Preserved(global, vs, b, c)
    PROVE  Preserved(global, vs, a, c)
  BY DEF Preserved

\* Doing nothing preserves every value.
LEMMA PreservedSame ==
    ASSUME NEW a, NEW vs
    PROVE  Preserved(global, vs, a, a)
  BY DEF Preserved

\* A generator whose values are not bound to global registers keeps them apart.
LEMMA LooseApart ==
    ASSUME NEW g, Static, Loose(permanent, g)
    PROVE  Apart(permanent, g)
  BY NoRegApart DEF Loose, Apart, Static, StaticOK

\* Saves bind nothing.
LEMMA StoredLoose ==
    ASSUME NEW a, NEW b, Loose(permanent, a), Stored(global, permanent, a, b)
    PROVE  Loose(permanent, b)
  BY DEF Loose, Stored

\* value_usage.
LEMMA UsageRight ==
    ASSUME NEW rs, Shape(rs), NEW v \in Values
    PROVE  /\ "INPUT" \in Usage(rs, v) <=> v \in Reads(rs)
           /\ "DEAD" \in Usage(rs, v) <=> \/ v \in Constants \/ v = Dest(rs)
                                          \/ \E i \in Operands(rs) : Val(rs, i) = v /\ ~rs.descs[i].live
<1> DEFINE As(d) == CASE d.used -> {"INPUT", "LIVE", "USED"}
                      [] ~d.used /\ d.live -> {"INPUT", "LIVE"}
                      [] OTHER -> {"INPUT", "DEAD"}
           of == {j \in Inputs(rs) : rs.descs[j].value = v}
<1>1. Usage(rs, v) = (UNION {As(rs.descs[i]) : i \in of})
           \cup (IF v \in Constants \/ (~rs.ternary /\ rs.descs[0].value = v) THEN {"DEAD"} ELSE {})
  BY DEF Usage
<1>2. \A i \in 0 .. 2 : /\ "INPUT" \in As(rs.descs[i])
                        /\ "DEAD" \in As(rs.descs[i]) <=> ~rs.descs[i].live
  <2> TAKE i \in 0 .. 2
  <2>1. rs.descs[i].used \in BOOLEAN /\ rs.descs[i].live \in BOOLEAN /\ (rs.descs[i].used => rs.descs[i].live)
    BY DescFields DEF Shape
  <2> QED
    BY <2>1
<1>3. Inputs(rs) \subseteq 0 .. 2
  BY DEF Inputs
<1>4. v \in Constants \/ (~rs.ternary /\ rs.descs[0].value = v) <=> v \in Constants \/ v = Dest(rs)
  BY NoRegApart DEF Dest, Output, Given
<1>5. of = {i \in Operands(rs) : Val(rs, i) = v}
  BY <1>3, NoRegApart DEF Operands, Given, Val
<1>8. of \subseteq 0 .. 2
  BY <1>3, <1>5 DEF Operands
<1> DEFINE us == [i \in 0 .. 2 |-> As(rs.descs[i])]
           all == {us[i] : i \in of}
           rest == IF v \in Constants \/ (~rs.ternary /\ rs.descs[0].value = v) THEN {"DEAD"} ELSE {}
<1>9. Usage(rs, v) = (UNION all) \cup rest
  <2>1. \A i \in of : us[i] = As(rs.descs[i])
    BY <1>8
  <2> HIDE DEF us
  <2>2. all = {As(rs.descs[i]) : i \in of}
    BY <2>1
  <2> QED
    BY <2>2, <1>1
<1>10. /\ "INPUT" \notin rest
       /\ "DEAD" \in rest <=> v \in Constants \/ v = Dest(rs)
  BY <1>4
<1>11. \A i \in of : /\ "INPUT" \in us[i]
                     /\ "DEAD" \in us[i] <=> ~rs.descs[i].live
  BY <1>2, <1>8
<1> HIDE DEF As, of, us, rest
<1>12. \A x : x \in UNION all <=> \E i \in of : x \in us[i]
  BY Zenon
<1> HIDE DEF all
<1>13. \A x : x \in Usage(rs, v) <=> (\E i \in of : x \in us[i]) \/ x \in rest
  BY <1>9, <1>12
<1>6. "INPUT" \in Usage(rs, v) <=> \E i \in of : "INPUT" \in us[i]
  BY <1>10, <1>13, Zenon
<1>7. "DEAD" \in Usage(rs, v) <=> v \in Constants \/ v = Dest(rs) \/ \E i \in of : "DEAD" \in us[i]
  BY <1>10, <1>13, Zenon
<1> QED
  BY <1>5, <1>6, <1>7, <1>11 DEF Reads

\* FreeValues and SaveValues as steps that lose nothing.
LEMMA FreeStored ==
    ASSUME NEW g, GenOK(global, g), NEW vs, vs \subseteq Values
    PROVE  Stored(global, permanent, g, FreeValues(g, vs))
<1> DEFINE h == FreeValues(g, vs)
<1>1. /\ GenOK(global, h)
      /\ \A v \in Values : h.in_reg[v] = IF v \in vs THEN NoReg ELSE g.in_reg[v]
      /\ h.inhibit = g.inhibit /\ h.holds = g.holds /\ h.slot = g.slot
  BY FreeEffect
<1> HIDE DEF h
<1>2. Stored(global, permanent, g, h)
  BY <1>1 DEF Stored
<1> QED
  BY <1>2 DEF h

\* One save is such a run of saves.
LEMMA SaveStored ==
    ASSUME Static, NEW g, GenOK(global, g), Apart(permanent, g), NEW vs, vs \subseteq Values
    PROVE  Stored(global, permanent, g, SaveValues(g, vs))
<1> DEFINE h == SaveValues(g, vs)
           saved == Saved(global, g, vs)
<1>1. /\ GenOK(global, h)
      /\ h.in_reg = g.in_reg /\ h.inhibit = g.inhibit
      /\ \A v \in Slots : h.slot[v] = IF v \in saved THEN g.holds[g.in_reg[v]] ELSE g.slot[v]
  BY SaveEffect
<1>2. \A q \in Regs \ permanent : h.holds[q] = g.holds[q]
  BY SaveKeeps
<1>3. \A w \in Slots : g.in_reg[w] = NoReg => w \notin saved
  BY DEF Saved, Bound
<1> HIDE DEF h, saved
<1>4. Stored(global, permanent, g, h)
  BY <1>1, <1>2, <1>3 DEF Stored
<1> QED
  BY <1>4 DEF h

\* Saving some values and freeing some: what is lost is not among the others.
LEMMA SaveAndFree ==
    ASSUME Static, NEW g, GenOK(global, g), Apart(permanent, g),
           NEW saves, saves \subseteq Values, NEW frees, frees \subseteq Values
    PROVE  LET h == FreeValues(SaveValues(g, saves), frees)
           IN /\ Stored(global, permanent, g, h)
              /\ \A v \in Values : h.in_reg[v] = IF v \in frees THEN NoReg ELSE g.in_reg[v]
              /\ Preserved(global, Untaken(g, saves, frees), g, h)
              /\ \A v \in Slots \cap saves : Right(global, g, v) /\ g.in_reg[v] # NoReg => Settled(global, h, v)
<1> DEFINE m == SaveValues(g, saves)
           h == FreeValues(m, frees)
<1>1. GenOK(global, m) /\ m.in_reg = g.in_reg
  BY SaveEffect
<1>2. Stored(global, permanent, g, m)
  BY SaveStored
<1>3. /\ \A v \in Slots : Right(global, g, v) =>
                  /\ Right(global, m, v)
                  /\ Settled(global, g, v) => Settled(global, m, v)
                  /\ v \in saves /\ g.in_reg[v] # NoReg => Settled(global, m, v)
      /\ \A v \in Slots : Readable(global, g, v) => Readable(global, m, v)
  BY SaveKeeps
<1> HIDE DEF m
<1>4. \A v \in Values : h.in_reg[v] = IF v \in frees THEN NoReg ELSE m.in_reg[v]
  BY <1>1, FreeEffect
<1>5. \A v \in Slots :
         /\ Right(global, m, v) /\ (v \in frees => Home(global, m, v)) => Right(global, h, v)
         /\ Readable(global, m, v) /\ (v \in frees => Settled(global, m, v)) => Readable(global, h, v)
         /\ Settled(global, h, v) = Settled(global, m, v)
  BY <1>1, FreeKeeps
<1>6. Stored(global, permanent, m, h)
  BY <1>1, FreeStored
<1> HIDE DEF h
<1>7. \A v \in Slots : Settled(global, m, v) /\ Right(global, m, v) => Home(global, m, v)
  BY DEF Settled, Right, Home
<1>8. ASSUME NEW v \in Untaken(g, saves, frees), Right(global, g, v)
      PROVE  /\ Right(global, h, v)
             /\ Settled(global, g, v) => Settled(global, h, v)
             /\ Readable(global, g, v) => Readable(global, h, v)
  <2>0. v \in Slots /\ (v \in frees \ saves => g.in_reg[v] = NoReg)
    BY <1>8 DEF Untaken
  <2>1. Right(global, m, v) /\ (Settled(global, g, v) => Settled(global, h, v))
    BY <1>8, <2>0, <1>3, <1>5
  <2>2. CASE v \in frees /\ g.in_reg[v] # NoReg
    <3>1. v \in saves
      BY <1>8, <2>0, <2>2
    <3>2. Settled(global, m, v)
      BY <1>8, <2>0, <2>2, <3>1, <1>3
    <3> QED
      BY <1>8, <2>0, <3>2, <2>1, <1>3, <1>5, <1>7
  <2>3. CASE v \in frees /\ g.in_reg[v] = NoReg
    <3>1. m.in_reg[v] = NoReg
      BY <2>3, <1>1
    <3>2. Home(global, m, v)
      BY <3>1, <2>1, <2>0 DEF Right
    <3>3. Right(global, h, v)
      BY <1>8, <2>0, <3>2, <2>1, <1>5
    <3>4. h.in_reg[v] = NoReg /\ h.in_global = m.in_global
      BY <1>1, <1>4, <1>8, <2>3, FreeEffect, NoRegApart DEF h
    <3>5. Readable(global, m, v) => Readable(global, h, v)
      BY <3>1, <3>4 DEF Readable
    <3> QED
      BY <1>8, <2>0, <2>1, <3>3, <3>5, <1>3
  <2>4. CASE v \notin frees
    BY <1>8, <2>0, <2>1, <2>4, <1>3, <1>5
  <2> QED
    BY <2>2, <2>3, <2>4
<1>9. Preserved(global, Untaken(g, saves, frees), g, h)
  BY <1>8 DEF Preserved
<1>10. Stored(global, permanent, g, h)
  BY <1>2, <1>6, StoredTrans
<1>11. \A v \in Slots \cap saves : Right(global, g, v) /\ g.in_reg[v] # NoReg => Settled(global, h, v)
  BY <1>3, <1>5
<1>12. \A v \in Values : h.in_reg[v] = IF v \in frees THEN NoReg ELSE g.in_reg[v]
  BY <1>1, <1>4
<1> QED
  BY <1>9, <1>10, <1>11, <1>12 DEF h, m

\* spill_clobbered_register, of the clobbered registers.
LEMMA SpillKeeps ==
    ASSUME Static, NEW g, GenOK(global, g), Loose(permanent, g), NEW rs, Shape(rs),
           NEW rset, rset \subseteq Regs
    PROVE  LET h == SpillClobbered(g, rs, rset)
           IN /\ Stored(global, permanent, g, h)
              /\ \A v \in Values : h.in_reg[v] = IF g.in_reg[v] \in rset /\ v \notin Reads(rs)
                                                 THEN NoReg ELSE g.in_reg[v]
              /\ Preserved(global, Kept(rs), g, h)
              /\ \A v \in Slots \ {Dest(rs)} :
                    Right(global, g, v) /\ g.in_reg[v] \in rset
                      /\ (\A i \in Operands(rs) : Val(rs, i) = v => rs.descs[i].live) => Settled(global, h, v)
<1> DEFINE vs == UNION {g.contents[r] : r \in rset}
           Has(use) == {v \in vs : use \in Usage(rs, v)}
           saves == vs \ Has("DEAD")
           frees == vs \ Has("INPUT")
           h == SpillClobbered(g, rs, rset)
<1>1. h = FreeValues(SaveValues(g, saves), frees)
  BY DEF SpillClobbered
<1>2. g \in Gens
  BY DEF GenOK
<1>3. \A v \in Values : v \in vs <=> g.in_reg[v] \in rset
  <2> TAKE v \in Values
  <2>1. \A r \in rset : v \in g.contents[r] <=> g.in_reg[v] = r
    BY DEF GenOK
  <2> QED
    BY <2>1
<1>4. vs \subseteq Values
  <2>1. \A r \in rset : g.contents[r] \subseteq Values
    BY <1>2, GenFields
  <2> QED
    BY <2>1
<1>5. \A v \in vs : /\ v \in saves <=> "DEAD" \notin Usage(rs, v)
                    /\ v \in frees <=> "INPUT" \notin Usage(rs, v)
  OBVIOUS
<1>6. saves \subseteq vs /\ frees \subseteq vs
  OBVIOUS
<1> HIDE DEF saves, frees, vs, Has
<1>7. \A v \in vs : v \in frees <=> v \notin Reads(rs)
  BY <1>4, <1>5, UsageRight
<1>8. \A v \in vs : v \notin saves => \/ v \in Constants \/ v = Dest(rs)
                                     \/ \E i \in Operands(rs) : Val(rs, i) = v /\ ~rs.descs[i].live
  BY <1>4, <1>5, UsageRight
<1>9. Apart(permanent, g)
  BY LooseApart
<1>10. /\ Stored(global, permanent, g, h)
       /\ \A v \in Values : h.in_reg[v] = IF v \in frees THEN NoReg ELSE g.in_reg[v]
       /\ Preserved(global, Untaken(g, saves, frees), g, h)
       /\ \A v \in Slots \cap saves : Right(global, g, v) /\ g.in_reg[v] # NoReg => Settled(global, h, v)
  BY <1>1, <1>4, <1>6, <1>9, SaveAndFree
<1> HIDE DEF h
<1>11. \A v \in Values : h.in_reg[v] = IF g.in_reg[v] \in rset /\ v \notin Reads(rs) THEN NoReg ELSE g.in_reg[v]
  BY <1>3, <1>6, <1>7, <1>10
<1>12. \A v \in Slots : v \notin Constants
  BY DEF Slots
<1>13. Kept(rs) \subseteq Untaken(g, saves, frees)
  BY <1>6, <1>7, <1>8, <1>12 DEF Kept, Reads, Untaken, Untaken
<1>14. Preserved(global, Kept(rs), g, h)
  BY <1>10, <1>13 DEF Preserved
<1>15. ASSUME NEW v \in Slots \ {Dest(rs)}, Right(global, g, v), g.in_reg[v] \in rset,
              \A i \in Operands(rs) : Val(rs, i) = v => rs.descs[i].live
       PROVE  Settled(global, h, v)
  <2>1. v \in vs /\ v \notin Constants /\ g.in_reg[v] # NoReg
    BY <1>15, <1>3, <1>12, NoRegApart
  <2>2. v \in saves
    BY <1>15, <2>1, <1>8
  <2> QED
    BY <1>15, <2>1, <2>2, <1>10
<1> QED
  BY <1>10, <1>11, <1>14, <1>15 DEF h

\* free_output_value.
LEMMA OutputFreed ==
    ASSUME Static, NEW g, GenOK(global, g), Loose(permanent, g), NEW rs, Shape(rs), ~rs.ternary
    PROVE  LET h == FreeOutput(g, rs)
           IN /\ Stored(global, permanent, g, h)
              /\ \A v \in Values : h.in_reg[v] = IF v = Dest(rs) /\ v \notin Reads(rs) THEN NoReg ELSE g.in_reg[v]
              /\ Preserved(global, Kept(rs), g, h)
              /\ \A v \in Slots : Settled(global, g, v) => Settled(global, h, v)
<1> DEFINE v == rs.descs[0].value
           h == FreeOutput(g, rs)
<1>1. v \in Values \cup {NoValue} /\ \A i \in 0 .. 2 : Val(rs, i) \in Values \cup {NoValue}
  BY DescFields DEF Shape, Val
<1>2. v # NoValue => Dest(rs) = v
  BY DEF Dest, Output, Given
<1>3. v = NoValue => Dest(rs) = NoValue
  BY DEF Dest
<1>4. Reads(rs) = {Val(rs, i) : i \in {1, 2}} \ {NoValue}
  <2>1. Operands(rs) = {i \in {1, 2} : Val(rs, i) # NoValue}
    BY DEF Operands, Inputs, Given, Val
  <2> QED
    BY <2>1 DEF Reads
<1>5. CASE v \in {NoValue, rs.descs[1].value, rs.descs[2].value} \/ g.in_reg[v] = NoReg
  <2>1. h = g
    BY <1>5 DEF FreeOutput
  <2>2. Stored(global, permanent, g, g)
    BY DEF Stored
  <2>3. Preserved(global, Kept(rs), g, g)
    BY PreservedSame
  <2>4. \A u \in Values : u = Dest(rs) /\ u \notin Reads(rs) => g.in_reg[u] = NoReg
    BY <1>2, <1>3, <1>4, <1>5, NoRegApart DEF Val
  <2> QED
    BY <2>1, <2>2, <2>3, <2>4
<1>6. CASE ~(v \in {NoValue, rs.descs[1].value, rs.descs[2].value} \/ g.in_reg[v] = NoReg)
  <2>1. h = FreeValues(g, {v}) /\ v \in Values /\ v = Dest(rs) /\ v \notin Reads(rs)
    BY <1>1, <1>2, <1>4, <1>6 DEF FreeOutput, Val
  <2>2. Stored(global, permanent, g, h)
    BY <2>1, FreeStored
  <2>3. \A u \in Values : h.in_reg[u] = IF u \in {v} THEN NoReg ELSE g.in_reg[u]
    BY <2>1, FreeEffect
  <2>4. \A u \in Slots : /\ Right(global, g, u) /\ (u \in {v} => Home(global, g, u)) => Right(global, h, u)
                         /\ Readable(global, g, u) /\ (u \in {v} => Settled(global, g, u)) => Readable(global, h, u)
                         /\ Settled(global, h, u) = Settled(global, g, u)
    BY <2>1, FreeKeeps
  <2>5. Preserved(global, Kept(rs), g, h)
    BY <2>1, <2>4 DEF Preserved, Kept
  <2> QED
    BY <2>1, <2>2, <2>3, <2>4, <2>5
<1> QED
  BY <1>5, <1>6

\* save_input_value.
LEMMA InputSaved ==
    ASSUME Static, NEW g, GenOK(global, g), Loose(permanent, g), NEW rs, Shape(rs), NEW i \in 0 .. 2
    PROVE  LET h == SaveInput(g, rs, i)
               d == rs.descs[i]
           IN /\ Stored(global, permanent, g, h)
              /\ \A v \in Values : h.in_reg[v] = IF i \in Given(rs) /\ d.store /\ d.thrash /\ v = Val(rs, i)
                                                 THEN NoReg ELSE g.in_reg[v]
              /\ Preserved(global, Slots, g, h)
              /\ i \in Given(rs) /\ d.store /\ Val(rs, i) \in Slots /\ Right(global, g, Val(rs, i))
                    /\ g.in_reg[Val(rs, i)] # NoReg => Settled(global, h, Val(rs, i))
<1> DEFINE d == rs.descs[i]
           h == SaveInput(g, rs, i)
<1>1. d \in Descs /\ d.value \in Values \cup {NoValue} /\ Val(rs, i) = d.value
  BY DescFields DEF Shape, Val
<1>2. d.store \in BOOLEAN /\ d.thrash \in BOOLEAN
  BY <1>1, DescFields
<1>3. i \in Given(rs) => d.value \in Values
  BY <1>1 DEF Given
<1>4. CASE i \notin Given(rs) \/ ~d.store \/ g.in_reg[d.value] = NoReg
  <2>1. h = g
    BY <1>4 DEF SaveInput
  <2>2. Stored(global, permanent, g, g)
    BY DEF Stored
  <2>3. Preserved(global, Slots, g, g)
    BY PreservedSame
  <2> QED
    BY <1>1, <1>4, <2>1, <2>2, <2>3
<1>5. CASE ~(i \notin Given(rs) \/ ~d.store \/ g.in_reg[d.value] = NoReg)
  <2> DEFINE frees == IF d.thrash THEN {d.value} ELSE {}
  <2>1. h = FreeValues(SaveValues(g, {d.value}), frees)
    BY <1>5 DEF SaveInput
  <2>2. Apart(permanent, g) /\ {d.value} \subseteq Values /\ frees \subseteq Values
    BY <1>3, <1>5, LooseApart
  <2>3. \A v : v \in frees <=> d.thrash /\ v = d.value
    BY <1>2
  <2> HIDE DEF frees
  <2>4. /\ Stored(global, permanent, g, h)
        /\ \A v \in Values : h.in_reg[v] = IF v \in frees THEN NoReg ELSE g.in_reg[v]
        /\ Preserved(global, Untaken(g, {d.value}, frees), g, h)
        /\ \A v \in Slots \cap {d.value} : Right(global, g, v) /\ g.in_reg[v] # NoReg => Settled(global, h, v)
    BY <2>1, <2>2, SaveAndFree
  <2> HIDE DEF h
  <2>5. Preserved(global, Slots, g, h)
    BY <2>3, <2>4 DEF Preserved, Untaken
  <2> QED
    BY <1>1, <1>2, <1>5, <2>3, <2>4, <2>5 DEF h
<1> QED
  BY <1>4, <1>5

\* Spilling the clobbered registers saves what is bound to them.
LEMMA SpillingKeeps ==
    ASSUME Static, NEW g, GenOK(global, g), Loose(permanent, g), NEW rs, Shape(rs)
    PROVE  LET h == Spilling(g, rs)
           IN /\ Stored(global, permanent, g, h)
              /\ \A v \in Values : h.in_reg[v] = IF v \notin Reads(rs) /\ (v = Dest(rs) \/ g.in_reg[v] \in rs.clobber \ permanent)
                                                 THEN NoReg ELSE g.in_reg[v]
              /\ Preserved(global, Kept(rs), g, h)
              /\ \A v \in Slots \ {Dest(rs)} :
                    Right(global, g, v) /\ g.in_reg[v] \in rs.clobber \ permanent
                      /\ (\A i \in Operands(rs) : Val(rs, i) = v => rs.descs[i].live) => Settled(global, h, v)
<1> DEFINE s == SpillClobbered(g, rs, rs.clobber \ permanent)
           o == FreeOutput(s, rs)
           h == Spilling(g, rs)
<1>1. rs.clobber \ permanent \subseteq Regs
  BY DEF Shape
<1>2. /\ Stored(global, permanent, g, s)
      /\ \A v \in Values : s.in_reg[v] = IF g.in_reg[v] \in rs.clobber \ permanent /\ v \notin Reads(rs)
                                         THEN NoReg ELSE g.in_reg[v]
      /\ Preserved(global, Kept(rs), g, s)
      /\ \A v \in Slots \ {Dest(rs)} :
                  Right(global, g, v) /\ g.in_reg[v] \in rs.clobber \ permanent
                    /\ (\A i \in Operands(rs) : Val(rs, i) = v => rs.descs[i].live) => Settled(global, s, v)
  BY <1>1, SpillKeeps
<1> HIDE DEF s
<1>3. GenOK(global, s) /\ Loose(permanent, s)
  BY <1>2, StoredLoose DEF Stored
<1>4. CASE rs.ternary
  <2>1. h = s
    BY <1>4 DEF Spilling, s
  <2>2. Dest(rs) = NoValue
    BY <1>4 DEF Dest, Output
  <2> QED
    BY <1>2, <2>1, <2>2, NoRegApart
<1>5. CASE ~rs.ternary
  <2>1. h = o
    BY <1>5 DEF Spilling, s
  <2>2. /\ Stored(global, permanent, s, o)
        /\ \A v \in Values : o.in_reg[v] = IF v = Dest(rs) /\ v \notin Reads(rs) THEN NoReg ELSE s.in_reg[v]
        /\ Preserved(global, Kept(rs), s, o)
        /\ \A v \in Slots : Settled(global, s, v) => Settled(global, o, v)
    BY <1>3, <1>5, OutputFreed
  <2> HIDE DEF o, h
  <2>3. Stored(global, permanent, g, o) /\ Preserved(global, Kept(rs), g, o)
    BY <1>2, <2>2, StoredTrans, PreservedTrans
  <2>4. \A v \in Values : o.in_reg[v] = IF v \notin Reads(rs) /\ (v = Dest(rs) \/ g.in_reg[v] \in rs.clobber \ permanent)
                                         THEN NoReg ELSE g.in_reg[v]
    BY <1>2, <2>2
  <2> QED
    BY <1>2, <2>1, <2>2, <2>3, <2>4 DEF h
<1> QED
  BY <1>4, <1>5

\* The save of one more input.
LEMMA SavedNext ==
    ASSUME Static, NEW base, Loose(permanent, base), NEW rs, Shape(rs), NEW a, NEW is, NEW i \in 0 .. 2,
           SavedFor(global, permanent, base, rs, a, is)
    PROVE  SavedFor(global, permanent, base, rs, SaveInput(a, rs, i), is \cup {i})
<1> DEFINE d == rs.descs[i]
           h == SaveInput(a, rs, i)
           Hit(j, v) == rs.descs[j].store /\ rs.descs[j].thrash /\ v = Val(rs, j)
<1>1. Stored(global, permanent, base, a) /\ Preserved(global, Slots, base, a)
  BY DEF SavedFor
<1>2. GenOK(global, a) /\ Loose(permanent, a)
  BY <1>1, StoredLoose DEF Stored
<1>3. \A v \in Values : a.in_reg[v] = IF \E j \in is \cap Given(rs) : Hit(j, v) THEN NoReg ELSE base.in_reg[v]
  BY DEF SavedFor
<1>4. \A j \in is \cap Given(rs) :
        rs.descs[j].store /\ Val(rs, j) \in Slots /\ Right(global, base, Val(rs, j))
           /\ base.in_reg[Val(rs, j)] # NoReg => Settled(global, a, Val(rs, j))
  BY DEF SavedFor
<1>5. /\ Stored(global, permanent, a, h)
      /\ \A v \in Values : h.in_reg[v] = IF i \in Given(rs) /\ Hit(i, v) THEN NoReg ELSE a.in_reg[v]
      /\ Preserved(global, Slots, a, h)
      /\ i \in Given(rs) /\ d.store /\ Val(rs, i) \in Slots /\ Right(global, a, Val(rs, i))
            /\ a.in_reg[Val(rs, i)] # NoReg => Settled(global, h, Val(rs, i))
  BY <1>2, InputSaved
<1> HIDE DEF h, d, Hit
<1>6. Stored(global, permanent, base, h) /\ Preserved(global, Slots, base, h)
  BY <1>1, <1>5, StoredTrans, PreservedTrans
<1>7. \A v \in Values : h.in_reg[v] = IF \E j \in (is \cup {i}) \cap Given(rs) : Hit(j, v)
                                      THEN NoReg ELSE base.in_reg[v]
  <2> TAKE v \in Values
  <2>1. CASE \E j \in is \cap Given(rs) : Hit(j, v)
    BY <2>1, <1>3, <1>5
  <2>2. CASE ~\E j \in is \cap Given(rs) : Hit(j, v)
    BY <2>2, <1>3, <1>5
  <2> QED
    BY <2>1, <2>2
<1>8. ASSUME NEW j \in (is \cup {i}) \cap Given(rs), rs.descs[j].store, Val(rs, j) \in Slots,
             Right(global, base, Val(rs, j)), base.in_reg[Val(rs, j)] # NoReg
      PROVE  Settled(global, h, Val(rs, j))
  <2>1. Right(global, a, Val(rs, j))
    BY <1>1, <1>8 DEF Preserved
  <2>2. Settled(global, a, Val(rs, j)) => Settled(global, h, Val(rs, j))
    BY <1>5, <1>8, <2>1 DEF Preserved
  <2>3. CASE j \in is
    BY <1>4, <1>8, <2>2, <2>3
  <2>4. CASE j \notin is
    <3>1. j = i
      BY <1>8, <2>4
    <3>2. CASE a.in_reg[Val(rs, i)] # NoReg
      BY <1>5, <1>8, <2>1, <3>1, <3>2 DEF d
    <3>3. CASE a.in_reg[Val(rs, i)] = NoReg
      <4>1. PICK n \in is \cap Given(rs) : Hit(n, Val(rs, i))
        BY <1>3, <1>8, <3>1, <3>3, NoRegApart
      <4>2. rs.descs[n].store /\ Val(rs, n) = Val(rs, i)
        BY <4>1 DEF Hit
      <4>3. Settled(global, a, Val(rs, i))
        BY <1>4, <1>8, <3>1, <4>2
      <4> QED
        BY <2>2, <3>1, <4>3
    <3> QED
      BY <3>2, <3>3
  <2> QED
    BY <2>3, <2>4
<1> QED
  BY <1>6, <1>7, <1>8 DEF SavedFor, Hit, h

\* Everything before the loads.
LEMMA SavingKeeps ==
    ASSUME Static, NEW g, GenOK(global, g), Loose(permanent, g), NEW rs, Shape(rs),
           \A i \in Operands(rs) : rs.descs[i].store \/ rs.descs[i].thrash => i \in Single(rs),
           \A i \in Single(rs) : rs.descs[i].thrash => rs.descs[i].store
    PROVE  LET k == Saving(g, rs)
           IN /\ Stored(global, permanent, g, k)
              /\ Preserved(global, Kept(rs), g, k)
              /\ \A v \in Values \ Reads(rs) :
                    k.in_reg[v] = IF v = Dest(rs) \/ g.in_reg[v] \in rs.clobber \ permanent THEN NoReg ELSE g.in_reg[v]
              /\ \A v \in Reads(rs) :
                    k.in_reg[v] = IF \E i \in Single(rs) : rs.descs[i].thrash /\ v = Val(rs, i)
                                  THEN NoReg ELSE g.in_reg[v]
              /\ \A i \in Single(rs) :
                    rs.descs[i].store /\ Val(rs, i) \in Slots /\ Right(global, g, Val(rs, i))
                       /\ g.in_reg[Val(rs, i)] # NoReg => Settled(global, k, Val(rs, i))
              /\ \A v \in Slots \ {Dest(rs)} :
                    Right(global, g, v) /\ g.in_reg[v] \in rs.clobber \ permanent
                      /\ (\A i \in Operands(rs) : Val(rs, i) = v => rs.descs[i].live) => Settled(global, k, v)
<1> DEFINE base == Spilling(g, rs)
           zero == IF rs.ternary THEN SaveInput(base, rs, 0) ELSE base
           one == SaveInput(zero, rs, 1)
           k == SaveInput(one, rs, 2)
<1>1. /\ Stored(global, permanent, g, base)
      /\ \A v \in Values : base.in_reg[v] = IF v \notin Reads(rs) /\ (v = Dest(rs) \/ g.in_reg[v] \in rs.clobber \ permanent)
                                            THEN NoReg ELSE g.in_reg[v]
      /\ Preserved(global, Kept(rs), g, base)
      /\ \A v \in Slots \ {Dest(rs)} :
            Right(global, g, v) /\ g.in_reg[v] \in rs.clobber \ permanent
              /\ (\A i \in Operands(rs) : Val(rs, i) = v => rs.descs[i].live) => Settled(global, base, v)
  BY SpillingKeeps
<1>2. Saving(g, rs) = k
  BY DEF Saving
<1> HIDE DEF base
<1>3. GenOK(global, base) /\ Loose(permanent, base)
  BY <1>1, StoredLoose DEF Stored
<1>4. SavedFor(global, permanent, base, rs, base, {})
  BY <1>3 DEF SavedFor, Stored, Preserved
<1>5. SavedFor(global, permanent, base, rs, zero, Inputs(rs) \ {1, 2})
  <2>1. CASE rs.ternary
    <3>1. {} \cup {0} = Inputs(rs) \ {1, 2} /\ 0 \in 0 .. 2
      BY <2>1 DEF Inputs
    <3>2. zero = SaveInput(base, rs, 0)
      BY <2>1
    <3>3. SavedFor(global, permanent, base, rs, SaveInput(base, rs, 0), {} \cup {0})
      BY <1>3, <1>4, <3>1, SavedNext
    <3> QED
      BY <3>1, <3>2, <3>3
  <2>2. CASE ~rs.ternary
    <3>1. {} = Inputs(rs) \ {1, 2}
      BY <2>2 DEF Inputs
    <3> QED
      BY <1>4, <2>2, <3>1
  <2> QED
    BY <2>1, <2>2
<1> DEFINE none == Inputs(rs) \ {1, 2}
           first == none \cup {1}
<1> HIDE DEF zero, none
<1>6. SavedFor(global, permanent, base, rs, one, first)
  <2>1. 1 \in 0 .. 2 /\ SavedFor(global, permanent, base, rs, zero, none)
    BY <1>5 DEF none
  <2> QED
    BY <1>3, <2>1, SavedNext
<1> HIDE DEF one, first
<1>7. SavedFor(global, permanent, base, rs, k, first \cup {2})
  <2>1. 2 \in 0 .. 2
    OBVIOUS
  <2> QED
    BY <1>3, <1>6, <2>1, SavedNext
<1>8. first \cup {2} = Inputs(rs)
  BY DEF Inputs, first, none
<1> HIDE DEF k
<1>9. SavedFor(global, permanent, base, rs, k, Inputs(rs))
  BY <1>7, <1>8
<1>10. Stored(global, permanent, g, k) /\ Preserved(global, Slots, base, k) /\ Preserved(global, Kept(rs), base, k)
  BY <1>1, <1>9, StoredTrans DEF SavedFor, Kept, Preserved
<1>11. Preserved(global, Kept(rs), g, k)
  BY <1>1, <1>10, PreservedTrans
<1>12. \A v \in Values : k.in_reg[v] = IF \E i \in Single(rs) : rs.descs[i].thrash /\ v = Val(rs, i)
                                       THEN NoReg ELSE base.in_reg[v]
  <2>1. \A v \in Values : k.in_reg[v] = IF \E i \in Operands(rs) : /\ rs.descs[i].store /\ rs.descs[i].thrash
                                                                  /\ v = Val(rs, i)
                                       THEN NoReg ELSE base.in_reg[v]
    BY <1>9 DEF SavedFor, Operands
  <2>2. \A v \in Values : (\E i \in Operands(rs) : /\ rs.descs[i].store /\ rs.descs[i].thrash
                                                   /\ v = Val(rs, i))
                          <=> (\E i \in Single(rs) : rs.descs[i].thrash /\ v = Val(rs, i))
    BY DEF Single
  <2> QED
    BY <2>1, <2>2
<1>13. \A v \in Values \ Reads(rs) :
                  k.in_reg[v] = IF v = Dest(rs) \/ g.in_reg[v] \in rs.clobber \ permanent THEN NoReg ELSE g.in_reg[v]
  <2> TAKE v \in Values \ Reads(rs)
  <2>1. ~\E i \in Single(rs) : rs.descs[i].thrash /\ v = Val(rs, i)
    BY DEF Reads, Single
  <2> QED
    BY <1>1, <1>12, <2>1
<1>14. \A v \in Reads(rs) : v \in Values
  BY DescFields, NoRegApart DEF Reads, Operands, Given, Inputs, Shape, Val
<1>15. \A v \in Reads(rs) :
                  k.in_reg[v] = IF \E i \in Single(rs) : rs.descs[i].thrash /\ v = Val(rs, i)
                                THEN NoReg ELSE g.in_reg[v]
  BY <1>1, <1>12, <1>14
<1>16. ASSUME NEW i \in Single(rs), rs.descs[i].store, Val(rs, i) \in Slots, Right(global, g, Val(rs, i)),
              g.in_reg[Val(rs, i)] # NoReg
       PROVE  Settled(global, k, Val(rs, i))
  <2>1. i \in Inputs(rs) \cap Given(rs) /\ Val(rs, i) \in Reads(rs) /\ Val(rs, i) \in Kept(rs)
    BY <1>16 DEF Single, Operands, Reads, Kept
  <2>2. Right(global, base, Val(rs, i)) /\ base.in_reg[Val(rs, i)] # NoReg
    BY <1>1, <1>14, <1>16, <2>1 DEF Preserved
  <2> QED
    BY <1>9, <1>16, <2>1, <2>2 DEF SavedFor
<1>17. ASSUME NEW v \in Slots \ {Dest(rs)}, Right(global, g, v), g.in_reg[v] \in rs.clobber \ permanent,
              \A i \in Operands(rs) : Val(rs, i) = v => rs.descs[i].live
       PROVE  Settled(global, k, v)
  <2>1. Settled(global, base, v)
    BY <1>1, <1>17
  <2>2. v \in Kept(rs)
    BY <1>17 DEF Kept
  <2>3. Right(global, base, v)
    BY <1>1, <1>17, <2>2 DEF Preserved
  <2> QED
    BY <1>10, <2>1, <2>3, <1>17 DEF Preserved
<1> QED
  BY <1>2, <1>10, <1>11, <1>13, <1>15, <1>16, <1>17

\* The types of an operand that has a register of its own.
LEMMA SingleTypes ==
    ASSUME NEW rs, Shape(rs), NEW i \in Single(rs)
    PROVE  /\ i \in 0 .. 2 /\ i \in Inputs(rs) /\ i \in Given(rs) /\ ~rs.descs[i].duplicate
           /\ Val(rs, i) \in Values /\ Reg(rs, i) \in Regs
<1>1. i \in 0 .. 2 /\ i \in Inputs(rs) /\ i \in Given(rs) /\ ~rs.descs[i].duplicate
  BY DEF Single, Operands, Inputs
<1>2. rs.descs[i] \in Descs
  BY <1>1 DEF Shape
<1> QED
  BY <1>1, <1>2, DescFields DEF Shape, Given, Val

\* A load takes what was in the place of the value before the loads.
LEMMA SourceSame ==
    ASSUME Static, NEW k, NEW rs, Shape(rs), Loadable(global, permanent, k, rs), NEW m,
           NEW is, is \subseteq Single(rs), Loading(global, k, rs, m, is),
           NEW i \in Single(rs), \A j \in is : j < i
    PROVE  Source(m, Val(rs, i)) = Source(k, Val(rs, i))
<1> DEFINE v == Val(rs, i)
<1>1. v \in Values /\ k.in_reg[v] \in Regs \cup {NoReg}
  BY SingleTypes, GenFields DEF Loadable, GenOK
<1>2. \A j \in is : Reg(rs, j) \in Regs /\ Val(rs, j) \in Values /\ j \in Single(rs)
  BY SingleTypes
<1>3. CASE v \in Constants
  BY <1>3 DEF Source
<1>4. CASE v \notin Constants /\ k.in_reg[v] # NoReg
  <2>1. m.in_reg[v] = k.in_reg[v]
    BY <1>1, <1>4 DEF Loading
  <2>2. m.holds[k.in_reg[v]] = k.holds[k.in_reg[v]]
    <3>1. CASE \E j \in is : k.in_reg[v] = Reg(rs, j)
      <4>1. PICK j \in is : k.in_reg[v] = Reg(rs, j)
        BY <3>1
      <4>2. k.in_reg[Val(rs, j)] = Reg(rs, j)
        BY <1>1, <1>2, <4>1 DEF Loadable
      <4>3. Val(rs, j) \in Slots
        BY <1>1, <1>2, <1>4, <4>1, <4>2 DEF Loadable, Loose
      <4>4. Source(k, Val(rs, j)) = k.holds[Reg(rs, j)]
        BY <1>4, <4>1, <4>2, <4>3 DEF Source, Slots
      <4> QED
        BY <4>1, <4>4 DEF Loading
    <3>2. CASE ~\E j \in is : k.in_reg[v] = Reg(rs, j)
      BY <1>1, <1>4, <3>2 DEF Loading
    <3> QED
      BY <3>1, <3>2
  <2> QED
    BY <1>4, <2>1, <2>2 DEF Source
<1>5. CASE v \notin Constants /\ k.in_reg[v] = NoReg /\ m.in_reg[v] # NoReg
  <2>1. PICK j \in is : Val(rs, j) = v /\ m.in_reg[v] = Reg(rs, j)
    BY <1>1, <1>5 DEF Loading
  <2>2. m.holds[Reg(rs, j)] = Source(k, v)
    BY <2>1 DEF Loading
  <2> QED
    BY <1>5, <2>1, <2>2 DEF Source
<1>6. CASE v \notin Constants /\ k.in_reg[v] = NoReg /\ m.in_reg[v] = NoReg
  <2>1. m.slot = k.slot /\ m.in_global = k.in_global
    BY DEF Loading
  <2>2. CASE v \notin k.in_global
    BY <1>6, <2>1, <2>2 DEF Source
  <2>3. CASE v \in k.in_global
    <3>1. global[v] # NoReg /\ global[v] \in Regs /\ global[v] \in permanent
      BY <1>1, <2>3, NoRegApart DEF Loadable, GenOK, Static, StaticOK
    <3>2. m.holds[global[v]] = k.holds[global[v]]
      <4>1. CASE \E j \in is : global[v] = Reg(rs, j)
        <5>1. PICK j \in is : global[v] = Reg(rs, j)
          BY <4>1
        <5>2. Reg(rs, j) = global[Val(rs, j)] \/ Reg(rs, j) = global[Dest(rs)]
          BY <1>2, <3>1, <5>1 DEF Loadable
        <5>3. Val(rs, j) = v \/ (Val(rs, j) # v /\ Dest(rs) = v)
          <6>1. Dest(rs) \in Values \cup {NoValue}
            <7>1. rs.descs[0] \in Descs
              BY DEF Shape
            <7> QED
              BY <7>1, DescFields DEF Dest
          <6> QED
            BY <1>1, <1>2, <3>1, <5>1, <5>2, <6>1 DEF Static, StaticOK
        <5>4. CASE Val(rs, j) = v
          <6>1. Source(k, v) = k.holds[global[v]]
            BY <1>6, <2>3 DEF Source
          <6> QED
            BY <5>1, <5>4, <6>1 DEF Loading
        <5>5. CASE Val(rs, j) # v /\ Dest(rs) = v
          <6>1. k.in_reg[Dest(rs)] # NoReg
            BY <1>2, <5>1, <5>5 DEF Loadable
          <6> QED
            BY <1>6, <5>5, <6>1
        <5> QED
          BY <5>3, <5>4, <5>5
      <4>2. CASE ~\E j \in is : global[v] = Reg(rs, j)
        BY <3>1, <4>2 DEF Loading
      <4> QED
        BY <4>1, <4>2
    <3> QED
      BY <1>6, <2>1, <2>3, <3>2 DEF Source
  <2> QED
    BY <2>2, <2>3
<1> QED
  BY <1>3, <1>4, <1>5, <1>6

\* One more operand has been loaded when its register has what the load takes.
LEMMA LoadingAdds ==
    ASSUME NEW k, NEW rs, NEW m, NEW h, NEW is, NEW i, Loading(global, k, rs, m, is),
           \A j \in is : Reg(rs, j) # Reg(rs, i),
           GenOK(global, h), h.inhibit = m.inhibit, h.slot = m.slot, h.in_global = m.in_global,
           \A q \in Regs : q # Reg(rs, i) => h.holds[q] = m.holds[q],
           \A j \in is : h.holds[Reg(rs, j)] = m.holds[Reg(rs, j)],
           h.holds[Reg(rs, i)] = Source(k, Val(rs, i)),
           \A v \in Values : h.in_reg[v] # m.in_reg[v] =>
              /\ m.in_reg[v] = NoReg /\ global[v] = NoReg /\ Val(rs, i) = v /\ h.in_reg[v] = Reg(rs, i),
           \A v \in Values : v \in h.in_frame => v \in m.in_frame \/ (m.in_reg[v] = NoReg /\ global[v] = NoReg)
    PROVE  Loading(global, k, rs, h, is \cup {i})
<1>1. \A q \in Regs : (\A j \in is \cup {i} : q # Reg(rs, j)) => h.holds[q] = k.holds[q]
  BY DEF Loading
<1>2. \A j \in is \cup {i} : h.holds[Reg(rs, j)] = Source(k, Val(rs, j))
  BY DEF Loading
<1>3. \A v \in Values : h.in_reg[v] # k.in_reg[v] =>
        /\ k.in_reg[v] = NoReg /\ global[v] = NoReg
        /\ \E j \in is \cup {i} : Val(rs, j) = v /\ h.in_reg[v] = Reg(rs, j)
  <2> TAKE v \in Values
  <2> HAVE h.in_reg[v] # k.in_reg[v]
  <2>1. CASE h.in_reg[v] = m.in_reg[v]
    BY <2>1 DEF Loading
  <2>2. CASE h.in_reg[v] # m.in_reg[v]
    <3>1. m.in_reg[v] = NoReg /\ global[v] = NoReg /\ Val(rs, i) = v /\ h.in_reg[v] = Reg(rs, i)
      BY <2>2
    <3>2. k.in_reg[v] = NoReg
      BY <3>1 DEF Loading
    <3> QED
      BY <3>1, <3>2
  <2> QED
    BY <2>1, <2>2
<1>4. \A v \in Values : v \in h.in_frame => v \in k.in_frame \/ (k.in_reg[v] = NoReg /\ global[v] = NoReg)
  <2> TAKE v \in Values
  <2> HAVE v \in h.in_frame
  <2>1. CASE v \in m.in_frame
    BY <2>1 DEF Loading
  <2>2. CASE m.in_reg[v] = NoReg /\ global[v] = NoReg
    BY <2>2 DEF Loading
  <2> QED
    BY <2>1, <2>2
<1>5. h.inhibit = k.inhibit /\ h.slot = k.slot /\ h.in_global = k.in_global
  BY DEF Loading
<1> QED
  BY <1>1, <1>2, <1>3, <1>4, <1>5 DEF Loading

\* load_input_value.
LEMMA LoadNext ==
    ASSUME Static, NEW k, NEW rs, Shape(rs), Loadable(global, permanent, k, rs), NEW m,
           NEW is, is \subseteq Single(rs), Loading(global, k, rs, m, is),
           NEW i \in Single(rs), \A j \in is : j < i
    PROVE  Loading(global, k, rs, LoadInput(m, rs, i), is \cup {i})
<1> DEFINE v == Val(rs, i)
           r == Reg(rs, i)
           d == rs.descs[i]
           loaded == EmitLoad(m, r, v)
           h == LoadInput(m, rs, i)
           content == Source(m, v)
<1>1. /\ v \in Values /\ r \in Regs /\ i \in Given(rs) /\ ~d.duplicate
      /\ d.value = v /\ d.reg = r
  BY SingleTypes DEF Val, Reg
<1>2. GenOK(global, m) /\ content = Source(k, v)
  BY SourceSame DEF Loading
<1>3. \A j \in is : Reg(rs, j) # r /\ Reg(rs, j) \in Regs
  <2> TAKE j \in is
  <2>1. j # i /\ j \in Single(rs) /\ j \in 0 .. 2 /\ i \in 0 .. 2
    <3>1. j < i /\ j \in 0 .. 2 /\ i \in 0 .. 2 /\ j \in Single(rs)
      BY SingleTypes
    <3> QED
      BY <3>1
  <2> QED
    BY <2>1, SingleTypes DEF Loadable
<1>4. m.holds[r] = k.holds[r]
  BY <1>1, <1>3 DEF Loading
<1>5. m.in_reg[v] = r <=> k.in_reg[v] = r
  <2>1. m.in_reg[v] # k.in_reg[v] => k.in_reg[v] = NoReg /\ m.in_reg[v] # r
    BY <1>1, <1>3 DEF Loading
  <2>2. r # NoReg
    BY <1>1, NoRegApart
  <2> QED
    BY <2>1, <2>2
<1>6. global[v] = r => k.in_reg[v] = NoReg /\ v \in k.in_global /\ v \in m.in_global
  BY DEF Loadable, Loading
<1>7. \A u \in Values : m.in_reg[u] = r => k.in_reg[v] = r
  <2> TAKE u \in Values
  <2> HAVE m.in_reg[u] = r
  <2>1. k.in_reg[u] = r
    BY <1>3 DEF Loading
  <2> QED
    BY <2>1 DEF Loadable
<1>8. CASE HasGlobal(v) /\ global[v] = r /\ v \in m.in_global
  <2>1. h = m
    <3>1. HasGlobal(d.value) /\ global[d.value] = d.reg /\ d.value \in m.in_global
      BY <1>1, <1>8
    <3> QED
      BY <1>1, <3>1 DEF LoadInput
  <2>2. content = k.holds[r]
    <3>1. v \notin Constants
      BY <1>1, <1>8 DEF HasGlobal, Static, StaticOK, Slots
    <3> QED
      BY <1>2, <1>6, <1>8, <3>1 DEF Source
  <2>3. m.holds[Reg(rs, i)] = Source(k, Val(rs, i))
    BY <1>2, <1>4, <2>2
  <2> HIDE DEF h
  <2>4. Loading(global, k, rs, h, is \cup {i})
    BY <1>2, <1>3, <2>1, <2>3, LoadingAdds
  <2> QED
    BY <2>4 DEF h
<1>9. CASE ~(HasGlobal(v) /\ global[v] = r /\ v \in m.in_global) /\ m.in_reg[v] = r
  <2>1. h = [m EXCEPT !.age = Touched(m, r)]
    <3>1. /\ ~(HasGlobal(d.value) /\ global[d.value] = d.reg /\ d.value \in m.in_global)
          /\ m.in_reg[d.value] = d.reg
      BY <1>1, <1>9
    <3> QED
      BY <1>1, <3>1 DEF LoadInput
  <2>2. /\ GenOK(global, h)
        /\ h.in_reg = m.in_reg /\ h.inhibit = m.inhibit /\ h.holds = m.holds /\ h.slot = m.slot
        /\ h.in_global = m.in_global /\ h.in_frame = m.in_frame
    BY <1>1, <1>2, <2>1, AgeEffect
  <2>3. content = k.holds[r]
    <3>1. k.in_reg[v] = r /\ v \in Slots /\ r # NoReg
      BY <1>1, <1>5, <1>9, NoRegApart DEF Loadable, Loose
    <3> QED
      BY <1>2, <3>1 DEF Source, Slots
  <2>4. h.holds[Reg(rs, i)] = Source(k, Val(rs, i))
    BY <1>2, <1>4, <2>2, <2>3
  <2> HIDE DEF h
  <2>5. Loading(global, k, rs, h, is \cup {i})
    BY <1>2, <1>3, <2>2, <2>4, LoadingAdds
  <2> QED
    BY <2>5 DEF h
<1>10. CASE ~(HasGlobal(v) /\ global[v] = r /\ v \in m.in_global) /\ m.in_reg[v] # r
  <2>1. /\ GenOK(global, loaded)
        /\ loaded.contents = m.contents /\ loaded.in_reg = m.in_reg /\ loaded.inhibit = m.inhibit
        /\ loaded.slot = m.slot /\ loaded.in_global = m.in_global /\ loaded.in_frame = m.in_frame
        /\ \A q \in Regs : loaded.holds[q] = IF q = r THEN content ELSE m.holds[q]
    BY <1>1, <1>2, LoadEffect
  <2>2. h = IF HasGlobal(v) THEN loaded
            ELSE IF m.in_reg[v] # NoReg THEN BindTemporary(loaded, r)
            ELSE BindValue(loaded, v, r, TRUE)
    <3>1. /\ ~(HasGlobal(d.value) /\ global[d.value] = d.reg /\ d.value \in m.in_global)
          /\ m.in_reg[d.value] # d.reg
      BY <1>1, <1>10
    <3> QED
      BY <1>1, <3>1 DEF LoadInput
  <2>3. \A u \in Values : m.in_reg[u] # r
    BY <1>5, <1>7, <1>10
  <2>4. global[v] # r
    BY <1>1, <1>6, <1>10, NoRegApart DEF HasGlobal
  <2> HIDE DEF loaded
  <2>5. /\ GenOK(global, h) /\ h.inhibit = m.inhibit /\ h.slot = m.slot
        /\ h.holds = loaded.holds /\ h.in_global = m.in_global
        /\ \A u \in Values : h.in_reg[u] # m.in_reg[u] =>
              /\ m.in_reg[u] = NoReg /\ global[u] = NoReg /\ v = u /\ h.in_reg[u] = r
        /\ \A u \in Values : u \in h.in_frame => u \in m.in_frame \/ (m.in_reg[u] = NoReg /\ global[u] = NoReg)
    <3>1. CASE HasGlobal(v)
      <4>1. h = loaded
        BY <2>2, <3>1
      <4> HIDE DEF h
      <4> QED
        BY <2>1, <4>1
    <3>2. CASE ~HasGlobal(v) /\ m.in_reg[v] # NoReg
      <4>1. h = BindTemporary(loaded, r)
        BY <2>2, <3>2
      <4>2. loaded.contents[r] = {}
        <5>1. m.contents[r] = {u \in Values : m.in_reg[u] = r}
          BY <1>1, <1>2 DEF GenOK
        <5> QED
          BY <2>1, <2>3, <5>1
      <4>3. /\ GenOK(global, h)
            /\ h.in_reg = loaded.in_reg /\ h.inhibit = loaded.inhibit /\ h.holds = loaded.holds
            /\ h.slot = loaded.slot /\ h.in_global = loaded.in_global /\ h.in_frame = loaded.in_frame
        BY <1>1, <2>1, <4>1, <4>2, TemporaryEffect
      <4> HIDE DEF h
      <4> QED
        BY <2>1, <4>3
    <3>3. CASE ~HasGlobal(v) /\ m.in_reg[v] = NoReg
      <4> DEFINE flag == TRUE
      <4>1. h = BindValue(loaded, v, r, flag)
        BY <2>2, <3>3
      <4>2. loaded.in_reg[v] \in {NoReg, r} /\ flag \in BOOLEAN
        BY <2>1, <3>3
      <4> HIDE DEF flag
      <4>3. /\ GenOK(global, h)
            /\ \A w \in Values : h.in_reg[w] = IF w = v THEN r ELSE loaded.in_reg[w]
            /\ h.inhibit = loaded.inhibit /\ h.holds = loaded.holds /\ h.slot = loaded.slot
            /\ \A w \in Values \ {v} : (w \in h.in_global <=> w \in loaded.in_global)
                                       /\ (w \in h.in_frame <=> w \in loaded.in_frame)
            /\ v \in h.in_global <=> global[v] # NoReg /\ flag
        BY <1>1, <2>1, <2>4, <4>1, <4>2, BindEffect
      <4> HIDE DEF h
      <4>4. v \notin m.in_global
        BY <1>2, <3>3 DEF GenOK, HasGlobal
      <4>5. h.in_global \subseteq Values /\ m.in_global \subseteq Values
        BY <4>3, <1>2, GenFields, NoRegApart DEF GenOK
      <4>6. h.in_global = m.in_global
        BY <2>1, <3>3, <4>3, <4>4, <4>5, SMTT(60) DEF HasGlobal
      <4> QED
        BY <1>1, <2>1, <3>3, <4>3, <4>6 DEF HasGlobal
    <3> QED
      BY <3>1, <3>2, <3>3
  <2> HIDE DEF h
  <2>6. /\ \A q \in Regs : q # r => h.holds[q] = m.holds[q]
        /\ \A j \in is : h.holds[Reg(rs, j)] = m.holds[Reg(rs, j)]
        /\ h.holds[r] = Source(k, v)
    BY <1>1, <1>2, <1>3, <2>1, <2>5
  <2>7. Loading(global, k, rs, h, is \cup {i})
    BY <1>3, <2>5, <2>6, LoadingAdds
  <2> QED
    BY <2>7 DEF h
<1> QED
  BY <1>8, <1>9, <1>10

\* The loads of Generate.
LEMMA GenerateLoads ==
    ASSUME Static, NEW g, NEW rs, Shape(rs), Loadable(global, permanent, Saving(g, rs), rs)
    PROVE  Loading(global, Saving(g, rs), rs, Generate(g, rs), Single(rs))
<1> DEFINE k == Saving(g, rs)
           Upto(n) == {i \in Single(rs) : i < n}
           zero == IF rs.ternary THEN LoadInput(k, rs, 0) ELSE k
           one == LoadInput(zero, rs, 1)
           two == LoadInput(one, rs, 2)
<1>1. Generate(g, rs) = two
  <2>1. CASE rs.ternary
    BY <2>1 DEF Generate, Saving, Spilling
  <2>2. CASE ~rs.ternary
    BY <2>2 DEF Generate, Saving, Spilling
  <2> QED
    BY <2>1, <2>2
<1> HIDE DEF k
<1>2. Loadable(global, permanent, k, rs)
  BY DEF k
<1>3. ASSUME NEW m, NEW n \in 0 .. 2, n \in Inputs(rs), Loading(global, k, rs, m, Upto(n))
      PROVE  Loading(global, k, rs, LoadInput(m, rs, n), Upto(n + 1))
  <2> DEFINE is == Upto(n)
  <2>1. is \subseteq Single(rs) /\ \A j \in is : j < n
    OBVIOUS
  <2>2. \A i \in Single(rs) : i \in 0 .. 2
    BY SingleTypes
  <2>3. CASE n \in Single(rs)
    <3>1. Upto(n + 1) = is \cup {n}
      <4>1. \A i \in 0 .. 2 : i < n + 1 <=> i < n \/ i = n
        BY <1>3
      <4> QED
        BY <2>2, <2>3, <4>1
    <3> HIDE DEF is
    <3>2. Loading(global, k, rs, m, is)
      BY <1>3 DEF is
    <3>3. Loading(global, k, rs, LoadInput(m, rs, n), is \cup {n})
      BY <1>2, <2>1, <2>3, <3>2, LoadNext
    <3> QED
      BY <3>1, <3>3
  <2>4. CASE n \notin Single(rs)
    <3>1. Upto(n + 1) = Upto(n)
      BY <2>2, <2>4
    <3>2. n \notin Given(rs) \/ rs.descs[n].duplicate
      BY <1>3, <2>4 DEF Single, Operands
    <3>3. LoadInput(m, rs, n) = m
      BY <3>2 DEF LoadInput
    <3> QED
      BY <1>3, <3>1, <3>3
  <2> QED
    BY <2>3, <2>4
<1>4. Loading(global, k, rs, k, {})
  BY <1>2 DEF Loading, Loadable
<1>5. \A i \in Single(rs) : i \in Inputs(rs) /\ i \in 0 .. 2
  BY SingleTypes
<1>6. Upto(0) = {} /\ Upto(3) = Single(rs) /\ (~rs.ternary => Upto(1) = {})
  BY <1>5 DEF Inputs
<1>7. 1 \in Inputs(rs) /\ 2 \in Inputs(rs) /\ (rs.ternary => 0 \in Inputs(rs))
  BY DEF Inputs
<1> HIDE DEF Upto
<1>8. Loading(global, k, rs, zero, Upto(1))
  <2>1. CASE rs.ternary
    <3>1. Loading(global, k, rs, LoadInput(k, rs, 0), Upto(0 + 1))
      BY <1>3, <1>4, <1>6, <1>7, <2>1
    <3> QED
      BY <2>1, <3>1
  <2>2. CASE ~rs.ternary
    BY <1>4, <1>6, <2>2
  <2> QED
    BY <2>1, <2>2
<1> HIDE DEF zero
<1>9. Loading(global, k, rs, one, Upto(1 + 1))
  BY <1>3, <1>7, <1>8
<1> HIDE DEF one
<1>10. Loading(global, k, rs, two, Upto(2 + 1))
  BY <1>3, <1>7, <1>9
<1> QED
  BY <1>1, <1>6, <1>10 DEF k

\* Of two values in one register, both are thrashed or neither is.
LEMMA EqualInPlace ==
    ASSUME NEW g, NEW rs, NEW u, NEW v, g.in_reg[u] = g.in_reg[v], Thrashed(g, rs, u)
    PROVE  Thrashed(g, rs, v)
  BY DEF Thrashed, Equal

\* An input in the register of its operand is not in the way of another.
LEMMA InPlace ==
    ASSUME NEW g, NEW rs, Shape(rs), Places(global, permanent, g, rs), Duplicates(g, rs),
           NEW i \in Single(rs), g.in_reg[Val(rs, i)] = Reg(rs, i)
    PROVE  ~Thrashed(g, rs, Val(rs, i))
<1> SUFFICES ASSUME NEW j \in Operands(rs), g.in_reg[Val(rs, i)] = Reg(rs, j),
                    ~Equal(g, Val(rs, i), Val(rs, j))
             PROVE  FALSE
  BY DEF Thrashed
<1>1. CASE j \in Single(rs)
  BY <1>1 DEF Places, Equal
<1>2. CASE j \notin Single(rs)
  <2>1. PICK n \in Single(rs) : /\ Reg(rs, n) = Reg(rs, j)
                               /\ \/ Val(rs, j) = Val(rs, n)
                                  \/ /\ g.in_reg[Val(rs, j)] # NoReg
                                     /\ g.in_reg[Val(rs, j)] = g.in_reg[Val(rs, n)]
    BY <1>2 DEF Duplicates
  <2>2. n = i
    BY <2>1 DEF Places
  <2> QED
    BY <2>1, <2>2 DEF Equal
<1> QED
  BY <1>1, <1>2

\* Where the inputs are when the loads begin.
LEMMA SavedInputs ==
    ASSUME Static, NEW g, GenOK(global, g), Loose(permanent, g), NEW rs, Assigned(global, permanent, g, rs)
    PROVE  LET k == Saving(g, rs)
           IN /\ \A v \in Reads(rs) : v \in Values
              /\ \A i \in Single(rs) : k.in_reg[Val(rs, i)] = IF Thrashed(g, rs, Val(rs, i))
                                                              THEN NoReg ELSE g.in_reg[Val(rs, i)]
              /\ \A v \in Reads(rs) : k.in_reg[v] # NoReg => k.in_reg[v] = g.in_reg[v] /\ ~Thrashed(g, rs, v)
              /\ \A v \in Reads(rs) : ~Thrashed(g, rs, v) => k.in_reg[v] = g.in_reg[v]
<1> DEFINE k == Saving(g, rs)
<1>1. Shape(rs) /\ Duplicates(g, rs) /\ Fates(global, permanent, g, rs)
  BY DEF Assigned
<1>2. /\ \A i \in Operands(rs) : rs.descs[i].store \/ rs.descs[i].thrash => i \in Single(rs)
      /\ \A i \in Single(rs) : rs.descs[i].thrash => rs.descs[i].store
  BY <1>1 DEF Duplicates, Fates
<1>3. \A v \in Reads(rs) :
         k.in_reg[v] = IF \E i \in Single(rs) : rs.descs[i].thrash /\ v = Val(rs, i)
                       THEN NoReg ELSE g.in_reg[v]
  BY <1>1, <1>2, SavingKeeps
<1> HIDE DEF k
<1>4. \A v \in Reads(rs) : v \in Values
  BY <1>1, DescFields, NoRegApart DEF Reads, Operands, Given, Inputs, Shape, Val
<1>5. \A i \in Single(rs) : Val(rs, i) \in Reads(rs) /\ (rs.descs[i].thrash <=> Thrashed(g, rs, Val(rs, i)))
  BY <1>1 DEF Fates, Single, Reads
<1>6. \A i \in Single(rs) : k.in_reg[Val(rs, i)] = IF Thrashed(g, rs, Val(rs, i))
                                                   THEN NoReg ELSE g.in_reg[Val(rs, i)]
  BY <1>3, <1>5
<1>7. \A v \in Reads(rs) : ~Thrashed(g, rs, v) => k.in_reg[v] = g.in_reg[v]
  BY <1>3, <1>5
<1>8. ASSUME NEW v \in Reads(rs), k.in_reg[v] # NoReg
      PROVE  k.in_reg[v] = g.in_reg[v] /\ ~Thrashed(g, rs, v)
  <2>1. k.in_reg[v] = g.in_reg[v]
    BY <1>3, <1>8
  <2>2. PICK l \in Operands(rs) : Val(rs, l) = v
    BY DEF Reads
  <2>3. CASE \E j \in Single(rs) : Val(rs, j) = v
    BY <1>6, <1>8, <2>3
  <2>4. CASE ~\E j \in Single(rs) : Val(rs, j) = v
    <3>1. l \notin Single(rs)
      BY <2>2, <2>4
    <3>2. PICK j \in Single(rs) : /\ g.in_reg[v] = g.in_reg[Val(rs, j)]
                                 /\ ~Thrashed(g, rs, Val(rs, j))
      BY <1>1, <2>2, <2>4, <3>1 DEF Duplicates
    <3> QED
      BY <2>1, <3>2, EqualInPlace
  <2> QED
    BY <2>1, <2>3, <2>4
<1> QED
  BY <1>4, <1>6, <1>7, <1>8 DEF k

\* The saves leave what the loads need.
LEMMA SavingLoadable ==
    ASSUME Static, NEW g, GenOK(global, g), Loose(permanent, g), NEW rs, Assigned(global, permanent, g, rs),
           \A i \in Single(rs) : Val(rs, i) \in Slots => Readable(global, g, Val(rs, i)) /\ Right(global, g, Val(rs, i))
    PROVE  Loadable(global, permanent, Saving(g, rs), rs)
<1> DEFINE k == Saving(g, rs)
<1>1. /\ Shape(rs) /\ Duplicates(g, rs) /\ Fates(global, permanent, g, rs) /\ Places(global, permanent, g, rs)
      /\ Spills(g, rs)
  BY DEF Assigned
<1>2. /\ \A i \in Operands(rs) : rs.descs[i].store \/ rs.descs[i].thrash => i \in Single(rs)
      /\ \A i \in Single(rs) : rs.descs[i].thrash => rs.descs[i].store
  BY <1>1 DEF Duplicates, Fates
<1>3. /\ Stored(global, permanent, g, k)
      /\ Preserved(global, Kept(rs), g, k)
      /\ \A v \in Values \ Reads(rs) :
            k.in_reg[v] = IF v = Dest(rs) \/ g.in_reg[v] \in rs.clobber \ permanent THEN NoReg ELSE g.in_reg[v]
  BY <1>1, <1>2, SavingKeeps
<1>4. /\ \A v \in Reads(rs) : v \in Values
      /\ \A i \in Single(rs) : k.in_reg[Val(rs, i)] = IF Thrashed(g, rs, Val(rs, i))
                                                      THEN NoReg ELSE g.in_reg[Val(rs, i)]
      /\ \A v \in Reads(rs) : k.in_reg[v] # NoReg => k.in_reg[v] = g.in_reg[v] /\ ~Thrashed(g, rs, v)
      /\ \A v \in Reads(rs) : ~Thrashed(g, rs, v) => k.in_reg[v] = g.in_reg[v]
  BY SavedInputs
<1> HIDE DEF k
<1>5. GenOK(global, k) /\ Loose(permanent, k)
  BY <1>3, StoredLoose DEF Stored
<1>6. \A i \in Single(rs) : Val(rs, i) \in Reads(rs) /\ Val(rs, i) \in Values /\ Reg(rs, i) \in Regs
  BY <1>1, SingleTypes DEF Reads, Single
<1>7. ASSUME NEW i \in Single(rs), NEW u \in Values, k.in_reg[u] = Reg(rs, i)
      PROVE  k.in_reg[Val(rs, i)] = Reg(rs, i)
  <2>1. k.in_reg[u] # NoReg /\ g.in_reg[u] = Reg(rs, i)
    BY <1>3, <1>6, <1>7, NoRegApart DEF Stored
  <2>2. g.in_reg[Val(rs, i)] = Reg(rs, i) => k.in_reg[Val(rs, i)] = Reg(rs, i)
    BY <1>1, <1>4, <1>7, InPlace
  <2>3. CASE u \notin Reads(rs)
    <3>1. u # Dest(rs) /\ g.in_reg[u] \notin rs.clobber \ permanent
      BY <1>3, <2>1, <2>3
    <3>2. g.in_reg[u] \notin permanent
      BY <2>1, <1>6, <1>7, NoRegApart DEF Loose
    <3>3. g.in_reg[Val(rs, i)] = Reg(rs, i)
      BY <1>1, <1>7, <2>1, <2>3, <3>1, <3>2 DEF Spills
    <3> QED
      BY <2>2, <3>3
  <2>4. CASE u \in Reads(rs)
    <3>1. ~Thrashed(g, rs, u)
      BY <1>4, <2>1, <2>4
    <3>2. i \in Operands(rs)
      BY <1>7 DEF Single
    <3>3. Equal(g, u, Val(rs, i))
      BY <1>6, <1>7, <2>1, <3>1, <3>2, NoRegApart DEF Thrashed
    <3>4. CASE u = Val(rs, i)
      BY <1>7, <3>4
    <3>5. CASE u # Val(rs, i)
      BY <2>1, <2>2, <3>3, <3>5 DEF Equal
    <3> QED
      BY <3>4, <3>5
  <2> QED
    BY <2>3, <2>4
<1>8. ASSUME NEW i \in Single(rs), global[Val(rs, i)] = Reg(rs, i)
      PROVE  k.in_reg[Val(rs, i)] = NoReg /\ Val(rs, i) \in k.in_global
  <2>1. g.in_reg[Val(rs, i)] = NoReg
    BY <1>1, <1>8 DEF Places
  <2>2. k.in_reg[Val(rs, i)] = NoReg
    BY <1>3, <1>6, <2>1 DEF Stored
  <2>3. Val(rs, i) \in Slots /\ global[Val(rs, i)] # NoReg
    BY <1>6, <1>8, NoRegApart DEF Static, StaticOK
  <2>4. Val(rs, i) \in Kept(rs)
    BY <1>6, <2>3 DEF Kept
  <2>5. Readable(global, k, Val(rs, i))
    BY <1>3, <2>3, <2>4 DEF Preserved
  <2> QED
    BY <2>2, <2>3, <2>5 DEF Readable
<1>9. ASSUME NEW i \in Single(rs), NEW j \in Single(rs),
             i < j, Reg(rs, i) = global[Dest(rs)], Val(rs, j) = Dest(rs), Val(rs, i) # Dest(rs)
      PROVE  k.in_reg[Dest(rs)] # NoReg
  <2>1. g.in_reg[Dest(rs)] # NoReg
    BY <1>1, <1>9 DEF Places
  <2>2. Output(rs)
    BY <1>6, <1>9, NoRegApart DEF Dest
  <2>3. Single(rs) \subseteq {1, 2} /\ Operands(rs) \subseteq {1, 2}
    BY <2>2 DEF Output, Single, Operands, Inputs
  <2>4. i = 1 /\ j = 2
    BY <1>9, <2>3
  <2>5. ~Thrashed(g, rs, Dest(rs))
    <3> SUFFICES ASSUME NEW l \in Operands(rs), g.in_reg[Dest(rs)] = Reg(rs, l),
                        ~Equal(g, Dest(rs), Val(rs, l))
                 PROVE  FALSE
      BY DEF Thrashed
    <3>1. l # j
      BY <1>9 DEF Equal
    <3>2. l = i
      BY <2>3, <2>4, <3>1
    <3>3. Reg(rs, i) \in permanent
      BY <1>6, <1>9, NoRegApart DEF Static, StaticOK
    <3>4. g.in_reg[Dest(rs)] \notin permanent
      BY <1>6, <1>9, <2>1 DEF Loose
    <3> QED
      BY <3>2, <3>3, <3>4
  <2> QED
    BY <1>4, <1>6, <1>9, <2>1, <2>5
<1> QED
  BY <1>1, <1>5, <1>7, <1>8, <1>9 DEF Loadable, Places, k

\* The loads leave the registers that values are bound to, and the global ones
\* of all values but the result.
LEMMA LoadsLeave ==
    ASSUME Static, NEW k, NEW rs, Shape(rs), Loadable(global, permanent, k, rs), NEW h,
           Loading(global, k, rs, h, Single(rs))
    PROVE  /\ \A u \in Values : k.in_reg[u] # NoReg =>
                 h.in_reg[u] = k.in_reg[u] /\ h.holds[k.in_reg[u]] = k.holds[k.in_reg[u]]
           /\ \A u \in Values \ {Dest(rs)} : global[u] # NoReg => h.holds[global[u]] = k.holds[global[u]]
<1>1. GenOK(global, k) /\ Loose(permanent, k) /\ k \in Gens
  BY DEF Loadable, GenOK
<1>2. ASSUME NEW u \in Values, k.in_reg[u] # NoReg
      PROVE  h.in_reg[u] = k.in_reg[u] /\ h.holds[k.in_reg[u]] = k.holds[k.in_reg[u]]
  <2>1. h.in_reg[u] = k.in_reg[u]
    BY <1>2 DEF Loading
  <2>2. k.in_reg[u] \in Regs
    BY <1>1, <1>2, GenFields
  <2>3. CASE \E i \in Single(rs) : k.in_reg[u] = Reg(rs, i)
    <3>1. PICK i \in Single(rs) : k.in_reg[u] = Reg(rs, i)
      BY <2>3
    <3>2. k.in_reg[Val(rs, i)] = Reg(rs, i) /\ Val(rs, i) \in Values
      BY <1>2, <3>1, SingleTypes DEF Loadable
    <3>3. Val(rs, i) \in Slots
      BY <1>1, <1>2, <3>1, <3>2 DEF Loose
    <3>4. Source(k, Val(rs, i)) = k.holds[Reg(rs, i)]
      BY <1>2, <3>1, <3>2, <3>3 DEF Source, Slots
    <3> QED
      BY <2>1, <3>1, <3>4 DEF Loading
  <2>4. CASE ~\E i \in Single(rs) : k.in_reg[u] = Reg(rs, i)
    BY <2>1, <2>2, <2>4 DEF Loading
  <2> QED
    BY <2>3, <2>4
<1>3. ASSUME NEW u \in Values \ {Dest(rs)}, global[u] # NoReg
      PROVE  h.holds[global[u]] = k.holds[global[u]]
  <2>1. global[u] \in Regs /\ global[u] \in permanent /\ u \in Slots
    BY <1>3, NoRegApart DEF Static, StaticOK
  <2>2. CASE \E i \in Single(rs) : global[u] = Reg(rs, i)
    <3>1. PICK i \in Single(rs) : global[u] = Reg(rs, i)
      BY <2>2
    <3>2. Reg(rs, i) = global[Val(rs, i)] \/ Reg(rs, i) = global[Dest(rs)]
      BY <2>1, <3>1 DEF Loadable
    <3>3. Dest(rs) \in Values \cup {NoValue} /\ Val(rs, i) \in Values
      <4>1. rs.descs[0] \in Descs
        BY DEF Shape
      <4> QED
        BY <4>1, DescFields, SingleTypes DEF Dest
    <3>4. Val(rs, i) = u
      BY <1>3, <3>1, <3>2, <3>3 DEF Static, StaticOK
    <3>5. k.in_reg[u] = NoReg /\ u \in k.in_global
      BY <3>1, <3>4 DEF Loadable
    <3>6. Source(k, u) = k.holds[global[u]]
      BY <2>1, <3>5 DEF Source, Slots
    <3> QED
      BY <3>1, <3>4, <3>6 DEF Loading
  <2>3. CASE ~\E i \in Single(rs) : global[u] = Reg(rs, i)
    BY <2>1, <2>3 DEF Loading
  <2> QED
    BY <2>2, <2>3
<1> QED
  BY <1>2, <1>3

\* Nothing is lost by the loads of any value but the result.
LEMMA LoadsKeep ==
    ASSUME Static, NEW k, NEW rs, Shape(rs), Loadable(global, permanent, k, rs), NEW h,
           Loading(global, k, rs, h, Single(rs)), NEW v \in Slots \ {Dest(rs)}
    PROVE  /\ Right(global, k, v) => Right(global, h, v)
           /\ Settled(global, k, v) => Settled(global, h, v)
           /\ Home(global, k, v) => Home(global, h, v)
           /\ Readable(global, k, v) => Readable(global, h, v)
<1>1. v \in Values /\ v \notin Constants
  BY NoRegApart DEF Slots
<1>2. /\ k.in_reg[v] # NoReg => h.in_reg[v] = k.in_reg[v] /\ h.holds[k.in_reg[v]] = k.holds[k.in_reg[v]]
      /\ global[v] # NoReg => h.holds[global[v]] = k.holds[global[v]]
  BY <1>1, LoadsLeave
<1>3. h.slot = k.slot /\ h.in_global = k.in_global
  BY DEF Loading
<1>4. Settled(global, k, v) => Settled(global, h, v)
  BY <1>3 DEF Settled
<1>5. Readable(global, k, v) => Readable(global, h, v)
  BY <1>2, <1>3 DEF Readable
<1>6. Home(global, k, v) => Home(global, h, v)
  BY <1>2, <1>3 DEF Home
<1>7. ASSUME Right(global, k, v) PROVE Right(global, h, v)
  <2>1. h.in_reg[v] # NoReg => v \in h.holds[h.in_reg[v]]
    <3>1. CASE h.in_reg[v] = k.in_reg[v]
      BY <1>2, <1>7, <3>1 DEF Right
    <3>2. CASE h.in_reg[v] # k.in_reg[v]
      <4>1. PICK i \in Single(rs) : Val(rs, i) = v /\ h.in_reg[v] = Reg(rs, i)
        BY <1>1, <3>2 DEF Loading
      <4>2. k.in_reg[v] = NoReg /\ global[v] = NoReg
        BY <1>1, <3>2 DEF Loading
      <4>3. h.holds[Reg(rs, i)] = Source(k, v)
        BY <4>1 DEF Loading
      <4>4. v \in Source(k, v)
        BY <1>7, <4>2, SourceRight DEF Readable
      <4> QED
        BY <4>1, <4>3, <4>4
    <3> QED
      BY <3>1, <3>2
  <2>2. h.in_reg[v] = NoReg => Home(global, h, v)
    BY <1>2, <1>6, <1>7 DEF Right
  <2>3. v \in h.in_global => v \in h.holds[global[v]]
    <3>1. v \in k.in_global => global[v] # NoReg
      BY DEF Loadable, GenOK
    <3> QED
      BY <1>2, <1>3, <1>7, <3>1 DEF Right
  <2>4. v \in h.in_frame => v \in h.slot[v]
    <3>1. v \in h.in_frame => v \in k.in_frame \/ (k.in_reg[v] = NoReg /\ global[v] = NoReg)
      BY <1>1 DEF Loading
    <3> QED
      BY <1>3, <1>7, <3>1 DEF Right, Home
  <2> QED
    BY <2>1, <2>2, <2>3, <2>4 DEF Right
<1> QED
  BY <1>4, <1>5, <1>6, <1>7

\* The state after the saves and the one after the loads.
LEMMA GeneratedSteps ==
    ASSUME Static, NEW g, NEW rs, NEW vs, Context(global, permanent, g, rs, vs)
    PROVE  LET k == Saving(g, rs)
               h == Generate(g, rs)
           IN /\ Shape(rs) /\ Stored(global, permanent, g, k)
              /\ Loadable(global, permanent, k, rs) /\ Loading(global, k, rs, h, Single(rs))
              /\ \A v \in vs \cap Kept(rs) : Right(global, k, v) /\ (Readable(global, g, v) => Readable(global, k, v))
              /\ \A v \in Reads(rs) \cap Slots : Right(global, k, v) /\ Readable(global, k, v)
              /\ \A v \in Reads(rs) : v \in Values
<1> DEFINE k == Saving(g, rs)
<1>1. Shape(rs) /\ Assigned(global, permanent, g, rs) /\ GenOK(global, g) /\ Loose(permanent, g)
  BY DEF Context, Assigned
<1>2. \A i \in Single(rs) : Val(rs, i) \in Slots => Readable(global, g, Val(rs, i)) /\ Right(global, g, Val(rs, i))
  BY DEF Context, Reads, Single
<1>3. Loadable(global, permanent, k, rs)
  BY <1>1, <1>2, SavingLoadable
<1>4. Loading(global, k, rs, Generate(g, rs), Single(rs))
  BY <1>1, <1>3, GenerateLoads
<1>5. /\ \A i \in Operands(rs) : rs.descs[i].store \/ rs.descs[i].thrash => i \in Single(rs)
      /\ \A i \in Single(rs) : rs.descs[i].thrash => rs.descs[i].store
  BY <1>1 DEF Duplicates, Fates, Assigned
<1>6. Stored(global, permanent, g, k) /\ Preserved(global, Kept(rs), g, k)
  BY <1>1, <1>5, SavingKeeps
<1> HIDE DEF k
<1>7. \A v \in vs \cap Kept(rs) : Right(global, k, v) /\ (Readable(global, g, v) => Readable(global, k, v))
  BY <1>6 DEF Preserved, Context
<1>8. \A v \in Reads(rs) \cap Slots : v \in vs \cap Kept(rs) /\ Readable(global, g, v)
  BY DEF Context, Kept
<1>9. \A v \in Reads(rs) : v \in Values
  BY <1>1, SavedInputs
<1> QED
  BY <1>1, <1>3, <1>4, <1>6, <1>7, <1>8, <1>9 DEF k

\* After the code before the instruction nothing is lost of a live value.
LEMMA GeneratedRight ==
    ASSUME Static, NEW g, NEW rs, NEW vs, Context(global, permanent, g, rs, vs)
    PROVE  LET h == Generate(g, rs)
           IN /\ GenOK(global, h) /\ h.inhibit = g.inhibit
              /\ \A v \in vs \ {Dest(rs)} : Right(global, h, v) /\ (Readable(global, g, v) => Readable(global, h, v))
              /\ \A w \in Slots : g.in_reg[w] = NoReg => h.slot[w] = g.slot[w]
              /\ \A w \in Values \ Reads(rs) : g.in_reg[w] = NoReg => h.in_reg[w] = NoReg
              /\ \A q \in Regs \ permanent : (\A i \in Single(rs) : Reg(rs, i) # q) => h.holds[q] = g.holds[q]
              /\ \A u \in Values : /\ h.in_reg[u] # NoReg /\ u \notin Reads(rs) => h.in_reg[u] = g.in_reg[u]
                                   /\ Saving(g, rs).in_reg[u] # NoReg => h.holds[g.in_reg[u]] = g.holds[g.in_reg[u]]
<1> DEFINE k == Saving(g, rs)
           h == Generate(g, rs)
<1>1. /\ Shape(rs) /\ Stored(global, permanent, g, k)
      /\ Loadable(global, permanent, k, rs) /\ Loading(global, k, rs, h, Single(rs))
      /\ \A v \in vs \cap Kept(rs) : Right(global, k, v) /\ (Readable(global, g, v) => Readable(global, k, v))
  BY GeneratedSteps
<1>2. /\ \A u \in Values : k.in_reg[u] # NoReg =>
               h.in_reg[u] = k.in_reg[u] /\ h.holds[k.in_reg[u]] = k.holds[k.in_reg[u]]
  BY <1>1, LoadsLeave
<1>3. \A v \in Slots \ {Dest(rs)} : /\ Right(global, k, v) => Right(global, h, v)
                                    /\ Readable(global, k, v) => Readable(global, h, v)
  BY <1>1, LoadsKeep
<1> HIDE DEF k, h
<1>4. vs \subseteq Slots /\ vs \ {Dest(rs)} \subseteq vs \cap Kept(rs)
  BY DEF Context, Kept
<1>5. \A v \in vs \ {Dest(rs)} : Right(global, h, v) /\ (Readable(global, g, v) => Readable(global, h, v))
  BY <1>1, <1>3, <1>4
<1>6. GenOK(global, h) /\ h.inhibit = g.inhibit
  BY <1>1 DEF Stored, Loading
<1>7. \A w \in Slots : g.in_reg[w] = NoReg => h.slot[w] = g.slot[w]
  BY <1>1 DEF Stored, Loading
<1>8. \A w \in Values : k.in_reg[w] # NoReg => k.in_reg[w] = g.in_reg[w]
  BY <1>1 DEF Stored
<1>9. \A w \in Values \ Reads(rs) : h.in_reg[w] = k.in_reg[w]
  <2> TAKE w \in Values \ Reads(rs)
  <2>1. \A i \in Single(rs) : Val(rs, i) # w
    BY DEF Single, Reads
  <2> QED
    BY <1>1, <2>1 DEF Loading
<1>10. \A w \in Values \ Reads(rs) : g.in_reg[w] = NoReg => h.in_reg[w] = NoReg
  BY <1>8, <1>9
<1>11. \A q \in Regs \ permanent : (\A i \in Single(rs) : Reg(rs, i) # q) => h.holds[q] = g.holds[q]
  BY <1>1 DEF Stored, Loading
<1>12. \A u \in Values : h.in_reg[u] # NoReg /\ u \notin Reads(rs) => h.in_reg[u] = g.in_reg[u]
  BY <1>8, <1>9
<1>13. ASSUME NEW u \in Values, k.in_reg[u] # NoReg
       PROVE  h.holds[g.in_reg[u]] = g.holds[g.in_reg[u]]
  <2>1. k.in_reg[u] = g.in_reg[u] /\ h.holds[k.in_reg[u]] = k.holds[k.in_reg[u]]
    BY <1>2, <1>8, <1>13
  <2>2. k.in_reg[u] \in Regs \ permanent
    BY <1>1, <1>13, GenFields DEF Loadable, Loose, GenOK
  <2> QED
    BY <1>1, <2>1, <2>2 DEF Stored
<1> QED
  BY <1>5, <1>6, <1>7, <1>10, <1>11, <1>12, <1>13 DEF h, k

\* Every operand has its value in its register.
LEMMA GeneratedInputs ==
    ASSUME Static, NEW g, NEW rs, NEW vs, Context(global, permanent, g, rs, vs), NEW i \in Operands(rs)
    PROVE  Val(rs, i) \in Generate(g, rs).holds[Reg(rs, i)]
<1> DEFINE k == Saving(g, rs)
           h == Generate(g, rs)
<1>1. /\ Shape(rs)
      /\ Loadable(global, permanent, k, rs) /\ Loading(global, k, rs, h, Single(rs))
      /\ \A v \in Reads(rs) \cap Slots : Right(global, k, v) /\ Readable(global, k, v)
      /\ \A v \in Reads(rs) : v \in Values
  BY GeneratedSteps
<1>2. /\ \A v \in Reads(rs) : ~Thrashed(g, rs, v) => k.in_reg[v] = g.in_reg[v]
  BY SavedInputs DEF Context
<1>3. Duplicates(g, rs) /\ Loose(permanent, g)
  BY DEF Context, Assigned
<1> HIDE DEF k, h
<1>4. \A j \in Operands(rs) : Val(rs, j) \in Reads(rs)
  BY DEF Reads
<1>5. \A j \in Single(rs) : Val(rs, j) \in h.holds[Reg(rs, j)]
  <2> TAKE j \in Single(rs)
  <2>1. Val(rs, j) \in Reads(rs) /\ Val(rs, j) \in Values
    BY <1>1, <1>4 DEF Single
  <2>2. Val(rs, j) \notin Constants => Right(global, k, Val(rs, j)) /\ Readable(global, k, Val(rs, j))
    BY <1>1, <2>1 DEF Slots
  <2>3. Val(rs, j) \in Source(k, Val(rs, j))
    BY <2>2, SourceRight
  <2> QED
    BY <1>1, <2>3 DEF Loading
<1>6. CASE i \in Single(rs)
  BY <1>5, <1>6 DEF h
<1>7. CASE i \notin Single(rs)
  <2>1. PICK j \in Single(rs) :
           /\ Reg(rs, j) = Reg(rs, i)
           /\ \/ Val(rs, i) = Val(rs, j)
              \/ /\ g.in_reg[Val(rs, i)] # NoReg /\ g.in_reg[Val(rs, i)] = g.in_reg[Val(rs, j)]
                 /\ ~Thrashed(g, rs, Val(rs, j))
    BY <1>3, <1>7 DEF Duplicates
  <2>2. CASE Val(rs, i) = Val(rs, j)
    BY <1>5, <2>1, <2>2 DEF h
  <2>3. CASE Val(rs, i) # Val(rs, j)
    <3>1. /\ g.in_reg[Val(rs, i)] # NoReg /\ g.in_reg[Val(rs, i)] = g.in_reg[Val(rs, j)]
          /\ ~Thrashed(g, rs, Val(rs, j)) /\ ~Thrashed(g, rs, Val(rs, i))
      BY <2>1, <2>3, EqualInPlace
    <3>2. /\ Val(rs, i) \in Reads(rs) /\ Val(rs, j) \in Reads(rs)
          /\ Val(rs, i) \in Slots /\ Val(rs, j) \in Slots
      BY <1>1, <1>3, <1>4, <3>1 DEF Single, Loose
    <3>3. k.in_reg[Val(rs, i)] = k.in_reg[Val(rs, j)] /\ k.in_reg[Val(rs, j)] # NoReg
      BY <1>2, <3>1, <3>2
    <3>4. Source(k, Val(rs, j)) = k.holds[k.in_reg[Val(rs, i)]]
      BY <3>2, <3>3 DEF Source, Slots
    <3>5. Val(rs, i) \in k.holds[k.in_reg[Val(rs, i)]]
      BY <1>1, <3>2, <3>3 DEF Right
    <3> QED
      BY <1>1, <2>1, <3>4, <3>5 DEF Loading, h
  <2> QED
    BY <2>2, <2>3
<1> QED
  BY <1>6, <1>7

\* A value that stays in a register is a variable, and the instruction does
\* not change the register.
LEMMA GeneratedBound ==
    ASSUME Static, NEW g, NEW rs, NEW vs, Context(global, permanent, g, rs, vs), NEW w \in Values,
           Generate(g, rs).in_reg[w] # NoReg, ~Killed(rs, w)
    PROVE  w \in Slots \ {Dest(rs)} /\ Generate(g, rs).in_reg[w] \notin permanent \cup Disturbed(rs)
<1> DEFINE k == Saving(g, rs)
           h == Generate(g, rs)
           at == g.in_reg[w]
<1>1. /\ Shape(rs) /\ Stored(global, permanent, g, k)
      /\ Loadable(global, permanent, k, rs) /\ Loading(global, k, rs, h, Single(rs))
  BY GeneratedSteps
<1>2. /\ Duplicates(g, rs) /\ Loose(permanent, g) /\ Fates(global, permanent, g, rs) /\ Spills(g, rs)
      /\ GenOK(global, g)
  BY DEF Context, Assigned
<1>3. /\ \A i \in Operands(rs) : rs.descs[i].store \/ rs.descs[i].thrash => i \in Single(rs)
      /\ \A i \in Single(rs) : rs.descs[i].thrash => rs.descs[i].store
  BY <1>2 DEF Duplicates, Fates
<1>4. /\ \A v \in Values \ Reads(rs) :
            k.in_reg[v] = IF v = Dest(rs) \/ g.in_reg[v] \in rs.clobber \ permanent THEN NoReg ELSE g.in_reg[v]
      /\ \A v \in Reads(rs) :
            k.in_reg[v] = IF \E i \in Single(rs) : rs.descs[i].thrash /\ v = Val(rs, i)
                          THEN NoReg ELSE g.in_reg[v]
  BY <1>1, <1>2, <1>3, SavingKeeps
<1>5. \A u \in Values : k.in_reg[u] # NoReg => h.in_reg[u] = k.in_reg[u]
  BY <1>1, LoadsLeave
<1> HIDE DEF k, h
<1>6. h.in_reg[w] # NoReg
  BY DEF h
<1>7. at # NoReg => w \in Slots /\ at \notin permanent
  BY <1>2 DEF Loose
<1>8. CASE w \notin Reads(rs)
  <2>1. h.in_reg[w] = k.in_reg[w]
    <3>1. \A i \in Single(rs) : Val(rs, i) # w
      BY <1>8 DEF Single, Reads
    <3> QED
      BY <1>1, <3>1 DEF Loading
  <2>2. w # Dest(rs) /\ at \notin rs.clobber \ permanent /\ h.in_reg[w] = at
    BY <1>4, <1>6, <1>8, <2>1
  <2>3. at \notin Disturbed(rs)
    BY <1>2, <1>6, <1>7, <1>8, <2>2 DEF Spills
  <2> QED
    BY <1>6, <1>7, <2>2, <2>3 DEF h
<1>9. CASE w \in Reads(rs) /\ \E i \in Single(rs) : Val(rs, i) = w
  <2>1. PICK i \in Single(rs) : Val(rs, i) = w
    BY <1>9
  <2>2. \A j \in Single(rs) : Val(rs, j) = w => ~rs.descs[j].kill
    BY DEF Killed
  <2>3. w \notin Constants /\ w # Dest(rs)
    BY <1>2, <2>1, <2>2 DEF Fates
  <2>4. w \in Slots
    BY <2>3 DEF Slots
  <2>5. CASE at # NoReg /\ ~rs.descs[i].thrash
    <3>1. at \notin Disturbed(rs)
      BY <1>2, <2>1, <2>2, <2>5 DEF Fates
    <3>2. ~\E j \in Single(rs) : rs.descs[j].thrash /\ w = Val(rs, j)
      BY <1>2, <2>1, <2>5 DEF Fates
    <3>3. h.in_reg[w] = at
      BY <1>4, <1>5, <1>9, <2>5, <3>2
    <3> QED
      BY <1>7, <2>3, <2>4, <2>5, <3>1, <3>3 DEF h
  <2>6. CASE ~(at # NoReg /\ ~rs.descs[i].thrash)
    <3>1. k.in_reg[w] = NoReg
      BY <1>4, <1>9, <2>1, <2>6
    <3>2. PICK j \in Single(rs) : Val(rs, j) = w /\ h.in_reg[w] = Reg(rs, j)
      BY <1>1, <1>6, <3>1 DEF Loading
    <3>3. global[w] = NoReg
      BY <1>1, <1>6, <3>1 DEF Loading
    <3>4. rs.descs[j].thrash <=> rs.descs[i].thrash
      BY <1>2, <2>1, <3>2 DEF Fates
    <3>5. Reg(rs, j) \notin Disturbed(rs) \cup permanent
      BY <1>2, <2>2, <2>6, <3>2, <3>3, <3>4 DEF Fates
    <3> QED
      BY <2>3, <2>4, <3>2, <3>5 DEF h
  <2> QED
    BY <2>5, <2>6
<1>10. CASE w \in Reads(rs) /\ ~\E i \in Single(rs) : Val(rs, i) = w
  <2>1. PICK i \in Operands(rs) : Val(rs, i) = w
    BY <1>10 DEF Reads
  <2>2. i \notin Single(rs)
    BY <1>10, <2>1
  <2>3. ~Output(rs) /\ at \notin Disturbed(rs) /\ at # NoReg
    BY <1>2, <1>10, <2>1, <2>2 DEF Duplicates
  <2>4. w # Dest(rs)
    BY <2>3, NoRegApart DEF Dest
  <2>5. k.in_reg[w] = at
    BY <1>4, <1>10
  <2>6. h.in_reg[w] = at
    BY <1>5, <2>3, <2>5
  <2> QED
    BY <1>7, <2>3, <2>4, <2>6 DEF h
<1> QED
  BY <1>8, <1>9, <1>10

\* A live value that the instruction takes from its register is at home.
LEMMA GeneratedSettled ==
    ASSUME Static, NEW g, NEW rs, NEW vs, Context(global, permanent, g, rs, vs), NEW w \in Slots \ {Dest(rs)},
           NEW i \in Single(rs), Val(rs, i) = w, rs.descs[i].kill, rs.descs[i].live
    PROVE  Settled(global, Generate(g, rs), w)
<1> DEFINE k == Saving(g, rs)
           h == Generate(g, rs)
           at == g.in_reg[w]
<1>1. /\ Shape(rs) /\ Stored(global, permanent, g, k)
      /\ Loadable(global, permanent, k, rs) /\ Loading(global, k, rs, h, Single(rs))
  BY GeneratedSteps
<1>2. /\ Duplicates(g, rs) /\ Loose(permanent, g) /\ Fates(global, permanent, g, rs)
      /\ GenOK(global, g)
  BY DEF Context, Assigned
<1>3. /\ \A j \in Operands(rs) : rs.descs[j].store \/ rs.descs[j].thrash => j \in Single(rs)
      /\ \A j \in Single(rs) : rs.descs[j].thrash => rs.descs[j].store
  BY <1>2 DEF Duplicates, Fates
<1>4. /\ Preserved(global, Kept(rs), g, k)
      /\ \A j \in Single(rs) :
            rs.descs[j].store /\ Val(rs, j) \in Slots /\ Right(global, g, Val(rs, j))
               /\ g.in_reg[Val(rs, j)] # NoReg => Settled(global, k, Val(rs, j))
  BY <1>1, <1>2, <1>3, SavingKeeps
<1>5. Settled(global, k, w) => Settled(global, h, w)
  BY <1>1, LoadsKeep
<1> HIDE DEF k, h
<1>6. w \in Reads(rs) /\ w \in Kept(rs)
  BY DEF Reads, Single, Kept
<1>7. Right(global, g, w) /\ Readable(global, g, w)
  BY <1>6 DEF Context
<1>8. CASE at = NoReg
  <2>1. Settled(global, g, w)
    BY <1>7, <1>8 DEF Settled, Right, Home, Readable
  <2> QED
    BY <1>4, <1>5, <1>6, <1>7, <2>1 DEF Preserved, h
<1>9. CASE at # NoReg
  <2>1. rs.descs[i].store
    BY <1>2, <1>9 DEF Fates
  <2> QED
    BY <1>4, <1>5, <1>7, <1>9, <2>1 DEF h
<1> QED
  BY <1>8, <1>9

\* Before a branch every live value is at home.
LEMMA GeneratedBranch ==
    ASSUME Static, NEW g, NEW rs, NEW vs, Context(global, permanent, g, rs, vs), rs.form.branch,
           NEW w \in vs, \A i \in Operands(rs) : Val(rs, i) = w => rs.descs[i].live
    PROVE  Home(global, Generate(g, rs), w)
<1> DEFINE k == Saving(g, rs)
           h == Generate(g, rs)
           at == g.in_reg[w]
<1>1. /\ Shape(rs) /\ Stored(global, permanent, g, k)
      /\ Loadable(global, permanent, k, rs) /\ Loading(global, k, rs, h, Single(rs))
  BY GeneratedSteps
<1>2. /\ Duplicates(g, rs) /\ Loose(permanent, g) /\ Fates(global, permanent, g, rs)
      /\ GenOK(global, g) /\ Changes(global, permanent, g, rs)
  BY DEF Context, Assigned
<1>3. /\ \A j \in Operands(rs) : rs.descs[j].store \/ rs.descs[j].thrash => j \in Single(rs)
      /\ \A j \in Single(rs) : rs.descs[j].thrash => rs.descs[j].store
  BY <1>2 DEF Duplicates, Fates
<1>4. /\ Preserved(global, Kept(rs), g, k)
      /\ \A v \in Slots \ {Dest(rs)} :
            Right(global, g, v) /\ g.in_reg[v] \in rs.clobber \ permanent
              /\ (\A i \in Operands(rs) : Val(rs, i) = v => rs.descs[i].live) => Settled(global, k, v)
  BY <1>1, <1>2, <1>3, SavingKeeps
<1>5. w \in Slots /\ w \in Values /\ Right(global, g, w)
  BY NoRegApart DEF Context
<1>6. Dest(rs) = NoValue /\ Regs \ permanent \subseteq rs.clobber
  BY <1>2 DEF Changes, Dest
<1>7. w \in Slots \ {Dest(rs)} /\ w \in Kept(rs)
  BY <1>5, <1>6, NoRegApart DEF Kept
<1>8. Home(global, k, w) => Home(global, h, w)
  BY <1>1, <1>7, LoadsKeep
<1> HIDE DEF k, h
<1>9. Right(global, k, w)
  BY <1>4, <1>5, <1>7 DEF Preserved
<1>10. Home(global, k, w)
  <2>1. CASE at = NoReg
    <3>1. k.in_reg[w] = NoReg
      BY <1>1, <1>5, <2>1 DEF Stored
    <3> QED
      BY <1>9, <3>1 DEF Right
  <2>2. CASE at # NoReg
    <3>1. at \in rs.clobber \ permanent
      BY <1>2, <1>5, <1>6, <2>2, GenFields DEF Loose, GenOK
    <3>2. Settled(global, k, w)
      BY <1>4, <1>5, <1>7, <3>1
    <3> QED
      BY <1>9, <3>2 DEF Settled, Right, Home
  <2> QED
    BY <2>1, <2>2
<1> QED
  BY <1>8, <1>10 DEF h

\* What an instruction does to the machine: it leaves every value but its result
\* where it is, except in the registers it changes.
LEMMA ExecuteEffect ==
    ASSUME Static, NEW g, GenOK(global, g), NEW rs, Shape(rs)
    PROVE  LET e == Execute(g, rs)
           IN /\ GenOK(global, e)
              /\ e.in_reg = g.in_reg /\ e.in_frame = g.in_frame /\ e.in_global = g.in_global /\ e.inhibit = g.inhibit
              /\ \A w \in Values \ {Dest(rs)} : /\ \A q \in Regs \ Disturbed(rs) : w \in e.holds[q] <=> w \in g.holds[q]
                                               /\ \A x \in Slots : w \in e.slot[x] <=> w \in g.slot[x]
              /\ Output(rs) /\ (rs.copy => Val(rs, 1) \in g.holds[Reg(rs, 0)] /\ Changed(rs) = {})
                    => Dest(rs) \in e.holds[Reg(rs, 0)]
              /\ ~Output(rs) => /\ \A q \in Regs \ Changed(rs) : e.holds[q] = g.holds[q]
                                /\ e.slot = g.slot
<1> DEFINE v == rs.descs[0].value
           u == rs.descs[1].value
           hs == [r \in Regs |-> IF r \in Changed(rs) THEN {} ELSE g.holds[r]]
           without == [g EXCEPT !.holds = hs]
           Redefined(place) == IF rs.copy /\ u \in place THEN place \cup {v} ELSE place \ {v}
           hr == [r \in Regs |-> Redefined(hs[r])]
           sl == [w \in Slots |-> Redefined(g.slot[w])]
           ho == [hr EXCEPT ![rs.descs[0].reg] = {v}]
           e == Execute(g, rs)
<1>1. g \in Gens
  BY DEF GenOK
<1>2. /\ v \in Values \cup {NoValue} /\ rs.descs[0].reg \in Regs \cup {NoReg}
      /\ v = Val(rs, 0) /\ rs.descs[0].reg = Reg(rs, 0) /\ u = Val(rs, 1)
  BY DescFields DEF Shape, Val, Reg
<1>3. Output(rs) <=> ~(v = NoValue \/ rs.ternary)
  BY DEF Output, Given, Shape
<1>4. hs \in [Regs -> SUBSET Values]
  BY <1>1, GenFields
<1>5. ASSUME NEW h, NEW s, h \in [Regs -> SUBSET Values], s \in [Slots -> SUBSET Values],
             e = [g EXCEPT !.holds = h, !.slot = s]
      PROVE  /\ GenOK(global, e) /\ e.holds = h /\ e.slot = s
             /\ e.in_reg = g.in_reg /\ e.in_frame = g.in_frame /\ e.in_global = g.in_global /\ e.inhibit = g.inhibit
  <2> HIDE DEF e
  <2>1. /\ e \in Gens /\ e.contents = g.contents /\ e.in_reg = g.in_reg /\ e.in_frame = g.in_frame
        /\ e.in_global = g.in_global /\ e.inhibit = g.inhibit /\ e.holds = h /\ e.slot = s
    BY <1>1, <1>5 DEF Gens
  <2>2. GenOK(global, e)
    BY <2>1 DEF GenOK
  <2> QED
    BY <2>1, <2>2
<1>6. CASE ~Output(rs)
  <2>1. e = without
    BY <1>3, <1>6 DEF Execute
  <2>2. without = [g EXCEPT !.holds = hs, !.slot = g.slot]
    BY <1>1 DEF Gens
  <2>3. g.slot \in [Slots -> SUBSET Values]
    BY <1>1, GenFields
  <2>4. /\ GenOK(global, e) /\ e.holds = hs /\ e.slot = g.slot
        /\ e.in_reg = g.in_reg /\ e.in_frame = g.in_frame /\ e.in_global = g.in_global /\ e.inhibit = g.inhibit
    BY <1>4, <1>5, <2>1, <2>2, <2>3
  <2>5. Changed(rs) \subseteq Disturbed(rs)
    BY DEF Disturbed
  <2> HIDE DEF e
  <2>6. \A q \in Regs \ Changed(rs) : e.holds[q] = g.holds[q]
    BY <2>4
  <2> QED
    BY <1>6, <2>4, <2>5, <2>6 DEF e
<1>7. CASE Output(rs)
  <2>1. v \in Values /\ Reg(rs, 0) \in Regs /\ v = Dest(rs)
    BY <1>2, <1>3, <1>7 DEF Shape, Output, Dest
  <2> HIDE DEF v
  <2>2. ASSUME NEW place \in SUBSET Values
        PROVE  Redefined(place) \in SUBSET Values /\ \A w \in Values \ {v} : w \in Redefined(place) <=> w \in place
    BY <2>1
  <2>3. hr \in [Regs -> SUBSET Values] /\ sl \in [Slots -> SUBSET Values]
    BY <1>1, <1>4, <2>2, GenFields
  <2>4. \A w \in Values \ {v} : /\ \A q \in Regs : w \in hr[q] <=> w \in hs[q]
                                /\ \A x \in Slots : w \in sl[x] <=> w \in g.slot[x]
    BY <1>1, <1>4, <2>2, GenFields
  <2>5. \A q \in Regs \ Disturbed(rs) : hs[q] = g.holds[q] /\ (~rs.copy => q # Reg(rs, 0))
    BY <1>7 DEF Disturbed
  <2>6. e = IF rs.copy THEN [g EXCEPT !.holds = hr, !.slot = sl] ELSE [g EXCEPT !.holds = ho, !.slot = sl]
    <3>1. without.holds = hs /\ without.slot = g.slot
      BY <1>1 DEF Gens
    <3>2. e = LET renewed == [without EXCEPT !.holds = [r \in Regs |-> Redefined(without.holds[r])],
                                             !.slot  = [w \in Slots |-> Redefined(without.slot[w])]]
              IN IF rs.copy THEN renewed ELSE [renewed EXCEPT !.holds[rs.descs[0].reg] = {v}]
      BY <1>3, <1>7 DEF Execute, v
    <3> HIDE DEF Redefined, hs
    <3>3. e = LET renewed == [without EXCEPT !.holds = hr, !.slot  = sl]
              IN IF rs.copy THEN renewed ELSE [renewed EXCEPT !.holds[rs.descs[0].reg] = {v}]
      BY <3>1, <3>2
    <3> HIDE DEF e, hr, sl
    <3>4. [without EXCEPT !.holds = hr, !.slot  = sl] = [g EXCEPT !.holds = hr, !.slot = sl]
      BY <1>1 DEF Gens
    <3>5. [[g EXCEPT !.holds = hr, !.slot = sl] EXCEPT !.holds[rs.descs[0].reg] = {v}] = [g EXCEPT !.holds = ho, !.slot = sl]
      BY <1>1 DEF Gens
    <3> QED
      BY <3>3, <3>4, <3>5
  <2>7. CASE rs.copy
    <3> HIDE DEF e, hr, sl
    <3>1. /\ GenOK(global, e) /\ e.holds = hr /\ e.slot = sl
          /\ e.in_reg = g.in_reg /\ e.in_frame = g.in_frame /\ e.in_global = g.in_global /\ e.inhibit = g.inhibit
      BY <1>5, <2>3, <2>6, <2>7 DEF e
    <3>2. u \in g.holds[Reg(rs, 0)] /\ Changed(rs) = {} => v \in hr[Reg(rs, 0)]
      BY <2>1, <2>7 DEF hr
    <3> QED
      BY <1>2, <1>7, <2>1, <2>4, <2>5, <2>7, <3>1, <3>2 DEF e
  <2>8. CASE ~rs.copy
    <3> HIDE DEF e, hr, sl
    <3>0. ho \in [Regs -> SUBSET Values] /\ ho[Reg(rs, 0)] = {v} /\ \A q \in Regs : q # Reg(rs, 0) => ho[q] = hr[q]
      BY <1>2, <2>1, <2>3
    <3> HIDE DEF ho
    <3>1. /\ GenOK(global, e) /\ e.holds = ho /\ e.slot = sl
          /\ e.in_reg = g.in_reg /\ e.in_frame = g.in_frame /\ e.in_global = g.in_global /\ e.inhibit = g.inhibit
      BY <1>5, <2>3, <2>6, <2>8, <3>0 DEF e
    <3> QED
      BY <1>7, <2>1, <2>4, <2>5, <2>8, <3>0, <3>1 DEF e
  <2> QED
    BY <2>7, <2>8
<1> QED
  BY <1>6, <1>7

\* commit_input_value.
LEMMA CommitNext ==
    ASSUME NEW a, NEW rs, Shape(rs), NEW b, NEW is, Committed(global, rs, a, b, is), NEW i \in Inputs(rs)
    PROVE  Committed(global, rs, a, CommitInput(b, rs, i), is \cup {i})
<1> DEFINE v == Val(rs, i)
           h == CommitInput(b, rs, i)
<1>1. i \in Single(rs) <=> i \in Given(rs) /\ ~rs.descs[i].duplicate
  BY DEF Single, Operands
<1>2. i \in Single(rs) => v \in Values
  BY SingleTypes
<1>3. rs.descs[i].value = v
  BY DEF Val
<1>4. CASE i \in Single(rs) /\ rs.descs[i].kill /\ b.in_reg[v] # NoReg
  <2>1. h = FreeValues(b, {v})
    BY <1>1, <1>3, <1>4 DEF CommitInput
  <2>2. {v} \subseteq Values
    BY <1>2, <1>4
  <2> DEFINE vs == {v}
  <2> HIDE DEF vs, h
  <2>3. /\ GenOK(global, h) /\ h.in_frame = b.in_frame /\ h.in_global = b.in_global
        /\ h.inhibit = b.inhibit /\ h.holds = b.holds /\ h.slot = b.slot
        /\ \A w \in Values : h.in_reg[w] = IF w \in vs THEN NoReg ELSE b.in_reg[w]
    BY <2>1, <2>2, FreeEffect DEF Committed, vs
  <2>4. \A w \in Values : h.in_reg[w] = IF \E j \in (is \cup {i}) \cap Single(rs) : Val(rs, j) = w /\ rs.descs[j].kill
                                       THEN NoReg ELSE a.in_reg[w]
    BY <1>4, <2>3 DEF Committed, vs
  <2> QED
    BY <2>3, <2>4 DEF Committed, h
<1>5. CASE ~(i \in Single(rs) /\ rs.descs[i].kill /\ b.in_reg[v] # NoReg)
  <2>1. h = b
    BY <1>1, <1>3, <1>5 DEF CommitInput
  <2>2. \A w \in Values : b.in_reg[w] = IF \E j \in (is \cup {i}) \cap Single(rs) : Val(rs, j) = w /\ rs.descs[j].kill
                                       THEN NoReg ELSE a.in_reg[w]
    BY <1>5 DEF Committed
  <2> QED
    BY <2>1, <2>2 DEF Committed
<1> QED
  BY <1>4, <1>5

\* Commit ends the bindings of the killed operands and then binds the result.
LEMMA CommitSteps ==
    ASSUME NEW g, GenOK(global, g), NEW rs, Shape(rs)
    PROVE  LET c == InputsCommitted(g, rs)
           IN /\ GenOK(global, c) /\ c.holds = g.holds /\ c.slot = g.slot
              /\ c.in_frame = g.in_frame /\ c.in_global = g.in_global /\ c.inhibit = g.inhibit
              /\ \A v \in Values : c.in_reg[v] = IF Killed(rs, v) THEN NoReg ELSE g.in_reg[v]
              /\ Commit(g, rs) = IF Output(rs) THEN CommitOutput(c, rs) ELSE c
<1> DEFINE c == InputsCommitted(g, rs)
<1>1. Committed(global, rs, g, g, {})
  BY DEF Committed
<1>2. Single(rs) \subseteq Inputs(rs) /\ rs.ternary \in BOOLEAN
  BY DEF Single, Operands, Shape
<1>3. Committed(global, rs, g, c, Inputs(rs))
  <2>1. CASE rs.ternary
    <3> DEFINE a == CommitInput(g, rs, 0)
               b == CommitInput(a, rs, 1)
               zero == {} \cup {0}
               one == zero \cup {1}
    <3>1. Inputs(rs) = one \cup {2} /\ 0 \in Inputs(rs) /\ 1 \in Inputs(rs) /\ 2 \in Inputs(rs)
      BY <2>1 DEF Inputs
    <3>2. c = CommitInput(b, rs, 2)
      BY <2>1 DEF InputsCommitted
    <3> HIDE DEF zero, one, a, b, c
    <3>3. Committed(global, rs, g, a, zero)
      BY <1>1, <3>1, CommitNext DEF zero, a
    <3>4. Committed(global, rs, g, b, one)
      BY <3>1, <3>3, CommitNext DEF one, b
    <3> QED
      BY <3>1, <3>2, <3>4, CommitNext
  <2>2. CASE ~rs.ternary /\ Output(rs)
    <3> DEFINE a == CommitInput(g, rs, 2)
               zero == {} \cup {2}
    <3>1. Inputs(rs) = zero \cup {1} /\ 1 \in Inputs(rs) /\ 2 \in Inputs(rs)
      BY <2>2 DEF Inputs
    <3>2. c = CommitInput(a, rs, 1)
      BY <2>2 DEF InputsCommitted
    <3> HIDE DEF zero, a, c
    <3>3. Committed(global, rs, g, a, zero)
      BY <1>1, <3>1, CommitNext DEF zero, a
    <3> QED
      BY <3>1, <3>2, <3>3, CommitNext
  <2>3. CASE ~rs.ternary /\ ~Output(rs)
    <3> DEFINE a == CommitInput(g, rs, 1)
               zero == {} \cup {1}
    <3>1. Inputs(rs) = zero \cup {2} /\ 1 \in Inputs(rs) /\ 2 \in Inputs(rs)
      BY <2>3 DEF Inputs
    <3>2. c = CommitInput(a, rs, 2)
      BY <2>3 DEF InputsCommitted
    <3> HIDE DEF zero, a, c
    <3>3. Committed(global, rs, g, a, zero)
      BY <1>1, <3>1, CommitNext DEF zero, a
    <3> QED
      BY <3>1, <3>2, <3>3, CommitNext
  <2> QED
    BY <2>1, <2>2, <2>3
<1>4. \A v \in Values : c.in_reg[v] = IF Killed(rs, v) THEN NoReg ELSE g.in_reg[v]
  <2>1. Inputs(rs) \cap Single(rs) = Single(rs)
    BY <1>2
  <2> QED
    BY <1>3, <2>1 DEF Committed, Killed
<1>5. Commit(g, rs) = IF Output(rs) THEN CommitOutput(c, rs) ELSE c
  <2>1. CASE rs.ternary
    BY <2>1 DEF Commit, InputsCommitted, Output
  <2>2. CASE ~rs.ternary /\ Output(rs)
    BY <2>2 DEF Commit, InputsCommitted, Output, Given
  <2>3. CASE ~rs.ternary /\ ~Output(rs)
    BY <2>3 DEF Commit, InputsCommitted, Output, Given
  <2> QED
    BY <2>1, <2>2, <2>3
<1> QED
  BY <1>3, <1>4, <1>5 DEF Committed

\* commit_output_value: the result is where its flags say, or saved.
LEMMA OutputCommitted ==
    ASSUME Static, NEW c, GenOK(global, c), Loose(permanent, c), NEW rs, Shape(rs), Output(rs),
           Dest(rs) \in Slots, c.in_reg[Dest(rs)] = NoReg, Dest(rs) \in c.holds[Reg(rs, 0)],
           Reg(rs, 0) \in permanent => Reg(rs, 0) = global[Dest(rs)],
           rs.descs[0].live, ~rs.descs[0].kill
    PROVE  LET h == CommitOutput(c, rs)
           IN /\ GenOK(global, h) /\ Loose(permanent, h) /\ h.inhibit = c.inhibit
              /\ Right(global, h, Dest(rs)) /\ Readable(global, h, Dest(rs))
              /\ \A w \in Slots \ {Dest(rs)} :
                    /\ Right(global, c, w) => Right(global, h, w)
                    /\ Right(global, c, w) /\ Readable(global, c, w) => Readable(global, h, w)
              /\ \A q \in Regs \ permanent : h.holds[q] = c.holds[q]
<1> DEFINE v == Dest(rs)
           r == Reg(rs, 0)
           vs == {v}
           b == BindValue(c, v, r, FALSE)
           h == CommitOutput(c, rs)
<1>1. rs.descs[0].value = v /\ rs.descs[0].reg = r /\ v \in Values /\ r \in Regs /\ rs.descs[0].used \in BOOLEAN
  BY DescFields DEF Shape, Output, Dest, Reg, Slots
<1>2. /\ GenOK(global, b) /\ Loose(permanent, b) /\ b.inhibit = c.inhibit /\ b.holds = c.holds /\ b.slot = c.slot
      /\ Right(global, b, v) /\ Readable(global, b, v)
      /\ \A w \in Slots \ {v} : /\ Right(global, c, w) => Right(global, b, w)
                                /\ Readable(global, c, w) => Readable(global, b, w)
  <2> HIDE DEF v, r, b
  <2>1. CASE global[v] = r
    <3> DEFINE f == FALSE
    <3> HIDE DEF f
    <3>0. f \in BOOLEAN /\ b = BindValue(c, v, r, f) /\ c.in_reg[v] = NoReg
      BY DEF f, b, v
    <3>1. /\ GenOK(global, b) /\ b.in_reg = c.in_reg /\ b.inhibit = c.inhibit /\ b.holds = c.holds /\ b.slot = c.slot
          /\ b.in_global = c.in_global \cup {v} /\ b.in_frame = c.in_frame
      BY <1>1, <2>1, <3>0, BindHome
    <3>2. Right(global, b, v) /\ Readable(global, b, v)
      <4>1. v \notin b.in_frame /\ global[v] # NoReg
        BY <1>1, <2>1, <3>1, NoRegApart DEF GenOK
      <4> QED
        BY <2>1, <3>1, <4>1 DEF Right, Readable, Home, v, r
    <3>3. Loose(permanent, b)
      BY <3>1 DEF Loose
    <3>4. ASSUME NEW w \in Slots \ {v}
          PROVE  /\ Right(global, c, w) => Right(global, b, w)
                 /\ Readable(global, c, w) => Readable(global, b, w)
      BY <3>1 DEF Right, Readable, Home
    <3> QED
      BY <3>1, <3>2, <3>3, <3>4
  <2>2. CASE global[v] # r
    <3> DEFINE f == FALSE
    <3> HIDE DEF f
    <3>0. f \in BOOLEAN /\ ~f /\ b = BindValue(c, v, r, f) /\ c.in_reg[v] \in {NoReg, r}
      BY DEF f, b, v
    <3>1. /\ GenOK(global, b) /\ b.inhibit = c.inhibit /\ b.holds = c.holds /\ b.slot = c.slot
          /\ \A w \in Values : b.in_reg[w] = IF w = v THEN r ELSE c.in_reg[w]
          /\ \A w \in Values \ {v} : (w \in b.in_global <=> w \in c.in_global) /\ (w \in b.in_frame <=> w \in c.in_frame)
          /\ v \notin b.in_global /\ v \notin b.in_frame
      BY <1>1, <2>2, <3>0, BindEffect
    <3>2. Right(global, b, v) /\ Readable(global, b, v)
      BY <1>1, <3>1, NoRegApart DEF Right, Readable, v, r
    <3>3. Loose(permanent, b)
      BY <1>1, <2>2, <3>1 DEF Loose, v, r
    <3>4. ASSUME NEW w \in Slots \ {v}
          PROVE  /\ Right(global, c, w) => Right(global, b, w)
                 /\ Readable(global, c, w) => Readable(global, b, w)
      BY <3>1, NoRegApart DEF Right, Readable, Home
    <3> QED
      BY <3>1, <3>2, <3>3, <3>4
  <2> QED
    BY <2>1, <2>2
<1>3. CASE h = b
  BY <1>2, <1>3
<1>4. CASE h = FreeValues(SaveValues(b, vs), vs)
  <2> HIDE DEF vs, b, h, v
  <2>1. Apart(permanent, b) /\ vs \subseteq Values
    BY <1>1, <1>2, LooseApart DEF vs
  <2>2. /\ Stored(global, permanent, b, h)
        /\ Preserved(global, Untaken(b, vs, vs), b, h)
    BY <1>2, <1>4, <2>1, SaveAndFree
  <2>3. Untaken(b, vs, vs) = Slots
    BY DEF Untaken
  <2>4. Loose(permanent, h)
    BY <1>2, <2>2, StoredLoose
  <2>5. /\ Right(global, h, v) /\ Readable(global, h, v)
        /\ \A w \in Slots \ {v} :
              /\ Right(global, c, w) => Right(global, h, w)
              /\ Right(global, c, w) /\ Readable(global, c, w) => Readable(global, h, w)
    BY <1>2, <2>2, <2>3 DEF Preserved, v
  <2>6. /\ GenOK(global, h) /\ h.inhibit = c.inhibit
        /\ \A q \in Regs \ permanent : h.holds[q] = c.holds[q]
    BY <1>2, <2>2 DEF Stored
  <2> QED
    BY <2>4, <2>5, <2>6 DEF h, v
<1>5. h \in {b, FreeValues(SaveValues(b, vs), vs)}
  BY <1>1 DEF CommitOutput
<1> QED
  BY <1>3, <1>4, <1>5

\* The types of an argument that has yet to arrive.
LEMMA WaitTypes ==
    ASSUME NEW g, NEW nd, NEW arr, NEW pa, Waits(g, nd, arr, pa), NEW k \in DOMAIN arr
    PROVE  arr[k].value \in Slots /\ arr[k].value \in Values /\ (arr[k].reg # NoReg => arr[k].reg \in Regs \cap CallUsed)
<1> DEFINE S == [value : Slots, reg : CallUsed \cup {NoReg}]
<1>1. arr \in Seq(S)
  BY DEF Waits
<1> HIDE DEF S
<1>2. arr[k] \in S
  BY <1>1
<1> QED
  BY <1>2, RegAllocAssumption, NoRegApart DEF S

\* _jit_regs_commit leaves what holds between two instructions.
LEMMA EndKeeps ==
    ASSUME Static, NEW g, NEW nd, NEW rs, NEW arr, NEW wr, NEW pa,
           IsReady(global, permanent, g, nd, rs, arr, wr, pa)
    PROVE  InBody(global, permanent, Commit(Execute(g, rs), rs), nd, arr, wr, pa)
<1> DEFINE e == Execute(g, rs)
           c == InputsCommitted(e, rs)
           h == Commit(e, rs)
<1>1. /\ GenOK(global, g) /\ Shape(rs) /\ nd \in Needs /\ wr \subseteq Slots
      /\ ResultReady(global, permanent, g, nd, rs, wr)
      /\ Waits(g, nd, arr, pa) /\ Handed(g, pa)
  BY DEF IsReady
<1>2. /\ GenOK(global, e)
      /\ e.in_reg = g.in_reg /\ e.in_frame = g.in_frame /\ e.in_global = g.in_global /\ e.inhibit = g.inhibit
      /\ \A w \in Values \ {Dest(rs)} : /\ \A q \in Regs \ Disturbed(rs) : w \in e.holds[q] <=> w \in g.holds[q]
                                       /\ \A x \in Slots : w \in e.slot[x] <=> w \in g.slot[x]
      /\ Output(rs) => Dest(rs) \in e.holds[Reg(rs, 0)]
      /\ ~Output(rs) => /\ \A q \in Regs \ Changed(rs) : e.holds[q] = g.holds[q]
                        /\ e.slot = g.slot
  BY <1>1, ExecuteEffect DEF ResultReady
<1> HIDE DEF e
<1>3. /\ GenOK(global, c) /\ c.holds = e.holds /\ c.slot = e.slot
      /\ c.in_frame = e.in_frame /\ c.in_global = e.in_global /\ c.inhibit = e.inhibit
      /\ \A v \in Values : c.in_reg[v] = IF Killed(rs, v) THEN NoReg ELSE e.in_reg[v]
      /\ h = IF Output(rs) THEN CommitOutput(c, rs) ELSE c
  BY <1>1, <1>2, CommitSteps
<1> HIDE DEF c, h
<1>4. \A v \in Values : c.in_reg[v] = IF Killed(rs, v) THEN NoReg ELSE g.in_reg[v]
  BY <1>2, <1>3
<1>5. \A w \in Values : g.in_reg[w] # NoReg /\ ~Killed(rs, w) =>
          w \in Slots \ {Dest(rs)} /\ g.in_reg[w] \notin permanent \cup Disturbed(rs)
  BY DEF IsReady
<1>6. Loose(permanent, c)
  BY <1>4, <1>5 DEF Loose
<1>7. \A w \in Slots \ {Dest(rs)} : global[w] # NoReg => global[w] \in Regs \ Disturbed(rs)
  <2> SUFFICES ASSUME NEW w \in Slots \ {Dest(rs)}, global[w] # NoReg
               PROVE  global[w] \in Regs \ Disturbed(rs)
    OBVIOUS
  <2>1. w \in Values \cup {NoValue} /\ Dest(rs) \in Values \cup {NoValue}
    BY <1>1, NoRegApart, DescFields DEF Dest, Shape
  <2>2. global[w] \in permanent /\ global[w] \in Regs /\ global[w] # global[Dest(rs)]
    BY <2>1 DEF Static, StaticOK
  <2>3. global[w] \notin Changed(rs)
    BY <2>2 DEF IsReady
  <2>4. Output(rs) => Reg(rs, 0) # global[w]
    BY <1>1, <2>2 DEF ResultReady
  <2> QED
    BY <2>2, <2>3, <2>4 DEF Disturbed
<1>8. \A w \in Slots \ {Dest(rs)} :
          /\ Home(global, c, w) = Home(global, g, w) /\ Settled(global, c, w) = Settled(global, g, w)
          /\ Readable(global, g, w) /\ (Killed(rs, w) => Settled(global, g, w)) => Readable(global, c, w)
          /\ Right(global, g, w) /\ (Killed(rs, w) => Settled(global, g, w)) => Right(global, c, w)
  <2> SUFFICES ASSUME NEW w \in Slots \ {Dest(rs)}
               PROVE  /\ Home(global, c, w) = Home(global, g, w) /\ Settled(global, c, w) = Settled(global, g, w)
                      /\ Readable(global, g, w) /\ (Killed(rs, w) => Settled(global, g, w)) => Readable(global, c, w)
                      /\ Right(global, g, w) /\ (Killed(rs, w) => Settled(global, g, w)) => Right(global, c, w)
    OBVIOUS
  <2>1. w \in Values
    BY NoRegApart
  <2>2. global[w] # NoReg => (w \in c.holds[global[w]] <=> w \in g.holds[global[w]])
    BY <1>2, <1>3, <1>7, <2>1
  <2>3. w \in c.slot[w] <=> w \in g.slot[w]
    BY <1>2, <1>3, <2>1
  <2>4. c.in_global = g.in_global /\ c.in_frame = g.in_frame
    BY <1>2, <1>3
  <2>5. Home(global, c, w) = Home(global, g, w)
    BY <2>2, <2>3 DEF Home
  <2>6. Settled(global, c, w) = Settled(global, g, w)
    BY <2>3, <2>4 DEF Settled
  <2>7. Readable(global, g, w) /\ (Killed(rs, w) => Settled(global, g, w)) => Readable(global, c, w)
    BY <1>4, <2>1, <2>4 DEF Readable, Settled
  <2>8. ASSUME Right(global, g, w), Killed(rs, w) => Settled(global, g, w)
        PROVE  Right(global, c, w)
    <3>2. w \in c.in_global => w \in c.holds[global[w]]
      BY <1>1, <2>2, <2>4, <2>8 DEF Right, GenOK
    <3>3. w \in c.in_frame => w \in c.slot[w]
      BY <2>3, <2>4, <2>8 DEF Right
    <3>4. c.in_reg[w] # NoReg => w \in c.holds[c.in_reg[w]]
      <4> SUFFICES ASSUME c.in_reg[w] # NoReg
                   PROVE  w \in c.holds[c.in_reg[w]]
        OBVIOUS
      <4>1. ~Killed(rs, w) /\ c.in_reg[w] = g.in_reg[w]
        BY <1>4, <2>1
      <4>2. g.in_reg[w] \in Regs \ Disturbed(rs)
        BY <1>1, <1>5, <2>1, <4>1, GenFields DEF GenOK
      <4> QED
        BY <1>2, <1>3, <2>1, <2>8, <4>1, <4>2 DEF Right
    <3>5. c.in_reg[w] = NoReg => Home(global, c, w)
      BY <1>4, <2>1, <2>5, <2>8 DEF Right, Settled, Home
    <3> QED
      BY <3>2, <3>3, <3>4, <3>5 DEF Right
  <2> QED
    BY <2>5, <2>6, <2>7, <2>8
<1>9. Believed(global, c, nd, Slots \ (Arriving(arr) \cup {Dest(rs)}), wr)
  BY <1>8 DEF IsReady, Believed
<1>10. CASE Output(rs)
  <2>1. h = CommitOutput(c, rs)
    BY <1>3, <1>10
  <2>2. arr = <<>> /\ \A r \in Outgoing : pa[r] = NoValue
    BY <1>10 DEF IsReady
  <2>3. Arriving(arr) = {}
    BY <2>2 DEF Arriving
  <2>4. /\ Dest(rs) \in wr /\ Dest(rs) \in Slots /\ nd[Dest(rs)] # "dead"
        /\ rs.descs[0].live /\ ~rs.descs[0].kill
        /\ Reg(rs, 0) \in permanent => Reg(rs, 0) = global[Dest(rs)]
    BY <1>1, <1>10 DEF ResultReady
  <2>5. c.in_reg[Dest(rs)] = NoReg
    BY <1>4, <1>5, <2>4, NoRegApart
  <2>6. Dest(rs) \in c.holds[Reg(rs, 0)]
    BY <1>2, <1>3, <1>10
  <2>7. /\ GenOK(global, h) /\ Loose(permanent, h) /\ h.inhibit = c.inhibit
        /\ Right(global, h, Dest(rs)) /\ Readable(global, h, Dest(rs))
        /\ \A w \in Slots \ {Dest(rs)} :
              /\ Right(global, c, w) => Right(global, h, w)
              /\ Right(global, c, w) /\ Readable(global, c, w) => Readable(global, h, w)
    BY <1>1, <1>3, <1>6, <1>10, <2>1, <2>4, <2>5, <2>6, OutputCommitted
  <2>8. Believed(global, h, nd, Slots \ Arriving(arr), wr)
    BY <1>9, <2>3, <2>4, <2>7 DEF Believed
  <2>9. Waits(h, nd, arr, pa)
    BY <1>1, <2>2 DEF Waits
  <2>10. Handed(h, pa)
    BY <1>1, <1>2, <1>3, <2>2, <2>7 DEF Handed
  <2> QED
    BY <1>1, <2>7, <2>8, <2>9, <2>10 DEF InBody, h, e
<1>11. CASE ~Output(rs)
  <2>1. h = c
    BY <1>3, <1>11
  <2>2. Dest(rs) \notin Slots
    BY <1>11, NoRegApart DEF Dest
  <2>3. Believed(global, h, nd, Slots \ Arriving(arr), wr)
    BY <1>9, <2>1, <2>2 DEF Believed
  <2>4. Waits(h, nd, arr, pa)
    <3>1. CASE arr = <<>>
      BY <1>1, <3>1 DEF Waits
    <3>2. CASE arr # <<>>
      <4>1. Changed(rs) = {}
        BY <3>2 DEF IsReady
      <4>2. h.slot = g.slot /\ h.inhibit = g.inhibit /\ \A q \in Regs : h.holds[q] = g.holds[q]
        BY <1>2, <1>3, <1>11, <2>1, <4>1
      <4>3. \A w \in Values : g.in_reg[w] = NoReg => h.in_reg[w] = NoReg
        BY <1>4, <2>1
      <4>4. \A k \in DOMAIN arr : arr[k].value \in Values /\ (arr[k].reg # NoReg => arr[k].reg \in Regs)
        BY <1>1, WaitTypes
      <4> QED
        BY <1>1, <4>2, <4>3, <4>4 DEF Waits
    <3> QED
      BY <3>1, <3>2
  <2>5. Handed(h, pa)
    <3> SUFFICES ASSUME NEW r \in Outgoing, pa[r] # NoValue
                 PROVE  pa[r] \in h.holds[r] /\ r \in h.inhibit
      BY <1>1, <1>2, <1>3, <2>1 DEF Handed
    <3>1. pa[r] \in g.holds[r] /\ r \in g.inhibit /\ r \in Regs
      BY <1>1, RegAllocAssumption DEF Handed
    <3>2. r \notin Changed(rs)
      BY <3>1 DEF IsReady
    <3> QED
      BY <1>2, <1>3, <1>11, <2>1, <3>1, <3>2
  <2> QED
    BY <1>1, <1>3, <1>6, <2>1, <2>3, <2>4, <2>5 DEF InBody, h, e
<1> QED
  BY <1>10, <1>11

\* What the rest of a block makes of the values is changed by an instruction.
LEMMA OverNeeds ==
    ASSUME NEW nd \in Needs, NEW vs, vs \subseteq Slots, NEW after \in [vs -> {"used", "live", "dead"}]
    PROVE  /\ Becomes(nd, after) \in Needs
           /\ \A v \in Slots : (Becomes(nd, after))[v] = IF v \in vs THEN after[v] ELSE nd[v]
<1>1. DOMAIN after = vs
  OBVIOUS
<1> QED
  BY <1>1 DEF Becomes, Needs

\* _jit_regs_force_out, of the operands in the frame.
LEMMA ForcedOut ==
    ASSUME Static, NEW g, GenOK(global, g), Loose(permanent, g), NEW form \in Forms,
           NEW args \in [0 .. 2 -> Values \cup {NoValue}],
           \A j \in 0 .. 2 : form.operands[j].kind = "frame" => args[j] \in Slots /\ global[args[j]] = NoReg
    PROVE  LET f == ForceOut(g, form, args)
           IN /\ Stored(global, permanent, g, f) /\ Preserved(global, Slots, g, f)
              /\ \A j \in 0 .. 2 : form.operands[j].kind = "frame" =>
                    /\ f.in_reg[args[j]] = NoReg
                    /\ Right(global, g, args[j]) => args[j] \in f.slot[args[j]]
<1> DEFINE some == {args[i] : i \in {j \in 1 .. 2 : form.operands[j].kind = "frame"}}
           all == {args[i] : i \in {j \in 0 .. 2 : form.operands[j].kind = "frame"}}
           f == ForceOut(g, form, args)
<1>1. f = FreeValues(SaveValues(g, some), all)
  BY DEF ForceOut
<1>2. form.operands[0].kind # "frame"
  BY FormsAssumption DEF FormRight
<1>3. \A j \in 0 .. 2 : form.operands[j].kind = "frame" => j \in 1 .. 2
  BY <1>2
<1>4. some = all
  BY <1>3
<1>5. all \subseteq Slots /\ all \subseteq Values
  BY NoRegApart
<1>6. \A j \in 0 .. 2 : form.operands[j].kind = "frame" => args[j] \in all
  OBVIOUS
<1> HIDE DEF some, all, f
<1>7. Apart(permanent, g)
  BY LooseApart
<1>8. /\ Stored(global, permanent, g, f)
      /\ \A v \in Values : f.in_reg[v] = IF v \in all THEN NoReg ELSE g.in_reg[v]
      /\ Preserved(global, Untaken(g, all, all), g, f)
      /\ \A v \in Slots \cap all : Right(global, g, v) /\ g.in_reg[v] # NoReg => Settled(global, f, v)
  BY <1>1, <1>4, <1>5, <1>7, SaveAndFree
<1>9. Preserved(global, Slots, g, f)
  BY <1>8 DEF Untaken
<1>10. ASSUME NEW j \in 0 .. 2, form.operands[j].kind = "frame"
       PROVE  /\ f.in_reg[args[j]] = NoReg
              /\ Right(global, g, args[j]) => args[j] \in f.slot[args[j]]
  <2> DEFINE v == args[j]
  <2>1. v \in all /\ v \in Slots /\ v \in Values /\ global[v] = NoReg
    BY <1>5, <1>6, <1>10
  <2> HIDE DEF v
  <2>2. Right(global, g, v) => Settled(global, f, v)
    <3>1. CASE g.in_reg[v] # NoReg
      BY <1>8, <2>1, <3>1
    <3>2. CASE g.in_reg[v] = NoReg
      BY <1>9, <2>1, <3>2 DEF Preserved, Right, Home, Settled
    <3> QED
      BY <3>1, <3>2
  <2> QED
    BY <1>8, <2>1, <2>2 DEF Settled, v
<1> QED
  BY <1>8, <1>9, <1>10 DEF f

\* Beginning an instruction gives its assignment a context in which it is right.
LEMMA BeginContext ==
    ASSUME Static, NEW g, NEW nd, NEW arr, NEW wr, NEW pa, NEW more, NEW f, NEW rs,
           Starts(global, permanent, g, nd, arr, wr, pa, more, f, rs)
    PROVE  /\ Context(global, permanent, f, rs, Live(nd, arr))
           /\ Stored(global, permanent, g, f) /\ Preserved(global, Slots, g, f)
           /\ \A v \in Reads(rs) : v \in Values /\ v \notin Arriving(arr) /\ (v \in Slots => nd[v] = "used")
           /\ \A v \in rs.memory : v \in Slots /\ f.in_reg[v] = NoReg /\ v \in f.slot[v]
<1> DEFINE form == rs.form
           args == rs.args
<1>0. /\ InBody(global, permanent, g, nd, arr, wr, pa)
      /\ Supplied(global, nd, arr, wr \cup more, pa, form, args, rs.after)
      /\ f = ForceOut(g, form, args) /\ Assigned(global, permanent, f, rs) /\ FromRule(global, f, rs)
  BY DEF Starts
<1>1. /\ GenOK(global, g) /\ Loose(permanent, g) /\ nd \in Needs
      /\ Believed(global, g, nd, Slots \ Arriving(arr), wr)
  BY <1>0 DEF InBody
<1>2. /\ form \in Forms /\ args \in [0 .. 2 -> Values \cup {NoValue}]
      /\ \A j \in 0 .. 2 : (j > 0 \/ form.ternary) /\ args[j] \in Slots => nd[args[j]] = "used"
      /\ \A j \in 0 .. 2 : form.operands[j].kind = "frame" => args[j] \in Slots /\ global[args[j]] = NoReg
      /\ \A j \in 0 .. 2 : args[j] \notin Arriving(arr)
  BY <1>0 DEF Supplied
<1>3. /\ Stored(global, permanent, g, f) /\ Preserved(global, Slots, g, f)
      /\ \A j \in 0 .. 2 : form.operands[j].kind = "frame" =>
            /\ f.in_reg[args[j]] = NoReg
            /\ Right(global, g, args[j]) => args[j] \in f.slot[args[j]]
  <2> HIDE DEF form, args
  <2> QED
    BY <1>0, <1>1, <1>2, ForcedOut
<1>4. GenOK(global, f) /\ Loose(permanent, f)
  BY <1>1, <1>3, StoredLoose DEF Stored
<1>5. ASSUME NEW v \in Reads(rs)
      PROVE  v \in Values /\ v \notin Arriving(arr) /\ (v \in Slots => nd[v] = "used")
  <2>1. PICK i \in Operands(rs) : v = Val(rs, i)
    BY <1>5 DEF Reads
  <2>2. PICK j \in 0 .. 2 : Val(rs, i) = args[j] /\ (j > 0 \/ rs.ternary)
    BY <1>0, <2>1 DEF FromRule
  <2>3. rs.ternary = form.ternary
    BY <1>0 DEF FromRule
  <2>4. v # NoValue
    BY <2>1 DEF Operands, Given, Val
  <2> QED
    BY <1>2, <2>1, <2>2, <2>3, <2>4
<1>6. \A v \in Live(nd, arr) : Right(global, g, v) /\ Right(global, f, v)
  BY <1>1, <1>3 DEF Live, Believed, Preserved
<1>7. \A v \in Reads(rs) \cap Slots : v \in Live(nd, arr)
  BY <1>5 DEF Live
<1>8. \A v \in Reads(rs) \cap Slots : Readable(global, f, v)
  <2> SUFFICES ASSUME NEW v \in Reads(rs) \cap Slots
               PROVE  Readable(global, f, v)
    OBVIOUS
  <2>1. Readable(global, g, v)
    BY <1>1, <1>5 DEF Believed, Readable
  <2> QED
    BY <1>3, <1>6, <1>7, <2>1 DEF Preserved
<1>9. Context(global, permanent, f, rs, Live(nd, arr))
  BY <1>0, <1>4, <1>6, <1>7, <1>8 DEF Context, Live
<1>10. ASSUME NEW v \in rs.memory
       PROVE  v \in Slots /\ f.in_reg[v] = NoReg /\ v \in f.slot[v]
  <2>1. PICK j \in 0 .. 2 : /\ v = args[j]
                            /\ \/ form.operands[j].kind = "frame"
                               \/ form.operands[j].kind = "local" /\ v \in Slots /\ f.in_reg[v] = NoReg /\ global[v] = NoReg
    BY <1>0, <1>10 DEF FromRule
  <2>2. j > 0 \/ form.ternary
    <3> SUFFICES ASSUME j = 0, ~form.ternary
                 PROVE  FALSE
      OBVIOUS
    <3>1. form.operands[0].kind # "frame" /\ form.operands[0].kind \in {"none", "reg"}
      BY <1>2, FormsAssumption DEF FormRight, ResultRight
    <3> QED
      BY <2>1, <3>1
  <2>3. v \in Slots /\ f.in_reg[v] = NoReg /\ global[v] = NoReg
    BY <1>2, <1>3, <2>1
  <2>4. v \in Live(nd, arr)
    BY <1>2, <2>1, <2>2, <2>3 DEF Live
  <2> QED
    BY <1>6, <2>3, <2>4 DEF Right, Home
<1> QED
  BY <1>3, <1>5, <1>9, <1>10

\* The fields of a record.
LEMMA AsgFields ==
    ASSUME NEW rs, IsAsg(rs)
    PROVE  /\ rs.descs \in [0 .. 2 -> Descs] /\ rs.scratch \in Seq(Regs \cup {NoReg})
           /\ rs.ternary \in BOOLEAN /\ rs.free \in BOOLEAN /\ rs.copy \in BOOLEAN /\ rs.commutative \in BOOLEAN
           /\ rs.dest_input \in {0, 1} /\ rs.assigned \in SUBSET Regs /\ rs.clobber \in SUBSET Regs /\ rs.ok \in BOOLEAN
  BY DEF IsAsg, AsgSet

\* A descriptor with a register.
LEMMA DescUpdate ==
    ASSUME NEW d \in Descs, NEW r \in Regs \cup {NoReg}
    PROVE  /\ [d EXCEPT !.reg = r] \in Descs /\ SameDesc(d, [d EXCEPT !.reg = r])
           /\ [d EXCEPT !.reg = r].reg = r /\ [d EXCEPT !.reg = r].duplicate = d.duplicate
           /\ [d EXCEPT !.reg = r, !.duplicate = TRUE] \in Descs
           /\ SameDesc(d, [d EXCEPT !.reg = r, !.duplicate = TRUE])
           /\ [d EXCEPT !.reg = r, !.duplicate = TRUE].reg = r
           /\ [d EXCEPT !.reg = r, !.duplicate = TRUE].duplicate = TRUE
  BY DEF Descs, SameDesc

\* Giving an operand a register.
LEMMA SetRegisterEffect ==
    ASSUME NEW rs, IsAsg(rs), NEW i \in 0 .. 2, NEW r \in Regs,
           NEW h, h = SetRegister(rs, i, r)
    PROVE  Registered(rs, i, r, h)
<1> DEFINE ds == [rs.descs EXCEPT ![i] = [rs.descs[i] EXCEPT !.reg = r]]
           as == IF i > 0 \/ rs.ternary \/ rs.descs[0].early THEN rs.assigned \cup {r} ELSE rs.assigned
<1>1. rs.descs \in [0 .. 2 -> Descs] /\ rs.assigned \in SUBSET Regs
  BY AsgFields
<1>2. r # NoReg
  BY NoRegApart
<1>3. h = [rs EXCEPT !.descs = ds, !.assigned = as]
  BY <1>1, <1>2 DEF SetRegister, IsAsg, AsgSet
<1>4. \A j \in 0 .. 2 : ds[j] = IF j = i THEN [rs.descs[i] EXCEPT !.reg = r] ELSE rs.descs[j]
  BY <1>1
<1>5. rs.descs[i] \in Descs
  BY <1>1
<1> DEFINE d == [rs.descs[i] EXCEPT !.reg = r]
<1>6. d \in Descs /\ SameDesc(rs.descs[i], d) /\ d.reg = r /\ d.duplicate = rs.descs[i].duplicate
  BY <1>5, DescUpdate
<1>7. ds \in [0 .. 2 -> Descs] /\ as \in SUBSET Regs
  BY <1>1, <1>6
<1>8. \A j \in 0 .. 2 : ds[j] = IF j = i THEN d ELSE rs.descs[j]
  BY <1>4
<1> HIDE DEF d, ds, as
<1>9. IsAsg(h) /\ h.descs = ds /\ h.assigned = as /\ SameRest(rs, h) /\ h.dest_input = rs.dest_input
  BY <1>3, <1>7, ZenonT(60) DEF IsAsg, AsgSet, SameRest
<1>10. \A j \in 0 .. 2 : SameDesc(rs.descs[j], h.descs[j])
  BY <1>6, <1>8, <1>9 DEF SameDesc
<1>11. \A j \in 0 .. 2 : /\ h.descs[j].reg = IF j = i THEN r ELSE rs.descs[j].reg
                         /\ h.descs[j].duplicate = rs.descs[j].duplicate
  BY <1>6, <1>8, <1>9, SMTT(60)
<1> QED
  BY <1>9, <1>10, <1>11 DEF SameBut, Registered, as

\* check_duplicate_value, when it finds a duplicate.
LEMMA ShareEffect ==
    ASSUME NEW rs, IsAsg(rs), NEW i \in 0 .. 2, NEW j \in 0 .. 2
    PROVE  LET h == [rs EXCEPT !.descs[j].reg = rs.descs[i].reg, !.descs[j].duplicate = TRUE]
           IN /\ IsAsg(h) /\ SameBut(rs, h) /\ h.assigned = rs.assigned
              /\ \A k \in 0 .. 2 : /\ h.descs[k].reg = IF k = j THEN rs.descs[i].reg ELSE rs.descs[k].reg
                                   /\ h.descs[k].duplicate = (k = j \/ rs.descs[k].duplicate)
<1> DEFINE h == [rs EXCEPT !.descs[j].reg = rs.descs[i].reg, !.descs[j].duplicate = TRUE]
           r == rs.descs[i].reg
           d == [rs.descs[j] EXCEPT !.reg = r, !.duplicate = TRUE]
           ds == [rs.descs EXCEPT ![j] = d]
<1>1. rs.descs \in [0 .. 2 -> Descs]
  BY AsgFields
<1>2. rs.descs[j] \in Descs /\ r \in Regs \cup {NoReg}
  BY <1>1, DescFields
<1>3. h = [rs EXCEPT !.descs = ds]
  BY <1>1, <1>2, ZenonT(60) DEF IsAsg, AsgSet, Descs
<1>6. d \in Descs /\ SameDesc(rs.descs[j], d) /\ d.reg = r /\ d.duplicate = TRUE
  <2> HIDE DEF r
  <2> QED
    BY <1>2, DescUpdate
<1>8. \A k \in 0 .. 2 : ds[k] = IF k = j THEN d ELSE rs.descs[k]
  BY <1>1
<1>7. ds \in [0 .. 2 -> Descs]
  BY <1>1, <1>6
<1> HIDE DEF d, ds, h
<1>9. IsAsg(h) /\ h.descs = ds /\ h.assigned = rs.assigned /\ SameRest(rs, h) /\ h.dest_input = rs.dest_input
  BY <1>3, <1>7 DEF IsAsg, AsgSet, SameRest
<1>10. \A k \in 0 .. 2 : SameDesc(rs.descs[k], h.descs[k])
  BY <1>6, <1>8, <1>9 DEF SameDesc
<1>11. \A k \in 0 .. 2 : /\ h.descs[k].reg = IF k = j THEN r ELSE rs.descs[k].reg
                         /\ h.descs[k].duplicate = (k = j \/ rs.descs[k].duplicate)
  <2>1. \A k \in 0 .. 2 : rs.descs[k].duplicate \in BOOLEAN
    BY <1>1, DescFields
  <2> QED
    BY <1>6, <1>8, <1>9, <2>1
<1> QED
  BY <1>9, <1>10, <1>11 DEF SameBut, h

\* Among natural numbers one is the least.
LEMMA LeastNatural ==
    ASSUME NEW T, T \subseteq Nat, T # {}
    PROVE  \E x \in T : \A y \in T : x <= y
<1>1. IsWellFoundedOn(OpToRel(<, Nat), Nat)
  BY NatLessThanWellFounded
<1>2. PICK x \in T : \A y \in T : ~ (<<y, x>> \in OpToRel(<, Nat))
  <2> DEFINE R == OpToRel(<, Nat)
  <2> HIDE DEF R
  <2>1. IsWellFoundedOn(R, Nat)
    BY <1>1 DEF R
  <2>2. \E x \in T : \A y \in T : ~ (<<y, x>> \in R)
    BY <2>1, WFMin
  <2> QED
    BY <2>2 DEF R
<1>3. ASSUME NEW y \in T
      PROVE  x <= y
  <2>1. x \in Nat /\ y \in Nat
    BY <1>2
  <2>2. ~(y < x)
    BY <1>2, <2>1 DEF OpToRel
  <2> QED
    BY <2>1, <2>2
<1> QED
  BY <1>2, <1>3

\* The register that is chosen is one the loop allowed.
LEMMA CheapestRight ==
    ASSUME NEW g \in Gens, NEW class \in Seq(Regs), NEW costs
    PROVE  Cheapest(g, class, costs) = NoReg \/ Cheap(class, costs, Cheapest(g, class, costs))
<1> DEFINE r == Cheapest(g, class, costs)
           usable == {k \in DOMAIN class : costs[class[k]] \in 0 .. TooMuch - 1}
           least  == {k \in usable : \A j \in usable : costs[class[k]] <= costs[class[j]]}
           at     == CHOOSE k \in least : \A j \in least : k <= j
           first  == class[at]
           older  == {q \in {class[k] : k \in least} : g.contents[q] # {} /\ g.age[q] < g.age[first]}
<1>1. r = CASE least = {} -> NoReg
            [] least # {} /\ older = {} -> first
            [] OTHER -> CHOOSE q \in older : \A p \in older : g.age[q] <= g.age[p]
  BY DEF Cheapest
<1>2. \A k \in DOMAIN class : k \in Nat /\ class[k] \in Regs
  OBVIOUS
<1> HIDE DEF r
<1>3. CASE least = {}
  <2>1. r = NoReg
    BY <1>1, <1>3, ZenonT(60)
  <2> QED
    BY <2>1, SMTT(60) DEF r
<1>4. CASE least # {}
  <2>1. least \subseteq Nat
    BY <1>2
  <2>2. at \in least
    <3> HIDE DEF least
    <3>1. \E k \in least : \A j \in least : k <= j
      BY <1>4, <2>1, LeastNatural
    <3> QED
      BY <3>1
  <2>3. \E k \in least : r = class[k]
    <3>1. CASE older = {}
      <4> HIDE DEF at, least, older
      <4>1. r = first
        BY <1>1, <1>4, <3>1
      <4> QED
        BY <2>2, <4>1
    <3>2. CASE older # {}
      <4> DEFINE ages == {g.age[q] : q \in older}
      <4>1. \A q \in older : q \in Regs /\ g.age[q] \in Nat /\ \E k \in least : q = class[k]
        BY <1>2, GenFields
      <4>2. r = CHOOSE q \in older : \A p \in older : g.age[q] <= g.age[p]
        <5> HIDE DEF least, older, at
        <5> QED
          BY <1>1, <1>4, <3>2
      <4> HIDE DEF older, least
      <4>3. ages \subseteq Nat /\ ages # {}
        BY <3>2, <4>1
      <4>4. \E a \in ages : \A b \in ages : a <= b
        <5> HIDE DEF ages
        <5> QED
          BY <4>3, LeastNatural
      <4>5. \E q \in older : \A p \in older : g.age[q] <= g.age[p]
        BY <4>4
      <4>6. r \in older
        BY <4>2, <4>5
      <4> QED
        BY <4>1, <4>6
    <3> QED
      BY <3>1, <3>2
  <2>4. Cheap(class, costs, r)
    <3>1. PICK k \in least : r = class[k]
      BY <2>3
    <3> QED
      BY <3>1 DEF Cheap
  <2> QED
    BY <2>4 DEF r
<1> QED
  BY <1>3, <1>4

\* The record of InitRegs is such a record.
LEMMA ExactlyIs ==
    ASSUME NEW form, NEW args, NEW after, NEW ds, NEW sc, NEW as, NEW cl, NEW mem
    PROVE  [descs |-> ds, scratch |-> sc, ternary |-> form.ternary, free |-> form.free, copy |-> form.copy,
            commutative |-> form.commutative, dest_input |-> 0, assigned |-> as, clobber |-> cl, ok |-> TRUE,
            form |-> form, args |-> args, after |-> after, memory |-> mem]
           \in Exactly(form, args, after, ds, sc, as, cl, mem)
  BY DEF Exactly
\* The scratch registers get theirs.
LEMMA ExactlyScratch ==
    ASSUME NEW form, NEW args, NEW after, NEW ds, NEW sc, NEW as, NEW cl, NEW mem, NEW scratch,
           NEW h, h \in Exactly(form, args, after, ds, sc, as, cl, mem)
    PROVE  [h EXCEPT !.scratch = scratch] \in Exactly(form, args, after, ds, scratch, as, cl, mem)
  BY DEF Exactly
\* Other registers are clobbered.
LEMMA ExactlyClobber ==
    ASSUME NEW form, NEW args, NEW after, NEW ds, NEW sc, NEW as, NEW cl, NEW mem, NEW more,
           NEW h, h \in Exactly(form, args, after, ds, sc, as, cl, mem)
    PROVE  [h EXCEPT !.clobber = more] \in Exactly(form, args, after, ds, sc, as, more, mem)
  BY DEF Exactly
\* Registers are taken.
LEMMA ExactlyTaken ==
    ASSUME NEW form, NEW args, NEW after, NEW ds, NEW sc, NEW as, NEW cl, NEW mem, NEW more, NEW most,
           NEW h, h \in Exactly(form, args, after, ds, sc, as, cl, mem)
    PROVE  [h EXCEPT !.assigned = more, !.clobber = most] \in Exactly(form, args, after, ds, sc, more, most, mem)
  BY DEF Exactly
\* The fields of such a record.
LEMMA ExactlyFields ==
    ASSUME NEW form, NEW args, NEW after, NEW ds, NEW sc, NEW as, NEW cl, NEW mem,
           NEW h, h \in Exactly(form, args, after, ds, sc, as, cl, mem)
    PROVE  /\ h.descs = ds /\ h.scratch = sc /\ h.ternary = form.ternary /\ h.free = form.free /\ h.copy = form.copy
           /\ h.commutative = form.commutative /\ h.dest_input = 0 /\ h.assigned = as /\ h.clobber = cl /\ h.ok = TRUE
           /\ h.form = form /\ h.args = args /\ h.after = after /\ h.memory = mem
  BY DEF Exactly

\* One operand gets a register.
LEMMA ExactlyReg ==
    ASSUME NEW form, NEW args, NEW after, NEW ds, NEW sc, NEW as, NEW cl, NEW mem, NEW i, NEW p,
           NEW h, h \in Exactly(form, args, after, ds, sc, as, cl, mem)
    PROVE  [h EXCEPT !.descs[i].reg = p] \in Exactly(form, args, after, [ds EXCEPT ![i].reg = p], sc, as, cl, mem)
<1>1. h.descs = ds
  BY DEF Exactly
<1> DEFINE ns == [ds EXCEPT ![i].reg = p]
<1>2. [h EXCEPT !.descs[i].reg = p] = [h EXCEPT !.descs = ns]
  BY <1>1
<1> HIDE DEF ns
<1> QED
  BY <1>2 DEF Exactly
\* Three operands and the scratch registers get theirs one after the other.
LEMMA PinThree ==
    ASSUME NEW h, NEW p0, NEW p1, NEW p2, NEW sc
    PROVE  [h EXCEPT !.descs[0].reg = p0, !.descs[1].reg = p1, !.descs[2].reg = p2, !.scratch = sc]
           = [[[[h EXCEPT !.descs[0].reg = p0] EXCEPT !.descs[1].reg = p1] EXCEPT !.descs[2].reg = p2] EXCEPT !.scratch = sc]
  OBVIOUS

\* ... are the same.
LEMMA PinDescs ==
    ASSUME NEW ds, NEW p0, NEW p1, NEW p2, Three(ds)
    PROVE  InTurn(ds, p0, p1, p2) = AtOnce(ds, p0, p1, p2)
<1>0. DOMAIN ds = 0 .. 2 /\ ds = [i \in 0 .. 2 |-> ds[i]]
  BY DEF Three
<1> DEFINE r(i) == IF i = 0 THEN p0 ELSE IF i = 1 THEN p1 ELSE p2
           n0 == [ds[0] EXCEPT !.reg = p0]
           n1 == [ds[1] EXCEPT !.reg = p1]
           n2 == [ds[2] EXCEPT !.reg = p2]
           e == [[[ds EXCEPT ![0] = n0] EXCEPT ![1] = n1] EXCEPT ![2] = n2]
           s1 == [ds EXCEPT ![0].reg = p0]
           s2 == [s1 EXCEPT ![1].reg = p1]
           s3 == [s2 EXCEPT ![2].reg = p2]
           rs == [i \in 0 .. 2 |-> [ds[i] EXCEPT !.reg = r(i)]]
<1>1. s1 = [ds EXCEPT ![0] = n0]
  BY <1>0
<1>2. s1[1] = ds[1] /\ s1[2] = ds[2]
  <2> HIDE DEF n0
  <2> QED
    BY <1>0, <1>1, SMT
<1>3. s2 = [s1 EXCEPT ![1] = n1]
  <2> HIDE DEF s1
  <2> QED
    BY <1>2
<1>4. s2[2] = ds[2]
  <2> HIDE DEF n1, s1, s2
  <2> QED
    BY <1>2, <1>3, SMT
<1>5. s3 = [s2 EXCEPT ![2] = n2]
  <2> HIDE DEF s2, s1
  <2> QED
    BY <1>4
<1>6. s3 = e
  <2> HIDE DEF n0, n1, n2, s1, s2, s3
  <2> QED
    BY <1>1, <1>3, <1>5
<1>7. e = [i \in 0 .. 2 |-> IF i = 0 THEN n0 ELSE IF i = 1 THEN n1 ELSE n2]
  <2> HIDE DEF n0, n1, n2
  <2> QED
    BY <1>0, SMT
<1>8. \A i \in 0 .. 2 : rs[i] = IF i = 0 THEN n0 ELSE IF i = 1 THEN n1 ELSE n2
  OBVIOUS
<1>9. e = rs
  <2>1. rs = [i \in 0 .. 2 |-> rs[i]]
    OBVIOUS
  <2> HIDE DEF n0, n1, n2, e, rs
  <2> QED
    BY <1>7, <1>8, <2>1
<1>10. s3 = rs
  BY <1>6, <1>9
<1>11. InTurn(ds, p0, p1, p2) = s3
  BY DEF InTurn
<1>12. AtOnce(ds, p0, p1, p2) = rs
  BY DEF AtOnce
<1> HIDE DEF s3, rs
<1> QED
  BY <1>10, <1>11, <1>12
\* The calls before _jit_regs_begin.
LEMMA DescribeEffect ==
    ASSUME NEW f, NEW form, NEW args, NEW after
    PROVE  LET h == Describe(f, form, args, after)
               named == {form.clobbers[k] : k \in {j \in DOMAIN form.clobbers : j - 1 \notin permanent}}
           IN /\ h \in Exactly(form, args, after, h.descs, [k \in DOMAIN form.scratch |-> form.scratch[k].fixed],
                               (f.inhibit \cup Taken(f, form, args, after)) \cup Fixed(form),
                               (Fixed(form) \cup named) \cup (IF form.branch THEN Regs \ permanent ELSE {}),
                               Framed(f, form, args, after))
              /\ DOMAIN h.descs = 0 .. 2 /\ h.descs = [i \in 0 .. 2 |-> h.descs[i]]
              /\ \A i \in 0 .. 2 : h.descs[i] \in Pinned(f, form, args, after, i)
<1> DEFINE init == InitRegs(f, form, args, after)
           ds == [i \in 0 .. 2 |-> InitDesc(f, form, args, after, i)]
           s0 == [k \in DOMAIN form.scratch |-> NoReg]
           mem == Framed(f, form, args, after)
           Pin(i) == IF i \in Given(init) THEN form.operands[i].fixed ELSE NoReg
           p0 == Pin(0)
           p1 == Pin(1)
           p2 == Pin(2)
           pins == [i \in 0 .. 2 |-> [ds[i] EXCEPT !.reg = IF i = 0 THEN p0 ELSE IF i = 1 THEN p1 ELSE p2]]
           sc == [k \in DOMAIN form.scratch |-> form.scratch[k].fixed]
           pinned == [init EXCEPT !.descs[0].reg = p0, !.descs[1].reg = p1, !.descs[2].reg = p2, !.scratch = sc]
           inputs  == {i \in Given(init) : i > 0 \/ form.ternary \/ form.operands[0].clobber = "early"}
           taken   == {form.operands[i].fixed : i \in inputs} \ {NoReg}
           scratch == ToSet(pinned.scratch) \ {NoReg}
           ready == [pinned EXCEPT !.assigned = @ \cup taken \cup scratch, !.clobber = scratch]
           class   == ClobberClass(ready, form.clobbers)
           fixed == Fixed(form)
           named == {form.clobbers[k] : k \in {j \in DOMAIN form.clobbers : j - 1 \notin permanent}}
           inh == f.inhibit
           none == {}
           h == Describe(f, form, args, after)
<1>1. h = IF form.branch THEN ClobberAll(class) ELSE class
  BY DEF Describe
<1>2. init = [descs |-> ds, scratch |-> s0,
              ternary |-> form.ternary, free |-> form.free, copy |-> form.copy,
              commutative |-> form.commutative, dest_input |-> 0, assigned |-> inh,
              clobber |-> none, ok |-> TRUE, form |-> form, args |-> args, after |-> after, memory |-> mem]
  BY DEF InitRegs, Inhibited, Framed
<1>3. init \in Exactly(form, args, after, ds, s0, inh, none, mem)
  <2> HIDE DEF ds, s0, inh, none, mem, init
  <2>1. [descs |-> ds, scratch |-> s0,
              ternary |-> form.ternary, free |-> form.free, copy |-> form.copy,
              commutative |-> form.commutative, dest_input |-> 0, assigned |-> inh,
              clobber |-> none, ok |-> TRUE, form |-> form, args |-> args, after |-> after, memory |-> mem]
        \in Exactly(form, args, after, ds, s0, inh, none, mem)
    BY ExactlyIs
  <2> QED
    BY <1>2, <2>1
<1>4. init.descs = ds
  BY <1>2
<1>5. \A i \in 0 .. 2 : ds[i].value = InitValue(f, form, args, after, i)
  BY DEF InitDesc, InitValue
<1>6. Given(init) = {i \in 0 .. 2 : InitValue(f, form, args, after, i) # NoValue}
  BY <1>4, <1>5 DEF Given
<1>7. taken = Taken(f, form, args, after)
  <2>1. inputs = {j \in 0 .. 2 : /\ InitValue(f, form, args, after, j) # NoValue
                                 /\ j > 0 \/ form.ternary \/ form.operands[0].clobber = "early"}
    BY <1>6
  <2> HIDE DEF inputs
  <2> QED
    BY <2>1 DEF Taken
<1> HIDE DEF init
<1>8. ASSUME NEW i \in 0 .. 2
      PROVE  pins[i] \in Pinned(f, form, args, after, i)
  <2> DEFINE v == InitValue(f, form, args, after, i)
             d == ds[i]
  <2>1. d \in [value : {v}, class : {form.operands[i].class}, reg : {NoReg},
               live : {IsLive(after, v)}, used : {IsUsed(after, v)},
               clobber : {form.operands[i].clobber # "no"}, early : {form.operands[i].clobber = "early"},
               duplicate : {FALSE}, thrash : {FALSE}, store : {FALSE}, copy : {FALSE}, kill : {FALSE}]
    BY DEF InitDesc, InitValue, IsLive, IsUsed
  <2> DEFINE r == IF v # NoValue THEN form.operands[i].fixed ELSE NoReg
  <2>2. pins[i] = [d EXCEPT !.reg = r]
    <3>1. r = Pin(i)
      BY <1>6
    <3>2. r = IF i = 0 THEN p0 ELSE IF i = 1 THEN p1 ELSE p2
      <4>1. i = 0 \/ i = 1 \/ i = 2
        BY SMT
      <4> HIDE DEF r, Pin
      <4> QED
        BY <3>1, <4>1
    <3> HIDE DEF ds, r, p0, p1, p2
    <3> QED
      BY <3>2
  <2> DEFINE p == pins[i]
             live == IsLive(after, v)
             used == IsUsed(after, v)
             clobber == form.operands[i].clobber # "no"
             early == form.operands[i].clobber = "early"
  <2>3. p \in [value : {v}, class : {form.operands[i].class}, reg : {IF v # NoValue THEN form.operands[i].fixed ELSE NoReg},
               live : {live}, used : {used}, clobber : {clobber}, early : {early},
               duplicate : {FALSE}, thrash : {FALSE}, store : {FALSE}, copy : {FALSE}, kill : {FALSE}]
    <3>1. r = IF v # NoValue THEN form.operands[i].fixed ELSE NoReg
      OBVIOUS
    <3>2. p = [d EXCEPT !.reg = r]
      BY <2>2
    <3> HIDE DEF d, p, v, r, live, used, clobber, early
    <3> QED
      BY <2>1, <3>1, <3>2, ZenonT(60) DEF live, used, clobber, early
  <2> HIDE DEF pins, ds
  <2> QED
    BY <2>3 DEF Pinned
<1>9. pinned \in Exactly(form, args, after, pins, sc, inh, none, mem)
  <2> DEFINE d1 == [ds EXCEPT ![0].reg = p0]
             d2 == [d1 EXCEPT ![1].reg = p1]
             d3 == [d2 EXCEPT ![2].reg = p2]
             i1 == [init EXCEPT !.descs[0].reg = p0]
             i2 == [i1 EXCEPT !.descs[1].reg = p1]
             i3 == [i2 EXCEPT !.descs[2].reg = p2]
  <2>1. pinned = [i3 EXCEPT !.scratch = sc]
    <3> HIDE DEF p0, p1, p2, sc
    <3> QED
      BY PinThree
  <2>2. d3 = pins
    <3>1. Three(ds)
      BY DEF Three
    <3>2. d3 = InTurn(ds, p0, p1, p2)
      <4> HIDE DEF ds, p0, p1, p2
      <4> QED
        BY DEF InTurn
    <3>3. pins = AtOnce(ds, p0, p1, p2)
      <4> HIDE DEF ds, p0, p1, p2
      <4> QED
        BY DEF AtOnce
    <3> HIDE DEF d3, pins, ds, p0, p1, p2
    <3> QED
      BY <3>1, <3>2, <3>3, PinDescs
  <2> HIDE DEF ds, s0, inh, none, mem, pins, sc, p0, p1, p2, pinned
  <2>3. i1 \in Exactly(form, args, after, d1, s0, inh, none, mem)
    <3> HIDE DEF d1, i1
    <3> QED
      BY <1>3, ExactlyReg DEF d1, i1
  <2> HIDE DEF d1, i1
  <2>4. i2 \in Exactly(form, args, after, d2, s0, inh, none, mem)
    BY <2>3, ExactlyReg
  <2> HIDE DEF d2, i2
  <2>5. i3 \in Exactly(form, args, after, d3, s0, inh, none, mem)
    BY <2>4, ExactlyReg
  <2> HIDE DEF d3, i3
  <2>6. i3 \in Exactly(form, args, after, pins, s0, inh, none, mem)
    BY <2>2, <2>5
  <2>7. [i3 EXCEPT !.scratch = sc] \in Exactly(form, args, after, pins, sc, inh, none, mem)
    BY <2>6, ExactlyScratch
  <2> QED
    BY <2>1, <2>7
<1>10. scratch = fixed
  <2>1. pinned.scratch = sc
    <3> HIDE DEF inh, none, mem, pins, sc, pinned
    <3> QED
      BY <1>9 DEF Exactly
  <2>2. ToSet(sc) = {form.scratch[k].fixed : k \in DOMAIN form.scratch}
    BY DEF ToSet
  <2> HIDE DEF pinned
  <2> QED
    BY <2>1, <2>2 DEF Fixed
<1>11. pinned.assigned = inh
  <2> HIDE DEF inh, none, mem, pins, sc, pinned
  <2> QED
    BY <1>9 DEF Exactly
<1> DEFINE all == (inh \cup taken) \cup fixed
<1>12. ready = [pinned EXCEPT !.assigned = all, !.clobber = fixed]
  <2> HIDE DEF inh, taken, pinned, scratch, fixed
  <2> QED
    BY <1>10, <1>11
<1>13. ready \in Exactly(form, args, after, pins, sc, all, fixed, mem)
  <2> HIDE DEF inh, none, mem, pins, sc, pinned, all, fixed, ready
  <2> QED
    BY <1>9, <1>12, ExactlyTaken
<1> DEFINE cl == fixed \cup named
<1>14. class \in Exactly(form, args, after, pins, sc, all, cl, mem)
  <2> HIDE DEF mem, pins, sc, all, fixed, ready, named
  <2>1. ready.clobber = fixed
    BY <1>13 DEF Exactly
  <2>2. class = [ready EXCEPT !.clobber = cl]
    BY <2>1 DEF ClobberClass, named
  <2> HIDE DEF cl, class
  <2> QED
    BY <1>13, <2>2, ExactlyClobber
<1> DEFINE rest == IF form.branch THEN Regs \ permanent ELSE {}
           most == cl \cup rest
<1>15. h \in Exactly(form, args, after, pins, sc, all, most, mem)
  <2> HIDE DEF mem, pins, sc, all, class, cl, h
  <2>1. class.clobber = cl
    BY <1>14 DEF Exactly
  <2>2. CASE form.branch
    <3>1. h = [class EXCEPT !.clobber = most]
      BY <1>1, <2>1, <2>2 DEF ClobberAll
    <3> HIDE DEF most
    <3> QED
      BY <1>14, <3>1, ExactlyClobber
  <2>3. CASE ~form.branch
    <3>1. most = cl /\ h = class
      BY <1>1, <2>3
    <3> QED
      BY <1>14, <3>1
  <2> QED
    BY <2>2, <2>3
<1>16. h.descs = pins
  <2> HIDE DEF mem, pins, sc, all, most, h
  <2> QED
    BY <1>15 DEF Exactly
<1>17. DOMAIN pins = 0 .. 2 /\ pins = [i \in 0 .. 2 |-> pins[i]]
  OBVIOUS
<1> HIDE DEF pins
<1>18. h \in Exactly(form, args, after, h.descs, sc, all, most, mem)
  <2> HIDE DEF mem, sc, all, most, h
  <2> QED
    BY <1>15, <1>16
<1>19. all = (f.inhibit \cup Taken(f, form, args, after)) \cup Fixed(form) /\ most = (Fixed(form) \cup named) \cup rest
  BY <1>7
<1> HIDE DEF all, most, h
<1> QED
  BY <1>8, <1>16, <1>17, <1>18, <1>19 DEF h

\* Other registers change neither the operands nor their values.
LEMMA SameSets ==
    ASSUME NEW a, NEW b, SameBut(a, b)
    PROVE  /\ Given(b) = Given(a) /\ Inputs(b) = Inputs(a) /\ Operands(b) = Operands(a) /\ Output(b) = Output(a)
           /\ Dest(b) = Dest(a) /\ \A i \in 0 .. 2 : Val(b, i) = Val(a, i)
<1>1. \A i \in 0 .. 2 : b.descs[i].value = a.descs[i].value
  BY DEF SameBut, SameDesc
<1>2. b.ternary = a.ternary
  BY DEF SameBut, SameRest
<1>3. Given(b) = Given(a) /\ Inputs(b) = Inputs(a)
  BY <1>1, <1>2 DEF Given, Inputs
<1> QED
  BY <1>1, <1>2, <1>3 DEF Operands, Output, Dest, Val

\* ... and the record describes the same instruction.
LEMMA OriginSame ==
    ASSUME NEW g, NEW a, NEW b, Origin(g, a), IsAsg(b), SameBut(a, b)
    PROVE  Origin(g, b)
<1>1. /\ Given(b) = Given(a) /\ Operands(b) = Operands(a) /\ Output(b) = Output(a)
      /\ \A i \in 0 .. 2 : Val(b, i) = Val(a, i)
  BY SameSets
<1>2. SameRest(a, b) /\ \A i \in 0 .. 2 : SameDesc(a.descs[i], b.descs[i])
  BY DEF SameBut
<1>3. FromForm(b)
  BY <1>2 DEF Origin, FromForm, SameRest
<1>4. \A i \in Operands(a) : i \in 0 .. 2
  BY SMTT(60) DEF Operands, Given
<1>5. FromArgs(g, b)
  <2>1. FromArgs(g, a)
    BY SMTT(60) DEF Origin
  <2>2. \A i \in 0 .. 2 : /\ b.descs[i].live <=> IsLive(b.after, b.descs[i].value)
                          /\ b.descs[i].used <=> IsUsed(b.after, b.descs[i].value)
                          /\ ~b.descs[i].thrash /\ ~b.descs[i].store /\ ~b.descs[i].copy /\ ~b.descs[i].kill
    BY <1>2, <2>1 DEF FromArgs, SameRest, SameDesc
  <2>3. \A i \in Operands(b) : \E j \in 0 .. 2 : /\ Val(b, i) = b.args[j] /\ (j > 0 \/ b.ternary)
                                                /\ b.form.operands[j].kind \in {"reg", "local"}
    BY <1>1, <1>2, <1>4, <2>1 DEF FromArgs, SameRest
  <2> QED
    BY <1>1, <1>2, <2>1, <2>2, <2>3 DEF FromArgs, SameRest
<1>6. Operated(g, b)
  <2>1. Operated(g, a)
    BY DEF Origin
  <2> QED
    BY <1>1, <1>2, <1>4, <2>1 DEF Operated, SameRest, SameDesc
<1> QED
  BY <1>3, <1>5, <1>6 DEF Origin

\* What is known of a form.
LEMMA FormFacts ==
    ASSUME NEW form \in Forms
    PROVE  /\ form.ternary \in BOOLEAN /\ form.free \in BOOLEAN /\ form.copy \in BOOLEAN
           /\ form.commutative \in BOOLEAN /\ form.branch \in BOOLEAN
           /\ \A i \in 0 .. 2 : OperandRight(form.operands[i])
           /\ InputsRight(form) /\ ScratchRight(form) /\ (~form.ternary => ResultRight(form))
           /\ form.ternary => ~form.copy /\ ~form.commutative
           /\ form.operands[0].kind # "frame"
           /\ form.name = "incoming" => /\ ~form.ternary /\ ~form.branch /\ Plain(form)
                                        /\ form.operands[0].kind = "none" /\ form.operands[2].kind = "none"
                                        /\ form.operands[1].kind = "reg" /\ Untied(form.operands[1])
                                        /\ ToSet(form.operands[1].class) = Regs
           /\ form.name = "set_param" => /\ ~form.ternary /\ Plain(form) /\ form.operands[0].kind = "none"
                                         /\ Untied(form.operands[1]) /\ Untied(form.operands[2])
  BY FormsAssumption DEF FormRight

\* The value of an operand.
LEMMA InitFacts ==
    ASSUME NEW f, NEW form, NEW args, NEW after, Asked(global, permanent, f, form, args, after), NEW i \in 0 .. 2
    PROVE  LET v == InitValue(f, form, args, after, i)
           IN /\ v \in Values \cup {NoValue}
              /\ v # NoValue => v = args[i] /\ form.operands[i].kind \in {"reg", "local"}
              /\ form.operands[i].kind = "reg" => v = args[i]
<1>1. args[i] \in Values \cup {NoValue}
  BY DEF Asked
<1> QED
  BY <1>1 DEF InitValue, InRegister

\* The fields of a pinned operand.
LEMMA PinnedFields ==
    ASSUME NEW f, NEW form, NEW args, NEW after, NEW i, NEW d, d \in Pinned(f, form, args, after, i)
    PROVE  LET v == InitValue(f, form, args, after, i)
           IN /\ d.value = v /\ d.class = form.operands[i].class
              /\ d.reg = (IF v # NoValue THEN form.operands[i].fixed ELSE NoReg)
              /\ d.live = IsLive(after, v) /\ d.used = IsUsed(after, v)
              /\ d.clobber = (form.operands[i].clobber # "no") /\ d.early = (form.operands[i].clobber = "early")
              /\ d.duplicate = FALSE /\ d.thrash = FALSE /\ d.store = FALSE /\ d.copy = FALSE /\ d.kill = FALSE
  BY DEF Pinned

\* A pinned operand is an operand.
LEMMA PinnedType ==
    ASSUME NEW f, NEW form, NEW args, NEW after, NEW i, NEW d, d \in Pinned(f, form, args, after, i),
           InitValue(f, form, args, after, i) \in Values \cup {NoValue}, OperandRight(form.operands[i])
    PROVE  d \in Descs
<1> DEFINE v == InitValue(f, form, args, after, i)
           c == form.operands[i].class
           r == IF v # NoValue THEN form.operands[i].fixed ELSE NoReg
           l == IsLive(after, v)
           u == IsUsed(after, v)
           k == form.operands[i].clobber # "no"
           e == form.operands[i].clobber = "early"
<1>1. c \in Seq(Regs) /\ r \in Regs \cup {NoReg}
  BY RegAllocAssumption DEF OperandRight
<1>2. l \in BOOLEAN /\ u \in BOOLEAN /\ k \in BOOLEAN /\ e \in BOOLEAN
  BY DEF IsLive, IsUsed
<1>3. d \in [value : {v}, class : {c}, reg : {r}, live : {l}, used : {u}, clobber : {k}, early : {e},
             duplicate : {FALSE}, thrash : {FALSE}, store : {FALSE}, copy : {FALSE}, kill : {FALSE}]
  BY DEF Pinned
<1> HIDE DEF v, c, r, l, u, k, e
<1>4. v \in Values \cup {NoValue}
  BY DEF v
<1> QED
  BY <1>1, <1>2, <1>3, <1>4 DEF Descs

\* The registers that the rule names.
LEMMA NamedRegisters ==
    ASSUME NEW form \in Forms
    PROVE  /\ \A k \in DOMAIN form.clobbers : form.clobbers[k] \in CallUsed
           /\ \A k \in DOMAIN form.scratch : form.scratch[k].fixed \in CallUsed \cup {NoReg}
           /\ DOMAIN form.scratch = 1 .. Len(form.scratch) /\ Len(form.scratch) \in Nat
           /\ Fixed(form) \subseteq CallUsed
<1> DEFINE S == [class : Seq(Regs), fixed : CallUsed \cup {NoReg}]
<1>1. form.clobbers \in Seq(CallUsed) /\ form.scratch \in Seq(S)
  BY FormFacts DEF ScratchRight
<1>2. \A k \in DOMAIN form.clobbers : form.clobbers[k] \in CallUsed
  BY <1>1
<1>3. \A x \in S : x.fixed \in CallUsed \cup {NoReg}
  OBVIOUS
<1> HIDE DEF S
<1>4. \A k \in DOMAIN form.scratch : form.scratch[k] \in S
  BY <1>1
<1>5. DOMAIN form.scratch = 1 .. Len(form.scratch) /\ Len(form.scratch) \in Nat
  BY <1>1
<1> QED
  BY <1>2, <1>3, <1>4, <1>5 DEF Fixed

\* The fields of the record with which the assignment begins.
LEMMA DescribeFields ==
    ASSUME NEW f, NEW form, NEW args, NEW after
    PROVE  Described(permanent, f, form, args, after, Describe(f, form, args, after))
<1> DEFINE h == Describe(f, form, args, after)
           ds == h.descs
           named == {form.clobbers[k] : k \in {j \in DOMAIN form.clobbers : j - 1 \notin permanent}}
           sc == [k \in DOMAIN form.scratch |-> form.scratch[k].fixed]
           as == (f.inhibit \cup Taken(f, form, args, after)) \cup Fixed(form)
           cl == (Fixed(form) \cup named) \cup (IF form.branch THEN Regs \ permanent ELSE {})
           mem == Framed(f, form, args, after)
<1>1. /\ h \in Exactly(form, args, after, ds, sc, as, cl, mem)
      /\ DOMAIN h.descs = 0 .. 2 /\ h.descs = [i \in 0 .. 2 |-> h.descs[i]]
      /\ \A i \in 0 .. 2 : h.descs[i] \in Pinned(f, form, args, after, i)
  BY DescribeEffect
<1> HIDE DEF h, ds, sc, as, cl, mem
<1>2. /\ h.scratch = sc /\ h.ternary = form.ternary /\ h.free = form.free /\ h.copy = form.copy
      /\ h.commutative = form.commutative /\ h.dest_input = 0 /\ h.assigned = as /\ h.clobber = cl /\ h.ok = TRUE
      /\ h.form = form /\ h.args = args /\ h.after = after /\ h.memory = mem
  BY <1>1 DEF Exactly
<1>3. Described(permanent, f, form, args, after, h)
  BY <1>1, <1>2 DEF Described, sc, as, cl, mem
<1> QED
  BY <1>3 DEF h

\* The record with which the assignment begins has its type.
LEMMA DescribeType ==
    ASSUME NEW f, NEW form, NEW args, NEW after, Asked(global, permanent, f, form, args, after),
           NEW h, h = Describe(f, form, args, after)
    PROVE  IsAsg(h) /\ \A i \in 0 .. 2 : h.descs[i] \in Descs
<1> DEFINE named == {form.clobbers[k] : k \in {j \in DOMAIN form.clobbers : j - 1 \notin permanent}}
           ds == h.descs
           sc == [k \in DOMAIN form.scratch |-> form.scratch[k].fixed]
           as == (f.inhibit \cup Taken(f, form, args, after)) \cup Fixed(form)
           cl == (Fixed(form) \cup named) \cup (IF form.branch THEN Regs \ permanent ELSE {})
           mem == Framed(f, form, args, after)
<1>1. form \in Forms /\ f.inhibit \subseteq Regs
  BY GenFields DEF Asked, GenOK
<1>2. \A i \in 0 .. 2 : OperandRight(form.operands[i])
  BY <1>1, FormFacts
<1>3. Described(permanent, f, form, args, after, h)
  BY DescribeFields
<1>4. \A i \in 0 .. 2 : ds[i] \in Descs
  <2> TAKE i \in 0 .. 2
  <2>1. InitValue(f, form, args, after, i) \in Values \cup {NoValue}
    BY InitFacts
  <2>2. ds[i] \in Pinned(f, form, args, after, i)
    BY <1>3 DEF Described
  <2> HIDE DEF ds
  <2> QED
    BY <1>2, <2>1, <2>2, PinnedType
<1>5. ds \in [0 .. 2 -> Descs]
  <2>1. ds = [i \in 0 .. 2 |-> ds[i]]
    BY <1>3 DEF Described
  <2> HIDE DEF ds
  <2> QED
    BY <1>4, <2>1
<1>6. sc \in Seq(Regs \cup {NoReg})
  <2>1. /\ \A k \in DOMAIN form.scratch : form.scratch[k].fixed \in Regs \cup {NoReg}
        /\ DOMAIN form.scratch = 1 .. Len(form.scratch) /\ Len(form.scratch) \in Nat
    BY <1>1, NamedRegisters, RegAllocAssumption
  <2> QED
    BY <2>1
<1>7. Fixed(form) \subseteq Regs
  BY <1>1, NamedRegisters, RegAllocAssumption
<1>8. named \subseteq Regs
  <2>1. \A k \in DOMAIN form.clobbers : form.clobbers[k] \in CallUsed
    BY <1>1, NamedRegisters
  <2> QED
    BY <2>1, RegAllocAssumption
<1>9. Taken(f, form, args, after) \subseteq Regs
  <2>1. \A i \in 0 .. 2 : form.operands[i].fixed \in Regs \cup {NoReg}
    BY <1>2, RegAllocAssumption DEF OperandRight
  <2> QED
    BY <2>1 DEF Taken
<1>10. as \in SUBSET Regs /\ cl \in SUBSET Regs
  <2> HIDE DEF named
  <2> QED
    BY <1>1, <1>7, <1>8, <1>9
<1>11. h \in Exactly(form, args, after, ds, sc, as, cl, mem)
  BY DescribeEffect
<1>12. h.form = form /\ h.args = args /\ h.after = after /\ h.memory = mem
  BY <1>3 DEF Described
<1>13. form.ternary \in BOOLEAN /\ form.free \in BOOLEAN /\ form.copy \in BOOLEAN /\ form.commutative \in BOOLEAN
  BY <1>1, FormFacts
<1> HIDE DEF ds, sc, as, cl, mem
<1>14. IsAsg(h)
  BY <1>5, <1>6, <1>10, <1>11, <1>12, <1>13, ZenonT(60) DEF Exactly, IsAsg, AsgSet
<1> QED
  BY <1>4, <1>14 DEF ds

\* The operands of the record that Describe makes.
LEMMA DescribeOperands ==
    ASSUME NEW f, NEW form, NEW args, NEW after, Asked(global, permanent, f, form, args, after),
           NEW h, Described(permanent, f, form, args, after, h)
    PROVE  /\ form \in Forms /\ Inputs(h) = IF form.ternary THEN 0 .. 2 ELSE 1 .. 2
           /\ \A i \in 0 .. 2 :
                 /\ Val(h, i) = InitValue(f, form, args, after, i)
                 /\ Reg(h, i) = (IF Val(h, i) # NoValue THEN form.operands[i].fixed ELSE NoReg)
                 /\ h.descs[i].class = form.operands[i].class
                 /\ h.descs[i].live = IsLive(after, Val(h, i)) /\ h.descs[i].used = IsUsed(after, Val(h, i))
                 /\ h.descs[i].clobber = (form.operands[i].clobber # "no")
                 /\ h.descs[i].early = (form.operands[i].clobber = "early")
                 /\ ~h.descs[i].duplicate /\ ~h.descs[i].thrash /\ ~h.descs[i].store /\ ~h.descs[i].copy
                 /\ ~h.descs[i].kill
                 /\ Val(h, i) # NoValue => Val(h, i) = args[i] /\ form.operands[i].kind \in {"reg", "local"}
                 /\ form.operands[i].kind = "reg" => Val(h, i) = args[i]
           /\ Single(h) = Operands(h)
<1>1. form \in Forms
  BY DEF Asked
<1>2. Inputs(h) = IF form.ternary THEN 0 .. 2 ELSE 1 .. 2
  BY DEF Described, Inputs
<1>3. ASSUME NEW i \in 0 .. 2
      PROVE  /\ Val(h, i) = InitValue(f, form, args, after, i)
             /\ Reg(h, i) = (IF Val(h, i) # NoValue THEN form.operands[i].fixed ELSE NoReg)
             /\ h.descs[i].class = form.operands[i].class
             /\ h.descs[i].live = IsLive(after, Val(h, i)) /\ h.descs[i].used = IsUsed(after, Val(h, i))
             /\ h.descs[i].clobber = (form.operands[i].clobber # "no")
             /\ h.descs[i].early = (form.operands[i].clobber = "early")
             /\ ~h.descs[i].duplicate /\ ~h.descs[i].thrash /\ ~h.descs[i].store /\ ~h.descs[i].copy
             /\ ~h.descs[i].kill
             /\ Val(h, i) # NoValue => Val(h, i) = args[i] /\ form.operands[i].kind \in {"reg", "local"}
             /\ form.operands[i].kind = "reg" => Val(h, i) = args[i]
  <2> DEFINE d == h.descs[i]
  <2>1. d \in Pinned(f, form, args, after, i)
    BY DEF Described
  <2> HIDE DEF d
  <2>2. LET v == InitValue(f, form, args, after, i)
        IN /\ d.value = v /\ d.class = form.operands[i].class
           /\ d.reg = (IF v # NoValue THEN form.operands[i].fixed ELSE NoReg)
           /\ d.live = IsLive(after, v) /\ d.used = IsUsed(after, v)
           /\ d.clobber = (form.operands[i].clobber # "no") /\ d.early = (form.operands[i].clobber = "early")
           /\ d.duplicate = FALSE /\ d.thrash = FALSE /\ d.store = FALSE /\ d.copy = FALSE /\ d.kill = FALSE
    BY <2>1 DEF Pinned
  <2>3. LET v == InitValue(f, form, args, after, i)
        IN /\ v # NoValue => v = args[i] /\ form.operands[i].kind \in {"reg", "local"}
           /\ form.operands[i].kind = "reg" => v = args[i]
    BY InitFacts
  <2>4. d.value = Val(h, i) /\ d.reg = Reg(h, i) /\ d = h.descs[i]
    BY DEF Val, Reg, d
  <2>5. ~d.duplicate /\ ~d.thrash /\ ~d.store /\ ~d.copy /\ ~d.kill
    BY <2>2
  <2> QED
    BY <2>2, <2>3, <2>4, <2>5
<1>4. Single(h) = Operands(h)
  BY <1>3 DEF Single, Operands, Given
<1> QED
  BY <1>1, <1>2, <1>3, <1>4

\* It describes the instruction.
LEMMA DescribeOrigin ==
    ASSUME Static, NEW f, NEW form, NEW args, NEW after, Asked(global, permanent, f, form, args, after),
           NEW h, h = Describe(f, form, args, after)
    PROVE  Origin(f, h)
<1>1. Described(permanent, f, form, args, after, h) /\ IsAsg(h)
  BY DescribeFields, DescribeType
<1>2. /\ form \in Forms /\ Inputs(h) = IF form.ternary THEN 0 .. 2 ELSE 1 .. 2
      /\ \A i \in 0 .. 2 :
            /\ h.descs[i].class = form.operands[i].class
            /\ h.descs[i].live = IsLive(after, Val(h, i)) /\ h.descs[i].used = IsUsed(after, Val(h, i))
            /\ h.descs[i].clobber = (form.operands[i].clobber # "no")
            /\ h.descs[i].early = (form.operands[i].clobber = "early")
            /\ ~h.descs[i].thrash /\ ~h.descs[i].store /\ ~h.descs[i].copy /\ ~h.descs[i].kill
            /\ Val(h, i) # NoValue => Val(h, i) = args[i] /\ form.operands[i].kind \in {"reg", "local"}
            /\ form.operands[i].kind = "reg" => Val(h, i) = args[i]
      /\ Single(h) = Operands(h)
  BY <1>1, DescribeOperands
<1>3. /\ h.form = form /\ h.args = args /\ h.after = after /\ h.memory = Framed(f, form, args, after)
      /\ h.ternary = form.ternary /\ h.free = form.free /\ h.copy = form.copy /\ h.commutative = form.commutative
  BY <1>1 DEF Described
<1>4. FromForm(h)
  BY <1>2, <1>3 DEF FromForm
<1>5. /\ InputsRight(form) /\ (~form.ternary => ResultRight(form)) /\ form.ternary \in BOOLEAN
      /\ form.ternary => ~form.copy /\ ~form.commutative
      /\ form.name = "incoming" => /\ ~form.ternary
                                   /\ form.operands[0].kind = "none" /\ form.operands[2].kind = "none"
                                   /\ form.operands[1].kind = "reg" /\ Untied(form.operands[1])
                                   /\ ToSet(form.operands[1].class) = Regs
      /\ form.name = "set_param" => /\ ~form.ternary /\ form.operands[0].kind = "none"
                                    /\ Untied(form.operands[1]) /\ Untied(form.operands[2])
  BY <1>2, FormFacts
<1>6. \A i \in 0 .. 2 : IF form.operands[i].kind = "none" THEN args[i] = NoValue
                        ELSE i > 0 \/ form.ternary => args[i] \in Values
  BY DEF Asked
<1>7. \A i \in 0 .. 2 : i \in Given(h) <=> Val(h, i) # NoValue
  BY DEF Given, Val
<1>8. \A i \in 0 .. 2 : form.operands[i].kind = "none" => i \notin Given(h)
  BY <1>2, <1>6, <1>7
<1>9. \A i \in Operands(h) : i \in 0 .. 2 /\ i \in Given(h) /\ (i > 0 \/ form.ternary)
  BY <1>2, SMTT(60) DEF Operands, Given
<1>10. FromArgs(f, h)
  <2>1. \A i \in 0 .. 2 : h.descs[i].value = Val(h, i)
    BY DEF Val
  <2>2. \A i \in Operands(h) : \E j \in 0 .. 2 : /\ Val(h, i) = h.args[j] /\ (j > 0 \/ h.ternary)
                                                /\ h.form.operands[j].kind \in {"reg", "local"}
    BY <1>2, <1>3, <1>7, <1>9
  <2>3. ~h.ternary => Val(h, 0) = h.args[0]
    <3> SUFFICES ASSUME ~form.ternary
                 PROVE  Val(h, 0) = args[0]
      BY <1>3
    <3>1. form.operands[0].kind \in {"none", "reg"}
      BY <1>5 DEF ResultRight
    <3> QED
      BY <1>2, <1>6, <3>1
  <2> QED
    BY <1>2, <1>3, <2>1, <2>2, <2>3 DEF FromArgs
<1>11. ASSUME NEW i \in Operands(h), h.descs[i].clobber
       PROVE  i = 1 /\ ~h.ternary /\ ~h.copy /\ h.form.name \notin {"set_param", "incoming"}
  <2>1. form.operands[i].clobber # "no"
    BY <1>2, <1>9, <1>11
  <2>2. ~form.ternary /\ i = 1
    <3>1. form.operands[2].clobber = "no"
      BY <1>5 DEF InputsRight
    <3>2. form.ternary => form.operands[0].clobber = "no" /\ form.operands[1].clobber = "no"
      <4>1. form.ternary => \A k \in 0 .. 2 : form.operands[k].clobber = "no"
        BY <1>5 DEF InputsRight
      <4>2. 0 \in 0 .. 2 /\ 1 \in 0 .. 2
        OBVIOUS
      <4> QED
        BY <4>1, <4>2
    <3>3. i \in {0, 1, 2} /\ (i > 0 \/ form.ternary)
      BY <1>9
    <3> QED
      BY <1>5, <2>1, <3>1, <3>2, <3>3
  <2>3. ~form.copy
    BY <1>5, <2>1, <2>2 DEF ResultRight
  <2> QED
    BY <1>3, <1>5, <2>1, <2>2, <2>3 DEF Untied
<1>12. ASSUME Output(h)
       PROVE  /\ f.inhibit = {} /\ ~h.form.branch /\ h.form.name \notin {"set_param", "incoming"}
              /\ ~h.free => 1 \in Given(h) /\ ~h.descs[0].early
              /\ h.copy => ~h.free /\ 2 \notin Given(h)
  <2>1. ~form.ternary /\ 0 \in Given(h)
    BY <1>3, <1>12 DEF Output
  <2>2. ResultRight(form) /\ form.operands[0].kind = "reg"
    BY <1>5, <1>8, <2>1 DEF ResultRight
  <2>3. form.name \notin {"set_param", "incoming"}
    BY <1>5, <2>2
  <2>4. f.inhibit = {}
    BY <2>3 DEF Asked
  <2>5. ~form.free => 1 \in Given(h)
    <3> SUFFICES ASSUME ~form.free
                 PROVE  1 \in Given(h)
      OBVIOUS
    <3>1. form.operands[1].kind = "reg"
      BY <2>2 DEF ResultRight
    <3>2. args[1] \in Values
      BY <1>6, <3>1
    <3> QED
      BY <1>2, <1>7, <3>1, <3>2, NoRegApart
  <2>6. ~form.free => ~h.descs[0].early
    <3>1. ~form.free => form.operands[0].clobber = "no"
      BY <2>2 DEF ResultRight, Untied
    <3>2. h.descs[0].early = (form.operands[0].clobber = "early")
      BY <1>2
    <3> QED
      BY <3>1, <3>2
  <2>7. form.copy => ~form.free /\ 2 \notin Given(h)
    BY <1>8, <2>2 DEF ResultRight
  <2> QED
    BY <1>3, <2>2, <2>3, <2>4, <2>5, <2>6, <2>7 DEF ResultRight
<1>13. ASSUME h.form.name = "incoming"
       PROVE  Operands(h) = {1} /\ Val(h, 1) = h.args[1] /\ ToSet(h.descs[1].class) = Regs
  <2>1. form.name = "incoming"
    BY <1>3, <1>13
  <2>2. ~form.ternary /\ 2 \notin Given(h) /\ Val(h, 1) = args[1] /\ ToSet(h.descs[1].class) = Regs
    BY <1>2, <1>5, <1>8, <2>1
  <2>3. args[1] \in Values
    BY <1>5, <1>6, <2>1
  <2>4. 1 \in Given(h)
    BY <1>7, <2>2, <2>3, NoRegApart
  <2>5. Inputs(h) = {1, 2}
    BY <1>2, <2>2
  <2> QED
    BY <1>3, <2>2, <2>4, <2>5 DEF Operands
<1>14. Operated(f, h)
  BY <1>11, <1>12, <1>13 DEF Operated
<1> QED
  BY <1>1, <1>4, <1>10, <1>14 DEF Origin

\* Its fixed registers are chosen as the others will be.
LEMMA DescribeRight ==
    ASSUME Static, NEW f, NEW form, NEW args, NEW after, Asked(global, permanent, f, form, args, after),
           NEW h, h = Describe(f, form, args, after)
    PROVE  /\ Placed(global, permanent, f, h) /\ Spoiled(permanent, h) /\ Fresh(permanent, h) /\ h.dest_input = 0
           /\ h.form.name = "incoming" => h.assigned = {}
<1>1. Described(permanent, f, form, args, after, h)
  BY DescribeFields
<1>2. /\ form \in Forms /\ Inputs(h) = IF form.ternary THEN 0 .. 2 ELSE 1 .. 2
      /\ \A i \in 0 .. 2 :
            /\ Reg(h, i) = (IF Val(h, i) # NoValue THEN form.operands[i].fixed ELSE NoReg)
            /\ Val(h, i) = InitValue(f, form, args, after, i)
            /\ h.descs[i].class = form.operands[i].class
            /\ h.descs[i].clobber = (form.operands[i].clobber # "no")
            /\ h.descs[i].early = (form.operands[i].clobber = "early")
            /\ ~h.descs[i].duplicate
            /\ Val(h, i) # NoValue => Val(h, i) = args[i] /\ form.operands[i].kind \in {"reg", "local"}
      /\ Single(h) = Operands(h)
  BY <1>1, DescribeOperands, SMTT(60)
<1>3. /\ h.form = form /\ h.dest_input = 0
      /\ h.ternary = form.ternary /\ h.free = form.free /\ h.copy = form.copy /\ h.commutative = form.commutative
      /\ h.assigned = (f.inhibit \cup Taken(f, form, args, after)) \cup Fixed(form)
      /\ h.scratch = [k \in DOMAIN form.scratch |-> form.scratch[k].fixed]
  BY <1>1 DEF Described
<1>4. /\ InputsRight(form) /\ (~form.ternary => ResultRight(form))
      /\ form.name = "incoming" => /\ ~form.ternary /\ Plain(form) /\ form.operands[0].kind = "none"
                                   /\ form.operands[2].kind = "none" /\ Untied(form.operands[1])
      /\ form.name = "set_param" => /\ ~form.ternary
                                    /\ Untied(form.operands[1]) /\ Untied(form.operands[2])
      /\ \A i \in 0 .. 2 : form.operands[i].fixed \in CallUsed \cup {NoReg}
      /\ form.ternary => ~form.commutative
  BY <1>2, FormFacts DEF OperandRight
<1>5. \A i \in 0 .. 2 : i \in Given(h) <=> Val(h, i) # NoValue
  BY DEF Given, Val
<1>6. \A i \in Operands(h) : i \in 0 .. 2 /\ i \in Given(h) /\ (i > 0 \/ form.ternary)
  BY <1>2 DEF Operands, Given
<1>7. permanent \subseteq Regs \ CallUsed /\ CallUsed \subseteq Regs
  BY RegAllocAssumption DEF Static, StaticOK
<1>8. \A i \in 0 .. 2 : Reg(h, i) \in CallUsed \cup {NoReg} /\ Reg(h, i) \notin permanent
  BY <1>2, <1>4, <1>7, NoRegApart
<1>9. \A i \in 0 .. 2 : Reg(h, i) # NoReg => i \in Given(h) /\ Reg(h, i) = form.operands[i].fixed
  BY <1>2, <1>5
<1>10. Held(f, h)
  <2>1. f.inhibit \subseteq h.assigned
    BY <1>3
  <2>2. \A i \in 0 .. 2 : i \notin Given(h) => Reg(h, i) = NoReg /\ ~h.descs[i].duplicate
    BY <1>2, <1>9
  <2>3. ASSUME NEW i \in Chosen(h)
        PROVE  Reg(h, i) \in h.assigned /\ Reg(h, i) \notin f.inhibit
    <3>1. i \in Operands(h) /\ Reg(h, i) # NoReg
      BY <2>3 DEF Chosen
    <3>2. Reg(h, i) = form.operands[i].fixed /\ i \in 0 .. 2 /\ (i > 0 \/ form.ternary)
      BY <1>6, <1>9, <3>1
    <3>3. InitValue(f, form, args, after, i) # NoValue
      BY <1>2, <1>5, <1>6, <3>1
    <3>4. form.operands[i].fixed \in Taken(f, form, args, after)
      BY <3>1, <3>2, <3>3 DEF Taken
    <3>5. f.inhibit = {}
      <4> SUFFICES ASSUME form.name = "set_param"
                   PROVE  FALSE
        BY DEF Asked
      <4>1. i \in 1 .. 2
        BY <1>4, <3>2
      <4> QED
        BY <1>4, <3>1, <3>2, <4>1 DEF Untied
    <3> QED
      BY <1>3, <3>2, <3>4, <3>5
  <2>4. ASSUME NEW i \in Chosen(h), NEW j \in Chosen(h), i # j
        PROVE  Reg(h, i) # Reg(h, j)
    <3>1. /\ i \in 0 .. 2 /\ (i > 0 \/ form.ternary) /\ Reg(h, i) = form.operands[i].fixed /\ Reg(h, i) # NoReg
          /\ j \in 0 .. 2 /\ (j > 0 \/ form.ternary) /\ Reg(h, j) = form.operands[j].fixed /\ Reg(h, j) # NoReg
      BY <1>6, <1>9 DEF Chosen
    <3>2. form.operands[1].fixed # NoReg => form.operands[1].fixed # form.operands[2].fixed
      BY <1>4 DEF InputsRight
    <3>3. form.ternary /\ form.operands[0].fixed # NoReg =>
             form.operands[0].fixed # form.operands[1].fixed /\ form.operands[0].fixed # form.operands[2].fixed
      <4>1. form.ternary => \A k \in 0 .. 2 : k > 0 /\ form.operands[0].fixed # NoReg
                                              => form.operands[0].fixed # form.operands[k].fixed
        BY <1>4 DEF InputsRight
      <4>2. 1 \in 0 .. 2 /\ 2 \in 0 .. 2 /\ 1 > 0 /\ 2 > 0
        OBVIOUS
      <4> QED
        BY <4>1, <4>2
    <3>4. i \in {0, 1, 2} /\ j \in {0, 1, 2}
      BY <3>1
    <3> QED
      BY <2>4, <3>1, <3>2, <3>3, <3>4
  <2> QED
    BY <1>2, <2>1, <2>2, <2>3, <2>4 DEF Held
<1>11. Global(global, permanent, h)
  BY <1>6, <1>8 DEF Global, Chosen
<1>12. ASSUME Output(h)
       PROVE  /\ ResultRight(form) /\ form.operands[0].kind = "reg"
  BY <1>2, <1>3, <1>4, <1>5, <1>12 DEF Output, ResultRight
<1>13. ResultHeld(global, permanent, h)
  <2> SUFFICES ASSUME Output(h)
               PROVE  /\ ~h.free => Reg(h, 0) = NoReg
                      /\ h.descs[0].early => Reg(h, 0) = NoReg
    BY <1>2, <1>8 DEF ResultHeld
  <2>1. ResultRight(form) /\ form.operands[0].kind = "reg"
    BY <1>12
  <2>2. ~form.free => form.operands[0].fixed = NoReg
    BY <2>1 DEF ResultRight, Untied
  <2>3. form.operands[0].clobber = "early" => form.operands[0].fixed = NoReg
    BY <2>1 DEF ResultRight
  <2>4. h.descs[0].early = (form.operands[0].clobber = "early") /\ (Reg(h, 0) # NoReg => Reg(h, 0) = form.operands[0].fixed)
    BY <1>2, <1>9
  <2> QED
    BY <1>3, <2>2, <2>3, <2>4
<1>14. Fresh(permanent, h)
  <2>1. form.commutative => Reg(h, 1) = NoReg /\ Reg(h, 2) = NoReg /\ ~h.descs[1].clobber /\ ~h.descs[2].clobber
    <3>1. form.commutative => /\ form.operands[1].fixed = NoReg /\ form.operands[2].fixed = NoReg
                              /\ form.operands[1].clobber = "no" /\ form.operands[2].clobber = "no"
      BY <1>4 DEF InputsRight, Untied
    <3>2. /\ h.descs[1].clobber = (form.operands[1].clobber # "no")
          /\ h.descs[2].clobber = (form.operands[2].clobber # "no")
      BY <1>2
    <3>3. /\ Reg(h, 1) # NoReg => Reg(h, 1) = form.operands[1].fixed
          /\ Reg(h, 2) # NoReg => Reg(h, 2) = form.operands[2].fixed
      BY <1>9
    <3> QED
      BY <3>1, <3>2, <3>3
  <2>2. Output(h) /\ ~h.free => Reg(h, 0) = NoReg
    <3>1. Output(h) /\ ~h.free => form.operands[0].fixed = NoReg
      BY <1>3, <1>12 DEF ResultRight, Untied
    <3>2. Reg(h, 0) # NoReg => Reg(h, 0) = form.operands[0].fixed
      BY <1>9
    <3> QED
      BY <3>1, <3>2
  <2>3. Output(h) /\ ~h.free => Reg(h, 2) \notin ToSet(h.descs[0].class)
    <3> SUFFICES ASSUME Output(h), ~h.free
                 PROVE  Reg(h, 2) \notin ToSet(h.descs[0].class)
      OBVIOUS
    <3>1. form.operands[2].fixed \notin ToSet(form.operands[0].class)
      BY <1>3, <1>12 DEF ResultRight
    <3>2. NoReg \notin ToSet(form.operands[0].class)
      <4>1. form.operands[0].class \in Seq(Regs)
        BY <1>2, FormFacts DEF OperandRight
      <4> QED
        BY <4>1, NoRegApart, SMTT(60) DEF ToSet
    <3> QED
      BY <1>2, <3>1, <3>2
  <2>4. ASSUME Output(h), h.descs[0].early
        PROVE  Chosen(h) = {}
    <3>1. \A i \in 0 .. 2 : form.operands[i].fixed = NoReg
      <4>1. h.descs[0].early = (form.operands[0].clobber = "early")
        BY <1>2
      <4> QED
        BY <1>12, <2>4, <4>1 DEF ResultRight
    <3> QED
      BY <1>6, <1>9, <3>1 DEF Chosen
  <2> QED
    BY <1>2, <1>3, <1>8, <2>1, <2>2, <2>3, <2>4 DEF Fresh
<1>15. Spoiled(permanent, h)
  <2>1. h.clobber = (Fixed(form) \cup {form.clobbers[k] : k \in {j \in DOMAIN form.clobbers : j - 1 \notin permanent}})
                    \cup (IF form.branch THEN Regs \ permanent ELSE {})
    BY <1>1 DEF Described
  <2>2. ToSet(h.scratch) \ {NoReg} = Fixed(form)
    BY <1>3 DEF ToSet, Fixed
  <2>3. Fixed(form) \subseteq CallUsed
    BY <1>2, NamedRegisters
  <2>4. (\A k \in DOMAIN form.clobbers : k - 1 \notin permanent) => ToSet(form.clobbers) \subseteq h.clobber
    BY <2>1 DEF ToSet
  <2>5. form.branch => Regs \ permanent \subseteq h.clobber
    BY <2>1
  <2> QED
    BY <1>3, <1>7, <2>1, <2>2, <2>3, <2>4, <2>5 DEF Spoiled
<1>16. ASSUME h.form.name = "incoming"
       PROVE  h.assigned = {}
  <2>1. form.name = "incoming"
    BY <1>3, <1>16
  <2>2. f.inhibit = {}
    BY <2>1 DEF Asked
  <2>3. Fixed(form) = {}
    BY <1>4, <2>1 DEF Fixed, Plain
  <2>4. Taken(f, form, args, after) = {}
    <3>1. \A i \in 0 .. 2 : InitValue(f, form, args, after, i) # NoValue => form.operands[i].fixed = NoReg
      <4> SUFFICES ASSUME NEW i \in 0 .. 2, InitValue(f, form, args, after, i) # NoValue
                   PROVE  form.operands[i].fixed = NoReg
        OBVIOUS
      <4>1. form.operands[i].kind \in {"reg", "local"}
        BY <1>2
      <4>2. i = 1
        BY <1>4, <2>1, <4>1
      <4> QED
        BY <1>4, <2>1, <4>2 DEF Untied
    <3> QED
      BY <3>1 DEF Taken
  <2> QED
    BY <1>3, <2>2, <2>3, <2>4
<1> QED
  BY <1>3, <1>10, <1>11, <1>13, <1>14, <1>15, <1>16 DEF Placed

\* The operands with a register of their own depend on the duplicates alone.
LEMMA SinglesOf ==
    ASSUME NEW a, NEW b, SameBut(a, b), \A j \in 0 .. 2 : b.descs[j].duplicate = a.descs[j].duplicate
    PROVE  Single(b) = Single(a)
<1>1. Operands(b) = Operands(a) /\ \A j \in Operands(a) : j \in 0 .. 2
  BY SameSets DEF Operands, Given
<1> QED
  BY <1>1 DEF Single

\* An input is put in a register that has not been assigned.
LEMMA InputPlaced ==
    ASSUME Static, NEW g, NEW a, Origin(g, a), Placed(global, permanent, g, a),
           NEW i \in Operands(a), Reg(a, i) = NoReg, NEW r \in Regs, r \notin a.assigned,
           r \in permanent => \/ global[Val(a, i)] = r /\ ~a.descs[i].clobber
                              \/ Output(a) /\ global[Dest(a)] = r,
           NEW h, h = SetRegister(a, i, r)
    PROVE  Kept2(global, permanent, g, a, h)
<1>1. i \in 0 .. 2 /\ i \in Given(a) /\ (i > 0 \/ a.ternary)
  BY DEF Operands, Given, Inputs
<1>2. IsAsg(a)
  BY DEF Origin
<1>3. /\ IsAsg(h) /\ SameBut(a, h)
      /\ \A j \in 0 .. 2 : /\ h.descs[j].reg = IF j = i THEN r ELSE a.descs[j].reg
                           /\ h.descs[j].duplicate = a.descs[j].duplicate
      /\ h.assigned = IF i > 0 \/ a.ternary \/ a.descs[0].early THEN a.assigned \cup {r} ELSE a.assigned
  <2>1. Registered(a, i, r, h)
    BY <1>1, <1>2, SetRegisterEffect
  <2> QED
    BY <2>1 DEF Registered
<1>4. h.assigned = a.assigned \cup {r}
  BY <1>1, <1>3
<1>5. \A j \in 0 .. 2 : Reg(h, j) = IF j = i THEN r ELSE Reg(a, j)
  BY <1>3 DEF Reg
<1>6. /\ Given(h) = Given(a) /\ Operands(h) = Operands(a) /\ Output(h) = Output(a) /\ Dest(h) = Dest(a)
      /\ \A j \in 0 .. 2 : Val(h, j) = Val(a, j)
  BY <1>3, SameSets
<1>7. Single(h) = Single(a)
  BY <1>3, SinglesOf
<1>8. \A j \in Operands(a) : j \in 0 .. 2 /\ (j > 0 \/ a.ternary)
  BY DEF Operands, Given, Inputs
<1>9. r # NoReg
  BY NoRegApart
<1>10. Chosen(h) = Chosen(a) \cup {i}
  BY <1>5, <1>6, <1>8, <1>9 DEF Chosen
<1>11. i \notin Chosen(a)
  BY DEF Chosen
<1>12. Held(g, a)
  BY DEF Placed
<1>13. i \in Single(a)
  <2> SUFFICES ASSUME i \in Operands(a) \ Single(a)
               PROVE  FALSE
    OBVIOUS
  <2>1. PICK j \in Chosen(a) \cap Single(a) : Reg(a, j) = Reg(a, i)
    BY <1>12 DEF Held
  <2> QED
    BY <2>1 DEF Chosen
<1>14. \A j \in Chosen(a) : j \in 0 .. 2 /\ j # i /\ Reg(h, j) = Reg(a, j) /\ Reg(a, j) \in a.assigned /\ Reg(a, j) # r
  BY <1>5, <1>8, <1>11, <1>12 DEF Held, Chosen
<1>15. Reg(h, i) = r
  BY <1>1, <1>5
<1>16. r \notin g.inhibit
  BY <1>12 DEF Held
<1>17. Held(g, h)
  <2>1. g.inhibit \subseteq h.assigned
    BY <1>4, <1>12 DEF Held
  <2>2. \A j \in 0 .. 2 : j \notin Given(h) => Reg(h, j) = NoReg /\ ~h.descs[j].duplicate
    BY <1>1, <1>3, <1>5, <1>6, <1>12 DEF Held
  <2>3. \A j \in Chosen(h) : Reg(h, j) \in h.assigned /\ Reg(h, j) \notin g.inhibit
    BY <1>4, <1>10, <1>12, <1>14, <1>15, <1>16 DEF Held
  <2>4. \A j, k \in Chosen(h) \cap Single(h) : j # k => Reg(h, j) # Reg(h, k)
    <3>1. \A j, k \in Chosen(a) \cap Single(a) : j # k => Reg(a, j) # Reg(a, k)
      BY <1>12 DEF Held
    <3> QED
      BY <1>7, <1>10, <1>14, <1>15, <3>1
  <2>5. ASSUME NEW j \in Operands(h) \ Single(h)
        PROVE  /\ j = 2 \/ h.ternary
               /\ \E k \in Chosen(h) \cap Single(h) : Reg(h, k) = Reg(h, j) /\ Equal(g, Val(h, j), Val(h, k))
    <3>1. j \in Operands(a) \ Single(a) /\ j \in 0 .. 2 /\ j # i
      BY <1>6, <1>7, <1>8, <1>13, <2>5
    <3>2. /\ j = 2 \/ a.ternary
          /\ \E k \in Chosen(a) \cap Single(a) : Reg(a, k) = Reg(a, j) /\ Equal(g, Val(a, j), Val(a, k))
      BY <1>12, <3>1 DEF Held
    <3>3. PICK k \in Chosen(a) \cap Single(a) : Reg(a, k) = Reg(a, j) /\ Equal(g, Val(a, j), Val(a, k))
      BY <3>2
    <3>4. k \in Chosen(h) \cap Single(h) /\ k \in 0 .. 2 /\ Reg(h, k) = Reg(a, k) /\ Reg(h, j) = Reg(a, j)
      BY <1>5, <1>7, <1>10, <1>14, <3>1
    <3>5. h.ternary = a.ternary
      BY <1>3 DEF SameBut, SameRest
    <3> QED
      BY <1>6, <3>1, <3>2, <3>3, <3>4, <3>5
  <2> QED
    BY <2>1, <2>2, <2>3, <2>4, <2>5 DEF Held
<1>18. Global(global, permanent, h)
  <2>1. \A j \in 0 .. 2 : h.descs[j].clobber = a.descs[j].clobber
    BY <1>3 DEF SameBut, SameDesc
  <2>2. \A j \in Chosen(a) \cap Single(a) : Reg(a, j) \in permanent =>
            \/ global[Val(a, j)] = Reg(a, j) /\ ~a.descs[j].clobber
            \/ Output(a) /\ global[Dest(a)] = Reg(a, j)
    BY DEF Placed, Global
  <2> SUFFICES ASSUME NEW j \in Chosen(h) \cap Single(h), Reg(h, j) \in permanent
               PROVE  \/ global[Val(h, j)] = Reg(h, j) /\ ~h.descs[j].clobber
                      \/ Output(h) /\ global[Dest(h)] = Reg(h, j)
    BY DEF Global
  <2>3. CASE j = i
    BY <1>1, <1>6, <1>15, <2>1, <2>3
  <2>4. CASE j # i
    <3>1. j \in Chosen(a) \cap Single(a) /\ j \in 0 .. 2 /\ Reg(h, j) = Reg(a, j)
      BY <1>7, <1>10, <1>14, <2>4
    <3> QED
      BY <1>6, <2>1, <2>2, <3>1
  <2> QED
    BY <2>3, <2>4, SMTT(60)
<1>19. ResultHeld(global, permanent, h)
  <2> SUFFICES ASSUME Output(h)
               PROVE  ResultHeld(global, permanent, h)
    BY DEF ResultHeld
  <2>1. i # 0 /\ Output(a)
    BY <1>1, <1>6 DEF Output
  <2>2. /\ ~a.descs[0].duplicate
        /\ Reg(a, 0) \in permanent => Reg(a, 0) = global[Dest(a)]
        /\ ~a.free /\ Reg(a, 0) # NoReg => Reg(a, 1) = Reg(a, 0)
        /\ a.descs[0].early /\ Reg(a, 0) # NoReg =>
              Reg(a, 0) \in a.assigned /\ \A j \in Chosen(a) : Reg(a, j) # Reg(a, 0)
    BY <2>1 DEF Placed, ResultHeld
  <2>3. Reg(h, 0) = Reg(a, 0) /\ h.free = a.free /\ h.descs[0].early = a.descs[0].early
        /\ h.descs[0].duplicate = a.descs[0].duplicate
    BY <1>3, <1>5, <2>1 DEF SameBut, SameDesc, SameRest
  <2>4. ~a.free /\ Reg(a, 0) # NoReg => Reg(h, 1) = Reg(h, 0)
    <3> SUFFICES ASSUME ~a.free, Reg(a, 0) # NoReg
                 PROVE  Reg(h, 1) = Reg(h, 0)
      OBVIOUS
    <3>1. i # 1
      BY <2>2
    <3>2. Reg(h, 1) = Reg(a, 1)
      BY <1>5, <3>1
    <3> QED
      BY <2>2, <2>3, <3>2
  <2>5. a.descs[0].early /\ Reg(a, 0) # NoReg =>
           Reg(h, 0) \in h.assigned /\ \A j \in Chosen(h) : Reg(h, j) # Reg(h, 0)
    BY <1>4, <1>10, <1>14, <1>15, <2>2, <2>3
  <2> QED
    BY <1>6, <2>2, <2>3, <2>4, <2>5 DEF ResultHeld
<1> QED
  BY <1>3, <1>17, <1>18, <1>19 DEF Kept2, Placed

\* check_duplicate_value.
LEMMA EqualInputs ==
    ASSUME NEW g, GenOK(global, g), NEW a, NEW i \in 0 .. 2, NEW j \in 0 .. 2
    PROVE  ValuesEqual(g, a.descs[i], a.descs[j]) <=>
              i \in Given(a) /\ j \in Given(a) /\ Equal(g, Val(a, i), Val(a, j))
  BY DEF ValuesEqual, Given, Equal, Val

\* Sharing a register between two operands with the same value.
LEMMA SharePlaced ==
    ASSUME Static, NEW g, GenOK(global, g), NEW a, Origin(g, a), Placed(global, permanent, g, a),
           NEW i \in Operands(a), NEW j \in Operands(a), i # j, j = 2 \/ a.ternary
    PROVE  Kept2(global, permanent, g, a, ShareRegister(g, a, i, j))
<1> DEFINE h == ShareRegister(g, a, i, j)
           s == [a EXCEPT !.descs[j].reg = a.descs[i].reg, !.descs[j].duplicate = TRUE]
<1>1. \A k \in Operands(a) : k \in 0 .. 2 /\ k \in Given(a) /\ (k > 0 \/ a.ternary)
  BY DEF Operands, Given, Inputs
<1>2. SameBut(a, a) /\ IsAsg(a)
  BY DEF SameBut, SameRest, SameDesc, Origin
<1> SUFFICES ASSUME Reg(a, j) = NoReg, Reg(a, i) # NoReg, ValuesEqual(g, a.descs[i], a.descs[j])
             PROVE  Kept2(global, permanent, g, a, s)
  BY <1>2, SMTT(60) DEF ShareRegister, Reg, Kept2
<1>3. /\ IsAsg(s) /\ SameBut(a, s) /\ s.assigned = a.assigned
      /\ \A k \in 0 .. 2 : /\ s.descs[k].reg = IF k = j THEN a.descs[i].reg ELSE a.descs[k].reg
                           /\ s.descs[k].duplicate = (k = j \/ a.descs[k].duplicate)
  BY <1>1, <1>2, ShareEffect, ZenonT(60)
<1> HIDE DEF s, h
<1>4. \A k \in 0 .. 2 : Reg(s, k) = IF k = j THEN Reg(a, i) ELSE Reg(a, k)
  BY <1>3 DEF Reg
<1>5. /\ Given(s) = Given(a) /\ Operands(s) = Operands(a) /\ Output(s) = Output(a) /\ Dest(s) = Dest(a)
      /\ \A k \in 0 .. 2 : Val(s, k) = Val(a, k)
  BY <1>3, SameSets
<1>6. Single(s) = Single(a) \ {j}
  BY <1>1, <1>3, <1>5 DEF Single
<1>7. Chosen(s) = Chosen(a) \cup {j}
  BY <1>1, <1>4, <1>5 DEF Chosen
<1>8. j \notin Chosen(a) /\ i \in Chosen(a)
  BY DEF Chosen
<1>9. Chosen(s) \cap Single(s) = Chosen(a) \cap Single(a)
  BY <1>6, <1>7, <1>8
<1>10. \A k \in Chosen(a) : k \in 0 .. 2 /\ Reg(s, k) = Reg(a, k)
  BY <1>1, <1>4, <1>8 DEF Chosen
<1>11. Held(g, a) /\ Reg(s, j) = Reg(a, i)
  BY <1>1, <1>4 DEF Placed
<1>12. Equal(g, Val(a, j), Val(a, i))
  BY <1>1, EqualInputs DEF Equal
<1>13. \E k \in Chosen(a) \cap Single(a) : Reg(a, k) = Reg(a, i) /\ Equal(g, Val(a, j), Val(a, k))
  <2>1. CASE i \in Single(a)
    BY <1>8, <1>12, <2>1
  <2>2. CASE i \notin Single(a)
    <3>1. PICK k \in Chosen(a) \cap Single(a) : Reg(a, k) = Reg(a, i) /\ Equal(g, Val(a, i), Val(a, k))
      BY <1>11, <2>2 DEF Held
    <3>2. Equal(g, Val(a, j), Val(a, k))
      BY <1>12, <3>1 DEF Equal
    <3> QED
      BY <3>1, <3>2
  <2> QED
    BY <2>1, <2>2
<1>14. Held(g, s)
  <2>1. g.inhibit \subseteq s.assigned
    BY <1>3, <1>11 DEF Held
  <2>2. \A k \in 0 .. 2 : k \notin Given(s) => Reg(s, k) = NoReg /\ ~s.descs[k].duplicate
    BY <1>1, <1>3, <1>4, <1>5, <1>11, ZenonT(60) DEF Held
  <2>3. \A k \in Chosen(s) : Reg(s, k) \in s.assigned /\ Reg(s, k) \notin g.inhibit
    BY <1>3, <1>7, <1>8, <1>10, <1>11 DEF Held
  <2>4. \A k, m \in Chosen(s) \cap Single(s) : k # m => Reg(s, k) # Reg(s, m)
    BY <1>9, <1>10, <1>11 DEF Held
  <2>5. s.ternary = a.ternary
    BY <1>3 DEF SameBut, SameRest
  <2>6. ASSUME NEW m \in Operands(s) \ Single(s)
        PROVE  /\ m = 2 \/ s.ternary
               /\ \E k \in Chosen(s) \cap Single(s) : Reg(s, k) = Reg(s, m) /\ Equal(g, Val(s, m), Val(s, k))
    <3>1. m \in Operands(a) /\ m \in 0 .. 2
      BY <1>1, <1>5, <2>6
    <3>2. CASE m = j
      <4>1. PICK k \in Chosen(a) \cap Single(a) : Reg(a, k) = Reg(a, i) /\ Equal(g, Val(a, j), Val(a, k))
        BY <1>13
      <4> QED
        BY <1>5, <1>9, <1>10, <1>11, <2>5, <3>1, <3>2, <4>1
    <3>3. CASE m # j
      <4>1. m \in Operands(a) \ Single(a)
        BY <1>6, <2>6, <3>1, <3>3
      <4>2. m = 2 \/ a.ternary
        BY <1>11, <4>1 DEF Held
      <4>3. PICK k \in Chosen(a) \cap Single(a) : Reg(a, k) = Reg(a, m) /\ Equal(g, Val(a, m), Val(a, k))
        BY <1>11, <4>1 DEF Held
      <4>4. Reg(s, m) = Reg(a, m) /\ k \in 0 .. 2
        BY <1>4, <1>10, <3>1, <3>3
      <4> QED
        BY <1>5, <1>9, <1>10, <2>5, <3>1, <4>2, <4>3, <4>4
    <3> QED
      BY <3>2, <3>3
  <2> QED
    BY <2>1, <2>2, <2>3, <2>4, <2>6 DEF Held
<1>15. \A k \in 0 .. 2 : s.descs[k].clobber = a.descs[k].clobber
  BY <1>3 DEF SameBut, SameDesc
<1>16. Global(global, permanent, s)
  <2>1. Global(global, permanent, a)
    BY DEF Placed
  <2> QED
    BY <1>5, <1>9, <1>10, <1>15, <2>1 DEF Global
<1>17. ResultHeld(global, permanent, s)
  <2> SUFFICES ASSUME Output(s)
               PROVE  ResultHeld(global, permanent, s)
    BY DEF ResultHeld
  <2>1. Output(a) /\ j = 2
    BY <1>5 DEF Output
  <2>2. /\ ~a.descs[0].duplicate
        /\ Reg(a, 0) \in permanent => Reg(a, 0) = global[Dest(a)]
        /\ ~a.free /\ Reg(a, 0) # NoReg => Reg(a, 1) = Reg(a, 0)
        /\ a.descs[0].early /\ Reg(a, 0) # NoReg =>
              Reg(a, 0) \in a.assigned /\ \A k \in Chosen(a) : Reg(a, k) # Reg(a, 0)
    BY <2>1 DEF Placed, ResultHeld
  <2>3. /\ Reg(s, 0) = Reg(a, 0) /\ Reg(s, 1) = Reg(a, 1) /\ s.free = a.free
        /\ s.descs[0].early = a.descs[0].early /\ ~s.descs[0].duplicate
    <3>1. Reg(s, 0) = Reg(a, 0) /\ Reg(s, 1) = Reg(a, 1)
      BY <1>4, <2>1
    <3>2. s.free = a.free /\ s.descs[0].early = a.descs[0].early
      BY <1>3 DEF SameBut, SameDesc, SameRest
    <3>3. s.descs[0].duplicate = (0 = j \/ a.descs[0].duplicate)
      BY <1>3
    <3>4. ~s.descs[0].duplicate
      <4>1. s.descs \in [0 .. 2 -> Descs] /\ a.descs \in [0 .. 2 -> Descs]
        BY <1>2, <1>3, AsgFields
      <4>2. s.descs[0].duplicate \in BOOLEAN /\ a.descs[0].duplicate \in BOOLEAN
        BY <4>1, DescFields
      <4> QED
        BY <2>1, <2>2, <3>3, <4>2
    <3> QED
      BY <3>1, <3>2, <3>4
  <2>4. \A k \in Chosen(s) : \E m \in Chosen(a) : Reg(s, k) = Reg(a, m)
    BY <1>7, <1>8, <1>10, <1>11
  <2> QED
    BY <1>3, <1>5, <2>2, <2>3, <2>4 DEF ResultHeld
<1> QED
  BY <1>3, <1>14, <1>16, <1>17 DEF Kept2, Placed

\* clobbers_register: a global register that is not clobbered is that of the
\* value or of the result.
LEMMA ClobbersGlobal ==
    ASSUME Static, NEW g, GenOK(global, g), Loose(permanent, g), NEW a, Origin(g, a), NEW i \in Operands(a),
           NEW r \in permanent, "REG" \notin Clobbers(g, a, i, r)
    PROVE  \/ global[Val(a, i)] = r /\ ~a.descs[i].clobber
           \/ Output(a) /\ global[Dest(a)] = r
<1> DEFINE d == a.descs[i]
           dest == a.descs[0]
<1>1. i \in 0 .. 2 /\ i \in Given(a) /\ (i > 0 \/ a.ternary)
  BY DEF Operands, Given, Inputs
<1> SUFFICES ASSUME Alive(g, a, r)
             PROVE  global[Val(a, i)] = r /\ ~d.clobber
  <2>1. ~Alive(g, a, r) => ~a.ternary /\ dest.value # NoValue /\ global[dest.value] = r
    BY DEF Alive
  <2>2. ~a.ternary /\ dest.value # NoValue => Output(a) /\ Dest(a) = dest.value
    BY DEF Output, Dest, Given
  <2> QED
    BY <2>1, <2>2
<1> DEFINE input == IF a.ternary \/ dest.value = NoValue THEN d.clobber ELSE ~a.copy /\ (r = dest.reg \/ d.clobber)
<1>2. d.value \in Values
  BY <1>1, AsgFields, DescFields DEF Origin, Given
<1>3. ~input /\ r \in {global[d.value], g.in_reg[d.value]}
  <2>1. ~(i = 0 /\ ~a.ternary) /\ d.value # NoValue
    BY <1>1 DEF Given
  <2> QED
    BY <2>1 DEF Clobbers
<1>4. r # g.in_reg[d.value]
  BY <1>2, NoRegApart DEF Loose, Static, StaticOK
<1>5. ~d.clobber
  <2>1. d.clobber => ~a.copy
    BY DEF Origin, Operated
  <2> QED
    BY <1>3, <2>1
<1> QED
  BY <1>3, <1>4, <1>5 DEF Val

\* Sharing keeps a record that is already placed.
LEMMA Kept2Same ==
    ASSUME NEW g, NEW a, Origin(g, a), Placed(global, permanent, g, a)
    PROVE  Kept2(global, permanent, g, a, a)
  BY SMTT(60) DEF Kept2, SameBut, SameRest, SameDesc, Origin

\* Two sharings, one after the other.
LEMMA Kept2Trans ==
    ASSUME NEW g, NEW a, NEW b, NEW c, Kept2(global, permanent, g, a, b), Kept2(global, permanent, g, b, c)
    PROVE  Kept2(global, permanent, g, a, c)
  BY DEF Kept2, SameBut, SameRest, SameDesc

\* Sharing describes the same instruction.
LEMMA Kept2Origin ==
    ASSUME NEW g, NEW a, NEW b, Origin(g, a), Kept2(global, permanent, g, a, b)
    PROVE  /\ Origin(g, b) /\ Placed(global, permanent, g, b) /\ Operands(b) = Operands(a) /\ Given(b) = Given(a)
           /\ Output(b) = Output(a) /\ b.ternary = a.ternary
  BY OriginSame, SameSets DEF Kept2, SameBut, SameRest

\* choose_input_register.
LEMMA InputChosen ==
    ASSUME Static, NEW g, GenOK(global, g), Loose(permanent, g), NEW a, Origin(g, a),
           Placed(global, permanent, g, a), NEW i \in 0 .. 2, i > 0 \/ a.ternary
    PROVE  Kept2(global, permanent, g, a, ChooseInput(g, a, i))
<1> DEFINE h == ChooseInput(g, a, i)
           class == a.descs[i].class
           costs == [r \in ToSet(class) |-> InputCost(g, a, i, r, Clobbers(g, a, i, r))]
           r == Cheapest(g, class, costs)
<1> SUFFICES ASSUME i \in Given(a), Reg(a, i) = NoReg
             PROVE  Kept2(global, permanent, g, a, h)
  BY Kept2Same DEF ChooseInput, Reg
<1>1. h = SetRegister(a, i, r)
  BY DEF ChooseInput, Reg
<1>2. i \in Operands(a)
  BY DEF Operands, Inputs
<1>3. class \in Seq(Regs)
  BY AsgFields, DescFields DEF Origin
<1>4. r = NoReg \/ Cheap(class, costs, r)
  <2> HIDE DEF class, costs
  <2> QED
    BY <1>3, CheapestRight DEF GenOK
<1> SUFFICES ASSUME r # NoReg
             PROVE  Kept2(global, permanent, g, a, h)
  BY <1>1, Kept2Same DEF SetRegister
<1>5. r \in ToSet(class) /\ r \in Regs /\ costs[r] >= 0
  <2>1. PICK k \in DOMAIN class : r = class[k] /\ costs[r] \in 0 .. TooMuch - 1
    <3> HIDE DEF class, costs, r
    <3> QED
      BY <1>4 DEF Cheap
  <2> HIDE DEF class, costs, r
  <2> QED
    BY <1>3, <2>1 DEF ToSet
<1>6. InputCost(g, a, i, r, Clobbers(g, a, i, r)) # -1
  <2>1. costs[r] = InputCost(g, a, i, r, Clobbers(g, a, i, r))
    <3> HIDE DEF class, r
    <3> QED
      BY <1>5
  <2> HIDE DEF costs, r
  <2> QED
    BY <1>5, <2>1
<1> HIDE DEF r, class, costs, h
<1>7. r \notin a.assigned /\ ("REG" \in Clobbers(g, a, i, r) => r \notin permanent)
  BY <1>6 DEF InputCost
<1>8. r \in permanent => \/ global[Val(a, i)] = r /\ ~a.descs[i].clobber
                         \/ Output(a) /\ global[Dest(a)] = r
  BY <1>2, <1>7, ClobbersGlobal
<1> QED
  BY <1>1, <1>2, <1>5, <1>7, <1>8, InputPlaced

\* choose_output_register, of an operation whose result has a place of its own.
LEMMA OutputChosen ==
    ASSUME Static, NEW g, GenOK(global, g), NEW a, Origin(g, a), Output(a),
           NEW h, h = ChooseOutput(g, a)
    PROVE  h = a \/ \E r \in ToSet(a.descs[0].class) :
              h = SetRegister(a, 0, r) /\ r \in Regs /\ r \notin g.inhibit /\ (r \in permanent => r = global[Dest(a)])
<1> DEFINE class == a.descs[0].class
           costs == [r \in ToSet(class) |-> OutputCost(g, a, r)]
           r == Cheapest(g, class, costs)
<1>1. h = SetRegister(a, 0, r)
  BY DEF ChooseOutput
<1>3. class \in Seq(Regs)
  BY AsgFields, DescFields DEF Origin
<1>4. r = NoReg \/ Cheap(class, costs, r)
  <2> HIDE DEF class, costs
  <2> QED
    BY <1>3, CheapestRight, SMTT(60) DEF GenOK
<1> SUFFICES ASSUME r # NoReg
             PROVE  r \in ToSet(class) /\ r \in Regs /\ r \notin g.inhibit /\ (r \in permanent => r = global[Dest(a)])
  BY <1>1, ZenonT(60) DEF SetRegister
<1>5. r \in ToSet(class) /\ r \in Regs /\ costs[r] >= 0
  <2>1. PICK k \in DOMAIN class : r = class[k] /\ costs[r] \in 0 .. TooMuch - 1
    <3> HIDE DEF class, costs, r
    <3> QED
      BY <1>4 DEF Cheap
  <2> HIDE DEF class, costs, r
  <2> QED
    BY <1>3, <2>1 DEF ToSet
<1>6. OutputCost(g, a, r) # -1
  <2>1. costs[r] = OutputCost(g, a, r)
    <3> HIDE DEF class, r
    <3> QED
      BY <1>5, SMTT(60)
  <2> HIDE DEF costs, r
  <2> QED
    BY <1>5, <2>1
<1> HIDE DEF r, class, costs
<1>7. r \notin g.inhibit
  BY <1>6, SMTT(60) DEF OutputCost
<1>8. r \in permanent => global[a.descs[0].value] = r
  BY <1>6 DEF OutputCost
<1> QED
  BY <1>5, <1>7, <1>8 DEF Dest

\* choose_input_order.
LEMMA OrderEffect ==
    ASSUME NEW g, NEW a, IsAsg(a), 1 \in Given(a), NEW d, d = InputOrder(g, a)
    PROVE  Ordered(a, d, FALSE) \/ (a.commutative /\ 2 \in Given(a) /\ Ordered(a, d, TRUE))
<1> DEFINE second == a.descs[2].value
           there  == /\ second \notin {NoValue, a.descs[1].value}
                     /\ \/ g.in_reg[second] = a.descs[0].reg
                        \/ second \in g.in_global /\ global[second] = a.descs[0].reg
           ds == [a.descs EXCEPT ![1] = a.descs[2], ![2] = a.descs[1]]
<1>1. a.descs \in [0 .. 2 -> Descs]
  BY AsgFields
<1>2. CASE there /\ a.commutative
  <2>1. d = [a EXCEPT !.descs = ds, !.dest_input = 1]
    BY <1>1, <1>2 DEF InputOrder, IsAsg, AsgSet
  <2>2. ds[0] = a.descs[0] /\ ds[1] = a.descs[2] /\ ds[2] = a.descs[1] /\ ds \in [0 .. 2 -> Descs]
    BY <1>1
  <2> HIDE DEF ds
  <2>3. IsAsg(d) /\ d.descs = ds /\ d.assigned = a.assigned /\ SameRest(a, d) /\ d.dest_input = 1
    BY <2>1, <2>2 DEF IsAsg, AsgSet, SameRest
  <2>4. 2 \in Given(a)
    BY <1>2 DEF Given
  <2> QED
    BY <1>2, <2>2, <2>3, <2>4 DEF Ordered
<1>3. CASE ~(there /\ a.commutative)
  <2>1. a.descs[1].value # NoValue
    BY DEF Given
  <2>2. d = [a EXCEPT !.dest_input = 1]
    BY <1>3, <2>1 DEF InputOrder
  <2>3. IsAsg(d) /\ d.descs = a.descs /\ d.assigned = a.assigned /\ SameRest(a, d) /\ d.dest_input = 1
    BY <2>2 DEF IsAsg, AsgSet, SameRest
  <2> QED
    BY <2>3 DEF Ordered
<1> QED
  BY <1>2, <1>3

\* Swapping two inputs that commute describes the same instruction.
LEMMA OrderedOrigin ==
    ASSUME NEW g, NEW a, Origin(g, a), Output(a), 1 \in Given(a), NEW d, NEW swap \in BOOLEAN, Ordered(a, d, swap),
           swap => 2 \in Given(a) /\ ~a.descs[1].clobber /\ ~a.descs[2].clobber
    PROVE  /\ Origin(g, d) /\ Operands(d) = Operands(a) /\ Given(d) = Given(a) /\ Output(d) /\ Dest(d) = Dest(a)
<1>1. /\ IsAsg(d) /\ SameRest(a, d) /\ d.descs[0] = a.descs[0]
      /\ d.descs[1] = (IF swap THEN a.descs[2] ELSE a.descs[1])
      /\ d.descs[2] = (IF swap THEN a.descs[1] ELSE a.descs[2])
  BY DEF Ordered
<1>2. d.ternary = a.ternary /\ ~a.ternary /\ 0 \in Given(a)
  BY <1>1 DEF SameRest, Output
<1>3. \A i \in 0 .. 2 : i = 0 \/ i = 1 \/ i = 2
  OBVIOUS
<1>4. Given(d) = Given(a)
  <2>1. \A i \in 0 .. 2 : i \in Given(d) <=> i \in Given(a)
    <3>1. (0 \in Given(d) <=> 0 \in Given(a))
      BY <1>1 DEF Given
    <3>2. 1 \in Given(d)
      BY <1>1 DEF Given
    <3>3. 2 \in Given(d) <=> 2 \in Given(a)
      BY <1>1 DEF Given
    <3> QED
      BY <1>3, <3>1, <3>2, <3>3
  <2> QED
    BY <2>1 DEF Given
<1>5. Operands(d) = Operands(a) /\ Output(d) /\ Dest(d) = Dest(a) /\ Operands(a) \subseteq {1, 2}
  BY <1>1, <1>2, <1>4 DEF Operands, Inputs, Output, Dest
<1>6. FromForm(d)
  BY <1>1 DEF Origin, FromForm, SameRest
<1>7. \A i \in 0 .. 2 : \E j \in 0 .. 2 : d.descs[i] = a.descs[j] /\ (i \in Operands(a) => j \in Operands(a))
  <2>1. swap => 2 \in Operands(a) /\ 1 \in Operands(a)
    BY <1>2 DEF Operands, Inputs
  <2>2. CASE swap
    <3>1. d.descs[0] = a.descs[0] /\ d.descs[1] = a.descs[2] /\ d.descs[2] = a.descs[1]
      BY <1>1, <2>2
    <3>2. 0 \in 0 .. 2 /\ 1 \in 0 .. 2 /\ 2 \in 0 .. 2
      OBVIOUS
    <3> QED
      BY <1>3, <1>5, <2>1, <2>2, <3>1, <3>2
  <2>3. CASE ~swap
    BY <1>1, <1>3, <2>3
  <2> QED
    BY <2>2, <2>3
<1>8. FromArgs(g, d)
  <2>1. FromArgs(g, a)
    BY DEF Origin
  <2>2. d.after = a.after /\ d.args = a.args /\ d.form = a.form /\ d.memory = a.memory
    BY <1>1 DEF SameRest
  <2>3. \A i \in 0 .. 2 : /\ d.descs[i].live <=> IsLive(d.after, d.descs[i].value)
                          /\ d.descs[i].used <=> IsUsed(d.after, d.descs[i].value)
                          /\ ~d.descs[i].thrash /\ ~d.descs[i].store /\ ~d.descs[i].copy /\ ~d.descs[i].kill
    BY <1>7, <2>1, <2>2 DEF FromArgs
  <2>4. \A i \in Operands(d) : \E j \in 0 .. 2 : /\ Val(d, i) = d.args[j] /\ (j > 0 \/ d.ternary)
                                                /\ d.form.operands[j].kind \in {"reg", "local"}
    <3> TAKE i \in Operands(d)
    <3>1. i \in 0 .. 2 /\ i \in Operands(a)
      BY <1>5
    <3>2. PICK k \in 0 .. 2 : d.descs[i] = a.descs[k] /\ k \in Operands(a)
      BY <1>7, <3>1
    <3>3. Val(d, i) = Val(a, k)
      BY <3>2 DEF Val
    <3> QED
      BY <1>2, <2>1, <2>2, <3>2, <3>3 DEF FromArgs
  <2>5. Val(d, 0) = d.args[0]
    BY <1>1, <1>2, <2>1, <2>2 DEF FromArgs, Val
  <2> QED
    BY <2>1, <2>2, <2>3, <2>4, <2>5 DEF FromArgs
<1>9. Operated(g, d)
  <2>1. Operated(g, a)
    BY DEF Origin
  <2>2. d.form = a.form /\ d.copy = a.copy /\ d.free = a.free
    BY <1>1 DEF SameRest
  <2>3. ASSUME NEW i \in Operands(d), d.descs[i].clobber
        PROVE  i = 1 /\ ~d.ternary /\ ~d.copy /\ d.form.name \notin {"set_param", "incoming"}
    <3>1. ~swap
      BY <1>1, <1>5, <2>3
    <3>2. d.descs[i] = a.descs[i] /\ i \in Operands(a)
      BY <1>1, <1>5, <3>1
    <3> QED
      BY <1>2, <2>1, <2>2, <2>3, <3>2 DEF Operated
  <2>4. d.form.name # "incoming"
    BY <2>1, <2>2 DEF Operated
  <2> QED
    BY <1>1, <1>4, <1>5, <2>1, <2>2, <2>3, <2>4 DEF Operated
<1> QED
  BY <1>1, <1>4, <1>5, <1>6, <1>8, <1>9 DEF Origin

\* The result and the first operand of an operation with two addresses.
LEMMA Tied ==
    ASSUME Static, NEW g, NEW a, Origin(g, a), Placed(global, permanent, g, a), Fresh(permanent, a),
           Output(a), ~a.free, NEW r \in Regs, r \in permanent => r = global[Dest(a)],
           Reg(a, 2) # r, Reg(a, 1) \in {r, NoReg}, a.commutative => Reg(a, 1) = NoReg,
           NEW c, c = SetRegister(a, 0, r), NEW d, d = InputOrder(g, c), NEW h, h = TieInput(d)
    PROVE  Origin(g, h) /\ Placed(global, permanent, g, h) /\ SameRest(a, h)
<1>1. Registered(a, 0, r, c)
  BY SetRegisterEffect DEF Origin
<1>2. /\ IsAsg(c) /\ SameBut(a, c)
      /\ \A j \in 0 .. 2 : /\ c.descs[j].reg = IF j = 0 THEN r ELSE a.descs[j].reg
                           /\ c.descs[j].duplicate = a.descs[j].duplicate
      /\ a.assigned \subseteq c.assigned
  BY <1>1 DEF Registered
<1>3. Origin(g, c)
  BY <1>2, OriginSame
<1>4. /\ Given(c) = Given(a) /\ Operands(c) = Operands(a) /\ Output(c) /\ Dest(c) = Dest(a)
  BY <1>2, SameSets
<1>5. 1 \in Given(a) /\ 0 \in Given(a) /\ ~a.ternary /\ g.inhibit = {} /\ ~a.descs[0].early
  BY DEF Origin, Operated, Output
<1>6. PICK swap \in BOOLEAN : Ordered(c, d, swap) /\ (swap => c.commutative /\ 2 \in Given(c))
  <2>1. Ordered(c, d, FALSE) \/ (c.commutative /\ 2 \in Given(c) /\ Ordered(c, d, TRUE))
    BY <1>2, <1>4, <1>5, OrderEffect
  <2>2. \A x \in BOOLEAN : Ordered(c, d, x) /\ (x => c.commutative /\ 2 \in Given(c)) =>
           \E swap \in BOOLEAN : Ordered(c, d, swap) /\ (swap => c.commutative /\ 2 \in Given(c))
    OBVIOUS
  <2>3. TRUE \in BOOLEAN /\ FALSE \in BOOLEAN
    OBVIOUS
  <2> QED
    BY <2>1, <2>2, <2>3
<1>7. c.commutative = a.commutative /\ \A j \in 0 .. 2 : c.descs[j].clobber = a.descs[j].clobber
  BY <1>2 DEF SameBut, SameRest, SameDesc
<1>8. Origin(g, d) /\ Operands(d) = Operands(a) /\ Given(d) = Given(a) /\ Output(d) /\ Dest(d) = Dest(a)
  <2>1. swap => 2 \in Given(c) /\ ~c.descs[1].clobber /\ ~c.descs[2].clobber
    BY <1>6, <1>7 DEF Fresh
  <2>2. 1 \in Given(c)
    BY <1>4, <1>5
  <2>3. Origin(g, d) /\ Operands(d) = Operands(c) /\ Given(d) = Given(c) /\ Output(d) /\ Dest(d) = Dest(c)
    BY <1>3, <1>4, <1>6, <2>1, <2>2, OrderedOrigin
  <2> QED
    BY <1>4, <2>3
<1>9. d.descs[0].reg = r /\ d.dest_input = 1
  BY <1>2, <1>6 DEF Ordered
<1>10. h = SetRegister(d, 1, r)
  BY <1>9 DEF TieInput
<1>11. Registered(d, 1, r, h)
  BY <1>8, <1>10, SetRegisterEffect DEF Origin
<1>12. /\ IsAsg(h) /\ SameBut(d, h)
       /\ \A j \in 0 .. 2 : /\ h.descs[j].reg = IF j = 1 THEN r ELSE d.descs[j].reg
                            /\ h.descs[j].duplicate = d.descs[j].duplicate
       /\ h.assigned = d.assigned \cup {r}
  BY <1>11 DEF Registered
<1>13. Origin(g, h)
  BY <1>8, <1>12, OriginSame
<1>14. Operands(h) = Operands(a) /\ Given(h) = Given(a) /\ Output(h) /\ Dest(h) = Dest(a)
  BY <1>8, <1>12, SameSets
<1>15. SameRest(a, h)
  <2>1. SameRest(a, c) /\ SameRest(c, d) /\ SameRest(d, h)
    BY <1>2, <1>6, <1>12 DEF SameBut, Ordered
  <2> QED
    BY <2>1 DEF SameRest
<1>16. \A i \in 0 .. 2 : i = 0 \/ i = 1 \/ i = 2
  OBVIOUS
<1>17. \A i \in 0 .. 2 : ~h.descs[i].duplicate
  <2>1. \A i \in 0 .. 2 : ~a.descs[i].duplicate
    BY DEF Fresh
  <2>2. \A i \in 0 .. 2 : ~c.descs[i].duplicate
    BY <1>2, <2>1
  <2>3. \A i \in 0 .. 2 : ~d.descs[i].duplicate
    BY <1>6, <1>16, <2>2 DEF Ordered
  <2> QED
    BY <1>12, <2>3
<1>18. Reg(h, 0) = r /\ Reg(h, 1) = r /\ Reg(h, 2) # r /\ (Reg(h, 2) # NoReg => Reg(h, 2) = Reg(a, 2) /\ d.descs[2] = c.descs[2])
  <2>1. c.descs[1].reg = a.descs[1].reg /\ c.descs[2].reg = a.descs[2].reg
    BY <1>2
  <2>2. h.descs[0].reg = d.descs[0].reg /\ h.descs[1].reg = r /\ h.descs[2].reg = d.descs[2].reg
    BY <1>12
  <2>3. d.descs[2] = IF swap THEN c.descs[1] ELSE c.descs[2]
    BY <1>6 DEF Ordered
  <2>4. swap => c.descs[1].reg = NoReg
    BY <1>6, <1>7, <2>1 DEF Reg
  <2>5. r # NoReg
    BY NoRegApart
  <2> QED
    BY <1>9, <2>1, <2>2, <2>3, <2>4, <2>5 DEF Reg
<1>19. Single(h) = Operands(h) /\ Operands(h) \subseteq {1, 2}
  <2>1. Operands(a) \subseteq {1, 2}
    BY <1>5 DEF Operands, Inputs
  <2> QED
    BY <1>14, <1>17, <2>1 DEF Single
<1>20. 2 \in Chosen(h) => 2 \in Chosen(a)
  BY <1>14, <1>18 DEF Chosen
<1>21. a.assigned \subseteq h.assigned /\ r \in h.assigned
  BY <1>2, <1>6, <1>12 DEF Ordered
<1>22. Held(g, h)
  <2>1. \A i \in 0 .. 2 : i \notin Given(h) => Reg(h, i) = NoReg /\ ~h.descs[i].duplicate
    <3>1. 2 \notin Given(h) => Reg(h, 2) = NoReg
      <4>1. 2 \notin Given(a) => Reg(a, 2) = NoReg
        BY DEF Placed, Held
      <4> QED
        BY <1>14, <1>18, <4>1
    <3> QED
      BY <1>5, <1>14, <1>16, <1>17, <3>1
  <2>2. \A i \in Chosen(h) : Reg(h, i) \in h.assigned /\ Reg(h, i) \notin g.inhibit
    <3> SUFFICES ASSUME NEW i \in Chosen(h)
                 PROVE  Reg(h, i) \in h.assigned
      BY <1>5
    <3>1. i = 1 \/ i = 2
      BY <1>19 DEF Chosen
    <3>2. CASE i = 1
      BY <1>18, <1>21, <3>2
    <3>3. CASE i = 2
      <4>1. Reg(a, 2) \in a.assigned
        BY <1>20, <3>3 DEF Placed, Held
      <4>2. Reg(h, 2) = Reg(a, 2)
        BY <1>18, <3>3 DEF Chosen
      <4> QED
        BY <1>21, <3>3, <4>1, <4>2
    <3> QED
      BY <3>1, <3>2, <3>3
  <2>3. \A i, j \in Chosen(h) \cap Single(h) : i # j => Reg(h, i) # Reg(h, j)
    BY <1>18, <1>19 DEF Chosen
  <2> QED
    BY <1>5, <1>19, <2>1, <2>2, <2>3 DEF Held
<1>23. Global(global, permanent, h)
  <2>1. Reg(h, 2) \notin permanent
    <3>1. Reg(a, 2) \notin permanent
      BY DEF Fresh
    <3>2. NoReg \notin permanent
      BY NoRegApart DEF Static, StaticOK
    <3> QED
      BY <1>18, <3>1, <3>2
  <2>2. \A i \in Chosen(h) : i = 1 \/ i = 2
    BY <1>19 DEF Chosen
  <2> QED
    BY <1>14, <1>18, <2>1, <2>2 DEF Global
<1>24. ResultHeld(global, permanent, h)
  <2>1. ~h.descs[0].early
    <3>1. h.descs[0].early = d.descs[0].early /\ d.descs[0] = c.descs[0] /\ c.descs[0].early = a.descs[0].early
      BY <1>2, <1>6, <1>12 DEF SameBut, SameDesc, Ordered
    <3> QED
      BY <1>5, <3>1, SMTT(60)
  <2> QED
    BY <1>14, <1>17, <1>18, <2>1 DEF ResultHeld
<1> QED
  BY <1>13, <1>15, <1>22, <1>23, <1>24 DEF Placed

\* The result of an operation with a place of its own for it.
LEMMA OutputPlaced ==
    ASSUME Static, NEW g, NEW a, Origin(g, a), Placed(global, permanent, g, a), Fresh(permanent, a),
           Output(a), a.free, NEW r \in Regs, r \in permanent => r = global[Dest(a)],
           NEW h, h = SetRegister(a, 0, r)
    PROVE  Origin(g, h) /\ Placed(global, permanent, g, h) /\ SameRest(a, h)
<1>1. Registered(a, 0, r, h)
  BY SetRegisterEffect DEF Origin
<1>2. /\ IsAsg(h) /\ SameBut(a, h)
      /\ \A j \in 0 .. 2 : /\ h.descs[j].reg = IF j = 0 THEN r ELSE a.descs[j].reg
                           /\ h.descs[j].duplicate = a.descs[j].duplicate
      /\ h.assigned = IF a.ternary \/ a.descs[0].early THEN a.assigned \cup {r} ELSE a.assigned
  BY <1>1 DEF Registered
<1>3. Origin(g, h) /\ SameRest(a, h)
  BY <1>2, OriginSame DEF SameBut
<1>4. /\ Given(h) = Given(a) /\ Operands(h) = Operands(a) /\ Output(h) /\ Dest(h) = Dest(a)
      /\ \A j \in 0 .. 2 : Val(h, j) = Val(a, j)
  BY <1>2, SameSets
<1>5. ~a.ternary /\ 0 \in Given(a)
  BY DEF Output
<1>6. \A i \in Operands(a) : i \in 0 .. 2 /\ i # 0
  BY <1>5 DEF Operands, Inputs
<1>7. \A i \in 0 .. 2 : Reg(h, i) = IF i = 0 THEN r ELSE Reg(a, i)
  BY <1>2 DEF Reg
<1>8. Single(h) = Operands(h) /\ Single(a) = Operands(a)
  BY <1>2, <1>4, <1>6 DEF Single, Fresh
<1>9. Chosen(h) = Chosen(a) /\ \A i \in Chosen(a) : i \in 0 .. 2 /\ Reg(h, i) = Reg(a, i)
  BY <1>4, <1>6, <1>7 DEF Chosen
<1>10. a.assigned \subseteq h.assigned
  BY <1>2
<1>11. Held(g, a) /\ Global(global, permanent, a)
  BY DEF Placed
<1>12. Held(g, h)
  <2>1. \A i \in 0 .. 2 : i \notin Given(h) => Reg(h, i) = NoReg /\ ~h.descs[i].duplicate
    BY <1>2, <1>4, <1>5, <1>7, <1>11 DEF Held
  <2>2. g.inhibit \subseteq a.assigned /\ \A i \in Chosen(a) : Reg(a, i) \in a.assigned /\ Reg(a, i) \notin g.inhibit
    BY <1>11 DEF Held
  <2>3. \A i, j \in Chosen(a) \cap Single(a) : i # j => Reg(a, i) # Reg(a, j)
    BY <1>11 DEF Held
  <2>4. \A i, j \in Chosen(h) \cap Single(h) : i # j => Reg(h, i) # Reg(h, j)
    BY <1>4, <1>8, <1>9, <2>3
  <2>5. \A i \in Chosen(h) : Reg(h, i) \in h.assigned /\ Reg(h, i) \notin g.inhibit
    BY <1>9, <1>10, <2>2
  <2> QED
    BY <1>8, <1>10, <2>1, <2>2, <2>4, <2>5 DEF Held
<1>13. Global(global, permanent, h)
  <2>1. \A i \in 0 .. 2 : h.descs[i].clobber = a.descs[i].clobber
    BY <1>2 DEF SameBut, SameDesc
  <2> QED
    BY <1>4, <1>8, <1>9, <1>11, <2>1, SMTT(60) DEF Global
<1>14. ResultHeld(global, permanent, h)
  <2>1. h.free = a.free /\ h.descs[0].early = a.descs[0].early
    <3>1. SameRest(a, h) /\ SameDesc(a.descs[0], h.descs[0])
      BY <1>2 DEF SameBut
    <3> QED
      BY <3>1 DEF SameRest, SameDesc
  <2>2. ~h.descs[0].duplicate /\ Reg(h, 0) = r
    BY <1>2, <1>7 DEF Fresh
  <2>3. a.descs[0].early => Chosen(h) = {} /\ r \in h.assigned
    BY <1>2, <1>9 DEF Fresh
  <2> QED
    BY <1>4, <2>1, <2>2, <2>3 DEF ResultHeld
<1> QED
  BY <1>3, <1>12, <1>13, <1>14 DEF Placed

\* check_duplicate_value, of any two operands.
LEMMA ShareKept ==
    ASSUME Static, NEW g, GenOK(global, g), NEW a, Origin(g, a), Placed(global, permanent, g, a),
           NEW i \in 0 .. 2, NEW j \in 0 .. 2, i # j, i > 0 \/ a.ternary, j = 2 \/ a.ternary
    PROVE  Kept2(global, permanent, g, a, ShareRegister(g, a, i, j))
<1>1. CASE ValuesEqual(g, a.descs[i], a.descs[j])
  <2>1. i \in Given(a) /\ j \in Given(a)
    BY <1>1 DEF ValuesEqual, Given
  <2>2. i \in Operands(a) /\ j \in Operands(a)
    BY <2>1 DEF Operands, Inputs
  <2> QED
    BY <2>2, SharePlaced
<1>2. CASE ~ValuesEqual(g, a.descs[i], a.descs[j])
  <2>1. ShareRegister(g, a, i, j) = a
    BY <1>2 DEF ShareRegister
  <2> QED
    BY <2>1, Kept2Same
<1> QED
  BY <1>1, <1>2

\* The registers of the inputs.
LEMMA InputsAssigned ==
    ASSUME Static, NEW g, GenOK(global, g), Loose(permanent, g), NEW a, Origin(g, a), Placed(global, permanent, g, a)
    PROVE  Kept2(global, permanent, g, a, AssignInputs(g, a))
<1> DEFINE b == ChooseInput(g, a, 1)
           c == ShareRegister(g, b, 1, 2)
           d == ChooseInput(g, c, 2)
<1>1. Kept2(global, permanent, g, a, b)
  BY InputChosen
<1>2. Origin(g, b) /\ Placed(global, permanent, g, b)
  BY <1>1, Kept2Origin
<1>3. Kept2(global, permanent, g, b, c)
  <2> HIDE DEF b
  <2> QED
    BY <1>2, ShareKept
<1>4. Origin(g, c) /\ Placed(global, permanent, g, c)
  <2> HIDE DEF b, c
  <2> QED
    BY <1>2, <1>3, Kept2Origin
<1>5. Kept2(global, permanent, g, c, d)
  <2> HIDE DEF c
  <2> QED
    BY <1>4, InputChosen
<1>6. Kept2(global, permanent, g, a, d)
  <2> HIDE DEF b, c, d
  <2>1. Kept2(global, permanent, g, a, c)
    BY <1>1, <1>3, Kept2Trans
  <2> QED
    BY <1>5, <2>1, Kept2Trans
<1> QED
  BY <1>6 DEF AssignInputs

\* An operation of three operands that are all read.
LEMMA TernaryPlaced ==
    ASSUME Static, NEW g, GenOK(global, g), Loose(permanent, g), NEW a, Origin(g, a),
           Placed(global, permanent, g, a), a.ternary, NEW h, h = Follow(g, PlaceOutput(g, TieOutput(a)))
    PROVE  Kept2(global, permanent, g, a, h)
<1> DEFINE b == PlaceOutput(g, a)
           c == ShareRegister(g, b, 0, 1)
           d == ShareRegister(g, c, 0, 2)
<1>1. TieOutput(a) = a
  BY DEF TieOutput
<1>2. b = a \/ b = ChooseInput(g, a, 0)
  BY DEF PlaceOutput
<1>3. Kept2(global, permanent, g, a, b)
  <2> HIDE DEF b
  <2> QED
    BY <1>2, InputChosen, Kept2Same
<1>4. Origin(g, b) /\ Placed(global, permanent, g, b) /\ b.ternary
  <2> HIDE DEF b
  <2> QED
    BY <1>3, Kept2Origin
<1>5. h = d
  BY <1>1, <1>4 DEF Follow
<1> HIDE DEF b
<1>6. Kept2(global, permanent, g, b, c)
  BY <1>4, ShareKept
<1>7. Origin(g, c) /\ Placed(global, permanent, g, c) /\ c.ternary
  <2> HIDE DEF c
  <2> QED
    BY <1>4, <1>6, Kept2Origin
<1> HIDE DEF c
<1>8. Kept2(global, permanent, g, c, d)
  BY <1>7, ShareKept
<1>9. Kept2(global, permanent, g, a, c)
  BY <1>3, <1>6, Kept2Trans
<1> HIDE DEF d
<1>10. Kept2(global, permanent, g, a, d)
  BY <1>8, <1>9, Kept2Trans
<1> QED
  BY <1>5, <1>10

\* An operation with a place of its own for the result.
LEMMA FreePlaced ==
    ASSUME Static, NEW g, GenOK(global, g), NEW a, Origin(g, a), Placed(global, permanent, g, a), Fresh(permanent, a),
           Output(a), a.free, NEW h, h = Follow(g, PlaceOutput(g, TieOutput(a)))
    PROVE  Origin(g, h) /\ Placed(global, permanent, g, h) /\ SameRest(a, h)
<1> DEFINE b == PlaceOutput(g, a)
<1>1. TieOutput(a) = a /\ ~a.ternary
  BY DEF TieOutput, Output
<1>2. b = a \/ b = ChooseOutput(g, a)
  BY <1>1 DEF PlaceOutput
<1> HIDE DEF b
<1>3. SameRest(a, a)
  BY DEF SameRest
<1>4. Origin(g, b) /\ Placed(global, permanent, g, b) /\ SameRest(a, b)
  <2>1. CASE b = a
    BY <1>3, <2>1
  <2>2. CASE b = ChooseOutput(g, a)
    <3>1. b = a \/ \E r \in ToSet(a.descs[0].class) :
             b = SetRegister(a, 0, r) /\ r \in Regs /\ r \notin g.inhibit /\ (r \in permanent => r = global[Dest(a)])
      BY <2>2, OutputChosen
    <3> QED
      BY <1>3, <3>1, OutputPlaced
  <2> QED
    BY <1>2, <2>1, <2>2
<1>5. h = b
  BY <1>1, <1>4 DEF Follow, b, SameRest
<1> QED
  BY <1>4, <1>5

\* An operation with two addresses.
LEMMA TwoAddresses ==
    ASSUME Static, NEW g, GenOK(global, g), NEW a, Origin(g, a), Placed(global, permanent, g, a), Fresh(permanent, a),
           Output(a), ~a.free, NEW h, h = Follow(g, PlaceOutput(g, TieOutput(a)))
    PROVE  Origin(g, h) /\ Placed(global, permanent, g, h) /\ SameRest(a, h)
<1>1. ~a.ternary /\ 0 \in Given(a) /\ 1 \in Given(a) /\ g.inhibit = {}
  BY DEF Output, Origin, Operated
<1>2. Reg(a, 0) = NoReg /\ a.descs[0].reg = NoReg
  BY DEF Fresh, Reg
<1>3. SameRest(a, a)
  BY DEF SameRest
<1>4. \A i \in 0 .. 2 : Reg(a, i) \in Regs \cup {NoReg}
  <2>1. a.descs \in [0 .. 2 -> Descs]
    BY AsgFields DEF Origin
  <2> QED
    BY <2>1, DescFields DEF Reg
<1>5. ASSUME NEW r \in Regs, NEW c, c = SetRegister(a, 0, r)
      PROVE  c.descs[0].reg = r /\ c.ternary = a.ternary /\ c.free = a.free
  <2>1. Registered(a, 0, r, c)
    BY <1>5, SetRegisterEffect DEF Origin
  <2> QED
    BY <2>1 DEF Registered, SameBut, SameRest
<1>6. CASE Reg(a, 1) # NoReg
  <2> DEFINE r == Reg(a, 1)
             c == SetRegister(a, 0, r)
             d == InputOrder(g, c)
  <2>1. r \in Regs /\ r # NoReg
    BY <1>4, <1>6
  <2>2. TieOutput(a) = c
    BY <1>1, <1>2 DEF TieOutput, Given, Reg
  <2> HIDE DEF r
  <2>3. c.descs[0].reg = r /\ c.ternary = a.ternary /\ c.free = a.free
    BY <1>5, <2>1
  <2> HIDE DEF c
  <2>4. PlaceOutput(g, c) = c
    BY <2>1, <2>3 DEF PlaceOutput
  <2>5. h = TieInput(d)
    BY <1>1, <2>1, <2>2, <2>3, <2>4 DEF Follow
  <2>6. 1 \in Chosen(a) /\ 1 \in Single(a)
    BY <1>1, <1>6 DEF Chosen, Single, Operands, Inputs, Fresh
  <2>7. Reg(a, 2) # r
    <3>1. CASE Reg(a, 2) = NoReg
      BY <2>1, <3>1
    <3>2. CASE Reg(a, 2) # NoReg
      <4>1. 2 \in Given(a)
        BY <3>2 DEF Placed, Held
      <4>2. 2 \in Chosen(a) /\ 2 \in Single(a)
        BY <1>1, <3>2, <4>1 DEF Chosen, Single, Operands, Inputs, Fresh
      <4> QED
        BY <2>6, <4>2 DEF Placed, Held, r
    <3> QED
      BY <3>1, <3>2
  <2>8. r \notin permanent
    BY DEF Fresh, r
  <2>9. Reg(a, 1) \in {r, NoReg} /\ (a.commutative => Reg(a, 1) = NoReg)
    BY DEF Fresh, r
  <2>10. c = SetRegister(a, 0, r) /\ d = InputOrder(g, c)
    BY DEF c
  <2> HIDE DEF d
  <2> QED
    BY <2>1, <2>5, <2>7, <2>8, <2>9, <2>10, Tied
<1>7. CASE Reg(a, 1) = NoReg
  <2>1. TieOutput(a) = a
    BY <1>1, <1>2, <1>7 DEF TieOutput, SetRegister, Reg
  <2> DEFINE c == ChooseOutput(g, a)
             d == InputOrder(g, c)
  <2>2. PlaceOutput(g, a) = c
    BY <1>1, <1>2 DEF PlaceOutput
  <2>3. c = a \/ \E r \in ToSet(a.descs[0].class) :
           c = SetRegister(a, 0, r) /\ r \in Regs /\ r \notin g.inhibit /\ (r \in permanent => r = global[Dest(a)])
    BY OutputChosen
  <2> HIDE DEF c
  <2>4. CASE c = a
    <3>1. h = a
      BY <1>1, <1>2, <2>1, <2>2, <2>4 DEF Follow
    <3> QED
      BY <1>3, <3>1
  <2>5. CASE \E r \in ToSet(a.descs[0].class) :
           c = SetRegister(a, 0, r) /\ r \in Regs /\ r \notin g.inhibit /\ (r \in permanent => r = global[Dest(a)])
    <3>1. PICK r \in ToSet(a.descs[0].class) :
           c = SetRegister(a, 0, r) /\ r \in Regs /\ r \notin g.inhibit /\ (r \in permanent => r = global[Dest(a)])
      BY <2>5
    <3>2. c.descs[0].reg = r /\ c.ternary = a.ternary /\ c.free = a.free /\ r # NoReg
      BY <1>5, <3>1, NoRegApart
    <3>3. h = TieInput(d)
      BY <1>1, <2>1, <2>2, <3>2 DEF Follow
    <3>4. Reg(a, 2) # r
      BY <3>1 DEF Fresh
    <3>5. d = InputOrder(g, c)
      OBVIOUS
    <3> HIDE DEF d
    <3> QED
      BY <1>7, <3>1, <3>3, <3>4, <3>5, Tied
  <2> QED
    BY <2>3, <2>4, <2>5
<1> QED
  BY <1>6, <1>7

\* The register of the result is chosen.
LEMMA OutputAssigned ==
    ASSUME Static, NEW g, GenOK(global, g), Loose(permanent, g), NEW a, Origin(g, a),
           Placed(global, permanent, g, a), Fresh(permanent, a), NEW h, h = AssignOutput(g, a)
    PROVE  Origin(g, h) /\ Placed(global, permanent, g, h) /\ SameRest(a, h) /\ (0 \notin Given(a) => h = a)
<1>0. a.descs[0].value = NoValue <=> 0 \notin Given(a)
  BY DEF Given
<1>1. CASE 0 \notin Given(a)
  <2>1. h = a
    BY <1>0, <1>1 DEF AssignOutput
  <2> QED
    BY <2>1 DEF SameRest
<1>2. CASE 0 \in Given(a)
  <2>1. h = Follow(g, PlaceOutput(g, TieOutput(a)))
    BY <1>0, <1>2 DEF AssignOutput
  <2>2. CASE a.ternary
    <3>1. Kept2(global, permanent, g, a, h)
      BY <2>1, <2>2, TernaryPlaced
    <3> QED
      BY <1>2, <3>1, Kept2Origin DEF Kept2, SameBut
  <2>3. CASE ~a.ternary
    <3>1. Output(a)
      BY <1>2, <2>3, SMTT(60) DEF Output
    <3> QED
      BY <1>2, <2>1, <3>1, FreePlaced, TwoAddresses
  <2> QED
    BY <2>2, <2>3
<1> QED
  BY <1>1, <1>2

\* Records with the same operands and registers: transitivity.
LEMMA CoreTrans ==
    ASSUME NEW a, NEW b, NEW c, SameCore(a, b), SameCore(b, c)
    PROVE  SameCore(a, c)
  BY DEF SameCore

\* Such records have the same sets of operands.
LEMMA CoreSets ==
    ASSUME NEW a, NEW b, SameCore(a, b)
    PROVE  /\ Given(b) = Given(a) /\ Operands(b) = Operands(a) /\ Single(b) = Single(a) /\ Output(b) = Output(a)
           /\ Dest(b) = Dest(a) /\ Reads(b) = Reads(a)
           /\ \A i \in 0 .. 2 : Val(b, i) = Val(a, i) /\ Reg(b, i) = Reg(a, i)
<1>1. \A i \in 0 .. 2 : /\ b.descs[i].value = a.descs[i].value /\ b.descs[i].reg = a.descs[i].reg
                        /\ b.descs[i].duplicate = a.descs[i].duplicate
  BY DEF SameCore
<1>2. b.ternary = a.ternary
  BY DEF SameCore
<1>3. Given(b) = Given(a) /\ Operands(b) = Operands(a)
  BY <1>1, <1>2 DEF Given, Inputs, Operands
<1>4. \A i \in Operands(a) : i \in 0 .. 2
  BY DEF Operands, Given
<1>5. Single(b) = Single(a)
  BY <1>1, <1>3, <1>4 DEF Single
<1>6. Reads(b) = Reads(a)
  BY <1>1, <1>3, <1>4 DEF Reads, Val
<1> QED
  BY <1>1, <1>2, <1>3, <1>5, <1>6 DEF Output, Dest, Val, Reg

\* Setting flags leaves a sound record sound.
LEMMA CoreSound ==
    ASSUME NEW g, NEW a, Sound(global, permanent, g, a), NEW b, SameCore(a, b), Spoiled(permanent, b)
    PROVE  Sound(global, permanent, g, b)
<1>1. /\ Given(b) = Given(a) /\ Operands(b) = Operands(a) /\ Single(b) = Single(a) /\ Output(b) = Output(a)
      /\ Dest(b) = Dest(a)
      /\ \A i \in 0 .. 2 : Val(b, i) = Val(a, i) /\ Reg(b, i) = Reg(a, i)
  BY CoreSets
<1>2. \A i \in Operands(a) : i \in 0 .. 2
  BY DEF Operands, Given
<1>3. /\ b.ternary = a.ternary /\ b.free = a.free /\ b.copy = a.copy /\ b.form = a.form /\ b.args = a.args
      /\ b.after = a.after /\ b.memory = a.memory /\ a.assigned \subseteq b.assigned /\ b.commutative = a.commutative
  BY DEF SameCore
<1>4. \A j \in 0 .. 2 :
        /\ b.descs[j].value = a.descs[j].value /\ b.descs[j].class = a.descs[j].class
        /\ b.descs[j].live = a.descs[j].live
        /\ b.descs[j].used = a.descs[j].used /\ b.descs[j].clobber = a.descs[j].clobber
        /\ b.descs[j].early = a.descs[j].early /\ b.descs[j].duplicate = a.descs[j].duplicate
  BY SMTT(60) DEF SameCore
<1>5. FromForm(b)
  BY <1>3 DEF Sound, FromForm
<1>6. Listed(g, b)
  <2>1. Listed(g, a)
    BY DEF Sound
  <2>2. \A i \in 0 .. 2 : /\ b.descs[i].live <=> IsLive(b.after, b.descs[i].value)
                          /\ b.descs[i].used <=> IsUsed(b.after, b.descs[i].value)
    BY <1>3, <1>4, <2>1 DEF Listed
  <2>3. \A i \in Operands(b) : \E j \in 0 .. 2 : /\ Val(b, i) = b.args[j] /\ (j > 0 \/ b.ternary)
                                                /\ b.form.operands[j].kind \in {"reg", "local"}
    BY <1>1, <1>2, <1>3, <2>1 DEF Listed
  <2> QED
    BY <1>1, <1>3, <2>1, <2>2, <2>3 DEF Listed
<1>7. Operated(g, b)
  <2>1. Operated(g, a)
    BY DEF Sound
  <2> QED
    BY <1>1, <1>2, <1>3, <1>4, <2>1 DEF Operated
<1>8. Chosen(b) = Chosen(a)
  BY <1>1, <1>2 DEF Chosen
<1>9. Held(g, b)
  <2>1. Held(g, a)
    BY DEF Sound, Placed
  <2>2. \A i \in Chosen(a) : i \in 0 .. 2
    BY <1>2 DEF Chosen
  <2>3. \A i \in Operands(b) \ Single(b) :
           /\ i = 2 \/ b.ternary
           /\ \E j \in Chosen(b) \cap Single(b) : Reg(b, j) = Reg(b, i) /\ Equal(g, Val(b, i), Val(b, j))
    <3> TAKE i \in Operands(b) \ Single(b)
    <3>1. i \in Operands(a) \ Single(a) /\ i \in 0 .. 2
      BY <1>1, <1>2
    <3>2. PICK j \in Chosen(a) \cap Single(a) : Reg(a, j) = Reg(a, i) /\ Equal(g, Val(a, i), Val(a, j))
      BY <2>1, <3>1 DEF Held
    <3> QED
      BY <1>1, <1>3, <1>8, <2>1, <2>2, <3>1, <3>2 DEF Held
  <2>4. \A i, j \in Chosen(b) \cap Single(b) : i # j => Reg(b, i) # Reg(b, j)
    BY <1>1, <1>8, <2>1, <2>2 DEF Held
  <2> QED
    BY <1>1, <1>3, <1>4, <1>8, <2>1, <2>2, <2>3, <2>4 DEF Held
<1>10. Global(global, permanent, b)
  BY <1>1, <1>2, <1>4, <1>8 DEF Sound, Placed, Global, Chosen
<1>11. ResultHeld(global, permanent, b)
  <2>1. ResultHeld(global, permanent, a)
    BY DEF Sound, Placed
  <2>2. \A i \in Chosen(a) : i \in 0 .. 2
    BY <1>2 DEF Chosen
  <2> QED
    BY <1>1, <1>3, <1>4, <1>8, <2>1, <2>2 DEF ResultHeld
<1>12. IsAsg(b) /\ DOMAIN b.scratch = DOMAIN b.form.scratch
  BY <1>3 DEF Sound, SameCore
<1>13. \A i \in Given(b) : Reg(b, i) # NoReg
  BY <1>1 DEF Sound, Given
<1> QED
  BY <1>5, <1>6, <1>7, <1>9, <1>10, <1>11, <1>12, <1>13 DEF Sound, Placed

\* All registers have been chosen but the scratch ones.
LEMMA RegistersChosen ==
    ASSUME Static, NEW f, NEW form, NEW args, NEW after, Asked(global, permanent, f, form, args, after),
           NEW m, m = AssignInputs(f, AssignOutput(f, Describe(f, form, args, after))), Complete(f, m).ok
    PROVE  /\ Sound(global, permanent, f, m) /\ \A i \in 0 .. 2 : Unset(m.descs[i])
           /\ m.form = form /\ m.args = args /\ m.after = after
           /\ Complete(f, m) = SetFlags(f, SetFlags(f, SetFlags(f, ChooseScratch(f, ChooseScratch(f, m, 1), 2), 0), 1), 2)
<1> DEFINE h == Describe(f, form, args, after)
           o == AssignOutput(f, h)
<1>1. GenOK(global, f) /\ Loose(permanent, f) /\ form \in Forms
  BY DEF Asked
<1>2. /\ Described(permanent, f, form, args, after, h) /\ Origin(f, h)
      /\ Placed(global, permanent, f, h) /\ Spoiled(permanent, h) /\ Fresh(permanent, h)
  <2>1. h = Describe(f, form, args, after)
    OBVIOUS
  <2> HIDE DEF h
  <2> QED
    BY <2>1, DescribeFields, DescribeOrigin, DescribeRight
<1> HIDE DEF h
<1>3. Origin(f, o) /\ Placed(global, permanent, f, o) /\ SameRest(h, o)
  <2>1. o = AssignOutput(f, h)
    OBVIOUS
  <2> HIDE DEF o
  <2> QED
    BY <1>1, <1>2, <2>1, OutputAssigned
<1> HIDE DEF o
<1>4. Kept2(global, permanent, f, o, m)
  <2>1. m = AssignInputs(f, o)
    BY DEF o, h
  <2> QED
    BY <1>1, <1>3, <2>1, InputsAssigned
<1>5. Origin(f, m) /\ Placed(global, permanent, f, m)
  BY <1>3, <1>4, Kept2Origin
<1>6. SameRest(o, m)
  BY <1>4 DEF Kept2, SameBut
<1>7. SameRest(h, m)
  BY <1>3, <1>6 DEF SameRest
<1>8. Spoiled(permanent, m)
  BY <1>2, <1>7 DEF Spoiled, SameRest
<1>9. m.form = form /\ m.args = args /\ m.after = after /\ DOMAIN m.scratch = DOMAIN form.scratch
  <2>1. /\ h.scratch = [k \in DOMAIN form.scratch |-> form.scratch[k].fixed]
        /\ h.form = form /\ h.args = args /\ h.after = after
    BY <1>2 DEF Described
  <2> QED
    BY <1>7, <2>1 DEF SameRest
<1>10. \A i \in Given(m) : m.descs[i].reg # NoReg
  <2> SUFFICES ASSUME \E i \in Given(m) : m.descs[i].reg = NoReg
               PROVE  FALSE
    OBVIOUS
  <2>1. Complete(f, m) = [m EXCEPT !.ok = FALSE]
    BY DEF Complete
  <2>2. [m EXCEPT !.ok = FALSE].ok = FALSE
    BY <1>5 DEF Origin, IsAsg, AsgSet
  <2> QED
    BY <2>1, <2>2
<1>11. Sound(global, permanent, f, m)
  <2>1. FromArgs(f, m)
    BY <1>5 DEF Origin
  <2>2. Listed(f, m)
    BY <2>1 DEF FromArgs, Listed
  <2> QED
    BY <1>5, <1>8, <1>9, <1>10, <2>2 DEF Sound, Origin, Reg
<1>12. \A i \in 0 .. 2 : Unset(m.descs[i])
  BY <1>5 DEF Origin, FromArgs, Unset
<1> QED
  BY <1>9, <1>10, <1>11, <1>12 DEF Complete

\* choose_scratch_register.
LEMMA ScratchChosen ==
    ASSUME Static, NEW g, GenOK(global, g), NEW a, Sound(global, permanent, g, a), NEW k \in {1, 2},
           NEW b, b = ChooseScratch(g, a, k)
    PROVE  SameCore(a, b) /\ Sound(global, permanent, g, b) /\ b.descs = a.descs
<1> DEFINE class == a.form.scratch[k].class
           costs == [r \in ToSet(class) |-> ScratchCost(g, a, r)]
           r == Cheapest(g, class, costs)
           sc == [a.scratch EXCEPT ![k] = r]
           cl == a.clobber \cup {r}
           as == a.assigned \cup {r}
<1>0. SameCore(a, a)
  BY DEF SameCore, Sound
<1> SUFFICES ASSUME b # a
             PROVE  SameCore(a, b) /\ Sound(global, permanent, g, b) /\ b.descs = a.descs
  BY <1>0
<1>1. b = SetScratch(a, k, r) /\ k \in DOMAIN a.scratch
  BY DEF ChooseScratch
<1>2. r # NoReg /\ b = [a EXCEPT !.scratch[k] = r, !.clobber = @ \cup {r}, !.assigned = @ \cup {r}]
  BY <1>1 DEF SetScratch
<1>3. class \in Seq(Regs)
  <2> DEFINE S == [class : Seq(Regs), fixed : CallUsed \cup {NoReg}]
  <2>1. a.form.scratch \in Seq(S)
    BY FormFacts DEF Sound, FromForm, ScratchRight
  <2>2. \A x \in S : x.class \in Seq(Regs)
    OBVIOUS
  <2>3. k \in DOMAIN a.form.scratch
    BY <1>1 DEF Sound
  <2> HIDE DEF S
  <2>4. a.form.scratch[k] \in S
    BY <2>1, <2>3, SMTT(60)
  <2> QED
    BY <2>2, <2>4
<1>4. Cheap(class, costs, r)
  <2>1. g \in Gens
    BY DEF GenOK
  <2>2. r = NoReg \/ Cheap(class, costs, r)
    <3> HIDE DEF class, costs
    <3> QED
      BY <1>3, <2>1, CheapestRight
  <2> QED
    BY <1>2, <2>2
<1>5. r \in ToSet(class) /\ r \in Regs /\ costs[r] >= 0
  <2>1. PICK j \in DOMAIN class : r = class[j] /\ costs[r] \in 0 .. TooMuch - 1
    <3> HIDE DEF class, costs, r
    <3> QED
      BY <1>4 DEF Cheap
  <2> HIDE DEF class, costs, r
  <2> QED
    BY <1>3, <2>1 DEF ToSet
<1>6. ScratchCost(g, a, r) # -1
  <2>1. costs[r] = ScratchCost(g, a, r)
    <3> HIDE DEF class, r
    <3> QED
      BY <1>5
  <2> HIDE DEF costs, r
  <2> QED
    BY <1>5, <2>1
<1> HIDE DEF r, class, costs
<1>7. r \notin permanent
  BY <1>6 DEF ScratchCost
<1>8. a.scratch \in Seq(Regs \cup {NoReg})
  BY AsgFields DEF Sound
<1>9. b = [a EXCEPT !.scratch = sc, !.clobber = cl, !.assigned = as]
  BY <1>2, <1>8 DEF Sound, IsAsg, AsgSet
<1>10. /\ DOMAIN sc = DOMAIN a.scratch /\ sc[k] = r /\ \A j \in DOMAIN a.scratch : j # k => sc[j] = a.scratch[j]
       /\ sc \in Seq(Regs \cup {NoReg})
  BY <1>1, <1>5, <1>8
<1>11. cl \in SUBSET Regs /\ as \in SUBSET Regs
  BY <1>5, AsgFields DEF Sound
<1>12. a.clobber \subseteq cl /\ a.assigned \subseteq as /\ r \in cl
  OBVIOUS
<1> HIDE DEF sc, cl, as
<1>13. /\ IsAsg(b) /\ b.descs = a.descs /\ b.scratch = sc /\ b.clobber = cl /\ b.assigned = as
       /\ b.ternary = a.ternary /\ b.free = a.free /\ b.copy = a.copy /\ b.commutative = a.commutative
       /\ b.form = a.form /\ b.args = a.args /\ b.after = a.after /\ b.memory = a.memory /\ b.ok = a.ok
  BY <1>9, <1>10, <1>11, ZenonT(60) DEF Sound, IsAsg, AsgSet
<1>14. SameCore(a, b)
  BY <1>10, <1>12, <1>13 DEF SameCore
<1>15. Spoiled(permanent, b)
  <2>1. Spoiled(permanent, a)
    BY DEF Sound
  <2>2. \A q \in ToSet(b.scratch) \ {NoReg} : q \in b.clobber /\ q \notin permanent
    <3> TAKE q \in ToSet(b.scratch) \ {NoReg}
    <3>1. PICK j \in DOMAIN sc : q = sc[j]
      BY <1>13 DEF ToSet
    <3>2. CASE j = k
      BY <1>7, <1>10, <1>12, <1>13, <3>1, <3>2
    <3>3. CASE j # k
      <4>1. q = a.scratch[j] /\ j \in DOMAIN a.scratch
        BY <1>10, <3>1, <3>3
      <4>2. q \in ToSet(a.scratch) \ {NoReg}
        BY <4>1 DEF ToSet
      <4> QED
        BY <1>12, <1>13, <2>1, <4>2 DEF Spoiled
    <3> QED
      BY <3>2, <3>3
  <2> QED
    BY <1>12, <1>13, <2>1, <2>2 DEF Spoiled
<1>16. Sound(global, permanent, g, b)
  BY <1>14, <1>15, CoreSound
<1> QED
  BY <1>13, <1>14, <1>16

\* What is known of the operands is well formed.
LEMMA SoundShape ==
    ASSUME NEW g, NEW a, Sound(global, permanent, g, a)
    PROVE  Shape(a)
<1>1. a.descs \in [0 .. 2 -> Descs] /\ a.ternary \in BOOLEAN /\ a.copy \in BOOLEAN /\ a.free \in BOOLEAN
      /\ a.clobber \subseteq Regs
  BY AsgFields DEF Sound
<1>2. \A i \in 0 .. 2 : /\ a.descs[i].live <=> Val(a, i) \in Slots /\ a.after[Val(a, i)] # "dead"
                        /\ a.descs[i].used <=> Val(a, i) \in Slots /\ a.after[Val(a, i)] = "used"
  BY DEF Sound, Listed, IsLive, IsUsed, Val
<1>3. \A i \in 0 .. 2 : a.descs[i].live \in BOOLEAN /\ a.descs[i].used \in BOOLEAN /\ Reg(a, i) \in Regs \cup {NoReg}
  BY <1>1, DescFields DEF Reg
<1>4. \A i \in Operands(a) : i \in 0 .. 2
  BY DEF Operands, Given
<1>5. \A i \in 0 .. 2 : /\ a.descs[i].used => a.descs[i].live
                        /\ a.descs[i].live => Val(a, i) \in Slots
  BY <1>2
<1>6. \A i, j \in Operands(a) : Val(a, i) = Val(a, j) => a.descs[i].live = a.descs[j].live
                                                        /\ a.descs[i].used = a.descs[j].used
  <2> SUFFICES ASSUME NEW i \in 0 .. 2, NEW j \in 0 .. 2, Val(a, i) = Val(a, j)
               PROVE  a.descs[i].live = a.descs[j].live /\ a.descs[i].used = a.descs[j].used
    BY <1>4
  <2>1. (a.descs[i].live <=> a.descs[j].live) /\ (a.descs[i].used <=> a.descs[j].used)
    BY <1>2
  <2> QED
    BY <1>3, <2>1
<1>7. \A i \in Given(a) : Reg(a, i) \in Regs
  <2>1. \A i \in Given(a) : i \in 0 .. 2
    BY DEF Given
  <2> QED
    BY <1>3, <2>1 DEF Sound
<1> QED
  BY <1>1, <1>5, <1>6, <1>7 DEF Shape

\* A register of a value that is still needed is alive.
LEMMA AliveRight ==
    ASSUME NEW g, GenOK(global, g), Loose(permanent, g), NEW a, Sound(global, permanent, g, a),
           NEW w \in Values, g.in_reg[w] # NoReg, w # Dest(a),
           \A i \in Operands(a) : Val(a, i) = w => a.descs[i].live
    PROVE  Alive(g, a, g.in_reg[w])
<1> DEFINE r == g.in_reg[w]
<1>1. w \in Slots /\ r \notin permanent
  BY DEF Loose
<1>2. r \in Regs
  BY GenFields, NoRegApart DEF GenOK
<1>3. w \in g.contents[r]
  <2> HIDE DEF r
  <2>1. g.contents[r] = {v \in Values : g.in_reg[v] = r}
    BY <1>2 DEF GenOK
  <2> QED
    BY <2>1 DEF r
<1>4. Shape(a)
  BY SoundShape
<1>5. "DEAD" \notin Usage(a, w)
  <2>1. w \notin Constants
    BY <1>1 DEF Slots
  <2> QED
    BY <1>4, <2>1, UsageRight
<1> QED
  BY <1>1, <1>3, <1>5 DEF Alive

\* clobbers_register, of a register that is alive: when it is clobbered.
LEMMA ClobbersRegister ==
    ASSUME Static, NEW g, NEW a, Sound(global, permanent, g, a), NEW r \in Regs \ permanent, Alive(g, a, r),
           NEW i \in 0 .. 2,
           \/ i = 0 /\ Output(a) /\ ~a.copy
           \/ i \in Operands(a) /\ (a.descs[i].clobber \/ g.in_reg[Val(a, i)] # r)
    PROVE  "REG" \in Clobbers(g, a, i, r)
<1>1. CASE i = 0 /\ Output(a) /\ ~a.copy
  BY <1>1 DEF Output, Given, Clobbers
<1>2. CASE i \in Operands(a) /\ (a.descs[i].clobber \/ g.in_reg[Val(a, i)] # r)
  <2> DEFINE d == a.descs[i]
             input == IF a.ternary \/ a.descs[0].value = NoValue THEN d.clobber
                      ELSE ~a.copy /\ (r = a.descs[0].reg \/ d.clobber)
  <2>1. d.value # NoValue /\ ~(i = 0 /\ ~a.ternary)
    BY <1>2 DEF Operands, Given, Inputs
  <2>2. Clobbers(g, a, i, r) = IF ~input /\ r \in {global[d.value], g.in_reg[d.value]} THEN {}
                               ELSE {"REG"} \cup (IF input THEN {"INPUT_VALUE"} ELSE {})
    BY <2>1 DEF Clobbers
  <2>3. global[d.value] # r
    <3>1. d.value \in Values
      BY <2>1, AsgFields, DescFields DEF Sound
    <3> QED
      BY <3>1, NoRegApart DEF Static, StaticOK
  <2>4. d.clobber => input
    BY <1>2 DEF Sound, Operated
  <2>5. input \/ r \notin {global[d.value], g.in_reg[d.value]}
    <3> HIDE DEF input
    <3> QED
      BY <1>2, <2>3, <2>4 DEF Val
  <2> HIDE DEF input, d
  <2> QED
    BY <2>2, <2>5
<1> QED
  BY <1>1, <1>2

\* The same, of the value of an operand.
LEMMA ClobbersValue ==
    ASSUME NEW g, NEW a, Sound(global, permanent, g, a), NEW i \in Operands(a),
           a.descs[i].clobber \/ (Output(a) /\ ~a.copy /\ Reg(a, i) = Reg(a, 0))
    PROVE  "INPUT_VALUE" \in Clobbers(g, a, i, Reg(a, i))
<1> DEFINE d == a.descs[i]
           r == Reg(a, i)
           input == IF a.ternary \/ a.descs[0].value = NoValue THEN d.clobber
                    ELSE ~a.copy /\ (r = a.descs[0].reg \/ d.clobber)
<1>1. d.value # NoValue /\ ~(i = 0 /\ ~a.ternary)
  BY DEF Operands, Given, Inputs
<1>2. Clobbers(g, a, i, r) = IF ~input /\ r \in {global[d.value], g.in_reg[d.value]} THEN {}
                             ELSE (IF Alive(g, a, r) THEN {"REG"} ELSE {}) \cup (IF input THEN {"INPUT_VALUE"} ELSE {})
  BY <1>1 DEF Clobbers
<1>3. input
  <2>1. d.clobber => ~a.ternary /\ ~a.copy
    BY DEF Sound, Operated
  <2>2. Output(a) => ~a.ternary /\ a.descs[0].value # NoValue
    BY DEF Output, Given
  <2> QED
    BY <2>1, <2>2 DEF Reg
<1> HIDE DEF input, d, r
<1> QED
  BY <1>2, <1>3 DEF r

\* Setting the four flags of an operand.
LEMMA FateType ==
    ASSUME NEW d \in Descs, NEW t \in BOOLEAN, NEW c \in BOOLEAN, NEW s \in BOOLEAN, NEW k \in BOOLEAN,
           NEW e, e = [d EXCEPT !.thrash = t, !.copy = c, !.store = s, !.kill = k]
    PROVE  Fielded(d, e, t, c, s, k)
<1> DEFINE x == [d EXCEPT !.thrash = t, !.copy = c, !.store = s, !.kill = k]
<1>1. x \in Descs
  BY DEF Descs
<1>2. x.thrash = t /\ x.copy = c /\ x.store = s /\ x.kill = k
  BY DEF Descs
<1>3. SameFace(d, x)
  BY DEF Descs, SameFace
<1>4. e = x
  OBVIOUS
<1> HIDE DEF x
<1> QED
  BY <1>1, <1>2, <1>3, <1>4 DEF Fielded

\* Setting the kill flag of an operand.
LEMMA KillType ==
    ASSUME NEW d \in Descs, NEW k \in BOOLEAN
    PROVE  LET e == [d EXCEPT !.kill = k]
           IN /\ e \in Descs /\ SameFace(d, e)
              /\ e.thrash = d.thrash /\ e.copy = d.copy /\ e.store = d.store /\ e.kill = k
  BY DEF Descs, SameFace

\* The fate of an input changes its flags alone.
LEMMA InputFateType ==
    ASSUME NEW g, NEW a, NEW i \in 0 .. 2, NEW clobber, a.descs[i] \in Descs
    PROVE  LET d == InputFate(g, a, i, clobber)
           IN d \in Descs /\ SameFace(a.descs[i], d)
<1> DEFINE d       == a.descs[i]
           output  == ~a.ternary /\ a.descs[0].value # NoValue
           renewed == ~a.ternary /\ a.descs[0].value = d.value
           at      == g.in_reg[d.value]
           thrash  == \E j \in (0 .. 2) \ {i} : /\ j # 0 \/ a.ternary
                                                /\ ~ValuesEqual(g, d, a.descs[j])
                                                /\ at # NoReg /\ at = a.descs[j].reg
           from    == IF thrash THEN NoReg ELSE at
           copy    == from # d.reg /\ IF HasGlobal(d.value) THEN global[d.value] # d.reg ELSE from # NoReg
           kept    == d.used /\ ~renewed
           lost    == \/ ~copy /\ (d.reg \in a.clobber \/ "INPUT_VALUE" \in clobber)
                      \/ copy /\ from # NoReg /\ (from \in a.clobber \/ (output /\ from = a.descs[0].reg))
           constant == d.value \in Constants
           store == \/ ~constant /\ IF kept THEN lost ELSE d.live /\ ~renewed
                    \/ thrash
           kill == constant \/ ~kept \/ lost
<1>1. InputFate(g, a, i, clobber) = [d EXCEPT !.thrash = thrash, !.copy = copy, !.store = store, !.kill = kill]
  BY DEF InputFate
<1>2. thrash \in BOOLEAN
  OBVIOUS
<1> HIDE DEF thrash
<1>3. copy \in BOOLEAN /\ d.live \in BOOLEAN
  BY DescFields DEF HasGlobal
<1> HIDE DEF copy
<1>4. lost \in BOOLEAN
  OBVIOUS
<1> HIDE DEF lost
<1>5. store \in BOOLEAN /\ kill \in BOOLEAN
  BY <1>2, <1>3, <1>4
<1> HIDE DEF store, kill, d
<1>6. d \in Descs
  BY DEF d
<1> DEFINE e == [d EXCEPT !.thrash = thrash, !.copy = copy, !.store = store, !.kill = kill]
<1>7. Fielded(d, e, thrash, copy, store, kill)
  BY <1>2, <1>3, <1>5, <1>6, FateType, ZenonT(60)
<1>8. InputFate(g, a, i, clobber) = e
  BY <1>1
<1> HIDE DEF e
<1> QED
  BY <1>7, <1>8 DEF d, Fielded

\* One call of set_regdesc_flags, for the result, for an input, and for a duplicate.
LEMMA FlagsSet ==
    ASSUME NEW g, NEW a, IsAsg(a), NEW i \in 0 .. 2, NEW b, b = SetFlags(g, a, i)
    PROVE  Flags(g, a, b, i)
<1> DEFINE clobber == Clobbers(g, a, i, Reg(a, i))
           d == IF i \in Inputs(a) THEN InputFate(g, a, i, clobber) ELSE a.descs[i]
           intrude == ~d.copy /\ global[d.value] # d.reg /\ d.reg \in permanent
           kill == d.kill \/ intrude
           e == [d EXCEPT !.kill = kill]
           ds == [a.descs EXCEPT ![i] = e]
           cl == IF "REG" \in clobber THEN a.clobber \cup {d.reg} ELSE a.clobber
<1>1. CASE Reg(a, i) = NoReg \/ a.descs[i].duplicate
  <2>1. b = a
    BY <1>1 DEF SetFlags, Reg
  <2>2. SameCore(a, a)
    BY DEF SameCore
  <2> QED
    BY <1>1, <2>1, <2>2 DEF Flags
<1>2. CASE ~(Reg(a, i) = NoReg \/ a.descs[i].duplicate)
  <2>1. b = Flagged(a, i, clobber, d)
    BY <1>2 DEF SetFlags, Reg
  <2>2. a.descs \in [0 .. 2 -> Descs] /\ a.clobber \in SUBSET Regs
    BY AsgFields
  <2>3. d \in Descs /\ SameFace(a.descs[i], d)
    <3>1. a.descs[i] \in Descs
      BY <2>2
    <3>2. InputFate(g, a, i, clobber) \in Descs /\ SameFace(a.descs[i], InputFate(g, a, i, clobber))
      <4> HIDE DEF clobber
      <4> QED
        BY <3>1, InputFateType
    <3> QED
      BY <3>1, <3>2 DEF SameFace
  <2> HIDE DEF d
  <2>4. kill \in BOOLEAN
    OBVIOUS
  <2>5. /\ e \in Descs /\ SameFace(d, e)
        /\ e.thrash = d.thrash /\ e.copy = d.copy /\ e.store = d.store /\ e.kill = kill
    <3> HIDE DEF kill
    <3> QED
      BY <2>3, <2>4, KillType
  <2>6. b = [a EXCEPT !.descs = ds, !.clobber = cl]
    <3> HIDE DEF clobber, kill
    <3>1. b = [a EXCEPT !.descs[i] = e, !.clobber = cl]
      BY <2>1 DEF Flagged, kill
    <3> HIDE DEF e, cl
    <3> QED
      BY <2>2, <3>1 DEF IsAsg, AsgSet
  <2> HIDE DEF e, kill
  <2>7. ds \in [0 .. 2 -> Descs] /\ ds[i] = e /\ \A j \in 0 .. 2 : j # i => ds[j] = a.descs[j]
    BY <2>2, <2>5
  <2>8. cl \in SUBSET Regs /\ a.clobber \subseteq cl /\ ("REG" \in clobber => Reg(a, i) \in cl)
    <3>1. d.reg = Reg(a, i) /\ d.reg \in Regs
      BY <1>2, <2>3, DescFields DEF SameFace, Reg
    <3> QED
      BY <2>2, <3>1
  <2> HIDE DEF ds, cl
  <2>9. /\ IsAsg(b) /\ b.descs = ds /\ b.scratch = a.scratch /\ b.clobber = cl /\ b.assigned = a.assigned
        /\ b.ternary = a.ternary /\ b.free = a.free /\ b.copy = a.copy /\ b.commutative = a.commutative
        /\ b.form = a.form /\ b.args = a.args /\ b.after = a.after /\ b.memory = a.memory /\ b.ok = a.ok
    BY <2>6, <2>7, <2>8 DEF IsAsg, AsgSet
  <2>10. \A j \in 0 .. 2 :
        /\ b.descs[j].value = a.descs[j].value /\ b.descs[j].class = a.descs[j].class
        /\ b.descs[j].reg = a.descs[j].reg /\ b.descs[j].live = a.descs[j].live
        /\ b.descs[j].used = a.descs[j].used /\ b.descs[j].clobber = a.descs[j].clobber
        /\ b.descs[j].early = a.descs[j].early /\ b.descs[j].duplicate = a.descs[j].duplicate
    BY <2>3, <2>5, <2>7, <2>9 DEF SameFace
  <2>11. SameCore(a, b)
    BY <2>8, <2>9, <2>10 DEF SameCore
  <2>12. /\ \A j \in 0 .. 2 : j # i => b.descs[j] = a.descs[j]
         /\ "REG" \in clobber => Reg(a, i) \in b.clobber
         /\ b.descs[i].thrash = d.thrash /\ b.descs[i].copy = d.copy /\ b.descs[i].store = d.store
         /\ b.descs[i].kill = (d.kill \/ (~d.copy /\ global[d.value] # d.reg /\ d.reg \in permanent))
    BY <2>5, <2>7, <2>8, <2>9 DEF kill
  <2> QED
    BY <1>2, <2>9, <2>11, <2>12 DEF Flags, d
<1> QED
  BY <1>1, <1>2

\* The flags of an input, one by one.
LEMMA FateFields ==
    ASSUME NEW g, GenOK(global, g), NEW a, Sound(global, permanent, g, a), NEW i \in Operands(a), NEW clobber
    PROVE  FateOf(global, g, a, i, clobber, InputFate(g, a, i, clobber))
<1> DEFINE d       == a.descs[i]
           output  == ~a.ternary /\ a.descs[0].value # NoValue
           renewed == ~a.ternary /\ a.descs[0].value = d.value
           at      == g.in_reg[d.value]
           thrash  == \E j \in (0 .. 2) \ {i} : /\ j # 0 \/ a.ternary
                                                /\ ~ValuesEqual(g, d, a.descs[j])
                                                /\ at # NoReg /\ at = a.descs[j].reg
           from    == IF thrash THEN NoReg ELSE at
           copy    == from # d.reg /\ IF HasGlobal(d.value) THEN global[d.value] # d.reg ELSE from # NoReg
           kept    == d.used /\ ~renewed
           lost    == \/ ~copy /\ (d.reg \in a.clobber \/ "INPUT_VALUE" \in clobber)
                      \/ copy /\ from # NoReg /\ (from \in a.clobber \/ (output /\ from = a.descs[0].reg))
           constant == d.value \in Constants
           store == \/ ~constant /\ IF kept THEN lost ELSE d.live /\ ~renewed
                    \/ thrash
           kill == constant \/ ~kept \/ lost
           e == [d EXCEPT !.thrash = thrash, !.copy = copy, !.store = store, !.kill = kill]
<1>1. InputFate(g, a, i, clobber) = e
  BY DEF InputFate
<1>2. i \in 0 .. 2 /\ i \in Given(a) /\ (i > 0 \/ a.ternary) /\ d.value # NoValue
  BY DEF Operands, Given, Inputs
<1>3. d \in Descs
  BY <1>2, AsgFields DEF Sound
<1>4. thrash <=> Thrashed(g, a, Val(a, i))
  <2>1. thrash => Thrashed(g, a, Val(a, i))
    <3> SUFFICES ASSUME thrash
                 PROVE  Thrashed(g, a, Val(a, i))
      OBVIOUS
    <3>1. PICK j \in (0 .. 2) \ {i} : /\ j # 0 \/ a.ternary
                                      /\ ~ValuesEqual(g, d, a.descs[j])
                                      /\ at # NoReg /\ at = a.descs[j].reg
      OBVIOUS
    <3>2. j \in Given(a)
      BY <3>1 DEF Sound, Placed, Held, Reg
    <3>3. j \in Operands(a)
      BY <3>1, <3>2 DEF Operands, Inputs
    <3>4. ~Equal(g, Val(a, i), Val(a, j))
      BY <1>2, <3>1, <3>2 DEF ValuesEqual, Equal, Given, Val
    <3> QED
      BY <3>1, <3>3, <3>4 DEF Thrashed, Val, Reg
  <2>2. Thrashed(g, a, Val(a, i)) => thrash
    <3> SUFFICES ASSUME Thrashed(g, a, Val(a, i))
                 PROVE  thrash
      OBVIOUS
    <3>1. PICK j \in Operands(a) : at # NoReg /\ at = Reg(a, j) /\ ~Equal(g, Val(a, i), Val(a, j))
      BY DEF Thrashed, Val
    <3>2. j # i
      BY <3>1 DEF Equal
    <3>3. j \in 0 .. 2 /\ (j # 0 \/ a.ternary)
      BY DEF Operands, Given, Inputs
    <3>4. ~ValuesEqual(g, d, a.descs[j])
      BY <3>1 DEF ValuesEqual, Equal, Val
    <3> QED
      BY <3>1, <3>2, <3>3, <3>4 DEF Reg
  <2> QED
    BY <2>1, <2>2
<1>5. thrash \in BOOLEAN
  OBVIOUS
<1> HIDE DEF thrash
<1>6. copy \in BOOLEAN /\ d.live \in BOOLEAN /\ d.used \in BOOLEAN
  BY <1>3, DescFields DEF HasGlobal
<1>7. store \in BOOLEAN /\ kill \in BOOLEAN
  <2> HIDE DEF copy
  <2>1. lost \in BOOLEAN
    OBVIOUS
  <2> HIDE DEF lost
  <2> QED
    BY <1>5, <1>6
<1>8. e.thrash = thrash /\ e.copy = copy /\ e.store = store /\ e.kill = kill /\ SameFace(d, e)
  <2> HIDE DEF copy, store, kill, d
  <2>1. Fielded(d, e, thrash, copy, store, kill)
    BY <1>3, <1>5, <1>6, <1>7, FateType, ZenonT(60)
  <2> HIDE DEF e
  <2> QED
    BY <2>1 DEF Fielded
<1>9. output = Output(a)
  BY DEF Output, Given
<1>10. renewed <=> Val(a, i) = Dest(a)
  BY <1>2 DEF Output, Given, Dest, Val
<1> HIDE DEF e
<1>11. /\ e.thrash <=> Thrashed(g, a, Val(a, i))
       /\ e.value = Val(a, i) /\ e.reg = Reg(a, i) /\ e.copy \in BOOLEAN /\ e.kill \in BOOLEAN
  BY <1>4, <1>6, <1>7, <1>8 DEF SameFace, Val, Reg
<1> DEFINE from2 == IF e.thrash THEN NoReg ELSE g.in_reg[Val(a, i)]
           lost2 == \/ ~e.copy /\ (Reg(a, i) \in a.clobber \/ "INPUT_VALUE" \in clobber)
                    \/ e.copy /\ from2 # NoReg /\ (from2 \in a.clobber \/ (Output(a) /\ from2 = Reg(a, 0)))
           kept2 == a.descs[i].used /\ Val(a, i) # Dest(a)
<1>12. from2 = from
  BY <1>8 DEF Val
<1>13. e.copy <=> from2 # Reg(a, i) /\ IF global[Val(a, i)] # NoReg THEN global[Val(a, i)] # Reg(a, i) ELSE from2 # NoReg
  BY <1>8, <1>12 DEF Val, Reg, HasGlobal
<1>14. (lost2 <=> lost) /\ (kept2 <=> kept)
  <2> HIDE DEF copy, from, from2
  <2> QED
    BY <1>8, <1>9, <1>10, <1>12 DEF Reg
<1>15. e.store <=> (Val(a, i) \notin Constants /\ IF kept2 THEN lost2 ELSE a.descs[i].live /\ Val(a, i) # Dest(a)) \/ e.thrash
  <2> HIDE DEF lost, lost2, kept, kept2
  <2> QED
    BY <1>8, <1>10, <1>14 DEF Val
<1>16. e.kill <=> Val(a, i) \in Constants \/ ~kept2 \/ lost2
  <2> HIDE DEF lost, lost2, kept, kept2
  <2> QED
    BY <1>8, <1>14 DEF Val
<1> QED
  BY <1>1, <1>11, <1>13, <1>15, <1>16 DEF FateOf

\* What an instruction does to a register.
LEMMA DisturbedBy ==
    ASSUME NEW g, NEW a, Sound(global, permanent, g, a), NoClass(permanent, a), NEW r \in Disturbed(a)
    PROVE  \/ r \in a.clobber
           \/ \E j \in Single(a) : Reg(a, j) = r /\ a.descs[j].clobber /\ j = 1 /\ ~a.ternary /\ ~a.copy
           \/ Output(a) /\ ~a.copy /\ r = Reg(a, 0)
<1>1. Spoiled(permanent, a) /\ Operated(g, a) /\ Held(g, a)
  BY DEF Sound, Placed
<1>2. r \in Changed(a) \/ (Output(a) /\ ~a.copy /\ r = Reg(a, 0))
  BY DEF Disturbed
<1>3. CASE r \in ToSet(a.scratch) \ {NoReg}
  BY <1>1, <1>3 DEF Spoiled
<1>4. CASE r \in ToSet(a.form.clobbers)
  BY <1>1, <1>4 DEF Spoiled, NoClass
<1>5. CASE \E j \in Operands(a) : a.descs[j].clobber /\ r = Reg(a, j)
  <2>1. PICK j \in Operands(a) : a.descs[j].clobber /\ r = Reg(a, j)
    BY <1>5
  <2>2. j = 1 /\ ~a.ternary /\ ~a.copy
    BY <1>1, <2>1 DEF Operated
  <2>3. j \in Single(a)
    BY <1>1, <2>2 DEF Held
  <2> QED
    BY <2>1, <2>2, <2>3
<1> QED
  BY <1>2, <1>3, <1>4, <1>5 DEF Changed, Operands, Reg

\* A register that an operand is in, when it is disturbed.
LEMMA OwnDisturbed ==
    ASSUME NEW g, NEW a, Sound(global, permanent, g, a), NoClass(permanent, a), NEW i \in Single(a),
           Reg(a, i) \in Disturbed(a)
    PROVE  Reg(a, i) \in a.clobber \/ "INPUT_VALUE" \in Clobbers(g, a, i, Reg(a, i))
<1>1. i \in Operands(a) /\ \A j \in Operands(a) : j \in Given(a)
  BY DEF Single, Operands
<1>2. CASE \E j \in Single(a) : Reg(a, j) = Reg(a, i) /\ a.descs[j].clobber
  <2>1. PICK j \in Single(a) : Reg(a, j) = Reg(a, i) /\ a.descs[j].clobber
    BY <1>2
  <2>2. j = i
    <3>1. i \in Chosen(a) /\ j \in Chosen(a)
      BY <1>1 DEF Chosen, Single, Sound
    <3> QED
      BY <2>1, <3>1 DEF Sound, Placed, Held
  <2> QED
    BY <1>1, <2>1, <2>2, ClobbersValue
<1>3. CASE Output(a) /\ ~a.copy /\ Reg(a, i) = Reg(a, 0)
  BY <1>1, <1>3, ClobbersValue
<1> QED
  BY <1>2, <1>3, DisturbedBy

\* Another register that its value is in, when it is disturbed.
LEMMA OtherDisturbed ==
    ASSUME NEW g, GenOK(global, g), Loose(permanent, g), NEW a, Sound(global, permanent, g, a),
           NoClass(permanent, a), NEW i \in Single(a), Cleared(permanent, g, a, i),
           g.in_reg[Val(a, i)] # NoReg, g.in_reg[Val(a, i)] # Reg(a, i),
           a.descs[i].live, Val(a, i) # Dest(a), g.in_reg[Val(a, i)] \in Disturbed(a)
    PROVE  g.in_reg[Val(a, i)] \in a.clobber \/ (Output(a) /\ g.in_reg[Val(a, i)] = Reg(a, 0))
<1> DEFINE w == Val(a, i)
<1>1. i \in Operands(a) /\ i \in 0 .. 2
  BY DEF Single, Operands, Given
<1>2. w \in Values
  BY <1>1, AsgFields, DescFields DEF Sound, Operands, Given, Val
<1>3. \A j \in Operands(a) : Val(a, j) = w => a.descs[j].live
  BY <1>1, SoundShape DEF Shape
<1>4. Alive(g, a, g.in_reg[w])
  <2> HIDE DEF w
  <2> QED
    BY <1>2, <1>3, AliveRight DEF w
<1>5. CASE \E j \in Single(a) : Reg(a, j) = g.in_reg[w] /\ a.descs[j].clobber
  <2>1. g.in_reg[w] \notin permanent
    BY <1>2 DEF Loose
  <2> QED
    BY <1>4, <1>5, <2>1 DEF Cleared
<1> QED
  BY <1>5, DisturbedBy

\* The flags of an input say what becomes of it.
LEMMA FateRight ==
    ASSUME Static, NEW g, GenOK(global, g), Loose(permanent, g), NEW a, Sound(global, permanent, g, a),
           NoClass(permanent, a), NEW i \in Single(a), Cleared(permanent, g, a, i), Unmoved(global, g, a),
           NEW b, Flags(g, a, b, i)
    PROVE  Fated(global, permanent, g, a, i, b.descs[i])
<1> DEFINE clobber == Clobbers(g, a, i, Reg(a, i))
           d == InputFate(g, a, i, clobber)
           e == b.descs[i]
           v == Val(a, i)
           at == g.in_reg[v]
           from == IF e.thrash THEN NoReg ELSE at
           kept == a.descs[i].used /\ v # Dest(a)
           lost == \/ ~e.copy /\ (Reg(a, i) \in a.clobber \/ "INPUT_VALUE" \in clobber)
                   \/ e.copy /\ from # NoReg /\ (from \in a.clobber \/ (Output(a) /\ from = Reg(a, 0)))
           intrude == ~e.copy /\ global[v] # Reg(a, i) /\ Reg(a, i) \in permanent
<1>1. i \in Operands(a) /\ i \in 0 .. 2 /\ i \in Inputs(a) /\ i \in Given(a) /\ ~a.descs[i].duplicate
  BY DEF Single, Operands, Given
<1>2. Reg(a, i) # NoReg /\ Shape(a)
  BY <1>1, SoundShape DEF Sound
<1>3. FateOf(global, g, a, i, clobber, d)
  <2> HIDE DEF clobber
  <2> QED
    BY <1>1, FateFields
<1>4. /\ e.thrash = d.thrash /\ e.copy = d.copy /\ e.store = d.store
      /\ e.kill = (d.kill \/ (~d.copy /\ global[d.value] # d.reg /\ d.reg \in permanent))
  BY <1>1, <1>2 DEF Flags
<1> HIDE DEF d, clobber, e
<1>5. /\ e.thrash <=> Thrashed(g, a, v)
      /\ e.copy <=> from # Reg(a, i) /\ IF global[v] # NoReg THEN global[v] # Reg(a, i) ELSE from # NoReg
      /\ e.store <=> (v \notin Constants /\ IF kept THEN lost ELSE a.descs[i].live /\ v # Dest(a)) \/ e.thrash
      /\ e.kill <=> v \in Constants \/ ~kept \/ lost \/ intrude
  BY <1>3, <1>4 DEF FateOf
<1>6. v \in Values /\ Reg(a, i) \in Regs
  BY <1>1, <1>2, DescFields DEF Shape, Operands, Given, Val, Reg
<1>7. at # NoReg => at \notin permanent
  BY <1>6 DEF Loose
<1>8. ~lost /\ ~e.copy => Reg(a, i) \notin Disturbed(a)
  BY OwnDisturbed DEF clobber
<1>9. ~e.kill /\ at # NoReg /\ ~e.thrash => at \notin Disturbed(a)
  <2> SUFFICES ASSUME ~e.kill, at # NoReg, ~e.thrash
               PROVE  at \notin Disturbed(a)
    OBVIOUS
  <2>1. ~lost /\ a.descs[i].used /\ v # Dest(a) /\ from = at
    BY <1>5
  <2>2. a.descs[i].live
    BY <1>1, <1>2, <2>1 DEF Shape
  <2>3. CASE e.copy
    <3>1. at # Reg(a, i)
      BY <1>5, <2>1, <2>3
    <3>2. at \notin a.clobber /\ ~(Output(a) /\ at = Reg(a, 0))
      BY <2>1, <2>3
    <3> QED
      BY <2>1, <2>2, <3>1, <3>2, OtherDisturbed
  <2>4. CASE ~e.copy
    <3>1. at = Reg(a, i)
      <4>1. global[v] = Reg(a, i) => at = NoReg
        BY DEF Unmoved
      <4> QED
        BY <1>5, <2>1, <2>4, <4>1
    <3> QED
      BY <1>8, <2>1, <2>4, <3>1
  <2> QED
    BY <2>3, <2>4
<1>10. ~e.kill /\ (at = NoReg \/ e.thrash) /\ global[v] = NoReg => Reg(a, i) \notin Disturbed(a) \cup permanent
  <2> SUFFICES ASSUME ~e.kill, at = NoReg \/ e.thrash, global[v] = NoReg
               PROVE  Reg(a, i) \notin Disturbed(a) /\ Reg(a, i) \notin permanent
    OBVIOUS
  <2>1. ~e.copy
    BY <1>5
  <2>2. ~lost /\ ~intrude
    BY <1>5
  <2> QED
    BY <1>2, <1>8, <2>1, <2>2
<1>11. v \in Slots \ {Dest(a)} /\ a.descs[i].live /\ e.kill => e.store \/ at = NoReg
  <2> SUFFICES ASSUME v \in Slots \ {Dest(a)}, a.descs[i].live, e.kill, ~e.store, at # NoReg
               PROVE  FALSE
    OBVIOUS
  <2>1. v \notin Constants
    BY DEF Slots
  <2>2. kept /\ ~lost /\ ~e.thrash /\ intrude
    <3> HIDE DEF lost, intrude
    <3> QED
      BY <1>5, <2>1
  <2>3. from = at /\ ~e.copy
    BY <2>2
  <2>4. at = Reg(a, i)
    BY <1>5, <2>2, <2>3
  <2> QED
    BY <1>7, <2>2, <2>4
<1>12. /\ e.thrash => e.store
       /\ v \in Constants \/ v = Dest(a) \/ ~a.descs[i].used => e.kill
  <2> HIDE DEF lost, intrude
  <2> QED
    BY <1>5
<1> QED
  BY <1>5, <1>9, <1>10, <1>11, <1>12 DEF Fated, e

\* Flags do not change which registers hold something that is needed.
LEMMA AliveSame ==
    ASSUME NEW g, GenOK(global, g), NEW a, Sound(global, permanent, g, a), NEW b, Sound(global, permanent, g, b),
           SameCore(a, b), NEW r \in Regs
    PROVE  Alive(g, b, r) <=> Alive(g, a, r)
<1>1. /\ Operands(b) = Operands(a) /\ Dest(b) = Dest(a)
      /\ \A i \in 0 .. 2 : Val(b, i) = Val(a, i)
  BY CoreSets
<1>2. /\ b.ternary = a.ternary
      /\ \A i \in 0 .. 2 : b.descs[i].value = a.descs[i].value /\ b.descs[i].live = a.descs[i].live
  BY DEF SameCore
<1>3. \A i \in Operands(a) : i \in 0 .. 2
  BY DEF Operands, Given
<1>4. \A v \in Values : "DEAD" \in Usage(b, v) <=> "DEAD" \in Usage(a, v)
  <2> TAKE v \in Values
  <2>1. Shape(a) /\ Shape(b)
    BY SoundShape
  <2>2. "DEAD" \in Usage(a, v) <=> \/ v \in Constants \/ v = Dest(a)
                                   \/ \E i \in Operands(a) : Val(a, i) = v /\ ~a.descs[i].live
    BY <2>1, UsageRight
  <2>3. "DEAD" \in Usage(b, v) <=> \/ v \in Constants \/ v = Dest(b)
                                   \/ \E i \in Operands(b) : Val(b, i) = v /\ ~b.descs[i].live
    BY <2>1, UsageRight
  <2> QED
    BY <1>1, <1>2, <1>3, <2>2, <2>3
<1>5. \A v \in g.contents[r] : v \in Values
  BY DEF GenOK
<1> QED
  BY <1>2, <1>4, <1>5 DEF Alive

\* Flags change no more registers.
LEMMA DisturbedLess ==
    ASSUME NEW a, NEW b, SameCore(a, b), b.scratch = a.scratch
    PROVE  Disturbed(b) \subseteq Disturbed(a)
<1>1. /\ Operands(b) = Operands(a) /\ Output(b) = Output(a)
      /\ \A i \in 0 .. 2 : Reg(b, i) = Reg(a, i) /\ b.descs[i].clobber = a.descs[i].clobber /\ b.descs[i].reg = a.descs[i].reg
      /\ a.clobber \subseteq b.clobber /\ b.form = a.form /\ b.copy = a.copy
  BY CoreSets DEF SameCore
<1>2. \A i \in Operands(a) : i \in 0 .. 2
  BY DEF Operands, Given
<1>3. Changed(b) \subseteq Changed(a)
  <2> DEFINE of == {b.descs[i].reg : i \in {j \in Operands(b) : b.descs[j].clobber}}
             af == {a.descs[i].reg : i \in {j \in Operands(a) : a.descs[j].clobber}}
  <2>1. of \subseteq af
    BY <1>1, <1>2
  <2>2. /\ Changed(b) = ((ToSet(b.scratch) \ {NoReg}) \cup of) \cup (ToSet(b.form.clobbers) \ (b.clobber \cap permanent))
        /\ Changed(a) = ((ToSet(a.scratch) \ {NoReg}) \cup af) \cup (ToSet(a.form.clobbers) \ (a.clobber \cap permanent))
    BY DEF Changed, Operands
  <2> HIDE DEF of, af
  <2> QED
    BY <1>1, <2>1, <2>2
<1> QED
  BY <1>1, <1>3, SMTT(60) DEF Disturbed

\* The flags of an operand stay right while those of the others are set.
LEMMA FatedKept ==
    ASSUME NEW g, NEW a, NEW b, SameCore(a, b), b.scratch = a.scratch, NEW i \in Single(a), NEW d,
           Fated(global, permanent, g, a, i, d)
    PROVE  Fated(global, permanent, g, b, i, d)
<1>1. /\ Operands(b) = Operands(a) /\ Dest(b) = Dest(a)
      /\ \A j \in 0 .. 2 : Reg(b, j) = Reg(a, j) /\ Val(b, j) = Val(a, j)
  BY CoreSets
<1>2. i \in 0 .. 2 /\ \A j \in Operands(a) : j \in 0 .. 2
  BY DEF Single, Operands, Given
<1>3. b.descs[i].used = a.descs[i].used /\ b.descs[i].live = a.descs[i].live /\ Val(b, i) = Val(a, i) /\ Reg(b, i) = Reg(a, i)
  BY <1>1, <1>2 DEF SameCore
<1>4. Thrashed(g, b, Val(a, i)) <=> Thrashed(g, a, Val(a, i))
  BY <1>1, <1>2 DEF Thrashed
<1>5. Disturbed(b) \subseteq Disturbed(a)
  BY DisturbedLess
<1> QED
  BY <1>1, <1>3, <1>4, <1>5 DEF Fated

\* Setting the flags of one operand.
LEMMA FlagsStep ==
    ASSUME Static, NEW g, GenOK(global, g), Loose(permanent, g), NEW a, Sound(global, permanent, g, a), NEW i \in 0 .. 2,
           NEW b, b = SetFlags(g, a, i)
    PROVE  /\ Sound(global, permanent, g, b) /\ SameCore(a, b) /\ b.scratch = a.scratch /\ Flags(g, a, b, i)
           /\ Taking(g, a, i) /\ Reg(a, i) \notin permanent /\ Alive(g, a, Reg(a, i)) => Reg(a, i) \in b.clobber
<1>1. Flags(g, a, b, i)
  BY FlagsSet DEF Sound
<1>2. SameCore(a, b) /\ b.scratch = a.scratch
  BY <1>1 DEF Flags
<1>3. Spoiled(permanent, b)
  <2>1. Spoiled(permanent, a) /\ b.form = a.form /\ a.clobber \subseteq b.clobber
    BY <1>2 DEF Sound, SameCore
  <2> QED
    BY <1>2, <2>1 DEF Spoiled
<1>4. Sound(global, permanent, g, b)
  BY <1>2, <1>3, CoreSound
<1>5. ASSUME Taking(g, a, i), Reg(a, i) \notin permanent, Alive(g, a, Reg(a, i))
      PROVE  Reg(a, i) \in b.clobber
  <2>1. i \in Given(a)
    BY <1>5 DEF Taking, Output, Single, Operands
  <2>2. Reg(a, i) \in Regs /\ Reg(a, i) # NoReg
    BY <2>1, SoundShape DEF Shape, Sound
  <2>3. ~a.descs[i].duplicate
    BY <1>5 DEF Taking, Single, Sound, Placed, ResultHeld
  <2>4. \/ i = 0 /\ Output(a) /\ ~a.copy
        \/ i \in Operands(a) /\ (a.descs[i].clobber \/ g.in_reg[Val(a, i)] # Reg(a, i))
    BY <1>5 DEF Taking, Single
  <2> DEFINE r == Reg(a, i)
  <2>5. "REG" \in Clobbers(g, a, i, r)
    <3>1. r \in Regs \ permanent /\ Alive(g, a, r)
      BY <1>5, <2>2
    <3>2. \/ i = 0 /\ Output(a) /\ ~a.copy
          \/ i \in Operands(a) /\ (a.descs[i].clobber \/ g.in_reg[Val(a, i)] # r)
      BY <2>4
    <3> HIDE DEF r
    <3> QED
      BY <3>1, <3>2, ClobbersRegister
  <2> QED
    BY <1>1, <2>2, <2>3, <2>5 DEF Flags
<1> QED
  BY <1>1, <1>2, <1>4, <1>5

\* Setting the flags of all three.
LEMMA AllFlags ==
    ASSUME Static, NEW g, GenOK(global, g), Loose(permanent, g), NEW a, Sound(global, permanent, g, a),
           \A i \in 0 .. 2 : Unset(a.descs[i]), NoClass(permanent, a), Unmoved(global, g, a),
           NEW b, b = SetFlags(g, SetFlags(g, SetFlags(g, a, 0), 1), 2)
    PROVE  Finished(global, permanent, g, a, b)
<1> DEFINE a0 == SetFlags(g, a, 0)
           a1 == SetFlags(g, a0, 1)
<1>1. /\ Sound(global, permanent, g, a0) /\ SameCore(a, a0) /\ a0.scratch = a.scratch /\ Flags(g, a, a0, 0)
      /\ Taking(g, a, 0) /\ Reg(a, 0) \notin permanent /\ Alive(g, a, Reg(a, 0)) => Reg(a, 0) \in a0.clobber
  BY FlagsStep
<1>2. /\ Sound(global, permanent, g, a1) /\ SameCore(a0, a1) /\ a1.scratch = a0.scratch /\ Flags(g, a0, a1, 1)
      /\ Taking(g, a0, 1) /\ Reg(a0, 1) \notin permanent /\ Alive(g, a0, Reg(a0, 1)) => Reg(a0, 1) \in a1.clobber
  <2>1. a1 = SetFlags(g, a0, 1)
    OBVIOUS
  <2> HIDE DEF a0, a1
  <2> QED
    BY <1>1, <2>1, FlagsStep
<1>3. /\ Sound(global, permanent, g, b) /\ SameCore(a1, b) /\ b.scratch = a1.scratch /\ Flags(g, a1, b, 2)
      /\ Taking(g, a1, 2) /\ Reg(a1, 2) \notin permanent /\ Alive(g, a1, Reg(a1, 2)) => Reg(a1, 2) \in b.clobber
  <2>1. b = SetFlags(g, a1, 2)
    OBVIOUS
  <2> HIDE DEF a1
  <2> QED
    BY <1>2, <2>1, FlagsStep
<1> HIDE DEF a0, a1
<1>4. SameCore(a, a1) /\ SameCore(a, b) /\ SameCore(a0, b) /\ b.scratch = a.scratch /\ b.scratch = a0.scratch
  BY <1>1, <1>2, <1>3, CoreTrans, SMTT(60)
<1>5. ASSUME NEW x, NEW y, SameCore(x, y)
      PROVE  /\ Single(y) = Single(x) /\ Operands(y) = Operands(x) /\ Output(y) = Output(x)
             /\ \A i \in 0 .. 2 : Val(y, i) = Val(x, i) /\ Reg(y, i) = Reg(x, i)
             /\ \A i \in 0 .. 2 : y.descs[i].clobber = x.descs[i].clobber /\ y.descs[i].live = x.descs[i].live
             /\ y.form = x.form /\ y.copy = x.copy /\ x.clobber \subseteq y.clobber /\ Dest(y) = Dest(x)
             /\ y.ternary = x.ternary
  BY <1>5, CoreSets DEF SameCore
<1>6. \A i \in Operands(a) : i \in 0 .. 2 /\ (i = 0 => a.ternary)
  BY DEF Operands, Given, Inputs
<1>7. \A i \in Single(a) : i \in Operands(a)
  BY DEF Single
<1>8. \A j \in Single(a) : a.descs[j].clobber => j = 1 /\ ~a.ternary
  BY <1>7 DEF Sound, Operated
<1>9. ASSUME NEW x, SameCore(a, x)
      PROVE  /\ NoClass(permanent, x) /\ Unmoved(global, g, x)
             /\ \A j \in Single(x) : x.descs[j].clobber => j = 1 /\ ~x.ternary
  <2>1. x.form = a.form
    BY <1>9 DEF SameCore
  <2>2. \A i \in Single(a) : i \in 0 .. 2
    BY <1>6, <1>7
  <2>3. Unmoved(global, g, x)
    BY <1>5, <1>9, <2>2 DEF Unmoved
  <2> QED
    BY <1>5, <1>8, <1>9, <2>1, <2>2, <2>3 DEF NoClass
<1>10. ASSUME 0 \in Single(a)
       PROVE  Fated(global, permanent, g, b, 0, b.descs[0])
  <2>1. Cleared(permanent, g, a, 0)
    BY <1>6, <1>7, <1>8, <1>10 DEF Cleared
  <2>2. Fated(global, permanent, g, a, 0, a0.descs[0])
    BY <1>1, <1>10, <2>1, FateRight
  <2>3. b.descs[0] = a0.descs[0]
    BY <1>2, <1>3 DEF Flags
  <2> QED
    BY <1>4, <1>10, <2>2, <2>3, FatedKept
<1>11. ASSUME 1 \in Single(a)
       PROVE  Fated(global, permanent, g, b, 1, b.descs[1])
  <2>0. Single(a0) = Single(a) /\ NoClass(permanent, a0) /\ Unmoved(global, g, a0)
        /\ \A j \in Single(a0) : a0.descs[j].clobber => j = 1 /\ ~a0.ternary
    BY <1>1, <1>5, <1>9
  <2>1. Cleared(permanent, g, a0, 1)
    BY <2>0 DEF Cleared
  <2>2. Fated(global, permanent, g, a0, 1, a1.descs[1])
    BY <1>1, <1>2, <1>11, <2>0, <2>1, FateRight
  <2>3. b.descs[1] = a1.descs[1]
    BY <1>3 DEF Flags
  <2> QED
    BY <1>4, <1>11, <2>0, <2>2, <2>3, FatedKept
<1>12. ASSUME 2 \in Single(a)
       PROVE  Fated(global, permanent, g, b, 2, b.descs[2])
  <2>0. Single(a1) = Single(a) /\ NoClass(permanent, a1) /\ Unmoved(global, g, a1)
        /\ \A j \in Single(a1) : a1.descs[j].clobber => j = 1 /\ ~a1.ternary
    BY <1>4, <1>5, <1>9
  <2>1. Cleared(permanent, g, a1, 2)
    <3> SUFFICES ASSUME NEW j \in Single(a1), j # 2, a1.descs[j].clobber, Alive(g, a1, Reg(a1, j)),
                        Reg(a1, j) \notin permanent
                 PROVE  Reg(a1, j) \in a1.clobber
      BY DEF Cleared
    <3>1. j = 1
      BY <2>0
    <3>2. Reg(a1, 1) = Reg(a0, 1) /\ Single(a1) = Single(a0) /\ a0.descs[1].clobber
      BY <1>2, <1>5, <3>1
    <3>3. 1 \in Given(a0)
      BY <3>1, <3>2 DEF Single, Operands
    <3>4. Reg(a0, 1) \in Regs
      BY <1>1, <3>3, SoundShape DEF Shape
    <3>5. Alive(g, a0, Reg(a0, 1))
      <4> DEFINE r == Reg(a0, 1)
      <4>1. r \in Regs /\ Alive(g, a1, r)
        BY <3>1, <3>2, <3>4
      <4> HIDE DEF r
      <4>2. Alive(g, a0, r)
        BY <1>1, <1>2, <4>1, AliveSame
      <4> QED
        BY <4>2 DEF r
    <3>6. Taking(g, a0, 1)
      BY <3>1, <3>2 DEF Taking
    <3> QED
      BY <1>2, <3>1, <3>2, <3>5, <3>6
  <2>2. Fated(global, permanent, g, a1, 2, b.descs[2])
    BY <1>2, <1>3, <1>12, <2>0, <2>1, FateRight
  <2> QED
    BY <1>3, <1>12, <2>0, <2>2, FatedKept
<1>13. \A i \in Single(b) : Fated(global, permanent, g, b, i, b.descs[i])
  <2> TAKE i \in Single(b)
  <2>1. i \in Single(a)
    BY <1>4, <1>5
  <2>2. i \in 0 .. 2
    BY <1>6, <1>7, <2>1
  <2>3. i = 0 \/ i = 1 \/ i = 2
    BY <2>2
  <2> QED
    BY <1>10, <1>11, <1>12, <2>1, <2>3
<1>14. \A i \in Operands(b) \ Single(b) : Unset(b.descs[i])
  <2> TAKE i \in Operands(b) \ Single(b)
  <2>1. i \in 0 .. 2 /\ i \in Operands(a) \ Single(a)
    BY <1>4, <1>5, <1>6, SMTT(60)
  <2>2. a.descs[i].duplicate /\ a0.descs[i].duplicate /\ a1.descs[i].duplicate
    BY <1>1, <1>4, <2>1 DEF Single, SameCore
  <2>3. i = 0 \/ i = 1 \/ i = 2
    BY <2>1
  <2>4. a0.descs[i] = a.descs[i]
    <3>1. CASE i = 0
      BY <1>1, <2>2, <3>1 DEF Flags
    <3>2. CASE i # 0
      BY <1>1, <2>1, <3>2 DEF Flags
    <3> QED
      BY <3>1, <3>2
  <2>5. a1.descs[i] = a0.descs[i]
    <3>1. CASE i = 1
      BY <1>2, <2>2, <3>1 DEF Flags
    <3>2. CASE i # 1
      BY <1>2, <2>1, <3>2 DEF Flags
    <3> QED
      BY <3>1, <3>2
  <2>6. b.descs[i] = a1.descs[i]
    <3>1. CASE i = 2
      BY <1>3, <2>2, <3>1 DEF Flags
    <3>2. CASE i # 2
      BY <1>3, <2>1, <3>2 DEF Flags
    <3> QED
      BY <3>1, <3>2
  <2> QED
    BY <2>1, <2>4, <2>5, <2>6
<1>15. ASSUME Output(b)
       PROVE  ~b.descs[0].kill
  <2>1. Output(a) /\ ~a.ternary /\ 0 \in Given(a)
    BY <1>4, <1>5, <1>15 DEF Output
  <2>2. b.descs[0] = a0.descs[0]
    BY <1>2, <1>3 DEF Flags
  <2>3. ~a.descs[0].kill
    BY DEF Unset
  <2>4. 0 \notin Inputs(a)
    BY <2>1 DEF Inputs
  <2>5. Reg(a, 0) \in permanent => Reg(a, 0) = global[a.descs[0].value]
    BY <2>1 DEF Sound, Placed, ResultHeld, Dest
  <2>6. ~a0.descs[0].kill
    <3>1. CASE Reg(a, 0) = NoReg \/ a.descs[0].duplicate
      <4>1. a0 = a
        BY <1>1, <3>1 DEF Flags
      <4> QED
        BY <2>3, <4>1
    <3>2. CASE ~(Reg(a, 0) = NoReg \/ a.descs[0].duplicate)
      <4>1. a0.descs[0].kill = (a.descs[0].kill \/ (~a.descs[0].copy /\ global[a.descs[0].value] # a.descs[0].reg
                                                     /\ a.descs[0].reg \in permanent))
        BY <1>1, <2>4, <3>2 DEF Flags
      <4> QED
        BY <2>3, <2>5, <4>1 DEF Reg
    <3> QED
      BY <3>1, <3>2
  <2> QED
    BY <2>2, <2>6
<1>16. ASSUME NEW i \in 0 .. 2, Taking(g, b, i), Reg(b, i) \notin permanent, Needy(g, b, Reg(b, i))
       PROVE  Reg(b, i) \in b.clobber
  <2>1. i \in Given(b)
    BY <1>16 DEF Taking, Output, Single, Operands
  <2>2. Reg(b, i) \in Regs
    BY <1>3, <2>1, SoundShape DEF Shape
  <2> DEFINE r == Reg(b, i)
  <2>3. Alive(g, b, r)
    <3>1. PICK w \in Values : /\ g.in_reg[w] = r /\ w # Dest(b)
                              /\ \A j \in Operands(b) : Val(b, j) = w => b.descs[j].live
      BY <1>16 DEF Needy
    <3> HIDE DEF r
    <3> QED
      BY <1>3, <2>2, <3>1, NoRegApart, AliveRight DEF r
  <2>4. ASSUME NEW x, SameCore(x, b), Sound(global, permanent, g, x)
        PROVE  Taking(g, x, i) /\ Reg(x, i) = r /\ Alive(g, x, r)
    <3>1. /\ Single(b) = Single(x) /\ Output(b) = Output(x) /\ b.copy = x.copy
          /\ Val(b, i) = Val(x, i) /\ Reg(b, i) = Reg(x, i) /\ b.descs[i].clobber = x.descs[i].clobber
      BY <1>5, <2>4
    <3>2. Taking(g, x, i) /\ Reg(x, i) = r
      BY <1>16, <3>1 DEF Taking
    <3>3. r \in Regs
      BY <2>2
    <3> HIDE DEF r
    <3>4. Alive(g, x, r)
      BY <1>3, <2>3, <2>4, <3>3, AliveSame
    <3> QED
      BY <3>2, <3>4
  <2>5. i = 0 \/ i = 1 \/ i = 2
    OBVIOUS
  <2>6. r \notin permanent
    BY <1>16, SMTT(60)
  <2> HIDE DEF r
  <2>7. CASE i = 0
    <3>1. Taking(g, a, 0) /\ Reg(a, 0) = r /\ Alive(g, a, r)
      BY <1>4, <2>4, <2>7
    <3>2. r \in a0.clobber
      BY <1>1, <2>6, <3>1
    <3> QED
      BY <1>4, <2>7, <3>2 DEF SameCore, r
  <2>8. CASE i = 1
    <3>1. Taking(g, a0, 1) /\ Reg(a0, 1) = r /\ Alive(g, a0, r)
      BY <1>1, <1>4, <2>4, <2>8
    <3>2. r \in a1.clobber
      BY <1>2, <2>6, <3>1
    <3> QED
      BY <1>3, <2>8, <3>2 DEF SameCore, r
  <2>9. CASE i = 2
    <3>1. Taking(g, a1, 2) /\ Reg(a1, 2) = r /\ Alive(g, a1, r)
      BY <1>2, <1>3, <2>4, <2>9
    <3> QED
      BY <1>3, <2>6, <2>9, <3>1 DEF r
  <2> QED
    BY <2>5, <2>7, <2>8, <2>9
<1> QED
  BY <1>3, <1>4, <1>13, <1>14, <1>15, <1>16 DEF Finished

\* The registers of the operands, and what is chosen of them.
LEMMA SoundFacts ==
    ASSUME NEW g, NEW rs, Sound(global, permanent, g, rs)
    PROVE  /\ \A i \in Operands(rs) : /\ i \in 0 .. 2 /\ i \in Given(rs) /\ (i > 0 \/ rs.ternary)
                                      /\ Val(rs, i) \in Values /\ Val(rs, i) # NoValue
                                      /\ Reg(rs, i) \in Regs /\ Reg(rs, i) # NoReg
           /\ Chosen(rs) = Operands(rs) /\ Chosen(rs) \cap Single(rs) = Single(rs)
           /\ \A i \in Single(rs) : i \in Operands(rs)
           /\ \A i \in 0 .. 2 : i \notin Given(rs) <=> Val(rs, i) = NoValue
           /\ Output(rs) => /\ ~rs.ternary /\ 0 \in Given(rs) /\ Dest(rs) = Val(rs, 0) /\ Val(rs, 0) # NoValue
                            /\ Reg(rs, 0) \in Regs /\ \A i \in Operands(rs) : i \in {1, 2}
           /\ ~Output(rs) => Dest(rs) = NoValue
<1>1. Shape(rs)
  BY SoundShape
<1>2. \A i \in Operands(rs) : i \in 0 .. 2 /\ i \in Given(rs) /\ (i > 0 \/ rs.ternary)
  BY DEF Operands, Given, Inputs
<1>3. \A i \in 0 .. 2 : i \notin Given(rs) <=> Val(rs, i) = NoValue
  BY DEF Given, Val
<1>4. \A i \in 0 .. 2 : Val(rs, i) \in Values \cup {NoValue}
  BY <1>1, DescFields DEF Shape, Val
<1>5. \A i \in Given(rs) : Reg(rs, i) \in Regs /\ Reg(rs, i) # NoReg
  BY <1>1 DEF Shape, Sound
<1>6. \A i \in Operands(rs) : /\ Val(rs, i) \in Values /\ Val(rs, i) # NoValue
                              /\ Reg(rs, i) \in Regs /\ Reg(rs, i) # NoReg
  BY <1>2, <1>3, <1>4, <1>5
<1>7. Chosen(rs) = Operands(rs) /\ \A i \in Single(rs) : i \in Operands(rs)
  BY <1>6 DEF Chosen, Single
<1>8. Output(rs) => /\ ~rs.ternary /\ 0 \in Given(rs) /\ Dest(rs) = Val(rs, 0) /\ Val(rs, 0) # NoValue
                    /\ Reg(rs, 0) \in Regs /\ \A i \in Operands(rs) : i \in {1, 2}
  <2> SUFFICES ASSUME Output(rs)
               PROVE  /\ ~rs.ternary /\ 0 \in Given(rs) /\ Dest(rs) = Val(rs, 0) /\ Val(rs, 0) # NoValue
                      /\ Reg(rs, 0) \in Regs /\ \A i \in Operands(rs) : i \in {1, 2}
    OBVIOUS
  <2>1. ~rs.ternary /\ 0 \in Given(rs) /\ Dest(rs) = Val(rs, 0)
    BY DEF Output, Dest, Val
  <2>2. \A i \in Operands(rs) : i \in {1, 2}
    BY <1>2, <2>1
  <2> QED
    BY <1>3, <1>5, <2>1, <2>2
<1>9. ~Output(rs) => Dest(rs) = NoValue
  BY DEF Dest
<1> QED
  BY <1>2, <1>3, <1>6, <1>7, <1>8, <1>9

\* The finished record satisfies Assigned: the duplicates,
LEMMA AsgDuplicates ==
    ASSUME Static, NEW g, GenOK(global, g), NEW a, NEW rs, Finished(global, permanent, g, a, rs), ~Shares(g, rs)
    PROVE  Duplicates(g, rs)
<1>1. Sound(global, permanent, g, rs) /\ \A i \in Operands(rs) \ Single(rs) : Unset(rs.descs[i])
  BY DEF Finished
<1>2. /\ \A i \in Operands(rs) : /\ i \in 0 .. 2 /\ i \in Given(rs) /\ (i > 0 \/ rs.ternary)
                                 /\ Val(rs, i) # NoValue
      /\ Chosen(rs) \cap Single(rs) = Single(rs)
      /\ \A i \in Single(rs) : i \in Operands(rs)
  BY <1>1, SoundFacts
<1> SUFFICES ASSUME NEW i \in Operands(rs) \ Single(rs)
             PROVE  /\ ~rs.descs[i].store /\ ~rs.descs[i].thrash
                    /\ \E j \in Single(rs) :
                          /\ Reg(rs, j) = Reg(rs, i)
                          /\ \/ Val(rs, i) = Val(rs, j)
                             \/ /\ g.in_reg[Val(rs, i)] # NoReg /\ g.in_reg[Val(rs, i)] = g.in_reg[Val(rs, j)]
                                /\ ~Thrashed(g, rs, Val(rs, j))
                    /\ \/ \E j \in Single(rs) : Val(rs, j) = Val(rs, i)
                       \/ ~Output(rs) /\ g.in_reg[Val(rs, i)] \notin Disturbed(rs)
  BY DEF Duplicates
<1>3. ~rs.descs[i].store /\ ~rs.descs[i].thrash
  BY <1>1 DEF Unset
<1>4. PICK j \in Single(rs) : Reg(rs, j) = Reg(rs, i) /\ Equal(g, Val(rs, i), Val(rs, j))
  BY <1>1, <1>2 DEF Sound, Placed, Held
<1>5. i = 2 \/ rs.ternary
  BY <1>1 DEF Sound, Placed, Held
<1>6. CASE Val(rs, i) = Val(rs, j)
  BY <1>3, <1>4, <1>6
<1>7. CASE Val(rs, i) # Val(rs, j)
  <2>1. g.in_reg[Val(rs, i)] # NoReg /\ g.in_reg[Val(rs, i)] = g.in_reg[Val(rs, j)]
    BY <1>4, <1>7 DEF Equal
  <2>2. i # j /\ j \in Operands(rs) /\ j \in 0 .. 2 /\ i \in 0 .. 2 /\ (j > 0 \/ rs.ternary)
    BY <1>2
  <2>3. CASE \E k \in Single(rs) : Val(rs, k) = Val(rs, i)
    <3>1. PICK k \in Single(rs) : Val(rs, k) = Val(rs, i)
      BY <2>3
    <3>2. k # i /\ k # j /\ k \in 0 .. 2 /\ k \in Operands(rs)
      BY <1>2, <1>7, <3>1
    <3>3. \A q \in Operands(rs) : q = i \/ q = j \/ q = k
      BY <1>2, <2>2, <3>2
    <3>4. \A q \in Operands(rs) : Equal(g, Val(rs, j), Val(rs, q))
      BY <2>1, <3>1, <3>3 DEF Equal
    <3>5. ~Thrashed(g, rs, Val(rs, j))
      BY <3>4 DEF Thrashed
    <3> QED
      BY <1>3, <1>4, <2>1, <3>1, <3>5
  <2>4. CASE ~\E k \in Single(rs) : Val(rs, k) = Val(rs, i)
    <3>1. /\ i \in Inputs(rs) \cap Given(rs) /\ rs.descs[i].duplicate
          /\ \A k \in Inputs(rs) \cap Given(rs) : rs.descs[k].duplicate \/ rs.descs[k].value # rs.descs[i].value
      BY <2>4 DEF Operands, Single, Val
    <3>2. /\ ~(~rs.ternary /\ 0 \in Given(rs)) /\ g.in_reg[rs.descs[i].value] \notin Changed(rs)
          /\ ~\E q \in Inputs(rs) \cap Given(rs) :
                 rs.descs[q].reg = g.in_reg[rs.descs[i].value] /\ ~ValuesEqual(g, rs.descs[i], rs.descs[q])
      BY <3>1 DEF Shares
    <3>3. ~Output(rs)
      BY <3>2 DEF Output
    <3>4. g.in_reg[Val(rs, i)] \notin Disturbed(rs)
      BY <3>2, <3>3 DEF Disturbed, Val
    <3>5. ~Thrashed(g, rs, Val(rs, j))
      <4> SUFFICES ASSUME NEW q \in Operands(rs), g.in_reg[Val(rs, j)] = Reg(rs, q)
                   PROVE  Equal(g, Val(rs, j), Val(rs, q))
        BY DEF Thrashed
      <4>1. ValuesEqual(g, rs.descs[i], rs.descs[q])
        BY <2>1, <3>2 DEF Operands, Val, Reg
      <4> QED
        BY <2>1, <4>1 DEF ValuesEqual, Equal, Val
    <3> QED
      BY <1>3, <1>4, <2>1, <3>3, <3>4, <3>5
  <2> QED
    BY <2>3, <2>4
<1> QED
  BY <1>6, <1>7

\* ... the places,
LEMMA AsgPlaces ==
    ASSUME Static, NEW g, GenOK(global, g), Loose(permanent, g), NEW a, NEW rs, Finished(global, permanent, g, a, rs),
           ~Homes(g, rs), Unmoved(global, g, rs)
    PROVE  Places(global, permanent, g, rs)
<1>1. Sound(global, permanent, g, rs)
  BY DEF Finished
<1>2. /\ \A i \in Operands(rs) : /\ i \in 0 .. 2 /\ Val(rs, i) \in Values /\ Val(rs, i) # NoValue
                                 /\ Reg(rs, i) \in Regs /\ Reg(rs, i) # NoReg
      /\ Chosen(rs) = Operands(rs) /\ Chosen(rs) \cap Single(rs) = Single(rs)
      /\ \A i \in Single(rs) : i \in Operands(rs)
      /\ Output(rs) => /\ ~rs.ternary /\ Dest(rs) = Val(rs, 0) /\ \A i \in Operands(rs) : i \in {1, 2}
      /\ ~Output(rs) => Dest(rs) = NoValue
  BY <1>1, SoundFacts
<1>3. Held(g, rs) /\ Global(global, permanent, rs)
  BY <1>1 DEF Sound, Placed
<1>4. \A i, j \in Single(rs) : i # j => Reg(rs, i) # Reg(rs, j)
  BY <1>2, <1>3 DEF Held
<1>5. \A i \in Single(rs) : Reg(rs, i) \in permanent => Reg(rs, i) = global[Val(rs, i)] \/ Reg(rs, i) = global[Dest(rs)]
  BY <1>2, <1>3 DEF Global
<1>6. \A i \in Single(rs) : Reg(rs, i) \notin g.inhibit
  BY <1>2, <1>3 DEF Held
<1>7. ASSUME NEW i \in Single(rs), NEW j \in Single(rs), i < j, Reg(rs, i) = global[Dest(rs)],
             Val(rs, j) = Dest(rs), Val(rs, i) # Dest(rs), g.in_reg[Dest(rs)] = NoReg
      PROVE  FALSE
  <2>1. Output(rs)
    BY <1>2, <1>7
  <2>2. i \in {1, 2} /\ j \in {1, 2}
    BY <1>2, <2>1
  <2>3. i = 1 /\ j = 2
    BY <1>7, <2>2
  <2>4. rs.descs[2].value = Val(rs, 0) /\ ~rs.ternary /\ rs.descs[1].reg = global[Val(rs, 0)]
        /\ g.in_reg[Val(rs, 0)] = NoReg /\ rs.descs[1].value \notin {Val(rs, 0), NoValue}
        /\ global[Val(rs, 0)] # NoReg
    BY <1>2, <1>7, <2>1, <2>3 DEF Val, Reg
  <2> QED
    BY <2>4 DEF Homes, HasGlobal, Val
<1> QED
  BY <1>4, <1>5, <1>6, <1>7 DEF Places, Unmoved

\* ... the spills,
LEMMA AsgSpills ==
    ASSUME Static, NEW g, GenOK(global, g), Loose(permanent, g), NEW a, NEW rs, Finished(global, permanent, g, a, rs),
           NoClass(permanent, rs)
    PROVE  Spills(g, rs)
<1>1. Sound(global, permanent, g, rs)
      /\ \A i \in 0 .. 2 : Taking(g, rs, i) /\ Reg(rs, i) \notin permanent /\ Needy(g, rs, Reg(rs, i))
                           => Reg(rs, i) \in rs.clobber
  BY DEF Finished
<1>2. /\ \A i \in Operands(rs) : i \in 0 .. 2 /\ Reg(rs, i) # NoReg
      /\ \A i \in Single(rs) : i \in Operands(rs)
  BY <1>1, SoundFacts
<1> SUFFICES ASSUME NEW w \in Values \ (Reads(rs) \cup {Dest(rs)}),
                    g.in_reg[w] \in Disturbed(rs)
                        \cup {Reg(rs, i) : i \in {j \in Single(rs) : g.in_reg[Val(rs, j)] # Reg(rs, j)}}
             PROVE  g.in_reg[w] \in rs.clobber
  BY DEF Spills
<1>3. Needy(g, rs, g.in_reg[w])
  BY DEF Needy, Reads
<1>4. g.in_reg[w] # NoReg => g.in_reg[w] \notin permanent
  BY DEF Loose
<1>5. ASSUME NEW i \in 0 .. 2, Reg(rs, i) = g.in_reg[w], Reg(rs, i) # NoReg, Taking(g, rs, i)
      PROVE  g.in_reg[w] \in rs.clobber
  <2>1. Needy(g, rs, Reg(rs, i)) /\ Reg(rs, i) \notin permanent
    BY <1>3, <1>4, <1>5
  <2> QED
    BY <1>1, <1>5, <2>1
<1>6. CASE g.in_reg[w] \in Disturbed(rs)
  <2> DEFINE r == g.in_reg[w]
  <2>1. r \in Disturbed(rs)
    BY <1>6
  <2> HIDE DEF r
  <2>2. \/ r \in rs.clobber
        \/ \E j \in Single(rs) : Reg(rs, j) = r /\ rs.descs[j].clobber /\ j = 1 /\ ~rs.ternary /\ ~rs.copy
        \/ Output(rs) /\ ~rs.copy /\ r = Reg(rs, 0)
    BY <1>1, <2>1, DisturbedBy
  <2>3. CASE \E j \in Single(rs) : Reg(rs, j) = r /\ rs.descs[j].clobber
    <3>1. PICK j \in Single(rs) : Reg(rs, j) = r /\ rs.descs[j].clobber
      BY <2>3
    <3>2. Taking(g, rs, j) /\ j \in 0 .. 2 /\ Reg(rs, j) # NoReg
      BY <1>2, <3>1 DEF Taking
    <3> QED
      BY <1>5, <3>1, <3>2 DEF r
  <2>4. CASE Output(rs) /\ ~rs.copy /\ r = Reg(rs, 0)
    <3>1. Taking(g, rs, 0) /\ Reg(rs, 0) # NoReg
      BY <1>1, <2>4 DEF Taking, Output, Sound
    <3> QED
      BY <1>5, <2>4, <3>1 DEF r
  <2> QED
    BY <2>2, <2>3, <2>4 DEF r
<1>7. CASE g.in_reg[w] \in {Reg(rs, i) : i \in {j \in Single(rs) : g.in_reg[Val(rs, j)] # Reg(rs, j)}}
  <2>1. PICK i \in Single(rs) : g.in_reg[Val(rs, i)] # Reg(rs, i) /\ g.in_reg[w] = Reg(rs, i)
    BY <1>7
  <2>2. Taking(g, rs, i) /\ i \in 0 .. 2 /\ Reg(rs, i) # NoReg
    BY <1>2, <2>1 DEF Taking
  <2> QED
    BY <1>5, <2>1, <2>2
<1> QED
  BY <1>6, <1>7

\* ... the fates of the operands,
LEMMA AsgFates ==
    ASSUME NEW g, NEW a, NEW rs, Finished(global, permanent, g, a, rs)
    PROVE  Fates(global, permanent, g, rs)
<1> SUFFICES ASSUME NEW i \in Single(rs)
             PROVE  LET d  == rs.descs[i]
                        v  == Val(rs, i)
                        at == g.in_reg[v]
                    IN /\ d.thrash <=> Thrashed(g, rs, v)
                       /\ d.thrash => d.store
                       /\ v \in Constants \/ v = Dest(rs) \/ ~d.used => d.kill
                       /\ ~d.kill /\ at # NoReg /\ ~d.thrash => at \notin Disturbed(rs)
                       /\ ~d.kill /\ (at = NoReg \/ d.thrash) /\ global[v] = NoReg => Reg(rs, i) \notin Disturbed(rs) \cup permanent
                       /\ v \in Slots \ {Dest(rs)} /\ d.live /\ d.kill => d.store \/ at = NoReg
  BY DEF Fates
<1>1. Fated(global, permanent, g, rs, i, rs.descs[i])
  BY DEF Finished
<1> QED
  BY <1>1 DEF Fated

\* The registers that an instruction changes.
LEMMA AsgChanged ==
    ASSUME Static, NEW g, NEW rs, Sound(global, permanent, g, rs)
    PROVE  /\ Changed(rs) \cap permanent \subseteq {global[Dest(rs)]}
           /\ Plain(rs.form) /\ (rs.copy \/ rs.form.name \in {"set_param", "incoming"}) => Changed(rs) = {}
<1>1. /\ \A i \in Operands(rs) : i \in 0 .. 2
      /\ Chosen(rs) = Operands(rs)
      /\ \A i \in Operands(rs) : Reg(rs, i) # NoReg
  BY SoundFacts
<1>2. Operated(g, rs) /\ Held(g, rs) /\ Global(global, permanent, rs) /\ Spoiled(permanent, rs)
      /\ rs.form \in Forms /\ DOMAIN rs.scratch = DOMAIN rs.form.scratch
  BY DEF Sound, Placed, FromForm
<1>3. \A j \in Operands(rs) : rs.descs[j].clobber =>
         j = 1 /\ ~rs.ternary /\ ~rs.copy /\ rs.form.name \notin {"set_param", "incoming"} /\ j \in Chosen(rs) \cap Single(rs)
  <2> SUFFICES ASSUME NEW j \in Operands(rs), rs.descs[j].clobber
               PROVE  j = 1 /\ ~rs.ternary /\ ~rs.copy /\ rs.form.name \notin {"set_param", "incoming"}
                      /\ j \in Chosen(rs) \cap Single(rs)
    OBVIOUS
  <2>1. j = 1 /\ ~rs.ternary /\ ~rs.copy /\ rs.form.name \notin {"set_param", "incoming"}
    BY <1>2 DEF Operated
  <2>2. j \in Single(rs)
    BY <1>2, <2>1 DEF Held
  <2> QED
    BY <1>1, <2>1, <2>2
<1>4. ASSUME NEW r \in Changed(rs)
      PROVE  \/ r \in ToSet(rs.scratch) \ {NoReg}
             \/ \E j \in Operands(rs) : rs.descs[j].clobber /\ r = Reg(rs, j)
             \/ r \in ToSet(rs.form.clobbers)
  BY DEF Changed, Operands, Reg
<1>5. Changed(rs) \cap permanent \subseteq {global[Dest(rs)]}
  <2> SUFFICES ASSUME NEW r \in Changed(rs), r \in permanent
               PROVE  r = global[Dest(rs)]
    OBVIOUS
  <2>1. r \notin ToSet(rs.scratch) \ {NoReg}
    BY <1>2 DEF Spoiled
  <2>2. r \notin ToSet(rs.form.clobbers)
    <3>1. \A k \in DOMAIN rs.form.clobbers : rs.form.clobbers[k] \in CallUsed
      BY <1>2, NamedRegisters
    <3> QED
      BY <3>1, RegAllocAssumption DEF ToSet, Static, StaticOK
  <2>3. PICK j \in Operands(rs) : rs.descs[j].clobber /\ r = Reg(rs, j)
    BY <1>4, <2>1, <2>2
  <2>4. j \in Chosen(rs) \cap Single(rs)
    BY <1>3, <2>3
  <2> QED
    BY <1>2, <2>3, <2>4 DEF Global
<1>6. ASSUME Plain(rs.form), rs.copy \/ rs.form.name \in {"set_param", "incoming"}
      PROVE  Changed(rs) = {}
  <2>1. ToSet(rs.scratch) = {}
    <3>1. DOMAIN rs.scratch = {}
      BY <1>2, <1>6 DEF Plain
    <3> QED
      BY <3>1 DEF ToSet
  <2>2. ToSet(rs.form.clobbers) = {}
    BY <1>6 DEF Plain, ToSet
  <2> QED
    BY <1>3, <1>4, <1>6, <2>1, <2>2
<1> QED
  BY <1>5, <1>6

\* ... the place of the result,
LEMMA AsgResult ==
    ASSUME Static, NEW g, NEW a, NEW rs, Finished(global, permanent, g, a, rs)
    PROVE  ResultPlace(global, permanent, g, rs)
<1>1. Sound(global, permanent, g, rs) /\ (Output(rs) => ~rs.descs[0].kill)
  BY DEF Finished
<1>2. Operated(g, rs) /\ Held(g, rs) /\ ResultHeld(global, permanent, rs)
      /\ rs.form \in Forms /\ rs.ternary = rs.form.ternary /\ rs.copy = rs.form.copy
  BY <1>1 DEF Sound, Placed, FromForm
<1> SUFFICES ASSUME Output(rs)
             PROVE  /\ Reg(rs, 0) \in permanent => Reg(rs, 0) = global[Dest(rs)]
                    /\ ~rs.descs[0].kill /\ Reg(rs, 0) \notin g.inhibit
                    /\ ~rs.free => 1 \in Given(rs) /\ Reg(rs, 0) = Reg(rs, 1)
                    /\ rs.copy => ~rs.free /\ 1 \in Single(rs) /\ Changed(rs) = {}
                    /\ rs.descs[0].early => \A i \in Operands(rs) : Reg(rs, i) # Reg(rs, 0)
  BY DEF ResultPlace
<1>3. ~rs.ternary /\ Reg(rs, 0) # NoReg /\ Chosen(rs) = Operands(rs)
  BY <1>1, SoundFacts, NoRegApart
<1>4. /\ g.inhibit = {} /\ (~rs.free => 1 \in Given(rs)) /\ (rs.copy => ~rs.free)
  BY <1>2 DEF Operated
<1>5. /\ Reg(rs, 0) \in permanent => Reg(rs, 0) = global[Dest(rs)]
      /\ ~rs.free => Reg(rs, 1) = Reg(rs, 0)
      /\ rs.descs[0].early => \A i \in Operands(rs) : Reg(rs, i) # Reg(rs, 0)
  BY <1>2, <1>3 DEF ResultHeld
<1>6. ASSUME rs.copy
      PROVE  1 \in Single(rs) /\ Changed(rs) = {}
  <2>1. 1 \in Operands(rs)
    BY <1>3, <1>4, <1>6 DEF Operands, Inputs
  <2>2. 1 \in Single(rs)
    BY <1>2, <1>3, <2>1 DEF Held
  <2>3. Plain(rs.form)
    BY <1>2, <1>3, <1>6, FormFacts DEF ResultRight
  <2> QED
    BY <1>1, <1>6, <2>2, <2>3, AsgChanged
<1> QED
  BY <1>1, <1>4, <1>5, <1>6

\* ... and the rule of the instruction.
LEMMA AsgRule ==
    ASSUME NEW g, NEW rs, Sound(global, permanent, g, rs)
    PROVE  FromRule(global, g, rs)
<1>1. Listed(g, rs) /\ rs.form \in Forms /\ rs.ternary = rs.form.ternary
  BY DEF Sound, FromForm
<1>2. rs.ternary \/ Dest(rs) = rs.args[0]
  <2>1. 0 \notin Given(rs) => Val(rs, 0) = NoValue
    BY DEF Given, Val
  <2> QED
    BY <1>1, <2>1 DEF Listed, Dest, Output, Val
<1>3. \A i \in Given(rs) : rs.descs[i].live <=> Val(rs, i) \in Slots /\ rs.after[Val(rs, i)] # "dead"
  BY <1>1 DEF Listed, IsLive, Val, Given
<1>4. \A v \in rs.memory : \E j \in 0 .. 2 :
        /\ v = rs.args[j]
        /\ \/ rs.form.operands[j].kind = "frame"
           \/ rs.form.operands[j].kind = "local" /\ v \in Slots /\ g.in_reg[v] = NoReg /\ global[v] = NoReg
  <2> TAKE v \in rs.memory
  <2>1. v \in Framed(g, rs.form, rs.args, rs.after)
    BY <1>1 DEF Listed
  <2>2. PICK j \in 0 .. 2 : v = rs.args[j] /\ (rs.form.operands[j].kind = "frame"
                                                \/ FromFrame(g, rs.form, rs.args, rs.after, j))
    BY <2>1 DEF Framed
  <2> QED
    BY <2>2 DEF FromFrame, HasGlobal
<1> QED
  BY <1>1, <1>2, <1>3, <1>4 DEF Listed, FromRule

\* There are finitely many values.
LEMMA ValuesFinite == IsFiniteSet(Values)
<1> DEFINE n == Len(ValueList)
           f == [k \in 1 .. n |-> ValueList[k]]
<1>1. n \in Nat /\ DOMAIN ValueList = 1 .. n
  BY RegAllocAssumption
<1>2. Values = {ValueList[k] : k \in 1 .. n}
  BY <1>1 DEF Values, ToSet
<1>3. IsFiniteSet(1 .. n)
  BY <1>1, FS_Interval
<1>4. IsFiniteSet({ValueList[k] : k \in 1 .. n})
  <2> DEFINE S == 1 .. n
             T == {f[k] : k \in S}
  <2>1. IsFiniteSet(S)
    BY <1>3
  <2>2. f \in Surjection(S, T)
    BY DEF Surjection
  <2> HIDE DEF S, T, f
  <2>3. IsFiniteSet(T)
    BY <2>1, <2>2, FS_Surjection
  <2>4. T = {ValueList[k] : k \in 1 .. n}
    BY DEF S, T, f
  <2> QED
    BY <2>3, <2>4
<1> QED
  BY <1>2, <1>4

\* compute_spill_cost.
LEMMA SpillCostType ==
    ASSUME NEW g, GenOK(global, g), NEW rs, NEW r \in Regs
    PROVE  SpillCost(g, rs, r) \in Nat
<1> DEFINE spilled == {v \in g.contents[r] : LET usage == Usage(rs, v)
                                             IN "DEAD" \notin usage /\ ("LIVE" \in usage => "USED" \in usage)}
           clean   == {v \in spilled : v \in IF HasGlobal(v) THEN g.in_global ELSE g.in_frame}
           homed   == {v \in spilled \ clean : HasGlobal(v)}
           rest    == spilled \ (clean \cup homed)
<1>1. g.contents[r] \subseteq Values
  BY DEF GenOK
<1>2. spilled \subseteq Values
  BY <1>1
<1> HIDE DEF spilled
<1>3. clean \subseteq Values /\ homed \subseteq Values /\ rest \subseteq Values
  BY <1>2
<1>4. SpillCost(g, rs, r) = Cardinality(clean) * 1 + Cardinality(homed) * 4 + Cardinality(rest) * 16
  BY DEF SpillCost, Cost, spilled
<1> HIDE DEF clean, homed, rest
<1>5. \A S : S \subseteq Values => Cardinality(S) \in Nat
  BY ValuesFinite, FS_Subset, FS_CardinalityType
<1>6. Cardinality(clean) \in Nat /\ Cardinality(homed) \in Nat /\ Cardinality(rest) \in Nat
  BY <1>3, <1>5
<1> QED
  BY <1>4, <1>6

\* clobbers_register, of an input.
LEMMA ClobbersIs ==
    ASSUME NEW g, NEW a, NEW i, NEW r, a.descs[i].value # NoValue, ~(i = 0 /\ ~a.ternary)
    PROVE  LET d == a.descs[i]
               input == IF a.ternary \/ a.descs[0].value = NoValue THEN d.clobber
                        ELSE ~a.copy /\ (r = a.descs[0].reg \/ d.clobber)
           IN Clobbers(g, a, i, r) = IF ~input /\ r \in {global[d.value], g.in_reg[d.value]} THEN {}
                                     ELSE (IF Alive(g, a, r) THEN {"REG"} ELSE {})
                                          \cup (IF input THEN {"INPUT_VALUE"} ELSE {})
  BY DEF Clobbers

\* What another register than that of the value costs.
LEMMA NotedCost ==
    ASSUME NEW g, GenOK(global, g), NEW h, Noted(g, h), NEW r \in Regs,
           NEW c, c = InputCost(g, h, 1, r, Clobbers(g, h, 1, r))
    PROVE  IF r = g.in_reg[Val(h, 1)] THEN c \in 0 .. 2 ELSE c = -1 \/ (c \in Int /\ c >= 4)
<1> DEFINE v == Val(h, 1)
           clobber == Clobbers(g, h, 1, r)
           bias == IF v # NoValue /\ HasGlobal(v) /\ global[v] # r THEN 2 ELSE 0
           spill == IF "REG" \in clobber /\ r \notin h.clobber THEN SpillCost(g, h, r) ELSE 0
           value == IF "INPUT_VALUE" \in clobber /\ h.descs[1].used THEN 1 ELSE 0
           there == IF g.in_reg[v] = r THEN 0 ELSE 4
<1>1. /\ h.descs[0].value = NoValue /\ h.descs[2].value = NoValue /\ h.descs[1].value = v /\ v # NoValue
  BY DEF Noted, Given, Val
<1>2. r \notin h.assigned /\ h.dest_input # 1 /\ ~h.ternary /\ v \notin g.in_global
  BY DEF Noted
<1>3. ~\E j \in (0 .. 2) \ {1} : /\ j # 0 \/ h.ternary
                                 /\ h.descs[j].value # NoValue
                                 /\ Thrashes(g, h.descs[1], r, h.descs[j])
  <2>1. \A j \in (0 .. 2) \ {1} : j = 0 \/ j = 2
    OBVIOUS
  <2> QED
    BY <1>1, <2>1
<1>4. c = IF "REG" \in clobber /\ r \in permanent THEN -1 ELSE there + bias + 0 + value + spill
  <2> HIDE DEF clobber
  <2>1. c = InputCost(g, h, 1, r, clobber)
    BY DEF clobber
  <2> QED
    BY <1>1, <1>2, <1>3, <2>1 DEF InputCost, Cost
<1>5. spill \in Nat
  BY SpillCostType
<1>6. CASE r = g.in_reg[v]
  <2> DEFINE input == IF h.ternary \/ h.descs[0].value = NoValue THEN h.descs[1].clobber
                      ELSE ~h.copy /\ (r = h.descs[0].reg \/ h.descs[1].clobber)
  <2>1. clobber = {}
    <3>1. h.descs[1].value # NoValue /\ ~(1 = 0 /\ ~h.ternary)
      BY <1>1
    <3>2. Clobbers(g, h, 1, r)
             = IF ~input /\ r \in {global[h.descs[1].value], g.in_reg[h.descs[1].value]} THEN {}
               ELSE (IF Alive(g, h, r) THEN {"REG"} ELSE {}) \cup (IF input THEN {"INPUT_VALUE"} ELSE {})
      BY <3>1, ClobbersIs
    <3>3. ~input
      BY <1>1 DEF Noted
    <3> HIDE DEF input
    <3> QED
      BY <1>1, <1>6, <3>2, <3>3
  <2> QED
    BY <1>4, <1>6, <2>1
<1>7. CASE r # g.in_reg[v]
  <2>1. there = 4 /\ bias \in Nat /\ value \in Nat
    BY <1>7
  <2> HIDE DEF there, bias, value, spill, clobber
  <2> QED
    BY <1>4, <1>5, <1>7, <2>1
<1> QED
  BY <1>6, <1>7

\* An argument that arrives in a register is assigned that register.
LEMMA NotedChosen ==
    ASSUME NEW g, GenOK(global, g), NEW h, IsAsg(h), Noted(g, h),
           NEW m, m = AssignInputs(g, h), Reg(m, 1) # NoReg
    PROVE  Reg(m, 1) = g.in_reg[Val(h, 1)]
<1> DEFINE class == h.descs[1].class
           costs == [q \in ToSet(class) |-> InputCost(g, h, 1, q, Clobbers(g, h, 1, q))]
           r == Cheapest(g, class, costs)
           b == ChooseInput(g, h, 1)
           c == ShareRegister(g, b, 1, 2)
           at == g.in_reg[Val(h, 1)]
<1>1. 1 \in Given(h) /\ 2 \notin Given(h) /\ h.descs[1].reg = NoReg /\ ToSet(class) = Regs /\ at \in Regs
  BY DEF Noted, Reg
<1>2. b = SetRegister(h, 1, r)
  BY <1>1 DEF ChooseInput
<1>3. class \in Seq(Regs)
  BY AsgFields, DescFields
<1>4. r = NoReg \/ Cheap(class, costs, r)
  <2>1. g \in Gens
    BY DEF GenOK
  <2> HIDE DEF class, costs
  <2> QED
    BY <1>3, <2>1, CheapestRight
<1>5. \A q \in Regs : costs[q] = InputCost(g, h, 1, q, Clobbers(g, h, 1, q))
  BY <1>1
<1>6. costs[at] \in 0 .. 2 /\ \A q \in Regs : q # at => costs[q] = -1 \/ (costs[q] \in Int /\ costs[q] >= 4)
  <2> HIDE DEF costs
  <2> QED
    BY <1>1, <1>5, NotedCost
<1>7. r # NoReg => r = at
  <2> SUFFICES ASSUME r # NoReg
               PROVE  r = at
    OBVIOUS
  <2>1. PICK j \in DOMAIN class : at = class[j]
    BY <1>1 DEF ToSet
  <2> HIDE DEF class, costs, r
  <2>2. PICK k \in DOMAIN class : /\ r = class[k] /\ costs[r] \in 0 .. TooMuch - 1
                                  /\ \A i \in DOMAIN class : costs[class[i]] \in 0 .. TooMuch - 1 => costs[r] <= costs[class[i]]
    BY <1>4 DEF Cheap
  <2>3. costs[at] \in 0 .. TooMuch - 1
    <3>1. TooMuch \in Nat /\ TooMuch > 2
      BY SMT DEF TooMuch
    <3> QED
      BY <1>6, <3>1
  <2>4. costs[r] <= costs[at]
    BY <2>1, <2>2, <2>3
  <2>5. r \in Regs
    BY <1>3, <2>2
  <2> QED
    BY <1>6, <2>2, <2>4, <2>5
<1>8. CASE r = NoReg
  <2>1. b = h
    BY <1>2, <1>8 DEF SetRegister
  <2>2. c = h
    <3> HIDE DEF b
    <3>1. h.descs[2].value = NoValue
      BY <1>1 DEF Given
    <3>2. ~ValuesEqual(g, h.descs[1], h.descs[2])
      BY <3>1, SMTT(60) DEF ValuesEqual
    <3> QED
      BY <2>1, <3>2 DEF ShareRegister
  <2>3. m = ChooseInput(g, c, 2) /\ ChooseInput(g, h, 2) = h
    BY <1>1 DEF AssignInputs, ChooseInput
  <2>4. m = h
    <3> HIDE DEF c
    <3> QED
      BY <2>2, <2>3
  <2> QED
    BY <2>4 DEF Noted
<1>9. CASE r # NoReg
  <2>1. Registered(h, 1, r, b)
    <3>1. r \in Regs
      BY <1>1, <1>7, <1>9
    <3> HIDE DEF r
    <3> QED
      BY <1>2, <3>1, SetRegisterEffect
  <2> HIDE DEF b, r
  <2>2. b.descs[2].value = h.descs[2].value /\ b.descs[1].reg = r
    BY <2>1 DEF Registered, SameBut, SameDesc
  <2>3. b.descs[2].value = NoValue
    BY <1>1, <2>2 DEF Given
  <2>4. c = b /\ ChooseInput(g, b, 2) = b
    BY <2>3 DEF ShareRegister, ValuesEqual, Given, ChooseInput
  <2>5. m = ChooseInput(g, c, 2)
    BY DEF AssignInputs, b
  <2>6. m = b
    <3> HIDE DEF c
    <3> QED
      BY <2>4, <2>5
  <2> QED
    BY <1>7, <1>9, <2>2, <2>6 DEF Reg
<1> QED
  BY <1>8, <1>9

\* The register of an incoming value is the one it arrived in.
LEMMA IncomingChosen ==
    ASSUME Static, NEW f, NEW form, NEW args, NEW after, Asked(global, permanent, f, form, args, after),
           form.name = "incoming",
           NEW m, m = AssignInputs(f, AssignOutput(f, Describe(f, form, args, after))), Complete(f, m).ok
    PROVE  Reg(m, 1) = f.in_reg[Val(m, 1)]
<1> DEFINE h == Describe(f, form, args, after)
<1>1. /\ Described(permanent, f, form, args, after, h) /\ Origin(f, h) /\ Placed(global, permanent, f, h)
      /\ h.dest_input = 0 /\ (h.form.name = "incoming" => h.assigned = {})
  <2>1. h = Describe(f, form, args, after)
    OBVIOUS
  <2> HIDE DEF h
  <2> QED
    BY <2>1, DescribeFields, DescribeOrigin, DescribeRight
<1>2. m = AssignInputs(f, AssignOutput(f, h))
  OBVIOUS
<1>3. Sound(global, permanent, f, m)
  BY RegistersChosen
<1> HIDE DEF h
<1>4. h.form.name = "incoming" /\ h.assigned = {}
  BY <1>1 DEF Described
<1>5. /\ Operands(h) = {1} /\ Val(h, 1) = h.args[1] /\ ToSet(h.descs[1].class) = Regs /\ ~Output(h)
      /\ ~h.descs[1].clobber
  BY <1>1, <1>4 DEF Origin, Operated
<1>6. ~h.ternary
  <2>1. h.ternary => 0 .. 2 = Inputs(h)
    BY DEF Inputs
  <2>2. form \in Forms /\ h.ternary = form.ternary
    BY <1>1 DEF Asked, Described
  <2> QED
    BY <2>2, FormFacts
<1>7. Given(h) = {1}
  <2>1. 0 \notin Given(h)
    BY <1>5, <1>6 DEF Output
  <2>2. \A i \in Given(h) : i \in 0 .. 2
    BY DEF Given
  <2>3. Inputs(h) = 1 .. 2
    BY <1>6 DEF Inputs
  <2>4. \A i \in Given(h) : i = 1
    BY <1>5, <2>1, <2>2, <2>3 DEF Operands
  <2>5. 1 \in Given(h)
    BY <1>5 DEF Operands
  <2> QED
    BY <2>4, <2>5
<1>8. Reg(h, 1) = NoReg
  <2> SUFFICES ASSUME Reg(h, 1) # NoReg
               PROVE  FALSE
    OBVIOUS
  <2>1. 1 \in Chosen(h)
    BY <1>5 DEF Chosen
  <2> QED
    BY <1>1, <1>4, <2>1 DEF Placed, Held
<1>9. f.in_reg[Val(h, 1)] \in Regs /\ Val(h, 1) \notin f.in_global
  <2>1. h.args = args
    BY <1>1 DEF Described
  <2> QED
    BY <1>5, <2>1, RegAllocAssumption DEF Asked
<1>10. Noted(f, h)
  BY <1>1, <1>4, <1>5, <1>6, <1>7, <1>8, <1>9 DEF Noted
<1>11. AssignOutput(f, h) = h
  BY <1>7 DEF AssignOutput, Given
<1>12. IsAsg(h) /\ GenOK(global, f)
  BY <1>1 DEF Origin, Asked
<1>13. m = AssignInputs(f, h)
  BY <1>2, <1>11
<1>14. m.form.name = "incoming" /\ Operands(m) = {1} /\ Val(m, 1) = args[1] /\ Val(h, 1) = args[1]
  <2>1. m.form = form /\ m.args = args
    BY RegistersChosen
  <2>2. h.args = args
    BY <1>1 DEF Described
  <2> QED
    BY <1>3, <1>5, <2>1, <2>2 DEF Sound, Operated
<1>15. Reg(m, 1) # NoReg
  BY <1>3, <1>14, SoundFacts
<1>16. Reg(m, 1) = f.in_reg[Val(h, 1)]
  BY <1>10, <1>12, <1>13, <1>15, NotedChosen
<1> QED
  BY <1>14, <1>16

\* What an instruction changes: no register that arguments have been put in, no
\* global register but the one of its result; and what a branch and the note of
\* an incoming value are.
LEMMA AsgChanges ==
    ASSUME Static, NEW g, NEW rs, Sound(global, permanent, g, rs),
           g.inhibit # {} => rs.form.name = "set_param",
           rs.form.name = "incoming" => Reg(rs, 1) = g.in_reg[Val(rs, 1)]
    PROVE  Changes(global, permanent, g, rs)
<1>1. /\ Changed(rs) \cap permanent \subseteq {global[Dest(rs)]}
      /\ Plain(rs.form) /\ (rs.copy \/ rs.form.name \in {"set_param", "incoming"}) => Changed(rs) = {}
  BY AsgChanged
<1>2. rs.form \in Forms /\ rs.ternary = rs.form.ternary /\ Operated(g, rs) /\ Spoiled(permanent, rs)
  BY DEF Sound, FromForm
<1>3. rs.form.name \in {"set_param", "incoming"} => Plain(rs.form)
  BY <1>2, FormFacts
<1>4. Changed(rs) \cap g.inhibit = {}
  BY <1>1, <1>3
<1>5. rs.form.branch => ~Output(rs) /\ Regs \ permanent \subseteq rs.clobber
  BY <1>2 DEF Operated, Spoiled
<1>6. rs.form.name = "incoming" => ~Output(rs) /\ Operands(rs) = {1}
  BY <1>2 DEF Operated
<1> QED
  BY <1>1, <1>3, <1>4, <1>5, <1>6 DEF Changes

\* _jit_regs_assign: the assignment is as the code before the instruction needs
\* it, unless it runs into one of the faults.
LEMMA AssignRight ==
    ASSUME Static, NEW f, NEW form, NEW args, NEW after, Asked(global, permanent, f, form, args, after),
           NEW rs, rs = Assign(f, Describe(f, form, args, after)), rs.ok, FaultsOf(f, rs) = {}
    PROVE  /\ Assigned(global, permanent, f, rs) /\ FromRule(global, f, rs)
           /\ rs.form = form /\ rs.args = args /\ rs.after = after
<1> DEFINE m == AssignInputs(f, AssignOutput(f, Describe(f, form, args, after)))
           k == ChooseScratch(f, m, 1)
           a == ChooseScratch(f, k, 2)
           b == SetFlags(f, a, 0)
           c == SetFlags(f, b, 1)
<1>1. rs = Complete(f, m)
  BY DEF Assign
<1>2. /\ Sound(global, permanent, f, m) /\ \A i \in 0 .. 2 : Unset(m.descs[i])
      /\ m.form = form /\ m.args = args /\ m.after = after
      /\ rs = SetFlags(f, c, 2)
      /\ form.name = "incoming" => Reg(m, 1) = f.in_reg[Val(m, 1)]
  <2>1. Complete(f, m).ok
    BY <1>1
  <2> DEFINE n == m
  <2>2. n = AssignInputs(f, AssignOutput(f, Describe(f, form, args, after)))
    OBVIOUS
  <2>3. Complete(f, n).ok
    BY <2>1
  <2>4. rs = Complete(f, n)
    BY <1>1
  <2> HIDE DEF n
  <2>5. /\ Sound(global, permanent, f, n) /\ \A i \in 0 .. 2 : Unset(n.descs[i])
        /\ n.form = form /\ n.args = args /\ n.after = after
        /\ Complete(f, n) = SetFlags(f, SetFlags(f, SetFlags(f, ChooseScratch(f, ChooseScratch(f, n, 1), 2), 0), 1), 2)
    BY <2>2, <2>3, RegistersChosen
  <2>6. form.name = "incoming" => Reg(n, 1) = f.in_reg[Val(n, 1)]
    BY <2>2, <2>3, IncomingChosen
  <2> QED
    BY <2>4, <2>5, <2>6 DEF n
<1>3. GenOK(global, f) /\ Loose(permanent, f) /\ (f.inhibit # {} => form.name = "set_param")
  BY DEF Asked
<1> HIDE DEF m
<1>4. SameCore(m, k) /\ Sound(global, permanent, f, k) /\ k.descs = m.descs
  <2>1. k = ChooseScratch(f, m, 1)
    OBVIOUS
  <2> HIDE DEF k
  <2> QED
    BY <1>2, <1>3, <2>1, ScratchChosen
<1> HIDE DEF k
<1>5. SameCore(k, a) /\ Sound(global, permanent, f, a) /\ a.descs = k.descs
  <2>1. a = ChooseScratch(f, k, 2)
    OBVIOUS
  <2> HIDE DEF a
  <2> QED
    BY <1>3, <1>4, <2>1, ScratchChosen
<1> HIDE DEF a
<1>6. \A i \in 0 .. 2 : Unset(a.descs[i])
  BY <1>2, <1>4, <1>5
<1>7. Sound(global, permanent, f, b) /\ SameCore(a, b)
  <2>1. b = SetFlags(f, a, 0)
    OBVIOUS
  <2> HIDE DEF b
  <2> QED
    BY <1>3, <1>5, <2>1, FlagsStep
<1> HIDE DEF b
<1>8. Sound(global, permanent, f, c) /\ SameCore(b, c)
  <2>1. c = SetFlags(f, b, 1)
    OBVIOUS
  <2> HIDE DEF c
  <2> QED
    BY <1>3, <1>7, <2>1, FlagsStep
<1> HIDE DEF c
<1>9. Sound(global, permanent, f, rs) /\ SameCore(c, rs)
  BY <1>2, <1>3, <1>8, FlagsStep
<1>10. SameCore(a, rs) /\ SameCore(m, rs)
  BY <1>4, <1>5, <1>7, <1>8, <1>9, CoreTrans, SMTT(60)
<1>11. rs.form = form /\ rs.args = args /\ rs.after = after /\ a.form = form
  BY <1>2, <1>4, <1>5, <1>10 DEF SameCore
<1>12. ~Shares(f, rs) /\ ~Moves(f, rs) /\ ~Homes(f, rs) /\ NoClass(permanent, rs)
  BY DEF FaultsOf, NoClass
<1>13. Unmoved(global, f, rs)
  <2> SUFFICES ASSUME NEW i \in Single(rs), global[Val(rs, i)] = Reg(rs, i), f.in_reg[Val(rs, i)] # NoReg
               PROVE  FALSE
    BY DEF Unmoved
  <2>1. i \in Operands(rs) /\ Reg(rs, i) # NoReg
    BY <1>9, SoundFacts
  <2>2. i \in Inputs(rs) \cap Given(rs)
    BY <2>1 DEF Operands
  <2>3. HasGlobal(rs.descs[i].value) /\ rs.descs[i].reg = global[rs.descs[i].value] /\ f.in_reg[rs.descs[i].value] # NoReg
    BY <2>1 DEF HasGlobal, Val, Reg
  <2> QED
    BY <1>12, <2>2, <2>3 DEF Moves
<1>14. NoClass(permanent, a) /\ Unmoved(global, f, a)
  <2>1. NoClass(permanent, a)
    BY <1>11, <1>12 DEF NoClass
  <2>2. Single(rs) = Single(a) /\ \A i \in 0 .. 2 : Val(rs, i) = Val(a, i) /\ Reg(rs, i) = Reg(a, i)
    BY <1>10, CoreSets
  <2>3. \A i \in Single(a) : i \in 0 .. 2
    BY <1>5, SoundFacts
  <2> QED
    BY <1>13, <2>1, <2>2, <2>3 DEF Unmoved
<1>15. Finished(global, permanent, f, a, rs)
  <2>1. rs = SetFlags(f, SetFlags(f, SetFlags(f, a, 0), 1), 2)
    BY <1>2 DEF c, b
  <2> QED
    BY <1>3, <1>5, <1>6, <1>14, <2>1, AllFlags
<1>16. Changes(global, permanent, f, rs)
  <2>1. Val(rs, 1) = Val(m, 1) /\ Reg(rs, 1) = Reg(m, 1)
    BY <1>10, CoreSets
  <2>2. rs.form.name = "incoming" => Reg(rs, 1) = f.in_reg[Val(rs, 1)]
    BY <1>2, <1>11, <2>1
  <2> QED
    BY <1>3, <1>9, <1>11, <2>2, AsgChanges
<1>17. Shape(rs)
  BY <1>9, SoundShape
<1>18. Duplicates(f, rs)
  BY <1>3, <1>12, <1>15, AsgDuplicates
<1>19. Places(global, permanent, f, rs)
  BY <1>3, <1>12, <1>13, <1>15, AsgPlaces
<1>20. Spills(f, rs)
  BY <1>3, <1>12, <1>15, AsgSpills
<1>21. Fates(global, permanent, f, rs)
  BY <1>15, AsgFates
<1>22. ResultPlace(global, permanent, f, rs)
  BY <1>15, AsgResult
<1>23. FromRule(global, f, rs)
  BY <1>9, AsgRule
<1> QED
  BY <1>11, <1>16, <1>17, <1>18, <1>19, <1>20, <1>21, <1>22, <1>23 DEF Assigned

\* _jit_regs_begin: the instruction is ready, and every input is in its place.
LEMMA BeginReady ==
    ASSUME Static, NEW g, NEW nd, NEW arr, NEW wr, NEW pa, NEW more, NEW f, NEW rs,
           Starts(global, permanent, g, nd, arr, wr, pa, more, f, rs)
    PROVE  LET h == Generate(f, rs)
           IN /\ IsReady(global, permanent, h, Becomes(nd, rs.after), rs, arr, wr \cup more, pa)
              /\ \A i \in Operands(rs) : Val(rs, i) \in h.holds[Reg(rs, i)]
              /\ \A v \in rs.memory : v \in h.slot[v]
<1> DEFINE form == rs.form
           args == rs.args
           after == rs.after
           h == Generate(f, rs)
           n1 == Becomes(nd, after)
           touched == {args[i] : i \in 0 .. 2} \cap Slots
<1>0. /\ InBody(global, permanent, g, nd, arr, wr, pa) /\ more \subseteq Slots /\ more \subseteq {Dest(rs)}
      /\ Supplied(global, nd, arr, wr \cup more, pa, form, args, after)
      /\ f = ForceOut(g, form, args) /\ FromRule(global, f, rs)
  BY DEF Starts
<1>1. /\ GenOK(global, g) /\ Loose(permanent, g) /\ nd \in Needs /\ wr \subseteq Slots
      /\ Believed(global, g, nd, Slots \ Arriving(arr), wr) /\ Waits(g, nd, arr, pa) /\ Handed(g, pa)
  BY <1>0 DEF InBody
<1>2. /\ form \in Forms /\ args \in [0 .. 2 -> Values \cup {NoValue}]
      /\ after \in [touched -> {"used", "live", "dead"}]
      /\ \A j \in 0 .. 2 : (j > 0 \/ form.ternary) /\ args[j] \in Slots => nd[args[j]] = "used"
      /\ form.operands[0].kind = "none" => args[0] = NoValue
      /\ form.ternary \/ args[0] = NoValue \/ (args[0] \in (wr \cup more) \cap Slots /\ after[args[0]] # "dead")
      /\ \A j \in 0 .. 2 : args[j] \notin Arriving(arr)
      /\ arr # <<>> => form.name = "incoming"
      /\ \A r \in Outgoing : pa[r] # NoValue => form.name = "set_param"
  BY <1>0 DEF Supplied
<1>3. /\ Context(global, permanent, f, rs, Live(nd, arr))
      /\ Stored(global, permanent, g, f) /\ Preserved(global, Slots, g, f)
      /\ \A v \in Reads(rs) : v \in Values /\ v \notin Arriving(arr) /\ (v \in Slots => nd[v] = "used")
      /\ \A v \in rs.memory : v \in Slots /\ f.in_reg[v] = NoReg /\ v \in f.slot[v]
  <2> HIDE DEF h, n1, touched
  <2> QED
    BY BeginContext
<1>4. /\ GenOK(global, h) /\ h.inhibit = f.inhibit
      /\ \A v \in Live(nd, arr) \ {Dest(rs)} : Right(global, h, v) /\ (Readable(global, f, v) => Readable(global, h, v))
      /\ \A w \in Slots : f.in_reg[w] = NoReg => h.slot[w] = f.slot[w]
      /\ \A w \in Values \ Reads(rs) : f.in_reg[w] = NoReg => h.in_reg[w] = NoReg
      /\ \A q \in Regs \ permanent : (\A i \in Single(rs) : Reg(rs, i) # q) => h.holds[q] = f.holds[q]
      /\ \A u \in Values : Saving(f, rs).in_reg[u] # NoReg => h.holds[f.in_reg[u]] = f.holds[f.in_reg[u]]
  BY <1>3, GeneratedRight
<1>5. /\ Shape(rs) /\ Duplicates(f, rs) /\ Places(global, permanent, f, rs)
      /\ ResultPlace(global, permanent, f, rs) /\ Changes(global, permanent, f, rs)
      /\ GenOK(global, f) /\ Loose(permanent, f)
  BY <1>3 DEF Assigned, Context
<1>6. /\ n1 \in Needs
      /\ \A v \in Slots : n1[v] = IF v \in touched THEN after[v] ELSE nd[v]
  <2>1. touched \subseteq Slots
    OBVIOUS
  <2> HIDE DEF touched
  <2>2. nd \in Needs /\ after \in [touched -> {"used", "live", "dead"}]
    BY <1>1, <1>2
  <2>3. /\ Becomes(nd, after) \in Needs
        /\ \A v \in Slots : Becomes(nd, after)[v] = IF v \in touched THEN after[v] ELSE nd[v]
    BY <2>1, <2>2, OverNeeds
  <2> QED
    BY <2>3
<1>7. rs.ternary = form.ternary /\ (rs.ternary \/ Dest(rs) = args[0])
  BY <1>0 DEF FromRule
<1>8. \A v \in Slots \ {Dest(rs)} : n1[v] # "dead" => nd[v] # "dead" /\ (n1[v] = "used" => nd[v] = "used")
  <2> SUFFICES ASSUME NEW v \in Slots \ {Dest(rs)}, v \in touched
               PROVE  nd[v] = "used"
    BY <1>6
  <2>1. PICK j \in 0 .. 2 : v = args[j]
    OBVIOUS
  <2>2. j > 0 \/ form.ternary
    BY <1>7, <2>1
  <2> QED
    BY <1>2, <2>1, <2>2
<1>9. \A v \in Reads(rs) : v \in Slots => v \in touched
  <2> SUFFICES ASSUME NEW i \in Operands(rs), Val(rs, i) \in Slots
               PROVE  Val(rs, i) \in touched
    BY DEF Reads
  <2>1. PICK j \in 0 .. 2 : Val(rs, i) = args[j]
    BY <1>0 DEF FromRule
  <2> QED
    BY <2>1
<1>10. \A i \in Operands(rs) : Val(rs, i) \in Slots => (rs.descs[i].live <=> n1[Val(rs, i)] # "dead")
  <2> SUFFICES ASSUME NEW i \in Operands(rs), Val(rs, i) \in Slots
               PROVE  rs.descs[i].live <=> n1[Val(rs, i)] # "dead"
    OBVIOUS
  <2>1. Val(rs, i) \in touched
    BY <1>9 DEF Reads
  <2>2. i \in Given(rs)
    BY DEF Operands
  <2> QED
    BY <1>0, <1>6, <2>1, <2>2 DEF FromRule
<1> HIDE DEF h, n1, touched, form, args, after
<1>11. Believed(global, h, n1, Slots \ (Arriving(arr) \cup {Dest(rs)}), wr \cup more)
  <2> SUFFICES ASSUME NEW v \in Slots \ (Arriving(arr) \cup {Dest(rs)}), n1[v] # "dead"
               PROVE  /\ Right(global, h, v)
                      /\ n1[v] = "used" /\ global[v] # NoReg => v \in wr \cup more
                      /\ v \in wr \cup more => Readable(global, h, v)
    BY DEF Believed
  <2>1. nd[v] # "dead" /\ v \in Live(nd, arr) /\ (n1[v] = "used" => nd[v] = "used")
    BY <1>8 DEF Live
  <2>2. Right(global, g, v) /\ Right(global, h, v)
    BY <1>1, <1>4, <2>1 DEF Believed
  <2>3. n1[v] = "used" /\ global[v] # NoReg => v \in wr
    BY <1>1, <2>1 DEF Believed
  <2>4. v \in wr \cup more => v \in wr
    BY <1>0
  <2>5. v \in wr => Readable(global, g, v)
    BY <1>1, <2>1 DEF Believed
  <2>6. Readable(global, g, v) => Readable(global, h, v)
    BY <1>3, <1>4, <2>1, <2>2 DEF Preserved
  <2> QED
    BY <2>2, <2>3, <2>4, <2>5, <2>6
<1>12. ASSUME NEW w \in Slots \ {Dest(rs)}, Killed(rs, w), n1[w] # "dead"
       PROVE  Settled(global, h, w)
  <2>1. PICK i \in Single(rs) : Val(rs, i) = w /\ rs.descs[i].kill
    BY <1>12 DEF Killed
  <2>2. rs.descs[i].live
    BY <1>10, <1>12, <2>1 DEF Single
  <2> QED
    BY <1>3, <2>1, <2>2, GeneratedSettled DEF h
<1>13. \A w \in Values : h.in_reg[w] # NoReg /\ ~Killed(rs, w) =>
          w \in Slots \ {Dest(rs)} /\ h.in_reg[w] \notin permanent \cup Disturbed(rs)
  BY <1>3, GeneratedBound DEF h
<1>14. Changed(rs) \cap permanent \subseteq {global[Dest(rs)]} /\ Changed(rs) \cap h.inhibit = {}
  BY <1>4, <1>5 DEF Changes
<1>15. \A i \in Operands(rs) : Val(rs, i) \in h.holds[Reg(rs, i)]
  BY <1>3, GeneratedInputs DEF h
<1>16. ResultReady(global, permanent, h, n1, rs, wr \cup more)
  <2> SUFFICES ASSUME Output(rs)
               PROVE  /\ Dest(rs) \in wr \cup more /\ Dest(rs) \in Slots /\ n1[Dest(rs)] # "dead"
                      /\ rs.descs[0].live /\ ~rs.descs[0].kill
                      /\ Reg(rs, 0) \in permanent => Reg(rs, 0) = global[Dest(rs)]
                      /\ Reg(rs, 0) \notin h.inhibit
                      /\ rs.copy => Val(rs, 1) \in h.holds[Reg(rs, 0)] /\ Changed(rs) = {}
    BY DEF ResultReady
  <2>1. ~form.ternary /\ Dest(rs) = args[0] /\ args[0] # NoValue /\ Dest(rs) = Val(rs, 0) /\ 0 \in Given(rs)
    BY <1>7 DEF Output, Dest, Given, Val
  <2>2. Dest(rs) \in wr \cup more /\ Dest(rs) \in Slots /\ after[Dest(rs)] # "dead"
    BY <1>0, <1>2, <2>1
  <2>3. rs.descs[0].live
    BY <1>0, <2>1, <2>2 DEF FromRule, after
  <2>4. n1[Dest(rs)] # "dead"
    <3>1. args[0] \in {args[i] : i \in 0 .. 2}
      OBVIOUS
    <3> QED
      BY <1>6, <2>1, <2>2, <3>1 DEF touched
  <2>5. rs.copy => Val(rs, 1) \in h.holds[Reg(rs, 0)] /\ Changed(rs) = {}
    BY <1>5, <1>15 DEF ResultPlace, Single
  <2> QED
    BY <1>4, <1>5, <2>2, <2>3, <2>4, <2>5 DEF ResultPlace
<1>17. arr # <<>> => ~Output(rs) /\ Changed(rs) = {} /\ Operands(rs) = {1} /\ Reg(rs, 1) = f.in_reg[Val(rs, 1)]
  BY <1>2, <1>5 DEF Changes, form
<1>18. ASSUME NEW r \in Outgoing, pa[r] # NoValue
       PROVE  ~Output(rs) /\ pa[r] \in h.holds[r] /\ r \in h.inhibit
  <2>1. pa[r] \in g.holds[r] /\ r \in g.inhibit
    BY <1>1, <1>18 DEF Handed
  <2>2. r \in Regs \ permanent
    BY RegAllocAssumption DEF Static, StaticOK
  <2>3. r \in h.inhibit /\ r \in f.inhibit
    BY <1>3, <1>4, <2>1 DEF Stored
  <2>4. \A i \in Single(rs) : Reg(rs, i) # r
    BY <1>5, <2>3 DEF Places
  <2>5. h.holds[r] = g.holds[r]
    BY <1>3, <1>4, <2>2, <2>4 DEF Stored
  <2>6. form.name = "set_param"
    BY <1>2, <1>18
  <2>7. ~form.ternary /\ args[0] = NoValue
    BY <1>2, <2>6, FormsAssumption DEF FormRight
  <2>8. ~Output(rs)
    BY <1>7, <2>7 DEF Dest, Output, Given
  <2> QED
    BY <2>1, <2>3, <2>5, <2>8
<1>19. Handed(h, pa)
  <2>1. h.inhibit = g.inhibit
    BY <1>3, <1>4 DEF Stored
  <2> QED
    BY <1>1, <1>18, <2>1 DEF Handed
<1>20. Waits(h, n1, arr, pa)
  <2>1. CASE arr = <<>>
    BY <1>1, <2>1 DEF Waits
  <2>2. CASE arr # <<>>
    <3> SUFFICES ASSUME NEW k \in DOMAIN arr
                 PROVE  /\ h.in_reg[arr[k].value] = NoReg /\ n1[arr[k].value] = "used"
                        /\ arr[k].reg = NoReg => arr[k].value \in h.slot[arr[k].value]
                        /\ arr[k].reg # NoReg => arr[k].value \in h.holds[arr[k].reg]
      <4>1. g.inhibit = {} /\ h.inhibit = g.inhibit /\ \A r \in Outgoing : pa[r] = NoValue
        BY <1>1, <1>3, <1>4, <2>2 DEF Waits, Stored
      <4> QED
        BY <1>1, <4>1 DEF Waits
    <3> DEFINE w == arr[k].value
               q == arr[k].reg
    <3>1. w \in Slots /\ w \in Values /\ (q # NoReg => q \in Regs \ permanent)
      BY <1>1, WaitTypes, RegAllocAssumption DEF Static, StaticOK
    <3>2. w \in Arriving(arr)
      BY DEF Arriving
    <3>3. w \notin Reads(rs) /\ w \notin touched
      BY <1>2, <1>3, <3>2 DEF touched
    <3>4. g.in_reg[w] = NoReg /\ nd[w] = "used" /\ (q = NoReg => w \in g.slot[w]) /\ (q # NoReg => w \in g.holds[q])
      BY <1>1 DEF Waits
    <3> HIDE DEF w, q
    <3>5. f.in_reg[w] = NoReg
      BY <1>3, <3>1, <3>4 DEF Stored
    <3>6. h.in_reg[w] = NoReg /\ n1[w] = "used"
      BY <1>4, <1>6, <3>1, <3>3, <3>4, <3>5
    <3>7. q = NoReg => w \in h.slot[w]
      BY <1>3, <1>4, <3>1, <3>4, <3>5 DEF Stored
    <3>8. ASSUME q # NoReg
          PROVE  w \in h.holds[q]
      <4>1. w \in f.holds[q]
        BY <1>3, <3>1, <3>4, <3>8 DEF Stored
      <4>2. h.holds[q] = f.holds[q]
        <5>1. CASE \A i \in Single(rs) : Reg(rs, i) # q
          BY <1>4, <3>1, <3>8, <5>1
        <5>2. CASE \E i \in Single(rs) : Reg(rs, i) = q
          <6>1. 1 \in Single(rs) /\ Reg(rs, 1) = q /\ Operands(rs) = {1} /\ f.in_reg[Val(rs, 1)] = q
            BY <1>17, <2>2, <5>2 DEF Single
          <6>2. Val(rs, 1) \in Values
            BY <1>5, <6>1, SingleTypes
          <6>3. ~Thrashed(f, rs, Val(rs, 1))
            BY <6>1 DEF Thrashed, Equal
          <6>4. Saving(f, rs).in_reg[Val(rs, 1)] = q
            BY <1>3, <1>5, <6>1, <6>3, SavedInputs DEF Context
          <6> QED
            BY <1>4, <3>8, <6>1, <6>2, <6>4
        <5> QED
          BY <5>1, <5>2
      <4> QED
        BY <4>1, <4>2
    <3> QED
      BY <3>6, <3>7, <3>8 DEF w, q
  <2> QED
    BY <2>1, <2>2
<1>21. ASSUME rs.form.branch, NEW w \in Slots, n1[w] # "dead"
       PROVE  Home(global, h, w)
  <2>1. arr = <<>> /\ Arriving(arr) = {}
    <3>1. arr = <<>>
      BY <1>2, <1>21, FormsAssumption DEF FormRight, form
    <3> QED
      BY <3>1 DEF Arriving
  <2>2. Dest(rs) = NoValue
    BY <1>5, <1>21 DEF Changes, Dest
  <2>3. w \in Live(nd, arr)
    BY <1>8, <1>21, <2>1, <2>2, NoRegApart DEF Live
  <2>4. \A i \in Operands(rs) : Val(rs, i) = w => rs.descs[i].live
    BY <1>10, <1>21
  <2> QED
    BY <1>3, <1>21, <2>3, <2>4, GeneratedBranch DEF h
<1>22. wr \cup more \subseteq Slots
  BY <1>0, <1>1
<1>23. \A v \in rs.memory : v \in h.slot[v]
  BY <1>3, <1>4
<1>24. IsReady(global, permanent, h, n1, rs, arr, wr \cup more, pa)
  BY <1>4, <1>5, <1>6, <1>11, <1>12, <1>13, <1>14, <1>16, <1>17, <1>18, <1>19, <1>20, <1>21, <1>22 DEF IsReady
<1> QED
  BY <1>15, <1>23, <1>24 DEF h, n1, after

\* SpillRegisters leaves nothing in the registers of the set, and loses nothing.
LEMMA RegistersSpilled ==
    ASSUME Static, NEW g, GenOK(global, g), Loose(permanent, g), NEW rset, rset \subseteq Regs
    PROVE  LET h == SpillRegisters(g, rset)
           IN /\ Stored(global, permanent, g, h) /\ Preserved(global, Slots, g, h)
              /\ \A v \in Values : h.in_reg[v] = IF g.in_reg[v] \in rset THEN NoReg ELSE g.in_reg[v]
              /\ \A v \in Slots : Right(global, g, v) /\ g.in_reg[v] \in rset => Settled(global, h, v)
<1> DEFINE vs == UNION {g.contents[r] : r \in rset}
           h == SpillRegisters(g, rset)
<1>1. h = FreeValues(SaveValues(g, vs), vs)
  BY DEF SpillRegisters
<1>2. vs \subseteq Values /\ \A v \in Values : v \in vs <=> g.in_reg[v] \in rset
  <2>1. \A r \in rset : g.contents[r] = {v \in Values : g.in_reg[v] = r}
    BY DEF GenOK
  <2> QED
    BY <2>1
<1> HIDE DEF vs, h
<1>3. Apart(permanent, g)
  BY LooseApart
<1>4. /\ Stored(global, permanent, g, h)
      /\ \A v \in Values : h.in_reg[v] = IF v \in vs THEN NoReg ELSE g.in_reg[v]
      /\ Preserved(global, Untaken(g, vs, vs), g, h)
      /\ \A v \in Slots \cap vs : Right(global, g, v) /\ g.in_reg[v] # NoReg => Settled(global, h, v)
  BY <1>1, <1>2, <1>3, SaveAndFree
<1>5. Untaken(g, vs, vs) = Slots
  BY DEF Untaken
<1>6. \A v \in Slots : Right(global, g, v) /\ g.in_reg[v] \in rset => Settled(global, h, v)
  BY <1>2, <1>4, NoRegApart
<1> QED
  BY <1>2, <1>4, <1>5, <1>6 DEF h

\* A value that is freed once it has been saved, if no flag says that it is.
LEMMA SavedAndFreed ==
    ASSUME Static, NEW g, GenOK(global, g), Loose(permanent, g), NEW v \in Slots, Right(global, g, v)
    PROVE  LET h == FreeValues(IF v \in g.in_global \cup g.in_frame THEN g ELSE SaveValues(g, {v}), {v})
           IN /\ Stored(global, permanent, g, h) /\ Preserved(global, Slots, g, h)
              /\ \A w \in Values : h.in_reg[w] = IF w = v THEN NoReg ELSE g.in_reg[w]
<1> DEFINE vs == {v}
<1>1. vs \subseteq Values /\ v \in vs
  BY NoRegApart
<1>2. CASE v \in g.in_global \cup g.in_frame
  <2> DEFINE h == FreeValues(g, vs)
  <2>1. /\ Stored(global, permanent, g, h)
        /\ \A w \in Values : h.in_reg[w] = IF w \in vs THEN NoReg ELSE g.in_reg[w]
    <3> HIDE DEF vs
    <3> QED
      BY <1>1, FreeStored, FreeEffect
  <2>2. Settled(global, g, v) /\ Home(global, g, v)
    BY <1>2 DEF GenOK, Right, Settled, Home
  <2>3. \A w \in Slots : /\ Right(global, g, w) /\ (w \in vs => Home(global, g, w)) => Right(global, h, w)
                         /\ Readable(global, g, w) /\ (w \in vs => Settled(global, g, w)) => Readable(global, h, w)
                         /\ Settled(global, h, w) = Settled(global, g, w)
    <3> HIDE DEF vs
    <3> QED
      BY <1>1, FreeKeeps
  <2>4. Preserved(global, Slots, g, h)
    <3> HIDE DEF h
    <3> QED
      BY <2>2, <2>3 DEF Preserved
  <2> QED
    BY <1>2, <2>1, <2>4
<1>3. CASE v \notin g.in_global \cup g.in_frame
  <2> DEFINE h == FreeValues(SaveValues(g, vs), vs)
  <2>1. /\ Stored(global, permanent, g, h)
        /\ \A w \in Values : h.in_reg[w] = IF w \in vs THEN NoReg ELSE g.in_reg[w]
        /\ Preserved(global, Untaken(g, vs, vs), g, h)
    <3> HIDE DEF vs
    <3> QED
      BY <1>1, LooseApart, SaveAndFree
  <2>2. Untaken(g, vs, vs) = Slots
    BY DEF Untaken
  <2> QED
    BY <1>3, <2>1, <2>2
<1> QED
  BY <1>2, <1>3

\* _jit_regs_set_outgoing.
LEMMA OutgoingLeft ==
    ASSUME Static, NEW g, GenOK(global, g), Loose(permanent, g), NEW r \in Regs \ permanent, NEW v \in Values,
           v \in Slots => Right(global, g, v) /\ Readable(global, g, v)
    PROVE  LET h == LeaveOutgoing(g, r, v)
           IN /\ GenOK(global, h) /\ Loose(permanent, h) /\ h.inhibit = g.inhibit
              /\ Preserved(global, Slots, g, h)
              /\ \A q \in Regs \ (permanent \cup {r}) : h.holds[q] = g.holds[q]
              /\ v \in h.holds[r]
<1> DEFINE h == LeaveOutgoing(g, r, v)
<1>1. CASE g.in_reg[v] # r
  <2> DEFINE rset == {r}
             s == SpillRegisters(g, rset)
  <2>1. h = EmitLoad(s, r, v)
    BY <1>1 DEF LeaveOutgoing
  <2>2. /\ Stored(global, permanent, g, s) /\ Preserved(global, Slots, g, s)
        /\ \A w \in Values : s.in_reg[w] = IF g.in_reg[w] \in rset THEN NoReg ELSE g.in_reg[w]
    <3>1. rset \subseteq Regs
      OBVIOUS
    <3> HIDE DEF rset
    <3> QED
      BY <3>1, RegistersSpilled
  <2>3. \A w \in Values : s.in_reg[w] # r
    BY <2>2, NoRegApart
  <2> HIDE DEF s, h, rset
  <2>4. GenOK(global, s) /\ Loose(permanent, s)
    BY <2>2, StoredLoose DEF Stored
  <2>5. /\ GenOK(global, h)
        /\ h.in_reg = s.in_reg /\ h.inhibit = s.inhibit /\ h.slot = s.slot
        /\ h.in_global = s.in_global /\ h.in_frame = s.in_frame
        /\ \A q \in Regs : h.holds[q] = IF q = r THEN Source(s, v) ELSE s.holds[q]
    BY <2>1, <2>4, LoadEffect
  <2>6. v \in Source(s, v)
    <3>1. v \in Slots => Right(global, s, v) /\ Readable(global, s, v)
      BY <2>2 DEF Preserved
    <3> QED
      BY <3>1, SourceRight DEF Slots
  <2>7. \A w \in Slots : /\ Right(global, s, w) => Right(global, h, w)
                         /\ Settled(global, s, w) => Settled(global, h, w)
                         /\ Readable(global, s, w) => Readable(global, h, w)
    <3> SUFFICES ASSUME NEW w \in Slots
                 PROVE  /\ Right(global, s, w) => Right(global, h, w)
                        /\ Settled(global, s, w) => Settled(global, h, w)
                        /\ Readable(global, s, w) => Readable(global, h, w)
      OBVIOUS
    <3>1. w \in Values /\ s.in_reg[w] \in Regs \cup {NoReg} /\ s.in_reg[w] # r
      BY <2>3, <2>4, NoRegApart, GenFields DEF GenOK
    <3>2. global[w] # NoReg => global[w] \in Regs /\ global[w] # r
      BY <3>1 DEF Static, StaticOK
    <3>3. s.in_reg[w] # NoReg => h.holds[s.in_reg[w]] = s.holds[s.in_reg[w]]
      BY <2>5, <3>1
    <3>4. global[w] # NoReg => h.holds[global[w]] = s.holds[global[w]]
      BY <2>5, <3>2
    <3>5. w \in s.in_global => global[w] # NoReg
      BY <2>4 DEF GenOK
    <3> QED
      BY <2>5, <3>3, <3>4, <3>5 DEF Right, Settled, Readable, Home
  <2>8. Preserved(global, Slots, g, h)
    BY <2>2, <2>7 DEF Preserved
  <2>9. Loose(permanent, h)
    BY <2>4, <2>5 DEF Loose
  <2>10. \A q \in Regs \ (permanent \cup {r}) : h.holds[q] = g.holds[q]
    BY <2>2, <2>5 DEF Stored
  <2> QED
    BY <2>2, <2>5, <2>6, <2>8, <2>9, <2>10 DEF Stored, h
<1>2. CASE g.in_reg[v] = r
  <2> DEFINE m == IF v \in g.in_global \cup g.in_frame THEN g ELSE SaveValues(g, {v})
             f == FreeValues(m, {v})
  <2>1. h = IF g.contents[r] = {v} THEN BindTemporary(f, r) ELSE f
    BY <1>2 DEF LeaveOutgoing
  <2>2. v \in Slots /\ v \in g.holds[r]
    BY <1>2, NoRegApart DEF Loose, Right
  <2>3. /\ Stored(global, permanent, g, f) /\ Preserved(global, Slots, g, f)
        /\ \A w \in Values : f.in_reg[w] = IF w = v THEN NoReg ELSE g.in_reg[w]
    BY <2>2, SavedAndFreed
  <2> HIDE DEF f, h
  <2>4. GenOK(global, f) /\ Loose(permanent, f)
    BY <2>3, StoredLoose DEF Stored
  <2>5. /\ GenOK(global, h) /\ h.in_reg = f.in_reg /\ h.inhibit = f.inhibit /\ h.holds = f.holds
        /\ h.slot = f.slot /\ h.in_global = f.in_global /\ h.in_frame = f.in_frame
    <3>1. CASE g.contents[r] = {v}
      <4>1. f.contents[r] = {}
        <5>1. \A w \in Values : g.in_reg[w] = r => w = v
          BY <3>1 DEF GenOK
        <5>2. f.contents[r] = {w \in Values : f.in_reg[w] = r}
          BY <2>4 DEF GenOK
        <5> QED
          BY <2>3, <5>1, <5>2, NoRegApart
      <4>2. h = BindTemporary(f, r)
        BY <2>1, <3>1
      <4> QED
        BY <2>4, <4>1, <4>2, TemporaryEffect
    <3>2. CASE g.contents[r] # {v}
      BY <2>1, <2>4, <3>2
    <3> QED
      BY <3>1, <3>2
  <2>6. Preserved(global, Slots, g, h)
    BY <2>3, <2>5 DEF Preserved, Right, Settled, Readable, Home
  <2>7. Loose(permanent, h)
    BY <2>4, <2>5 DEF Loose
  <2>8. \A q \in Regs \ permanent : h.holds[q] = g.holds[q]
    BY <2>3, <2>5 DEF Stored
  <2> QED
    BY <2>2, <2>3, <2>5, <2>6, <2>7, <2>8 DEF Stored, h
<1> QED
  BY <1>1, <1>2

\* Registers are inhibited by the arguments of a call.
LEMMA InhibitEffect ==
    ASSUME NEW g, GenOK(global, g), NEW r \in Regs
    PROVE  LET h == [g EXCEPT !.inhibit = @ \cup {r}]
           IN /\ GenOK(global, h) /\ h.inhibit = g.inhibit \cup {r}
              /\ h.in_reg = g.in_reg /\ h.holds = g.holds /\ h.slot = g.slot
              /\ h.in_global = g.in_global /\ h.in_frame = g.in_frame
<1> DEFINE h == [g EXCEPT !.inhibit = @ \cup {r}]
<1>1. g \in Gens
  BY DEF GenOK
<1>2. /\ h \in Gens /\ h.contents = g.contents /\ h.in_reg = g.in_reg /\ h.in_frame = g.in_frame
      /\ h.in_global = g.in_global
      /\ h.inhibit = g.inhibit \cup {r} /\ h.holds = g.holds /\ h.slot = g.slot
  BY <1>1 DEF Gens
<1> HIDE DEF h
<1>3. GenOK(global, h)
  BY <1>2 DEF GenOK
<1> QED
  BY <1>2, <1>3 DEF h

\* SetOutgoing.
LEMMA OutgoingKeeps ==
    ASSUME Static, NEW g, NEW nd, NEW wr, NEW pa, NEW arr, arr = <<>>,
           InBody(global, permanent, g, nd, arr, wr, pa),
           NEW r \in Outgoing, NEW v \in Values, pa[r] = NoValue, v \in Slots => nd[v] = "used",
           NEW after \in [{v} \cap Slots -> {"used", "live", "dead"}],
           NEW h, h = [LeaveOutgoing(g, r, v) EXCEPT !.inhibit = @ \cup {r}]
    PROVE  InBody(global, permanent, h, Becomes(nd, after), arr, wr, [pa EXCEPT ![r] = v])
<1> DEFINE l == LeaveOutgoing(g, r, v)
           n1 == Becomes(nd, after)
           vs == {v} \cap Slots
           qa == [pa EXCEPT ![r] = v]
<1>1. /\ GenOK(global, g) /\ Loose(permanent, g) /\ nd \in Needs /\ wr \subseteq Slots
      /\ Believed(global, g, nd, Slots \ Arriving(arr), wr)
      /\ Waits(g, nd, arr, pa) /\ Handed(g, pa)
  BY DEF InBody
<1>2. Arriving(arr) = {}
  BY DEF Arriving
<1>3. Outgoing \subseteq Regs \ permanent
  BY RegAllocAssumption DEF Static, StaticOK
<1>4. v \in Slots => Right(global, g, v) /\ Readable(global, g, v)
  BY <1>1, <1>2 DEF Believed, Readable
<1>5. /\ GenOK(global, l) /\ Loose(permanent, l) /\ l.inhibit = g.inhibit
      /\ Preserved(global, Slots, g, l)
      /\ \A q \in Regs \ (permanent \cup {r}) : l.holds[q] = g.holds[q]
      /\ v \in l.holds[r]
  BY <1>1, <1>3, <1>4, OutgoingLeft
<1> HIDE DEF l
<1>6. /\ GenOK(global, h) /\ h.inhibit = l.inhibit \cup {r}
      /\ h.in_reg = l.in_reg /\ h.holds = l.holds /\ h.slot = l.slot
      /\ h.in_global = l.in_global /\ h.in_frame = l.in_frame
  BY <1>3, <1>5, InhibitEffect DEF l
<1>7. n1 \in Needs /\ \A w \in Slots : n1[w] = IF w \in vs THEN after[w] ELSE nd[w]
  <2>1. vs \subseteq Slots /\ after \in [vs -> {"used", "live", "dead"}]
    OBVIOUS
  <2> HIDE DEF vs
  <2> QED
    BY <1>1, <2>1, OverNeeds, SMTT(60)
<1>8. \A w \in vs : w = v /\ nd[w] = "used"
  OBVIOUS
<1> HIDE DEF n1, vs, qa
<1>9. Believed(global, h, n1, Slots \ Arriving(arr), wr)
  <2> SUFFICES ASSUME NEW w \in Slots, n1[w] # "dead"
               PROVE  /\ Right(global, h, w)
                      /\ n1[w] = "used" /\ global[w] # NoReg => w \in wr
                      /\ w \in wr => Readable(global, h, w)
    BY DEF Believed
  <2>1. nd[w] # "dead" /\ (n1[w] = "used" => nd[w] = "used")
    BY <1>7, <1>8
  <2>2. /\ Right(global, g, w) /\ (nd[w] = "used" /\ global[w] # NoReg => w \in wr)
        /\ (w \in wr => Readable(global, g, w))
    BY <1>1, <1>2, <2>1 DEF Believed
  <2>3. Right(global, l, w) /\ (w \in wr => Readable(global, l, w))
    BY <1>5, <2>2 DEF Preserved
  <2> QED
    BY <1>6, <2>1, <2>2, <2>3 DEF Right, Readable, Home
<1>10. Waits(h, n1, arr, qa)
  BY <1>1 DEF Waits
<1>11. Handed(h, qa)
  <2>1. qa \in [Outgoing -> Values \cup {NoValue}] /\ \A q \in Outgoing : qa[q] = IF q = r THEN v ELSE pa[q]
    BY <1>1 DEF Handed, qa
  <2> QED
    BY <1>1, <1>3, <1>5, <1>6, <2>1, NoRegApart DEF Handed
<1>12. Loose(permanent, h)
  BY <1>5, <1>6 DEF Loose
<1> QED
  BY <1>1, <1>6, <1>7, <1>9, <1>10, <1>11, <1>12 DEF InBody, n1, qa

\* The rest of the incoming values.
LEMMA WaitNext ==
    ASSUME NEW g, NEW nd, NEW arr, NEW pa, Waits(g, nd, arr, pa), arr # <<>>
    PROVE  /\ Head(arr) = arr[1] /\ 1 \in DOMAIN arr
           /\ Tail(arr) \in Seq([value : Slots, reg : CallUsed \cup {NoReg}])
           /\ \A k \in DOMAIN Tail(arr) : k + 1 \in DOMAIN arr /\ k + 1 # 1 /\ Tail(arr)[k] = arr[k + 1]
           /\ \A j, k \in DOMAIN Tail(arr) : Tail(arr)[j].value = Tail(arr)[k].value => j = k
           /\ Head(arr).value \notin Arriving(Tail(arr))
           /\ Slots \ Arriving(Tail(arr)) \subseteq (Slots \ Arriving(arr)) \cup {Head(arr).value}
<1> DEFINE S == [value : Slots, reg : CallUsed \cup {NoReg}]
           t == Tail(arr)
<1>1. arr \in Seq(S)
  BY DEF Waits
<1>2. \A j, k \in DOMAIN arr : arr[j].value = arr[k].value => j = k
  BY DEF Waits
<1> HIDE DEF S
<1>3. Len(arr) \in Nat /\ Len(arr) # 0 /\ DOMAIN arr = 1 .. Len(arr) /\ Head(arr) = arr[1]
  BY <1>1
<1>4. t \in Seq(S) /\ DOMAIN t = 1 .. (Len(arr) - 1) /\ \A k \in 1 .. (Len(arr) - 1) : t[k] = arr[k + 1]
  BY <1>1, <1>3
<1> HIDE DEF t
<1>5. \A k \in DOMAIN t : k + 1 \in DOMAIN arr /\ k + 1 # 1 /\ t[k] = arr[k + 1]
  BY <1>3, <1>4
<1>6. \A j, k \in DOMAIN t : t[j].value = t[k].value => j = k
  <2> SUFFICES ASSUME NEW j \in DOMAIN t, NEW k \in DOMAIN t, t[j].value = t[k].value
               PROVE  j = k
    OBVIOUS
  <2>1. j + 1 \in DOMAIN arr /\ k + 1 \in DOMAIN arr /\ arr[j + 1].value = arr[k + 1].value
    BY <1>5
  <2>2. j + 1 = k + 1
    BY <1>2, <2>1
  <2> QED
    BY <1>3, <1>4, <2>2
<1>7. 1 \in DOMAIN arr
  BY <1>3
<1>8. Head(arr).value \notin Arriving(t)
  BY <1>2, <1>3, <1>5, <1>7 DEF Arriving
<1>9. \A k \in DOMAIN arr : k = 1 \/ arr[k].value \in Arriving(t)
  <2> SUFFICES ASSUME NEW k \in DOMAIN arr, k # 1
               PROVE  arr[k].value \in Arriving(t)
    OBVIOUS
  <2>1. k - 1 \in DOMAIN t /\ (k - 1) + 1 = k
    BY <1>3, <1>4
  <2> QED
    BY <1>5, <2>1 DEF Arriving
<1>10. Slots \ Arriving(t) \subseteq (Slots \ Arriving(arr)) \cup {Head(arr).value}
  BY <1>3, <1>9, SMTT(60) DEF Arriving
<1> QED
  BY <1>3, <1>4, <1>5, <1>6, <1>7, <1>8, <1>10 DEF t, S

\* _jit_regs_set_incoming.
LEMMA IncomingKeeps ==
    ASSUME Static, NEW g, NEW nd, NEW wr, NEW pa, NEW arr, arr # <<>>,
           InBody(global, permanent, g, nd, arr, wr, pa), Head(arr).reg # NoReg,
           NEW h, h = BindValue(g, Head(arr).value, Head(arr).reg, FALSE)
    PROVE  /\ InBody(global, permanent, h, nd, Tail(arr), wr \cup {Head(arr).value}, pa)
           /\ h.in_reg[Head(arr).value] = Head(arr).reg /\ Head(arr).value \notin h.in_global
           /\ h.inhibit = {} /\ \A r \in Outgoing : pa[r] = NoValue
           /\ nd[Head(arr).value] = "used" /\ Head(arr).value \in Slots
<1> DEFINE v == Head(arr).value
           r == Head(arr).reg
           t == Tail(arr)
           flag == FALSE
<1>1. /\ GenOK(global, g) /\ Loose(permanent, g) /\ nd \in Needs /\ wr \subseteq Slots
      /\ Believed(global, g, nd, Slots \ Arriving(arr), wr)
      /\ Waits(g, nd, arr, pa) /\ Handed(g, pa)
  BY DEF InBody
<1>2. /\ Head(arr) = arr[1] /\ 1 \in DOMAIN arr
      /\ t \in Seq([value : Slots, reg : CallUsed \cup {NoReg}])
      /\ \A k \in DOMAIN t : k + 1 \in DOMAIN arr /\ k + 1 # 1 /\ t[k] = arr[k + 1]
      /\ \A j, k \in DOMAIN t : t[j].value = t[k].value => j = k
      /\ v \notin Arriving(t)
      /\ Slots \ Arriving(t) \subseteq (Slots \ Arriving(arr)) \cup {v}
  BY <1>1, WaitNext
<1>3. v \in Slots /\ v \in Values /\ r \in Regs \cap CallUsed
  BY <1>1, <1>2, WaitTypes
<1>4. g.in_reg[v] = NoReg /\ nd[v] = "used" /\ v \in g.holds[r]
  BY <1>1, <1>2 DEF Waits
<1>5. g.inhibit = {} /\ \A q \in Outgoing : pa[q] = NoValue
  BY <1>1 DEF Waits
<1>6. r \notin permanent /\ global[v] # r
  BY <1>3, NoRegApart DEF Static, StaticOK
<1>7. h = BindValue(g, v, r, flag) /\ flag \in BOOLEAN /\ ~flag
  OBVIOUS
<1> HIDE DEF v, r, t, flag
<1>8. /\ GenOK(global, h)
      /\ \A w \in Values : h.in_reg[w] = IF w = v THEN r ELSE g.in_reg[w]
      /\ h.inhibit = g.inhibit /\ h.holds = g.holds /\ h.slot = g.slot
      /\ \A w \in Values \ {v} : (w \in h.in_global <=> w \in g.in_global) /\ (w \in h.in_frame <=> w \in g.in_frame)
      /\ v \notin h.in_global /\ v \notin h.in_frame
  <2>1. GenOK(global, g) /\ v \in Values /\ r \in Regs /\ flag \in BOOLEAN /\ ~flag /\ global[v] # r
        /\ g.in_reg[v] \in {NoReg, r}
    BY <1>1, <1>3, <1>4, <1>6, <1>7
  <2> DEFINE b == BindValue(g, v, r, flag)
  <2>2. /\ GenOK(global, b)
        /\ \A w \in Values : b.in_reg[w] = IF w = v THEN r ELSE g.in_reg[w]
        /\ b.inhibit = g.inhibit /\ b.holds = g.holds /\ b.slot = g.slot
        /\ \A w \in Values \ {v} : (w \in b.in_global <=> w \in g.in_global) /\ (w \in b.in_frame <=> w \in g.in_frame)
        /\ (v \in b.in_global <=> global[v] # NoReg /\ flag)
        /\ (v \in b.in_frame <=> global[v] = NoReg /\ flag /\ v \notin Constants)
    BY <2>1, BindEffect
  <2>3. b = h
    BY <1>7
  <2> HIDE DEF b
  <2> QED
    BY <2>1, <2>2, <2>3
<1>9. Right(global, h, v) /\ Readable(global, h, v)
  BY <1>3, <1>4, <1>8, NoRegApart DEF Right, Readable
<1>10. \A w \in Slots \ {v} : /\ Right(global, g, w) => Right(global, h, w)
                              /\ Readable(global, g, w) => Readable(global, h, w)
  BY <1>8, NoRegApart DEF Right, Readable, Home
<1>11. Believed(global, h, nd, Slots \ Arriving(t), wr \cup {v})
  BY <1>1, <1>2, <1>9, <1>10 DEF Believed
<1>12. Loose(permanent, h)
  BY <1>1, <1>3, <1>6, <1>8 DEF Loose
<1>13. Waits(h, nd, t, pa)
  <2> SUFFICES ASSUME NEW k \in DOMAIN t
               PROVE  /\ h.in_reg[t[k].value] = NoReg /\ nd[t[k].value] = "used"
                      /\ t[k].reg = NoReg => t[k].value \in h.slot[t[k].value]
                      /\ t[k].reg # NoReg => t[k].value \in h.holds[t[k].reg]
    BY <1>2, <1>5, <1>8 DEF Waits
  <2>1. t[k].value # v
    BY <1>2 DEF Arriving
  <2>2. k + 1 \in DOMAIN arr /\ t[k] = arr[k + 1]
    BY <1>2
  <2>3. t[k].value \in Values
    BY <1>1, <2>2, WaitTypes, SMTT(60)
  <2> QED
    <3> DEFINE w == t[k].value
               q == t[k].reg
    <3>1. /\ g.in_reg[w] = NoReg /\ nd[w] = "used"
          /\ q = NoReg => w \in g.slot[w]
          /\ q # NoReg => w \in g.holds[q]
      BY <1>1, <2>2 DEF Waits
    <3>2. w # v /\ w \in Values
      BY <2>1, <2>3
    <3> HIDE DEF w, q
    <3>3. h.in_reg[w] = NoReg
      BY <1>8, <3>1, <3>2
    <3> QED
      BY <1>8, <3>1, <3>3 DEF w, q
<1>14. Handed(h, pa)
  BY <1>1, <1>5, <1>8 DEF Handed
<1> QED
  BY <1>1, <1>3, <1>4, <1>5, <1>8, <1>11, <1>12, <1>13, <1>14 DEF InBody, v, r, t

\* The note of an argument in its frame.
LEMMA FrameEffect ==
    ASSUME Static, NEW g, GenOK(global, g), NEW v \in Slots, g.in_reg[v] = NoReg
    PROVE  LET h == FrameRecorded(global, g, v)
           IN /\ GenOK(global, h) /\ h.in_reg = g.in_reg /\ h.inhibit = g.inhibit /\ h.slot = g.slot
              /\ h.in_global = IF global[v] # NoReg THEN g.in_global \cup {v} ELSE g.in_global
              /\ h.in_frame = IF global[v] # NoReg THEN g.in_frame ELSE g.in_frame \cup {v}
              /\ \A q \in Regs : h.holds[q] = IF q = global[v] THEN g.slot[v] ELSE g.holds[q]
<1> DEFINE h == FrameRecorded(global, g, v)
           hs == [g.holds EXCEPT ![global[v]] = g.slot[v]]
<1>1. g \in Gens /\ v \in Values /\ [g.in_reg EXCEPT ![v] = NoReg] = g.in_reg
  BY NoRegApart, GenFields DEF GenOK
<1>2. g.slot[v] \subseteq Values
  BY <1>1, GenFields
<1>3. CASE global[v] # NoReg
  <2>1. h = [g EXCEPT !.in_reg = g.in_reg, !.in_global = @ \cup {v}, !.holds = hs]
    BY <1>1, <1>3 DEF FrameRecorded
  <2>2. global[v] \in Regs
    BY <1>1, <1>3 DEF Static, StaticOK
  <2>3. hs \in [Regs -> SUBSET Values] /\ \A q \in Regs : hs[q] = IF q = global[v] THEN g.slot[v] ELSE g.holds[q]
    BY <1>1, <1>2, <2>2, GenFields
  <2> HIDE DEF hs, h
  <2>4. /\ h \in Gens /\ h.contents = g.contents /\ h.in_reg = g.in_reg /\ h.in_frame = g.in_frame
        /\ h.in_global = g.in_global \cup {v}
        /\ h.inhibit = g.inhibit /\ h.holds = hs /\ h.slot = g.slot
    BY <1>1, <2>1, <2>3 DEF Gens
  <2>5. GenOK(global, h)
    BY <1>3, <2>4 DEF GenOK
  <2> QED
    BY <1>3, <2>3, <2>4, <2>5 DEF h
<1>4. CASE global[v] = NoReg
  <2>1. h = [g EXCEPT !.in_reg = g.in_reg, !.in_frame = @ \cup {v}]
    BY <1>1, <1>4 DEF FrameRecorded
  <2> HIDE DEF h
  <2>2. /\ h \in Gens /\ h.contents = g.contents /\ h.in_reg = g.in_reg /\ h.in_global = g.in_global
        /\ h.in_frame = g.in_frame \cup {v}
        /\ h.inhibit = g.inhibit /\ h.holds = g.holds /\ h.slot = g.slot
    BY <1>1, <2>1 DEF Gens
  <2>3. GenOK(global, h)
    BY <1>4, <2>2 DEF GenOK
  <2> QED
    BY <1>4, <2>2, <2>3, NoRegApart DEF h
<1> QED
  BY <1>3, <1>4

\* ... keeps the invariant within a block.
LEMMA FrameKeeps ==
    ASSUME Static, NEW g, NEW nd, NEW wr, NEW pa, NEW arr, arr # <<>>,
           InBody(global, permanent, g, nd, arr, wr, pa), Head(arr).reg = NoReg
    PROVE  InBody(global, permanent, FrameRecorded(global, g, Head(arr).value), nd, Tail(arr), wr \cup {Head(arr).value}, pa)
<1> DEFINE v == Head(arr).value
           t == Tail(arr)
           h == FrameRecorded(global, g, v)
<1>1. /\ GenOK(global, g) /\ Loose(permanent, g) /\ nd \in Needs /\ wr \subseteq Slots
      /\ Believed(global, g, nd, Slots \ Arriving(arr), wr)
      /\ Waits(g, nd, arr, pa) /\ Handed(g, pa)
  BY DEF InBody
<1>2. /\ Head(arr) = arr[1] /\ 1 \in DOMAIN arr
      /\ t \in Seq([value : Slots, reg : CallUsed \cup {NoReg}])
      /\ \A k \in DOMAIN t : k + 1 \in DOMAIN arr /\ k + 1 # 1 /\ t[k] = arr[k + 1]
      /\ \A j, k \in DOMAIN t : t[j].value = t[k].value => j = k
      /\ v \notin Arriving(t)
      /\ Slots \ Arriving(t) \subseteq (Slots \ Arriving(arr)) \cup {v}
  BY <1>1, WaitNext
<1>3. v \in Slots /\ v \in Values
  BY <1>1, <1>2, WaitTypes
<1>4. g.in_reg[v] = NoReg /\ nd[v] = "used" /\ v \in g.slot[v]
  BY <1>1, <1>2 DEF Waits
<1>5. g.inhibit = {} /\ \A q \in Outgoing : pa[q] = NoValue
  BY <1>1 DEF Waits
<1> HIDE DEF v, t, h
<1>6. /\ GenOK(global, h) /\ h.in_reg = g.in_reg /\ h.inhibit = g.inhibit /\ h.slot = g.slot
      /\ h.in_global = IF global[v] # NoReg THEN g.in_global \cup {v} ELSE g.in_global
      /\ h.in_frame = IF global[v] # NoReg THEN g.in_frame ELSE g.in_frame \cup {v}
      /\ \A q \in Regs : h.holds[q] = IF q = global[v] THEN g.slot[v] ELSE g.holds[q]
  BY <1>1, <1>3, <1>4, FrameEffect, ZenonT(60) DEF h
<1>7. Right(global, h, v) /\ Readable(global, h, v)
  <2>1. global[v] # NoReg => global[v] \in Regs
    BY <1>3 DEF Static, StaticOK
  <2> QED
    BY <1>1, <1>4, <1>6, <2>1 DEF Right, Readable, Home, GenOK
<1>8. ASSUME NEW w \in Slots \ {v}
      PROVE  /\ Right(global, g, w) => Right(global, h, w)
             /\ Readable(global, g, w) => Readable(global, h, w)
  <2>1. w \in Values /\ (global[w] # NoReg => global[w] \in Regs /\ global[w] # global[v])
    BY <1>3, NoRegApart DEF Static, StaticOK
  <2>2. g.in_reg[w] # NoReg => g.in_reg[w] \in Regs /\ g.in_reg[w] # global[v]
    BY <1>1, <1>3, <2>1, GenFields DEF Loose, GenOK, Static, StaticOK
  <2>3. w \in g.in_global => global[w] # NoReg
    BY <1>1 DEF GenOK
  <2> QED
    BY <1>6, <2>1, <2>2, <2>3 DEF Right, Readable, Home
<1>9. Believed(global, h, nd, Slots \ Arriving(t), wr \cup {v})
  BY <1>1, <1>2, <1>7, <1>8 DEF Believed
<1>10. Loose(permanent, h)
  BY <1>1, <1>6 DEF Loose
<1>11. Waits(h, nd, t, pa)
  <2> SUFFICES ASSUME NEW k \in DOMAIN t
               PROVE  /\ h.in_reg[t[k].value] = NoReg /\ nd[t[k].value] = "used"
                      /\ t[k].reg = NoReg => t[k].value \in h.slot[t[k].value]
                      /\ t[k].reg # NoReg => t[k].value \in h.holds[t[k].reg]
    BY <1>2, <1>5, <1>6 DEF Waits
  <2>1. k + 1 \in DOMAIN arr /\ t[k] = arr[k + 1]
    BY <1>2
  <2>2. t[k].reg # NoReg => t[k].reg \in Regs \cap CallUsed
    BY <1>1, <2>1, WaitTypes
  <2>3. t[k].reg # NoReg => t[k].reg # global[v]
    BY <1>3, <2>2 DEF Static, StaticOK
  <2> QED
    BY <1>1, <1>6, <2>1, <2>2, <2>3 DEF Waits
<1>12. Handed(h, pa)
  BY <1>1, <1>5, <1>6 DEF Handed
<1> QED
  BY <1>1, <1>3, <1>6, <1>9, <1>10, <1>11, <1>12 DEF InBody, v, t, h

\* _jit_regs_spill_all, at the end of a block.
LEMMA BlockEnds ==
    ASSUME Static, NEW g, NEW nd, NEW arr, NEW wr, NEW pa, arr = <<>>,
           InBody(global, permanent, g, nd, arr, wr, pa), \A v \in Slots \ Temporaries : nd[v] = "live"
    PROVE  IsBetween(global, SpillRegisters(g, Regs \ permanent), wr, pa)
<1> DEFINE rset == Regs \ permanent
           h == SpillRegisters(g, rset)
<1>1. /\ GenOK(global, g) /\ Loose(permanent, g) /\ nd \in Needs /\ wr \subseteq Slots
      /\ Believed(global, g, nd, Slots \ Arriving(arr), wr) /\ Handed(g, pa)
  BY DEF InBody
<1>2. Arriving(arr) = {}
  BY DEF Arriving
<1>3. rset \subseteq Regs /\ permanent \subseteq Regs
  BY DEF Static, StaticOK
<1> HIDE DEF h
<1>4. /\ Stored(global, permanent, g, h) /\ Preserved(global, Slots, g, h)
      /\ \A v \in Values : h.in_reg[v] = IF g.in_reg[v] \in rset THEN NoReg ELSE g.in_reg[v]
  <2> HIDE DEF rset
  <2> QED
    BY <1>1, <1>3, RegistersSpilled DEF h
<1>5. \A v \in Values : h.in_reg[v] = NoReg
  <2> SUFFICES ASSUME NEW v \in Values, g.in_reg[v] # NoReg
               PROVE  g.in_reg[v] \in rset
    BY <1>4
  <2>1. g.in_reg[v] \in Regs /\ g.in_reg[v] \notin permanent
    BY <1>1, GenFields DEF Loose, GenOK
  <2> QED
    BY <2>1
<1>6. ASSUME NEW v \in Slots \ Temporaries
      PROVE  /\ Home(global, h, v)
             /\ v \in wr /\ global[v] # NoReg => v \in h.in_global
  <2>1. Right(global, g, v) /\ (v \in wr => Readable(global, g, v))
    BY <1>1, <1>2, <1>6 DEF Believed
  <2>2. Right(global, h, v) /\ (v \in wr => Readable(global, h, v))
    BY <1>4, <1>6, <2>1 DEF Preserved
  <2>3. v \in Values
    BY <1>6, NoRegApart
  <2> QED
    BY <1>5, <2>2, <2>3 DEF Right, Readable
<1>7. \A r \in Outgoing : pa[r] # NoValue => pa[r] \in h.holds[r]
  <2>1. Outgoing \subseteq Regs \ permanent
    BY RegAllocAssumption DEF Static, StaticOK
  <2> QED
    BY <1>1, <1>4, <2>1 DEF Handed, Stored
<1> QED
  BY <1>1, <1>4, <1>5, <1>6, <1>7 DEF IsBetween, Handed, Stored, h

\* What holds when the code of the function is entered.
LEMMA EntryEffect ==
    ASSUME Static, NEW g, GenOK(global, g), \A v \in Values : g.in_reg[v] = NoReg,
           NEW nd \in Needs, NEW list, ArrivalRight(list)
    PROVE  LET h == AtEntry(global, permanent, g, nd, list)
           IN /\ GenOK(global, h) /\ h.in_reg = g.in_reg /\ h.in_global = g.in_global /\ h.in_frame = g.in_frame
              /\ h.inhibit = {}
              /\ \A k \in DOMAIN list : IF list[k].reg = NoReg THEN list[k].value \in h.slot[list[k].value]
                                        ELSE list[k].value \in h.holds[list[k].reg]
              /\ \A v \in Slots \ Arriving(list) : nd[v] # "dead" => Home(global, h, v)
<1> DEFINE At(r)   == {list[k].value : k \in {c \in DOMAIN list : list[c].reg = r}}
           home(v) == nd[v] # "dead" /\ v \notin Arriving(list)
           Own(r) == {v \in {w \in Values : global[w] = r} \cap Slots : home(v)}
           as == [r \in Regs |-> 0]
           cs == [r \in Regs |-> IF r \in permanent THEN g.contents[r] ELSE {}]
           hs == [r \in Regs |-> At(r) \cup Own(r)]
           ss == [v \in Slots |-> IF v \in At(NoReg) \/ (home(v) /\ ~(global[v] # NoReg)) THEN {v} ELSE {}]
           none == {}
           h == AtEntry(global, permanent, g, nd, list)
<1>1. g \in Gens
  BY DEF GenOK
<1>2. h = [g EXCEPT !.age = as, !.inhibit = none, !.contents = cs, !.holds = hs, !.slot = ss]
  BY DEF AtEntry
<1> DEFINE S == [value : Slots, reg : CallUsed \cup {NoReg}]
<1>3. list \in Seq(S)
  BY DEF ArrivalRight
<1> HIDE DEF S
<1>4. \A k \in DOMAIN list : list[k] \in S
  BY <1>3
<1>5. \A k \in DOMAIN list : list[k].value \in Slots /\ list[k].reg \in CallUsed \cup {NoReg}
  BY <1>4 DEF S
<1>6. \A r : At(r) \subseteq Values
  BY <1>5, NoRegApart
<1>7. /\ cs \in [Regs -> SUBSET Values] /\ as \in [Regs -> Nat]
  <2>1. \A r \in Regs : g.contents[r] \in SUBSET Values
    BY <1>1, GenFields
  <2> QED
    BY <2>1
<1>8. hs \in [Regs -> SUBSET Values]
  <2>1. \A r \in Regs : At(r) \cup Own(r) \subseteq Values
    <3>1. \A r : Own(r) \subseteq Values
      OBVIOUS
    <3> HIDE DEF At, Own
    <3> QED
      BY <1>6, <3>1
  <2> HIDE DEF At, Own
  <2> QED
    BY <2>1
<1>9. ss \in [Slots -> SUBSET Values]
  BY NoRegApart
<1>10. none \in SUBSET Regs
  OBVIOUS
<1>11. /\ \A r \in Regs : hs[r] = At(r) \cup Own(r)
       /\ \A v \in Slots : ss[v] = IF v \in At(NoReg) \/ (home(v) /\ ~(global[v] # NoReg)) THEN {v} ELSE {}
       /\ \A r \in Regs : cs[r] = IF r \in permanent THEN g.contents[r] ELSE {}
  OBVIOUS
<1>12. \A k \in DOMAIN list : list[k].value \in At(list[k].reg)
  OBVIOUS
<1> HIDE DEF h, as, cs, hs, ss, none, At
<1>13. /\ h \in Gens /\ h.contents = cs /\ h.in_reg = g.in_reg /\ h.in_frame = g.in_frame
       /\ h.in_global = g.in_global /\ h.inhibit = none /\ h.holds = hs /\ h.slot = ss
  BY <1>1, <1>2, <1>7, <1>8, <1>9, <1>10 DEF Gens
<1>14. \A r \in Regs : g.contents[r] = {} /\ {v \in Values : g.in_reg[v] = r} = {}
  BY NoRegApart DEF GenOK
<1>15. \A r \in Regs : h.contents[r] = {v \in Values : h.in_reg[v] = r}
  BY <1>11, <1>13, <1>14
<1>16. GenOK(global, h)
  BY <1>13, <1>15 DEF GenOK
<1>17. \A k \in DOMAIN list : IF list[k].reg = NoReg THEN list[k].value \in h.slot[list[k].value]
                              ELSE list[k].value \in h.holds[list[k].reg]
  <2> TAKE k \in DOMAIN list
  <2> DEFINE v == list[k].value
             r == list[k].reg
  <2>1. v \in Slots /\ r \in CallUsed \cup {NoReg} /\ v \in At(r)
    BY <1>5, <1>12
  <2> HIDE DEF v, r
  <2>2. CASE r = NoReg
    <3>1. v \in At(NoReg)
      BY <2>1, <2>2
    <3>2. ss[v] = {v}
      BY <1>11, <2>1, <3>1
    <3> QED
      BY <1>13, <2>2, <3>2 DEF v, r
  <2>3. CASE r # NoReg
    <3>1. r \in Regs
      BY <2>1, <2>3, RegAllocAssumption
    <3>2. v \in h.holds[r]
      BY <1>11, <1>13, <2>1, <3>1
    <3> QED
      BY <2>3, <3>2 DEF v, r
  <2> QED
    BY <2>2, <2>3
<1>18. ASSUME NEW v \in Slots \ Arriving(list), nd[v] # "dead"
       PROVE  Home(global, h, v)
  <2>1. v \in Slots /\ v \in Values
    BY <1>18, NoRegApart
  <2>2. home(v)
    BY <1>18
  <2>3. global[v] # NoReg => global[v] \in Regs /\ v \in Own(global[v])
    BY <2>1, <2>2 DEF Static, StaticOK
  <2> HIDE DEF Own, home
  <2>4. CASE global[v] # NoReg
    <3>1. hs[global[v]] = At(global[v]) \cup Own(global[v])
      BY <1>11, <2>3, <2>4
    <3> QED
      BY <1>13, <2>3, <2>4, <3>1 DEF Home
  <2>5. CASE global[v] = NoReg
    <3>1. ss[v] = {v}
      BY <1>11, <2>1, <2>2, <2>5
    <3> QED
      BY <1>13, <2>5, <3>1 DEF Home
  <2> QED
    BY <2>4, <2>5
<1> QED
  BY <1>13, <1>16, <1>17, <1>18 DEF h, none

\* _jit_regs_init_for_block, in an order in which a value that has a global
\* register is written before it is read.
LEMMA BlockBegins ==
    ASSUME Static, NEW g, NEW nd, NEW wr, NEW pa, NEW list, IsBetween(global, g, wr, pa), ArrivalRight(list),
           nd \in Needs, \A v \in Arriving(list) : nd[v] = "used",
           \A v \in Temporaries \ Arriving(list) : nd[v] = "dead",
           \A v \in Slots \ (Temporaries \cup Arriving(list)) : global[v] # NoReg /\ nd[v] = "used" => v \in wr
    PROVE  InBody(global, permanent, AtEntry(global, permanent, g, nd, list), nd, list, wr, [r \in Outgoing |-> NoValue])
<1> DEFINE h == AtEntry(global, permanent, g, nd, list)
           qa == [r \in Outgoing |-> NoValue]
<1>1. /\ GenOK(global, g) /\ \A v \in Values : g.in_reg[v] = NoReg
      /\ wr \subseteq Slots /\ \A v \in wr \ Temporaries : global[v] # NoReg => v \in g.in_global
  BY DEF IsBetween
<1>2. /\ GenOK(global, h) /\ h.in_reg = g.in_reg /\ h.in_global = g.in_global /\ h.in_frame = g.in_frame
      /\ h.inhibit = {}
      /\ \A k \in DOMAIN list : IF list[k].reg = NoReg THEN list[k].value \in h.slot[list[k].value]
                                ELSE list[k].value \in h.holds[list[k].reg]
      /\ \A v \in Slots \ Arriving(list) : nd[v] # "dead" => Home(global, h, v)
  BY <1>1, EntryEffect
<1> HIDE DEF h
<1>3. \A k \in DOMAIN list : list[k].value \in Arriving(list)
  BY DEF Arriving
<1>4. Believed(global, h, nd, Slots \ Arriving(list), wr)
  <2> SUFFICES ASSUME NEW v \in Slots \ Arriving(list), nd[v] # "dead"
               PROVE  /\ Right(global, h, v)
                      /\ nd[v] = "used" /\ global[v] # NoReg => v \in wr
                      /\ v \in wr => Readable(global, h, v)
    BY DEF Believed
  <2>1. v \in Slots \ Temporaries /\ v \in Values
    BY NoRegApart
  <2>2. Home(global, h, v) /\ h.in_reg[v] = NoReg
    BY <1>1, <1>2, <2>1
  <2>3. Right(global, h, v)
    BY <1>2, <2>2 DEF Right, Home, GenOK
  <2>4. v \in wr => Readable(global, h, v)
    BY <1>1, <1>2, <2>1 DEF Readable
  <2> QED
    BY <2>1, <2>3, <2>4
<1> DEFINE S == [value : Slots, reg : CallUsed \cup {NoReg}]
<1>5. list \in Seq(S) /\ \A j, k \in DOMAIN list : list[j].value = list[k].value => j = k
  BY DEF ArrivalRight
<1>6. \A k \in DOMAIN list : list[k].value \in Values
  <2> HIDE DEF S
  <2>1. \A k \in DOMAIN list : list[k] \in S
    BY <1>5
  <2> QED
    BY <2>1, NoRegApart DEF S
<1>7. Waits(h, nd, list, qa)
  BY <1>1, <1>2, <1>3, <1>5, <1>6 DEF Waits
<1>8. Handed(h, qa)
  BY <1>2 DEF Handed
<1>9. Loose(permanent, h)
  BY <1>1, <1>2 DEF Loose
<1> QED
  BY <1>1, <1>2, <1>4, <1>7, <1>8, <1>9 DEF InBody, h

\* Among the values that compete for the global registers every one has a place
\* of its own.
LEMMA PlaceApart ==
    ASSUME NEW uses \in [Slots \ Temporaries -> Nat], NEW i \in Candidates(uses), NEW j \in Candidates(uses),
           Place(uses, i) = Place(uses, j)
    PROVE  i = j
<1> DEFINE C == Candidates(uses)
           u(k) == uses[ValueList[k]]
           Ahead(k, l) == u(k) > u(l) \/ (u(k) = u(l) /\ k < l)
           First(l) == {k \in C : Ahead(k, l)}
<1>1. C \subseteq 1 .. Len(ValueList) /\ Len(ValueList) \in Nat
  BY RegAllocAssumption DEF Candidates
<1>2. \A k \in C : u(k) \in Nat /\ k \in Int
  BY <1>1 DEF Candidates
<1>3. IsFiniteSet(C)
  <2>1. IsFiniteSet(1 .. Len(ValueList))
    BY <1>1, FS_Interval
  <2> HIDE DEF C
  <2> QED
    BY <1>1, <2>1, FS_Subset
<1>4. \A l : IsFiniteSet(First(l))
  <2> TAKE l
  <2>1. First(l) \subseteq C
    OBVIOUS
  <2> HIDE DEF First, C
  <2> QED
    BY <1>3, <2>1, FS_Subset
<1>5. \A l \in C : Place(uses, l) = Cardinality(First(l))
  BY DEF Place
<1> HIDE DEF C
<1>6. ASSUME NEW k \in C, NEW l \in C, Ahead(k, l)
      PROVE  Cardinality(First(k)) # Cardinality(First(l))
  <2>1. First(k) \subseteq First(l)
    <3> SUFFICES ASSUME NEW m \in C, Ahead(m, k)
                 PROVE  Ahead(m, l)
      OBVIOUS
    <3>1. u(k) \in Nat /\ u(l) \in Nat /\ u(m) \in Nat /\ k \in Int /\ l \in Int /\ m \in Int
      BY <1>2, <1>6
    <3> HIDE DEF u
    <3> QED
      BY <1>6, <3>1
  <2>2. k \in First(l)
    BY <1>6
  <2>3. k \notin First(k)
    <3>1. u(k) \in Nat /\ k \in Int
      BY <1>2, <1>6
    <3> QED
      BY <3>1
  <2>4. IsFiniteSet(First(l))
    BY <1>4
  <2> HIDE DEF First
  <2> QED
    BY <2>1, <2>2, <2>3, <2>4, FS_Subset
<1>7. i \in C /\ j \in C
  BY DEF C
<1>8. ~Ahead(i, j) /\ ~Ahead(j, i)
  BY <1>5, <1>6, <1>7
<1>9. u(i) \in Nat /\ u(j) \in Nat /\ i \in Int /\ j \in Int
  BY <1>2, <1>7
<1> HIDE DEF u
<1> QED
  BY <1>8, <1>9

\* _jit_regs_alloc_global.
LEMMA GlobalStatic ==
    ASSUME NEW uses \in Counts, NEW try \in BOOLEAN, NEW tail \in BOOLEAN, global = GlobalOf(uses, try, tail),
           permanent = IF tail /\ ~try THEN Regs \ CallUsed ELSE {global[v] : v \in Values} \ {NoReg}
    PROVE  Static
<1> DEFINE Above(r)  == Cardinality({q \in GlobalRegs : q > r})
           Takes(v, r) == \E i \in Candidates(uses) : ValueList[i] = v /\ Place(uses, i) = Above(r)
<1>1. uses \in [Slots \ Temporaries -> Nat] /\ GlobalRegs \subseteq Regs \ CallUsed
  BY RegAllocAssumption
<1>2. global = [v \in Values \cup {NoValue} |->
           IF ~try /\ ~tail /\ \E r \in GlobalRegs : Takes(v, r)
           THEN CHOOSE r \in GlobalRegs : Takes(v, r) ELSE NoReg]
  BY DEF GlobalOf
<1>3. \A v, w, r : Takes(v, r) /\ Takes(w, r) => v = w
  BY <1>1, PlaceApart
<1>4. \A v, r : Takes(v, r) => v \in Slots \ Temporaries
  BY DEF Candidates
<1> HIDE DEF Takes
<1>5. \A v \in Values \cup {NoValue} :
         \/ global[v] = NoReg
         \/ ~try /\ ~tail /\ global[v] \in GlobalRegs /\ Takes(v, global[v])
  <2> TAKE v \in Values \cup {NoValue}
  <2>1. CASE ~try /\ ~tail /\ \E r \in GlobalRegs : Takes(v, r)
    <3>1. global[v] = CHOOSE r \in GlobalRegs : Takes(v, r)
      BY <1>2, <2>1
    <3> QED
      BY <2>1, <3>1
  <2>2. CASE ~(~try /\ ~tail /\ \E r \in GlobalRegs : Takes(v, r))
    BY <1>2, <2>2
  <2> QED
    BY <2>1, <2>2
<1>6. DOMAIN global = Values \cup {NoValue} /\ global = [v \in Values \cup {NoValue} |-> global[v]]
  BY <1>2
<1>7. global \in [Values \cup {NoValue} -> Regs \cup {NoReg}]
  BY <1>1, <1>5, <1>6
<1>8. permanent \subseteq Regs \ CallUsed
  BY <1>1, <1>5
<1>9. \A v \in Values \cup {NoValue} : global[v] # NoReg => v \in Slots \ Temporaries /\ global[v] \in permanent
  <2> SUFFICES ASSUME NEW v \in Values \cup {NoValue}, global[v] # NoReg
               PROVE  v \in Slots \ Temporaries /\ global[v] \in permanent
    OBVIOUS
  <2>1. ~tail /\ v \in Slots \ Temporaries
    BY <1>4, <1>5
  <2> QED
    BY <2>1, NoRegApart
<1>10. \A v, w \in Values \cup {NoValue} : global[v] # NoReg /\ global[v] = global[w] => v = w
  BY <1>3, <1>5
<1> QED
  BY <1>7, <1>8, <1>9, <1>10 DEF Static, StaticOK

\* Begin: the operands are forced out, and Ready assigns the registers.
LEMMA BeginKeeps ==
    ASSUME Static, Faults = {}, NEW g, NEW nd, NEW arr, NEW wr, NEW pa, NEW more, more \subseteq Slots,
           NEW form, NEW args, NEW after,
           InBody(global, permanent, g, nd, arr, wr, pa),
           Supplied(global, nd, arr, wr \cup more, pa, form, args, after),
           more = {} \/ (~form.ternary /\ more \subseteq {args[0]}),
           form.name = "incoming" => /\ args[1] \in Slots /\ g.in_reg[args[1]] \in CallUsed
                                     /\ args[1] \notin g.in_global /\ g.inhibit = {},
           Begin(g, form, args, after)
    PROVE  Emitted(global, permanent, gen', nd, regs', arr, wr \cup more, pa) /\ phase' = "ready"
<1> DEFINE f == ForceOut(g, form, args)
           rs == Assign(f, Describe(f, form, args, after))
<1>1. FaultsOf(f, rs) \subseteq Faults /\ regs' = rs /\ gen' = (IF CanGenerate(rs) THEN Generate(f, rs) ELSE f)
      /\ phase' = "ready"
  BY DEF Begin, Prepare, Ready
<1> SUFFICES ASSUME CanGenerate(rs)
             PROVE  Emitted(global, permanent, gen', nd, regs', arr, wr \cup more, pa)
  BY <1>1 DEF Emitted, CanGenerate
<1>2. /\ form \in Forms /\ args \in [0 .. 2 -> Values \cup {NoValue}]
      /\ after \in [{args[i] : i \in 0 .. 2} \cap Slots -> {"used", "live", "dead"}]
      /\ \A j \in 0 .. 2 : form.operands[j].kind = "frame" => args[j] \in Slots /\ global[args[j]] = NoReg
      /\ form.ternary \/ args[0] = NoValue \/ (args[0] \in Slots /\ after[args[0]] # "dead")
      /\ \A r \in Outgoing : pa[r] # NoValue => form.name = "set_param"
      /\ \A j \in 0 .. 2 : IF form.operands[j].kind = "none" THEN args[j] = NoValue
                           ELSE j > 0 \/ form.ternary => args[j] \in Values
  BY DEF Supplied
<1>3. GenOK(global, g) /\ Loose(permanent, g) /\ Handed(g, pa)
  BY DEF InBody
<1>4. Stored(global, permanent, g, f)
  BY <1>2, <1>3, ForcedOut
<1>5. GenOK(global, f) /\ Loose(permanent, f) /\ f.inhibit = g.inhibit
  BY <1>3, <1>4, StoredLoose DEF Stored
<1>6. f.inhibit # {} => form.name = "set_param"
  BY <1>2, <1>3, <1>5 DEF Handed
<1>7. form.name = "incoming" => f.in_reg = g.in_reg /\ f.in_global = g.in_global
  <2> SUFFICES ASSUME form.name = "incoming"
               PROVE  f.in_reg = g.in_reg /\ f.in_global = g.in_global
    OBVIOUS
  <2> DEFINE none == {}
  <2>1. \A j \in 0 .. 2 : form.operands[j].kind # "frame"
    BY <1>2, FormsAssumption DEF FormRight
  <2>2. /\ {args[i] : i \in {j \in 1 .. 2 : form.operands[j].kind = "frame"}} = none
        /\ {args[i] : i \in {j \in 0 .. 2 : form.operands[j].kind = "frame"}} = none
    BY <2>1
  <2>3. f = FreeValues(SaveValues(g, none), none)
    BY <2>2 DEF ForceOut
  <2>4. none \subseteq Values /\ Moved(global, g, none) = {}
    BY DEF Moved, Bound
  <2> HIDE DEF none, f
  <2>5. GenOK(global, SaveValues(g, none)) /\ SaveValues(g, none).in_reg = g.in_reg
        /\ SaveValues(g, none).in_global = g.in_global
    <3>1. /\ GenOK(global, SaveValues(g, none)) /\ SaveValues(g, none).in_reg = g.in_reg
          /\ SaveValues(g, none).in_global = g.in_global \cup Moved(global, g, none)
      BY <1>3, <2>4, SaveEffect, ZenonT(60)
    <3> QED
      BY <2>4, <3>1
  <2>6. /\ \A v \in Values : f.in_reg[v] = g.in_reg[v]
        /\ f.in_global = g.in_global
    BY <2>3, <2>4, <2>5, FreeEffect DEF none
  <2>7. f.in_reg[NoValue] = NoReg /\ g.in_reg[NoValue] = NoReg
    BY <1>3, <1>5 DEF GenOK
  <2>8. f.in_reg \in [Values \cup {NoValue} -> Regs \cup {NoReg}] /\ g.in_reg \in [Values \cup {NoValue} -> Regs \cup {NoReg}]
    BY <1>3, <1>5, GenFields DEF GenOK
  <2> QED
    BY <2>6, <2>7, <2>8
<1> HIDE DEF f
<1>8. Asked(global, permanent, f, form, args, after)
  BY <1>2, <1>5, <1>6, <1>7 DEF Asked
<1>9. /\ Assigned(global, permanent, f, rs) /\ FromRule(global, f, rs)
      /\ rs.form = form /\ rs.args = args /\ rs.after = after
  <2>1. rs.ok /\ FaultsOf(f, rs) = {}
    BY <1>1 DEF CanGenerate
  <2> QED
    BY <1>8, <2>1, AssignRight
<1> HIDE DEF rs
<1>10. more \subseteq Slots \cap {Dest(rs)}
  BY <1>9 DEF FromRule
<1>11. Starts(global, permanent, g, nd, arr, wr, pa, more, f, rs)
  BY <1>9, <1>10 DEF Starts, f
<1>12. /\ IsReady(global, permanent, Generate(f, rs), Becomes(nd, rs.after), rs, arr, wr \cup more, pa)
       /\ \A i \in Operands(rs) : Val(rs, i) \in Generate(f, rs).holds[Reg(rs, i)]
       /\ \A v \in rs.memory : v \in Generate(f, rs).slot[v]
  BY <1>11, BeginReady
<1>13. gen' = Generate(f, rs) /\ regs' = rs
  BY <1>1
<1>14. ResultPlace(global, permanent, gen', rs)
  <2>1. Output(rs) => Reg(rs, 0) \notin gen'.inhibit
    BY <1>12, <1>13 DEF IsReady, ResultReady
  <2> QED
    BY <1>9, <2>1 DEF Assigned, ResultPlace
<1> QED
  BY <1>12, <1>13, <1>14 DEF Emitted

\* The invariant holds at the start of a function,
LEMMA InitInv == Init => RegAllocInv
<1> SUFFICES ASSUME Init
             PROVE  RegAllocInv
  OBVIOUS
<1>1. Static
  <2>1. PICK uses \in Counts, try \in BOOLEAN, tail \in BOOLEAN :
           /\ global = GlobalOf(uses, try, tail)
           /\ permanent = IF tail /\ ~try THEN Regs \ CallUsed ELSE {global[v] : v \in Values} \ {NoReg}
    BY DEF Init
  <2> QED
    BY <2>1, GlobalStatic
<1>2. need \in Needs /\ phase = "between"
  BY DEF Init, Needs
<1> DEFINE hs == [r \in Regs |-> {v \in Slots : global[v] = r}]
           ss == [v \in Slots |-> IF HasGlobal(v) THEN {} ELSE {v}]
           cs == [r \in Regs |-> {}]
           at == [v \in Values \cup {NoValue} |-> NoReg]
           as == [r \in Regs |-> 0]
           none == {}
<1>3. gen = [contents |-> cs, in_reg |-> at, in_frame |-> none, in_global |-> none, age |-> as, inhibit |-> none,
             holds |-> hs, slot |-> ss]
  BY DEF Init
<1>4. /\ hs \in [Regs -> SUBSET Values] /\ ss \in [Slots -> SUBSET Values] /\ cs \in [Regs -> SUBSET Values]
      /\ at \in [Values \cup {NoValue} -> Regs \cup {NoReg}] /\ as \in [Regs -> Nat]
      /\ none \in SUBSET Slots /\ none \in SUBSET Regs
  BY NoRegApart
<1>5. /\ \A r \in Regs : cs[r] = {v \in Values : at[v] = r}
      /\ \A v \in Values \cup {NoValue} : at[v] = NoReg
  BY NoRegApart
<1>6. \A v \in Slots : IF global[v] # NoReg THEN global[v] \in Regs /\ v \in hs[global[v]] ELSE v \in ss[v]
  BY <1>1, NoRegApart DEF Static, StaticOK, HasGlobal
<1> HIDE DEF hs, ss, cs, at, as, none
<1>7. gen \in Gens /\ gen.contents = cs /\ gen.in_reg = at /\ gen.holds = hs /\ gen.slot = ss
      /\ gen.in_global = none /\ gen.in_frame = none
  BY <1>3, <1>4 DEF Gens
<1>8. GenOK(global, gen)
  BY <1>5, <1>7 DEF GenOK, none
<1>9. IsBetween(global, gen, written, passed)
  <2>1. written = {} /\ passed = [r \in Outgoing |-> NoValue]
    BY DEF Init
  <2> QED
    BY <1>5, <1>6, <1>7, <1>8, <2>1 DEF IsBetween, Home
<1> QED
  BY <1>1, <1>2, <1>9 DEF RegAllocInv

\* What follows an instruction is one of three.
LEMMA AfterType ==
    ASSUME NEW vs, NEW branch, NEW after \in Afters(vs, branch)
    PROVE  after \in [vs -> {"used", "live", "dead"}]
BY DEF Afters

\* permanent, which Changed reads, is the same in the next state.
LEMMA EmittedNext ==
    ASSUME permanent' = permanent, global' = global, need' = need, passed' = passed,
           Emitted(global, permanent, gen', need, regs', arriving', written', passed)
    PROVE  Emitted(global, permanent, gen, need, regs, arriving, written, passed)'
<1> DEFINE C == Changed(regs')
           D == Disturbed(regs')
<1>1. Changed(regs)' = C
  BY DEF Changed
<1>2. Disturbed(regs)' = D
  BY <1>1 DEF Disturbed
<1>3. ResultPlace(global, permanent, gen', regs') => ResultPlace(global, permanent, gen, regs)'
  BY <1>1 DEF ResultPlace
<1>4. ResultReady(global, permanent, gen', Becomes(need, regs'.after), regs', written')
         => ResultReady(global, permanent, gen, Becomes(need, regs.after), regs, written)'
  BY <1>1 DEF ResultReady
<1>5. IsReady(global, permanent, gen', Becomes(need, regs'.after), regs', arriving', written', passed)
         => IsReady(global, permanent, gen, Becomes(need, regs.after), regs, arriving, written, passed)'
  BY <1>1, <1>2, <1>4 DEF IsReady
<1> QED
  BY <1>3, <1>5 DEF Emitted

\* ... and every step of the generator keeps it.
LEMMA NextInv == Faults = {} /\ RegAllocInv /\ [Next]_vars => RegAllocInv'
<1> SUFFICES ASSUME Faults = {}, RegAllocInv, [Next]_vars
             PROVE  RegAllocInv'
  OBVIOUS
<1>0. /\ Static /\ need \in Needs /\ phase \in {"between", "body", "ready", "ended"}
      /\ phase = "between" => IsBetween(global, gen, written, passed)
      /\ phase \in {"body", "ended"} => InBody(global, permanent, gen, need, arriving, written, passed)
      /\ phase = "ready" => Emitted(global, permanent, gen, need, regs, arriving, written, passed)
  BY DEF RegAllocInv
<1>1. ASSUME UNCHANGED <<global, permanent>>
      PROVE  Static' /\ global' = global /\ permanent' = permanent
  BY <1>0, <1>1 DEF Static
<1>2. ASSUME NextBlock
      PROVE  RegAllocInv'
  <2>1. /\ phase = "between" /\ phase' = "body" /\ passed' = [r \in Outgoing |-> NoValue]
        /\ UNCHANGED <<global, permanent>> /\ written' = written
    BY <1>2 DEF NextBlock
  <2>2. PICK list \in Arrivals, uses \in [Slots \ Temporaries -> {"used", "live", "dead"}] :
          /\ \A v \in Slots \ (Temporaries \cup Arriving(list)) :
                            HasGlobal(v) /\ uses[v] = "used" => v \in written
          /\ need' = [v \in Slots |-> IF v \in Arriving(list) THEN "used"
                                       ELSE IF v \in Temporaries THEN "dead" ELSE uses[v]]
          /\ arriving' = list
          /\ LET At(r)   == {list[k].value : k \in {c \in DOMAIN list : list[c].reg = r}}
                 home(v) == need'[v] # "dead" /\ v \notin Arriving(list)
             IN gen' = [gen EXCEPT
                    !.age = [r \in Regs |-> 0], !.inhibit = {},
                    !.contents = [r \in Regs |-> IF r \in permanent THEN @[r] ELSE {}],
                    !.holds = [r \in Regs |-> At(r) \cup {v \in Owner(r) \cap Slots : home(v)}],
                    !.slot  = [v \in Slots |-> IF v \in At(NoReg) \/ (home(v) /\ ~HasGlobal(v))
                                               THEN {v} ELSE {}]]
    BY <1>2, ZenonT(60) DEF NextBlock
  <2>3. gen' = AtEntry(global, permanent, gen, need', list)
    BY <2>2 DEF AtEntry, Owner, HasGlobal
  <2>4. ArrivalRight(list)
    BY ArrivalAssumption
  <2>5. need' \in Needs
    BY <2>2 DEF Needs
  <2>6. \A v \in Slots : need'[v] = IF v \in Arriving(list) THEN "used"
                                    ELSE IF v \in Temporaries THEN "dead" ELSE uses[v]
    BY <2>2
  <2>7. Arriving(list) \subseteq Slots /\ Temporaries \subseteq Slots
    <3> DEFINE S == [value : Slots, reg : CallUsed \cup {NoReg}]
    <3>1. list \in Seq(S)
      BY <2>4 DEF ArrivalRight
    <3> HIDE DEF S
    <3>2. \A k \in DOMAIN list : list[k] \in S
      BY <3>1
    <3>3. Temporaries \subseteq Slots
      BY RegAllocAssumption
    <3> QED
      BY <3>2, <3>3 DEF S, Arriving
  <2>8. InBody(global, permanent, gen', need', arriving', written, passed')
    <3> DEFINE nd == need'
    <3>1. /\ \A v \in Arriving(list) : nd[v] = "used"
          /\ \A v \in Temporaries \ Arriving(list) : nd[v] = "dead"
          /\ \A v \in Slots \ (Temporaries \cup Arriving(list)) : global[v] # NoReg /\ nd[v] = "used" => v \in written
      BY <2>2, <2>6, <2>7 DEF HasGlobal
    <3>2. nd \in Needs
      BY <2>5
    <3> HIDE DEF nd
    <3>3. InBody(global, permanent, AtEntry(global, permanent, gen, nd, list), nd, list, written, [r \in Outgoing |-> NoValue])
      BY <1>0, <2>1, <2>4, <3>1, <3>2, BlockBegins
    <3> QED
      BY <2>1, <2>2, <2>3, <3>3 DEF nd
  <2> QED
    BY <1>1, <2>1, <2>5, <2>8 DEF RegAllocInv
<1>3. ASSUME IncomingReg
      PROVE  RegAllocInv'
  <2> DEFINE v    == Head(arriving).value
             args == [i \in 0 .. 2 |-> IF i = 1 THEN v ELSE NoValue]
             note == CHOOSE form \in Forms : form.name = "incoming"
             g == BindValue(gen, v, Head(arriving).reg, FALSE)
             wr == written \cup {v}
             none == {}
  <2>1. /\ phase = "body" /\ arriving # <<>> /\ Head(arriving).reg # NoReg
        /\ arriving' = Tail(arriving) /\ written' = wr
        /\ UNCHANGED <<global, permanent>> /\ need' = need /\ passed' = passed
    BY <1>3 DEF IncomingReg
  <2>2. PICK after \in Afters({v}, FALSE) : Begin(g, note, args, after)
    BY <1>3 DEF IncomingReg
  <2>3. InBody(global, permanent, gen, need, arriving, written, passed)
    BY <1>0, <2>1
  <2>4. /\ InBody(global, permanent, g, need, Tail(arriving), wr, passed)
        /\ g.in_reg[v] = Head(arriving).reg /\ v \notin g.in_global
        /\ g.inhibit = {} /\ \A r \in Outgoing : passed[r] = NoValue
        /\ need[v] = "used" /\ v \in Slots
    <3> HIDE DEF g
    <3> QED
      BY <1>0, <2>1, <2>3, IncomingKeeps DEF g
  <2>5. Waits(gen, need, arriving, passed)
    BY <2>3 DEF InBody
  <2>6. v \notin Arriving(Tail(arriving)) /\ Head(arriving).reg \in CallUsed
    <3>1. Head(arriving) = arriving[1] /\ 1 \in DOMAIN arriving /\ v \notin Arriving(Tail(arriving))
      BY <2>1, <2>5, WaitNext
    <3> QED
      BY <2>1, <2>5, <3>1, WaitTypes
  <2>7. note \in Forms /\ note.name = "incoming"
    BY IncomingAssumption
  <2>8. /\ ~note.ternary /\ note.operands[0].kind = "none" /\ note.operands[2].kind = "none"
        /\ note.operands[1].kind = "reg"
    BY <2>7, FormsAssumption DEF FormRight
  <2> HIDE DEF note
  <2>9. /\ args \in [0 .. 2 -> Values \cup {NoValue}] /\ args[0] = NoValue /\ args[1] = v /\ args[2] = NoValue
        /\ {args[i] : i \in 0 .. 2} \cap Slots = {v}
    BY <2>4, NoRegApart
  <2>10. after \in [{args[i] : i \in 0 .. 2} \cap Slots -> {"used", "live", "dead"}]
    BY <2>2, <2>9, AfterType
  <2> HIDE DEF args, g, wr
  <2>11. NoValue \notin Slots /\ NoValue \notin Arriving(Tail(arriving))
    <3>1. Arriving(Tail(arriving)) \subseteq Slots
      <4> DEFINE S == [value : Slots, reg : CallUsed \cup {NoReg}]
      <4>1. Tail(arriving) \in Seq(S)
        BY <2>1, <2>5, WaitNext
      <4> HIDE DEF S
      <4>2. \A k \in DOMAIN Tail(arriving) : Tail(arriving)[k] \in S
        BY <4>1
      <4> QED
        BY <4>2 DEF S, Arriving
    <3> QED
      BY <3>1, NoRegApart
  <2>12. \A j \in 0 .. 2 : args[j] = IF j = 1 THEN v ELSE NoValue
    BY DEF args
  <2>13. v \in Values
    BY <2>4 DEF Slots
  <2>14. Supplied(global, need, Tail(arriving), wr \cup none, passed, note, args, after)
    BY <2>13, <2>4, <2>6, <2>7, <2>8, <2>9, <2>10, <2>11, <2>12 DEF Supplied
  <2>15. /\ Emitted(global, permanent, gen', need, regs', Tail(arriving), wr \cup none, passed)
         /\ phase' = "ready"
    <3> HIDE DEF none, v
    <3>1. none \subseteq Slots /\ none = {}
      BY DEF none
    <3>2. /\ InBody(global, permanent, g, need, Tail(arriving), wr, passed)
          /\ args[1] \in Slots /\ g.in_reg[args[1]] \in CallUsed /\ args[1] \notin g.in_global /\ g.inhibit = {}
      BY <2>4, <2>6, <2>9
    <3> QED
      BY <1>0, <2>2, <2>14, <3>1, <3>2, BeginKeeps
  <2>16. wr \cup none = wr
    OBVIOUS
  <2>17. Emitted(global, permanent, gen', need, regs', arriving', written', passed)
    BY <2>1, <2>15, <2>16
  <2>18. Emitted(global, permanent, gen, need, regs, arriving, written, passed)'
    BY <2>1, <2>17, EmittedNext
  <2> QED
    BY <1>0, <1>1, <2>1, <2>15, <2>18 DEF RegAllocInv
<1>4. ASSUME IncomingFrame
      PROVE  RegAllocInv'
  <2>1. /\ phase = "body" /\ phase' = "body" /\ arriving # <<>> /\ Head(arriving).reg = NoReg
        /\ arriving' = Tail(arriving) /\ written' = written \cup {Head(arriving).value}
        /\ UNCHANGED <<global, permanent>> /\ need' = need /\ passed' = passed
        /\ gen' = FrameRecorded(global, gen, Head(arriving).value)
    BY <1>4 DEF IncomingFrame, FrameRecorded, HasGlobal
  <2>2. InBody(global, permanent, gen', need, Tail(arriving), written \cup {Head(arriving).value}, passed)
    BY <1>0, <2>1, FrameKeeps
  <2> QED
    BY <1>0, <1>1, <2>1, <2>2 DEF RegAllocInv
<1>5. ASSUME SetOutgoing
      PROVE  RegAllocInv'
  <2>1. /\ phase = "body" /\ phase' = "body" /\ arriving = <<>> /\ arriving' = arriving
        /\ UNCHANGED <<global, permanent>> /\ written' = written
    BY <1>5 DEF SetOutgoing
  <2>2. PICK r \in Outgoing, v \in Values :
          /\ passed[r] = NoValue /\ (v \in Slots => need[v] = "used")
          /\ \E after \in Afters({v} \cap Slots, FALSE) : need' = Becomes(need, after)
          /\ gen' = [LeaveOutgoing(gen, r, v) EXCEPT !.inhibit = @ \cup {r}]
          /\ passed' = [passed EXCEPT ![r] = v]
    BY <1>5 DEF SetOutgoing
  <2>3. PICK after \in Afters({v} \cap Slots, FALSE) : need' = Becomes(need, after)
    BY <2>2
  <2>4. after \in [{v} \cap Slots -> {"used", "live", "dead"}]
    BY <2>3, AfterType
  <2>5. InBody(global, permanent, gen, need, arriving, written, passed)
    BY <1>0, <2>1
  <2> DEFINE h == [LeaveOutgoing(gen, r, v) EXCEPT !.inhibit = @ \cup {r}]
  <2> HIDE DEF h
  <2>6. InBody(global, permanent, h, Becomes(need, after), arriving, written, [passed EXCEPT ![r] = v])
    BY <1>0, <2>1, <2>2, <2>4, <2>5, OutgoingKeeps DEF h
  <2>7. InBody(global, permanent, gen', need', arriving, written, passed')
    BY <2>2, <2>3, <2>6 DEF h
  <2>8. need' \in Needs
    BY <2>7 DEF InBody
  <2> QED
    BY <1>1, <2>1, <2>7, <2>8 DEF RegAllocInv
<1>6. ASSUME BeginInsn
      PROVE  RegAllocInv'
  <2>1. /\ phase = "body" /\ arriving = <<>> /\ arriving' = arriving
        /\ UNCHANGED <<global, permanent>> /\ need' = need /\ passed' = passed
    BY <1>6 DEF BeginInsn
  <2>2. PICK form \in Forms : \E args \in Arguments(form) :
          LET sets == IF form.ternary THEN {} ELSE {args[0]} \cap Slots
          IN /\ form.name # "incoming"
             /\ \A r \in Outgoing : passed[r] # NoValue => form.name = "set_param"
             /\ \E after \in Afters({args[i] : i \in 0 .. 2} \cap Slots, form.branch) :
                   /\ \A v \in sets : after[v] # "dead"
                   /\ Begin(gen, form, args, after)
             /\ written' = written \cup sets
    BY <1>6 DEF BeginInsn
  <2>3. PICK args \in Arguments(form) :
          LET sets == IF form.ternary THEN {} ELSE {args[0]} \cap Slots
          IN /\ form.name # "incoming"
             /\ \A r \in Outgoing : passed[r] # NoValue => form.name = "set_param"
             /\ \E after \in Afters({args[i] : i \in 0 .. 2} \cap Slots, form.branch) :
                   /\ \A v \in sets : after[v] # "dead"
                   /\ Begin(gen, form, args, after)
             /\ written' = written \cup sets
    BY <2>2
  <2> DEFINE sets == IF form.ternary THEN {} ELSE {args[0]} \cap Slots
             touched == {args[i] : i \in 0 .. 2} \cap Slots
  <2>4. PICK after \in Afters(touched, form.branch) :
                   /\ \A v \in sets : after[v] # "dead"
                   /\ Begin(gen, form, args, after)
    BY <2>3
  <2>5. /\ form.name # "incoming" /\ written' = written \cup sets
        /\ \A r \in Outgoing : passed[r] # NoValue => form.name = "set_param"
    BY <2>3
  <2>6. after \in [touched -> {"used", "live", "dead"}]
    <3> HIDE DEF touched
    <3> QED
      BY <2>4, AfterType
  <2>7. /\ args \in [0 .. 2 -> Values \cup {NoValue}]
        /\ form.ternary \/ args[0] = NoValue \/ args[0] \in Slots
        /\ \A j \in 0 .. 2 : /\ form.operands[j].kind = "none" => args[j] = NoValue
                             /\ form.operands[j].kind = "frame" => args[j] \in Slots /\ ~HasGlobal(args[j])
                             /\ form.operands[j].kind # "none" => args[j] \in Values
        /\ \A j \in 0 .. 2 : (j > 0 \/ form.ternary) /\ args[j] \in Slots => need[args[j]] = "used"
    <3> DEFINE Read(w)   == w \in Slots => need[w] = "used"
               OnFrame(w) == w \in Slots /\ ~HasGlobal(w)
               Fit(i)  == CASE form.operands[i].kind = "none"  -> {NoValue}
                            [] form.operands[i].kind = "frame" -> {w \in Values : OnFrame(w) /\ Read(w)}
                            [] OTHER -> {w \in Values : i > 0 \/ form.ternary => Read(w)}
               Settable(d, inputs) == d \in Slots /\ (need[d] = "dead" \/ (~form.copy /\ d \in inputs))
    <3>1. /\ args \in [0 .. 2 -> Values \cup {NoValue}]
          /\ \A i \in 0 .. 2 : args[i] \in Fit(i)
          /\ form.ternary \/ args[0] = NoValue \/ Settable(args[0], {args[1], args[2]})
      BY <2>3 DEF Arguments
    <3>2. ASSUME NEW i \in 0 .. 2
          PROVE  /\ form.operands[i].kind = "none" => args[i] = NoValue
                 /\ form.operands[i].kind = "frame" => OnFrame(args[i]) /\ Read(args[i])
                 /\ form.operands[i].kind # "none" => args[i] \in Values
                 /\ (i > 0 \/ form.ternary) /\ args[i] # NoValue => Read(args[i])
      <4> HIDE DEF Read, OnFrame
      <4>1. CASE form.operands[i].kind = "none"
        BY <3>1, <4>1
      <4>2. CASE form.operands[i].kind = "frame"
        <5>1. Fit(i) = {w \in Values : OnFrame(w) /\ Read(w)}
          BY <4>2
        <5> QED
          BY <3>1, <4>2, <5>1
      <4>3. CASE form.operands[i].kind \notin {"none", "frame"}
        <5>1. Fit(i) = {w \in Values : i > 0 \/ form.ternary => Read(w)}
          BY <4>3
        <5> QED
          BY <3>1, <4>3, <5>1
      <4> QED
        BY <4>1, <4>2, <4>3
    <3> QED
      BY <3>1, <3>2, NoRegApart
  <2>8. sets \subseteq Slots /\ (sets = {} \/ (~form.ternary /\ sets \subseteq {args[0]}))
    OBVIOUS
  <2>9. form.ternary \/ args[0] = NoValue \/ (args[0] \in sets /\ args[0] \in Slots)
    BY <2>7
  <2> HIDE DEF sets
  <2>10. Arriving(arriving) = {}
    BY <2>1 DEF Arriving
  <2>11. Supplied(global, need, arriving, written \cup sets, passed, form, args, after)
    <3>1. form.ternary \/ args[0] = NoValue \/ (args[0] \in (written \cup sets) \cap Slots /\ after[args[0]] # "dead")
      BY <2>4, <2>9
    <3> QED
      BY <2>1, <2>5, <2>6, <2>7, <2>10, <3>1 DEF Supplied, HasGlobal
  <2>12. /\ Emitted(global, permanent, gen', need, regs', arriving, written \cup sets, passed)
         /\ phase' = "ready"
    <3> HIDE DEF touched
    <3>1. InBody(global, permanent, gen, need, arriving, written, passed)
      BY <1>0, <2>1
    <3> QED
      BY <1>0, <2>4, <2>5, <2>8, <2>11, <3>1, BeginKeeps
  <2>13. Emitted(global, permanent, gen', need, regs', arriving', written', passed)
    BY <2>1, <2>5, <2>12
  <2>14. Emitted(global, permanent, gen, need, regs, arriving, written, passed)'
    BY <2>1, <2>13, EmittedNext
  <2> QED
    BY <1>0, <1>1, <2>1, <2>12, <2>14 DEF RegAllocInv
<1>7. ASSUME EndInsn
      PROVE  RegAllocInv'
  <2>1. /\ phase = "ready" /\ CanGenerate(regs) /\ phase' \in {"body", "ended"}
        /\ gen' = Commit(Execute(gen, regs), regs) /\ need' = Becomes(need, regs.after)
        /\ UNCHANGED <<global, permanent, arriving, passed, written>>
    BY <1>7 DEF EndInsn
  <2>2. IsReady(global, permanent, gen, Becomes(need, regs.after), regs, arriving, written, passed)
    BY <1>0, <2>1 DEF Emitted, CanGenerate
  <2>3. InBody(global, permanent, Commit(Execute(gen, regs), regs), Becomes(need, regs.after), arriving, written, passed)
    BY <1>0, <2>2, EndKeeps
  <2>4. need' \in Needs
    BY <2>1, <2>2 DEF IsReady
  <2> QED
    BY <1>1, <2>1, <2>3, <2>4 DEF RegAllocInv
<1>8. ASSUME EndBlock
      PROVE  RegAllocInv'
  <2>1. /\ phase \in {"body", "ended"} /\ arriving = <<>> /\ phase' = "between"
        /\ \A v \in Slots : need[v] = IF v \in Temporaries THEN "dead" ELSE "live"
        /\ gen' = SpillRegisters(gen, Regs \ permanent)
        /\ UNCHANGED <<global, permanent>> /\ need' = need /\ written' = written /\ passed' = passed
    BY <1>8 DEF EndBlock
  <2>2. IsBetween(global, gen', written, passed)
    BY <1>0, <2>1, BlockEnds
  <2> QED
    BY <1>0, <1>1, <2>1, <2>2 DEF RegAllocInv
<1>9. ASSUME UNCHANGED vars
      PROVE  RegAllocInv'
  <2>1. /\ UNCHANGED <<global, permanent, gen, need, phase, regs, arriving, passed, written>>
    BY <1>9 DEF vars
  <2>2. phase = "ready" => Emitted(global, permanent, gen, need, regs, arriving, written, passed)'
    <3> SUFFICES ASSUME phase = "ready"
                 PROVE  Emitted(global, permanent, gen, need, regs, arriving, written, passed)'
      OBVIOUS
    <3>1. Emitted(global, permanent, gen', need, regs', arriving', written', passed)
      BY <1>0, <2>1
    <3> QED
      BY <2>1, <3>1, EmittedNext
  <2> QED
    BY <1>0, <1>1, <2>1, <2>2 DEF RegAllocInv
<1> QED
  BY <1>2, <1>3, <1>4, <1>5, <1>6, <1>7, <1>8, <1>9 DEF Next

\* The allocator never loses track of a value.
THEOREM RegAllocInvariant == ASSUME Faults = {} PROVE Spec => []RegAllocInv
<1>1. Init => RegAllocInv
  BY InitInv
<1>2. RegAllocInv /\ [Next]_vars => RegAllocInv'
  BY NextInv
<1> QED
  BY <1>1, <1>2, PTL DEF Spec

\* Every operand is in the register or the frame that the instruction reads it from: each load of
\* _jit_gen_load_value takes the value from a place that holds it.
THEOREM LoadsAreRight == ASSUME Faults = {} PROVE Spec => []LoadsRight
<1>1. RegAllocInv => LoadsRight
  <2> SUFFICES ASSUME RegAllocInv, phase = "body", NEW v \in Slots \ Arriving(arriving), need[v] = "used"
               PROVE  v \in Source(gen, v)
    BY DEF LoadsRight
  <2>1. Believed(global, gen, need, Slots \ Arriving(arriving), written)
    BY DEF RegAllocInv, InBody
  <2>2. Right(global, gen, v) /\ Readable(global, gen, v)
    BY <2>1 DEF Believed, Readable
  <2> QED
    BY <2>2, SourceRight
<1> QED
  BY <1>1, RegAllocInvariant, PTL

\* No instruction changes a register that an argument of the coming call has been put into.
THEOREM ArgumentsStay == ASSUME Faults = {} PROVE Spec => []ArgumentsKept
<1>1. RegAllocInv => ArgumentsKept
  BY DEF RegAllocInv, ArgumentsKept, IsBetween
<1> QED
  BY <1>1, RegAllocInvariant, PTL

\* At the end of a block every value that is live there is in its global register or its frame, where the
\* next block looks for it.
THEOREM ValuesAtHome == ASSUME Faults = {} PROVE Spec => []HomeAtExit
<1>1. RegAllocInv => HomeAtExit
  <2> SUFFICES ASSUME RegAllocInv, NEW v \in Slots \ Temporaries
               PROVE  /\ phase = "between" => AtHome(v)
                      /\ phase = "ready" /\ CanGenerate(regs) /\ regs.form.branch =>
                            (Becomes(need, regs.after)[v] = "live" => AtHome(v))
    BY DEF HomeAtExit
  <2>1. phase = "between" => Home(global, gen, v)
    BY DEF RegAllocInv, IsBetween
  <2>2. phase = "ready" /\ CanGenerate(regs) =>
           IsReady(global, permanent, gen, Becomes(need, regs.after), regs, arriving, written, passed)
    BY DEF RegAllocInv, Emitted, CanGenerate
  <2>3. phase = "ready" /\ CanGenerate(regs) /\ regs.form.branch =>
           (Becomes(need, regs.after)[v] = "live" => Home(global, gen, v))
    BY <2>2 DEF IsReady
  <2> QED
    BY <2>1, <2>3 DEF Home, AtHome, HasGlobal
<1> QED
  BY <1>1, RegAllocInvariant, PTL

\* When an instruction for which registers were found is emitted, each of its inputs is in the register
\* that its rule reads, or in its frame; the result is where the rule writes it, apart from the inputs
\* if it is written early.  Whether registers are found depends on how many there are.
THEOREM InputsAreReady == ASSUME Faults = {} PROVE Spec => [](RegistersFound => InputsReady)
<1>1. RegAllocInv => (RegistersFound => InputsReady)
  <2> SUFFICES ASSUME RegAllocInv, RegistersFound, phase = "ready"
               PROVE  /\ \A i \in Inputs(regs) \cap Given(regs) : regs.descs[i].value \in gen.holds[regs.descs[i].reg]
                      /\ \A v \in regs.memory : v \in gen.slot[v]
                      /\ ~regs.ternary /\ 0 \in Given(regs) =>
                            /\ ~regs.free => regs.descs[0].reg = regs.descs[1].reg
                            /\ regs.descs[0].early =>
                                  \A i \in Inputs(regs) \cap Given(regs) : regs.descs[i].reg # regs.descs[0].reg
    BY DEF InputsReady
  <2>1. /\ ResultPlace(global, permanent, gen, regs)
        /\ \A i \in Operands(regs) : Val(regs, i) \in gen.holds[Reg(regs, i)]
        /\ \A v \in regs.memory : v \in gen.slot[v]
    BY DEF RegAllocInv, Emitted, CanGenerate, RegistersFound
  <2> QED
    BY <2>1 DEF ResultPlace, Operands, Val, Reg, Output
<1> QED
  BY <1>1, RegAllocInvariant, PTL
=============================================================================
