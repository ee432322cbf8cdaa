------------------------------ MODULE RegAlloc ------------------------------
(***************************************************************************)
(* Register allocation inside a basic block (jit-reg-alloc.c), as the      *)
(* rules that tools/gen-rules-parser.y generates drive it and as           *)
(* compile_block of jit-function.c runs the blocks of a function.  What    *)
(* the allocator believes (which value is in which register, in its frame  *)
(* slot, in its global register) is modelled beside what the code it emits *)
(* really leaves there: holds[r] is the set of the values whose current    *)
(* content register r has, and slot[v] that of the frame slot of v.  Words *)
(* only: the x87 register stack and the register pairs of 32 bit machines  *)
(* are left out, and used_for_temp, which nothing reads.                   *)
(***************************************************************************)
EXTENDS Integers, FiniteSets, Sequences, SequencesExt

CONSTANTS
    Regs,          \* the registers, numbered in allocation order
    GlobalRegs,    \* those a value may keep through the whole function
    CallUsed,      \* those a called function may change
    ValueList,     \* the values of the function, in the order of its pool
    Constants,     \* those that are constants
    Temporaries,   \* those that no other block uses
    Counts,        \* the usage counts that are tried for the others
    Forms,         \* the forms of instruction, as the rules give them
    Arrivals,      \* the incoming values a block may begin with
    Outgoing,      \* the registers arguments are passed in
    MaxRegValues,  \* JIT_MAX_REG_VALUES
    MinUsed,       \* JIT_MIN_USED
    MaxInsns,      \* the bound on the instructions of a block
    Faults         \* which of these an execution may run into: "order", a value
                   \* with a global register read in a block that is compiled
                   \* before all that set it; "shared", two different values in
                   \* one register that is overwritten; "moved", a value taken
                   \* for its global register that is in another one; "home", an
                   \* operand loaded into the global register of the result
                   \* whose old value is read after it; "class", a register a
                   \* call changes that is not counted among the clobbered ones

VARIABLES
    global,     \* the global register of a value, NoReg if it has none
    permanent,  \* gen->permanent: the registers the allocator may not use freely
    gen,        \* the rest of the generation context, and the machine
    need,       \* what the rest of the block makes of each value
    phase,      \* "between" blocks, "body", or "ready" to emit an instruction
    regs,       \* the assignment of the instruction, while it is ready
    arriving,   \* the incoming values that have not been recorded yet
    passed,     \* the argument each outgoing register has been given
    written,    \* the values that some block compiled so far sets
    count       \* the number of instructions of the block so far

vars == <<global, permanent, gen, need, phase, regs, arriving, passed, written, count>>

NoReg   == -1
NoValue == "none"
Values  == ToSet(ValueList)
Slots   == Values \ Constants

\* Costs (jit-reg-alloc.c:57-72).
TooMuch == 1000000
Cost    == [copy |-> 4, dirty |-> 16, dirty_global |-> 4, clean |-> 1, bias |-> 2, thrash |-> 100]

\* The operands as the rules of jit-rules-x86-64.ins give them.  Pinned registers
\* and those an instruction clobbers are of the ones a call changes; only the
\* first operand of an instruction is destroyed.  A rule without an operand for
\* the result (~free) puts it where its first operand is.  The rules that write
\* their result to the frame are left out.
OperandRight(d) ==
    /\ d.kind \in {"none", "reg", "local", "frame"} /\ d.class \in Seq(Regs)
    /\ d.fixed \in CallUsed \cup {NoReg} /\ d.clobber \in {"no", "late", "early"}
Untied(d) == d.fixed = NoReg /\ d.clobber = "no"
Plain(f)  == f.scratch = <<>> /\ f.clobbers = <<>>
InputsRight(f) ==
    LET d == f.operands
    IN /\ d[2].clobber = "no" /\ (d[1].fixed # NoReg => d[1].fixed # d[2].fixed)
       /\ f.ternary => \A i \in 0 .. 2 : /\ d[i].clobber = "no"
                                         /\ i > 0 /\ d[0].fixed # NoReg => d[0].fixed # d[i].fixed
       /\ f.commutative => Untied(d[1]) /\ Untied(d[2])
ResultRight(f) ==
    LET d == f.operands
    IN /\ d[0].kind \in {"none", "reg"} /\ (d[0].kind = "reg" => ~f.branch)
       /\ ~f.free /\ d[0].kind = "reg" => d[1].kind = "reg" /\ Untied(d[0]) /\ d[2].fixed \notin ToSet(d[0].class)
       /\ f.copy => Plain(f) /\ ~f.free /\ d[0].kind = "reg" /\ d[2].kind = "none" /\ d[1].clobber = "no"
       /\ d[0].clobber = "early" => \A i \in 0 .. 2 : d[i].fixed = NoReg
ScratchRight(f) ==
    /\ f.clobbers \in Seq(CallUsed) /\ f.scratch \in Seq([class : Seq(Regs), fixed : CallUsed \cup {NoReg}])
    /\ Len(f.scratch) <= 2
FormRight(f) ==
    LET d == f.operands
    IN /\ {f.ternary, f.free, f.copy, f.commutative, f.branch} \subseteq BOOLEAN
       /\ f.ternary => ~f.copy /\ ~f.commutative
       /\ DOMAIN d = 0 .. 2 /\ d[0].kind # "frame" /\ \A i \in 0 .. 2 : OperandRight(d[i])
       /\ InputsRight(f) /\ ScratchRight(f) /\ (~f.ternary => ResultRight(f))
       /\ f.name = "incoming" => /\ ~f.ternary /\ ~f.branch /\ Plain(f) /\ d[0].kind = "none" /\ d[2].kind = "none"
                                 /\ d[1].kind = "reg" /\ Untied(d[1]) /\ ToSet(d[1].class) = Regs
       /\ f.name = "set_param" => /\ ~f.ternary /\ Plain(f) /\ d[0].kind = "none"
                                  /\ Untied(d[1]) /\ Untied(d[2])

\* Parameters arrive in registers that a call changes, each once.
ArrivalRight(list) ==
    /\ list \in Seq([value : Slots, reg : CallUsed \cup {NoReg}])
    /\ \A j, k \in DOMAIN list : list[j].value = list[k].value => j = k

ASSUME RegAllocAssumption ==
    /\ Regs \subseteq Nat /\ IsFiniteSet(Regs) /\ GlobalRegs \subseteq Regs \ CallUsed /\ CallUsed \subseteq Regs
    /\ Outgoing \subseteq CallUsed
    /\ ValueList \in Seq(Values) /\ NoValue \notin Values
    /\ Constants \subseteq Values /\ Temporaries \subseteq Slots /\ Counts \subseteq [Slots \ Temporaries -> Nat]
    /\ MaxRegValues \in Nat \ {0} /\ MaxInsns \in Nat
    /\ Faults \subseteq {"order", "shared", "moved", "home", "class"}
ASSUME FormsAssumption   == \A f \in Forms : FormRight(f)
ASSUME ArrivalAssumption == \A list \in Arrivals : ArrivalRight(list)
ASSUME IncomingAssumption == \E f \in Forms : f.name = "incoming"

----------------------------------------------------------------------------
\* What a gen is made of: contents[r] the values listed under r, in_reg the
\* register of a value, in_frame and in_global the values of which there is a
\* copy there, age[r] the place of r among the registers in the order in which
\* they were last bound (0 if it was not since the block began), inhibit the
\* outgoing registers; holds and slot are the machine.

Owner(r)     == {v \in Values : global[v] = r}
HasGlobal(v) == global[v] # NoReg

\* The ages without that of r, and with r as the latest.
Untouched(g, r) == [q \in Regs |-> IF q = r THEN 0
                                   ELSE IF g.age[r] \in 1 .. g.age[q] THEN g.age[q] - 1 ELSE g.age[q]]
Touched(g, r)   == [Untouched(g, r) EXCEPT ![r] = 1 + Cardinality({q \in Regs \ {r} : g.age[q] # 0})]

\* bind_temporary: the register is no longer any value's.
BindTemporary(g, r) == [g EXCEPT !.contents[r] = {}, !.age = Untouched(g, r)]

\* A mutant of BindValue: the copy in the frame is still taken for the value.
BindValue_KeepsFrame(g, v, r, still_in_frame) ==
    IF global[v] = r
    THEN [g EXCEPT !.in_reg[v] = NoReg, !.in_global = @ \cup {v}]
    ELSE [g EXCEPT !.contents[r] = @ \cup {v},
                   !.age = Touched(g, r),
                   !.in_reg[v] = r,
                   !.in_frame = IF still_in_frame /\ ~HasGlobal(v) THEN @ \cup {v} ELSE @]

\* bind_value.
BindValue(g, v, r, still_in_frame) ==
    IF global[v] = r
    THEN [g EXCEPT !.in_reg[v] = NoReg, !.in_global = @ \cup {v}]
    ELSE LET in(flag) == IF still_in_frame /\ v \notin Constants THEN flag \cup {v} ELSE flag \ {v}
         IN [g EXCEPT !.contents[r] = @ \cup {v},
                      !.age = Touched(g, r),
                      !.in_reg[v] = r,
                      !.in_global = IF HasGlobal(v) THEN in(@) ELSE @,
                      !.in_frame  = IF HasGlobal(v) THEN @ ELSE in(@)]

\* unbind_value and free_value, of every value of vs.
FreeValues(g, vs) ==
    [g EXCEPT !.contents = [r \in Regs |-> @[r] \ {v \in vs : g.in_reg[v] = r}],
              !.in_reg   = [v \in Values \cup {NoValue} |-> IF v \in vs THEN NoReg ELSE @[v]]]

\* save_value, of those of vs that are in a register: the dirty ones are written
\* to the global register or the frame slot.
SaveValues(g, vs) ==
    LET bound == {v \in vs \ Constants : g.in_reg[v] # NoReg}
        moved == {v \in bound : HasGlobal(v) /\ v \notin g.in_global}
        saved == {v \in bound : ~HasGlobal(v) /\ v \notin g.in_frame}
    IN [g EXCEPT !.holds = [q \in Regs |-> IF \E v \in moved : global[v] = q
                                           THEN g.holds[g.in_reg[CHOOSE v \in moved : global[v] = q]]
                                           ELSE @[q]],
                 !.slot  = [v \in Slots |-> IF v \in saved THEN g.holds[g.in_reg[v]] ELSE @[v]],
                 !.in_global = @ \cup moved,
                 !.in_frame  = @ \cup saved]

\* A mutant of SpillRegisters: the values are saved and stay in the registers.
SpillRegisters_Saves(g, rset) == SaveValues(g, UNION {g.contents[r] : r \in rset})

\* spill_register, of every register of a set: what one of them writes, a global
\* register or a frame slot, no other one reads.
SpillRegisters(g, rset) ==
    LET vs == UNION {g.contents[r] : r \in rset}
    IN FreeValues(SaveValues(g, vs), vs)

\* _jit_gen_load_value: from the register, the global register, or the frame.
\* It is what a load of v would put into the register.
Source(g, v) == CASE v \in Constants       -> {v}
                  [] v \notin Constants /\ g.in_reg[v] # NoReg -> g.holds[g.in_reg[v]]
                  [] v \notin Constants /\ g.in_reg[v] = NoReg /\ v \in g.in_global -> g.holds[global[v]]
                  [] OTHER -> g.slot[v]
EmitLoad(g, r, v) == [g EXCEPT !.holds[r] = Source(g, v)]

----------------------------------------------------------------------------
\* What an instruction makes of the registers.

Inputs(rs) == IF rs.ternary THEN 0 .. 2 ELSE 1 .. 2
Given(rs)  == {i \in 0 .. 2 : rs.descs[i].value # NoValue}

ValuesEqual(g, d1, d2) ==
    /\ d1.value # NoValue /\ d2.value # NoValue
    /\ \/ d1.value = d2.value
       \/ g.in_reg[d1.value] # NoReg /\ g.in_reg[d1.value] = g.in_reg[d2.value]

\* value_usage.
Usage(rs, v) ==
    LET As(d) == CASE d.used -> {"INPUT", "LIVE", "USED"}
                   [] ~d.used /\ d.live -> {"INPUT", "LIVE"}
                   [] OTHER -> {"INPUT", "DEAD"}
    IN (UNION {As(rs.descs[i]) : i \in {j \in Inputs(rs) : rs.descs[j].value = v}})
       \cup (IF v \in Constants \/ (~rs.ternary /\ rs.descs[0].value = v) THEN {"DEAD"} ELSE {})

\* is_register_alive.
Alive(g, rs, r) ==
    IF r \in permanent
    THEN rs.ternary \/ rs.descs[0].value = NoValue \/ global[rs.descs[0].value] # r
    ELSE \E v \in g.contents[r] : "DEAD" \notin Usage(rs, v)

\* clobbers_register.
Clobbers(g, rs, i, r) ==
    LET d     == rs.descs[i]
        dest  == rs.descs[0]
        first == rs.descs[1]
        reg   == IF Alive(g, rs, r) THEN {"REG"} ELSE {}
        coalesced == /\ rs.copy /\ first.value # NoValue /\ g.in_reg[first.value] = r
                     /\ \/ g.in_reg[dest.value] = r
                        \/ Cardinality(g.contents[r]) < MaxRegValues
                        \/ ~(first.used \/ first.live)
        input == IF rs.ternary \/ dest.value = NoValue THEN d.clobber
                 ELSE ~rs.copy /\ (r = dest.reg \/ d.clobber)
    IN CASE d.value = NoValue -> {}
         [] d.value # NoValue /\ i = 0 /\ ~rs.ternary -> IF coalesced THEN {} ELSE reg
         [] OTHER -> IF ~input /\ r \in {global[d.value], g.in_reg[d.value]} THEN {}
                     ELSE reg \cup (IF input THEN {"INPUT_VALUE"} ELSE {})

\* compute_spill_cost.
SpillCost(g, rs, r) ==
    LET spilled == {v \in g.contents[r] : LET usage == Usage(rs, v)
                                          IN "DEAD" \notin usage /\ ("LIVE" \in usage => "USED" \in usage)}
        clean   == {v \in spilled : v \in IF HasGlobal(v) THEN g.in_global ELSE g.in_frame}
        homed   == {v \in spilled \ clean : HasGlobal(v)}
    IN Cardinality(clean) * Cost.clean + Cardinality(homed) * Cost.dirty_global
         + Cardinality(spilled \ (clean \cup homed)) * Cost.dirty

\* thrashes_value: taking r for the input d would destroy another input.
Thrashes(g, d, r, other) == g.in_reg[other.value] = r /\ ~ValuesEqual(g, d, other)

\* The register of the class that costs least, and of those the oldest; the cost
\* of a register that may not be used is negative.  The first in the order of
\* the class gives way only to an older one that values are bound to.
Cheapest(g, class, costs) ==
    LET usable == {k \in DOMAIN class : costs[class[k]] \in 0 .. TooMuch - 1}
        least  == {k \in usable : \A j \in usable : costs[class[k]] <= costs[class[j]]}
        first  == class[CHOOSE k \in least : \A j \in least : k <= j]
        older  == {r \in {class[k] : k \in least} : g.contents[r] # {} /\ g.age[r] < g.age[first]}
    IN CASE least = {} -> NoReg
         [] least # {} /\ older = {} -> first
         [] OTHER -> CHOOSE r \in older : \A q \in older : g.age[r] <= g.age[q]

----------------------------------------------------------------------------
\* Assignment: _jit_regs_assign and the functions it calls.

\* set_regdesc_register.
SetRegister(rs, i, r) ==
    IF r = NoReg THEN rs
    ELSE [rs EXCEPT !.descs[i].reg = r,
                    !.assigned = IF i > 0 \/ rs.ternary \/ rs.descs[0].early THEN @ \cup {r} ELSE @]

\* choose_output_register.
OutputCost(g, rs, r) ==
    LET d     == rs.descs
        dest  == d[0].value
        Is(i) == d[i].value = dest
        In(i) == d[i].value # NoValue /\ g.in_reg[d[i].value] = r
        spill == IF r \in rs.clobber THEN 0 ELSE SpillCost(g, rs, r)
        bias  == IF HasGlobal(dest) THEN Cost.bias ELSE 0
        \* the cost in the global register of the value itself
        home  == CASE rs.free -> IF d[0].early /\ dest \in g.in_global /\ (Is(1) \/ Is(2)) THEN -1 ELSE 0
                   [] ~rs.free /\ dest \notin g.in_global -> Cost.copy
                   [] ~rs.free /\ dest \in g.in_global /\ Is(1) -> 0
                   [] ~rs.free /\ dest \in g.in_global /\ ~Is(1) /\ Is(2) ->
                          IF rs.commutative THEN 0 ELSE -1
                   [] OTHER -> Cost.copy
        local == CASE rs.free -> IF d[0].early /\ (In(1) \/ In(2)) THEN -1 ELSE 0
                   [] ~rs.free /\ In(1) -> 0
                   [] ~rs.free /\ ~In(1) /\ In(2) -> IF rs.commutative THEN 0 ELSE Cost.thrash
                   [] OTHER -> Cost.copy
    IN CASE r \in g.inhibit -> -1
         [] r \notin g.inhibit /\ r \in permanent ->
                IF global[dest] # r \/ home < 0 THEN -1 ELSE home + spill
         [] OTHER -> IF local < 0 THEN -1 ELSE local + bias + spill
ChooseOutput(g, rs) ==
    LET costs == [r \in ToSet(rs.descs[0].class) |-> OutputCost(g, rs, r)]
    IN SetRegister(rs, 0, Cheapest(g, rs.descs[0].class, costs))

\* choose_input_order: the second operand of a commutative operation is taken
\* for the first if it is already where the result goes.
InputOrder(g, rs) ==
    LET second == rs.descs[2].value
        there  == /\ second \notin {NoValue, rs.descs[1].value}
                  /\ \/ g.in_reg[second] = rs.descs[0].reg
                     \/ second \in g.in_global /\ global[second] = rs.descs[0].reg
    IN IF there /\ rs.commutative
       THEN [rs EXCEPT !.descs[1] = rs.descs[2], !.descs[2] = rs.descs[1], !.dest_input = 1]
       ELSE [rs EXCEPT !.dest_input = IF there \/ rs.descs[1].value # NoValue THEN 1 ELSE 0]

\* choose_input_register.
InputCost(g, rs, i, r, clobber) ==
    LET d       == rs.descs[i]
        aim     == IF i = rs.dest_input THEN rs.descs[0].value ELSE d.value
        there   == (d.value \in g.in_global /\ global[d.value] = r) \/ g.in_reg[d.value] = r
        thrash  == \E j \in (0 .. 2) \ {i} : /\ j # 0 \/ rs.ternary
                                             /\ rs.descs[j].value # NoValue
                                             /\ Thrashes(g, d, r, rs.descs[j])
    IN IF r \in rs.assigned \/ ("REG" \in clobber /\ r \in permanent) THEN -1
       ELSE (IF there THEN 0 ELSE Cost.copy)
            + (IF aim # NoValue /\ HasGlobal(aim) /\ global[aim] # r THEN Cost.bias ELSE 0)
            + (IF thrash THEN Cost.thrash ELSE 0)
            + (IF "INPUT_VALUE" \in clobber /\ d.used THEN Cost.clean ELSE 0)
            + (IF "REG" \in clobber /\ r \notin rs.clobber THEN SpillCost(g, rs, r) ELSE 0)
ChooseInput(g, rs, i) ==
    LET costs == [r \in ToSet(rs.descs[i].class) |-> InputCost(g, rs, i, r, Clobbers(g, rs, i, r))]
    IN IF i \notin Given(rs) \/ rs.descs[i].reg # NoReg THEN rs
       ELSE SetRegister(rs, i, Cheapest(g, rs.descs[i].class, costs))

\* check_duplicate_value: equal inputs share a register.
ShareRegister(g, rs, i, j) ==
    IF /\ rs.descs[j].reg = NoReg /\ rs.descs[i].reg # NoReg
       /\ ValuesEqual(g, rs.descs[i], rs.descs[j])
       /\ ~rs.descs[i].early /\ ~rs.descs[j].early
    THEN [rs EXCEPT !.descs[j].reg = rs.descs[i].reg, !.descs[j].duplicate = TRUE]
    ELSE rs

\* The part of set_regdesc_flags that says what becomes of an input: where it
\* is now, unless another input is loaded there first (thrash), whether it is
\* copied, stored before the instruction, and taken from its register after it.
InputFate(g, rs, i, clobber) ==
    LET d       == rs.descs[i]
        output  == ~rs.ternary /\ rs.descs[0].value # NoValue
        renewed == ~rs.ternary /\ rs.descs[0].value = d.value
        at      == g.in_reg[d.value]
        thrash  == \E j \in (0 .. 2) \ {i} : /\ j # 0 \/ rs.ternary
                                             /\ ~ValuesEqual(g, d, rs.descs[j])
                                             /\ at # NoReg /\ at = rs.descs[j].reg
        from    == IF thrash THEN NoReg ELSE at
        copy    == from # d.reg /\ IF HasGlobal(d.value) THEN global[d.value] # d.reg ELSE from # NoReg
        kept    == d.used /\ ~renewed
        lost    == \/ ~copy /\ (d.reg \in rs.clobber \/ "INPUT_VALUE" \in clobber)
                   \/ copy /\ from # NoReg /\ (from \in rs.clobber \/ (output /\ from = rs.descs[0].reg))
        constant == d.value \in Constants
    IN [d EXCEPT !.thrash = thrash,
                 !.copy   = copy,
                 !.store  = \/ ~constant /\ IF kept THEN lost ELSE d.live /\ ~renewed
                            \/ thrash,
                 !.kill   = constant \/ ~kept \/ lost]

\* set_regdesc_flags.
Flagged(rs, i, clobber, d) ==
    LET intrude == ~d.copy /\ global[d.value] # d.reg /\ d.reg \in permanent
    IN [rs EXCEPT !.descs[i] = [d EXCEPT !.kill = @ \/ intrude],
                  !.clobber = IF "REG" \in clobber THEN @ \cup {d.reg} ELSE @]
SetFlags(g, rs, i) ==
    LET clobber == Clobbers(g, rs, i, rs.descs[i].reg)
    IN IF rs.descs[i].reg = NoReg \/ rs.descs[i].duplicate THEN rs
       ELSE Flagged(rs, i, clobber, IF i \in Inputs(rs) THEN InputFate(g, rs, i, clobber) ELSE rs.descs[i])

\* choose_scratch_register and set_scratch_register.
ScratchCost(g, rs, r) ==
    IF r \in rs.assigned \cup permanent THEN -1
    ELSE IF r \in rs.clobber THEN 0 ELSE SpillCost(g, rs, r)
SetScratch(rs, k, r) ==
    IF r = NoReg THEN rs
    ELSE [rs EXCEPT !.scratch[k] = r, !.clobber = @ \cup {r}, !.assigned = @ \cup {r}]
ChooseScratch(g, rs, k) ==
    IF k \notin DOMAIN rs.scratch \/ rs.scratch[k] # NoReg THEN rs
    ELSE LET class == rs.form.scratch[k].class
             costs == [r \in ToSet(class) |-> ScratchCost(g, rs, r)]
         IN SetScratch(rs, k, Cheapest(g, class, costs))

\* The result of an operation with two addresses goes where its first operand
\* was put, or the first operand is put where the result goes.
TieOutput(rs) == IF ~rs.ternary /\ ~rs.free /\ rs.descs[1].value # NoValue /\ rs.descs[0].reg = NoReg
                 THEN SetRegister(rs, 0, rs.descs[1].reg) ELSE rs
PlaceOutput(g, rs) ==
    CASE rs.descs[0].reg # NoReg -> rs
      [] rs.descs[0].reg = NoReg /\ rs.ternary -> ChooseInput(g, rs, 0)
      [] OTHER -> ChooseOutput(g, rs)
TieInput(rs) == IF rs.dest_input = 1 THEN SetRegister(rs, 1, rs.descs[0].reg) ELSE rs
Follow(g, rs) ==
    CASE rs.ternary -> ShareRegister(g, ShareRegister(g, rs, 0, 1), 0, 2)
      [] ~rs.ternary /\ ~rs.free /\ rs.descs[0].reg # NoReg -> TieInput(InputOrder(g, rs))
      [] OTHER -> rs
AssignOutput(g, rs) ==
    IF rs.descs[0].value = NoValue THEN rs ELSE Follow(g, PlaceOutput(g, TieOutput(rs)))

\* _jit_regs_assign.
AssignInputs(g, rs) == ChooseInput(g, ShareRegister(g, ChooseInput(g, rs, 1), 1, 2), 2)
Complete(g, rs) ==
    IF \E i \in Given(rs) : rs.descs[i].reg = NoReg THEN [rs EXCEPT !.ok = FALSE]
    ELSE SetFlags(g, SetFlags(g, SetFlags(g, ChooseScratch(g, ChooseScratch(g, rs, 1), 2), 0), 1), 2)
Assign(g, rs) == Complete(g, AssignInputs(g, AssignOutput(g, rs)))

----------------------------------------------------------------------------
\* The code before the instruction: _jit_regs_gen.

\* spill_clobbered_register, of every register of a set: an input stays in the
\* register as well.
SpillClobbered(g, rs, rset) ==
    LET vs == UNION {g.contents[r] : r \in rset}
        Has(use) == {v \in vs : use \in Usage(rs, v)}
    IN FreeValues(SaveValues(g, vs \ Has("DEAD")), vs \ Has("INPUT"))

\* A mutant of SaveInput: an input that another one overwrites is dropped.
SaveInput_Thrashed(g, rs, i) ==
    LET d == rs.descs[i]
    IN IF i \notin Given(rs) \/ ~d.store \/ g.in_reg[d.value] = NoReg THEN g
       ELSE IF d.thrash THEN FreeValues(g, {d.value}) ELSE SaveValues(g, {d.value})

\* save_input_value and free_output_value.
SaveInput(g, rs, i) ==
    LET d == rs.descs[i]
    IN IF i \notin Given(rs) \/ ~d.store \/ g.in_reg[d.value] = NoReg THEN g
       ELSE FreeValues(SaveValues(g, {d.value}), IF d.thrash THEN {d.value} ELSE {})
FreeOutput(g, rs) ==
    LET v == rs.descs[0].value
    IN IF v \in {NoValue, rs.descs[1].value, rs.descs[2].value} \/ g.in_reg[v] = NoReg THEN g
       ELSE FreeValues(g, {v})

\* load_input_value (with update_age).
LoadInput(g, rs, i) ==
    LET d      == rs.descs[i]
        home   == HasGlobal(d.value) /\ global[d.value] = d.reg /\ d.value \in g.in_global
        loaded == EmitLoad(g, d.reg, d.value)
    IN IF i \notin Given(rs) \/ d.duplicate \/ home THEN g
       ELSE IF g.in_reg[d.value] = d.reg THEN [g EXCEPT !.age = Touched(g, d.reg)]
       ELSE IF HasGlobal(d.value) THEN loaded
       ELSE IF g.in_reg[d.value] # NoReg THEN BindTemporary(loaded, d.reg)
       ELSE BindValue(loaded, d.value, d.reg, TRUE)

\* A clobbered register is spilled unless it is a global one, which is pushed
\* and popped around the instruction; there is no way to pop it after a branch.
Generate(g, rs) ==
    LET spilled == SpillClobbered(g, rs, rs.clobber \ permanent)
        output  == IF rs.ternary THEN SaveInput(spilled, rs, 0) ELSE FreeOutput(spilled, rs)
        saved   == SaveInput(SaveInput(output, rs, 1), rs, 2)
        loaded  == IF rs.ternary THEN LoadInput(saved, rs, 0) ELSE saved
    IN LoadInput(LoadInput(loaded, rs, 1), rs, 2)
CanGenerate(rs) == rs.ok /\ ~(rs.form.branch /\ rs.clobber \cap permanent # {})

----------------------------------------------------------------------------
\* The instruction itself, and what is recorded after it: _jit_regs_commit.

\* What the instruction does to the machine: it changes the registers of its
\* scratch operands, of the operands it says it clobbers, of the classes it
\* says it clobbers (except those pushed and popped), and of its result.
Changed(rs) ==
    (ToSet(rs.scratch) \ {NoReg})
    \cup {rs.descs[i].reg : i \in {j \in Inputs(rs) \cap Given(rs) : rs.descs[j].clobber}}
    \cup (ToSet(rs.form.clobbers) \ (rs.clobber \cap permanent))
Execute(g, rs) ==
    LET v == rs.descs[0].value
        u == rs.descs[1].value
        without == [g EXCEPT !.holds = [r \in Regs |-> IF r \in Changed(rs) THEN {} ELSE @[r]]]
        Redefined(place) == IF rs.copy /\ u \in place THEN place \cup {v} ELSE place \ {v}
        renewed == [without EXCEPT !.holds = [r \in Regs |-> Redefined(@[r])],
                                   !.slot  = [w \in Slots |-> Redefined(@[w])]]
    IN CASE v = NoValue \/ rs.ternary -> without
         [] OTHER -> IF rs.copy THEN renewed ELSE [renewed EXCEPT !.holds[rs.descs[0].reg] = {v}]

\* A mutant of CommitInput: an input that is used again stays in its register.
CommitInput_Stays(g, rs, i) ==
    LET d == rs.descs[i]
    IN IF i \in Given(rs) /\ ~d.duplicate /\ d.kill /\ ~d.used /\ g.in_reg[d.value] # NoReg
       THEN FreeValues(g, {d.value}) ELSE g

\* commit_input_value and commit_output_value.
CommitInput(g, rs, i) ==
    LET d == rs.descs[i]
    IN IF i \in Given(rs) /\ ~d.duplicate /\ d.kill /\ g.in_reg[d.value] # NoReg
       THEN FreeValues(g, {d.value}) ELSE g
CommitOutput(g, rs) ==
    LET d     == rs.descs[0]
        bound == BindValue(g, d.value, d.reg, FALSE)
        saved == IF global[d.value] = d.reg THEN bound
                 ELSE FreeValues(SaveValues(bound, {d.value}), {d.value})
    IN CASE d.used -> IF d.kill THEN saved ELSE bound
         [] ~d.used /\ d.live -> saved
         [] OTHER -> FreeValues(bound, {d.value})
Commit(g, rs) ==
    CASE rs.ternary -> CommitInput(CommitInput(CommitInput(g, rs, 0), rs, 1), rs, 2)
      [] ~rs.ternary /\ rs.descs[0].value = NoValue -> CommitInput(CommitInput(g, rs, 1), rs, 2)
      [] OTHER -> CommitOutput(CommitInput(CommitInput(g, rs, 2), rs, 1), rs)

----------------------------------------------------------------------------
\* The operands of an instruction become a regs record, as the code that
\* gen-rules-parser.y writes for a rule does it.

\* An operand is read from the frame where the rule allows it and the value is
\* neither in a register nor used again.
FromFrame(g, form, args, after, i) ==
    /\ form.operands[i].kind = "local" /\ args[i] \in Slots
    /\ g.in_reg[args[i]] = NoReg /\ ~HasGlobal(args[i]) /\ after[args[i]] # "used"
InRegister(g, form, args, after, i) ==
    \/ form.operands[i].kind = "reg"
    \/ form.operands[i].kind = "local" /\ ~FromFrame(g, form, args, after, i)

\* A mutant of Inhibited: the registers of the arguments are given to others.
Inhibited_Free(g) == {}

\* The registers that no instruction may be given before the call.
Inhibited(g) == g.inhibit

\* _jit_regs_init, then _jit_regs_init_dest, _value1 and _value2.
InitDesc(g, form, args, after, i) ==
    LET operand == form.operands[i]
        v       == IF InRegister(g, form, args, after, i) THEN args[i] ELSE NoValue
    IN [value |-> v, class |-> operand.class, reg |-> NoReg,
        live |-> v \in Slots /\ after[v] # "dead", used |-> v \in Slots /\ after[v] = "used",
        clobber |-> operand.clobber # "no", early |-> operand.clobber = "early",
        duplicate |-> FALSE, thrash |-> FALSE, store |-> FALSE, copy |-> FALSE, kill |-> FALSE]
InitRegs(g, form, args, after) ==
    [descs |-> [i \in 0 .. 2 |-> InitDesc(g, form, args, after, i)],
     scratch |-> [k \in DOMAIN form.scratch |-> NoReg],
     ternary |-> form.ternary, free |-> form.free, copy |-> form.copy,
     commutative |-> form.commutative, dest_input |-> 0, assigned |-> Inhibited(g),
     clobber |-> {}, ok |-> TRUE, form |-> form, args |-> args, after |-> after,
     memory |-> {args[i] : i \in {j \in 0 .. 2 : \/ form.operands[j].kind = "frame"
                                                 \/ FromFrame(g, form, args, after, j)}}]

\* _jit_regs_clobber_class: the test is on the position in the class, not on the
\* register there.
ClobberClass(rs, class) ==
    [rs EXCEPT !.clobber = @ \cup {class[k] : k \in {j \in DOMAIN class : j - 1 \notin permanent}}]
\* _jit_regs_clobber_all.
ClobberAll(rs) == [rs EXCEPT !.clobber = @ \cup (Regs \ permanent)]

\* The calls a rule makes before _jit_regs_begin: the registers the rule names
\* are taken first.
Describe(g, form, args, after) ==
    LET init    == InitRegs(g, form, args, after)
        Pin(i)  == IF i \in Given(init) THEN form.operands[i].fixed ELSE NoReg
        pinned  == [init EXCEPT !.descs[0].reg = Pin(0), !.descs[1].reg = Pin(1), !.descs[2].reg = Pin(2),
                                !.scratch = [k \in DOMAIN form.scratch |-> form.scratch[k].fixed]]
        inputs  == {i \in Given(init) : i > 0 \/ form.ternary \/ form.operands[0].clobber = "early"}
        taken   == {form.operands[i].fixed : i \in inputs} \ {NoReg}
        scratch == ToSet(pinned.scratch) \ {NoReg}
        class   == ClobberClass([pinned EXCEPT !.assigned = @ \cup taken \cup scratch, !.clobber = scratch],
                                form.clobbers)
    IN IF form.branch THEN ClobberAll(class) ELSE class

\* _jit_regs_force_out, of the operands that must be in the frame.
ForceOut(g, form, args) ==
    LET framed(is) == {args[i] : i \in {j \in is : form.operands[j].kind = "frame"}}
    IN FreeValues(SaveValues(g, framed(1 .. 2)), framed(0 .. 2))

\* The faults an assignment would run into.
Shares(g, rs) ==
    LET d == rs.descs
        inputs == Inputs(rs) \cap Given(rs)
        Lone(i) == d[i].duplicate /\ \A k \in inputs : d[k].duplicate \/ d[k].value # d[i].value
    IN \E i \in inputs :
          /\ Lone(i)
          /\ \/ ~rs.ternary /\ 0 \in Given(rs)
             \/ g.in_reg[d[i].value] \in Changed(rs)
             \/ \E j \in inputs : d[j].reg = g.in_reg[d[i].value] /\ ~ValuesEqual(g, d[i], d[j])
Moves(g, rs) ==
    \E i \in Inputs(rs) \cap Given(rs) :
       LET v == rs.descs[i].value
       IN HasGlobal(v) /\ rs.descs[i].reg = global[v] /\ g.in_reg[v] # NoReg
Homes(g, rs) ==
    LET v == rs.descs[0].value
    IN /\ ~rs.ternary /\ HasGlobal(v) /\ rs.descs[2].value = v /\ g.in_reg[v] = NoReg
       /\ rs.descs[1].value \notin {v, NoValue} /\ rs.descs[1].reg = global[v]
FaultsOf(g, rs) ==
    (IF Shares(g, rs) THEN {"shared"} ELSE {})
    \cup (IF Moves(g, rs) THEN {"moved"} ELSE {})
    \cup (IF Homes(g, rs) THEN {"home"} ELSE {})
    \cup (IF \E k \in DOMAIN rs.form.clobbers : k - 1 \in permanent THEN {"class"} ELSE {})

\* Up to the instruction: _jit_regs_begin.
Ready(g, rs) ==
    /\ FaultsOf(g, rs) \subseteq Faults
    /\ regs' = rs
    /\ gen' = IF CanGenerate(rs) THEN Generate(g, rs) ELSE g
    /\ phase' = "ready"
Prepare(g, form, args, after)  == Ready(g, Assign(g, Describe(g, form, args, after)))
Begin(g, form, args, after)    == Prepare(ForceOut(g, form, args), form, args, after)

----------------------------------------------------------------------------
\* _jit_regs_alloc_global: the values used most get the global registers, from
\* the last one down; earlier ones first among equals.

Candidates(uses) == {i \in DOMAIN ValueList :
                        ValueList[i] \in Slots \ Temporaries /\ uses[ValueList[i]] >= MinUsed}
Place(uses, i) ==
    LET Before(j) == \/ uses[ValueList[j]] > uses[ValueList[i]]
                     \/ uses[ValueList[j]] = uses[ValueList[i]] /\ j < i
    IN Cardinality({j \in Candidates(uses) : Before(j)})
GlobalOf(uses, try, tail) ==
    LET Above(r)  == Cardinality({q \in GlobalRegs : q > r})
        Takes(v, r) == \E i \in Candidates(uses) : ValueList[i] = v /\ Place(uses, i) = Above(r)
    IN [v \in Values \cup {NoValue} |->
           IF ~try /\ ~tail /\ \E r \in GlobalRegs : Takes(v, r)
           THEN CHOOSE r \in GlobalRegs : Takes(v, r) ELSE NoReg]

Arriving(list) == {list[k].value : k \in DOMAIN list}

Init ==
    /\ \E uses \in Counts, try \in BOOLEAN, tail \in BOOLEAN :
          /\ global = GlobalOf(uses, try, tail)
          /\ permanent = IF tail /\ ~try THEN Regs \ CallUsed ELSE {global[v] : v \in Values} \ {NoReg}
    /\ gen = [contents |-> [r \in Regs |-> {}], in_reg |-> [v \in Values \cup {NoValue} |-> NoReg],
              in_frame |-> {}, in_global |-> {}, age |-> [r \in Regs |-> 0], inhibit |-> {},
              holds |-> [r \in Regs |-> {v \in Slots : global[v] = r}],
              slot |-> [v \in Slots |-> IF HasGlobal(v) THEN {} ELSE {v}]]
    /\ need = [v \in Slots |-> IF v \in Temporaries THEN "dead" ELSE "live"]
    /\ phase = "between" /\ regs = <<>> /\ arriving = <<>> /\ written = {} /\ count = 0
    /\ passed = [r \in Outgoing |-> NoValue]

\* The next block that is compiled (_jit_regs_init_for_block): on entry every
\* value that is needed is at home, or arrives in a register.
NextBlock ==
    /\ phase = "between"
    /\ \E list \in Arrivals, uses \in [Slots \ Temporaries -> {"used", "live", "dead"}] :
          /\ \A v \in Arriving(list) \ Temporaries : uses[v] = "used"
          /\ "order" \notin Faults => \A v \in Slots \ (Temporaries \cup Arriving(list)) :
                            HasGlobal(v) /\ uses[v] = "used" => v \in written
          /\ need' = [v \in Slots |-> IF v \in Arriving(list) THEN "used"
                                       ELSE IF v \in Temporaries THEN "dead" ELSE uses[v]]
          /\ arriving' = list
          /\ LET At(r)   == {list[k].value : k \in {c \in DOMAIN list : list[c].reg = r}}
                 home(v) == need'[v] # "dead" /\ v \notin Arriving(list)
             IN gen' = [gen EXCEPT
                    !.age = [r \in Regs |-> 0], !.inhibit = {},
                    !.contents = [r \in Regs |-> IF r \in permanent THEN @[r] ELSE {}],
                    !.holds = [r \in Regs |-> At(r) \cup {v \in Owner(r) \cap Slots : home(v)}],
                    !.slot  = [v \in Slots |-> IF v \in At(NoReg) \/ (home(v) /\ ~HasGlobal(v))
                                               THEN {v} ELSE {}]]
    /\ phase' = "body" /\ passed' = [r \in Outgoing |-> NoValue] /\ count' = 0
    /\ UNCHANGED <<global, permanent, regs, written>>

\* What can become of a value after an instruction that reads or sets it.
After(v, branch) == IF v \in Temporaries THEN {"used", "dead"} \ (IF branch THEN {"used"} ELSE {})
                    ELSE IF branch THEN {"live"} ELSE {"used", "live", "dead"}
Becomes(nd, after) == [v \in Slots |-> IF v \in DOMAIN after THEN after[v] ELSE nd[v]]
Afters(vs, branch) == {after \in [vs -> {"used", "live", "dead"}] : \A v \in vs : after[v] \in After(v, branch)}

\* An incoming value is recorded in its register (_jit_regs_set_incoming), and
\* a rule that does nothing looks at its liveness.
IncomingReg ==
    /\ phase = "body" /\ arriving # <<>> /\ Head(arriving).reg # NoReg
    /\ LET v    == Head(arriving).value
           args == [i \in 0 .. 2 |-> IF i = 1 THEN v ELSE NoValue]
           note == CHOOSE form \in Forms : form.name = "incoming"
       IN \E after \in Afters({v}, FALSE) :
             Begin(BindValue(gen, v, Head(arriving).reg, FALSE), note, args, after)
    /\ arriving' = Tail(arriving) /\ written' = written \cup {Head(arriving).value}
    /\ UNCHANGED <<global, permanent, need, passed, count>>

\* JIT_OP_INCOMING_FRAME_POSN.
IncomingFrame ==
    /\ phase = "body" /\ arriving # <<>> /\ Head(arriving).reg = NoReg
    /\ LET v == Head(arriving).value
       IN gen' = IF HasGlobal(v)
                 THEN [gen EXCEPT !.in_reg[v] = NoReg, !.in_global = @ \cup {v},
                                  !.holds[global[v]] = gen.slot[v]]
                 ELSE [gen EXCEPT !.in_reg[v] = NoReg, !.in_frame = @ \cup {v}]
    /\ arriving' = Tail(arriving) /\ written' = written \cup {Head(arriving).value}
    /\ UNCHANGED <<global, permanent, need, phase, regs, passed, count>>

\* An argument is put into its register (_jit_regs_set_outgoing).
LeaveOutgoing(g, r, v) ==
    LET saved == IF v \in g.in_global \cup g.in_frame THEN g ELSE SaveValues(g, {v})
    IN IF g.in_reg[v] # r THEN EmitLoad(SpillRegisters(g, {r}), r, v)
       ELSE IF g.contents[r] = {v} THEN BindTemporary(FreeValues(saved, {v}), r)
       ELSE FreeValues(saved, {v})
SetOutgoing ==
    /\ phase = "body" /\ arriving = <<>> /\ count < MaxInsns
    /\ \E r \in Outgoing, v \in Values :
          /\ passed[r] = NoValue /\ (v \in Slots => need[v] = "used")
          /\ \E after \in Afters({v} \cap Slots, FALSE) : need' = Becomes(need, after)
          /\ gen' = [LeaveOutgoing(gen, r, v) EXCEPT !.inhibit = @ \cup {r}]
          /\ passed' = [passed EXCEPT ![r] = v]
    /\ count' = count + 1
    /\ UNCHANGED <<global, permanent, phase, regs, arriving, written>>

\* The values an instruction of this form can be given: it reads what is still
\* used, and sets what is not.
Arguments(form) ==
    LET Read(v)   == v \in Slots => need[v] = "used"
        Framed(v) == v \in Slots /\ ~HasGlobal(v)
        Fit(i)  == CASE form.operands[i].kind = "none"  -> {NoValue}
                       [] form.operands[i].kind = "frame" -> {v \in Values : Framed(v) /\ Read(v)}
                       [] OTHER -> {v \in Values : i > 0 \/ form.ternary => Read(v)}
        Settable(d, inputs) == d \in Slots /\ (need[d] = "dead" \/ (~form.copy /\ d \in inputs))
    IN {args \in [0 .. 2 -> Values \cup {NoValue}] :
           /\ \A i \in 0 .. 2 : args[i] \in Fit(i)
           /\ form.ternary \/ args[0] = NoValue \/ Settable(args[0], {args[1], args[2]})}

\* An instruction is assigned its registers, and the code before it is emitted.
\* Between the arguments of a call there are only other arguments.
BeginInsn ==
    /\ phase = "body" /\ arriving = <<>> /\ count < MaxInsns
    /\ \E form \in Forms : \E args \in Arguments(form) :
          LET sets == IF form.ternary THEN {} ELSE {args[0]} \cap Slots
          IN /\ form.name # "incoming"
             /\ \A r \in Outgoing : passed[r] # NoValue => form.name = "set_param"
             /\ \E after \in Afters({args[i] : i \in 0 .. 2} \cap Slots, form.branch) :
                   /\ \A v \in sets : after[v] # "dead"
                   /\ Begin(gen, form, args, after)
             /\ written' = written \cup sets
    /\ count' = count + 1
    /\ UNCHANGED <<global, permanent, need, arriving, passed>>

\* The instruction is emitted, and what it did is recorded (_jit_regs_end).
EndInsn ==
    /\ phase = "ready" /\ CanGenerate(regs)
    /\ gen' = Commit(Execute(gen, regs), regs)
    /\ need' = Becomes(need, regs.after)
    /\ phase' = IF regs.form.branch THEN "ended" ELSE "body"
    /\ regs' = <<>>
    /\ UNCHANGED <<global, permanent, arriving, passed, written, count>>

\* The end of the block: _jit_regs_spill_all.
EndBlock ==
    /\ phase \in {"body", "ended"} /\ arriving = <<>>
    /\ \A v \in Slots : need[v] = IF v \in Temporaries THEN "dead" ELSE "live"
    /\ gen' = SpillRegisters(gen, Regs \ permanent)
    /\ phase' = "between"
    /\ UNCHANGED <<global, permanent, need, regs, arriving, passed, written, count>>

Next == \/ NextBlock \/ IncomingReg \/ IncomingFrame \/ SetOutgoing
        \/ BeginInsn \/ EndInsn \/ EndBlock
Spec == Init /\ [][Next]_vars

----------------------------------------------------------------------------
\* Where the next block, or the target of a branch, expects a value.
AtHome(v) == IF HasGlobal(v) THEN v \in gen.holds[global[v]] ELSE v \in gen.slot[v]

\* Whatever is still used is loaded with its current content: _jit_gen_load_value
\* takes it from the register or the memory that the flags of the value point at,
\* and that place has not been changed since.
LoadsRight ==
    phase = "body" => \A v \in Slots \ Arriving(arriving) : need[v] = "used" => v \in Source(gen, v)

\* Registers are found for every instruction, and it can be emitted.
RegistersFound ==
    phase = "ready" => CanGenerate(regs) /\ NoReg \notin ToSet(regs.scratch)

\* An instruction is emitted, with each input in the register its rule names, or
\* in the frame slot it reads; the result of an operation with two addresses is
\* where its first operand is, and a result that is written early is apart from
\* the inputs.
InputsReady ==
    phase = "ready" =>
        /\ RegistersFound
        /\ \A i \in Inputs(regs) \cap Given(regs) : regs.descs[i].value \in gen.holds[regs.descs[i].reg]
        /\ \A v \in regs.memory : v # regs.args[0] \/ regs.form.ternary => v \in gen.slot[v]
        /\ ~regs.ternary /\ 0 \in Given(regs) =>
              /\ ~regs.free => regs.descs[0].reg = regs.descs[1].reg
              /\ regs.descs[0].early =>
                    \A i \in Inputs(regs) \cap Given(regs) : regs.descs[i].reg # regs.descs[0].reg

\* When control leaves the block, by a branch or at its end, every value that
\* another block may read is where that block looks for it.
HomeAtExit ==
    \A v \in Slots \ Temporaries :
        /\ phase = "between" => AtHome(v)
        /\ phase = "ready" /\ CanGenerate(regs) /\ regs.form.branch =>
              (Becomes(need, regs.after)[v] = "live" => AtHome(v))

\* The arguments of a call are still in their registers when the block ends.
ArgumentsKept ==
    phase = "between" => \A r \in Outgoing : passed[r] # NoValue => passed[r] \in gen.holds[r]
=============================================================================
