---------------------------- MODULE RegAllocParts ----------------------------
(***************************************************************************)
(* What is true of RegAlloc between its steps, in named parts: what the    *)
(* generator believes of each value and where it must be, what the         *)
(* assignment of the registers of an instruction promises to the code that *)
(* is generated for it (Assigned), what holds while the registers are      *)
(* chosen and flagged (Placed, Sound, Fated), and RegAllocInv, which every *)
(* step keeps.  RegAllocProofs proves it.                                  *)
(***************************************************************************)
EXTENDS RegAlloc

-----------------------------------------------------------------------------
\* The global registers: one value each, never one that a call changes, and
\* reserved by permanent.
StaticOK(gl, pm) ==
    /\ gl \in [Values \cup {NoValue} -> Regs \cup {NoReg}]
    /\ pm \subseteq Regs \ CallUsed
    /\ \A v \in Values \cup {NoValue} : gl[v] # NoReg => v \in Slots \ Temporaries /\ gl[v] \in pm
    /\ \A v, w \in Values \cup {NoValue} : gl[v] # NoReg /\ gl[v] = gl[w] => v = w

\* The global registers of the function, as TypeOK and the proofs speak of them.
Static == StaticOK(global, permanent)

\* The states of the generator.
Gens == [contents : [Regs -> SUBSET Values], in_reg : [Values \cup {NoValue} -> Regs \cup {NoReg}],
         in_frame : SUBSET Slots, in_global : SUBSET Slots, age : [Regs -> Nat],
         inhibit : SUBSET Regs, holds : [Regs -> SUBSET Values], slot : [Slots -> SUBSET Values]]

\* What the allocator keeps twice agrees: the values under a register and the
\* register of a value, the flags and the global registers.
GenOK(gl, g) ==
    /\ g \in Gens
    /\ \A r \in Regs : g.contents[r] = {v \in Values : g.in_reg[v] = r}
    /\ g.in_reg[NoValue] = NoReg
    /\ \A v \in g.in_global : gl[v] # NoReg
    /\ \A v \in g.in_frame : gl[v] = NoReg

\* The current content of v is at its home.
Home(gl, g, v) == IF gl[v] # NoReg THEN v \in g.holds[gl[v]] ELSE v \in g.slot[v]

\* What the allocator believes of v is so.
Right(gl, g, v) ==
    /\ g.in_reg[v] # NoReg => v \in g.holds[g.in_reg[v]]
    /\ g.in_reg[v] = NoReg => Home(gl, g, v)
    /\ v \in g.in_global => v \in g.holds[gl[v]]
    /\ v \in g.in_frame => v \in g.slot[v]

\* The allocator knows a place of v.
Readable(gl, g, v) == gl[v] # NoReg => g.in_reg[v] # NoReg \/ v \in g.in_global

\* v can be taken from its register without a loss.
Settled(gl, g, v) == IF gl[v] # NoReg THEN v \in g.in_global ELSE v \in g.slot[v]

\* No value is bound to a permanent register.
Apart(pm, g) == \A v \in Values : g.in_reg[v] \notin pm

\* What SaveValues writes: a dirty value with a global register there, another
\* one in its frame slot.
Bound(g, vs)     == {v \in vs \ Constants : g.in_reg[v] # NoReg}

\* The values that a save copies into their global registers, and those that it writes to their frames.
Moved(gl, g, vs) == {v \in Bound(g, vs) : gl[v] # NoReg /\ v \notin g.in_global}
Saved(gl, g, vs) == {v \in Bound(g, vs) : gl[v] = NoReg /\ v \notin g.in_frame}

\* The operands in registers, those of them that have a register of their own, the
\* result, the values read, and the registers that the instruction changes.
Operands(rs)  == Inputs(rs) \cap Given(rs)
Single(rs)    == {i \in Operands(rs) : ~rs.descs[i].duplicate}
Val(rs, i)    == rs.descs[i].value
Reg(rs, i)    == rs.descs[i].reg
Output(rs)    == ~rs.ternary /\ 0 \in Given(rs)
Dest(rs)      == IF Output(rs) THEN rs.descs[0].value ELSE NoValue
Reads(rs)     == {Val(rs, i) : i \in Operands(rs)}
Disturbed(rs) == Changed(rs) \cup (IF Output(rs) /\ ~rs.copy THEN {Reg(rs, 0)} ELSE {})

\* The operands.
Descs == [value : Values \cup {NoValue}, class : Seq(Regs), reg : Regs \cup {NoReg},
          live : BOOLEAN, used : BOOLEAN, clobber : BOOLEAN, early : BOOLEAN, duplicate : BOOLEAN,
          thrash : BOOLEAN, store : BOOLEAN, copy : BOOLEAN, kill : BOOLEAN]

\* Two values in one register, and a value whose register another operand takes.
Equal(g, u, v) == u = v \/ (g.in_reg[u] # NoReg /\ g.in_reg[u] = g.in_reg[v])

\* The register of v is taken by an operand that does not have the value of v.
Thrashed(g, rs, v) ==
    g.in_reg[v] # NoReg /\ \E j \in Operands(rs) : g.in_reg[v] = Reg(rs, j) /\ ~Equal(g, v, Val(rs, j))

\* What becomes of an operand is known: it is not live and used without being
\* a variable, and it is used only if it is live.
Shape(rs) ==
    /\ rs.descs \in [0 .. 2 -> Descs]
    /\ rs.ternary \in BOOLEAN /\ rs.copy \in BOOLEAN /\ rs.free \in BOOLEAN
    /\ rs.clobber \subseteq Regs
    /\ \A i \in 0 .. 2 : /\ rs.descs[i].used => rs.descs[i].live
                         /\ rs.descs[i].live => Val(rs, i) \in Slots
    /\ \A i, j \in Operands(rs) : Val(rs, i) = Val(rs, j) => rs.descs[i].live = rs.descs[j].live
                                                          /\ rs.descs[i].used = rs.descs[j].used
    /\ \A i \in Given(rs) : Reg(rs, i) \in Regs

\* Every value that is bound is a variable in a register that is not permanent.
Loose(pm, g) == \A v \in Values : g.in_reg[v] # NoReg => v \in Slots /\ g.in_reg[v] \notin pm

\* From a to b nothing is lost of the values of vs.
Preserved(gl, vs, a, b) ==
    \A w \in vs : Right(gl, a, w) => /\ Right(gl, b, w)
                                     /\ Settled(gl, a, w) => Settled(gl, b, w)
                                     /\ Readable(gl, a, w) => Readable(gl, b, w)

\* From a to b values are only stored, in their homes, and taken from registers.
Stored(gl, pm, a, b) ==
    /\ GenOK(gl, b) /\ b.inhibit = a.inhibit
    /\ \A q \in Regs \ pm : b.holds[q] = a.holds[q]
    /\ \A w \in Slots : a.in_reg[w] = NoReg => b.slot[w] = a.slot[w]
    /\ \A w \in Values : b.in_reg[w] \in {a.in_reg[w], NoReg}

\* All but the values that are taken from a register and not saved.
Untaken(g, saves, frees) == {v \in Slots : v \in frees \ saves => g.in_reg[v] = NoReg}

\* The values that are not lost when the clobbered registers are spilled: a
\* result is, unless it is read as well.
Kept(rs) == Slots \ ({Dest(rs)} \ Reads(rs))

\* What Generate has done before it loads the inputs.
Spilling(g, rs) ==
    LET spilled == SpillClobbered(g, rs, rs.clobber \ permanent)
    IN IF rs.ternary THEN spilled ELSE FreeOutput(spilled, rs)

\* The saves of _jit_regs_gen: the clobbered registers, then the inputs.
Saving(g, rs) ==
    LET base == Spilling(g, rs)
    IN SaveInput(SaveInput(IF rs.ternary THEN SaveInput(base, rs, 0) ELSE base, rs, 1), rs, 2)

\* The inputs is have been saved since base.
SavedFor(gl, pm, base, rs, a, is) ==
    /\ Stored(gl, pm, base, a)
    /\ Preserved(gl, Slots, base, a)
    /\ \A v \in Values : a.in_reg[v] = IF \E i \in is \cap Given(rs) : /\ rs.descs[i].store /\ rs.descs[i].thrash
                                                                      /\ v = Val(rs, i)
                                       THEN NoReg ELSE base.in_reg[v]
    /\ \A i \in is \cap Given(rs) :
          rs.descs[i].store /\ Val(rs, i) \in Slots /\ Right(gl, base, Val(rs, i))
             /\ base.in_reg[Val(rs, i)] # NoReg => Settled(gl, a, Val(rs, i))

\* What the loads need of the assignment, after the saves: a register that is
\* loaded holds no other value, and a load changes no place that a later one
\* reads.
Loadable(gl, pm, k, rs) ==
    /\ GenOK(gl, k) /\ Loose(pm, k)
    /\ \A i, j \in Single(rs) : i # j => Reg(rs, i) # Reg(rs, j)
    /\ \A i \in Single(rs) :
          /\ \A u \in Values : k.in_reg[u] = Reg(rs, i) => k.in_reg[Val(rs, i)] = Reg(rs, i)
          /\ gl[Val(rs, i)] = Reg(rs, i) => k.in_reg[Val(rs, i)] = NoReg /\ Val(rs, i) \in k.in_global
          /\ Reg(rs, i) \in pm => Reg(rs, i) = gl[Val(rs, i)] \/ Reg(rs, i) = gl[Dest(rs)]
    /\ \A i, j \in Single(rs) :
          i < j /\ Reg(rs, i) = gl[Dest(rs)] /\ Val(rs, j) = Dest(rs) /\ Val(rs, i) # Dest(rs)
             => k.in_reg[Dest(rs)] # NoReg

\* The operands is have been loaded since k.
Loading(gl, k, rs, m, is) ==
    /\ GenOK(gl, m) /\ m.inhibit = k.inhibit /\ m.slot = k.slot /\ m.in_global = k.in_global
    /\ \A q \in Regs : (\A i \in is : q # Reg(rs, i)) => m.holds[q] = k.holds[q]
    /\ \A i \in is : m.holds[Reg(rs, i)] = Source(k, Val(rs, i))
    /\ \A v \in Values : m.in_reg[v] # k.in_reg[v] =>
          /\ k.in_reg[v] = NoReg /\ gl[v] = NoReg
          /\ \E i \in is : Val(rs, i) = v /\ m.in_reg[v] = Reg(rs, i)
    /\ \A v \in Values : v \in m.in_frame => v \in k.in_frame \/ (k.in_reg[v] = NoReg /\ gl[v] = NoReg)

-----------------------------------------------------------------------------
\* What the assignment of registers promises to the code generator.
Duplicates(g, rs) ==
    \A i \in Operands(rs) \ Single(rs) :
       /\ ~rs.descs[i].store /\ ~rs.descs[i].thrash
       /\ \E j \in Single(rs) :
             /\ Reg(rs, j) = Reg(rs, i)
             /\ \/ Val(rs, i) = Val(rs, j)
                \/ /\ g.in_reg[Val(rs, i)] # NoReg /\ g.in_reg[Val(rs, i)] = g.in_reg[Val(rs, j)]
                   /\ ~Thrashed(g, rs, Val(rs, j))
       /\ \/ \E j \in Single(rs) : Val(rs, j) = Val(rs, i)
          \/ ~Output(rs) /\ g.in_reg[Val(rs, i)] \notin Disturbed(rs)

\* Where the operands are: registers of their own, no global register of another value, none that
\* holds an argument, and a value of the result read before it is overwritten.
Places(gl, pm, g, rs) ==
    /\ \A i, j \in Single(rs) : i # j => Reg(rs, i) # Reg(rs, j)
    /\ \A i \in Single(rs) :
          /\ Reg(rs, i) \in pm => Reg(rs, i) = gl[Val(rs, i)] \/ Reg(rs, i) = gl[Dest(rs)]
          /\ gl[Val(rs, i)] = Reg(rs, i) => g.in_reg[Val(rs, i)] = NoReg
          /\ Reg(rs, i) \notin g.inhibit
    /\ \A i, j \in Single(rs) :
          i < j /\ Reg(rs, i) = gl[Dest(rs)] /\ Val(rs, j) = Dest(rs) /\ Val(rs, i) # Dest(rs)
             => g.in_reg[Dest(rs)] # NoReg

\* Whatever is bound to a register that the instruction overwrites is spilled.
Spills(g, rs) ==
    \A w \in Values \ (Reads(rs) \cup {Dest(rs)}) :
       g.in_reg[w] \in Disturbed(rs)
          \cup {Reg(rs, i) : i \in {j \in Single(rs) : g.in_reg[Val(rs, j)] # Reg(rs, j)}}
       => g.in_reg[w] \in rs.clobber

\* What becomes of an operand: it is thrashed exactly if another operand takes its register, it is then
\* stored, it is killed if the binding ends, and it keeps no register that the instruction changes.
Fates(gl, pm, g, rs) ==
    \A i \in Single(rs) :
       LET d  == rs.descs[i]
           v  == Val(rs, i)
           at == g.in_reg[v]
       IN /\ d.thrash <=> Thrashed(g, rs, v)
          /\ d.thrash => d.store
          /\ v \in Constants \/ v = Dest(rs) \/ ~d.used => d.kill
          /\ ~d.kill /\ at # NoReg /\ ~d.thrash => at \notin Disturbed(rs)
          /\ ~d.kill /\ (at = NoReg \/ d.thrash) /\ gl[v] = NoReg => Reg(rs, i) \notin Disturbed(rs) \cup pm
          /\ v \in Slots \ {Dest(rs)} /\ d.live /\ d.kill => d.store \/ at = NoReg

\* Where the result goes.
ResultPlace(gl, pm, g, rs) ==
    Output(rs) =>
       /\ Reg(rs, 0) \in pm => Reg(rs, 0) = gl[Dest(rs)]
       /\ ~rs.descs[0].kill /\ Reg(rs, 0) \notin g.inhibit
       /\ ~rs.free => 1 \in Given(rs) /\ Reg(rs, 0) = Reg(rs, 1)
       /\ rs.copy => ~rs.free /\ 1 \in Single(rs) /\ Changed(rs) = {}
       /\ rs.descs[0].early => \A i \in Operands(rs) : Reg(rs, i) # Reg(rs, 0)

\* The registers the instruction changes.
Changes(gl, pm, g, rs) ==
    /\ Changed(rs) \cap pm \subseteq {gl[Dest(rs)]} /\ Changed(rs) \cap g.inhibit = {}
    /\ rs.form.branch => ~Output(rs) /\ Regs \ pm \subseteq rs.clobber
    /\ rs.form.name = "incoming" =>
          /\ ~Output(rs) /\ Changed(rs) = {} /\ Operands(rs) = {1}
          /\ Reg(rs, 1) = g.in_reg[Val(rs, 1)]

\* Together: what _jit_regs_assign promises to _jit_regs_gen.
Assigned(gl, pm, g, rs) ==
    /\ Shape(rs) /\ Duplicates(g, rs) /\ Places(gl, pm, g, rs) /\ Spills(g, rs)
    /\ Fates(gl, pm, g, rs) /\ ResultPlace(gl, pm, g, rs) /\ Changes(gl, pm, g, rs)

\* What an instruction finds: the values of vs are those that are live, among
\* them the ones it reads.
Context(gl, pm, g, rs, vs) ==
    /\ GenOK(gl, g) /\ Loose(pm, g) /\ Assigned(gl, pm, g, rs)
    /\ vs \subseteq Slots /\ Reads(rs) \cap Slots \subseteq vs
    /\ \A v \in vs : Right(gl, g, v)
    /\ \A v \in Reads(rs) \cap Slots : Readable(gl, g, v)

\* The binding of w ends with the instruction.
Killed(rs, w) == \E i \in Single(rs) : Val(rs, i) = w /\ rs.descs[i].kill

\* The operands is have been committed since a.
Committed(gl, rs, a, b, is) ==
    /\ GenOK(gl, b) /\ b.holds = a.holds /\ b.slot = a.slot
    /\ b.in_frame = a.in_frame /\ b.in_global = a.in_global /\ b.inhibit = a.inhibit
    /\ \A v \in Values : b.in_reg[v] = IF \E i \in is \cap Single(rs) : Val(rs, i) = v /\ rs.descs[i].kill
                                       THEN NoReg ELSE a.in_reg[v]

\* Commit, up to the result.
InputsCommitted(g, rs) ==
    IF rs.ternary THEN CommitInput(CommitInput(CommitInput(g, rs, 0), rs, 1), rs, 2)
    ELSE IF Output(rs) THEN CommitInput(CommitInput(g, rs, 2), rs, 1)
    ELSE CommitInput(CommitInput(g, rs, 1), rs, 2)

-----------------------------------------------------------------------------
\* What the rest of the block needs of each variable.
Needs == [Slots -> {"used", "live", "dead"}]

\* What is believed of the values of vs, if they are needed, is so; of one that
\* has been written a place is known.
Believed(gl, g, nd, vs, wr) ==
    \A v \in vs : /\ nd[v] # "dead" => Right(gl, g, v)
                  /\ nd[v] = "used" /\ gl[v] # NoReg => v \in wr
                  /\ v \in wr /\ nd[v] # "dead" => Readable(gl, g, v)

\* The incoming values that have not been recorded are where they arrive.
Waits(g, nd, arr, pa) ==
    /\ arr \in Seq([value : Slots, reg : CallUsed \cup {NoReg}])
    /\ \A j, k \in DOMAIN arr : arr[j].value = arr[k].value => j = k
    /\ \A k \in DOMAIN arr :
          /\ g.in_reg[arr[k].value] = NoReg /\ nd[arr[k].value] = "used"
          /\ arr[k].reg = NoReg => arr[k].value \in g.slot[arr[k].value]
          /\ arr[k].reg # NoReg => arr[k].value \in g.holds[arr[k].reg]
    /\ arr # <<>> => g.inhibit = {} /\ \A r \in Outgoing : pa[r] = NoValue

\* The arguments that have been passed are in their registers, and no other
\* register is inhibited.
Handed(g, pa) ==
    /\ pa \in [Outgoing -> Values \cup {NoValue}]
    /\ \A r \in Outgoing : pa[r] # NoValue => pa[r] \in g.holds[r] /\ r \in g.inhibit
    /\ \A r \in g.inhibit : r \in Outgoing /\ pa[r] # NoValue

\* Between two instructions of a block.
InBody(gl, pm, g, nd, arr, wr, pa) ==
    /\ GenOK(gl, g) /\ Loose(pm, g) /\ nd \in Needs /\ wr \subseteq Slots
    /\ Believed(gl, g, nd, Slots \ Arriving(arr), wr)
    /\ Waits(g, nd, arr, pa) /\ Handed(g, pa)

\* When an instruction is about to be emitted, its result has a register of its
\* own, nothing needed is in a register that it changes, and what it takes from
\* a register is at home.
ResultReady(gl, pm, g, nd, rs, wr) ==
    Output(rs) =>
       /\ Dest(rs) \in wr /\ Dest(rs) \in Slots /\ nd[Dest(rs)] # "dead"
       /\ rs.descs[0].live /\ ~rs.descs[0].kill
       /\ Reg(rs, 0) \in pm => Reg(rs, 0) = gl[Dest(rs)]
       /\ Reg(rs, 0) \notin g.inhibit
       /\ rs.copy => Val(rs, 1) \in g.holds[Reg(rs, 0)] /\ Changed(rs) = {}

\* The state between the loads of an instruction and its commit.
IsReady(gl, pm, g, nd, rs, arr, wr, pa) ==
    /\ GenOK(gl, g) /\ Shape(rs) /\ nd \in Needs /\ wr \subseteq Slots
    /\ Believed(gl, g, nd, Slots \ (Arriving(arr) \cup {Dest(rs)}), wr)
    /\ \A w \in Slots \ {Dest(rs)} : Killed(rs, w) /\ nd[w] # "dead" => Settled(gl, g, w)
    /\ \A w \in Values : g.in_reg[w] # NoReg /\ ~Killed(rs, w) =>
          w \in Slots \ {Dest(rs)} /\ g.in_reg[w] \notin pm \cup Disturbed(rs)
    /\ Changed(rs) \cap pm \subseteq {gl[Dest(rs)]} /\ Changed(rs) \cap g.inhibit = {}
    /\ ResultReady(gl, pm, g, nd, rs, wr)
    /\ Waits(g, nd, arr, pa) /\ Handed(g, pa)
    /\ arr # <<>> \/ (\E r \in Outgoing : pa[r] # NoValue) => ~Output(rs)
    /\ arr # <<>> => Changed(rs) = {}
    /\ rs.form.branch => \A w \in Slots : nd[w] # "dead" => Home(gl, g, w)

\* The record of an instruction says what its rule reads and sets: an operand in
\* a register is an argument that is read, one in memory is one that is in the
\* frame, and it is known what becomes of each.
FromRule(gl, g, rs) ==
    /\ rs.form \in Forms /\ rs.ternary = rs.form.ternary
    /\ rs.ternary \/ Dest(rs) = rs.args[0]
    /\ \A i \in Operands(rs) : \E j \in 0 .. 2 : /\ Val(rs, i) = rs.args[j] /\ (j > 0 \/ rs.ternary)
                                                /\ rs.form.operands[j].kind \in {"reg", "local"}
    /\ \A i \in Given(rs) : rs.descs[i].live <=> Val(rs, i) \in Slots /\ rs.after[Val(rs, i)] # "dead"
    /\ \A v \in rs.memory : \E j \in 0 .. 2 :
          /\ v = rs.args[j]
          /\ \/ rs.form.operands[j].kind = "frame"
             \/ rs.form.operands[j].kind = "local" /\ v \in Slots /\ g.in_reg[v] = NoReg /\ gl[v] = NoReg

\* What an instruction is given: the arguments that it reads are needed, the one
\* it sets has been counted as written.
Supplied(gl, nd, arr, wr, pa, form, args, after) ==
    /\ form \in Forms /\ args \in [0 .. 2 -> Values \cup {NoValue}]
    /\ after \in [{args[i] : i \in 0 .. 2} \cap Slots -> {"used", "live", "dead"}]
    /\ \A j \in 0 .. 2 : (j > 0 \/ form.ternary) /\ args[j] \in Slots => nd[args[j]] = "used"
    /\ \A j \in 0 .. 2 : /\ form.operands[j].kind = "none" => args[j] = NoValue
                         /\ form.operands[j].kind = "frame" => args[j] \in Slots /\ gl[args[j]] = NoReg
                         /\ form.operands[j].kind # "none" /\ (j > 0 \/ form.ternary) => args[j] \in Values
    /\ form.ternary \/ args[0] = NoValue \/ (args[0] \in wr \cap Slots /\ after[args[0]] # "dead")
    /\ \A j \in 0 .. 2 : args[j] \notin Arriving(arr)
    /\ arr # <<>> => form.name = "incoming"
    /\ \A r \in Outgoing : pa[r] # NoValue => form.name = "set_param"

\* What Generate finds once the operands in the frame have been forced out.
Live(nd, arr) == {v \in Slots \ Arriving(arr) : nd[v] # "dead"}

\* An instruction begins, in the body of a block: f is what there is when the
\* registers rs have been assigned, and more is its result.
Starts(gl, pm, g, nd, arr, wr, pa, more, f, rs) ==
    /\ InBody(gl, pm, g, nd, arr, wr, pa) /\ more \subseteq Slots \cap {Dest(rs)}
    /\ Supplied(gl, nd, arr, wr \cup more, pa, rs.form, rs.args, rs.after)
    /\ f = ForceOut(g, rs.form, rs.args)
    /\ Assigned(gl, pm, f, rs) /\ FromRule(gl, f, rs)

-----------------------------------------------------------------------------
\* The records that the assignment goes through.
AsgSet(rs) ==
    [descs : [0 .. 2 -> Descs], scratch : Seq(Regs \cup {NoReg}), ternary : BOOLEAN, free : BOOLEAN, copy : BOOLEAN,
     commutative : BOOLEAN, dest_input : {0, 1}, assigned : SUBSET Regs, clobber : SUBSET Regs, ok : BOOLEAN,
     form : {rs.form}, args : {rs.args}, after : {rs.after}, memory : {rs.memory}]

\* A record that the assignment goes through.
IsAsg(rs) == rs \in AsgSet(rs)

\* From a to b an operand is given a register, and nothing else is changed.
SameDesc(a, b) ==
    /\ b.value = a.value /\ b.class = a.class /\ b.live = a.live /\ b.used = a.used /\ b.clobber = a.clobber
    /\ b.early = a.early /\ b.thrash = a.thrash /\ b.store = a.store /\ b.copy = a.copy /\ b.kill = a.kill

\* The parts of a record that no assignment of a register changes.
SameRest(a, b) ==
    /\ b.scratch = a.scratch /\ b.ternary = a.ternary /\ b.free = a.free /\ b.copy = a.copy
    /\ b.commutative = a.commutative /\ b.clobber = a.clobber /\ b.ok = a.ok
    /\ b.form = a.form /\ b.args = a.args /\ b.after = a.after /\ b.memory = a.memory

\* A record with other registers for its operands.
SameBut(a, b) ==
    SameRest(a, b) /\ b.dest_input = a.dest_input /\ \A j \in 0 .. 2 : SameDesc(a.descs[j], b.descs[j])

\* set_regdesc_register.
Registered(rs, i, r, h) ==
    /\ IsAsg(h) /\ SameBut(rs, h)
    /\ \A j \in 0 .. 2 : /\ h.descs[j].reg = IF j = i THEN r ELSE rs.descs[j].reg
                         /\ h.descs[j].duplicate = rs.descs[j].duplicate
    /\ h.assigned = IF i > 0 \/ rs.ternary \/ rs.descs[0].early THEN rs.assigned \cup {r} ELSE rs.assigned

\* use_cheapest_register: a register of the class that may be used, if there is one.
Cheap(class, costs, r) ==
    \E k \in DOMAIN class : /\ r = class[k] /\ costs[r] \in 0 .. TooMuch - 1
                            /\ \A j \in DOMAIN class : costs[class[j]] \in 0 .. TooMuch - 1 => costs[r] <= costs[class[j]]

\* The operands with which the registers of an instruction are assigned.
Asked(gl, pm, f, form, args, after) ==
    /\ GenOK(gl, f) /\ Loose(pm, f)
    /\ form \in Forms /\ args \in [0 .. 2 -> Values \cup {NoValue}]
    /\ after \in [{args[i] : i \in 0 .. 2} \cap Slots -> {"used", "live", "dead"}]
    /\ \A j \in 0 .. 2 : IF form.operands[j].kind = "none" THEN args[j] = NoValue
                         ELSE j > 0 \/ form.ternary => args[j] \in Values
    /\ form.ternary \/ args[0] = NoValue \/ (args[0] \in Slots /\ after[args[0]] # "dead")
    /\ f.inhibit # {} => form.name = "set_param"
    /\ form.name = "incoming" => /\ args[1] \in Slots /\ f.in_reg[args[1]] \in CallUsed
                                 /\ args[1] \notin f.in_global /\ f.inhibit = {}

\* The operands before any register is chosen.
InitValue(f, form, args, after, i) == IF InRegister(f, form, args, after, i) THEN args[i] ELSE NoValue

\* Whether a value is needed after the instruction, and whether the block still reads it.
IsLive(after, v) == v \in Slots /\ after[v] # "dead"
IsUsed(after, v) == v \in Slots /\ after[v] = "used"

\* An operand with the register that its form asks for.
Pinned(f, form, args, after, i) ==
    LET v == InitValue(f, form, args, after, i)
    IN [value : {v}, class : {form.operands[i].class}, reg : {IF v # NoValue THEN form.operands[i].fixed ELSE NoReg},
        live : {IsLive(after, v)}, used : {IsUsed(after, v)},
        clobber : {form.operands[i].clobber # "no"}, early : {form.operands[i].clobber = "early"},
        duplicate : {FALSE}, thrash : {FALSE}, store : {FALSE}, copy : {FALSE}, kill : {FALSE}]

\* The registers that the form of the instruction fixes, for its operands and as scratch registers.
Taken(f, form, args, after) ==
    {form.operands[i].fixed : i \in {j \in 0 .. 2 : /\ InitValue(f, form, args, after, j) # NoValue
                                                    /\ j > 0 \/ form.ternary \/ form.operands[0].clobber = "early"}}
    \ {NoReg}
Fixed(form) == {form.scratch[k].fixed : k \in DOMAIN form.scratch} \ {NoReg}

\* The values that are read in the frame.
Framed(f, form, args, after) ==
    {args[i] : i \in {j \in 0 .. 2 : form.operands[j].kind = "frame" \/ FromFrame(f, form, args, after, j)}}

\* The record with these operands, scratch registers and sets.
Exactly(form, args, after, ds, sc, as, cl, mem) ==
    [descs : {ds}, scratch : {sc}, ternary : {form.ternary}, free : {form.free}, copy : {form.copy},
     commutative : {form.commutative}, dest_input : {0}, assigned : {as}, clobber : {cl}, ok : {TRUE},
     form : {form}, args : {args}, after : {after}, memory : {mem}]

\* The operands with these registers, given one after the other and all at once.
InTurn(ds, p0, p1, p2) == [[[ds EXCEPT ![0].reg = p0] EXCEPT ![1].reg = p1] EXCEPT ![2].reg = p2]
AtOnce(ds, p0, p1, p2) ==
    [i \in 0 .. 2 |-> [ds[i] EXCEPT !.reg = IF i = 0 THEN p0 ELSE IF i = 1 THEN p1 ELSE p2]]
Three(ds) == DOMAIN ds = 0 .. 2 /\ ds = [i \in 0 .. 2 |-> ds[i]]

\* What the operands of an instruction come from: this does not change while
\* their registers are chosen.
FromForm(rs) ==
    /\ rs.form \in Forms /\ rs.ternary = rs.form.ternary /\ rs.free = rs.form.free /\ rs.copy = rs.form.copy
    /\ rs.commutative = rs.form.commutative

\* The operands of the record are the arguments of the instruction.
FromArgs(g, rs) ==
    /\ \A i \in 0 .. 2 : /\ rs.descs[i].live <=> IsLive(rs.after, rs.descs[i].value)
                         /\ rs.descs[i].used <=> IsUsed(rs.after, rs.descs[i].value)
                         /\ ~rs.descs[i].thrash /\ ~rs.descs[i].store /\ ~rs.descs[i].copy /\ ~rs.descs[i].kill
    /\ \A i \in Operands(rs) : \E j \in 0 .. 2 : /\ Val(rs, i) = rs.args[j] /\ (j > 0 \/ rs.ternary)
                                                /\ rs.form.operands[j].kind \in {"reg", "local"}
    /\ ~rs.ternary => Val(rs, 0) = rs.args[0]
    /\ rs.memory = Framed(g, rs.form, rs.args, rs.after)

\* What the forms say of the operands: which of them are overwritten, which have a result, and what
\* that result needs.
Operated(g, rs) ==
    /\ \A i \in Operands(rs) : rs.descs[i].clobber =>
          i = 1 /\ ~rs.ternary /\ ~rs.copy /\ rs.form.name \notin {"set_param", "incoming"}
    /\ Output(rs) => /\ g.inhibit = {} /\ ~rs.form.branch /\ rs.form.name \notin {"set_param", "incoming"}
                     /\ ~rs.free => 1 \in Given(rs) /\ ~rs.descs[0].early
                     /\ rs.copy => ~rs.free /\ 2 \notin Given(rs)
    /\ rs.form.name = "incoming" => /\ Operands(rs) = {1} /\ Val(rs, 1) = rs.args[1]
                                    /\ ToSet(rs.descs[1].class) = Regs

\* A record that describes an instruction.
Origin(g, rs) == IsAsg(rs) /\ FromForm(rs) /\ FromArgs(g, rs) /\ Operated(g, rs)

\* The registers chosen so far: those of two operands differ unless one is the
\* duplicate of the other, none is inhibited, and a global one is that of the
\* value or of the result.
Chosen(rs) == {i \in Operands(rs) : Reg(rs, i) # NoReg}

\* The registers chosen so far are taken, and no two operands with different values share one.
Held(g, rs) ==
    /\ g.inhibit \subseteq rs.assigned
    /\ \A i \in 0 .. 2 : i \notin Given(rs) => Reg(rs, i) = NoReg /\ ~rs.descs[i].duplicate
    /\ \A i \in Chosen(rs) : Reg(rs, i) \in rs.assigned /\ Reg(rs, i) \notin g.inhibit
    /\ \A i, j \in Chosen(rs) \cap Single(rs) : i # j => Reg(rs, i) # Reg(rs, j)
    /\ \A i \in Operands(rs) \ Single(rs) :
          /\ i = 2 \/ rs.ternary
          /\ \E j \in Chosen(rs) \cap Single(rs) : Reg(rs, j) = Reg(rs, i) /\ Equal(g, Val(rs, i), Val(rs, j))

\* A global register is chosen for its own value or for the result that lives there.
Global(gl, pm, rs) ==
    \A i \in Chosen(rs) \cap Single(rs) :
       Reg(rs, i) \in pm => \/ gl[Val(rs, i)] = Reg(rs, i) /\ ~rs.descs[i].clobber
                            \/ Output(rs) /\ gl[Dest(rs)] = Reg(rs, i)

\* Where the result may be.
ResultHeld(gl, pm, rs) ==
    Output(rs) => /\ ~rs.descs[0].duplicate
                  /\ Reg(rs, 0) \in pm => Reg(rs, 0) = gl[Dest(rs)]
                  /\ ~rs.free /\ Reg(rs, 0) # NoReg => Reg(rs, 1) = Reg(rs, 0)
                  /\ rs.descs[0].early /\ Reg(rs, 0) # NoReg =>
                        Reg(rs, 0) \in rs.assigned /\ \A i \in Chosen(rs) : Reg(rs, i) # Reg(rs, 0)

\* Together: what holds of the registers while they are chosen.
Placed(gl, pm, g, rs) == Held(g, rs) /\ Global(gl, pm, rs) /\ ResultHeld(gl, pm, rs)

\* The registers that are clobbered whatever is chosen.
Spoiled(pm, rs) ==
    /\ \A q \in ToSet(rs.scratch) \ {NoReg} : q \in rs.clobber /\ q \notin pm
    /\ (\A k \in DOMAIN rs.form.clobbers : k - 1 \notin pm) => ToSet(rs.form.clobbers) \subseteq rs.clobber
    /\ rs.form.branch => Regs \ pm \subseteq rs.clobber

\* Before the first register is chosen there are only those that the rule names.
Fresh(pm, rs) ==
    /\ \A i \in 0 .. 2 : ~rs.descs[i].duplicate /\ Reg(rs, i) \notin pm
    /\ Output(rs) /\ rs.descs[0].early => Chosen(rs) = {}
    /\ rs.commutative => Reg(rs, 1) = NoReg /\ Reg(rs, 2) = NoReg
    /\ Output(rs) /\ ~rs.free => Reg(rs, 0) = NoReg /\ Reg(rs, 2) \notin ToSet(rs.descs[0].class)
    /\ rs.commutative => ~rs.descs[1].clobber /\ ~rs.descs[2].clobber

\* The fields of Describe's record.
Described(pm, f, form, args, after, h) ==
    /\ h.scratch = [k \in DOMAIN form.scratch |-> form.scratch[k].fixed]
    /\ h.ternary = form.ternary /\ h.free = form.free /\ h.copy = form.copy
    /\ h.commutative = form.commutative /\ h.dest_input = 0
    /\ h.assigned = (f.inhibit \cup Taken(f, form, args, after)) \cup Fixed(form)
    /\ h.clobber = (Fixed(form) \cup {form.clobbers[k] : k \in {j \in DOMAIN form.clobbers : j - 1 \notin pm}})
                   \cup (IF form.branch THEN Regs \ pm ELSE {})
    /\ h.ok = TRUE /\ h.form = form /\ h.args = args /\ h.after = after
    /\ h.memory = Framed(f, form, args, after)
    /\ h.descs = [i \in 0 .. 2 |-> h.descs[i]]
    /\ \A i \in 0 .. 2 : h.descs[i] \in Pinned(f, form, args, after, i)

\* From a to b a register was chosen, and all is still as it must be.
Kept2(gl, pm, g, a, b) == IsAsg(b) /\ SameBut(a, b) /\ Placed(gl, pm, g, b)

\* The operands in the order in which choose_input_order leaves them.
Ordered(a, d, swap) ==
    /\ IsAsg(d) /\ SameRest(a, d) /\ d.dest_input = 1 /\ d.assigned = a.assigned
    /\ d.descs[0] = a.descs[0]
    /\ d.descs[1] = IF swap THEN a.descs[2] ELSE a.descs[1]
    /\ d.descs[2] = IF swap THEN a.descs[1] ELSE a.descs[2]

\* The operands of an instruction and what is known of them, once the registers
\* have been chosen: the flags are still to be set.
Listed(g, rs) ==
    /\ \A i \in 0 .. 2 : /\ rs.descs[i].live <=> IsLive(rs.after, rs.descs[i].value)
                         /\ rs.descs[i].used <=> IsUsed(rs.after, rs.descs[i].value)
    /\ \A i \in Operands(rs) : \E j \in 0 .. 2 : /\ Val(rs, i) = rs.args[j] /\ (j > 0 \/ rs.ternary)
                                                /\ rs.form.operands[j].kind \in {"reg", "local"}
    /\ ~rs.ternary => Val(rs, 0) = rs.args[0]
    /\ rs.memory = Framed(g, rs.form, rs.args, rs.after)

\* No flag of an operand has been set.
Unset(d) == ~d.thrash /\ ~d.store /\ ~d.copy /\ ~d.kill

\* A record whose registers have all been chosen.
Sound(gl, pm, g, rs) ==
    /\ IsAsg(rs) /\ FromForm(rs) /\ Listed(g, rs) /\ Operated(g, rs) /\ Placed(gl, pm, g, rs) /\ Spoiled(pm, rs)
    /\ DOMAIN rs.scratch = DOMAIN rs.form.scratch
    /\ \A i \in Given(rs) : Reg(rs, i) # NoReg

\* From a to b the registers of the operands stay, and more are clobbered.
SameCore(a, b) ==
    /\ IsAsg(b) /\ b.ternary = a.ternary /\ b.free = a.free /\ b.copy = a.copy /\ b.commutative = a.commutative
    /\ b.form = a.form /\ b.args = a.args /\ b.after = a.after /\ b.memory = a.memory /\ b.ok = a.ok
    /\ DOMAIN b.scratch = DOMAIN a.scratch /\ a.clobber \subseteq b.clobber /\ a.assigned \subseteq b.assigned
    /\ \A j \in 0 .. 2 :
          /\ b.descs[j].value = a.descs[j].value /\ b.descs[j].class = a.descs[j].class
          /\ b.descs[j].reg = a.descs[j].reg /\ b.descs[j].live = a.descs[j].live
          /\ b.descs[j].used = a.descs[j].used /\ b.descs[j].clobber = a.descs[j].clobber
          /\ b.descs[j].early = a.descs[j].early /\ b.descs[j].duplicate = a.descs[j].duplicate

\* set_regdesc_flags: the flags of one operand.
Flags(g, a, b, i) ==
    /\ SameCore(a, b) /\ b.scratch = a.scratch
    /\ \A j \in 0 .. 2 : j # i => b.descs[j] = a.descs[j]
    /\ Reg(a, i) # NoReg /\ ~a.descs[i].duplicate =>
          LET clobber == Clobbers(g, a, i, Reg(a, i))
              d == IF i \in Inputs(a) THEN InputFate(g, a, i, clobber) ELSE a.descs[i]
          IN /\ "REG" \in clobber => Reg(a, i) \in b.clobber
             /\ b.descs[i].thrash = d.thrash /\ b.descs[i].copy = d.copy /\ b.descs[i].store = d.store
             /\ b.descs[i].kill = (d.kill \/ (~d.copy /\ global[d.value] # d.reg /\ d.reg \in permanent))
    /\ Reg(a, i) = NoReg \/ a.descs[i].duplicate => b = a

\* An operand with other flags.
SameFace(d, e) ==
    /\ e.value = d.value /\ e.class = d.class /\ e.reg = d.reg /\ e.live = d.live /\ e.used = d.used
    /\ e.clobber = d.clobber /\ e.early = d.early /\ e.duplicate = d.duplicate

\* An operand with these flags.
Fielded(d, e, t, c, s, k) ==
    e \in Descs /\ SameFace(d, e) /\ e.thrash = t /\ e.copy = c /\ e.store = s /\ e.kill = k

\* set_regdesc_flags, of an input.
FateOf(gl, g, a, i, clobber, d) ==
    LET v    == Val(a, i)
        at   == g.in_reg[v]
        from == IF d.thrash THEN NoReg ELSE at
        kept == a.descs[i].used /\ v # Dest(a)
        lost == \/ ~d.copy /\ (Reg(a, i) \in a.clobber \/ "INPUT_VALUE" \in clobber)
                \/ d.copy /\ from # NoReg /\ (from \in a.clobber \/ (Output(a) /\ from = Reg(a, 0)))
    IN /\ d.thrash <=> Thrashed(g, a, v)
       /\ d.copy <=> from # Reg(a, i) /\ IF gl[v] # NoReg THEN gl[v] # Reg(a, i) ELSE from # NoReg
       /\ d.store <=> (v \notin Constants /\ IF kept THEN lost ELSE a.descs[i].live /\ v # Dest(a)) \/ d.thrash
       /\ d.kill <=> v \in Constants \/ ~kept \/ lost
       /\ d.value = v /\ d.reg = Reg(a, i) /\ d.copy \in BOOLEAN /\ d.kill \in BOOLEAN

\* The registers that are clobbered so far on account of the other operands.
Cleared(pm, g, a, i) ==
    \A j \in Single(a) : j # i /\ a.descs[j].clobber /\ Alive(g, a, Reg(a, j)) => Reg(a, j) \in a.clobber \cup pm

\* The instruction clobbers no class of global registers; and an operand in its global register is
\* bound to no other.
NoClass(pm, rs) == \A k \in DOMAIN rs.form.clobbers : k - 1 \notin pm
Unmoved(gl, g, a) == \A i \in Single(a) : gl[Val(a, i)] = Reg(a, i) => g.in_reg[Val(a, i)] = NoReg

\* What becomes of one operand.
Fated(gl, pm, g, a, i, d) ==
    LET v  == Val(a, i)
        at == g.in_reg[v]
    IN /\ d.thrash <=> Thrashed(g, a, v)
       /\ d.thrash => d.store
       /\ v \in Constants \/ v = Dest(a) \/ ~a.descs[i].used => d.kill
       /\ ~d.kill /\ at # NoReg /\ ~d.thrash => at \notin Disturbed(a)
       /\ ~d.kill /\ (at = NoReg \/ d.thrash) /\ gl[v] = NoReg => Reg(a, i) \notin Disturbed(a) \cup pm
       /\ v \in Slots \ {Dest(a)} /\ a.descs[i].live /\ d.kill => d.store \/ at = NoReg

\* A register that a value other than the operands needs, or one of them that is
\* still live.
Needy(g, a, r) ==
    \E w \in Values : g.in_reg[w] = r /\ w # Dest(a) /\ \A i \in Operands(a) : Val(a, i) = w => a.descs[i].live

\* The operand takes its register from whatever is bound to it.
Taking(g, a, i) == \/ i = 0 /\ Output(a) /\ ~a.copy
                   \/ i \in Single(a) /\ (a.descs[i].clobber \/ g.in_reg[Val(a, i)] # Reg(a, i))

\* The flags of all operands.
Finished(gl, pm, g, a, b) ==
    /\ Sound(gl, pm, g, b) /\ SameCore(a, b) /\ b.scratch = a.scratch
    /\ \A i \in Single(b) : Fated(gl, pm, g, b, i, b.descs[i])
    /\ \A i \in Operands(b) \ Single(b) : Unset(b.descs[i])
    /\ Output(b) => ~b.descs[0].kill
    /\ \A i \in 0 .. 2 : Taking(g, b, i) /\ Reg(b, i) \notin pm /\ Needy(g, b, Reg(b, i)) => Reg(b, i) \in b.clobber

\* The one operand of an incoming value, whose register may be any.
Noted(g, h) ==
    /\ Given(h) = {1} /\ ~h.ternary /\ Reg(h, 1) = NoReg /\ ~h.descs[1].clobber /\ ToSet(h.descs[1].class) = Regs
    /\ h.dest_input = 0 /\ h.assigned = {}
    /\ g.in_reg[Val(h, 1)] \in Regs /\ Val(h, 1) \notin g.in_global

\* JIT_OP_INCOMING_FRAME_POSN.
FrameRecorded(gl, g, v) ==
    IF gl[v] # NoReg
    THEN [g EXCEPT !.in_reg[v] = NoReg, !.in_global = @ \cup {v}, !.holds[gl[v]] = g.slot[v]]
    ELSE [g EXCEPT !.in_reg[v] = NoReg, !.in_frame = @ \cup {v}]

-----------------------------------------------------------------------------
\* Between two blocks no value is in a register of its own, and every value that
\* another block may read is at home.
IsBetween(gl, g, wr, pa) ==
    /\ GenOK(gl, g) /\ \A v \in Values : g.in_reg[v] = NoReg
    /\ wr \subseteq Slots /\ \A v \in Slots \ Temporaries : Home(gl, g, v)
    /\ \A v \in wr \ Temporaries : gl[v] # NoReg => v \in g.in_global
    /\ pa \in [Outgoing -> Values \cup {NoValue}] /\ \A r \in Outgoing : pa[r] # NoValue => pa[r] \in g.holds[r]

\* The generation context and the machine as a block begins.
AtEntry(gl, pm, g, nd, list) ==
    LET At(r)   == {list[k].value : k \in {c \in DOMAIN list : list[c].reg = r}}
        home(v) == nd[v] # "dead" /\ v \notin Arriving(list)
    IN [g EXCEPT !.age = [r \in Regs |-> 0], !.inhibit = {},
                 !.contents = [r \in Regs |-> IF r \in pm THEN @[r] ELSE {}],
                 !.holds = [r \in Regs |-> At(r) \cup {v \in {w \in Values : gl[w] = r} \cap Slots : home(v)}],
                 !.slot  = [v \in Slots |-> IF v \in At(NoReg) \/ (home(v) /\ ~(gl[v] # NoReg)) THEN {v} ELSE {}]]

\* An instruction that is ready, and what is in the registers it reads.
Emitted(gl, pm, g, nd, rs, arr, wr, pa) ==
    rs.ok /\ ~(rs.form.branch /\ rs.clobber \cap pm # {}) =>
       /\ IsReady(gl, pm, g, Becomes(nd, rs.after), rs, arr, wr, pa)
       /\ ResultPlace(gl, pm, g, rs)
       /\ \A i \in Operands(rs) : Val(rs, i) \in g.holds[Reg(rs, i)]
       /\ \A v \in rs.memory : v \in g.slot[v]

\* The inductive invariant.
RegAllocInv ==
    /\ Static /\ need \in Needs /\ phase \in {"between", "body", "ready", "ended"}
    /\ phase = "between" => IsBetween(global, gen, written, passed)
    /\ phase \in {"body", "ended"} => InBody(global, permanent, gen, need, arriving, written, passed)
    /\ phase = "ready" => Emitted(global, permanent, gen, need, regs, arriving, written, passed)
==============================================================================
