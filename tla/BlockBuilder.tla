---------------------------- MODULE BlockBuilder ----------------------------
(***************************************************************************)
(* A front end builds a function: jit_insn_... append instructions to the  *)
(* current basic block, start blocks at labels and after branches, and     *)
(* combine an address with the load or store that uses it (jit-insn.c,     *)
(* jit-block.c, jit_value_ref of jit-value.c).                             *)
(*                                                                         *)
(* calls keeps what the front end asked for, one entry for each call;      *)
(* blocks is what the builder made of it.                                  *)
(***************************************************************************)
EXTENDS BlockCode

LOCAL INSTANCE SequencesExt
LOCAL INSTANCE FiniteSetsExt

CONSTANTS MaxLabel,   \* Bound: labels of a function.
          Menu,       \* Bound: the calls a function is made of, how many, how many
                      \* of them are branches, and the offsets of its accesses.
          Habit       \* What the front end does, of the set below.

Habits == {"code after a branch", "temporary second operand",
           "address of a temporary", "stores an address", "stores to itself"}

ASSUME BuilderAssumption ==
    /\ MaxTemp \in Nat /\ MaxLabel \in Nat
    /\ Local \cap Const = {} /\ None \notin Local \cup Const
    /\ Habit \subseteq Habits

VARIABLES calls, menu,
          blocks,       \* builder->first_block ... last_block; the last is current
          home,         \* the block each value was created in, 0 if it was not
          temporary,    \* the values that are is_temporary
          addressable,  \* the values that are is_addressable
          next_label,   \* labels allocated so far
          pc,           \* "build", then the pass that is next
          at            \* the block the pass is at

builderVars == <<calls, menu, blocks, home, temporary, addressable, next_label>>

Undefined == 0   \* jit_label_undefined

Block(label, top, branch) ==
    [label |-> label, top |-> top, branch |-> branch, dead |-> FALSE, insns |-> <<>>]

Current   == Len(blocks)
Insns     == blocks[Current].insns
Created   == {v \in Temp : home[v] > 0}
Usable    == Local \cup Created
Fresh     == Cardinality(Created) + 1
CallId    == Len(calls) + 1

\* _jit_block_init.
Init ==
    /\ menu \in Menu
    /\ calls = <<>> /\ blocks = <<Block(Undefined, TRUE, FALSE)>>
    /\ home = [v \in Temp |-> 0] /\ temporary = {} /\ addressable = {}
    /\ next_label = 0 /\ pc = "build" /\ at = 1

-----------------------------------------------------------------------------
(* Blocks.                                                                 *)

AddInsn(bs, insn) == [bs EXCEPT ![Len(bs)].insns = Append(@, insn)]

EndsInDead(bs) == [bs EXCEPT ![Len(bs)].dead = TRUE]

\* jit_insn_new_block.
NewBlock(bs) == Append(bs, Block(Undefined, ~Last(bs).dead, FALSE))

\* jit_insn_label: a block that a branch just started is reused; the block
\* before a new one falls through unless it is dead or empty and unreachable.
LabelBlock(bs, label) ==
    LET b == Last(bs)
        entered == IF b.insns # <<>> THEN ~b.dead ELSE b.top \/ b.branch
    IN IF b.label = Undefined /\ b.insns = <<>>
       THEN [bs EXCEPT ![Len(bs)].label = label, ![Len(bs)].branch = TRUE]
       ELSE Append(bs, Block(label, entered, TRUE))

NeverEntered(b)   == ~b.top /\ ~b.branch
EmptyOrDead(b)    == b.insns = <<>> \/ NeverEntered(b)

\* jit_block_current_is_dead: back over empty blocks that only the block
\* before them enters.
CurrentIsDead ==
    LET Stops(b) == b.dead \/ NeverEntered(b) \/ b.branch \/ b.insns # <<>>
        stops    == {i \in 1..Current : Stops(blocks[i])}
    IN stops # {} /\ LET b == blocks[Max(stops)] IN b.dead \/ NeverEntered(b)

-----------------------------------------------------------------------------
(* Values.                                                                 *)

\* jit_value_ref: a temporary becomes local when another block refers to it.
Refer(vs) ==
    /\ temporary' = temporary \ {v \in vs \cap Created : home[v] # Current}
    /\ UNCHANGED home

\* jit_value_create: instructions return new temporaries.
ReferAndCreate(vs, new) ==
    /\ new \subseteq Temp
    /\ home' = [v \in Temp |-> IF v \in new THEN Current ELSE home[v]]
    /\ temporary' = (temporary \ {v \in vs \cap Created : home[v] # Current}) \cup new

\* A call of the front end that the menu has, asking for one instruction.
Asks(call, insn) ==
    /\ pc = "build" /\ call \in menu.calls /\ Len(calls) < menu.most
    /\ "code after a branch" \in Habit \/ call = "label" \/ ~NeverEntered(blocks[Current])
    /\ calls' = Append(calls, insn)
    /\ UNCHANGED <<menu, pc, at>>

-----------------------------------------------------------------------------
(* Instructions.                                                           *)

\* apply_binary and apply_unary.
Binary(op, a, b) ==
    LET insn == Insn(op, CallId, Fresh, a, b, 0) IN
    /\ b \in temporary => "temporary second operand" \in Habit
    /\ Asks(op, insn)
    /\ blocks' = AddInsn(blocks, insn)
    /\ ReferAndCreate({a, b}, {Fresh})
    /\ UNCHANGED <<addressable, next_label>>

\* jit_insn_load.
LoadValue(v) ==
    LET insn == Insn("copy", CallId, Fresh, v, None, 0) IN
    /\ Asks("load", insn)
    /\ blocks' = AddInsn(blocks, insn)
    /\ ReferAndCreate({v}, {Fresh})
    /\ UNCHANGED <<addressable, next_label>>

\* jit_insn_store.
StoreValue(dest, v) ==
    LET insn == Insn("copy", CallId, dest, v, None, 0) IN
    /\ dest = v => "stores to itself" \in Habit
    /\ Asks("store", insn)
    /\ blocks' = AddInsn(blocks, insn)
    /\ Refer({dest, v})
    /\ UNCHANGED <<addressable, next_label>>

\* jit_insn_address_of.
AddressOfValue(v) ==
    LET insn == Insn("address_of", CallId, Fresh, v, None, 0) IN
    /\ v \in temporary => "address of a temporary" \in Habit
    /\ Asks("address_of", insn)
    /\ blocks' = AddInsn(blocks, insn)
    /\ addressable' = addressable \cup {v}
    /\ ReferAndCreate({v}, {Fresh})
    /\ UNCHANGED next_label

\* find_base_insn: the instruction of the current block that computed a
\* pointer, if it is an address_of, or an add_relative whose base still holds
\* the same pointer; NoBase otherwise.
NoBase == Insn("nop", 0, None, None, None, 0)

\* A mutant of BaseInsn: the base may have been assigned since.
BaseInsn_OldBase(v) ==
    LET defines == {i \in 1..Len(Insns) : Insns[i].dest = v /\ ~DestIsValue(Insns[i])}
        i       == Max(defines)
    IN IF v \in addressable \/ defines = {} \/ Insns[i].op \notin {"address_of", "add_relative"}
       THEN NoBase ELSE Insns[i]

BaseInsn(v) ==
    LET defines == {i \in 1..Len(Insns) : Insns[i].dest = v /\ ~DestIsValue(Insns[i])}
        i       == Max(defines)
        base    == Insns[i].v1
    IN IF v \in addressable \/ defines = {} THEN NoBase
       ELSE IF \/ Insns[i].op = "address_of"
               \/ /\ Insns[i].op = "add_relative" /\ base \notin addressable
                  /\ \A j \in i..Len(Insns) : ~Writes(Insns[j], base)
            THEN Insns[i] ELSE NoBase

IsLast(insn) == Insns # <<>> /\ Last(Insns) = insn

\* How a relative access at p + n is emitted: through the pointer behind an
\* add_relative, and through an address_of that is computed once more next to
\* the access unless it is the last instruction.  Behind an add_relative the
\* address_of is looked for at q.
Access(p, n, q) ==
    LET base  == BaseInsn(p)
        folds == base.op = "add_relative"
        insn  == IF folds THEN BaseInsn(q) ELSE base
        again == insn.op = "address_of" /\ (folds \/ ~IsLast(insn))
    IN [ before  |-> IF again THEN <<Insn("address_of", CallId, Fresh, insn.v1, None, 0)>>
                              ELSE <<>>,
         pointer |-> IF again THEN Fresh ELSE IF folds THEN base.v1 ELSE p,
         offset  |-> IF folds THEN n + base.n ELSE n ]

Emit(insns) == FoldLeft(AddInsn, blocks, insns)

\* jit_insn_load_relative.
LoadRelative(p, n) ==
    LET access == Access(p, n, BaseInsn(p).v1)
        dest   == Fresh + Len(access.before)
        load   == Insn("load_relative", CallId, dest, access.pointer, None, access.offset)
    IN /\ Asks("load_relative", [load EXCEPT !.v1 = p, !.n = n])
       /\ blocks' = Emit(Append(access.before, load))
       /\ ReferAndCreate({access.pointer}, Fresh..dest)
       /\ UNCHANGED <<addressable, next_label>>

\* jit_insn_store_relative: behind an add_relative it looks for the address
\* in the value that is stored.
StoreRelative(p, n, v) ==
    LET access == Access(p, n, v)
        store  == Insn("store_relative", CallId, access.pointer, v, None, access.offset)
    IN /\ BaseInsn(p).op = "add_relative" /\ BaseInsn(v).op = "address_of"
             => "stores an address" \in Habit
       /\ Asks("store_relative", [store EXCEPT !.dest = p, !.n = n])
       /\ blocks' = Emit(Append(access.before, store))
       /\ ReferAndCreate({access.pointer, v}, {access.before[i].dest : i \in 1..Len(access.before)})
       /\ UNCHANGED <<addressable, next_label>>

\* jit_insn_add_relative: adds to the pointer behind an add_relative.
AddRelative(p, n) ==
    LET base  == BaseInsn(p)
        folds == base.op = "add_relative"
        add   == IF folds THEN Insn("add_relative", CallId, Fresh, base.v1, None, n + base.n)
                          ELSE Insn("add_relative", CallId, Fresh, p, None, n)
    IN /\ Asks("add_relative", [add EXCEPT !.v1 = p, !.n = n])
       /\ blocks' = AddInsn(blocks, add)
       /\ ReferAndCreate({add.v1}, {Fresh})
       /\ UNCHANGED <<addressable, next_label>>

\* A label that the front end uses for the first time is allocated.
Label(l) == l \in 1..MaxLabel /\ l <= next_label + 1
Allocate(l) == next_label' = IF l > next_label THEN l ELSE next_label
Defined(l) == \E i \in 1..Len(blocks) : blocks[i].label = l

\* jit_insn_label.
PlaceLabel(l) ==
    /\ Label(l) /\ ~Defined(l)
    /\ Asks("label", Insn("label", CallId, None, None, None, l))
    /\ blocks' = LabelBlock(blocks, l)
    /\ Allocate(l)
    /\ UNCHANGED <<home, temporary, addressable>>

\* jit_insn_branch.
Branch(l) ==
    LET insn == Insn("br", CallId, None, None, None, l) IN
    /\ Label(l) /\ Len(SelectSeq(calls, IsBranch)) < menu.branches
    /\ Asks("branch", insn)
    /\ blocks' = NewBlock(EndsInDead(AddInsn(blocks, insn)))
    /\ Allocate(l)
    /\ UNCHANGED <<home, temporary, addressable>>

\* jit_insn_branch_if: a comparison that was just made becomes the branch.
\* The front end does not use the result of such a comparison again.
BranchIf(v, l) ==
    LET insn     == Insn("br_true", CallId, None, v, None, l)
        previous == Last(Insns)
        replaces == v \in temporary /\ Insns # <<>> /\ previous.dest = v /\ previous.op = "lt"
    IN /\ Label(l) /\ Len(SelectSeq(calls, IsBranch)) < menu.branches
       /\ Asks("branch_if", insn)
       /\ Allocate(l)
       /\ IF replaces
          THEN /\ blocks' = NewBlock([blocks EXCEPT ![Current].insns[Len(Insns)] =
                    [previous EXCEPT !.op = "br_lt", !.id = CallId, !.dest = None, !.n = l]])
               /\ UNCHANGED <<home, temporary>>
          ELSE blocks' = NewBlock(AddInsn(blocks, insn)) /\ Refer({v})
       /\ UNCHANGED addressable

\* A comparison that a branch replaced is lost: its result is not computed.
Replaced == {v \in Created : \A i \in 1..Len(blocks) :
                 \A j \in 1..Len(blocks[i].insns) : blocks[i].insns[j].dest # v}

ReturnBlocks(v, id) ==
    NewBlock(EndsInDead(AddInsn(blocks, Insn("return", id, None, v, None, 0))))

\* jit_insn_return.
Return(v) ==
    /\ Asks("return", Insn("return", CallId, None, v, None, 0))
    /\ blocks' = ReturnBlocks(v, CallId)
    /\ Refer({v})
    /\ UNCHANGED <<addressable, next_label>>

\* jit_insn_default_return ends the function and compile() starts.
DefaultReturn ==
    /\ pc = "build" /\ \A l \in 1..next_label : Defined(l)
    /\ calls' = Append(calls, Insn("return", CallId, None, None, None, 0))
    /\ blocks' = IF CurrentIsDead THEN blocks ELSE ReturnBlocks(None, CallId)
    /\ pc' = "peephole"
    /\ UNCHANGED <<menu, home, temporary, addressable, next_label, at>>

\* What the front end may name in its next call: variables and the results of
\* its calls.  Bound: what it adds to a pointer.
Named  == (Local \cup {calls[i].dest : i \in {j \in 1..Len(calls) : calls[j].dest # None}})
              \ Replaced
Stride == {-1}

Build ==
    \/ \E op \in {"op", "lt"}, a \in Named, b \in Named \cup {None} : Binary(op, a, b)
    \/ \E v \in Named : LoadValue(v) \/ AddressOfValue(v) \/ Return(v)
    \/ \E dest \in Named, v \in Named \cup Const : StoreValue(dest, v)
    \/ \E p \in Named, n \in Stride : AddRelative(p, n)
    \/ \E p \in Named, n \in menu.offsets : LoadRelative(p, n)
    \/ \E p \in Named, n \in menu.offsets, v \in Named : StoreRelative(p, n, v)
    \/ \E l \in 1..MaxLabel : PlaceLabel(l) \/ Branch(l) \/ \E v \in Named : BranchIf(v, l)
    \/ DefaultReturn
=============================================================================
