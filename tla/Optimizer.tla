----------------------------- MODULE Optimizer -----------------------------
(***************************************************************************)
(* The passes of _jit_function_compute_liveness (jit-live.c) and           *)
(* _jit_block_peephole_branch (jit-block.c) over the blocks that a front   *)
(* end built: branches to branches, forward copy propagation, liveness     *)
(* with the removal of dead instructions, backward copy propagation.       *)
(***************************************************************************)
EXTENDS BlockBuilder

LOCAL INSTANCE SequencesExt
LOCAL INSTANCE FiniteSetsExt

CONSTANT MaxLinks   \* The links _jit_block_peephole_branch follows, 32.

ASSUME OptimizerAssumption == MaxLinks \in Nat

-----------------------------------------------------------------------------
(* Branches.                                                               *)

\* jit_block_from_label.
BlockOf(bs, label) == CHOOSE i \in 1..Len(bs) : bs[i].label = label

\* The first block from i on that is neither empty nor dead; 0 if none is.
FirstReal(bs, i) ==
    LET real == {j \in i..Len(bs) : ~EmptyOrDead(bs[j])}
    IN IF real = {} THEN 0 ELSE Min(real)

\* The label a branch of block i to label ends up at when every target that
\* is a single unconditional branch is followed.
Threaded(bs, i, label) ==
    LET follow[count \in 0..MaxLinks, l \in 0..MaxLabel] ==
            IF count = 0 \/ l = bs[i].label THEN l
            ELSE LET j == FirstReal(bs, BlockOf(bs, l))
                 IN IF j = 0 THEN l
                    ELSE IF Len(bs[j].insns) > 1 \/ bs[j].insns[1].op # "br" THEN l
                    ELSE follow[count - 1, bs[j].insns[1].n]
    IN follow[MaxLinks, label]

\* block_branches_to_next: only blocks that do nothing lie between block i
\* and the label.
BranchesToNext(bs, i, label) ==
    LET reaches[j \in 1..(Len(bs) + 1), l \in 0..MaxLabel] ==
            IF j > Len(bs) THEN FALSE
            ELSE \/ bs[j].label = l
                 \/ EmptyOrDead(bs[j]) /\ reaches[j + 1, l]
                 \/ /\ ~EmptyOrDead(bs[j]) /\ Len(bs[j].insns) = 1
                    /\ bs[j].insns[1].op = "br"
                    /\ reaches[j + 1, bs[j].insns[1].n] /\ reaches[j + 1, l]
    IN reaches[i + 1, label]

\* A block that is never entered is emptied first.
Emptied(b) == IF NeverEntered(b) THEN [b EXCEPT !.insns = <<>>] ELSE b

\* _jit_block_peephole_branch for block i.
PeepholeBranch(blocks_, i) ==
    LET bs    == [blocks_ EXCEPT ![i] = Emptied(@)]
        n     == Len(bs[i].insns)
        label == Threaded(bs, i, bs[i].insns[n].n)
        moved == [bs EXCEPT ![i].insns[n].n = label]
    IN IF n = 0 \/ ~IsBranch(bs[i].insns[n]) THEN bs
       ELSE IF BranchesToNext(moved, i, label)
            THEN [bs EXCEPT ![i].insns = Front(@), ![i].dead = FALSE, ![i + 1].top = TRUE]
            ELSE moved

-----------------------------------------------------------------------------
(* Copies.                                                                 *)

Indices(insns) == [i \in 1..Len(insns) |-> i]

\* is_copy_insn.
IsCopy(insn) == insn.op = "copy"

\* A mutant of PropagateCopy: the copied value may be assigned in between.
PropagateCopy_PastValue(insns, i) ==
    LET dest  == insns[i].dest
        value == insns[i].v1
        stops == {j \in (i + 1)..Len(insns) : Writes(insns[j], dest)}
        last  == IF stops = {} THEN Len(insns) ELSE Min(stops) - 1
        New(v) == IF v = dest THEN value ELSE v
    IN IF ~IsCopy(insns[i]) \/ dest = value \/ dest \notin temporary
          \/ {dest, value} \cap addressable # {} THEN insns
       ELSE [j \in 1..Len(insns) |->
                IF j \notin (i + 1)..last THEN insns[j]
                ELSE [insns[j] EXCEPT !.v1 = New(@), !.v2 = New(@)]]

\* The instruction at i copies value to dest: later uses of dest become uses
\* of value, up to the next instruction whose destination is one of the two.
PropagateCopy(insns, i) ==
    LET dest  == insns[i].dest
        value == insns[i].v1
        stops == {j \in (i + 1)..Len(insns) :
                     insns[j].dest \in {dest, value} /\ ~DestIsValue(insns[j])}
        last  == IF stops = {} THEN Len(insns) ELSE Min(stops) - 1
        New(v) == IF v = dest THEN value ELSE v
    IN IF ~IsCopy(insns[i]) THEN insns
       ELSE IF dest = value THEN [insns EXCEPT ![i].op = "nop"]
       ELSE IF dest \notin temporary \/ {dest, value} \cap addressable # {} THEN insns
       ELSE [j \in 1..Len(insns) |->
                IF j \notin (i + 1)..last THEN insns[j]
                ELSE [insns[j] EXCEPT !.v1 = New(@), !.v2 = New(@),
                                      !.dest = IF DestIsValue(insns[j]) THEN New(@) ELSE @]]

\* forward_propagation.
ForwardPropagation(insns) == FoldLeft(PropagateCopy, insns, Indices(insns))

-----------------------------------------------------------------------------
(* Liveness.                                                               *)

Operands(insn) == { v \in {insn.dest, insn.v1, insn.v2} : v # None /\ v \notin Const }

\* A mutant of ScanLiveness: the pointer of a store is not a use.
ScanLiveness_PointerUnused(state, i) ==
    LET insn == state.insns[i]
        used == {slot \in {"dest", "v1", "v2"} : insn[slot] \in state.live}
    IN IF insn.op = "nop" THEN state
       ELSE IF insn.dest # None /\ ~DestIsValue(insn) /\ insn.dest \notin state.live
       THEN [state EXCEPT !.insns[i] = [insn EXCEPT !.used = used, !.op = "nop"]]
       ELSE [ insns |-> [state.insns EXCEPT ![i].used = used],
              live  |-> (state.live \ {insn.dest}) \cup (Operands(insn) \ {insn.dest}) ]

\* The scan goes backwards; live holds the values that are live or have a
\* next use.  An instruction that computes no such value is discarded.
ScanLiveness(state, i) ==
    LET insn  == state.insns[i]
        live  == state.live
        used  == {slot \in {"dest", "v1", "v2"} : insn[slot] \in live}
        reads == {v \in Operands(insn) : v \in {insn.v1, insn.v2} \/ DestIsValue(insn)}
        dead  == insn.dest # None /\ ~DestIsValue(insn) /\ insn.dest \notin live
    IN IF insn.op = "nop" THEN state
       ELSE IF dead THEN [state EXCEPT !.insns[i] = [insn EXCEPT !.used = used, !.op = "nop"]]
       ELSE [ insns |-> [state.insns EXCEPT ![i].used = used],
              live  |-> (IF DestIsValue(insn) THEN live ELSE live \ {insn.dest}) \cup reads ]

\* reset_liveness_flags, then compute_liveness_for_block: at the end of a
\* block all but temporaries are live.
ComputeLiveness(insns) ==
    LET values == UNION {Operands(insns[i]) : i \in 1..Len(insns)}
    IN FoldLeft(ScanLiveness, [insns |-> insns, live |-> values \ temporary],
                Reverse(Indices(insns))).insns

\* The copy at i of a value that is not used again moves to the instruction
\* that computed it, unless one in between uses either of the two.
MoveCopyBack(insns, i) ==
    LET dest  == insns[i].dest
        value == insns[i].v1
        stops == {j \in 1..(i - 1) :
                     \/ insns[j].dest \in {dest, value}
                     \/ insns[j].v1 \in {dest, value}
                     \/ insns[j].v2 = dest}
        j     == Max(stops)
    IN IF ~IsCopy(insns[i]) THEN insns
       ELSE IF dest = value THEN [insns EXCEPT ![i].op = "nop"]
       ELSE IF "v1" \in insns[i].used \/ {dest, value} \cap addressable # {} THEN insns
       ELSE IF stops # {} /\ insns[j].dest = value /\ ~DestIsValue(insns[j])
            THEN [insns EXCEPT ![i].op = "nop", ![j].dest = dest]
            ELSE insns

\* backward_propagation; liveness is computed again if it did anything.
BackwardPropagation(insns) ==
    LET new == FoldLeft(MoveCopyBack, insns, Reverse(Indices(insns)))
    IN IF new = insns THEN insns ELSE ComputeLiveness(new)

-----------------------------------------------------------------------------
Pass(this, next) ==
    /\ pc = this /\ pc' = next
    /\ UNCHANGED <<calls, menu, home, temporary, addressable, next_label>>

Peephole ==
    /\ Pass("peephole", "forward")
    /\ blocks' = PeepholeBranch(blocks, at)
    /\ UNCHANGED at

Forward ==
    /\ Pass("forward", "liveness")
    /\ blocks' = [blocks EXCEPT ![at].insns = ForwardPropagation(@)]
    /\ UNCHANGED at

Liveness ==
    /\ Pass("liveness", "backward")
    /\ blocks' = [blocks EXCEPT ![at].insns = ComputeLiveness(@)]
    /\ UNCHANGED at

Backward ==
    /\ Pass("backward", IF at < Len(blocks) THEN "peephole" ELSE "done")
    /\ blocks' = [blocks EXCEPT ![at].insns = BackwardPropagation(@)]
    /\ at' = at + 1

vars == <<builderVars, pc, at>>

Next == Build \/ Peephole \/ Forward \/ Liveness \/ Backward
Spec == Init /\ [][Next]_vars

-----------------------------------------------------------------------------
\* What compile() generates: the blocks in their order, without those that are
\* never entered.
Code(bs) ==
    LET Line(b) == IF NeverEntered(b) THEN <<>>
                   ELSE <<Insn("label", 0, None, None, None, b.label)>> \o b.insns
    IN FlattenSeq([i \in 1..Len(bs) |-> Line(bs[i])])

BranchIds == {calls[i].id : i \in {j \in 1..Len(calls) : calls[j].op = "br_true"}}

TypeOK ==
    /\ pc \in {"build", "peephole", "forward", "liveness", "backward", "done"}
    /\ at \in 1..(Len(blocks) + 1)
    /\ home \in [Temp -> 0..Len(blocks)]
    /\ temporary \subseteq Created /\ addressable \subseteq Usable
    /\ next_label \in 0..MaxLabel
    /\ \A i \in 1..Len(blocks) : \A j \in 1..Len(blocks[i].insns) :
           Operands(blocks[i].insns[j]) \subseteq Value

\* What the builder made does what the front end asked for, although loads and
\* stores were moved to other addresses and comparisons became branches.
BuiltAsAsked == pc = "peephole" /\ at = 1 => SameMeaning(Code(blocks), calls, BranchIds)

\* No pass changes what the function does: its result, what it stores and the
\* conditions it tests.
KeepsMeaning == blocks' # blocks => SameMeaning(Code(blocks'), Code(blocks), BranchIds)

PassesKeepMeaning == [][pc # "build" => KeepsMeaning]_vars

\* "Remove the branch instruction, because it has no effect" (jit-block.c).
RemovedBranchHasNoEffect == [][pc = "peephole" => KeepsMeaning]_vars

\* "This is only allowed if t is used only in the instructions i and j"
\* (jit-live.c): moving a copy back changes nothing.
MovedCopyHasNoOtherUse == [][pc = "backward" => KeepsMeaning]_vars

\* A value whose operand is marked neither live nor next used is not read again
\* before it is written, nor after the block: the register allocator drops it.
FlagsSound ==
    pc = "done" =>
        \A i \in 1..Len(blocks) : LET insns == blocks[i].insns IN
            \A j \in 1..Len(insns) : \A slot \in {"dest", "v1", "v2"} :
                LET v      == insns[j][slot]
                    reads  == {k \in (j + 1)..Len(insns) : Reads(insns[k], v)}
                    writes == {k \in (j + 1)..Len(insns) : Writes(insns[k], v)}
                IN /\ insns[j].op # "nop" /\ v \in Operands(insns[j])
                   /\ slot \notin insns[j].used
                   => /\ \A k \in reads : \E w \in writes : w < k
                      /\ v \in temporary \/ writes # {}
=============================================================================
