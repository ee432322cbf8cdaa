----------------------------- MODULE BlockCode -----------------------------
(***************************************************************************)
(* Instructions of a function and what running them means.  Computations   *)
(* are uninterpreted: a run yields terms over what the values held before, *)
(* so two pieces of code with equal outcomes agree for every operation and *)
(* every input.                                                            *)
(***************************************************************************)
EXTENDS Integers, Sequences, FiniteSets

LOCAL INSTANCE SequencesExt
LOCAL INSTANCE FiniteSetsExt

CONSTANTS Local,    \* Variables: values that outlive a block.
          Const,    \* Constant values.
          MaxTemp,  \* Bound: values that instructions create, 1..MaxTemp.
          None      \* A null operand.

Temp  == 1..MaxTemp
Value == Local \cup Temp \cup Const

\* struct _jit_insn: the offset or label of an instruction is n, id is the
\* call of the front end it comes from, and used holds the operands that
\* JIT_INSN_..._LIVE or JIT_INSN_..._NEXT_USE marks.
Insn(op, id, dest, v1, v2, n) ==
    [op |-> op, id |-> id, dest |-> dest, v1 |-> v1, v2 |-> v2, n |-> n, used |-> {}]

IsBranch(insn) == insn.op \in {"br", "br_true", "br_lt"}
EndsPath(insn) == insn.op \in {"br", "return"}

\* JIT_INSN_DEST_IS_VALUE: the destination of store_relative is a source.
DestIsValue(insn) == insn.op = "store_relative"
Writes(insn, v)   == insn.op # "nop" /\ insn.dest = v /\ ~DestIsValue(insn)
Reads(insn, v)    ==
    /\ insn.op # "nop"
    /\ \/ v \in {insn.v1, insn.v2}
       \/ DestIsValue(insn) /\ insn.dest = v

\* Terms.  An address is a base and an offset.
Initial(v)    == <<"initial", v>>
AddressOf(v)  == <<"at", <<"variable", v>>, 0>>
Plus(term, n) == IF term[1] = "at" THEN <<"at", term[2], term[3] + n>>
                                   ELSE <<"at", term, n>>

\* A run: the position, the contents of the values, the stores to memory so
\* far, the tests that were made, the branches that were tested and the
\* positions that were passed with so many of them tested.
Start == [ at |-> 1, env |-> [v \in Value |-> Initial(v)], stores |-> <<>>,
           tests |-> {}, tested |-> {}, passed |-> {}, result |-> <<"running">> ]

Operand(m, v) == IF v = None THEN None ELSE m.env[v]

\* What is at an address: a variable, what was stored last, or what was there.
Fetch(m, address) ==
    IF \E v \in Value : address = AddressOf(v)
    THEN m.env[CHOOSE v \in Value : address = AddressOf(v)]
    ELSE LET stores == {i \in 1..Len(m.stores) : m.stores[i][1] = address}
         IN IF stores = {} THEN <<"memory", address>> ELSE m.stores[Max(stores)][2]

Put(m, address, term) ==
    IF \E v \in Value : address = AddressOf(v)
    THEN [m EXCEPT !.env[CHOOSE v \in Value : address = AddressOf(v)] = term]
    ELSE [m EXCEPT !.stores = Append(@, <<address, term>>)]

\* The outcome of a branch is "taken", "not" or "once": the first time only.
Taken(m, insn, oracle) ==
    \/ insn.op = "br"
    \/ oracle[insn.id] = "taken"
    \/ oracle[insn.id] = "once" /\ insn.id \notin m.tested

Test(m, insn) == IF insn.op = "br_lt"
                 THEN <<"lt", Operand(m, insn.v1), Operand(m, insn.v2)>>
                 ELSE Operand(m, insn.v1)

\* The position of a label in code, where labels are instructions too.
Target(code, label) ==
    CHOOSE i \in 1..Len(code) : code[i].op = "label" /\ code[i].n = label

Assign(m, insn, term) == [m EXCEPT !.env[insn.dest] = term, !.at = @ + 1]

Step(code, oracle, m) ==
    IF m.at > Len(code) THEN [m EXCEPT !.result = <<"falls off the end">>]
    ELSE LET insn == code[m.at]
             a    == Operand(m, insn.v1)
             b    == Operand(m, insn.v2)
         IN CASE insn.op \in {"op", "lt"} -> Assign(m, insn, <<insn.op, a, b>>)
              [] insn.op = "copy"         -> Assign(m, insn, a)
              [] insn.op = "address_of"   -> Assign(m, insn, AddressOf(insn.v1))
              [] insn.op = "add_relative" -> Assign(m, insn, Plus(a, insn.n))
              [] insn.op = "load_relative" -> Assign(m, insn, Fetch(m, Plus(a, insn.n)))
              [] insn.op = "store_relative" ->
                   [Put(m, Plus(m.env[insn.dest], insn.n), a) EXCEPT !.at = @ + 1]
              [] insn.op = "return"       -> [m EXCEPT !.result = <<"returned", a>>]
              [] IsBranch(insn) ->
                   [m EXCEPT !.at     = IF Taken(m, insn, oracle)
                                        THEN Target(code, insn.n) ELSE @ + 1,
                             !.tests  = IF insn.op = "br" THEN @
                                        ELSE @ \cup {<<insn.id, Test(m, insn)>>},
                             !.tested = @ \cup {insn.id}]
              [] OTHER -> [m EXCEPT !.at = @ + 1]

\* A run that comes back to a position with no branch tested for the first
\* time in between goes on for ever.
RECURSIVE Run(_, _, _)
Run(code, oracle, m) ==
    LET here == <<m.at, Cardinality(m.tested)>>
    IN IF m.result # <<"running">> THEN m
       ELSE IF here \in m.passed THEN [m EXCEPT !.result = <<"loops">>]
       ELSE Run(code, oracle, Step(code, oracle, [m EXCEPT !.passed = @ \cup {here}]))

Outcome(code, oracle) == Run(code, oracle, Start)

\* A run of new code does what the run of old code does.  Branches may go, but
\* those that stay test the same terms.
SameOutcome(new, old) ==
    /\ new.result = old.result
    /\ old.result # <<"loops">> => new.stores = old.stores /\ new.tests \subseteq old.tests

SameMeaning(new, old, branches) ==
    \A oracle \in [branches -> {"taken", "not", "once"}] :
        SameOutcome(Outcome(new, oracle), Outcome(old, oracle))
=============================================================================
