----------------------------- MODULE Exceptions -----------------------------
(***************************************************************************)
(* Exceptions on one thread: the chain of "setjmp" buffers and the chain   *)
(* of backtrace records that jit_function_apply and compiled functions     *)
(* push and pop, and what the builder puts into a function for them.       *)
(*                                                                         *)
(* Both chains hang off the thread's control object, so a thread can be    *)
(* modelled alone.  Its native stack is a sequence of frames: one for each *)
(* jit_function_apply and one for each compiled function that is running.  *)
(* A function may be built again while old frames of it still run.         *)
(*                                                                         *)
(* A body, what the front end asks the builder for, is a tuple             *)
(*   <<try, calls, raises, ret, loops>>:                                   *)
(* does it use a catcher, call out, throw; how it returns ("value": by     *)
(* jit_insn_return, "ptr": by jit_insn_return_ptr, "none": never); does it *)
(* end in a tail call to itself.                                           *)
(***************************************************************************)
EXTENDS Integers, Sequences

CONSTANTS Function,      \* the functions of the context
          Body,          \* the bodies the front end may build for each
          Recompilable,  \* the functions that may be built again
          MaxDepth,      \* bound on the native stack
          MaxBuilds      \* bound on the number of builds

ASSUME ExceptionsAssumption ==
  /\ Recompilable \subseteq Function
  /\ \A f \in Function : Body[f] \subseteq
       BOOLEAN \X BOOLEAN \X BOOLEAN \X
         {"value", "ptr", "none"} \X BOOLEAN
  /\ MaxDepth \in Nat /\ MaxBuilds \in Nat

VARIABLES code,            \* the compiled form of each function
          flags,           \* func->has_try, no_throw and no_return
          builds,          \* how often a function was built
          stack,           \* the native stack, oldest frame first
          setjmp_head,     \* the setjmp chain, oldest buffer first
          backtrace_head,  \* the backtrace chain: the frames that own a record
          lost             \* control went where no code was generated

vars == <<code, flags, builds, stack, setjmp_head, backtrace_head, lost>>

Code == [covered : BOOLEAN,    \* the front end asked for a catcher
         installs : BOOLEAN,   \* the prologue pushes a setjmp buffer
         pops : 0..2,          \* calls of _jit_unwind_pop_setjmp in a return
         tailpops : 0..1,      \* the same before a tail call
         calls : BOOLEAN, raises : BOOLEAN, returns : BOOLEAN, loops : BOOLEAN,
         nothrow : BOOLEAN, noreturn : BOOLEAN]  \* the flags of its calls

NotCompiled == [covered |-> FALSE, installs |-> FALSE, pops |-> 0,
                tailpops |-> 0, calls |-> FALSE, raises |-> FALSE,
                returns |-> FALSE, loops |-> FALSE, nothrow |-> FALSE,
                noreturn |-> FALSE]

Frame == [apply : BOOLEAN, code : Code, armed : BOOLEAN,
          pc : {"body", "call", "callout", "catch"}]

\* A compiled function that starts; "armed" is catch_pc # 0.
Started(f) == [apply |-> FALSE, code |-> code[f], armed |-> FALSE, pc |-> "body"]

ApplyFrame == [apply |-> TRUE, code |-> NotCompiled, armed |-> FALSE, pc |-> "call"]

Depth == Len(stack)
Top == stack[Depth]
Running == ~lost /\ Depth > 0 /\ Top.pc = "body"
HasBuffer(frame) == frame.apply \/ frame.code.installs

Butlast(s) == SubSeq(s, 1, Len(s) - 1)

-----------------------------------------------------------------------------
(***************************************************************************)
(* The builder.                                                            *)
(***************************************************************************)

\* jit_insn_uses_catcher does nothing for a function whose has_try is set:
\* the flag is the function's, and it outlives the builder.
Installs(f, try) == try /\ ~flags[f].has_try

Pops_Unconditional(has_try, ret) == IF ret = "ptr" THEN 2 ELSE 1
Pops_OnlyByPtr(has_try, ret) == IF has_try /\ ret = "ptr" THEN 1 ELSE 0

\* jit_insn_return pops the buffer of a function with a catcher.
\* jit_insn_return_ptr pops it too, by a call whose signature it builds in its
\* own parameter "type".  It then frees that signature and asks what it is:
\* neither a signature nor what is left of a freed one is a structure or a
\* union, so whatever the caller's type was, the default branch leaves the
\* return to jit_insn_return, which pops again.
Pops(has_try, ret) ==
  IF ~has_try THEN 0 ELSE IF ret = "ptr" THEN 2 ELSE 1

\* jit_insn_call takes the flags of its calls from the function it builds.
CallFlags(f) == [nothrow |-> flags[f].no_throw, noreturn |-> flags[f].no_return]

Compiled(f, try, calls, raises, ret, loops) ==
  LET has_try == flags[f].has_try \/ try
  IN  [covered |-> try, installs |-> Installs(f, try),
       pops |-> Pops(has_try, ret), tailpops |-> IF has_try THEN 1 ELSE 0,
       calls |-> calls, raises |-> raises, returns |-> ret # "none",
       loops |-> loops, nothrow |-> CallFlags(f).nothrow,
       noreturn |-> CallFlags(f).noreturn]

\* What compile() leaves in the function; it never clears a flag.
Flags(f, c) ==
  [has_try   |-> flags[f].has_try \/ c.covered,
   no_throw  |-> flags[f].no_throw \/ ~(c.installs \/ c.raises \/ (c.calls /\ ~c.nothrow)),
   no_return |-> flags[f].no_return \/ ~c.returns]

\* A function is built, for the first time or again, and compiled.
Build(f) == \E b \in Body[f] :
  LET c == Compiled(f, b[1], b[2], b[3], b[4], b[5])
  IN  /\ builds < MaxBuilds
      /\ code[f] = NotCompiled \/ f \in Recompilable
      /\ code' = [code EXCEPT ![f] = c]
      /\ flags' = [flags EXCEPT ![f] = Flags(f, c)]
      /\ builds' = builds + 1
      /\ UNCHANGED <<stack, setjmp_head, backtrace_head, lost>>

-----------------------------------------------------------------------------
(***************************************************************************)
(* The chains.                                                             *)
(***************************************************************************)

\* The buffer of frame i remembers the backtrace of the moment.
Buffer(i, trace) == [frame |-> i, trace |-> trace]

PushSetjmp_NoParent(chain, i, trace, frame) ==
  IF HasBuffer(frame) THEN <<Buffer(i, trace)>> ELSE chain

\* _jit_unwind_push_setjmp, for a frame that has a buffer.
PushSetjmp(chain, i, trace, frame) ==
  IF HasBuffer(frame) THEN Append(chain, Buffer(i, trace)) ELSE chain

PopSetjmp_KeepsTrace(n) ==
  LET k == IF n < Len(setjmp_head) THEN Len(setjmp_head) - n ELSE 0
  IN  [chain |-> SubSeq(setjmp_head, 1, k), trace |-> backtrace_head]

\* The chain, and the backtrace, after n calls of _jit_unwind_pop_setjmp.
PopSetjmp(n) ==
  LET k == IF n < Len(setjmp_head) THEN Len(setjmp_head) - n ELSE 0
  IN  [chain |-> SubSeq(setjmp_head, 1, k),
       trace |-> IF k < Len(setjmp_head) THEN setjmp_head[k + 1].trace
                 ELSE backtrace_head]

Calling_NotArmed(frame, site, nothrow) == [frame EXCEPT !.pc = site]

\* A call in a function that has a buffer records where it is ...
Calling(frame, site, nothrow) ==
  [frame EXCEPT !.pc = site, !.armed = @ \/ (frame.code.installs /\ ~nothrow)]

Resumed_StaysArmed(frame) == [frame EXCEPT !.pc = "body"]

\* ... and clears that again once the callee is back.
Resumed(frame) ==
  [frame EXCEPT !.pc = "body",
                !.armed = @ /\ frame.pc = "call"
                            /\ (frame.code.nothrow \/ frame.code.noreturn)]

\* The callee's frame n is gone: its caller, if any, goes on.
ReturnTo(n) ==
  IF n = 0 THEN <<>> ELSE Append(SubSeq(stack, 1, n - 1), Resumed(stack[n]))

\* After a call that may not return the builder starts a block nothing enters.
NoCodeAfter(n) == n > 0 /\ stack[n].pc = "call" /\ stack[n].code.noreturn

-----------------------------------------------------------------------------
(***************************************************************************)
(* Calls and returns.                                                      *)
(***************************************************************************)

\* jit_function_apply from C, or from a native function compiled code calls.
Apply(f) ==
  /\ ~lost /\ Depth + 2 <= MaxDepth /\ code[f] # NotCompiled
  /\ Depth > 0 => Running /\ Top.code.calls
  /\ LET below == IF Depth = 0 THEN <<>>
                  ELSE Append(Butlast(stack), Calling(Top, "callout", FALSE))
         trace == Append(backtrace_head, Depth + 1)
         chain == PushSetjmp(setjmp_head, Depth + 1, backtrace_head, ApplyFrame)
     IN  /\ stack' = below \o <<ApplyFrame, Started(f)>>
         /\ backtrace_head' = trace
         /\ setjmp_head' = PushSetjmp(chain, Depth + 2, trace, Started(f))
  /\ UNCHANGED <<code, flags, builds, lost>>

\* Compiled code calls a compiled function.
Call(f) ==
  /\ Running /\ Top.code.calls /\ Depth < MaxDepth /\ code[f] # NotCompiled
  /\ stack' = Butlast(stack) \o <<Calling(Top, "call", Top.code.nothrow), Started(f)>>
  /\ setjmp_head' = PushSetjmp(setjmp_head, Depth + 1, backtrace_head, Started(f))
  /\ UNCHANGED <<code, flags, builds, backtrace_head, lost>>

\* JIT_CALL_TAIL to another function: the frame is handed over.
TailCall(f) ==
  /\ Running /\ Top.code.calls /\ code[f] # NotCompiled
  /\ LET popped == PopSetjmp(Top.code.tailpops)
     IN  /\ stack' = Append(Butlast(stack), Started(f))
         /\ setjmp_head' = PushSetjmp(popped.chain, Depth, popped.trace, Started(f))
         /\ backtrace_head' = popped.trace
  /\ UNCHANGED <<code, flags, builds, lost>>

\* JIT_CALL_TAIL of a function to itself: a branch to a label behind the
\* block that pushes the buffer.
TailCallSelf ==
  /\ Running /\ Top.code.loops
  /\ setjmp_head' = PopSetjmp(Top.code.tailpops).chain
  /\ backtrace_head' = PopSetjmp(Top.code.tailpops).trace
  /\ UNCHANGED <<code, flags, builds, stack, lost>>

\* A compiled function returns to compiled code.
Return ==
  /\ Running /\ Top.code.returns /\ ~stack[Depth - 1].apply
  /\ stack' = ReturnTo(Depth - 1)
  /\ setjmp_head' = PopSetjmp(Top.code.pops).chain
  /\ backtrace_head' = PopSetjmp(Top.code.pops).trace
  /\ lost' = NoCodeAfter(Depth - 1)
  /\ UNCHANGED <<code, flags, builds>>

\* A compiled function returns to jit_function_apply, which returns 1.
ReturnToApply ==
  /\ Running /\ Top.code.returns /\ stack[Depth - 1].apply
  /\ stack' = ReturnTo(Depth - 2)
  /\ setjmp_head' = PopSetjmp(Top.code.pops + 1).chain
  /\ backtrace_head' = PopSetjmp(Top.code.pops + 1).trace
  /\ UNCHANGED <<code, flags, builds, lost>>

-----------------------------------------------------------------------------
(***************************************************************************)
(* Exceptions.                                                             *)
(***************************************************************************)

\* jit_exception_throw with m buffers in the chain and the native stack s: the
\* newest buffer is jumped to.  A compiled function whose catch_pc is not set
\* pops its buffer and throws again; with no buffer left the throw returns.
ThrowFrom(s, m) ==
  LET Stops(k) == LET e == setjmp_head[k].frame
                  IN  e <= Len(s) /\ (s[e].apply \/ s[e].armed)
      landing == {k \in 1..m : Stops(k) /\ \A j \in (k + 1)..m : ~Stops(j)}
  IN  IF landing = {}
      THEN /\ lost' = TRUE
           /\ UNCHANGED <<stack, setjmp_head, backtrace_head>>
      ELSE LET k == CHOOSE i \in landing : TRUE
               e == setjmp_head[k].frame
           IN  /\ backtrace_head' = setjmp_head[k].trace
               /\ stack' = IF s[e].apply THEN ReturnTo(e - 1)
                           ELSE Append(SubSeq(s, 1, e - 1),
                                       [s[e] EXCEPT !.pc = "catch", !.armed = FALSE])
               /\ setjmp_head' = SubSeq(setjmp_head, 1, IF s[e].apply THEN k - 1 ELSE k)
               /\ UNCHANGED lost

\* JIT_OP_THROW or a builtin exception in compiled code.
Throw ==
  /\ Running /\ Top.code.raises
  /\ ThrowFrom(Append(Butlast(stack), Calling(Top, "body", FALSE)), Len(setjmp_head))
  /\ UNCHANGED <<code, flags, builds>>

\* The catcher finds a clause for the exception ...
Catch ==
  /\ ~lost /\ Depth > 0 /\ Top.pc = "catch"
  /\ stack' = [stack EXCEPT ![Depth].pc = "body"]
  /\ UNCHANGED <<code, flags, builds, setjmp_head, backtrace_head, lost>>

\* ... or none: jit_insn_rethrow_unhandled.
RethrowUnhandled ==
  /\ ~lost /\ Depth > 0 /\ Top.pc = "catch"
  /\ ThrowFrom(stack, Len(PopSetjmp(1).chain))
  /\ UNCHANGED <<code, flags, builds>>

-----------------------------------------------------------------------------
Init ==
  /\ code = [f \in Function |-> NotCompiled]
  /\ flags = [f \in Function |->
                [has_try |-> FALSE, no_throw |-> FALSE, no_return |-> FALSE]]
  /\ builds = 0 /\ lost = FALSE
  /\ stack = <<>> /\ setjmp_head = <<>> /\ backtrace_head = <<>>

Next == \/ \E f \in Function : Build(f) \/ Apply(f) \/ Call(f) \/ TailCall(f)
        \/ TailCallSelf \/ Return \/ ReturnToApply
        \/ Throw \/ Catch \/ RethrowUnhandled

Spec == Init /\ [][Next]_vars

-----------------------------------------------------------------------------
\* What a front end has to keep to for all of the properties below:  a function
\* with a catcher is built once, does not return by jit_insn_return_ptr and does
\* not end in a tail call to itself;  one that is built again and calls
\* out always returns;  a body does something.  Each of the first two breaks a
\* property otherwise (README); by the last the model tells
\* compiled code from NotCompiled.
BodiesRight == \A f \in Function : \A b \in Body[f] :
  /\ b[1] => b[4] # "ptr" /\ ~b[5] /\ f \notin Recompilable
  /\ b[2] \/ b[3] \/ b[4] # "none" \/ b[5]
  /\ f \in Recompilable /\ b[2] => \A c \in Body[f] : c[4] # "none"

TypeOK ==
  /\ code \in [Function -> Code]
  /\ flags \in [Function -> [has_try : BOOLEAN, no_throw : BOOLEAN, no_return : BOOLEAN]]
  /\ builds \in 0..MaxBuilds /\ lost \in BOOLEAN
  /\ stack \in Seq(Frame) /\ Depth <= MaxDepth
  /\ \A k \in DOMAIN setjmp_head : /\ setjmp_head[k].frame \in 1..MaxDepth
                                   /\ setjmp_head[k].trace \in Seq(1..MaxDepth)
  /\ backtrace_head \in Seq(1..MaxDepth)

\* The setjmp chain is the list of the live frames that pushed a buffer, in
\* order: none is missing, none is popped twice, none outlives its frame
\* (_jit_unwind_push_setjmp against every path out of a function).  And a catch_pc
\* is set only while its function calls out: a later exception that is not under
\* a call of that function is never taken for one that is
\* (restore_eh_frame_after_call).
ChainMatchesFrames ==
  /\ \A i \in 1..Depth :
       HasBuffer(stack[i]) <=> \E k \in DOMAIN setjmp_head : setjmp_head[k].frame = i
  /\ \A k \in DOMAIN setjmp_head : setjmp_head[k].frame \in 1..Depth
  /\ \A j, k \in DOMAIN setjmp_head :
       j < k => setjmp_head[j].frame < setjmp_head[k].frame
  /\ \A i \in 1..Depth : stack[i].armed => stack[i].pc \in {"call", "callout"}

\* The backtrace holds the records of the live jit_function_apply calls and
\* no other: a record is part of its frame, and a longjmp that forgot to cut
\* the list would leave a dead one in it (jit_exception_throw).
BacktraceIsLive ==
  /\ \A i \in 1..Depth :
       stack[i].apply <=> \E k \in DOMAIN backtrace_head : backtrace_head[k] = i
  /\ \A k \in DOMAIN backtrace_head : backtrace_head[k] \in 1..Depth

\* Control never reaches a place without code: after a call that the builder
\* took for one that does not return, or after a throw that found no buffer.
NeverLost == ~lost

\* The newest jit_function_apply on the stack blocks every exception: no step
\* removes an older frame ("Function applications acts as an exception
\* blocker", jit_function_apply).
ApplyBlocks ==
  [][\A i \in 1..Depth : stack[i].apply => Len(stack') >= i - 1 /\ ~lost']_vars

\* An exception never passes over a function with a catcher that is calling
\* out: it stops there first (jit_insn_start_catcher).
CatchersCatch ==
  [][\A i \in 1..(Depth - 1) : stack[i].code.covered => Len(stack') >= i]_vars
=============================================================================
