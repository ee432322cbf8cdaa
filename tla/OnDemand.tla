------------------------------ MODULE OnDemand ------------------------------
(***************************************************************************)
(* Threads that call functions and threads that build them: on-demand      *)
(* compilation (_jit_function_compile_on_demand), jit_function_compile,    *)
(* jit_function_compile_entry and jit_function_setup_entry under the       *)
(* context's builder_lock and cache_lock, and the callers, which take no   *)
(* lock: they read is_compiled, then entry_point.                          *)
(*                                                                         *)
(* Every thread has a stack of frames; the top frame's pc is the thread's. *)
(* A step is one access to what threads share.  The generation of code is  *)
(* one step under cache_lock (module CodeCache has its restarts) and       *)
(* exceptions drop the stack down to the application (module Exceptions).  *)
(***************************************************************************)
EXTENDS Integers, Sequences, FiniteSets

CONSTANTS Thread, NoThread,
          Function,
          WithCompiler,   \* functions whose on_demand compiler is set
          Helper,         \* what else the on-demand compiler of each may build
          Recompilable,   \* functions the front end may build again
          Tiered,         \* functions it compiles with compile_entry
          MaxWork,        \* bound on what each thread starts
          MaxDepth,       \* bound on the depth of each stack
          MaxCode         \* methods that fit the cache

ASSUME OnDemandAssumption ==
  /\ NoThread \notin Thread
  /\ WithCompiler \subseteq Function /\ Recompilable \subseteq Function
  /\ Tiered \subseteq Function
  /\ Helper \in [Function -> SUBSET Function]
  /\ \A f \in Function : f \notin Helper[f]
  /\ MaxWork \in Nat /\ MaxDepth \in Nat /\ MaxCode \in Nat

VARIABLES builder_lock, cache_lock,
          builder,       \* does func->builder exist
          is_compiled,
          entry_point,   \* index of a method in code; 0 is the redirector
          code,          \* the finished methods, by the function they belong to
          stack,         \* the frames of each thread, oldest first
          result,        \* what the last call of each thread returned: OK or not
          pending,       \* the function and the entry a thread got from compile_entry
          work           \* what each thread may still start

shared == <<builder_lock, cache_lock, builder, is_compiled, entry_point, code>>
local == <<stack, result, pending, work>>
vars == <<shared, local>>

Redirector == 0

Pc == {"entry", "enter",                                             \* apply
       "run",                                                        \* code
       "lock", "check", "callback", "returned", "built", "compiled",
       "free", "unlock",                                             \* driver
       "begin", "clock", "gen", "cunlock", "cfree", "setentry", "setflag",
       "ulock", "user", "hold", "sentry", "sflag", "sfree"}          \* front end

Frame == [pc : Pc, fn : Function, entry : 0..MaxCode]
At(pc, f, e) == [pc |-> pc, fn |-> f, entry |-> e]

Top(t) == stack[t][Len(stack[t])]
Under(t) == SubSeq(stack[t], 1, Len(stack[t]) - 1)
Is(t, pc) == stack[t] # <<>> /\ Top(t).pc = pc

\* The top frame of t becomes frame; frame is called, and comes back to pc;
\* the top frame is left.
Becomes(t, frame) == stack' = [stack EXCEPT ![t] = Append(Under(t), frame)]
Calls(t, pc, frame) ==
  stack' = [stack EXCEPT ![t] = Under(t) \o <<[Top(t) EXCEPT !.pc = pc], frame>>]
Leaves(t) == stack' = [stack EXCEPT ![t] = Under(t)]
Goto(t, pc) == Becomes(t, [Top(t) EXCEPT !.pc = pc])

Starts(t) == work[t] > 0 /\ work' = [work EXCEPT ![t] = @ - 1]
Returns(t, ok) == result' = [result EXCEPT ![t] = ok]

-----------------------------------------------------------------------------
(***************************************************************************)
(* Callers.                                                                *)
(***************************************************************************)

\* jit_function_apply from C code.
Apply(t, f) ==
  /\ stack[t] = <<>> /\ Starts(t)
  /\ stack' = [stack EXCEPT ![t] = <<At("entry", f, 0)>>]
  /\ UNCHANGED <<shared, result, pending>>

\* It reads is_compiled and calls the on-demand driver ...
ApplyReadsFlag(t) ==
  /\ Is(t, "entry")
  /\ IF is_compiled[Top(t).fn] THEN Goto(t, "enter")
     ELSE Calls(t, "entry", At("lock", Top(t).fn, 0))
  /\ UNCHANGED <<shared, result, pending, work>>

\* Control goes to entry e of f: to its code, or to the redirector, which
\* calls the driver and jumps to what that returns.
Goes(f, e) == IF e = Redirector THEN At("lock", f, 0) ELSE At("run", f, e)

\* ... and then jumps to func->entry_point, whatever the driver returned.
ApplyEnters(t) ==
  /\ Is(t, "enter")
  /\ Calls(t, "enter", Goes(Top(t).fn, entry_point[Top(t).fn]))
  /\ UNCHANGED <<shared, result, pending, work>>

\* Compiled code calls g through its indirector, which jumps to entry_point.
RunCalls(t, g) ==
  /\ Is(t, "run") /\ Len(stack[t]) < MaxDepth /\ Starts(t)
  /\ Calls(t, "run", Goes(g, entry_point[g]))
  /\ UNCHANGED <<shared, result, pending>>

RunReturns(t) ==
  /\ Is(t, "run")
  /\ stack' = [stack EXCEPT ![t] = IF Len(@) = 2 THEN <<>> ELSE Under(t)]
  /\ UNCHANGED <<shared, result, pending, work>>

\* An exception nobody catches ends at the application.
RunThrows(t) ==
  /\ Is(t, "run")
  /\ stack' = [stack EXCEPT ![t] = <<>>]
  /\ UNCHANGED <<shared, result, pending, work>>

-----------------------------------------------------------------------------
(***************************************************************************)
(* The on-demand driver.                                                   *)
(***************************************************************************)

\* jit_context_build_start.
DriverLocks(t) ==
  /\ Is(t, "lock") /\ builder_lock = NoThread
  /\ builder_lock' = t /\ Goto(t, "check")
  /\ UNCHANGED <<cache_lock, builder, is_compiled, entry_point, code,
                 result, pending, work>>

\* A mutant that does not look again.
DriverChecks_NoRecheck(t) ==
  /\ Is(t, "check")
  /\ Returns(t, Top(t).fn \in WithCompiler)
  /\ Goto(t, IF Top(t).fn \in WithCompiler THEN "callback" ELSE "unlock")
  /\ UNCHANGED <<shared, pending, work>>

\* Somebody else may have compiled the function meanwhile; a function
\* without an on-demand compiler cannot be compiled.
DriverChecks(t) ==
  LET f == Top(t).fn
  IN  /\ Is(t, "check")
      /\ Returns(t, is_compiled[f] \/ f \in WithCompiler)
      /\ IF is_compiled[f] THEN Becomes(t, At("unlock", f, entry_point[f]))
         ELSE Goto(t, IF f \in WithCompiler THEN "callback" ELSE "unlock")
      /\ UNCHANGED <<shared, pending, work>>

\* The on-demand compiler says OK, with instructions built or, in error,
\* without, or it reports a failure.
CallbackReturns(t) ==
  LET f == Top(t).fn
  IN  /\ Is(t, "callback")
      /\ \E built, ok \in BOOLEAN :
           /\ builder' = [builder EXCEPT ![f] = @ \/ built]
           /\ Returns(t, ok)
           /\ Goto(t, IF ok THEN "built" ELSE "free")
      /\ UNCHANGED <<builder_lock, cache_lock, is_compiled, entry_point, code,
                     pending, work>>

\* It compiles the function itself and passes the result on, ...
CallbackCompiles(t) ==
  LET f == Top(t).fn
  IN  /\ Is(t, "callback")
      /\ builder' = [builder EXCEPT ![f] = TRUE]
      /\ Calls(t, "returned", At("begin", f, 0))
      /\ UNCHANGED <<builder_lock, cache_lock, is_compiled, entry_point, code,
                     result, pending, work>>

CallbackCompiled(t) ==
  /\ Is(t, "returned")
  /\ Goto(t, IF result[t] THEN "built" ELSE "free")
  /\ UNCHANGED <<shared, result, pending, work>>

\* ... or builds another function in the same go.
CallbackHelps(t, g) ==
  /\ Is(t, "callback") /\ g \in Helper[Top(t).fn] /\ ~is_compiled[g] /\ Starts(t)
  /\ builder' = [builder EXCEPT ![g] = TRUE]
  /\ Calls(t, "callback", At("begin", g, 0))
  /\ UNCHANGED <<builder_lock, cache_lock, is_compiled, entry_point, code,
                 result, pending>>

\* The driver compiles what the on-demand compiler only built.
DriverCompiles(t) ==
  LET f == Top(t).fn
  IN  /\ Is(t, "built")
      /\ IF is_compiled[f] THEN Becomes(t, At("free", f, entry_point[f]))
         ELSE Calls(t, "compiled", At("begin", f, 0))
      /\ UNCHANGED <<shared, result, pending, work>>

DriverCompiled(t) ==
  LET f == Top(t).fn
  IN  /\ Is(t, "compiled")
      /\ Becomes(t, At("free", f, IF result[t] THEN entry_point[f] ELSE 0))
      /\ UNCHANGED <<shared, result, pending, work>>

DriverFrees(t) ==
  /\ Is(t, "free")
  /\ builder' = [builder EXCEPT ![Top(t).fn] = FALSE]
  /\ Goto(t, "unlock")
  /\ UNCHANGED <<builder_lock, cache_lock, is_compiled, entry_point, code,
                 result, pending, work>>

\* A mutant that throws before it unlocks.
DriverUnlocks_ThrowsFirst(t) ==
  /\ Is(t, "unlock")
  /\ IF result[t] THEN /\ builder_lock' = NoThread
                       /\ Becomes(t, Goes(Top(t).fn, Top(t).entry))
     ELSE stack' = [stack EXCEPT ![t] = <<>>] /\ UNCHANGED builder_lock
  /\ UNCHANGED <<cache_lock, builder, is_compiled, entry_point, code,
                 result, pending, work>>

\* jit_context_build_end; the entry goes to the application or the
\* redirector, an error is thrown.
DriverUnlocks(t) ==
  LET f == Top(t).fn
      below == Under(t)[Len(stack[t]) - 1]
  IN  /\ Is(t, "unlock")
      /\ builder_lock' = NoThread
      /\ stack' = [stack EXCEPT ![t] =
           IF ~result[t] THEN <<>>
           ELSE IF below.pc = "entry" THEN <<[below EXCEPT !.pc = "enter"]>>
           ELSE Append(Under(t), Goes(f, Top(t).entry))]
      /\ UNCHANGED <<cache_lock, builder, is_compiled, entry_point, code,
                     result, pending, work>>

-----------------------------------------------------------------------------
(***************************************************************************)
(* jit_function_compile and jit_function_compile_entry.                    *)
(***************************************************************************)

\* Nothing to compile, or the analysis before cache_lock is taken.
CompileBegins(t) ==
  LET f == Top(t).fn
  IN  /\ Is(t, "begin")
      /\ IF builder[f] THEN Goto(t, "clock") /\ UNCHANGED result
         ELSE Leaves(t) /\ Returns(t, is_compiled[f])
      /\ UNCHANGED <<shared, pending, work>>

CompileLocks(t) ==
  /\ Is(t, "clock") /\ cache_lock = NoThread
  /\ cache_lock' = t /\ Goto(t, "gen")
  /\ UNCHANGED <<builder_lock, builder, is_compiled, entry_point, code,
                 result, pending, work>>

\* The code is generated and published in the cache, or does not fit.
Generates(t) ==
  LET f == Top(t).fn
      n == Len(code) + 1
  IN  /\ Is(t, "gen")
      /\ \/ /\ n <= MaxCode
            /\ code' = Append(code, f) /\ Becomes(t, At("cunlock", f, n))
         \/ code' = code /\ Becomes(t, At("cunlock", f, 0))
      /\ UNCHANGED <<builder_lock, cache_lock, builder, is_compiled, entry_point,
                     result, pending, work>>

\* A mutant whose failure path keeps cache_lock.
CompileUnlocks_NotOnFailure(t) ==
  /\ Is(t, "cunlock")
  /\ IF Top(t).entry # 0
     THEN Goto(t, "cfree") /\ cache_lock' = NoThread /\ UNCHANGED result
     ELSE Leaves(t) /\ Returns(t, FALSE) /\ UNCHANGED cache_lock
  /\ UNCHANGED <<builder_lock, builder, is_compiled, entry_point, code,
                 pending, work>>

\* Both ways out release cache_lock.
CompileUnlocks(t) ==
  /\ Is(t, "cunlock") /\ cache_lock' = NoThread
  /\ IF Top(t).entry # 0 THEN Goto(t, "cfree") /\ UNCHANGED result
     ELSE Leaves(t) /\ Returns(t, FALSE)
  /\ UNCHANGED <<builder_lock, builder, is_compiled, entry_point, code,
                 pending, work>>

\* The builder goes; compile_entry then returns the entry to its caller.
CompileFrees(t) ==
  LET f == Top(t).fn
  IN  /\ Is(t, "cfree")
      /\ builder' = [builder EXCEPT ![f] = FALSE]
      /\ IF Under(t)[Len(stack[t]) - 1].pc = "hold"
         THEN /\ Leaves(t) /\ Returns(t, TRUE)
              /\ pending' = [pending EXCEPT ![t] = <<f, Top(t).entry>>]
         ELSE Goto(t, "setentry") /\ UNCHANGED <<result, pending>>
      /\ UNCHANGED <<builder_lock, cache_lock, is_compiled, entry_point, code, work>>

\* A mutant that sets is_compiled while entry_point is still the old one.
CompileSetsEntry_FlagFirst(t) ==
  /\ Is(t, "setentry")
  /\ is_compiled' = [is_compiled EXCEPT ![Top(t).fn] = TRUE]
  /\ Goto(t, "setflag")
  /\ UNCHANGED <<builder_lock, cache_lock, builder, entry_point, code,
                 result, pending, work>>

CompileSetsEntry(t) ==
  /\ Is(t, "setentry")
  /\ entry_point' = [entry_point EXCEPT ![Top(t).fn] = Top(t).entry]
  /\ Goto(t, "setflag")
  /\ UNCHANGED <<builder_lock, cache_lock, builder, is_compiled, code,
                 result, pending, work>>

CompileSetsFlag(t) ==
  /\ Is(t, "setflag")
  /\ is_compiled' = [is_compiled EXCEPT ![Top(t).fn] = TRUE]
  /\ Leaves(t) /\ Returns(t, TRUE)
  /\ UNCHANGED <<builder_lock, cache_lock, builder, entry_point, code, pending, work>>

-----------------------------------------------------------------------------
(***************************************************************************)
(* The front end, between jit_context_build_start and _build_end.          *)
(***************************************************************************)
UserStarts(t, f) ==
  /\ stack[t] = <<>> /\ Starts(t)
  /\ stack' = [stack EXCEPT ![t] = <<At("ulock", f, 0)>>]
  /\ UNCHANGED <<shared, result, pending>>

UserLocks(t) ==
  /\ Is(t, "ulock") /\ builder_lock = NoThread
  /\ builder_lock' = t /\ Goto(t, "user")
  /\ UNCHANGED <<cache_lock, builder, is_compiled, entry_point, code,
                 result, pending, work>>

\* The first instruction makes the builder.
UserBuilds(t) ==
  LET f == Top(t).fn
  IN  /\ Is(t, "user") /\ Starts(t)
      /\ is_compiled[f] => f \in Recompilable
      /\ builder' = [builder EXCEPT ![f] = TRUE]
      /\ UNCHANGED <<builder_lock, cache_lock, is_compiled, entry_point, code,
                     stack, result, pending>>

UserCompiles(t) ==
  LET f == Top(t).fn
  IN  /\ Is(t, "user") /\ builder[f] /\ Starts(t)
      /\ Calls(t, "user", At("begin", f, 0))
      /\ UNCHANGED <<shared, result, pending>>

\* jit_function_compile_entry, which stores a null entry before anything else.
UserCompilesEntry(t) ==
  LET f == Top(t).fn
  IN  /\ Is(t, "user") /\ builder[f] /\ f \in Tiered /\ Starts(t)
      /\ Calls(t, "hold", At("begin", f, 0))
      /\ pending' = [pending EXCEPT ![t] = <<f, 0>>]
      /\ UNCHANGED <<shared, result>>

UserHolds(t) ==
  /\ Is(t, "hold") /\ Goto(t, "user")
  /\ UNCHANGED <<shared, result, pending, work>>

\* A mutant that takes a null entry for an entry.
UserSetsUp_NoNullCheck(t) == \E f \in Function, e \in 0..MaxCode :
  /\ Is(t, "user") /\ pending[t] = <<f, e>>
  /\ Calls(t, "user", At("sentry", f, e))
  /\ pending' = [pending EXCEPT ![t] = <<>>]
  /\ UNCHANGED <<shared, result, work>>

\* jit_function_setup_entry with what compile_entry returned; a null entry
\* only frees the builder.
UserSetsUp(t) == \E f \in Function, e \in 0..MaxCode :
  /\ Is(t, "user") /\ pending[t] = <<f, e>>
  /\ Calls(t, "user", At(IF e # 0 THEN "sentry" ELSE "sfree", f, e))
  /\ pending' = [pending EXCEPT ![t] = <<>>]
  /\ UNCHANGED <<shared, result, work>>

SetupEntry(t) ==
  /\ Is(t, "sentry")
  /\ entry_point' = [entry_point EXCEPT ![Top(t).fn] = Top(t).entry]
  /\ Goto(t, "sflag")
  /\ UNCHANGED <<builder_lock, cache_lock, builder, is_compiled, code,
                 result, pending, work>>

SetupFlag(t) ==
  /\ Is(t, "sflag")
  /\ is_compiled' = [is_compiled EXCEPT ![Top(t).fn] = TRUE]
  /\ Goto(t, "sfree")
  /\ UNCHANGED <<builder_lock, cache_lock, builder, entry_point, code,
                 result, pending, work>>

SetupFrees(t) ==
  /\ Is(t, "sfree")
  /\ builder' = [builder EXCEPT ![Top(t).fn] = FALSE]
  /\ Leaves(t)
  /\ UNCHANGED <<builder_lock, cache_lock, is_compiled, entry_point, code,
                 result, pending, work>>

\* A mutant that abandons the function itself.
UserAbandons_Entirely(t) ==
  LET f == Top(t).fn
  IN  /\ Is(t, "user") /\ builder[f]
      /\ builder' = [builder EXCEPT ![f] = FALSE]
      /\ is_compiled' = [is_compiled EXCEPT ![f] = FALSE]
      /\ entry_point' = [entry_point EXCEPT ![f] = Redirector]
      /\ UNCHANGED <<builder_lock, cache_lock, code, local>>

\* jit_function_abandon of a function that is being built again.
UserAbandons(t) ==
  LET f == Top(t).fn
  IN  /\ Is(t, "user") /\ builder[f] /\ is_compiled[f]
      /\ builder' = [builder EXCEPT ![f] = FALSE]
      /\ UNCHANGED <<builder_lock, cache_lock, is_compiled, entry_point, code, local>>

UserEnds(t) ==
  /\ Is(t, "user")
  /\ builder_lock' = NoThread /\ Leaves(t)
  /\ UNCHANGED <<cache_lock, builder, is_compiled, entry_point, code,
                 result, pending, work>>

-----------------------------------------------------------------------------
Init ==
  /\ builder_lock = NoThread /\ cache_lock = NoThread
  /\ builder = [f \in Function |-> FALSE]
  /\ is_compiled = [f \in Function |-> FALSE]
  /\ entry_point = [f \in Function |-> Redirector]
  /\ code = <<>>
  /\ stack = [t \in Thread |-> <<>>]
  /\ result = [t \in Thread |-> TRUE]
  /\ pending = [t \in Thread |-> <<>>]
  /\ work = [t \in Thread |-> MaxWork]

Caller(t) == \/ \E f \in Function : Apply(t, f) \/ RunCalls(t, f)
             \/ ApplyReadsFlag(t) \/ ApplyEnters(t)
             \/ RunReturns(t) \/ RunThrows(t)

Driver(t) == \/ DriverLocks(t) \/ DriverChecks(t) \/ DriverCompiles(t)
             \/ CallbackReturns(t) \/ CallbackCompiles(t) \/ CallbackCompiled(t)
             \/ \E g \in Function : CallbackHelps(t, g)
             \/ DriverCompiled(t) \/ DriverFrees(t) \/ DriverUnlocks(t)

Compiler(t) == \/ CompileBegins(t) \/ CompileLocks(t) \/ Generates(t)
               \/ CompileUnlocks(t) \/ CompileFrees(t)
               \/ CompileSetsEntry(t) \/ CompileSetsFlag(t)

FrontEnd(t) == \/ \E f \in Function : UserStarts(t, f)
               \/ UserLocks(t) \/ UserBuilds(t) \/ UserCompiles(t)
               \/ UserCompilesEntry(t) \/ UserHolds(t) \/ UserSetsUp(t)
               \/ SetupEntry(t) \/ SetupFlag(t) \/ SetupFrees(t)
               \/ UserAbandons(t) \/ UserEnds(t)

Step(t) == Caller(t) \/ Driver(t) \/ Compiler(t) \/ FrontEnd(t)

Next == \E t \in Thread : Step(t)

\* A thread that can take a step takes one: the scheduler runs every thread,
\* compiled code and compilers end, and a front end ends its build.
Spec == Init /\ [][Next]_vars /\ \A t \in Thread : WF_vars(Step(t))

-----------------------------------------------------------------------------
Building == {"check", "callback", "returned", "built", "compiled", "free",
             "unlock", "user", "hold"}

TypeOK ==
  /\ builder_lock \in Thread \cup {NoThread}
  /\ cache_lock \in Thread \cup {NoThread}
  /\ builder \in [Function -> BOOLEAN] /\ is_compiled \in [Function -> BOOLEAN]
  /\ entry_point \in [Function -> 0..MaxCode]
  /\ code \in Seq(Function) /\ Len(code) <= MaxCode
  /\ stack \in [Thread -> Seq(Frame)] /\ result \in [Thread -> BOOLEAN]
  /\ pending \in [Thread -> {<<>>} \cup (Function \X (0..MaxCode))]
  /\ work \in [Thread -> 0..MaxWork]

\* A thread has builder_lock exactly while it builds, and cache_lock exactly
\* while it writes to the cache: no way out of the driver, of compile() or of
\* an exception keeps a lock, and nobody touches a builder without it.
LocksMatch == \A t \in Thread :
  /\ builder_lock = t <=> \E i \in 1..Len(stack[t]) : stack[t][i].pc \in Building
  /\ cache_lock = t <=> Is(t, "gen") \/ Is(t, "cunlock")

\* Whatever a caller reads, and whenever, it runs finished code of the
\* function it called, although it takes no lock (jit_function_apply_vararg,
\* the redirector and the indirector).
RunsItsCode ==
  /\ \A t \in Thread : \A i \in 1..Len(stack[t]) :
       stack[t][i].pc = "run" => /\ stack[t][i].entry \in 1..Len(code)
                                 /\ code[stack[t][i].entry] = stack[t][i].fn
  /\ \A f \in Function : is_compiled[f] => entry_point[f] # Redirector

\* However many threads find a function uncompiled, it is compiled once: the
\* driver looks again once it has the lock.
CompiledOnce == \A f \in Function \ (Recompilable \cup Tiered) :
  Cardinality({i \in 1..Len(code) : code[i] = f}) <= 1

\* A function that was compiled stays so, whatever a later build does
\* ("Once the function has been compiled successfully, it can no longer be
\* abandoned", jit_function_compile; "If entry_point is null then it only
\* frees the resources", jit_function_setup_entry).
StaysCompiled ==
  [][\A f \in Function : /\ is_compiled[f] => is_compiled'[f]
                         /\ entry_point[f] # Redirector => entry_point'[f] # Redirector]_vars

\* Every call and every build ends: no thread waits forever for a lock.
EveryoneEnds == \A t \in Thread : stack[t] # <<>> ~> stack[t] = <<>>
=============================================================================
