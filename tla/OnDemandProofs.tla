--------------------------- MODULE OnDemandProofs ---------------------------
(***************************************************************************)
(* Locks, entry points and compilations of OnDemand for any set of threads *)
(* and functions, any on-demand compilers and any depth of calls: the      *)
(* inductive invariant BuildInv, and what follows from it.                 *)
(*                                                                         *)
(* Nothing a caller reads is guarded by a lock, so the invariant says what *)
(* every frame of every stack may hold (FramesRight), and what builder_lock*)
(* guards is said of the thread that has it: by its shape (ShapeInv) a     *)
(* stack has the lock at its top or nowhere (LocksInv).                    *)
(***************************************************************************)
EXTENDS OnDemand, SequenceTheorems, FiniteSetTheorems, TLAPS

-----------------------------------------------------------------------------
\* What a frame is: the C code at the bottom, the driver, the compiler and
\* jit_function_setup_entry.
BottomPc == {"entry", "enter", "ulock", "user", "hold"}
DriverPc == {"lock", "check", "callback", "returned", "built", "compiled",
             "free", "unlock"}
CompilePc == {"begin", "clock", "gen", "cunlock", "cfree", "setentry", "setflag"}
SetupPc == {"sentry", "sflag", "sfree"}

\* Where the thread of the top frame has builder_lock.
UnderLock == Building \cup CompilePc \cup SetupPc

\* hi may be called from lo.
Above(lo, hi) ==
  \/ lo.pc = "entry" /\ hi.pc \in DriverPc
  \/ lo.pc \in {"enter", "run"} /\ hi.pc \in DriverPc \cup {"run"}
  \/ lo.pc \in {"returned", "compiled", "user"} /\ hi.pc \in CompilePc
  \/ lo.pc = "callback" /\ hi.pc \in CompilePc /\ hi.fn # lo.fn
  \/ lo.pc = "hold" /\ hi.pc \in CompilePc /\ hi.fn \in Tiered
  \/ lo.pc = "user" /\ hi.pc \in SetupPc /\ hi.fn \in Tiered

Shape(s) ==
  /\ \A i \in 1..Len(s) : s[i].pc \in BottomPc <=> i = 1
  /\ \A i \in 1..(Len(s) - 1) : Above(s[i], s[i + 1])

ShapeInv == \A t \in Thread : Shape(stack[t])

\* Where a thread is.
PcOf(t) == IF stack[t] = <<>> THEN "idle" ELSE Top(t).pc

\* A lock belongs to the thread whose top frame says so.
LocksInv == \A t \in Thread :
  /\ builder_lock = t <=> PcOf(t) \in UnderLock
  /\ cache_lock = t <=> PcOf(t) \in {"gen", "cunlock"}

\* Entry e is finished code of f among the methods c.
CodeOf(c, f, e) == e \in 1..Len(c) /\ c[e] = f

\* What a frame may hold while the methods are c and the entry points ep; the
\* on-demand compiler works on a function that is not compiled (ic).
FrameRight(frame, c, ep, ic) ==
  /\ frame.entry # 0 => CodeOf(c, frame.fn, frame.entry)
  /\ frame.pc \in {"run", "cfree", "setentry", "setflag", "sentry", "sflag"}
       => frame.entry # 0
  /\ frame.pc \in {"setflag", "sflag"} => ep[frame.fn] # 0
  /\ frame.pc = "callback" => ~ic[frame.fn]

FramesRight == \A t \in Thread : \A i \in 1..Len(stack[t]) :
  FrameRight(stack[t][i], code, entry_point, is_compiled)

EntriesRight == \A f \in Function :
  /\ entry_point[f] # 0 => CodeOf(code, f, entry_point[f])
  /\ is_compiled[f] => entry_point[f] # 0

PendingRight == \A t \in Thread : \A f \in Function, e \in 0..MaxCode :
  pending[t] = <<f, e>> => f \in Tiered /\ (e # 0 => CodeOf(code, f, e))

\* Functions that nobody builds again and that only compile() compiles.
Once == Function \ (Recompilable \cup Tiered)

\* t has generated code of f and not said so yet.
Announcing(t, f) ==
  /\ stack[t] # <<>> /\ Top(t).fn = f
  /\ \/ PcOf(t) = "cunlock" /\ Top(t).entry # 0
     \/ PcOf(t) \in {"cfree", "setentry", "setflag"}

\* The compiler has instructions until it frees them, and then has none.
BuilderInv == \A t \in Thread :
  /\ PcOf(t) \in {"clock", "gen", "cunlock", "cfree"} => builder[Top(t).fn]
  /\ PcOf(t) \in {"setentry", "setflag"} => ~builder[Top(t).fn]

\* A function that is never built again has no instructions once compiled.
UncompiledInv == \A f \in Once : builder[f] => ~is_compiled[f]

OnceInv == \A f \in Once :
  /\ \A i \in 1..Len(code) : code[i] = f => is_compiled[f] \/ \E t \in Thread : Announcing(t, f)
  /\ \A i, j \in 1..Len(code) : code[i] = f /\ code[j] = f => i = j

BuildInv == /\ TypeOK /\ ShapeInv /\ LocksInv
            /\ FramesRight /\ EntriesRight /\ PendingRight
            /\ BuilderInv /\ UncompiledInv /\ OnceInv

-----------------------------------------------------------------------------
(***************************************************************************)
(* The operations on a stack.                                              *)
(***************************************************************************)
\* What lies under the top frame.
LEMMA UnderStack ==
    ASSUME TypeOK, NEW t \in Thread, stack[t] # <<>>
    PROVE  /\ Len(stack[t]) \in Nat \ {0} /\ Top(t) \in Frame
           /\ Under(t) \in Seq(Frame) /\ Len(Under(t)) = Len(stack[t]) - 1
           /\ \A i \in 1..(Len(stack[t]) - 1) :
                Under(t)[i] = stack[t][i] /\ stack[t][i] \in Frame
  <1> DEFINE s == stack[t]
             n == Len(s) - 1
             u == SubSeq(s, 1, n)
  <1>1. s \in Seq(Frame) /\ s # <<>>
    BY DEF TypeOK
  <1>2. Len(s) \in Nat \ {0} /\ s[Len(s)] \in Frame
    BY <1>1
  <1>3. n \in Int /\ n >= 0 /\ \A i \in 1..n : s[i] \in Frame
    BY <1>1
  <1>4. Top(t) = s[Len(s)] /\ Under(t) = u /\ n = Len(s) - 1
    BY DEF Top, Under
  <1> HIDE DEF s, n
  <1>5. /\ u \in Seq(Frame)
        /\ Len(u) = IF 1 <= n THEN n - 1 + 1 ELSE 0
        /\ \A i \in 1..(n - 1 + 1) : u[i] = s[1 + i - 1]
    BY <1>3, SubSeqProperties
  <1> HIDE DEF u
  <1>6. Len(u) = n /\ \A i \in 1..n : u[i] = s[i]
    BY <1>3, <1>5
  <1>7. s = stack[t]
    BY DEF s
  <1> QED
    BY <1>2, <1>3, <1>4, <1>5, <1>6, <1>7

\* The rest of the threads keep their stacks.
OthersKeep(t) == \A u \in Thread : u # t => stack'[u] = stack[u]

\* The top frame becomes another of the same place.
LEMMA BecomesStack ==
    ASSUME TypeOK, NEW t \in Thread, stack[t] # <<>>, NEW frame \in Frame,
           Becomes(t, frame)
    PROVE  /\ stack' \in [Thread -> Seq(Frame)] /\ OthersKeep(t)
           /\ stack'[t] # <<>> /\ Len(stack'[t]) = Len(stack[t])
           /\ stack'[t][Len(stack[t])] = frame /\ Top(t)' = frame
           /\ \A i \in 1..(Len(stack[t]) - 1) : stack'[t][i] = stack[t][i]
  <1> DEFINE s == Append(Under(t), frame)
  <1>1. stack \in [Thread -> Seq(Frame)]
    BY DEF TypeOK
  <1>2. /\ s \in Seq(Frame) /\ Len(s) = Len(stack[t]) /\ s[Len(stack[t])] = frame
        /\ \A i \in 1..(Len(stack[t]) - 1) : s[i] = stack[t][i]
    BY UnderStack
  <1>3. stack' = [stack EXCEPT ![t] = s]
    BY DEF Becomes
  <1> HIDE DEF s
  <1>4. stack'[t] = s /\ stack' \in [Thread -> Seq(Frame)] /\ OthersKeep(t)
    BY <1>1, <1>2, <1>3 DEF OthersKeep
  <1>5. s # <<>>
    BY <1>2, UnderStack
  <1>6. Top(t)' = frame
    BY <1>2, <1>4 DEF Top
  <1> QED
    BY <1>2, <1>4, <1>5, <1>6

\* The top frame goes on at pc when the one on top of it is left.
LEMMA CallsStack ==
    ASSUME TypeOK, NEW t \in Thread, stack[t] # <<>>, NEW pc \in Pc,
           NEW frame \in Frame, Calls(t, pc, frame)
    PROVE  /\ stack' \in [Thread -> Seq(Frame)] /\ OthersKeep(t)
           /\ stack'[t] # <<>> /\ Len(stack'[t]) = Len(stack[t]) + 1
           /\ stack'[t][Len(stack[t])] = [Top(t) EXCEPT !.pc = pc]
           /\ stack'[t][Len(stack[t]) + 1] = frame /\ Top(t)' = frame
           /\ \A i \in 1..(Len(stack[t]) - 1) : stack'[t][i] = stack[t][i]
  <1> DEFINE lo == [Top(t) EXCEPT !.pc = pc]
             s == Under(t) \o <<lo, frame>>
             n == Len(stack[t])
  <1>1. stack \in [Thread -> Seq(Frame)]
    BY DEF TypeOK
  <1>2. lo \in Frame /\ n \in Nat \ {0}
    BY UnderStack DEF Frame
  <1>3. stack' = [stack EXCEPT ![t] = s]
    BY DEF Calls
  <1>4. n = Len(stack[t]) /\ lo = [Top(t) EXCEPT !.pc = pc]
    OBVIOUS
  <1> HIDE DEF lo
  <1>5. /\ s \in Seq(Frame) /\ Len(s) = n + 1 /\ s[n] = lo /\ s[n + 1] = frame
        /\ \A i \in 1..(n - 1) : s[i] = stack[t][i]
    BY <1>2, UnderStack
  <1> HIDE DEF s, n
  <1>6. stack'[t] = s /\ stack' \in [Thread -> Seq(Frame)] /\ OthersKeep(t)
    BY <1>1, <1>3, <1>5 DEF OthersKeep
  <1>7. s # <<>>
    BY <1>2, <1>5
  <1>8. Top(t)' = frame
    BY <1>5, <1>6 DEF Top
  <1> QED
    BY <1>4, <1>5, <1>6, <1>7, <1>8

\* The top frame is left.
LEMMA LeavesStack ==
    ASSUME TypeOK, NEW t \in Thread, stack[t] # <<>>, Leaves(t)
    PROVE  /\ stack' \in [Thread -> Seq(Frame)] /\ OthersKeep(t)
           /\ Len(stack'[t]) = Len(stack[t]) - 1
           /\ \A i \in 1..(Len(stack[t]) - 1) : stack'[t][i] = stack[t][i]
           /\ Len(stack[t]) > 1 =>
                stack'[t] # <<>> /\ Top(t)' = stack[t][Len(stack[t]) - 1]
  <1>1. stack \in [Thread -> Seq(Frame)]
    BY DEF TypeOK
  <1>2. stack'[t] = Under(t) /\ OthersKeep(t) /\ stack' \in [Thread -> Seq(Frame)]
    BY <1>1, UnderStack DEF Leaves, OthersKeep
  <1>3. ASSUME Len(stack[t]) > 1
        PROVE  stack'[t] # <<>> /\ Top(t)' = stack[t][Len(stack[t]) - 1]
    BY <1>2, <1>3, UnderStack DEF Top
  <1> QED
    BY <1>2, <1>3, UnderStack

\* A thread that does nothing starts something, or one drops everything.
LEMMA OnlyStack ==
    ASSUME TypeOK, NEW t \in Thread, NEW frame \in Frame,
           stack' = [stack EXCEPT ![t] = <<frame>>]
    PROVE  /\ stack' \in [Thread -> Seq(Frame)] /\ OthersKeep(t)
           /\ stack'[t] # <<>> /\ Len(stack'[t]) = 1
           /\ stack'[t][1] = frame /\ Top(t)' = frame
  <1>1. stack \in [Thread -> Seq(Frame)]
    BY DEF TypeOK
  <1>2. stack'[t] = <<frame>>
    BY <1>1
  <1>3. <<frame>> \in Seq(Frame) /\ Len(<<frame>>) = 1 /\ <<frame>>[1] = frame
    OBVIOUS
  <1>4. Top(t)' = frame
    BY <1>2, <1>3 DEF Top
  <1>5. stack' \in [Thread -> Seq(Frame)] /\ OthersKeep(t)
    BY <1>1, <1>3 DEF OthersKeep
  <1> QED
    BY <1>2, <1>3, <1>4, <1>5

LEMMA EmptyStack ==
    ASSUME TypeOK, NEW t \in Thread, stack' = [stack EXCEPT ![t] = <<>>]
    PROVE  /\ stack' \in [Thread -> Seq(Frame)] /\ OthersKeep(t)
           /\ stack'[t] = <<>> /\ Len(stack'[t]) = 0
  BY DEF TypeOK, OthersKeep

-----------------------------------------------------------------------------
(***************************************************************************)
(* The shape of a stack and what its frames hold, operation by operation.  *)
(***************************************************************************)
\* Where the lock can be seen in a stack: at the top, or right under the
\* compiler or jit_function_setup_entry.
LEMMA ShapeFacts ==
    ASSUME TypeOK, ShapeInv, NEW t \in Thread, stack[t] # <<>>
    PROVE  /\ Len(stack[t]) \in Nat \ {0} /\ Top(t) \in Frame
           /\ stack[t] \in Seq(Frame) /\ Top(t) = stack[t][Len(stack[t])]
           /\ Top(t).pc \in BottomPc <=> Len(stack[t]) = 1
           /\ Len(stack[t]) > 1 => /\ Above(stack[t][Len(stack[t]) - 1], Top(t))
                                   /\ stack[t][Len(stack[t]) - 1] \in Frame
                                   /\ Under(t)[Len(stack[t]) - 1] = stack[t][Len(stack[t]) - 1]
           /\ \A i \in 1..(Len(stack[t]) - 1) : stack[t][i].pc \in UnderLock =>
                i = Len(stack[t]) - 1 /\ Top(t).pc \in CompilePc \cup SetupPc
  <1> DEFINE s == stack[t]
             n == Len(s)
  <1>1. /\ s \in Seq(Frame) /\ n \in Nat \ {0} /\ Top(t) = s[n] /\ Top(t) \in Frame
        /\ \A i \in 1..(n - 1) : Under(t)[i] = s[i] /\ s[i] \in Frame
    BY UnderStack DEF Top, TypeOK
  <1>2. /\ \A i \in 1..n : s[i].pc \in BottomPc <=> i = 1
        /\ \A i \in 1..(n - 1) : Above(s[i], s[i + 1])
    BY DEF ShapeInv, Shape
  <1> HIDE DEF s, n
  <1>3. Top(t).pc \in BottomPc <=> n = 1
    BY <1>1, <1>2
  <1>4. ASSUME n > 1
        PROVE  Above(s[n - 1], Top(t)) /\ s[n - 1] \in Frame /\ Under(t)[n - 1] = s[n - 1]
    <2>1. n - 1 \in 1..(n - 1) /\ n - 1 + 1 = n
      BY <1>1, <1>4
    <2> QED
      BY <1>1, <1>2, <2>1
  <1>5. ASSUME NEW i \in 1..(n - 1), s[i].pc \in UnderLock
        PROVE  i = n - 1 /\ Top(t).pc \in CompilePc \cup SetupPc
    <2>1. Above(s[i], s[i + 1]) /\ i + 1 \in 1..n
      BY <1>1, <1>2, <1>5
    <2>2. s[i + 1].pc \in CompilePc \cup SetupPc
      BY <1>5, <2>1 DEF Above, UnderLock, Building, CompilePc, SetupPc
    <2>3. CASE i + 1 < n
      <3>1. Above(s[i + 1], s[i + 1 + 1])
        BY <1>1, <1>2, <2>3
      <3> QED
        BY <2>2, <3>1 DEF Above, CompilePc, SetupPc
    <2>4. CASE i + 1 >= n
      <3>1. i + 1 = n
        BY <1>1, <2>4
      <3> QED
        BY <1>1, <2>2, <3>1
    <2> QED
      BY <1>1, <2>3, <2>4
  <1> QED
    BY <1>1, <1>3, <1>4, <1>5 DEF s, n

\* Code is only added, an entry point does not become null, and nothing that an
\* on-demand compiler works on becomes compiled.
Grown ==
  /\ Len(code) <= Len(code') /\ \A i \in 1..Len(code) : code'[i] = code[i]
  /\ \A f \in Function : entry_point[f] # 0 => entry_point'[f] # 0
  /\ \A t \in Thread : \A i \in 1..Len(stack[t]) : stack[t][i].pc = "callback" =>
       is_compiled'[stack[t][i].fn] = is_compiled[stack[t][i].fn]

\* What a frame holds stays right.
LEMMA FrameKept ==
    ASSUME TypeOK, Grown, FramesRight, NEW t \in Thread, NEW i \in 1..Len(stack[t])
    PROVE  FrameRight(stack[t][i], code', entry_point', is_compiled')
  <1> DEFINE frame == stack[t][i]
  <1>1. frame \in Frame
    BY DEF TypeOK
  <1>2. FrameRight(frame, code, entry_point, is_compiled)
    BY DEF FramesRight
  <1>3. frame.pc = "callback" => is_compiled'[frame.fn] = is_compiled[frame.fn]
    BY DEF Grown
  <1>4. frame.fn \in Function /\ frame.entry \in Int
    BY <1>1 DEF Frame
  <1> HIDE DEF frame
  <1>5. ASSUME NEW e \in Int, CodeOf(code, frame.fn, e) PROVE CodeOf(code', frame.fn, e)
    BY <1>5 DEF Grown, CodeOf
  <1>6. entry_point[frame.fn] # 0 => entry_point'[frame.fn] # 0
    BY <1>4 DEF Grown
  <1> QED
    BY <1>2, <1>3, <1>4, <1>5, <1>6 DEF FrameRight, frame

\* The other threads are not disturbed.
LEMMA OthersKept ==
    ASSUME TypeOK, ShapeInv, FramesRight, Grown, NEW t \in Thread, OthersKeep(t),
           Shape(stack'[t]),
           \A i \in 1..Len(stack'[t]) :
             \/ FrameRight(stack'[t][i], code', entry_point', is_compiled')
             \/ i \in 1..Len(stack[t]) /\ stack'[t][i] = stack[t][i]
    PROVE  ShapeInv' /\ FramesRight'
  <1>1. ShapeInv'
    BY DEF OthersKeep, ShapeInv
  <1>2. ASSUME NEW u \in Thread, NEW i \in 1..Len(stack'[u])
        PROVE  FrameRight(stack'[u][i], code', entry_point', is_compiled')
    <2>1. ASSUME i \in 1..Len(stack[u]), stack'[u][i] = stack[u][i]
          PROVE  FrameRight(stack'[u][i], code', entry_point', is_compiled')
      BY <2>1, FrameKept
    <2> QED
      BY <2>1 DEF OthersKeep
  <1> QED
    BY <1>1, <1>2 DEF FramesRight

LEMMA BecomesKeeps ==
    ASSUME TypeOK, ShapeInv, FramesRight, Grown, NEW t \in Thread, stack[t] # <<>>,
           NEW frame \in Frame, Becomes(t, frame),
           frame.pc \in BottomPc <=> Top(t).pc \in BottomPc,
           Len(stack[t]) > 1 => Above(stack[t][Len(stack[t]) - 1], frame),
           FrameRight(frame, code', entry_point', is_compiled')
    PROVE  ShapeInv' /\ FramesRight'
  <1> DEFINE s == stack[t]
             r == stack'[t]
             n == Len(s)
  <1>1. /\ OthersKeep(t) /\ Len(r) = n /\ r[n] = frame
        /\ \A i \in 1..(n - 1) : r[i] = s[i]
    BY BecomesStack
  <1>2. /\ n \in Nat \ {0} /\ Top(t) = s[n]
    BY ShapeFacts
  <1>3. Shape(s)
    BY DEF ShapeInv
  <1>4. n > 1 => Above(s[n - 1], frame)
    OBVIOUS
  <1> HIDE DEF s, r, n
  <1>5. Shape(r)
    <2>1. ASSUME NEW i \in 1..n PROVE r[i].pc \in BottomPc <=> i = 1
      BY <1>1, <1>2, <1>3 DEF Shape, n
    <2>2. ASSUME NEW i \in 1..(n - 1) PROVE Above(r[i], r[i + 1])
      <3>1. CASE i = n - 1
        BY <1>1, <1>2, <1>4, <3>1
      <3>2. CASE i < n - 1
        BY <1>1, <1>2, <1>3, <3>2 DEF Shape, n
      <3> QED
        BY <1>2, <3>1, <3>2
    <2> QED
      BY <1>1, <2>1, <2>2 DEF Shape
  <1>6. \A i \in 1..Len(r) : \/ FrameRight(r[i], code', entry_point', is_compiled')
                             \/ i \in 1..Len(s) /\ r[i] = s[i]
    BY <1>1, <1>2 DEF n
  <1> QED
    BY <1>1, <1>5, <1>6, OthersKept DEF s, r

LEMMA CallsKeeps ==
    ASSUME TypeOK, ShapeInv, FramesRight, Grown, NEW t \in Thread, stack[t] # <<>>,
           NEW pc \in Pc, NEW frame \in Frame, Calls(t, pc, frame),
           pc \in BottomPc <=> Top(t).pc \in BottomPc, frame.pc \notin BottomPc,
           Above([Top(t) EXCEPT !.pc = pc], frame),
           Len(stack[t]) > 1 =>
             Above(stack[t][Len(stack[t]) - 1], [Top(t) EXCEPT !.pc = pc]),
           FrameRight([Top(t) EXCEPT !.pc = pc], code', entry_point', is_compiled'),
           FrameRight(frame, code', entry_point', is_compiled')
    PROVE  ShapeInv' /\ FramesRight'
  <1> DEFINE s == stack[t]
             r == stack'[t]
             n == Len(s)
             lo == [Top(t) EXCEPT !.pc = pc]
  <1>1. /\ OthersKeep(t) /\ Len(r) = n + 1 /\ r[n] = lo /\ r[n + 1] = frame
        /\ \A i \in 1..(n - 1) : r[i] = s[i]
    BY CallsStack
  <1>2. /\ n \in Nat \ {0} /\ Top(t) = s[n] /\ Top(t) \in Frame
    BY ShapeFacts
  <1>3. Shape(s) /\ lo.pc = pc
    BY <1>2 DEF ShapeInv, Frame
  <1>4. /\ n > 1 => Above(s[n - 1], lo)
        /\ Above(lo, frame) /\ FrameRight(lo, code', entry_point', is_compiled')
    OBVIOUS
  <1> HIDE DEF s, r, n, lo
  <1>5. Shape(r)
    <2>1. ASSUME NEW i \in 1..(n + 1) PROVE r[i].pc \in BottomPc <=> i = 1
      BY <1>1, <1>2, <1>3 DEF Shape, n
    <2>2. ASSUME NEW i \in 1..n PROVE Above(r[i], r[i + 1])
      <3>1. CASE i = n
        BY <1>1, <1>2, <1>4, <3>1
      <3>2. CASE i = n - 1
        BY <1>1, <1>2, <1>4, <3>2
      <3>3. CASE i < n - 1
        BY <1>1, <1>2, <1>3, <3>3 DEF Shape, n
      <3> QED
        BY <1>2, <3>1, <3>2, <3>3
    <2> QED
      BY <1>1, <1>2, <2>1, <2>2 DEF Shape
  <1>6. \A i \in 1..Len(r) : \/ FrameRight(r[i], code', entry_point', is_compiled')
                             \/ i \in 1..Len(s) /\ r[i] = s[i]
    BY <1>1, <1>2, <1>4 DEF n
  <1> QED
    BY <1>1, <1>5, <1>6, OthersKept DEF s, r

LEMMA LeavesKeeps ==
    ASSUME TypeOK, ShapeInv, FramesRight, Grown, NEW t \in Thread, stack[t] # <<>>,
           Leaves(t)
    PROVE  ShapeInv' /\ FramesRight'
  <1>1. /\ OthersKeep(t) /\ Len(stack'[t]) = Len(stack[t]) - 1
        /\ \A i \in 1..(Len(stack[t]) - 1) : stack'[t][i] = stack[t][i]
    BY LeavesStack
  <1>2. Len(stack[t]) \in Nat \ {0} /\ Shape(stack[t])
    BY ShapeFacts DEF ShapeInv
  <1> DEFINE s == stack[t]
             r == stack'[t]
             n == Len(s)
  <1> HIDE DEF s, r, n
  <1>3. Shape(r)
    <2>1. \A i \in 1..(n - 1) : r[i].pc \in BottomPc <=> i = 1
      BY <1>1, <1>2 DEF Shape, s, r, n
    <2>2. ASSUME NEW i \in 1..(n - 2) PROVE Above(r[i], r[i + 1])
      <3>1. i \in 1..(n - 1) /\ i + 1 \in 1..(n - 1) /\ Above(s[i], s[i + 1])
        BY <1>2 DEF Shape, s, n
      <3> QED
        BY <1>1, <3>1 DEF s, r, n
    <2>3. Len(r) = n - 1 /\ Len(r) - 1 = n - 2
      BY <1>1, <1>2 DEF s, r, n
    <2> QED
      BY <2>1, <2>2, <2>3 DEF Shape
  <1> QED
    BY <1>1, <1>2, <1>3, OthersKept DEF r

\* The application calls, starts to build or catches what was thrown.
LEMMA OnlyKeeps ==
    ASSUME TypeOK, ShapeInv, FramesRight, Grown, NEW t \in Thread, NEW frame \in Frame,
           frame.pc \in BottomPc, FrameRight(frame, code', entry_point', is_compiled'),
           stack' = [stack EXCEPT ![t] = <<frame>>]
    PROVE  ShapeInv' /\ FramesRight'
  <1>1. OthersKeep(t) /\ Len(stack'[t]) = 1 /\ stack'[t][1] = frame
    BY OnlyStack
  <1>2. Shape(stack'[t])
    BY <1>1 DEF Shape
  <1> QED
    BY <1>1, <1>2, OthersKept

LEMMA EmptyKeeps ==
    ASSUME TypeOK, ShapeInv, FramesRight, Grown, NEW t \in Thread,
           stack' = [stack EXCEPT ![t] = <<>>]
    PROVE  ShapeInv' /\ FramesRight'
  <1>1. OthersKeep(t) /\ Len(stack'[t]) = 0
    BY EmptyStack
  <1>2. Shape(stack'[t])
    BY <1>1 DEF Shape
  <1> QED
    BY <1>1, <1>2, OthersKept

\* The top frame goes on in the same place: no frame is added or left.
SamePlace(p, q) == \/ p \in BottomPc /\ q \in BottomPc
                   \/ p \in DriverPc /\ q \in DriverPc
                   \/ p \in CompilePc /\ q \in CompilePc
                   \/ p \in SetupPc /\ q \in SetupPc

LEMMA MovesOn ==
    ASSUME TypeOK, ShapeInv, FramesRight, Grown, NEW t \in Thread, stack[t] # <<>>,
           NEW frame \in Frame, Becomes(t, frame),
           frame.fn = Top(t).fn, SamePlace(Top(t).pc, frame.pc),
           FrameRight(frame, code', entry_point', is_compiled')
    PROVE  /\ ShapeInv' /\ FramesRight' /\ stack' \in [Thread -> Seq(Frame)]
           /\ OthersKeep(t) /\ stack'[t] # <<>> /\ Top(t)' = frame
  <1>1. frame.pc \in BottomPc <=> Top(t).pc \in BottomPc
    BY DEF SamePlace, BottomPc, DriverPc, CompilePc, SetupPc
  <1>2. ASSUME Len(stack[t]) > 1 PROVE Above(stack[t][Len(stack[t]) - 1], frame)
    <2>1. /\ Above(stack[t][Len(stack[t]) - 1], Top(t))
          /\ Top(t).pc \notin BottomPc
      BY <1>2, ShapeFacts
    <2> QED
      BY <2>1 DEF SamePlace, Above, BottomPc, DriverPc, CompilePc, SetupPc
  <1> QED
    BY <1>1, <1>2, BecomesStack, BecomesKeeps

\* The same with the frame itself going on.
LEMMA GoesOn ==
    ASSUME TypeOK, ShapeInv, FramesRight, Grown, NEW t \in Thread, stack[t] # <<>>,
           NEW pc \in Pc, Goto(t, pc), SamePlace(Top(t).pc, pc),
           FrameRight([Top(t) EXCEPT !.pc = pc], code', entry_point', is_compiled')
    PROVE  /\ ShapeInv' /\ FramesRight' /\ stack' \in [Thread -> Seq(Frame)]
           /\ OthersKeep(t) /\ stack'[t] # <<>>
           /\ Top(t)' = [Top(t) EXCEPT !.pc = pc]
           /\ Top(t)'.pc = pc /\ Top(t)'.fn = Top(t).fn /\ Top(t)'.entry = Top(t).entry
  <1> DEFINE frame == [Top(t) EXCEPT !.pc = pc]
  <1>1. frame \in Frame /\ frame.pc = pc /\ frame.fn = Top(t).fn /\ frame.entry = Top(t).entry
    BY ShapeFacts DEF Frame
  <1>2. Becomes(t, frame)
    BY DEF Goto
  <1>3. FrameRight(frame, code', entry_point', is_compiled')
    OBVIOUS
  <1>4. frame = [Top(t) EXCEPT !.pc = pc]
    OBVIOUS
  <1> HIDE DEF frame
  <1>5. /\ ShapeInv' /\ FramesRight' /\ stack' \in [Thread -> Seq(Frame)]
        /\ OthersKeep(t) /\ stack'[t] # <<>> /\ Top(t)' = frame
    BY <1>1, <1>2, <1>3, MovesOn
  <1> QED
    BY <1>1, <1>4, <1>5

-----------------------------------------------------------------------------
(***************************************************************************)
(* What the locks guard, for a step that publishes nothing.                *)
(***************************************************************************)
\* t takes or gives only its own lock, and is where the lock says, at pc.
LockStep(t, pc) ==
  /\ \/ builder_lock' = builder_lock
     \/ builder_lock \in {t, NoThread} /\ builder_lock' \in {t, NoThread}
  /\ \/ cache_lock' = cache_lock
     \/ cache_lock \in {t, NoThread} /\ cache_lock' \in {t, NoThread}
  /\ builder_lock' = t <=> pc \in UnderLock
  /\ cache_lock' = t <=> pc \in {"gen", "cunlock"}

LEMMA LocksKept ==
    ASSUME TypeOK, LocksInv, NEW t \in Thread, OthersKeep(t), LockStep(t, PcOf(t)')
    PROVE  LocksInv'
  <1>1. ASSUME NEW u \in Thread, u # t
        PROVE  /\ PcOf(u)' = PcOf(u)
               /\ builder_lock' = u <=> builder_lock = u
               /\ cache_lock' = u <=> cache_lock = u
    BY <1>1, OnDemandAssumption DEF OthersKeep, Top, PcOf, LockStep
  <1> QED
    BY <1>1 DEF LocksInv, LockStep

\* t touches a builder under the lock only, that of no function that is compiled
\* and never built again, and has f's when it is at pc.
BuilderStep(t, pc, f) ==
  /\ builder' = builder \/ builder_lock = t
  /\ \A g \in Once : builder'[g] => builder[g] \/ ~is_compiled[g]
  /\ pc \in {"clock", "gen", "cunlock", "cfree"} => builder'[f]
  /\ pc \in {"setentry", "setflag"} => ~builder'[f]

LEMMA BuilderKept ==
    ASSUME LocksInv, BuilderInv, NEW t \in Thread, OthersKeep(t),
           BuilderStep(t, PcOf(t)', Top(t)'.fn)
    PROVE  BuilderInv'
  <1>1. ASSUME NEW u \in Thread, u # t
        PROVE  /\ PcOf(u)' \in {"clock", "gen", "cunlock", "cfree"} => builder'[Top(u)'.fn]
               /\ PcOf(u)' \in {"setentry", "setflag"} => ~builder'[Top(u)'.fn]
    <2>1. PcOf(u)' = PcOf(u) /\ Top(u)' = Top(u)
      BY <1>1 DEF OthersKeep, Top, PcOf
    <2>2. PcOf(u) \in UnderLock => builder' = builder
      BY <1>1 DEF LocksInv, BuilderStep
    <2> QED
      BY <1>1, <2>1, <2>2 DEF BuilderInv, UnderLock, CompilePc
  <1> QED
    BY <1>1 DEF BuilderInv, BuilderStep

\* What was announced is announced, or compiled.
LEMMA OnceKept ==
    ASSUME TypeOK, OnceInv, NEW t \in Thread, OthersKeep(t), code' = code,
           \A f \in Once : is_compiled[f] => is_compiled'[f],
           \A f \in Once : Announcing(t, f) => is_compiled'[f] \/ Announcing(t, f)'
    PROVE  OnceInv'
  <1>1. ASSUME NEW f \in Once, NEW u \in Thread, Announcing(u, f)
        PROVE  is_compiled'[f] \/ Announcing(u, f)'
    BY <1>1 DEF Announcing, OthersKeep, Top, PcOf
  <1> QED
    BY <1>1 DEF OnceInv

\* Nothing is published and nothing becomes compiled.
Quiet == /\ UNCHANGED <<code, entry_point, is_compiled>>
         /\ pending' = pending \/ PendingRight'

LEMMA QuietKeeps ==
    ASSUME BuildInv, NEW t \in Thread, OthersKeep(t), TypeOK', ShapeInv', FramesRight',
           Quiet, LockStep(t, PcOf(t)'), BuilderStep(t, PcOf(t)', Top(t)'.fn),
           \A f \in Once : Announcing(t, f) => Announcing(t, f)'
    PROVE  BuildInv'
  <1>1. BuilderInv'
    BY BuilderKept DEF BuildInv
  <1>2. OnceInv'
    BY OnceKept DEF BuildInv, Quiet
  <1>3. EntriesRight' /\ PendingRight' /\ UncompiledInv'
    BY DEF BuildInv, EntriesRight, PendingRight, UncompiledInv, Quiet, BuilderStep
  <1>4. LocksInv'
    BY LocksKept DEF BuildInv
  <1> QED
    BY <1>1, <1>2, <1>3, <1>4 DEF BuildInv

\* What is known of the top frame.
LEMMA TopFacts ==
    ASSUME BuildInv, NEW t \in Thread, NEW pc, Is(t, pc)
    PROVE  /\ TypeOK /\ ShapeInv /\ FramesRight /\ stack[t] # <<>>
           /\ Top(t) \in Frame /\ Top(t).pc = pc /\ PcOf(t) = pc
           /\ Top(t).fn \in Function /\ Top(t).entry \in 0..MaxCode
           /\ FrameRight(Top(t), code, entry_point, is_compiled)
           /\ builder_lock = t <=> pc \in UnderLock
           /\ cache_lock = t <=> pc \in {"gen", "cunlock"}
           /\ pc \in {"clock", "gen", "cunlock", "cfree"} => builder[Top(t).fn]
           /\ pc \in {"setentry", "setflag"} => ~builder[Top(t).fn]
           /\ entry_point[Top(t).fn] \in 0..MaxCode
           /\ entry_point[Top(t).fn] # 0 => CodeOf(code, Top(t).fn, entry_point[Top(t).fn])
  <1>1. TypeOK /\ ShapeInv /\ FramesRight /\ LocksInv /\ BuilderInv /\ EntriesRight
    BY DEF BuildInv
  <1>2. stack[t] # <<>> /\ Top(t).pc = pc /\ PcOf(t) = pc
    BY DEF Is, PcOf
  <1>3. /\ Top(t) = stack[t][Len(stack[t])] /\ Len(stack[t]) \in 1..Len(stack[t])
        /\ Top(t) \in Frame
    BY <1>1, <1>2, ShapeFacts
  <1>4. FrameRight(Top(t), code, entry_point, is_compiled)
    BY <1>1, <1>3 DEF FramesRight
  <1>5. Top(t).fn \in Function /\ Top(t).entry \in 0..MaxCode
    BY <1>3 DEF Frame
  <1>6. entry_point[Top(t).fn] \in 0..MaxCode
    BY <1>1, <1>5 DEF TypeOK
  <1>7. entry_point[Top(t).fn] # 0 => CodeOf(code, Top(t).fn, entry_point[Top(t).fn])
    BY <1>1, <1>5 DEF EntriesRight
  <1> QED
    BY <1>1, <1>2, <1>3, <1>4, <1>5, <1>6, <1>7 DEF LocksInv, BuilderInv

LEMMA QuietGrown ==
    ASSUME TypeOK, Quiet
    PROVE  Grown
  BY DEF Grown, TypeOK, Quiet

\* The types of what is not the stack.
RestOK ==
  /\ builder_lock \in Thread \cup {NoThread} /\ cache_lock \in Thread \cup {NoThread}
  /\ builder \in [Function -> BOOLEAN] /\ is_compiled \in [Function -> BOOLEAN]
  /\ entry_point \in [Function -> 0..MaxCode]
  /\ code \in Seq(Function) /\ Len(code) <= MaxCode /\ result \in [Thread -> BOOLEAN]
  /\ pending \in [Thread -> {<<>>} \cup (Function \X (0..MaxCode))]
  /\ work \in [Thread -> 0..MaxWork]

\* A thread goes on in its top frame and publishes nothing.
LEMMA QuietMove ==
    ASSUME BuildInv, NEW t \in Thread, NEW p, Is(t, p),
           NEW frame \in Frame, Becomes(t, frame), frame.fn = Top(t).fn,
           SamePlace(p, frame.pc), Quiet, RestOK',
           FrameRight(frame, code, entry_point, is_compiled),
           LockStep(t, frame.pc), BuilderStep(t, frame.pc, Top(t).fn),
           Announcing(t, Top(t).fn) => frame.pc \in {"cfree", "setentry", "setflag"}
    PROVE  BuildInv'
  <1>1. TypeOK /\ ShapeInv /\ FramesRight /\ Grown /\ stack[t] # <<>> /\ Top(t).pc = p
    BY TopFacts, QuietGrown
  <1>2. FrameRight(frame, code', entry_point', is_compiled')
    BY DEF Quiet
  <1>3. /\ ShapeInv' /\ FramesRight' /\ stack' \in [Thread -> Seq(Frame)]
        /\ OthersKeep(t) /\ stack'[t] # <<>> /\ Top(t)' = frame
    BY <1>1, <1>2, MovesOn
  <1>4. TypeOK' /\ PcOf(t)' = frame.pc
    BY <1>3 DEF TypeOK, RestOK, PcOf
  <1>5. \A f \in Once : Announcing(t, f) => Announcing(t, f)'
    BY <1>3, <1>4 DEF Announcing
  <1> QED
    BY <1>3, <1>4, <1>5, QuietKeeps

LEMMA QuietGoto ==
    ASSUME BuildInv, NEW t \in Thread, NEW p, Is(t, p), NEW pc \in Pc, Goto(t, pc),
           SamePlace(p, pc), Quiet, RestOK',
           FrameRight([Top(t) EXCEPT !.pc = pc], code, entry_point, is_compiled),
           LockStep(t, pc), BuilderStep(t, pc, Top(t).fn),
           Announcing(t, Top(t).fn) => pc \in {"cfree", "setentry", "setflag"}
    PROVE  BuildInv'
  <1> DEFINE frame == [Top(t) EXCEPT !.pc = pc]
  <1>1. frame \in Frame /\ frame.pc = pc /\ frame.fn = Top(t).fn
    BY TopFacts DEF Frame
  <1>2. Becomes(t, frame) /\ FrameRight(frame, code, entry_point, is_compiled)
    BY DEF Goto
  <1> HIDE DEF frame
  <1> QED
    BY <1>1, <1>2, QuietMove

\* It calls and publishes nothing.
LEMMA QuietCall ==
    ASSUME BuildInv, NEW t \in Thread, NEW p, Is(t, p), NEW pc \in Pc,
           NEW frame \in Frame, Calls(t, pc, frame),
           pc = p \/ SamePlace(p, pc), p \notin CompilePc, frame.pc \notin BottomPc,
           Above([Top(t) EXCEPT !.pc = pc], frame), Quiet, RestOK',
           FrameRight([Top(t) EXCEPT !.pc = pc], code, entry_point, is_compiled),
           FrameRight(frame, code, entry_point, is_compiled),
           LockStep(t, frame.pc), BuilderStep(t, frame.pc, frame.fn)
    PROVE  BuildInv'
  <1> DEFINE lo == [Top(t) EXCEPT !.pc = pc]
  <1>1. /\ TypeOK /\ ShapeInv /\ FramesRight /\ Grown /\ stack[t] # <<>>
        /\ Top(t).pc = p /\ PcOf(t) = p /\ lo.pc = pc /\ lo.fn = Top(t).fn
    BY TopFacts, QuietGrown DEF Frame
  <1>2. /\ FrameRight(lo, code', entry_point', is_compiled')
        /\ FrameRight(frame, code', entry_point', is_compiled')
    BY DEF Quiet
  <1>3. pc \in BottomPc <=> p \in BottomPc
    BY DEF SamePlace, BottomPc, DriverPc, CompilePc, SetupPc
  <1>4. ASSUME Len(stack[t]) > 1 PROVE Above(stack[t][Len(stack[t]) - 1], lo)
    <2>1. Above(stack[t][Len(stack[t]) - 1], Top(t)) /\ p \notin BottomPc
      BY <1>1, <1>4, ShapeFacts
    <2> HIDE DEF lo
    <2> QED
      BY <1>1, <2>1 DEF SamePlace, Above, BottomPc, DriverPc, CompilePc, SetupPc
  <1>5. /\ stack' \in [Thread -> Seq(Frame)] /\ OthersKeep(t)
        /\ stack'[t] # <<>> /\ Top(t)' = frame
    BY <1>1, CallsStack
  <1>6. ShapeInv' /\ FramesRight'
    BY <1>1, <1>2, <1>3, <1>4, CallsKeeps
  <1>7. TypeOK' /\ PcOf(t)' = frame.pc
    BY <1>5 DEF TypeOK, RestOK, PcOf
  <1>8. \A f \in Once : ~Announcing(t, f)
    BY <1>1 DEF Announcing, CompilePc
  <1> QED
    BY <1>5, <1>6, <1>7, <1>8, QuietKeeps

\* The compiler or jit_function_setup_entry returns and publishes nothing.
LEMMA QuietLeave ==
    ASSUME BuildInv, NEW t \in Thread, NEW p, Is(t, p), p \in CompilePc \cup SetupPc,
           Leaves(t), Quiet, RestOK', builder_lock' = builder_lock, cache_lock' # t,
           cache_lock' = cache_lock \/ (cache_lock = t /\ cache_lock' = NoThread),
           builder' = builder \/ builder_lock = t,
           \A f \in Function : builder'[f] => builder[f],
           Top(t).fn \in Once => ~Announcing(t, Top(t).fn)
    PROVE  BuildInv'
  <1>1. /\ TypeOK /\ ShapeInv /\ FramesRight /\ Grown /\ stack[t] # <<>> /\ Top(t).pc = p
        /\ builder_lock = t
    BY TopFacts, QuietGrown DEF UnderLock
  <1> DEFINE below == stack[t][Len(stack[t]) - 1]
  <1>2. Len(stack[t]) > 1 /\ Above(below, Top(t))
    <2>1. p \notin BottomPc
      BY DEF BottomPc, CompilePc, SetupPc
    <2>2. Len(stack[t]) \in Nat \ {0} /\ Len(stack[t]) # 1
      BY <1>1, <2>1, ShapeFacts
    <2>3. Len(stack[t]) > 1
      <3>1. \A n \in Nat \ {0} : n # 1 => n > 1
        OBVIOUS
      <3> QED
        BY <2>2, <3>1
    <2> QED
      BY <1>1, <2>3, ShapeFacts
  <1>3. below.pc \in {"callback", "returned", "compiled", "user", "hold"}
    BY <1>1, <1>2 DEF Above, DriverPc, CompilePc, SetupPc
  <1>4. /\ stack' \in [Thread -> Seq(Frame)] /\ OthersKeep(t)
        /\ stack'[t] # <<>> /\ Top(t)' = below
    BY <1>1, <1>2, LeavesStack
  <1>5. ShapeInv' /\ FramesRight'
    BY <1>1, LeavesKeeps
  <1>6. TypeOK' /\ PcOf(t)' = below.pc
    BY <1>4 DEF TypeOK, RestOK, PcOf
  <1> HIDE DEF below
  <1>7. LockStep(t, below.pc)
    BY <1>1, <1>3 DEF LockStep, UnderLock, Building
  <1>8. BuilderStep(t, below.pc, Top(t)'.fn)
    BY <1>3 DEF BuilderStep, Once
  <1>9. \A f \in Once : Announcing(t, f) => Announcing(t, f)'
    BY DEF Announcing
  <1> QED
    BY <1>4, <1>5, <1>6, <1>7, <1>8, <1>9, QuietKeeps

\* Nothing of the types but what a step changes.
LEMMA TypesOfTop ==
    ASSUME TypeOK
    PROVE  RestOK /\ \A t \in Thread, ok \in BOOLEAN :
             /\ Returns(t, ok) => result' \in [Thread -> BOOLEAN]
             /\ Starts(t) => work' \in [Thread -> 0..MaxWork]
  <1>1. RestOK
    BY DEF TypeOK, RestOK
  <1>2. ASSUME NEW t \in Thread, Starts(t) PROVE work' \in [Thread -> 0..MaxWork]
    <2>1. work[t] - 1 \in 0..MaxWork
      BY <1>2, OnDemandAssumption DEF Starts, TypeOK
    <2> QED
      BY <1>2, <2>1 DEF Starts, TypeOK
  <1>3. ASSUME NEW t \in Thread, NEW ok \in BOOLEAN, Returns(t, ok)
        PROVE  result' \in [Thread -> BOOLEAN]
    BY <1>3 DEF Returns, TypeOK
  <1> QED
    BY <1>1, <1>2, <1>3

-----------------------------------------------------------------------------
(***************************************************************************)
(* The driver.                                                             *)
(***************************************************************************)
LEMMA DriverLocksKeeps ==
    ASSUME BuildInv, NEW t \in Thread, DriverLocks(t)
    PROVE  BuildInv'
  <1>1. /\ Is(t, "lock") /\ Goto(t, "check") /\ Quiet
        /\ builder_lock = NoThread /\ builder_lock' = t
        /\ UNCHANGED <<cache_lock, builder, is_compiled, entry_point, code, result, pending, work>>
    BY DEF DriverLocks, Quiet
  <1>2. /\ FrameRight([Top(t) EXCEPT !.pc = "check"], code, entry_point, is_compiled)
        /\ TypeOK /\ cache_lock # t
    BY <1>1, TopFacts DEF FrameRight, Frame
  <1>3. "check" \in Pc /\ SamePlace("lock", "check") /\ "check" \in UnderLock
    BY DEF Pc, SamePlace, DriverPc, UnderLock, Building
  <1>4. ~Announcing(t, Top(t).fn)
    BY <1>1 DEF Announcing, Is, PcOf
  <1>5. LockStep(t, "check") /\ BuilderStep(t, "check", Top(t).fn)
    BY <1>1, <1>2, <1>3 DEF LockStep, BuilderStep
  <1>6. RestOK'
    BY <1>1, <1>2 DEF TypeOK, RestOK
  <1> QED
    BY <1>1, <1>2, <1>3, <1>4, <1>5, <1>6, QuietGoto

LEMMA DriverChecksKeeps ==
    ASSUME BuildInv, NEW t \in Thread, DriverChecks(t)
    PROVE  BuildInv'
  <1> DEFINE f == Top(t).fn
  <1>1. /\ Is(t, "check") /\ Quiet /\ Returns(t, is_compiled[f] \/ f \in WithCompiler)
        /\ UNCHANGED <<shared, pending, work>>
    BY DEF DriverChecks, Quiet, shared
  <1>2. TypeOK /\ builder_lock = t /\ cache_lock # t /\ f \in Function
    BY <1>1, TopFacts DEF UnderLock, Building
  <1>3. RestOK'
    BY <1>1, <1>2, TypesOfTop DEF RestOK, shared
  <1>4. ASSUME NEW pc \in {"callback", "unlock"}
        PROVE  pc \in Pc /\ SamePlace("check", pc) /\ LockStep(t, pc) /\ BuilderStep(t, pc, f)
    BY <1>1, <1>2 DEF Pc, SamePlace, DriverPc, UnderLock, Building, LockStep, BuilderStep, shared
  <1>5. ~Announcing(t, f)
    BY <1>1 DEF Announcing, Is, PcOf
  <1>6. CASE is_compiled[f]
    <2> DEFINE frame == At("unlock", f, entry_point[f])
    <2>1. Becomes(t, frame)
      BY <1>6 DEF DriverChecks
    <2>2. frame \in Frame /\ frame.fn = f /\ frame.pc = "unlock"
      BY <1>1, <1>4, TopFacts DEF Frame, At
    <2>3. FrameRight(frame, code, entry_point, is_compiled)
      BY <1>1, TopFacts DEF FrameRight, At
    <2> HIDE DEF frame
    <2> QED
      BY <1>1, <1>3, <1>4, <1>5, <2>1, <2>2, <2>3, QuietMove
  <1>7. CASE ~is_compiled[f]
    <2>1. PICK pc \in {"callback", "unlock"} : Goto(t, pc)
      BY <1>7 DEF DriverChecks
    <2>2. FrameRight([Top(t) EXCEPT !.pc = pc], code, entry_point, is_compiled)
      BY <1>1, <1>7, TopFacts DEF FrameRight, Frame
    <2> QED
      BY <1>1, <1>3, <1>4, <1>5, <2>1, <2>2, QuietGoto
  <1> QED
    BY <1>6, <1>7

LEMMA CallbackReturnsKeeps ==
    ASSUME BuildInv, NEW t \in Thread, CallbackReturns(t)
    PROVE  BuildInv'
  <1> DEFINE f == Top(t).fn
  <1>1. PICK built \in BOOLEAN, ok \in BOOLEAN, pc \in {"built", "free"} :
          /\ builder' = [builder EXCEPT ![f] = @ \/ built]
          /\ Returns(t, ok) /\ Goto(t, pc)
    BY DEF CallbackReturns
  <1>2. /\ Is(t, "callback") /\ Quiet
        /\ UNCHANGED <<builder_lock, cache_lock, is_compiled, entry_point, code, pending, work>>
    BY DEF CallbackReturns, Quiet
  <1>3. /\ TypeOK /\ builder_lock = t /\ cache_lock # t /\ f \in Function /\ ~is_compiled[f]
        /\ FrameRight([Top(t) EXCEPT !.pc = pc], code, entry_point, is_compiled)
    BY <1>2, TopFacts DEF UnderLock, Building, FrameRight, Frame
  <1>4. builder' \in [Function -> BOOLEAN]
    BY <1>1, <1>3 DEF TypeOK
  <1>5. RestOK'
    BY <1>1, <1>2, <1>3, <1>4, TypesOfTop DEF RestOK
  <1>6. \A g \in Once : builder'[g] => builder[g] \/ ~is_compiled[g]
    BY <1>1, <1>3 DEF Once, TypeOK
  <1>7. pc \in Pc /\ SamePlace("callback", pc) /\ LockStep(t, pc) /\ BuilderStep(t, pc, f)
    BY <1>2, <1>3, <1>6 DEF Pc, SamePlace, DriverPc, UnderLock, Building, LockStep, BuilderStep
  <1>8. ~Announcing(t, f)
    BY <1>2 DEF Announcing, Is, PcOf
  <1> QED
    BY <1>1, <1>2, <1>3, <1>5, <1>7, <1>8, QuietGoto

\* The on-demand compiler, the driver or the front end calls compile() for g.
LEMMA CallsCompiler ==
    ASSUME BuildInv, NEW t \in Thread,
           NEW p \in {"callback", "built", "user"}, Is(t, p),
           NEW pc \in {"callback", "returned", "compiled", "user", "hold"},
           pc = p \/ SamePlace(p, pc),
           NEW g \in Function, Calls(t, pc, At("begin", g, 0)),
           pc = "callback" => p = "callback" /\ g # Top(t).fn,
           pc = "hold" => g \in Tiered,
           Quiet, UNCHANGED <<builder_lock, cache_lock>>,
           builder' \in [Function -> BOOLEAN], result' \in [Thread -> BOOLEAN],
           work' \in [Thread -> 0..MaxWork],
           pending' \in [Thread -> {<<>>} \cup (Function \X (0..MaxCode))],
           \A h \in Once : builder'[h] => builder[h] \/ ~is_compiled[h]
    PROVE  BuildInv'
  <1> DEFINE frame == At("begin", g, 0)
             lo == [Top(t) EXCEPT !.pc = pc]
  <1>1. /\ TypeOK /\ builder_lock = t /\ cache_lock # t /\ RestOK
        /\ lo.pc = pc /\ lo.fn = Top(t).fn /\ pc \in Pc
    BY TopFacts, TypesOfTop DEF UnderLock, Building, Frame, Pc
  <1>2. frame \in Frame /\ frame.pc = "begin" /\ frame.fn = g /\ frame.entry = 0
    BY OnDemandAssumption DEF Frame, Pc, At
  <1>3. FrameRight(lo, code, entry_point, is_compiled)
    BY TopFacts DEF FrameRight, Frame
  <1>4. RestOK'
    BY <1>1 DEF RestOK, Quiet
  <1> HIDE DEF frame, lo
  <1>5. FrameRight(frame, code, entry_point, is_compiled)
    BY <1>2 DEF FrameRight
  <1>6. Above(lo, frame) /\ frame.pc \notin BottomPc /\ p \notin CompilePc
    BY <1>1, <1>2 DEF Above, CompilePc, BottomPc
  <1>7. LockStep(t, frame.pc) /\ BuilderStep(t, frame.pc, frame.fn)
    BY <1>1, <1>2 DEF LockStep, BuilderStep, UnderLock, CompilePc
  <1> QED
    BY <1>1, <1>2, <1>3, <1>4, <1>5, <1>6, <1>7, QuietCall DEF frame, lo

LEMMA CallbackCompilesKeeps ==
    ASSUME BuildInv, NEW t \in Thread, CallbackCompiles(t)
    PROVE  BuildInv'
  <1> DEFINE f == Top(t).fn
  <1>1. /\ Is(t, "callback") /\ Calls(t, "returned", At("begin", f, 0)) /\ Quiet
        /\ builder' = [builder EXCEPT ![f] = TRUE]
        /\ UNCHANGED <<builder_lock, cache_lock, result, pending, work>>
    BY DEF CallbackCompiles, Quiet
  <1>2. TypeOK /\ f \in Function /\ ~is_compiled[f]
    BY <1>1, TopFacts DEF FrameRight
  <1>3. /\ builder' \in [Function -> BOOLEAN]
        /\ \A h \in Once : builder'[h] => builder[h] \/ ~is_compiled[h]
    BY <1>1, <1>2 DEF TypeOK, Once
  <1>4. SamePlace("callback", "returned")
    BY DEF SamePlace, DriverPc
  <1> QED
    BY <1>1, <1>2, <1>3, <1>4, CallsCompiler DEF TypeOK

LEMMA CallbackHelpsKeeps ==
    ASSUME BuildInv, NEW t \in Thread, NEW g \in Function, CallbackHelps(t, g)
    PROVE  BuildInv'
  <1>1. /\ Is(t, "callback") /\ Calls(t, "callback", At("begin", g, 0)) /\ Quiet
        /\ g \in Helper[Top(t).fn] /\ ~is_compiled[g] /\ Starts(t)
        /\ builder' = [builder EXCEPT ![g] = TRUE]
        /\ UNCHANGED <<builder_lock, cache_lock, result, pending>>
    BY DEF CallbackHelps, Quiet
  <1>2. TypeOK /\ Top(t).fn \in Function
    BY <1>1, TopFacts
  <1>3. /\ builder' \in [Function -> BOOLEAN] /\ work' \in [Thread -> 0..MaxWork]
        /\ \A h \in Once : builder'[h] => builder[h] \/ ~is_compiled[h]
    BY <1>1, <1>2, TypesOfTop DEF TypeOK, Once
  <1>4. g # Top(t).fn
    BY <1>1, <1>2, OnDemandAssumption
  <1> QED
    BY <1>1, <1>2, <1>3, <1>4, CallsCompiler DEF TypeOK

LEMMA CallbackCompiledKeeps ==
    ASSUME BuildInv, NEW t \in Thread, CallbackCompiled(t)
    PROVE  BuildInv'
  <1> DEFINE f == Top(t).fn
  <1>1. PICK pc \in {"built", "free"} : Goto(t, pc)
    BY DEF CallbackCompiled
  <1>2. Is(t, "returned") /\ Quiet /\ UNCHANGED <<shared, result, pending, work>>
    BY DEF CallbackCompiled, Quiet, shared
  <1>3. /\ TypeOK /\ builder_lock = t /\ cache_lock # t
        /\ FrameRight([Top(t) EXCEPT !.pc = pc], code, entry_point, is_compiled)
    BY <1>2, TopFacts DEF UnderLock, Building, FrameRight, Frame
  <1>4. RestOK'
    BY <1>2, <1>3, TypesOfTop DEF RestOK, shared
  <1>5. pc \in Pc /\ SamePlace("returned", pc) /\ LockStep(t, pc) /\ BuilderStep(t, pc, f)
    BY <1>2, <1>3 DEF Pc, SamePlace, DriverPc, UnderLock, Building, LockStep, BuilderStep, shared
  <1>6. ~Announcing(t, f)
    BY <1>2 DEF Announcing, Is, PcOf
  <1> QED
    BY <1>1, <1>2, <1>3, <1>4, <1>5, <1>6, QuietGoto

\* The driver is done, with the entry it has to return.
LEMMA DriverToFree ==
    ASSUME BuildInv, NEW t \in Thread, NEW p \in {"built", "compiled"}, Is(t, p),
           NEW e \in {0, entry_point[Top(t).fn]}, Becomes(t, At("free", Top(t).fn, e)),
           UNCHANGED <<shared, result, pending, work>>
    PROVE  BuildInv'
  <1> DEFINE f == Top(t).fn
             frame == At("free", f, e)
  <1>1. TypeOK /\ builder_lock = t /\ cache_lock # t /\ f \in Function
    BY TopFacts DEF UnderLock, Building
  <1>2. frame \in Frame /\ frame.pc = "free" /\ frame.fn = f
    BY TopFacts, OnDemandAssumption DEF Frame, At, Pc
  <1>3. FrameRight(frame, code, entry_point, is_compiled)
    BY TopFacts DEF FrameRight, At
  <1>4. RestOK' /\ Quiet
    BY <1>1, TypesOfTop DEF RestOK, shared, Quiet
  <1>5. SamePlace(p, "free") /\ LockStep(t, "free") /\ BuilderStep(t, "free", f)
    BY <1>1 DEF SamePlace, DriverPc, UnderLock, Building, LockStep, BuilderStep, shared
  <1>6. ~Announcing(t, f)
    BY DEF Announcing, Is, PcOf
  <1>7. Becomes(t, frame)
    OBVIOUS
  <1> HIDE DEF frame
  <1> QED
    BY <1>2, <1>3, <1>4, <1>5, <1>6, <1>7, QuietMove

LEMMA DriverCompilesKeeps ==
    ASSUME BuildInv, NEW t \in Thread, DriverCompiles(t)
    PROVE  BuildInv'
  <1> DEFINE f == Top(t).fn
  <1>1. Is(t, "built") /\ UNCHANGED <<shared, result, pending, work>>
    BY DEF DriverCompiles
  <1>2. CASE is_compiled[f]
    <2>1. Becomes(t, At("free", f, entry_point[f]))
      BY <1>2 DEF DriverCompiles
    <2> QED
      BY <1>1, <2>1, DriverToFree
  <1>3. CASE ~is_compiled[f]
    <2>1. Calls(t, "compiled", At("begin", f, 0))
      BY <1>3 DEF DriverCompiles
    <2>2. TypeOK /\ f \in Function
      BY <1>1, TopFacts
    <2>3. SamePlace("built", "compiled")
      BY DEF SamePlace, DriverPc
    <2> QED
      BY <1>1, <2>1, <2>2, <2>3, CallsCompiler DEF TypeOK, Quiet, shared
  <1> QED
    BY <1>2, <1>3

LEMMA DriverCompiledKeeps ==
    ASSUME BuildInv, NEW t \in Thread, DriverCompiled(t)
    PROVE  BuildInv'
  <1>1. /\ Is(t, "compiled") /\ UNCHANGED <<shared, result, pending, work>>
        /\ \E e \in {0, entry_point[Top(t).fn]} : Becomes(t, At("free", Top(t).fn, e))
    BY DEF DriverCompiled
  <1> QED
    BY <1>1, DriverToFree

LEMMA DriverFreesKeeps ==
    ASSUME BuildInv, NEW t \in Thread, DriverFrees(t)
    PROVE  BuildInv'
  <1> DEFINE f == Top(t).fn
  <1>1. /\ Is(t, "free") /\ Goto(t, "unlock") /\ Quiet
        /\ builder' = [builder EXCEPT ![f] = FALSE]
        /\ UNCHANGED <<builder_lock, cache_lock, is_compiled, entry_point, code, result, pending, work>>
    BY DEF DriverFrees, Quiet
  <1>2. /\ TypeOK /\ builder_lock = t /\ cache_lock # t /\ f \in Function
        /\ FrameRight([Top(t) EXCEPT !.pc = "unlock"], code, entry_point, is_compiled)
    BY <1>1, TopFacts DEF UnderLock, Building, FrameRight, Frame
  <1>3. /\ builder' \in [Function -> BOOLEAN]
        /\ \A h \in Once : builder'[h] => builder[h]
    BY <1>1, <1>2 DEF TypeOK, Once
  <1>4. RestOK'
    BY <1>1, <1>2, <1>3, TypesOfTop DEF RestOK
  <1>5. /\ "unlock" \in Pc /\ SamePlace("free", "unlock")
        /\ LockStep(t, "unlock") /\ BuilderStep(t, "unlock", f)
    BY <1>1, <1>2, <1>3 DEF Pc, SamePlace, DriverPc, UnderLock, Building, LockStep, BuilderStep
  <1>6. ~Announcing(t, f)
    BY <1>1 DEF Announcing, Is, PcOf
  <1> QED
    BY <1>1, <1>2, <1>4, <1>5, <1>6, QuietGoto

\* What lies right under the top frame.
LEMMA BelowFacts ==
    ASSUME BuildInv, NEW t \in Thread, NEW p, Is(t, p), p \notin BottomPc
    PROVE  /\ Len(stack[t]) > 1
           /\ Under(t)[Len(stack[t]) - 1] = stack[t][Len(stack[t]) - 1]
           /\ stack[t][Len(stack[t]) - 1] \in Frame
           /\ Above(stack[t][Len(stack[t]) - 1], Top(t))
           /\ FrameRight(stack[t][Len(stack[t]) - 1], code, entry_point, is_compiled)
  <1>1. TypeOK /\ ShapeInv /\ FramesRight /\ stack[t] # <<>> /\ Top(t).pc = p
    BY TopFacts
  <1>2. Len(stack[t]) \in Nat \ {0} /\ Len(stack[t]) # 1
    BY <1>1, ShapeFacts
  <1>3. \A n \in Nat \ {0} : n # 1 => n > 1 /\ n - 1 \in 1..n
    OBVIOUS
  <1>4. Len(stack[t]) > 1 /\ Len(stack[t]) - 1 \in 1..Len(stack[t])
    BY <1>2, <1>3
  <1>5. FrameRight(stack[t][Len(stack[t]) - 1], code, entry_point, is_compiled)
    BY <1>1, <1>4 DEF FramesRight
  <1> QED
    BY <1>1, <1>4, <1>5, ShapeFacts

\* Control that goes to an entry of f runs code of f, or the driver for f.
LEMMA GoesRight ==
    ASSUME NEW f \in Function, NEW e \in 0..MaxCode, e # 0 => CodeOf(code, f, e)
    PROVE  /\ Goes(f, e) \in Frame /\ Goes(f, e).pc \in {"lock", "run"}
           /\ FrameRight(Goes(f, e), code, entry_point, is_compiled)
  <1>1. CASE e = 0
    BY <1>1, OnDemandAssumption DEF Goes, At, Frame, Pc, Redirector, FrameRight
  <1>2. CASE e # 0
    BY <1>2, OnDemandAssumption DEF Goes, At, Frame, Pc, Redirector, FrameRight
  <1> QED
    BY <1>1, <1>2

LEMMA DriverUnlocksKeeps ==
    ASSUME BuildInv, NEW t \in Thread, DriverUnlocks(t)
    PROVE  BuildInv'
  <1> DEFINE f == Top(t).fn
             below == stack[t][Len(stack[t]) - 1]
  <1>1. /\ Is(t, "unlock") /\ builder_lock' = NoThread /\ Quiet
        /\ UNCHANGED <<cache_lock, builder, is_compiled, entry_point, code, result, pending, work>>
    BY DEF DriverUnlocks, Quiet
  <1>2. /\ TypeOK /\ ShapeInv /\ FramesRight /\ Grown /\ stack[t] # <<>>
        /\ builder_lock = t /\ cache_lock # t /\ f \in Function /\ Top(t).pc = "unlock"
        /\ Top(t).entry \in 0..MaxCode
        /\ Top(t).entry # 0 => CodeOf(code, f, Top(t).entry)
    BY <1>1, TopFacts, QuietGrown DEF UnderLock, Building, FrameRight
  <1>3. /\ Len(stack[t]) > 1 /\ Under(t)[Len(stack[t]) - 1] = below
        /\ below \in Frame /\ Above(below, Top(t))
        /\ FrameRight(below, code', entry_point', is_compiled')
    BY <1>1, BelowFacts DEF BottomPc
  <1>4. below.pc \in {"entry", "enter", "run"}
    BY <1>2, <1>3 DEF Above, CompilePc, SetupPc
  <1>5. RestOK'
    BY <1>1, <1>2, TypesOfTop DEF RestOK
  <1>6. ASSUME NEW pc \in {"idle", "enter", "lock", "run"}
        PROVE  LockStep(t, pc) /\ \A g : BuilderStep(t, pc, g)
    <2>1. t # NoThread
      BY OnDemandAssumption
    <2> QED
      BY <1>1, <1>2, <2>1 DEF LockStep, BuilderStep, UnderLock, Building, CompilePc, SetupPc
  <1>7. \A g \in Once : ~Announcing(t, g)
    BY <1>1 DEF Announcing, Is, PcOf
  <1>8. CASE ~result[t]
    <2>1. stack' = [stack EXCEPT ![t] = <<>>]
      BY <1>8 DEF DriverUnlocks
    <2>2. /\ stack' \in [Thread -> Seq(Frame)] /\ OthersKeep(t) /\ PcOf(t)' = "idle"
          /\ ShapeInv' /\ FramesRight'
      BY <1>2, <2>1, EmptyStack, EmptyKeeps DEF PcOf
    <2>3. TypeOK'
      BY <1>5, <2>2 DEF TypeOK, RestOK
    <2> QED
      BY <1>1, <1>6, <1>7, <2>2, <2>3, QuietKeeps
  <1>9. CASE result[t] /\ below.pc = "entry"
    <2> DEFINE frame == [below EXCEPT !.pc = "enter"]
    <2>1. stack' = [stack EXCEPT ![t] = <<frame>>]
      BY <1>3, <1>9 DEF DriverUnlocks
    <2>2. frame \in Frame /\ frame.pc = "enter"
      BY <1>3 DEF Frame, Pc
    <2>3. FrameRight(frame, code', entry_point', is_compiled')
      BY <1>3, <1>9 DEF FrameRight, Frame
    <2> HIDE DEF frame
    <2>4. /\ stack' \in [Thread -> Seq(Frame)] /\ OthersKeep(t) /\ PcOf(t)' = "enter"
      BY <1>2, <2>1, <2>2, OnlyStack DEF PcOf
    <2>5. ShapeInv' /\ FramesRight'
      BY <1>2, <2>1, <2>2, <2>3, OnlyKeeps DEF BottomPc
    <2>6. TypeOK'
      BY <1>5, <2>4 DEF TypeOK, RestOK
    <2> QED
      BY <1>1, <1>6, <1>7, <2>4, <2>5, <2>6, QuietKeeps
  <1>10. CASE result[t] /\ below.pc # "entry"
    <2> DEFINE frame == Goes(f, Top(t).entry)
    <2>1. Becomes(t, frame)
      BY <1>3, <1>10 DEF DriverUnlocks, Becomes
    <2>2. /\ frame \in Frame /\ frame.pc \in {"lock", "run"}
          /\ FrameRight(frame, code', entry_point', is_compiled')
      BY <1>1, <1>2, GoesRight
    <2> HIDE DEF frame
    <2>3. Above(below, frame)
      BY <1>4, <1>10, <2>2 DEF Above, DriverPc
    <2>4. frame.pc \in BottomPc <=> Top(t).pc \in BottomPc
      BY <1>2, <2>2 DEF BottomPc
    <2>5. /\ stack' \in [Thread -> Seq(Frame)] /\ OthersKeep(t) /\ PcOf(t)' = frame.pc
      BY <1>2, <2>1, <2>2, BecomesStack DEF PcOf
    <2>6. ShapeInv' /\ FramesRight'
      BY <1>2, <2>1, <2>2, <2>3, <2>4, BecomesKeeps
    <2>7. TypeOK'
      BY <1>5, <2>5 DEF TypeOK, RestOK
    <2> QED
      BY <1>1, <1>6, <1>7, <2>2, <2>5, <2>6, <2>7, QuietKeeps
  <1> QED
    BY <1>8, <1>9, <1>10

-----------------------------------------------------------------------------
(***************************************************************************)
(* The callers: no lock is theirs before or after.                         *)
(***************************************************************************)
\* Where a thread may be without any lock.
Outside == {"idle", "entry", "enter", "run", "lock", "ulock"}

LEMMA CallerKeeps ==
    ASSUME BuildInv, NEW t \in Thread, OthersKeep(t),
           PcOf(t) \in Outside, PcOf(t)' \in Outside,
           stack' \in [Thread -> Seq(Frame)], ShapeInv', FramesRight',
           UNCHANGED <<shared, result, pending>>, work' \in [Thread -> 0..MaxWork]
    PROVE  BuildInv'
  <1>1. TypeOK'
    BY DEF BuildInv, TypeOK, shared
  <1>2. builder_lock # t /\ cache_lock # t
    BY DEF BuildInv, LocksInv, Outside, UnderLock, Building, CompilePc, SetupPc
  <1>3. ASSUME NEW pc \in Outside PROVE LockStep(t, pc) /\ \A g : BuilderStep(t, pc, g)
    BY <1>2 DEF Outside, LockStep, BuilderStep, UnderLock, Building, CompilePc, SetupPc, shared
  <1>4. \A g \in Once : ~Announcing(t, g)
    BY DEF Announcing, Outside
  <1> QED
    BY <1>1, <1>3, <1>4, QuietKeeps DEF Quiet, shared

LEMMA CallerGrown ==
    ASSUME BuildInv, UNCHANGED shared
    PROVE  Grown /\ TypeOK /\ ShapeInv /\ FramesRight
  BY DEF BuildInv, shared, Grown, TypeOK

\* The application calls, or starts to build.
LEMMA BeginsKeeps ==
    ASSUME BuildInv, NEW t \in Thread, NEW f \in Function,
           Apply(t, f) \/ UserStarts(t, f)
    PROVE  BuildInv'
  <1>1. PICK pc \in {"entry", "ulock"} :
          /\ stack[t] = <<>> /\ Starts(t) /\ UNCHANGED <<shared, result, pending>>
          /\ stack' = [stack EXCEPT ![t] = <<At(pc, f, 0)>>]
    BY DEF Apply, UserStarts
  <1> DEFINE frame == At(pc, f, 0)
  <1>2. /\ frame \in Frame /\ frame.pc = pc
        /\ FrameRight(frame, code', entry_point', is_compiled')
    BY OnDemandAssumption DEF At, Frame, Pc, FrameRight
  <1>3. stack' = [stack EXCEPT ![t] = <<frame>>]
    BY <1>1
  <1>4. /\ Grown /\ TypeOK /\ ShapeInv /\ FramesRight
        /\ work' \in [Thread -> 0..MaxWork]
    BY <1>1, CallerGrown, TypesOfTop
  <1> HIDE DEF frame
  <1>5. /\ stack' \in [Thread -> Seq(Frame)] /\ OthersKeep(t)
        /\ PcOf(t) \in Outside /\ PcOf(t)' \in Outside
    BY <1>1, <1>2, <1>3, <1>4, OnlyStack DEF PcOf, Outside
  <1>6. ShapeInv' /\ FramesRight'
    BY <1>2, <1>3, <1>4, OnlyKeeps DEF BottomPc
  <1> QED
    BY <1>1, <1>4, <1>5, <1>6, CallerKeeps

\* It calls the driver, or control goes to an entry.
LEMMA CallerCalls ==
    ASSUME BuildInv, NEW t \in Thread, NEW p \in {"entry", "enter", "run"}, Is(t, p),
           NEW frame \in Frame, Calls(t, p, frame),
           frame.pc = "lock" \/ (frame.pc = "run" /\ p # "entry"),
           FrameRight(frame, code, entry_point, is_compiled),
           UNCHANGED <<shared, result, pending>>, work' \in [Thread -> 0..MaxWork]
    PROVE  BuildInv'
  <1> DEFINE lo == [Top(t) EXCEPT !.pc = p]
  <1>1. /\ Top(t) \in Frame /\ lo.pc = p /\ Top(t).pc = p /\ stack[t] # <<>> /\ lo = Top(t)
        /\ FrameRight(Top(t), code, entry_point, is_compiled)
        /\ PcOf(t) = p
    BY TopFacts DEF Frame
  <1>2. Grown /\ TypeOK /\ ShapeInv /\ FramesRight /\ p \in Pc
    BY CallerGrown DEF Pc
  <1>3. /\ FrameRight(frame, code', entry_point', is_compiled')
        /\ FrameRight(lo, code', entry_point', is_compiled')
    BY <1>1 DEF shared
  <1>4. Above(lo, frame) /\ frame.pc \notin BottomPc
    BY <1>1 DEF Above, DriverPc, BottomPc
  <1>5. ASSUME Len(stack[t]) > 1 PROVE Above(stack[t][Len(stack[t]) - 1], lo)
    BY <1>1, <1>2, <1>5, ShapeFacts
  <1>6. /\ stack' \in [Thread -> Seq(Frame)] /\ OthersKeep(t)
        /\ PcOf(t) \in Outside /\ PcOf(t)' \in Outside
    BY <1>1, <1>2, CallsStack DEF PcOf, Outside
  <1> HIDE DEF lo
  <1>7. ShapeInv' /\ FramesRight'
    BY <1>1, <1>2, <1>3, <1>4, <1>5, CallsKeeps DEF lo
  <1> QED
    BY <1>6, <1>7, CallerKeeps

LEMMA ApplyReadsFlagKeeps ==
    ASSUME BuildInv, NEW t \in Thread, ApplyReadsFlag(t)
    PROVE  BuildInv'
  <1> DEFINE f == Top(t).fn
  <1>1. Is(t, "entry") /\ UNCHANGED <<shared, result, pending, work>>
    BY DEF ApplyReadsFlag
  <1>2. /\ Grown /\ TypeOK /\ ShapeInv /\ FramesRight /\ stack[t] # <<>> /\ f \in Function
        /\ Top(t).pc = "entry" /\ PcOf(t) = "entry"
        /\ FrameRight([Top(t) EXCEPT !.pc = "enter"], code', entry_point', is_compiled')
    BY <1>1, TopFacts, CallerGrown DEF FrameRight, Frame, shared
  <1>3. work' \in [Thread -> 0..MaxWork]
    BY <1>1, <1>2 DEF TypeOK
  <1>4. CASE is_compiled[f]
    <2>1. Goto(t, "enter")
      BY <1>4 DEF ApplyReadsFlag
    <2>2. "enter" \in Pc /\ SamePlace("entry", "enter")
      BY DEF Pc, SamePlace, BottomPc
    <2>3. /\ ShapeInv' /\ FramesRight' /\ stack' \in [Thread -> Seq(Frame)]
          /\ OthersKeep(t) /\ PcOf(t)' = "enter"
      BY <1>2, <2>1, <2>2, GoesOn DEF PcOf
    <2> QED
      BY <1>1, <1>2, <1>3, <2>3, CallerKeeps DEF Outside
  <1>5. CASE ~is_compiled[f]
    <2> DEFINE frame == At("lock", f, 0)
    <2>1. Calls(t, "entry", frame)
      BY <1>5 DEF ApplyReadsFlag
    <2>2. /\ frame \in Frame /\ frame.pc = "lock"
          /\ FrameRight(frame, code, entry_point, is_compiled)
      BY <1>2, OnDemandAssumption DEF At, Frame, Pc, FrameRight
    <2> HIDE DEF frame
    <2> QED
      BY <1>1, <1>3, <2>1, <2>2, CallerCalls
  <1> QED
    BY <1>4, <1>5

LEMMA ApplyEntersKeeps ==
    ASSUME BuildInv, NEW t \in Thread, ApplyEnters(t)
    PROVE  BuildInv'
  <1> DEFINE f == Top(t).fn
             frame == Goes(f, entry_point[f])
  <1>1. /\ Is(t, "enter") /\ Calls(t, "enter", frame)
        /\ UNCHANGED <<shared, result, pending, work>>
    BY DEF ApplyEnters
  <1>2. /\ frame \in Frame /\ frame.pc \in {"lock", "run"}
        /\ FrameRight(frame, code, entry_point, is_compiled)
    BY <1>1, TopFacts, GoesRight
  <1>3. work' \in [Thread -> 0..MaxWork]
    BY <1>1 DEF BuildInv, TypeOK
  <1> HIDE DEF frame
  <1> QED
    BY <1>1, <1>2, <1>3, CallerCalls

LEMMA RunCallsKeeps ==
    ASSUME BuildInv, NEW t \in Thread, NEW g \in Function, RunCalls(t, g)
    PROVE  BuildInv'
  <1> DEFINE frame == Goes(g, entry_point[g])
  <1>1. /\ Is(t, "run") /\ Calls(t, "run", frame) /\ Starts(t)
        /\ UNCHANGED <<shared, result, pending>>
    BY DEF RunCalls
  <1>2. TypeOK /\ entry_point[g] \in 0..MaxCode
    BY DEF BuildInv, TypeOK
  <1>3. /\ frame \in Frame /\ frame.pc \in {"lock", "run"}
        /\ FrameRight(frame, code, entry_point, is_compiled)
    BY <1>2, GoesRight DEF BuildInv, EntriesRight
  <1>4. work' \in [Thread -> 0..MaxWork]
    BY <1>1, <1>2, TypesOfTop
  <1> HIDE DEF frame
  <1> QED
    BY <1>1, <1>3, <1>4, CallerCalls

\* Control goes back to the application, by a return or by an exception.
LEMMA BackToApplication ==
    ASSUME BuildInv, NEW t \in Thread, Is(t, "run"), stack' = [stack EXCEPT ![t] = <<>>],
           UNCHANGED <<shared, result, pending, work>>
    PROVE  BuildInv'
  <1>1. Grown /\ TypeOK /\ ShapeInv /\ FramesRight
    BY CallerGrown
  <1>2. /\ stack' \in [Thread -> Seq(Frame)] /\ OthersKeep(t)
        /\ PcOf(t) \in Outside /\ PcOf(t)' \in Outside
    BY <1>1, EmptyStack, TopFacts DEF PcOf, Outside
  <1>3. ShapeInv' /\ FramesRight' /\ work' \in [Thread -> 0..MaxWork]
    BY <1>1, EmptyKeeps DEF TypeOK
  <1> QED
    BY <1>2, <1>3, CallerKeeps

LEMMA RunReturnsKeeps ==
    ASSUME BuildInv, NEW t \in Thread, RunReturns(t)
    PROVE  BuildInv'
  <1> DEFINE below == stack[t][Len(stack[t]) - 1]
  <1>1. Is(t, "run") /\ UNCHANGED <<shared, result, pending, work>>
    BY DEF RunReturns
  <1>2. CASE Len(stack[t]) = 2
    <2>1. stack' = [stack EXCEPT ![t] = <<>>]
      BY <1>2 DEF RunReturns, BuildInv, TypeOK
    <2> QED
      BY <1>1, <2>1, BackToApplication
  <1>3. CASE Len(stack[t]) # 2
    <2>1. Leaves(t)
      BY <1>3 DEF RunReturns, Leaves
    <2>2. Grown /\ TypeOK /\ ShapeInv /\ FramesRight
      BY <1>1, CallerGrown
    <2>3. Len(stack[t]) > 1 /\ Above(below, Top(t)) /\ Top(t).pc = "run"
      BY <1>1, BelowFacts, TopFacts DEF BottomPc
    <2>4. below.pc \in {"enter", "run"}
      BY <2>3 DEF Above, DriverPc, CompilePc, SetupPc
    <2>5. /\ stack' \in [Thread -> Seq(Frame)] /\ OthersKeep(t)
          /\ stack'[t] # <<>> /\ Top(t)' = below
      BY <1>1, <2>1, <2>2, <2>3, LeavesStack DEF Is
    <2>6. PcOf(t) \in Outside /\ PcOf(t)' \in Outside
      BY <1>1, <2>4, <2>5, TopFacts DEF PcOf, Outside
    <2>7. ShapeInv' /\ FramesRight' /\ work' \in [Thread -> 0..MaxWork]
      BY <1>1, <2>1, <2>2, LeavesKeeps DEF TypeOK, Is
    <2> QED
      BY <1>1, <2>5, <2>6, <2>7, CallerKeeps
  <1> QED
    BY <1>2, <1>3

LEMMA RunThrowsKeeps ==
    ASSUME BuildInv, NEW t \in Thread, RunThrows(t)
    PROVE  BuildInv'
  BY BackToApplication DEF RunThrows

-----------------------------------------------------------------------------
(***************************************************************************)
(* The compiler.                                                           *)
(***************************************************************************)
\* What both locks say of a thread in the compiler.
LEMMA CompilerFacts ==
    ASSUME BuildInv, NEW t \in Thread, NEW p \in CompilePc \cup SetupPc, Is(t, p)
    PROVE  /\ TypeOK /\ RestOK /\ builder_lock = t /\ t # NoThread /\ Top(t).fn \in Function
           /\ cache_lock = t <=> p \in {"gen", "cunlock"}
           /\ \A u \in Thread : PcOf(u) \in UnderLock => u = t
  BY TopFacts, TypesOfTop, OnDemandAssumption DEF UnderLock, BuildInv, LocksInv

LEMMA CompileBeginsKeeps ==
    ASSUME BuildInv, NEW t \in Thread, CompileBegins(t)
    PROVE  BuildInv'
  <1> DEFINE f == Top(t).fn
  <1>1. Is(t, "begin") /\ UNCHANGED <<shared, pending, work>> /\ Quiet
    BY DEF CompileBegins, shared, Quiet
  <1>2. "begin" \in CompilePc
    BY DEF CompilePc
  <1>3. /\ TypeOK /\ RestOK /\ builder_lock = t /\ cache_lock # t /\ f \in Function
        /\ ~Announcing(t, f)
    BY <1>1, <1>2, CompilerFacts DEF Announcing, Is, PcOf
  <1>4. CASE builder[f]
    <2>1. Goto(t, "clock") /\ UNCHANGED result
      BY <1>4 DEF CompileBegins
    <2>2. FrameRight([Top(t) EXCEPT !.pc = "clock"], code, entry_point, is_compiled)
      BY <1>1, TopFacts DEF FrameRight, Frame
    <2>3. /\ "clock" \in Pc /\ SamePlace("begin", "clock")
          /\ LockStep(t, "clock") /\ BuilderStep(t, "clock", f)
      BY <1>1, <1>3, <1>4 DEF Pc, SamePlace, CompilePc, LockStep, BuilderStep, UnderLock, shared
    <2>4. RestOK'
      BY <1>1, <1>3, <2>1 DEF RestOK, shared
    <2> QED
      BY <1>1, <1>3, <2>1, <2>2, <2>3, <2>4, QuietGoto
  <1>5. CASE ~builder[f]
    <2>1. Leaves(t) /\ Returns(t, is_compiled[f])
      BY <1>5 DEF CompileBegins
    <2>2. is_compiled[f] \in BOOLEAN
      BY <1>3 DEF TypeOK
    <2>3. RestOK'
      BY <1>1, <1>3, <2>1, <2>2, TypesOfTop DEF RestOK, shared
    <2> QED
      BY <1>1, <1>2, <1>3, <2>1, <2>3, QuietLeave DEF shared
  <1> QED
    BY <1>4, <1>5

LEMMA CompileLocksKeeps ==
    ASSUME BuildInv, NEW t \in Thread, CompileLocks(t)
    PROVE  BuildInv'
  <1> DEFINE f == Top(t).fn
  <1>1. /\ Is(t, "clock") /\ Goto(t, "gen") /\ Quiet
        /\ cache_lock = NoThread /\ cache_lock' = t
        /\ UNCHANGED <<builder_lock, builder, is_compiled, entry_point, code, result, pending, work>>
    BY DEF CompileLocks, Quiet
  <1>2. /\ TypeOK /\ RestOK /\ builder_lock = t /\ builder[f]
        /\ ~Announcing(t, f)
        /\ FrameRight([Top(t) EXCEPT !.pc = "gen"], code, entry_point, is_compiled)
    BY <1>1, TopFacts, TypesOfTop
       DEF Announcing, Is, PcOf, FrameRight, Frame, UnderLock, CompilePc
  <1>3. /\ "gen" \in Pc /\ SamePlace("clock", "gen")
        /\ LockStep(t, "gen") /\ BuilderStep(t, "gen", f)
    BY <1>1, <1>2 DEF Pc, SamePlace, CompilePc, LockStep, BuilderStep, UnderLock
  <1>4. RestOK'
    BY <1>1, <1>2 DEF RestOK
  <1> QED
    BY <1>1, <1>2, <1>3, <1>4, QuietGoto

\* Entries stay right when code is added.
LEMMA CodeAdded ==
    ASSUME TypeOK, NEW f \in Function, code' = Append(code, f)
    PROVE  /\ Len(code') = Len(code) + 1 /\ code'[Len(code')] = f
           /\ \A i \in 1..Len(code) : code'[i] = code[i]
           /\ \A g, e : CodeOf(code, g, e) => CodeOf(code', g, e)
  <1>1. code \in Seq(Function)
    BY DEF TypeOK
  <1>2. /\ Len(code') = Len(code) + 1 /\ code'[Len(code')] = f /\ Len(code) \in Nat
        /\ \A i \in 1..Len(code) : code'[i] = code[i]
    BY <1>1
  <1> QED
    BY <1>2 DEF CodeOf

LEMMA GeneratesKeeps ==
    ASSUME BuildInv, NEW t \in Thread, Generates(t)
    PROVE  BuildInv'
  <1> DEFINE f == Top(t).fn
             n == Len(code) + 1
  <1>1. /\ Is(t, "gen")
        /\ UNCHANGED <<builder_lock, cache_lock, builder, is_compiled, entry_point,
                       result, pending, work>>
    BY DEF Generates
  <1>2. /\ TypeOK /\ RestOK /\ ShapeInv /\ FramesRight /\ stack[t] # <<>> /\ Top(t).pc = "gen"
        /\ builder_lock = t /\ cache_lock = t /\ f \in Function /\ builder[f]
        /\ ~Announcing(t, f)
    BY <1>1, TopFacts, TypesOfTop DEF Announcing, Is, PcOf, UnderLock, CompilePc
  <1>3. /\ "cunlock" \in Pc /\ SamePlace("gen", "cunlock")
        /\ LockStep(t, "cunlock") /\ BuilderStep(t, "cunlock", f)
    BY <1>1, <1>2 DEF Pc, SamePlace, CompilePc, LockStep, BuilderStep, UnderLock
  <1>4. CASE code' = code /\ Becomes(t, At("cunlock", f, 0))
    <2> DEFINE frame == At("cunlock", f, 0)
    <2>1. frame \in Frame /\ frame.pc = "cunlock" /\ frame.fn = f /\ Becomes(t, frame)
      BY <1>2, <1>3, <1>4, OnDemandAssumption DEF At, Frame
    <2>2. FrameRight(frame, code, entry_point, is_compiled)
      BY DEF FrameRight, At
    <2>3. RestOK' /\ Quiet
      BY <1>1, <1>2, <1>4 DEF RestOK, Quiet
    <2> HIDE DEF frame
    <2> QED
      BY <1>1, <1>2, <1>3, <2>1, <2>2, <2>3, QuietMove
  <1>5. CASE n <= MaxCode /\ code' = Append(code, f) /\ Becomes(t, At("cunlock", f, n))
    <2> DEFINE frame == At("cunlock", f, n)
    <2>1. /\ code \in Seq(Function) /\ Len(code) \in Nat /\ n \in 0..MaxCode
          /\ code' \in Seq(Function) /\ n = Len(code')
          /\ Len(code') = Len(code) + 1 /\ code'[n] = f
          /\ \A i \in 1..Len(code) : code'[i] = code[i]
          /\ \A g, e : CodeOf(code, g, e) => CodeOf(code', g, e)
      BY <1>2, <1>5, CodeAdded, OnDemandAssumption DEF TypeOK
    <2>2. /\ frame \in Frame /\ frame.pc = "cunlock" /\ frame.fn = f /\ frame.entry = n
          /\ Becomes(t, frame)
      BY <1>2, <1>3, <1>5, <2>1 DEF At, Frame
    <2> HIDE DEF frame, n
    <2>3. FrameRight(frame, code', entry_point', is_compiled')
      BY <2>1, <2>2 DEF FrameRight, CodeOf
    <2>4. Grown
      BY <1>1, <2>1 DEF Grown
    <2>5. /\ ShapeInv' /\ FramesRight' /\ stack' \in [Thread -> Seq(Frame)]
          /\ OthersKeep(t) /\ stack'[t] # <<>> /\ Top(t)' = frame
      BY <1>2, <1>3, <2>2, <2>3, <2>4, MovesOn
    <2>6. TypeOK' /\ PcOf(t)' = "cunlock" /\ Top(t)'.fn = f
      BY <1>1, <1>2, <2>1, <2>2, <2>5 DEF TypeOK, PcOf
    <2>7. LocksInv' /\ BuilderInv'
      BY <1>2, <1>3, <2>5, <2>6, LocksKept, BuilderKept DEF BuildInv
    <2>8. EntriesRight' /\ PendingRight'
      BY <1>1, <2>1 DEF BuildInv, EntriesRight, PendingRight
    <2>9. UncompiledInv'
      BY <1>1 DEF BuildInv, UncompiledInv
    <2>10. OnceInv'
      <3>1. ASSUME NEW g \in Once, g = f PROVE Announcing(t, g)'
        BY <3>1, <2>1, <2>2, <2>5, <2>6 DEF Announcing
      <3>2. ASSUME NEW u \in Thread, NEW g \in Once, Announcing(u, g)
            PROVE  FALSE
        BY <1>1, <1>2, <3>2
           DEF Announcing, BuildInv, LocksInv, UnderLock, CompilePc, Is, PcOf
      <3>3. ASSUME NEW i \in 1..Len(code), f \in Once, code[i] = f
            PROVE  FALSE
        BY <1>2, <3>2, <3>3 DEF BuildInv, OnceInv, UncompiledInv
      <3>4. ASSUME NEW g \in Once, NEW i \in 1..Len(code'), code'[i] = g
            PROVE  is_compiled'[g] \/ \E u \in Thread : Announcing(u, g)'
        <4>1. CASE i = n
          <5>1. g = f
            BY <2>1, <3>4, <4>1
          <5> QED
            BY <3>1, <5>1
        <4>2. CASE i # n
          <5>1. i \in 1..Len(code) /\ code[i] = g
            BY <2>1, <3>4, <4>2
          <5> QED
            BY <1>1, <3>2, <5>1 DEF BuildInv, OnceInv
        <4> QED
          BY <4>1, <4>2
      <3>5. ASSUME NEW g \in Once, NEW i \in 1..Len(code'), NEW j \in 1..Len(code'),
                   code'[i] = g, code'[j] = g
            PROVE  i = j
        <4>1. CASE i = n /\ j = n
          BY <4>1
        <4>2. CASE i # n /\ j # n
          <5>1. i \in 1..Len(code) /\ code[i] = g /\ j \in 1..Len(code) /\ code[j] = g
            BY <2>1, <3>5, <4>2
          <5> QED
            BY <5>1 DEF BuildInv, OnceInv
        <4>3. CASE (i = n) # (j = n)
          <5>1. g = f /\ \E k \in 1..Len(code) : code[k] = g
            BY <2>1, <3>5, <4>3
          <5> QED
            BY <3>3, <5>1
        <4> QED
          BY <4>1, <4>2, <4>3
      <3> QED
        BY <3>4, <3>5 DEF OnceInv
    <2> QED
      BY <2>5, <2>6, <2>7, <2>8, <2>9, <2>10 DEF BuildInv
  <1> QED
    BY <1>4, <1>5 DEF Generates

LEMMA CompileUnlocksKeeps ==
    ASSUME BuildInv, NEW t \in Thread, CompileUnlocks(t)
    PROVE  BuildInv'
  <1> DEFINE f == Top(t).fn
  <1>1. /\ Is(t, "cunlock") /\ cache_lock' = NoThread /\ Quiet
        /\ UNCHANGED <<builder_lock, builder, is_compiled, entry_point, code, pending, work>>
    BY DEF CompileUnlocks, Quiet
  <1>2. "cunlock" \in CompilePc
    BY DEF CompilePc
  <1>3. /\ TypeOK /\ RestOK /\ builder_lock = t /\ cache_lock = t /\ t # NoThread /\ builder[f]
    BY <1>1, <1>2, CompilerFacts, TopFacts
  <1>4. CASE Top(t).entry # 0
    <2>1. Goto(t, "cfree") /\ UNCHANGED result
      BY <1>4 DEF CompileUnlocks
    <2>2. FrameRight([Top(t) EXCEPT !.pc = "cfree"], code, entry_point, is_compiled)
      BY <1>1, <1>4, TopFacts DEF FrameRight, Frame
    <2>3. /\ "cfree" \in Pc /\ SamePlace("cunlock", "cfree")
          /\ LockStep(t, "cfree") /\ BuilderStep(t, "cfree", f)
      BY <1>1, <1>3 DEF Pc, SamePlace, CompilePc, LockStep, BuilderStep, UnderLock
    <2>4. RestOK'
      BY <1>1, <1>3, <2>1 DEF RestOK
    <2> QED
      BY <1>1, <2>1, <2>2, <2>3, <2>4, QuietGoto
  <1>5. CASE Top(t).entry = 0
    <2>1. Leaves(t) /\ Returns(t, FALSE)
      BY <1>5 DEF CompileUnlocks
    <2>2. RestOK'
      BY <1>1, <1>3, <2>1, TypesOfTop DEF RestOK
    <2>3. ~Announcing(t, f)
      BY <1>1, <1>5 DEF Announcing, Is, PcOf
    <2> QED
      BY <1>1, <1>2, <1>3, <2>1, <2>2, <2>3, QuietLeave
  <1> QED
    BY <1>4, <1>5

LEMMA CompileFreesKeeps ==
    ASSUME BuildInv, NEW t \in Thread, CompileFrees(t)
    PROVE  BuildInv'
  <1> DEFINE f == Top(t).fn
             below == stack[t][Len(stack[t]) - 1]
  <1>1. /\ Is(t, "cfree") /\ builder' = [builder EXCEPT ![f] = FALSE]
        /\ UNCHANGED <<builder_lock, cache_lock, is_compiled, entry_point, code, work>>
    BY DEF CompileFrees
  <1>2. "cfree" \in CompilePc
    BY DEF CompilePc
  <1>3. /\ TypeOK /\ RestOK /\ builder_lock = t /\ cache_lock # t /\ f \in Function
        /\ Top(t).entry \in 0..MaxCode /\ Top(t).entry # 0 /\ CodeOf(code, f, Top(t).entry)
        /\ Top(t).pc = "cfree"
    BY <1>1, <1>2, CompilerFacts, TopFacts DEF FrameRight
  <1>4. Under(t)[Len(stack[t]) - 1] = below /\ Above(below, Top(t))
    BY <1>1, BelowFacts DEF BottomPc
  <1>5. /\ builder' \in [Function -> BOOLEAN] /\ ~builder'[f]
        /\ \A g \in Function : builder'[g] => builder[g]
    BY <1>1, <1>3 DEF TypeOK
  <1>6. CASE below.pc = "hold"
    <2>1. /\ Leaves(t) /\ Returns(t, TRUE)
          /\ pending' = [pending EXCEPT ![t] = <<f, Top(t).entry>>]
      BY <1>4, <1>6 DEF CompileFrees
    <2>2. f \in Tiered
      BY <1>4, <1>6 DEF Above
    <2>3. /\ pending' \in [Thread -> {<<>>} \cup (Function \X (0..MaxCode))]
          /\ pending'[t] = <<f, Top(t).entry>>
          /\ \A u \in Thread : u # t => pending'[u] = pending[u]
      BY <1>3, <2>1 DEF TypeOK
    <2>4. PendingRight'
      BY <1>1, <1>3, <2>2, <2>3 DEF PendingRight, BuildInv
    <2>5. RestOK' /\ Quiet
      BY <1>1, <1>3, <1>5, <2>1, <2>3, <2>4, TypesOfTop DEF RestOK, Quiet
    <2> QED
      BY <1>1, <1>2, <1>3, <1>5, <2>1, <2>2, <2>5, QuietLeave DEF Once
  <1>7. CASE below.pc # "hold"
    <2>1. Goto(t, "setentry") /\ UNCHANGED <<result, pending>>
      BY <1>4, <1>7 DEF CompileFrees
    <2>2. FrameRight([Top(t) EXCEPT !.pc = "setentry"], code, entry_point, is_compiled)
      BY <1>1, <1>3, TopFacts DEF FrameRight, Frame
    <2>3. \A g \in Once : builder'[g] => builder[g] \/ ~is_compiled[g]
      BY <1>5 DEF Once
    <2>4. /\ "setentry" \in Pc /\ SamePlace("cfree", "setentry")
          /\ LockStep(t, "setentry") /\ BuilderStep(t, "setentry", f)
      BY <1>1, <1>3, <1>5, <2>3 DEF Pc, SamePlace, CompilePc, LockStep, BuilderStep, UnderLock
    <2>5. RestOK' /\ Quiet
      BY <1>1, <1>3, <1>5, <2>1 DEF RestOK, Quiet
    <2> QED
      BY <1>1, <2>1, <2>2, <2>4, <2>5, QuietGoto
  <1> QED
    BY <1>6, <1>7

\* entry_point is set, by compile() or by jit_function_setup_entry.
LEMMA SetsEntryKeeps ==
    ASSUME BuildInv, NEW t \in Thread, CompileSetsEntry(t) \/ SetupEntry(t)
    PROVE  BuildInv'
  <1> DEFINE f == Top(t).fn
  <1>1. /\ entry_point' = [entry_point EXCEPT ![f] = Top(t).entry]
        /\ UNCHANGED <<builder_lock, cache_lock, builder, is_compiled, code,
                       result, pending, work>>
    BY DEF CompileSetsEntry, SetupEntry
  <1>2. PICK p \in {"setentry", "sentry"}, q \in {"setflag", "sflag"} :
          /\ Is(t, p) /\ Goto(t, q) /\ (p = "setentry" <=> q = "setflag")
    BY DEF CompileSetsEntry, SetupEntry
  <1>3. /\ p \in CompilePc \cup SetupPc /\ q \in UnderLock /\ q \in Pc /\ SamePlace(p, q)
    BY <1>2 DEF CompilePc, SetupPc, UnderLock, Pc, SamePlace
  <1>4. /\ TypeOK /\ RestOK /\ ShapeInv /\ FramesRight /\ builder_lock = t /\ cache_lock # t
        /\ stack[t] # <<>> /\ f \in Function /\ Top(t).pc = p /\ PcOf(t) = p
        /\ Top(t) \in Frame /\ Top(t).entry \in 0..MaxCode /\ Top(t).entry # 0
        /\ CodeOf(code, f, Top(t).entry)
        /\ p = "setentry" => ~builder[f]
    BY <1>2, <1>3, CompilerFacts, TopFacts DEF FrameRight
  <1>5. /\ entry_point' \in [Function -> 0..MaxCode] /\ entry_point'[f] = Top(t).entry
        /\ \A g \in Function : g # f => entry_point'[g] = entry_point[g]
    BY <1>1, <1>4 DEF TypeOK
  <1>6. Grown
    BY <1>1, <1>4, <1>5 DEF Grown, TypeOK
  <1>7. FrameRight([Top(t) EXCEPT !.pc = q], code', entry_point', is_compiled')
    BY <1>1, <1>2, <1>4, <1>5 DEF FrameRight, Frame
  <1>8. /\ ShapeInv' /\ FramesRight' /\ stack' \in [Thread -> Seq(Frame)]
        /\ OthersKeep(t) /\ stack'[t] # <<>> /\ Top(t)'.pc = q /\ Top(t)'.fn = Top(t).fn
    BY <1>2, <1>3, <1>4, <1>6, <1>7, GoesOn
  <1>9. TypeOK' /\ PcOf(t)' = q
    BY <1>1, <1>4, <1>5, <1>8 DEF TypeOK, PcOf
  <1>10. LocksInv'
    <2>1. LockStep(t, q)
      BY <1>1, <1>2, <1>3, <1>4 DEF LockStep
    <2> QED
      BY <1>4, <1>8, <1>9, <2>1, LocksKept DEF BuildInv
  <1>11. BuilderInv'
    <2>1. BuilderStep(t, q, Top(t).fn)
      BY <1>1, <1>2, <1>4 DEF BuilderStep
    <2> QED
      BY <1>4, <1>8, <1>9, <2>1, BuilderKept DEF BuildInv
  <1>12. EntriesRight' /\ PendingRight' /\ UncompiledInv'
    BY <1>1, <1>4, <1>5 DEF BuildInv, EntriesRight, PendingRight, UncompiledInv
  <1>13. OnceInv'
    <2>1. \A g \in Once : Announcing(t, g) => Announcing(t, g)'
      BY <1>2, <1>4, <1>8, <1>9 DEF Announcing
    <2> QED
      BY <1>1, <1>4, <1>8, <2>1, OnceKept DEF BuildInv
  <1> QED
    BY <1>8, <1>9, <1>10, <1>11, <1>12, <1>13 DEF BuildInv

\* No on-demand compiler works on a function that is being compiled or set up.
LEMMA CallbacksApart ==
    ASSUME BuildInv, NEW t \in Thread, NEW p \in CompilePc \cup SetupPc, Is(t, p),
           NEW u \in Thread, NEW i \in 1..Len(stack[u]), stack[u][i].pc = "callback"
    PROVE  stack[u][i].fn # Top(t).fn
  <1>1. TypeOK /\ ShapeInv /\ stack[t] # <<>> /\ Top(t).pc = p
    BY TopFacts
  <1>2. \A v \in Thread : PcOf(v) \in UnderLock => v = t
    BY CompilerFacts
  <1>3. stack[u] # <<>>
    BY <1>1 DEF TypeOK
  <1>4. "callback" \in UnderLock /\ p # "callback"
    BY DEF UnderLock, Building, CompilePc, SetupPc
  <1>5. CASE i = Len(stack[u])
    <2>1. PcOf(u) = "callback"
      BY <1>3, <1>5 DEF PcOf, Top
    <2> QED
      BY <1>1, <1>2, <1>3, <1>4, <2>1 DEF PcOf
  <1>6. CASE i # Len(stack[u])
    <2>1. \A n \in Nat \ {0} : i \in 1..n /\ i # n => i \in 1..(n - 1) /\ n > 1
      OBVIOUS
    <2>2. i \in 1..(Len(stack[u]) - 1) /\ Len(stack[u]) > 1
      BY <1>1, <1>3, <1>6, <2>1, ShapeFacts
    <2>3. i = Len(stack[u]) - 1 /\ Top(u).pc \in CompilePc \cup SetupPc
      BY <1>1, <1>3, <1>4, <2>2, ShapeFacts
    <2>4. u = t
      BY <1>2, <1>3, <2>3 DEF PcOf, UnderLock
    <2>5. Above(stack[u][i], Top(u))
      BY <1>1, <1>3, <2>2, <2>3, ShapeFacts
    <2> QED
      BY <2>4, <2>5 DEF Above
  <1> QED
    BY <1>5, <1>6

\* jit_function_setup_entry is for a function that compile_entry compiled.
LEMMA SetupTiered ==
    ASSUME BuildInv, NEW t \in Thread, NEW p \in SetupPc, Is(t, p)
    PROVE  Top(t).fn \in Tiered
  <1>1. Above(stack[t][Len(stack[t]) - 1], Top(t)) /\ Top(t).pc = p
    BY BelowFacts, TopFacts DEF BottomPc, SetupPc
  <1> QED
    BY <1>1 DEF Above, SetupPc, DriverPc, CompilePc

\* is_compiled is set when entry_point is, whoever sets it; the thread goes on
\* at pc in another frame or in this one.
LEMMA SetsFlagKeeps ==
    ASSUME BuildInv, NEW t \in Thread, NEW p \in {"setflag", "sflag"}, Is(t, p),
           is_compiled' = [is_compiled EXCEPT ![Top(t).fn] = TRUE],
           UNCHANGED <<builder_lock, cache_lock, builder, entry_point, code, pending, work>>,
           result' \in [Thread -> BOOLEAN],
           Grown => /\ ShapeInv' /\ FramesRight' /\ OthersKeep(t)
                    /\ stack' \in [Thread -> Seq(Frame)]
                    /\ PcOf(t)' \in {"callback", "returned", "compiled", "user", "hold", "sfree"}
    PROVE  BuildInv'
  <1> DEFINE f == Top(t).fn
  <1>1. p \in CompilePc \cup SetupPc
    BY DEF CompilePc, SetupPc
  <1>2. /\ TypeOK /\ RestOK /\ ShapeInv /\ builder_lock = t /\ cache_lock # t
        /\ f \in Function /\ PcOf(t) = p /\ entry_point[f] # 0
        /\ p = "setflag" => ~builder[f]
    BY <1>1, CompilerFacts, TopFacts DEF FrameRight
  <1>3. /\ is_compiled' \in [Function -> BOOLEAN] /\ is_compiled'[f]
        /\ \A g \in Function : g # f => is_compiled'[g] = is_compiled[g]
    BY <1>2 DEF TypeOK
  <1>4. Grown
    <2>1. ASSUME NEW u \in Thread, NEW i \in 1..Len(stack[u]), stack[u][i].pc = "callback"
          PROVE  is_compiled'[stack[u][i].fn] = is_compiled[stack[u][i].fn]
      <3>1. stack[u][i] \in Frame
        BY <1>2 DEF TypeOK
      <3>2. stack[u][i].fn \in Function
        BY <3>1 DEF Frame
      <3>3. stack[u][i].fn # f
        BY <1>1, <2>1, CallbacksApart
      <3> QED
        BY <1>3, <3>2, <3>3
    <2>2. Len(code) <= Len(code)
      BY <1>2 DEF TypeOK
    <2>3. code' = code /\ entry_point' = entry_point
      OBVIOUS
    <2> QED
      BY <2>1, <2>2, <2>3 DEF Grown
  <1>5. /\ ShapeInv' /\ FramesRight' /\ OthersKeep(t) /\ stack' \in [Thread -> Seq(Frame)]
        /\ PcOf(t)' \in {"callback", "returned", "compiled", "user", "hold", "sfree"}
    BY <1>4
  <1>6. TypeOK'
    BY <1>2, <1>3, <1>5 DEF TypeOK
  <1>7. LocksInv'
    <2>1. LockStep(t, PcOf(t)')
      BY <1>2, <1>5 DEF LockStep, UnderLock, Building, SetupPc
    <2> QED
      BY <1>2, <1>5, <2>1, LocksKept DEF BuildInv
  <1>8. BuilderInv'
    <2>1. BuilderStep(t, PcOf(t)', Top(t)'.fn)
      BY <1>5 DEF BuilderStep
    <2> QED
      BY <1>5, <2>1, BuilderKept DEF BuildInv
  <1>9. EntriesRight' /\ PendingRight'
    BY <1>2, <1>3 DEF BuildInv, EntriesRight, PendingRight
  <1>10. UncompiledInv'
    <2>1. f \in Once => ~builder[f]
      BY <1>2, SetupTiered DEF Once, SetupPc
    <2> QED
      BY <1>3, <2>1 DEF BuildInv, UncompiledInv, Once
  <1>11. OnceInv'
    <2>1. \A g \in Once : is_compiled[g] => is_compiled'[g]
      BY <1>3 DEF Once
    <2>2. \A g \in Once : Announcing(t, g) => is_compiled'[g]
      BY <1>3 DEF Announcing
    <2> QED
      BY <1>2, <1>5, <2>1, <2>2, OnceKept DEF BuildInv
  <1> QED
    BY <1>5, <1>6, <1>7, <1>8, <1>9, <1>10, <1>11 DEF BuildInv

LEMMA CompileSetsFlagKeeps ==
    ASSUME BuildInv, NEW t \in Thread, CompileSetsFlag(t)
    PROVE  BuildInv'
  <1> DEFINE below == stack[t][Len(stack[t]) - 1]
  <1>1. /\ Is(t, "setflag") /\ Leaves(t) /\ Returns(t, TRUE)
        /\ is_compiled' = [is_compiled EXCEPT ![Top(t).fn] = TRUE]
        /\ UNCHANGED <<builder_lock, cache_lock, builder, entry_point, code, pending, work>>
    BY DEF CompileSetsFlag
  <1>2. TypeOK /\ ShapeInv /\ FramesRight /\ stack[t] # <<>> /\ Top(t).pc = "setflag"
    BY <1>1, TopFacts
  <1>3. Len(stack[t]) > 1 /\ Above(below, Top(t))
    BY <1>1, BelowFacts DEF BottomPc
  <1>4. below.pc \in {"callback", "returned", "compiled", "user", "hold"}
    BY <1>2, <1>3 DEF Above, DriverPc, SetupPc
  <1>5. /\ stack' \in [Thread -> Seq(Frame)] /\ OthersKeep(t) /\ PcOf(t)' = below.pc
    BY <1>1, <1>2, <1>3, LeavesStack DEF PcOf
  <1>6. Grown => ShapeInv' /\ FramesRight'
    BY <1>1, <1>2, LeavesKeeps
  <1>7. result' \in [Thread -> BOOLEAN]
    BY <1>1, <1>2, TypesOfTop
  <1> HIDE DEF below
  <1> QED
    BY <1>1, <1>4, <1>5, <1>6, <1>7, SetsFlagKeeps

-----------------------------------------------------------------------------
(***************************************************************************)
(* The front end.                                                          *)
(***************************************************************************)
LEMMA SetupFlagKeeps ==
    ASSUME BuildInv, NEW t \in Thread, SetupFlag(t)
    PROVE  BuildInv'
  <1>1. /\ Is(t, "sflag") /\ Goto(t, "sfree")
        /\ is_compiled' = [is_compiled EXCEPT ![Top(t).fn] = TRUE]
        /\ UNCHANGED <<builder_lock, cache_lock, builder, entry_point, code,
                       result, pending, work>>
    BY DEF SetupFlag
  <1>2. /\ TypeOK /\ ShapeInv /\ FramesRight /\ stack[t] # <<>> /\ Top(t).pc = "sflag"
        /\ FrameRight(Top(t), code, entry_point, is_compiled) /\ Top(t) \in Frame
    BY <1>1, TopFacts
  <1>3. FrameRight([Top(t) EXCEPT !.pc = "sfree"], code', entry_point', is_compiled')
    BY <1>1, <1>2 DEF FrameRight, Frame
  <1>4. "sfree" \in Pc /\ SamePlace("sflag", "sfree")
    BY DEF Pc, SamePlace, SetupPc
  <1>5. Grown => /\ ShapeInv' /\ FramesRight' /\ stack' \in [Thread -> Seq(Frame)]
                 /\ OthersKeep(t) /\ PcOf(t)' = "sfree"
    BY <1>1, <1>2, <1>3, <1>4, GoesOn DEF PcOf
  <1>6. result' \in [Thread -> BOOLEAN]
    BY <1>1, <1>2 DEF TypeOK
  <1> QED
    BY <1>1, <1>5, <1>6, SetsFlagKeeps

LEMMA SetupFreesKeeps ==
    ASSUME BuildInv, NEW t \in Thread, SetupFrees(t)
    PROVE  BuildInv'
  <1> DEFINE f == Top(t).fn
  <1>1. /\ Is(t, "sfree") /\ Leaves(t) /\ Quiet
        /\ builder' = [builder EXCEPT ![f] = FALSE]
        /\ UNCHANGED <<builder_lock, cache_lock, is_compiled, entry_point, code,
                       result, pending, work>>
    BY DEF SetupFrees, Quiet
  <1>2. "sfree" \in SetupPc
    BY DEF SetupPc
  <1>3. TypeOK /\ RestOK /\ builder_lock = t /\ cache_lock # t /\ f \in Function
    BY <1>1, <1>2, CompilerFacts
  <1>4. /\ builder' \in [Function -> BOOLEAN]
        /\ \A g \in Function : builder'[g] => builder[g]
    BY <1>1, <1>3 DEF TypeOK
  <1>5. RestOK' /\ ~Announcing(t, f)
    BY <1>1, <1>3, <1>4 DEF RestOK, Announcing, Is, PcOf
  <1> QED
    BY <1>1, <1>2, <1>3, <1>4, <1>5, QuietLeave

LEMMA UserLocksKeeps ==
    ASSUME BuildInv, NEW t \in Thread, UserLocks(t)
    PROVE  BuildInv'
  <1>1. /\ Is(t, "ulock") /\ Goto(t, "user") /\ Quiet
        /\ builder_lock = NoThread /\ builder_lock' = t
        /\ UNCHANGED <<cache_lock, builder, is_compiled, entry_point, code, result, pending, work>>
    BY DEF UserLocks, Quiet
  <1>2. /\ FrameRight([Top(t) EXCEPT !.pc = "user"], code, entry_point, is_compiled)
        /\ TypeOK /\ RestOK /\ cache_lock # t
    BY <1>1, TopFacts, TypesOfTop DEF FrameRight, Frame
  <1>3. "user" \in Pc /\ SamePlace("ulock", "user") /\ "user" \in UnderLock
    BY DEF Pc, SamePlace, BottomPc, UnderLock, Building
  <1>4. ~Announcing(t, Top(t).fn)
    BY <1>1 DEF Announcing, Is, PcOf
  <1>5. LockStep(t, "user") /\ BuilderStep(t, "user", Top(t).fn)
    BY <1>1, <1>2, <1>3 DEF LockStep, BuilderStep
  <1>6. RestOK'
    BY <1>1, <1>2 DEF RestOK
  <1> QED
    BY <1>1, <1>2, <1>3, <1>4, <1>5, <1>6, QuietGoto

LEMMA UserHoldsKeeps ==
    ASSUME BuildInv, NEW t \in Thread, UserHolds(t)
    PROVE  BuildInv'
  <1>1. /\ Is(t, "hold") /\ Goto(t, "user") /\ Quiet
        /\ UNCHANGED <<shared, result, pending, work>>
    BY DEF UserHolds, Quiet, shared
  <1>2. /\ FrameRight([Top(t) EXCEPT !.pc = "user"], code, entry_point, is_compiled)
        /\ TypeOK /\ RestOK /\ cache_lock # t /\ builder_lock = t
    BY <1>1, TopFacts, TypesOfTop DEF FrameRight, Frame, UnderLock, Building
  <1>3. "user" \in Pc /\ SamePlace("hold", "user") /\ "user" \in UnderLock
    BY DEF Pc, SamePlace, BottomPc, UnderLock, Building
  <1>4. ~Announcing(t, Top(t).fn)
    BY <1>1 DEF Announcing, Is, PcOf
  <1>5. LockStep(t, "user") /\ BuilderStep(t, "user", Top(t).fn)
    BY <1>1, <1>2, <1>3 DEF LockStep, BuilderStep, shared
  <1>6. RestOK'
    BY <1>1, <1>2 DEF RestOK, shared
  <1> QED
    BY <1>1, <1>2, <1>3, <1>4, <1>5, <1>6, QuietGoto

\* The front end makes or gives up the builder of its function.
LEMMA UserStays ==
    ASSUME BuildInv, NEW t \in Thread, UserBuilds(t) \/ UserAbandons(t)
    PROVE  BuildInv'
  <1> DEFINE f == Top(t).fn
  <1>1. /\ Is(t, "user") /\ Quiet
        /\ UNCHANGED <<builder_lock, cache_lock, is_compiled, entry_point, code,
                       stack, result, pending>>
    BY DEF UserBuilds, UserAbandons, Quiet, local
  <1>2. TypeOK /\ builder_lock = t /\ cache_lock # t /\ f \in Function /\ PcOf(t) = "user"
    BY <1>1, TopFacts DEF UnderLock, Building
  <1>3. work' \in [Thread -> 0..MaxWork]
    BY <1>2, TypesOfTop DEF UserBuilds, UserAbandons, local, TypeOK
  <1>4. /\ builder' \in [Function -> BOOLEAN]
        /\ \A g \in Once : builder'[g] => builder[g] \/ ~is_compiled[g]
    BY <1>2 DEF UserBuilds, UserAbandons, TypeOK, Once
  <1>5. ShapeInv' /\ FramesRight' /\ TypeOK' /\ OthersKeep(t) /\ PcOf(t)' = "user"
    BY <1>1, <1>2, <1>3, <1>4
       DEF BuildInv, ShapeInv, FramesRight, TypeOK, OthersKeep, PcOf, Top
  <1>6. LockStep(t, "user") /\ \A g : BuilderStep(t, "user", g)
    BY <1>1, <1>2, <1>4 DEF LockStep, BuilderStep, UnderLock, Building
  <1>7. \A g \in Once : ~Announcing(t, g)
    BY <1>2 DEF Announcing
  <1> QED
    BY <1>1, <1>5, <1>6, <1>7, QuietKeeps

LEMMA UserCompilesKeeps ==
    ASSUME BuildInv, NEW t \in Thread, UserCompiles(t)
    PROVE  BuildInv'
  <1>1. /\ Is(t, "user") /\ Calls(t, "user", At("begin", Top(t).fn, 0)) /\ Starts(t)
        /\ UNCHANGED <<shared, result, pending>>
    BY DEF UserCompiles
  <1>2. TypeOK /\ Top(t).fn \in Function /\ work' \in [Thread -> 0..MaxWork]
    BY <1>1, TopFacts, TypesOfTop
  <1> QED
    BY <1>1, <1>2, CallsCompiler DEF TypeOK, Quiet, shared

LEMMA UserCompilesEntryKeeps ==
    ASSUME BuildInv, NEW t \in Thread, UserCompilesEntry(t)
    PROVE  BuildInv'
  <1> DEFINE f == Top(t).fn
  <1>1. /\ Is(t, "user") /\ Calls(t, "hold", At("begin", f, 0)) /\ Starts(t)
        /\ f \in Tiered /\ pending' = [pending EXCEPT ![t] = <<f, 0>>]
        /\ UNCHANGED <<shared, result>>
    BY DEF UserCompilesEntry
  <1>2. TypeOK /\ f \in Function /\ work' \in [Thread -> 0..MaxWork]
    BY <1>1, TopFacts, TypesOfTop
  <1>3. /\ pending' \in [Thread -> {<<>>} \cup (Function \X (0..MaxCode))]
        /\ pending'[t] = <<f, 0>>
        /\ \A u \in Thread : u # t => pending'[u] = pending[u]
    <2>1. <<f, 0>> \in Function \X (0..MaxCode)
      BY <1>2, OnDemandAssumption
    <2>2. pending \in [Thread -> {<<>>} \cup (Function \X (0..MaxCode))]
      BY <1>2 DEF TypeOK
    <2> QED
      BY <1>1, <2>1, <2>2
  <1>4. PendingRight'
    BY <1>1, <1>3 DEF PendingRight, BuildInv, shared
  <1>5. SamePlace("user", "hold")
    BY DEF SamePlace, BottomPc
  <1> QED
    BY <1>1, <1>2, <1>3, <1>4, <1>5, CallsCompiler DEF TypeOK, Quiet, shared

LEMMA UserSetsUpKeeps ==
    ASSUME BuildInv, NEW t \in Thread, UserSetsUp(t)
    PROVE  BuildInv'
  <1>1. PICK f \in Function, e \in 0..MaxCode :
          /\ Is(t, "user") /\ pending[t] = <<f, e>>
          /\ Calls(t, "user", At(IF e # 0 THEN "sentry" ELSE "sfree", f, e))
          /\ pending' = [pending EXCEPT ![t] = <<>>]
          /\ UNCHANGED <<shared, result, work>>
    BY DEF UserSetsUp
  <1> DEFINE pc == IF e # 0 THEN "sentry" ELSE "sfree"
             frame == At(pc, f, e)
             lo == [Top(t) EXCEPT !.pc = "user"]
  <1>2. f \in Tiered /\ (e # 0 => CodeOf(code, f, e))
    BY <1>1 DEF BuildInv, PendingRight
  <1>3. /\ TypeOK /\ RestOK /\ builder_lock = t /\ cache_lock # t
        /\ lo.pc = "user" /\ FrameRight(lo, code, entry_point, is_compiled)
    BY <1>1, TopFacts, TypesOfTop DEF UnderLock, Building, FrameRight, Frame
  <1>4. /\ frame \in Frame /\ frame.pc \in SetupPc /\ frame.fn = f
        /\ FrameRight(frame, code, entry_point, is_compiled)
    BY <1>2 DEF At, Frame, Pc, SetupPc, FrameRight
  <1>5. /\ pending' \in [Thread -> {<<>>} \cup (Function \X (0..MaxCode))]
        /\ pending'[t] = <<>>
        /\ \A u \in Thread : u # t => pending'[u] = pending[u]
    BY <1>1, <1>3 DEF TypeOK
  <1>6. PendingRight'
    BY <1>1, <1>5 DEF PendingRight, BuildInv, shared
  <1>7. RestOK' /\ Quiet
    BY <1>1, <1>3, <1>5, <1>6 DEF RestOK, Quiet, shared
  <1>8. Calls(t, "user", frame)
    BY <1>1
  <1> HIDE DEF pc, frame, lo
  <1>9. Above(lo, frame) /\ frame.pc \notin BottomPc
    BY <1>2, <1>3, <1>4 DEF Above, SetupPc, BottomPc
  <1>10. LockStep(t, frame.pc) /\ BuilderStep(t, frame.pc, frame.fn)
    BY <1>1, <1>3, <1>4 DEF LockStep, BuilderStep, UnderLock, SetupPc, shared
  <1>11. "user" \in Pc /\ "user" \notin CompilePc
    BY DEF Pc, CompilePc
  <1> QED
    BY <1>1, <1>3, <1>4, <1>7, <1>8, <1>9, <1>10, <1>11, QuietCall DEF lo

LEMMA UserEndsKeeps ==
    ASSUME BuildInv, NEW t \in Thread, UserEnds(t)
    PROVE  BuildInv'
  <1>1. /\ Is(t, "user") /\ builder_lock' = NoThread /\ Leaves(t) /\ Quiet
        /\ UNCHANGED <<cache_lock, builder, is_compiled, entry_point, code,
                       result, pending, work>>
    BY DEF UserEnds, Quiet
  <1>2. /\ TypeOK /\ RestOK /\ ShapeInv /\ FramesRight /\ Grown /\ stack[t] # <<>>
        /\ builder_lock = t /\ cache_lock # t /\ Top(t).pc = "user" /\ PcOf(t) = "user"
    BY <1>1, TopFacts, TypesOfTop, QuietGrown DEF UnderLock, Building
  <1>3. Len(stack[t]) = 1
    BY <1>2, ShapeFacts DEF BottomPc
  <1>4. /\ stack' \in [Thread -> Seq(Frame)] /\ OthersKeep(t) /\ Len(stack'[t]) = 0
    <2>1. /\ stack' \in [Thread -> Seq(Frame)] /\ OthersKeep(t)
          /\ Len(stack'[t]) = Len(stack[t]) - 1
      BY <1>1, <1>2, LeavesStack
    <2>2. Len(stack'[t]) = 1 - 1
      BY <1>3, <2>1
    <2> QED
      BY <2>1, <2>2
  <1>5. PcOf(t)' = "idle"
    BY <1>4 DEF PcOf
  <1>6. ShapeInv' /\ FramesRight' /\ TypeOK'
    BY <1>1, <1>2, <1>4, LeavesKeeps DEF TypeOK
  <1>7. LockStep(t, "idle") /\ \A g : BuilderStep(t, "idle", g)
    BY <1>1, <1>2, OnDemandAssumption
       DEF LockStep, BuilderStep, UnderLock, Building, CompilePc, SetupPc
  <1>8. \A g \in Once : ~Announcing(t, g)
    BY <1>2 DEF Announcing
  <1> QED
    BY <1>1, <1>4, <1>5, <1>6, <1>7, <1>8, QuietKeeps

-----------------------------------------------------------------------------
(***************************************************************************)
(* The invariant.                                                          *)
(***************************************************************************)
LEMMA BuildInvInit == Init => BuildInv
  <1> SUFFICES ASSUME Init PROVE BuildInv
    OBVIOUS
  <1>1. TypeOK
    BY OnDemandAssumption DEF Init, TypeOK, Redirector
  <1>2. \A t \in Thread : stack[t] = <<>> /\ PcOf(t) = "idle" /\ Len(stack[t]) = 0
    BY DEF Init, PcOf
  <1>3. ShapeInv /\ FramesRight
    BY <1>2 DEF ShapeInv, Shape, FramesRight
  <1>4. LocksInv /\ BuilderInv
    BY <1>2, OnDemandAssumption
       DEF LocksInv, BuilderInv, Init, UnderLock, Building, CompilePc, SetupPc
  <1>5. EntriesRight /\ UncompiledInv
    BY DEF Init, EntriesRight, UncompiledInv, Redirector, Once
  <1>6. PendingRight
    BY DEF Init, PendingRight
  <1>7. OnceInv
    BY DEF Init, OnceInv
  <1> QED
    BY <1>1, <1>3, <1>4, <1>5, <1>6, <1>7 DEF BuildInv

LEMMA BuildInvStep == BuildInv /\ [Next]_vars => BuildInv'
  <1> SUFFICES ASSUME BuildInv, [Next]_vars PROVE BuildInv'
    OBVIOUS
  <1>1. ASSUME NEW t \in Thread, Caller(t) PROVE BuildInv'
    BY <1>1, BeginsKeeps, RunCallsKeeps, ApplyReadsFlagKeeps, ApplyEntersKeeps,
       RunReturnsKeeps, RunThrowsKeeps DEF Caller
  <1>2. ASSUME NEW t \in Thread, Driver(t) PROVE BuildInv'
    BY <1>2, DriverLocksKeeps, DriverChecksKeeps, DriverCompilesKeeps,
       CallbackReturnsKeeps, CallbackCompilesKeeps, CallbackCompiledKeeps,
       CallbackHelpsKeeps, DriverCompiledKeeps, DriverFreesKeeps, DriverUnlocksKeeps
       DEF Driver
  <1>3. ASSUME NEW t \in Thread, Compiler(t) PROVE BuildInv'
    BY <1>3, CompileBeginsKeeps, CompileLocksKeeps, GeneratesKeeps, CompileUnlocksKeeps,
       CompileFreesKeeps, SetsEntryKeeps, CompileSetsFlagKeeps DEF Compiler
  <1>4. ASSUME NEW t \in Thread, FrontEnd(t) PROVE BuildInv'
    BY <1>4, BeginsKeeps, UserLocksKeeps, UserStays, UserCompilesKeeps,
       UserCompilesEntryKeeps, UserHoldsKeeps, UserSetsUpKeeps, SetsEntryKeeps,
       SetupFlagKeeps, SetupFreesKeeps, UserEndsKeeps DEF FrontEnd
  <1>5. CASE UNCHANGED vars
    <2>1. UNCHANGED shared /\ UNCHANGED local
      BY <1>5 DEF vars
    <2> QED
      BY <2>1 DEF shared, local, BuildInv, TypeOK, ShapeInv, LocksInv, FramesRight,
         EntriesRight, PendingRight, BuilderInv, UncompiledInv, OnceInv, PcOf, Top,
         Announcing
  <1> QED
    BY <1>1, <1>2, <1>3, <1>4, <1>5 DEF Next, Step

\* The invariant holds in every state, whatever threads, functions and compilers
\* there are (jit_function_compile, _jit_function_compile_on_demand).
THEOREM BuildInvariant == Spec => []BuildInv
  BY BuildInvInit, BuildInvStep, PTL DEF Spec

\* builder_lock is held by the one thread that builds, cache_lock by the one that
\* writes to the cache: no way out of the driver or of compile() keeps a lock, and
\* no frame of a build lies in the stack of a thread without it.
THEOREM LocksAlwaysMatch == Spec => []LocksMatch
  <1>1. ASSUME BuildInv PROVE LocksMatch
    <2> SUFFICES ASSUME NEW t \in Thread
                 PROVE  /\ builder_lock = t <=>
                             \E i \in 1..Len(stack[t]) : stack[t][i].pc \in Building
                        /\ cache_lock = t <=> Is(t, "gen") \/ Is(t, "cunlock")
      BY DEF LocksMatch
    <2>1. TypeOK /\ ShapeInv /\ LocksInv
      BY <1>1 DEF BuildInv
    <2>2. cache_lock = t <=> Is(t, "gen") \/ Is(t, "cunlock")
      BY <2>1 DEF LocksInv, PcOf, Is
    <2>3. CASE stack[t] = <<>>
      <3>1. PcOf(t) = "idle" /\ Len(stack[t]) = 0
        BY <2>3 DEF PcOf
      <3>2. builder_lock # t
        BY <2>1, <3>1 DEF LocksInv, UnderLock, Building, CompilePc, SetupPc
      <3> QED
        BY <2>2, <3>1, <3>2
    <2>4. CASE stack[t] # <<>>
      <3> DEFINE n == Len(stack[t])
      <3>1. /\ n \in Nat \ {0} /\ Top(t) = stack[t][n] /\ PcOf(t) = Top(t).pc
            /\ Top(t).pc \in BottomPc <=> n = 1
            /\ n > 1 => Above(stack[t][n - 1], Top(t))
            /\ \A i \in 1..(n - 1) : stack[t][i].pc \in UnderLock =>
                 Top(t).pc \in CompilePc \cup SetupPc
        BY <2>1, <2>4, ShapeFacts DEF PcOf
      <3>2. builder_lock = t <=> Top(t).pc \in UnderLock
        BY <2>1, <3>1 DEF LocksInv
      <3> HIDE DEF n
      <3>3. ASSUME NEW i \in 1..n, stack[t][i].pc \in Building
            PROVE  Top(t).pc \in UnderLock
        <4>1. stack[t][i].pc \in UnderLock
          BY <3>3 DEF UnderLock
        <4>2. i = n \/ i \in 1..(n - 1)
          BY <3>1, <3>3
        <4> QED
          BY <3>1, <4>1, <4>2 DEF UnderLock
      <3>4. ASSUME Top(t).pc \in UnderLock
            PROVE  \E i \in 1..n : stack[t][i].pc \in Building
        <4>1. CASE Top(t).pc \in Building
          BY <3>1, <4>1
        <4>2. CASE Top(t).pc \notin Building
          <5>1. Top(t).pc \in CompilePc \cup SetupPc
            BY <3>4, <4>2 DEF UnderLock
          <5>2. n # 1
            BY <3>1, <5>1 DEF BottomPc, CompilePc, SetupPc
          <5>3. Above(stack[t][n - 1], Top(t)) /\ n - 1 \in 1..n
            BY <3>1, <5>2
          <5>4. stack[t][n - 1].pc \in Building
            BY <5>1, <5>3 DEF Above, DriverPc, CompilePc, SetupPc, Building
          <5> QED
            BY <5>3, <5>4
        <4> QED
          BY <4>1, <4>2
      <3> QED
        BY <2>2, <3>2, <3>3, <3>4 DEF n
    <2> QED
      BY <2>3, <2>4
  <1> QED
    BY <1>1, BuildInvariant, PTL

\* A caller takes no lock, and runs finished code of the function it called
\* whenever it reads is_compiled and entry_point (jit_function_apply_vararg, the
\* redirector and the indirector).
THEOREM AlwaysRunsItsCode == Spec => []RunsItsCode
  <1>1. BuildInv => RunsItsCode
    BY DEF BuildInv, FramesRight, FrameRight, CodeOf, EntriesRight, RunsItsCode, Redirector
  <1> QED
    BY <1>1, BuildInvariant, PTL

\* However many threads find a function uncompiled, it is compiled once.
THEOREM AlwaysCompiledOnce == Spec => []CompiledOnce
  <1>1. ASSUME BuildInv PROVE CompiledOnce
    <2> SUFFICES ASSUME NEW f \in Once
                 PROVE  Cardinality({i \in 1..Len(code) : code[i] = f}) <= 1
      BY DEF CompiledOnce, Once
    <2> DEFINE S == {i \in 1..Len(code) : code[i] = f}
    <2>1. \A i, j \in S : i = j
      BY <1>1 DEF BuildInv, OnceInv
    <2>2. S = {} \/ \E i : S = {i}
      BY <2>1
    <2> HIDE DEF S
    <2>3. Cardinality(S) <= 1
      <3>1. CASE S = {}
        <4>1. Cardinality(S) = 0
          BY <3>1, FS_EmptySet
        <4> QED
          BY <4>1
      <3>2. ASSUME NEW i, S = {i} PROVE Cardinality(S) <= 1
        <4>1. Cardinality(S) = 1
          BY <3>2, FS_Singleton
        <4> QED
          BY <4>1
      <3> QED
        BY <2>2, <3>1, <3>2
    <2> QED
      BY <2>3 DEF S
  <1> QED
    BY <1>1, BuildInvariant, PTL

\* No step takes back that a function is compiled, or its entry point: not a
\* failed build, an abandoned one or a null entry (jit_function_abandon,
\* jit_function_setup_entry).
THEOREM AlwaysStaysCompiled == Spec => StaysCompiled
  <1> DEFINE Stays == \A f \in Function :
               /\ is_compiled[f] => is_compiled'[f]
               /\ entry_point[f] # Redirector => entry_point'[f] # Redirector
  <1>1. ASSUME BuildInv, [Next]_vars PROVE [Stays]_vars
    <2>1. CASE UNCHANGED <<is_compiled, entry_point>>
      BY <2>1
    <2>2. ASSUME NEW t \in Thread, CompileSetsEntry(t) \/ SetupEntry(t) PROVE Stays
      <3>1. PICK p \in {"setentry", "sentry"} : Is(t, p)
        BY <2>2 DEF CompileSetsEntry, SetupEntry
      <3>2. Top(t).entry # 0 /\ TypeOK
        BY <1>1, <3>1, TopFacts DEF FrameRight
      <3>3. /\ entry_point' = [entry_point EXCEPT ![Top(t).fn] = Top(t).entry]
            /\ is_compiled' = is_compiled
        BY <2>2 DEF CompileSetsEntry, SetupEntry
      <3> QED
        BY <3>2, <3>3 DEF TypeOK, Redirector
    <2>3. ASSUME NEW t \in Thread, CompileSetsFlag(t) \/ SetupFlag(t) PROVE Stays
      <3>1. /\ is_compiled' = [is_compiled EXCEPT ![Top(t).fn] = TRUE]
            /\ entry_point' = entry_point
        BY <2>3 DEF CompileSetsFlag, SetupFlag
      <3> QED
        BY <1>1, <3>1 DEF BuildInv, TypeOK
    <2>4. ASSUME NEW t \in Thread, Step(t)
          PROVE  \/ UNCHANGED <<is_compiled, entry_point>>
                 \/ CompileSetsEntry(t) \/ SetupEntry(t)
                 \/ CompileSetsFlag(t) \/ SetupFlag(t)
      <3>1. CASE Caller(t)
        BY <3>1 DEF Caller, Apply, RunCalls, ApplyReadsFlag, ApplyEnters, RunReturns,
           RunThrows, shared
      <3>2. CASE Driver(t)
        BY <3>2 DEF Driver, DriverLocks, DriverChecks, DriverCompiles, CallbackReturns,
           CallbackCompiles, CallbackCompiled, CallbackHelps, DriverCompiled,
           DriverFrees, DriverUnlocks, shared
      <3>3. CASE Compiler(t)
        BY <3>3 DEF Compiler, CompileBegins, CompileLocks, Generates, CompileUnlocks,
           CompileFrees, shared
      <3>4. CASE FrontEnd(t)
        BY <3>4 DEF FrontEnd, UserStarts, UserLocks, UserBuilds, UserCompiles,
           UserCompilesEntry, UserHolds, UserSetsUp, SetupFrees, UserAbandons,
           UserEnds, shared
      <3> QED
        BY <2>4, <3>1, <3>2, <3>3, <3>4 DEF Step
    <2>5. UNCHANGED vars => UNCHANGED <<is_compiled, entry_point>>
      BY DEF vars, shared
    <2> QED
      BY <1>1, <2>1, <2>2, <2>3, <2>4, <2>5 DEF Next
  <1> QED
    BY <1>1, BuildInvariant, PTL DEF Spec, StaysCompiled
=============================================================================
