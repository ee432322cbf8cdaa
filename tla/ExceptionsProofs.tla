-------------------------- MODULE ExceptionsProofs --------------------------
(***************************************************************************)
(* The chains of Exceptions for any functions, bodies and depths, under    *)
(* BodiesRight: what a front end has to keep to so that the setjmp chain,  *)
(* the backtrace chain and the native stack agree.  Everything BodiesRight *)
(* excludes breaks one of the properties (README).                         *)
(*                                                                         *)
(* The chains are lists of stack positions, so what is said of them is     *)
(* said of the first m frames of a stack s: TraceOf and ChainOf.  A return *)
(* takes the last of these frames away, a call adds one, a throw takes     *)
(* away all after the newest buffer.                                       *)
(***************************************************************************)
EXTENDS Exceptions, SequenceTheorems, TLAPS

-----------------------------------------------------------------------------
\* Code that pops what it pushes, and whose calls are recorded and return.
CodeRight(c) ==
  /\ c.covered = c.installs
  /\ c.pops = (IF c.installs THEN 1 ELSE 0) /\ c.tailpops = c.pops
  /\ c.installs => ~c.loops /\ ~c.nothrow
  /\ c.calls => ~c.noreturn

BuildsInv == \A f \in Function :
  /\ CodeRight(code[f])
  /\ code[f] = NotCompiled =>
       ~flags[f].has_try /\ ~flags[f].no_throw /\ ~flags[f].no_return
  /\ f \in Recompilable => ~flags[f].has_try
  /\ f \in Recompilable /\ (\E b \in Body[f] : b[2]) => ~flags[f].no_return

\* A frame that runs, and one that waits for the frame above it.
OnTop(frame) ==
  /\ frame \in Frame /\ CodeRight(frame.code) /\ ~frame.apply /\ ~frame.armed
  /\ frame.pc \in {"body", "catch"} /\ (frame.pc = "catch" => frame.code.installs)

Waits(frame) ==
  /\ frame \in Frame /\ CodeRight(frame.code)
  /\ frame.apply => frame = ApplyFrame
  /\ ~frame.apply => /\ frame.pc \in {"call", "callout"}
                     /\ frame.pc = "call" => frame.code.calls
                     /\ frame.armed = frame.code.installs

FramesRight(s) ==
  /\ s \in Seq(Frame)
  /\ Len(s) > 0 => s[1].apply /\ OnTop(s[Len(s)])
  /\ \A i \in 1..(Len(s) - 1) : /\ Waits(s[i])
                                /\ s[i].apply => ~s[i + 1].apply

\* tr holds the calls of jit_function_apply among the first m frames of s.
TraceOf(s, m, tr) ==
  /\ tr \in Seq(Nat)
  /\ \A k \in 1..Len(tr) : tr[k] \in 1..m /\ s[tr[k]].apply
  /\ \A i \in 1..m : s[i].apply => \E k \in 1..Len(tr) : tr[k] = i

\* c holds the buffers of the first m frames of s, in order.
BufferRecord == [frame : Nat, trace : Seq(Nat)]

ChainOf(s, m, c) ==
  /\ c \in Seq(BufferRecord)
  /\ \A k \in 1..Len(c) : /\ c[k].frame \in 1..m /\ HasBuffer(s[c[k].frame])
                          /\ TraceOf(s, c[k].frame - 1, c[k].trace)
  /\ \A i \in 1..m : HasBuffer(s[i]) => \E k \in 1..Len(c) : c[k].frame = i
  /\ \A j, k \in 1..Len(c) : j < k => c[j].frame < c[k].frame

RestOK == /\ code \in [Function -> Code]
          /\ flags \in [Function -> [has_try : BOOLEAN, no_throw : BOOLEAN, no_return : BOOLEAN]]

StackInv(s, c, tr) == /\ FramesRight(s)
                      /\ ChainOf(s, Len(s), c)
                      /\ TraceOf(s, Len(s), tr)

ChainsInv == /\ RestOK /\ BuildsInv
             /\ StackInv(stack, setjmp_head, backtrace_head)
             /\ ~lost

-----------------------------------------------------------------------------
(***************************************************************************)
(* Lists that are cut.                                                     *)
(***************************************************************************)
LEMMA Prefix ==
    ASSUME NEW S, NEW s \in Seq(S), NEW n \in 0..Len(s)
    PROVE  /\ SubSeq(s, 1, n) \in Seq(S) /\ Len(SubSeq(s, 1, n)) = n
           /\ \A i \in 1..n : SubSeq(s, 1, n)[i] = s[i] /\ s[i] \in S
  <1>1. n \in Int /\ n >= 0 /\ \A i \in 1..n : s[i] \in S
    OBVIOUS
  <1> DEFINE t == SubSeq(s, 1, n)
  <1>2. /\ t \in Seq(S)
        /\ Len(t) = IF 1 <= n THEN n - 1 + 1 ELSE 0
        /\ \A i \in 1..(n - 1 + 1) : t[i] = s[1 + i - 1]
    BY <1>1, SubSeqProperties
  <1> HIDE DEF t
  <1>3. Len(t) = n /\ \A i \in 1..n : t[i] = s[i]
    BY <1>1, <1>2
  <1> QED
    BY <1>1, <1>2, <1>3 DEF t

LEMMA WholePrefix ==
    ASSUME NEW S, NEW s \in Seq(S)
    PROVE  SubSeq(s, 1, Len(s)) = s
  <1>1. /\ SubSeq(s, 1, Len(s)) \in Seq(S) /\ Len(SubSeq(s, 1, Len(s))) = Len(s)
        /\ \A i \in 1..Len(s) : SubSeq(s, 1, Len(s))[i] = s[i]
    BY Prefix, LenProperties
  <1> QED
    BY <1>1, SeqEqual

\* r keeps the first n frames of s.
SamePrefix(s, r, n) == \A i \in 1..n : r[i] = s[i]

\* ... or at least what the chains tell of them.
Agree(s, r, n) == \A i \in 1..n : r[i].apply = s[i].apply /\ r[i].code = s[i].code

LEMMA SwapAgree ==
    ASSUME NEW s, NEW r, NEW n \in Nat \ {0}, SamePrefix(s, r, n - 1),
           r[n].apply = s[n].apply, r[n].code = s[n].code
    PROVE  Agree(s, r, n)
  <1>1. ASSUME NEW i \in 1..n PROVE r[i].apply = s[i].apply /\ r[i].code = s[i].code
    <2>1. CASE i = n
      BY <2>1
    <2>2. CASE i # n
      <3>1. i \in 1..(n - 1)
        BY <2>2
      <3> QED
        BY <3>1 DEF SamePrefix
    <2> QED
      BY <2>1, <2>2
  <1> QED
    BY <1>1 DEF Agree

LEMMA SameAgree ==
    ASSUME NEW s, NEW r, NEW n, SamePrefix(s, r, n)
    PROVE  Agree(s, r, n)
  BY DEF SamePrefix, Agree

-----------------------------------------------------------------------------
(***************************************************************************)
(* The chains, frame by frame.                                             *)
(***************************************************************************)
LEMMA TraceAgree ==
    ASSUME NEW s, NEW r, NEW m \in Nat, NEW n \in Nat, n <= m, NEW tr,
           TraceOf(s, n, tr), Agree(s, r, m)
    PROVE  TraceOf(r, n, tr)
  <1>1. \A i \in 1..n : r[i].apply = s[i].apply
    BY DEF Agree
  <1> QED
    BY <1>1 DEF TraceOf

\* A frame of compiled code has no record.
LEMMA TraceSkips ==
    ASSUME NEW s, NEW m \in Nat, NEW tr, ~s[m + 1].apply
    PROVE  TraceOf(s, m, tr) <=> TraceOf(s, m + 1, tr)
  <1>1. ASSUME TraceOf(s, m, tr) PROVE TraceOf(s, m + 1, tr)
    BY <1>1 DEF TraceOf
  <1>2. ASSUME TraceOf(s, m + 1, tr) PROVE TraceOf(s, m, tr)
    <2>1. ASSUME NEW k \in 1..Len(tr) PROVE tr[k] \in 1..m /\ s[tr[k]].apply
      BY <1>2, <2>1 DEF TraceOf
    <2>2. ASSUME NEW i \in 1..m, s[i].apply PROVE \E k \in 1..Len(tr) : tr[k] = i
      BY <1>2, <2>2 DEF TraceOf
    <2> QED
      BY <1>2, <2>1, <2>2 DEF TraceOf
  <1> QED
    BY <1>1, <1>2

\* jit_function_apply pushes its record.
LEMMA TracePush ==
    ASSUME NEW s, NEW m \in Nat, NEW tr, s[m + 1].apply, TraceOf(s, m, tr)
    PROVE  TraceOf(s, m + 1, Append(tr, m + 1))
  <1> DEFINE n == Len(tr)
             r == Append(tr, m + 1)
  <1>1. tr \in Seq(Nat) /\ n \in Nat
    BY DEF TraceOf
  <1>2. /\ r \in Seq(Nat) /\ Len(r) = n + 1 /\ r[n + 1] = m + 1
        /\ \A i \in 1..n : r[i] = tr[i]
    BY <1>1
  <1>3. /\ \A k \in 1..n : tr[k] \in 1..m /\ s[tr[k]].apply
        /\ \A i \in 1..m : s[i].apply => \E k \in 1..n : tr[k] = i
    BY DEF TraceOf
  <1> HIDE DEF n, r
  <1>4. ASSUME NEW k \in 1..(n + 1) PROVE r[k] \in 1..(m + 1) /\ s[r[k]].apply
    <2>1. CASE k = n + 1
      BY <1>2, <2>1
    <2>2. CASE k # n + 1
      <3>1. k \in 1..n
        BY <1>1, <2>2
      <3> QED
        BY <1>2, <1>3, <3>1
    <2> QED
      BY <2>1, <2>2
  <1>5. ASSUME NEW i \in 1..(m + 1), s[i].apply PROVE \E k \in 1..(n + 1) : r[k] = i
    <2>1. CASE i = m + 1
      BY <1>1, <1>2, <2>1
    <2>2. CASE i # m + 1
      <3>1. PICK k \in 1..n : tr[k] = i
        BY <1>3, <1>5, <2>2
      <3> QED
        BY <1>1, <1>2, <3>1
    <2> QED
      BY <2>1, <2>2
  <1> QED
    BY <1>2, <1>4, <1>5 DEF TraceOf, r

LEMMA ChainAgree ==
    ASSUME NEW s, NEW r, NEW m \in Nat, NEW n \in Nat, n <= m, NEW c,
           ChainOf(s, n, c), Agree(s, r, m)
    PROVE  ChainOf(r, n, c)
  <1>1. \A i \in 1..n : HasBuffer(r[i]) <=> HasBuffer(s[i])
    BY DEF Agree, HasBuffer
  <1>2. ASSUME NEW k \in 1..Len(c)
        PROVE  /\ c[k].frame \in 1..n /\ HasBuffer(r[c[k].frame])
               /\ TraceOf(r, c[k].frame - 1, c[k].trace)
    <2>1. /\ c[k].frame \in 1..n /\ HasBuffer(s[c[k].frame])
          /\ TraceOf(s, c[k].frame - 1, c[k].trace)
      BY DEF ChainOf
    <2>2. c[k].frame - 1 \in Nat /\ c[k].frame - 1 <= m
      BY <2>1
    <2> QED
      BY <1>1, <2>1, <2>2, TraceAgree
  <1> QED
    BY <1>1, <1>2 DEF ChainOf

\* A frame without a buffer is not in the chain.
LEMMA ChainSkips ==
    ASSUME NEW s, NEW m \in Nat, NEW c, ~HasBuffer(s[m + 1])
    PROVE  ChainOf(s, m, c) <=> ChainOf(s, m + 1, c)
  <1>1. ASSUME ChainOf(s, m, c) PROVE ChainOf(s, m + 1, c)
    BY <1>1 DEF ChainOf
  <1>2. ASSUME ChainOf(s, m + 1, c) PROVE ChainOf(s, m, c)
    <2>1. ASSUME NEW k \in 1..Len(c) PROVE c[k].frame \in 1..m
      BY <1>2, <2>1 DEF ChainOf
    <2>2. ASSUME NEW i \in 1..m, HasBuffer(s[i]) PROVE \E k \in 1..Len(c) : c[k].frame = i
      <3>1. \A j \in 1..(m + 1) : HasBuffer(s[j]) => \E k \in 1..Len(c) : c[k].frame = j
        BY <1>2 DEF ChainOf
      <3>2. i \in 1..(m + 1)
        OBVIOUS
      <3> QED
        BY <2>2, <3>1, <3>2
    <2> QED
      BY <1>2, <2>1, <2>2 DEF ChainOf
  <1> QED
    BY <1>1, <1>2

\* _jit_unwind_push_setjmp, or a prologue without it.
LEMMA ChainPush ==
    ASSUME NEW s, NEW m \in Nat, NEW c, NEW tr, ChainOf(s, m, c), TraceOf(s, m, tr)
    PROVE  ChainOf(s, m + 1, PushSetjmp(c, m + 1, tr, s[m + 1]))
  <1>1. CASE ~HasBuffer(s[m + 1])
    BY <1>1, ChainSkips DEF PushSetjmp
  <1>2. CASE HasBuffer(s[m + 1])
    <2> DEFINE n == Len(c)
               b == Buffer(m + 1, tr)
               r == Append(c, b)
    <2>1. c \in Seq(BufferRecord) /\ n \in Nat
      BY DEF ChainOf
    <2>2. /\ b \in BufferRecord /\ b.frame = m + 1 /\ b.trace = tr
      BY DEF Buffer, BufferRecord, TraceOf
    <2>3. /\ r \in Seq(BufferRecord) /\ Len(r) = n + 1 /\ r[n + 1] = b
          /\ \A i \in 1..n : r[i] = c[i]
      BY <2>1, <2>2
    <2>4. /\ \A k \in 1..n : /\ c[k].frame \in 1..m /\ HasBuffer(s[c[k].frame])
                             /\ TraceOf(s, c[k].frame - 1, c[k].trace)
          /\ \A i \in 1..m : HasBuffer(s[i]) => \E k \in 1..n : c[k].frame = i
          /\ \A j, k \in 1..n : j < k => c[j].frame < c[k].frame
      BY DEF ChainOf
    <2>5. PushSetjmp(c, m + 1, tr, s[m + 1]) = r
      BY <1>2 DEF PushSetjmp
    <2> HIDE DEF n, b, r
    <2>6. ASSUME NEW k \in 1..(n + 1)
          PROVE  /\ r[k].frame \in 1..(m + 1) /\ HasBuffer(s[r[k].frame])
                 /\ TraceOf(s, r[k].frame - 1, r[k].trace)
      <3>1. CASE k = n + 1
        <4>1. r[k].frame = m + 1 /\ r[k].trace = tr /\ m + 1 - 1 = m
          BY <2>2, <2>3, <3>1
        <4> QED
          BY <1>2, <4>1
      <3>2. CASE k # n + 1
        <4>1. k \in 1..n /\ r[k] = c[k]
          BY <2>1, <2>3, <3>2
        <4> QED
          BY <2>4, <4>1
      <3> QED
        BY <3>1, <3>2
    <2>7. ASSUME NEW i \in 1..(m + 1), HasBuffer(s[i])
          PROVE  \E k \in 1..(n + 1) : r[k].frame = i
      <3>1. CASE i = m + 1
        BY <2>1, <2>2, <2>3, <3>1
      <3>2. CASE i # m + 1
        <4>1. PICK k \in 1..n : c[k].frame = i
          BY <2>4, <2>7, <3>2
        <4> QED
          BY <2>1, <2>3, <4>1
      <3> QED
        BY <3>1, <3>2
    <2>8. ASSUME NEW j \in 1..(n + 1), NEW k \in 1..(n + 1), j < k
          PROVE  r[j].frame < r[k].frame
      <3>1. j \in 1..n /\ r[j] = c[j]
        BY <2>1, <2>3, <2>8
      <3>2. CASE k = n + 1
        BY <2>2, <2>3, <2>4, <3>1, <3>2
      <3>3. CASE k # n + 1
        BY <2>1, <2>3, <2>4, <2>8, <3>1, <3>3
      <3> QED
        BY <3>2, <3>3
    <2> QED
      BY <2>3, <2>5, <2>6, <2>7, <2>8 DEF ChainOf
  <1> QED
    BY <1>1, <1>2

\* The newest buffer: what comes after its frame has none, and without it the
\* chain is that of the frames before.
LEMMA Newest ==
    ASSUME NEW s, NEW m \in Nat, NEW c, ChainOf(s, m, c), Len(c) > 0
    PROVE  /\ Len(c) \in Nat \ {0} /\ c[Len(c)] \in BufferRecord
           /\ c[Len(c)].frame \in 1..m /\ HasBuffer(s[c[Len(c)].frame])
           /\ TraceOf(s, c[Len(c)].frame - 1, c[Len(c)].trace)
           /\ \A i \in 1..m : HasBuffer(s[i]) => i <= c[Len(c)].frame
           /\ ChainOf(s, c[Len(c)].frame, c)
           /\ ChainOf(s, c[Len(c)].frame - 1, SubSeq(c, 1, Len(c) - 1))
  <1> DEFINE n == Len(c)
             e == c[n].frame
             d == SubSeq(c, 1, n - 1)
  <1>1. c \in Seq(BufferRecord) /\ n \in Nat \ {0} /\ c[n] \in BufferRecord
    BY DEF ChainOf
  <1>2. /\ \A k \in 1..n : /\ c[k].frame \in 1..m /\ HasBuffer(s[c[k].frame])
                           /\ TraceOf(s, c[k].frame - 1, c[k].trace)
        /\ \A i \in 1..m : HasBuffer(s[i]) => \E k \in 1..n : c[k].frame = i
        /\ \A j, k \in 1..n : j < k => c[j].frame < c[k].frame
    BY DEF ChainOf
  <1>3. n - 1 \in 0..n
    BY <1>1
  <1>4. /\ d \in Seq(BufferRecord) /\ Len(d) = n - 1
        /\ \A i \in 1..(n - 1) : d[i] = c[i]
    BY <1>1, <1>3, Prefix
  <1>5. n = Len(c) /\ e = c[Len(c)].frame /\ d = SubSeq(c, 1, Len(c) - 1)
    OBVIOUS
  <1> HIDE DEF n, d
  <1>6. n \in 1..n
    BY <1>1
  <1>7. e \in 1..m /\ HasBuffer(s[e]) /\ TraceOf(s, e - 1, c[n].trace)
    BY <1>2, <1>6
  <1>8. \A k \in 1..(n - 1) : c[k].frame < e
    BY <1>1, <1>2, <1>6
  <1> HIDE DEF e
  <1>9. ASSUME NEW i \in 1..m, HasBuffer(s[i])
        PROVE  i = e \/ \E k \in 1..(n - 1) : c[k].frame = i
    <2>1. PICK k \in 1..n : c[k].frame = i
      BY <1>2, <1>9
    <2>2. k = n \/ k \in 1..(n - 1)
      BY <1>1
    <2> QED
      BY <2>1, <2>2 DEF e
  <1>10. \A i \in 1..m : HasBuffer(s[i]) => i <= e
    BY <1>7, <1>8, <1>9
  <1>11. ChainOf(s, e, c)
    <2>1. \A k \in 1..n : c[k].frame \in 1..e
      BY <1>1, <1>2, <1>7, <1>8 DEF e
    <2>2. \A i \in 1..e : HasBuffer(s[i]) => \E k \in 1..n : c[k].frame = i
      BY <1>2, <1>7
    <2> QED
      BY <1>1, <1>2, <2>1, <2>2 DEF ChainOf, n
  <1>12. ChainOf(s, e - 1, d)
    <2>1. ASSUME NEW k \in 1..(n - 1)
          PROVE  /\ d[k].frame \in 1..(e - 1) /\ HasBuffer(s[d[k].frame])
                 /\ TraceOf(s, d[k].frame - 1, d[k].trace)
      <3>1. d[k] = c[k] /\ k \in 1..n
        BY <1>1, <1>4
      <3>2. c[k].frame \in 1..m /\ c[k].frame < e
        BY <1>2, <1>8, <3>1
      <3>3. c[k].frame \in 1..(e - 1)
        BY <1>7, <3>2
      <3> QED
        BY <1>2, <3>1, <3>3
    <2>2. ASSUME NEW i \in 1..(e - 1), HasBuffer(s[i])
          PROVE  \E k \in 1..(n - 1) : d[k].frame = i
      <3>1. i \in 1..m /\ i # e
        BY <1>7
      <3> QED
        BY <1>4, <1>9, <2>2, <3>1
    <2>3. ASSUME NEW j \in 1..(n - 1), NEW k \in 1..(n - 1), j < k
          PROVE  d[j].frame < d[k].frame
      <3>1. d[j] = c[j] /\ d[k] = c[k] /\ j \in 1..n /\ k \in 1..n
        BY <1>1, <1>4
      <3> QED
        BY <1>2, <2>3, <3>1
    <2> QED
      BY <1>4, <2>1, <2>2, <2>3 DEF ChainOf
  <1> QED
    BY <1>1, <1>5, <1>7, <1>10, <1>11, <1>12

\* A frame with a buffer on top has the newest.
LEMMA NewestOnTop ==
    ASSUME NEW s, NEW m \in Nat, NEW c, ChainOf(s, m + 1, c), HasBuffer(s[m + 1])
    PROVE  /\ Len(c) \in Nat \ {0} /\ c[Len(c)].frame = m + 1
           /\ TraceOf(s, m, c[Len(c)].trace)
           /\ ChainOf(s, m, SubSeq(c, 1, Len(c) - 1))
  <1>1. c \in Seq(BufferRecord) /\ \E k \in 1..Len(c) : c[k].frame = m + 1
    BY DEF ChainOf
  <1>2. Len(c) \in Nat /\ Len(c) > 0
    BY <1>1
  <1>3. /\ c[Len(c)].frame \in 1..(m + 1) /\ m + 1 <= c[Len(c)].frame
        /\ TraceOf(s, c[Len(c)].frame - 1, c[Len(c)].trace)
        /\ ChainOf(s, c[Len(c)].frame - 1, SubSeq(c, 1, Len(c) - 1))
    BY <1>2, Newest
  <1>4. c[Len(c)].frame = m + 1 /\ c[Len(c)].frame - 1 = m
    BY <1>3
  <1> QED
    BY <1>2, <1>3, <1>4

-----------------------------------------------------------------------------
(***************************************************************************)
(* Frames that are replaced, pushed and cut.                               *)
(***************************************************************************)
\* The first m frames of s, with x for the last of them.
LEMMA NewTop ==
    ASSUME NEW S, NEW s \in Seq(S), NEW m \in 1..Len(s), NEW x \in S
    PROVE  LET r == Append(SubSeq(s, 1, m - 1), x)
           IN  r \in Seq(S) /\ Len(r) = m /\ r[m] = x /\ SamePrefix(s, r, m - 1)
  <1> DEFINE t == SubSeq(s, 1, m - 1)
             r == Append(t, x)
  <1>1. Len(s) \in Nat /\ m - 1 \in 0..Len(s) /\ m \in Nat
    OBVIOUS
  <1>2. t \in Seq(S) /\ Len(t) = m - 1 /\ \A i \in 1..(m - 1) : t[i] = s[i]
    BY <1>1, Prefix
  <1> HIDE DEF t
  <1>3. /\ r \in Seq(S) /\ Len(r) = m /\ r[m] = x
        /\ \A i \in 1..(m - 1) : r[i] = t[i]
    BY <1>1, <1>2
  <1>4. SamePrefix(s, r, m - 1)
    BY <1>2, <1>3 DEF SamePrefix
  <1> QED
    BY <1>3, <1>4 DEF t

LEMMA PrefixOfPrefix ==
    ASSUME NEW S, NEW s \in Seq(S), NEW n \in 0..Len(s), NEW k \in 0..n
    PROVE  SubSeq(SubSeq(s, 1, n), 1, k) = SubSeq(s, 1, k)
  <1> DEFINE t == SubSeq(s, 1, n)
             u == SubSeq(t, 1, k)
             v == SubSeq(s, 1, k)
  <1>1. n \in Int /\ k \in Int /\ Len(s) \in Nat /\ k \in 0..Len(s)
    OBVIOUS
  <1>2. t \in Seq(S) /\ Len(t) = n /\ \A i \in 1..n : t[i] = s[i]
    BY Prefix
  <1>3. v \in Seq(S) /\ Len(v) = k /\ \A i \in 1..k : v[i] = s[i]
    BY <1>1, Prefix
  <1> HIDE DEF t
  <1>4. k \in 0..Len(t)
    BY <1>2
  <1>5. u \in Seq(S) /\ Len(u) = k /\ \A i \in 1..k : u[i] = t[i]
    BY <1>2, <1>4, Prefix
  <1> HIDE DEF u, v
  <1>6. \A i \in 1..k : u[i] = v[i]
    BY <1>1, <1>2, <1>3, <1>5
  <1>7. u = v
    BY <1>3, <1>5, <1>6, SeqEqual
  <1> QED
    BY <1>7 DEF t, u, v

\* The chains of the frames that a step leaves.
LEMMA Carried ==
    ASSUME NEW s, NEW r, NEW c, NEW tr, FramesRight(r), Len(r) \in Nat,
           Agree(s, r, Len(r)), ChainOf(s, Len(r), c), TraceOf(s, Len(r), tr)
    PROVE  StackInv(r, c, tr)
  BY ChainAgree, TraceAgree DEF StackInv

\* The frame on top is compiled code, and not the oldest.
LEMMA TopOfStack ==
    ASSUME NEW s, FramesRight(s), Len(s) > 0
    PROVE  /\ s \in Seq(Frame) /\ Len(s) \in Nat /\ Len(s) > 1 /\ Len(s) - 1 \in Nat
           /\ s[1].apply /\ OnTop(s[Len(s)]) /\ ~s[Len(s)].apply
           /\ s[Len(s)] \in Frame /\ CodeRight(s[Len(s)].code)
  <1>1. s \in Seq(Frame) /\ s[1].apply /\ OnTop(s[Len(s)]) /\ Len(s) \in Nat
    BY DEF FramesRight
  <1>2. ~s[Len(s)].apply /\ s[Len(s)] \in Frame /\ CodeRight(s[Len(s)].code)
    BY <1>1 DEF OnTop
  <1>3. Len(s) # 1
    BY <1>1, <1>2
  <1> QED
    BY <1>1, <1>2, <1>3

\* The m oldest frames, the last of which now runs.
LEMMA Cut ==
    ASSUME NEW s, FramesRight(s), NEW m \in 1..Len(s), m > 1,
           NEW r \in Seq(Frame), Len(r) = m, SamePrefix(s, r, m - 1), OnTop(r[m])
    PROVE  FramesRight(r)
  <1>1. Len(s) \in Nat /\ Len(s) > 0 /\ m \in Nat
    BY DEF FramesRight
  <1>2. /\ s[1].apply
        /\ \A i \in 1..(Len(s) - 1) : Waits(s[i]) /\ (s[i].apply => ~s[i + 1].apply)
    BY <1>1 DEF FramesRight
  <1>3. \A i \in 1..(m - 1) : r[i] = s[i]
    BY DEF SamePrefix
  <1>4. ~r[m].apply
    BY DEF OnTop
  <1>5. ASSUME NEW i \in 1..(m - 1)
        PROVE  Waits(r[i]) /\ (r[i].apply => ~r[i + 1].apply)
    <2>1. i \in 1..(Len(s) - 1)
      BY <1>1
    <2>2. CASE i = m - 1
      <3>1. i + 1 = m
        BY <1>1, <2>2
      <3> QED
        BY <1>2, <1>3, <1>4, <2>1, <3>1
    <2>3. CASE i # m - 1
      <3>1. i + 1 \in 1..(m - 1)
        BY <1>1, <2>3
      <3> QED
        BY <1>2, <1>3, <2>1, <3>1
    <2> QED
      BY <2>2, <2>3
  <1>6. r[1].apply
    BY <1>1, <1>2, <1>3
  <1> QED
    BY <1>5, <1>6 DEF FramesRight

LEMMA ApplyFrameWaits ==
    /\ NotCompiled \in Code /\ CodeRight(NotCompiled)
    /\ ApplyFrame \in Frame /\ ApplyFrame.apply /\ Waits(ApplyFrame)
  <1>1. NotCompiled \in Code
    BY DEF NotCompiled, Code
  <1>2. CodeRight(NotCompiled)
    BY DEF NotCompiled, CodeRight
  <1>3. ApplyFrame \in Frame
    BY <1>1 DEF ApplyFrame, Frame
  <1>4. ApplyFrame.apply /\ ApplyFrame.code = NotCompiled
    BY DEF ApplyFrame
  <1> QED
    BY <1>1, <1>2, <1>3, <1>4 DEF Waits

\* One frame more, or two: the frame on top waits.
LEMMA Grown ==
    ASSUME NEW s, FramesRight(s), Len(s) > 0, NEW r \in Seq(Frame),
           SamePrefix(s, r, Len(s) - 1), Waits(r[Len(s)]), ~r[Len(s)].apply,
           NEW n \in {Len(s) + 1, Len(s) + 2}, Len(r) = n, OnTop(r[n]),
           n = Len(s) + 2 => r[Len(s) + 1] = ApplyFrame
    PROVE  FramesRight(r)
  <1> DEFINE m == Len(s)
  <1>1. m \in Nat /\ m > 1 /\ n \in Nat
    BY TopOfStack
  <1>2. /\ s[1].apply
        /\ \A i \in 1..(m - 1) : Waits(s[i]) /\ (s[i].apply => ~s[i + 1].apply)
    BY <1>1 DEF FramesRight
  <1>3. \A i \in 1..(m - 1) : r[i] = s[i]
    BY DEF SamePrefix
  <1>4. n = m + 1 \/ n = m + 2
    OBVIOUS
  <1>5. Waits(r[m]) /\ ~r[m].apply /\ (n = m + 2 => r[m + 1] = ApplyFrame)
    OBVIOUS
  <1>6. ~r[n].apply
    BY DEF OnTop
  <1>7. Waits(ApplyFrame)
    BY ApplyFrameWaits
  <1> HIDE DEF m
  <1>8. ASSUME NEW i \in 1..(n - 1)
        PROVE  Waits(r[i]) /\ (r[i].apply => ~r[i + 1].apply)
    <2>1. i \in Nat /\ (i < m - 1 \/ i = m - 1 \/ i = m \/ (i = m + 1 /\ n = m + 2))
      BY <1>1, <1>4
    <2>2. CASE i < m - 1
      <3>1. i \in 1..(m - 1) /\ i + 1 \in 1..(m - 1)
        BY <1>1, <2>1, <2>2
      <3> QED
        BY <1>2, <1>3, <3>1
    <2>3. CASE i = m - 1
      <3>1. i \in 1..(m - 1) /\ i + 1 = m
        BY <1>1, <2>3
      <3> QED
        BY <1>2, <1>3, <1>5, <3>1
    <2>4. CASE i = m
      BY <1>5, <2>4
    <2>5. CASE i = m + 1 /\ n = m + 2
      <3>1. i + 1 = n
        BY <1>1, <2>5
      <3> QED
        BY <1>5, <1>6, <1>7, <2>5, <3>1
    <2> QED
      BY <2>1, <2>2, <2>3, <2>4, <2>5
  <1>9. r[1].apply
    BY <1>1, <1>2, <1>3
  <1> QED
    BY <1>8, <1>9 DEF FramesRight

\* The frame on top when it calls out or throws, and a function that starts.
LEMMA CallingWaits ==
    ASSUME NEW frame, OnTop(frame), frame.code.calls, NEW site \in {"call", "callout"},
           NEW nothrow, nothrow = FALSE \/ nothrow = frame.code.nothrow
    PROVE  LET x == Calling(frame, site, nothrow)
           IN  Waits(x) /\ ~x.apply /\ x.code = frame.code
  <1> DEFINE x == Calling(frame, site, nothrow)
  <1>1. /\ frame \in Frame /\ ~frame.apply /\ ~frame.armed /\ CodeRight(frame.code)
        /\ frame.code \in Code
    BY DEF OnTop, Frame
  <1>2. frame.code.installs => ~nothrow
    BY <1>1 DEF CodeRight
  <1>3. frame.code.installs \in BOOLEAN
    BY <1>1 DEF Code
  <1>4. x.armed = (frame.armed \/ (frame.code.installs /\ ~nothrow))
    BY <1>1 DEF Calling, Frame
  <1>5. x.armed = frame.code.installs
    BY <1>1, <1>2, <1>3, <1>4
  <1>6. x.apply = frame.apply /\ x.code = frame.code /\ x.pc = site
    BY <1>1 DEF Calling, Frame
  <1>7. x \in Frame
    <2>1. (frame.armed \/ (frame.code.installs /\ ~nothrow)) \in BOOLEAN
      OBVIOUS
    <2>2. site \in {"body", "call", "callout", "catch"}
      OBVIOUS
    <2> QED
      BY <1>1, <2>1, <2>2 DEF Calling, Frame
  <1> QED
    BY <1>1, <1>5, <1>6, <1>7 DEF Waits

LEMMA CallingThrows ==
    ASSUME NEW frame, OnTop(frame)
    PROVE  LET x == Calling(frame, "body", FALSE)
           IN  /\ x \in Frame /\ x.apply = frame.apply /\ x.code = frame.code
               /\ frame.code.installs => x.armed
  <1> DEFINE x == Calling(frame, "body", FALSE)
  <1>1. frame \in Frame
    BY DEF OnTop
  <1>2. x.armed = (frame.armed \/ (frame.code.installs /\ ~FALSE))
    BY <1>1 DEF Calling, Frame
  <1>3. x.apply = frame.apply /\ x.code = frame.code
    BY <1>1 DEF Calling, Frame
  <1>4. (frame.armed \/ (frame.code.installs /\ ~FALSE)) \in BOOLEAN
    OBVIOUS
  <1>5. x \in Frame
    BY <1>1, <1>4 DEF Calling, Frame
  <1> QED
    BY <1>2, <1>3, <1>5

LEMMA StartedOnTop ==
    ASSUME RestOK, BuildsInv, NEW f \in Function
    PROVE  OnTop(Started(f)) /\ Started(f) \in Frame /\ Started(f).code = code[f]
  <1>1. code[f] \in Code /\ CodeRight(code[f])
    BY DEF RestOK, BuildsInv
  <1>2. Started(f) \in Frame
    BY <1>1 DEF Started, Frame
  <1> QED
    BY <1>1, <1>2 DEF OnTop, Started

LEMMA ResumedOnTop ==
    ASSUME NEW frame, Waits(frame), ~frame.apply
    PROVE  /\ OnTop(Resumed(frame)) /\ Resumed(frame) \in Frame
           /\ Resumed(frame).code = frame.code /\ ~Resumed(frame).apply
  <1> DEFINE x == Resumed(frame)
             armed == frame.armed /\ frame.pc = "call"
                        /\ (frame.code.nothrow \/ frame.code.noreturn)
  <1>1. /\ frame \in Frame /\ CodeRight(frame.code) /\ frame.armed = frame.code.installs
        /\ frame.pc = "call" => frame.code.calls
    BY DEF Waits
  <1>2. ~armed
    BY <1>1 DEF CodeRight
  <1>3. x.armed = armed /\ x.apply = frame.apply /\ x.code = frame.code /\ x.pc = "body"
    BY <1>1 DEF Resumed, Frame
  <1>4. x \in Frame
    <2>1. armed \in BOOLEAN
      BY <1>2
    <2> QED
      BY <1>1, <2>1 DEF Resumed, Frame
  <1> QED
    BY <1>1, <1>2, <1>3, <1>4 DEF OnTop

\* The callee's frame n + 1 is gone.
LEMMA ReturnToRuns ==
    ASSUME FramesRight(stack), NEW n \in 0..(Depth - 1), n > 0 => ~stack[n].apply
    PROVE  /\ FramesRight(ReturnTo(n)) /\ Len(ReturnTo(n)) = n
           /\ Agree(stack, ReturnTo(n), n)
  <1>1. CASE n = 0
    <2>1. ReturnTo(n) = <<>>
      BY <1>1 DEF ReturnTo
    <2>2. <<>> \in Seq(Frame) /\ Len(<<>>) = 0
      OBVIOUS
    <2>3. 1..(0 - 1) = {} /\ 1..0 = {}
      OBVIOUS
    <2>4. FramesRight(<<>>)
      BY <2>2, <2>3 DEF FramesRight
    <2>5. Agree(stack, <<>>, 0)
      BY <2>3 DEF Agree
    <2> QED
      BY <1>1, <2>1, <2>2, <2>4, <2>5
  <1>2. CASE n # 0
    <2>1. /\ stack \in Seq(Frame) /\ Depth \in Nat /\ n \in 1..Depth /\ n \in 1..(Depth - 1)
          /\ stack[1].apply
      BY <1>2 DEF FramesRight, Depth
    <2>2. Waits(stack[n]) /\ ~stack[n].apply
      BY <2>1 DEF FramesRight, Depth
    <2>3. /\ OnTop(Resumed(stack[n])) /\ Resumed(stack[n]) \in Frame
          /\ Resumed(stack[n]).code = stack[n].code
          /\ ~Resumed(stack[n]).apply
      BY <2>2, ResumedOnTop
    <2>4. ReturnTo(n) = Append(SubSeq(stack, 1, n - 1), Resumed(stack[n]))
      BY <1>2 DEF ReturnTo
    <2>5. n \in 1..Len(stack)
      BY <2>1 DEF Depth
    <2>6. /\ ReturnTo(n) \in Seq(Frame) /\ Len(ReturnTo(n)) = n
          /\ ReturnTo(n)[n] = Resumed(stack[n]) /\ SamePrefix(stack, ReturnTo(n), n - 1)
      <3> DEFINE x == Resumed(stack[n])
                 r == ReturnTo(n)
      <3>1. x \in Frame /\ r = Append(SubSeq(stack, 1, n - 1), x)
        BY <2>3, <2>4
      <3> HIDE DEF x, r
      <3>2. r \in Seq(Frame) /\ Len(r) = n /\ r[n] = x /\ SamePrefix(stack, r, n - 1)
        BY <2>1, <2>5, <3>1, NewTop
      <3> QED
        BY <3>2 DEF x, r
    <2>7. n > 1
      BY <2>1, <2>2
    <2>8. FramesRight(ReturnTo(n))
      BY <2>3, <2>5, <2>6, <2>7, Cut
    <2>9. Agree(stack, ReturnTo(n), n)
      <3>1. Resumed(stack[n]).apply = stack[n].apply
        BY <2>1 DEF Resumed, Frame
      <3>2. n \in Nat \ {0}
        BY <2>1
      <3> QED
        BY <2>3, <2>6, <3>1, <3>2, SwapAgree
    <2> QED
      BY <2>6, <2>8, <2>9
  <1> QED
    BY <1>1, <1>2

-----------------------------------------------------------------------------
(***************************************************************************)
(* _jit_unwind_pop_setjmp on the way out of a function, and out of         *)
(* jit_function_apply after it.                                            *)
(***************************************************************************)
LEMMA PopsItsOwn ==
    ASSUME NEW m \in Nat, ChainOf(stack, m + 1, setjmp_head),
           TraceOf(stack, m + 1, backtrace_head), ~stack[m + 1].apply,
           NEW p, p = IF stack[m + 1].code.installs THEN 1 ELSE 0
    PROVE  /\ ChainOf(stack, m, PopSetjmp(p).chain)
           /\ TraceOf(stack, m, PopSetjmp(p).trace)
  <1>1. setjmp_head \in Seq(BufferRecord) /\ Len(setjmp_head) \in Nat
    BY DEF ChainOf
  <1>2. CASE stack[m + 1].code.installs
    <2>1. HasBuffer(stack[m + 1]) /\ p = 1
      BY <1>2 DEF HasBuffer
    <2>2. /\ Len(setjmp_head) \in Nat \ {0}
          /\ TraceOf(stack, m, setjmp_head[Len(setjmp_head)].trace)
          /\ ChainOf(stack, m, SubSeq(setjmp_head, 1, Len(setjmp_head) - 1))
      BY <2>1, NewestOnTop
    <2> DEFINE n == Len(setjmp_head)
               k == IF p < n THEN n - p ELSE 0
    <2>3. n \in Nat \ {0}
      BY <2>2
    <2> HIDE DEF n
    <2>4. k = n - 1 /\ k < n /\ k + 1 = n
      BY <2>1, <2>3
    <2> HIDE DEF k
    <2>5. PopSetjmp(p) = [chain |-> SubSeq(setjmp_head, 1, k),
                          trace |-> IF k < n THEN setjmp_head[k + 1].trace
                                    ELSE backtrace_head]
      BY DEF PopSetjmp, k, n
    <2>6. /\ PopSetjmp(p).chain = SubSeq(setjmp_head, 1, n - 1)
          /\ PopSetjmp(p).trace = setjmp_head[n].trace
      BY <2>4, <2>5
    <2> QED
      BY <2>2, <2>6 DEF n
  <1>3. CASE ~stack[m + 1].code.installs
    <2>1. ~HasBuffer(stack[m + 1]) /\ p = 0
      BY <1>3 DEF HasBuffer
    <2> DEFINE n == Len(setjmp_head)
               k == IF p < n THEN n - p ELSE 0
    <2>2. n \in Nat
      BY <1>1
    <2> HIDE DEF n
    <2>3. k = n /\ ~(k < n)
      BY <2>1, <2>2
    <2> HIDE DEF k
    <2>4. PopSetjmp(p) = [chain |-> SubSeq(setjmp_head, 1, k),
                          trace |-> IF k < n THEN setjmp_head[k + 1].trace
                                    ELSE backtrace_head]
      BY DEF PopSetjmp, k, n
    <2>5. /\ PopSetjmp(p).chain = SubSeq(setjmp_head, 1, n)
          /\ PopSetjmp(p).trace = backtrace_head
      BY <2>3, <2>4
    <2>6. PopSetjmp(p).chain = setjmp_head
      BY <1>1, <2>5, WholePrefix DEF n
    <2> QED
      BY <2>1, <2>5, <2>6, ChainSkips, TraceSkips
  <1> QED
    BY <1>2, <1>3

LEMMA PopsBoth ==
    ASSUME NEW m \in Nat, ChainOf(stack, m + 2, setjmp_head),
           TraceOf(stack, m + 2, backtrace_head),
           stack[m + 1].apply, ~stack[m + 2].apply,
           NEW p, p = IF stack[m + 2].code.installs THEN 1 ELSE 0
    PROVE  /\ ChainOf(stack, m, PopSetjmp(p + 1).chain)
           /\ TraceOf(stack, m, PopSetjmp(p + 1).trace)
  <1> DEFINE n == Len(setjmp_head)
             q == n - p
             d == SubSeq(setjmp_head, 1, q)
  <1>1. setjmp_head \in Seq(BufferRecord) /\ n \in Nat /\ m + 1 + 1 = m + 2
        /\ m + 1 \in Nat /\ p \in {0, 1}
    BY DEF ChainOf
  <1>2. HasBuffer(stack[m + 1]) /\ (HasBuffer(stack[m + 2]) <=> p = 1)
    BY DEF HasBuffer
  <1>3. ChainOf(stack, m + 1, d) /\ q \in 0..n
    <2>1. CASE p = 1
      <3>1. n \in Nat \ {0} /\ ChainOf(stack, m + 1, SubSeq(setjmp_head, 1, n - 1))
        BY <1>1, <1>2, <2>1, NewestOnTop
      <3>2. q = n - 1
        BY <2>1
      <3> HIDE DEF n
      <3>3. n - 1 \in 0..n
        BY <3>1
      <3> QED
        BY <3>1, <3>2, <3>3
    <2>2. CASE p = 0
      <3>1. q = n /\ q \in 0..n
        BY <1>1, <2>2
      <3>2. d = setjmp_head
        BY <1>1, <3>1, WholePrefix
      <3>3. ChainOf(stack, m + 1, setjmp_head)
        BY <1>1, <1>2, <2>2, ChainSkips
      <3> QED
        BY <3>1, <3>2, <3>3
    <2> QED
      BY <1>1, <2>1, <2>2
  <1>4. Len(d) = q /\ \A i \in 1..q : d[i] = setjmp_head[i]
    <2> HIDE DEF q
    <2> QED
      BY <1>1, <1>3, Prefix
  <1>5. /\ Len(d) \in Nat \ {0} /\ TraceOf(stack, m, d[Len(d)].trace)
        /\ ChainOf(stack, m, SubSeq(d, 1, Len(d) - 1))
    <2> HIDE DEF d
    <2> QED
      BY <1>2, <1>3, NewestOnTop
  <1> HIDE DEF d
  <1>6. q \in Nat \ {0}
    BY <1>4, <1>5
  <1>7. q - 1 \in 0..q /\ q \in 1..q
    <2> HIDE DEF q
    <2> QED
      BY <1>6
  <1>8. SubSeq(d, 1, Len(d) - 1) = SubSeq(setjmp_head, 1, q - 1)
    <2>1. SubSeq(SubSeq(setjmp_head, 1, q), 1, q - 1) = SubSeq(setjmp_head, 1, q - 1)
      <3> HIDE DEF q
      <3> QED
        BY <1>1, <1>3, <1>7, PrefixOfPrefix
    <2> QED
      BY <1>4, <2>1 DEF d
  <1>9. d[Len(d)] = setjmp_head[q]
    BY <1>4, <1>7
  <1> DEFINE k == IF p + 1 < n THEN n - (p + 1) ELSE 0
  <1>10. PopSetjmp(p + 1) = [chain |-> SubSeq(setjmp_head, 1, k),
                            trace |-> IF k < n THEN setjmp_head[k + 1].trace
                                      ELSE backtrace_head]
    BY DEF PopSetjmp
  <1> HIDE DEF n
  <1>11. k = q - 1 /\ k + 1 = q /\ k < n
    BY <1>1, <1>6
  <1> HIDE DEF k
  <1>12. /\ PopSetjmp(p + 1).chain = SubSeq(setjmp_head, 1, q - 1)
         /\ PopSetjmp(p + 1).trace = setjmp_head[q].trace
    BY <1>10, <1>11
  <1> QED
    BY <1>5, <1>8, <1>9, <1>12

-----------------------------------------------------------------------------
(***************************************************************************)
(* Where a throw lands: with m buffers left, which are those of the first  *)
(* n frames, at the frame of the newest.                                   *)
(***************************************************************************)
LEMMA ThrowLands ==
    ASSUME FramesRight(stack), Depth > 0,
           NEW s \in Seq(Frame), Len(s) = Depth, Agree(stack, s, Depth),
           SamePrefix(stack, s, Depth - 1),
           setjmp_head \in Seq(BufferRecord), NEW m \in 0..Len(setjmp_head),
           NEW n \in 1..Depth, ChainOf(stack, n, SubSeq(setjmp_head, 1, m)),
           n = Depth => (s[n].code.installs => s[n].armed),
           ThrowFrom(s, m)
    PROVE  /\ m \in Nat \ {0} /\ UNCHANGED lost
           /\ StackInv(stack', setjmp_head', backtrace_head')
           /\ Len(stack') \in Nat /\ Len(stack') >= setjmp_head[m].frame - 1
           /\ ~stack[setjmp_head[m].frame].apply => Len(stack') = setjmp_head[m].frame
           /\ \A i \in 1..n : HasBuffer(stack[i]) => i <= setjmp_head[m].frame
  <1> DEFINE d == SubSeq(setjmp_head, 1, m)
             e == setjmp_head[m].frame
  <1>1. Depth \in Nat /\ Depth > 1 /\ stack[1].apply /\ stack \in Seq(Frame)
    BY TopOfStack DEF Depth
  <1>2. /\ d \in Seq(BufferRecord) /\ Len(d) = m
        /\ \A i \in 1..m : d[i] = setjmp_head[i]
    BY Prefix
  <1>3. m \in Nat /\ m # 0
    <2>1. HasBuffer(stack[1]) /\ 1 \in 1..n
      BY <1>1 DEF HasBuffer
    <2> HIDE DEF d
    <2>2. \E k \in 1..Len(d) : d[k].frame = 1
      BY <2>1 DEF ChainOf, d
    <2> QED
      BY <1>2, <2>2
  <1>4. d[m] = setjmp_head[m] /\ setjmp_head[m] \in BufferRecord /\ d[Len(d)] = setjmp_head[m]
    BY <1>2, <1>3
  <1>5. /\ e \in 1..n /\ HasBuffer(stack[e])
        /\ TraceOf(stack, e - 1, setjmp_head[m].trace)
        /\ \A i \in 1..n : HasBuffer(stack[i]) => i <= e
        /\ ChainOf(stack, e, d)
        /\ ChainOf(stack, e - 1, SubSeq(d, 1, m - 1))
    <2> HIDE DEF d
    <2>1. Len(d) > 0 /\ ChainOf(stack, n, d) /\ n \in Nat
      BY <1>1, <1>2, <1>3 DEF d
    <2> QED
      BY <1>2, <1>4, <2>1, Newest
  <1>6. SubSeq(d, 1, m - 1) = SubSeq(setjmp_head, 1, m - 1)
    <2>1. m - 1 \in 0..m
      BY <1>3
    <2> QED
      BY <2>1, PrefixOfPrefix
  <1> HIDE DEF d
  <1>7. e \in Nat /\ e >= 1 /\ e <= Depth /\ e - 1 \in Nat
    BY <1>1, <1>5
  <1> DEFINE Stops(k) == LET a == setjmp_head[k].frame
                         IN  a <= Len(s) /\ (s[a].apply \/ s[a].armed)
             landing == {k \in 1..m : Stops(k) /\ \A j \in (k + 1)..m : ~Stops(j)}
  <1>8. s[e].apply = stack[e].apply /\ s[e].code = stack[e].code
    <2> HIDE DEF e
    <2>1. e \in 1..Depth
      BY <1>1, <1>7
    <2> QED
      BY <2>1 DEF Agree
  <1>9. Stops(m)
    <2>1. s[e].apply \/ s[e].armed
      <3>1. CASE e = Depth
        <4>1. ~stack[e].apply
          BY <3>1, TopOfStack DEF Depth
        <4>2. n = Depth /\ s[e].code.installs
          BY <1>1, <1>5, <1>8, <3>1, <4>1 DEF HasBuffer
        <4> QED
          BY <3>1, <4>2
      <3>2. CASE e # Depth
        <4>1. e \in 1..(Depth - 1)
          BY <1>1, <1>7, <3>2
        <4>2. Waits(stack[e]) /\ s[e] = stack[e]
          BY <4>1 DEF FramesRight, SamePrefix, Depth
        <4> QED
          BY <1>5, <4>2 DEF Waits, HasBuffer
      <3> QED
        BY <3>1, <3>2
    <2> QED
      BY <1>7, <2>1
  <1>10. landing = {m}
    <2> HIDE DEF Stops
    <2>1. m \in 1..m /\ (m + 1)..m = {}
      BY <1>3
    <2>2. \A k \in 1..m : k # m => m \in (k + 1)..m
      BY <1>3
    <2> QED
      BY <1>9, <2>1, <2>2
  <1>11. (CHOOSE i \in landing : TRUE) = m
    BY <1>10
  <1>12. /\ UNCHANGED lost
         /\ backtrace_head' = setjmp_head[m].trace
         /\ stack' = IF s[e].apply THEN ReturnTo(e - 1)
                     ELSE Append(SubSeq(s, 1, e - 1),
                                 [s[e] EXCEPT !.pc = "catch", !.armed = FALSE])
         /\ setjmp_head' = SubSeq(setjmp_head, 1, IF s[e].apply THEN m - 1 ELSE m)
    <2>1. landing # {}
      BY <1>10
    <2> DEFINE k == CHOOSE i \in landing : TRUE
               a == setjmp_head[k].frame
    <2>2. /\ backtrace_head' = setjmp_head[k].trace
          /\ stack' = IF s[a].apply THEN ReturnTo(a - 1)
                      ELSE Append(SubSeq(s, 1, a - 1),
                                  [s[a] EXCEPT !.pc = "catch", !.armed = FALSE])
          /\ setjmp_head' = SubSeq(setjmp_head, 1, IF s[a].apply THEN k - 1 ELSE k)
          /\ UNCHANGED lost
      BY <2>1 DEF ThrowFrom
    <2>3. k = m
      BY <1>11
    <2> HIDE DEF k
    <2>4. a = e
      BY <2>3
    <2> HIDE DEF a, e
    <2> QED
      BY <2>2, <2>3, <2>4
  <1> HIDE DEF Stops, landing
  <1>13. CASE stack[e].apply
    <2> DEFINE r == ReturnTo(e - 1)
    <2>1. /\ stack' = r /\ setjmp_head' = SubSeq(setjmp_head, 1, m - 1)
          /\ backtrace_head' = setjmp_head[m].trace
      BY <1>8, <1>12, <1>13
    <2>2. e # Depth
      BY <1>13, TopOfStack DEF Depth
    <2>3. e - 1 \in 0..(Depth - 1)
      BY <1>7
    <2>4. e - 1 > 0 => ~stack[e - 1].apply
      <3>1. ASSUME e - 1 > 0 PROVE e - 1 \in 1..(Depth - 1) /\ e - 1 + 1 = e
        BY <1>7, <3>1
      <3> QED
        BY <1>13, <3>1 DEF FramesRight, Depth
    <2>5. FramesRight(r) /\ Len(r) = e - 1 /\ Agree(stack, r, e - 1)
      BY <2>3, <2>4, ReturnToRuns
    <2> HIDE DEF r
    <2>6. StackInv(r, SubSeq(setjmp_head, 1, m - 1), setjmp_head[m].trace)
      BY <1>5, <1>6, <1>7, <2>5, Carried
    <2>7. /\ StackInv(stack', setjmp_head', backtrace_head') /\ Len(stack') = e - 1
          /\ UNCHANGED lost
      BY <1>12, <2>1, <2>5, <2>6
    <2> QED
      BY <1>3, <1>5, <1>7, <1>13, <2>7
  <1>14. CASE ~stack[e].apply
    <2> DEFINE x == [s[e] EXCEPT !.pc = "catch", !.armed = FALSE]
               r == Append(SubSeq(s, 1, e - 1), x)
    <2>1. /\ stack' = r /\ setjmp_head' = d /\ backtrace_head' = setjmp_head[m].trace
      BY <1>8, <1>12, <1>14 DEF d
    <2>2. s[e] \in Frame /\ CodeRight(s[e].code) /\ ~s[e].apply /\ s[e].code.installs
      <3>1. s[e] \in Frame
        BY <1>7
      <3>2. CASE e = Depth
        BY <1>5, <1>8, <1>14, <3>1, <3>2, TopOfStack DEF Depth, HasBuffer
      <3>3. CASE e # Depth
        <4>1. e \in 1..(Depth - 1)
          BY <1>1, <1>7, <3>3
        <4>2. Waits(stack[e])
          BY <4>1 DEF FramesRight, Depth
        <4> QED
          BY <1>5, <1>8, <1>14, <3>1, <4>2 DEF Waits, HasBuffer
      <3> QED
        BY <3>2, <3>3
    <2>3. /\ x \in Frame /\ x.apply = s[e].apply /\ x.code = s[e].code
          /\ x.armed = FALSE /\ x.pc = "catch"
      BY <2>2 DEF Frame
    <2>4. OnTop(x)
      BY <2>2, <2>3 DEF OnTop
    <2>5. e \in 1..Len(s)
      BY <1>7
    <2> HIDE DEF x
    <2>6. r \in Seq(Frame) /\ Len(r) = e /\ r[e] = x /\ SamePrefix(s, r, e - 1)
      BY <2>3, <2>5, NewTop
    <2> HIDE DEF r
    <2>7. SamePrefix(stack, r, e - 1)
      <3>1. ASSUME NEW i \in 1..(e - 1) PROVE r[i] = stack[i]
        <4>1. i \in 1..(Depth - 1)
          BY <1>7
        <4> QED
          BY <2>6, <4>1 DEF SamePrefix
      <3> QED
        BY <3>1 DEF SamePrefix
    <2>8. e > 1
      BY <1>1, <1>7, <1>14
    <2>9. FramesRight(r)
      <3>1. e \in 1..Len(stack)
        BY <1>7 DEF Depth
      <3> QED
        BY <2>4, <2>6, <2>7, <2>8, <3>1, Cut
    <2>10. Agree(stack, r, e)
      <3>1. e \in Nat \ {0}
        BY <1>7
      <3> QED
        BY <1>8, <2>3, <2>6, <2>7, <3>1, SwapAgree
    <2>11. TraceOf(stack, e, setjmp_head[m].trace)
      <3>1. e - 1 + 1 = e
        BY <1>7
      <3> QED
        BY <1>5, <1>7, <1>14, <3>1, TraceSkips
    <2>12. StackInv(r, d, setjmp_head[m].trace)
      BY <1>5, <1>7, <2>6, <2>9, <2>10, <2>11, Carried
    <2>13. /\ StackInv(stack', setjmp_head', backtrace_head') /\ Len(stack') = e
           /\ UNCHANGED lost
      BY <1>12, <2>1, <2>6, <2>12
    <2> QED
      BY <1>3, <1>5, <1>7, <2>13
  <1> QED
    BY <1>13, <1>14

-----------------------------------------------------------------------------
(***************************************************************************)
(* The steps.                                                              *)
(***************************************************************************)
\* The code of a body that keeps to BodiesRight, and the flags it leaves.
LEMMA CompiledRight ==
    ASSUME BodiesRight, RestOK, BuildsInv, NEW f \in Function, NEW b \in Body[f],
           code[f] = NotCompiled \/ f \in Recompilable
    PROVE  LET c == Compiled(f, b[1], b[2], b[3], b[4], b[5])
           IN  /\ c \in Code /\ CodeRight(c) /\ c # NotCompiled
               /\ f \in Recompilable => ~Flags(f, c).has_try
               /\ f \in Recompilable /\ (\E a \in Body[f] : a[2]) => ~Flags(f, c).no_return
               /\ Flags(f, c) \in [has_try : BOOLEAN, no_throw : BOOLEAN, no_return : BOOLEAN]
  <1> DEFINE c == Compiled(f, b[1], b[2], b[3], b[4], b[5])
             try == b[1]
             ret == b[4]
  <1>1. /\ try \in BOOLEAN /\ b[2] \in BOOLEAN /\ b[3] \in BOOLEAN /\ b[5] \in BOOLEAN
        /\ ret \in {"value", "ptr", "none"}
    BY ExceptionsAssumption
  <1>2. flags[f] \in [has_try : BOOLEAN, no_throw : BOOLEAN, no_return : BOOLEAN]
    BY DEF RestOK
  <1>3. ~flags[f].has_try
    BY DEF BuildsInv
  <1>4. /\ try => ret # "ptr" /\ ~b[5] /\ f \notin Recompilable
        /\ b[2] \/ b[3] \/ ret # "none" \/ b[5]
        /\ f \in Recompilable /\ b[2] => \A a \in Body[f] : a[4] # "none"
    BY DEF BodiesRight
  <1>5. /\ try => ~flags[f].no_throw
        /\ b[2] => ~flags[f].no_return
    BY <1>4 DEF BuildsInv
  <1>6. c = [covered |-> try, installs |-> try,
             pops |-> IF try THEN 1 ELSE 0, tailpops |-> IF try THEN 1 ELSE 0,
             calls |-> b[2], raises |-> b[3], returns |-> ret # "none",
             loops |-> b[5], nothrow |-> flags[f].no_throw,
             noreturn |-> flags[f].no_return]
    <2>1. (flags[f].has_try \/ try) = try /\ (try /\ ~flags[f].has_try) = try
      BY <1>1, <1>2, <1>3
    <2>2. Pops(try, ret) = IF try THEN 1 ELSE 0
      BY <1>4 DEF Pops
    <2> QED
      BY <2>1, <2>2 DEF Compiled, Installs, CallFlags
  <1>7. c \in Code
    <2>1. (IF try THEN 1 ELSE 0) \in 0..2 /\ (IF try THEN 1 ELSE 0) \in 0..1
      OBVIOUS
    <2> QED
      BY <1>1, <1>2, <1>6, <2>1 DEF Code
  <1>8. /\ c.covered = try /\ c.installs = try /\ c.pops = (IF try THEN 1 ELSE 0)
        /\ c.tailpops = (IF try THEN 1 ELSE 0) /\ c.calls = b[2] /\ c.raises = b[3]
        /\ c.returns = (ret # "none") /\ c.loops = b[5]
        /\ c.nothrow = flags[f].no_throw /\ c.noreturn = flags[f].no_return
    BY <1>6
  <1> HIDE DEF c
  <1>9. CodeRight(c)
    BY <1>4, <1>5, <1>8 DEF CodeRight
  <1>10. c # NotCompiled
    <2>1. c.calls \/ c.raises \/ c.returns \/ c.loops
      BY <1>4, <1>8
    <2>2. ~(NotCompiled.calls \/ NotCompiled.raises \/ NotCompiled.returns \/ NotCompiled.loops)
      BY DEF NotCompiled
    <2> QED
      BY <2>1, <2>2
  <1>11. /\ Flags(f, c).has_try = (flags[f].has_try \/ c.covered)
         /\ Flags(f, c).no_return = (flags[f].no_return \/ ~c.returns)
    BY DEF Flags
  <1>12. f \in Recompilable => ~Flags(f, c).has_try
    BY <1>3, <1>4, <1>8, <1>11
  <1>13. f \in Recompilable /\ (\E a \in Body[f] : a[2]) => ~Flags(f, c).no_return
    <2>1. ASSUME f \in Recompilable, \E a \in Body[f] : a[2]
          PROVE  ret # "none" /\ ~flags[f].no_return
      BY <2>1 DEF BodiesRight, BuildsInv
    <2> QED
      BY <1>8, <1>11, <2>1
  <1>14. Flags(f, c) \in [has_try : BOOLEAN, no_throw : BOOLEAN, no_return : BOOLEAN]
    BY <1>1, <1>2, <1>8 DEF Flags
  <1> QED
    BY <1>7, <1>9, <1>10, <1>12, <1>13, <1>14 DEF c

LEMMA BuildStep ==
    ASSUME BodiesRight, RestOK, BuildsInv, NEW f \in Function, Build(f)
    PROVE  RestOK' /\ BuildsInv' /\ UNCHANGED <<stack, setjmp_head, backtrace_head, lost>>
  <1>1. PICK b \in Body[f] :
          LET c == Compiled(f, b[1], b[2], b[3], b[4], b[5])
          IN  /\ code[f] = NotCompiled \/ f \in Recompilable
              /\ code' = [code EXCEPT ![f] = c]
              /\ flags' = [flags EXCEPT ![f] = Flags(f, c)]
              /\ UNCHANGED <<stack, setjmp_head, backtrace_head, lost>>
    BY DEF Build
  <1> DEFINE c == Compiled(f, b[1], b[2], b[3], b[4], b[5])
             fl == Flags(f, c)
  <1>2. /\ c \in Code /\ CodeRight(c) /\ c # NotCompiled
        /\ f \in Recompilable => ~fl.has_try
        /\ f \in Recompilable /\ (\E a \in Body[f] : a[2]) => ~fl.no_return
        /\ fl \in [has_try : BOOLEAN, no_throw : BOOLEAN, no_return : BOOLEAN]
    BY <1>1, CompiledRight
  <1>3. code' = [code EXCEPT ![f] = c] /\ flags' = [flags EXCEPT ![f] = fl]
    BY <1>1
  <1> HIDE DEF c, fl
  <1>4. RestOK'
    BY <1>2, <1>3 DEF RestOK
  <1>5. ASSUME NEW g \in Function
        PROVE  /\ CodeRight(code'[g])
               /\ code'[g] = NotCompiled =>
                    ~flags'[g].has_try /\ ~flags'[g].no_throw /\ ~flags'[g].no_return
               /\ g \in Recompilable => ~flags'[g].has_try
               /\ g \in Recompilable /\ (\E a \in Body[g] : a[2]) => ~flags'[g].no_return
    <2>1. CASE g = f
      <3>1. code'[g] = c /\ flags'[g] = fl
        BY <1>3, <2>1 DEF RestOK
      <3> QED
        BY <1>2, <2>1, <3>1
    <2>2. CASE g # f
      <3>1. code'[g] = code[g] /\ flags'[g] = flags[g]
        BY <1>3, <2>2 DEF RestOK
      <3> QED
        BY <3>1 DEF BuildsInv
    <2> QED
      BY <2>1, <2>2
  <1>6. BuildsInv'
    BY <1>5 DEF BuildsInv
  <1> QED
    BY <1>1, <1>4, <1>6

\* What every step finds on the stack.
LEMMA Current ==
    ASSUME ChainsInv, Depth > 0
    PROVE  /\ FramesRight(stack) /\ stack \in Seq(Frame) /\ Len(stack) = Depth
           /\ Depth \in Nat \ {0} /\ Depth > 1 /\ Depth - 1 \in Nat
           /\ Depth \in 1..Len(stack) /\ Depth - 1 + 1 = Depth
           /\ Top = stack[Depth] /\ OnTop(Top) /\ ~Top.apply /\ Top \in Frame
           /\ CodeRight(Top.code) /\ Top.code \in Code
           /\ ChainOf(stack, Depth, setjmp_head) /\ TraceOf(stack, Depth, backtrace_head)
           /\ setjmp_head \in Seq(BufferRecord) /\ Len(setjmp_head) \in Nat
  <1>1. /\ FramesRight(stack) /\ ChainOf(stack, Depth, setjmp_head)
        /\ TraceOf(stack, Depth, backtrace_head)
    BY DEF ChainsInv, StackInv, Depth
  <1>2. /\ stack \in Seq(Frame) /\ Depth \in Nat /\ Depth > 1 /\ OnTop(Top) /\ ~Top.apply
        /\ Top \in Frame /\ CodeRight(Top.code) /\ Top = stack[Depth] /\ Len(stack) = Depth
    BY <1>1, TopOfStack DEF Depth, Top
  <1>3. Top.code \in Code
    BY <1>2 DEF Frame
  <1>4. setjmp_head \in Seq(BufferRecord) /\ Len(setjmp_head) \in Nat
    BY <1>1 DEF ChainOf
  <1> QED
    BY <1>1, <1>2, <1>3, <1>4

LEMMA Over ==
    ASSUME NEW S, NEW s \in Seq(S), NEW x \in S, NEW y \in S
    PROVE  LET r == s \o <<x, y>>
           IN  /\ r \in Seq(S) /\ Len(r) = Len(s) + 2 /\ Len(s) \in Nat
               /\ r[Len(s) + 1] = x /\ r[Len(s) + 2] = y
               /\ \A i \in 1..Len(s) : r[i] = s[i]
  OBVIOUS

\* The frame of a function that calls out.
LEMMA CallingOut ==
    ASSUME ChainsInv, Depth > 0, Top.code.calls, NEW site \in {"call", "callout"},
           NEW nothrow, nothrow = FALSE \/ nothrow = Top.code.nothrow
    PROVE  LET x == Calling(Top, site, nothrow)
           IN  /\ x \in Frame /\ Waits(x) /\ ~x.apply
               /\ x.apply = stack[Depth].apply /\ x.code = stack[Depth].code
  <1> DEFINE x == Calling(Top, site, nothrow)
  <1>1. OnTop(Top) /\ Top = stack[Depth] /\ Top \in Frame /\ ~Top.apply
    BY Current
  <1>2. Waits(x) /\ ~x.apply /\ x.code = Top.code
    <2>1. OnTop(Top) /\ Top.code.calls
      BY <1>1
    <2> QED
      BY <2>1, CallingWaits, Zenon
  <1> HIDE DEF x
  <1>3. x \in Frame
    BY <1>2 DEF Waits
  <1>4. x.apply = Top.apply
    <2>1. x.apply \in BOOLEAN /\ Top.apply \in BOOLEAN
      BY <1>1, <1>3 DEF Frame
    <2> QED
      BY <1>1, <1>2, <2>1
  <1> QED
    BY <1>1, <1>2, <1>3, <1>4 DEF x

LEMMA CallStep ==
    ASSUME ChainsInv, NEW f \in Function, Call(f)
    PROVE  StackInv(stack', setjmp_head', backtrace_head') /\ Len(stack') = Depth + 1
  <1> DEFINE x == Calling(Top, "call", Top.code.nothrow)
             y == Started(f)
             r == Butlast(stack) \o <<x, y>>
             c == PushSetjmp(setjmp_head, Depth + 1, backtrace_head, y)
  <1>1. /\ Depth > 0 /\ Top.code.calls /\ stack' = r /\ setjmp_head' = c
        /\ backtrace_head' = backtrace_head
    BY DEF Call, Running
  <1>2. /\ FramesRight(stack) /\ stack \in Seq(Frame) /\ Depth \in Nat \ {0}
        /\ Len(stack) = Depth /\ ChainOf(stack, Depth, setjmp_head)
        /\ TraceOf(stack, Depth, backtrace_head)
    BY <1>1, Current
  <1>3. /\ x \in Frame /\ Waits(x) /\ ~x.apply /\ x.apply = stack[Depth].apply
        /\ x.code = stack[Depth].code
    BY <1>1, CallingOut
  <1>4. y \in Frame /\ OnTop(y)
    BY StartedOnTop DEF ChainsInv
  <1>5. /\ Butlast(stack) \in Seq(Frame) /\ Len(Butlast(stack)) = Depth - 1
        /\ \A i \in 1..(Depth - 1) : Butlast(stack)[i] = stack[i]
    <2>1. Depth - 1 \in 0..Len(stack)
      BY <1>2
    <2> QED
      BY <1>2, <2>1, Prefix DEF Butlast
  <1> HIDE DEF x, y, c
  <1>6. /\ r \in Seq(Frame) /\ Len(r) = Depth + 1 /\ r[Depth] = x /\ r[Depth + 1] = y
        /\ SamePrefix(stack, r, Depth - 1)
    <2>1. /\ r \in Seq(Frame) /\ Len(r) = Depth - 1 + 2
          /\ r[Depth - 1 + 1] = x /\ r[Depth - 1 + 2] = y
          /\ \A i \in 1..(Depth - 1) : r[i] = stack[i]
      BY <1>3, <1>4, <1>5, Over
    <2>2. Depth - 1 + 1 = Depth /\ Depth - 1 + 2 = Depth + 1
      BY <1>2
    <2> QED
      BY <2>1, <2>2 DEF SamePrefix
  <1> HIDE DEF r
  <1>7. FramesRight(r)
    <2>1. Depth + 1 \in {Len(stack) + 1, Len(stack) + 2} /\ Depth + 1 # Len(stack) + 2
      BY <1>2
    <2> QED
      BY <1>1, <1>2, <1>3, <1>4, <1>6, <2>1, Grown
  <1>8. Agree(stack, r, Depth)
    BY <1>2, <1>3, <1>6, SwapAgree
  <1>9. ChainOf(r, Depth, setjmp_head) /\ TraceOf(r, Depth, backtrace_head)
    BY <1>2, <1>8, ChainAgree, TraceAgree
  <1>10. ~r[Depth + 1].apply
    BY <1>4, <1>6 DEF OnTop
  <1>11. ChainOf(r, Depth + 1, c) /\ TraceOf(r, Depth + 1, backtrace_head)
    BY <1>2, <1>6, <1>9, <1>10, ChainPush, TraceSkips DEF c
  <1> QED
    BY <1>1, <1>6, <1>7, <1>11 DEF StackInv

\* jit_function_apply: its own frame and that of the function.
LEMMA ApplyPushes ==
    ASSUME NEW n \in Nat, NEW f \in Function, NEW r, r \in Seq(Frame), Len(r) = n + 2,
           r[n + 1] = ApplyFrame, r[n + 2] = Started(f), FramesRight(r),
           NEW c, NEW tr, ChainOf(r, n, c), TraceOf(r, n, tr)
    PROVE  StackInv(r, PushSetjmp(PushSetjmp(c, n + 1, tr, ApplyFrame), n + 2,
                                  Append(tr, n + 1), Started(f)),
                    Append(tr, n + 1))
  <1> DEFINE d == PushSetjmp(c, n + 1, tr, ApplyFrame)
             t == Append(tr, n + 1)
  <1>1. n + 1 \in Nat /\ n + 1 + 1 = n + 2
    OBVIOUS
  <1>2. ApplyFrame.apply /\ ~Started(f).apply
    BY DEF ApplyFrame, Started
  <1>3. ChainOf(r, n + 1, d) /\ TraceOf(r, n + 1, t)
    <2>1. TraceOf(r, n + 1, t)
      BY <1>2, TracePush
    <2>2. ChainOf(r, n + 1, d)
      BY ChainPush
    <2> QED
      BY <2>1, <2>2
  <1> HIDE DEF d, t
  <1>4. ChainOf(r, n + 2, PushSetjmp(d, n + 2, t, Started(f)))
    <2>1. ChainOf(r, n + 1 + 1, PushSetjmp(d, n + 1 + 1, t, r[n + 1 + 1]))
      BY <1>1, <1>3, ChainPush
    <2> QED
      BY <1>1, <2>1
  <1>5. TraceOf(r, n + 2, t)
    BY <1>1, <1>2, <1>3, TraceSkips
  <1> QED
    BY <1>4, <1>5 DEF StackInv, d, t

LEMMA ApplyStep ==
    ASSUME ChainsInv, NEW f \in Function, Apply(f)
    PROVE  StackInv(stack', setjmp_head', backtrace_head') /\ Len(stack') = Depth + 2
  <1> DEFINE x == Calling(Top, "callout", FALSE)
             y == Started(f)
             q == IF Depth = 0 THEN <<>> ELSE Append(Butlast(stack), x)
             r == q \o <<ApplyFrame, y>>
             tr == Append(backtrace_head, Depth + 1)
             c == PushSetjmp(setjmp_head, Depth + 1, backtrace_head, ApplyFrame)
  <1>1. /\ Depth > 0 => Top.code.calls
        /\ stack' = r /\ backtrace_head' = tr
        /\ setjmp_head' = PushSetjmp(c, Depth + 2, tr, y)
    BY DEF Apply
  <1>2. /\ stack \in Seq(Frame) /\ Depth \in Nat /\ Len(stack) = Depth
        /\ ChainOf(stack, Depth, setjmp_head) /\ TraceOf(stack, Depth, backtrace_head)
    BY DEF ChainsInv, StackInv, FramesRight, Depth
  <1>3. y \in Frame /\ OnTop(y)
    BY StartedOnTop DEF ChainsInv
  <1>4. ApplyFrame \in Frame /\ ApplyFrame.apply /\ Waits(ApplyFrame)
    BY ApplyFrameWaits
  <1>5. /\ q \in Seq(Frame) /\ Len(q) = Depth /\ Agree(stack, q, Depth)
        /\ Depth > 0 => /\ SamePrefix(stack, q, Depth - 1) /\ Waits(q[Depth])
                        /\ ~q[Depth].apply
    <2>1. CASE Depth = 0
      <3>1. 1..0 = {}
        OBVIOUS
      <3>2. q = <<>>
        BY <2>1
      <3> HIDE DEF q
      <3>3. Agree(stack, q, 0)
        BY <3>1 DEF Agree
      <3> QED
        BY <2>1, <3>2, <3>3
    <2>2. CASE Depth # 0
      <3>1. Depth > 0 /\ Depth \in Nat \ {0} /\ Depth \in 1..Len(stack)
        BY <1>2, <2>2
      <3>2. /\ x \in Frame /\ Waits(x) /\ ~x.apply
            /\ x.apply = stack[Depth].apply /\ x.code = stack[Depth].code
        BY <1>1, <3>1, CallingOut
      <3>3. q = Append(SubSeq(stack, 1, Depth - 1), x)
        BY <2>2 DEF Butlast, Depth
      <3> HIDE DEF q, x
      <3>4. q \in Seq(Frame) /\ Len(q) = Depth /\ q[Depth] = x /\ SamePrefix(stack, q, Depth - 1)
        BY <1>2, <3>1, <3>2, <3>3, NewTop
      <3>5. Agree(stack, q, Depth)
        BY <3>1, <3>2, <3>4, SwapAgree
      <3> QED
        BY <3>2, <3>4, <3>5
    <2> QED
      BY <2>1, <2>2
  <1> HIDE DEF x, y, q
  <1>6. /\ r \in Seq(Frame) /\ Len(r) = Depth + 2
        /\ r[Depth + 1] = ApplyFrame /\ r[Depth + 2] = y
        /\ \A i \in 1..Depth : r[i] = q[i]
    BY <1>3, <1>4, <1>5, Over
  <1> HIDE DEF r
  <1>7. Agree(stack, r, Depth)
    BY <1>5, <1>6 DEF Agree
  <1>8. FramesRight(r)
    <2>1. CASE Depth = 0
      <3>1. /\ r[1] = ApplyFrame /\ r[2] = y /\ Len(r) = 2
        BY <1>6, <2>1
      <3>2. ~r[2].apply
        BY <1>3, <3>1 DEF OnTop
      <3>3. \A i \in 1..(Len(r) - 1) : i = 1 /\ i + 1 = 2
        BY <3>1
      <3> QED
        BY <1>3, <1>4, <1>6, <3>1, <3>2, <3>3 DEF FramesRight
    <2>2. CASE Depth # 0
      <3>1. /\ Depth > 0 /\ Depth \in 1..Depth
            /\ Depth + 2 \in {Len(stack) + 1, Len(stack) + 2}
            /\ Len(stack) + 2 = Depth + 2 /\ Len(stack) + 1 = Depth + 1
        BY <1>2, <2>2
      <3>2. r[Depth] = q[Depth]
        BY <1>6, <3>1
      <3>3. SamePrefix(stack, r, Depth - 1)
        <4>1. \A i \in 1..(Depth - 1) : i \in 1..Depth
          BY <1>2
        <4> QED
          BY <1>5, <1>6, <3>1, <4>1 DEF SamePrefix
      <3>4. FramesRight(stack)
        BY DEF ChainsInv, StackInv
      <3>5. Waits(r[Depth]) /\ ~r[Depth].apply /\ OnTop(r[Depth + 2])
        BY <1>3, <1>5, <1>6, <3>1, <3>2
      <3> QED
        BY <1>2, <1>6, <3>1, <3>3, <3>4, <3>5, Grown
    <2> QED
      BY <2>1, <2>2
  <1>9. ChainOf(r, Depth, setjmp_head) /\ TraceOf(r, Depth, backtrace_head)
    BY <1>2, <1>7, ChainAgree, TraceAgree
  <1>10. StackInv(r, PushSetjmp(c, Depth + 2, tr, y), tr)
    BY <1>2, <1>6, <1>8, <1>9, ApplyPushes DEF y
  <1> QED
    BY <1>1, <1>6, <1>10

\* The function on top is replaced, by a tail call or by its own catcher.
LEMMA TopReplaced ==
    ASSUME ChainsInv, Depth > 0, NEW x \in Frame, OnTop(x)
    PROVE  LET r == Append(Butlast(stack), x)
           IN  /\ r \in Seq(Frame) /\ Len(r) = Depth /\ r[Depth] = x
               /\ FramesRight(r) /\ SamePrefix(stack, r, Depth - 1)
               /\ Agree(stack, r, Depth - 1)
  <1> DEFINE r == Append(Butlast(stack), x)
  <1>1. /\ FramesRight(stack) /\ stack \in Seq(Frame) /\ Len(stack) = Depth
        /\ Depth > 1 /\ Depth \in 1..Len(stack)
    BY Current
  <1>2. r = Append(SubSeq(stack, 1, Depth - 1), x)
    BY DEF Butlast, Depth
  <1> HIDE DEF r
  <1>3. r \in Seq(Frame) /\ Len(r) = Depth /\ r[Depth] = x /\ SamePrefix(stack, r, Depth - 1)
    BY <1>1, <1>2, NewTop
  <1>4. FramesRight(r)
    BY <1>1, <1>3, Cut
  <1>5. Agree(stack, r, Depth - 1)
    BY <1>3, SameAgree
  <1> QED
    BY <1>3, <1>4, <1>5 DEF r

LEMMA TailCallStep ==
    ASSUME ChainsInv, NEW f \in Function, TailCall(f)
    PROVE  StackInv(stack', setjmp_head', backtrace_head') /\ Len(stack') = Depth
  <1> DEFINE p == Top.code.tailpops
             y == Started(f)
             r == Append(Butlast(stack), y)
             c == PushSetjmp(PopSetjmp(p).chain, Depth, PopSetjmp(p).trace, y)
  <1>1. /\ Depth > 0 /\ stack' = r /\ setjmp_head' = c
        /\ backtrace_head' = PopSetjmp(p).trace
    BY DEF TailCall, Running
  <1>2. /\ Depth - 1 \in Nat /\ Depth - 1 + 1 = Depth /\ Depth \in Nat
        /\ Top = stack[Depth] /\ ~Top.apply
        /\ CodeRight(Top.code)
        /\ ChainOf(stack, Depth, setjmp_head) /\ TraceOf(stack, Depth, backtrace_head)
    BY <1>1, Current
  <1>3. p = IF stack[Depth].code.installs THEN 1 ELSE 0
    BY <1>2 DEF CodeRight
  <1>4. y \in Frame /\ OnTop(y) /\ ~y.apply
    BY StartedOnTop DEF ChainsInv, OnTop
  <1> HIDE DEF p
  <1>5. /\ ChainOf(stack, Depth - 1, PopSetjmp(p).chain)
        /\ TraceOf(stack, Depth - 1, PopSetjmp(p).trace)
    BY <1>2, <1>3, PopsItsOwn
  <1> HIDE DEF y
  <1>6. /\ r \in Seq(Frame) /\ Len(r) = Depth /\ r[Depth] = y
        /\ FramesRight(r) /\ Agree(stack, r, Depth - 1)
    BY <1>1, <1>4, TopReplaced
  <1> HIDE DEF r
  <1>7. /\ ChainOf(r, Depth - 1, PopSetjmp(p).chain)
        /\ TraceOf(r, Depth - 1, PopSetjmp(p).trace)
    BY <1>2, <1>5, <1>6, ChainAgree, TraceAgree
  <1>8. ChainOf(r, Depth, c)
    <2>1. ChainOf(r, Depth - 1 + 1,
                  PushSetjmp(PopSetjmp(p).chain, Depth - 1 + 1, PopSetjmp(p).trace,
                             r[Depth - 1 + 1]))
      BY <1>2, <1>7, ChainPush
    <2> QED
      BY <1>2, <1>6, <2>1
  <1>9. TraceOf(r, Depth, PopSetjmp(p).trace)
    BY <1>2, <1>4, <1>6, <1>7, TraceSkips
  <1> QED
    BY <1>1, <1>6, <1>8, <1>9 DEF StackInv

LEMMA TailCallSelfStep ==
    ASSUME ChainsInv, TailCallSelf
    PROVE  UNCHANGED <<stack, setjmp_head, backtrace_head>>
  <1>1. /\ Depth > 0 /\ Top.code.loops /\ stack' = stack
        /\ setjmp_head' = PopSetjmp(Top.code.tailpops).chain
        /\ backtrace_head' = PopSetjmp(Top.code.tailpops).trace
    BY DEF TailCallSelf, Running
  <1>2. /\ CodeRight(Top.code) /\ setjmp_head \in Seq(BufferRecord)
        /\ Len(setjmp_head) \in Nat
    BY <1>1, Current
  <1>3. Top.code.tailpops = 0
    BY <1>1, <1>2 DEF CodeRight
  <1> DEFINE n == Len(setjmp_head)
             k == IF 0 < n THEN n - 0 ELSE 0
  <1>4. PopSetjmp(0) = [chain |-> SubSeq(setjmp_head, 1, k),
                        trace |-> IF k < n THEN setjmp_head[k + 1].trace
                                  ELSE backtrace_head]
    BY DEF PopSetjmp
  <1>5. k = n /\ ~(k < n)
    BY <1>2
  <1> HIDE DEF k
  <1>6. SubSeq(setjmp_head, 1, k) = setjmp_head
    BY <1>2, <1>5, WholePrefix
  <1>7. PopSetjmp(0).chain = setjmp_head /\ PopSetjmp(0).trace = backtrace_head
    BY <1>4, <1>5, <1>6
  <1> QED
    BY <1>1, <1>3, <1>7

LEMMA ReturnStep ==
    ASSUME ChainsInv, Return
    PROVE  /\ StackInv(stack', setjmp_head', backtrace_head')
           /\ ~lost' /\ Len(stack') = Depth - 1
  <1> DEFINE p == Top.code.pops
             n == Depth - 1
             r == ReturnTo(n)
  <1>1. /\ Depth > 0 /\ ~stack[n].apply /\ stack' = r
        /\ setjmp_head' = PopSetjmp(p).chain /\ backtrace_head' = PopSetjmp(p).trace
        /\ lost' = NoCodeAfter(n)
    BY DEF Return, Running
  <1>2. /\ FramesRight(stack) /\ n \in Nat /\ n + 1 = Depth /\ n > 0
        /\ Top = stack[Depth] /\ ~Top.apply
        /\ CodeRight(Top.code) /\ n \in 0..(Depth - 1) /\ n \in 1..(Len(stack) - 1)
        /\ ChainOf(stack, Depth, setjmp_head) /\ TraceOf(stack, Depth, backtrace_head)
    BY <1>1, Current
  <1>3. p = IF stack[n + 1].code.installs THEN 1 ELSE 0
    BY <1>2 DEF CodeRight
  <1>4. ~NoCodeAfter(n)
    <2>1. Waits(stack[n])
      BY <1>2 DEF FramesRight
    <2> QED
      BY <1>1, <2>1 DEF Waits, CodeRight, NoCodeAfter
  <1> HIDE DEF p, n
  <1>5. ChainOf(stack, n, PopSetjmp(p).chain) /\ TraceOf(stack, n, PopSetjmp(p).trace)
    BY <1>2, <1>3, PopsItsOwn
  <1>6. FramesRight(r) /\ Len(r) = n /\ Agree(stack, r, n)
    BY <1>1, <1>2, ReturnToRuns
  <1> HIDE DEF r
  <1>7. StackInv(r, PopSetjmp(p).chain, PopSetjmp(p).trace)
    BY <1>2, <1>5, <1>6, Carried
  <1> QED
    BY <1>1, <1>4, <1>6, <1>7 DEF n

LEMMA ReturnToApplyStep ==
    ASSUME ChainsInv, ReturnToApply
    PROVE  /\ StackInv(stack', setjmp_head', backtrace_head') /\ Len(stack') = Depth - 2
           /\ stack[Depth - 1].apply /\ Depth > 1
  <1> DEFINE p == Top.code.pops
             n == Depth - 2
             r == ReturnTo(n)
  <1>1. /\ Depth > 0 /\ stack[Depth - 1].apply /\ stack' = r
        /\ setjmp_head' = PopSetjmp(p + 1).chain /\ backtrace_head' = PopSetjmp(p + 1).trace
    BY DEF ReturnToApply, Running
  <1>2. /\ FramesRight(stack) /\ Depth \in Nat /\ Depth > 1 /\ Len(stack) = Depth
        /\ Top = stack[Depth] /\ ~Top.apply /\ CodeRight(Top.code)
        /\ ChainOf(stack, Depth, setjmp_head) /\ TraceOf(stack, Depth, backtrace_head)
    BY <1>1, Current
  <1>3. n \in Nat /\ n + 2 = Depth /\ n + 1 = Depth - 1 /\ n \in 0..(Depth - 1)
    BY <1>2
  <1>4. p = IF stack[n + 2].code.installs THEN 1 ELSE 0
    BY <1>2, <1>3 DEF CodeRight
  <1>5. n > 0 => ~stack[n].apply
    <2>1. ASSUME n > 0 PROVE n \in 1..(Len(stack) - 1)
      BY <1>2, <1>3, <2>1
    <2> HIDE DEF n
    <2> QED
      BY <1>1, <1>2, <1>3, <2>1 DEF FramesRight
  <1> HIDE DEF p, n
  <1>6. ChainOf(stack, n, PopSetjmp(p + 1).chain) /\ TraceOf(stack, n, PopSetjmp(p + 1).trace)
    BY <1>1, <1>2, <1>3, <1>4, PopsBoth
  <1>7. FramesRight(r) /\ Len(r) = n /\ Agree(stack, r, n)
    BY <1>2, <1>3, <1>5, ReturnToRuns
  <1> HIDE DEF r
  <1>8. StackInv(r, PopSetjmp(p + 1).chain, PopSetjmp(p + 1).trace)
    BY <1>3, <1>6, <1>7, Carried
  <1> QED
    BY <1>1, <1>2, <1>7, <1>8 DEF n

\* What an exception leaves: everything up to the newest buffer.
Blocked == /\ \A i \in 1..Depth : stack[i].apply => Len(stack') >= i - 1
           /\ \A i \in 1..(Depth - 1) : stack[i].code.covered => Len(stack') >= i

\* A function that asked for a catcher and waits has its buffer.
LEMMA CoveredHasBuffer ==
    ASSUME ChainsInv, NEW i \in 1..(Depth - 1), stack[i].code.covered
    PROVE  ~stack[i].apply /\ HasBuffer(stack[i])
  <1>1. Waits(stack[i])
    BY DEF ChainsInv, StackInv, FramesRight, Depth
  <1>2. stack[i].code.installs
    BY <1>1 DEF Waits, CodeRight
  <1>3. ~stack[i].apply
    BY <1>1 DEF Waits, ApplyFrame, NotCompiled
  <1> QED
    BY <1>2, <1>3 DEF HasBuffer

\* With the newest buffer at frame e, nothing that catches is passed over.
LEMMA LandsInTime ==
    ASSUME ChainsInv, Depth > 0, NEW n \in {Depth - 1, Depth}, NEW e, e \in 1..n,
           Len(stack') \in Nat, Len(stack') >= e - 1,
           ~stack[e].apply => Len(stack') = e,
           \A i \in 1..n : HasBuffer(stack[i]) => i <= e
    PROVE  Blocked
  <1>1. Depth \in Nat /\ ~stack[Depth].apply /\ Depth > 1
    BY Current
  <1>2. ASSUME NEW i \in 1..Depth, stack[i].apply PROVE Len(stack') >= i - 1
    <2>1. i # Depth
      BY <1>1, <1>2
    <2>2. i \in 1..n /\ HasBuffer(stack[i])
      BY <1>1, <1>2, <2>1 DEF HasBuffer
    <2>3. i <= e
      BY <2>2
    <2>4. i \in Int /\ e \in Int /\ Len(stack') \in Int
      BY <1>1
    <2> QED
      BY <2>3, <2>4
  <1>3. ASSUME NEW i \in 1..(Depth - 1), stack[i].code.covered PROVE Len(stack') >= i
    <2>1. ~stack[i].apply /\ HasBuffer(stack[i])
      BY <1>3, CoveredHasBuffer
    <2>2. i \in 1..n
      BY <1>1
    <2>3. i <= e
      BY <2>1, <2>2
    <2>4. i \in Int /\ e \in Int /\ Len(stack') \in Int
      BY <1>1
    <2>5. CASE i = e
      BY <2>1, <2>4, <2>5
    <2>6. CASE i # e
      BY <2>3, <2>4, <2>6
    <2> QED
      BY <2>5, <2>6
  <1> QED
    BY <1>2, <1>3 DEF Blocked

LEMMA ThrowStep ==
    ASSUME ChainsInv, Throw
    PROVE  /\ StackInv(stack', setjmp_head', backtrace_head')
           /\ UNCHANGED lost /\ Blocked
  <1> DEFINE x == Calling(Top, "body", FALSE)
             s == Append(Butlast(stack), x)
             n == Len(setjmp_head)
  <1>1. Depth > 0 /\ ThrowFrom(s, n)
    BY DEF Throw, Running
  <1>2. /\ FramesRight(stack) /\ stack \in Seq(Frame) /\ Len(stack) = Depth
        /\ Depth \in Nat \ {0} /\ Depth \in 1..Len(stack) /\ Depth \in 1..Depth
        /\ OnTop(Top) /\ Top = stack[Depth]
        /\ ChainOf(stack, Depth, setjmp_head)
        /\ setjmp_head \in Seq(BufferRecord) /\ n \in Nat /\ n \in 0..n
    BY <1>1, Current
  <1>3. /\ x \in Frame /\ x.apply = stack[Depth].apply /\ x.code = stack[Depth].code
        /\ x.code.installs => x.armed
    BY <1>2, CallingThrows
  <1>4. s = Append(SubSeq(stack, 1, Depth - 1), x)
    BY DEF Butlast, Depth
  <1> HIDE DEF x, s
  <1>5. s \in Seq(Frame) /\ Len(s) = Depth /\ s[Depth] = x /\ SamePrefix(stack, s, Depth - 1)
    BY <1>2, <1>3, <1>4, NewTop
  <1>6. Agree(stack, s, Depth)
    BY <1>2, <1>3, <1>5, SwapAgree
  <1>7. ChainOf(stack, Depth, SubSeq(setjmp_head, 1, n))
    BY <1>2, WholePrefix
  <1> DEFINE e == setjmp_head[n].frame
  <1>8. s[Depth].code.installs => s[Depth].armed
    BY <1>3, <1>5
  <1>9. /\ n \in Nat \ {0} /\ UNCHANGED lost
        /\ StackInv(stack', setjmp_head', backtrace_head')
        /\ Len(stack') \in Nat /\ Len(stack') >= e - 1
        /\ ~stack[e].apply => Len(stack') = e
        /\ \A i \in 1..Depth : HasBuffer(stack[i]) => i <= e
    BY <1>1, <1>2, <1>5, <1>6, <1>7, <1>8, ThrowLands
  <1>10. e \in 1..Depth
    BY <1>2, <1>9 DEF ChainOf
  <1> HIDE DEF e
  <1>11. Blocked
    BY <1>1, <1>9, <1>10, LandsInTime
  <1> QED
    BY <1>9, <1>11

LEMMA CatchStep ==
    ASSUME ChainsInv, Catch
    PROVE  StackInv(stack', setjmp_head', backtrace_head') /\ Len(stack') = Depth
  <1> DEFINE x == [Top EXCEPT !.pc = "body"]
             r == [stack EXCEPT ![Depth] = x]
  <1>1. Depth > 0 /\ stack' = r /\ UNCHANGED <<setjmp_head, backtrace_head>>
    BY DEF Catch, Top
  <1>2. /\ FramesRight(stack) /\ stack \in Seq(Frame) /\ Len(stack) = Depth
        /\ Depth \in Nat \ {0} /\ Depth > 1 /\ Depth \in 1..Len(stack)
        /\ Top = stack[Depth] /\ OnTop(Top) /\ Top \in Frame
        /\ ChainOf(stack, Depth, setjmp_head) /\ TraceOf(stack, Depth, backtrace_head)
    BY <1>1, Current
  <1>3. /\ x \in Frame /\ x.apply = Top.apply /\ x.code = Top.code
        /\ x.armed = Top.armed /\ x.pc = "body"
    BY <1>2 DEF Frame
  <1>4. OnTop(x)
    BY <1>2, <1>3 DEF OnTop
  <1> HIDE DEF x
  <1>5. /\ r \in Seq(Frame) /\ Len(r) = Depth
        /\ \A i \in 1..Depth : r[i] = IF i = Depth THEN x ELSE stack[i]
    BY <1>2, <1>3, ExceptSeq
  <1>6. r[Depth] = x /\ SamePrefix(stack, r, Depth - 1)
    BY <1>2, <1>5 DEF SamePrefix
  <1> HIDE DEF r
  <1>7. FramesRight(r)
    BY <1>2, <1>4, <1>5, <1>6, Cut
  <1>8. Agree(stack, r, Depth)
    BY <1>2, <1>3, <1>6, SwapAgree
  <1>9. StackInv(r, setjmp_head, backtrace_head)
    BY <1>2, <1>5, <1>7, <1>8, Carried
  <1> QED
    BY <1>1, <1>5, <1>9

LEMMA RethrowStep ==
    ASSUME ChainsInv, RethrowUnhandled
    PROVE  /\ StackInv(stack', setjmp_head', backtrace_head')
           /\ UNCHANGED lost /\ Blocked
  <1> DEFINE l == Len(setjmp_head)
             m == l - 1
             n == Depth - 1
             d == SubSeq(setjmp_head, 1, m)
  <1>1. Depth > 0 /\ Top.pc = "catch" /\ ThrowFrom(stack, Len(PopSetjmp(1).chain))
    BY DEF RethrowUnhandled
  <1>2. /\ FramesRight(stack) /\ stack \in Seq(Frame) /\ Len(stack) = Depth
        /\ n \in Nat /\ n + 1 = Depth /\ n \in 1..Depth /\ n # Depth
        /\ n \in {Depth - 1, Depth}
        /\ OnTop(Top) /\ Top = stack[Depth]
        /\ ChainOf(stack, Depth, setjmp_head)
        /\ setjmp_head \in Seq(BufferRecord) /\ l \in Nat
    BY <1>1, Current
  <1>3. HasBuffer(stack[n + 1])
    BY <1>1, <1>2 DEF OnTop, HasBuffer
  <1> HIDE DEF n
  <1>4. l \in Nat \ {0} /\ ChainOf(stack, n, d)
    BY <1>2, <1>3, NewestOnTop
  <1>5. m \in 0..l /\ m \in Nat
    <2> HIDE DEF l
    <2> QED
      BY <1>4
  <1>6. Len(d) = m
    BY <1>2, <1>5, Prefix
  <1>7. PopSetjmp(1).chain = d
    <2> DEFINE k == IF 1 < l THEN l - 1 ELSE 0
    <2>1. PopSetjmp(1) = [chain |-> SubSeq(setjmp_head, 1, k),
                          trace |-> IF k < l THEN setjmp_head[k + 1].trace
                                    ELSE backtrace_head]
      BY DEF PopSetjmp
    <2>2. k = m
      <3> HIDE DEF l
      <3> QED
        BY <1>4
    <2> HIDE DEF k
    <2> QED
      BY <2>1, <2>2
  <1>8. ThrowFrom(stack, m)
    BY <1>1, <1>6, <1>7
  <1>9. Agree(stack, stack, Depth) /\ SamePrefix(stack, stack, Depth - 1)
    BY DEF Agree, SamePrefix
  <1> DEFINE e == setjmp_head[m].frame
  <1> HIDE DEF m
  <1>10. /\ m \in Nat \ {0} /\ UNCHANGED lost
         /\ StackInv(stack', setjmp_head', backtrace_head')
         /\ Len(stack') \in Nat /\ Len(stack') >= e - 1
         /\ ~stack[e].apply => Len(stack') = e
         /\ \A i \in 1..n : HasBuffer(stack[i]) => i <= e
    BY <1>1, <1>2, <1>4, <1>5, <1>8, <1>9, ThrowLands
  <1>11. e \in 1..n
    <2>1. m \in 1..m /\ d[m] = setjmp_head[m]
      BY <1>2, <1>5, <1>10, Prefix
    <2>2. d[m].frame \in 1..n
      <3> HIDE DEF d
      <3> QED
        BY <1>4, <1>6, <2>1 DEF ChainOf
    <2> QED
      BY <2>1, <2>2
  <1> HIDE DEF e
  <1>12. Blocked
    BY <1>1, <1>2, <1>10, <1>11, LandsInTime
  <1> QED
    BY <1>10, <1>12

\* A step that no exception takes away more than one call.
LEMMA ReturnsOne ==
    ASSUME ChainsInv, Depth > 0,
           \/ Len(stack') \in Nat /\ Len(stack') >= Depth - 1
           \/ Len(stack') = Depth - 2 /\ stack[Depth - 1].apply /\ Depth > 1
    PROVE  Blocked
  <1>1. Depth \in Nat /\ Depth > 1 /\ ~Top.apply /\ Top = stack[Depth]
    BY Current
  <1>2. ASSUME NEW i \in 1..Depth, stack[i].apply PROVE Len(stack') >= i - 1
    <2>1. i # Depth
      BY <1>1, <1>2
    <2>2. i <= Depth - 1
      BY <1>1, <2>1
    <2> QED
      BY <1>1, <2>2
  <1>3. ASSUME NEW i \in 1..(Depth - 1), stack[i].code.covered PROVE Len(stack') >= i
    <2>1. ~stack[i].apply
      BY <1>3, CoveredHasBuffer
    <2>2. CASE Len(stack') \in Nat /\ Len(stack') >= Depth - 1
      BY <1>1, <2>2
    <2>3. CASE Len(stack') = Depth - 2 /\ stack[Depth - 1].apply
      <3>1. i # Depth - 1
        BY <2>1, <2>3
      <3> QED
        BY <1>1, <2>3, <3>1
    <2> QED
      BY <2>2, <2>3
  <1> QED
    BY <1>2, <1>3 DEF Blocked

\* With an empty stack nothing can be taken away.
LEMMA NothingBlocked ==
    ASSUME ~(Depth > 0), Depth \in Nat
    PROVE  Blocked
  BY DEF Blocked

-----------------------------------------------------------------------------
(***************************************************************************)
(* The invariant.                                                          *)
(***************************************************************************)
LEMMA ChainsInit == Init => ChainsInv
  <1> SUFFICES ASSUME Init PROVE ChainsInv
    OBVIOUS
  <1>1. RestOK
    BY ApplyFrameWaits DEF Init, RestOK
  <1>2. BuildsInv
    BY ApplyFrameWaits DEF Init, BuildsInv
  <1>3. /\ <<>> \in Seq(Frame) /\ <<>> \in Seq(BufferRecord) /\ <<>> \in Seq(Nat)
        /\ Len(<<>>) = 0 /\ 1..0 = {} /\ 1..(0 - 1) = {}
    OBVIOUS
  <1>4. FramesRight(<<>>) /\ ChainOf(<<>>, 0, <<>>) /\ TraceOf(<<>>, 0, <<>>)
    BY <1>3 DEF FramesRight, ChainOf, TraceOf
  <1>5. StackInv(stack, setjmp_head, backtrace_head)
    BY <1>3, <1>4 DEF StackInv, Init
  <1> QED
    BY <1>1, <1>2, <1>5 DEF ChainsInv, Init

\* What ChainsInv says of code and flags outlives every step but Build.
LEMMA StackStep ==
    ASSUME ChainsInv, UNCHANGED <<code, flags>>, ~lost',
           StackInv(stack', setjmp_head', backtrace_head')
    PROVE  ChainsInv'
  BY DEF ChainsInv, RestOK, BuildsInv

LEMMA ChainsStep ==
    ASSUME BodiesRight, ChainsInv, [Next]_vars
    PROVE  ChainsInv' /\ Blocked
  <1>1. Depth \in Nat /\ ~lost
    BY DEF ChainsInv, StackInv, FramesRight, Depth
  <1>2. ASSUME stack' = stack PROVE Blocked
    <2>1. Depth > 0 => Len(stack') \in Nat /\ Len(stack') >= Depth - 1
      BY <1>1, <1>2 DEF Depth
    <2> QED
      BY <1>1, <2>1, ReturnsOne, NothingBlocked
  <1>3. ASSUME NEW k \in {0, 1, 2}, Len(stack') = Depth + k PROVE Blocked
    <2>1. Depth > 0 => Len(stack') \in Nat /\ Len(stack') >= Depth - 1
      BY <1>1, <1>3
    <2> QED
      BY <1>1, <2>1, ReturnsOne, NothingBlocked
  <1>4. ASSUME NEW f \in Function, Build(f) PROVE ChainsInv' /\ Blocked
    <2>1. RestOK' /\ BuildsInv' /\ UNCHANGED <<stack, setjmp_head, backtrace_head, lost>>
      BY <1>4, BuildStep DEF ChainsInv
    <2> QED
      BY <1>1, <1>2, <2>1 DEF ChainsInv
  <1>5. ASSUME NEW f \in Function, Apply(f) PROVE ChainsInv' /\ Blocked
    <2>1. StackInv(stack', setjmp_head', backtrace_head') /\ Len(stack') = Depth + 2
      BY <1>5, ApplyStep
    <2>2. UNCHANGED <<code, flags, lost>>
      BY <1>5 DEF Apply
    <2> QED
      BY <1>1, <1>3, <2>1, <2>2, StackStep
  <1>6. ASSUME NEW f \in Function, Call(f) PROVE ChainsInv' /\ Blocked
    <2>1. StackInv(stack', setjmp_head', backtrace_head') /\ Len(stack') = Depth + 1
      BY <1>6, CallStep
    <2>2. UNCHANGED <<code, flags, lost>>
      BY <1>6 DEF Call
    <2> QED
      BY <1>1, <1>3, <2>1, <2>2, StackStep
  <1>7. ASSUME NEW f \in Function, TailCall(f) PROVE ChainsInv' /\ Blocked
    <2>1. StackInv(stack', setjmp_head', backtrace_head') /\ Len(stack') = Depth + 0
      BY <1>1, <1>7, TailCallStep
    <2>2. UNCHANGED <<code, flags, lost>>
      BY <1>7 DEF TailCall
    <2> QED
      BY <1>1, <1>3, <2>1, <2>2, StackStep
  <1>8. CASE TailCallSelf
    <2>1. UNCHANGED <<stack, setjmp_head, backtrace_head>>
      BY <1>8, TailCallSelfStep
    <2>2. UNCHANGED <<code, flags, lost>>
      BY <1>8 DEF TailCallSelf
    <2> QED
      BY <1>1, <1>2, <2>1, <2>2, StackStep DEF ChainsInv
  <1>9. CASE Return
    <2>1. /\ StackInv(stack', setjmp_head', backtrace_head')
          /\ ~lost' /\ Len(stack') = Depth - 1
      BY <1>9, ReturnStep
    <2>2. UNCHANGED <<code, flags>> /\ Depth > 0
      BY <1>9 DEF Return, Running
    <2>3. Len(stack') \in Nat /\ Len(stack') >= Depth - 1
      BY <1>1, <2>1, <2>2
    <2> QED
      BY <2>1, <2>2, <2>3, ReturnsOne, StackStep
  <1>10. CASE ReturnToApply
    <2>1. /\ StackInv(stack', setjmp_head', backtrace_head') /\ Len(stack') = Depth - 2
          /\ stack[Depth - 1].apply /\ Depth > 1
      BY <1>10, ReturnToApplyStep
    <2>2. UNCHANGED <<code, flags, lost>> /\ Depth > 0
      BY <1>10 DEF ReturnToApply, Running
    <2> QED
      BY <1>1, <2>1, <2>2, ReturnsOne, StackStep
  <1>11. CASE Throw
    <2>1. /\ StackInv(stack', setjmp_head', backtrace_head')
          /\ UNCHANGED lost /\ Blocked
      BY <1>11, ThrowStep
    <2>2. UNCHANGED <<code, flags>>
      BY <1>11 DEF Throw
    <2> QED
      BY <1>1, <2>1, <2>2, StackStep
  <1>12. CASE Catch
    <2>1. StackInv(stack', setjmp_head', backtrace_head') /\ Len(stack') = Depth + 0
      BY <1>1, <1>12, CatchStep
    <2>2. UNCHANGED <<code, flags, lost>>
      BY <1>12 DEF Catch
    <2> QED
      BY <1>1, <1>3, <2>1, <2>2, StackStep
  <1>13. CASE RethrowUnhandled
    <2>1. /\ StackInv(stack', setjmp_head', backtrace_head')
          /\ UNCHANGED lost /\ Blocked
      BY <1>13, RethrowStep
    <2>2. UNCHANGED <<code, flags>>
      BY <1>13 DEF RethrowUnhandled
    <2> QED
      BY <1>1, <2>1, <2>2, StackStep
  <1>14. CASE UNCHANGED vars
    <2>1. UNCHANGED <<code, flags, stack, setjmp_head, backtrace_head, lost>>
      BY <1>14 DEF vars
    <2> QED
      BY <1>1, <1>2, <2>1, StackStep DEF ChainsInv
  <1> QED
    BY <1>4, <1>5, <1>6, <1>7, <1>8, <1>9, <1>10, <1>11, <1>12, <1>13, <1>14 DEF Next

\* With bodies that keep to BodiesRight, jit_function_apply, the prologues, the
\* returns, the tail calls and the throws keep the chains and the stack in step.
THEOREM ChainsInvariant == ASSUME BodiesRight PROVE Spec => []ChainsInv
  <1>1. Init => ChainsInv
    BY ChainsInit
  <1>2. ChainsInv /\ [Next]_vars => ChainsInv'
    BY ChainsStep
  <1> QED
    BY <1>1, <1>2, PTL DEF Spec

-----------------------------------------------------------------------------
(***************************************************************************)
(* What follows from it.                                                   *)
(***************************************************************************)
LEMMA ChainsMatch == ASSUME ChainsInv PROVE ChainMatchesFrames
  <1>1. /\ FramesRight(stack) /\ ChainOf(stack, Depth, setjmp_head)
        /\ setjmp_head \in Seq(BufferRecord) /\ Depth \in Nat
    BY DEF ChainsInv, StackInv, Depth, ChainOf, FramesRight
  <1>2. DOMAIN setjmp_head = 1..Len(setjmp_head)
    BY <1>1
  <1>3. /\ \A k \in 1..Len(setjmp_head) :
             setjmp_head[k].frame \in 1..Depth /\ HasBuffer(stack[setjmp_head[k].frame])
        /\ \A i \in 1..Depth : HasBuffer(stack[i]) =>
             \E k \in 1..Len(setjmp_head) : setjmp_head[k].frame = i
        /\ \A j, k \in 1..Len(setjmp_head) :
             j < k => setjmp_head[j].frame < setjmp_head[k].frame
    BY <1>1 DEF ChainOf
  <1>4. ASSUME NEW i \in 1..Depth, stack[i].armed
        PROVE  stack[i].pc \in {"call", "callout"}
    <2>1. CASE i = Depth
      <3>1. ~stack[Depth].armed
        BY <1>1 DEF FramesRight, OnTop, Depth
      <3> QED
        BY <1>4, <2>1, <3>1
    <2>2. CASE i # Depth
      <3>1. Waits(stack[i])
        BY <1>1, <2>2 DEF FramesRight, Depth
      <3>2. ~stack[i].apply
        BY <1>4, <3>1 DEF Waits, ApplyFrame
      <3> QED
        BY <3>1, <3>2 DEF Waits
    <2> QED
      BY <2>1, <2>2
  <1> QED
    BY <1>2, <1>3, <1>4 DEF ChainMatchesFrames

\* Every live frame with a buffer is in the setjmp chain once and in order, no dead
\* one is, and no catch_pc is set outside a call.
THEOREM ChainsAlwaysMatch == ASSUME BodiesRight PROVE Spec => []ChainMatchesFrames
  BY ChainsInvariant, ChainsMatch, PTL

\* The backtrace holds the live calls of jit_function_apply and no dead record.
THEOREM BacktraceAlwaysLive == ASSUME BodiesRight PROVE Spec => []BacktraceIsLive
  <1>1. ASSUME ChainsInv PROVE BacktraceIsLive
    <2>1. TraceOf(stack, Depth, backtrace_head)
      BY <1>1 DEF ChainsInv, StackInv, Depth
    <2>2. DOMAIN backtrace_head = 1..Len(backtrace_head)
      BY <2>1 DEF TraceOf
    <2> QED
      BY <2>1, <2>2 DEF TraceOf, BacktraceIsLive
  <1> QED
    BY <1>1, ChainsInvariant, PTL

\* No call that returns was compiled as one that does not, and every throw finds
\* a buffer.
THEOREM AlwaysFound == ASSUME BodiesRight PROVE Spec => []NeverLost
  <1>1. ChainsInv => NeverLost
    BY DEF ChainsInv, NeverLost
  <1> QED
    BY <1>1, ChainsInvariant, PTL

\* jit_function_apply blocks exceptions.
THEOREM ApplyAlwaysBlocks == ASSUME BodiesRight PROVE Spec => ApplyBlocks
  <1>1. ASSUME ChainsInv, [Next]_vars
        PROVE  [\A i \in 1..Depth : stack[i].apply => Len(stack') >= i - 1 /\ ~lost']_vars
    <2>1. ChainsInv' /\ Blocked
      BY <1>1, ChainsStep
    <2> QED
      BY <2>1 DEF Blocked, ChainsInv
  <1> QED
    BY <1>1, ChainsInvariant, PTL DEF Spec, ApplyBlocks

\* No exception passes over a function with a catcher that is calling out.
THEOREM CatchersAlwaysCatch == ASSUME BodiesRight PROVE Spec => CatchersCatch
  <1>1. ASSUME ChainsInv, [Next]_vars
        PROVE  [\A i \in 1..(Depth - 1) : stack[i].code.covered => Len(stack') >= i]_vars
    <2>1. Blocked
      BY <1>1, ChainsStep
    <2> QED
      BY <2>1 DEF Blocked
  <1> QED
    BY <1>1, ChainsInvariant, PTL DEF Spec, CatchersCatch
=============================================================================
