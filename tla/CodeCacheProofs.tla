--------------------------- MODULE CodeCacheProofs ---------------------------
(***************************************************************************)
(* The layout of the code cache for any page size, limit, alignment and    *)
(* code generator: LayoutInv is an inductive invariant of CodeCache, and   *)
(* the disjointness of code and data and the permanence of what has been   *)
(* published follow from it.                                               *)
(***************************************************************************)
EXTENDS CodeCache, SequenceTheorems, WellFoundedInduction, TLAPS

-----------------------------------------------------------------------------
\* Rounding an address down to an alignment stays at or below it.
LEMMA RoundDownBound ==
    ASSUME NEW n \in Nat, NEW a \in Nat \ {0}
    PROVE  RoundDown(n, a) \in Nat /\ RoundDown(n, a) <= n
  BY SMT DEF RoundDown

\* Rounding an address up to an alignment stays at or above it.
LEMMA RoundUpBound ==
    ASSUME NEW n \in Nat, NEW a \in Nat \ {0}
    PROVE  RoundUp(n, a) \in Nat /\ RoundUp(n, a) >= n
  BY SMT DEF RoundUp

\* _jit_cache_alloc gives space between the position and its limit, or none.
LEMMA AllocAtInside ==
    ASSUME NEW p \in Nat, NEW l \in Nat, p <= l, NEW size \in Nat \ {0}
    PROVE  \/ AllocAt(p, l, size) = -1
           \/ /\ AllocAt(p, l, size) \in Nat
              /\ p <= AllocAt(p, l, size)
              /\ AllocAt(p, l, size) < l
  <1>1. CASE size > l - p
    BY <1>1 DEF AllocAt
  <1>2. CASE ~(size > l - p)
    <2>1. l - size \in Nat
      BY <1>2
    <2>2. RoundDown(l - size, BestAlign) \in Nat /\ RoundDown(l - size, BestAlign) <= l - size
      BY <2>1, RoundDownBound, SizeAssumption
    <2> QED
      BY <1>2, <2>2 DEF AllocAt
  <1> QED
    BY <1>1, <1>2

\* Dropping the last element of a list (the --numPages of end_method).
LEMMA DropLast ==
    ASSUME NEW S, NEW s \in Seq(S), Len(s) > 0
    PROVE  /\ Len(s) \in Nat \ {0}
           /\ s[Len(s)] \in S
           /\ SubSeq(s, 1, Len(s) - 1) \in Seq(S)
           /\ Len(SubSeq(s, 1, Len(s) - 1)) = Len(s) - 1
           /\ \A i \in 1..(Len(s) - 1) : SubSeq(s, 1, Len(s) - 1)[i] = s[i]
  <1>1. Len(s) \in Nat \ {0}
    OBVIOUS
  <1>2. s[Len(s)] \in S
    BY <1>1
  <1> DEFINE n == Len(s) - 1
             t == SubSeq(s, 1, n)
  <1>3. n \in Int /\ n >= 0
    BY <1>1
  <1>4. \A i \in 1..n : s[i] \in S
    OBVIOUS
  <1> HIDE DEF n
  <1>5. /\ t \in Seq(S)
        /\ Len(t) = IF 1 <= n THEN n - 1 + 1 ELSE 0
        /\ \A i \in 1..(n - 1 + 1) : t[i] = s[1 + i - 1]
    BY <1>3, <1>4, SubSeqProperties
  <1> HIDE DEF t
  <1>6. Len(t) = n /\ \A i \in 1..n : t[i] = s[i]
    BY <1>3, <1>5
  <1>7. t = SubSeq(s, 1, Len(s) - 1) /\ n = Len(s) - 1
    BY DEF t, n
  <1> QED
    BY <1>1, <1>2, <1>5, <1>6, <1>7

\* Moving debug pairs into the cache shrinks the room of the translation from
\* its top, or fills it.
LEMMA FlushInside ==
    ASSUME PosnTypeOK, ptr <= limit, NEW len \in Nat, NEW done \in BOOLEAN,
           FlushCacheDebug(ptr, limit, len, done)
    PROVE  /\ ptr' \in Nat /\ limit' \in Nat
           /\ ptr <= ptr' /\ ptr' <= limit' /\ limit' <= limit
           /\ ptr' = ptr \/ ptr' = limit'
           /\ ptr = limit => ptr' = limit'
           /\ debugLen' \in Nat /\ debugList' \in Nat /\ debugDone' \in BOOLEAN
  <1>1. DebugSize \in Nat \ {0}
    BY SizeAssumption
  <1>2. \/ AllocAt(ptr, limit, DebugSize) = -1
        \/ /\ AllocAt(ptr, limit, DebugSize) \in Nat
           /\ ptr <= AllocAt(ptr, limit, DebugSize)
           /\ AllocAt(ptr, limit, DebugSize) < limit
    BY <1>1, AllocAtInside DEF PosnTypeOK
  <1> QED
    BY <1>2 DEF FlushCacheDebug, PosnTypeOK

\* The extent of the newest block is a number of bytes.
LEMMA LastExtent ==
    ASSUME CacheTypeOK, Len(pages) > 0
    PROVE  LastPage.factor * PageSize \in Nat
  <1>1. LastPage \in [page : PageId, factor : 1..MaxPageFactor]
    BY DropLast DEF CacheTypeOK, LastPage
  <1>2. LastPage.factor \in Nat
    BY <1>1, PageAssumption
  <1> QED
    BY <1>2, PageAssumption

-----------------------------------------------------------------------------
(***************************************************************************)
(* The page allocator keeps the pages apart and the published code where   *)
(* it was.                                                                 *)
(***************************************************************************)
\* AllocCachePage fails: the list of pages stays, the free region is null.
LEMMA FailPageKeeps ==
    ASSUME CacheTypeOK, PagesInv, PlacedInv, StoreTypeOK, NEW factor, FailPage(factor)
    PROVE  /\ CacheTypeOK' /\ PagesInv'
           /\ UNCHANGED <<tree, blocks>> => PlacedInv'
  <1>1. freePage' = NoPage /\ freeStart' = 0 /\ freeEnd' = 0
    BY DEF FailPage, NoFreeRegion
  <1>2. UNCHANGED <<pages, maxNumPages, pagesLeft>>
    BY DEF FailPage
  <1>3. CacheTypeOK'
    BY <1>1, <1>2 DEF CacheTypeOK
  <1>4. PagesInv'
    BY <1>1, <1>2 DEF PagesInv
  <1>5. ASSUME UNCHANGED <<tree, blocks>> PROVE PlacedInv'
    <2>1. \A x \in tree \cup blocks : x.page # NoPage
      BY PageAssumption DEF StoreTypeOK, Region
    <2> QED
      BY <1>1, <1>2, <1>5, <2>1 DEF PlacedInv
  <1> QED
    BY <1>3, <1>4, <1>5

\* AllocCachePage succeeds: the new block is apart from all others and holds
\* nothing; its free region may already have been cut to freeEnd'.
LEMMA NewPageKeeps ==
    ASSUME CacheTypeOK, PagesInv, PlacedInv, StoreTypeOK,
           NEW factor \in Int, NEW p \in PageId, NewPage(factor, p)
    PROVE  /\ pages' \in Seq([page : PageId, factor : 1..MaxPageFactor])
           /\ maxNumPages' \in Nat /\ pagesLeft' \in Int
           /\ Len(pages') = Len(pages) + 1
           /\ pages'[Len(pages')] = [page |-> p, factor |-> FactorOf(factor)]
           /\ \A i \in 1..Len(pages) : pages'[i] = pages[i]
           /\ \A i, j \in 1..Len(pages') : pages'[i].page = pages'[j].page => i = j
           /\ \A x \in tree \cup blocks : x.page # p
           /\ FactorOf(factor) \in 1..MaxPageFactor
  <1> DEFINE f == FactorOf(factor)
  <1>1. f \in 1..MaxPageFactor
    BY PageAssumption DEF NewPage, PageRefused, FactorOf
  <1>2. pages' = Append(pages, [page |-> p, factor |-> f]) /\ p \notin Allocated
    BY DEF NewPage
  <1>3. pages' \in Seq([page : PageId, factor : 1..MaxPageFactor])
    BY <1>1, <1>2 DEF CacheTypeOK
  <1>4. pagesLeft >= 0 => pagesLeft >= f
    BY <1>1, PageAssumption DEF NewPage, PageRefused, CacheTypeOK
  <1>5. maxNumPages' \in Nat
    <2>1. maxNumPages' \in {GrownList(f), maxNumPages}
      BY DEF NewPage
    <2>2. GrownList(f) \in Nat
      BY <1>1, <1>4, PageAssumption DEF GrownList, CacheTypeOK
    <2> QED
      BY <2>1, <2>2 DEF CacheTypeOK
  <1>6. pagesLeft' \in Int
    BY <1>1, PageAssumption DEF NewPage, CacheTypeOK
  <1>7. /\ Len(pages') = Len(pages) + 1
        /\ pages'[Len(pages')] = [page |-> p, factor |-> f]
        /\ \A i \in 1..Len(pages) : pages'[i] = pages[i]
    BY <1>1, <1>2 DEF CacheTypeOK
  <1>8. \A i, j \in 1..Len(pages') : pages'[i].page = pages'[j].page => i = j
    <2>1. \A i \in 1..Len(pages) : pages[i].page # p
      BY <1>2 DEF Allocated
    <2>2. \A i \in 1..Len(pages') : i \in 1..Len(pages) \/ i = Len(pages')
      BY <1>7 DEF CacheTypeOK
    <2> QED
      BY <1>7, <2>1, <2>2 DEF PagesInv
  <1>9. \A x \in tree \cup blocks : x.page # p
    BY <1>2 DEF PlacedInv, Allocated
  <1> QED
    BY <1>1, <1>3, <1>5, <1>6, <1>7, <1>8, <1>9

\* AllocCachePage as start_method calls it.
LEMMA AllocCachePageKeeps ==
    ASSUME CacheTypeOK, PagesInv, PlacedInv, StoreTypeOK,
           NEW factor \in Int, AllocCachePage(factor), UNCHANGED <<tree, blocks>>
    PROVE  CacheTypeOK' /\ PagesInv' /\ PlacedInv'
  <1>1. CASE FailPage(factor)
    BY <1>1, FailPageKeeps
  <1>2. ASSUME NEW p \in PageId, NewPage(factor, p), freeEnd' = FactorOf(factor) * PageSize
        PROVE  CacheTypeOK' /\ PagesInv' /\ PlacedInv'
    <2>1. freePage' = p /\ freeStart' = 0
      BY <1>2 DEF NewPage
    <2>2. /\ pages' \in Seq([page : PageId, factor : 1..MaxPageFactor])
          /\ maxNumPages' \in Nat /\ pagesLeft' \in Int
          /\ Len(pages') = Len(pages) + 1
          /\ pages'[Len(pages')] = [page |-> p, factor |-> FactorOf(factor)]
          /\ \A i \in 1..Len(pages) : pages'[i] = pages[i]
          /\ \A i, j \in 1..Len(pages') : pages'[i].page = pages'[j].page => i = j
          /\ \A x \in tree \cup blocks : x.page # p
          /\ FactorOf(factor) \in 1..MaxPageFactor
      BY <1>2, NewPageKeeps
    <2>3. freeEnd' \in Nat
      BY <1>2, <2>2, PageAssumption
    <2>4. CacheTypeOK'
      BY <2>1, <2>2, <2>3 DEF CacheTypeOK
    <2>5. PagesInv'
      <3>1. Len(pages) \in Nat
        BY DEF CacheTypeOK
      <3>2. LastPage' = [page |-> p, factor |-> FactorOf(factor)]
        BY <2>2 DEF LastPage
      <3> QED
        BY <1>2, <2>1, <2>2, <2>3, <3>1, <3>2, PageAssumption DEF PagesInv
    <2>6. PlacedInv'
      <3>1. \A i \in 1..Len(pages) : i \in 1..Len(pages')
        BY <2>2 DEF CacheTypeOK
      <3> QED
        BY <2>1, <2>2, <3>1 DEF PlacedInv
    <2> QED
      BY <2>4, <2>5, <2>6
  <1> QED
    BY <1>1, <1>2 DEF AllocCachePage

\* _jit_cache_start_method: the position of a translation that may go on lies
\* in the free region, and nothing published moves.
LEMMA StartMethodKeeps ==
    ASSUME LayoutInv, NEW f \in Func, NEW factor \in Nat,
           NEW code \in {"OK", "RESTART", "TOO_BIG"},
           start_method(f, factor, code), UNCHANGED <<tree, blocks>>
    PROVE  /\ CacheTypeOK' /\ PosnTypeOK' /\ PagesInv' /\ PlacedInv'
           /\ result' \in [factor : Nat, code : {"OK", "RESTART", "TOO_BIG"}]
           /\ code = "OK" => /\ freePage' # NoPage
                            /\ method'.func \in Func
                            /\ freeStart' <= method'.start
                            /\ method'.start <= ptr'
                            /\ ptr' <= limit'
                            /\ limit' < freeEnd'
  <1>1. CacheTypeOK' /\ PagesInv' /\ PlacedInv'
    <2>1. CASE factor > 0
      BY <2>1, AllocCachePageKeeps DEF start_method, LayoutInv, TypeOK
    <2>2. CASE ~(factor > 0)
      <3>1. UNCHANGED cacheVars
        BY <2>2 DEF start_method
      <3> QED
        BY <3>1 DEF cacheVars, LayoutInv, TypeOK, CacheTypeOK, PagesInv, PlacedInv, LastPage
    <2> QED
      BY <2>1, <2>2
  <1>2. result' \in [factor : Nat, code : {"OK", "RESTART", "TOO_BIG"}]
    BY DEF start_method
  <1>3. /\ freeStart' \in Nat /\ freeEnd' \in Nat
        /\ freePage' # NoPage => freeStart' <= freeEnd'
    BY <1>1 DEF CacheTypeOK, PagesInv
  <1>4. PosnTypeOK
    BY DEF LayoutInv, TypeOK
  <1>5. CASE code = "TOO_BIG"
    <2>1. TooBig(freePage')
      BY <1>5 DEF start_method
    <2> QED
      BY <1>1, <1>2, <1>4, <1>5, <2>1 DEF TooBig, PosnTypeOK, debugVars
  <1>6. CASE code = "RESTART"
    <2>1. NoRoom(freePage', freeStart', freeEnd')
      BY <1>6 DEF start_method
    <2> QED
      BY <1>1, <1>2, <1>3, <1>4, <1>6, <2>1 DEF NoRoom, PosnTypeOK, NoMethod, debugVars
  <1>7. CASE code = "OK"
    <2> DEFINE start == RoundUp(freeStart', FuncAlign)
               at == AllocAt(start, freeEnd', MethodSize)
    <2>1. Started(f, freePage', freeStart', freeEnd')
      BY <1>7 DEF start_method
    <2>2. start \in Nat /\ freeStart' <= start
      BY <1>3, RoundUpBound, SizeAssumption
    <2>3. start < freeEnd' /\ at # -1
      BY <2>1 DEF Started
    <2>4. at \in Nat /\ start <= at /\ at < freeEnd'
      BY <1>3, <2>2, <2>3, AllocAtInside, SizeAssumption
    <2>5. /\ freePage' # NoPage
          /\ ptr' = start /\ limit' = at
          /\ method' = [func |-> f, start |-> start]
          /\ debugLen' = 0 /\ debugList' = 0 /\ debugDone' = FALSE
      BY <2>1 DEF Started
    <2>6. PosnTypeOK'
      BY <2>2, <2>4, <2>5 DEF PosnTypeOK
    <2> HIDE DEF start, at
    <2> QED
      BY <1>1, <1>2, <2>2, <2>4, <2>5, <2>6
  <1> QED
    BY <1>5, <1>6, <1>7

-----------------------------------------------------------------------------
(***************************************************************************)
(* One lemma per action of the specification.                              *)
(***************************************************************************)
\* As long as nothing is published or handed out, and what is lies in place,
\* regions and blocks stay disjoint.
LEMMA SameStoreDisjoint ==
    ASSUME LayoutInv, UNCHANGED <<tree, blocks>>, PlacedInv'
    PROVE  StoreTypeOK' /\ CodeDisjoint' /\ DataDisjoint'
  <1>1. StoreTypeOK'
    BY DEF LayoutInv, TypeOK, StoreTypeOK
  <1>2. CodeDisjoint'
    BY DEF LayoutInv, CodeDisjoint, PlacedInv, Overlap
  <1>3. DataDisjoint'
    BY DEF LayoutInv, DataDisjoint, Overlap
  <1> QED
    BY <1>1, <1>2, <1>3

\* A code generator writes its prolog first.
LEMMA PrologFirst ==
    ASSUME NEW g \in Program
    PROVE  g \in Seq(Request) /\ g # <<>> /\ Head(g)[1] = "code"
  BY ProgramAssumption

\* compile() before its loop: current page.
LEMMA BeginKeeps ==
    ASSUME LayoutInv, NEW f \in Func, NEW g \in Program, Begin(f, g)
    PROVE  LayoutInv'
  <1>1. PICK code \in {"OK", "RESTART", "TOO_BIG"} :
          /\ start_method(f, 0, code)
          /\ Locals(CASE code = "OK"      -> "generate"
                      [] code = "RESTART" -> "second"
                      [] code = "TOO_BIG" -> "idle", f, g, g, 1)
    BY DEF Begin
  <1>2. UNCHANGED <<tree, blocks>>
    BY DEF Begin
  <1>3. /\ CacheTypeOK' /\ PosnTypeOK' /\ PagesInv' /\ PlacedInv'
        /\ result' \in [factor : Nat, code : {"OK", "RESTART", "TOO_BIG"}]
        /\ code = "OK" => /\ freePage' # NoPage
                         /\ method'.func \in Func
                         /\ freeStart' <= method'.start
                         /\ method'.start <= ptr'
                         /\ ptr' <= limit'
                         /\ limit' < freeEnd'
    BY <1>1, <1>2, StartMethodKeeps
  <1>4. /\ pc' \in {"idle", "second", "generate"}
        /\ pc' = "generate" => code = "OK" /\ todo' = g
        /\ pc' # "idle" => func' = f /\ prog' = g
        /\ func' \in {f, NoPage} /\ prog' \in {g, <<>>} /\ todo' \in {g, <<>>}
        /\ page_factor' \in {0, 1}
    BY <1>1 DEF Locals
  <1>5. g \in Seq(Request) /\ g # <<>> /\ Head(g)[1] = "code"
    BY PrologFirst
  <1>6. LoopTypeOK'
    <2>1. <<>> \in Seq(Request)
      OBVIOUS
    <2>2. todo' \in Seq(Request)
      BY <1>4, <1>5, <2>1
    <2> QED
      BY <1>3, <1>4, <2>2 DEF LoopTypeOK
  <1>7. PosnInv'
    BY <1>3, <1>4, <1>5 DEF PosnInv
  <1>8. StoreTypeOK' /\ CodeDisjoint' /\ DataDisjoint'
    BY <1>2, <1>3, SameStoreDisjoint
  <1> QED
    BY <1>3, <1>6, <1>7, <1>8 DEF LayoutInv, TypeOK

\* compile() before its loop: a new page; and the tail of the loop.
LEMMA RetryKeeps ==
    ASSUME LayoutInv, pc # "idle", NEW code \in {"OK", "RESTART", "TOO_BIG"},
           NEW next \in Nat,
           start_method(func, page_factor, code),
           Locals(IF code = "OK" THEN "generate" ELSE "idle", func, prog, prog, next),
           UNCHANGED <<tree, blocks>>
    PROVE  LayoutInv'
  <1>1. func \in Func /\ prog \in Program /\ page_factor \in Nat
    BY DEF LayoutInv, TypeOK, LoopTypeOK
  <1>2. /\ CacheTypeOK' /\ PosnTypeOK' /\ PagesInv' /\ PlacedInv'
        /\ result' \in [factor : Nat, code : {"OK", "RESTART", "TOO_BIG"}]
        /\ code = "OK" => /\ freePage' # NoPage
                         /\ method'.func \in Func
                         /\ freeStart' <= method'.start
                         /\ method'.start <= ptr'
                         /\ ptr' <= limit'
                         /\ limit' < freeEnd'
    BY <1>1, StartMethodKeeps
  <1>3. /\ pc' \in {"idle", "generate"}
        /\ pc' = "generate" => code = "OK" /\ todo' = prog
        /\ pc' # "idle" => func' = func /\ prog' = prog
        /\ func' \in {func, NoPage} /\ prog' \in {prog, <<>>} /\ todo' \in {prog, <<>>}
        /\ page_factor' \in {0, next}
    BY DEF Locals
  <1>4. prog \in Seq(Request) /\ prog # <<>> /\ Head(prog)[1] = "code"
    BY <1>1, PrologFirst
  <1>5. LoopTypeOK'
    <2>1. <<>> \in Seq(Request)
      OBVIOUS
    <2>2. todo' \in Seq(Request)
      BY <1>3, <1>4, <2>1
    <2> QED
      BY <1>1, <1>2, <1>3, <2>2 DEF LoopTypeOK
  <1>6. PosnInv'
    BY <1>2, <1>3, <1>4 DEF PosnInv
  <1>7. StoreTypeOK' /\ CodeDisjoint' /\ DataDisjoint'
    BY <1>2, SameStoreDisjoint
  <1> QED
    BY <1>2, <1>5, <1>6, <1>7 DEF LayoutInv, TypeOK

LEMMA SecondKeeps ==
    ASSUME LayoutInv, Second
    PROVE  LayoutInv'
  <1>1. page_factor + 1 \in Nat
    BY DEF LayoutInv, TypeOK, LoopTypeOK
  <1> QED
    BY <1>1, RetryKeeps DEF Second

LEMMA RestartKeeps ==
    ASSUME LayoutInv, Restart
    PROVE  LayoutInv'
  <1>1. page_factor * 2 \in Nat
    BY DEF LayoutInv, TypeOK, LoopTypeOK
  <1> QED
    BY <1>1, RetryKeeps DEF Restart

\* One request of the code generator moves only its own position.
LEMMA GenerateKeeps ==
    ASSUME LayoutInv, Generate
    PROVE  LayoutInv'
  <1> DEFINE op == Head(todo)[1]
             n == Head(todo)[2]
  <1>1. /\ todo \in Seq(Request) /\ todo # <<>> /\ pc = "generate"
        /\ todo' = Tail(todo)
        /\ UNCHANGED <<cacheVars, tree, blocks, method, pc, func, prog, page_factor, result>>
    BY DEF Generate, LayoutInv, TypeOK, LoopTypeOK
  <1>2. Head(todo) \in Request /\ Tail(todo) \in Seq(Request)
    BY <1>1
  <1>3. n \in Nat \ {0}
    BY <1>2 DEF Request
  <1>4. /\ PosnTypeOK /\ CacheTypeOK
        /\ freePage # NoPage /\ method.func \in Func
        /\ freeStart <= method.start /\ method.start <= ptr
        /\ ptr <= limit /\ limit < freeEnd
        /\ method.start < ptr \/ ptr = limit \/ op = "code"
    BY <1>1 DEF LayoutInv, TypeOK, PosnInv
  <1>5. /\ ptr \in Nat /\ limit \in Nat /\ method.start \in Nat
    BY <1>4 DEF PosnTypeOK
  <1> HIDE DEF op, n
  <1>6. /\ ptr' \in Nat /\ limit' \in Nat
        /\ debugLen' \in Nat /\ debugList' \in Nat /\ debugDone' \in BOOLEAN
        /\ method.start <= ptr' /\ ptr' <= limit' /\ limit' <= limit
        /\ method.start < ptr' \/ ptr' = limit'
    <2>1. CASE op = "code" /\ EmitCode(n)
      BY <1>3, <1>4, <1>5, <2>1 DEF EmitCode, PosnTypeOK, debugVars
    <2>2. CASE op = "data" /\ EmitData(n)
      <3>1. \/ AllocAt(ptr, limit, n) = -1
            \/ /\ AllocAt(ptr, limit, n) \in Nat
               /\ ptr <= AllocAt(ptr, limit, n)
               /\ AllocAt(ptr, limit, n) < limit
        BY <1>3, <1>4, <1>5, AllocAtInside
      <3>2. ptr = limit => AllocAt(ptr, limit, n) = -1
        BY <1>5, <3>1
      <3> QED
        BY <1>4, <1>5, <2>2, <3>1, <3>2 DEF EmitData, PosnTypeOK, debugVars
    <2>3. CASE op = "mark" /\ WriteCacheDebug
      <3>1. CASE debugLen + 1 >= DebugPairs
        <4>1. debugLen + 1 \in Nat
          BY <1>4 DEF PosnTypeOK
        <4>2. FlushCacheDebug(ptr, limit, debugLen + 1, FALSE)
          BY <2>3, <3>1, Zenon DEF WriteCacheDebug
        <4>3. /\ ptr' \in Nat /\ limit' \in Nat
              /\ ptr <= ptr' /\ ptr' <= limit' /\ limit' <= limit
              /\ ptr' = ptr \/ ptr' = limit'
              /\ ptr = limit => ptr' = limit'
              /\ debugLen' \in Nat /\ debugList' \in Nat /\ debugDone' \in BOOLEAN
          BY <1>4, <4>1, <4>2, FlushInside, Zenon
        <4> QED
          BY <1>4, <1>5, <2>3, <4>3
      <3>2. CASE ~(debugLen + 1 >= DebugPairs)
        BY <1>4, <1>5, <2>3, <3>2 DEF WriteCacheDebug, PosnTypeOK
      <3> QED
        BY <3>1, <3>2
    <2> QED
      BY <2>1, <2>2, <2>3 DEF Generate, op, n
  <1>7. CacheTypeOK' /\ PagesInv' /\ PlacedInv'
    BY <1>1 DEF LayoutInv, TypeOK, CacheTypeOK, PagesInv, PlacedInv, LastPage, cacheVars
  <1>8. PosnTypeOK'
    BY <1>1, <1>4, <1>6 DEF PosnTypeOK
  <1>9. LoopTypeOK'
    BY <1>1, <1>2 DEF LayoutInv, TypeOK, LoopTypeOK
  <1>10. PosnInv'
    BY <1>1, <1>4, <1>5, <1>6 DEF PosnInv, CacheTypeOK, cacheVars
  <1>11. StoreTypeOK' /\ CodeDisjoint' /\ DataDisjoint'
    BY <1>1, <1>7, SameStoreDisjoint
  <1> QED
    BY <1>7, <1>8, <1>9, <1>10, <1>11 DEF LayoutInv, TypeOK

\* end_method gives back only a block that holds nothing published.
LEMMA EndRestartKeeps ==
    ASSUME LayoutInv, EndRestart
    PROVE  LayoutInv'
  <1>1. /\ pc = "generate" /\ Locals("restart", func, prog, <<>>, page_factor)
        /\ UNCHANGED <<tree, blocks, ptr, limit, method, debugVars, result>>
    BY DEF EndRestart
  <1>2. /\ CacheTypeOK /\ StoreTypeOK /\ PosnTypeOK /\ LoopTypeOK
        /\ PagesInv /\ PlacedInv /\ freePage # NoPage
    BY <1>1 DEF LayoutInv, TypeOK, PosnInv
  <1>3. /\ pages \in Seq([page : PageId, factor : 1..MaxPageFactor])
        /\ Len(pages) \in Nat \ {0}
        /\ LastPage \in [page : PageId, factor : 1..MaxPageFactor]
    BY <1>2, DropLast DEF CacheTypeOK, PagesInv, LastPage
  <1>4. CacheTypeOK' /\ PagesInv' /\ PlacedInv'
    <2>1. CASE WholePageFree
      <3>1. /\ pages' = SubSeq(pages, 1, Len(pages) - 1)
            /\ pagesLeft' = IF pagesLeft >= 0 THEN pagesLeft + LastPage.factor ELSE pagesLeft
            /\ freePage' = NoPage /\ freeStart' = 0 /\ freeEnd' = 0
            /\ maxNumPages' = maxNumPages
        BY <2>1 DEF EndRestart, NoFreeRegion
      <3>2. /\ pages' \in Seq([page : PageId, factor : 1..MaxPageFactor])
            /\ Len(pages') = Len(pages) - 1
            /\ \A i \in 1..Len(pages') : pages'[i] = pages[i]
        <4>1. Len(pages) > 0
          BY <1>3
        <4>2. /\ pages' \in Seq([page : PageId, factor : 1..MaxPageFactor])
              /\ Len(pages') = Len(pages) - 1
              /\ \A i \in 1..(Len(pages) - 1) : pages'[i] = pages[i]
          BY <1>3, <3>1, <4>1, DropLast
        <4> QED
          BY <4>2
      <3>3. pagesLeft' \in Int
        BY <1>2, <1>3, <3>1, PageAssumption DEF CacheTypeOK
      <3>4. CacheTypeOK'
        BY <1>2, <3>1, <3>2, <3>3 DEF CacheTypeOK
      <3>5. PagesInv'
        <4>1. \A i \in 1..Len(pages') : i \in 1..Len(pages)
          BY <1>3, <3>2
        <4> QED
          BY <1>2, <3>1, <3>2, <4>1 DEF PagesInv
      <3>6. \A x \in tree \cup blocks : x.page # freePage
        <4>1. ASSUME NEW r \in tree, r.page = freePage PROVE FALSE
          BY <1>2, <2>1, <4>1 DEF PlacedInv, StoreTypeOK, Region, WholePageFree
        <4>2. ASSUME NEW b \in blocks, b.page = freePage PROVE FALSE
          <5>1. b.start \in Nat /\ b.end \in Nat /\ b.start < b.end /\ freeEnd <= b.start
            BY <1>2, <4>2 DEF PlacedInv, StoreTypeOK
          <5>2. PICK i \in 1..Len(pages) : /\ pages[i].page = b.page
                                          /\ b.end <= pages[i].factor * PageSize
            BY <1>2 DEF PlacedInv
          <5>3. i = Len(pages)
            BY <1>2, <1>3, <4>2, <5>2 DEF PagesInv, LastPage
          <5>4. freeEnd = LastPage.factor * PageSize /\ freeEnd \in Nat
            BY <1>2, <2>1 DEF WholePageFree, CacheTypeOK
          <5> QED
            BY <5>1, <5>2, <5>3, <5>4 DEF LastPage
        <4> QED
          BY <4>1, <4>2
      <3>7. \A x \in tree \cup blocks :
              \E i \in 1..Len(pages') : /\ pages'[i].page = x.page
                                      /\ x.end <= pages'[i].factor * PageSize
        <4>1. SUFFICES ASSUME NEW x \in tree \cup blocks
                       PROVE  \E i \in 1..Len(pages') :
                                /\ pages'[i].page = x.page
                                /\ x.end <= pages'[i].factor * PageSize
          OBVIOUS
        <4>2. PICK i \in 1..Len(pages) : /\ pages[i].page = x.page
                                        /\ x.end <= pages[i].factor * PageSize
          BY <1>2 DEF PlacedInv
        <4>3. i # Len(pages)
          BY <1>2, <3>6, <4>2 DEF PagesInv, LastPage
        <4>4. i \in 1..Len(pages')
          BY <1>3, <3>2, <4>3
        <4> QED
          BY <3>2, <4>2, <4>4
      <3>8. \A x \in tree \cup blocks : x.page # NoPage
        BY <1>2, PageAssumption DEF StoreTypeOK, Region
      <3>9. PlacedInv'
        BY <1>1, <1>2, <3>1, <3>7, <3>8 DEF PlacedInv
      <3> QED
        BY <3>4, <3>5, <3>9
    <2>2. CASE ~WholePageFree
      <3>1. UNCHANGED cacheVars
        BY <2>2 DEF EndRestart
      <3> QED
        BY <1>1, <1>2, <3>1 DEF cacheVars, CacheTypeOK, PagesInv, PlacedInv, LastPage
    <2> QED
      BY <2>1, <2>2
  <1>5. /\ pc' = "restart" /\ func' = func /\ prog' = prog /\ todo' = <<>>
        /\ page_factor' = page_factor
    BY <1>1 DEF Locals
  <1>6. LoopTypeOK'
    <2>1. <<>> \in Seq(Request)
      OBVIOUS
    <2> QED
      BY <1>1, <1>2, <1>5, <2>1 DEF LoopTypeOK
  <1>7. PosnTypeOK'
    BY <1>1, <1>2 DEF PosnTypeOK, debugVars
  <1>8. PosnInv'
    BY <1>5 DEF PosnInv
  <1>9. StoreTypeOK' /\ CodeDisjoint' /\ DataDisjoint'
    BY <1>1, <1>4, SameStoreDisjoint
  <1> QED
    BY <1>4, <1>6, <1>7, <1>8, <1>9 DEF LayoutInv, TypeOK

\* What TakeBlock does to a free region s .. e-1 of page p: nothing, or a block
\* of the asked size leaves it at its top.
BlockCut(p, s, e, size) ==
    \/ freeEnd' = e /\ UNCHANGED blocks
    \/ \E at \in Nat :
         /\ s <= at /\ at + size <= e /\ freeEnd' = at
         /\ blocks' = blocks \cup {[page |-> p, start |-> at, end |-> at + size]}

\* _jit_cache_alloc_no_method cuts its block off the top of a free region.
LEMMA TakeBlockInside ==
    ASSUME NEW p, NEW s \in Nat, NEW e \in Nat, NEW size \in Nat \ {0},
           NEW align \in {1, BestAlign}, size <= e - s, TakeBlock(p, s, e, size, align)
    PROVE  BlockCut(p, s, e, size)
  <1> DEFINE at == RoundDown(e - size, align)
  <1>1. align \in Nat \ {0}
    BY SizeAssumption
  <1>2. e - size \in Nat
    OBVIOUS
  <1>3. at \in Nat /\ at <= e - size
    BY <1>1, <1>2, RoundDownBound
  <1>4. at + size <= e
    BY <1>3
  <1>5. \/ at < s /\ freeEnd' = e /\ UNCHANGED blocks
        \/ /\ ~(at < s) /\ freeEnd' = at
           /\ blocks' = blocks \cup {[page |-> p, start |-> at, end |-> at + size]}
    BY DEF TakeBlock
  <1> HIDE DEF at
  <1> QED
    BY <1>3, <1>4, <1>5 DEF BlockCut

\* end_method publishes exactly the room between the free region it found and
\* the one it leaves.
LEMMA EndOKKeeps ==
    ASSUME LayoutInv, EndOK
    PROVE  LayoutInv'
  <1> DEFINE kind == IF ~Marked THEN "none" ELSE IF debugDone' THEN "whole" ELSE "cut"
             r == [func |-> method.func, page |-> freePage,
                   start |-> method.start, end |-> ptr', debug |-> kind]
             b == [page |-> freePage, start |-> limit', end |-> freeEnd]
  <1>1. /\ pc = "generate" /\ todo = <<>> /\ ptr < limit
        /\ freeStart' = ptr' /\ freeEnd' = limit'
        /\ tree' = tree \cup {r} /\ blocks' = blocks \cup {b}
        /\ method' = NoMethod
        /\ Locals("idle", func, prog, todo, page_factor)
        /\ UNCHANGED <<pages, maxNumPages, pagesLeft, freePage, result>>
    BY DEF EndOK
  <1>2. /\ CacheTypeOK /\ StoreTypeOK /\ PosnTypeOK /\ LoopTypeOK
        /\ PagesInv /\ PlacedInv /\ CodeDisjoint /\ DataDisjoint
        /\ freePage # NoPage /\ method.func \in Func
        /\ freeStart <= method.start /\ method.start <= ptr
        /\ ptr <= limit /\ limit < freeEnd
        /\ method.start < ptr \/ ptr = limit \/ todo # <<>>
    BY <1>1 DEF LayoutInv, TypeOK, PosnInv
  <1>3. /\ ptr \in Nat /\ limit \in Nat /\ method.start \in Nat
        /\ freeStart \in Nat /\ freeEnd \in Nat /\ freePage \in PageId
    BY <1>2 DEF PosnTypeOK, CacheTypeOK
  <1>4. method.start < ptr
    BY <1>1, <1>2, <1>3
  <1>5. /\ ptr' \in Nat /\ limit' \in Nat
        /\ ptr <= ptr' /\ ptr' <= limit' /\ limit' <= limit
        /\ debugLen' \in Nat /\ debugList' \in Nat /\ debugDone' \in BOOLEAN
    <2>1. CASE Marked
      <3>1. debugLen + 1 \in Nat
        BY <1>2 DEF PosnTypeOK
      <3>2. FlushCacheDebug(ptr, limit, debugLen + 1, TRUE)
        BY <2>1, Zenon DEF EndOK
      <3> QED
        BY <1>2, <3>1, <3>2, FlushInside, Zenon
    <2>2. CASE ~Marked
      <3>1. UNCHANGED <<ptr, limit, debugVars>>
        BY <2>2, Zenon DEF EndOK
      <3> QED
        BY <1>2, <1>3, <3>1 DEF PosnTypeOK, debugVars
    <2> QED
      BY <2>1, <2>2
  <1>6. kind \in {"none", "whole", "cut"}
    OBVIOUS
  <1> HIDE DEF kind
  <1>7. r \in Region /\ b \in [page : PageId, start : Nat, end : Nat]
    BY <1>2, <1>3, <1>5, <1>6 DEF Region
  <1>8. /\ r.page = freePage /\ r.start = method.start /\ r.end = ptr'
        /\ b.page = freePage /\ b.start = limit' /\ b.end = freeEnd
    OBVIOUS
  <1> HIDE DEF r, b
  <1>9. StoreTypeOK'
    BY <1>1, <1>2, <1>7 DEF StoreTypeOK
  <1>10. PlacedInv'
    <2>1. ASSUME NEW x \in tree' \cup blocks'
          PROVE  /\ x.start < x.end
                 /\ \E i \in 1..Len(pages) : /\ pages[i].page = x.page
                                            /\ x.end <= pages[i].factor * PageSize
      <3>1. CASE x \in tree \cup blocks
        BY <1>2, <3>1 DEF PlacedInv
      <3>2. CASE x \in {r, b}
        <4>1. x.page = freePage /\ x.start < x.end /\ x.end <= freeEnd /\ x.end \in Nat
          BY <1>2, <1>3, <1>4, <1>5, <1>8, <3>2
        <4>2. /\ Len(pages) \in 1..Len(pages)
              /\ freePage = pages[Len(pages)].page
              /\ freeEnd <= pages[Len(pages)].factor * PageSize
          BY <1>2 DEF PagesInv, LastPage, CacheTypeOK
        <4>3. pages[Len(pages)].factor * PageSize \in Nat
          BY <1>2, LastExtent DEF PagesInv, LastPage
        <4>4. x.end <= pages[Len(pages)].factor * PageSize
          BY <1>3, <4>1, <4>2, <4>3
        <4> QED
          BY <4>1, <4>2, <4>4
      <3> QED
        BY <1>1, <3>1, <3>2
    <2>2. ASSUME NEW x \in tree', x.page = freePage PROVE x.end <= ptr'
      <3>1. CASE x \in tree
        <4>1. x.end <= freeStart /\ x.end \in Nat
          BY <1>2, <2>2, <3>1 DEF PlacedInv, StoreTypeOK, Region
        <4> QED
          BY <1>2, <1>3, <1>5, <4>1
      <3>2. CASE x = r
        BY <1>5, <1>8, <3>2
      <3> QED
        BY <1>1, <3>1, <3>2
    <2>3. ASSUME NEW x \in blocks', x.page = freePage PROVE limit' <= x.start
      <3>1. CASE x \in blocks
        <4>1. freeEnd <= x.start /\ x.start \in Nat
          BY <1>2, <2>3, <3>1 DEF PlacedInv, StoreTypeOK
        <4> QED
          BY <1>2, <1>3, <1>5, <4>1
      <3>2. CASE x = b
        BY <1>5, <1>8, <3>2
      <3> QED
        BY <1>1, <3>1, <3>2
    <2> QED
      BY <1>1, <2>1, <2>2, <2>3 DEF PlacedInv
  <1>11. \A x \in tree : ~Overlap(x, r) /\ ~Overlap(r, x) /\ ~Overlap(x, b)
    <2>1. SUFFICES ASSUME NEW x \in tree, x.page = freePage
                   PROVE  x.end <= r.start /\ x.end <= b.start /\ x.end \in Nat
      BY <1>3, <1>5, <1>7, <1>8 DEF Overlap, StoreTypeOK, Region
    <2>2. x.end <= freeStart /\ x.end \in Nat
      BY <1>2, <2>1 DEF PlacedInv, StoreTypeOK, Region
    <2> QED
      BY <1>2, <1>3, <1>5, <1>8, <2>2
  <1>12. \A x \in blocks : ~Overlap(r, x) /\ ~Overlap(x, b) /\ ~Overlap(b, x)
    <2>1. SUFFICES ASSUME NEW x \in blocks, x.page = freePage
                   PROVE  r.end <= x.start /\ b.end <= x.start /\ x.start \in Nat
      BY <1>3, <1>5, <1>7, <1>8 DEF Overlap, StoreTypeOK
    <2>2. freeEnd <= x.start /\ x.start \in Nat
      BY <1>2, <2>1 DEF PlacedInv, StoreTypeOK
    <2> QED
      BY <1>2, <1>3, <1>5, <1>8, <2>2
  <1>13. ~Overlap(r, b)
    BY <1>3, <1>5, <1>8 DEF Overlap
  <1>14. CodeDisjoint'
    <2>1. \A x \in tree' : \E i \in 1..Len(pages') :
            /\ pages'[i].page = x.page
            /\ x.start < x.end
            /\ x.end <= pages'[i].factor * PageSize
      BY <1>10 DEF PlacedInv
    <2>2. \A x, y \in tree' : x # y => ~Overlap(x, y)
      BY <1>1, <1>2, <1>11 DEF CodeDisjoint
    <2> QED
      BY <2>1, <2>2 DEF CodeDisjoint, Overlap
  <1>15. DataDisjoint'
    <2>1. \A x \in tree', y \in blocks' : ~Overlap(x, y)
      BY <1>1, <1>2, <1>11, <1>12, <1>13 DEF DataDisjoint
    <2>2. \A x, y \in blocks' : x # y => ~Overlap(x, y)
      BY <1>1, <1>2, <1>12 DEF DataDisjoint
    <2> QED
      BY <2>1, <2>2 DEF DataDisjoint, Overlap
  <1>16. CacheTypeOK' /\ PagesInv'
    <2>1. CacheTypeOK'
      BY <1>1, <1>2, <1>5 DEF CacheTypeOK
    <2>2. LastPage.factor * PageSize \in Nat /\ LastPage' = LastPage
      BY <1>1, <1>2, LastExtent DEF PagesInv, LastPage
    <2>3. /\ Len(pages) > 0 /\ freePage = LastPage.page
          /\ freeEnd <= LastPage.factor * PageSize
      BY <1>2 DEF PagesInv
    <2>4. ptr' <= limit' /\ limit' <= LastPage.factor * PageSize
      BY <1>2, <1>3, <1>5, <2>2, <2>3
    <2>5. PagesInv'
      BY <1>1, <1>2, <2>2, <2>3, <2>4 DEF PagesInv
    <2> QED
      BY <2>1, <2>5
  <1>17. PosnTypeOK'
    BY <1>1, <1>5 DEF PosnTypeOK, NoMethod
  <1>18. LoopTypeOK' /\ PosnInv'
    <2>1. <<>> \in Seq(Request)
      OBVIOUS
    <2>2. /\ pc' = "idle" /\ func' = NoPage /\ prog' = <<>> /\ todo' = <<>>
          /\ page_factor' = 0
      BY <1>1 DEF Locals
    <2> QED
      BY <1>1, <1>2, <2>1, <2>2 DEF LoopTypeOK, PosnInv
  <1> QED
    BY <1>9, <1>10, <1>14, <1>15, <1>16, <1>17, <1>18 DEF LayoutInv, TypeOK

\* A block cut off the top of the free region s .. e-1 of the newest page is
\* apart from everything published before.
LEMMA CutBlockKeeps ==
    ASSUME CacheTypeOK', PagesInv', StoreTypeOK, CodeDisjoint, DataDisjoint,
           UNCHANGED tree, freePage' \in PageId,
           NEW s \in Nat, NEW e \in Nat, freeStart' = s,
           \A x \in tree \cup blocks :
              /\ x.start < x.end
              /\ \E i \in 1..Len(pages') : /\ pages'[i].page = x.page
                                         /\ x.end <= pages'[i].factor * PageSize,
           \A x \in tree : x.page = freePage' => x.end <= s,
           \A x \in blocks : x.page = freePage' => e <= x.start,
           e <= LastPage'.factor * PageSize,
           NEW size \in Nat \ {0}, NEW at \in Nat, s <= at, at + size <= e, freeEnd' = at,
           blocks' = blocks \cup {[page |-> freePage', start |-> at, end |-> at + size]}
    PROVE  StoreTypeOK' /\ PlacedInv' /\ CodeDisjoint' /\ DataDisjoint'
  <1> DEFINE b == [page |-> freePage', start |-> at, end |-> at + size]
  <1>1. b \in [page : PageId, start : Nat, end : Nat]
    OBVIOUS
  <1>2. b.page = freePage' /\ b.start = at /\ b.end = at + size /\ b.start < b.end
    OBVIOUS
  <1>3. blocks' = blocks \cup {b}
    OBVIOUS
  <1> HIDE DEF b
  <1>4. StoreTypeOK'
    BY <1>1, <1>3 DEF StoreTypeOK
  <1>5. freePage' # NoPage
    BY PageAssumption
  <1>6. PlacedInv'
    <2>1. \E i \in 1..Len(pages') : /\ pages'[i].page = b.page
                                 /\ b.end <= pages'[i].factor * PageSize
      <3>1. Len(pages') > 0 /\ freePage' = LastPage'.page
        BY <1>5 DEF PagesInv
      <3>2. Len(pages') \in 1..Len(pages') /\ LastPage' = pages'[Len(pages')]
        BY <3>1 DEF CacheTypeOK, LastPage
      <3>3. (LastPage.factor * PageSize)' \in Nat
        <4>1. pages'[Len(pages')] \in [page : PageId, factor : 1..MaxPageFactor]
          BY <3>1, DropLast DEF CacheTypeOK
        <4> QED
          BY <3>2, <4>1, PageAssumption
      <3>4. b.end <= LastPage'.factor * PageSize
        BY <1>2, <3>3
      <3> QED
        BY <1>2, <3>1, <3>2, <3>4
    <2>2. ASSUME NEW x \in tree' \cup blocks'
          PROVE  /\ x.start < x.end
                 /\ \E i \in 1..Len(pages') : /\ pages'[i].page = x.page
                                            /\ x.end <= pages'[i].factor * PageSize
      BY <1>2, <1>3, <2>1, <2>2
    <2>3. ASSUME NEW x \in blocks', x.page = freePage' PROVE at <= x.start
      <3>1. CASE x \in blocks
        <4>1. e <= x.start /\ x.start \in Nat
          BY <2>3, <3>1 DEF StoreTypeOK
        <4> QED
          BY <4>1
      <3>2. CASE x = b
        BY <1>2, <3>2
      <3> QED
        BY <1>3, <3>1, <3>2
    <2> QED
      BY <2>2, <2>3 DEF PlacedInv
  <1>7. ASSUME NEW x \in tree PROVE ~Overlap(x, b)
    <2>1. x.end \in Nat /\ x.start \in Nat
      BY DEF StoreTypeOK, Region
    <2>2. x.page = freePage' => x.end <= b.start
      BY <1>2, <2>1
    <2> QED
      BY <1>2, <2>1, <2>2 DEF Overlap
  <1>8. ASSUME NEW x \in blocks PROVE ~Overlap(x, b) /\ ~Overlap(b, x)
    <2>1. x.end \in Nat /\ x.start \in Nat
      BY DEF StoreTypeOK
    <2>2. x.page = freePage' => b.end <= x.start
      BY <1>2, <2>1
    <2> QED
      BY <1>2, <2>1, <2>2 DEF Overlap
  <1>9. CodeDisjoint'
    BY <1>6 DEF CodeDisjoint, PlacedInv, Overlap
  <1>10. DataDisjoint'
    <2>1. \A x \in tree', y \in blocks' : ~Overlap(x, y)
      BY <1>3, <1>7 DEF DataDisjoint
    <2>2. \A x, y \in blocks' : x # y => ~Overlap(x, y)
      BY <1>3, <1>8 DEF DataDisjoint
    <2> QED
      BY <2>1, <2>2 DEF DataDisjoint, Overlap
  <1> QED
    BY <1>4, <1>6, <1>9, <1>10

\* A block taken from the current page.
LEMMA AllocHereKeeps ==
    ASSUME LayoutInv, NEW size \in Nat \ {0}, NEW align \in {1, BestAlign},
           AllocHere(size, align), UNCHANGED tree
    PROVE  /\ CacheTypeOK' /\ StoreTypeOK' /\ PagesInv' /\ PlacedInv'
           /\ CodeDisjoint' /\ DataDisjoint'
  <1>1. /\ CacheTypeOK /\ StoreTypeOK /\ PagesInv /\ PlacedInv
        /\ CodeDisjoint /\ DataDisjoint
    BY DEF LayoutInv, TypeOK
  <1>2. /\ size <= freeEnd - freeStart
        /\ TakeBlock(freePage, freeStart, freeEnd, size, align)
        /\ UNCHANGED <<pages, maxNumPages, pagesLeft, freePage, freeStart>>
    BY DEF AllocHere
  <1>3. freeStart \in Nat /\ freeEnd \in Nat /\ freePage \in PageId /\ Len(pages) > 0
    BY <1>1, <1>2 DEF CacheTypeOK, PagesInv
  <1>4. CASE freeEnd' = freeEnd /\ UNCHANGED blocks
    BY <1>1, <1>2, <1>4 DEF CacheTypeOK, StoreTypeOK, PagesInv, PlacedInv, LastPage,
                            CodeDisjoint, DataDisjoint, Overlap
  <1>5. ASSUME NEW at \in Nat, freeStart <= at, at + size <= freeEnd, freeEnd' = at,
               blocks' = blocks \cup {[page |-> freePage, start |-> at, end |-> at + size]}
        PROVE  /\ CacheTypeOK' /\ StoreTypeOK' /\ PagesInv' /\ PlacedInv'
               /\ CodeDisjoint' /\ DataDisjoint'
    <2>1. CacheTypeOK'
      BY <1>1, <1>2, <1>5 DEF CacheTypeOK
    <2>2. LastPage' = LastPage /\ LastPage.factor * PageSize \in Nat
      BY <1>1, <1>2, <1>3, LastExtent DEF LastPage
    <2>3. freeEnd <= LastPage.factor * PageSize /\ at <= LastPage.factor * PageSize
      BY <1>1, <1>3, <1>5, <2>2, PageAssumption DEF PagesInv
    <2>4. PagesInv'
      BY <1>1, <1>2, <1>3, <1>5, <2>2, <2>3, PageAssumption DEF PagesInv
    <2>5. StoreTypeOK' /\ PlacedInv' /\ CodeDisjoint' /\ DataDisjoint'
      BY <1>1, <1>2, <1>3, <1>5, <2>1, <2>2, <2>3, <2>4, CutBlockKeeps DEF PlacedInv
    <2> QED
      BY <2>1, <2>4, <2>5
  <1>6. BlockCut(freePage, freeStart, freeEnd, size)
    BY <1>2, <1>3, TakeBlockInside, Zenon
  <1> QED
    BY <1>4, <1>5, <1>6 DEF BlockCut

\* A block taken from a new page of the normal size.
LEMMA AllocInNewPageKeeps ==
    ASSUME LayoutInv, NEW size \in Nat \ {0}, NEW align \in {1, BestAlign},
           AllocInNewPage(size, align), UNCHANGED tree
    PROVE  /\ CacheTypeOK' /\ StoreTypeOK' /\ PagesInv' /\ PlacedInv'
           /\ CodeDisjoint' /\ DataDisjoint'
  <1>1. /\ CacheTypeOK /\ StoreTypeOK /\ PagesInv /\ PlacedInv
        /\ CodeDisjoint /\ DataDisjoint
    BY DEF LayoutInv, TypeOK
  <1>2. CASE FailPage(0) /\ UNCHANGED blocks
    <2>1. CacheTypeOK' /\ PagesInv' /\ PlacedInv'
      BY <1>1, <1>2, FailPageKeeps
    <2> QED
      BY <2>1, <1>2, SameStoreDisjoint
  <1>3. ASSUME NEW p \in PageId, NewPage(0, p),
               IF size > PageSize
               THEN freeEnd' = PageSize /\ UNCHANGED blocks
               ELSE TakeBlock(p, 0, PageSize, size, align)
        PROVE  /\ CacheTypeOK' /\ StoreTypeOK' /\ PagesInv' /\ PlacedInv'
               /\ CodeDisjoint' /\ DataDisjoint'
    <2>1. /\ pages' \in Seq([page : PageId, factor : 1..MaxPageFactor])
          /\ maxNumPages' \in Nat /\ pagesLeft' \in Int
          /\ Len(pages') = Len(pages) + 1
          /\ pages'[Len(pages')] = [page |-> p, factor |-> FactorOf(0)]
          /\ \A i \in 1..Len(pages) : pages'[i] = pages[i]
          /\ \A i, j \in 1..Len(pages') : pages'[i].page = pages'[j].page => i = j
          /\ \A x \in tree \cup blocks : x.page # p
      <3>1. 0 \in Int
        OBVIOUS
      <3> QED
        BY <1>1, <1>3, <3>1, NewPageKeeps, Zenon
    <2>2. freePage' = p /\ freeStart' = 0 /\ FactorOf(0) = 1 /\ p # NoPage
      BY <1>3, PageAssumption DEF NewPage, FactorOf
    <2>3. PageSize \in Nat /\ Len(pages) \in Nat
      BY <1>1, PageAssumption DEF CacheTypeOK
    <2>4. LastPage' = [page |-> p, factor |-> 1] /\ LastPage'.factor * PageSize = PageSize
      BY <2>1, <2>2, <2>3 DEF LastPage
    <2>5. ASSUME freeEnd' \in Nat, freeEnd' <= PageSize
          PROVE  CacheTypeOK' /\ PagesInv'
      BY <2>1, <2>2, <2>3, <2>4, <2>5 DEF CacheTypeOK, PagesInv
    <2>6. \A x \in tree \cup blocks :
             /\ x.start < x.end
             /\ \E i \in 1..Len(pages') : /\ pages'[i].page = x.page
                                        /\ x.end <= pages'[i].factor * PageSize
      <3>1. \A i \in 1..Len(pages) : i \in 1..Len(pages')
        BY <2>1, <2>3
      <3> QED
        BY <1>1, <2>1, <3>1 DEF PlacedInv
    <2>7. CASE freeEnd' = PageSize /\ UNCHANGED blocks
      <3>1. CacheTypeOK' /\ PagesInv'
        BY <2>3, <2>5, <2>7
      <3>2. PlacedInv'
        BY <2>1, <2>2, <2>6, <2>7 DEF PlacedInv
      <3> QED
        BY <2>7, <3>1, <3>2, SameStoreDisjoint
    <2>8. ASSUME NEW at \in Nat, at + size <= PageSize, freeEnd' = at,
                 blocks' = blocks \cup {[page |-> p, start |-> at, end |-> at + size]}
          PROVE  /\ CacheTypeOK' /\ StoreTypeOK' /\ PagesInv' /\ PlacedInv'
                 /\ CodeDisjoint' /\ DataDisjoint'
      <3>1. CacheTypeOK' /\ PagesInv'
        BY <2>3, <2>5, <2>8
      <3>2. /\ \A x \in tree : x.page = freePage' => x.end <= 0
            /\ \A x \in blocks : x.page = freePage' => PageSize <= x.start
        BY <2>1, <2>2
      <3>3. PageSize <= LastPage'.factor * PageSize /\ 0 <= at
        BY <2>3, <2>4
      <3>4. StoreTypeOK' /\ PlacedInv' /\ CodeDisjoint' /\ DataDisjoint'
        BY <1>1, <2>2, <2>3, <2>6, <2>8, <3>1, <3>2, <3>3, CutBlockKeeps
      <3> QED
        BY <3>1, <3>4
    <2>9. CASE size > PageSize
      BY <1>3, <2>7, <2>9
    <2>10. CASE ~(size > PageSize)
      <3>1. TakeBlock(p, 0, PageSize, size, align) /\ size <= PageSize - 0
        BY <1>3, <2>3, <2>10
      <3>2. 0 \in Nat /\ PageSize \in Nat
        BY PageAssumption
      <3>3. BlockCut(p, 0, PageSize, size)
        BY <3>1, <3>2, TakeBlockInside, Zenon
      <3> QED
        BY <2>7, <2>8, <3>3 DEF BlockCut
    <2> QED
      BY <2>9, <2>10
  <1> QED
    BY <1>2, <1>3 DEF AllocInNewPage

LEMMA AllocNoMethodKeeps ==
    ASSUME LayoutInv, NEW size \in BlockSize, NEW align \in {1, BestAlign},
           alloc_no_method(size, align)
    PROVE  LayoutInv'
  <1>1. /\ pc = "idle" /\ UNCHANGED <<tree, ptr, limit, method, debugVars, loopVars>>
        /\ AllocHere(size, align) \/ AllocInNewPage(size, align)
    BY DEF alloc_no_method
  <1>2. size \in Nat \ {0}
    BY SizeAssumption
  <1>3. /\ CacheTypeOK' /\ StoreTypeOK' /\ PagesInv' /\ PlacedInv'
        /\ CodeDisjoint' /\ DataDisjoint'
    BY <1>1, <1>2, AllocHereKeeps, AllocInNewPageKeeps
  <1>4. PosnTypeOK' /\ LoopTypeOK' /\ PosnInv'
    BY <1>1 DEF LayoutInv, TypeOK, PosnTypeOK, LoopTypeOK, PosnInv, debugVars, loopVars
  <1> QED
    BY <1>3, <1>4 DEF LayoutInv, TypeOK

-----------------------------------------------------------------------------
(***************************************************************************)
(* The theorems.                                                           *)
(***************************************************************************)
\* The cache that _jit_cache_create makes is laid out properly.
LEMMA InitLayout == Init => LayoutInv
  <1> SUFFICES ASSUME Init PROVE LayoutInv
    OBVIOUS
  <1>1. PICK p \in PageId : pages = <<[page |-> p, factor |-> 1]>> /\ freePage = p
    BY DEF Init
  <1>2. /\ Len(pages) = 1 /\ pages[1] = [page |-> p, factor |-> 1]
        /\ pages \in Seq([page : PageId, factor : 1..MaxPageFactor])
    BY <1>1, PageAssumption
  <1>3. maxNumPages \in Nat /\ pagesLeft \in Int
    <2>1. Limit \div PageSize \in Int
      BY PageAssumption
    <2>2. PageLimit \in Int
      BY <2>1 DEF PageLimit
    <2> QED
      BY <2>2, PageAssumption DEF Init
  <1>4. CacheTypeOK
    BY <1>1, <1>2, <1>3, PageAssumption DEF Init, CacheTypeOK
  <1>5. StoreTypeOK /\ PlacedInv /\ CodeDisjoint /\ DataDisjoint
    BY DEF Init, StoreTypeOK, PlacedInv, CodeDisjoint, DataDisjoint
  <1>6. PosnTypeOK /\ PosnInv
    BY DEF Init, PosnTypeOK, PosnInv, NoMethod
  <1>7. LoopTypeOK
    BY DEF Init, LoopTypeOK
  <1>8. PagesInv
    BY <1>1, <1>2, PageAssumption DEF Init, PagesInv, LastPage
  <1> QED
    BY <1>4, <1>5, <1>6, <1>7, <1>8 DEF LayoutInv, TypeOK

LEMMA NextLayout == LayoutInv /\ [Next]_vars => LayoutInv'
  <1> SUFFICES ASSUME LayoutInv, [Next]_vars PROVE LayoutInv'
    OBVIOUS
  <1>1. ASSUME NEW f \in Func, NEW g \in Program, Begin(f, g) PROVE LayoutInv'
    BY <1>1, BeginKeeps
  <1>2. CASE Second
    BY <1>2, SecondKeeps
  <1>3. CASE Generate
    BY <1>3, GenerateKeeps
  <1>4. CASE EndRestart
    BY <1>4, EndRestartKeeps
  <1>5. CASE Restart
    BY <1>5, RestartKeeps
  <1>6. CASE EndOK
    BY <1>6, EndOKKeeps
  <1>7. ASSUME NEW size \in BlockSize, NEW align \in {1, BestAlign},
               alloc_no_method(size, align)
        PROVE  LayoutInv'
    BY <1>7, AllocNoMethodKeeps
  <1>8. CASE UNCHANGED vars
    BY <1>8 DEF LayoutInv, TypeOK, CacheTypeOK, StoreTypeOK, PosnTypeOK, LoopTypeOK, PagesInv,
                PlacedInv, CodeDisjoint, DataDisjoint, PosnInv, Overlap, LastPage, vars,
                cacheVars, debugVars, loopVars
  <1> QED
    BY <1>1, <1>2, <1>3, <1>4, <1>5, <1>6, <1>7, <1>8 DEF Next

\* The documented layout of the cache pages holds in every state, for every
\* page size, limit and sequence of translations and failures of the system's
\* allocator.
THEOREM LayoutHolds == Spec => []LayoutInv
  BY InitLayout, NextLayout, PTL DEF Spec

\* Code of _jit_cache_end_method is never overwritten by later code.
THEOREM CodeIsDisjoint == Spec => []CodeDisjoint
  BY LayoutHolds, PTL DEF LayoutInv

\* Blocks of _jit_cache_alloc and _jit_cache_alloc_no_method never overlap.
THEOREM DataIsDisjoint == Spec => []DataDisjoint
  BY LayoutHolds, PTL DEF LayoutInv

\* A translation in progress writes only where nothing was handed out.
THEOREM WritesOnlyFreeSpace == Spec => []WritesFreeSpace
  <1>1. LayoutInv => WritesFreeSpace
    <2> SUFFICES ASSUME LayoutInv, pc = "generate", NEW x \in tree \cup blocks
                 PROVE  ~Overlap(x, [page |-> freePage, start |-> method.start, end |-> limit])
      BY DEF WritesFreeSpace
    <2>1. /\ freeStart <= method.start /\ limit < freeEnd
          /\ freeStart \in Nat /\ freeEnd \in Nat /\ limit \in Nat /\ method.start \in Nat
      BY DEF LayoutInv, TypeOK, CacheTypeOK, PosnTypeOK, PosnInv
    <2>2. x.start \in Nat /\ x.end \in Nat
      BY DEF LayoutInv, TypeOK, StoreTypeOK, Region
    <2>3. x.page = freePage => x.end <= freeStart \/ freeEnd <= x.start
      BY DEF LayoutInv, PlacedInv
    <2> QED
      BY <2>1, <2>2, <2>3 DEF Overlap
  <1> QED
    BY <1>1, LayoutHolds, PTL

\* Nothing that was published or handed out is taken back, and the pages it is
\* in are never freed, not even by a translation that overflows.
THEOREM PublishedStays == Spec => FixedInPlace
  <1>1. LayoutInv /\ LayoutInv' /\ [Next]_vars
        => [ /\ tree \subseteq tree'
             /\ blocks \subseteq blocks'
             /\ \A x \in tree \cup blocks : x.page \in Allocated' ]_vars
    <2> SUFFICES ASSUME LayoutInv', Next
                 PROVE  /\ tree \subseteq tree'
                        /\ blocks \subseteq blocks'
                        /\ \A x \in tree \cup blocks : x.page \in Allocated'
      OBVIOUS
    <2>1. tree \subseteq tree' /\ blocks \subseteq blocks'
      <3>1. ASSUME NEW f \in Func, NEW g \in Program, Begin(f, g)
            PROVE  tree \subseteq tree' /\ blocks \subseteq blocks'
        BY <3>1 DEF Begin
      <3>2. CASE Second
        BY <3>2 DEF Second
      <3>3. CASE Generate
        BY <3>3 DEF Generate
      <3>4. CASE EndRestart
        BY <3>4 DEF EndRestart
      <3>5. CASE Restart
        BY <3>5 DEF Restart
      <3>6. CASE EndOK
        BY <3>6 DEF EndOK
      <3>7. ASSUME NEW size \in BlockSize, NEW align \in {1, BestAlign},
                   alloc_no_method(size, align)
            PROVE  tree \subseteq tree' /\ blocks \subseteq blocks'
        BY <3>7 DEF alloc_no_method, AllocHere, AllocInNewPage, TakeBlock
      <3> QED
        BY <3>1, <3>2, <3>3, <3>4, <3>5, <3>6, <3>7 DEF Next
    <2>2. \A x \in tree' \cup blocks' : x.page \in Allocated'
      BY DEF LayoutInv, PlacedInv, Allocated
    <2> QED
      BY <2>1, <2>2
  <1> QED
    BY <1>1, LayoutHolds, PTL DEF Spec, FixedInPlace

-----------------------------------------------------------------------------
(***************************************************************************)
(* The books on the page limit.                                            *)
(***************************************************************************)
\* A non-empty set of numbers has a least element.
LEMMA LeastNatural ==
    ASSUME NEW T, T \subseteq Nat, T # {}
    PROVE  \E x \in T : \A y \in T : x <= y
  <1> DEFINE R == {ss \in Nat \X Nat : ss[1] < ss[2]}
  <1>1. IsWellFoundedOn(R, Nat)
    BY NatLessThanWellFounded, Zenon DEF OpToRel
  <1> HIDE DEF R
  <1>2. PICK x \in T : \A y \in T : ~ (<<y, x>> \in R)
    BY <1>1, WFMin
  <1>3. \A y \in T : ~(y < x)
    BY <1>2 DEF R
  <1> QED
    BY <1>3

\* total counts the pages of the first blocks of list, for every number of them.
Counts(total, list) ==
    /\ total \in [0..Len(list) -> Nat]
    /\ total[0] = 0
    /\ \A i \in 1..Len(list) : total[i] = total[i - 1] + list[i].factor

\* There is a way to count them that agrees with what was allocated.
BudgetInv ==
    /\ Len(pages) <= maxNumPages
    /\ IF PageLimit = -1 THEN pagesLeft = -1
       ELSE /\ pagesLeft >= 0
            /\ \E total : Counts(total, pages) /\ total[Len(pages)] + pagesLeft = PageLimit

\* What PagesIn counts is what any count of the pages finds.
LEMMA CountIsUnique ==
    ASSUME CacheTypeOK, NEW total, Counts(total, pages)
    PROVE  PagesIn[Len(pages)] = total[Len(pages)]
  <1> DEFINE n == Len(pages)
             Sum(f) == [i \in 0..n |-> IF i = 0 THEN 0 ELSE f[i - 1] + pages[i].factor]
  <1>1. n \in Nat
    BY DEF CacheTypeOK
  <1>2. total = Sum(total)
    BY <1>1 DEF Counts
  <1>3. PagesIn = CHOOSE f : f = Sum(f)
    BY DEF PagesIn
  <1>4. PagesIn = Sum(PagesIn)
    BY <1>2, <1>3
  <1> DEFINE Wrong == {i \in 0..n : PagesIn[i] # total[i]}
  <1>5. ASSUME Wrong # {} PROVE FALSE
    <2>1. PICK i \in Wrong : \A j \in Wrong : i <= j
      <3>1. Wrong \subseteq Nat
        BY <1>1
      <3> QED
        BY <1>5, <3>1, LeastNatural
    <2>2. i \in 0..n /\ PagesIn[i] # total[i]
      BY <2>1
    <2>3. CASE i = 0
      <3>1. PagesIn[0] = Sum(PagesIn)[0] /\ 0 \in 0..n
        BY <1>1, <1>4
      <3> QED
        BY <2>2, <2>3, <3>1 DEF Counts
    <2>4. CASE i # 0
      <3>1. i - 1 \in 0..n /\ i \in 1..n
        BY <1>1, <2>2, <2>4
      <3>2. PagesIn[i - 1] = total[i - 1]
        BY <1>1, <2>1, <2>2, <3>1
      <3>3. PagesIn[i] = PagesIn[i - 1] + pages[i].factor
        <4>1. PagesIn[i] = Sum(PagesIn)[i]
          BY <1>4
        <4> QED
          BY <4>1, <2>4, <3>1
      <3> QED
        BY <2>2, <3>1, <3>2, <3>3 DEF Counts
    <2> QED
      BY <2>3, <2>4
  <1> QED
    BY <1>1, <1>5

\* AllocCachePage takes what it allocates from what is left, and the list has
\* room for the block.
LEMMA NewPageBudget ==
    ASSUME LayoutInv, BudgetInv, NEW factor \in Int, NEW p \in PageId, NewPage(factor, p)
    PROVE  BudgetInv'
  <1> DEFINE f == FactorOf(factor)
             n == Len(pages)
  <1>1. /\ pages \in Seq([page : PageId, factor : 1..MaxPageFactor])
        /\ n \in Nat /\ maxNumPages \in Nat /\ pagesLeft \in Int
    BY DEF LayoutInv, TypeOK, CacheTypeOK
  <1>2. /\ Len(pages') = n + 1
        /\ pages'[n + 1] = [page |-> p, factor |-> f]
        /\ \A i \in 1..n : pages'[i] = pages[i]
        /\ f \in 1..MaxPageFactor
    BY <1>1, NewPageKeeps DEF LayoutInv, TypeOK
  <1>3. pagesLeft >= 0 => pagesLeft >= f
    BY <1>1, <1>2, PageAssumption DEF NewPage, PageRefused
  <1>4. Len(pages') <= maxNumPages'
    <2>1. maxNumPages' = IF n = maxNumPages THEN GrownList(f) ELSE maxNumPages
      BY DEF NewPage
    <2>2. GrownList(f) >= n + 1 /\ GrownList(f) \in Int
      BY <1>1, <1>2, <1>3, PageAssumption DEF GrownList
    <2> QED
      BY <1>1, <1>2, <2>1, <2>2 DEF BudgetInv
  <1>5. pagesLeft' = IF pagesLeft > 0 THEN pagesLeft - f ELSE pagesLeft
    BY DEF NewPage
  <1>6. PageLimit' = PageLimit
    BY DEF PageLimit
  <1>7. CASE PageLimit = -1
    BY <1>4, <1>5, <1>6, <1>7 DEF BudgetInv
  <1>8. CASE PageLimit # -1
    <2>1. PICK total : Counts(total, pages) /\ total[n] + pagesLeft = PageLimit
      BY <1>8 DEF BudgetInv
    <2> DEFINE more == [i \in 0..(n + 1) |-> IF i <= n THEN total[i] ELSE total[n] + f]
    <2>2. /\ total \in [0..n -> Nat] /\ total[0] = 0
          /\ \A i \in 1..n : total[i] = total[i - 1] + pages[i].factor
      BY <2>1 DEF Counts
    <2> HIDE DEF n
    <2>3. /\ \A i \in 0..n : more[i] = total[i] /\ total[i] \in Nat
          /\ more[n + 1] = total[n] + f /\ f \in Nat
          /\ \A i \in 0..(n + 1) : i \in 0..n \/ i = n + 1
      BY <1>1, <1>2, <2>2, PageAssumption
    <2>4. \A i \in 1..(n + 1) : more[i] = more[i - 1] + pages'[i].factor
      <3>1. ASSUME NEW i \in 1..n PROVE more[i] = more[i - 1] + pages'[i].factor
        <4>1. i \in 0..n /\ i - 1 \in 0..n
          BY <1>1
        <4> QED
          BY <1>2, <2>2, <2>3, <4>1
      <3>2. more[n + 1] = more[(n + 1) - 1] + pages'[n + 1].factor
        <4>1. (n + 1) - 1 = n /\ n \in 0..n
          BY <1>1
        <4> QED
          BY <1>2, <2>3, <4>1
      <3>3. \A i \in 1..(n + 1) : i \in 1..n \/ i = n + 1
        BY <1>1
      <3> QED
        BY <3>1, <3>2, <3>3
    <2>5. more \in [0..(n + 1) -> Nat] /\ more[0] = 0
      <3>1. \A i \in 0..(n + 1) : more[i] \in Nat
        <4>1. n \in 0..n
          BY <1>1
        <4> HIDE DEF more, f
        <4>2. more[n + 1] \in Nat
          BY <2>3, <4>1
        <4> QED
          BY <2>3, <4>2
      <3> QED
        BY <1>1, <2>2, <2>3, <3>1
    <2> USE DEF n
    <2>6. Counts(more, pages')
      BY <1>2, <2>4, <2>5 DEF Counts
    <2>7. pagesLeft >= f /\ pagesLeft > 0
      BY <1>1, <1>2, <1>3, <1>8, PageAssumption DEF BudgetInv
    <2>8. more[n + 1] = total[n] + f
      BY <1>1
    <2>9. total[n] \in Nat /\ PageLimit \in Int /\ f \in Int /\ MaxPageFactor \in Int
      BY <1>1, <1>2, <2>1, <2>2, PageAssumption
    <2> HIDE DEF more
    <2>10. more[n + 1] + pagesLeft' = PageLimit /\ pagesLeft' >= 0
      BY <1>1, <1>5, <2>1, <2>7, <2>8, <2>9
    <2> QED
      BY <1>2, <1>4, <1>6, <1>8, <2>6, <2>10 DEF BudgetInv
  <1> QED
    BY <1>7, <1>8

\* end_method gives back the pages of the block it frees.
LEMMA ReleaseBudget ==
    ASSUME LayoutInv, BudgetInv, EndRestart
    PROVE  BudgetInv'
  <1> DEFINE n == Len(pages)
  <1>1. /\ pages \in Seq([page : PageId, factor : 1..MaxPageFactor])
        /\ n \in Nat /\ maxNumPages \in Nat /\ pagesLeft \in Int /\ n > 0
    BY DEF LayoutInv, TypeOK, CacheTypeOK, PosnInv, PagesInv, EndRestart
  <1>2. PageLimit' = PageLimit
    BY DEF PageLimit
  <1>3. CASE ~WholePageFree
    <2>1. UNCHANGED <<pages, maxNumPages, pagesLeft>>
      BY <1>3 DEF EndRestart, cacheVars
    <2> QED
      BY <1>2, <2>1 DEF BudgetInv
  <1>4. CASE WholePageFree
    <2>1. /\ pages' = SubSeq(pages, 1, n - 1)
          /\ pagesLeft' = IF pagesLeft >= 0 THEN pagesLeft + pages[n].factor ELSE pagesLeft
          /\ maxNumPages' = maxNumPages
      BY <1>4 DEF EndRestart, LastPage
    <2>2. /\ Len(pages') = n - 1 /\ \A i \in 1..(n - 1) : pages'[i] = pages[i]
          /\ pages[n] \in [page : PageId, factor : 1..MaxPageFactor]
      BY <1>1, <2>1, DropLast
    <2>3. CASE PageLimit = -1
      BY <1>1, <1>2, <2>1, <2>2, <2>3 DEF BudgetInv
    <2>4. CASE PageLimit # -1
      <3>1. PICK total : Counts(total, pages) /\ total[n] + pagesLeft = PageLimit
        BY <2>4 DEF BudgetInv
      <3> DEFINE less == [i \in 0..(n - 1) |-> total[i]]
      <3>2. /\ total \in [0..n -> Nat] /\ total[0] = 0
            /\ \A i \in 1..n : total[i] = total[i - 1] + pages[i].factor
        BY <3>1 DEF Counts
      <3>3. less \in [0..(n - 1) -> Nat] /\ less[0] = 0
        BY <1>1, <3>2
      <3>4. \A i \in 1..(n - 1) : less[i] = less[i - 1] + pages'[i].factor
        BY <1>1, <2>2, <3>2
      <3>5. Counts(less, pages')
        BY <2>2, <3>3, <3>4 DEF Counts
      <3>6. less[n - 1] + pages[n].factor + pagesLeft = PageLimit
        <4>1. n \in 1..n /\ n - 1 \in 0..(n - 1)
          BY <1>1
        <4> QED
          BY <3>1, <3>2, <4>1
      <3>7. /\ less[n - 1] \in Nat /\ pages[n].factor \in Nat
        BY <1>1, <2>2, <3>3, PageAssumption
      <3> HIDE DEF less
      <3>8. less[n - 1] + pagesLeft' = PageLimit /\ pagesLeft' >= 0
        BY <1>1, <2>1, <2>4, <3>6, <3>7 DEF BudgetInv
      <3> QED
        BY <1>1, <1>2, <2>1, <2>2, <2>4, <3>5, <3>8 DEF BudgetInv
    <2> QED
      BY <2>3, <2>4
  <1> QED
    BY <1>3, <1>4

LEMMA InitBudget == Init => BudgetInv
  <1> SUFFICES ASSUME Init PROVE BudgetInv
    OBVIOUS
  <1>1. PICK p \in PageId : pages = <<[page |-> p, factor |-> 1]>>
    BY DEF Init
  <1>2. Len(pages) = 1 /\ pages[1].factor = 1
    BY <1>1
  <1>3. /\ maxNumPages = IF PageLimit > 0 /\ ListSize > PageLimit THEN PageLimit ELSE ListSize
        /\ pagesLeft = IF PageLimit > 0 THEN PageLimit - 1 ELSE PageLimit
    BY DEF Init
  <1>4. PageLimit \in Int /\ (PageLimit = -1 \/ PageLimit >= 1)
    BY PageAssumption DEF PageLimit
  <1>5. Len(pages) <= maxNumPages
    BY <1>2, <1>3, <1>4, PageAssumption
  <1> DEFINE total == [i \in 0..1 |-> i]
  <1>6. Counts(total, pages) /\ total[Len(pages)] = 1
    BY <1>2 DEF Counts
  <1>7. PageLimit # -1 => pagesLeft >= 0 /\ 1 + pagesLeft = PageLimit
    BY <1>3, <1>4
  <1> HIDE DEF total
  <1>8. PageLimit # -1 => \E sum : Counts(sum, pages) /\ sum[Len(pages)] + pagesLeft = PageLimit
    BY <1>6, <1>7
  <1>9. PageLimit = -1 => pagesLeft = -1
    BY <1>3
  <1> QED
    BY <1>5, <1>7, <1>8, <1>9 DEF BudgetInv

LEMMA NextBudget == LayoutInv /\ BudgetInv /\ [Next]_vars => BudgetInv'
  <1> SUFFICES ASSUME LayoutInv, BudgetInv, [Next]_vars PROVE BudgetInv'
    OBVIOUS
  <1>1. ASSUME UNCHANGED <<pages, maxNumPages, pagesLeft>> PROVE BudgetInv'
    BY <1>1 DEF BudgetInv, PageLimit
  <1>2. ASSUME NEW factor \in Nat, AllocCachePage(factor) PROVE BudgetInv'
    BY <1>1, <1>2, NewPageBudget DEF AllocCachePage, FailPage
  <1>3. ASSUME NEW f, NEW factor \in Nat, NEW code, start_method(f, factor, code)
        PROVE  BudgetInv'
    BY <1>1, <1>2, <1>3 DEF start_method, cacheVars
  <1>4. page_factor \in Nat
    BY DEF LayoutInv, TypeOK, LoopTypeOK
  <1>5. ASSUME NEW f \in Func, NEW g \in Program, Begin(f, g) PROVE BudgetInv'
    BY <1>3, <1>5 DEF Begin
  <1>6. CASE Second
    BY <1>3, <1>4, <1>6 DEF Second
  <1>7. CASE Generate
    BY <1>1, <1>7 DEF Generate, cacheVars
  <1>8. CASE EndRestart
    BY <1>8, ReleaseBudget
  <1>9. CASE Restart
    BY <1>3, <1>4, <1>9 DEF Restart
  <1>10. CASE EndOK
    BY <1>1, <1>10 DEF EndOK
  <1>11. ASSUME NEW size \in BlockSize, NEW align \in {1, BestAlign}, alloc_no_method(size, align)
         PROVE  BudgetInv'
    <2>1. CASE AllocHere(size, align)
      BY <1>1, <2>1 DEF AllocHere
    <2>2. CASE AllocInNewPage(size, align)
      BY <1>1, <2>2, NewPageBudget DEF AllocInNewPage, FailPage
    <2> QED
      BY <1>11, <2>1, <2>2 DEF alloc_no_method
  <1>12. CASE UNCHANGED vars
    BY <1>1, <1>12 DEF vars, cacheVars
  <1> QED
    BY <1>5, <1>6, <1>7, <1>8, <1>9, <1>10, <1>11, <1>12 DEF Next

\* The pages allocated and the pages left are always the limit given to
\* _jit_cache_create, and the page list is never written past its end, for every
\* limit, page size and first size of the list: AllocCachePage grows the list
\* and end_method gives back the pages of a block it frees.
THEOREM BudgetIsKept == Spec => []PageBudget
  <1>1. LayoutInv /\ BudgetInv => PageBudget
    <2> SUFFICES ASSUME LayoutInv, BudgetInv, PageLimit # -1
                 PROVE  pagesLeft >= 0 /\ PagesIn[Len(pages)] + pagesLeft = PageLimit
      BY DEF PageBudget, BudgetInv
    <2>1. PICK total : Counts(total, pages) /\ total[Len(pages)] + pagesLeft = PageLimit
      BY DEF BudgetInv
    <2>2. PagesIn[Len(pages)] = total[Len(pages)]
      BY <2>1, CountIsUnique DEF LayoutInv, TypeOK
    <2> QED
      BY <2>1, <2>2 DEF BudgetInv
  <1>2. Spec => []BudgetInv
    BY InitLayout, NextLayout, InitBudget, NextBudget, PTL DEF Spec
  <1> QED
    BY <1>1, <1>2, LayoutHolds, PTL

=============================================================================
