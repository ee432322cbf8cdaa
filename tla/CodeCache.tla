------------------------------ MODULE CodeCache ------------------------------
(***************************************************************************)
(* The method cache of jit/jit-cache.c and its only writers: compile() in  *)
(* jit/jit-function.c, which translates a function with a restart loop,    *)
(* and the callers of _jit_cache_alloc_no_method (redirectors, indirectors *)
(* and closures).  All of them hold context->cache_lock, so the cache has  *)
(* one writer at a time and the model has one translation in progress.     *)
(*                                                                         *)
(* Addresses are offsets inside a page block; a page block is named by the *)
(* address jit_malloc_exec returned for it.  The free region, which is     *)
(* always part of the newest block, is freeStart .. freeEnd-1 of block     *)
(* freePage, and freePage = NoPage is the null freeStart of the code.      *)
(* The bytes of the emitted code are abstracted to their number.           *)
(*                                                                         *)
(* A definition X_Fault before a definition X is X with a plausible bug;   *)
(* nothing uses it but the runs that show that the properties notice it.   *)
(***************************************************************************)
EXTENDS Integers, Sequences

CONSTANTS
    PageId,        \* addresses jit_malloc_exec may return for a page block
    NoPage,        \* the null pointer
    PageSize,      \* cache->pageSize
    MaxPageFactor, \* cache->maxPageFactor
    Limit,         \* the "limit" argument of _jit_cache_create, 0 for none
    ListSize,      \* first size of the page list (16 in the code)
    MethodSize,    \* sizeof(struct jit_cache_method)
    DebugSize,     \* sizeof(struct jit_cache_debug) + debugLen
    DebugPairs,    \* pairs of offsets the debugData buffer takes
    BestAlign,     \* JIT_BEST_ALIGNMENT
    FuncAlign,     \* JIT_FUNCTION_ALIGNMENT
    Func,          \* the functions to translate
    Program,       \* the possible outputs of the code generator
    BlockSize,     \* sizes asked of _jit_cache_alloc_no_method
    MallocMayFail  \* can the system allocator return null?

(***************************************************************************)
(* What a code generator asks of the cache, one request after another.     *)
(* "code" writes n bytes or flags overflow (jit_cache_byte .. word64, and  *)
(* jit_cache_check_for_n with jit_cache_mark_full), "data" takes n bytes   *)
(* with _jit_cache_alloc (constants of the x86 back ends) and "mark" is    *)
(* _jit_cache_mark_bytecode.  The first request is the prolog, which every *)
(* function has.  Nothing calls _jit_cache_align or _jit_cache_new_region, *)
(* so a method is one region.                                              *)
(***************************************************************************)
Request == {"code", "data", "mark"} \X (Nat \ {0})

ASSUME PageAssumption ==
    /\ NoPage \notin PageId
    /\ PageSize \in Nat \ {0}
    /\ MaxPageFactor \in Nat \ {0}
    /\ Limit \in Nat
    /\ ListSize \in Nat \ {0}
    /\ MallocMayFail \in BOOLEAN

ASSUME SizeAssumption ==
    /\ MethodSize \in Nat \ {0}
    /\ DebugSize \in Nat \ {0}
    /\ DebugPairs \in Nat \ {0}
    /\ BestAlign \in Nat \ {0}
    /\ FuncAlign \in Nat \ {0}
    /\ BlockSize \subseteq Nat \ {0}

ASSUME ProgramAssumption ==
    \A prog \in Program : /\ prog \in Seq(Request)
                          /\ prog # <<>>
                          /\ prog[1][1] = "code"

VARIABLES
    pages,       \* cache->pages[0 .. numPages-1]
    maxNumPages, \* size of the page list
    pagesLeft,   \* pages that may still be allocated, -1 for no limit
    freePage, freeStart, freeEnd,
    tree,        \* the regions in the lookup tree
    blocks,      \* ghost: auxiliary data handed out and still owned by a user
    ptr, limit,  \* the jit_cache_posn of the translation
    method,      \* cache->method: [func, start] or NoMethod
    debugLen,    \* pairs in debugData
    debugList,   \* pairs in the blocks from firstDebug to lastDebug
    debugDone,   \* has the terminator (-1, -1) been flushed to that list?
    pc,          \* where compile() is
    func, prog,  \* the function it translates and its code generator
    todo,        \* the requests not yet made in this attempt
    page_factor,
    result       \* the last result of start_method, with the factor given

cacheVars == <<pages, maxNumPages, pagesLeft, freePage, freeStart, freeEnd>>
debugVars == <<debugLen, debugList, debugDone>>
loopVars  == <<pc, func, prog, todo, page_factor, result>>
vars == <<cacheVars, tree, blocks, ptr, limit, method, debugVars, loopVars>>

NoMethod == [func |-> NoPage, start |-> 0]

RoundUp_Truncates(n, a) == (n \div a) * a

RoundUp(n, a)   == ((n + a - 1) \div a) * a
RoundDown(n, a) == (n \div a) * a

LastPage == pages[Len(pages)]
Allocated == {pages[i].page : i \in 1..Len(pages)}

-----------------------------------------------------------------------------
(***************************************************************************)
(* AllocCachePage.  The request is refused when the block is too big, when *)
(* the page limit would be exceeded or when the system is out of memory;   *)
(* a refusal leaves no free region at all.                                 *)
(***************************************************************************)
FactorOf(factor) == IF factor <= 0 THEN 1 ELSE factor

PageRefused_ZeroIsNoLimit(factor) ==
    \/ factor > MaxPageFactor
    \/ pagesLeft > 0 /\ pagesLeft < factor

PageRefused(factor) ==
    \/ factor > MaxPageFactor
    \/ pagesLeft >= 0 /\ pagesLeft < factor

GrownList_OneShort(factor) ==
    LET num == IF Len(pages) = 0 THEN ListSize ELSE Len(pages) * 2
        cap == Len(pages) + pagesLeft - factor
    IN  IF pagesLeft > 0 /\ num > cap THEN cap ELSE num

GrownList(factor) ==
    LET num == IF Len(pages) = 0 THEN ListSize ELSE Len(pages) * 2
        cap == Len(pages) + pagesLeft - factor + 1
    IN  IF pagesLeft > 0 /\ num > cap THEN cap ELSE num

NoFreeRegion ==
    /\ freePage' = NoPage
    /\ freeStart' = 0
    /\ freeEnd' = 0

FailPage(factor) ==
    /\ PageRefused(FactorOf(factor)) \/ MallocMayFail \/ Allocated = PageId
    /\ NoFreeRegion
    /\ UNCHANGED <<pages, maxNumPages, pagesLeft>>

NewPage(factor, p) ==
    LET f == FactorOf(factor)
    IN  /\ ~PageRefused(f)
        /\ p \in PageId \ Allocated
        /\ maxNumPages' = IF Len(pages) = maxNumPages THEN GrownList(f) ELSE maxNumPages
        /\ pages' = Append(pages, [page |-> p, factor |-> f])
        /\ pagesLeft' = IF pagesLeft > 0 THEN pagesLeft - f ELSE pagesLeft
        /\ freePage' = p
        /\ freeStart' = 0

AllocCachePage(factor) ==
    \/ FailPage(factor)
    \/ \E p \in PageId : /\ NewPage(factor, p)
                         /\ freeEnd' = FactorOf(factor) * PageSize

(***************************************************************************)
(* _jit_cache_create: the limit in bytes becomes a number of pages, at     *)
(* least one, and the first page is allocated or there is no cache.        *)
(***************************************************************************)
PageLimit ==
    IF Limit > 0 THEN (IF Limit \div PageSize < 1 THEN 1 ELSE Limit \div PageSize)
                 ELSE -1

Init ==
    /\ \E p \in PageId : /\ pages = <<[page |-> p, factor |-> 1]>>
                         /\ freePage = p
    /\ maxNumPages = IF PageLimit > 0 /\ ListSize > PageLimit THEN PageLimit ELSE ListSize
    /\ pagesLeft = IF PageLimit > 0 THEN PageLimit - 1 ELSE PageLimit
    /\ freeStart = 0
    /\ freeEnd = PageSize
    /\ tree = {}
    /\ blocks = {}
    /\ ptr = 0 /\ limit = 0
    /\ method = NoMethod
    /\ debugLen = 0 /\ debugList = 0 /\ debugDone = FALSE
    /\ pc = "idle"
    /\ func = NoPage
    /\ prog = <<>> /\ todo = <<>>
    /\ page_factor = 0
    /\ result = [factor |-> 0, code |-> "OK"]

-----------------------------------------------------------------------------
(***************************************************************************)
(* _jit_cache_alloc takes auxiliary data from the top of the free region;  *)
(* a position that has overflowed has ptr = limit.  AllocAt gives the      *)
(* address or -1.                                                          *)
(***************************************************************************)
AllocAt_AlignsIntoCode(p, l, size) ==
    IF size > l - p THEN -1 ELSE RoundDown(l - size, BestAlign)

AllocAt(p, l, size) ==
    LET top == RoundDown(l - size, BestAlign)
    IN  IF size > l - p \/ top < p THEN -1 ELSE top

(***************************************************************************)
(* FlushCacheDebug: move the buffered pairs to a new auxiliary block.  The *)
(* pairs are lost, and the position is full, when the block does not fit.  *)
(***************************************************************************)
FlushCacheDebug(p, l, len, done) ==
    LET at == AllocAt(p, l, DebugSize)
    IN  IF at = -1
        THEN /\ ptr' = l
             /\ limit' = l
             /\ debugLen' = 0
             /\ UNCHANGED <<debugList, debugDone>>
        ELSE /\ ptr' = p
             /\ limit' = at
             /\ debugLen' = 0
             /\ debugList' = debugList + len
             /\ debugDone' = done

(***************************************************************************)
(* WriteCacheDebug of one pair, with the flush of a full buffer.           *)
(***************************************************************************)
WriteCacheDebug ==
    IF debugLen + 1 >= DebugPairs
    THEN FlushCacheDebug(ptr, limit, debugLen + 1, FALSE)
    ELSE /\ debugLen' = debugLen + 1
         /\ UNCHANGED <<ptr, limit, debugList, debugDone>>

-----------------------------------------------------------------------------
(***************************************************************************)
(* _jit_cache_start_method, once the page allocation, if any, has left the *)
(* free region s .. e-1 of page p.                                         *)
(***************************************************************************)
TooBig(p) ==
    /\ p = NoPage
    /\ UNCHANGED <<ptr, limit, method, debugVars>>

NoRoom(p, s, e) ==
    /\ p # NoPage
    /\ ptr' = e /\ limit' = e
    /\ \/ /\ RoundUp(s, FuncAlign) >= e
          /\ UNCHANGED method
       \/ /\ RoundUp(s, FuncAlign) < e
          /\ AllocAt(RoundUp(s, FuncAlign), e, MethodSize) = -1
          /\ method' = NoMethod
    /\ UNCHANGED debugVars

Started(f, p, s, e) ==
    LET start == RoundUp(s, FuncAlign)
        at == AllocAt(start, e, MethodSize)
    IN  /\ p # NoPage
        /\ start < e
        /\ at # -1
        /\ ptr' = start /\ limit' = at
        /\ method' = [func |-> f, start |-> start]
        /\ debugLen' = 0 /\ debugList' = 0 /\ debugDone' = FALSE

start_method(f, factor, code) ==
    /\ IF factor > 0 THEN AllocCachePage(factor) ELSE UNCHANGED cacheVars
    /\ CASE code = "TOO_BIG" -> TooBig(freePage')
         [] code = "RESTART" -> NoRoom(freePage', freeStart', freeEnd')
         [] code = "OK"      -> Started(f, freePage', freeStart', freeEnd')
    /\ result' = [factor |-> factor, code |-> code]

(***************************************************************************)
(* The local variables of compile() in its next step; they are gone when   *)
(* it returns.                                                             *)
(***************************************************************************)
Locals(where, f, g, t, factor) ==
    /\ pc' = where
    /\ func' = IF where = "idle" THEN NoPage ELSE f
    /\ prog' = IF where = "idle" THEN <<>> ELSE g
    /\ todo' = IF where = "idle" THEN <<>> ELSE t
    /\ page_factor' = IF where = "idle" THEN 0 ELSE factor

(***************************************************************************)
(* compile(): the first two calls of _jit_cache_start_method, before the   *)
(* restart loop.  Anything but JIT_CACHE_OK after them gives up.           *)
(***************************************************************************)
Begin(f, g) ==
    /\ pc = "idle"
    /\ \E code \in {"OK", "RESTART", "TOO_BIG"} :
         /\ start_method(f, 0, code)
         /\ Locals(CASE code = "OK"      -> "generate"
                     [] code = "RESTART" -> "second"
                     [] code = "TOO_BIG" -> "idle", f, g, g, 1)
    /\ UNCHANGED <<tree, blocks>>

Second ==
    /\ pc = "second"
    /\ \E code \in {"OK", "RESTART", "TOO_BIG"} :
         /\ start_method(func, page_factor, code)
         /\ Locals(IF code = "OK" THEN "generate" ELSE "idle",
                   func, prog, prog, page_factor + 1)
    /\ UNCHANGED <<tree, blocks>>

(***************************************************************************)
(* The code generator makes its next request.                              *)
(***************************************************************************)
EmitCode(n) ==
    /\ ptr' = IF ptr + n <= limit THEN ptr + n ELSE limit
    /\ UNCHANGED <<limit, debugVars>>

EmitData(n) ==
    LET at == AllocAt(ptr, limit, n)
    IN  /\ ptr' = IF at = -1 THEN limit ELSE ptr
        /\ limit' = IF at = -1 THEN limit ELSE at
        /\ UNCHANGED debugVars

Generate ==
    /\ pc = "generate"
    /\ todo # <<>>
    /\ LET op == Head(todo)[1]
           n == Head(todo)[2]
       IN  \/ op = "code" /\ EmitCode(n)
           \/ op = "data" /\ EmitData(n)
           \/ op = "mark" /\ WriteCacheDebug
    /\ todo' = Tail(todo)
    /\ UNCHANGED <<cacheVars, tree, blocks, method, pc, func, prog, page_factor, result>>

(***************************************************************************)
(* _jit_cache_end_method when the position has overflowed.  compile() gets *)
(* here at the end of any block (_jit_cache_is_full), so after any         *)
(* request.  A block that holds nothing but this attempt goes back to the  *)
(* system.                                                                 *)
(***************************************************************************)
WholePageFree_IgnoresData ==
    /\ freePage = LastPage.page
    /\ freeStart = 0

WholePageFree ==
    /\ freePage = LastPage.page
    /\ freeStart = 0
    /\ freeEnd = LastPage.factor * PageSize

EndRestart ==
    /\ pc = "generate"
    /\ ptr >= limit
    /\ IF WholePageFree
       THEN /\ pages' = SubSeq(pages, 1, Len(pages) - 1)
            /\ pagesLeft' = IF pagesLeft >= 0 THEN pagesLeft + LastPage.factor ELSE pagesLeft
            /\ NoFreeRegion
            /\ UNCHANGED maxNumPages
       ELSE UNCHANGED cacheVars
    /\ Locals("restart", func, prog, <<>>, page_factor)
    /\ UNCHANGED <<tree, blocks, ptr, limit, method, debugVars, result>>

(***************************************************************************)
(* The tail of the restart loop: the attempt is cleaned up and begins anew *)
(* in a block of page_factor pages.                                        *)
(***************************************************************************)
Restart_SameFactor ==
    /\ pc = "restart"
    /\ \E code \in {"OK", "RESTART", "TOO_BIG"} :
         /\ start_method(func, page_factor, code)
         /\ Locals(IF code = "OK" THEN "generate" ELSE "idle",
                   func, prog, prog, page_factor)
    /\ UNCHANGED <<tree, blocks>>

Restart ==
    /\ pc = "restart"
    /\ \E code \in {"OK", "RESTART", "TOO_BIG"} :
         /\ start_method(func, page_factor, code)
         /\ Locals(IF code = "OK" THEN "generate" ELSE "idle",
                   func, prog, prog, page_factor * 2)
    /\ UNCHANGED <<tree, blocks>>

(***************************************************************************)
(* _jit_cache_end_method when the function fits: terminate and flush the   *)
(* debug information, take the space out of the free region and add the    *)
(* region to the lookup tree.                                              *)
(***************************************************************************)
Marked == debugList > 0 \/ debugLen > 0

EndOK ==
    /\ pc = "generate"
    /\ todo = <<>>
    /\ ptr < limit
    /\ IF Marked
       THEN FlushCacheDebug(ptr, limit, debugLen + 1, TRUE)
       ELSE UNCHANGED <<ptr, limit, debugVars>>
    /\ freeStart' = ptr'
    /\ freeEnd' = limit'
    /\ tree' = tree \cup {[func |-> method.func, page |-> freePage,
                            start |-> method.start, end |-> ptr',
                            debug |-> IF ~Marked THEN "none"
                                      ELSE IF debugDone' THEN "whole" ELSE "cut"]}
    /\ blocks' = blocks \cup {[page |-> freePage, start |-> limit', end |-> freeEnd]}
    /\ method' = NoMethod
    /\ Locals("idle", func, prog, todo, page_factor)
    /\ UNCHANGED <<pages, maxNumPages, pagesLeft, freePage, result>>

(***************************************************************************)
(* _jit_cache_alloc_no_method: a redirector, an indirector or a closure,   *)
(* in the free region or, when that is too small, in a new page.           *)
(***************************************************************************)
TakeBlock(p, s, e, size, align) ==
    LET at == RoundDown(e - size, align)
    IN  IF at < s
        THEN freeEnd' = e /\ UNCHANGED blocks
        ELSE /\ freeEnd' = at
             /\ blocks' = blocks \cup {[page |-> p, start |-> at, end |-> at + size]}

AllocHere(size, align) ==
    /\ size <= freeEnd - freeStart
    /\ TakeBlock(freePage, freeStart, freeEnd, size, align)
    /\ UNCHANGED <<pages, maxNumPages, pagesLeft, freePage, freeStart>>

AllocInNewPage(size, align) ==
    /\ size > freeEnd - freeStart
    /\ \/ FailPage(0) /\ UNCHANGED blocks
       \/ \E p \in PageId :
            /\ NewPage(0, p)
            /\ IF size > PageSize
               THEN freeEnd' = PageSize /\ UNCHANGED blocks
               ELSE TakeBlock(p, 0, PageSize, size, align)

alloc_no_method(size, align) ==
    /\ pc = "idle"
    /\ AllocHere(size, align) \/ AllocInNewPage(size, align)
    /\ UNCHANGED <<tree, ptr, limit, method, debugVars, loopVars>>

-----------------------------------------------------------------------------
Next ==
    \/ \E f \in Func, g \in Program : Begin(f, g)
    \/ Second
    \/ Generate
    \/ EndRestart
    \/ Restart
    \/ EndOK
    \/ \E size \in BlockSize, align \in {1, BestAlign} : alloc_no_method(size, align)

Spec == Init /\ [][Next]_vars

-----------------------------------------------------------------------------
\* The thread that translates a function holds cache_lock and keeps running.
FairSpec == Spec /\ WF_vars(Second \/ Generate \/ EndRestart \/ Restart \/ EndOK)

-----------------------------------------------------------------------------
Region == [func : Func, page : PageId, start : Nat, end : Nat,
           debug : {"none", "whole", "cut"}]

CacheTypeOK ==
    /\ pages \in Seq([page : PageId, factor : 1..MaxPageFactor])
    /\ maxNumPages \in Nat
    /\ pagesLeft \in Int
    /\ freePage \in PageId \cup {NoPage}
    /\ freeStart \in Nat
    /\ freeEnd \in Nat

StoreTypeOK ==
    /\ tree \subseteq Region
    /\ blocks \subseteq [page : PageId, start : Nat, end : Nat]

PosnTypeOK ==
    /\ ptr \in Nat
    /\ limit \in Nat
    /\ method \in [func : Func \cup {NoPage}, start : Nat]
    /\ debugLen \in Nat
    /\ debugList \in Nat
    /\ debugDone \in BOOLEAN

LoopTypeOK ==
    /\ pc \in {"idle", "second", "generate", "restart"}
    /\ func \in Func \cup {NoPage}
    /\ prog \in Program \cup {<<>>}
    /\ todo \in Seq(Request)
    /\ page_factor \in Nat
    /\ pc # "idle" => func \in Func /\ prog \in Program
    /\ result \in [factor : Nat, code : {"OK", "RESTART", "TOO_BIG"}]

\* Type invariant: what every variable of the cache and of compile() holds.
TypeOK == CacheTypeOK /\ StoreTypeOK /\ PosnTypeOK /\ LoopTypeOK

Overlap(r, s) == r.page = s.page /\ r.start < s.end /\ s.start < r.end

\* Published code of _jit_cache_end_method lies in a page block that is still
\* allocated, and no two regions of the lookup tree share an address.
CodeDisjoint ==
    /\ \A r \in tree : \E i \in 1..Len(pages) :
         /\ pages[i].page = r.page
         /\ r.start < r.end
         /\ r.end <= pages[i].factor * PageSize
    /\ \A r, s \in tree : r # s => ~Overlap(r, s)

\* Code grows from the bottom of a page and auxiliary data from its top: the
\* blocks of _jit_cache_alloc and _jit_cache_alloc_no_method never overlap
\* each other or published code.
DataDisjoint ==
    /\ \A r \in tree, b \in blocks : ~Overlap(r, b)
    /\ \A b, c \in blocks : b # c => ~Overlap(b, c)

\* What a translation is writing, ptr .. limit of jit_cache_posn, overlaps
\* nothing that was handed out before.
WritesFreeSpace ==
    pc = "generate" =>
        LET room == [page |-> freePage, start |-> method.start, end |-> limit]
        IN  \A x \in tree \cup blocks : ~Overlap(x, room)

\* The pages of the first blocks of the list together.
PagesIn[i \in 0..Len(pages)] == IF i = 0 THEN 0 ELSE PagesIn[i - 1] + pages[i].factor

\* AllocCachePage and end_method keep the books on the page limit: what was
\* allocated and what is left always make up the limit given to
\* _jit_cache_create; and the page list that AllocCachePage grows is never
\* written past its end.
PageBudget ==
    /\ Len(pages) <= maxNumPages
    /\ PageLimit # -1 => /\ pagesLeft >= 0
                         /\ PagesIn[Len(pages)] + pagesLeft = PageLimit

(***************************************************************************)
(* The inductive invariant.  The free region belongs to the newest block;  *)
(* everything published lies in an allocated block, code below and data    *)
(* above the free region; the position of a translation stays inside it.   *)
(***************************************************************************)
PagesInv ==
    /\ \A i, j \in 1..Len(pages) : pages[i].page = pages[j].page => i = j
    /\ freePage = NoPage => freeStart = 0 /\ freeEnd = 0
    /\ freePage # NoPage => /\ Len(pages) > 0
                            /\ freePage = LastPage.page
                            /\ freeStart <= freeEnd
                            /\ freeEnd <= LastPage.factor * PageSize

PlacedInv ==
    /\ \A x \in tree \cup blocks :
         /\ x.start < x.end
         /\ \E i \in 1..Len(pages) : /\ pages[i].page = x.page
                                    /\ x.end <= pages[i].factor * PageSize
    /\ \A r \in tree : r.page = freePage => r.end <= freeStart
    /\ \A b \in blocks : b.page = freePage => freeEnd <= b.start

PosnInv ==
    pc = "generate" =>
        /\ freePage # NoPage
        /\ method.func \in Func
        /\ freeStart <= method.start
        /\ method.start <= ptr
        /\ ptr <= limit
        /\ limit < freeEnd
        /\ \/ method.start < ptr
           \/ ptr = limit
           \/ todo # <<>> /\ Head(todo)[1] = "code"

\* The inductive strengthening of CodeDisjoint, DataDisjoint and
\* WritesFreeSpace: the layout of pages that jit-cache.c documents under
\* "Cache data structure".
LayoutInv ==
    TypeOK /\ PagesInv /\ PlacedInv /\ CodeDisjoint /\ DataDisjoint /\ PosnInv

\* "The code is fixed in place once it has been written": a step neither frees
\* the page block of published code and data nor takes them back, although
\* end_method frees the block of an attempt that overflowed.
FixedInPlace ==
    [][ /\ tree \subseteq tree'
        /\ blocks \subseteq blocks'
        /\ \A x \in tree \cup blocks : x.page \in Allocated' ]_vars

\* "The restart loop will eventually terminate".
RestartLoopTerminates == pc # "idle" ~> pc = "idle"

\* "JIT_CACHE_TOO_BIG: the cache does not have any space left for allocation.
\* In this case a restart won't help" (jit-cache.c): a call that asked for the
\* current page and got TOO_BIG could not have been served by a new page.
TooBigMeansNoSpace ==
    [][ (pc = "idle" /\ result' # result /\ result'.code = "TOO_BIG" /\ result'.factor = 0)
        => pagesLeft = 0 ]_vars

\* "The pair (-1, -1) terminates the debug information for a method", and
\* RESTART is what end_method returns when the space overflowed: a method
\* published with JIT_CACHE_OK has all the offsets it marked.
DebugWhole == \A r \in tree : r.debug # "cut"

=============================================================================
