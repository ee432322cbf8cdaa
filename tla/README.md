# Verification models of libjit

TLA+ models of the core of libjit, the configurations that check them with TLC,
and theorems about them that TLAPS checks.

- [The system](#the-system): its parts, what each keeps, how they interact
- [What is hard](#what-is-hard)
- [Modules](#modules), and how their state and actions correspond to the code
- [Runs](#runs), their bounds and what they show
- [Fairness](#fairness)
- [What is proved](#what-is-proved)
- [Where the code and its documents disagree](#where-the-code-and-its-documents-disagree)
- [What is not modelled](#what-is-not-modelled)
- [Plan](#plan)

File names without a directory are those of `jit/` in the repository.

## The system

libjit turns functions that a front end builds, instruction by instruction, into
native code in memory, at any time of the program's run and from any thread.

| Component | State it keeps | Operations | What makes it correct |
|---|---|---|---|
| context (`jit-context.c`) | list of functions, `builder_lock`, `cache_lock`, the cache, the on-demand driver | create, destroy, `build_start`, `build_end` | one builder of functions at a time; both locks released on every path |
| functions (`jit-function.c`) | `builder`, `entry_point`, `is_compiled`, redirector, on-demand compiler, recompilation flag | create, abandon, compile, compile_entry/setup_entry, apply, `_jit_function_compile_on_demand` | `is_compiled` only with a complete entry; a function is built once unless it is recompiled; every caller gets its result |
| method cache (`jit-cache.c`) | page blocks, free region, position of the translation, list of published regions, pages left | start/end of a method, code and data requests, allocation without a method | code, its data and the free region never overlap; published code never moves; the restart loop ends |
| bytecode offsets (`jit-cache.c`) | buffer of compressed pairs, chain of flushed blocks | mark, flush, look up an offset either way | an offset is found as it was marked, wherever a block ends |
| method tree (`jit-cache.c`) | a red-black tree of regions, `head` and `nil` sentinels | add a region (top-down rotations), find a region by address | order, colours and balance; a published method is found |
| instruction builder (`jit-insn.c`) | current block, its instructions, the labels, the function's flags | calls that append instructions, branches, labels, calls | the instructions mean what the call says, whatever peephole the builder tries |
| blocks (`jit-block.c`) | block list, label table, successors, `entered_via_top`, `entered_via_branch`, `ends_in_dead` | append, label, peephole on branches, removal of dead blocks | removed code could not run |
| values (`jit-value.c`) | kind, type, constant, block, flags (temporary, local, addressable, volatile) | create, convert constants, `jit_value_ref` | a value that outlives its block is a local |
| liveness (`jit-live.c`) | flags per operand, `live` and `next_use` per value | copy propagation, liveness, removal of dead stores and branches | every path computes what was built |
| register allocation (`jit-reg-alloc.c`) | contents of registers, ages, values' registers and frame slots | assign, spill, reload, global registers | a value is where its flags say |
| exceptions (`jit-except.c`) | per thread: chain of setjmp buffers, backtrace chain, exception object | push/pop, throw, apply, rethrow | the chain mirrors the native stack; an exception reaches the nearest catcher; `jit_function_apply` blocks it |
| intrinsics (`jit-intrinsic.c`) | none | arithmetic, checked arithmetic, conversions, floating point | exact or reported |
| types (`jit-type.c`) | reference counts, layout of structures and unions | create, copy, free, layout | released with the last reference; fields do not overlap |
| meta data, pools (`jit-meta.c`, `jit-pool.c`) | lists of typed items with their free functions; blocks of elements | set, get, free; allocate, clear | each item is freed once |
| debugger (`jit-debugger.c`) | threads, events, breakpoints | wait for and send events, break, step | no event is lost |
| interpreter (`jit-interp.c`, `jit-rules-interp.c`) | stack frame | one handler per opcode | the meaning of the opcodes |
| back ends (`jit-rules-*.c`, `jit-gen-*.h`, `jit-apply-*.c`) | emission position | one rule per opcode, marshalling of arguments | encodings |
| unwinder (`jit-unwind.c`, `jit-walk.c`) | a cursor over native frames | next frame, jump, function of a frame | uses the method tree |
| strings, symbols, dumps, ELF, object model, C++ wrapper, dynamic libraries, Dynamic Pascal, build tools | | | formatting, file formats, forwarding |

### How the parts interact

- A front end takes `builder_lock` with `jit_context_build_start`, creates a
  function and appends instructions; the first of them makes the function's
  *builder*, which owns blocks, instructions, values and labels.
- `jit_function_compile` runs `compile()`: blocks are completed and cleaned up,
  liveness is computed, global registers are chosen, and then, holding
  `cache_lock`, the generator asks the cache for space byte by byte. If it
  runs out of space everything is generated again in a larger page block.
  `_jit_cache_end_method` enters the code into the method tree.
- `jit_function_apply`, or a call from other code to a function that has no code
  yet (through the function's *redirector*), runs `_jit_function_compile_on_demand`: it takes
  `builder_lock`, looks again whether the function is compiled, calls the on-demand compiler
  of the front end, compiles, releases the lock and continues at the entry point.
- A built-in exception, or one thrown by the program, unwinds by `longjmp` to
  the top of the thread's chain of setjmp buffers. `jit_function_apply` pushes
  a buffer; a compiled function with a catcher pushes one in its prolog and
  pops it wherever it returns. The stack trace and the unwinder ask the
  method tree whose code an address belongs to.

## What is hard

Tests of libjit run single-threaded programs and look at results. The hazards
that they hardly reach, each at its line in `PROJECT.json`, are of these kinds:

- *Threads.* Two threads may ask for the same function at the same time, an
  on-demand compiler may fail, and a front end may build a function again while
  it runs. Callers take no lock, so everything rests on the locks of the others
  and on the order of the stores to `entry_point`, `is_compiled` and `builder`
  (`OnDemand`). Addresses are looked up while another thread rotates the tree
  (`LookupTree`).
- *Space.* The end of a page can fall between any two requests of the code
  generator, including the flush of the debug buffer that end_method itself
  makes; a translation then starts again (`CodeCache`). The end of a debug block can
  fall between any two pairs (`DebugInfo`).
- *Non-local control.* Every way out of a function must leave the two chains
  as it found them: return, tail call, throw, return of a structure, call of a
  function that cannot throw (`Exceptions`).
- *Order of passes.* Liveness and copy propagation each go over a block
  once, change it as they go and rely on flags that an earlier step set
  (`Optimizer`). The register allocator decides registers, emits code and
  records what it did in three separate steps over one table of flags
  (`RegAlloc`).
- *Agreement without a protocol.* Five pieces of code decide independently where an
  argument of a call goes, and each counts for itself (`Calls`). A constant is converted
  and folded by other code than a variable, and a comparison is turned round by
  other code than the one that emitted it (`Operations`).
- *Ownership.* A type is freed with its last reference; every call has its own
  rule of whether it takes the caller's reference (`Types`).
- *Boundaries of machine words*, where C leaves signed overflow undefined
  (`Arithmetic`, `Intrinsics`, `Operations`).

Some hazards are in the models but have no row in `PROJECT.json`, which
keeps to those that a listed run is about or that no run covers:

- an oversize method that is refused leaves no free region (`jit-cache.c:745`), and
  the last flush of the offsets comes after the overflow test (`jit-cache.c:843`): see
  the table of disagreements;
- a restarted translation runs the back end again over the same builder
  (`jit-function.c:777`), so whatever the first attempt left in blocks and values is
  still there; `CodeCache` restarts the requests but keeps no builder;
- an on-demand compiler that applies a function without code waits for the lock that its
  own thread holds (`jit-function.c:1405`); compilers in `OnDemand` build other functions
  but apply none;
- `jit_insn_to_not_bool` inverts the opcode of an instruction that was already emitted
  (`jit-insn.c:2844`), right only while its result has no other reader; the tests of
  `Operations` read each result once;
- `apply_unary_conversion` walks its table until an entry matches
  (`jit-insn.c:4222`), which rests on every row having one for its source type.

## Modules

A definition `X_Fault` that stands before a definition `X` is `X` with a
plausible programming error. No specification uses it. It documents which error
a property is meant to notice, and TLC confirms that the property fails when
`X_Fault` stands in for `X`.

    CodeCache <- CodeCacheProofs, MCCodeCache               the cache and the restart loop of compile()
    DebugInfo <- DebugInfoProofs, MCDebugInfo               bytecode offsets
    CodeIndex <= LookupTree <- LookupTreeProofs, MCLookupTree    the tree refines an index of regions
    OnDemand <- OnDemandProofs, MCOnDemand                  functions, locks, on-demand driver
    Exceptions <- ExceptionsProofs, MCExceptions            setjmp chain and backtrace chain
    BlockCode <- BlockBuilder <- Optimizer <- MCOptimizer   blocks, the builder, the passes
    Arithmetic <- Intrinsics <- IntrinsicsProofs, MCIntrinsics   checked arithmetic
    Arithmetic <- Operations <- MCOperations                what the builder's calls compute
    RegAlloc <- RegAllocParts <- RegAllocProofs, MCRegAlloc     registers in a block
    TypeLayout <- Calls <- CallsProofs                      arguments and results on x86-64
    TypeLayout <- StructClasses                             the classes of structures
    Calls, StructClasses <- MCCalls
    TypeLayout <- Types <- MCTypes                          type descriptors, references, layout

(`<-` is EXTENDS, `<=` is refinement with INSTANCE.)

### CodeCache: `jit-cache.c`, restart loop of `jit-function.c` (777-920)

All users of the cache hold `cache_lock`, so there is one translation at a time.
`pages` is the page list with its capacity `maxNumPages`,
`freePage`/`freeStart`/`freeEnd` the free region (`freePage = NoPage` is the
null `free_start`), `ptr`, `limit` and `method` the translation in progress
(`posn->ptr`, `posn->limit`, `cache->method`), `debugLen` and `debugList` the
pairs in the debug buffer and in flushed blocks, `tree` the published regions,
`blocks` the auxiliary data, `pagesLeft` the page limit. Addresses are offsets
inside their page block.

| action | code |
|---|---|
| `Begin`, `Second` | first attempt of `compile()`: `_jit_cache_start_method` with factor 0; what the attempt is answered |
| `Generate` | one request of the code generator: code (`jit_cache_byte` and its likes set the overflow mark instead of writing past the limit), auxiliary data (`_jit_cache_alloc`), a bytecode mark (which may flush, `WriteCacheDebug`) |
| `EndRestart`, `EndOK` | `_jit_cache_end_method`, whose last flush, release of an overflown block and publication are one step under the lock |
| `Restart` | the next turn of the loop, with the factor doubled |
| `alloc_no_method` | `_jit_cache_alloc_no_method` for redirectors, indirectors and closures |

The code generator is a set of programs, each a sequence of requests, and the
allocator may refuse memory at any time.

### DebugInfo: `jit-cache.c` (128-297, 564-619, 1289-1405)

`CompressInt` and `UncompressInt` are operators on byte sequences with the
code's four forms of one, two, four and five bytes. `mark_bytecode` appends a
pair of a bytecode offset and a native offset to a buffer of `BufSize` bytes, and flushes the buffer into a block when
the pair does not fit; `end_method` flushes the rest. `get_bytecode` starts a
lookup of a native offset and `GetNextDebug` is one turn of its loop over the
chain of blocks. The ghost `marks` keeps what was marked.

### CodeIndex and LookupTree: `jit-cache.c` (402-562, 1018-1056)

`CodeIndex` is what the rest of the library sees: a set of regions that grows,
and lookups that answer the region of an address or null. `LookupTree` is the
code: an insertion descends from `head` one node per step, splits nodes with two
red children as it goes, and rotates with *one store to a link per step*
(`GiveSubTree`, `TakeChild`, `ReplaceChild`), while a reader walks down from the
root in steps of its own. With `Locked` the reader waits until no insertion is
in progress, as a caller that takes `cache_lock` would; without it the two
interleave, as in the callers that do not. The refinement
mapping gives `CodeIndex` the regions whose insertion is complete, and
`HoldsPublished` ties them to the nodes of the tree: `Below` is the set of nodes
that `FillMethodList` (1233-1262) visits, left of a node before it and right of it after.

### OnDemand: `jit-function.c`, `jit-context.c`, `jit-apply-x86-64.c`

Each thread has a stack of activities: applying a function, running code, the
on-demand driver, an on-demand compiler, `compile()`, or the front end in a
build. Each step touches shared state at most once: `ApplyReadsFlag` reads
`is_compiled` without a lock as `jit_function_apply_vararg` does,
`DriverLocks`/`DriverChecks` take `builder_lock` and look again,
`CompileSetsEntry` and `CompileSetsFlag` are the two unprotected stores whose
order matters. Compiling may fail for lack of space, an on-demand compiler may
return an error, and the driver then releases the lock before it raises the
exception. `Recompilable` functions are built again by the front end while other
threads run them; `Tiered` ones go through `jit_function_compile_entry` and
`jit_function_setup_entry`.

### Exceptions: `jit-except.c`, `jit-insn.c`

A function's body says whether it has a catcher, calls out, throws, how it
returns and whether it calls itself in tail position. `Compiled` is what the
instruction builder makes of it: where it emits the push, the pops and the call
flags. The machine runs that code on a stack of frames, with the thread's chain
of setjmp buffers and its backtrace chain. `Throw` unwinds to the top of the
chain, whatever frame that is, as `longjmp` does.

### BlockCode, BlockBuilder, Optimizer: `jit-block.c`, `jit-insn.c`, `jit-live.c`

`BlockCode` defines blocks of instructions and what they compute: `Run` gives
the effects and the result of a function as terms over its inputs (`x + y` is a
term, two values are equal when their terms are), following at most `MaxLinks`
branches. `BlockBuilder` has one action per modelled call of the builder
(`jit_insn_label`, `branch`, `branch_if`, `store`, `load`, a binary operation, a
comparison, `address_of`, `add_relative`, `load_relative`, `store_relative`,
`return`) with the peepholes that look back at the last instruction that defined
an operand, and `jit_value_ref`, which turns a temporary used in another block
into a local. `Optimizer` adds one action per pass of `compile()`: cleaning up
blocks (`_jit_block_clean_up`), and in `_jit_function_compute_liveness` forward
and backward copy propagation, liveness and the removal of dead stores. `calls`
keeps what the front end asked for, so that a run can compare.

### Arithmetic and Intrinsics: `jit-intrinsic.c`

`Arithmetic` has the integer types and, as operators, the functions that may
report an exception; `Intrinsics` is the machine that calls them, about which
`IntrinsicsProofs` proves. The operations that report an exception: addition, subtraction and
multiplication with an overflow check on both signed and both unsigned types,
division and remainder, and the checked conversions between six integer types. A
type is a size and a sign, a value a number in its range; sizes are CONSTANTS.
The multiplication of two unsigned longs is the code's, of four products of
words with carries. `Wraps` says whether the compiler makes signed addition wrap
around: C leaves it undefined and the Makefiles ask for nothing (no `-fwrapv`), so with
`Wraps = FALSE` the sum that overflows and each comparison with it may give anything.
`OverflowIsReported` says what holds either way: the operations are exact where the result is a
value of the type, and report that it is none, all but the signed sums and differences that
C leaves open (`LeftOpen`). `OverflowPromised` is what `jit-intrinsic.c:115` promises
without that exception; it holds where arithmetic wraps, and TLC refutes it elsewhere.
The runs `intrinsics` and `operations` take `Wraps = TRUE`, in which nothing is left open.

### Operations: `jit-insn.c`, `jit-value.c`, `jit-interp.c`, `jit-intrinsic.c`

From a call of the builder to the number that comes out. A call (`Ask`) with its
operand types goes through the code that finds the common type, coerces the
operands and picks the opcode or the intrinsic (`Code`); a conversion becomes the
chain of opcodes of the ten conversion tables (`ToNarrow`, `ToInt`, ... `Chain`), and a
constant is converted on the spot by `jit_constant_convert` or, where that
refuses, at run time (`ConstantSteps`, `Converted`). `Convert` runs one step of a
conversion and may throw; `Operate` folds or runs the operation as the interpreter
does. The peepholes behind a comparison (`ToBool`, `ToNotBool`, `BranchIf`,
`BranchIfNot`, `AgainstZero`, `InvertedLast`) take the last comparison apart and
emit it turned round. Integer types have 2, 4, 8 and 64 values; a float is a number
of quarters, rounded to even numbers for float32 and to halves for float64, with both infinities and "not a number".
Properties compare the answer with arithmetic on the operands.

| definition | code |
|---|---|
| `Common`, `Promoted`, `CommonFloat` | `common_binary`, `jit_type_promote_int` |
| `ToNarrow` ... `ToFloat` | the tables of `jit_insn_convert` |
| `ConstantSteps`, `IntegerOvf`, `FloatToIntegerOvf` | `jit_constant_convert`, checked conversions |
| `Coerced`, `ResultType`, `Code` | `apply_arith`, `apply_binary`, `apply_shift`, `apply_compare`, `jit_insn_neg`, `abs`, `sign`, `min`, ... |
| `AddOrSub` ... `Computes` | handlers of `jit-interp.c`, `jit_..._xxx` intrinsics |
| `ToBool` ... `BranchIfNot` | `jit_insn_to_bool`, `to_not_bool`, `branch_if`, `branch_if_not` |

### RegAlloc: `jit-reg-alloc.c`, as `jit-function.c` and the generated rules drive it

Beside the allocator's belief (`contents[r]`, `in_reg[v]`, `in_frame`,
`in_global`, ages) the model has what the emitted code really leaves: `holds[r]`,
the values whose current content a register has, and `slot[v]`. An instruction is two
actions: `BeginInsn` does what `_jit_regs_init`, `_jit_regs_assign` and `_jit_regs_gen`
do (`Assign`, then `Generate`: choose registers by cost, spill, load), and `EndInsn`
executes the instruction and commits (`_jit_regs_commit`). What the instruction
reads can be checked in between. `NextBlock` and
`EndBlock` are the loop over blocks with `_jit_regs_spill_all`, `IncomingReg`,
`IncomingFrame` and `SetOutgoing` parameters and arguments of calls. Forms of
instruction (`Forms`) are records of what a rule says of its operands: class or
fixed register, early or late clobber, scratch registers, clobbered
registers, two or three addresses; `FormRight` says what the rules have in common (an
operand is pinned to a register that calls change, only the first one is destroyed, ...).
Choice between registers follows the cost functions of the code, and among equal
costs `age`, the order in which the registers were last bound, so the model is
deterministic where the code is. `SpillRegisters` spills a set of
registers at once: what the spill of one of them writes, no other one reads.

`RegAllocParts` has what holds between the steps, in named parts, and `RegAllocInv`.

### TypeLayout and Types: `jit-type.c`

`TypeLayout` has `perform_layout`, one round of its loop per field. `Types` has the
descriptors (`desc`: reference count, fields or sub-type, size and alignment as last
computed, `hasSize` and `hasAlign` for `layout_flags`), the references that
the program holds (`owned`), and one action per function of the API that creates,
copies, frees, changes or asks. `Freed` is the recursion of `jit_type_free`, `Asked` that of
`perform_layout` into the field types, which stores what it computed.

### Calls: `jit-apply-x86-64.c`, `jit-rules-x86-64.c`, `jit-apply.c`, `tools/gen-apply.c`

A signature grows by one parameter per step. Compiled caller, compiled callee, `jit_apply` and closure handler
each keep counts of used registers and stack bytes (`caller`, `entry`, `builder`,
`parser`) and say where they put or look for the bytes of the parameter: a set of
moves. `Convention` is the System V classification, written from the ABI
and not from the code, and external. `AsConvention`, `ApplyMeetsCallee` and
`ClosureMeetsCaller` say that corresponding moves put each significant byte in the
same place.

A closure gets its arguments as a block of registers that `_jit_create_closure` fills
(`jit-apply-x86-64.c:46-104`). It leaves out the first field, `stack_args`, and
`jit_apply_parser_init` does not store it either, so each stack argument is read through a pointer that
nothing has set (`gen-apply.c:1900`). The moves of the parser say so (`ThroughBlock`: places behind
an unset pointer, at an offset). `ClosureMeetsCaller` is therefore no claim that a closure finds the
arguments on the stack: it says that it finds those in registers and looks for the others
at the offsets the caller used. The disagreement `stackArgs` compares with the caller's own
places and is found by TLC as soon as a signature has an argument on the stack.

`StructClasses` is `_jit_classify_struct`, a walk over the fields of an aggregate and theirs.
What it finds depends on the type alone, and every party finds it anew, so a type of a
signature carries its classes and its scalars with it (`Described`); `Calls` itself
takes types as `TypeRight` says they are: scalars of the sizes of x86-64, no alignment beyond
sixteen (the frame of a callee has no more), a class for each eightbyte.

## Runs

| run | instance | distinct states | checks |
|---|---|---|---|
| `cache` | `MCCodeCache_writes.cfg` | 220 432 | `LayoutInv`, `WritesFreeSpace`, `PageBudget`, `FixedInPlace`, `RestartLoopTerminates` |
| `debug_lookup` | `MCDebugInfo_lookup.cfg` | 143 664 | `BufferFits`, `LookupRight` |
| `tree` | `MCLookupTree_locked.cfg` | 193 841 | `HoldsPublished`, `RedBlack`, `IndexSpec` |
| `ondemand` | `MCOnDemand_threads.cfg` | 68 691 | `LocksMatch`, `RunsItsCode`, `CompiledOnce`, `StaysCompiled`, `EveryoneEnds` |
| `except_chains` | `MCExceptions_chains.cfg` | 10 303 | `ChainMatchesFrames`, `BacktraceIsLive`, `NeverLost`, `ApplyBlocks`, `CatchersCatch` |
| `optimizer` | `MCOptimizer_passes.cfg` | 423 154 | `BuiltAsAsked`, `FlagsSound`, `PassesKeepMeaning` |
| `intrinsics` | `MCIntrinsics_exact.cfg` | 42 017 | `OverflowIsReported`, `DivisionIsExact` |
| `operations` | `MCOperations_calls.cfg` | 354 557 | `ConversionsExact`, `ArithmeticExact`, `TestsAgree`, `OrderAgrees` |
| `regalloc` | `MCRegAlloc_blocks.cfg` | 88 662 | `LoadsRight`, `InputsReady`, `HomeAtExit`, `ArgumentsKept` |
| `calls` | `MCCalls_params.cfg` | 83 807 | `AsConvention`, `ApplyMeetsCallee`, `ClosureMeetsCaller`, `ArgumentsFit`, `ResultMeets` |
| `types` | `MCTypes_refs.cfg` | 58 470 | `RefsCounted`, `LayoutRight` |
| `regalloc_shared` | `MCRegAlloc_shared.cfg` | violated | `LoadsRight` |

What the passing runs show, and why their bounds are enough:

- **`cache`**: the space of a page is 6 units, and the six programs are a small
  function, one with a constant, two that mark offsets (one of them fills the
  debug buffer), one that needs two pages and one that needs more than a block
  can have. With three blocks, a largest factor of 2 and a limit of three pages, every
  path of the loop occurs: success in the old page, restart into a new one,
  restart into a doubled one, refusal for lack of memory, of pages and of factor. A
  page list that starts with one entry grows twice. Published code and data
  stay disjoint (`CodeDisjoint` and `DataDisjoint`, conjuncts of `LayoutInv`), a translation writes only free
  space, a block that holds published code or data is never given back, the
  page budget adds up, and each translation ends.
- **`debug_lookup`**: offsets and gaps lie at the ends of the one-, two- and
  four-byte forms, and a block takes one to three pairs, so three marks fill, overflow and
  split a block in every way. Every lookup
  answers the last mark at or before the address.
- **`tree`**: eight nodes is the smallest number with which an insertion
  rotates in the middle of its descent while the reader waits. The tree keeps
  its order and colours *between* insertions, holds what was published, and
  implements `CodeIndex`.
- **`ondemand`**: two threads, a function with an on-demand compiler, which
  may build the other function too, and one that the front end builds, builds
  again and compiles in tiers. Each thread starts at most `MaxWork = 3` things on a stack of
  depth 4; the cache has room for two methods, so compilation fails too. Two threads are what a
  lock tells apart: a third one would only wait like the second.
- **`except_chains`**: a catcher, a thrower that may also loop by a tail
  call, and a leaf that is built again as one that throws. Stacks of six frames
  have a catcher and a `jit_function_apply` inside another, in either order.
- **`optimizer`**: each function is made of four to six calls of one of five
  menus (data flow, control flow, comparisons, addresses, pointers), with one
  local, one constant, four temporaries and two labels. Five habits of front
  ends are excluded there, and each has its disagreement below; `Habit`
  in the configuration lets them in.
- **`intrinsics`**: all pairs of values of all types with 2, 4 and 8 values per byte,
  short and word; long has 64. The proofs below cover the real sizes.

- **`operations`**: all calls on all types, one operand at, next to and beyond every bound of every
  type for conversions and unary calls, eight bounds for each operand of arithmetic,
  fractions on both sides of integers and of rounding, and sequences of up to three
  tests behind a comparison with and without instructions in between, as constants
  and as variables, with and without the opcodes of the back end. The four sizes of
  integers differ, so a wrong size or sign anywhere in a chain of conversions shows.
- **`regalloc`**: four registers in the roles of rax, rcx, rdx and r15, one
  value that outlives the block, one temporary and one constant are the fewest with which
  a register holds two values, a spill is forced and an input has to be moved; blocks
  of two instructions of fourteen forms after up to one incoming value, block after
  block without end. Global registers are tried and not tried.
- **`calls`**: twelve parameter types, one of each class the code tells apart, in
  every order until 16 bytes of stack are used, for nine results, nested and not: registers of both kinds run
  out in every order, and structures of two words meet one and no free register.
- **`types`**: three interchangeable descriptors and up to four calls of the API
  with every combination of sharing and incref, two references of a program to one type.
  Four calls make a type within a type, ask, change and ask again.
- **`regalloc_shared`** lets in two different values in one register as operands of one
  instruction, the finding of `PROJECT.json`.

`Faults` in `RegAlloc`, `Calls` and `Types` names the places where the code is known to
break a property. With `Faults = {}` the actions of the environment that lead there are not
taken, or the property leaves out the type in question; putting a name in lets it in, and TLC then
finds the property violated (below).

`CHECK_DEADLOCK FALSE` stands where a bounded front end has nothing left to ask:
the marks, the nodes, the work, the builds and the calls of a function are
finite in those instances, `MaxStack` ends the parameter list in `Calls`, `MaxCalls` the program in `Types`,
and in `RegAlloc` a block whose instructions are used up may still have a value
that some instruction would have had to set.

## Fairness

| specification | fairness | why the code justifies it |
|---|---|---|
| `CodeCache!FairSpec` | weak, of the steps of one translation | the thread holds `cache_lock` and runs a loop without waiting for anybody |
| `OnDemand!Spec` | weak, of each thread | the scheduler runs every thread that can take a step; a mutex that is free is a step that can be taken. Two threads with finite work cannot starve each other, so strong fairness is not needed |

A front end in `OnDemand` ends its build, as it must call
`jit_context_build_end` for any other thread to go on. `DebugInfo`, `LookupTree`, `Exceptions`, `Optimizer`,
`Intrinsics`, `Operations`, `RegAlloc`, `Types` and `Calls` have safety properties only and assume no fairness.

## What is proved

TLAPS checks these for every value of the constants that satisfies the named
assumptions of the modules (sizes, alignments and page factors are positive, a
program's requests are well formed, the buffer holds at least one pair and an
end mark, the numbers of values of the integer types are even and ordered).

`CodeCacheProofs`:

- `LayoutHolds`: `Spec => []LayoutInv`. `CodeDisjoint`, `DataDisjoint` and
  `WritesFreeSpace` are not inductive. Code is placed at `freeStart` and data
  at `freeEnd`, so what has to be known is that everything published in the
  newest block lies outside of the free region, and that the position of a
  translation lies inside of it. `LayoutInv` says so: `TypeOK`, `PagesInv`
  (page blocks are distinct, the free region is in the newest), `PlacedInv`
  (published code of the newest block ends at or below `freeStart`, its data
  begins at `freeEnd` or above, and all of both lies in blocks of the list),
  `PosnInv` (the translation is between the two) and the two disjointness
  properties. There is one lemma per action; `AllocCachePage` and rounding
  have their own.
- `CodeIsDisjoint`, `DataIsDisjoint`, `WritesOnlyFreeSpace` follow from it.
- `PublishedStays`: the action property `FixedInPlace`, from `LayoutInv`.
- `BudgetIsKept`: `Spec => []PageBudget`. The pages of the listed blocks are a sum over a
  sequence. `BudgetInv` says that there is a list of its partial sums (`Counts`) whose last, with the
  pages left, is the limit; a new block or one given back changes the list at its end only. That
  the sum is the last of any such list (`CountIsUnique`) is an induction over the list, done with
  the least counterexample (`LeastNatural`).

`DebugInfoProofs`:

- `BufferNeverOverflows`: every flush happens in time, because a pair takes at
  most ten bytes and the end mark one.
- `RoundTrip`: `UncompressInt(CompressInt(n)) = n` for all n from -2^28 to
  2^28 - 1, by cases on the three shorter forms. `SmallOffsetsReadBack` lifts
  it to the specification. The five-byte form is read doubled (see below), so
  the range cannot be larger.
- `AlwaysLookedUpRight`: `Spec /\ [](native <= FourByteHigh) => []LookupRight`, for bytecode
  offsets of the range other than -1 and -2, which the encoding takes for its end marks. `LookupRight`
  speaks of the answer, so that the invariant has to know what the bytes mean while they are
  written, flushed and read. `Codes` says that bytes are some marks in a row followed by an
  end: there is one remainder per mark, which is what a reader has left. `Written` cuts the
  marks into the runs that the blocks hold and the one in the buffer; `ReaderAt` says how many marks
  a lookup has read, that the rest of its block is what it has left, and that none of them was too
  far. From it follows what comes next (`Reading`): a mark, the end of a block that
  is not the last, or the end of the list. So the reader stays inside of the block, though it is
  told that the block is longer, and `AnswerFound` makes the answer right since native
  offsets never fall.

`IntrinsicsProofs`, for all even numbers of values `Byte <= Short <= Word`, with
`Long = Word * Word`, which covers the real 8, 16, 32 and 64 bits:

- `ULongMulExact`: the sum of four products with its carries is the product, or
  overflow is reported; the lemmas bound each partial sum.
- `OverflowsAreReported`: `Spec => []OverflowIsReported`, whatever `Wraps` is. Comparisons with an
  overflown sum come into it only where the sum is a value of the type or arithmetic wraps
  (`ComparesOnce`); the rest is `LeftOpen`, and TLC finds `OverflowPromised`, which has no
  such exception, violated (table below).
- `DivisionsAreExact`, `ResultsAreValues`.

`LookupTreeProofs`, for any set of regions of one size that do not overlap, finite or not,
and any program counters:

- `TreeAlways`: `Spec => []TreeInv`. In the middle of a rotation the links are no tree, so that
  nothing about them is inductive. `TreeInv` is about the tree that the rotation
  started from: `BeforeLeft` and `BeforeRight` undo the stores made so far, `BeforeRed` the
  colour given to the grandparent. `Shape` says that this tree is ordered, has one
  parent per node, holds what is linked, and has the same number of black nodes on
  every way down; the sub-trees `s` and heights `h` that it speaks of are existentially
  quantified, and each lemma of a step shows the new ones (`InsertShape`, `FlipShape`,
  `BendShape`, `RotateShape`, `BlackenShape`).
  The subtle part is the search. `Split()` rotates around `greatGrandParent`, and these
  ancestors are stale after a rotation, when `temp` is set to the grandchild. `RotateInv`
  requires the ancestors to be right whenever a rotation begins; `AfterRotation`
  and `Calm` show why they are: the four nodes below a rotation are coloured such that nothing
  can be split in the next two turns, which is as many as it takes to refill what a rotation uses.
  `RotateInv` carries that over the stores of the rotation (`Onward`).
- `HoldsPublishedAlways`, `RedBlackAlways`: the invariants of the run. `Below` and `BlackHeight`
  are recursive functions over the tree. That they are the `s` and `h` of the invariant follows from the least
  counterexample by `Rank`, which falls on every way down a red-black tree (`LowestNode`).
- `LockedImplementsIndex`: `Locked => (Spec => IndexSpec)`, every step of the tree is one of `CodeIndex` or
  leaves it alone. `ReaderInv` says that what a lookup looks for is below where it is.
- `LockedFinds`: `Locked => (Spec => PublishedIsFound)`, the property that lookups without the
  lock violate (see below). `TreeTypes`: `Spec => []TypeOK`.

`OnDemandProofs`, for any number of threads and functions, any stack depth and
any capacity of the cache:

- `BuildInvariant`: `Spec => []BuildInv`. `LocksMatch` alone is not inductive:
  `compile()` and the setup of an entry point take and give back the two locks in the
  middle of a stack of activities, and their callers hold or do not hold
  `builder_lock` without any variable saying so. What says so is the shape of the
  stack. `ShapeInv` lists which activity may stand on which (`Above`), and that
  everything from the first building activity on is under the lock;
  `LocksInv` reads the owner of both locks off the top of the stack.
  `BuilderInv` says that the function that `compile()` works on has its instructions until
  they are freed, and none from then on.
- `LocksAlwaysMatch`: a thread owns `builder_lock` exactly while it builds, compiles
  or sets up, and `cache_lock` exactly while it generates code.
- `AlwaysRunsItsCode`: no thread runs code of another function or code that
  is not there. `EntriesRight` (a published entry point leads to code of its
  function), `FramesRight` (the same for what an activity has read and not yet used)
  and `PendingRight` carry it over the steps between reading `is_compiled`,
  reading the entry point and running, during which other threads go on.
- `AlwaysCompiledOnce`, `AlwaysStaysCompiled`: a function that is neither built again nor
  compiled in tiers is compiled once and stays so. `UncompiledInv` (a builder
  of such a function means that it is not compiled) and `OnceInv` (at most one
  activity is about to announce it, and then it is not announced yet) are what makes the
  second look of the driver at `is_compiled`, under the lock, sufficient.

`ExceptionsProofs`, for any functions, bodies and stack depth, under `BodiesRight`:
a function with a catcher is built once, does not return by `jit_insn_return_ptr` and
does not end in a tail call to itself; one that is built again and calls out always
returns. The instance of `except_chains` satisfies it (`MCExceptions` assumes so and
TLC evaluates it), and each part is needed (table below).

- `ChainsInvariant`: `Spec => []ChainsInv`. The chain of setjmp buffers belongs to
  the thread and code pushes and pops it far apart, so that a chain that matches the
  frames now says nothing about the pops still to come. `ChainOf` says from which frame each
  buffer of the chain comes, in order, and what its backtrace was; `FramesRight` says of every frame
  what code it runs, that a frame below the top is a call in progress and which frames have
  pushed; `TraceOf` the same for the backtrace; `BuildsInv` relates what was compiled
  to the body it was compiled from, with `has_try` as a flag of the function
  that outlives its builder. They are stated for a prefix of the stack, as `Throw`
  takes away any number of frames at once.
- `ChainsAlwaysMatch`, `BacktraceAlwaysLive`, `AlwaysFound`: the invariants of the run.
- `ApplyAlwaysBlocks`, `CatchersAlwaysCatch`: its action properties. No exception passes a
  `jit_function_apply`, and one thrown under a catcher gets to the innermost.

`CallsProofs`, for any set of types that `TypeRight` describes, signatures of any length and any
`MaxStack`; TLC evaluates `TypeRight` for the types of the run:

- `ArgumentsAlwaysFit`: `Spec => []ArgumentsFit`, with every disagreement let in. Counts may
  then be wrong and even run past the six word registers; `AreaInv` is inductive because
  whatever one parameter takes from the stack is no more than it adds to `argSize`
  (`Covered`, one lemma per way of passing).
- `AlwaysAsConvention`, if `Faults` lets in neither `oneRegister` nor `nested`. `CompiledInv`
  needs no such condition: the counts of the callee are those of the caller with the stack
  sixteen bytes up, and so are its places, as sixteen is a multiple of every alignment.
  `ConventionInv` adds that caller and convention give every byte up to the size of
  the parameter the same one place (`SamePlaces`), register lists by register lists.
- `AlwaysApplyMeetsCallee`, `AlwaysClosureMeetsCaller`, if `Faults` lets in none of
  `straddle`, `inRegisters`, `unaligned`. `AppliedInv`: after each parameter `jit_apply`,
  closure and compiled caller have used the same, which is what one that ran ahead would break for
  all later ones. The second theorem also needs `stackArgs` out of `Faults`: what the
  closure reads is compared with the caller's places as they look through its register
  block, the stack behind an unset pointer (`Alike` carries both comparisons).
- `ResultAlwaysMeets`, if `Faults` lets in none of `memoryResult`, `closureResult`,
  `oneRegister`, `nested`: for each list of classes of a result the four agree on its registers.

The conditions hold in the run `calls`, where `Faults = {}`, and each name in them breaks
its property when it is let in (table below).

`RegAllocProofs`, if `Faults` lets in none of its five names, for any registers, values, usage counts,
forms of instruction that `FormRight` describes, incoming values that `ArrivalRight`
describes, and blocks of any length (TLC evaluates both for the run):

- `RegAllocInvariant`: `Spec => []RegAllocInv`. Between instructions (`InBody`): the lists under the
  registers agree with the registers of the values (`GenOK`), a flag of a value implies that the
  place it names has its current content (`Right`), every value that is still used has such a place
  (`Readable`), no value is bound to a permanent register, and the arguments of a call are
  in registers that are inhibited. Between blocks (`IsBetween`) nothing is bound and
  every value is at home. While an instruction is ready (`Emitted`): the same for the values the
  instruction does not touch, the inputs are in their registers, and the flags of each
  operand say what commit has to do.
  The four properties do not carry themselves: that a value may be taken
  from its register after an instruction rests on flags computed before the spills and loads.
- The proof has three parts. *The generator*: if the assignment has the properties `Assigned`
  (different inputs in different registers, what is overwritten is among the clobbered,
  stored or dead, ...), then `Generate`, the instruction and `Commit` keep every value
  (one lemma for each function that `_jit_regs_gen` and `_jit_regs_commit` call). *The choice*: `Assign` makes such
  an assignment for each form of rule (`Placed` after each register that is chosen,
  `Sound` when all are, `Fated` with the flags), including that an input loaded first never
  overwrites what a later one needs. *The block*: each action of `Next` keeps `RegAllocInv`.
- `LoadsAreRight`, `ArgumentsStay`, `ValuesAtHome`: `LoadsRight`, `ArgumentsKept` and `HomeAtExit` from it.
- `InputsAreReady`: `Spec => [](RegistersFound => InputsReady)`. `RegistersFound`, the first conjunct
  of `InputsReady`, says that registers are found for every instruction; that depends
  on how many there are and on what the rules pin, and is checked for the run's only.

TLC checked `BuildInv`, `ChainsInv`, `RegAllocInv` and, for the sub-trees and heights of the tree in each state,
`TreeInv` on the instances of the runs before they were proved.

Only model-checked: all liveness (`RestartLoopTerminates`, `EveryoneEnds`); the optimizer (the meaning of a block
is a recursive operator); `Operations` (Bitwise); `Types`, whose
freeing is a recursive operator over types; and `RegistersFound` in `RegAlloc`. That `StructClasses` finds for a type the classes of the
convention is evaluated by TLC for the types of the run.

## Where the code and its documents disagree

Shown by the run `regalloc_shared`, listed as a finding:

| source | what happens |
|---|---|
| `jit-reg-alloc.c:1511` | two different values may share a register after a copy (`y = x`); an operation on both (`y = y - x`) puts its result into that register, which still counts as the place of x |

Shown by a configuration that no listed run uses; TLC finds the property violated:

| configuration | property | source | what happens |
|---|---|---|---|
| `MCLookupTree_unlocked.cfg` | `PublishedIsFound` | `jit-function.c:1220` | lookups without `cache_lock` miss a published method while a compiling thread rotates the tree; `jit-cache.c:1533-1537` asks callers to hold the lock |
| `MCOptimizer_deadcode.cfg` | `RemovedBranchHasNoEffect` | `jit-block.c:541` | `branch L; <dead code>; L:` loses its branch, and the dead code runs |
| `MCOperations_sign.cfg` | `SignIsSign` | `jit-intrinsic.c:1412-1430` | the sign of a positive float is answered as 0, where `jit-insn.c:3319` promises the sign |
| `MCRegAlloc_class.cfg` | `LoadsRight` | `jit-reg-alloc.c:3295` | `_jit_regs_clobber_class` tests the position in the class where it means the register; with a global register in front of a call-used one (rbx, rsi) a register that a call changes is not saved |
| `MCRegAlloc_home.cfg` | `InputsReady` | `jit-reg-alloc.c:676-680` | the comment says thrashing "may only take place if the register is assigned explicitly", but in `x = k < x` the first operand is loaded into the global register of x before x is read from there; `thrashes_value` looks at global registers only under `ALLOW_CLOBBER_GLOBAL` (1001), which is set for 32 bit x86 only (75) |
| `MCTypes_stale.cfg` | `LayoutRight` | `jit-type.c:419` | a type that is asked for its layout, changed and asked again keeps an alignment and size it no longer has |
| `MCCodeCache_toobig.cfg` | `TooBigMeansNoSpace` | `jit-cache.c:745` | after an oversize method was refused there is no free region, and the next small method is answered TOO_BIG, the answer for a full cache, although pages are left |
| `MCCodeCache_debug.cfg` | `DebugWhole` | `jit-cache.c:843` | the last flush of the offsets may find no room, and the method is published with its offset list cut short |
| `MCDebugInfo_big.cfg` | `ReadsBackWhatWasMarked` | `jit-cache.c:285` | an offset in the five-byte form is read back doubled |

The same with other values in `MCExceptions_chains.cfg`, without the one part of `BodiesRight`
that excludes them (the assumption of `MCExceptions` holds for the values of the run only):

| value | property | source | what happens |
|---|---|---|---|
| `Body <- MCBodyPtr` | `ApplyBlocks` | `jit-insn.c:7126` | in a function with a catcher `jit_insn_return_ptr` overwrites its parameter `type` by the signature of the pop, frees that (7135) and then asks it for its kind (7150): a use after free, and as a signature is no structure, whatever is returned goes on to `jit_insn_return`, which pops the setjmp buffer again |
| `Recompilable = {f}` | `CatchersCatch` | `jit-insn.c:7554` | `has_try` outlives the builder, so a function that is built a second time with a catcher gets no setjmp buffer |
| `Body <- MCBodyLoop` | `ApplyBlocks` | `jit-insn.c` (tail call to the function itself) | pops the buffer, jumps behind the prolog and pops again |
| `Body <- MCBodyAgain`, `Recompilable = {g}` | `NeverLost` | `jit-insn.c:5659` | a call takes its no-throw and no-return flags from the function that is being built, not from the callee |

The same with other values in the configuration of a run:

| run, values | property | source | what happens |
|---|---|---|---|
| `optimizer`, `Menu <- AddressMenus`, `Habit = {"stores an address"}` | `BuiltAsAsked` | `jit-insn.c:1646` | a store behind an add_relative looks at the stored value instead of the pointer |
| `intrinsics`, `Wraps = FALSE` | `OverflowPromised` | `jit-intrinsic.c:208` | the overflow test of signed additions reads the overflown sum, which an optimizing compiler may take for impossible (gcc 12 does at -O1) |

The same with a name put into `Faults` of a listed configuration:

| name | module, property | source | what happens |
|---|---|---|---|
| `moved` | `RegAlloc`, `LoadsRight` | `jit-reg-alloc.c:734` | a value with a global register that is in another register is taken for being in its global one |
| `order` | `RegAlloc`, `LoadsRight` | `jit-reg-alloc.c:2368` | a value with a global register that is read in a block compiled before all that set it |
| `straddle` | `Calls`, `ApplyMeetsCallee` | `jit-apply-x86-64.c:796` | a structure of two words with one or no word register left runs over the end of the word registers in the register block |
| `inRegisters` | `Calls`, `ApplyMeetsCallee` | `jit-apply-x86-64.c:843` | `jit_apply` spreads a structure that compiled code expects on the stack over the word registers left |
| `unaligned` | `Calls`, `ApplyMeetsCallee` | `tools/gen-apply.c:2045` | a native float behind an odd number of stack words is aligned by compiled code but not by `jit_apply` |
| `oneRegister` | `Calls`, `AsConvention` | `jit-apply-x86-64.c:556` | two SSE eightbytes share one register |
| `nested` | `Calls`, `AsConvention` | `jit-apply-x86-64.c:411` | a nested structure that crosses an eightbyte is classified by the wrong fields |
| `memoryResult` | `Calls`, `ResultMeets` | `jit-type.c:1592` | an aggregate with a native float is returned neither in registers nor by pointer |
| `stackArgs` | `Calls`, `ClosureMeetsCaller` | `jit-apply-x86-64.c:61` | a closure does not store `stack_args` in its register block, and reads its stack arguments through what was there before |
| `closureResult` | `Calls`, `ResultMeets` | `jit-apply.c:814` | a closure returns every aggregate in the general registers |
| `released` | `Types`, `RefsCounted` | `jit-type.c:1291` | `jit_type_set_tagged_type` frees the old type before it counts the new one, which may be freed with it |
| `sentinel` | `Types`, `LayoutRight` | `jit-type.c:863` | -1 is documented (848-849) to leave a size or alignment alone, and is stored |

Seen in the source, excluded by `Habit` or outside of the modelled calls:
backward propagation replaces `value1` where it tested `value2`
(`jit-live.c:499`); its test for a store to itself looks at the copy and not at
the instruction it changed (`jit-live.c:456`); the store to an addressable
temporary is discarded as dead (`jit-live.c:132-141`). The interpreter
compares native floats as float64 (`jit-interp.c:2106`, left out of `OrderAgrees`). A float between -1 and 0 converts
with overflow checking to ubyte and ushort, but not to uint and ulong.
`choose_scratch_register` returns 0 on failure where its caller tests for a negative
number, and the generated rules return silently when `_jit_regs_assign` or
`_jit_regs_gen` fails, which leaves the instruction out; `InputsReady` says that
neither happens. The layout of a structure around a tagged type without an
underlying type divides by zero (`jit-type.c:365`).

## What is not modelled

Every component has a row in `PROJECT.json` with its reason. In short:

- *Formats and encodings*: the code generators' macros, the instruction rules and their
  generator, ELF, dumps, symbol tables, name mangling; calls on processors other than x86-64.
- *No implementation or no caller*: the object model, the control-flow graph
  (`jit-cfg.c`), the linear-scan back end (off by default), run control in the debugger, which
  needs thread lookups that the source leaves to be done, `_jit_cache_align`,
  `_jit_cache_new_region`, `_jit_cache_get_native`.
- *Sample programs and tools*: Dynamic Pascal, tutorial, samples, tests.
- *Within modelled components*: floating-point sums, products and mathematical functions, which
  C computes; volatile values, values shared with nested functions, jump tables
  and moved blocks in the builder; destruction of a context; the x87 register
  stack and register pairs of 32 bit machines in the allocator; names
  of fields and `jit_type_normalize` in the types; self-containing types, which are never freed.
- *Not yet*: meta data, pools and what is freed when a build ends (`jit-meta.c`,
  `jit-pool.c`); the debugger, whose event queue is all of it that is
  implemented.

## Plan

In order of their importance to the system:

1. **Proofs about `Types`.** `RefsCounted` without `Freed`'s recursion, as a
   work list of types to release. Then `RegistersFound` in `RegAlloc`, from an
   assumption on how many registers of a class the rules pin at once.
2. **`BuilderLife`** with `Meta` and `Pool` (`jit-meta.c`, `jit-pool.c`, `free_builder`
   in `jit-function.c`): what is freed when a build fails, is abandoned
   or ends; invariant: freed once, and never reachable from what survives.
3. **`EventQueue`** (`jit-debugger.c`): the queue of events under its monitor,
   with `wait` under an `if`; abstract specification: a FIFO queue.
4. **Block moves** in `BlockBuilder` (`jit_insn_move_blocks_to_start/end`),
   jump tables, `jit_insn_check_null`; a composition of
   `Optimizer` with `RegAlloc`: the flags that liveness computes drive the allocator.

Runs stay below four minutes each: two or three threads, blocks of at most six
instructions, two registers and four values, three types deep.
