# XsLuaJIT in TLA+

A verification project for `src/XsLuaJIT/src`, the LuaJIT 1.1.8 virtual machine
with Coco and the Xs extensions. The rest of the repository is vendored
(`LuaJIT2`, `common`), tooling (`dynasm`, `jit/*.lua`, the launcher), a profiler
(`XsLuaLib_Shiny`) and a small library of ring buffers (`XsLuaLib_Xs`).

## 1. Inventory

| part | files | state it keeps | operations | how it meets the others |
|---|---|---|---|---|
| garbage collector | `lgc.c`, `lgc.h` | phase, colours, lists gray / grayagain / weak, sweep positions, userdata waiting for a finalizer | one step of a phase, barriers, full collection, finalizer calls | every allocation calls it, every store calls a barrier, it calls back into Lua for `__gc` |
| objects, upvalues | `lobject.*`, `lfunc.*` | object graph, open upvalues of each thread | create, capture, close, free | the collector traverses it, the interpreter writes it |
| string table | `lstring.*` | buckets of interned strings | intern, resize | a dead string can be found again; swept bucket by bucket |
| state | `lstate.*` | roots, main thread | open, close, new thread | `lua_close` runs finalizers outside a cycle |
| API, interpreter | `lapi.c`, `lvm.c` | stacks | push, pop, store, call | the operations of the program that relink objects |
| tables | `ltable.*`, `ltm.*` | array part, hash part with chains, cache of absent metamethods | get, set, rehash, next, border | weak tables are cleared by the collector, traversal meets dead keys |
| calls, errors, coroutines | `ldo.*`, `lcoco.*`, part of `lib_base.c` | call infos, error handler chain, C call count, status, C stacks | call, throw, pcall, resume, yield | every C function runs under it |
| JIT | `ljit_core.c`, `ljit_backend.c`, `ljit_mem.c`, `ljit_dasm.c`, `ljit_x86.*` | status of a prototype, machine code heap | compile, run, deoptimize, allocate and free code | prototypes are freed by the collector |
| memory | `lmem.c` | total bytes | realloc, vector growth | paces the collector |
| compiler | `llex.c`, `lparser.c`, `lcode.c`, `lzio.c` | per function state | parse, emit | allocates while it builds prototypes |
| precompiled code | `ldump.c`, `lundump.c` | none | write, read | |
| marshalling | `lib_marshal.c` | table of values seen, an index | encode, decode, clone | calls `__persist` hooks |
| references | `lauxlib.cpp`, `XsLuaLib_Xs` | free list in the registry, ring of references | ref, unref, put, get, free | ring slots own references |
| modules | `lib_package.c` | `_LOADED`, loaders, sentinel | require | runs arbitrary code between marking and storing |
| extension strings and buffers | `lxs_string.*`, `lxsmem.hpp`, `lib_buffer.cpp`, `lua_bufflib.c` | pointer, length, capacity | append, insert, remove, shrink | |
| extension core | `lxsext_core.cpp`, `lxs_api.cpp`, `lxsext_clog.c` | exit flag, log | init, exit handler, split | `luaG_errormsg` and `lua_close` call the Lua function `atexit` through it |
| profiler | `ShinyManager.cpp` | open-addressing table of nodes | find, insert, grow | |
| libraries, programs | `lib_*.c*`, `lua.c`, `luac.c` | little | | |

What is hard in this code: the program runs between any two steps of the
collector (interleaving); finalizers run inside it, resurrect objects, allocate
and so drive it further; strings and upvalues that are already condemned can be
found again; errors unwind through everything; structures keep two views of one
thing (a chain and a main position, a trailer and a size, a reference and a slot).
`PROJECT.json` lists these hazards, each at its line, with the properties that
cover it, or the reason why none does.

What makes each part correct: the collector never frees what the program can
reach, weakly or strongly, calls each finalizer once, frees what is garbage;
a table is a map whose traversal survives clearing fields; an error restores
exactly the state at the protected call; the blocks of the code heap tile it and
free neighbours are merged; a reference number is given out once; encoding and
decoding are inverse; a module is loaded at most once.

## 2. Modules

| module | what it is |
|---|---|
| `LuaGC` | the collector and the program: state, actions, specification |
| `LuaGCProps` | type correctness is in `LuaGC`; here are the invariants, the action properties and the liveness properties |
| `ObjectHeap` | the abstract specification: a heap that frees only what nothing can get at |
| `LuaGCHeap` | `LuaGC` implements `ObjectHeap` |
| `LuaGC_proofs` | type correctness, the inductive invariant, safety; what single steps may do: finalizers, weak tables |
| `LuaGCHeap_proofs` | the refinement of `ObjectHeap` |
| `LuaGCSetUpvalue` | `LuaGC` with `debug.setupvalue` on Lua closures |
| `LuaClose` | `LuaGC` and the closing of a state |
| `LuaTable` | one table: `ltable.c`, with the program that assigns to it and traverses it and what the collector does to its keys |
| `LuaTableProps` | its invariants, and the refinement of `TableMap` |
| `LuaTable_proofs` | all the properties of `LuaTableProps` |
| `TableMap` | the abstract specification: a map with a traversal |
| `LuaTableNoMem` | `LuaTable` when `resize` runs out of memory |
| `Links`, `Links_proofs` | lists linked through memory: following links, single and double lists, and the lemmas about both |
| `MCodeHeap`, `MCodeHeapProps` | the heap of executable memory, `ljit_mem.c`, its properties and its inductive invariant |
| `MCodeHeap_proofs` | the invariants of `MCodeHeapProps`, and the refinement of `CodeHeap` |
| `CodeHeap` | its abstract specification: disjoint blocks in mapped regions |
| `JitCode`, `JitCodeProps` | the driver of the JIT compiler: compilation, deoptimization, gates and modes; its properties and its inductive invariant |
| `JitCode_proofs` | all the properties of `JitCodeProps` |
| `LuaDo`, `LuaDoProps` | calls, errors and coroutines, and the invariant of their proofs |
| `CoroutineStatus` | the abstract specification: coroutines as `coroutine.status` shows them, without calls or stacks |
| `LuaDo_proofs` | all the invariants of `LuaDoProps`, and the refinement of `CoroutineStatus` |
| `Marshal`, `MarshalProps` | `marshal.encode` and `marshal.decode`, and the properties of both together |
| `Marshal_proofs` | all the properties of `MarshalProps` |
| `MCLuaGC`, `MCLuaGCSetUpvalue`, `MCLuaClose`, `MCLuaTable`, `MCLuaTableNoMem`, `MCMCodeHeap`, `MCJitCode`, `MCLuaDo`, `MCMarshal` | instances for TLC |

### The collector

State. `heap` is the set of allocated objects (`rootgc`, the string table, the
userdata list and the threads' upvalue lists together). `meta`, `entry`, `held`,
`stack`, `owner` and `uval` are what the objects refer to: a metatable, the pairs
of a table, the environment, upvalues and constants of a function, a thread's
slots, the thread in whose stack an open upvalue lives and the value of an
upvalue. `gcstate` is `g->gcstate`; `stage` names the `propagateall` that is
running inside `atomic()`; `full` is the loop of `luaC_fullgc` that is running.
A colour is relative to `g->currentwhite`: `"white"` is the current white,
`"dead"` the other one, so that flipping `currentwhite` exchanges them. Lists
whose order nothing depends on are sets. `sweepgc` holds the objects `sweeplist`
has not reached, `sweepstrgc` the next bucket.

Actions of the program. One per operation that relinks objects: `NewObject`,
`InternString`, `Push`, `Pop`, `SetEntry`, `ClearEntry`, `SetMetatable`,
`SetBasicMetatable`, `SetHeld` (environments, C upvalues, constants of
prototypes), `NewClosure`, `CaptureNew` and `CaptureOpen` (`luaF_findupval` in
`OP_CLOSURE`), `SetUpval`, `CloseUpval` (`luaF_close`), `FullGC`. Each contains the
barrier its code calls. The program may use any object it can reach (`Access`):
`Access` follows weak references as well, because Lua code can read a weak table.

Actions of the collector. `MarkRoot` ... `EndCycle` are the cases of
`singlestep()`; `Collector` is their disjunction. `atomic()` is cut at its four
`propagateall` calls; the program is shut out until `AtomicFlip`, so the cut is
invisible and only saves writing the closure as one step. `MutatorRuns` also shuts
the program out of `luaC_fullgc`, finalizers excepted.

What the model abstracts. When a step is taken (`GCthreshold`, `gcdept`,
`stepmul`): a step may be taken at any time, which includes every time the code
takes one. Sizes, `totalbytes`, the resizing of the string table, of its buffer
and of stacks. Resizing the string table in the middle of its sweep is harmless:
growing doubles it and moves a string from bucket `p` to `p` or `p + n`, never
behind the sweep, and `checkSizes` halves it only when the sweep has ended. The order of lists. Contents of strings: a string is its identity,
which is what interning makes it. `luaF_newupval` in `f_parser` is a closed
upvalue holding nil; a main chunk has none. A C function and a prototype hold
values in the same way and are one kind, `CFuncs`. Inside `luaC_fullgc` a
finalizer may do whatever the program does at other times, with the collector
between its steps, which is what `GCTM` allows (`luaC_checkGC` runs again only
above the threshold it raises; the model does not rely on it). A pair whose key is no
object stands for a slot of the array. In the hash part of a table with weak keys only
such a pair is looked at as well (`lgc.c:366`): its value is marked, so all that would
take out more is a userdata that has been finalized, which pairs with other keys show. The
reference of a Lua closure to its prototype (`lgc.c:234`) is left out; a prototype is
kept by what else refers to it. So are the strings with a `FIXED` bit, which are never
freed. Only threads the program can get at run: marking a running thread that nothing
else keeps (`lgc.c:536`) is not exercised.

`ObjectHeap` is the same heap without colours, lists and phases. Its state is the
allocated objects with what each refers to (`refs`) and keeps alive (`strong`), the
weak tables, the captured variables that live on a stack (`shared`), the roots
and the userdata waiting for a finalizer. A step allocates and relinks what the
program can reach, condemns userdata that nothing keeps alive, drops references
from weak tables, frees what neither the program nor a pending finalizer can get
at, or calls a finalizer. Garbage changes in one way only: a variable the program
has captured may be assigned while the dead thread it lives in is not yet
collected. In `Condemn` the references of an object whose own finalizer is pending
do not count (`Keeping`), see section 4.

### Closing a state, and `debug.setupvalue`

`LuaClose` adds to `LuaGC` what `lua_close` does with it: it separates all
userdata and calls their finalizers in whatever phase the collector is in. What is
separated during a sweep is not swept any more; that `g->sweepgc` may point into an object
that has changed lists is left out, and so is the call of `atexit` at the start.
`LuaGCSetUpvalue` adds the case of `lua_setupvalue` that `SetHeld` and `SetUpval` do
not cover, a Lua closure. They are kept apart from `LuaGC` because they break it
(section 4).

### Tables

State. `array` and `node` are the two parts, `node` a function from positions to
records with key, value and `next`; the empty function is `dummynode`. `lastfree`
is the free pointer. `hash` gives each key the number `mainposition` takes modulo
the size: the sum of the words of the double for an integer, the hash of a string,
an address. A key that is an object stands for its address, so an object that is
allocated where a dead key lay is that key. `cursor` is the key `next` returned
last, `control` the index a compiled loop (`jit_table_next`) keeps instead.

Actions. `Assign` is `luaV_settable`, nil included, which makes a field as well;
where it needs a rehash it computes the new sizes and leaves in `todo` what
`resize` inserts again, one field in each `Reinsert`, and in `pending` the
assignment that caused it (`AssignPending`). Nothing else happens in between; the
cut makes visible that the insertions find room. `luaH_resizearray` is `OP_SETLIST`.
The nodes of a chain (`Chain`) are what every set that keeps its links contains,
the fields a rehash moves (`WithValue`) and the border search
(`unbound_search`, `LinearSearch`, `BinarySearch`) are recursive functions: all three can be
reasoned about.
`StartTraversal`, `luaH_next` and `LeaveLoop` are a loop; during one the program
assigns to existing fields only, as the manual demands. `traversetable` marks the
keys of empty nodes dead, `cleartable` clears a field of a weak table.

What the model abstracts. The barrier of `luaH_newkey` (part of `SetEntry` in
`LuaGC`), metatables, keys that are neither positive integers nor objects (they
hash like one or the other and are never dead), `nil` and NaN as keys (an error
that changes nothing). There is one traversal at a time: traversals do not write, and
go on from a key that the table has (`luaH_next` raises an error for another).
`traversetable` marks the keys of all empty nodes dead; for a table that is weak in both
halves the code returns before (`lgc.c:177`), and the keys of fields that the program has cleared
stay as they are. `resize` never gets as far as "table overflow" (`ltable.c:281`).

`LuaTableNoMem` adds the failure of the allocation of nodes in `resize`. It is kept
apart because it breaks what `TableMap` promises (section 4).

### Machine code

State. `heap` is the memory of `ljit_mem.c`, in granules of four words: the links
`next` and `prev` and the size of free chunks, the trailer in the word before each
address (a size and the flags USED, LAST, FIRST of the chunk behind it), the head
`mcodeheap` and the mapped regions. `blocks` is what the compiler holds.

Actions. `luaJIT_link` allocates (`mcode_alloc`: first fit, cutting, a new region) and
may release at once, when encoding fails; `luaJIT_freemcode` releases (`mcode_free`:
joining with either neighbour, or both); `luaJIT_freebackend` unmaps all regions
along the chain of their headers. A helper stands for each branch of the code and
rewrites the words that the branch writes, in its order. The bytes of a block
overwrite all words inside it: they read as zero, so that a stale link is visible.

What the model abstracts. The POSIX branch is the one modelled. Rounding the size
of a region up to a large code block (`MCH_ROUNDHEAP`) never happens, as
`luaJIT_link` refuses code above `LUAJIT_LIM_MCODE`. Regions touch, the worst
case for chunks that are joined across a border.

`CodeHeap` promises disjoint blocks inside mapped regions, and that a region is
mapped only while no hole is large enough, which fails as soon as two free
neighbours are not joined.

### JIT driver

State. Of each closure its `jit_gate`; of each prototype `jit_mcode`, `jit_szmcode` and
`jit_status`; the allocated blocks (`code`) with their trailers (the next block of the
chain and its size), the instructions they have code for, those marked as
deoptimized and the places patched to jump elsewhere; the flags `on` and `compiling` and
the compilation in progress (`job`). The size of a block is named by the block
itself, so that a size stored with the wrong block is visible.

Actions. `Load`, `luaF_newLclosure`, `luaF_freeclosure` and `luaJIT_freeproto` are what
the interpreter and the collector do; `SetEngine` and `luaJIT_setmode` the modes;
`GATE_JL` is a call through the default gate that finds code; `luaJIT_run`,
`luaJIT_compile` and `luaJIT_deoptimize` enter `jit_compile`. A compilation runs handlers
written in Lua before and after the backend; between `jit_compile` and `StartBackend`
and between the backend and `FrontendReturns` the program may do anything, a nested
compilation included, which is refused. `jit_compile_proto` is one round of the
backend: the whole function, or one instruction that is deoptimized.

What the model abstracts. The codes above `JIT_S_NONE` are one status, `OFF`: nothing
tells them apart. An instruction of `PCs` is a group that is compiled together.
Left out: the map of machine addresses to instructions (`luaJIT_findpc`,
`jit_mfm_merge`), the debug modes, an initialisation that fails. The backend runs once in a
compilation, on the function it was started for: a handler could call it again, or change
`func` in the state of the compiler (`ljit_backend.c:284`).

### Calls, errors and coroutines

State. `thread` has a record for each `lua_State`: status, call infos (`frames`, by the
kind of function), `size_ci`, `nCcalls`, `allowhook`, `errfunc`, the call infos with open upvalues, and
the C stack that runs it (`native`): the activations of `luaD_call`, the gates,
`luaV_execute`, `luaD_pcall`, hooks, error handlers and the body of a coroutine, with the
locals that `luaD_pcall` restores. `top` tells what lies on the stack of a thread without
call infos: the function to be started, results that were left, or nothing. `running`
is the chain of resumed threads. `err` is the error on its way: `runerror` is raised,
`handling` has called `atexit`, `throw` is `luaD_throw`, and `ended` is a process that
exits. `exiting` is the variable of that name in `lxsext_core.cpp`; it may be set from the
start, since another state may have set it, and since with `LUAXS_EXTENT_SCRIPTS_ONLY` the
calls in `luaG_errormsg` are left out (`lxs_canextend`).

Actions. `CallFromLua`, `CallFromC` and `ProtectedCall` enter a function, each with
`luaD_precall`, `inc_ci` and `luaD_growCI` in it; `Return` is `luaD_poscall` with the ends of
all activations that end with it. What is called may be a value that is no function
(`luaD_tryfuncTM`), which is an error after the call has been counted. `Fail`,
`lxs_core_luastack`, `lxs_core_atexit`, `luaG_errormsg` and `luaD_throw` are an error on its
way: the message is written anew, for which there may be no memory; the first error of
the process calls the Lua function `atexit` where it happened, whether anything catches
it or not; then the error handler is called, if there is one and it is a function;
then the innermost protected call, or the body of a coroutine, catches it. Either call
may fail again, or overflow. `lua_resume`, `lua_yield` and `Finish` are coroutines, with a C
stack (`coco`) and without. `Start` calls whatever is on top: `luaB_cocreate` has checked the
function of a new coroutine, but a result that was left may be anything, a C function of a
thread that has no C stack any more included; when that yields, the next resume goes
on at a null pointer (`Continue`, section 4). `lua_checkstack` is the call in `auxresume` that
fails on the thread to be resumed, where nothing catches the error (section 4).
`checkstacksizes` is the collector shrinking the array of call infos.

What the model abstracts. The stack of values and with it tail calls; the
protected parser, which is one more protected call; error codes, which nothing in
these files distinguishes but `coroutine.status`; the compilation that
`luaJIT_run` starts within a call; coroutine functions that the JIT compiles inline.
`lua_error` with a value that is no string skips `lxs_core_luastack`, which is to go on.
Call infos and fields of a dead coroutine are left out, as nothing goes by them again
(`Died`). After `ended` nothing is modelled: neither what a panic function does, nor
where `lua_checkstack` gets when the thread to be resumed waits on the chain itself, so that an
error on it is caught below threads that still run. `luaD_seterrorobj` has memory
for its message. `lua_close` calls `atexit` too (`lstate.c:233`), before the steps of `LuaClose`.

### Marshalling

State. `graph` is the call of `marshal.clone` under way: a value with all it refers to,
and the constants known to both sides. `enc` and `dec` are the nested calls of
`mar_encode_table` and `mar_decode_table`, each with what it still has to read and what it
has written or read so far; `seen` and `found` are the two tables of values met,
`idx` the next number. `built` is what the decoder has made, with the value it was
made for: only the properties read that.

Actions. One for each case of `mar_encode_value` and `mar_decode_value`, one for each
return of the two table functions. The string between the two is a sequence
of tokens; a token with a length has its contents as its body, which is what
reading exactly that many bytes amounts to.

What the model abstracts. Bytes, lengths and buffers, the Lua stack, malformed
input. A `__persist` hook is the function it returns; the order of `lua_next`
is the order of `fields`. A hook returns a Lua closure: one that returns a C function
known to both sides is accepted by the code as well (`lib_marshal.c:189`, `lib_marshal.c:308`).
Values without an encoding are met as fields or upvalues; a coroutine among the constants
is a reference in the model, and an error in the code (`lib_marshal.c:334`).

## 3. Runs

Every run of the collector uses a handful of named objects; all but the registry and the main
thread start out unallocated and can be created, freed and created again any
number of times, so no counter has to be bounded. The bounds are `MaxStack`
(values on one stack), `MaxRefs` (pairs of a table, references of a function) and
the sets `Metatables`, `Environs`, `Containers`, `Keys` that restrict which objects
the program uses in which role. With one slot per stack and one pair per table
an object can still be moved from a table or an upvalue to a stack and back
behind the collector's back, which is what every hazard of section 1 needs; larger
bounds add copies of the same situations.

| run | instance | shows |
|---|---|---|
| `weak` | 1 table that is its own metatable, weak in both halves and with a finalizer, or none; 1 userdata as key and value; full collections | type correctness, the inductive invariant, `NoDanglingAccess`, `OneList`; `FinalizerProtocol` (freed only when dead and not pending, put up once, handed back to the program); `WeakClearsOnlyGarbage`: a pair is taken out of a weak table only if one half was weakly held or its value has been finalized; and that every step is one of `ObjectHeap` |
| `closures` | a C closure kept in the registry, a Lua closure, a string | values and environments replaced under the forward barrier in every phase; a string revived while condemned: `IInv`, which contains every invariant of the collector |
| `coroutines` | a second thread, a Lua closure, an upvalue | open upvalues of threads that live and die: `IInv` |
| `liveness` | 2 tables, 1 userdata, `FairSpec` | garbage is freed or found again, pending finalizers are called; and, with tables that refer to one another, the inductive invariant, from which `NoDanglingAccess` is proved |
| `setupvalue` | 2 closures sharing a variable | a violation, see section 4 |
| `lua_close` | 2 tables, 1 userdata | a violation, see section 4 |
| `table` | 2 integer keys, 1 string, 1 pointer, 1 value, 3 hash functions; tables created with up to 2 slots and up to 4 nodes | `TableInv`: every key is found from its main position, the collision rule of `ltable.c:16`, no key is in both parts, and there are free nodes for what a rehash has still to insert; `RoomAfterRehash`; `SameIteration`: interpreted and compiled loops agree; `BorderFound`; `LargestHalfUsed`; `ImplementsMap`: every step is one of `TableMap` |
| `table_nomem` | 2 integer keys, 1 string | a violation, see section 4 |
| `mcode` | code of 3 and of 11 words, regions of 6 granules, 12 granules in all | `HeapInv`: trailers, free list and blocks describe one partition of the mapped memory; `MCodeInv`, from which it follows; `ImplementsCodeHeap` |
| `jit` | 3 closures, 2 prototypes, one nested in the other, 2 instructions, 4 blocks; closures of one prototype and blocks are symmetric | `ChainsOwnBlocks`: every block is released once, with its true size; `GatesLeadToCode`; `StatusAgrees`; `DeoptReached`: a frame finds the code the patched jumps lead to; `JitInv`, from which all of them follow; `CodeIsRetained` |
| `calls` | the main thread and 2 coroutines, at most 3 call infos and 3 C calls, an array of 1 to start with | `FieldsMatchCStack`: after any error the fields agree with what is left of the C stack; `StackFits`; `StatusIsTrue`; `SuspendedIsClean`; `CallInv`, from which all of them follow; `ImplementsStatus`: every step is one of `CoroutineStatus`; and no deadlock: an error raised on the running thread finds a protected call or the body of a coroutine |
| `marshal` | a table with up to two pairs, two closures with up to two upvalues, a table with a hook, a userdata with or without one, a C function known to both sides or not | `RoundTrip`: what comes back is the original, sharing and cycles included; `NumbersAgree`: both sides give a value the same number |

The instance of `table` is large enough for what its properties are about: with
four keys and four nodes a colliding node lies out of its main position and is moved
(the hash functions of `MCLuaTable` are chosen for it), a key lies in a chain both
dead and alive, integers move from nodes to the array and back, and `MAX_INT` is
so small that the border search overflows into the linear one. The hash parts are
rehashed from 0, 1, 2 and 4 nodes.

`mcode` has one block size that fills a hole exactly, one that leaves a rest, and two
regions that touch: chunks are cut and joined at the first, at a middle and at
the last place of a region. `jit` has room for a main block, two blocks of
deoptimized instructions and the recompilation that puts them behind a new one;
`MaxChain` bounds the recompilations. In `calls` one coroutine nests three calls, and has a hook, which
overflows the call infos (3) and the C calls (3), and once again in the error handler or
`atexit` (`CExtra` 1); the other, and the main thread, nest one; they are there to be
resumed and to resume, and the main thread to leave a shared variable behind in an
error. `atexit` is called in any of them, once.
In `marshal` two pairs are enough for a value to be met twice, before and after
another one, and for every cycle through a table, a closure and a hook; a hook that
captures its own table recurs for ever in the code, and stops at `MaxDepth`.

Fairness. `FairSpec` assumes weak fairness of `Collector` and nothing of the
program. It is the model's form of `luaC_checkGC`, which follows every
allocation in the code, of a program that goes on allocating and has not stopped
the collector. `GarbageIsFreed` and `FinalizerIsCalled` are about such programs:
one that never allocates again never collects.

Deadlock is checked in all runs but `lua_close`, where a closed state stops, and
`marshal`, where a decoded value, or an error, is the end.

Mutants. `PROJECT.json` names, for each property of each passing run, a
definition changed as a plausible bug would change it (a barrier left out, a stage
of `atomic()` skipped, a dead string not revived...). They stand before the
definition they replace, marked as mutants; nothing else uses them.

## 4. Findings

* `setupvalue`. `lua_setupvalue` (`lapi.c:1184`) stores in an upvalue but applies
  the barrier to the closure (`lapi.c:1195`). If another closure shares the
  variable and has been traversed, the upvalue is black and the closure at hand
  may still be white: no barrier acts, the value stays white under a black
  upvalue and is freed while the program can read it.
* `lua_close`. `lua_close` calls `GCTM` in any phase (`lstate.c:252`). `GCTM` makes a
  userdata white; in a mark phase black tables may refer to it. If the
  finalizer of this or another userdata allocates enough to finish the cycle, the first
  one is freed although those tables are reachable from the finalizers still to
  come.

* `table_nomem`. `resize` grows the array part (`ltable.c:303`) and then allocates
  the nodes; if that allocation fails the error leaves integer keys in the old
  nodes which the array part now claims. `luaH_get` finds `nil` for them, and a
  traversal that meets one in the hash part takes it for a slot of the array and
  goes round for ever. `TraversalAdvances` is the order `ltable.c:133` describes.

Some smaller observations came up and have no run of their own.
`cleartable`
(`lgc.c:367`) removes a pair of a weak-keyed table when its value is a userdata
that has been finalized and its key is alive, whereas the manual says weak keys
prevent the collection of values: `WeakClearsOnlyGarbage` states the exception.
The assertion in `luaC_barrierf` (`lgc.c:664`) that it is not reached between two
cycles does not hold inside a finalizer that changes the metatable or the
environment of a userdata whose finalizer is still pending, and so black.
For the same reason `luaC_separateudata` may put up a userdata that is still in use,
against the comment at `lgc.c:127`: if a full collection starts while a userdata
`a` waits for its finalizer, `a` is black and is not traversed before `marktmu`; a
userdata that the program holds through `a` alone, having found `a` as a weak key, is
then finalized too early. It is not freed: `marktmu` marks it in time.
The comment at `ltable.c:11` gives the array part the largest size of which "at
least half" is in use; the code, and `LargestHalfUsed`, want more than half of a
power of two.

In the JIT driver, an allocation that fails in `lib_jit.c:281` leaves
`JIT_F_COMPILING` set, and nothing is compiled any more; deoptimizing code that is
running recompiles a function that `jit.off` has switched off meanwhile, and switches
it on again (`ljit_core.c:282`); the count of a delayed compilation is never
reset (`ljit_core.c:174`). In `ldo.c:385` the C calls are compared with the limit by
`==`, while a gate of compiled code counts without a test and may step over it; the
second limit stops it. A finished coroutine whose results did not fit on the
resuming stack has them left on its own and counts as suspended (`lib_base.c:550`): resuming
it calls the last of them. If that is `coroutine.yield`, or a C function that yields, it
yields on a thread that has lost its C stack (`lcoco.c:653`), and the next resume fails the
assertion at `ldo.c:410`, or without assertions runs `luaV_execute` with no interpreted
function and a null `savedpc`. `SuspendedIsClean` is stated with this exception, which TLC
finds when it is left out. `auxresume` makes room for the arguments on the other
thread (`lib_base.c:539`): if memory runs out there, the error is raised on that thread,
where no protected call is, and the process exits. It does so before it looks at the
status, so it may be a thread of the chain.

In marshalling (`RoundTrip` and `NumbersAgree` are stated with these exceptions; TLC finds
each when it is left out): a table with a `__persist` hook gets no number from the
encoder, but one from the decoder (`lib_marshal.c:418`), so that all later references are
wrong by one, and it is encoded again each time it is met; a userdata is
numbered before its hook's function by the encoder and after it by the
decoder, so that `{u, u}` does not come back as it was; upvalues behind one that is nil
may be lost, as many being restored as `lua_objlen` finds (`lib_marshal.c:455`).

## 5. Proofs

`LuaGC_proofs` proves, for every set of objects and every bound, from the
assumptions that `LuaGC` states on its constants (kinds are disjoint, `None` is no
object, the roots are objects, metatables are tables, buckets exist):

| theorem | statement |
|---|---|
| `TypeCorrect` | `Spec => []TypeOK` |
| `Invariant` | `Spec => []IInv` |
| `OneGclist` | `Spec => []OneList` |
| `Safety` | `Spec => []NoDanglingAccess` |
| `Finalizers` | `Spec => FinalizerProtocol` |
| `WeakTables` | `Spec => WeakClearsOnlyGarbage` |

The argument. `NoDanglingAccess` is not inductive: it says nothing of colours. The
strengthening `IInv` replaces reachability, which no first-order prover handles
well, by a closure property that is kept step by step:

* `LiveClosed`: what is not dead refers, weakly or strongly, only to what is
  allocated and not dead, and the roots are not dead. The live set is then closed
  and contains the roots, so it contains everything reachable: that is the step
  from `IInv` to `NoDanglingAccess`, and the only place where `Access` is unfolded.
* `TriColour`, `GrayListed`, `RootsMarked` and `StageDone` make `LiveClosed` survive
  the flip of the current white in `AtomicFlip`: when the last gray object is gone
  every marked object refers to marked objects only, thanks to what each stage of
  `atomic()` has dealt with.
* `SweepCovers`, `SweepPosition`, `RestIsWhite`, `NothingDeadInMark` say that after
  the sweep no dead object and no mark is left, so that the next cycle starts clean.
* `ColourOfKind`, `OneList`, `OwnersAllocated`, `FreedIsEmpty`, `StagesInMark` are what
  the others need of single objects.

There is one lemma per action (`Ind...`); lemmas about `Newly`, `Painted`, `StrongRefs`
and the two barriers are stated once. `Invariant` combines them.

The two action properties, and `Refinement` (`Spec => ImplementsObjectHeap`) in
`LuaGCHeap_proofs`, build on it:

* `Finalizers` needs one more invariant, `DeadAreSeparated`: a dead userdata has been
  through `luaC_separateudata`, so that `sweeplist` frees none whose finalizer was
  never considered.
* `WeakTables` rests on `StrongIsMarked`: when `atomic()` clears the weak tables, the set
  of marked objects contains the roots and is closed under strong references, so
  that what `iscleared` finds unmarked is held by weak references alone.
* `Refinement` takes the actions one by one (`Sim...`). `Access` of the model is
  `Access` of the abstract heap (`HeapAccess`); an action of the program relinks
  only what is in it or what it has found or made, so that `Access` grows by that at
  most (`ProgramStep`). What `Swept` frees is dead, and what the program or a pending
  finalizer can get at is live by `LiveClosed`. A table in the list `weak` still has
  its mode (`WeakHaveMode`), hence `cleartable` takes references from weak tables only;
  a thread is freed with its open upvalues closed or dead (`SweptAreClosed`). What is
  kept by the roots, other than through a pending userdata, is marked again before
  `luaC_separateudata` looks (`KeptIsMarkedAgain`): the step for `Condemn`.

`Reach` and `Access` are defined by closed sets, not by recursion, which is what makes
these proofs possible without induction over data.

`LuaDo_proofs` proves the invariants of the run `calls` for every set of coroutines, every
depth and all limits, from the assumptions of `LuaDo` on its constants (the main
thread is no coroutine; the limits are positive):

| theorem | statement |
|---|---|
| `CallsAreSound` | `Spec => []CallInv` |
| `FieldsMatch` | `Spec => []FieldsMatchCStack` |
| `Fits` | `Spec => []StackFits` |
| `StatusTold` | `Spec => []StatusIsTrue` |
| `Suspended` | `Spec => []SuspendedIsClean` |
| `CallTypes` | `Spec => []TypeOK` |
| `StatusRefined` | `Spec => ImplementsStatus` |

The argument. `FieldsMatchCStack` says what the fields of a thread are now; an error goes
back to what they were, so the strengthening `CallInv` says it of every prefix of the C
stack too:

* `Recorded(t, n, ...)` is `FieldsMatchCStack` for the first `n` activations.
  `LocalsAreTrue`: every `luaD_pcall` keeps in its locals what is recorded below it. Then
  `Caught` restores what is true, whatever the error skipped.
* `Nested`: activations and call infos grow together, and a protected call starts at a
  call info of its own or right above a hook. So what `Caught` and `Returned` leave
  lies within the call infos that are left, and a coroutine's body is never caught away.
* `Settled`: between two steps only a hook runs on top of a call info. An error
  suspends it; `atexit` and an error handler break it for one step: `Return` into `atexit`
  goes on to the handler, `Return` into a handler throws.
* `RunsInCall`: what a hook, `atexit`, an error handler or a protected call runs is counted.
  It is why a coroutine without a C stack that counts no call can leave its activations
  when it yields, and why the main thread, which the host calls in protected mode
  (`MainIsProtected`), never gets as far.
* `Uncounted`: a call info that is in no counted call is one that `luaV_execute` made, or
  the body. A coroutine without a C stack yields only when no call is counted, so that all
  its call infos are of this kind: that is what `luaV_execute` finds when it is resumed. A body that is
  a C function has a C stack, or was a left result. It is kept by entering: compiled functions
  are entered by a gate, which counts (`Enterable`), and compiled and C functions run others in
  counted calls only.
* `OnChain` and `OffChain` tie status, body and call infos to the chain of resumes, in which
  every thread is once: from them follow `StatusIsTrue` and `SuspendedIsClean`.

Lemmas about entering (`Entered`: at once, or with either error), leaving (`LeftSound`) and
the two ends of an activation come first, about one thread alone; then there is one
lemma per action (`...Keeps`). `LeastSubset`, `MaxOfSet` and `MinOfSet` give bounded sets a
least and a greatest member, from the well-foundedness of finite sets.

`StatusRefined` rests on `StatusIsTold`: in every state that satisfies `CallInv`, also while
an error is on its way, `costatus` depends on the chain of resumes and, off the chain,
on the status and the top only (`Off`). So a step that changes nothing but the thread that runs
is a stutter (`OnlyTheRunner`), and one that shortens the chain is a `Leave`, whichever of
`luaD_throw`, `Finish` and `lua_yield` it is (`LeavingIsTold`).

### Lists in memory

The chain of a prototype's blocks, the jumps patched into them, the regions and the free
list of the code heap are lists that exist only as links in memory. `Follow` reads such a
list, up to a bound. The invariants name the list that `Follow` finds and say it is one
(`IsList`: it begins and ends where it should; `Distinct`). `ListFound` is what the proofs
rest on: when some sequence without repetition is the list from an address on, `Follow` finds
that sequence. So for each step a proof gives the new list outright, shows that the
changed links are it, and needs nothing about following them. `ListStays` says that a list is
not disturbed by what is written elsewhere, `InsertIsList`, `RemoveFromDoubleList`,
`ReplaceInDoubleList`, `PushInDoubleList` and `NewHeadOfDoubleList` are the surgery that the
code performs. `Follow` is a recursive function on numbers; the lemmas about it (`OneStep`,
`FollowIsList`) are proved from a least counterexample (`LeastNat`), as no theorem on
induction can be applied.

### The JIT driver

`JitCode_proofs`, from the assumptions that `JitCode` states on its constants (every closure
has a prototype; instructions are numbered; there are finitely many blocks; `Null` is no block and
`NoJob` no compilation):

| theorem | statement |
|---|---|
| `JitTypeCorrect` | `Spec => []TypeOK` |
| `JitInvariant` | `Spec => []JitInv` |
| `BlocksAreReleasedOnce` | `Spec => []ChainsOwnBlocks` |
| `GatesAreSafe` | `Spec => []GatesLeadToCode` |
| `StatusIsTrue` | `Spec => []StatusAgrees` |
| `DeoptimizedFrameGoesOn` | `Spec => []DeoptReached` |
| `CodeStays` | `Spec => CodeIsRetained` |

The argument. The driver describes one set of blocks three times: the prototype points to
the main block and each trailer to the next (the chain); marks say which instructions of a
block have been deoptimized; and jumps lead, in the code itself, from an old entry to the new one (the
path). The strengthening `JitInv` says of each that it is a list, and how they agree:

* `ChainsAreLists`, `BlocksAreOwned` and `SizesAreTrue`: the chains partition the allocated
  blocks, so that releasing a prototype releases what it owns and no more.
* `PathsAreLists`: for each instruction the patched jumps are a list within the chain of the
  same prototype, and it ends where `luaJIT_findmcode` ends, which looks at
  chains and marks only. This is `DeoptReached`; it is inductive only together with the rest.
* `JobIsSound` and `StatusesAgree` are about the compilation that handlers interrupt: what its
  frames still know about the closure and the prototype is true when it goes on, whatever the
  handlers did.

There is one lemma per action. `SameCodeInv` serves all that leave prototypes and blocks
alone; `MainStep` and `DeoptStep` are the two kinds of a round of the backend: a new main block
in front of the chain, and a block of deoptimized instructions behind the main block.

### The machine code heap

`MCodeHeap_proofs`, for all sets of code sizes, sizes of regions and sizes of memory, from
`SizesAreNat` (they are numbers; code and memory are not empty) and
`CodeFits` (code and header fit in a region of the usual size, as
`luaJIT_link` sees to):

| theorem | statement |
|---|---|
| `HeapTypeCorrect` | `Spec => []TypeOK` |
| `HeapInvariant` | `Spec => []MCodeInv` |
| `HeapIsPartitioned` | `Spec => []HeapInv` |
| `HeapRefines` | `Spec => ImplementsCodeHeap` |

The argument. `HeapInv` looks at the mapped memory cell by cell. `MCodeInv` says the same, and
more, of sets of chunks: `IsHeap(m, U, F, ...)` holds of the words `m` when `U` are the chunks in use
and `F` the free ones. They tile the regions (`Tiling`); the trailer before each
chunk has its flags and the size of the chunk before it (`TrailersTrue`); no two free ones
are neighbours (`NoneToJoin`); the free list holds the newest header and the free chunks
(`FreeLinked`), the headers are linked from the newest to the oldest (`RegionsLinked`).
`NoneToJoin` has to be in it: joining with both neighbours reads the sizes of two chunks, and
would leave a third behind.

* One lemma for each branch of the code says which words it leaves how (`SplitIs`,
  `JoinPrevIs`, `JoinNextIs`, `JoinBothIs`, `KeepIs`, `NewRegionIs`), and one what that means for the
  chunks: `HeapTaken` (an exact fit), `HeapCut`, `HeapJoinPrev`, `HeapJoinNext`, `HeapJoinBoth`,
  `HeapKept`. `HeapRewritten` is what they share: chunks in one place of one region are
  replaced by others that fill the same place, with true trailers.
* The code in a block overwrites the words inside it (`GivenIs`). None of them is one that
  `IsHeap` reads: headers, other chunks and links lie elsewhere (`Outside`).
* A region that has just been mapped breaks the invariant for the time of one loop: the old first
  free chunk keeps its `prev`, which points to the old header (`ljit_mem.c:194`). `NewIsStale`
  says that the heap then is one that satisfies `IsHeap` (`HeapBegun`) but for this one word,
  and `StaleFirstFit` that the allocation which follows writes the word before anything reads
  it: the first chunk that fits is the one of the new region, no older one having
  been large enough.
* Refinement. A block of `CodeHeap` is a chunk in use, a region a mapped one. A chunk found by first
  fit is a hole. That a region is mapped only when there is none is `HolesAreFree`: a hole
  lies in cells that no block covers, hence in free chunks, hence, as
  no two are neighbours, in one; that one would have fitted. `luaJIT_freebackend` walks the
  headers, which are those of all regions (`ClosedIs`, from `RegionsLinked`).

### Tables

`LuaTable_proofs`, for every set of keys, every hash function and all sizes, from the
assumptions that `LuaTable` states on its constants (kinds of keys are disjoint, what marks
an absent key or value is neither, hashes are numbers):

| theorem | statement |
|---|---|
| `TableTypeCorrect` | `Spec => []TypeOK` |
| `TableWhole` | `Spec => []TableInv` |
| `LoopsTogether` | `Spec => []SameIteration` |
| `RehashMakesRoom` | `Spec => []RoomAfterRehash` |
| `LengthIsBorder` | `Spec => []BorderFound` |
| `ArrayHalfUsed` | `Spec => LargestHalfUsed` |
| `TableIsMap` | `Spec => ImplementsMap` |

The argument. `TypeOK`, `TableInv` and `SameIteration` are inductive together
(`InvKept`): what a step of a traversal finds depends on the chains, and what the
collector and the program do to the nodes under it on the types.

* Chains are relative links that `luaH_newkey` changes in two places at a time. A chain is the
  least set that has a node and keeps links, so that two lemmas say all about the surgery:
  `InsertedChain` (a free node behind a node) and `MovedChain` (a node moves, and the one link
  to it with it). `Linked` has no recursion either: each node is linked to once at most, and
  every set of nodes has one whose link leaves it.
* A node that moves away from `mp` takes its place in its chain with it, but a key whose main
  position is `mp` would be lost. `Brent` says there is none: the node there was not in
  its own main position, so no key that lies in the hash part has `mp` for its own
  (`WholeShifted`).
* A key may lie in a chain twice, dead and alive. `Reachable` says that the live node comes
  first, so that `luaH_get` finds it and a traversal that stands at the key
  goes on from it; an empty node that is given another key keeps its place
  in the chain it is in (`WholeTaken`).
* Room. `RoomIsLeft` counts: the keys that are awaited and do not fit the array are no more
  than the free nodes. An insertion takes one of each (`ReinsertKeeps`), and when
  the free pointer has passed a node, it has a key (`Passed`). It begins with `RehashSizes`: the keys that
  `numusehash` and `numusearray` count, and the one that caused the rehash, less those that
  `computesizes` gives to the array part, are at most the size of the new hash part.
* The refinement has its own view of the table while it is rebuilt: what it has, it has in its
  parts or among what is still to be inserted (`ContentHas`), so `Reinsert` is a
  stutter. A traversal has still to meet the fields behind its place (`UnseenIs`); assigning to a
  field that is there moves no field (`FindSame`), which is what the demand of the manual is for.

Nothing here is proved by induction over data, for which no theorem can be applied. Powers of two
are counted as sets of subsets (`Subsets`), so `PowerDoubles` follows from a bijection. Recursive functions
exist, and have what each call keeps, by a least counterexample: `Recursion` and `Upwards`
for those on `0 .. N`, `LoopExists` and `LoopKeeps` for a loop with a measure, which is what the border
search is. It ends since no more integers in a row can have values than
the table has places (`RowIsShort`).

### Marshalling

`Marshal_proofs`, for every set of graphs, of any size, with sharing and cycles, from the assumptions
that `Marshal` states on its constants: graphs are typed (`GraphsAreTyped`), the numbers that
are keys are in a list without repetition, as long as the longest list of upvalues
(`IndexIsTyped`), and values of different kinds differ (`KindsAreApart`). The last also keeps
values apart from numbers, since a number stands for the object that has been built at that
position.

| theorem | statement |
|---|---|
| `MarshalTypeCorrect` | `Spec => []TypeOK` |
| `NumbersOfBothSides` | `Spec => []NumbersAgree` |
| `DecodedIsEncoded` | `Spec => []RoundTrip` |

The argument. That decoding inverts encoding looks like an induction over a tree of tokens, for
which no theorem can be applied. It is done without one: a step of the decoder undoes
a step that the encoder made, and what the encoder did is remembered.

* `R` is a relation that says of tokens between which numbers they were written: the next
  number before the token and the one after it. `Written` says what that means for one
  token, by way of the tokens in its body, which are in `R` too (`AllWritten`), one
  starting where the one before it ends (`Chained`). The encoder keeps (`EncInv`): there is
  such a relation for all it has written, and for each call still open the place where it will
  close. A call that returns adds one token to `R`; nothing is taken out.
* Decoding only looks at `R`: `DecCalls` says that in each open call the tokens still to be
  read are chained from where the decoder is (`e`) to where the enclosing call goes on. The
  decoder's own number is `e` less one for each userdata whose hook has not returned
  (`c`, `Owed`): the encoder numbers those before, the decoder after.
* `NumsOK`: what is built and was not shifted is found under its number; every value with a
  number below `e` has been built, or is a userdata whose hook is running; none is built
  twice. Hence a reference finds what its value became (`StateRef`).
* `ObjsOK`: what each open call has read so far is what its items became (`GotOK`), and the
  objects that are not open have their contents (`ClosedOK`). Calls within a hook are left out.
* `FunctionContent`: the table of upvalues holds pairs of a number and a value, in some order
  and with holes (`UpvaluesAre`); `At` finds those that are there (`AtIs`), and
  whichever border `lua_objlen` returns, what lies behind it and is lost lies behind a nil.
* Once a table with a hook has been built, the numbers no longer agree, and `MarshalInv`
  says no more of them (`RebuiltIn`); no later step can lead back, as nothing that has been built is
  taken away (`RebuiltOlder`).

There is one lemma per action (`Step...`), on top of one about each kind of step
of the decoder's calls (`StatePut`, `StateVal`, `StateHook`, `StateReturn`, `StateRebuilt`).

### What is only model-checked

Liveness and fairness, which are out of the prover's reach, and the absence of deadlock,
which is a statement of `ENABLED`: every other property of the passing runs is a theorem.
The three runs that expect a violation show what the code does not keep.

## 6. Not modelled, and what is left to do

The project keeps to a small number of runs, each with several properties, and
each about a part of the system where steps of several actors or a long history
matter. Left to do, in the order of importance:

1. The stack of values of `ldo.c`, and tail calls, on top of `LuaDo`.
2. The order of finalizers (userdata created later first, `lgc.c:145`), and the pacing of
   collections by `totalbytes`, `GCthreshold` and `gcdept`.
3. Failing allocations while a state is opened (`lstate.c:201`).
4. `luaL_ref` and `luaL_unref`, the sentinel of `ll_require`.

Not modelled, and why:

* The ring of references of `XsLuaLib_Xs`. `cbMake` leaves the slots uninitialised
  (`cbInit` without `allocElements`) and `xs.cpp:49` releases what a slot held: what the
  first puts into a new ring do is undefined, and there is no initial state to model.
* The compiler, precompiled code, the code generator. Sequential translations of
  unbounded input; `DeoptReached` and `ChainsOwnBlocks` cover what links them to the rest.
* The libraries: functions of their arguments, or the operating system's. The
  containers are compiled out (`LUAXS_ADDLIB_CONTAINER`).
* The strings and buffers of the extension, its core, the profiler: sequential
  data structures, which unit tests reach well. The one callback of the core, `atexit`,
  is part of `LuaDo`.
* Vendored code (`LuaJIT2`, `common`, EASTL), tooling, stand-alone programs.
