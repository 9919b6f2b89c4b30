# A TLA+ model of luarc-5.1

luarc-5.1 is Lua 5.1.4 with immediate reference counting (`LUA_REFCOUNT = 1`)
on top of Lua's incremental mark-and-sweep collector.  An object is released by
the store that drops its last reference; the collector remains for cycles.  The
two memory managers share the object headers, the lists and the finalizers, and
either can run inside the other.  Counting also changed the rest of the
implementation: a stack slot that is given up must be set to nil, so calls,
errors, coroutines, the API and most instructions were rewritten.  This
directory models the two memory managers, the tables, the stacks, and the path
of a chunk from its tokens to its result, in TLA+.  Paths below are relative to
the repository; line numbers are those of this commit.

## 1. Inventory

| Component | State | Operations | Hard part | What makes it correct |
|---|---|---|---|---|
| Reference counting (`lobject.h` 147-261, `lobject.c` 238, `lgc.c` 930-1255) | `gch.ref` of every object; the C stack of `luaC_freeobj` activations; `FINALIZEDBIT` | `setobj`, `setnilvalue` and kin; `luarc_releaseobj`; `luarc_free*`; the finalizer call in `luarc_freeudata` | A store runs arbitrary Lua code (a finalizer) before it returns; releases nest; errors unwind them | Counts are exact; nothing dangles; nothing is released twice; nothing with a zero count remains |
| Collector (`lgc.c` 78-884) | colours, `gcstate`, `gray`, `grayagain`, `weak`, `tmudata` | `markroot`, `propagatemark`, `atomic`, `cleartable`, `sweeplist`, `GCTM`, `luaC_fullgc`, barriers | Steps interleave with Lua code and with releases by count; weak tables release objects inside `atomic` | Nothing reachable is freed; no black-to-white reference; cycles are freed in the end |
| Collector lists, `lua_close` (`lgc.c`, `lstate.c` 127-307, `lstring.c` 109) | `rootgc`, `prev`/`next`, `sweepgc`, `tmudata` | `luaC_link`, `luaS_newudata`, unlinking in `luarc_free*`, `luaC_separateudata`, `luaC_freeall` | Objects are spliced out under the sweep's cursor, and moved between lists in finalizers | Lists hold exactly what they should; the cursor stays in the list; a sweep misses nothing; closing frees all |
| Tables (`ltable.c`) | array part, node vector, `lastfree`, references of keys | `luaH_get*`, `luaH_set*`, `newkey`, `rehash`, `resize`, `luaH_next`, `luaH_getn`; `removeentry`, `cleartable` | Chains merge and move; dead keys; traversal while the collector removes entries; size arithmetic | Lookup returns what was stored; traversal is complete; border; keys are counted |
| String table (`lstring.c`) | hash chains, `nuse`, `size` | `luaS_newlstr`, `luaS_resize`, `luarc_freestring`, string sweep | a dead string is found again between mark and sweep | one live string per content; `nuse` exact |
| Functions and upvalues (`lfunc.c`) | `openupval` lists, `uvhead` ring | `luaF_findupval`, `luaF_close`, `luarc_freeupval` | an open upvalue outlives its thread | every upvalue is open in one live thread, or closed |
| Calls, errors, coroutines (`ldo.c`, `lstate.c`) | stack, `CallInfo`, `nCcalls`, jump buffers, `status` | `luaD_precall`, `luaD_poscall`, `luaD_pcall`, `lua_resume`, `lua_yield`, growth | errors across C boundaries; overflow while handling overflow | a protected call restores everything; status machine |
| Virtual machine (`lvm.c`) | `base`, `pc`, registers, `L->top` | one case per opcode | open numbers of results; what stays above the top; a release inside an instruction | an instruction finds the top its predecessor set; slots above it are nil |
| C API (`lapi.c`) | the caller's stack window, fields of objects | `lua_*` | references are moved, not copied: counts pass through intermediate values | counts match places; nothing referenced is released |
| Metamethods (`ltm.c`) | `Table.flags` | `luaT_gettm`, `fasttm` | a cached absence | the cache never hides a metamethod |
| Lexer, parser, code generator (`llex.c`, `lparser.c`, `lcode.c`) | token and lookahead, `FuncState`, `BlockCnt`, jump lists, free registers | productions, `luaK_*` | jump lists inside the code array; code that depends on its context; limits | the code does what the manual says; it passes the checker; only what the language forbids is rejected |
| Debug interface (`ldebug.c`) | - | `symbexec`, `luaG_checkcode`, `getobjname` | one forward pass over code with jumps | messages blame the right variable |
| Precompiled chunks (`ldump.c`, `lundump.c`) | stream position | dump and load | header, sizes | loading inverts dumping |
| Streams, buffers, references (`lzio.c`, `lauxlib.c`) | `ZIO`, `luaL_Buffer`, the free list of `luaL_ref` | fill, look ahead, add, push; ref, unref | pieces on the Lua stack; reuse | content preserved; no reference handed out twice |
| Memory, object helpers (`lmem.c`, `lobject.c`) | `totalbytes` | `luaM_growaux_`, `luaO_int2fb` ... | limits | bounds, rounding |
| Libraries (`lbaselib.c`, `lstrlib.c`, `ltablib.c`, `loadlib.c`, `liolib.c`, `lmathlib.c`, `loslib.c`, `ldblib.c`) | file handles, `_LOADED`, matcher state | the library functions | callbacks into Lua; handle life | per library |
| Programs (`lua.c`, `luac.c`, `print.c`), profiling (`lproflib.c`), configuration (`luaconf.h`) | - | - | signal handler | - |

**How they interact.**  Everything stores values with the `set*` macros, so every
component can cause a release; a release may run a finalizer, and a finalizer is
Lua code.  The collector runs from `luaC_checkGC` (allocation points) and
`collectgarbage`.  It calls finalizers from `GCSfinalize`, and, because
`cleartable` and `removeentry` drop counted references, it can also cause
releases from inside its own atomic phase.  There are no threads: all
interleaving comes from these nested calls and from the collector's increments.

`PROJECT.json` lists every component with its status, and under `hazards` the
places where this nesting, the ordering of list operations, or a limit can go
wrong.

## 2. Modules

```
AbstractHeap            what the memory manager promises
   ^ (refinement)
RefCount  <-- MCRefCount, RefCountProofs, LuaHeap       (EXTENDS)
LuaHeap   <-- LuaHeapProofs
GcLists   <-- MCGcLists, GcListsProofs --+
ApiStack  <-- MCApiStack, ApiStackProofs +--> Loops      induction for loops
LuaCalls  <-- MCLuaCalls, LuaCallsProofs <-- LuaStackProofs
              stacks, errors, coroutines  (LuaCallsProofs --> Loops)
LuaTable  <-- MCLuaTable, LuaTableProofs --> Loops

LuaCode <-- LuaParser  --+
   ^----- LuaVM        --+--> LuaCompiler <-- MCLuaCompiler
   ^----- LuaDebug <-- LuaChunk
          LuaSemantics --+       what the manual says of a chunk
```

### AbstractHeap
The promise of manual section 2.10: only "objects that are no longer accessible
from Lua" are finalized, stripped of their references or freed.  State: the
allocated objects, the reference graph, and the arguments of running finalizers.

### RefCount
`fld` is the pointer graph, `ref` the counters, `st` the life of a cell (free,
live on `rootgc`, dying in a `luarc_free*`, finalizing), `fin` is
`FINALIZEDBIT`, `frames` the C stack of `luaC_freeobj` activations.
`SetObj` is the order of `setobj`: overwrite, count the new value, drop the old
one; `ReleaseIfZero` is `luarc_subref`.  A release is one frame and takes
several steps: `CallFinalizer` (`luarc_freeudata` up to `luaD_call` in `GCTM`),
any Lua code as long as the finalizer runs, `FinalizerReturn`, one
`ReleaseMember` per counted field (each may push a nested frame), `FreeObject`.
`FinalizerError` unwinds the C stack to a `lua_pcall` at the bottom or inside an
outer finalizer.  Two constants open behaviours of Lua code: `Errors`
(finalizers raise errors) and `Retain` (a finalizer leaves its argument stored
somewhere).  The kinds of object only differ in which fields they have and
whether they have a finalizer.  Open upvalues are not among the objects:
`luarc_freeupval` returns without freeing one whose count is zero
(`lgc.c` 1093-1099), so what the runs say of zero counts is about the rest.

### LuaHeap
Extends RefCount by the collector, one action per increment of `singlestep`,
with `cleartable` one slot at a time since each slot may release an object. The
gray lists are sets: their order only decides which object is traversed first,
and any may be.  Stores go through `WriteBarrier` (back for tables, forward for
the rest, nothing for the thread whose stack is traversed again).  In the code
the barrier comes after the release of the old value (`lvm.c` 172-173);
`Barrier` has it in the step that begins the release, which makes no difference
as long as the release ends without a collector step.  An error of a finalizer
that the release calls skips it: with the constant `BarrierLost` a store that
begins a release may go without.  `Relist` is what `luarc_free*` does to the
collector's lists.  The sweep frees without touching counts, as `freeobj` does.
`luaC_fullgc` is `FullGC` plus the ordinary steps, during which Lua code only
runs in finalizers.  `NestedGC` says whether a finalizer that runs inside a
release may run collector steps.  Weak tables have weak values only. `Garbage`
are the dead objects the sweep has still to free and `Lost` those whose release
an error has unwound; nothing reads the fields of either (`Stale`), so
`RefCovers` does not count them.

### GcLists
The lists as the code has them, link by link: `next`, `prev`, `rootgc`,
`tmudata` (circular), and `sweepgc`, the address of a link.  Which objects are
dead is left open: `Atomic(D)` takes any set, and any object may be released at
any time.  `LuaClose` is `lua_close` up to the finalizers, `GCTM` its loop,
`FreeAll` is `close_state`. With the constant `Errors` a finalizer may raise an
error, which goes to a `lua_pcall` of any finalizer further down, to one at the
bottom of the C stack, or to the loop of `lua_close` (`FinalizerError`); the
objects that the unwound `luarc_free*` had taken off the lists are `lost`.
`Separate` is the loop of `luaC_separateudata`, one turn per object in the order
of the list (`SeparateNext`); `Path(nx, o)` is the walk along `nx` from `o`,
`Reached` the objects it meets.

### LuaTable
One table with its node vector and `lastfree`.  The pure part (`mainposition`,
`luaH_get`, `getfreepos`, `MoveCollider`, `computesizes`, `resize`, `rehash`,
`luaH_getn`, `findindex`) follows the functions of `ltable.c` under their names;
the actions are a store, a constructor's `OP_SETLIST`, the collector's
`traversetable` and `cleartable`, and a traversal with `luaH_next`.  `t.ref`
counts what the key slots have added to and taken from the counts of the keys.
`content` is what the program stored.  During a traversal the program only
assigns to existing fields, the manual's condition for `next`.  `twoto` is
`1 << i`; `FromSlice` and `FromNodes` are the two loops of `resize` that insert
the elements again, `Places` and `FirstNode` the search in `findindex`.

### LuaCalls
The stacks.  `th` has a `lua_State` per thread (slots, `top`, `base`, the
`CallInfo` array with its capacity, `nCcalls`, `errfunc`, `allowhook`, the open
upvalues), `cst` is the C stack (one record per `luaD_call`, `luaD_pcall`,
`lua_resume` or `luaD_callhook`, with the number of frames below it as history),
`pend` an error on its way to a `longjmp`. What a program computes is open: any
value may turn out to be a Lua function, a C function, something with `__call`,
or not callable; any instruction may raise an error; a C function may call the
API in any order its window allows. `luaD_throw` unwinds to the innermost
protected call or resume and does what `luaD_pcall` or `lua_resume` does there
(`Recover`).  `inc_ci` is the growth of the `CallInfo` array with the extra
frames of an error handler, `restore_stack_limit` takes them back.  `kept` is
history: the last error of the thread was caught by a protected call made at the
limit, which cannot undo the overflow.  `MoveFixed` is the loop of
`adjust_varargs` that moves the fixed parameters one after the other: a slot may
be read after it has been emptied, when fewer arguments than parameters were
given.  Metamethods are the calls they are: `callTMres`, `callTM`,
`call_orderTM`.

### ApiStack
The references of the API.  `mem` is every place that holds a counted reference:
the slots of the running C function, the fields of the objects, the globals, the
scratch place `L->env`.  The functions are written with the macros of
`lobject.h` on a store, in their order; `zero` and `dying` are the objects being
released, and a release may run between any two calls.  `half` is the second
half of `lua_setmetatable` and `lua_setfenv`, which release a table before they
overwrite the field; `FinalizerInHalf` says whether a finalizer may look at it
in between.  The loops (`lua_insert`, `lua_remove`, `lua_settop`, results of a
call) are recursive functions of the number of turns.  Two ghosts stand for
references the code is known to lose: `leaked` (`lua_setfenv` on a value without
environment) and `left` (`lua_setupvalue` leaves its value above the top).

### LuaCode, LuaParser
The compiler as pure operators, one per function and under its name.  A
`FuncState` is a record, jump lists are threaded through the code as in
`lcode.c`, `lua_assert` accumulates in `sane`, an error in `err`, those of
limits included (`FailUnless`): variables in scope and of a whole function,
upvalues, registers, nested rules, constants, inner functions, and the length of
a jump.  The input is a sequence of tokens, with one token of lookahead where
the parser asks for it.

### LuaVM
`luaV_execute`, one action per opcode, over one stack array shared by the
frames, with the clearing of slots that counting needs.  Tables are functions;
function 0 is a C function that records its arguments and returns them; there
are no metatables.

### LuaDebug, LuaChunk
`luaG_checkcode` with its symbolic execution, the names `luaG_typeerror` finds;
`luaU_dump` and `luaU_undump` on a sequence of units, one per block written.

### LuaSemantics, LuaCompiler
`LuaSemantics` is the reference: syntax trees, how they are written
(`Block`, with parentheses by the manual's precedences), which are well formed,
and what they mean (`Meaning`, an evaluator over environments of cells, from
manual sections 2.4 and 2.5).  It knows nothing of registers, jumps or frames.
`LuaCompiler` takes a chunk, compiles it (`Load`), runs it (`Run`) and compares.
The parser and `Meaning` are RECURSIVE operators, so this part is for TLC only;
`Compile` and `Denotation` are operator constants, set in the cfg to
`luaY_parser` and `Meaning`, which keeps `LuaVM` independent of the parser.

## 3. Runs

Passing runs:

| Run | Instance | Shows |
|---|---|---|
| `refcount` | main thread, a table and two userdata with finalizers, two fields each; no errors | counts exact, nothing dangles, no double release, nothing with a zero count between statements, nothing lost |
| `refcount_heap` | two userdata, errors in finalizers | every step implements AbstractHeap |
| `luaheap` | a table and a userdata with a finalizer that may raise errors | nothing reachable is freed; releases only touch allocated memory; counts never too low; tri-colour; gray lists exact |
| `luaheap_weak` | a closure and a weak table, with fairness | both barriers, `cleartable`, and cyclic garbage is freed in the end |
| `gclists` | three plain objects, two userdata with finalizers that may raise errors | lists exact, `sweepgc` in the list, no dead object behind it, closing frees everything but what an error has lost |
| `luatable` | integer keys 1-3, a string and an object that collide | lookup, room after a rehash, optimal array size, border, traversal complete and without repeats, keys covered by references |
| `calls` | a host and one coroutine, a fixed and a vararg function, ten slots | frames nest inside the stack; nothing above the top; open upvalues belong to active functions; C calls counted exactly; only threads without C frames are suspended; an overflow is undone; a protected call restores its caller |
| `api` | a table, a function, a userdata and a thread besides the running function and the globals | counts match places; nothing referenced is released; slots above the top are nil |
| `compiler` | 5817 chunks in 19 families, with two initial values of a global | chunks do what the manual says and end; code passes the checker; only chunks that break a rule of the language or pass a limit are rejected; dumping and loading keeps a chunk, and a cut one is refused; the top is where the next instruction expects it; messages blame the right variable |

Runs that show where the code departs from what the repository says (each is a
finding in `PROJECT.json` with the text it contradicts; all were reproduced on a
build of the program):

| Run | Behaviour |
|---|---|
| `refcount_retain` | a finalizer called by `luarc_freeudata` stores its argument; the memory is freed anyway |
| `calls_compare` | `callTMres` clears the slot that holds the result; comparisons by metamethod are always false |
| `compiler_varargs` | `adjust_varargs` forgets to count the arguments it adds; a vararg function called with too few arguments gets the wrong ones |

The type invariants of RefCount, LuaHeap, GcLists and LuaTable are kept in the
modules and proved; they hold in the runs above and are not listed there, to
leave the runs to what they are about.

**Bounds.**  Releases nest once per object, so three objects besides the main
thread give a release inside a finalizer inside a release, with a bystander.
Two fields suffice for self references, cycles and sharing.  In LuaHeap two
objects besides the main thread already give cycles, a black holder and a white
value, and a userdata that is finalized by its count or by the collector;
`MaxRef` stops stores when a count reaches it, since a swept holder leaves
counts too high and they would otherwise grow for ever.  Five objects in GcLists
give a sweep cursor with two neighbours on each side.  In LuaTable three integer
keys reach array sizes 0 to 4, hash sizes 0 to 8, collisions in every node, the
linear search of `unbound_search` (`MaxInt` = 3), and a colliding pair of
collectable keys; `MaxRef` = 2 bounds the leaked references, `MaxPart` the sizes
asked for by constructors.  The hash of an integer is the one `hashnum`
computes.

In LuaCalls ten slots hold three nested frames with arguments; `BASIC_CI_SIZE` =
3 and `LUAI_MAXCALLS` = 5 make the third nested call grow the `CallInfo` array
past its limit, with room for an error handler that overflows again;
`LUAI_MAXCCALLS` = 3 is reached by nested C calls and by a resume inside them.
`MaxFrames` bounds frames and activations together, `MaxUpvalues` the captured
registers, `MaxWindow` the values a C function keeps; once there is a coroutine
the main thread only resumes it, and a behaviour is not followed after the
coroutine's death.  `Stored` and `Results` are the values programs write and the
numbers of results they ask for.  In ApiStack three slots are what
the functions with most operands need, and `MaxPlaces` = 5 leaves two places
besides the three that the running function always uses; one lost reference at a
time is enough.  In LuaCompiler the limits are small so that lists reach them:
`MAXINDEXRK` = 2 (constants that need a register), `LFIELDS_PER_FLUSH` = 2 and
`MAXARG_C` = 2 (a constructor of five items needs the long form of
`OP_SETLIST`), nine variables in scope, 18 in a whole function (`SHRT_MAX`: two
blocks in one function pass it without passing the first), three upvalues, 15
constants and inner functions (`MAXARG_Bx`), jumps over 35 instructions
(`MAXARG_sBx`): the families `Limits`, `Long` (every construct that jumps) and
`Many` go from below these to above, and no other chunk reaches the last three;
`MAXSTACK`, `LUAI_MAXCCALLS`, `Slots` and `MaxSteps` are above what the families
need, and a chunk that goes
over `MaxSteps` violates `MeaningKept`.  Families vary one feature at a time
over every context that the code generator treats apart: conditions nested two
deep in ten places, assignments to two and three targets, loops left in every
way with closures over their variables, calls, varargs, constructors, operators,
methods, errors, limits, misplaced `break` and `...`.
Symmetry is used where no liveness property is checked.

**Deadlock** is checked except in `gclists`, where the closed state is final,
and in `calls`, where a thread may run into the bounds on its stack.

**Fairness.**  `HeapFairness` is strong fairness of the releases and of the
collector's steps: a release is the continuation of a C call and goes on when
the Lua code above it returns, and allocation keeps triggering `luaC_step`.  It
says nothing about when Lua code stores or clears.  No other run needs fairness.

### Known defects
Beside the three violation runs, modelling met the following.  The passing runs
stay clear of them, in the way said for each.

| Where | What happens | In the models |
|---|---|---|
| `lgc.c:970` | an error in a finalizer unwinds `luaC_freeobj` and leaves the objects being released on no list; `close_state` does not free them, so that its assertion on `totalbytes` (`lstate.c:137`) fails | `NothingLost` is checked and proved without errors; in GcLists these objects are `lost`, and `CloseFreesAll` excepts them |
| `lvm.c:172` | the barrier of a store comes after the release of the old value; an error of a finalizer that the release calls skips it, and leaves a black table with a white value (likewise `lvm.c:544`, `lvm.c:895`, `lapi.c:1106`, `lapi.c:1124`) | `BarrierLost` = FALSE; with TRUE TLC finds the value freed while in use |
| `lgc.c:878`, `1143` | a table put on `grayagain` in the sweep phase is freed by its count and stays its head | `GrayListed` speaks of the mark phase |
| `lgc.c:692` | a finalizer inside `cleartable` allocates with the old white; the object is swept while in use | `luaheap_weak` has no finalizer, and the theorems assume `Separate` |
| `lgc.c:568` | a finalizer inside a release that collects sweeps members the release still holds | `NestedGC` = FALSE |
| `ldo.c:82` | a protected call made when all `LUAI_MAXCALLS` frames are in use catches the overflow of its callee, but `restore_stack_limit` keeps the large array: the next overflow of that thread is an error in error handling | `OverflowUndone` leaves out the thread until its next error (`kept`) |
| `lstate.c:297` | `lua_close` during a sweep, with a finalizer that calls `collectgarbage`, does not end | `CloseFreesAll` says nothing of termination |
| `ltable.c:12` | the header says that the array part has the largest size of which at least half is in use; `computesizes` takes more than half (`ltable.c:202`, whose comment says so) | `ArraySizeOptimal` is what the code says; the other reading is its mutant |
| `ltable.c:336` | a rehash drops the nodes of removed keys without giving back their references | `KeyRefsCover` allows counts that are too high |
| `lgc.c:1181` | a coroutine freed with an open upvalue closes it after its slots are released | threads are not freed in LuaCalls |
| `lvm.c:91` | `luaD_checkstack` before the operands are copied: they may point into the old stack | the stacks do not move |
| `lapi.c:1133`-`1230` | `lua_setmetatable` and `lua_setfenv` release the old table while the field still names it, against `lobject.h:199` | `FinalizerInHalf` = FALSE |
| `lapi.c:1216` | `lua_setfenv` on a value without environment loses a count | `leaked` |
| `lapi.c:1573` | `lua_setupvalue` leaves the value above the top | `left` |
| `lcode.c:571`-`623` | a literal `false` or `true` in nested `and`/`or` yields another operand: `((x or x) and false) and false` is 3 when `x` is 3 | no literal booleans inside the families' conditions |
| `ldebug.c:349` | the message for a generator that is not a function can name another variable | `NamesRight` leaves out `OP_TFORLOOP` |
| `ldo.c:255` | a function that uses `arg`, called with too few arguments, asks for a table of negative size | the families call such functions with enough arguments |

## 4. Proofs

TLAPS checks every leaf of the following, for every finite set of objects and
fields, every main thread and every set of userdata with finalizers
(`ObjAssumption`).

`RefCountProofs`, under `~Retain`, with or without errors:
`TypeCorrect`, `CountsExact`, `NeverDangling`, `ReleasedOnce`.  The invariant is

    IndInv == TypeOK /\ RefExact /\ Unheld /\ StatusInv /\ NoDoubleRelease

`RefExact` alone is not inductive: to know that a release at count zero is of a
live object, and that a fresh cell has no holders, one needs `Unheld` (dying and
free objects have no holders), and to know that a finalizer's argument is not
released a second time one needs `StatusInv` (it has `FINALIZEDBIT`).  The lemma
`SetObjCounts` relates the change of a count to the change of the number of
holders by the cardinality of finite sets; `SetObjStep` carries the invariant
over a store from any statuses and counts, so that it also serves `New`, where
the store starts from an intermediate state.

Under `~Retain` and `~Errors`, in the same module: `ReclaimedAtOnce` is the
claim of the repository's README, that objects are "reclaimed as soon as the
reference count becomes 0"; `NeverLost` says that an object off `rootgc` has a
frame that will free it.  On top of `IndInv` the invariant says that live
objects have a positive count, that dying and finalizing objects have a frame,
and that `FINALIZEDBIT` is only found on these, so that it never keeps
`luarc_releaseobj` from a release.  Both assumptions are needed: an error leaves
objects on no list, and `refcount_retain` is what happens without the other.

Under `~Retain`, also there: `RefCountImplementsHeap`, every step of
RefCount is a step of AbstractHeap or a stutter, under the mapping that takes
the non-free cells as allocated and the finalizing ones as finalizer arguments.
The argument: what Lua code can name is reachable, and an object without
holders that is not a root is not.

`LuaHeapProofs`, the memory manager as a whole: `HeapTypeCorrect`,
`CountsCover`, `GrayListsExact`, `BarriersSuffice`, `ReleasesSafe`,
`NeverUsedAfterFree`, with or without errors in finalizers, for any finite heap
and any assignment of kinds, under four hypotheses: `~Retain` and `~NestedGC` as
above, `~BarrierLost` (no error of a finalizer skips the barrier of the store
that released it), and `Separate` (there are no weak tables, or no finalizers).
Each excludes a known defect; without any one of them TLC finds memory that is
freed while in use.  The invariant is

    HeapInv == HeapTypeOK /\ CountInv /\ MarkInv

`CountInv` replaces exact counts, which the sweep destroys, by counts that cover
the readable fields (`RefCovers`), and adds `HeldUsed` (what a readable field
holds is allocated, not being released and will survive the sweep), so that no
count reaches zero while somebody still holds the object, and `FramesSwept` (the
sweep never meets an object that is being released).  `MarkInv` has the
tri-colour invariant and the exactness of the gray lists, which need each other,
the colours possible in each phase (`ColorOK`: a userdata is never gray; while
marking, the main thread is gray and no weak table is black), and
`MarkedClosed`: after `atomic`, a marked object refers to a white one only from a
slot that `cleartable` has still to visit.  That is what makes the flip of the
whites safe: every readable field of a survivor refers to a survivor, hence
`HeldUsed` for the sweep.  The halves meet in two places.  A release by count
takes objects off the gray lists, which must not open a black-to-white
reference (the released object has no holders); and the sweep frees without
giving counts back, which must not touch `RefCovers` (garbage is not counted).
Marking is a least fixed point (`WhiteClosure`), used through the lemmas that it
is closed, least, and that what it adds has a holder in it.

`LuaCallsProofs`, the control half of LuaCalls: `CallsInvariance`,
`CCallsAreExact`, `YieldsSafe`, `OverflowsUndone`, `DepthBounded`, for any set
of coroutines, any `Proto`, any number of slots and any limits with
`BASIC_CI_SIZE <= LUAI_MAXCALLS` and functions with no more parameters than
registers (`CallsAssumption`; the code has 8 and 20000, and `precheck` refuses
other functions).  What the stacks hold plays no part in these.  The invariant
`CallsInv` says that each activation on the C stack has a level `lev[i]`, its
field `ci`, the number of frames its thread had when it began, such that

- from one level to the next there are the `nexec` Lua functions that this
  activation's `luaV_execute` runs, then at most one C function (`FramesOK`);
  only so is it known that a `nexeccalls` that reaches zero leaves the frame of
  the C caller on top, and that a yield below `luaV_execute` alone finds only Lua
  frames underneath;
- the C stack is a chain of runs, one per thread, each begun by `lua_resume`
  (`RunsOK`, `ResumesOK`, `HandoverOK`), every activation has one below it that
  catches its errors (`CaughtOK`), and hooks do not resume (`HooksOK`);
- `nCcalls` counts the calls of its thread, and every protected call remembers
  the count, frames, handler and hook permission as they were *at its own
  level* (`CountsOK`, `SettingsOK`): without the second half nothing is known
  after a `longjmp`, which is why `CCallsExact` is not inductive;
- a thread that is not on the C stack is suspended on top of Lua functions only,
  new, ended or dead (`StatusOK`); an array above the limit belongs to the
  thread in which the error is on its way or being handled (`OverflowOK`).

`Good` states this of arbitrary threads and C stacks, so that one lemma per
building block (`PrecallInv`, `FinishInv`, `PcallCatchInv`, `ResumeCatchInv`...)
serves every instruction and API function that is made of it.

`LuaStackProofs`, the data half of LuaCalls, under the same assumption:
`CallsTypes`, `StacksClear`, `UpvaluesActive`, `PcallRestored` and
`StackInvariance`.  The invariant is

    StackInv == CallsInv /\ Data(th, cst, pend)

The control half is needed throughout: which frame a return removes, and which
activation catches an error, is known from the levels.  `Data` is defined, with
the lemmas about a single `lua_State`, at the end of `LuaCallsProofs`.  It says

- of each thread (`Mem`): the windows `func < base <= top` of its frames lie one
  above the other inside the stack, nothing above `top` holds a value, the open
  upvalues descend, and each is a register of a Lua frame, below the function
  that frame has called (`Owns`; stronger than `UpvaluesInFrames`, which bounds
  the last frame by the stack only);
- of each activation, what it has recorded is still true: a hook and a protected
  call own the slots from `Floor` on, no frame above theirs starts below it, and
  the slots that the caller of `lua_pcall` keeps are as they were (`FloorOK`,
  `PcallRec`); an upvalue opened meanwhile is in a frame above, so the
  `luaF_close` on the way out finds it and closes none of the caller's; a
  metamethod is called above the registers of its Lua function (`MetaRec`);
- of the activations together: floors rise along a thread's part of the C stack
  (`FloorsOK`), a hook runs no hook (`HooksNest`), and a coroutine is resumed by
  C code (`Resumers`), so that moving the arguments and results between two
  stacks stays inside the frames of the callers;
- of the thread that runs: between instructions its `top` is that of its Lua
  frame (`LiveOK`), and an error message is above everything else
  (`MessageOK`), which is why `seterrorobj` and `luaF_close` can move it down to
  the floor of the call that catches it.

`PcallRestores` needs `FloorOK` for its last conjunct: the kept slots are below
every frame, upvalue and result that came and went since.  The stacks are
functions on slots; each building block of the code is described by the slots it
may have changed (`Over`), and one lemma per action puts these together.  The
loop of `adjust_varargs` goes by the inductions of `Loops`.

`GcListsProofs`, the collector's lists with every link, for any number of objects
(`ListAssumption` only), with or without errors in finalizers:
`ListsExactAlways`, `SweepInListAlways`, `DeadAheadAlways`, `CloseFreesAllAlways`,
`GcTypeCorrect`, `GcInvariant`; and `CloseFreesEverything` under `~Errors`.  The
invariant is

    GcInv == TypeOK /\ (\E r \in [Cell -> Int] : Order(r)) /\ Marked /\ Closed

A list of any length is described without following it: there is a rank `r` such
that every link of a set `S` leads to the member of `S` with the next rank
(`Sorted`), the last one to `Nil` (`RootList`) or back to the first (`Circle`).
`prev` is the inverse of `next` (`Back`), the userdata are behind the main
thread. Splicing out keeps the rank, linking in takes a number below or above
all others, and moving a userdata from `rootgc` to `tmudata` or back moves its
rank; so each operation needs one fact on sets and integers, and only the loop
of `luaC_separateudata` and the theorems themselves an induction.  `Ahead` says
that `sweepgc` is in one of the lists and that what the sweep has to free has a
higher rank; it must admit `tmudata`, into which `lua_close` moves the object
the cursor is at.  `Marked` relates `dead`, `place` and the frames: what is off
the lists has a frame that frees it, or is lost.  `CloseFreesAllAlways` says
that `lua_close` frees everything but lost objects; that nothing is ever lost
without errors (`LostByErrors`, an invariant of its own) gives
`CloseFreesEverything`, which is what the assertions of `close_state` say.  Only
the theorems go back from ranks to lists: what `Reached` collects along `next`
is the set `S`.

`ApiStackProofs`, the references of the API, for any finite set of objects of any
kinds and any number of stack slots, under `~FinalizerInHalf`: `ApiCountsCorrect`,
`ReleaseUnreferencedAlways`, `TopIsNilAlways`, `ApiTypeCorrect`, `ApiInvariant`.

    ApiInv == ApiTypeOK /\ HalfOK /\ Sound(Store, Owed, Half, Gone) /\ TopIsNil

`Sound(c, e, h, G)` speaks of any store `c`: the count of every object is the
number of its places plus `e`, no place outside `h` holds an object that is being
released or gone, and the gone objects `G` hold nothing.  Every macro of
`lobject.h` carries `Sound` to `Sound` with a change of `e` by one (lemma by
lemma), every loop by induction on its turns, and every API function is a
sequence of those that starts and ends with `e = Owed`.  The parameters are what
makes that possible: inside `lua_setmetatable` the counts are off by one and one
place dangles, and `HalfOK` says which.  Without `~FinalizerInHalf` the half
written field is read, the known defect.

`LuaTableProofs`, the table with everything a run checks, for any keys, any hash
function and any `MAXBITS`, under `TableAssumption` (finitely many keys, no more
than there can be nodes, so that `setnodevector` has no "table overflow" to
raise): `GetFindsWhatWasSet`, `RehashHasRoom`, `ArraySizeIsOptimal`,
`GetnIsABorder`, `KeysAreHeld`, `TraversalIsComplete`, `TraversalIsOnce`,
`TableTypes`, `TableInOrder`.  The invariant is

    TableInv == TableOK(t) /\ ContentOK /\ TravOK
    TableOK(T) == ShapeOK(T) /\ LinksOK(T) /\ RefsOK(T)

`ShapeOK` has what can be said of one node (a value is under its key, a dead key
is collectable and has none, a free node is linked to nothing, all free nodes are
below `lastfree`).  `LinksOK` describes the chains without following them: there
is a number `c` for each chain and a rank `r` that falls along it, every node of a
chain is reached from every node above it, a key is on the chain of its main
position, whose own node is held by a key that belongs there (Brent's
invariant), and dead copies of a key are below the key.  Each way `newkey` places
a key (into an empty main position, behind it, or in the place of a colliding node
that moves away) is one lemma on `c` and `r` (`LinkReused`, `LinkBehind`,
`LinkMoved`).  `ContentOK` says that lookups find what was stored.

That a rehash never runs out of nodes is a pigeonhole argument: while `resize`
inserts, every used node holds a value (`Refilled`), the keys still to come are
counted among those the new part was sized for (`RoomFor`), and positions are
taken from the end, so a full table would hold more keys than there are
(`NotFull`).  It needs the exact references too: inserting a key again adds one
to its count, and the loop over the old nodes gives one back (`RefsRestored`).
`computesizes` is treated as a loop with an invariant (`SizesOK`); that stopping
early loses no better size follows from the number of keys left.

`TravOK` relates the traversal to positions: keys returned are at or before the
position of the current one, keys still due behind it.  Positions depend on the
keys and links alone (`IndexSame`), which is why neither an assignment to an
existing field nor the collector's removals, which leave dead keys in their
nodes, disturb it.

Induction.  The library's induction theorems have an operator parameter, which
the provers cannot instantiate.  `Loops` derives the first-order form from the
well-foundedness of `<`: a set of naturals has a least element (`LeastNatural`),
hence a set with 0 and all successors is all of them (`SetInduction`), hence the
recursive function of a loop exists and is computed turn by turn (`LoopExists`,
`LoopDefined`), also when a turn is only defined on the states the loop can
reach (`LoopWithin`), and an invariant of the turns holds of its result
(`LoopInduction`).

Only model-checked:

- liveness (`CyclesReclaimed`), which is out of the prover's reach;
- the compiler, whose modules use RECURSIVE operators.

## 5. What is left

Models that could follow: the string table beside the collector's colours, the
flags cache of `luaT_gettm` and the loops of `luaV_gettable`, `luaL_Buffer` and
`luaL_ref`, the growth of the stack array with the pointers into it, `require`
and `sort` as library functions that call back.

### Not modelled, and why

- The string, table, io, math, os, package and debug libraries, `lauxlib`,
  `lzio`: they are clients of the API, pure functions on characters, or wrappers
  of the C library; their state is in files and C values.
- How characters make tokens (`llex.c`), number conversion and message texts.
- The string table and allocation failures: equality of strings is all the
  modelled parts use of the first, and the second would need a failure branch
  in every action.
- The driver and listing programs, the interpreter's command line and signal
  handler, profiling, configuration: output, constants, or code that runs
  outside a Lua state.
- Inside modelled components: weak keys, the pacing arithmetic of `luaC_step`,
  line and count hooks, line information, `lua_gc`, `lua_concat`, numbers that
  are not integers, strings that are numerals, comparison of strings.
