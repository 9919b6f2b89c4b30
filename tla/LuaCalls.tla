------------------------------ MODULE LuaCalls ------------------------------
(***************************************************************************)
(* Calls, errors and coroutines: ldo.c, the call instructions of lvm.c,    *)
(* the call functions of lapi.c, the open upvalues of lfunc.c and the      *)
(* coroutine functions of lbaselib.c.                                      *)
(*                                                                         *)
(* `th' holds the lua_State of each thread: its stack `stk' with `top' and *)
(* `base', the CallInfo array `ci' of capacity `size_ci', `status', the    *)
(* counter `nCcalls', `errfunc', `allowhook' and the list of open upvalues *)
(* (the stack slots they point to); `kept' is history: the last error was  *)
(* caught by a protected call that could not undo an overflow of `ci'.     *)
(* `cst' is the C stack: one record per activation of luaD_call,           *)
(* luaD_pcall, lua_resume or luaD_callhook, whose field nexec is the       *)
(* nexeccalls of the luaV_execute it runs, 0 if it runs none, and whose    *)
(* field ci, also history, is the number of frames below it.  `pend' is    *)
(* the error on its way to a longjmp.                                      *)
(*                                                                         *)
(* What a program computes is left open: any register may get any value,   *)
(* any value may turn out to be a Lua function, a C function, an object    *)
(* with a __call metamethod or not callable, and a C function may call the *)
(* API in any order its stack window allows.                               *)
(***************************************************************************)
EXTENDS Integers, Sequences, SequencesExt

CONSTANTS Coroutine,        \* the lua_States besides the main thread
          Main,             \* the main thread
          Nil,
          Val,              \* values that are not nil
          Stored,           \* bound: the values that programs store
          Results,          \* bound: the numbers of results calls ask for
          Proto,            \* [numparams, is_vararg, maxstacksize] of Lua functions
          Slots,            \* bound: slots of a stack
          EXTRA_STACK,      \* slots above stack_last
          LUA_MINSTACK,
          BASIC_CI_SIZE,
          LUAI_MAXCALLS,
          LUAI_MAXCCALLS

Thread == Coroutine \cup {Main}
Slot == 1 .. Slots
MULTRET == -1

ASSUME CallsAssumption ==
  /\ Main \notin Coroutine /\ Nil \notin Val /\ Val # {}
  /\ Stored \subseteq Val \cup {Nil} /\ Results \subseteq Nat \cup {-1}
  /\ {Slots, EXTRA_STACK, LUA_MINSTACK, BASIC_CI_SIZE, LUAI_MAXCALLS,
      LUAI_MAXCCALLS} \subseteq Nat \ {0}
  /\ Proto \subseteq [numparams : Nat, is_vararg : BOOLEAN, maxstacksize : Nat]
  /\ \A p \in Proto : p.numparams <= p.maxstacksize          \* precheck
  /\ Slots > LUA_MINSTACK + EXTRA_STACK /\ BASIC_CI_SIZE <= LUAI_MAXCALLS

VARIABLES th, cst, pend,
          cmp               \* the comparison that has just ended, if any

cvars == <<th, cst, pend, cmp>>

NoComparison == [returned |-> FALSE, result |-> FALSE]

(* The lua_State that runs: the one of the innermost activation.           *)
Current == IF cst = <<>> THEN Main ELSE Last(cst).t

Frame(L) == Last(L.ci)
isLua(L) == Frame(L).lua

(* C code runs in a C function, in a hook, and in the host program.        *)
InHook == cst # <<>> /\ Last(cst).k = "hook"
InC(t) == InHook \/ ~isLua(th[t])

stack_last == Slots - EXTRA_STACK

-----------------------------------------------------------------------------
(* Stack slots                                                             *)

SetNil(L, from, to) ==
  [L EXCEPT !.stk = [i \in Slot |-> IF from <= i /\ i < to THEN Nil ELSE @[i]]]

SetSlot(L, i, v) == [L EXCEPT !.stk[i] = v]

(* Slots from..to-1 are given up and the top goes to `from'.               *)
CutTo(L, from) == [SetNil(L, from, L.top) EXCEPT !.top = from]

Push(L, v) == [SetSlot(L, L.top, v) EXCEPT !.top = @ + 1]

(* The top of a Lua function is its frame's top, but between an            *)
(* instruction with an open number of results and the one that takes them. *)
ToFrameTop(L) ==
  [SetNil(L, Frame(L).top, L.top) EXCEPT !.top = Frame(L).top]

SetFrame(L, f) == [L EXCEPT !.ci[Len(L.ci)] = f]

MarkOpen(L, b) == SetFrame(L, [Frame(L) EXCEPT !.open = b])

-----------------------------------------------------------------------------
(* Open upvalues: a list with the highest slot first                       *)

(* Mutant: the list is not searched for the slot.                          *)
luaF_findupvalNew(L, level) == [L EXCEPT !.openupval = <<level>> \o @]

(* luaF_findupval: go past the higher slots; share or insert.              *)
luaF_findupval(L, level) ==
  LET uv == L.openupval
      higher == Cardinality({i \in 1 .. Len(uv) : uv[i] > level})
  IN IF Contains(uv, level) THEN L
     ELSE [L EXCEPT !.openupval = InsertAt(uv, higher + 1, level)]

(* luaF_close: from the front, while the slot is at `level' or above.      *)
luaF_close(L, level) ==
  LET uv == L.openupval
      n == Cardinality({i \in 1 .. Len(uv) : \A j \in 1 .. i : uv[j] >= level})
  IN [L EXCEPT !.openupval = SubSeq(uv, n + 1, Len(uv))]

-----------------------------------------------------------------------------
(* Errors: the stack of the thread that catches one                        *)

Message == CHOOSE v \in Val : TRUE

(* luaD_seterrorobj: the message goes to oldtop, what is above is cleared. *)
luaD_seterrorobj(L, errcode, oldtop) ==
  LET msg == IF errcode = "ERRRUN" THEN L.stk[L.top - 1] ELSE Message
  IN [CutTo(SetSlot(L, oldtop, msg), oldtop + 1) EXCEPT !.top = oldtop + 1]

(* Mutant: the array keeps the size it got in the overflow.                *)
restore_stack_limitNever(L) == L

(* restore_stack_limit: once the overflow is over the CallInfo array gets  *)
(* its regular size back.                                                  *)
restore_stack_limit(L) ==
  IF L.size_ci > LUAI_MAXCALLS /\ Len(L.ci) < LUAI_MAXCALLS
  THEN [L EXCEPT !.size_ci = LUAI_MAXCALLS] ELSE L

(* Mutant: hooks stay off after an error inside a hook.                    *)
RecoverNoHook(L, e, errcode) ==
  LET L1 == luaD_seterrorobj(luaF_close(L, e.oldtop), errcode, e.oldtop)
      L2 == [L1 EXCEPT !.nCcalls = e.nCcalls,
                       !.ci = SubSeq(@, 1, e.ci),
                       !.base = L1.ci[e.ci].base,
                       !.errfunc = e.errfunc]
  IN restore_stack_limit(L2)

(* Mutant: the C calls an error has left are still counted.                *)
RecoverCounted(L, e, errcode) ==
  LET L1 == luaD_seterrorobj(luaF_close(L, e.oldtop), errcode, e.oldtop)
      L2 == [L1 EXCEPT !.ci = SubSeq(@, 1, e.ci),
                       !.base = L1.ci[e.ci].base,
                       !.allowhook = e.allowhook,
                       !.errfunc = e.errfunc]
  IN restore_stack_limit(L2)

(* The error path of luaD_pcall.  A call at the limit that catches the     *)
(* overflow keeps the large array.                                         *)
Recover(L, e, errcode) ==
  LET L1 == luaD_seterrorobj(luaF_close(L, e.oldtop), errcode, e.oldtop)
      L2 == [L1 EXCEPT !.nCcalls = e.nCcalls,
                       !.ci = SubSeq(@, 1, e.ci),
                       !.base = L1.ci[e.ci].base,
                       !.allowhook = e.allowhook,
                       !.errfunc = e.errfunc,
                       !.kept = L.size_ci > LUAI_MAXCALLS /\ e.ci >= LUAI_MAXCALLS]
  IN restore_stack_limit(L2)

-----------------------------------------------------------------------------
(* Entering and leaving functions                                          *)

(* The n fixed parameters from `fixed' on move to `top', one after the     *)
(* other, and leave nil behind; i is the number of parameters moved.       *)
MoveFixed(stack, fixed, top, n) ==
  LET moved[i \in 0 .. n] ==
        IF i = 0 THEN stack
        ELSE [[moved[i - 1] EXCEPT ![top + i - 1] = moved[i - 1][fixed + i - 1]]
                EXCEPT ![fixed + i - 1] = Nil]
  IN moved[n]

(* adjust_varargs: there is room for the missing parameters; the fixed      *)
(* parameters move above the arguments.  `actual' counts the arguments of  *)
(* the call, also when they are fewer than the parameters.                 *)
adjust_varargs(L, func, p) ==
  LET actual == L.top - func - 1
      top == IF actual < p.numparams THEN func + 1 + p.numparams ELSE L.top
  IN [L EXCEPT !.stk = MoveFixed(@, top - actual, top, p.numparams),
               !.top = top + p.numparams]

(* The arguments of a Lua function: extra ones are dropped, or kept below  *)
(* the frame of a vararg function.                                         *)
Arguments(L, func, p) ==
  IF p.is_vararg THEN adjust_varargs(L, func, p)
  ELSE IF L.top > func + 1 + p.numparams THEN CutTo(L, func + 1 + p.numparams)
  ELSE L

BaseOf(L, func, p) == IF p.is_vararg THEN L.top - p.numparams ELSE func + 1

(* The frame luaD_precall makes for a Lua function; a stays the same.      *)
LuaFrame(L, func, p, nresults) ==
  LET base == BaseOf(L, func, p)
      top == base + p.maxstacksize
  IN [SetNil(L, top, L.top) EXCEPT
        !.ci = Append(@, [func |-> func, base |-> base, top |-> top, lua |-> TRUE,
                          nresults |-> nresults, numparams |-> p.numparams,
                          is_vararg |-> p.is_vararg, open |-> FALSE]),
        !.base = base, !.top = top]

CFrame(L, func, nresults) ==
  [L EXCEPT
     !.ci = Append(@, [func |-> func, base |-> func + 1,
                       top |-> L.top + LUA_MINSTACK, lua |-> FALSE,
                       nresults |-> nresults, numparams |-> 0,
                       is_vararg |-> FALSE, open |-> FALSE]),
     !.base = func + 1]

(* tryfuncTM: the metamethod goes below the object it is called for.       *)
tryfuncTM(L, func) ==
  [L EXCEPT !.stk = [i \in Slot |-> IF i = func THEN Message
                                    ELSE IF func < i /\ i <= L.top THEN @[i - 1]
                                    ELSE @[i]],
            !.top = @ + 1]

(* Mutant: the array is taken to have room for one more.                   *)
inc_ciRoom(L) ==
  CASE Len(L.ci) <= L.size_ci -> [size |-> L.size_ci, err |-> "none"]
    [] OTHER -> [size |-> 2 * L.size_ci, err |-> "none"]

(* inc_ci and growCI: what happens to the CallInfo array, and the error.   *)
inc_ci(L) ==
  CASE Len(L.ci) < L.size_ci -> [size |-> L.size_ci, err |-> "none"]
    [] Len(L.ci) = L.size_ci /\ L.size_ci > LUAI_MAXCALLS ->
         [size |-> L.size_ci, err |-> "ERRERR"]
    [] Len(L.ci) = L.size_ci /\ L.size_ci <= LUAI_MAXCALLS ->
         [size |-> 2 * L.size_ci,
          err |-> IF 2 * L.size_ci > LUAI_MAXCALLS THEN "overflow" ELSE "none"]

(* Mutant: the results are moved, what was above them is not released.     *)
luaD_poscallKeep(L, firstResult) ==
  LET f == Frame(L)
      nres == L.top - firstResult
      wanted == IF f.nresults = MULTRET THEN nres ELSE f.nresults
  IN [L EXCEPT
        !.stk = [i \in Slot |->
                   IF i \in f.func .. f.func + wanted - 1
                   THEN IF i - f.func < nres THEN @[firstResult + i - f.func] ELSE Nil
                   ELSE @[i]],
        !.ci = Front(@), !.base = L.ci[Len(L.ci) - 1].base,
        !.top = f.func + wanted]

(* luaD_poscall: the results go to where the function was, filled up with  *)
(* nil or cut to the number wanted; everything above is released.          *)
luaD_poscall(L, firstResult) ==
  LET f == Frame(L)
      nres == L.top - firstResult
      wanted == IF f.nresults = MULTRET THEN nres ELSE f.nresults
  IN [L EXCEPT
        !.stk = [i \in Slot |->
                   IF i \in f.func .. f.func + wanted - 1
                   THEN IF i - f.func < nres THEN @[firstResult + i - f.func] ELSE Nil
                   ELSE IF f.func + wanted <= i /\ i < L.top THEN Nil ELSE @[i]],
        !.ci = Front(@), !.base = L.ci[Len(L.ci) - 1].base,
        !.top = f.func + wanted]

-----------------------------------------------------------------------------
(* Raising errors                                                          *)

(* The threads are `ts' but for t, which is now L; the C stack is cs.      *)
Go(ts, t, L, cs) ==
  /\ th' = [ts EXCEPT ![t] = L] /\ cst' = cs
  /\ pend' = "none" /\ cmp' = NoComparison

Throw(ts, t, L, cs, errcode) ==
  /\ th' = [ts EXCEPT ![t] = L] /\ cst' = cs
  /\ pend' = errcode /\ cmp' = NoComparison

(* luaG_runerror: the message, with position information in Lua code, then *)
(* luaG_errormsg.                                                          *)
RunError(ts, t, L, cs) ==
  LET L1 == Push(L, Message)
  IN /\ L.top + 2 <= Slots
     /\ Throw(ts, t, IF isLua(L) THEN Push(L1, Message) ELSE L1, cs, "message")

(* An activation of luaV_execute runs one more, or one fewer, function.    *)
Executing(cs, d) == [cs EXCEPT ![Len(cs)].nexec = @ + d]

(* A tail call gives the frame of the caller to the callee: upvalues of    *)
(* the caller are closed, the new frame moves down over the old one.       *)
TailFrame(L) ==
  LET new == Last(L.ci)
      old == L.ci[Len(L.ci) - 1]
      d == new.func - old.func
      L1 == luaF_close(L, old.base)
  IN [L1 EXCEPT
        !.stk = [i \in Slot |-> IF old.func <= i /\ i < L.top - d THEN @[i + d]
                                ELSE IF L.top - d <= i /\ i < L.top THEN Nil
                                ELSE @[i]],
        !.ci = Append(Front(Front(@)), [new EXCEPT !.func = old.func,
                                          !.base = @ - d, !.top = L.top - d,
                                          !.nresults = old.nresults]),
        !.base = new.base - d, !.top = L.top - d]

(* The next CallInfo is taken; what follows if that is not possible.       *)
WithCallInfo(ts, t, L, cs, Enter(_)) ==
  LET inc == inc_ci(L)
      L1 == [L EXCEPT !.size_ci = inc.size]
  IN \/ inc.err = "none" /\ Enter(L1)
     \/ inc.err = "overflow" /\ RunError(ts, t, L1, cs)
     \/ inc.err = "ERRERR" /\ Throw(ts, t, L1, cs, "ERRERR")

(* luaD_precall on a Lua function at func; OP_TAILCALL gives it the frame  *)
(* of its caller, the others let luaV_execute run one function more.       *)
EnterLua(ts, t, L, cs, func, nresults, tail) ==
  \E p \in Proto :
    LET L1 == Arguments(L, func, p)
        Enter(M) == IF tail
                    THEN Go(ts, t, TailFrame(LuaFrame(M, func, p, nresults)), cs)
                    ELSE Go(ts, t, LuaFrame(M, func, p, nresults), Executing(cs, 1))
    IN /\ BaseOf(L1, func, p) + p.maxstacksize <= stack_last
       /\ WithCallInfo(ts, t, L1, cs, Enter)

(* luaD_precall on a C function, which runs in the activations above.      *)
EnterC(ts, t, L, cs, func, nresults) ==
  LET Enter(M) == Go(ts, t, CFrame(M, func, nresults), cs)
  IN /\ L.top + LUA_MINSTACK <= stack_last
     /\ WithCallInfo(ts, t, L, cs, Enter)

(* luaD_precall on the value at func: it is not callable, or it is a       *)
(* function, or it has a __call metamethod that is one.                    *)
luaD_precall(ts, t, L, cs, func, nresults, tail) ==
  \/ RunError(ts, t, L, cs)
  \/ /\ L.stk[func] # Nil
     /\ \E M \in {L, tryfuncTM(L, func)} :
          \/ EnterLua(ts, t, M, cs, func, nresults, tail)
          \/ EnterC(ts, t, M, cs, func, nresults)

(* luaD_call from an activation e: nCcalls grows first, and its limit is   *)
(* an error that leaves some calls for the handler.                        *)
luaD_call(t, L, cs, e, func, nresults) ==
  LET n == L.nCcalls + 1
      L1 == [L EXCEPT !.nCcalls = n]
      cs1 == Append(cs, e)
  IN IF n = LUAI_MAXCCALLS THEN RunError(th, t, L1, cs1)
     ELSE IF n >= LUAI_MAXCCALLS + LUAI_MAXCCALLS \div 8
     THEN Throw(th, t, L1, cs1, "ERRERR")
     ELSE luaD_precall(th, t, L1, cs1, func, nresults, FALSE)

(* luaG_errormsg: the handler of the protected call is called with the     *)
(* message; its result is thrown.                                          *)
luaG_errormsg ==
  LET t == Current
      L == th[t]
      msg == L.stk[L.top - 1]
      L1 == Push(SetSlot(L, L.top - 1, L.stk[L.errfunc]), msg)
  IN /\ pend = "message"
     /\ IF L.errfunc = 0 THEN Throw(th, t, L, cst, "ERRRUN")
        ELSE IF L.stk[L.errfunc] = Nil THEN Throw(th, t, L, cst, "ERRERR")
        ELSE /\ L.top < Slots
             /\ luaD_call(t, L1, cst, [k |-> "handler", t |-> t, nexec |-> 0, ci |-> Len(L.ci)], L.top - 1, 1)

(* lua_xmove: the n topmost values of one stack go to the other.           *)
lua_xmove(from, to, n) ==
  [from |-> CutTo(from, from.top - n),
   to |-> [to EXCEPT !.stk = [i \in Slot |->
                                IF i \in to.top .. to.top + n - 1
                                THEN from.stk[from.top - n + i - to.top] ELSE @[i]],
                     !.top = @ + n]]

(* lua_checkstack, for a frame of C code.                                  *)
lua_checkstack(L, n) ==
  IF Frame(L).top < L.top + n
  THEN SetFrame(L, [Frame(L) EXCEPT !.top = L.top + n]) ELSE L

(* The end of lua_resume and of auxresume: `co' gives n values to the      *)
(* thread that resumed it.                                                 *)
EndResume(co, L, n) ==
  LET e == Last(cst)
      R == [L EXCEPT !.nCcalls = @ - 1]
      x == lua_xmove(R, lua_checkstack(th[e.from], n + 1), n)
  IN /\ th[e.from].top + n + 1 <= stack_last
     /\ th' = [th EXCEPT ![co] = x.from, ![e.from] = x.to]
     /\ cst' = Front(cst) /\ pend' = "none" /\ cmp' = NoComparison

(* luaD_throw: the longjmp to the innermost luaD_pcall or lua_resume.      *)
luaD_throw ==
  LET t == Current
      depth == CHOOSE i \in 1 .. Len(cst) :
                 /\ cst[i].k \in {"pcall", "resume"}
                 /\ \A j \in i + 1 .. Len(cst) : cst[j].k \notin {"pcall", "resume"}
      e == cst[depth]
      L == th[t]
  IN /\ pend \in {"ERRRUN", "ERRERR", "ERRMEM"}
     /\ pend' = "none" /\ cmp' = NoComparison
     /\ cst' = SubSeq(cst, 1, depth - 1)
     /\ IF e.k = "pcall"
        THEN th' = [th EXCEPT ![t] = Recover(L, e, pend)]
        ELSE LET L1 == luaD_seterrorobj(L, pend, L.top)
                 L2 == SetFrame([L1 EXCEPT !.status = "dead", !.nCcalls = @ - 1],
                                [Frame(L1) EXCEPT !.top = L1.top])
                 x == lua_xmove(L2, th[e.from], 1)
             IN /\ L.top < Slots /\ th[e.from].top < stack_last
                /\ th' = [th EXCEPT ![t] = x.from, ![e.from] = x.to]

-----------------------------------------------------------------------------
(* Returning from the innermost activation                                 *)

(* adjustresults of lua_call and lua_pcall.                                *)
adjustresults(L, e) ==
  IF e.nresults = MULTRET /\ L.top >= Frame(L).top
  THEN SetFrame(L, [Frame(L) EXCEPT !.top = L.top]) ELSE L

(* The end of callTMres: the result goes to res and the top slot is        *)
(* released; then call_orderTM and luaV_equalval look at the slot L->top.  *)
TMresult(L, e) == CutTo(SetSlot(L, e.res, L.stk[L.top - 1]), L.top - 1)

EndComparison(t, L, e, cs) ==
  LET L1 == TMresult(L, e)
  IN /\ th' = [th EXCEPT ![t] = SetSlot(L1, L1.top, Nil)]
     /\ cst' = cs /\ pend' = "none"
     /\ cmp' = [returned |-> L.stk[L.top - 1] # Nil, result |-> L1.stk[L1.top] # Nil]

(* What the caller of luaD_call or luaD_pcall does with the results.       *)
FinishCall(t, L, cs) ==
  LET e == Last(cs)
      L1 == [L EXCEPT !.nCcalls = @ - 1]
  IN CASE e.k = "call" -> Go(th, t, adjustresults(L1, e), Front(cs))
       [] e.k = "pcall" ->
            Go(th, t, adjustresults([L1 EXCEPT !.errfunc = e.errfunc], e), Front(cs))
       [] e.k = "callTMres" -> Go(th, t, TMresult(L1, e), Front(cs))
       [] e.k = "compare" -> EndComparison(t, L1, e, Front(cs))
       [] e.k = "callTM" -> Go(th, t, L1, Front(cs))
       [] e.k = "handler" -> Throw(th, t, L1, Front(cs), "ERRRUN")
       [] e.k = "resume" -> EndResume(t, L, L.top - L.base)

(* Back in luaV_execute after a call: the frame's top, unless the number   *)
(* of results is open.                                                     *)
AfterCall(L, nresults) ==
  IF nresults = MULTRET THEN MarkOpen(L, TRUE) ELSE ToFrameTop(L)

(* luaD_poscall and the return to the caller.                              *)
Return(t, L, firstResult) ==
  LET L1 == luaD_poscall(L, firstResult)
      nresults == Frame(L).nresults
      cs == IF isLua(L) THEN Executing(cst, -1) ELSE cst
  IN IF Last(cs).nexec = 0 THEN FinishCall(t, L1, cs)
     ELSE Go(th, t, AfterCall(L1, nresults), cs)

-----------------------------------------------------------------------------
(* Lua code: the instructions of luaV_execute that touch frames            *)

LuaRuns(t) == t = Current /\ pend = "none" /\ ~InC(t)

Registers(L) == Frame(L).base .. Frame(L).top - 1

(* A captured variable is a local one; the code generator puts the         *)
(* function and the values of an open list in registers above the locals.  *)
Temporary(L, ra) == \A i \in 1 .. Len(L.openupval) : L.openupval[i] < ra

(* OP_MOVE, OP_LOADK, OP_LOADNIL, ... of a stretch of code: every register *)
(* has been written.                                                       *)
SetRegisters(t, v) ==
  LET L == [th[t] EXCEPT !.stk = [i \in Slot |-> IF i \in Registers(th[t]) THEN v
                                                 ELSE @[i]]]
  IN /\ LuaRuns(t) /\ ~Frame(th[t]).open
     /\ Go(th, t, L, cst)

(* The operand B of OP_CALL and OP_TAILCALL: b - 1 arguments, or up to the *)
(* top that the instruction before has set.                                *)
WithArguments(L, ra, b) ==
  MarkOpen(IF b = 0 THEN L ELSE CutTo(L, ra + b), FALSE)

CallOperands(L, ra, b) ==
  /\ ra \in Registers(L) /\ Temporary(L, ra)
  /\ IF Frame(L).open THEN b = 0 /\ ra < L.top ELSE b > 0 /\ ra + b <= L.top

OP_CALL(t, ra, b, nresults) ==
  /\ LuaRuns(t) /\ CallOperands(th[t], ra, b)
  /\ luaD_precall(th, t, WithArguments(th[t], ra, b), cst, ra, nresults, FALSE)

OP_TAILCALL(t, ra, b) ==
  /\ LuaRuns(t) /\ CallOperands(th[t], ra, b)
  /\ luaD_precall(th, t, WithArguments(th[t], ra, b), cst, ra, MULTRET, TRUE)

(* The upvalues of the function are closed, then its registers released.   *)
OP_RETURN(t, ra, b) ==
  LET L == luaF_close(th[t], Frame(th[t]).base)
  IN /\ LuaRuns(t) /\ ra \in Registers(L)
     /\ IF Frame(L).open THEN b = 0 /\ ra <= L.top ELSE b > 0 /\ ra + b - 1 <= L.top
     /\ Return(t, IF b = 0 THEN L ELSE CutTo(L, ra + b - 1), ra)

(* OP_CLOSURE with one captured local variable.                            *)
OP_CLOSURE(t, r) ==
  /\ LuaRuns(t) /\ ~Frame(th[t]).open /\ r \in Registers(th[t])
  /\ Go(th, t, luaF_findupval(th[t], r), cst)

OP_CLOSE(t, ra) ==
  /\ LuaRuns(t) /\ ~Frame(th[t]).open /\ ra \in Registers(th[t])
  /\ Go(th, t, luaF_close(th[t], ra), cst)

(* A closure writes the variable of an outer function.                     *)
OP_SETUPVAL(t, v) ==
  /\ LuaRuns(t) /\ ~Frame(th[t]).open
  /\ \E i \in 1 .. Len(th[t].openupval) :
       Go(th, t, SetSlot(th[t], th[t].openupval[i], v), cst)

(* All extra arguments, or b of them.                                      *)
OP_VARARG(t, ra, b) ==
  LET L == th[t]
      f == Frame(L)
      n == f.base - f.func - f.numparams - 1
      L1 == IF b = MULTRET THEN [CutTo(L, ra + n) EXCEPT !.top = ra + n] ELSE L
      count == IF b = MULTRET THEN n ELSE b
  IN /\ LuaRuns(t) /\ f.is_vararg /\ ~f.open
     /\ ra \in Registers(L) /\ Temporary(L, ra)
     /\ ra + n <= stack_last /\ ra + b <= f.top
     /\ Go(th, t, MarkOpen([L1 EXCEPT !.stk =
              [i \in Slot |-> IF i \in ra .. ra + count - 1
                              THEN IF i - ra < n THEN L.stk[f.base - n + i - ra] ELSE Nil
                              ELSE @[i]]], b = MULTRET), cst)

(* OP_SETLIST of an open number of values.                                 *)
OP_SETLIST(t) ==
  /\ LuaRuns(t) /\ Frame(th[t]).open
  /\ Go(th, t, MarkOpen(ToFrameTop(th[t]), FALSE), cst)

(* callTMres: a metamethod with two operands, whose result goes to res.    *)
callTMres(t, res) ==
  LET L == th[t]
  IN /\ LuaRuns(t) /\ ~Frame(L).open /\ res \in Registers(L)
     /\ L.top + 3 <= Slots
     /\ luaD_call(t, Push(Push(Push(L, Message), Message), Message), cst,
                  [k |-> "callTMres", t |-> t, nexec |-> 0, ci |-> Len(L.ci), res |-> res],
                 L.top, 1)

(* call_orderTM and luaV_equalval: callTMres with the free slot L->top as  *)
(* the place of the result.                                                *)
call_orderTM(t) ==
  LET L == th[t]
  IN /\ LuaRuns(t) /\ ~Frame(L).open
     /\ L.top + 3 <= Slots
     /\ luaD_call(t, Push(Push(Push(L, Message), Message), Message), cst,
                  [k |-> "compare", t |-> t, nexec |-> 0, ci |-> Len(L.ci), res |-> L.top],
                 L.top, 1)

(* callTM: __newindex, with three operands and no result.                  *)
callTM(t) ==
  LET L == th[t]
  IN /\ LuaRuns(t) /\ ~Frame(L).open
     /\ L.top + 4 <= Slots
     /\ luaD_call(t, Push(Push(Push(Push(L, Message), Message), Message), Message),
                  cst, [k |-> "callTM", t |-> t, nexec |-> 0, ci |-> Len(L.ci)], L.top, 0)

(* An instruction fails, or there is no memory for its result.             *)
LuaError(t) ==
  /\ LuaRuns(t) /\ ~Frame(th[t]).open
  /\ RunError(th, t, th[t], cst) \/ Throw(th, t, th[t], cst, "ERRMEM")

(* luaD_callhook, before an instruction.                                   *)
luaD_callhook(t) ==
  LET L == th[t]
      f == Frame(L)
  IN /\ LuaRuns(t) /\ L.allowhook /\ L.top + LUA_MINSTACK <= stack_last
     /\ Go(th, t, SetFrame([L EXCEPT !.allowhook = FALSE],
                       [f EXCEPT !.top = L.top + LUA_MINSTACK]),
           Append(cst, [k |-> "hook", t |-> t, nexec |-> 0, ci |-> Len(L.ci),
                        top |-> L.top, citop |-> f.top]))

-----------------------------------------------------------------------------
(* C code: the functions of lapi.c that a C function, a hook or the host   *)
(* program calls                                                           *)

CRuns(t) == t = Current /\ pend = "none" /\ InC(t)

(* The first slot C code may use.                                          *)
Bottom(t) == IF InHook THEN Last(cst).top ELSE th[t].base

lua_push(t, v) ==
  /\ CRuns(t) /\ th[t].top < Frame(th[t]).top
  /\ Go(th, t, Push(th[t], v), cst)

lua_pop(t) ==
  /\ CRuns(t) /\ th[t].top > Bottom(t)
  /\ Go(th, t, CutTo(th[t], th[t].top - 1), cst)

lua_call(t, nargs, nresults) ==
  LET L == th[t]
      func == L.top - (nargs + 1)
  IN /\ CRuns(t) /\ cst # <<>> /\ func >= Bottom(t)
     /\ nresults - nargs <= Frame(L).top - L.top
     /\ luaD_call(t, L, cst, [k |-> "call", t |-> t, nexec |-> 0, ci |-> Len(L.ci), nresults |-> nresults],
                  func, nresults)

(* lua_pcall: luaD_pcall of luaD_call.  `keep' records what the caller has *)
(* on its stack below the call.                                            *)
lua_pcall(t, nargs, nresults, errfunc) ==
  LET L == th[t]
      func == L.top - (nargs + 1)
      e == [k |-> "pcall", t |-> t, nexec |-> 0, ci |-> Len(L.ci),
            nresults |-> nresults, oldtop |-> func, nCcalls |-> L.nCcalls,
            allowhook |-> L.allowhook, errfunc |-> L.errfunc,
            keep |-> SubSeq(L.stk, Bottom(t), func - 1)]
  IN /\ CRuns(t) /\ func >= Bottom(t)
     /\ nresults - nargs <= Frame(L).top - L.top
     /\ errfunc = 0 \/ errfunc \in Bottom(t) .. func - 1
     /\ luaD_call(t, [L EXCEPT !.errfunc = errfunc], cst, e, func, nresults)

lua_error(t) ==
  /\ CRuns(t) /\ cst # <<>> /\ th[t].top > Bottom(t)
  /\ Throw(th, t, th[t], cst, "message")

(* A C function returns its n topmost values.                              *)
CReturn(t, n) ==
  /\ CRuns(t) /\ ~InHook /\ Len(th[t].ci) > 1
  /\ n <= th[t].top - th[t].base
  /\ Return(t, th[t], th[t].top - n)

(* The end of luaD_callhook.                                               *)
HookReturn(t) ==
  LET e == Last(cst)
      L == CutTo(th[t], e.top)
  IN /\ CRuns(t) /\ InHook
     /\ Go(th, t, SetFrame([L EXCEPT !.allowhook = TRUE],
                       [Frame(L) EXCEPT !.top = e.citop]), Front(cst))

-----------------------------------------------------------------------------
(* Coroutines                                                              *)

(* stack_init and preinit_state.                                           *)
NewState(status) ==
  [stk |-> [i \in Slot |-> Nil], top |-> 2, base |-> 2,
   ci |-> <<[func |-> 1, base |-> 2, top |-> 2 + LUA_MINSTACK, lua |-> FALSE,
             nresults |-> 0, numparams |-> 0, is_vararg |-> FALSE, open |-> FALSE]>>,
   size_ci |-> BASIC_CI_SIZE, status |-> status, nCcalls |-> 0, baseCcalls |-> 0,
   errfunc |-> 0, allowhook |-> TRUE, openupval |-> <<>>, kept |-> FALSE]

(* luaB_cocreate: a new thread with a Lua function on its stack.           *)
luaB_cocreate(t, co) ==
  /\ CRuns(t) /\ ~InHook /\ cst # <<>>
  /\ co \in Coroutine /\ th[co].status = "none"
  /\ th[t].top < Frame(th[t]).top
  /\ th' = [th EXCEPT ![co] = Push(NewState("ok"), Message), ![t] = Push(@, Message)]
  /\ cmp' = NoComparison
  /\ UNCHANGED <<cst, pend>>

costatus(t, co) ==
  LET L == th[co]
  IN CASE t = co -> "running"
       [] t # co /\ L.status = "yield" -> "suspended"
       [] t # co /\ L.status = "ok" /\ Len(L.ci) > 1 -> "normal"
       [] t # co /\ L.status = "ok" /\ Len(L.ci) = 1 ->
            IF L.top = L.base THEN "dead" ELSE "suspended"
       [] t # co /\ L.status \notin {"yield", "ok"} -> "dead"

(* resume: start the function below the arguments, which luaB_cocreate     *)
(* makes sure is a Lua function, or finish the OP_CALL that yielded.       *)
resume(ts, co, L, cs, nargs) ==
  IF L.status = "ok"
  THEN EnterLua(ts, co, L, cs, L.top - nargs - 1, MULTRET, FALSE)
  ELSE LET L1 == luaD_poscall([L EXCEPT !.status = "ok"], L.top - nargs)
       IN Go(ts, co, AfterCall(L1, Frame(L).nresults), Executing(cs, Len(L1.ci) - 1))

(* resume_error: the stack window is given up for a message, which         *)
(* auxresume moves to the resumer.                                         *)
resume_error(t, co, from, L) ==
  LET x == lua_xmove(Push(CutTo(L, Frame(L).base), Message), from, 1)
  IN /\ from.top < stack_last
     /\ Go([th EXCEPT ![co] = x.from], t, x.to, cst)

(* auxresume and lua_resume: a C function of thread t resumes co with its  *)
(* n topmost values.                                                       *)
auxresume(t, co, n) ==
  LET x == lua_xmove(th[t], lua_checkstack(th[co], n), n)
      depth == th[t].nCcalls                       \* lua_setlevel
      cs == Append(cst, [k |-> "resume", t |-> co, nexec |-> 0, ci |-> 1, from |-> t])
  IN /\ CRuns(t) /\ ~InHook /\ cst # <<>>
     /\ co \in Coroutine /\ th[co].status # "none" /\ costatus(t, co) = "suspended"
     /\ n <= th[t].top - th[t].base /\ th[co].top + n <= stack_last
     /\ IF depth >= LUAI_MAXCCALLS
        THEN resume_error(t, co, x.from, [x.to EXCEPT !.nCcalls = depth])
        ELSE resume([th EXCEPT ![t] = x.from], co,
                    [x.to EXCEPT !.nCcalls = depth + 1, !.baseCcalls = depth + 1],
                    cs, n)

(* Mutant: a yield is not refused: C code that waits for a call takes the  *)
(* yield for its return.                                                   *)
lua_yieldAlways(t, n) ==
  LET L == [th[t] EXCEPT !.base = th[t].top - n, !.status = "yield"]
  IN /\ CRuns(t) /\ ~InHook /\ Len(L.ci) > 1 /\ n <= L.top - th[t].base
     /\ IF L.nCcalls > L.baseCcalls
        THEN Go(th, t, [L EXCEPT !.nCcalls = @ - 1], Front(cst))
        ELSE EndResume(t, L, n)

(* lua_yield, the last thing a C function does: refused when C code other  *)
(* than lua_resume waits for this thread.  The n topmost values go to the  *)
(* resumer; the frame stays.                                               *)
lua_yield(t, n) ==
  LET L == th[t]
  IN /\ CRuns(t) /\ ~InHook /\ Len(L.ci) > 1 /\ n <= L.top - L.base
     /\ IF L.nCcalls > L.baseCcalls THEN RunError(th, t, L, cst)
        ELSE EndResume(t, [L EXCEPT !.base = L.top - n, !.status = "yield"], n)

-----------------------------------------------------------------------------
Init ==
  /\ th = [t \in Thread |-> NewState(IF t = Main THEN "ok" ELSE "none")]
  /\ cst = <<>>
  /\ pend = "none"
  /\ cmp = NoComparison

(* Bound: a fixed number of arguments or values ends at the last register, *)
(* so that a frame with free registers is only met as a smaller frame.     *)
UpToLast(t, r, b) == b = 0 \/ r + b = Frame(th[t]).top

LuaStep(t) ==
  \/ \E v \in Stored : SetRegisters(t, v)
  \/ \E r \in Slot, b \in 0 .. 2 :
       /\ UpToLast(t, r, b)
       /\ \/ \E n \in Results : OP_CALL(t, r, b, n)
          \/ OP_TAILCALL(t, r, b)
          \/ OP_RETURN(t, r, b)
  \/ \E r \in Slot :
       \/ OP_CLOSURE(t, r)
       \/ OP_CLOSE(t, r)
       \/ \E b \in Results : UpToLast(t, r, b + 1) /\ OP_VARARG(t, r, b)
  \/ \E r \in {Frame(th[t]).base} : callTMres(t, r)
  \/ \E v \in Stored : OP_SETUPVAL(t, v)
  \/ OP_SETLIST(t)
  \/ callTM(t)
  \/ call_orderTM(t)
  \/ LuaError(t)
  \/ luaD_callhook(t)

CStep(t) ==
  \/ \E v \in Stored : lua_push(t, v)
  \/ lua_pop(t)
  \/ \E a \in 0 .. 1 :                         \* bound: one argument
       \/ lua_call(t, a, 1)
       \/ \E ef \in {0, Bottom(t)} : lua_pcall(t, a, MULTRET, ef)
  \/ lua_error(t)
  \/ \E n \in 0 .. 1 : CReturn(t, n)
  \/ HookReturn(t)
  \/ \E co \in Coroutine :
       \/ luaB_cocreate(t, co)
       \/ \E n \in 0 .. 1 : auxresume(t, co, n)
  \/ \E n \in 0 .. 1 : lua_yield(t, n)

Next ==
  \/ luaG_errormsg
  \/ luaD_throw
  \/ \E t \in Thread : LuaStep(t) \/ CStep(t)

Spec == Init /\ [][Next]_cvars

-----------------------------------------------------------------------------
(* Properties                                                              *)

(* Type invariant: the windows of every lua_State lie inside its stack,    *)
(* one above the other (the lua_asserts on ci->top in luaD_precall).       *)
CallsTypeOK ==
  /\ pend \in {"none", "message", "ERRRUN", "ERRERR", "ERRMEM"}
  /\ \A t \in Thread :
       LET L == th[t]
       IN /\ L.status \in {"none", "ok", "yield", "dead"}
          /\ L.stk \in [Slot -> Val \cup {Nil}]
          /\ L.top \in 2 .. Slots /\ L.base \in 2 .. Slots
          /\ L.status # "yield" => L.base = Frame(L).base /\ L.base <= L.top
          /\ Len(L.ci) <= L.size_ci
          /\ \A i \in 1 .. Len(L.ci) :
               /\ L.ci[i].func < L.ci[i].base /\ L.ci[i].base <= L.ci[i].top
               /\ L.ci[i].top <= Slots
               /\ i > 1 => L.ci[i - 1].base <= L.ci[i].func
  /\ \A i \in 1 .. Len(cst) : cst[i].t \in Thread /\ cst[i].nexec \in Nat

(* No slot above the top of a stack holds a value: with reference counting *)
(* such a value would be counted for ever, and the next frame would start  *)
(* with it instead of nil (checkrangeisnil in luaD_precall and             *)
(* luaD_reallocstack), whatever calls, errors and yields came before.      *)
ClearAbove ==
  \A t \in Thread : \A i \in th[t].top .. Slots : th[t].stk[i] = Nil

(* The open upvalues of a thread are ordered, without two for one slot,    *)
(* and each is a register of a Lua function that is still active: none is  *)
(* left behind by a return, a tail call or an error (luaF_close).          *)
UpvaluesInFrames ==
  \A t \in Thread :
    LET L == th[t]
        uv == L.openupval
    IN \A i \in 1 .. Len(uv) :
         /\ i > 1 => uv[i - 1] > uv[i]
         /\ \E j \in 1 .. Len(L.ci) :
              /\ L.ci[j].lua /\ L.ci[j].base <= uv[i]
              /\ uv[i] < (IF j < Len(L.ci) THEN L.ci[j + 1].func ELSE Slots + 1)

(* nCcalls counts the C calls in progress on a thread: it decides both the *)
(* C stack limit and whether lua_yield is allowed (lua_resume asserts that *)
(* it is back at baseCcalls).                                              *)
CCallsExact ==
  \A t \in {Current} \cup {cst[i].t : i \in 1 .. Len(cst)} :
    th[t].nCcalls = th[t].baseCcalls +
      Cardinality({i \in 1 .. Len(cst) :
                     cst[i].t = t /\ cst[i].k \notin {"resume", "hook"}})

(* A suspended thread can be resumed: no activation of C code waits     *)
(* inside it, and no error handler of a protected call is left in it       *)
(* (lua_assert(L->errfunc == 0) in lua_resume).                            *)
YieldSafe ==
  \A co \in Thread :
    th[co].status = "yield" =>
      /\ \A i \in 1 .. Len(cst) : cst[i].t # co
      /\ th[co].errfunc = 0 /\ ~isLua(th[co])
      /\ th[co].allowhook

(* In a thread that no call has entered, the host program's or one that    *)
(* can be resumed, the limit on nested calls is in force: an overflow has  *)
(* been undone by restore_stack_limit.  It is not when the protected call  *)
(* that caught the overflow was itself made at the limit.                  *)
OverflowUndone ==
  \A t \in Thread :
    (th[t].status # "dead" /\ \A i \in 1 .. Len(cst) : cst[i].t # t) =>
      th[t].kept \/ th[t].size_ci <= LUAI_MAXCALLS

(* However a protected call ends, its caller finds its own frame, hooks,   *)
(* error handler and C-call count, and the values it had on its stack      *)
(* below the function, as they were.                                       *)
PcallReturns ==
  LET e == cst[Len(cst') + 1]
      L == th'[e.t]
  IN (Len(cst') < Len(cst) /\ e.k = "pcall") =>
       /\ Len(L.ci) = e.ci /\ L.base = Frame(L).base
       /\ L.nCcalls = e.nCcalls /\ L.errfunc = e.errfunc
       /\ L.allowhook = e.allowhook
       /\ SubSeq(L.stk, e.oldtop - Len(e.keep), e.oldtop - 1) = e.keep

PcallRestores == [][PcallReturns]_cvars

(* A comparison by metamethod is true when the metamethod returns a true   *)
(* value: the result of __lt, __le and __eq is `return (h(op1, op2))' in   *)
(* section 2.8 of the manual (doc/manual.html:1805).                       *)
ComparisonResult == cmp.result = cmp.returned

=============================================================================
