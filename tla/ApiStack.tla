------------------------------ MODULE ApiStack ------------------------------
(***************************************************************************)
(* The functions of lapi.c that move values between the stack of a C       *)
(* function and the heap, with the reference counts they keep.             *)
(*                                                                         *)
(* `mem' is every place that holds a counted reference: the stack slots of *)
(* the running C function, the fields of the objects (the metatable, the   *)
(* environment, and one value: an element of a table, the upvalue of a     *)
(* function), the globals of the thread and the scratch place L->env.      *)
(* `ref' is the count the code keeps, `zero' the objects whose count has   *)
(* fallen to zero and that luarc_releaseobj is releasing, `dying' those    *)
(* whose fields have been given up and whose memory is about to be freed.  *)
(* `half' is the rest of a function that releases a reference before it    *)
(* writes the new one: lua_setmetatable and lua_setfenv.                   *)
(***************************************************************************)
EXTENDS Integers, FiniteSets

CONSTANTS Obj,            \* objects
          Kind,           \* Obj -> {"table", "function", "userdata", "thread"}
          Nil, Num,       \* nil, and any value that is not collectable
          Running,        \* the C function that runs
          Globals,        \* the table of globals
          Slots,          \* bound: stack slots
          FinalizerInHalf \* may a finalizer look at a field that is half written?

ASSUME ApiAssumption ==
  /\ IsFiniteSet(Obj)
  /\ Running \in Obj /\ Globals \in Obj /\ Running # Globals
  /\ Kind \in [Obj -> {"table", "function", "userdata", "thread"}]
  /\ Kind[Running] = "function" /\ Kind[Globals] = "table"
  /\ Slots \in Nat \ {0} /\ FinalizerInHalf \in BOOLEAN
  /\ Nil \notin Obj /\ Num \notin Obj /\ Nil # Num

VARIABLES mem, ref, top, heap, zero, dying, half, leaked, left

avars == <<mem, ref, top, heap, zero, dying, half, leaked, left>>

-----------------------------------------------------------------------------
(* Places                                                                  *)

Slot == 1 .. Slots

Fields(o) == CASE Kind[o] = "table" -> {"metatable", "value"}
               [] Kind[o] = "userdata" -> {"metatable", "env"}
               [] Kind[o] = "function" -> {"env", "value"}
               [] OTHER -> {"env"}

S(i) == <<"stack", i>>
F(o, f) == <<f, o>>
Here == <<"function", Running>>          \* the slot below the first argument
GlobalsIndex == <<"globals", Running>>
EnvSlot == <<"L->env", Running>>

Place == {S(i) : i \in Slot} \cup (UNION {{F(o, f) : f \in Fields(o)} : o \in Obj})
         \cup {Here, GlobalsIndex, EnvSlot}

Refs(m, o) == Cardinality({p \in Place : m[p] = o})

-----------------------------------------------------------------------------
(* The macros of lobject.h on a store [mem, ref, zero].                    *)

Store == [mem |-> mem, ref |-> ref, zero |-> zero]

addref(c, v) == IF v \in Obj THEN [c EXCEPT !.ref[v] = @ + 1] ELSE c

subref(c, v) ==
  IF v \notin Obj THEN c
  ELSE [c EXCEPT !.ref[v] = @ - 1,
                 !.zero = IF c.ref[v] - 1 <= 0 THEN @ \cup {v} ELSE @]

(* setobj, and setnilvalue, sethvalue, ... with v the new value.           *)
setobj(c, p, v) == subref(addref([c EXCEPT !.mem[p] = v], v), c.mem[p])

setnilvalue(c, p) == setobj(c, p, Nil)

(* setobj2n, sethvalue2n: the place is new.                                *)
setobj2n(c, p, v) == addref([c EXCEPT !.mem[p] = v], v)

(* setnilvalue2n: no count changes.                                        *)
setnilvalue2n(c, p) == [c EXCEPT !.mem[p] = Nil]

(* The slots from .. to - 1, the highest first.                            *)
SetNilAll(c, from, to) ==
  LET set[n \in 0 .. to - from] ==
        IF n = 0 THEN c ELSE setnilvalue(set[n - 1], S(to - n))
  IN set[to - from]

-----------------------------------------------------------------------------
(* Calls                                                                   *)

Idle == half = <<>> /\ zero = {} /\ dying = {}

(* The new store and top; the objects whose count fell to zero are         *)
(* released before the next call.                                          *)
Then(c, newtop) ==
  /\ mem' = c.mem /\ ref' = c.ref /\ zero' = c.zero
  /\ top' = newtop
  /\ left' = {i \in left : i >= newtop /\ c.mem[S(i)] # Nil}

Same == UNCHANGED <<heap, dying, half, leaked>>

(* Places an index argument names, the globals included.                   *)
index2adr == {S(i) : i \in 1 .. top - 1} \cup {GlobalsIndex, F(Running, "value")}

(* index2adr of LUA_ENVIRONINDEX: the environment goes to L->env.          *)
EnvironIndex(c) == setobj(c, EnvSlot, c.mem[F(Running, "env")])

IsA(p, k) == mem[p] \in Obj /\ Kind[mem[p]] = k

Room == top <= Slots

(* luaA_pushobject, lua_pushvalue and the other pushes of existing values. *)
Push(c, v) == setobj(c, S(top), v)

lua_pushvalue(p) ==
  /\ Idle /\ Room
  /\ Then(Push(Store, mem[p]), top + 1) /\ Same

lua_pushvalueEnv ==
  /\ Idle /\ Room
  /\ Then(Push(EnvironIndex(Store), mem[F(Running, "env")]), top + 1) /\ Same

lua_pushnumber == Idle /\ Room /\ Then(Push(Store, Num), top + 1) /\ Same

(* lua_settop: the slots above the new top are released from the top down. *)
lua_settop(newtop) ==
  /\ Idle /\ newtop <= Slots + 1
  /\ Then(SetNilAll(Store, newtop, IF top > newtop THEN top ELSE newtop), newtop) /\ Same

(* lua_remove: the values above move down one by one.                      *)
lua_remove(i) ==
  LET move[n \in 0 .. top - 1 - i] ==
        IF n = 0 THEN Store
        ELSE setobj(move[n - 1], S(i + n - 1), move[n - 1].mem[S(i + n)])
  IN /\ Idle /\ i < top
     /\ Then(setnilvalue(move[top - 1 - i], S(top - 1)), top - 1)
     /\ Same

(* Mutant: the hole is opened from below.                                  *)
lua_insertUp(i) ==
  LET move[n \in 0 .. top - i] ==
        IF n = 0 THEN Store
        ELSE setobj(move[n - 1], S(i + n), move[n - 1].mem[S(i + n - 1)])
      up == move[top - i]
  IN /\ Idle /\ i < top /\ Room
     /\ Then(setobj(up, S(i), up.mem[S(top)]), top)
     /\ Same

(* lua_insert: from the free slot down, then the old top goes to i.        *)
lua_insert(i) ==
  LET move[n \in 0 .. top - i] ==
        IF n = 0 THEN Store
        ELSE setobj(move[n - 1], S(top + 1 - n), move[n - 1].mem[S(top - n)])
      up == move[top - i]
  IN /\ Idle /\ i < top /\ Room
     /\ Then(setnilvalue(setobj(up, S(i), up.mem[S(top)]), S(top)), top)
     /\ Same

(* lua_replace, with the environment of the function as a special case.    *)
lua_replace(p) ==
  /\ Idle /\ top > 1
  /\ Then(setnilvalue(setobj(Store, p, mem[S(top - 1)]), S(top - 1)), top - 1) /\ Same

lua_replaceEnv ==
  /\ Idle /\ top > 1 /\ IsA(S(top - 1), "table")
  /\ Then(setnilvalue(setobj(EnvironIndex(Store), F(Running, "env"), mem[S(top - 1)]),
                      S(top - 1)), top - 1)
  /\ Same

-----------------------------------------------------------------------------
(* New objects                                                             *)

getcurrenv == mem[F(Running, "env")]

(* luaH_new, luaS_newudata, luaE_newthread: a new object with count 0 that *)
(* refers to the environment, then pushed.                                 *)
New(o, k, c) ==
  /\ Idle /\ Room /\ o \notin heap /\ Kind[o] = k
  /\ Then(Push(c, o), top + 1)
  /\ heap' = heap \cup {o}
  /\ UNCHANGED <<dying, half, leaked>>

lua_createtable(o) == New(o, "table", Store)
lua_newuserdata(o) == New(o, "userdata", setobj2n(Store, F(o, "env"), getcurrenv))
lua_newthread(o) == New(o, "thread", setobj2n(Store, F(o, "env"), mem[GlobalsIndex]))

(* Mutant: a stack slot is cleared before the upvalue is set.              *)
lua_pushcclosureClear(o, n) ==
  LET c == setobj2n(Store, F(o, "env"), getcurrenv)
      d == IF n = 0 THEN c
           ELSE setobj2n(setnilvalue(c, S(top - 1)), F(o, "value"), c.mem[S(top - 1)])
  IN /\ Idle /\ o \notin heap /\ Kind[o] = "function" /\ top > n /\ top - n <= Slots
     /\ Then(setobj(d, S(top - n), o), top - n + 1)
     /\ heap' = heap \cup {o}
     /\ UNCHANGED <<dying, half, leaked>>

(* lua_pushcclosure with n = 0 or 1 upvalues, taken from the stack.        *)
lua_pushcclosure(o, n) ==
  LET c == setobj2n(Store, F(o, "env"), getcurrenv)
      d == IF n = 0 THEN c
           ELSE setnilvalue(setobj2n(c, F(o, "value"), c.mem[S(top - 1)]), S(top - 1))
  IN /\ Idle /\ o \notin heap /\ Kind[o] = "function" /\ top > n /\ top - n <= Slots
     /\ Then(setobj(d, S(top - n), o), top - n + 1)
     /\ heap' = heap \cup {o}
     /\ UNCHANGED <<dying, half, leaked>>

-----------------------------------------------------------------------------
(* Tables, metatables, environments, upvalues                              *)

(* lua_rawget, lua_gettable: the key on the top is replaced by the value.  *)
lua_rawget(p) ==
  /\ Idle /\ top > 1 /\ IsA(p, "table")
  /\ Then(setobj(Store, S(top - 1), mem[F(mem[p], "value")]), top) /\ Same

lua_rawgeti(p) ==
  /\ Idle /\ Room /\ IsA(p, "table")
  /\ Then(Push(Store, mem[F(mem[p], "value")]), top + 1) /\ Same

(* lua_rawset, lua_settable: key and value are popped.                     *)
lua_rawset(p) ==
  /\ Idle /\ top > 2 /\ IsA(p, "table")
  /\ LET c == setobj(Store, F(mem[p], "value"), mem[S(top - 1)])
     IN Then(setnilvalue(setnilvalue(c, S(top - 2)), S(top - 1)), top - 2)
  /\ Same

lua_rawseti(p) ==
  /\ Idle /\ top > 1 /\ IsA(p, "table")
  /\ Then(setnilvalue(setobj(Store, F(mem[p], "value"), mem[S(top - 1)]), S(top - 1)), top - 1)
  /\ Same

(* lua_next: the key is replaced by the next one and its value is pushed,  *)
(* or the key is popped at the end.                                        *)
lua_next(p) ==
  /\ Idle /\ top > 1 /\ IsA(p, "table")
  /\ \/ /\ Room /\ mem[S(top - 1)] = Nil /\ mem[F(mem[p], "value")] # Nil
        /\ Then(Push(setobj(Store, S(top - 1), Num), mem[F(mem[p], "value")]), top + 1)
     \/ /\ mem[S(top - 1)] # Nil \/ mem[F(mem[p], "value")] = Nil
        /\ Then(setnilvalue(Store, S(top - 1)), top - 1)
  /\ Same

HasMetatable(p) == IsA(p, "table") \/ IsA(p, "userdata")

lua_getmetatable(p) ==
  /\ Idle /\ Room /\ HasMetatable(p) /\ mem[F(mem[p], "metatable")] # Nil
  /\ Then(Push(Store, mem[F(mem[p], "metatable")]), top + 1) /\ Same

lua_getfenv(p) ==
  /\ Idle /\ Room /\ mem[p] # Nil
  /\ Then(Push(Store, IF mem[p] \in Obj /\ "env" \in Fields(mem[p])
                      THEN mem[F(mem[p], "env")] ELSE Nil), top + 1)
  /\ Same

(* lua_setmetatable, lua_setfenv: the reference of the old table is given  *)
(* back first, and whatever that releases is released there and then.      *)
GiveBack(field) ==
  LET c == subref(Store, mem[field])
  IN /\ ref' = c.ref /\ zero' = c.zero /\ half' = <<field>>
     /\ UNCHANGED <<mem, top, heap, dying, leaked, left>>

lua_setmetatable(p) ==
  /\ Idle /\ top > 1 /\ HasMetatable(p)
  /\ mem[S(top - 1)] = Nil \/ IsA(S(top - 1), "table")
  /\ GiveBack(F(mem[p], "metatable"))

lua_setfenv(p) ==
  /\ Idle /\ top > 1 /\ IsA(S(top - 1), "table")
  /\ IsA(p, "function") \/ IsA(p, "userdata")
  /\ GiveBack(F(mem[p], "env"))

(* Mutant: the stack's own reference is given back as well.                *)
TakeOverReleased ==
  /\ half # <<>> /\ zero = {} /\ dying = {}
  /\ Then(setnilvalue([Store EXCEPT !.mem[half[1]] = mem[S(top - 1)]], S(top - 1)), top - 1)
  /\ half' = <<>>
  /\ UNCHANGED <<heap, dying, leaked>>

(* Then the field takes over the reference of the stack slot.              *)
TakeOver ==
  /\ half # <<>> /\ zero = {} /\ dying = {}
  /\ Then(setnilvalue2n([Store EXCEPT !.mem[half[1]] = mem[S(top - 1)]], S(top - 1)), top - 1)
  /\ half' = <<>>
  /\ UNCHANGED <<heap, dying, leaked>>

(* lua_setfenv of a thread counts the table and gives one count back.      *)
lua_setfenvThread(p) ==
  LET t == mem[S(top - 1)]
  IN /\ Idle /\ top > 1 /\ IsA(p, "thread") /\ IsA(S(top - 1), "table")
     /\ Then(setnilvalue2n(subref(setobj(Store, F(mem[p], "env"), t), t), S(top - 1)), top - 1)
     /\ Same

(* lua_setfenv of anything else: the slot is cleared, its count stays.     *)
(* Bound: once per object.                                                 *)
lua_setfenvOther(p) ==
  LET t == mem[S(top - 1)]
  IN /\ Idle /\ top > 1 /\ IsA(p, "table") /\ IsA(S(top - 1), "table") /\ t \notin leaked
     /\ Then(setnilvalue2n(Store, S(top - 1)), top - 1)
     /\ leaked' = leaked \cup {t}
     /\ UNCHANGED <<heap, dying, half>>

lua_getupvalue(p) ==
  /\ Idle /\ Room /\ IsA(p, "function")
  /\ Then(Push(Store, mem[F(mem[p], "value")]), top + 1) /\ Same

(* lua_setupvalue: the value is popped, its slot keeps it.                 *)
lua_setupvalue(p) ==
  LET c == setobj(Store, F(mem[p], "value"), mem[S(top - 1)])
  IN /\ Idle /\ top > 1 /\ IsA(p, "function")
     /\ mem' = c.mem /\ ref' = c.ref /\ zero' = c.zero /\ top' = top - 1
     /\ left' = {i \in left \cup {top - 1} : c.mem[S(i)] # Nil}
     /\ Same

(* The C function returns: luaD_poscall clears what is below the top.      *)
Return == Idle /\ top > 1 /\ Then(SetNilAll(Store, 1, top), 1) /\ Same

-----------------------------------------------------------------------------
(* Releases (lgc.c), reduced to what happens to the references             *)

GiveUp(c, o, f) == IF f \in Fields(o) THEN setnilvalue(c, F(o, f)) ELSE c

(* luarc_releaseobj: the fields of an object without references are given  *)
(* up, ...                                                                 *)
Strip(o) ==
  LET c == GiveUp(GiveUp(GiveUp(Store, o, "metatable"), o, "env"), o, "value")
  IN /\ o \in zero
     /\ mem' = c.mem /\ ref' = c.ref /\ zero' = c.zero \ {o}
     /\ dying' = dying \cup {o}
     /\ UNCHANGED <<top, heap, half, leaked, left>>

(* ... then its memory is freed.                                           *)
Free(o) ==
  /\ zero = {} /\ o \in dying
  /\ dying' = dying \ {o}
  /\ heap' = heap \ {o}
  /\ UNCHANGED <<mem, ref, top, zero, half, leaked, left>>

(* The finalizer of an object that is being released may call any API      *)
(* function; here it puts what a field of a live object holds in a global. *)
Finalizer(o, p) ==
  LET c == setobj(Store, F(mem[GlobalsIndex], "value"), mem[p])
  IN /\ o \in zero /\ Kind[o] = "userdata" /\ IsA(GlobalsIndex, "table")
     /\ half = <<>> \/ FinalizerInHalf
     /\ p[2] \in heap \ (zero \cup dying) /\ mem[p] \in Obj
     /\ mem' = c.mem /\ ref' = c.ref /\ zero' = c.zero
     /\ UNCHANGED <<top, heap, dying, half, leaked, left>>

-----------------------------------------------------------------------------
Init ==
  /\ mem = [p \in Place |-> IF p = Here THEN Running
                            ELSE IF p \in {GlobalsIndex, F(Running, "env")} THEN Globals
                            ELSE Nil]
  /\ ref = [o \in Obj |-> IF o = Globals THEN 2 ELSE IF o = Running THEN 1 ELSE 0]
  /\ top = 1
  /\ heap = {Running, Globals}
  /\ zero = {} /\ dying = {} /\ half = <<>> /\ leaked = {} /\ left = {}

StackCall ==
  \/ \E p \in index2adr : lua_pushvalue(p) \/ lua_replace(p)
  \/ lua_pushvalueEnv \/ lua_replaceEnv \/ lua_pushnumber
  \/ \E i \in Slot : lua_settop(i) \/ lua_remove(i) \/ lua_insert(i)
  \/ \E o \in Obj :
       \/ lua_createtable(o) \/ lua_newuserdata(o) \/ lua_newthread(o)
       \/ \E n \in 0 .. 1 : lua_pushcclosure(o, n)
  \/ Return

HeapCall ==
  \/ \E p \in index2adr :
       \/ lua_rawget(p) \/ lua_rawgeti(p) \/ lua_rawset(p) \/ lua_rawseti(p) \/ lua_next(p)
       \/ lua_getmetatable(p) \/ lua_setmetatable(p)
       \/ lua_getfenv(p) \/ lua_setfenv(p) \/ lua_setfenvThread(p) \/ lua_setfenvOther(p)
       \/ lua_getupvalue(p) \/ lua_setupvalue(p)
  \/ TakeOver

Release == \E o \in Obj : Strip(o) \/ Free(o) \/ \E p \in Place : Finalizer(o, p)

Next == StackCall \/ HeapCall \/ Release

Spec == Init /\ [][Next]_avars

-----------------------------------------------------------------------------
(* Properties                                                              *)

(* The place whose reference has been given back but not yet overwritten.  *)
HalfDone(o) == half # <<>> /\ mem[half[1]] = o

(* Every count is the number of places that hold the object, but for the   *)
(* reference lua_setmetatable or lua_setfenv is about to overwrite and the *)
(* one lua_setfenv loses when it is not given a function, a userdata or a  *)
(* thread.                                                                 *)
ApiCounts ==
  \A o \in heap \ dying :
    ref[o] = Refs(mem, o) + (IF o \in leaked THEN 1 ELSE 0) - (IF HalfDone(o) THEN 1 ELSE 0)

(* An object is only released when nothing refers to it: no count touches  *)
(* zero in the middle of a call that keeps the object (the comment in      *)
(* lua_insert, "no GCTM will be invoked").                                 *)
ReleaseUnreferenced ==
  \A o \in zero \cup dying : \A p \in Place : mem[p] = o => half = <<p>>

(* The slot at the top is nil before a call pushes a value, as the asserts *)
(* lua_assert(ttisnil(L->top)) say, but for the value lua_setupvalue       *)
(* leaves there.                                                           *)
TopIsNil == \A i \in top .. Slots : mem[S(i)] # Nil => i \in left
=============================================================================
