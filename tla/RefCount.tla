------------------------------ MODULE RefCount ------------------------------
(***************************************************************************)
(* The reference-counting half of the luarc memory manager: the setobj and *)
(* setnilvalue macros of lobject.h, luarc_releaseobj (lobject.c), and the  *)
(* luaC_freeobj / luarc_free* / GCTM recursion of lgc.c.                   *)
(*                                                                         *)
(* An object is a member of Obj with the fields Fld; `Main' is the fixed   *)
(* main thread, whose fields are the registers, globals and registry slots *)
(* the running Lua code can name.  `fld' is the pointer graph and `ref'    *)
(* the counter each GC header carries.  `frames' is the C stack of nested  *)
(* luaC_freeobj activations: an object whose count reaches zero is         *)
(* released by the store that dropped the last reference, its members are  *)
(* released inside that release, and a finalizer called from it runs       *)
(* arbitrary Lua code before the release goes on.                          *)
(*                                                                         *)
(* Open upvalues are not among the objects: luarc_freeupval leaves one     *)
(* with a zero count in place, for luaF_close to deal with.                *)
(***************************************************************************)
EXTENDS Integers, Sequences, FiniteSets

CONSTANTS Obj,        \* the heap cells objects are allocated in
          Main,       \* the main thread: FIXEDBIT and SFIXEDBIT are set
          Fld,        \* names of the reference-holding fields
          Nil,        \* a value that is not collectable
          GcObj,      \* the userdata whose metatable has a __gc field
          Retain,     \* may a finalizer return with its argument still stored?
          Errors      \* may a finalizer raise an error?

ASSUME ObjAssumption ==
  /\ IsFiniteSet(Obj) /\ IsFiniteSet(Fld)
  /\ Main \in Obj /\ Nil \notin Obj
  /\ GcObj \subseteq Obj \ {Main}
  /\ Retain \in BOOLEAN /\ Errors \in BOOLEAN

VARIABLES st,      \* what became of each cell
          fld,     \* the reference held by each field, or Nil
          ref,     \* gch.ref
          fin,     \* userdata with FINALIZEDBIT
          frames   \* active luaC_freeobj calls, innermost last

rcvars == <<st, fld, ref, fin, frames>>

(***************************************************************************)
(* "live": on the rootgc list.  "dying": unlinked from rootgc by a         *)
(* luarc_free* function that has not freed it yet.  "finalizing": put back *)
(* on rootgc by GCTM, whose luaD_call is running the finalizer.            *)
(***************************************************************************)
Status == {"free", "live", "dying", "finalizing"}

TypeOK ==
  /\ st \in [Obj -> Status]
  /\ fld \in [Obj \X Fld -> Obj \cup {Nil}]
  /\ ref \in [Obj -> Int]
  /\ fin \subseteq Obj
  /\ frames \in Seq(Obj)

Init ==
  /\ st = [o \in Obj |-> IF o = Main THEN "live" ELSE "free"]
  /\ fld = [x \in Obj \X Fld |-> Nil]
  /\ ref = [o \in Obj |-> 0]
  /\ fin = {}
  /\ frames = <<>>

Top == frames[Len(frames)]

(* The udata a running finalizer was called with: its argument slot is a   *)
(* counted reference that is not one of Main's fields.                     *)
Argument == {o \in Obj : frames # <<>> /\ o = Top /\ st[o] = "finalizing"}

(* Lua code runs at the bottom of the C stack and inside finalizers.       *)
MutatorRuns == frames # <<>> => st[Top] = "finalizing"

(* Objects whose fields the running code can read and write.               *)
Accessible ==
  {Main} \cup Argument \cup {o \in Obj : \E s \in Fld : fld[<<Main, s>>] = o}

(* The fields that hold a reference to o.                                  *)
Holders(o) == {x \in Obj \X Fld : fld[x] = o}

-----------------------------------------------------------------------------
(* Counting                                                                *)

(* Mutant: a set macro without luarc_addref.                               *)
AddRefMissing(r, v) == r

(* luarc_addref: a store of v counts it unless v is not collectable.       *)
AddRef(r, v) == IF v = Nil THEN r ELSE [r EXCEPT ![v] = @ + 1]

SubRef(r, v) == IF v = Nil THEN r ELSE [r EXCEPT ![v] = @ - 1]

(* Mutant: FINALIZEDBIT is not looked at.                                  *)
KeptIfFixed(o) == o = Main

(* Objects luarc_releaseobj and luaC_freeobj leave alone: fixed ones and   *)
(* userdata that already has FINALIZEDBIT.                                 *)
Kept(o) == o = Main \/ o \in fin

(* Mutants of the test in luarc_subref: a release of the last but one      *)
(* reference, and a release that comes a reference too late.               *)
ReleaseAtOne(s, v) ==
  IF v # Nil /\ ref'[v] <= 1 /\ ~Kept(v) /\ s[v] = "live"
  THEN st' = [s EXCEPT ![v] = "dying"] /\ frames' = Append(frames, v)
  ELSE st' = s /\ UNCHANGED frames

ReleaseBelowZero(s, v) ==
  IF v # Nil /\ ref'[v] < 0 /\ ~Kept(v)
  THEN st' = [s EXCEPT ![v] = "dying"] /\ frames' = Append(frames, v)
  ELSE st' = s /\ UNCHANGED frames

(* luarc_subref after its decrement, from the statuses s: at zero the      *)
(* object is unlinked from rootgc and its luarc_free* activation begins.   *)
ReleaseIfZero(s, v) ==
  IF v # Nil /\ ref'[v] <= 0 /\ ~Kept(v)
  THEN /\ st' = [s EXCEPT ![v] = "dying"]
       /\ frames' = Append(frames, v)
  ELSE /\ st' = s
       /\ UNCHANGED frames

(* setobj and setnilvalue, from the statuses s and the counts r: the slot  *)
(* is overwritten first, then the new value is counted, then the old one   *)
(* is dropped.                                                             *)
SetObj(s, r, p, f, v) ==
  LET old == fld[<<p, f>>]
  IN /\ fld' = [fld EXCEPT ![<<p, f>>] = v]
     /\ ref' = SubRef(AddRef(r, v), old)
     /\ ReleaseIfZero(s, old)

-----------------------------------------------------------------------------
(* The Lua code                                                            *)

(* p.f := q.g, where both are registers, globals or fields.                *)
Assign(p, f, q, g) ==
  /\ MutatorRuns
  /\ p \in Accessible /\ q \in Accessible
  /\ SetObj(st, ref, p, f, fld[<<q, g>>])
  /\ UNCHANGED fin

(* p.f := nil                                                              *)
Clear(p, f) ==
  /\ MutatorRuns
  /\ p \in Accessible /\ fld[<<p, f>>] # Nil
  /\ SetObj(st, ref, p, f, Nil)
  /\ UNCHANGED fin

(* A finalizer stores its own argument: p.f := u                           *)
AssignArgument(p, f) ==
  /\ p \in Accessible
  /\ \E u \in Argument : SetObj(st, ref, p, f, u)
  /\ UNCHANGED fin

(* luaC_link and its callers: a fresh object, with count 0 until the       *)
(* register that receives it is written.                                   *)
New(o, s) ==
  /\ MutatorRuns
  /\ st[o] = "free"
  /\ SetObj([st EXCEPT ![o] = "live"], [ref EXCEPT ![o] = 0], Main, s, o)
  /\ fin' = fin \ {o}

-----------------------------------------------------------------------------
(* luaC_freeobj: the release of the innermost frame                        *)

NeedsFinalizer(o) == o \in GcObj /\ o \notin fin

(* luarc_freeudata calls GCTM: FINALIZEDBIT is set, the udata goes back to *)
(* rootgc, and the argument slot of the call holds a counted reference.    *)
CallFinalizer ==
  /\ frames # <<>> /\ st[Top] = "dying" /\ NeedsFinalizer(Top)
  /\ fin' = fin \cup {Top}
  /\ st' = [st EXCEPT ![Top] = "finalizing"]
  /\ ref' = [ref EXCEPT ![Top] = @ + 1]
  /\ UNCHANGED <<fld, frames>>

(* Mutant: luarc_freeudata unlinks the udata and returns without freeing.  *)
AfterFinalizerReturn == SubSeq(frames, 1, Len(frames) - 1)

(* Dropping the argument's count would enter luaC_freeobj again if the     *)
(* udata were not kept; luarc_freeudata goes on.                           *)
AfterFinalizer ==
  IF ref'[Top] <= 0 /\ ~Kept(Top) THEN Append(frames, Top) ELSE frames

(* The call returns: clearing its argument slot drops a count, which must  *)
(* not enter luaC_freeobj a second time, and luarc_freeudata then unlinks  *)
(* the udata again, whatever its count is now.                             *)
FinalizerReturn ==
  /\ frames # <<>> /\ st[Top] = "finalizing"
  /\ Retain \/ Holders(Top) = {}
  /\ ref' = [ref EXCEPT ![Top] = @ - 1]
  /\ st' = [st EXCEPT ![Top] = "dying"]
  /\ frames' = AfterFinalizer
  /\ UNCHANGED <<fld, fin>>

(* The finalizer raises an error: luaD_throw unwinds the C stack to a      *)
(* lua_pcall, below every frame or inside an outer finalizer.  The frames  *)
(* above it are gone; the argument slots of their finalizers are cleared.  *)
FinalizerError ==
  /\ Errors
  /\ frames # <<>> /\ st[Top] = "finalizing"
  /\ \E n \in 0 .. Len(frames) - 1 :
       LET gone == {frames[i] : i \in n + 1 .. Len(frames)}
           final == {o \in gone : st[o] = "finalizing"}
       IN /\ n > 0 => st[frames[n]] = "finalizing"
          /\ frames' = SubSeq(frames, 1, n)
          /\ st' = [o \in Obj |-> IF o \in final THEN "live" ELSE st[o]]
          /\ ref' = [o \in Obj |-> IF o \in final THEN ref[o] - 1 ELSE ref[o]]
  /\ UNCHANGED <<fld, fin>>

(* luarc_free* drops one member reference; the memory of a dying object is *)
(* not read again, so the field is cleared to say that it is done.         *)
ReleaseMember(f) ==
  /\ frames # <<>> /\ st[Top] = "dying" /\ ~NeedsFinalizer(Top)
  /\ fld[<<Top, f>>] # Nil
  /\ SetObj(st, ref, Top, f, Nil)
  /\ UNCHANGED fin

(* luarc_free* frees the memory and returns.                               *)
FreeObject ==
  /\ frames # <<>> /\ st[Top] = "dying" /\ ~NeedsFinalizer(Top)
  /\ \A f \in Fld : fld[<<Top, f>>] = Nil
  /\ st' = [st EXCEPT ![Top] = "free"]
  /\ frames' = SubSeq(frames, 1, Len(frames) - 1)
  /\ fin' = fin \ {Top}
  /\ UNCHANGED <<fld, ref>>

-----------------------------------------------------------------------------
Next ==
  \/ \E p, q \in Obj, f, g \in Fld : Assign(p, f, q, g)
  \/ \E p \in Obj, f \in Fld : Clear(p, f)
  \/ \E p \in Obj, f \in Fld : AssignArgument(p, f)
  \/ \E o \in Obj, s \in Fld : New(o, s)
  \/ CallFinalizer
  \/ FinalizerReturn
  \/ FinalizerError
  \/ \E f \in Fld : ReleaseMember(f)
  \/ FreeObject

Spec == Init /\ [][Next]_rcvars

-----------------------------------------------------------------------------
(* Properties                                                              *)

ArgumentCount(o) == IF st[o] = "finalizing" THEN 1 ELSE 0

(* The counter of every object in use is exactly the number of fields that *)
(* refer to it, plus one while it is a finalizer's argument: setobj,       *)
(* setnilvalue, the member releases of luarc_free* and GCTM neither lose   *)
(* nor repeat an increment, whatever finalizers do in between.             *)
RefExact ==
  \A o \in Obj : st[o] # "free" =>
    ref[o] = Cardinality(Holders(o)) + ArgumentCount(o)

(* No field, of a live object or of one that is being released, refers to  *)
(* memory that luarc_free* has given back.                                 *)
NoDangling ==
  \A x \in Obj \X Fld : fld[x] # Nil => st[fld[x]] # "free"

(* luaC_freeobj is never entered again for an object it is already         *)
(* releasing: the nested frames are of distinct objects, all of them off   *)
(* rootgc or in their finalizer.                                           *)
NoDoubleRelease ==
  \A i \in 1 .. Len(frames) :
    /\ st[frames[i]] \in {"dying", "finalizing"}
    /\ \A j \in 1 .. Len(frames) : frames[j] = frames[i] => j = i

(* README: "heap objects will be reclaimed as soon as the reference count  *)
(* becomes 0, deferring release is not used".  Whenever no release is      *)
(* under way, no object but the main thread has a zero count.              *)
ImmediateReclaim ==
  frames = <<>> =>
    \A o \in Obj \ {Main} : st[o] # "free" => ref[o] > 0

(* An object that luarc_free* took off rootgc has a frame that will free   *)
(* it: otherwise neither the counter nor the sweep can reach it again.     *)
NothingLost ==
  \A o \in Obj : st[o] = "dying" => \E i \in 1 .. Len(frames) : frames[i] = o

(* The promise of AbstractHeap, with the finalizing objects as its args.   *)
Heap == INSTANCE AbstractHeap WITH
          alive <- {o \in Obj : st[o] # "free"},
          graph <- fld,
          args  <- {o \in Obj : st[o] = "finalizing"}

(* Counting implements the abstract heap: an object is finalized, stripped *)
(* and freed by luaC_freeobj only when Lua code can no longer reach it.    *)
ImplementsHeap == Heap!Spec
=============================================================================
