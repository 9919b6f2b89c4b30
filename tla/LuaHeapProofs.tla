---------------------------- MODULE LuaHeapProofs ----------------------------
(***************************************************************************)
(* The inductive invariant of LuaHeap, and the theorems about the whole    *)
(* memory manager that follow from it.  Its half about reference counts    *)
(* and its half about marking are each shown to survive every step, given  *)
(* the other.  The heap, the kinds of objects, the fields and the errors   *)
(* are arbitrary; four things are assumed:                                 *)
(*   ~Retain    no finalizer returns with its argument still stored;       *)
(*   ~NestedGC  no finalizer runs collector steps;                         *)
(*   ~BarrierLost  no error of a finalizer, called for the value a store   *)
(*              overwrites, skips the barrier of that store;               *)
(*   Separate   no finalizer can run inside cleartable, because there are  *)
(*              no weak tables or no finalizers.                           *)
(***************************************************************************)
EXTENDS LuaHeap, FiniteSetTheorems, TLAPS

Separate == WeakTable = {} \/ GcObj = {}

Value == Obj \cup {Nil}

-----------------------------------------------------------------------------
(* The invariant: counts                                                   *)

(* On rootgc or waiting in tmudata.                                        *)
OnHeap(o) == st[o] \in {"live", "finalizing"}

InFrames(o) == \E i \in 1 .. Len(frames) : frames[i] = o

HoldersBut(o, S) == {x \in Holders(o) : x[1] \notin S}

(* What a field that may still be read refers to is allocated, is not      *)
(* being released and will survive the sweep.                              *)
HeldUsed ==
  \A x \in Obj \X Fld : x[1] \notin Stale /\ fld[x] # Nil =>
    OnHeap(fld[x]) /\ fld[x] \notin Garbage

FreeEmpty == \A x \in Obj \X Fld : st[x[1]] = "free" => fld[x] = Nil

StatusOK ==
  /\ st[Main] = "live"
  /\ \A o \in Obj : st[o] = "finalizing" => o \in fin /\ InFrames(o)

(* The sweep never meets an object with an active luarc_free*.             *)
FramesSwept == \A i \in 1 .. Len(frames) : frames[i] \notin unswept

CountInv ==
  /\ TypeOK /\ RefCovers /\ HeldUsed /\ FreeEmpty
  /\ StatusOK /\ NoDoubleRelease /\ FramesSwept

-----------------------------------------------------------------------------
(* The invariant: phases of the collector                                  *)

(* What may be where in which phase.                                       *)
PhaseOK ==
  /\ depth = 0
  /\ gcstate # "sweep" => unswept = {}
  /\ gcstate # "clear" => pending = {}
  /\ gcstate = "clear" /\ WeakTable = {} => frames = <<>>
  /\ GcObj = {} => \A o \in Obj : st[o] # "finalizing" /\ (st[o] = "dying" => InFrames(o))
  /\ \A o \in unswept : OnHeap(o) /\ o \notin tmudata
  /\ \A u \in tmudata : u \in fin /\ st[u] = "live"

(* Which colours an object may have in which phase.                        *)
ColorOK ==
  /\ \A u \in Udata : color[u] # "gray"
  /\ \A o \in Obj : OnHeap(o) /\ o \notin unswept => color[o] # "dead"
  /\ \A o \in Obj : OnHeap(o) /\ o \notin tmudata /\ o \notin unswept /\ ~Marking
       => color[o] = "white"
  /\ color[Main] # "dead"
  /\ Marking => /\ color[Main] = "gray"
                /\ \A w \in WeakTable : OnHeap(w) => color[w] # "black"
  /\ gcstate = "clear" => \A u \in tmudata : ~White(u)

(* No object is on gray and on another of the lists.                       *)
ListsApart == gcstate = "propagate" => gray \cap (grayagain \cup weak) = {}

(* Once atomic has marked everything, a marked object refers to a white    *)
(* one only from a slot that cleartable has still to visit.                *)
MarkedClosed ==
  gcstate = "clear" =>
    \A p \in Obj, f \in Fld :
      OnHeap(p) /\ ~White(p) /\ fld[<<p, f>>] # Nil /\ White(fld[<<p, f>>])
        => <<p, f>> \in pending

MarkInv == PhaseOK /\ ColorOK /\ ListsApart /\ MarkedClosed /\ TriColor /\ GrayListed

HeapInv == HeapTypeOK /\ CountInv /\ MarkInv

-----------------------------------------------------------------------------
(* Stores                                                                  *)

(* A setobj into a field that counts moves the count of every object with  *)
(* the number of its holders outside S.                                    *)
LEMMA StoreCounts ==
  ASSUME TypeOK, NEW s, NEW r \in [Obj -> Int],
         NEW p \in Obj, NEW f \in Fld, NEW v \in Value,
         SetObj(s, r, p, f, v), NEW S \in SUBSET Obj, p \notin S
  PROVE  /\ fld' \in [Obj \X Fld -> Value]
         /\ \A y \in Obj \X Fld : fld'[y] = IF y = <<p, f>> THEN v ELSE fld[y]
         /\ ref' \in [Obj -> Int]
         /\ \A o \in Obj :
              /\ Cardinality(HoldersBut(o, S)) \in Nat
              /\ Cardinality(HoldersBut(o, S)') \in Nat
              /\ Cardinality(HoldersBut(o, S)') - Cardinality(HoldersBut(o, S))
                   = ref'[o] - r[o]
              /\ Cardinality(HoldersBut(o, S)') = 0 => HoldersBut(o, S)' = {}
<1> DEFINE x == <<p, f>>
<1>1. x \in Obj \X Fld /\ fld[<<p, f>>] = fld[x] /\ x[1] \notin S
  OBVIOUS
<1>2. fld \in [Obj \X Fld -> Value] /\ fld[x] \in Value /\ fld' = [fld EXCEPT ![x] = v]
  BY DEF TypeOK, Value, SetObj
<1>3. ref' = SubRef(AddRef(r, v), fld[x])
  BY <1>1 DEF SetObj
<1>4. /\ ref' \in [Obj -> Int]
      /\ \A o \in Obj : ref'[o] - r[o] = (IF v = o THEN 1 ELSE 0)
                                         - (IF fld[x] = o THEN 1 ELSE 0)
  <2>1. AddRef(r, v) \in [Obj -> Int]
        /\ \A o \in Obj : AddRef(r, v)[o] = r[o] + (IF v = o THEN 1 ELSE 0)
    BY ObjAssumption DEF AddRef, Value
  <2> HIDE DEF x
  <2> DEFINE r1 == AddRef(r, v)
  <2>2. SubRef(r1, fld[x]) \in [Obj -> Int]
        /\ \A o \in Obj : SubRef(r1, fld[x])[o] = r1[o] - (IF fld[x] = o THEN 1 ELSE 0)
    <3> HIDE DEF r1
    <3>1. r1 \in [Obj -> Int]
      BY <2>1 DEF r1
    <3> QED
      BY <1>2, <3>1, ObjAssumption DEF SubRef, Value
  <2>3. ref' = SubRef(r1, fld[x]) /\ \A o \in Obj : r1[o] = r[o] + (IF v = o THEN 1 ELSE 0)
    BY <1>3, <2>1
  <2> HIDE DEF r1
  <2>4. ASSUME NEW o \in Obj
        PROVE  ref'[o] - r[o] = (IF v = o THEN 1 ELSE 0) - (IF fld[x] = o THEN 1 ELSE 0)
    BY <2>2, <2>3
  <2> QED
    BY <2>2, <2>3, <2>4
<1>5. \A y \in Obj \X Fld : fld'[y] = IF y = x THEN v ELSE fld[y]
  BY <1>1, <1>2
<1>6. ASSUME NEW o \in Obj
      PROVE  /\ Cardinality(HoldersBut(o, S)) \in Nat
             /\ Cardinality(HoldersBut(o, S)') \in Nat
             /\ Cardinality(HoldersBut(o, S)') - Cardinality(HoldersBut(o, S))
                  = ref'[o] - r[o]
             /\ Cardinality(HoldersBut(o, S)') = 0 => HoldersBut(o, S)' = {}
  <2> HIDE DEF x
  <2> DEFINE H == HoldersBut(o, S)
             K == HoldersBut(o, S)'
  <2>1. /\ H = {y \in Obj \X Fld : fld[y] = o /\ y[1] \notin S}
        /\ K = {y \in Obj \X Fld : fld'[y] = o /\ y[1] \notin S}
    BY DEF HoldersBut, Holders
  <2> HIDE DEF H, K
  <2>2. IsFiniteSet(H) /\ Cardinality(H) \in Nat /\ IsFiniteSet(K) /\ Cardinality(K) \in Nat
    <3>1. IsFiniteSet(Obj \X Fld)
      BY ObjAssumption, FS_Product
    <3>2. H \subseteq Obj \X Fld /\ K \subseteq Obj \X Fld
      BY <2>1
    <3> QED
      BY <3>1, <3>2, FS_Subset, FS_CardinalityType
  <2>3. ref'[o] - r[o] = (IF v = o THEN 1 ELSE 0) - (IF fld[x] = o THEN 1 ELSE 0)
    BY <1>4
  <2>4. r[o] \in Int /\ ref'[o] \in Int
    BY <1>4
  <2>5. Cardinality(K) = 0 => K = {}
    BY <2>2, FS_EmptySet
  <2>6. Cardinality(K) - Cardinality(H) = ref'[o] - r[o]
    <3>1. CASE v = o <=> fld[x] = o
      <4>1. K = H
        BY <1>5, <2>1, <3>1
      <4> QED
        BY <2>2, <2>3, <2>4, <3>1, <4>1
    <3>2. CASE v = o /\ fld[x] # o
      <4>1. K = H \cup {x} /\ x \notin H
        BY <1>1, <1>5, <2>1, <3>2
      <4>2. Cardinality(H \cup {x}) = Cardinality(H) + 1
        BY <2>2, <4>1, FS_AddElement
      <4> QED
        BY <2>2, <2>3, <2>4, <3>2, <4>1, <4>2
    <3>3. CASE v # o /\ fld[x] = o
      <4>1. K = H \ {x} /\ x \in H
        BY <1>1, <1>5, <2>1, <3>3
      <4>2. Cardinality(H \ {x}) = Cardinality(H) - 1
        BY <2>2, <4>1, FS_RemoveElement
      <4> QED
        BY <2>2, <2>3, <2>4, <3>3, <4>1, <4>2
    <3> QED
      BY <3>1, <3>2, <3>3
  <2> QED
    BY <2>2, <2>5, <2>6 DEF H, K
<1>7. fld' \in [Obj \X Fld -> Value]
  BY <1>2
<1> QED
  BY <1>4, <1>5, <1>6, <1>7

(* What the store does to the old value: nothing, or its release begins,   *)
(* in which case it was live and no field outside S holds it any more.     *)
Released(s, old, S) ==
  /\ old \in Obj /\ s[old] = "live" /\ old # Main /\ old \notin fin
  /\ st' = [s EXCEPT ![old] = "dying"] /\ frames' = Append(frames, old)
  /\ \A x \in Obj \X Fld : x[1] \notin S => fld'[x] # old

NotReleased(s) == st' = s /\ frames' = frames

ArgCount(s, o) == IF s[o] = "finalizing" THEN 1 ELSE 0

(* Counts and references are right for the statuses s and the counts r;    *)
(* G stands for the garbage, S for everything stale.                       *)
CoveredIn(s, r, S) ==
  \A o \in Obj : s[o] # "free" =>
    r[o] >= Cardinality(HoldersBut(o, S)) + ArgCount(s, o)

HeldIn(s, S, G) ==
  \A x \in Obj \X Fld : x[1] \notin S /\ fld[x] # Nil =>
    s[fld[x]] \in {"live", "finalizing"} /\ fld[x] \notin G

StatusIn(s) == s[Main] = "live" /\ \A o \in Obj : s[o] = "finalizing" => o \in fin

UsableIn(s, v, G) == v # Nil => s[v] \in {"live", "finalizing"} /\ v \notin G

(* What a setobj from s leaves behind.                                     *)
StoreEffect(s, p, f, v, S, G) ==
  /\ st' \in [Obj -> Status] /\ frames' \in Seq(Obj)
  /\ fld' \in [Obj \X Fld -> Value] /\ ref' \in [Obj -> Int]
  /\ \A y \in Obj \X Fld : fld'[y] = IF y = <<p, f>> THEN v ELSE fld[y]
  /\ \A o \in Obj : st'[o] # "free" =>
       ref'[o] >= Cardinality(HoldersBut(o, S)') + ArgCount(st', o)
  /\ \A x \in Obj \X Fld : x[1] \notin S /\ fld'[x] # Nil =>
       st'[fld'[x]] \in {"live", "finalizing"} /\ fld'[x] \notin G
  /\ NotReleased(s) \/ (Released(s, fld[<<p, f>>], S) /\ fld[<<p, f>>] \notin G)

(* A setobj keeps counts and references right.                             *)
LEMMA StoreStep ==
  ASSUME TypeOK, NEW s \in [Obj -> Status], NEW r \in [Obj -> Int],
         NEW p \in Obj, NEW f \in Fld, NEW v \in Value, SetObj(s, r, p, f, v),
         NEW S \in SUBSET Obj, NEW G \in SUBSET Obj, p \notin S,
         CoveredIn(s, r, S), HeldIn(s, S, G), UsableIn(s, v, G), StatusIn(s)
  PROVE  StoreEffect(s, p, f, v, S, G)
<1> PICK old \in Value : old = fld[<<p, f>>]
  BY DEF TypeOK, Value
<1> DEFINE released == old # Nil /\ ref'[old] <= 0 /\ ~Kept(old)
<1>1. /\ fld' \in [Obj \X Fld -> Value]
      /\ \A y \in Obj \X Fld : fld'[y] = IF y = <<p, f>> THEN v ELSE fld[y]
      /\ ref' \in [Obj -> Int]
      /\ \A o \in Obj :
           /\ Cardinality(HoldersBut(o, S)) \in Nat
           /\ Cardinality(HoldersBut(o, S)') \in Nat
           /\ Cardinality(HoldersBut(o, S)') - Cardinality(HoldersBut(o, S))
                = ref'[o] - r[o]
           /\ Cardinality(HoldersBut(o, S)') = 0 => HoldersBut(o, S)' = {}
  BY StoreCounts
<1>2. /\ released => st' = [s EXCEPT ![old] = "dying"] /\ frames' = Append(frames, old)
      /\ ~released => st' = s /\ frames' = frames
  BY DEF SetObj, ReleaseIfZero
<1>3. old # Nil => old \in Obj /\ s[old] \in {"live", "finalizing"} /\ old \notin G
  BY DEF Value, HeldIn
<1>4. released => old # Nil /\ ref'[old] <= 0 /\ old # Main /\ old \notin fin
  BY DEF Kept
<1> HIDE DEF released
<1>5. ASSUME NEW o \in Obj, s[o] # "free"
      PROVE  ref'[o] >= Cardinality(HoldersBut(o, S)') + ArgCount(s, o)
  <2>1. r[o] >= Cardinality(HoldersBut(o, S)) + ArgCount(s, o)
    BY <1>5 DEF CoveredIn
  <2>2. /\ Cardinality(HoldersBut(o, S)) \in Nat
        /\ Cardinality(HoldersBut(o, S)') \in Nat
        /\ Cardinality(HoldersBut(o, S)') - Cardinality(HoldersBut(o, S))
             = ref'[o] - r[o]
        /\ ref'[o] \in Int /\ r[o] \in Int
    BY <1>1
  <2>3. ArgCount(s, o) \in Nat
    BY DEF ArgCount
  <2> QED
    BY <2>1, <2>2, <2>3
<1>6. ASSUME released
      PROVE  old \in Obj /\ s[old] = "live" /\ HoldersBut(old, S)' = {}
  <2>1. old \in Obj /\ s[old] = "live"
    BY <1>3, <1>4, <1>6 DEF StatusIn
  <2>2. ref'[old] >= Cardinality(HoldersBut(old, S)') + 0
    BY <1>5, <2>1 DEF ArgCount
  <2>3. Cardinality(HoldersBut(old, S)') \in Nat /\ ref'[old] <= 0 /\ ref'[old] \in Int
    BY <1>1, <1>4, <1>6, <2>1
  <2>4. Cardinality(HoldersBut(old, S)') = 0
    BY <2>2, <2>3
  <2> QED
    BY <1>1, <2>1, <2>4
<1>7. NotReleased(s) \/ (Released(s, old, S) /\ old \notin G)
  <2>1. CASE released
    BY <1>2, <1>3, <1>4, <1>6, <2>1 DEF Released, HoldersBut, Holders
  <2>2. CASE ~released
    BY <1>2, <2>2 DEF NotReleased
  <2> QED
    BY <2>1, <2>2
<1>8. \A o \in Obj : \/ st'[o] = s[o]
                     \/ released /\ o = old /\ s[o] = "live" /\ st'[o] = "dying"
  BY <1>2, <1>6
<1>9. st' \in [Obj -> Status] /\ frames' \in Seq(Obj)
  <2>1. st' \in [Obj -> Status]
    BY <1>2, <1>6 DEF Status
  <2>2. frames \in Seq(Obj)
    BY DEF TypeOK
  <2>3. CASE released
    <3>1. old \in Obj /\ frames' = Append(frames, old)
      BY <1>2, <1>6, <2>3
    <3>2. frames' \in Seq(Obj)
      BY <2>2, <3>1
    <3> QED
      BY <2>1, <3>2
  <2>4. CASE ~released
    BY <1>2, <2>1, <2>2, <2>4
  <2> QED
    BY <2>3, <2>4
<1>11. ASSUME NEW o \in Obj, st'[o] # "free"
       PROVE  ref'[o] >= Cardinality(HoldersBut(o, S)') + ArgCount(st', o)
  <2>1. s[o] # "free" /\ ArgCount(st', o) = ArgCount(s, o)
    BY <1>8, <1>11 DEF ArgCount
  <2> QED
    BY <1>5, <2>1
<1>12. ASSUME NEW x \in Obj \X Fld, x[1] \notin S, fld'[x] # Nil
       PROVE  st'[fld'[x]] \in {"live", "finalizing"} /\ fld'[x] \notin G
  <2> PICK c \in Obj : c = fld'[x]
    BY <1>1, <1>12 DEF Value
  <2>1. s[c] \in {"live", "finalizing"} /\ c \notin G
    BY <1>1, <1>12 DEF HeldIn, UsableIn
  <2>2. x \in HoldersBut(c, S)'
    BY <1>12 DEF HoldersBut, Holders
  <2>3. ~(released /\ c = old)
    BY <1>6, <2>2 DEF HoldersBut, Holders
  <2> QED
    BY <1>8, <2>1, <2>3
<1> QED
  BY <1>1, <1>7, <1>9, <1>11, <1>12 DEF StoreEffect

(* A setobj whose target is not stale preserves the counting invariant,    *)
(* when the collector's side of the step only unlinks what is released.    *)
LEMMA StoreInv ==
  ASSUME CountInv, NEW s \in [Obj -> Status], NEW r \in [Obj -> Int],
         NEW p \in Obj, NEW f \in Fld, NEW v \in Value, SetObj(s, r, p, f, v),
         p \notin Stale, s[p] # "free",
         \A o \in Obj : \/ s[o] = st[o] /\ r[o] = ref[o]
                        \/ st[o] = "free" /\ s[o] = "live" /\ r[o] = 0,
         v # Nil => s[v] \in {"live", "finalizing"} /\ v \notin Garbage,
         fin' \subseteq Obj,
         \A o \in Obj : st[o] = "finalizing" => o \in fin',
         unswept \subseteq Obj, \A o \in unswept : OnHeap(o),
         unswept' = unswept \ Unlinked,
         \A o \in unswept : color'[o] = "dead" <=> color[o] = "dead"
  PROVE  /\ CountInv' /\ Stale' = Stale /\ Garbage' = Garbage
         /\ NotReleased(s) \/ Released(s, fld[<<p, f>>], Stale)
<1> PICK S \in SUBSET Obj : S = Stale
  BY DEF Stale, Garbage, Lost
<1> PICK G \in SUBSET Obj : G = Garbage
  BY DEF Garbage
<1> PICK old \in Value : old = fld[<<p, f>>]
  BY DEF CountInv, TypeOK, Value
<1>1. G \subseteq S
  BY DEF Stale
<1>2. TypeOK /\ frames \in Seq(Obj) /\ Len(frames) \in Nat
  BY DEF CountInv, TypeOK
<1>3. ASSUME NEW o \in Obj, s[o] # "free"
      PROVE  r[o] >= Cardinality(HoldersBut(o, S)) + ArgCount(s, o)
  <2>1. CASE s[o] = st[o] /\ r[o] = ref[o]
    <3>1. ref[o] >= Cardinality({x \in Holders(o) : x[1] \notin Stale}) + ArgumentCount(o)
      BY <1>3, <2>1 DEF CountInv, RefCovers
    <3> QED
      BY <2>1, <3>1 DEF HoldersBut, ArgumentCount, ArgCount
  <2>2. CASE st[o] = "free" /\ s[o] = "live" /\ r[o] = 0
    <3>1. HoldersBut(o, S) = {}
      BY <2>2, ObjAssumption DEF HoldersBut, Holders, CountInv, HeldUsed, OnHeap
    <3> QED
      BY <2>2, <3>1, FS_EmptySet DEF ArgCount
  <2> QED
    BY <2>1, <2>2
<1>4. HeldIn(s, S, G)
  BY DEF CountInv, TypeOK, HeldUsed, OnHeap, HeldIn
<1>5. StatusIn(s)
  BY ObjAssumption DEF CountInv, StatusOK, StatusIn
<1>6. StoreEffect(s, p, f, v, S, G)
  <2>1. CoveredIn(s, r, S)
    BY <1>3 DEF CoveredIn
  <2>2. p \notin S /\ UsableIn(s, v, G)
    BY DEF UsableIn
  <2> QED
    BY <1>2, <1>4, <1>5, <2>1, <2>2, StoreStep
<1>6a. /\ NotReleased(s) \/ (Released(s, old, S) /\ old \notin G)
       /\ \A y \in Obj \X Fld : fld'[y] = IF y = <<p, f>> THEN v ELSE fld[y]
       /\ TypeOK'
  BY <1>6 DEF StoreEffect, TypeOK, Value
<1>7. \A o \in Obj : \/ st'[o] = s[o]
                     \/ o = old /\ Released(s, old, S) /\ st[o] = "live" /\ st'[o] = "dying"
                        /\ o \notin G
  <2>1. ASSUME Released(s, old, S) PROVE st[old] = "live"
    <3>1. old \in Obj /\ s[old] = "live" /\ old # Nil
      BY <2>1, ObjAssumption DEF Released
    <3>2. <<p, f>> \in Obj \X Fld /\ <<p, f>>[1] \notin Stale
      OBVIOUS
    <3>3. st[old] \in {"live", "finalizing"}
      BY <3>1, <3>2 DEF CountInv, HeldUsed, OnHeap
    <3> QED
      BY <3>1, <3>3
  <2>2. CASE NotReleased(s)
    BY <2>2 DEF NotReleased
  <2>3. CASE Released(s, old, S) /\ old \notin G
    <3>1. old \in Obj /\ st' = [s EXCEPT ![old] = "dying"]
      BY <2>3 DEF Released
    <3>2. st'[old] = "dying" /\ \A o \in Obj : o # old => st'[o] = s[o]
      BY <3>1
    <3> QED
      BY <2>1, <2>3, <3>2
  <2> QED
    BY <1>6a, <2>2, <2>3
<1>8. Garbage' = G
  BY <1>7 DEF Garbage, Unlinked, OnHeap
<1>9. /\ Len(frames') \in Nat
      /\ \A i \in 1 .. Len(frames) : i \in 1 .. Len(frames') /\ frames'[i] = frames[i]
      /\ \A i \in 1 .. Len(frames') : i \in 1 .. Len(frames) \/ frames'[i] = old
      /\ Released(s, old, S) => InFrames(old)'
  <2>1. CASE NotReleased(s)
    <3>1. ~Released(s, old, S)
      BY <1>2, <2>1 DEF NotReleased, Released
    <3> QED
      BY <1>2, <2>1, <3>1 DEF NotReleased
  <2>2. CASE Released(s, old, S)
    <3>1. /\ frames' = Append(frames, old) /\ Len(frames') = Len(frames) + 1
          /\ frames'[Len(frames) + 1] = old
          /\ \A i \in 1 .. Len(frames) : frames'[i] = frames[i]
      BY <1>2, <2>2 DEF Released
    <3>2. \A i \in 1 .. Len(frames') : i \in 1 .. Len(frames) \/ i = Len(frames) + 1
      BY <1>2, <3>1
    <3>3. Len(frames) + 1 \in 1 .. Len(frames')
      BY <1>2, <3>1
    <3>4. InFrames(old)'
      BY <3>1, <3>3 DEF InFrames
    <3>5. \A i \in 1 .. Len(frames) : i \in 1 .. Len(frames')
      BY <1>2, <3>1
    <3>6. Len(frames') \in Nat
      BY <1>2, <3>1
    <3>7. \A i \in 1 .. Len(frames') : i \in 1 .. Len(frames) \/ frames'[i] = old
      BY <3>1, <3>2
    <3> QED
      BY <3>1, <3>4, <3>5, <3>6, <3>7
  <2> QED
    BY <1>6a, <2>1, <2>2
<1>10. \A o \in Obj : InFrames(o) => InFrames(o)'
  BY <1>9 DEF InFrames
<1>11. \A o \in Obj : InFrames(o)' => InFrames(o) \/ o = old
  BY <1>9 DEF InFrames
<1>12. Stale' = S
  <2>1. ASSUME NEW o \in Obj
        PROVE  (st'[o] = "dying" /\ ~InFrames(o)') <=> (st[o] = "dying" /\ ~InFrames(o))
    <3>1. CASE Released(s, old, S)
      <4>1. CASE o = old
        BY <1>7, <1>9, <3>1, <4>1 DEF Released
      <4>2. CASE o # old
        <5>1. InFrames(o)' <=> InFrames(o)
          BY <1>10, <1>11, <4>2
        <5>2. st'[o] = s[o]
          BY <1>7, <4>2
        <5> QED
          BY <5>1, <5>2
      <4> QED
        BY <4>1, <4>2
    <3>2. CASE NotReleased(s)
      <4>1. InFrames(o)' <=> InFrames(o)
        BY <3>2 DEF NotReleased, InFrames
      <4>2. st'[o] = s[o]
        BY <3>2 DEF NotReleased
      <4> QED
        BY <4>1, <4>2
    <3> QED
      BY <1>6a, <3>1, <3>2
  <2>2. Lost' = Lost
    BY <2>1 DEF Lost, InFrames
  <2> QED
    BY <1>8, <2>2 DEF Stale
<1>13. RefCovers'
  <2> SUFFICES ASSUME NEW o \in Obj, st'[o] # "free"
               PROVE  ref'[o] >= Cardinality({x \in Holders(o)' : x[1] \notin Stale'})
                                   + ArgumentCount(o)'
    BY DEF RefCovers
  <2>1. {x \in Holders(o)' : x[1] \notin Stale'} = HoldersBut(o, S)'
    BY <1>12 DEF HoldersBut
  <2>2. ArgumentCount(o)' = ArgCount(st', o)
    BY DEF ArgumentCount, ArgCount
  <2> QED
    BY <1>6, <2>1, <2>2 DEF StoreEffect
<1>14. HeldUsed'
  BY <1>6, <1>8, <1>12 DEF HeldUsed, OnHeap, StoreEffect
<1>15. FreeEmpty'
  <2> SUFFICES ASSUME NEW x \in Obj \X Fld, st'[x[1]] = "free"
               PROVE  fld'[x] = Nil
    BY DEF FreeEmpty
  <2>1. s[x[1]] = "free" /\ st[x[1]] = "free"
    BY <1>7
  <2>2. x # <<p, f>>
    BY <2>1
  <2> QED
    BY <1>6a, <2>1, <2>2 DEF CountInv, FreeEmpty
<1>16. StatusOK'
  <2>1. st'[Main] = "live"
    BY <1>5, <1>7, ObjAssumption DEF Released, StatusIn
  <2>2. ASSUME NEW o \in Obj, st'[o] = "finalizing"
        PROVE  o \in fin' /\ InFrames(o)'
    <3>1. st[o] = "finalizing"
      BY <1>7, <2>2
    <3> QED
      BY <1>10, <3>1 DEF CountInv, StatusOK
  <2> QED
    BY <2>1, <2>2 DEF StatusOK
<1>17. ASSUME NEW i \in 1 .. Len(frames)
       PROVE  /\ frames[i] \in Obj /\ st[frames[i]] \in {"dying", "finalizing"}
              /\ st'[frames[i]] = st[frames[i]]
              /\ Released(s, old, S) => frames[i] # old
  <2>1. frames[i] \in Obj /\ st[frames[i]] \in {"dying", "finalizing"}
    BY <1>2 DEF CountInv, NoDoubleRelease
  <2>2. Released(s, old, S) => frames[i] # old
    BY <1>7, <2>1 DEF Released
  <2>3. s[frames[i]] = st[frames[i]]
    BY <2>1
  <2> QED
    BY <1>7, <2>1, <2>2, <2>3
<1>18. NoDoubleRelease' /\ FramesSwept'
  <2>1. CASE NotReleased(s)
    <3>1. frames' = frames
      BY <2>1 DEF NotReleased
    <3> QED
      BY <1>17, <3>1 DEF CountInv, NoDoubleRelease, FramesSwept
  <2>2. CASE Released(s, old, S)
    <3>1. /\ Len(frames') = Len(frames) + 1
          /\ frames'[Len(frames) + 1] = old
          /\ \A i \in 1 .. Len(frames) : frames'[i] = frames[i]
      BY <1>2, <2>2 DEF Released
    <3>2. \A i \in 1 .. Len(frames') : i \in 1 .. Len(frames) \/ i = Len(frames) + 1
      BY <1>2, <3>1
    <3>3. st'[old] = "dying" /\ old \in Obj /\ old \notin unswept'
      <4>1. old \in Obj /\ s[old] = "live"
        BY <2>2 DEF Released
      <4>2. st' = [s EXCEPT ![old] = "dying"]
        BY <2>2 DEF Released
      <4>3. st'[old] = "dying" /\ st[old] \in {"live", "finalizing"}
        BY <1>7, <4>1, <4>2
      <4> QED
        BY <4>1, <4>3 DEF Unlinked
    <3>4. NoDoubleRelease'
      <4> SUFFICES ASSUME NEW i \in 1 .. Len(frames')
                   PROVE  /\ st'[frames'[i]] \in {"dying", "finalizing"}
                          /\ \A j \in 1 .. Len(frames') : frames'[j] = frames'[i] => j = i
        BY DEF NoDoubleRelease
      <4>1. CASE i = Len(frames) + 1
        <5>1. \A j \in 1 .. Len(frames) : frames'[j] # old
          <6>1. \A j \in 1 .. Len(frames) : frames[j] # old
            BY <1>17, <2>2
          <6> QED
            BY <3>1, <6>1
        <5>2. frames'[i] = old
          BY <3>1, <4>1
        <5>3. \A j \in 1 .. Len(frames') : frames'[j] = old => j = i
          <6> SUFFICES ASSUME NEW j \in 1 .. Len(frames'), frames'[j] = old, j \in 1 .. Len(frames)
                       PROVE  FALSE
            BY <3>2, <4>1
          <6> QED
            BY <5>1
        <5> QED
          BY <3>3, <5>2, <5>3
      <4>2. CASE i \in 1 .. Len(frames)
        <5>1. frames'[i] = frames[i] /\ frames[i] # old
          BY <1>17, <2>2, <3>1, <4>2
        <5>2. \A j \in 1 .. Len(frames) : frames[j] = frames[i] => j = i
          BY <4>2 DEF CountInv, NoDoubleRelease
        <5>3. \A j \in 1 .. Len(frames') : frames'[j] = frames[i] => j = i
          BY <3>1, <3>2, <5>1, <5>2
        <5>4. st'[frames[i]] \in {"dying", "finalizing"}
          BY <1>17, <4>2
        <5> QED
          BY <5>1, <5>3, <5>4
      <4> QED
        BY <3>2, <4>1, <4>2
    <3>5. FramesSwept'
      <4>1. unswept' \subseteq unswept
        OBVIOUS
      <4>2. \A i \in 1 .. Len(frames) : frames[i] \notin unswept
        BY DEF CountInv, FramesSwept
      <4>3. \A i \in 1 .. Len(frames') : frames'[i] \notin unswept'
        BY <3>1, <3>2, <3>3, <4>1, <4>2
      <4> QED
        BY <4>3 DEF FramesSwept
    <3> QED
      BY <3>4, <3>5
  <2> QED
    BY <1>6a, <2>1, <2>2
<1> QED
  BY <1>6a, <1>8, <1>12, <1>13, <1>14, <1>15, <1>16, <1>18 DEF CountInv

-----------------------------------------------------------------------------
(* Steps of Lua code                                                       *)

(* The innermost frame.                                                    *)
LEMMA TopFrame ==
  ASSUME CountInv, frames # <<>>
  PROVE  /\ Len(frames) \in Nat \ {0} /\ Len(frames) \in 1 .. Len(frames)
         /\ Top \in Obj /\ Top # Main /\ Top \notin Stale /\ Top \notin unswept
         /\ st[Top] \in {"dying", "finalizing"} /\ InFrames(Top)
<1>1. Len(frames) \in Nat \ {0} /\ frames \in Seq(Obj)
  BY DEF CountInv, TypeOK
<1>2. Len(frames) \in 1 .. Len(frames) /\ frames[Len(frames)] \in Obj
  BY <1>1
<1>3. st[Top] \in {"dying", "finalizing"} /\ Top \notin unswept
  BY <1>2 DEF CountInv, NoDoubleRelease, FramesSwept, Top
<1>4. InFrames(Top)
  BY <1>2 DEF InFrames, Top
<1>5. Top \notin Stale
  BY <1>3, <1>4 DEF Stale, Garbage, Lost, InFrames
<1> QED
  BY <1>1, <1>2, <1>3, <1>4, <1>5 DEF Top, CountInv, StatusOK

(* What the running code can name is in use, and so is what it reads.      *)
LEMMA AccessibleUsed ==
  ASSUME HeapInv, NEW q \in Accessible
  PROVE  /\ q \in Obj /\ OnHeap(q) /\ q \notin Stale
         /\ \A g \in Fld : /\ fld[<<q, g>>] \in Value
                           /\ fld[<<q, g>>] # Nil =>
                                /\ OnHeap(fld[<<q, g>>]) /\ fld[<<q, g>>] \notin Garbage
                                /\ fld[<<q, g>>] \in Obj
<1>1. Main \in Obj /\ OnHeap(Main) /\ Main \notin Stale
  BY ObjAssumption DEF HeapInv, CountInv, StatusOK, OnHeap, MarkInv, ColorOK, Stale, Garbage, Lost
<1>2. ASSUME NEW p \in Obj, p \notin Stale, NEW g \in Fld
      PROVE  /\ fld[<<p, g>>] \in Value
             /\ fld[<<p, g>>] # Nil => /\ OnHeap(fld[<<p, g>>])
                                       /\ fld[<<p, g>>] \notin Garbage
                                       /\ fld[<<p, g>>] \in Obj
  <2>1. <<p, g>> \in Obj \X Fld /\ <<p, g>>[1] = p
    OBVIOUS
  <2>2. fld[<<p, g>>] \in Value
    BY <2>1 DEF HeapInv, CountInv, TypeOK, Value
  <2>3. fld[<<p, g>>] # Nil => OnHeap(fld[<<p, g>>]) /\ fld[<<p, g>>] \notin Garbage
    BY <1>2, <2>1 DEF HeapInv, CountInv, HeldUsed
  <2> QED
    BY <2>2, <2>3 DEF Value
<1>3. q \in Obj /\ OnHeap(q) /\ q \notin Stale
  <2>1. CASE q = Main
    BY <1>1, <2>1
  <2>2. CASE q \in Argument
    <3>1. q \in Obj /\ frames # <<>> /\ q = Top /\ st[q] = "finalizing"
      BY <2>2 DEF Argument
    <3>2. q \notin Stale
      BY <3>1, TopFrame DEF HeapInv
    <3> QED
      BY <3>1, <3>2 DEF OnHeap
  <2>3. CASE \E s \in Fld : fld[<<Main, s>>] = q /\ q \in Obj
    <3>1. PICK s \in Fld : fld[<<Main, s>>] = q /\ q \in Obj
      BY <2>3
    <3>2. q # Nil
      BY <3>1, ObjAssumption
    <3>3. OnHeap(q) /\ q \notin Garbage
      BY <1>1, <1>2, <3>1, <3>2
    <3> QED
      BY <3>1, <3>3 DEF Stale, Lost, OnHeap
  <2> QED
    BY <2>1, <2>2, <2>3 DEF Accessible
<1> QED
  BY <1>2, <1>3

(* The write barrier leaves dead objects dead, and only the objects that   *)
(* are released are taken off rootgc.                                      *)
LEMMA BarrierSweep ==
  ASSUME HeapInv, NEW p, NEW v, WriteBarrier(p, v)
  PROVE  /\ unswept' = unswept \ Unlinked
         /\ \A o \in unswept : color'[o] = "dead" <=> color[o] = "dead"
<1>1. unswept \subseteq Obj
  BY DEF HeapInv, HeapTypeOK
<1>2. Marking => unswept = {}
  BY DEF HeapInv, MarkInv, PhaseOK, Marking
<1>3. unswept' = unswept \ Unlinked
  BY DEF WriteBarrier, Relist
<1>4. ASSUME NEW o \in unswept PROVE color'[o] = "dead" <=> color[o] = "dead"
  <2>1. ~Marking /\ o \in Obj
    BY <1>1, <1>2
  <2> QED
    BY <2>1 DEF WriteBarrier
<1> QED
  BY <1>3, <1>4

LEMMA NoBarrierSweep ==
  ASSUME HeapInv, NoBarrier, \A o \in unswept : st'[o] # "free"
  PROVE  /\ unswept' = unswept \ Unlinked
         /\ \A o \in unswept : color'[o] = "dead" <=> color[o] = "dead"
<1>1. unswept \subseteq Obj
  BY DEF HeapInv, HeapTypeOK
<1> QED
  BY <1>1 DEF NoBarrier, Relist

(* A setobj from the current state.                                        *)
LEMMA PlainStore ==
  ASSUME HeapInv, NEW p \in Obj, NEW f \in Fld, NEW v \in Value,
         SetObj(st, ref, p, f, v), UNCHANGED fin, p \notin Stale, st[p] # "free",
         v # Nil => OnHeap(v) /\ v \notin Garbage,
         unswept' = unswept \ Unlinked,
         \A o \in unswept : color'[o] = "dead" <=> color[o] = "dead"
  PROVE  /\ CountInv' /\ Stale' = Stale /\ Garbage' = Garbage
         /\ NotReleased(st) \/ Released(st, fld[<<p, f>>], Stale)
<1> PICK s \in [Obj -> Status] : s = st
  BY DEF HeapInv, CountInv, TypeOK
<1> PICK r \in [Obj -> Int] : r = ref
  BY DEF HeapInv, CountInv, TypeOK
<1>1. CountInv /\ SetObj(s, r, p, f, v) /\ s[p] # "free"
  BY DEF HeapInv
<1>2. \A o \in Obj : \/ s[o] = st[o] /\ r[o] = ref[o]
                     \/ st[o] = "free" /\ s[o] = "live" /\ r[o] = 0
  OBVIOUS
<1>3. v # Nil => s[v] \in {"live", "finalizing"} /\ v \notin Garbage
  BY DEF OnHeap
<1>4. fin' \subseteq Obj /\ \A o \in Obj : st[o] = "finalizing" => o \in fin'
  BY DEF HeapInv, CountInv, TypeOK, StatusOK
<1>5. unswept \subseteq Obj /\ \A o \in unswept : OnHeap(o)
  BY DEF HeapInv, HeapTypeOK, MarkInv, PhaseOK
<1> QED
  BY <1>1, <1>2, <1>3, <1>4, <1>5, StoreInv

LEMMA BarrierKept ==
  ASSUME ~BarrierLost, NEW p, NEW v, Barrier(p, v)
  PROVE  WriteBarrier(p, v)
BY DEF Barrier

LEMMA HeapAssignCount ==
  ASSUME HeapInv, ~BarrierLost, NEW p \in Obj, NEW q \in Obj, NEW f \in Fld, NEW g \in Fld,
         HeapAssign(p, f, q, g)
  PROVE  /\ CountInv' /\ Stale' = Stale /\ Garbage' = Garbage
         /\ NotReleased(st) \/ Released(st, fld[<<p, f>>], Stale)
<1> PICK v : v = fld[<<q, g>>]
  OBVIOUS
<1>1. /\ p \in Accessible /\ q \in Accessible /\ SetObj(st, ref, p, f, v)
      /\ UNCHANGED fin /\ WriteBarrier(p, v)
  BY BarrierKept DEF HeapAssign, Assign
<1>2. p \notin Stale /\ st[p] # "free"
  BY <1>1, AccessibleUsed DEF OnHeap
<1>3. v \in Value /\ (v # Nil => OnHeap(v) /\ v \notin Garbage)
  BY <1>1, AccessibleUsed
<1> QED
  BY <1>1, <1>2, <1>3, BarrierSweep, PlainStore

LEMMA HeapAssignArgumentCount ==
  ASSUME HeapInv, ~BarrierLost, NEW p \in Obj, NEW f \in Fld, HeapAssignArgument(p, f)
  PROVE  /\ CountInv' /\ Stale' = Stale /\ Garbage' = Garbage
         /\ NotReleased(st) \/ Released(st, fld[<<p, f>>], Stale)
<1> PICK u \in Argument : SetObj(st, ref, p, f, u)
  BY DEF HeapAssignArgument, AssignArgument
<1>1. p \in Accessible /\ UNCHANGED fin /\ WriteBarrier(p, u)
  BY BarrierKept DEF HeapAssignArgument, AssignArgument, Argument
<1>2. p \notin Stale /\ st[p] # "free"
  BY <1>1, AccessibleUsed DEF OnHeap
<1>3. u \in Value /\ OnHeap(u) /\ u \notin Garbage
  BY AccessibleUsed DEF Accessible, Value, Stale
<1> QED
  BY <1>1, <1>2, <1>3, BarrierSweep, PlainStore

(* A release that begins neither frees nor finalizes anything.             *)
LEMMA ReleaseStatuses ==
  ASSUME HeapInv, NEW S, NEW old, NotReleased(st) \/ Released(st, old, S)
  PROVE  /\ st' \in [Obj -> Status]
         /\ \A o \in Obj : st'[o] = st[o] \/ (st[o] = "live" /\ st'[o] = "dying"
                                               /\ o # Main /\ o \notin fin)
         /\ \A o \in Obj : InFrames(o) => InFrames(o)'
         /\ \A o \in Obj : st[o] = "live" /\ st'[o] = "dying" => InFrames(o)'
         /\ frames = <<>> /\ frames' # <<>> => \E o \in Obj : st[o] = "live" /\ st'[o] = "dying"
<1>1. st \in [Obj -> Status] /\ frames \in Seq(Obj) /\ Len(frames) \in Nat
  BY DEF HeapInv, CountInv, TypeOK
<1>2. CASE NotReleased(st)
  BY <1>1, <1>2 DEF NotReleased, InFrames
<1>3. CASE Released(st, old, S)
  <2>1. /\ old \in Obj /\ st[old] = "live" /\ old # Main /\ old \notin fin
        /\ st' = [st EXCEPT ![old] = "dying"] /\ frames' = Append(frames, old)
    BY <1>3 DEF Released
  <2>2. /\ Len(frames') = Len(frames) + 1 /\ frames'[Len(frames) + 1] = old
        /\ \A i \in 1 .. Len(frames) : frames'[i] = frames[i]
    BY <1>1, <2>1
  <2>3. \A i \in 1 .. Len(frames) : i \in 1 .. Len(frames')
    BY <1>1, <2>2
  <2>4. Len(frames) + 1 \in 1 .. Len(frames')
    BY <1>1, <2>2
  <2>5. st' \in [Obj -> Status]
    BY <1>1, <2>1 DEF Status
  <2> QED
    BY <1>1, <2>1, <2>2, <2>3, <2>4, <2>5 DEF InFrames
<1> QED
  BY <1>2, <1>3

(* Setting a field to nil, without a barrier.                              *)
LEMMA PlainClear ==
  ASSUME HeapInv, NEW p \in Obj, NEW f \in Fld, p \notin Stale, st[p] # "free",
         SetObj(st, ref, p, f, Nil), UNCHANGED fin, NoBarrier
  PROVE  /\ CountInv' /\ Stale' = Stale /\ Garbage' = Garbage
         /\ NotReleased(st) \/ Released(st, fld[<<p, f>>], Stale)
<1>1. \A o \in Obj : st'[o] = st[o] \/ st'[o] = "dying"
  BY DEF SetObj, ReleaseIfZero, HeapInv, CountInv, TypeOK
<1>2. \A o \in unswept : o \in Obj /\ st'[o] # "free"
  BY <1>1 DEF HeapInv, HeapTypeOK, MarkInv, PhaseOK, OnHeap
<1>3. Nil \in Value
  BY DEF Value
<1> QED
  BY <1>2, <1>3, NoBarrierSweep, PlainStore

LEMMA HeapClearCount ==
  ASSUME HeapInv, NEW p \in Obj, NEW f \in Fld, HeapClear(p, f)
  PROVE  /\ CountInv' /\ Stale' = Stale /\ Garbage' = Garbage
         /\ NotReleased(st) \/ Released(st, fld[<<p, f>>], Stale)
<1>1. /\ p \in Accessible /\ SetObj(st, ref, p, f, Nil) /\ UNCHANGED fin /\ NoBarrier
  BY DEF HeapClear, Clear
<1>2. p \notin Stale /\ st[p] # "free"
  BY <1>1, AccessibleUsed DEF OnHeap
<1> QED
  BY <1>1, <1>2, PlainClear

(* A fresh object starts with count 0 and no holder that counts.           *)
LEMMA HeapNewCount ==
  ASSUME HeapInv, NEW o \in Obj, NEW t \in Fld, HeapNew(o, t)
  PROVE  /\ CountInv' /\ Stale' = Stale /\ Garbage' = Garbage
         /\ \E s \in [Obj -> Status] :
              /\ s = [st EXCEPT ![o] = "live"]
              /\ NotReleased(s) \/ Released(s, fld[<<Main, t>>], Stale)
<1>1. PICK s \in [Obj -> Status] : s = [st EXCEPT ![o] = "live"]
  BY DEF HeapInv, CountInv, TypeOK, Status
<1>2. PICK r \in [Obj -> Int] : r = [ref EXCEPT ![o] = 0]
  <2>1. [ref EXCEPT ![o] = 0] \in [Obj -> Int]
    BY DEF HeapInv, CountInv, TypeOK
  <2> QED
    BY <2>1, Zenon
<1>3. SetObj(s, r, Main, t, o) /\ st[o] = "free" /\ fin' = fin \ {o}
  BY <1>1, <1>2 DEF HeapNew, New
<1>4. CountInv /\ Main \in Obj /\ Main \notin Stale /\ o \in Value
  BY ObjAssumption, AccessibleUsed DEF HeapInv, Accessible, Value
<1>5. s[Main] # "free"
  BY <1>1, <1>4 DEF CountInv, StatusOK, TypeOK
<1>6. \A a \in Obj : \/ s[a] = st[a] /\ r[a] = ref[a]
                     \/ st[a] = "free" /\ s[a] = "live" /\ r[a] = 0
  BY <1>1, <1>2, <1>3 DEF HeapInv, CountInv, TypeOK
<1>7. unswept \subseteq Obj /\ \A a \in unswept : OnHeap(a)
  BY DEF HeapInv, HeapTypeOK, MarkInv, PhaseOK
<1>8. o \notin unswept
  BY <1>3, <1>7 DEF OnHeap
<1>9. o # Nil => s[o] \in {"live", "finalizing"} /\ o \notin Garbage
  BY <1>1, <1>8 DEF Garbage, HeapInv, CountInv, TypeOK
<1>10. fin' \subseteq Obj /\ \A a \in Obj : st[a] = "finalizing" => a \in fin'
  BY <1>3 DEF HeapInv, CountInv, TypeOK, StatusOK
<1>11. /\ unswept' = unswept \ Unlinked
       /\ \A a \in unswept : color'[a] = "dead" <=> color[a] = "dead"
  BY <1>7, <1>8 DEF HeapNew, Relist, HeapInv, HeapTypeOK
<1>12. /\ CountInv' /\ Stale' = Stale /\ Garbage' = Garbage
       /\ NotReleased(s) \/ Released(s, fld[<<Main, t>>], Stale)
  BY <1>3, <1>4, <1>5, <1>6, <1>7, <1>9, <1>10, <1>11, StoreInv
<1> QED
  BY <1>1, <1>12

-----------------------------------------------------------------------------
(* Steps of a release                                                      *)

(* A step that moves no reference and makes nothing more stale than it     *)
(* was.                                                                    *)
LEMMA SameHolders ==
  ASSUME CountInv, UNCHANGED fld, Stale \subseteq Stale', NEW o \in Obj
  PROVE  /\ Cardinality(HoldersBut(o, Stale)) \in Nat
         /\ Cardinality(HoldersBut(o, Stale)') \in Nat
         /\ Cardinality(HoldersBut(o, Stale)') <= Cardinality(HoldersBut(o, Stale))
<1>1. HoldersBut(o, Stale)' \subseteq HoldersBut(o, Stale)
  BY DEF HoldersBut, Holders
<1>2. IsFiniteSet(Obj \X Fld) /\ HoldersBut(o, Stale) \subseteq Obj \X Fld
  BY ObjAssumption, FS_Product DEF HoldersBut, Holders
<1>3. IsFiniteSet(HoldersBut(o, Stale))
  BY <1>2, FS_Subset
<1> HIDE DEF HoldersBut
<1>4. IsFiniteSet(HoldersBut(o, Stale)')
      /\ Cardinality(HoldersBut(o, Stale)') <= Cardinality(HoldersBut(o, Stale))
  BY <1>1, <1>3, FS_Subset
<1> QED
  BY <1>3, <1>4, FS_CardinalityType

LEMMA HeapCallFinalizerCount ==
  ASSUME HeapInv, HeapCallFinalizer
  PROVE  CountInv' /\ Stale' = Stale /\ Garbage' = Garbage
<1> PICK t \in Obj : t = Top
  BY TopFrame DEF HeapInv, HeapCallFinalizer, CallFinalizer
<1>1. /\ fin' = fin \cup {t} /\ st' = [st EXCEPT ![t] = "finalizing"]
      /\ ref' = [ref EXCEPT ![t] = @ + 1]
      /\ fld' = fld /\ frames' = frames /\ st[t] = "dying" /\ frames # <<>>
      /\ color' = [color EXCEPT ![t] = "white"]
  BY DEF HeapCallFinalizer, CallFinalizer
<1>2. t # Main /\ t \notin Stale /\ t \notin unswept /\ InFrames(t)
  BY <1>1, TopFrame DEF HeapInv
<1>3. TypeOK'
  BY <1>1 DEF HeapInv, CountInv, TypeOK, Status
<1>4. \A o \in Obj : InFrames(o)' <=> InFrames(o)
  BY <1>1 DEF InFrames
<1>5. unswept' = unswept /\ Garbage' = Garbage
  <2>1. unswept \subseteq Obj
    BY DEF HeapInv, HeapTypeOK
  <2>2. Unlinked = {}
    BY <1>1 DEF Unlinked, HeapInv, CountInv, TypeOK
  <2>3. unswept' = unswept
    BY <2>2 DEF HeapCallFinalizer, Relist
  <2> QED
    BY <1>1, <1>2, <2>1, <2>3 DEF Garbage, HeapInv, HeapTypeOK
<1>6. Lost' = Lost
  <2>1. \A o \in Obj : (st'[o] = "dying" /\ ~InFrames(o)') <=> (st[o] = "dying" /\ ~InFrames(o))
    BY <1>1, <1>2, <1>4 DEF HeapInv, CountInv, TypeOK
  <2> QED
    BY <2>1 DEF Lost, InFrames
<1>7. Stale' = Stale
  BY <1>5, <1>6 DEF Stale
<1>8. RefCovers'
  <2> SUFFICES ASSUME NEW o \in Obj, st'[o] # "free"
               PROVE  ref'[o] >= Cardinality({x \in Holders(o)' : x[1] \notin Stale'})
                                   + ArgumentCount(o)'
    BY DEF RefCovers
  <2> DEFINE H == {x \in Holders(o) : x[1] \notin Stale}
  <2>1. {x \in Holders(o)' : x[1] \notin Stale'} = H
    BY <1>1, <1>7 DEF Holders
  <2>2. Cardinality(H) \in Nat
    BY <1>1, <1>7, SameHolders DEF HoldersBut, HeapInv
  <2>3. st[o] # "free" /\ ref[o] >= Cardinality(H) + ArgumentCount(o)
    BY <1>1 DEF HeapInv, CountInv, RefCovers, TypeOK
  <2> HIDE DEF H
  <2>4. ref'[o] \in Int /\ ref[o] \in Int
    BY <1>3 DEF HeapInv, CountInv, TypeOK
  <2>5. CASE o = t
    <3>1. ref'[o] = ref[o] + 1 /\ ArgumentCount(o)' = 1 /\ ArgumentCount(o) = 0
      BY <1>1, <2>5 DEF HeapInv, CountInv, TypeOK, ArgumentCount
    <3>2. ref[o] >= Cardinality(H) + 0
      BY <2>3, <3>1
    <3>3. ref[o] + 1 >= Cardinality(H) + 1
      BY <2>2, <2>4, <3>2
    <3> QED
      BY <2>1, <3>1, <3>3
  <2>6. CASE o # t
    <3>1. ref'[o] = ref[o] /\ ArgumentCount(o)' = ArgumentCount(o)
      BY <1>1, <2>6 DEF HeapInv, CountInv, TypeOK, ArgumentCount
    <3> QED
      BY <2>1, <2>3, <3>1
  <2> QED
    BY <2>5, <2>6
<1>9. HeldUsed'
  BY <1>1, <1>5, <1>7 DEF HeldUsed, OnHeap, HeapInv, CountInv, TypeOK
<1>10. FreeEmpty' /\ StatusOK' /\ NoDoubleRelease' /\ FramesSwept'
  BY <1>1, <1>2, <1>4, <1>5, ObjAssumption
     DEF HeapInv, CountInv, TypeOK, FreeEmpty, StatusOK, NoDoubleRelease, FramesSwept
<1> QED
  BY <1>3, <1>5, <1>7, <1>8, <1>9, <1>10 DEF CountInv

(* The sweep's view of a step without a barrier that takes nothing off     *)
(* rootgc but the object t.                                                *)
LEMMA SameGarbage ==
  ASSUME HeapInv, NoBarrier, NEW t \in Obj, t \notin unswept,
         \A o \in Obj : o # t => st'[o] = st[o]
  PROVE  unswept' = unswept /\ Garbage' = Garbage
<1>1. unswept \subseteq Obj /\ \A o \in unswept : OnHeap(o)
  BY DEF HeapInv, HeapTypeOK, MarkInv, PhaseOK
<1>2. unswept' = unswept
  BY <1>1 DEF NoBarrier, Relist, Unlinked, OnHeap
<1> QED
  BY <1>1, <1>2 DEF NoBarrier, Garbage, OnHeap

LEMMA FinalizerReturnCount ==
  ASSUME HeapInv, ~Retain, FinalizerReturn, NoBarrier
  PROVE  CountInv' /\ Stale' = Stale /\ Garbage' = Garbage /\ frames' = frames
<1>1. PICK t \in Obj : t = Top
  BY TopFrame DEF HeapInv, FinalizerReturn
<1>2. /\ st[t] = "finalizing" /\ Holders(t) = {} /\ fin' = fin
      /\ st' = [st EXCEPT ![t] = "dying"] /\ frames # <<>>
      /\ ref' = [ref EXCEPT ![t] = @ - 1] /\ fld' = fld
  BY <1>1 DEF FinalizerReturn
<1>3. t # Main /\ t \notin Stale /\ t \notin unswept /\ InFrames(t)
  BY <1>1, <1>2, TopFrame DEF HeapInv
<1>4. frames' = frames
  BY <1>1, <1>2 DEF FinalizerReturn, AfterFinalizer, Kept, HeapInv, CountInv, StatusOK
<1>5. TypeOK'
  BY <1>2, <1>4 DEF HeapInv, CountInv, TypeOK, Status
<1>6. \A o \in Obj : InFrames(o)' <=> InFrames(o)
  BY <1>4 DEF InFrames
<1>7. unswept' = unswept /\ Garbage' = Garbage
  <2>1. \A o \in Obj : o # t => st'[o] = st[o]
    BY <1>2 DEF HeapInv, CountInv, TypeOK
  <2> QED
    BY <1>3, <2>1, SameGarbage
<1>8. Stale' = Stale
  <2>1. \A o \in Obj : (st'[o] = "dying" /\ ~InFrames(o)') <=> (st[o] = "dying" /\ ~InFrames(o))
    BY <1>2, <1>3, <1>6 DEF HeapInv, CountInv, TypeOK
  <2>2. Lost' = Lost
    BY <2>1 DEF Lost, InFrames
  <2> QED
    BY <1>7, <2>2 DEF Stale
<1>9. RefCovers'
  <2> SUFFICES ASSUME NEW o \in Obj, st'[o] # "free"
               PROVE  ref'[o] >= Cardinality({x \in Holders(o)' : x[1] \notin Stale'})
                                   + ArgumentCount(o)'
    BY DEF RefCovers
  <2> DEFINE H == {x \in Holders(o) : x[1] \notin Stale}
  <2>1. {x \in Holders(o)' : x[1] \notin Stale'} = H
    BY <1>2, <1>8 DEF Holders
  <2>2. Cardinality(H) \in Nat
    BY <1>2, <1>8, SameHolders DEF HoldersBut, HeapInv
  <2>3. st[o] # "free" /\ ref[o] >= Cardinality(H) + ArgumentCount(o)
    BY <1>2 DEF HeapInv, CountInv, RefCovers, TypeOK
  <2> HIDE DEF H
  <2>4. ref'[o] \in Int /\ ref[o] \in Int
    BY <1>5 DEF HeapInv, CountInv, TypeOK
  <2>5. CASE o = t
    <3>1. ref'[o] = ref[o] - 1 /\ ArgumentCount(o)' = 0 /\ ArgumentCount(o) = 1
      BY <1>2, <2>5 DEF HeapInv, CountInv, TypeOK, ArgumentCount
    <3>2. ref[o] >= Cardinality(H) + 1
      BY <2>3, <3>1
    <3>3. ref[o] - 1 >= Cardinality(H) + 0
      BY <2>2, <2>4, <3>2
    <3> QED
      BY <2>1, <3>1, <3>3
  <2>6. CASE o # t
    <3>1. ref'[o] = ref[o] /\ ArgumentCount(o)' = ArgumentCount(o)
      BY <1>2, <2>6 DEF HeapInv, CountInv, TypeOK, ArgumentCount
    <3> QED
      BY <2>1, <2>3, <3>1
  <2> QED
    BY <2>5, <2>6
<1>10. HeldUsed'
  <2>1. \A x \in Obj \X Fld : fld[x] # t
    BY <1>2 DEF Holders
  <2> QED
    BY <1>2, <1>7, <1>8, <2>1 DEF HeldUsed, OnHeap, HeapInv, CountInv, TypeOK
<1>11. FreeEmpty' /\ StatusOK' /\ NoDoubleRelease' /\ FramesSwept'
  BY <1>2, <1>3, <1>4, <1>6, <1>7, ObjAssumption
     DEF HeapInv, CountInv, TypeOK, FreeEmpty, StatusOK, NoDoubleRelease, FramesSwept
<1> QED
  BY <1>4, <1>5, <1>7, <1>8, <1>9, <1>10, <1>11 DEF CountInv

LEMMA ReleaseMemberCount ==
  ASSUME HeapInv, NEW f \in Fld, ReleaseMember(f), NoBarrier
  PROVE  /\ CountInv' /\ Stale' = Stale /\ Garbage' = Garbage
         /\ NotReleased(st) \/ Released(st, fld[<<Top, f>>], Stale)
<1>1. PICK t \in Obj : t = Top
  BY TopFrame DEF HeapInv, ReleaseMember
<1>2. SetObj(st, ref, t, f, Nil) /\ UNCHANGED fin /\ st[t] = "dying" /\ frames # <<>>
  BY <1>1 DEF ReleaseMember
<1>3. t \notin Stale /\ st[t] # "free"
  BY <1>1, <1>2, TopFrame DEF HeapInv
<1> QED
  BY <1>1, <1>2, <1>3, PlainClear

LEMMA FreeObjectCount ==
  ASSUME HeapInv, FreeObject, NoBarrier
  PROVE  CountInv' /\ Stale' = Stale /\ Garbage' = Garbage
<1>1. PICK t \in Obj : t = Top /\ t # Main
  BY TopFrame DEF HeapInv, FreeObject
<1>2. PICK n \in Nat : n = Len(frames) - 1
  <2>1. Len(frames) \in Nat \ {0}
    BY TopFrame DEF HeapInv, FreeObject
  <2>2. Len(frames) - 1 \in Nat
    BY <2>1
  <2> QED
    BY <2>2, Zenon
<1>3. /\ st[t] = "dying" /\ st' = [st EXCEPT ![t] = "free"] /\ frames # <<>>
      /\ frames' = SubSeq(frames, 1, n) /\ \A f \in Fld : fld[<<t, f>>] = Nil
      /\ fld' = fld /\ ref' = ref /\ fin' = fin \ {t}
  BY <1>1, <1>2 DEF FreeObject
<1>4. frames \in Seq(Obj) /\ Len(frames) = n + 1 /\ frames[n + 1] = t
  BY <1>1, <1>2, <1>3 DEF HeapInv, CountInv, TypeOK, Top
<1>5. /\ Len(frames') = n /\ frames' \in Seq(Obj)
      /\ \A i \in 1 .. n : frames'[i] = frames[i] /\ i \in 1 .. Len(frames)
  BY <1>3, <1>4
<1>6. \A i \in 1 .. n : frames[i] # t
  BY <1>4 DEF HeapInv, CountInv, NoDoubleRelease
<1>7. \A o \in Obj : o # t => st'[o] = st[o] /\ (InFrames(o)' <=> InFrames(o))
  <2>1. \A i \in 1 .. Len(frames) : i \in 1 .. n \/ i = n + 1
    BY <1>4
  <2>2. \A o \in Obj : o # t => (InFrames(o)' <=> InFrames(o))
    BY <1>4, <1>5, <2>1 DEF InFrames
  <2> QED
    BY <1>3, <2>2 DEF HeapInv, CountInv, TypeOK
<1>8. TypeOK' /\ st'[t] = "free"
  BY <1>3, <1>5 DEF HeapInv, CountInv, TypeOK, Status
<1>9. unswept' = unswept /\ Garbage' = Garbage /\ t \notin unswept /\ InFrames(t)
  <2>1. t \notin unswept /\ InFrames(t)
    BY <1>1, <1>3, TopFrame DEF HeapInv
  <2> QED
    BY <1>7, <2>1, SameGarbage
<1>10. Stale' = Stale
  <2>1. \A o \in Obj : (st'[o] = "dying" /\ ~InFrames(o)') <=> (st[o] = "dying" /\ ~InFrames(o))
    BY <1>7, <1>8, <1>9
  <2>2. Lost' = Lost
    BY <2>1 DEF Lost, InFrames
  <2> QED
    BY <1>9, <2>2 DEF Stale
<1>11. RefCovers'
  <2> SUFFICES ASSUME NEW o \in Obj, st'[o] # "free"
               PROVE  ref'[o] >= Cardinality({x \in Holders(o)' : x[1] \notin Stale'})
                                   + ArgumentCount(o)'
    BY DEF RefCovers
  <2>1. {x \in Holders(o)' : x[1] \notin Stale'} = {x \in Holders(o) : x[1] \notin Stale}
    BY <1>3, <1>10 DEF Holders
  <2>2. st'[o] = st[o] /\ ref'[o] = ref[o] /\ ArgumentCount(o)' = ArgumentCount(o)
    BY <1>3, <1>7, <1>8 DEF ArgumentCount
  <2> QED
    BY <2>1, <2>2 DEF HeapInv, CountInv, RefCovers
<1>12. HeldUsed'
  BY <1>3, <1>7, <1>9, <1>10 DEF HeldUsed, OnHeap, HeapInv, CountInv, TypeOK
<1>13. FreeEmpty'
  <2> SUFFICES ASSUME NEW x \in Obj \X Fld, st'[x[1]] = "free"
               PROVE  fld'[x] = Nil
    BY DEF FreeEmpty
  <2>1. PICK p \in Obj, f \in Fld : x = <<p, f>>
    OBVIOUS
  <2>2. CASE p = t
    BY <1>3, <2>1, <2>2
  <2>3. CASE p # t
    BY <1>3, <1>7, <2>1, <2>3 DEF HeapInv, CountInv, FreeEmpty
  <2> QED
    BY <2>2, <2>3
<1>14. StatusOK'
  BY <1>1, <1>3, <1>7, <1>8, ObjAssumption DEF HeapInv, CountInv, StatusOK
<1>15. NoDoubleRelease' /\ FramesSwept'
  <2>1. \A i \in 1 .. n : frames[i] \in Obj /\ st'[frames[i]] = st[frames[i]]
    BY <1>4, <1>5, <1>6, <1>7
  <2> QED
    BY <1>5, <1>9, <2>1 DEF HeapInv, CountInv, NoDoubleRelease, FramesSwept
<1> QED
  BY <1>8, <1>9, <1>10, <1>11, <1>12, <1>13, <1>14, <1>15 DEF CountInv

(* An error unwinds a suffix of the frames: the finalizers in it lose      *)
(* their argument slot and stay on rootgc, the others are lost.            *)
LEMMA FinalizerErrorCount ==
  ASSUME HeapInv, HeapFinalizerError
  PROVE  /\ CountInv' /\ Garbage' = Garbage /\ unswept' = unswept
         /\ \A o \in Obj : st'[o] = st[o] \/ (st[o] = "finalizing" /\ st'[o] = "live")
         /\ Unlinked = {} /\ Stale \subseteq Stale'
<1>1. PICK n \in 0 .. Len(frames) - 1 :
      LET gone == {frames[i] : i \in n + 1 .. Len(frames)}
          final == {o \in gone : st[o] = "finalizing"}
      IN /\ n > 0 => st[frames[n]] = "finalizing"
         /\ frames' = SubSeq(frames, 1, n)
         /\ st' = [o \in Obj |-> IF o \in final THEN "live" ELSE st[o]]
         /\ ref' = [o \in Obj |-> IF o \in final THEN ref[o] - 1 ELSE ref[o]]
  BY DEF HeapFinalizerError, FinalizerError
<1> DEFINE gone == {frames[i] : i \in n + 1 .. Len(frames)}
           final == {o \in gone : st[o] = "finalizing"}
<1>2. /\ frames' = SubSeq(frames, 1, n)
      /\ st' = [o \in Obj |-> IF o \in final THEN "live" ELSE st[o]]
      /\ ref' = [o \in Obj |-> IF o \in final THEN ref[o] - 1 ELSE ref[o]]
      /\ fld' = fld /\ fin' = fin
  BY <1>1 DEF HeapFinalizerError, FinalizerError
<1>3. frames \in Seq(Obj) /\ Len(frames) \in Nat /\ n \in Nat /\ n <= Len(frames)
  BY DEF HeapInv, CountInv, TypeOK
<1>4. /\ Len(frames') = n /\ frames' \in Seq(Obj)
      /\ \A i \in 1 .. n : frames'[i] = frames[i] /\ i \in 1 .. Len(frames)
  BY <1>2, <1>3
<1>5. \A i \in 1 .. n : frames[i] \notin gone
  <2>1. \A i, j \in 1 .. Len(frames) : frames[j] = frames[i] => j = i
    BY DEF HeapInv, CountInv, NoDoubleRelease
  <2>2. \A i \in 1 .. n : i \in 1 .. Len(frames)
    BY <1>3
  <2>3. \A i \in 1 .. n, j \in n + 1 .. Len(frames) : j \in 1 .. Len(frames) /\ i # j
    BY <1>3
  <2> QED
    BY <2>1, <2>2, <2>3
<1>6. /\ final \subseteq gone /\ \A o \in final : st[o] = "finalizing"
      /\ \A i \in 1 .. Len(frames) : i \in 1 .. n \/ frames[i] \in gone
  BY <1>3
<1>7. \A o \in gone : st[o] = "finalizing" => o \in final
  OBVIOUS
<1> HIDE DEF gone, final
<1>8. TypeOK'
  BY <1>2, <1>4 DEF HeapInv, CountInv, TypeOK, Status
<1>9. \A o \in Obj : /\ o \in final => st[o] = "finalizing" /\ st'[o] = "live"
                     /\ o \notin final => st'[o] = st[o]
  BY <1>2, <1>6
<1>10. Unlinked = {} /\ unswept' = unswept /\ Garbage' = Garbage
  <2>1. Unlinked = {}
    BY <1>9 DEF Unlinked
  <2>2. unswept' = unswept /\ color' = color
    BY <2>1 DEF HeapFinalizerError, Relist
  <2> QED
    BY <2>1, <2>2 DEF Garbage
<1>11. \A o \in Obj : InFrames(o)' => InFrames(o)
  BY <1>4 DEF InFrames
<1>12. Stale \subseteq Stale'
  <2>1. \A o \in Obj : st[o] = "dying" /\ ~InFrames(o) => st'[o] = "dying" /\ ~InFrames(o)'
    BY <1>9, <1>11
  <2>2. Lost \subseteq Lost'
    BY <2>1 DEF Lost, InFrames
  <2> QED
    BY <1>10, <2>2 DEF Stale
<1>13. RefCovers'
  <2> SUFFICES ASSUME NEW o \in Obj, st'[o] # "free"
               PROVE  ref'[o] >= Cardinality({x \in Holders(o)' : x[1] \notin Stale'})
                                   + ArgumentCount(o)'
    BY DEF RefCovers
  <2> DEFINE H == {x \in Holders(o) : x[1] \notin Stale}
             K == {x \in Holders(o)' : x[1] \notin Stale'}
  <2>1. Cardinality(H) \in Nat /\ Cardinality(K) \in Nat /\ Cardinality(K) <= Cardinality(H)
    BY <1>2, <1>12, SameHolders DEF HoldersBut, HeapInv
  <2>2. st[o] # "free" /\ ref[o] >= Cardinality(H) + ArgumentCount(o)
    BY <1>9 DEF HeapInv, CountInv, RefCovers
  <2> HIDE DEF H, K
  <2>3. ref'[o] \in Int /\ ref[o] \in Int
    BY <1>8 DEF HeapInv, CountInv, TypeOK
  <2>4. ref'[o] - ArgumentCount(o)' = ref[o] - ArgumentCount(o)
        /\ ArgumentCount(o) \in Nat /\ ArgumentCount(o)' \in Nat
    <3>1. CASE o \in final
      BY <1>2, <1>9, <2>3, <3>1 DEF ArgumentCount
    <3>2. CASE o \notin final
      BY <1>2, <1>9, <2>3, <3>2 DEF ArgumentCount
    <3> QED
      BY <3>1, <3>2
  <2>5. ref[o] - ArgumentCount(o) >= Cardinality(K)
    BY <2>1, <2>2, <2>3, <2>4
  <2>6. ref'[o] >= Cardinality(K) + ArgumentCount(o)'
    BY <2>1, <2>3, <2>4, <2>5
  <2> QED
    BY <2>6 DEF K
<1>14. HeldUsed'
  <2> SUFFICES ASSUME NEW x \in Obj \X Fld, x[1] \notin Stale', fld'[x] # Nil
               PROVE  st'[fld'[x]] \in {"live", "finalizing"} /\ fld'[x] \notin Garbage'
    BY DEF HeldUsed, OnHeap
  <2>1. /\ fld'[x] = fld[x] /\ fld[x] \in Obj
        /\ st[fld[x]] \in {"live", "finalizing"} /\ fld[x] \notin Garbage
    BY <1>2, <1>12 DEF HeapInv, CountInv, TypeOK, HeldUsed, OnHeap
  <2> QED
    BY <1>9, <1>10, <2>1
<1>15. FreeEmpty'
  BY <1>2, <1>9 DEF HeapInv, CountInv, FreeEmpty
<1>16. StatusOK'
  <2>1. ASSUME NEW o \in Obj, st'[o] = "finalizing" PROVE o \in fin' /\ InFrames(o)'
    <3>1. st[o] = "finalizing" /\ o \notin final
      BY <1>9, <2>1
    <3>2. o \in fin /\ InFrames(o)
      BY <3>1 DEF HeapInv, CountInv, StatusOK
    <3>3. PICK i \in 1 .. Len(frames) : frames[i] = o
      BY <3>2 DEF InFrames
    <3>4. i \in 1 .. n
      BY <1>6, <1>7, <3>1, <3>3
    <3> QED
      BY <1>2, <1>4, <3>2, <3>3, <3>4 DEF InFrames
  <2> QED
    BY <1>9, <2>1, ObjAssumption DEF HeapInv, CountInv, StatusOK
<1>17. NoDoubleRelease' /\ FramesSwept'
  <2>1. \A i \in 1 .. n : frames[i] \in Obj /\ st'[frames[i]] = st[frames[i]]
    <3>1. \A i \in 1 .. n : frames[i] \in Obj /\ frames[i] \notin final
      BY <1>3, <1>4, <1>5, <1>6
    <3> QED
      BY <1>9, <3>1
  <2> QED
    BY <1>4, <1>10, <2>1 DEF HeapInv, CountInv, NoDoubleRelease, FramesSwept
<1> QED
  BY <1>8, <1>9, <1>10, <1>12, <1>13, <1>14, <1>15, <1>16, <1>17 DEF CountInv

-----------------------------------------------------------------------------
(* Steps of the collector                                                  *)

(* A step that changes no status, reference, count or frame, and makes no  *)
(* reachable object garbage.                                               *)
LEMMA SameCounts ==
  ASSUME CountInv, UNCHANGED <<st, fld, ref, frames>>,
         fin \subseteq fin', fin' \subseteq Obj, Stale \subseteq Stale',
         FramesSwept',
         \A x \in Obj \X Fld : x[1] \notin Stale' /\ fld[x] # Nil => fld[x] \notin Garbage'
  PROVE  CountInv'
<1>1. st' = st /\ fld' = fld /\ ref' = ref /\ frames' = frames
  OBVIOUS
<1>2. TypeOK'
  BY <1>1 DEF CountInv, TypeOK
<1>3. RefCovers'
  <2> SUFFICES ASSUME NEW o \in Obj, st'[o] # "free"
               PROVE  ref'[o] >= Cardinality({x \in Holders(o)' : x[1] \notin Stale'})
                                   + ArgumentCount(o)'
    BY DEF RefCovers
  <2> DEFINE H == {x \in Holders(o) : x[1] \notin Stale}
             K == {x \in Holders(o)' : x[1] \notin Stale'}
  <2>1. Cardinality(H) \in Nat /\ Cardinality(K) \in Nat /\ Cardinality(K) <= Cardinality(H)
    BY <1>1, SameHolders DEF HoldersBut
  <2>2. ref[o] >= Cardinality(H) + ArgumentCount(o) /\ ArgumentCount(o) \in Nat
        /\ ref[o] \in Int
    BY <1>1 DEF CountInv, RefCovers, ArgumentCount, TypeOK
  <2> HIDE DEF H, K
  <2>3. ref[o] >= Cardinality(K) + ArgumentCount(o)
    BY <2>1, <2>2
  <2>4. ArgumentCount(o)' = ArgumentCount(o) /\ ref'[o] = ref[o]
    BY <1>1 DEF ArgumentCount
  <2> QED
    BY <2>3, <2>4 DEF K
<1>4. HeldUsed'
  <2>1. \A x \in Obj \X Fld : x[1] \notin Stale' => x[1] \notin Stale
    OBVIOUS
  <2> QED
    BY <1>1, <2>1 DEF CountInv, HeldUsed, OnHeap
<1>5. FreeEmpty' /\ StatusOK' /\ NoDoubleRelease'
  BY <1>1 DEF CountInv, FreeEmpty, StatusOK, InFrames, NoDoubleRelease
<1> QED
  BY <1>2, <1>3, <1>4, <1>5 DEF CountInv

(* Without nested collections the collector runs with an empty C stack.    *)
LEMMA CollectorIdle ==
  ASSUME HeapInv, ~NestedGC, CollectorMayRun
  PROVE  frames = <<>> /\ Len(frames) = 0 /\ depth = 0
<1>1. depth = 0 /\ frames \in Seq(Obj)
  BY DEF HeapInv, MarkInv, PhaseOK, CountInv, TypeOK
<1>2. frames = <<>> \/ Len(frames) = 0
  BY <1>1 DEF CollectorMayRun
<1> QED
  BY <1>1, <1>2

LEMMA CollectorSame ==
  ASSUME HeapInv, UNCHANGED <<st, fld, ref, frames>>, frames = <<>>,
         fin \subseteq fin', fin' \subseteq Obj, Garbage' = Garbage
  PROVE  CountInv' /\ Stale' = Stale
<1>1. st' = st /\ frames' = frames
  OBVIOUS
<1>2. Stale' = Stale
  BY <1>1 DEF Stale, Lost
<1>3. FramesSwept'
  BY <1>1 DEF FramesSwept
<1>4. \A x \in Obj \X Fld : x[1] \notin Stale' /\ fld[x] # Nil => fld[x] \notin Garbage'
  BY <1>2 DEF HeapInv, CountInv, HeldUsed
<1>5. CountInv /\ Stale \subseteq Stale'
  BY <1>2 DEF HeapInv
<1> QED
  BY <1>2, <1>3, <1>4, <1>5, SameCounts

(* Outside the sweep phase there is no garbage to sweep.                   *)
LEMMA NothingToSweep ==
  ASSUME HeapInv, gcstate # "sweep"
  PROVE  unswept = {} /\ Garbage = {} /\ \A o \in Obj : OnHeap(o) => color[o] # "dead"
BY DEF HeapInv, MarkInv, PhaseOK, ColorOK, Garbage

LEMMA MarkRootCount ==
  ASSUME HeapInv, ~NestedGC, MarkRoot
  PROVE  CountInv' /\ Stale' = Stale /\ Garbage' = Garbage
<1>1. /\ frames = <<>> /\ UNCHANGED <<st, fld, ref, frames>> /\ fin' = fin
      /\ unswept' = unswept /\ gcstate # "sweep"
  BY CollectorIdle DEF MarkRoot, rcvars
<1>2. Garbage' = Garbage /\ fin \subseteq Obj
  BY <1>1, NothingToSweep DEF Garbage, HeapInv, CountInv, TypeOK
<1> QED
  BY <1>1, <1>2, CollectorSame

LEMMA PropagateCount ==
  ASSUME HeapInv, ~NestedGC, NEW o \in Obj, Propagate(o)
  PROVE  CountInv' /\ Stale' = Stale /\ Garbage' = Garbage
<1>1. /\ frames = <<>> /\ UNCHANGED <<st, fld, ref, frames>> /\ fin' = fin
      /\ unswept' = unswept /\ gcstate # "sweep"
  BY CollectorIdle DEF Propagate, rcvars
<1>2. Garbage' = Garbage /\ fin \subseteq Obj
  BY <1>1, NothingToSweep DEF Garbage, HeapInv, CountInv, TypeOK
<1> QED
  BY <1>1, <1>2, CollectorSame

LEMMA AtomicCount ==
  ASSUME HeapInv, ~NestedGC, Atomic
  PROVE  CountInv' /\ Stale' = Stale /\ Garbage' = Garbage
<1>1. /\ frames = <<>> /\ UNCHANGED <<st, fld, ref, frames>>
      /\ unswept' = unswept /\ gcstate # "sweep"
  BY CollectorIdle DEF Atomic
<1>2. Garbage' = Garbage
  BY <1>1, NothingToSweep DEF Garbage
<1>3. fin \subseteq fin' /\ fin' \subseteq Obj
  BY KindAssumption DEF Atomic, Separated, HeapInv, CountInv, TypeOK
<1> QED
  BY <1>1, <1>2, <1>3, CollectorSame

LEMMA EndSweepCount ==
  ASSUME HeapInv, ~NestedGC, EndSweep \/ EndCycle
  PROVE  CountInv' /\ Stale' = Stale /\ Garbage' = Garbage
<1>1. /\ frames = <<>> /\ UNCHANGED <<st, fld, ref, frames>> /\ fin' = fin
      /\ unswept' = unswept /\ color' = color
  BY CollectorIdle DEF EndSweep, EndCycle, rcvars
<1>2. Garbage' = Garbage /\ fin \subseteq Obj
  BY <1>1 DEF Garbage, HeapInv, CountInv, TypeOK
<1> QED
  BY <1>1, <1>2, CollectorSame

LEMMA FullGCCount ==
  ASSUME HeapInv, ~NestedGC, FullGC
  PROVE  CountInv' /\ Stale' = Stale /\ Garbage' = Garbage
<1>1. /\ frames = <<>> /\ UNCHANGED <<st, fld, ref, frames>> /\ fin' = fin
      /\ color' = color
  BY CollectorIdle DEF FullGC, rcvars
<1>2. Garbage' = Garbage
  <2>1. CASE gcstate \in {"pause", "propagate"}
    <3>1. unswept' = rootgc
      BY <2>1 DEF FullGC
    <3>2. Garbage = {} /\ \A o \in rootgc : color[o] # "dead"
      BY <2>1, NothingToSweep DEF rootgc, OnHeap
    <3> QED
      BY <1>1, <3>1, <3>2 DEF Garbage
  <2>2. CASE gcstate \notin {"pause", "propagate"}
    BY <1>1, <2>2 DEF FullGC, Garbage
  <2> QED
    BY <2>1, <2>2
<1>3. fin \subseteq Obj
  BY DEF HeapInv, CountInv, TypeOK
<1> QED
  BY <1>1, <1>2, <1>3, CollectorSame

(* atomic turns the white objects into garbage: nothing that may still be  *)
(* read refers to one, because marking is closed and every weak slot has   *)
(* been visited.                                                           *)
LEMMA FlipWhiteCount ==
  ASSUME HeapInv, FlipWhite
  PROVE  /\ CountInv' /\ Garbage' = {o \in rootgc : color[o] = "white"}
         /\ frames = <<>> /\ UNCHANGED <<st, fld, frames>>
<1>1. frames = <<>>
  BY DEF FlipWhite, HeapInv, MarkInv, PhaseOK, CountInv, TypeOK
<1>2. /\ st' = st /\ fld' = fld /\ ref' = ref /\ frames' = frames /\ fin' = fin
      /\ unswept' = rootgc /\ gcstate = "clear" /\ pending = {}
      /\ color' = [o \in Obj |-> IF st[o] = "free" THEN "white" ELSE Flipped(color[o])]
  BY DEF FlipWhite, rcvars
<1>3. Garbage = {} /\ \A o \in Obj : OnHeap(o) => color[o] # "dead"
  BY <1>2, NothingToSweep
<1>4. Garbage' = {o \in rootgc : color[o] = "white"}
  <2>1. \A o \in rootgc : o \in Obj /\ OnHeap(o)
    BY DEF rootgc, OnHeap
  <2>2. \A o \in rootgc : color'[o] = "dead" <=> color[o] = "white"
    BY <1>2, <1>3, <2>1 DEF Flipped, OnHeap
  <2> QED
    BY <1>2, <2>2 DEF Garbage
<1>5. Stale = Lost /\ Lost' = Lost /\ Stale \subseteq Stale'
  BY <1>2, <1>3 DEF Stale, Lost
<1>6. FramesSwept'
  BY <1>1, <1>2 DEF FramesSwept
<1>7. ASSUME NEW x \in Obj \X Fld, x[1] \notin Stale', fld[x] # Nil
      PROVE  fld[x] \notin Garbage'
  <2>1. PICK p \in Obj, f \in Fld : x = <<p, f>>
    OBVIOUS
  <2>2. OnHeap(p)
    <3>1. st[p] # "free"
      BY <1>7, <2>1 DEF HeapInv, CountInv, FreeEmpty
    <3>2. st[p] # "dying"
      BY <1>1, <1>5, <1>7, <2>1 DEF Lost, Stale
    <3> QED
      BY <3>1, <3>2 DEF OnHeap, HeapInv, CountInv, TypeOK, Status
  <2>3. ~White(p)
    <3>1. CASE p \in tmudata
      BY <1>2, <3>1 DEF HeapInv, MarkInv, ColorOK
    <3>2. CASE p \notin tmudata
      <4>1. p \in rootgc
        BY <2>2, <3>2 DEF rootgc, OnHeap
      <4>2. color[p] # "white"
        BY <1>4, <1>7, <2>1, <4>1 DEF Stale
      <4> QED
        BY <1>3, <2>2, <4>2 DEF White
    <3> QED
      BY <3>1, <3>2
  <2>4. ~White(fld[x])
    BY <1>2, <1>7, <2>1, <2>2, <2>3 DEF HeapInv, MarkInv, MarkedClosed
  <2> QED
    BY <1>4, <2>4 DEF White
<1>8. CountInv'
  <2>1. CountInv /\ fin \subseteq fin' /\ fin' \subseteq Obj
    BY <1>2 DEF HeapInv, CountInv, TypeOK
  <2> QED
    BY <1>2, <1>5, <1>6, <1>7, <2>1, SameCounts
<1> QED
  BY <1>1, <1>2, <1>4, <1>8

(* The sweep frees an object nothing refers to but what it frees as well:  *)
(* the counts of the others are then too high by its references, never too *)
(* low.                                                                    *)
LEMMA SweepCount ==
  ASSUME HeapInv, ~NestedGC, NEW o \in Obj, Sweep(o)
  PROVE  /\ CountInv' /\ Garbage' = Garbage \ {o} /\ frames = <<>> /\ frames' = frames
         /\ st' \in [Obj -> Status] /\ color' = [color EXCEPT ![o] = "white"]
         /\ \A a \in Obj : a # o => st'[a] = st[a]
         /\ st'[o] = IF color[o] = "dead" THEN "free" ELSE st[o]
<1>1. /\ frames = <<>> /\ frames' = frames /\ unswept' = unswept \ {o} /\ o \in unswept
      /\ color' = [color EXCEPT ![o] = "white"]
  BY CollectorIdle DEF Sweep, Swept
<1>2. color \in [Obj -> {"white", "dead", "gray", "black"}] /\ unswept \subseteq Obj
      /\ OnHeap(o) /\ st \in [Obj -> Status]
  BY <1>1 DEF HeapInv, HeapTypeOK, MarkInv, PhaseOK, TypeOK
<1>3. Garbage' = Garbage \ {o}
  BY <1>1, <1>2 DEF Garbage
<1>4. CASE color[o] # "dead"
  <2>1. UNCHANGED <<st, fld, ref, frames>> /\ fin' = fin
    BY <1>4 DEF Sweep
  <2>2. Garbage' = Garbage /\ fin \subseteq Obj
    BY <1>3, <1>4 DEF Garbage, HeapInv, CountInv, TypeOK
  <2> QED
    BY <1>1, <1>2, <1>3, <1>4, <2>1, <2>2, CollectorSame
<1>5. CASE color[o] = "dead"
  <2>1. /\ st' = [st EXCEPT ![o] = "free"] /\ ref' = [ref EXCEPT ![o] = 0]
        /\ fld' = [x \in Obj \X Fld |-> IF x[1] = o THEN Nil ELSE fld[x]]
        /\ fin' = fin \ {o}
    BY <1>5 DEF Sweep
  <2>2. TypeOK'
    BY <1>1, <2>1 DEF HeapInv, CountInv, TypeOK, Status
  <2>3. o \in Garbage /\ o # Main
    BY <1>1, <1>5 DEF Garbage, HeapInv, MarkInv, ColorOK
  <2>4. st'[o] = "free" /\ \A a \in Obj : a # o => st'[a] = st[a] /\ ref'[a] = ref[a]
    BY <2>1 DEF HeapInv, CountInv, TypeOK
  <2>5. Lost' = Lost
    BY <1>1, <1>2, <2>4 DEF Lost, OnHeap
  <2>6. Stale' = Stale \ {o}
    BY <1>2, <1>3, <2>5 DEF Stale, Lost, OnHeap
  <2>7. \A x \in Obj \X Fld : fld'[x] = IF x[1] = o THEN Nil ELSE fld[x]
    BY <2>1
  <2>8. RefCovers'
    <3> SUFFICES ASSUME NEW a \in Obj, st'[a] # "free"
                 PROVE  ref'[a] >= Cardinality({x \in Holders(a)' : x[1] \notin Stale'})
                                     + ArgumentCount(a)'
      BY DEF RefCovers
    <3>1. a # o /\ st[a] = st'[a] /\ ref'[a] = ref[a]
      BY <2>4
    <3>2. {x \in Holders(a)' : x[1] \notin Stale'} = {x \in Holders(a) : x[1] \notin Stale}
      BY <2>3, <2>6, <2>7, ObjAssumption DEF Holders, Stale
    <3>3. ArgumentCount(a)' = ArgumentCount(a)
      BY <3>1 DEF ArgumentCount
    <3> QED
      BY <3>1, <3>2, <3>3 DEF HeapInv, CountInv, RefCovers
  <2>9. HeldUsed'
    <3> SUFFICES ASSUME NEW x \in Obj \X Fld, x[1] \notin Stale', fld'[x] # Nil
                 PROVE  st'[fld'[x]] \in {"live", "finalizing"} /\ fld'[x] \notin Garbage'
      BY DEF HeldUsed, OnHeap
    <3>1. fld'[x] = fld[x] /\ x[1] # o /\ fld[x] \in Obj
      BY <2>7 DEF HeapInv, CountInv, TypeOK
    <3>2. OnHeap(fld[x]) /\ fld[x] \notin Garbage
      BY <2>6, <3>1 DEF HeapInv, CountInv, HeldUsed
    <3> QED
      BY <1>3, <2>3, <2>4, <3>1, <3>2 DEF OnHeap
  <2>10. FreeEmpty'
    BY <2>4, <2>7 DEF HeapInv, CountInv, FreeEmpty
  <2>11. StatusOK' /\ NoDoubleRelease' /\ FramesSwept'
    BY <1>1, <2>3, <2>4, ObjAssumption
       DEF HeapInv, CountInv, StatusOK, InFrames, NoDoubleRelease, FramesSwept
  <2>12. CountInv'
    BY <2>2, <2>8, <2>9, <2>10, <2>11 DEF CountInv
  <2>13. st' \in [Obj -> Status]
    BY <2>2 DEF TypeOK
  <2> QED
    BY <1>1, <1>3, <1>5, <2>4, <2>12, <2>13
<1> QED
  BY <1>4, <1>5

(* The register GCTM's argument may stay in held nothing, so that nothing  *)
(* is released.                                                            *)
LEMMA CallGCTMCount ==
  ASSUME HeapInv, ~NestedGC, NEW u \in GcObj, CallGCTM(u)
  PROVE  /\ CountInv' /\ Stale' = Stale /\ Garbage' = Garbage
         /\ st' = st /\ frames' = frames /\ frames = <<>>
<1>1. /\ frames = <<>> /\ unswept' = unswept /\ fin' = fin /\ u \in tmudata
      /\ gcstate # "sweep" /\ color' = [color EXCEPT ![u] = "white"]
  BY CollectorIdle DEF CallGCTM
<1>2. unswept = {} /\ Garbage = {}
  BY <1>1, NothingToSweep
<1>3. CASE UNCHANGED <<st, fld, ref, frames>>
  <2>1. Garbage' = Garbage /\ fin \subseteq Obj
    BY <1>1, <1>2 DEF Garbage, HeapInv, CountInv, TypeOK
  <2> QED
    BY <1>1, <1>3, <2>1, CollectorSame
<1>4. CASE \E s \in Fld : fld[<<Main, s>>] = Nil /\ SetObj(st, ref, Main, s, u)
  <2>1. PICK s \in Fld : fld[<<Main, s>>] = Nil /\ SetObj(st, ref, Main, s, u)
    BY <1>4
  <2>2. Main \in Obj /\ Main \notin Stale /\ st[Main] # "free"
    BY ObjAssumption, AccessibleUsed DEF Accessible, OnHeap
  <2>3. u \in Value /\ OnHeap(u) /\ u \notin Garbage
    BY <1>1, <1>2, ObjAssumption DEF Value, OnHeap, HeapInv, MarkInv, PhaseOK
  <2>4. /\ unswept' = unswept \ Unlinked
        /\ \A o \in unswept : color'[o] = "dead" <=> color[o] = "dead"
    BY <1>1, <1>2
  <2>5. CountInv' /\ Stale' = Stale /\ Garbage' = Garbage
    BY <1>1, <2>1, <2>2, <2>3, <2>4, PlainStore
  <2>6. st' = st /\ frames' = frames
    BY <2>1 DEF SetObj, ReleaseIfZero
  <2> QED
    BY <1>1, <2>5, <2>6
<1> QED
  BY <1>3, <1>4 DEF CallGCTM

(* A weak slot is cleared only where no finalizer can run.                 *)
LEMMA ClearSlotCount ==
  ASSUME HeapInv, Separate, NEW x \in pending, ClearSlot(x)
  PROVE  /\ CountInv' /\ Stale' = Stale /\ Garbage' = Garbage
         /\ x \in WeakTable \X Fld /\ GcObj = {} /\ frames = <<>> /\ gcstate = "clear"
         /\ \/ NotReleased(st)
            \/ Released(st, fld[x], Stale) /\ White(fld[x])
<1>1. frames = <<>> /\ gcstate = "clear"
  BY DEF ClearSlot, HeapInv, MarkInv, PhaseOK, CountInv, TypeOK
<1>2. unswept = {} /\ Garbage = {}
  BY <1>1, NothingToSweep
<1>3. x \in WeakTable \X Fld
  BY DEF HeapInv, HeapTypeOK
<1>4. PICK p \in WeakTable, f \in Fld : x = <<p, f>>
  BY <1>3
<1>5. GcObj = {} /\ p \in Obj
  BY <1>4, KindAssumption DEF Separate
<1>6. Stale = {} /\ \A o \in Obj : st[o] # "finalizing" /\ st[o] # "dying"
  BY <1>1, <1>2, <1>5 DEF Stale, Lost, HeapInv, MarkInv, PhaseOK, InFrames
<1>7. CASE iscleared(fld[x])
  <2>1. /\ SetObj(st, ref, p, f, Nil) /\ unswept' = unswept \ Unlinked
        /\ UNCHANGED <<fin, color>>
    BY <1>4, <1>7 DEF ClearSlot, Relist
  <2>2. st[p] # "free"
    BY <1>4, <1>5, <1>7 DEF iscleared, HeapInv, CountInv, FreeEmpty
  <2>3. p \notin Stale /\ Nil \in Value
    BY <1>6 DEF Value
  <2>4. \A o \in unswept : color'[o] = "dead" <=> color[o] = "dead"
    BY <1>2
  <2>5. /\ CountInv' /\ Stale' = Stale /\ Garbage' = Garbage
        /\ NotReleased(st) \/ Released(st, fld[<<p, f>>], Stale)
    BY <1>5, <2>1, <2>2, <2>3, <2>4, PlainStore
  <2>6. Released(st, fld[x], Stale) => White(fld[x])
    BY <1>7 DEF iscleared, Released
  <2> QED
    BY <1>1, <1>3, <1>4, <1>5, <2>5, <2>6
<1>8. CASE ~iscleared(fld[x])
  <2>1. UNCHANGED <<st, fld, ref, frames>> /\ fin' = fin /\ unswept' = unswept
        /\ color' = color
    BY <1>8 DEF ClearSlot
  <2>2. Garbage' = Garbage /\ fin \subseteq Obj
    BY <2>1 DEF Garbage, HeapInv, CountInv, TypeOK
  <2>3. CountInv' /\ Stale' = Stale
    BY <1>1, <2>1, <2>2, CollectorSame
  <2> QED
    BY <1>1, <1>3, <1>5, <2>1, <2>2, <2>3 DEF NotReleased
<1> QED
  BY <1>7, <1>8

-----------------------------------------------------------------------------
(* What marking reaches                                                    *)

(* C is closed under the references that marking from Via follows.         *)
Closed(C, Via) == \A p \in C \cap Via : \A c \in Traversed(p) : White(c) => c \in C

LEMMA TraversedObj ==
  ASSUME TypeOK, NEW p \in Obj
  PROVE  Children(p) \subseteq Obj /\ Traversed(p) \subseteq Obj
BY KindAssumption DEF TypeOK, Traversed, Children

LEMMA ClosureClosed ==
  ASSUME TypeOK, NEW S, NEW Via, S \subseteq Obj
  PROVE  /\ WhiteClosure(S, Via) \subseteq Obj /\ S \subseteq WhiteClosure(S, Via)
         /\ Closed(WhiteClosure(S, Via), Via)
<1>1. WhiteClosure(S, Via) \subseteq Obj /\ S \subseteq WhiteClosure(S, Via)
  BY DEF WhiteClosure
<1>2. ASSUME NEW p \in WhiteClosure(S, Via), p \in Via, NEW c \in Traversed(p), White(c)
      PROVE  c \in WhiteClosure(S, Via)
  <2>1. p \in Obj /\ c \in Obj
    BY <1>1, <1>2, TraversedObj
  <2>2. ASSUME NEW C \in SUBSET Obj, S \subseteq C,
               \A q \in C \cap Via : \A d \in Traversed(q) : White(d) => d \in C
        PROVE  c \in C
    <3>1. p \in C
      BY <2>2 DEF WhiteClosure
    <3> QED
      BY <1>2, <2>2, <3>1
  <2> QED
    BY <2>1, <2>2 DEF WhiteClosure
<1> QED
  BY <1>1, <1>2 DEF Closed

LEMMA ClosureLeast ==
  ASSUME NEW S, NEW Via, NEW C \in SUBSET Obj, S \subseteq C, Closed(C, Via)
  PROVE  WhiteClosure(S, Via) \subseteq C
BY DEF WhiteClosure, Closed

(* What the closure adds to S is white, and held by another member of it.  *)
LEMMA ClosureOrigin ==
  ASSUME TypeOK, NEW S, NEW Via, S \subseteq Obj,
         NEW o \in WhiteClosure(S, Via), o \notin S
  PROVE  White(o) /\ \E p \in WhiteClosure(S, Via) \cap Via : o \in Traversed(p)
<1>1. PICK W \in SUBSET Obj : W = WhiteClosure(S, Via)
  BY ClosureClosed
<1>2. S \subseteq W /\ Closed(W, Via)
  BY <1>1, ClosureClosed
<1>3. PICK C \in SUBSET Obj :
        C = {a \in W : a \in S \/ (White(a) /\ \E p \in W \cap Via : a \in Traversed(p))}
  OBVIOUS
<1>4. S \subseteq C
  BY <1>2, <1>3
<1>5. Closed(C, Via)
  <2> SUFFICES ASSUME NEW p \in C, p \in Via, NEW c \in Traversed(p), White(c)
               PROVE  c \in C
    BY DEF Closed
  <2>1. p \in W /\ c \in W
    BY <1>2, <1>3 DEF Closed
  <2> QED
    BY <1>3, <2>1
<1>6. o \in C
  BY <1>1, <1>4, <1>5, ClosureLeast
<1> QED
  BY <1>1, <1>3, <1>6

(* Outside the sweep, marking from allocated objects meets no others.      *)
LEMMA ClosureOnHeap ==
  ASSUME HeapInv, gcstate # "sweep", NEW S, NEW Via,
         \A o \in S : o \in Obj /\ OnHeap(o)
  PROVE  \A o \in WhiteClosure(S, Via) : o \in Obj /\ OnHeap(o)
<1>1. PICK C \in SUBSET Obj : C = {o \in Obj : OnHeap(o)}
  OBVIOUS
<1>2. Closed(C, Via)
  <2> SUFFICES ASSUME NEW p \in C, NEW c \in Traversed(p)
               PROVE  c \in C
    BY DEF Closed
  <2>1. p \notin Stale
    BY <1>1, NothingToSweep DEF Stale, Lost, OnHeap
  <2>2. c \in Obj
    BY TraversedObj DEF HeapInv, CountInv
  <2>3. CASE c \in Children(p)
    <3>1. PICK f \in Fld : c = fld[<<p, f>>] /\ c # Nil
      BY <2>3 DEF Children
    <3>2. OnHeap(c)
      BY <2>1, <3>1 DEF HeapInv, CountInv, HeldUsed
    <3> QED
      BY <1>1, <2>2, <3>2
  <2>4. CASE c \notin Children(p)
    <3>1. st[c] = "finalizing"
      BY <2>4 DEF Traversed
    <3> QED
      BY <1>1, <2>2, <3>1 DEF OnHeap
  <2> QED
    BY <2>3, <2>4
<1> QED
  BY <1>1, <1>2, ClosureLeast

(* reallymarkobject marks white objects, and all that their userdata holds.*)
LEMMA MarkedFacts ==
  ASSUME HeapInv, gcstate # "sweep", NEW S, \A o \in S : o \in Obj /\ OnHeap(o)
  PROVE  /\ \A o \in Marked(S) : o \in Obj /\ OnHeap(o) /\ White(o)
         /\ \A o \in S : White(o) => o \in Marked(S)
         /\ \A p \in Marked(S) \cap Udata : \A c \in Children(p) : White(c) => c \in Marked(S)
         /\ \A o \in Marked(S) : o \in S \/ \E p \in Marked(S) \cap Udata : o \in Children(p)
<1>1. PICK R \in SUBSET Obj : R = {o \in S : White(o)}
  OBVIOUS
<1>2. PICK M : M = Marked(S) /\ M = WhiteClosure(R, Udata)
  BY <1>1 DEF Marked
<1>3. TypeOK
  BY DEF HeapInv, CountInv
<1>4. M \subseteq Obj /\ R \subseteq M /\ Closed(M, Udata)
  BY <1>2, <1>3, ClosureClosed
<1>5. \A p \in Udata : Traversed(p) = Children(p)
  BY KindAssumption DEF Traversed
<1>6. \A o \in M : OnHeap(o)
  BY <1>1, <1>2, ClosureOnHeap
<1>7. \A o \in M : o \in R \/ (White(o) /\ \E p \in M \cap Udata : o \in Traversed(p))
  BY <1>2, <1>3, ClosureOrigin
<1> QED
  BY <1>1, <1>2, <1>4, <1>5, <1>6, <1>7 DEF Closed

-----------------------------------------------------------------------------
(* Steps of Lua code and of releases                                       *)

(* What all of them do to the statuses and to the sweep.                   *)
MutatorStep ==
  /\ CountInv' /\ Garbage' = Garbage /\ unswept' = unswept \ Unlinked
  /\ UNCHANGED <<gcstate, tmudata>> /\ depth' = 0 /\ full' \in {"no", "finish", "cycle"}
  /\ pending' \subseteq pending
  /\ gcstate = "clear" => WeakTable # {}
  /\ \A o \in Obj : OnHeap(o) => OnHeap(o)' \/ st'[o] = "dying"
  /\ \A o \in Obj : st[o] = "live" /\ o \in fin => st'[o] = "live" /\ o \in fin'
  /\ GcObj = {} => /\ Stale' = Stale
                   /\ \A o \in Obj : st'[o] = "finalizing" => st[o] = "finalizing"

LEMMA MutatorPhase ==
  ASSUME HeapInv, MutatorStep
  PROVE  /\ PhaseOK' /\ TypeOK' /\ st'[Main] = "live"
         /\ \A o \in unswept : OnHeap(o)' => o \in unswept'
         /\ gcstate # "sweep" => \A o \in Obj : OnHeap(o)' => o \notin Stale'
<1>1. unswept \subseteq Obj /\ \A o \in unswept : OnHeap(o) /\ o \notin tmudata
  BY DEF HeapInv, HeapTypeOK, MarkInv, PhaseOK
<1>2. unswept' = {o \in unswept : st'[o] # "dying"}
  BY <1>1 DEF MutatorStep, Unlinked, OnHeap
<1>3. gcstate' # "sweep" => unswept' = {}
  BY <1>2 DEF MutatorStep, HeapInv, MarkInv, PhaseOK
<1>4. gcstate' # "clear" => pending' = {}
  BY DEF MutatorStep, HeapInv, MarkInv, PhaseOK
<1>5. ASSUME GcObj = {}, NEW o \in Obj
      PROVE  st'[o] # "finalizing" /\ (st'[o] = "dying" => InFrames(o)')
  <2>1. st'[o] # "finalizing"
    BY <1>5 DEF MutatorStep, HeapInv, MarkInv, PhaseOK
  <2>2. ASSUME st'[o] = "dying", ~InFrames(o)' PROVE FALSE
    <3>1. o \in Lost'
      BY <2>2 DEF Lost, InFrames
    <3>2. o \in Stale
      BY <1>5, <3>1 DEF MutatorStep, Stale
    <3>3. o \notin Lost
      BY <1>5 DEF Lost, InFrames, HeapInv, MarkInv, PhaseOK
    <3>4. o \in unswept'
      BY <3>2, <3>3 DEF Stale, MutatorStep, Garbage
    <3> QED
      BY <1>2, <2>2, <3>4
  <2> QED
    BY <2>1, <2>2
<1>6. \A o \in unswept' : OnHeap(o)' /\ o \notin tmudata'
  BY <1>1, <1>2 DEF MutatorStep
<1>7. \A u \in tmudata' : u \in fin' /\ st'[u] = "live"
  BY ObjAssumption DEF MutatorStep, HeapInv, HeapTypeOK, MarkInv, PhaseOK
<1>8. gcstate' = "clear" /\ WeakTable = {} => frames' = <<>>
  BY DEF MutatorStep
<1>9. PhaseOK'
  BY <1>3, <1>4, <1>5, <1>6, <1>7, <1>8 DEF PhaseOK, MutatorStep
<1>10. TypeOK' /\ st'[Main] = "live"
  BY DEF MutatorStep, CountInv, StatusOK
<1>11. gcstate # "sweep" => \A o \in Obj : OnHeap(o)' => o \notin Stale'
  BY <1>3 DEF MutatorStep, Stale, Garbage, Lost, OnHeap
<1>12. \A o \in unswept : OnHeap(o)' => o \in unswept'
  BY <1>2 DEF OnHeap
<1> QED
  BY <1>9, <1>10, <1>11, <1>12

(* A step that stores only in registers and only adds the white objects T. *)
QuietStep(T) ==
  /\ MutatorStep /\ Relist({}, {})
  /\ color' \in [Obj -> {"white", "dead", "gray", "black"}]
  /\ \A o \in Obj \ T : /\ OnHeap(o)' => OnHeap(o) /\ color'[o] = color[o]
                        /\ color'[o] = color[o] \/ color'[o] = "white"
  /\ \A o \in T : ~OnHeap(o) /\ color'[o] = "white"
  /\ \A y \in Obj \X Fld : \/ fld'[y] = fld[y] \/ fld'[y] = Nil
                           \/ y[1] = Main /\ gcstate # "clear"
  /\ \A x \in pending : x \in pending' \/ fld'[x] = Nil \/ ~White(fld[x])
  /\ gcstate = "clear" => T = {}

LEMMA QuietMark ==
  ASSUME HeapInv, NEW T \in SUBSET Obj, QuietStep(T)
  PROVE  HeapInv'
<1>1. MutatorStep /\ Relist({}, {})
  BY DEF QuietStep
<1>2. /\ PhaseOK' /\ TypeOK' /\ st'[Main] = "live" /\ Main \in Obj
      /\ \A o \in unswept : OnHeap(o)' => o \in unswept'
      /\ gcstate # "sweep" => \A o \in Obj : OnHeap(o)' => o \notin Stale'
  BY <1>1, MutatorPhase, ObjAssumption
<1>3. gcstate' = gcstate /\ tmudata' = tmudata /\ CountInv' /\ (Marking' <=> Marking)
  BY <1>1 DEF MutatorStep, Marking
<1>4. HeapTypeOK'
  BY <1>1, <1>2, <1>3 DEF HeapInv, HeapTypeOK, QuietStep, MutatorStep, Relist
<1>5. \A o \in Obj : o \notin T /\ OnHeap(o)' => OnHeap(o) /\ color'[o] = color[o]
  BY DEF QuietStep
<1>6. \A o \in T : ~OnHeap(o) /\ color'[o] = "white"
  BY DEF QuietStep
<1>7. ColorOK'
  <2>1. \A u \in Udata : color'[u] # "gray"
    BY <1>6, KindAssumption DEF QuietStep, HeapInv, MarkInv, ColorOK
  <2>2. ASSUME NEW o \in Obj, OnHeap(o)', o \notin unswept'
        PROVE  color'[o] # "dead" /\ (o \notin tmudata /\ ~Marking => color'[o] = "white")
    <3>1. CASE o \in T
      BY <1>6, <3>1
    <3>2. CASE o \notin T
      BY <1>2, <1>5, <2>2, <3>2 DEF HeapInv, MarkInv, ColorOK
    <3> QED
      BY <3>1, <3>2
  <2>3. color'[Main] = color[Main]
    BY <1>2, <1>5, <1>6 DEF OnHeap, HeapInv, CountInv, StatusOK
  <2>4. ASSUME Marking, NEW w \in WeakTable, OnHeap(w)' PROVE color'[w] # "black"
    BY <1>5, <1>6, <2>4, KindAssumption DEF HeapInv, MarkInv, ColorOK
  <2>5. gcstate = "clear" => \A u \in tmudata : ~White(u)'
    <3>1. ASSUME gcstate = "clear", NEW u \in tmudata PROVE color'[u] = color[u] /\ ~White(u)
      <4>1. u \in Obj /\ OnHeap(u)'
        BY <1>2, <1>3, ObjAssumption DEF PhaseOK, OnHeap, HeapInv, HeapTypeOK
      <4>2. u \notin T
        BY <3>1 DEF QuietStep
      <4> QED
        BY <1>5, <3>1, <4>1, <4>2 DEF HeapInv, MarkInv, ColorOK
    <3> QED
      BY <3>1 DEF White
  <2>6. color[Main] # "dead" /\ (Marking => color[Main] = "gray")
    BY DEF HeapInv, MarkInv, ColorOK
  <2> QED
    BY <1>3, <2>1, <2>2, <2>3, <2>4, <2>5, <2>6 DEF ColorOK
<1>8. ListsApart'
  BY <1>1, <1>3 DEF Relist, ListsApart, HeapInv, MarkInv
<1>9. ASSUME NEW p \in Obj, NEW f \in Fld, OnHeap(p)', gcstate \in {"propagate", "clear"},
             fld'[<<p, f>>] # Nil, fld'[<<p, f>>] = fld[<<p, f>>], p \notin T
      PROVE  color'[fld[<<p, f>>]] = color[fld[<<p, f>>]] /\ color'[p] = color[p] /\ OnHeap(p)
  <2>1. fld[<<p, f>>] \in Obj
    BY <1>9 DEF HeapInv, CountInv, TypeOK
  <2>2. OnHeap(p) /\ color'[p] = color[p]
    BY <1>5, <1>9
  <2>3. p \notin Stale /\ p \notin Stale'
    BY <1>2, <1>9, <2>2, NothingToSweep DEF Stale, Lost, OnHeap
  <2>4. OnHeap(fld[<<p, f>>]) /\ OnHeap(fld[<<p, f>>])'
    BY <1>3, <1>9, <2>3 DEF HeapInv, CountInv, HeldUsed
  <2> QED
    BY <1>5, <1>6, <1>9, <2>1, <2>2, <2>4
<1>10. MarkedClosed'
  <2> SUFFICES ASSUME gcstate = "clear", NEW p \in Obj, NEW f \in Fld,
                      OnHeap(p)', ~White(p)', fld'[<<p, f>>] # Nil, White(fld[<<p, f>>])'
               PROVE  <<p, f>> \in pending'
    BY <1>3 DEF MarkedClosed
  <2>1. fld'[<<p, f>>] = fld[<<p, f>>] /\ p \notin T
    BY DEF QuietStep
  <2>2. ~White(p) /\ White(fld[<<p, f>>]) /\ OnHeap(p)
    BY <1>9, <2>1 DEF White
  <2>3. <<p, f>> \in pending
    BY <2>1, <2>2 DEF HeapInv, MarkInv, MarkedClosed
  <2> QED
    BY <2>2, <2>3 DEF QuietStep
<1>11. TriColor'
  <2> SUFFICES ASSUME gcstate = "propagate", NEW p \in rootgc', color'[p] = "black",
                      NEW c \in Children(p)'
               PROVE  ~White(c)'
    BY <1>3 DEF TriColor
  <2>1. PICK f \in Fld : c = fld'[<<p, f>>] /\ c # Nil
    BY DEF Children
  <2>2. p \in Obj /\ OnHeap(p)' /\ p \notin T /\ p \notin tmudata
    BY <1>3, <1>6 DEF rootgc, OnHeap
  <2>3. color[p] = "black" /\ OnHeap(p)
    BY <1>5, <2>2
  <2>4. p # Main
    BY <2>3 DEF HeapInv, MarkInv, ColorOK, Marking
  <2>5. fld'[<<p, f>>] = fld[<<p, f>>]
    BY <2>1, <2>2, <2>4 DEF QuietStep
  <2>6. ~White(c)
    BY <2>1, <2>2, <2>3, <2>5 DEF HeapInv, MarkInv, TriColor, rootgc, OnHeap, Children
  <2> QED
    BY <1>9, <2>1, <2>2, <2>5, <2>6 DEF White
<1>12. GrayListed'
  <2> SUFFICES ASSUME gcstate = "propagate"
               PROVE  gray' \cup grayagain' \cup weak' =
                        {o \in Obj : OnHeap(o)' /\ color'[o] = "gray"}
    BY <1>3 DEF GrayListed, OnHeap
  <2>1. gray \cup grayagain \cup weak = {o \in Obj : OnHeap(o) /\ color[o] = "gray"}
    BY DEF HeapInv, MarkInv, GrayListed, OnHeap
  <2>2. gray' \cup grayagain' \cup weak' = (gray \cup grayagain \cup weak) \ Ungrayed
    BY <1>1 DEF Relist
  <2>3. ASSUME NEW o \in Obj, OnHeap(o), color[o] = "gray"
        PROVE  o \notin Ungrayed <=> OnHeap(o)'
    BY <1>1, <2>3 DEF Ungrayed, Unlinked, Marking, OnHeap, MutatorStep
  <2>4. \A o \in Obj : OnHeap(o)' /\ color'[o] = "gray" => OnHeap(o) /\ color[o] = "gray"
    BY <1>5, <1>6
  <2>5. \A o \in Obj : OnHeap(o) /\ OnHeap(o)' => color'[o] = color[o]
    BY <1>5, <1>6
  <2> QED
    BY <2>1, <2>2, <2>3, <2>4, <2>5
<1> QED
  BY <1>2, <1>3, <1>4, <1>7, <1>8, <1>10, <1>11, <1>12 DEF HeapInv, MarkInv

(* Lua code does not run inside cleartable, where a finalizer would have   *)
(* had to start it.                                                        *)
LEMMA NotInClear ==
  ASSUME HeapInv, Separate, LuaRuns, MutatorRuns \/ NeedsFinalizer(Top)
  PROVE  gcstate # "clear"
<1> SUFFICES ASSUME gcstate = "clear" PROVE FALSE
  OBVIOUS
<1>1. frames # <<>>
  BY DEF LuaRuns, Busy, HeapInv, MarkInv, PhaseOK
<1>2. GcObj # {}
  <2>1. CASE NeedsFinalizer(Top)
    BY <2>1 DEF NeedsFinalizer
  <2>2. CASE MutatorRuns
    <3>1. Top \in Obj /\ st[Top] = "finalizing"
      BY <1>1, <2>2, TopFrame DEF MutatorRuns, HeapInv
    <3> QED
      BY <3>1 DEF HeapInv, MarkInv, PhaseOK
  <2> QED
    BY <2>1, <2>2
<1> QED
  BY <1>1, <1>2 DEF Separate, HeapInv, MarkInv, PhaseOK

(* A release does, but only where there is a weak table.                   *)
LEMMA ReleaseInClear ==
  ASSUME HeapInv, ~Busy, gcstate = "clear"
  PROVE  WeakTable # {}
BY DEF Busy, HeapInv, MarkInv, PhaseOK

LEMMA NoBarrierQuiet ==
  ASSUME HeapInv, NoBarrier, CountInv', Stale' = Stale, Garbage' = Garbage,
         gcstate = "clear" => WeakTable # {},
         \A o \in Obj : \/ st'[o] = st[o] \/ st'[o] = "dying"
                        \/ st[o] = "dying" /\ st'[o] = "free",
         \A o \in Obj : st[o] = "live" /\ o \in fin => st'[o] = "live" /\ o \in fin',
         \A y \in Obj \X Fld : fld'[y] = fld[y] \/ fld'[y] = Nil
  PROVE  HeapInv'
<1>1. /\ gcstate' = gcstate /\ tmudata' = tmudata /\ pending' = pending /\ full' = full
      /\ depth' = depth /\ Relist({}, {})
      /\ color' = [o \in Obj |-> IF st'[o] = "free" THEN "white" ELSE color[o]]
  BY DEF NoBarrier
<1>2. full \in {"no", "finish", "cycle"} /\ depth = 0
      /\ color \in [Obj -> {"white", "dead", "gray", "black"}]
  BY DEF HeapInv, HeapTypeOK, MarkInv, PhaseOK
<1>3. MutatorStep
  BY <1>1, <1>2 DEF MutatorStep, Relist, OnHeap
<1>4. QuietStep({})
  BY <1>1, <1>2, <1>3 DEF QuietStep, OnHeap
<1> QED
  BY <1>4, QuietMark

LEMMA HeapClearInv ==
  ASSUME HeapInv, Separate, LuaRuns, NEW p \in Obj, NEW f \in Fld, HeapClear(p, f)
  PROVE  HeapInv'
<1>1. /\ CountInv' /\ Stale' = Stale /\ Garbage' = Garbage
      /\ NotReleased(st) \/ Released(st, fld[<<p, f>>], Stale)
  BY HeapClearCount
<1>2. /\ SetObj(st, ref, p, f, Nil) /\ fin' = fin /\ NoBarrier /\ MutatorRuns
  BY DEF HeapClear, Clear
<1>3. gcstate # "clear"
  BY <1>2, NotInClear
<1>4. \A o \in Obj : st'[o] = st[o] \/ (st'[o] = "dying" /\ o \notin fin)
  BY <1>1, ReleaseStatuses
<1>5. \A y \in Obj \X Fld : fld'[y] = fld[y] \/ fld'[y] = Nil
  BY <1>2 DEF SetObj, HeapInv, CountInv, TypeOK
<1> QED
  BY <1>1, <1>2, <1>3, <1>4, <1>5, NoBarrierQuiet

LEMMA HeapReleaseInv ==
  ASSUME HeapInv, ~Retain, ~Busy, HeapRelease
  PROVE  HeapInv'
<1>1. NoBarrier /\ (gcstate = "clear" => WeakTable # {})
  BY ReleaseInClear DEF HeapRelease
<1>2. frames # <<>>
  BY DEF HeapRelease, FinalizerReturn, ReleaseMember, FreeObject
<1>3. PICK t \in Obj : t = Top /\ st[t] \in {"dying", "finalizing"}
  BY <1>2, TopFrame DEF HeapInv
<1>4. CASE FinalizerReturn
  <2>1. st' = [st EXCEPT ![t] = "dying"] /\ fld' = fld /\ fin' = fin
    BY <1>3, <1>4 DEF FinalizerReturn
  <2>2. \A o \in Obj : st'[o] = st[o] \/ (o = t /\ st'[o] = "dying")
    <3>1. st \in [Obj -> Status]
      BY DEF HeapInv, CountInv, TypeOK
    <3> QED
      BY <2>1, <3>1
  <2>3. \A o \in Obj : st[o] = "live" /\ o \in fin => st'[o] = "live" /\ o \in fin'
    BY <1>3, <2>1, <2>2
  <2> QED
    BY <1>1, <1>4, <2>1, <2>2, <2>3, FinalizerReturnCount, NoBarrierQuiet
<1>5. CASE \E f \in Fld : ReleaseMember(f)
  <2>1. PICK f \in Fld : ReleaseMember(f)
    BY <1>5
  <2>2. /\ CountInv' /\ Stale' = Stale /\ Garbage' = Garbage
        /\ NotReleased(st) \/ Released(st, fld[<<Top, f>>], Stale)
    BY <1>1, <2>1, ReleaseMemberCount
  <2>3. \A o \in Obj : st'[o] = st[o] \/ (st'[o] = "dying" /\ o \notin fin)
    BY <2>2, ReleaseStatuses
  <2>4. fin' = fin /\ \A y \in Obj \X Fld : fld'[y] = fld[y] \/ fld'[y] = Nil
    BY <2>1 DEF ReleaseMember, SetObj, HeapInv, CountInv, TypeOK
  <2> QED
    BY <1>1, <2>2, <2>3, <2>4, NoBarrierQuiet
<1>6. CASE FreeObject
  <2>1. st' = [st EXCEPT ![t] = "free"] /\ fld' = fld /\ fin' = fin \ {t} /\ st[t] = "dying"
    BY <1>3, <1>6 DEF FreeObject
  <2>2. \A o \in Obj : st'[o] = st[o] \/ (o = t /\ st'[o] = "free")
    <3>1. st \in [Obj -> Status]
      BY DEF HeapInv, CountInv, TypeOK
    <3> QED
      BY <2>1, <3>1
  <2>3. \A o \in Obj : st[o] = "live" /\ o \in fin => st'[o] = "live" /\ o \in fin'
    BY <2>1, <2>2
  <2> QED
    BY <1>1, <1>6, <2>1, <2>2, <2>3, FreeObjectCount, NoBarrierQuiet
<1> QED
  BY <1>4, <1>5, <1>6 DEF HeapRelease

LEMMA FinalizerErrorInv ==
  ASSUME HeapInv, Separate, ~Busy, HeapFinalizerError
  PROVE  HeapInv'
<1>1. /\ CountInv' /\ Garbage' = Garbage /\ unswept' = unswept
      /\ \A o \in Obj : st'[o] = st[o] \/ (st[o] = "finalizing" /\ st'[o] = "live")
      /\ Unlinked = {}
  BY FinalizerErrorCount
<1>2. /\ fld' = fld /\ fin' = fin /\ Relist({}, {}) /\ color' = color /\ tmudata' = tmudata
      /\ frames # <<>> /\ st[Top] = "finalizing"
  BY DEF HeapFinalizerError, FinalizerError
<1>3. gcstate # "clear"
  BY <1>2, NotInClear DEF LuaRuns, MutatorRuns
<1>4. pending = {} /\ depth = 0 /\ full \in {"no", "finish", "cycle"}
      /\ color \in [Obj -> {"white", "dead", "gray", "black"}]
  BY <1>3 DEF HeapInv, HeapTypeOK, MarkInv, PhaseOK
<1>5. /\ gcstate' = gcstate /\ pending' = {} /\ depth' = 0
      /\ full' \in {"no", "finish", "cycle"}
  BY <1>3, <1>4 DEF HeapFinalizerError
<1>6. GcObj # {}
  BY <1>2, TopFrame DEF HeapInv, MarkInv, PhaseOK
<1>7. MutatorStep
  BY <1>1, <1>2, <1>3, <1>4, <1>5, <1>6 DEF MutatorStep, OnHeap
<1>8. QuietStep({})
  BY <1>1, <1>2, <1>3, <1>4, <1>5, <1>7 DEF QuietStep, OnHeap
<1> QED
  BY <1>8, QuietMark

LEMMA CallFinalizerInv ==
  ASSUME HeapInv, Separate, ~Busy, HeapCallFinalizer
  PROVE  HeapInv'
<1>1. CountInv' /\ Stale' = Stale /\ Garbage' = Garbage
  BY HeapCallFinalizerCount
<1>2. PICK t \in Obj : t = Top
  BY TopFrame DEF HeapInv, HeapCallFinalizer, CallFinalizer
<1>3. /\ fin' = fin \cup {t} /\ st' = [st EXCEPT ![t] = "finalizing"]
      /\ fld' = fld /\ st[t] = "dying" /\ NeedsFinalizer(t)
      /\ color' = [color EXCEPT ![t] = "white"] /\ Relist({}, {})
      /\ gcstate' = gcstate /\ pending' = pending /\ tmudata' = tmudata
      /\ full' = full /\ depth' = depth
  BY <1>2 DEF HeapCallFinalizer, CallFinalizer
<1>4. gcstate # "clear" /\ GcObj # {}
  BY <1>2, <1>3, NotInClear DEF LuaRuns, NeedsFinalizer
<1>5. depth = 0 /\ full \in {"no", "finish", "cycle"} /\ pending = {}
      /\ color \in [Obj -> {"white", "dead", "gray", "black"}] /\ st \in [Obj -> Status]
  BY <1>4 DEF HeapInv, HeapTypeOK, MarkInv, PhaseOK, TypeOK
<1>6. \A o \in Obj : o # t => st'[o] = st[o] /\ color'[o] = color[o]
  BY <1>3, <1>5
<1>7. st'[t] = "finalizing" /\ color'[t] = "white"
  BY <1>3, <1>5
<1>8. MutatorStep
  BY <1>1, <1>3, <1>4, <1>5, <1>6, <1>7 DEF MutatorStep, OnHeap, Relist
<1>9. QuietStep({t})
  BY <1>3, <1>4, <1>5, <1>6, <1>7, <1>8 DEF QuietStep, OnHeap
<1> QED
  BY <1>9, QuietMark

LEMMA HeapNewInv ==
  ASSUME HeapInv, Separate, LuaRuns, NEW o \in Obj, NEW t \in Fld, HeapNew(o, t)
  PROVE  HeapInv'
<1>1. CountInv' /\ Stale' = Stale /\ Garbage' = Garbage
  BY HeapNewCount
<1>2. PICK s \in [Obj -> Status] :
        /\ s = [st EXCEPT ![o] = "live"]
        /\ NotReleased(s) \/ Released(s, fld[<<Main, t>>], Stale)
  BY HeapNewCount
<1>3. /\ MutatorRuns /\ st[o] = "free" /\ fin' = fin \ {o}
      /\ fld' = [fld EXCEPT ![<<Main, t>>] = o]
      /\ color' = [color EXCEPT ![o] = "white"] /\ Relist({}, {})
      /\ gcstate' = gcstate /\ pending' = pending /\ tmudata' = tmudata
      /\ full' = full /\ depth' = depth
  BY DEF HeapNew, New, SetObj
<1>4. gcstate # "clear"
  BY <1>3, NotInClear
<1>5. depth = 0 /\ full \in {"no", "finish", "cycle"} /\ pending = {}
      /\ color \in [Obj -> {"white", "dead", "gray", "black"}] /\ st \in [Obj -> Status]
  BY <1>4 DEF HeapInv, HeapTypeOK, MarkInv, PhaseOK, TypeOK
<1>6. \A a \in Obj : \/ st'[a] = s[a]
                     \/ s[a] = "live" /\ st'[a] = "dying" /\ a \notin fin
  BY <1>2 DEF Released, NotReleased
<1>7. s[o] = "live" /\ \A a \in Obj : a # o => s[a] = st[a] /\ color'[a] = color[a]
  BY <1>2, <1>3, <1>5
<1>8. color'[o] = "white"
  BY <1>3, <1>5
<1>9. MutatorStep
  BY <1>1, <1>3, <1>4, <1>5, <1>6, <1>7 DEF MutatorStep, OnHeap, Relist
<1>10. \A y \in Obj \X Fld : fld'[y] = fld[y] \/ y[1] = Main
  BY <1>3 DEF HeapInv, CountInv, TypeOK
<1>11. QuietStep({o})
  BY <1>3, <1>4, <1>5, <1>6, <1>7, <1>8, <1>9, <1>10 DEF QuietStep, OnHeap
<1> QED
  BY <1>11, QuietMark

-----------------------------------------------------------------------------
(* Stores and the write barrier                                            *)

(* A store does not release the object it stores into.                     *)
LEMMA AccessibleKept ==
  ASSUME HeapInv, NEW p \in Accessible, NEW f \in Fld, NEW v, NEW old,
         fld' = [fld EXCEPT ![<<p, f>>] = v], Released(st, old, Stale)
  PROVE  p # old
<1>1. p \in Obj /\ Main \in Obj /\ Main \notin Stale
  BY AccessibleUsed, ObjAssumption DEF Accessible
<1>2. CASE p = Main
  BY <1>2 DEF Released
<1>3. CASE p \in Argument
  BY <1>3 DEF Released, Argument
<1>4. CASE p # Main /\ \E s \in Fld : fld[<<Main, s>>] = p
  <2>1. PICK s \in Fld : fld[<<Main, s>>] = p
    BY <1>4
  <2>2. <<Main, s>> \in Obj \X Fld /\ <<Main, s>> # <<p, f>>
    BY <1>1, <1>4
  <2>3. fld'[<<Main, s>>] = p
    BY <2>1, <2>2 DEF HeapInv, CountInv, TypeOK
  <2> QED
    BY <1>1, <2>2, <2>3 DEF Released
<1> QED
  BY <1>2, <1>3, <1>4 DEF Accessible

(* A store outside cleartable, with what is known of it but for the marks. *)
BarrieredStore(p, f, v) ==
  /\ CountInv' /\ Stale' = Stale /\ Garbage' = Garbage
  /\ fld' = [fld EXCEPT ![<<p, f>>] = v] /\ fin' = fin /\ WriteBarrier(p, v)
  /\ NotReleased(st) \/ Released(st, fld[<<p, f>>], Stale)
  /\ gcstate # "clear" /\ p \in Accessible
  /\ v # Nil => OnHeap(v) /\ v \in Obj

(* What the barrier leaves to mark: v and what userdata reaches from it.   *)
Barriered(p, v) ==
  IF v # Nil /\ color[p] = "black" /\ White(v) /\ p \notin Table /\ Marking
  THEN Marked({v}) ELSE {}

LEMMA BarrierFacts ==
  ASSUME HeapInv, NEW p \in Obj, NEW f \in Fld, NEW v, BarrieredStore(p, f, v)
  PROVE  /\ MutatorStep /\ OnHeap(p)'
         /\ \A o \in Obj : OnHeap(o)' => OnHeap(o)
         /\ \A y \in Obj \X Fld : fld'[y] = IF y = <<p, f>> THEN v ELSE fld[y]
         /\ gcstate = "propagate" =>
              \A o \in Barriered(p, v) : o \in Obj /\ OnHeap(o)' /\ White(o)
<1>1. /\ CountInv' /\ Stale' = Stale /\ Garbage' = Garbage /\ fin' = fin
      /\ gcstate # "clear" /\ p \in Accessible /\ Relist(Barriered(p, v) \ Udata,
            IF v # Nil /\ color[p] = "black" /\ White(v) /\ p \in Table THEN {p} ELSE {})
      /\ gcstate' = gcstate /\ pending' = pending /\ tmudata' = tmudata
      /\ full' = full /\ depth' = depth
  BY DEF BarrieredStore, WriteBarrier, Barriered
<1>2. \A y \in Obj \X Fld : fld'[y] = IF y = <<p, f>> THEN v ELSE fld[y]
  BY DEF BarrieredStore, HeapInv, CountInv, TypeOK
<1>3. PICK old : old = fld[<<p, f>>]
  OBVIOUS
<1>4. NotReleased(st) \/ Released(st, old, Stale)
  BY <1>3 DEF BarrieredStore
<1>5. /\ \A o \in Obj : \/ st'[o] = st[o]
                        \/ st[o] = "live" /\ st'[o] = "dying" /\ o \notin fin
  BY <1>4, ReleaseStatuses
<1>6. depth = 0 /\ full \in {"no", "finish", "cycle"} /\ pending = {}
  BY <1>1 DEF HeapInv, HeapTypeOK, MarkInv, PhaseOK
<1>7. MutatorStep
  BY <1>1, <1>5, <1>6 DEF MutatorStep, OnHeap, Relist
<1>8. OnHeap(p) /\ p \notin Stale
  BY <1>1, AccessibleUsed
<1>9. \A o \in Obj : st'[o] = st[o] \/ (o = old /\ Released(st, old, Stale))
  BY <1>4 DEF Released, NotReleased, HeapInv, CountInv, TypeOK
<1>10. OnHeap(p)'
  <2>1. Released(st, old, Stale) => p # old
    BY <1>1, AccessibleKept DEF BarrieredStore
  <2> QED
    BY <1>8, <1>9, <2>1 DEF OnHeap
<1>11. ASSUME gcstate = "propagate", NEW o \in Barriered(p, v)
       PROVE  o \in Obj /\ OnHeap(o)' /\ White(o)
  <2>1. /\ v # Nil /\ color[p] = "black" /\ White(v) /\ o \in Marked({v})
        /\ Barriered(p, v) = Marked({v}) /\ v \in Obj /\ OnHeap(v)
    BY <1>11 DEF Barriered, BarrieredStore
  <2>2. /\ \A a \in Marked({v}) : a \in Obj /\ OnHeap(a) /\ White(a)
        /\ \A a \in Marked({v}) : a \in {v}
                                  \/ \E q \in Marked({v}) \cap Udata : a \in Children(q)
    BY <1>1, <1>11, <2>1, MarkedFacts
  <2>3. \E y \in Obj \X Fld : y[1] \notin Stale /\ fld'[y] = o
    <3>1. CASE o = v
      <4>1. <<p, f>> \in Obj \X Fld /\ <<p, f>>[1] \notin Stale /\ fld'[<<p, f>>] = o
        BY <1>2, <1>8, <3>1
      <4> QED
        BY <4>1
    <3>2. CASE o # v
      <4>1. PICK q \in Marked({v}) \cap Udata : o \in Children(q)
        BY <2>1, <2>2, <3>2
      <4>2. PICK g \in Fld : fld[<<q, g>>] = o
        BY <4>1 DEF Children
      <4>3. q \in Obj /\ OnHeap(q) /\ White(q)
        BY <2>2, <4>1
      <4>4. q # p
        BY <2>1, <4>3 DEF White
      <4>5. q \notin Stale
        BY <1>11, <4>3, NothingToSweep DEF Stale, Lost, OnHeap
      <4>6. <<q, g>> \in Obj \X Fld /\ fld'[<<q, g>>] = o /\ <<q, g>>[1] = q
        BY <1>2, <4>2, <4>3, <4>4
      <4> QED
        BY <4>5, <4>6
    <3> QED
      BY <3>1, <3>2
  <2>4. ~(o = old /\ Released(st, old, Stale))
    BY <2>3 DEF Released
  <2> QED
    BY <1>9, <2>1, <2>2, <2>4 DEF OnHeap
<1> QED
  BY <1>2, <1>5, <1>7, <1>10, <1>11 DEF OnHeap

LEMMA BarrierMark ==
  ASSUME HeapInv, NEW p \in Obj, NEW f \in Fld, NEW v, BarrieredStore(p, f, v)
  PROVE  HeapInv'
<1>1. PICK M : M = Barriered(p, v)
  OBVIOUS
<1>2. PICK back \in BOOLEAN :
        back = (v # Nil /\ color[p] = "black" /\ White(v) /\ p \in Table)
  OBVIOUS
<1>3. /\ color' = [o \in Obj |->
           IF o \in M THEN MarkColor(o)
           ELSE IF o = p /\ back THEN "gray"
           ELSE IF o = p /\ v # Nil /\ color[p] = "black" /\ White(v) /\ p \notin Table
                   /\ ~Marking THEN "white"
           ELSE color[o]]
      /\ Relist(M \ Udata, IF back THEN {p} ELSE {})
      /\ gcstate' = gcstate /\ pending' = pending /\ tmudata' = tmudata
      /\ full' = full /\ depth' = depth
      /\ gcstate # "clear"
  BY <1>1, <1>2 DEF BarrieredStore, WriteBarrier, Barriered
<1>4. /\ MutatorStep /\ OnHeap(p)' /\ \A o \in Obj : OnHeap(o)' => OnHeap(o)
      /\ \A y \in Obj \X Fld : fld'[y] = IF y = <<p, f>> THEN v ELSE fld[y]
      /\ gcstate = "propagate" => \A o \in M : o \in Obj /\ OnHeap(o)' /\ White(o)
  BY <1>1, BarrierFacts
<1>5. /\ PhaseOK' /\ TypeOK' /\ st'[Main] = "live" /\ Main \in Obj
      /\ \A o \in unswept : OnHeap(o)' => o \in unswept'
      /\ gcstate # "sweep" => \A o \in Obj : OnHeap(o)' => o \notin Stale'
  BY <1>4, MutatorPhase, ObjAssumption
<1>6. CountInv' /\ (Marking' <=> Marking) /\ (Marking <=> gcstate = "propagate")
  BY <1>3, <1>4 DEF MutatorStep, Marking
<1>7. ~Marking => M = {}
  BY <1>1 DEF Barriered
<1>8. M \subseteq Obj
  BY <1>4, <1>6, <1>7
<1>9. HeapTypeOK'
  <2>1. color' \in [Obj -> {"white", "dead", "gray", "black"}]
    BY <1>3 DEF MarkColor, HeapInv, HeapTypeOK
  <2>2. /\ gray' \subseteq Obj /\ grayagain' \subseteq Obj /\ weak' \subseteq WeakTable
        /\ unswept' \subseteq Obj
    BY <1>3, <1>8 DEF Relist, HeapInv, HeapTypeOK
  <2> QED
    BY <1>3, <1>5, <2>1, <2>2 DEF HeapInv, HeapTypeOK
<1>10. back => color[p] = "black" /\ p \notin Udata /\ p # Main /\ White(v)
  BY <1>2, KindAssumption
<1>11. ColorOK'
  <2>1. \A u \in Udata : color'[u] # "gray"
    BY <1>3, <1>10, KindAssumption DEF MarkColor, HeapInv, MarkInv, ColorOK
  <2>2. ASSUME NEW o \in Obj, OnHeap(o)', o \notin unswept'
        PROVE  color'[o] # "dead" /\ (o \notin tmudata /\ ~Marking => color'[o] = "white")
    <3>1. OnHeap(o) /\ o \notin unswept
      BY <1>4, <1>5, <2>2
    <3>2. color[o] # "dead" /\ (o \notin tmudata /\ ~Marking => color[o] = "white")
      BY <3>1 DEF HeapInv, MarkInv, ColorOK
    <3>3. o \in tmudata => o \in Udata
      BY KindAssumption DEF HeapInv, HeapTypeOK
    <3> QED
      BY <1>3, <1>7, <1>10, <3>2, <3>3 DEF MarkColor
  <2>3. color'[Main] # "dead" /\ (Marking => color'[Main] = "gray")
    <3>1. color[Main] # "dead" /\ (Marking => color[Main] = "gray")
      BY DEF HeapInv, MarkInv, ColorOK
    <3>2. Main \notin M
      BY <1>4, <1>6, <1>7, <3>1 DEF White
    <3> QED
      BY <1>3, <1>5, <1>10, <3>1, <3>2
  <2>4. ASSUME Marking, NEW w \in WeakTable, OnHeap(w)' PROVE color'[w] # "black"
    <3>1. w \in Obj /\ w \notin Udata
      BY KindAssumption
    <3>2. color[w] # "black"
      BY <1>4, <2>4, <3>1 DEF HeapInv, MarkInv, ColorOK
    <3> QED
      BY <1>3, <3>1, <3>2 DEF MarkColor
  <2> QED
    BY <1>3, <1>6, <2>1, <2>2, <2>3, <2>4 DEF ColorOK
<1>12. MarkedClosed'
  BY <1>3 DEF MarkedClosed
<1>13. CASE gcstate # "propagate"
  BY <1>3, <1>5, <1>6, <1>9, <1>11, <1>12, <1>13
     DEF HeapInv, MarkInv, ListsApart, TriColor, GrayListed
<1>14. CASE gcstate = "propagate"
  <2>1. /\ \A o \in M : o \in Obj /\ OnHeap(o)' /\ White(o)
        /\ Marking /\ gcstate' = "propagate"
    BY <1>3, <1>4, <1>6, <1>14
  <2>2. \A o \in Obj : color'[o] = IF o \in M THEN MarkColor(o)
                                   ELSE IF o = p /\ back THEN "gray" ELSE color[o]
    BY <1>3, <2>1
  <2>3. gray \cup grayagain \cup weak = {o \in Obj : OnHeap(o) /\ color[o] = "gray"}
    BY <1>14 DEF HeapInv, MarkInv, GrayListed, OnHeap
  <2>4. /\ gray' = (gray \ Ungrayed) \cup (M \ Udata)
        /\ grayagain' = (grayagain \ Ungrayed) \cup (IF back THEN {p} ELSE {})
        /\ weak' = weak \ Ungrayed
    BY <1>3 DEF Relist
  <2>5. ListsApart'
    <3>1. gray \cap (grayagain \cup weak) = {}
      BY <1>14 DEF HeapInv, MarkInv, ListsApart
    <3>2. \A o \in M : o \notin gray \cup grayagain \cup weak /\ ~(back /\ o = p)
      BY <1>10, <2>1, <2>3 DEF White
    <3>3. back => p \notin gray
      BY <1>10, <2>3
    <3>4. gray' \cap (grayagain' \cup weak') = {}
      BY <2>4, <3>1, <3>2, <3>3
    <3> QED
      BY <3>4 DEF ListsApart
  <2>6. GrayListed'
    <3>1. ASSUME NEW o \in Obj, OnHeap(o), color[o] = "gray"
          PROVE  o \notin Ungrayed <=> OnHeap(o)'
      BY <1>4, <2>1, <3>1 DEF Ungrayed, Unlinked, OnHeap, MutatorStep
    <3>2. \A o \in Obj : OnHeap(o)' /\ color'[o] = "gray" =>
            \/ o \in M /\ o \notin Udata
            \/ back /\ o = p
            \/ OnHeap(o) /\ color[o] = "gray"
      BY <1>4, <2>2 DEF MarkColor
    <3>3. \A o \in M : o \notin Udata => OnHeap(o)' /\ color'[o] = "gray"
      BY <2>1, <2>2 DEF MarkColor
    <3>4. back => OnHeap(p)' /\ color'[p] = "gray"
      <4>1. back => p \notin M
        BY <1>10, <2>1 DEF White
      <4> QED
        BY <1>4, <2>2, <4>1
    <3>5. \A o \in Obj : OnHeap(o)' /\ color[o] = "gray" => color'[o] = "gray"
      BY <2>1, <2>2 DEF White
    <3>6. gray' \cup grayagain' \cup weak' = {o \in Obj : OnHeap(o)' /\ color'[o] = "gray"}
      BY <2>1, <2>3, <2>4, <3>1, <3>2, <3>3, <3>4, <3>5
    <3> QED
      BY <3>6 DEF GrayListed, OnHeap
  <2>7. TriColor'
    <3> SUFFICES ASSUME NEW q \in rootgc', color'[q] = "black", NEW c \in Children(q)'
                 PROVE  ~White(c)'
      BY DEF TriColor
    <3>1. PICK g \in Fld : c = fld'[<<q, g>>] /\ c # Nil
      BY DEF Children
    <3>2. q \in Obj /\ OnHeap(q)' /\ q \notin tmudata /\ OnHeap(q)
      BY <1>3, <1>4 DEF rootgc, OnHeap
    <3>3. c \in Obj
      BY <1>5, <3>1, <3>2 DEF TypeOK
    <3>4. ~White(c) => ~White(c)'
      BY <2>2, <3>3 DEF White, MarkColor
    <3>5. c \in M => ~White(c)'
      BY <2>2, <3>3 DEF White, MarkColor
    <3>6. CASE q \in M
      <4>1. /\ v # Nil /\ color[p] = "black" /\ White(v) /\ p \notin Table
            /\ M = Marked({v}) /\ v \in Obj /\ OnHeap(v)
        BY <1>1, <3>6 DEF Barriered, BarrieredStore
      <4>2. q # p /\ q \in Udata
        BY <2>1, <2>2, <3>2, <3>6, <4>1 DEF White, MarkColor
      <4>3. c \in Children(q)
        BY <1>4, <3>1, <3>2, <4>2 DEF Children
      <4>4. White(c) => c \in M
        BY <1>14, <3>6, <4>1, <4>2, <4>3, MarkedFacts
      <4> QED
        BY <3>4, <3>5, <4>4
    <3>7. CASE q \notin M
      <4>1. color[q] = "black" /\ ~(q = p /\ back)
        BY <2>2, <3>2, <3>7
      <4>2. CASE <<q, g>> = <<p, f>>
        <5>1. c = v /\ q = p
          BY <1>4, <3>1, <3>2, <4>2
        <5>2. White(v) => v \in M
          <6>1. ASSUME White(v) PROVE v \in M
            <7>1. M = Marked({v}) /\ v \in Obj /\ OnHeap(v)
              BY <1>1, <1>2, <2>1, <3>1, <4>1, <5>1, <6>1 DEF Barriered, BarrieredStore
            <7> QED
              BY <1>14, <6>1, <7>1, MarkedFacts
          <6> QED
            BY <6>1
        <5> QED
          BY <3>4, <3>5, <5>1, <5>2
      <4>3. CASE <<q, g>> # <<p, f>>
        <5>1. fld[<<q, g>>] = c
          BY <1>4, <3>1, <3>2, <4>3
        <5>2. ~White(c)
          BY <1>14, <3>1, <3>2, <4>1, <5>1
             DEF HeapInv, MarkInv, TriColor, rootgc, OnHeap, Children
        <5> QED
          BY <3>4, <5>2
      <4> QED
        BY <4>2, <4>3
    <3> QED
      BY <3>6, <3>7
  <2> QED
    BY <1>5, <1>6, <1>9, <1>11, <1>12, <2>5, <2>6, <2>7 DEF HeapInv, MarkInv
<1> QED
  BY <1>13, <1>14

LEMMA HeapAssignInv ==
  ASSUME HeapInv, ~BarrierLost, Separate, LuaRuns,
         NEW p \in Obj, NEW q \in Obj, NEW f \in Fld, NEW g \in Fld, HeapAssign(p, f, q, g)
  PROVE  HeapInv'
<1>1. PICK v : v = fld[<<q, g>>]
  OBVIOUS
<1>2. /\ p \in Accessible /\ q \in Accessible /\ MutatorRuns /\ fin' = fin
      /\ fld' = [fld EXCEPT ![<<p, f>>] = v] /\ WriteBarrier(p, v)
  BY <1>1, BarrierKept DEF HeapAssign, Assign, SetObj
<1>3. v # Nil => OnHeap(v) /\ v \in Obj
  BY <1>1, <1>2, AccessibleUsed
<1>4. BarrieredStore(p, f, v)
  BY <1>2, <1>3, HeapAssignCount, NotInClear DEF BarrieredStore
<1> QED
  BY <1>4, BarrierMark

LEMMA HeapAssignArgumentInv ==
  ASSUME HeapInv, ~BarrierLost, Separate, LuaRuns,
         NEW p \in Obj, NEW f \in Fld, HeapAssignArgument(p, f)
  PROVE  HeapInv'
<1>1. PICK u \in Argument : SetObj(st, ref, p, f, u)
  BY DEF HeapAssignArgument, AssignArgument
<1>2. u \in Obj /\ u = Top /\ st[u] = "finalizing"
  BY <1>1 DEF Argument
<1>3. /\ p \in Accessible /\ MutatorRuns /\ fin' = fin
      /\ fld' = [fld EXCEPT ![<<p, f>>] = u] /\ WriteBarrier(p, u)
  BY <1>1, <1>2, BarrierKept DEF HeapAssignArgument, AssignArgument, SetObj, MutatorRuns
<1>4. BarrieredStore(p, f, u)
  BY <1>2, <1>3, HeapAssignArgumentCount, NotInClear DEF BarrieredStore, OnHeap
<1> QED
  BY <1>4, BarrierMark

-----------------------------------------------------------------------------
(* Steps of the collector                                                  *)

(* A cycle begins with everything on rootgc white, so that what markroot   *)
(* marks is all there is on the gray list.                                 *)
LEMMA MarkRootInv ==
  ASSUME HeapInv, ~NestedGC, MarkRoot
  PROVE  HeapInv'
<1>1. CountInv'
  BY MarkRootCount
<1>2. PICK S : S = {Main} \cup ({fld[<<Main, f>>] : f \in GlobalFld} \ {Nil})
  OBVIOUS
<1>3. PICK M : M = Marked(S)
  OBVIOUS
<1>4. /\ color' = [o \in Obj |-> IF o \in M THEN MarkColor(o) ELSE color[o]]
      /\ gray' = M \ Udata /\ grayagain' = {} /\ weak' = {} /\ gcstate' = "propagate"
      /\ gcstate \in {"pause", "finalize"} /\ full' \in {full, "cycle"}
      /\ st' = st /\ fld' = fld /\ fin' = fin /\ frames' = frames
      /\ pending' = pending /\ unswept' = unswept /\ tmudata' = tmudata /\ depth' = depth
  BY <1>2, <1>3 DEF MarkRoot, rcvars
<1>5. \A o \in S : o \in Obj /\ OnHeap(o)
  BY <1>2, AccessibleUsed, KindAssumption, ObjAssumption DEF Accessible
<1>6. /\ \A o \in M : o \in Obj /\ OnHeap(o) /\ White(o)
      /\ \A o \in S : White(o) => o \in M
      /\ \A p \in M \cap Udata : \A c \in Children(p) : White(c) => c \in M
  BY <1>3, <1>4, <1>5, MarkedFacts
<1>7. unswept = {} /\ pending = {} /\ depth = 0 /\ tmudata \subseteq Udata
  BY <1>4, KindAssumption DEF HeapInv, MarkInv, PhaseOK, HeapTypeOK
<1>8. \A o \in Obj : OnHeap(o) => /\ o \notin tmudata => color[o] = "white"
                                  /\ color[o] \notin {"gray", "dead"}
  BY <1>4, <1>7 DEF HeapInv, MarkInv, ColorOK, Marking
<1>9. Main \in Obj /\ Main \in M /\ Main \notin Udata /\ OnHeap(Main)
  <2>1. Main \in Obj /\ Main \notin Udata /\ OnHeap(Main)
    BY ObjAssumption, KindAssumption DEF HeapInv, CountInv, StatusOK, OnHeap
  <2>2. White(Main)
    BY <1>7, <1>8, <2>1 DEF White
  <2> QED
    BY <1>2, <1>6, <2>1, <2>2
<1>10. \A o \in Obj : color'[o] = IF o \in M THEN MarkColor(o) ELSE color[o]
  BY <1>4
<1>11. HeapTypeOK'
  <2>1. color' \in [Obj -> {"white", "dead", "gray", "black"}]
    BY <1>4 DEF MarkColor, HeapInv, HeapTypeOK
  <2>2. gray' \subseteq Obj
    BY <1>4, <1>6
  <2> QED
    BY <1>1, <1>4, <2>1, <2>2 DEF HeapInv, HeapTypeOK, CountInv
<1>12. PhaseOK'
  BY <1>4, <1>7 DEF HeapInv, MarkInv, PhaseOK, OnHeap, InFrames
<1>13. ColorOK'
  <2>1. \A u \in Udata : color'[u] # "gray"
    BY <1>10, KindAssumption DEF MarkColor, HeapInv, MarkInv, ColorOK
  <2>2. \A o \in Obj : OnHeap(o)' => color'[o] # "dead"
    BY <1>4, <1>8, <1>10 DEF MarkColor, OnHeap
  <2>3. color'[Main] = "gray"
    BY <1>9, <1>10 DEF MarkColor
  <2>4. ASSUME NEW w \in WeakTable, OnHeap(w)' PROVE color'[w] # "black"
    <3>1. w \in Obj /\ w \notin Udata /\ w \notin tmudata /\ OnHeap(w)
      BY <1>4, <1>7, <2>4, KindAssumption DEF OnHeap
    <3> QED
      BY <1>8, <1>10, <3>1 DEF MarkColor
  <2> QED
    BY <1>4, <2>1, <2>2, <2>3, <2>4 DEF ColorOK, Marking
<1>14. GrayListed'
  <2>1. \A o \in Obj : OnHeap(o) /\ color'[o] = "gray" <=> o \in M /\ o \notin Udata
    BY <1>6, <1>8, <1>10 DEF MarkColor
  <2>2. gray' \cup grayagain' \cup weak' = {o \in Obj : OnHeap(o) /\ color'[o] = "gray"}
    BY <1>4, <1>6, <2>1
  <2> QED
    BY <1>4, <2>2 DEF GrayListed, OnHeap
<1>15. TriColor'
  <2> SUFFICES ASSUME NEW p \in rootgc', color'[p] = "black", NEW c \in Children(p)'
               PROVE  ~White(c)'
    BY DEF TriColor
  <2>1. p \in Obj /\ OnHeap(p) /\ p \notin tmudata /\ c \in Children(p)
    BY <1>4 DEF rootgc, OnHeap, Children
  <2>2. c \in Obj
    BY <2>1, TraversedObj DEF HeapInv, CountInv
  <2>3. p \in M /\ p \in Udata
    BY <1>8, <1>10, <2>1 DEF MarkColor
  <2>4. White(c) => c \in M
    BY <1>6, <2>1, <2>3
  <2> QED
    BY <1>10, <2>2, <2>4 DEF White, MarkColor
<1>16. ListsApart' /\ MarkedClosed'
  BY <1>4 DEF ListsApart, MarkedClosed
<1> QED
  BY <1>1, <1>11, <1>12, <1>13, <1>14, <1>15, <1>16 DEF HeapInv, MarkInv

LEMMA PropagateInv ==
  ASSUME HeapInv, ~NestedGC, NEW o \in Obj, Propagate(o)
  PROVE  HeapInv'
<1>1. CountInv'
  BY PropagateCount
<1>2. PICK M : M = Marked(Traversed(o))
  OBVIOUS
<1>3. PICK kept \in BOOLEAN : kept = (o = Main \/ o \in WeakTable)
  OBVIOUS
<1>4. /\ color' = [a \in Obj |-> IF a = o THEN (IF kept THEN "gray" ELSE "black")
                                 ELSE IF a \in M THEN MarkColor(a) ELSE color[a]]
      /\ gray' = (gray \ {o}) \cup (M \ Udata) /\ gcstate = "propagate" /\ o \in gray
      /\ grayagain' = IF o = Main THEN grayagain \cup {o} ELSE grayagain
      /\ weak' = IF o \in WeakTable THEN weak \cup {o} ELSE weak
      /\ gcstate' = gcstate /\ st' = st /\ fld' = fld /\ fin' = fin /\ frames' = frames
      /\ pending' = pending /\ unswept' = unswept /\ tmudata' = tmudata
      /\ depth' = depth /\ full' = full
  BY <1>2, <1>3 DEF Propagate, LinksWeak, rcvars
<1>5. gray \cup grayagain \cup weak = {a \in Obj : OnHeap(a) /\ color[a] = "gray"}
  BY <1>4 DEF HeapInv, MarkInv, GrayListed, OnHeap
<1>6. OnHeap(o) /\ color[o] = "gray" /\ o \notin Udata /\ o \notin grayagain \cup weak
  <2>1. OnHeap(o) /\ color[o] = "gray"
    BY <1>4, <1>5
  <2>2. o \notin grayagain \cup weak
    BY <1>4 DEF HeapInv, MarkInv, ListsApart
  <2> QED
    BY <2>1, <2>2 DEF HeapInv, MarkInv, ColorOK
<1>7. \A a \in Traversed(o) : a \in Obj /\ OnHeap(a)
  <2> SUFFICES ASSUME NEW a \in Traversed(o) PROVE OnHeap(a)
    BY TraversedObj DEF HeapInv, CountInv
  <2>1. o \notin Stale
    BY <1>4, <1>6, NothingToSweep DEF Stale, Lost, OnHeap
  <2>2. CASE a \in Children(o)
    BY <2>1, <2>2 DEF Children, HeapInv, CountInv, HeldUsed
  <2>3. CASE a \notin Children(o)
    BY <2>3 DEF Traversed, OnHeap
  <2> QED
    BY <2>2, <2>3
<1>8. /\ \A a \in M : a \in Obj /\ OnHeap(a) /\ White(a)
      /\ \A a \in Traversed(o) : White(a) => a \in M
      /\ \A p \in M \cap Udata : \A c \in Children(p) : White(c) => c \in M
  BY <1>2, <1>4, <1>7, MarkedFacts
<1>9. o \notin M /\ Main \notin M /\ color[Main] = "gray" /\ Main \in Obj
  BY <1>4, <1>6, <1>8, ObjAssumption DEF White, HeapInv, MarkInv, ColorOK, Marking
<1>10. \A a \in Obj : color'[a] = IF a = o THEN (IF kept THEN "gray" ELSE "black")
                                  ELSE IF a \in M THEN MarkColor(a) ELSE color[a]
  BY <1>4
<1>11. HeapTypeOK'
  <2>1. color' \in [Obj -> {"white", "dead", "gray", "black"}]
    BY <1>4 DEF MarkColor, HeapInv, HeapTypeOK
  <2>2. gray' \subseteq Obj /\ grayagain' \subseteq Obj /\ weak' \subseteq WeakTable
    BY <1>4, <1>8 DEF HeapInv, HeapTypeOK
  <2> QED
    BY <1>1, <1>4, <2>1, <2>2 DEF HeapInv, HeapTypeOK, CountInv
<1>12. PhaseOK'
  BY <1>4 DEF HeapInv, MarkInv, PhaseOK, OnHeap, InFrames
<1>13. ColorOK'
  <2>1. \A u \in Udata : color'[u] # "gray"
    BY <1>6, <1>10, KindAssumption DEF MarkColor, HeapInv, MarkInv, ColorOK
  <2>2. \A a \in Obj : OnHeap(a)' => color'[a] # "dead"
    BY <1>4, <1>10, NothingToSweep DEF MarkColor, OnHeap
  <2>3. color'[Main] = "gray"
    BY <1>3, <1>9, <1>10
  <2>4. ASSUME NEW w \in WeakTable, OnHeap(w)' PROVE color'[w] # "black"
    <3>1. w \in Obj /\ w \notin Udata /\ OnHeap(w)
      BY <1>4, <2>4, KindAssumption DEF OnHeap
    <3>2. color[w] # "black"
      BY <1>4, <3>1 DEF HeapInv, MarkInv, ColorOK, Marking
    <3> QED
      BY <1>3, <1>10, <3>1, <3>2 DEF MarkColor
  <2> QED
    BY <1>4, <2>1, <2>2, <2>3, <2>4 DEF ColorOK, Marking
<1>14. GrayListed'
  <2>1. \A a \in Obj : OnHeap(a) /\ color'[a] = "gray" <=>
          \/ a = o /\ kept
          \/ a \in M /\ a \notin Udata
          \/ a # o /\ OnHeap(a) /\ color[a] = "gray"
    BY <1>6, <1>8, <1>9, <1>10 DEF MarkColor, White
  <2>2. gray' \cup grayagain' \cup weak' = {a \in Obj : OnHeap(a) /\ color'[a] = "gray"}
    BY <1>3, <1>4, <1>5, <1>6, <1>8, <2>1
  <2> QED
    BY <1>4, <2>2 DEF GrayListed, OnHeap
<1>15. ListsApart'
  <2>1. gray \cap (grayagain \cup weak) = {}
    BY <1>4 DEF HeapInv, MarkInv, ListsApart
  <2>2. \A a \in M : a \notin grayagain \cup weak /\ a # o
    BY <1>5, <1>8, <1>9 DEF White
  <2>3. gray' \cap (grayagain' \cup weak') = {}
    BY <1>4, <2>1, <2>2
  <2> QED
    BY <2>3 DEF ListsApart
<1>16. TriColor'
  <2> SUFFICES ASSUME NEW p \in rootgc', color'[p] = "black", NEW c \in Children(p)'
               PROVE  ~White(c)'
    BY DEF TriColor
  <2>1. p \in Obj /\ p \in rootgc /\ c \in Children(p)
    BY <1>4 DEF rootgc, Children
  <2>2. c \in Obj
    BY <2>1, TraversedObj DEF HeapInv, CountInv
  <2>3. White(c) => c \in M
    <3>1. CASE p = o
      <4>1. c \in Traversed(o)
        BY <1>3, <1>10, <2>1, <3>1 DEF Traversed
      <4> QED
        BY <1>8, <4>1
    <3>2. CASE p \in M /\ p # o
      BY <1>8, <1>10, <2>1, <3>2 DEF MarkColor
    <3>3. CASE p \notin M /\ p # o
      <4>1. color[p] = "black"
        BY <1>10, <2>1, <3>3
      <4> QED
        BY <1>4, <2>1, <4>1 DEF HeapInv, MarkInv, TriColor
    <3> QED
      BY <3>1, <3>2, <3>3
  <2> QED
    BY <1>10, <2>2, <2>3 DEF White, MarkColor
<1>17. MarkedClosed'
  BY <1>4 DEF MarkedClosed
<1> QED
  BY <1>1, <1>11, <1>12, <1>13, <1>14, <1>15, <1>16, <1>17 DEF HeapInv, MarkInv

(* atomic marks from everything that is still gray and from tmudata: what  *)
(* stays white is then referred to only from weak tables.                  *)
LEMMA AtomicInv ==
  ASSUME HeapInv, ~NestedGC, Atomic
  PROVE  HeapInv'
<1>1. CountInv' /\ frames = <<>> /\ Len(frames) = 0
  BY AtomicCount, CollectorIdle DEF Atomic
<1>2. PICK first : first = WhiteClosure(Remarked, Obj)
  OBVIOUS
<1>3. PICK dead : dead = Separated(first)
  OBVIOUS
<1>4. PICK waiting : waiting = tmudata \cup (dead \cap GcObj)
  OBVIOUS
<1>5. PICK second : second = WhiteClosure(waiting, Obj)
  OBVIOUS
<1>6. PICK all : all = first \cup second
  OBVIOUS
<1>7. /\ gcstate = "propagate" /\ gray = {} /\ fin' = fin \cup dead /\ tmudata' = waiting
      /\ color' = [o \in Obj |-> IF o \notin all THEN color[o]
              ELSE IF o = Main \/ o \in WeakTable THEN "gray" ELSE "black"]
      /\ weak' = all \cap WeakTable /\ pending' = weak' \X Fld /\ grayagain' = {Main}
      /\ gcstate' = "clear" /\ depth' = 0 /\ gray' = gray /\ unswept' = unswept
      /\ st' = st /\ fld' = fld /\ frames' = frames /\ full' = full
  BY <1>1, <1>2, <1>3, <1>4, <1>5, <1>6 DEF Atomic
<1>8. grayagain \cup weak = {a \in Obj : OnHeap(a) /\ color[a] = "gray"}
  BY <1>7 DEF HeapInv, MarkInv, GrayListed, OnHeap
<1>9. Main \in Obj /\ OnHeap(Main) /\ Main \notin Udata
  BY ObjAssumption, KindAssumption DEF HeapInv, CountInv, StatusOK, OnHeap
<1>10. \A o \in Remarked : o \in Obj /\ OnHeap(o)
  BY <1>8, <1>9 DEF Remarked
<1>11. dead \subseteq Udata /\ dead \subseteq rootgc /\ dead \cap fin = {}
  BY <1>3 DEF Separated
<1>12. \A u \in waiting : u \in Udata /\ u \in Obj /\ u \in fin' /\ st[u] = "live"
  <2>1. \A u \in tmudata : u \in Udata /\ u \in fin /\ st[u] = "live"
    BY KindAssumption DEF HeapInv, HeapTypeOK, MarkInv, PhaseOK
  <2>2. \A u \in Obj : st[u] # "finalizing"
    BY <1>1 DEF HeapInv, CountInv, StatusOK, InFrames
  <2>3. \A u \in dead : u \in Udata /\ u \in fin' /\ st[u] = "live"
    BY <1>7, <1>11, <2>2 DEF rootgc
  <2> QED
    BY <1>4, <1>7, <2>1, <2>3, KindAssumption
<1>13. Remarked \subseteq Obj /\ waiting \subseteq Obj /\ TypeOK
  BY <1>10, <1>12 DEF HeapInv, CountInv
<1>14. /\ first \subseteq Obj /\ Remarked \subseteq first /\ Closed(first, Obj)
       /\ second \subseteq Obj /\ waiting \subseteq second /\ Closed(second, Obj)
  BY <1>2, <1>5, <1>13, ClosureClosed
<1>15. \A o \in all : o \in Obj /\ OnHeap(o)
  <2>1. \A o \in waiting : o \in Obj /\ OnHeap(o)
    BY <1>12 DEF OnHeap
  <2> QED
    BY <1>2, <1>5, <1>6, <1>7, <1>10, <2>1, ClosureOnHeap
<1>16. Main \in all /\ waiting \subseteq all /\ grayagain \cup weak \subseteq all
  BY <1>6, <1>14 DEF Remarked
<1>17. \A o \in Obj : color'[o] = IF o \notin all THEN color[o]
                      ELSE IF o = Main \/ o \in WeakTable THEN "gray" ELSE "black"
  BY <1>7
<1>18. HeapTypeOK'
  <2>1. color' \in [Obj -> {"white", "dead", "gray", "black"}]
    BY <1>7 DEF HeapInv, HeapTypeOK
  <2>2. tmudata' \subseteq GcObj /\ weak' \subseteq WeakTable /\ pending' \subseteq WeakTable \X Fld
    BY <1>4, <1>7 DEF HeapInv, HeapTypeOK
  <2> QED
    BY <1>1, <1>7, <1>9, <2>1, <2>2 DEF HeapInv, HeapTypeOK, CountInv
<1>19. PhaseOK'
  <2>1. unswept' = {}
    BY <1>7, NothingToSweep
  <2>2. GcObj = {} => \A o \in Obj : st[o] # "finalizing" /\ (st[o] = "dying" => InFrames(o))
    BY DEF HeapInv, MarkInv, PhaseOK
  <2> QED
    BY <1>1, <1>7, <1>12, <2>1, <2>2 DEF PhaseOK, InFrames
<1>20. ColorOK'
  <2>1. \A u \in Udata : color'[u] # "gray"
    BY <1>9, <1>17, KindAssumption DEF HeapInv, MarkInv, ColorOK
  <2>2. \A o \in Obj : OnHeap(o)' => color'[o] # "dead"
    BY <1>7, <1>17, NothingToSweep DEF OnHeap
  <2>3. color'[Main] = "gray"
    BY <1>9, <1>16, <1>17
  <2>4. ASSUME NEW w \in WeakTable, OnHeap(w)' PROVE color'[w] # "black"
    <3>1. w \in Obj /\ OnHeap(w)
      BY <1>7, <2>4, KindAssumption DEF OnHeap
    <3>2. color[w] # "black"
      BY <1>7, <3>1 DEF HeapInv, MarkInv, ColorOK, Marking
    <3> QED
      BY <1>17, <3>1, <3>2
  <2>5. \A u \in tmudata' : ~White(u)'
    BY <1>7, <1>12, <1>16, <1>17 DEF White
  <2> QED
    BY <1>7, <2>1, <2>2, <2>3, <2>4, <2>5 DEF ColorOK, Marking
<1>21. MarkedClosed'
  <2> SUFFICES ASSUME NEW p \in Obj, NEW f \in Fld, OnHeap(p)', ~White(p)',
                      fld'[<<p, f>>] # Nil, White(fld[<<p, f>>])'
               PROVE  <<p, f>> \in pending'
    BY DEF MarkedClosed
  <2>1. PICK c \in Obj : c = fld[<<p, f>>] /\ c # Nil
    BY <1>7, <1>13 DEF TypeOK
  <2>2. OnHeap(p) /\ c \in Children(p)
    BY <1>7, <2>1 DEF OnHeap, Children
  <2>3. c \notin all /\ White(c)
    <3>1. color'[c] \in {"white", "dead"}
      BY <1>7, <2>1 DEF White
    <3> QED
      BY <1>17, <3>1 DEF White
  <2>4. CASE p \in all
    <3>1. CASE p \in WeakTable
      BY <1>7, <2>4, <3>1
    <3>2. CASE p \notin WeakTable
      <4>1. c \in Traversed(p)
        BY <2>2, <3>2 DEF Traversed
      <4>2. c \in all
        BY <1>6, <1>14, <2>3, <2>4, <4>1 DEF Closed
      <4> QED
        BY <2>3, <4>2
    <3> QED
      BY <3>1, <3>2
  <2>5. CASE p \notin all
    <3>1. color[p] \notin {"white", "dead", "gray"}
      BY <1>8, <1>16, <1>17, <2>2, <2>5 DEF White
    <3>2. color[p] = "black"
      BY <3>1 DEF HeapInv, HeapTypeOK
    <3>3. p \in rootgc
      BY <1>4, <1>16, <2>2, <2>5 DEF rootgc, OnHeap
    <3> QED
      BY <1>7, <2>2, <2>3, <3>2, <3>3 DEF HeapInv, MarkInv, TriColor
  <2> QED
    BY <2>4, <2>5
<1>22. ListsApart' /\ TriColor' /\ GrayListed'
  BY <1>7 DEF ListsApart, TriColor, GrayListed
<1> QED
  BY <1>1, <1>18, <1>19, <1>20, <1>21, <1>22 DEF HeapInv, MarkInv

(* cleartable: clearing a slot of a weak table may begin a release.        *)
LEMMA ClearSlotInv ==
  ASSUME HeapInv, Separate, NEW x \in pending, ClearSlot(x)
  PROVE  HeapInv'
<1>1. /\ CountInv' /\ Stale' = Stale /\ Garbage' = Garbage
      /\ x \in WeakTable \X Fld /\ GcObj = {} /\ frames = <<>> /\ gcstate = "clear"
      /\ NotReleased(st) \/ Released(st, fld[x], Stale)
  BY ClearSlotCount
<1>2. /\ gcstate' = gcstate /\ tmudata' = tmudata /\ pending' = pending \ {x}
      /\ full' = full /\ depth' = depth /\ fin' = fin /\ color' = color
  BY DEF ClearSlot
<1>3. full \in {"no", "finish", "cycle"} /\ depth = 0 /\ unswept = {}
      /\ color \in [Obj -> {"white", "dead", "gray", "black"}] /\ st \in [Obj -> Status]
  BY <1>1 DEF HeapInv, HeapTypeOK, MarkInv, PhaseOK, TypeOK
<1>4. \A o \in Obj : st'[o] = st[o] \/ (st[o] = "live" /\ st'[o] = "dying" /\ o \notin fin)
  BY <1>1, ReleaseStatuses
<1>5. /\ Relist({}, {})
      /\ \A y \in Obj \X Fld : fld'[y] = fld[y] \/ fld'[y] = Nil
      /\ fld'[x] = Nil \/ ~White(fld[x])
  <2>1. x \in Obj \X Fld
    BY <1>1, KindAssumption
  <2>2. fld \in [Obj \X Fld -> Value] /\ x = <<x[1], x[2]>>
    BY <2>1 DEF HeapInv, CountInv, TypeOK, Value
  <2>3. CASE iscleared(fld[x])
    <3>1. Relist({}, {}) /\ fld' = [fld EXCEPT ![x] = Nil]
      BY <2>2, <2>3 DEF ClearSlot, SetObj
    <3> QED
      BY <2>1, <2>2, <3>1
  <2>4. CASE ~iscleared(fld[x])
    <3>1. UNCHANGED <<st, fld, gray, grayagain, weak, unswept>>
      BY <2>4 DEF ClearSlot
    <3>2. Ungrayed = {} /\ Unlinked = {}
      BY <3>1 DEF Ungrayed, Unlinked
    <3>3. fld[x] = Nil \/ ~White(fld[x])
      BY <2>4 DEF iscleared
    <3> QED
      BY <3>1, <3>2, <3>3 DEF Relist
  <2> QED
    BY <2>3, <2>4
<1>6. MutatorStep
  BY <1>1, <1>2, <1>3, <1>4, <1>5 DEF MutatorStep, OnHeap, Relist
<1>7. QuietStep({})
  BY <1>2, <1>3, <1>4, <1>5, <1>6 DEF QuietStep, OnHeap
<1> QED
  BY <1>7, QuietMark

(* The end of atomic, and of a mark phase that luaC_fullgc abandons: all   *)
(* of rootgc is to be swept.                                               *)
LEMMA FlipWhiteInv ==
  ASSUME HeapInv, FlipWhite
  PROVE  HeapInv'
<1>1. CountInv'
  BY FlipWhiteCount
<1>2. /\ color' = [o \in Obj |-> IF st[o] = "free" THEN "white" ELSE Flipped(color[o])]
      /\ unswept' = rootgc /\ gcstate' = "sweep" /\ gcstate = "clear" /\ pending = {}
      /\ st' = st /\ fld' = fld /\ frames' = frames /\ fin' = fin /\ gray' = gray
      /\ grayagain' = grayagain /\ weak' = weak /\ pending' = pending
      /\ tmudata' = tmudata /\ full' = full /\ depth' \in {0, depth}
  BY DEF FlipWhite, rcvars
<1>3. HeapTypeOK'
  <2>1. color' \in [Obj -> {"white", "dead", "gray", "black"}]
    BY <1>2 DEF Flipped, HeapInv, HeapTypeOK
  <2>2. depth' \in Nat /\ unswept' \subseteq Obj
    BY <1>2 DEF rootgc, HeapInv, HeapTypeOK
  <2> QED
    BY <1>1, <1>2, <2>1, <2>2 DEF HeapInv, HeapTypeOK, CountInv
<1>4. PhaseOK'
  BY <1>2 DEF HeapInv, MarkInv, PhaseOK, OnHeap, InFrames, rootgc
<1>5. ColorOK'
  <2>1. \A u \in Udata : color'[u] # "gray"
    BY <1>2, KindAssumption DEF Flipped, HeapInv, MarkInv, ColorOK
  <2>2. ASSUME NEW o \in Obj, OnHeap(o)', o \notin unswept'
        PROVE  o \in tmudata /\ color'[o] # "dead"
    <3>1. o \in tmudata /\ st[o] # "free"
      BY <1>2, <2>2 DEF OnHeap, rootgc
    <3>2. ~White(o)
      BY <1>2, <3>1 DEF HeapInv, MarkInv, ColorOK
    <3> QED
      BY <1>2, <3>1, <3>2 DEF White, Flipped
  <2>3. color'[Main] # "dead"
    BY <1>2, ObjAssumption DEF HeapInv, MarkInv, ColorOK, Marking, Flipped
  <2> QED
    BY <1>2, <2>1, <2>2, <2>3 DEF ColorOK, Marking
<1>6. ListsApart' /\ MarkedClosed' /\ TriColor' /\ GrayListed'
  BY <1>2 DEF ListsApart, MarkedClosed, TriColor, GrayListed
<1> QED
  BY <1>1, <1>3, <1>4, <1>5, <1>6 DEF HeapInv, MarkInv

LEMMA FullGCInv ==
  ASSUME HeapInv, ~NestedGC, FullGC
  PROVE  HeapInv'
<1>1. CountInv' /\ Len(frames) = 0
  BY FullGCCount, CollectorIdle DEF FullGC
<1>2. /\ st' = st /\ fld' = fld /\ frames' = frames /\ fin' = fin /\ color' = color
      /\ pending' = pending /\ tmudata' = tmudata /\ full' = "finish" /\ depth' = 0
      /\ gcstate # "clear"
  BY <1>1 DEF FullGC, rcvars
<1>3. CASE gcstate \in {"pause", "propagate"}
  <2>1. gray' = {} /\ grayagain' = {} /\ weak' = {} /\ unswept' = rootgc /\ gcstate' = "sweep"
    BY <1>3 DEF FullGC
  <2>2. HeapTypeOK'
    BY <1>1, <1>2, <2>1 DEF HeapInv, HeapTypeOK, CountInv, rootgc
  <2>3. PhaseOK'
    BY <1>2, <2>1 DEF HeapInv, MarkInv, PhaseOK, OnHeap, InFrames, rootgc
  <2>4. ColorOK'
    <3>1. \A o \in Obj : OnHeap(o) => color[o] # "dead"
      BY <1>3, NothingToSweep
    <3>2. \A o \in Obj : OnHeap(o)' /\ o \notin unswept' => o \in tmudata
      BY <1>2, <2>1 DEF OnHeap, rootgc
    <3> QED
      BY <1>2, <2>1, <3>1, <3>2 DEF HeapInv, MarkInv, ColorOK, Marking, OnHeap
  <2>5. ListsApart' /\ MarkedClosed' /\ TriColor' /\ GrayListed'
    BY <2>1 DEF ListsApart, MarkedClosed, TriColor, GrayListed
  <2> QED
    BY <1>1, <2>2, <2>3, <2>4, <2>5 DEF HeapInv, MarkInv
<1>4. CASE gcstate \notin {"pause", "propagate"}
  <2>1. UNCHANGED <<gray, grayagain, weak, unswept, gcstate>>
    BY <1>4 DEF FullGC
  <2>2. HeapTypeOK'
    BY <1>1, <1>2, <2>1 DEF HeapInv, HeapTypeOK, CountInv
  <2>3. PhaseOK'
    BY <1>2, <2>1 DEF HeapInv, MarkInv, PhaseOK, OnHeap, InFrames
  <2>4. ColorOK'
    BY <1>2, <1>4, <2>1 DEF HeapInv, MarkInv, ColorOK, Marking, OnHeap
  <2>5. ListsApart' /\ MarkedClosed' /\ TriColor' /\ GrayListed'
    BY <1>2, <1>4, <2>1 DEF ListsApart, MarkedClosed, TriColor, GrayListed
  <2> QED
    BY <1>1, <2>2, <2>3, <2>4, <2>5 DEF HeapInv, MarkInv
<1> QED
  BY <1>3, <1>4

LEMMA SweepInv ==
  ASSUME HeapInv, ~NestedGC, NEW o \in Obj, Sweep(o)
  PROVE  HeapInv'
<1>1. /\ CountInv' /\ frames' = frames /\ color' = [color EXCEPT ![o] = "white"]
      /\ \A a \in Obj : a # o => st'[a] = st[a]
      /\ st'[o] = IF color[o] = "dead" THEN "free" ELSE st[o]
  BY SweepCount
<1>2. /\ gcstate = "sweep" /\ gcstate' = gcstate /\ o \in unswept /\ unswept' = unswept \ {o}
      /\ gray' = gray /\ grayagain' = grayagain /\ weak' = weak /\ pending' = pending
      /\ tmudata' = tmudata /\ full' = full /\ depth' = depth /\ fin \ {o} \subseteq fin'
  BY DEF Sweep
<1>3. /\ color \in [Obj -> {"white", "dead", "gray", "black"}] /\ unswept \subseteq Obj
      /\ tmudata \subseteq Obj /\ OnHeap(o) /\ o \notin tmudata
  BY <1>2, ObjAssumption DEF HeapInv, HeapTypeOK, MarkInv, PhaseOK
<1>4. color'[o] = "white" /\ \A a \in Obj : a # o => color'[a] = color[a]
  BY <1>1, <1>3
<1>5. HeapTypeOK'
  <2>1. color' \in [Obj -> {"white", "dead", "gray", "black"}]
    BY <1>1, <1>3
  <2> QED
    BY <1>1, <1>2, <2>1 DEF HeapInv, HeapTypeOK, CountInv
<1>6. PhaseOK'
  <2>1. \A a \in unswept' : OnHeap(a)' /\ a \notin tmudata'
    BY <1>1, <1>2, <1>3 DEF HeapInv, MarkInv, PhaseOK, OnHeap
  <2>2. \A u \in tmudata' : u \in fin' /\ st'[u] = "live"
    BY <1>1, <1>2, <1>3 DEF HeapInv, MarkInv, PhaseOK
  <2>3. GcObj = {} => \A a \in Obj : st'[a] # "finalizing" /\ (st'[a] = "dying" => InFrames(a)')
    BY <1>1, <1>3 DEF HeapInv, MarkInv, PhaseOK, OnHeap, InFrames
  <2> QED
    BY <1>1, <1>2, <2>1, <2>2, <2>3 DEF HeapInv, MarkInv, PhaseOK
<1>7. ColorOK'
  <2>1. \A u \in Udata : color'[u] # "gray"
    BY <1>4, KindAssumption DEF HeapInv, MarkInv, ColorOK
  <2>2. ASSUME NEW a \in Obj, OnHeap(a)', a \notin unswept'
        PROVE  color'[a] # "dead" /\ (a \notin tmudata => color'[a] = "white")
    <3>1. CASE a = o
      BY <1>4, <3>1
    <3>2. CASE a # o
      BY <1>1, <1>2, <1>4, <2>2, <3>2 DEF HeapInv, MarkInv, ColorOK, Marking, OnHeap
    <3> QED
      BY <3>1, <3>2
  <2>3. color'[Main] # "dead"
    BY <1>4, ObjAssumption DEF HeapInv, MarkInv, ColorOK
  <2> QED
    BY <1>2, <2>1, <2>2, <2>3 DEF ColorOK, Marking
<1>8. ListsApart' /\ MarkedClosed' /\ TriColor' /\ GrayListed'
  BY <1>2 DEF ListsApart, MarkedClosed, TriColor, GrayListed
<1> QED
  BY <1>1, <1>5, <1>6, <1>7, <1>8 DEF HeapInv, MarkInv

LEMMA EndSweepInv ==
  ASSUME HeapInv, ~NestedGC, EndSweep \/ EndCycle
  PROVE  HeapInv'
<1>1. CountInv'
  BY EndSweepCount
<1>2. /\ st' = st /\ fld' = fld /\ frames' = frames /\ fin' = fin /\ color' = color
      /\ gray' = gray /\ grayagain' = grayagain /\ weak' = weak /\ pending' = pending
      /\ unswept' = unswept /\ tmudata' = tmudata /\ depth' \in {0, depth}
      /\ full' \in {"no", full} /\ gcstate' \in {"pause", "finalize"}
      /\ gcstate \in {"sweep", "finalize"} /\ (gcstate = "sweep" => unswept = {})
  BY DEF EndSweep, EndCycle, rcvars
<1>3. HeapTypeOK'
  <2>1. depth' \in Nat
    BY <1>2 DEF HeapInv, HeapTypeOK
  <2> QED
    BY <1>1, <1>2, <2>1 DEF HeapInv, HeapTypeOK, CountInv
<1>4. PhaseOK'
  BY <1>2 DEF HeapInv, MarkInv, PhaseOK, OnHeap, InFrames
<1>5. ColorOK'
  BY <1>2 DEF HeapInv, MarkInv, ColorOK, Marking, OnHeap
<1>6. ListsApart' /\ MarkedClosed' /\ TriColor' /\ GrayListed'
  BY <1>2 DEF ListsApart, MarkedClosed, TriColor, GrayListed
<1> QED
  BY <1>1, <1>3, <1>4, <1>5, <1>6 DEF HeapInv, MarkInv

LEMMA CallGCTMInv ==
  ASSUME HeapInv, ~NestedGC, NEW u \in GcObj, CallGCTM(u)
  PROVE  HeapInv'
<1>1. CountInv' /\ st' = st /\ frames' = frames
  BY CallGCTMCount
<1>2. /\ fin' = fin /\ color' = [color EXCEPT ![u] = "white"] /\ gcstate = "finalize"
      /\ gcstate' = gcstate /\ gray' = gray /\ grayagain' = grayagain /\ weak' = weak
      /\ pending' = pending /\ unswept' = unswept /\ tmudata' = tmudata \ {u}
      /\ depth' \in {0, depth} /\ full' \in {"no", full}
  BY DEF CallGCTM
<1>3. color \in [Obj -> {"white", "dead", "gray", "black"}] /\ u \in Obj
  BY ObjAssumption DEF HeapInv, HeapTypeOK
<1>4. color'[u] = "white" /\ \A a \in Obj : a # u => color'[a] = color[a]
  BY <1>2, <1>3
<1>5. HeapTypeOK'
  <2>1. color' \in [Obj -> {"white", "dead", "gray", "black"}]
    BY <1>2, <1>3
  <2>2. depth' \in Nat
    BY <1>2 DEF HeapInv, HeapTypeOK
  <2> QED
    BY <1>1, <1>2, <2>1, <2>2 DEF HeapInv, HeapTypeOK, CountInv
<1>6. PhaseOK'
  BY <1>1, <1>2 DEF HeapInv, MarkInv, PhaseOK, OnHeap, InFrames
<1>7. ColorOK'
  <2>1. \A a \in Udata : color'[a] # "gray"
    BY <1>4, KindAssumption DEF HeapInv, MarkInv, ColorOK
  <2>2. ASSUME NEW a \in Obj, OnHeap(a)', a \notin unswept'
        PROVE  color'[a] # "dead" /\ (a \notin tmudata' => color'[a] = "white")
    <3>1. CASE a = u
      BY <1>4, <3>1
    <3>2. CASE a # u
      BY <1>1, <1>2, <1>4, <2>2, <3>2 DEF HeapInv, MarkInv, ColorOK, Marking, OnHeap
    <3> QED
      BY <3>1, <3>2
  <2>3. color'[Main] # "dead"
    BY <1>4, ObjAssumption DEF HeapInv, MarkInv, ColorOK
  <2> QED
    BY <1>2, <2>1, <2>2, <2>3 DEF ColorOK, Marking
<1>8. ListsApart' /\ MarkedClosed' /\ TriColor' /\ GrayListed'
  BY <1>2 DEF ListsApart, MarkedClosed, TriColor, GrayListed
<1> QED
  BY <1>1, <1>5, <1>6, <1>7, <1>8 DEF HeapInv, MarkInv

-----------------------------------------------------------------------------
(* The theorems                                                            *)

LEMMA HeapInitInv ==
  ASSUME HeapInit
  PROVE  HeapInv
<1>1. /\ st = [o \in Obj |-> IF o = Main THEN "live" ELSE "free"]
      /\ fld = [x \in Obj \X Fld |-> Nil] /\ ref = [o \in Obj |-> 0] /\ fin = {}
      /\ frames = <<>> /\ color = [o \in Obj |-> "white"] /\ gcstate = "pause"
      /\ gray = {} /\ grayagain = {} /\ weak = {} /\ pending = {} /\ unswept = {}
      /\ tmudata = {} /\ full = "no" /\ depth = 0
  BY DEF HeapInit, Init
<1>2. TypeOK
  <2>1. frames \in Seq(Obj)
    BY <1>1
  <2> QED
    BY <1>1, <2>1, ObjAssumption DEF TypeOK, Status
<1>3. HeapTypeOK
  BY <1>1, <1>2 DEF HeapTypeOK
<1>4. RefCovers
  <2> SUFFICES ASSUME NEW o \in Obj, st[o] # "free"
               PROVE  ref[o] >= Cardinality({x \in Holders(o) : x[1] \notin Stale})
                                  + ArgumentCount(o)
    BY DEF RefCovers
  <2>1. {x \in Holders(o) : x[1] \notin Stale} = {}
    BY <1>1, ObjAssumption DEF Holders
  <2>2. ref[o] = 0 /\ ArgumentCount(o) = 0
    BY <1>1 DEF ArgumentCount
  <2> QED
    BY <2>1, <2>2, FS_EmptySet
<1>5. HeldUsed /\ FreeEmpty /\ StatusOK /\ NoDoubleRelease /\ FramesSwept
  BY <1>1, ObjAssumption
     DEF HeldUsed, FreeEmpty, StatusOK, NoDoubleRelease, FramesSwept
<1>6. MarkInv
  BY <1>1, ObjAssumption, KindAssumption
     DEF MarkInv, PhaseOK, ColorOK, Marking, ListsApart, MarkedClosed, TriColor, GrayListed
<1> QED
  BY <1>2, <1>3, <1>4, <1>5, <1>6 DEF HeapInv, CountInv

LEMMA HeapNextInv ==
  ASSUME HeapInv, [HeapNext]_vars, ~Retain, ~NestedGC, ~BarrierLost, Separate
  PROVE  HeapInv'
<1>1. CASE Mutator
  BY <1>1, HeapAssignInv, HeapClearInv, HeapAssignArgumentInv, HeapNewInv DEF Mutator
<1>2. CASE Releases
  BY <1>2, CallFinalizerInv, HeapReleaseInv, FinalizerErrorInv DEF Releases
<1>3. CASE Collector
  BY <1>3, MarkRootInv, PropagateInv, AtomicInv, ClearSlotInv, FlipWhiteInv, SweepInv,
     EndSweepInv, CallGCTMInv DEF Collector
<1>4. CASE FullGC
  BY <1>4, FullGCInv
<1>5. CASE UNCHANGED vars
  <2>1. /\ st' = st /\ fld' = fld /\ ref' = ref /\ fin' = fin /\ frames' = frames
        /\ color' = color /\ gcstate' = gcstate /\ gray' = gray /\ grayagain' = grayagain
        /\ weak' = weak /\ pending' = pending /\ unswept' = unswept /\ tmudata' = tmudata
        /\ full' = full /\ depth' = depth
    BY <1>5 DEF vars, rcvars, gcvars
  <2>2. HeapTypeOK' /\ TypeOK'
    BY <2>1 DEF HeapInv, HeapTypeOK, TypeOK
  <2>3. Stale' = Stale /\ Garbage' = Garbage
    BY <2>1 DEF Stale, Garbage, Lost
  <2>4. RefCovers'
    <3>1. \A o \in Obj : Holders(o)' = Holders(o) /\ ArgumentCount(o)' = ArgumentCount(o)
      BY <2>1 DEF Holders, ArgumentCount
    <3> QED
      BY <2>1, <2>3, <3>1 DEF HeapInv, CountInv, RefCovers
  <2>5. HeldUsed' /\ FreeEmpty' /\ StatusOK' /\ NoDoubleRelease' /\ FramesSwept'
    BY <2>1, <2>3 DEF HeapInv, CountInv, HeldUsed, OnHeap, FreeEmpty, StatusOK, InFrames,
                      NoDoubleRelease, FramesSwept
  <2>6. PhaseOK' /\ ColorOK' /\ ListsApart' /\ MarkedClosed'
    BY <2>1 DEF HeapInv, MarkInv, PhaseOK, ColorOK, ListsApart, MarkedClosed,
                OnHeap, InFrames, Marking, White
  <2>7. TriColor' /\ GrayListed'
    <3>1. rootgc' = rootgc /\ \A o \in Obj : Children(o)' = Children(o)
      BY <2>1 DEF rootgc, Children
    <3>2. \A o \in rootgc : o \in Obj
      BY DEF rootgc
    <3> QED
      BY <2>1, <3>1, <3>2 DEF HeapInv, MarkInv, TriColor, GrayListed, White
  <2> QED
    BY <2>2, <2>4, <2>5, <2>6, <2>7 DEF HeapInv, CountInv, MarkInv
<1> QED
  BY <1>1, <1>2, <1>3, <1>4, <1>5 DEF HeapNext

(* The invariant of the whole memory manager: counting, marking, sweeping  *)
(* and finalizing together.                                                *)
THEOREM HeapInvariance ==
  ASSUME ~Retain, ~NestedGC, ~BarrierLost, Separate
  PROVE  HeapSpec => []HeapInv
<1>1. HeapInit => HeapInv
  BY HeapInitInv
<1>2. HeapInv /\ [HeapNext]_vars => HeapInv'
  BY HeapNextInv
<1> QED
  BY <1>1, <1>2, PTL DEF HeapSpec

(* Every variable of the memory manager keeps its type: luaC_separateudata *)
(* fills tmudata with finalizable userdata only, and the gray lists and    *)
(* the unswept part of rootgc never hold anything but objects.             *)
THEOREM HeapTypeCorrect ==
  ASSUME ~Retain, ~NestedGC, ~BarrierLost, Separate
  PROVE  HeapSpec => []HeapTypeOK
<1>1. HeapInv => HeapTypeOK
  BY DEF HeapInv
<1> QED
  BY <1>1, HeapInvariance, PTL

(* The sweep frees dead objects without luarc_subref, and errors lose      *)
(* objects that are being released: a count may then be too high, but it   *)
(* never falls below the number of fields that may still be read.          *)
THEOREM CountsCover ==
  ASSUME ~Retain, ~NestedGC, ~BarrierLost, Separate
  PROVE  HeapSpec => []RefCovers
<1>1. HeapInv => RefCovers
  BY DEF HeapInv, CountInv
<1> QED
  BY <1>1, HeapInvariance, PTL

(* The write barriers of luaC_barrierf and luaC_barrierback keep every     *)
(* black object of rootgc from referring to a white one while marking,     *)
(* whatever is stored, released or finalized between two increments.       *)
THEOREM BarriersSuffice ==
  ASSUME ~Retain, ~NestedGC, ~BarrierLost, Separate
  PROVE  HeapSpec => []TriColor
<1>1. HeapInv => TriColor
  BY DEF HeapInv, MarkInv
<1> QED
  BY <1>1, HeapInvariance, PTL

(* While marking, gray, grayagain and weak hold exactly the gray objects   *)
(* of the heap: luarc_free* takes what it frees off them, and propagation  *)
(* forgets none.                                                           *)
THEOREM GrayListsExact ==
  ASSUME ~Retain, ~NestedGC, ~BarrierLost, Separate
  PROVE  HeapSpec => []GrayListed
<1>1. HeapInv => GrayListed
  BY DEF HeapInv, MarkInv
<1> QED
  BY <1>1, HeapInvariance, PTL

(* luarc_free* never touches freed memory: neither the object of an active *)
(* release nor anything it still refers to has been freed, by a nested     *)
(* release, by a finalizer or by the sweep.                                *)
THEOREM ReleasesSafe ==
  ASSUME ~Retain, ~NestedGC, ~BarrierLost, Separate
  PROVE  HeapSpec => []ReleaseSafe
<1>1. HeapInv => ReleaseSafe
  <2> SUFFICES ASSUME HeapInv, NEW i \in 1 .. Len(frames)
               PROVE  /\ st[frames[i]] # "free"
                      /\ \A c \in Children(frames[i]) : st[c] # "free"
    BY DEF ReleaseSafe
  <2>1. PICK t \in Obj : t = frames[i]
    BY DEF HeapInv, CountInv, TypeOK
  <2>2. st[t] \in {"dying", "finalizing"} /\ t \notin unswept
    BY <2>1 DEF HeapInv, CountInv, NoDoubleRelease, FramesSwept
  <2>3. t \notin Stale
    BY <2>1, <2>2 DEF Stale, Garbage, Lost
  <2>4. \A c \in Children(t) : OnHeap(c)
    BY <2>3 DEF Children, HeapInv, CountInv, HeldUsed
  <2> QED
    BY <2>1, <2>2, <2>4 DEF OnHeap
<1> QED
  BY <1>1, HeapInvariance, PTL

(* What Lua code can reach is allocated and will survive the sweep.        *)
LEMMA ReachableUsed ==
  ASSUME HeapInv, NEW o \in Obj, Heap!Reachable(o)
  PROVE  OnHeap(o) /\ o \notin Garbage
<1>1. PICK C \in SUBSET Obj : C = {a \in Obj : OnHeap(a) /\ a \notin Garbage}
  OBVIOUS
<1>2. Heap!Roots \subseteq C
  <2>1. Main \in C
    BY <1>1, AccessibleUsed, ObjAssumption DEF Accessible, Stale
  <2>2. ASSUME NEW a \in Obj, st[a] = "finalizing" PROVE a \in C
    BY <1>1, <2>2 DEF HeapInv, CountInv, StatusOK, InFrames, FramesSwept, Garbage, OnHeap
  <2> QED
    BY <2>1, <2>2 DEF Heap!Roots
<1>3. Heap!ClosedUnderFields(C)
  <2> SUFFICES ASSUME NEW p \in C, NEW f \in Fld, fld[<<p, f>>] # Nil
               PROVE  fld[<<p, f>>] \in C
    BY DEF Heap!ClosedUnderFields
  <2>1. p \notin Stale
    BY <1>1 DEF Stale, Lost, OnHeap
  <2>2. fld[<<p, f>>] \in Obj
    BY DEF HeapInv, CountInv, TypeOK
  <2> QED
    BY <1>1, <2>1, <2>2 DEF HeapInv, CountInv, HeldUsed
<1>4. o \in C
  BY <1>2, <1>3 DEF Heap!Reachable
<1> QED
  BY <1>1, <1>4

(* No use after free: what Lua code can reach from the registers, the      *)
(* globals and the arguments of running finalizers is allocated, in every  *)
(* interleaving of stores, releases, finalizers, errors and steps of the   *)
(* collector.                                                              *)
THEOREM NeverUsedAfterFree ==
  ASSUME ~Retain, ~NestedGC, ~BarrierLost, Separate
  PROVE  HeapSpec => []NoUseAfterFree
<1>1. HeapInv => NoUseAfterFree
  BY ReachableUsed DEF NoUseAfterFree, OnHeap
<1> QED
  BY <1>1, HeapInvariance, PTL

=============================================================================
