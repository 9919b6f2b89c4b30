--------------------------- MODULE ApiStackProofs ---------------------------
(***************************************************************************)
(* Proofs about ApiStack for every set of objects, every kind and any      *)
(* number of stack slots, as long as no finalizer looks at a field that is *)
(* half written (~FinalizerInHalf).                                        *)
(***************************************************************************)
EXTENDS ApiStack, Loops, FiniteSetTheorems, TLAPS

Value == Obj \cup {Nil, Num}

Stores == [mem : [Place -> Value], ref : [Obj -> Int], zero : SUBSET Obj]

-----------------------------------------------------------------------------
(* The inductive invariant                                                 *)

(* What the counts owe: the references lua_setfenv lost, less the one that *)
(* lua_setmetatable or lua_setfenv is about to overwrite.                  *)
Owed == [o \in Obj |-> (IF o \in leaked THEN 1 ELSE 0) - (IF HalfDone(o) THEN 1 ELSE 0)]

(* The place that is half written, if there is one.                        *)
Half == IF half = <<>> THEN {} ELSE {half[1]}

(* The objects that exist no more, or whose fields have been given up.     *)
Gone == dying \cup (Obj \ heap)

(* A store is sound when its counts are the places but for e, when no      *)
(* place but those of h holds an object that is being released or is gone, *)
(* and when the objects in G hold nothing themselves.                      *)
Sound(c, e, h, G) ==
  /\ c \in Stores
  /\ \A o \in Obj : c.ref[o] = Refs(c.mem, o) + e[o]
  /\ \A o \in c.zero \cup G : \A p \in Place \ h : c.mem[p] # o
  /\ \A o \in G : \A f \in Fields(o) : c.mem[F(o, f)] = Nil
  /\ c.mem[Here] = Running

(* What may be owed: nothing below zero, but one for a place of h.         *)
Debt(c, e, h) ==
  \A o \in Obj : e[o] < 0 => e[o] = -1 /\ \E p \in h : h = {p} /\ c.mem[p] = o

ApiTypeOK ==
  /\ Store \in Stores
  /\ top \in 1 .. Slots + 1
  /\ heap \subseteq Obj /\ dying \subseteq Obj /\ leaked \subseteq Obj
  /\ left \subseteq Slot

(* Between the two halves of lua_setmetatable or lua_setfenv the object is *)
(* still held by the place its index names, and its new table by the slot. *)
HalfOK ==
  half # <<>> =>
    /\ top > 1
    /\ \E q \in index2adr, f \in {"metatable", "env"} :
         mem[q] \in Obj /\ f \in Fields(mem[q]) /\ half = <<F(mem[q], f)>>

ApiInv == ApiTypeOK /\ HalfOK /\ Sound(Store, Owed, Half, Gone) /\ TopIsNil

-----------------------------------------------------------------------------
(* Places and stores                                                       *)

LEMMA FieldNames ==
  /\ \A o : Fields(o) \subseteq {"metatable", "env", "value"}
  /\ Fields(Running) = {"env", "value"}
<1>1. ASSUME NEW o PROVE Fields(o) \subseteq {"metatable", "env", "value"}
  <2>1. CASE Kind[o] = "table"
    BY <2>1 DEF Fields
  <2>2. CASE Kind[o] = "userdata"
    BY <2>2 DEF Fields
  <2>3. CASE Kind[o] = "function"
    BY <2>3 DEF Fields
  <2>4. CASE Kind[o] \notin {"table", "userdata", "function"}
    BY <2>4 DEF Fields
  <2> QED
    BY <2>1, <2>2, <2>3, <2>4
<1>2. Fields(Running) = {"env", "value"}
  BY ApiAssumption DEF Fields
<1> QED
  BY <1>1, <1>2

LEMMA PlaceFacts ==
  /\ \A i \in Slot : S(i) \in Place
  /\ \A o \in Obj : \A f \in Fields(o) : F(o, f) \in Place
  /\ Here \in Place /\ GlobalsIndex \in Place /\ EnvSlot \in Place
  /\ \A q \in Place : \/ \E i \in Slot : q = S(i)
                      \/ \E o \in Obj : \E f \in Fields(o) : q = F(o, f)
                      \/ q \in {Here, GlobalsIndex, EnvSlot}
<1> DEFINE Of(o) == {F(o, f) : f \in Fields(o)}
           Slotted == {S(i) : i \in Slot}
           Rest == {Here, GlobalsIndex, EnvSlot}
<1>1. /\ \A o : \A f \in Fields(o) : F(o, f) \in Of(o)
      /\ \A o : \A q \in Of(o) : \E f \in Fields(o) : q = F(o, f)
  OBVIOUS
<1>2. /\ \A i \in Slot : S(i) \in Slotted
      /\ \A q \in Slotted : \E i \in Slot : q = S(i)
  OBVIOUS
<1>3. Here \in Rest /\ GlobalsIndex \in Rest /\ EnvSlot \in Rest
  OBVIOUS
<1> DEFINE Mid == UNION {Of(o) : o \in Obj}
<1>4. Place = Slotted \cup Mid \cup Rest
  BY DEF Place
<1> HIDE DEF Of, Slotted, Rest
<1>5. ASSUME NEW q
      PROVE  q \in Mid <=> \E o \in Obj : q \in Of(o)
  <2>1. ASSUME NEW o \in Obj, q \in Of(o) PROVE q \in Mid
    <3>1. Of(o) \in {Of(x) : x \in Obj}
      OBVIOUS
    <3> QED
      BY <2>1, <3>1
  <2>2. ASSUME q \in Mid PROVE \E o \in Obj : q \in Of(o)
    <3>1. PICK s \in {Of(x) : x \in Obj} : q \in s
      BY <2>2
    <3> QED
      BY <3>1
  <2> QED
    BY <2>1, <2>2
<1> HIDE DEF Mid
<1>6. \A q \in Place : q \in Slotted \/ (\E o \in Obj : q \in Of(o)) \/ q \in Rest
  BY <1>4, <1>5
<1>7. /\ \A q \in Slotted \cup Rest : q \in Place
      /\ \A o \in Obj : \A q \in Of(o) : q \in Place
  BY <1>4, <1>5
<1>8. ASSUME NEW q \in Place
      PROVE  \/ \E i \in Slot : q = S(i)
             \/ \E o \in Obj : \E f \in Fields(o) : q = F(o, f)
             \/ q \in Rest
  BY <1>1, <1>2, <1>6
<1>9. /\ \A i \in Slot : S(i) \in Place
      /\ \A o \in Obj : \A f \in Fields(o) : F(o, f) \in Place
      /\ Here \in Place /\ GlobalsIndex \in Place /\ EnvSlot \in Place
  BY <1>1, <1>2, <1>3, <1>7
<1> QED
  BY <1>8, <1>9 DEF Rest

LEMMA PlacesFinite == IsFiniteSet(Place)
<1> USE ApiAssumption
<1> DEFINE Tags == {"stack", "metatable", "env", "value"} \cup {"function", "globals", "L->env"}
<1>1. IsFiniteSet({"stack", "metatable", "env", "value"})
  <2>1. IsFiniteSet({"stack"}) /\ IsFiniteSet({"metatable"}) /\ IsFiniteSet({"env"})
        /\ IsFiniteSet({"value"})
    BY FS_Singleton
  <2>2. IsFiniteSet({"stack"} \cup {"metatable"}) /\ IsFiniteSet({"env"} \cup {"value"})
    BY <2>1, FS_Union
  <2>3. IsFiniteSet(({"stack"} \cup {"metatable"}) \cup ({"env"} \cup {"value"}))
    BY <2>2, FS_Union
  <2>4. {"stack", "metatable", "env", "value"}
          = ({"stack"} \cup {"metatable"}) \cup ({"env"} \cup {"value"})
    OBVIOUS
  <2> QED
    BY <2>3, <2>4
<1>2. IsFiniteSet({"function", "globals", "L->env"})
  <2>1. IsFiniteSet({"function"}) /\ IsFiniteSet({"globals"}) /\ IsFiniteSet({"L->env"})
    BY FS_Singleton
  <2>2. IsFiniteSet({"function"} \cup {"globals"})
    BY <2>1, FS_Union
  <2>3. IsFiniteSet(({"function"} \cup {"globals"}) \cup {"L->env"})
    BY <2>1, <2>2, FS_Union
  <2>4. {"function", "globals", "L->env"} = ({"function"} \cup {"globals"}) \cup {"L->env"}
    OBVIOUS
  <2> QED
    BY <2>3, <2>4
<1>3. IsFiniteSet(Tags)
  BY <1>1, <1>2, FS_Union
<1>4. IsFiniteSet(Slot \cup Obj)
  <2>1. IsFiniteSet(1 .. Slots)
    BY FS_Interval
  <2> QED
    BY <2>1, FS_Union DEF Slot
<1>5. IsFiniteSet(Tags \X (Slot \cup Obj))
  <2> HIDE DEF Tags
  <2> QED
    BY <1>3, <1>4, FS_Product
<1>6. Place \subseteq Tags \X (Slot \cup Obj)
  <2>1. \A i \in Slot : S(i) \in Tags \X (Slot \cup Obj)
    BY DEF S
  <2>2. ASSUME NEW o \in Obj, NEW f \in Fields(o)
        PROVE  F(o, f) \in Tags \X (Slot \cup Obj)
    <3>1. f \in Tags
      BY FieldNames
    <3> HIDE DEF Tags
    <3> QED
      BY <3>1 DEF F
  <2>3. Here \in Tags \X (Slot \cup Obj) /\ GlobalsIndex \in Tags \X (Slot \cup Obj)
        /\ EnvSlot \in Tags \X (Slot \cup Obj)
    BY DEF Here, GlobalsIndex, EnvSlot
  <2> HIDE DEF Tags
  <2> QED
    BY <2>1, <2>2, <2>3, PlaceFacts
<1> HIDE DEF Tags
<1> QED
  BY <1>5, <1>6, FS_Subset

(* Two names of places are the same place only if they are the same name.  *)
LEMMA PlacesDiffer ==
  /\ \A i, j : S(i) = S(j) => i = j
  /\ \A o, p, f, g : F(o, f) = F(p, g) => o = p /\ f = g
  /\ \A i, o : \A f \in {"metatable", "env", "value"} : S(i) # F(o, f)
  /\ \A i : S(i) # Here /\ S(i) # GlobalsIndex /\ S(i) # EnvSlot
  /\ \A o : \A f \in {"metatable", "env", "value"} :
       F(o, f) # Here /\ F(o, f) # GlobalsIndex /\ F(o, f) # EnvSlot
  /\ Here # GlobalsIndex /\ Here # EnvSlot /\ GlobalsIndex # EnvSlot
BY DEF S, F, Here, GlobalsIndex, EnvSlot

(* What writing one place does to the number of places that hold o.        *)
Put(m, p, v) == [m EXCEPT ![p] = v]

LEMMA PutCounts ==
  ASSUME NEW m \in [Place -> Value], NEW p \in Place, NEW v \in Value, NEW o \in Obj
  PROVE  /\ Refs(m, o) \in Nat
         /\ Refs(Put(m, p, v), o) = Refs(m, o) + (IF v = o THEN 1 ELSE 0)
                                                - (IF m[p] = o THEN 1 ELSE 0)
<1> DEFINE w == Put(m, p, v)
           A == {q \in Place : m[q] = o}
           B == {q \in Place : w[q] = o}
<1>1. \A q \in Place : w[q] = IF q = p THEN v ELSE m[q]
  BY DEF Put
<1>2. IsFiniteSet(A) /\ IsFiniteSet(B) /\ Cardinality(A) \in Nat /\ Cardinality(B) \in Nat
  <2>1. A \subseteq Place /\ B \subseteq Place
    OBVIOUS
  <2> QED
    BY <2>1, PlacesFinite, FS_Subset, FS_CardinalityType
<1>3. Refs(m, o) = Cardinality(A) /\ Refs(w, o) = Cardinality(B)
  BY DEF Refs
<1> HIDE DEF w
<1>4. CASE v = o <=> m[p] = o
  <2>1. A = B
    BY <1>1, <1>4
  <2> HIDE DEF A, B
  <2> QED
    BY <1>2, <1>4, <1>3, <2>1 DEF w
<1>5. CASE v = o /\ m[p] # o
  <2>1. B = A \cup {p} /\ p \notin A
    BY <1>1, <1>5
  <2>2. Cardinality(A \cup {p}) = Cardinality(A) + 1
    BY <1>2, <2>1, FS_AddElement
  <2> HIDE DEF A, B
  <2> QED
    BY <1>2, <1>5, <1>3, <2>1, <2>2 DEF w
<1>6. CASE v # o /\ m[p] = o
  <2>1. B = A \ {p} /\ p \in A
    BY <1>1, <1>6
  <2>2. Cardinality(A \ {p}) = Cardinality(A) - 1
    BY <1>2, <2>1, FS_RemoveElement
  <2> HIDE DEF A, B
  <2> QED
    BY <1>2, <1>6, <1>3, <2>1, <2>2 DEF w
<1> QED
  BY <1>4, <1>5, <1>6

(* An object with places that hold it has that many.                       *)
LEMMA RefsOfHeld ==
  ASSUME NEW m \in [Place -> Value], NEW o \in Obj
  PROVE  /\ Refs(m, o) \in Nat
         /\ Refs(m, o) = 0 => \A p \in Place : m[p] # o
         /\ Refs(m, o) <= 1 => \A p, q \in Place : m[p] = o /\ m[q] = o => p = q
<1> DEFINE A == {q \in Place : m[q] = o}
<1>1. IsFiniteSet(A) /\ Cardinality(A) \in Nat
  <2>1. A \subseteq Place
    OBVIOUS
  <2> QED
    BY <2>1, PlacesFinite, FS_Subset, FS_CardinalityType
<1>2. Cardinality(A) = 0 => A = {}
  BY <1>1, FS_EmptySet
<1>3. ASSUME Cardinality(A) <= 1, NEW p \in A, NEW q \in A
      PROVE  p = q
  <2> SUFFICES ASSUME p # q PROVE FALSE
    OBVIOUS
  <2>1. IsFiniteSet(A \ {p}) /\ Cardinality(A \ {p}) = Cardinality(A) - 1
    BY <1>1, FS_RemoveElement
  <2>2. Cardinality(A \ {p}) \in Nat
    BY <2>1, FS_CardinalityType
  <2>3. Cardinality(A \ {p}) = 0
    BY <1>1, <1>3, <2>1, <2>2
  <2>4. A \ {p} = {}
    BY <2>1, <2>3, FS_EmptySet
  <2>5. q \in A \ {p}
    OBVIOUS
  <2> HIDE DEF A
  <2> QED
    BY <2>4, <2>5
<1> QED
  BY <1>1, <1>2, <1>3 DEF Refs

-----------------------------------------------------------------------------
(* The macros on a sound store                                             *)

LEMMA SubrefShape ==
  ASSUME NEW c \in Stores, NEW v \in Value
  PROVE  LET d == subref(c, v)
         IN /\ d \in Stores /\ d.mem = c.mem
            /\ \A o \in Obj : d.ref[o] = c.ref[o] - (IF v = o THEN 1 ELSE 0)
            /\ c.zero \subseteq d.zero
            /\ \A o \in d.zero \ c.zero : o = v /\ v \in Obj /\ d.ref[o] <= 0
<1> USE DEF Stores
<1>1. CASE v \notin Obj
  BY <1>1 DEF subref
<1>2. CASE v \in Obj
  <2> DEFINE r == [c.ref EXCEPT ![v] = @ - 1]
             z == IF c.ref[v] - 1 <= 0 THEN c.zero \cup {v} ELSE c.zero
  <2>1. subref(c, v) = [c EXCEPT !.ref[v] = @ - 1,
                                 !.zero = IF c.ref[v] - 1 <= 0 THEN @ \cup {v} ELSE @]
    BY <1>2 DEF subref
  <2>2. subref(c, v) = [mem |-> c.mem, ref |-> r, zero |-> z]
    BY <2>1
  <2>3. r \in [Obj -> Int] /\ z \in SUBSET Obj
    BY <1>2
  <2>4. \A o \in Obj : r[o] = c.ref[o] - (IF v = o THEN 1 ELSE 0)
    BY <1>2
  <2>5. c.zero \subseteq z /\ \A o \in z \ c.zero : o = v /\ r[o] <= 0
    BY <1>2, <2>4
  <2> HIDE DEF r, z
  <2> QED
    BY <1>2, <2>2, <2>3, <2>4, <2>5
<1> QED
  BY <1>1, <1>2

LEMMA AddrefShape ==
  ASSUME NEW c \in Stores, NEW v \in Value
  PROVE  LET d == addref(c, v)
         IN /\ d \in Stores /\ d.mem = c.mem /\ d.zero = c.zero
            /\ \A o \in Obj : d.ref[o] = c.ref[o] + (IF v = o THEN 1 ELSE 0)
<1> USE DEF Stores
<1>1. CASE v \notin Obj
  BY <1>1 DEF addref
<1>2. CASE v \in Obj
  BY <1>2 DEF addref
<1> QED
  BY <1>1, <1>2

LEMMA WriteShape ==
  ASSUME NEW c \in Stores, NEW p \in Place, NEW v \in Value
  PROVE  LET d == [c EXCEPT !.mem[p] = v]
         IN /\ d \in Stores /\ d.mem = [c.mem EXCEPT ![p] = v]
            /\ d.ref = c.ref /\ d.zero = c.zero
BY DEF Stores

(* setobj moves the counts with the places; an object is only released     *)
(* when its new count says so.                                             *)
LEMMA SetObjShape ==
  ASSUME NEW c \in Stores, NEW p \in Place, NEW v \in Value
  PROVE  LET d == setobj(c, p, v)
         IN /\ d \in Stores /\ d.mem = [c.mem EXCEPT ![p] = v]
            /\ \A o \in Obj : d.ref[o] = c.ref[o] + (IF v = o THEN 1 ELSE 0)
                                                 - (IF c.mem[p] = o THEN 1 ELSE 0)
            /\ c.zero \subseteq d.zero
            /\ \A o \in d.zero \ c.zero : o = c.mem[p] /\ o \in Obj /\ d.ref[o] <= 0
<1> DEFINE a == [c EXCEPT !.mem[p] = v]
           b == addref(a, v)
           d == subref(b, c.mem[p])
<1>1. /\ a \in Stores /\ a.mem = [c.mem EXCEPT ![p] = v]
      /\ a.ref = c.ref /\ a.zero = c.zero
  BY WriteShape
<1>2. c.mem[p] \in Value /\ c.ref \in [Obj -> Int]
  BY DEF Stores
<1>3. setobj(c, p, v) = d
  BY DEF setobj
<1> HIDE DEF a
<1>4. /\ b \in Stores /\ b.mem = a.mem /\ b.zero = a.zero
      /\ \A o \in Obj : b.ref[o] = a.ref[o] + (IF v = o THEN 1 ELSE 0)
  BY <1>1, AddrefShape
<1> HIDE DEF b
<1>5. /\ d \in Stores /\ d.mem = b.mem
      /\ \A o \in Obj : d.ref[o] = b.ref[o] - (IF c.mem[p] = o THEN 1 ELSE 0)
      /\ b.zero \subseteq d.zero
      /\ \A o \in d.zero \ b.zero : o = c.mem[p] /\ c.mem[p] \in Obj /\ d.ref[o] <= 0
  BY <1>2, <1>4, SubrefShape
<1> HIDE DEF d
<1>6. ASSUME NEW o \in Obj
      PROVE  d.ref[o] = c.ref[o] + (IF v = o THEN 1 ELSE 0) - (IF c.mem[p] = o THEN 1 ELSE 0)
  BY <1>1, <1>2, <1>4, <1>5
<1>7. c.zero \subseteq d.zero
      /\ \A o \in d.zero \ c.zero : o = c.mem[p] /\ o \in Obj /\ d.ref[o] <= 0
  BY <1>1, <1>4, <1>5
<1> QED
  BY <1>1, <1>3, <1>4, <1>5, <1>6, <1>7

(* A place that is written with a value in use, or with nil.               *)
CanSet(c, p, v, h, G) ==
  /\ p \in Place \ h /\ p # Here
  /\ v \in Value /\ v \notin c.zero \cup G
  /\ v = Nil \/ \A o \in G : \A f \in Fields(o) : p # F(o, f)

(* The store after one setobj.                                             *)
SetTo(c, d, p, v) ==
  /\ \A q \in Place : d.mem[q] = IF q = p THEN v ELSE c.mem[q]
  /\ c.zero \subseteq d.zero /\ d.zero \subseteq c.zero \cup {c.mem[p]}

LEMMA SoundTypes ==
  ASSUME NEW c, NEW e, NEW h, NEW G, Sound(c, e, h, G)
  PROVE  /\ c \in Stores
         /\ c.mem \in [Place -> Value] /\ c.ref \in [Obj -> Int] /\ c.zero \subseteq Obj
         /\ \A p \in Place : c.mem[p] \in Value
BY DEF Sound, Stores

LEMMA HeldInUse ==
  ASSUME NEW c, NEW e, NEW h, NEW G, Sound(c, e, h, G), NEW p \in Place \ h
  PROVE  c.mem[p] \in Value /\ c.mem[p] \notin c.zero \cup G
BY SoundTypes DEF Sound

(* An object whose count has fallen to zero has no holder left but the     *)
(* half written place.                                                     *)
LEMMA ZeroUnheld ==
  ASSUME NEW c \in Stores, NEW e \in [Obj -> Int], NEW h \in SUBSET Place, Debt(c, e, h),
         NEW o \in Obj, c.ref[o] = Refs(c.mem, o) + e[o], c.ref[o] <= 0
  PROVE  \A p \in Place \ h : c.mem[p] # o
<1>1. c.mem \in [Place -> Value] /\ e[o] \in Int
  BY DEF Stores
<1>2. /\ Refs(c.mem, o) \in Nat
      /\ Refs(c.mem, o) = 0 => \A p \in Place : c.mem[p] # o
      /\ Refs(c.mem, o) <= 1 => \A p, q \in Place : c.mem[p] = o /\ c.mem[q] = o => p = q
  BY <1>1, RefsOfHeld
<1>3. CASE e[o] >= 0
  BY <1>1, <1>2, <1>3
<1>4. CASE e[o] < 0
  <2>1. e[o] = -1 /\ \E p \in h : h = {p} /\ c.mem[p] = o
    BY <1>4 DEF Debt
  <2>2. PICK p \in h : h = {p} /\ c.mem[p] = o
    BY <2>1
  <2>3. Refs(c.mem, o) <= 1
    BY <1>1, <1>2, <2>1
  <2>4. p \in Place => \A q \in Place : c.mem[q] = o => q = p
    BY <1>2, <2>2, <2>3
  <2> QED
    BY <2>2, <2>4
<1> QED
  BY <1>1, <1>3, <1>4

(* setobj keeps a store sound.                                             *)
LEMMA SetObjSound ==
  ASSUME NEW c, NEW e \in [Obj -> Int], NEW h \in SUBSET Place, NEW G \in SUBSET Obj,
         Sound(c, e, h, G), Debt(c, e, h),
         NEW p, NEW v, CanSet(c, p, v, h, G)
  PROVE  LET d == setobj(c, p, v)
         IN Sound(d, e, h, G) /\ Debt(d, e, h) /\ SetTo(c, d, p, v)
<1> DEFINE d == setobj(c, p, v)
<1>1. c \in Stores /\ c.mem \in [Place -> Value] /\ c.ref \in [Obj -> Int]
      /\ c.zero \subseteq Obj
  BY SoundTypes
<1>2. p \in Place /\ v \in Value /\ p \notin h
  BY DEF CanSet
<1>3. /\ d \in Stores /\ d.mem = [c.mem EXCEPT ![p] = v]
      /\ \A o \in Obj : d.ref[o] = c.ref[o] + (IF v = o THEN 1 ELSE 0)
                                           - (IF c.mem[p] = o THEN 1 ELSE 0)
      /\ c.zero \subseteq d.zero
      /\ \A o \in d.zero \ c.zero : o = c.mem[p] /\ o \in Obj /\ d.ref[o] <= 0
  BY <1>1, <1>2, SetObjShape
<1> HIDE DEF d
<1>4. \A q \in Place : d.mem[q] = IF q = p THEN v ELSE c.mem[q]
  BY <1>1, <1>2, <1>3
<1>5. SetTo(c, d, p, v)
  BY <1>3, <1>4 DEF SetTo
<1>6. Debt(d, e, h)
  BY <1>2, <1>4 DEF Debt
<1>7. ASSUME NEW o \in Obj PROVE d.ref[o] = Refs(d.mem, o) + e[o]
  <2>1. /\ Refs(c.mem, o) \in Nat
        /\ Refs(Put(c.mem, p, v), o) = Refs(c.mem, o) + (IF v = o THEN 1 ELSE 0)
                                        - (IF c.mem[p] = o THEN 1 ELSE 0)
    BY <1>1, <1>2, PutCounts
  <2>2. c.ref[o] = Refs(c.mem, o) + e[o]
    BY DEF Sound
  <2>3. e[o] \in Int /\ d.mem = Put(c.mem, p, v)
    BY <1>3 DEF Put
  <2> QED
    BY <1>3, <2>1, <2>2, <2>3
<1>8. ASSUME NEW o \in d.zero \cup G, NEW q \in Place \ h PROVE d.mem[q] # o
  <2>1. CASE o \in c.zero \cup G
    BY <1>4, <2>1 DEF Sound, CanSet
  <2>2. CASE o \in d.zero \ c.zero
    <3>1. d \in Stores /\ o \in Obj /\ d.ref[o] <= 0
      BY <1>3, <2>2
    <3>2. d.ref[o] = Refs(d.mem, o) + e[o]
      BY <1>7, <3>1
    <3> QED
      BY <1>6, <3>1, <3>2, ZeroUnheld
  <2> QED
    BY <2>1, <2>2
<1>9. ASSUME NEW o \in G, NEW f \in Fields(o) PROVE d.mem[F(o, f)] = Nil
  <2>1. F(o, f) \in Place /\ c.mem[F(o, f)] = Nil
    BY PlaceFacts DEF Sound
  <2>2. v = Nil \/ p # F(o, f)
    BY DEF CanSet
  <2> QED
    BY <1>4, <2>1, <2>2
<1>10. d.mem[Here] = Running
  BY <1>4, PlaceFacts DEF CanSet, Sound
<1>11. Sound(d, e, h, G)
  BY <1>3, <1>7, <1>8, <1>9, <1>10 DEF Sound
<1> QED
  BY <1>5, <1>6, <1>11 DEF d

(* setobj2n on a place that was nil: as setobj, and nothing is released.   *)
LEMMA SetNewShape ==
  ASSUME NEW c \in Stores, NEW p \in Place, NEW v \in Value, c.mem[p] = Nil
  PROVE  setobj2n(c, p, v) = setobj(c, p, v)
<1>1. Nil \notin Obj
  BY ApiAssumption
<1> QED
  BY <1>1 DEF setobj2n, setobj, subref

(* nil can always be written, and so can what a place that is not half     *)
(* written holds.                                                          *)
LEMMA CanSetNil ==
  ASSUME NEW c, NEW e, NEW h, NEW G \in SUBSET Obj, Sound(c, e, h, G),
         NEW p \in Place \ h, p # Here
  PROVE  CanSet(c, p, Nil, h, G)
<1>1. c.zero \subseteq Obj /\ Nil \notin Obj
  BY SoundTypes, ApiAssumption
<1> QED
  BY <1>1 DEF CanSet, Value

LEMMA CanSetNum ==
  ASSUME NEW c, NEW e, NEW h, NEW G \in SUBSET Obj, Sound(c, e, h, G),
         NEW i \in Slot, S(i) \notin h
  PROVE  CanSet(c, S(i), Num, h, G)
<1>1. c.zero \subseteq Obj /\ Num \notin Obj
  BY SoundTypes, ApiAssumption
<1>2. S(i) \in Place /\ S(i) # Here
  BY PlaceFacts, PlacesDiffer
<1>3. \A o \in G : \A f \in Fields(o) : S(i) # F(o, f)
  BY PlacesDiffer, FieldNames
<1> QED
  BY <1>1, <1>2, <1>3 DEF CanSet, Value

LEMMA CanSetHeld ==
  ASSUME NEW c, NEW e, NEW h, NEW G \in SUBSET Obj, Sound(c, e, h, G),
         NEW p \in Place \ h, p # Here, NEW q \in Place \ h,
         \A o \in G : \A f \in Fields(o) : p # F(o, f)
  PROVE  CanSet(c, p, c.mem[q], h, G)
BY HeldInUse DEF CanSet

(* Of the places a C function can name, none is a field of an object that  *)
(* is gone, and neither are the fields of the objects it can reach.        *)
LEMMA NamedPlaces ==
  ASSUME top \in 1 .. Slots + 1, NEW p \in index2adr
  PROVE  /\ p \in Place /\ p # Here
         /\ \/ \E i \in Slot : i < top /\ p = S(i)
            \/ p = GlobalsIndex
            \/ p = F(Running, "value")
<1>1. Running \in Obj /\ Slots \in Nat
  BY ApiAssumption
<1>2. \/ \E i \in 1 .. top - 1 : p = S(i)
      \/ p = GlobalsIndex
      \/ p = F(Running, "value")
  BY DEF index2adr
<1>3. CASE \E i \in 1 .. top - 1 : p = S(i)
  <2>1. PICK i \in 1 .. top - 1 : p = S(i)
    BY <1>3
  <2>2. i \in Slot /\ i < top
    BY <1>1 DEF Slot
  <2> QED
    BY <2>1, <2>2, PlaceFacts, PlacesDiffer
<1>4. CASE p \in {GlobalsIndex, F(Running, "value")}
  BY <1>1, <1>4, PlaceFacts, PlacesDiffer, FieldNames
<1> QED
  BY <1>2, <1>3, <1>4

-----------------------------------------------------------------------------
(* Calls: no place is half written while one runs                          *)

(* The store of a call that has not finished; G are the objects that do    *)
(* not exist.                                                              *)
Good(c, G) == G \subseteq Obj /\ Sound(c, Owed, {}, G) /\ Debt(c, Owed, {})

Outside(p, G) == p \in Place /\ p # Here /\ \A o \in G : \A f \in Fields(o) : p # F(o, f)

LEMMA OwedType == Owed \in [Obj -> Int]
<1>1. \A o \in Obj : (IF o \in leaked THEN 1 ELSE 0) - (IF HalfDone(o) THEN 1 ELSE 0) \in Int
  OBVIOUS
<1> QED
  BY <1>1 DEF Owed

LEMMA GoodTypes ==
  ASSUME NEW c, NEW G, Good(c, G)
  PROVE  /\ c \in Stores
         /\ c.mem \in [Place -> Value] /\ c.ref \in [Obj -> Int] /\ c.zero \subseteq Obj
         /\ \A p \in Place : c.mem[p] \in Value /\ c.mem[p] \notin c.zero \cup G
         /\ Running \notin c.zero \cup G
<1>1. Sound(c, Owed, {}, G)
  BY DEF Good
<1>2. /\ c \in Stores
      /\ c.mem \in [Place -> Value] /\ c.ref \in [Obj -> Int] /\ c.zero \subseteq Obj
  BY <1>1, SoundTypes
<1>3. \A p \in Place : c.mem[p] \in Value /\ c.mem[p] \notin c.zero \cup G
  BY <1>1, HeldInUse
<1>4. Here \in Place /\ c.mem[Here] = Running
  BY <1>1, PlaceFacts DEF Sound
<1> QED
  BY <1>2, <1>3, <1>4

LEMMA GoodSet ==
  ASSUME NEW c, NEW G, Good(c, G), NEW p, NEW v, CanSet(c, p, v, {}, G)
  PROVE  Good(setobj(c, p, v), G) /\ SetTo(c, setobj(c, p, v), p, v)
<1>1. G \in SUBSET Obj /\ Sound(c, Owed, {}, G) /\ Debt(c, Owed, {}) /\ {} \in SUBSET Place
  BY DEF Good
<1>2. Owed \in [Obj -> Int]
  BY OwedType
<1>3. /\ Sound(setobj(c, p, v), Owed, {}, G) /\ Debt(setobj(c, p, v), Owed, {})
      /\ SetTo(c, setobj(c, p, v), p, v)
  BY <1>1, <1>2, SetObjSound
<1> QED
  BY <1>1, <1>3 DEF Good

LEMMA GoodNil ==
  ASSUME NEW c, NEW G, Good(c, G), NEW i \in Slot
  PROVE  Good(setnilvalue(c, S(i)), G) /\ SetTo(c, setnilvalue(c, S(i)), S(i), Nil)
<1>1. S(i) \in Place /\ S(i) # Here
  BY PlaceFacts, PlacesDiffer
<1>2. G \in SUBSET Obj /\ Sound(c, Owed, {}, G)
  BY DEF Good
<1>3. CanSet(c, S(i), Nil, {}, G)
  BY <1>1, <1>2, CanSetNil
<1> QED
  BY <1>3, GoodSet DEF setnilvalue

LEMMA GoodCopy ==
  ASSUME NEW c, NEW G, Good(c, G), NEW p, Outside(p, G), NEW q \in Place
  PROVE  /\ Good(setobj(c, p, c.mem[q]), G)
         /\ SetTo(c, setobj(c, p, c.mem[q]), p, c.mem[q])
<1>1. CanSet(c, p, c.mem[q], {}, G)
  BY GoodTypes DEF CanSet, Outside
<1> QED
  BY <1>1, GoodSet

LEMMA OutsideFacts ==
  ASSUME NEW c, NEW G, Good(c, G)
  PROVE  /\ \A i \in Slot : Outside(S(i), G)
         /\ Outside(GlobalsIndex, G) /\ Outside(EnvSlot, G)
         /\ Outside(F(Running, "env"), G) /\ Outside(F(Running, "value"), G)
         /\ \A o \in Obj \ G : \A f \in Fields(o) : Outside(F(o, f), G)
         /\ \A q \in Place : c.mem[q] \in Obj =>
              \A f \in Fields(c.mem[q]) : Outside(F(c.mem[q], f), G)
<1>1. /\ Running \in Obj /\ Running \notin G /\ G \subseteq Obj
      /\ \A q \in Place : c.mem[q] \notin G
  BY GoodTypes, ApiAssumption DEF Good
<1>2. ASSUME NEW o \in Obj \ G, NEW f \in Fields(o) PROVE Outside(F(o, f), G)
  BY PlaceFacts, PlacesDiffer, FieldNames DEF Outside
<1>3. ASSUME NEW i \in Slot PROVE Outside(S(i), G)
  BY PlaceFacts, PlacesDiffer, FieldNames DEF Outside
<1>4. Outside(GlobalsIndex, G) /\ Outside(EnvSlot, G)
  BY PlaceFacts, PlacesDiffer, FieldNames DEF Outside
<1>5. Outside(F(Running, "env"), G) /\ Outside(F(Running, "value"), G)
  BY <1>1, <1>2, FieldNames
<1>6. ASSUME NEW q \in Place, c.mem[q] \in Obj, NEW f \in Fields(c.mem[q])
      PROVE  Outside(F(c.mem[q], f), G)
  BY <1>1, <1>2, <1>6
<1> QED
  BY <1>2, <1>3, <1>4, <1>5, <1>6

(* Above the top everything is nil, but for what lua_setupvalue left.      *)
Above(m, k) == \A i \in k .. Slots : m[S(i)] # Nil => i \in left

(* Where a call starts ...                                                 *)
LEMMA CallStarts ==
  ASSUME ApiInv, Idle
  PROVE  /\ Good(Store, Obj \ heap) /\ Above(Store.mem, top)
         /\ Store.mem = mem /\ Store.zero = {} /\ Store.ref = ref
         /\ top \in 1 .. Slots + 1 /\ Slots \in Nat /\ heap \subseteq Obj /\ left \subseteq Slot
<1>1. Gone = Obj \ heap /\ Half = {}
  BY DEF Gone, Half, Idle
<1>2. Store.mem = mem /\ Store.zero = {} /\ Store.ref = ref
  BY DEF Store, Idle
<1>3. \A o \in Obj : Owed[o] >= 0
  BY DEF Owed, HalfDone, Idle
<1>4. Debt(Store, Owed, {})
  <2>1. \A o \in Obj : Owed[o] \in Int /\ ~(Owed[o] < 0)
    BY <1>3, OwedType
  <2> QED
    BY <2>1 DEF Debt
<1>5. Sound(Store, Owed, {}, Obj \ heap)
  BY <1>1 DEF ApiInv
<1>6. Above(Store.mem, top)
  BY <1>2 DEF Above, ApiInv, TopIsNil
<1>7. top \in 1 .. Slots + 1 /\ Slots \in Nat /\ heap \subseteq Obj /\ left \subseteq Slot
  BY ApiAssumption DEF ApiInv, ApiTypeOK
<1> QED
  BY <1>2, <1>4, <1>5, <1>6, <1>7 DEF Good

(* ... and where it ends.                                                  *)
LEMMA CallEnds ==
  ASSUME ApiInv, Idle, NEW c, Good(c, Obj \ heap'), heap' \subseteq Obj,
         NEW k \in 1 .. Slots + 1, Above(c.mem, k),
         mem' = c.mem, ref' = c.ref, zero' = c.zero, top' = k, left' \subseteq Slot,
         \A i \in k .. Slots : i \in left /\ c.mem[S(i)] # Nil => i \in left',
         UNCHANGED <<dying, half, leaked>>
  PROVE  ApiInv'
<1>1. Store' = c
  <2>1. c \in Stores
    BY GoodTypes
  <2>2. c = [mem |-> c.mem, ref |-> c.ref, zero |-> c.zero]
    BY <2>1 DEF Stores
  <2> QED
    BY <2>2 DEF Store
<1>2. half' = <<>> /\ dying' = {}
  BY DEF Idle
<1>3. Half' = {} /\ Gone' = Obj \ heap'
  BY <1>2 DEF Half, Gone
<1>4. Owed' = Owed
  BY <1>2 DEF Owed, HalfDone, Idle
<1>5. Sound(Store, Owed, Half, Gone)'
  <2>1. Sound(c, Owed, {}, Obj \ heap')
    BY DEF Good
  <2>2. Sound(Store', Owed', Half', Gone')
    BY <1>1, <1>3, <1>4, <2>1
  <2> QED
    BY <2>2 DEF Sound, Refs
<1>6. ApiTypeOK'
  BY <1>1, <1>2, GoodTypes DEF ApiTypeOK, ApiInv, Stores
<1>7. HalfOK'
  BY <1>2 DEF HalfOK
<1>8. TopIsNil'
  BY DEF TopIsNil, Above
<1> QED
  BY <1>5, <1>6, <1>7, <1>8 DEF ApiInv

LEMMA ThenEnds ==
  ASSUME ApiInv, Idle, NEW c, Good(c, Obj \ heap'), heap' \subseteq Obj,
         NEW k \in 1 .. Slots + 1, Above(c.mem, k), Then(c, k),
         UNCHANGED <<dying, half, leaked>>
  PROVE  ApiInv'
<1>1. left' = {i \in left : i >= k /\ c.mem[S(i)] # Nil} /\ left \subseteq Slot
  BY CallStarts DEF Then
<1>2. left' \subseteq Slot
  BY <1>1
<1>3. \A i \in k .. Slots : i \in left /\ c.mem[S(i)] # Nil => i \in left'
  BY <1>1
<1>4. mem' = c.mem /\ ref' = c.ref /\ zero' = c.zero /\ top' = k
  BY DEF Then
<1> QED
  BY <1>2, <1>3, <1>4, CallEnds

(* A call that makes no object ends with the store c.                      *)
LEMMA SameEnds ==
  ASSUME ApiInv, Idle, NEW c, Good(c, Obj \ heap),
         NEW k \in 1 .. Slots + 1, Above(c.mem, k), Then(c, k), Same
  PROVE  ApiInv'
<1>1. heap' = heap /\ UNCHANGED <<dying, half, leaked>>
  BY DEF Same
<1>2. heap' \subseteq Obj /\ Good(c, Obj \ heap')
  BY <1>1, CallStarts
<1> QED
  BY <1>1, <1>2, ThenEnds

(* Writing below k, or anything but a slot, leaves what is above k alone.  *)
LEMMA AboveSet ==
  ASSUME NEW c, NEW d, NEW p, NEW v, SetTo(c, d, p, v),
         NEW k \in Nat \ {0}, Above(c.mem, k),
         \A i \in k .. Slots : p # S(i) \/ v = Nil
  PROVE  Above(d.mem, k)
<1> SUFFICES ASSUME NEW i \in k .. Slots, d.mem[S(i)] # Nil PROVE i \in left
  BY DEF Above
<1>1. S(i) \in Place
  <2>1. i \in Slot
    BY ApiAssumption DEF Slot
  <2> QED
    BY <2>1, PlaceFacts
<1>2. d.mem[S(i)] = IF S(i) = p THEN v ELSE c.mem[S(i)]
  BY <1>1 DEF SetTo
<1>3. c.mem[S(i)] # Nil
  BY <1>2
<1> QED
  BY <1>3 DEF Above

LEMMA AboveMore ==
  ASSUME NEW m, NEW k \in Nat, Above(m, k), NEW j \in Nat, k <= j
  PROVE  Above(m, j)
<1>1. \A i \in j .. Slots : i \in k .. Slots
  BY ApiAssumption
<1> QED
  BY <1>1 DEF Above

(* Popping: the slot below the new top becomes nil.                        *)
LEMMA AboveLess ==
  ASSUME NEW m, NEW k \in Nat, Above(m, k + 1), m[S(k)] = Nil
  PROVE  Above(m, k)
<1>1. \A i \in k .. Slots : i = k \/ i \in k + 1 .. Slots
  BY ApiAssumption
<1> QED
  BY <1>1 DEF Above

(* A value that a place holds is pushed.                                   *)
LEMMA PushGood ==
  ASSUME NEW c, NEW G, Good(c, G), NEW q \in Place, top \in Slot, Above(c.mem, top)
  PROVE  /\ Good(Push(c, c.mem[q]), G)
         /\ SetTo(c, Push(c, c.mem[q]), S(top), c.mem[q])
         /\ Above(Push(c, c.mem[q]).mem, top + 1)
<1> DEFINE d == Push(c, c.mem[q])
<1>1. Outside(S(top), G)
  BY OutsideFacts
<1>2. Good(d, G) /\ SetTo(c, d, S(top), c.mem[q])
  BY <1>1, GoodCopy DEF Push
<1>3. top \in Nat \ {0} /\ Slots \in Nat
  BY ApiAssumption DEF Slot
<1>4. Above(c.mem, top + 1)
  BY <1>3, AboveMore
<1>5. \A i \in top + 1 .. Slots : S(top) # S(i)
  BY <1>3, PlacesDiffer
<1>6. top + 1 \in Nat \ {0}
  BY <1>3
<1> HIDE DEF d
<1>7. Above(d.mem, top + 1)
  BY <1>2, <1>4, <1>5, <1>6, AboveSet
<1> QED
  BY <1>2, <1>7 DEF d

LEMMA RoomSlot ==
  ASSUME top \in 1 .. Slots + 1, Slots \in Nat
  PROVE  /\ Room => top \in Slot /\ top + 1 \in 1 .. Slots + 1
         /\ top > 1 => top - 1 \in Slot /\ top - 1 \in 1 .. Slots + 1 /\ top - 1 < top
         /\ top > 2 => top - 2 \in Slot /\ top - 2 \in 1 .. Slots + 1 /\ top - 2 < top - 1
BY DEF Room, Slot

LEMMA lua_pushvalueKeeps ==
  ASSUME ApiInv, NEW p \in index2adr, lua_pushvalue(p)
  PROVE  ApiInv'
<1> USE DEF lua_pushvalue
<1>1. Good(Store, Obj \ heap) /\ Above(Store.mem, top) /\ Store.mem = mem
      /\ top \in 1 .. Slots + 1 /\ Slots \in Nat
  BY CallStarts
<1>2. top \in Slot /\ top + 1 \in 1 .. Slots + 1
  BY <1>1, RoomSlot
<1>3. p \in Place
  BY <1>1, NamedPlaces
<1> DEFINE c == Push(Store, Store.mem[p])
<1>4. Good(c, Obj \ heap) /\ Above(c.mem, top + 1)
  BY <1>1, <1>2, <1>3, PushGood
<1>5. Then(c, top + 1) /\ Same /\ Idle
  BY <1>1
<1> HIDE DEF c
<1> QED
  BY <1>2, <1>4, <1>5, SameEnds

(* The environment in L->env.                                              *)
LEMMA EnvironGood ==
  ASSUME NEW c, NEW G, Good(c, G), NEW k \in Nat \ {0}, Above(c.mem, k)
  PROVE  /\ Good(EnvironIndex(c), G)
         /\ SetTo(c, EnvironIndex(c), EnvSlot, c.mem[F(Running, "env")])
         /\ Above(EnvironIndex(c).mem, k)
<1>1. F(Running, "env") \in Place
  BY OutsideFacts DEF Outside
<1>2. Good(EnvironIndex(c), G)
      /\ SetTo(c, EnvironIndex(c), EnvSlot, c.mem[F(Running, "env")])
  BY <1>1, OutsideFacts, GoodCopy DEF EnvironIndex
<1>3. \A i \in k .. Slots : EnvSlot # S(i)
  BY PlacesDiffer
<1> QED
  BY <1>2, <1>3, AboveSet

LEMMA lua_pushvalueEnvKeeps ==
  ASSUME ApiInv, lua_pushvalueEnv
  PROVE  ApiInv'
<1> USE DEF lua_pushvalueEnv
<1>1. Good(Store, Obj \ heap) /\ Above(Store.mem, top) /\ Store.mem = mem
      /\ top \in 1 .. Slots + 1 /\ Slots \in Nat
  BY CallStarts
<1>2. top \in Slot /\ top + 1 \in 1 .. Slots + 1 /\ top \in Nat \ {0}
  BY <1>1, RoomSlot
<1> DEFINE e == EnvironIndex(Store)
<1>3. Good(e, Obj \ heap) /\ Above(e.mem, top)
      /\ SetTo(Store, e, EnvSlot, Store.mem[F(Running, "env")])
  BY <1>1, <1>2, EnvironGood
<1>4. F(Running, "env") \in Place /\ F(Running, "env") # EnvSlot
  BY <1>1, OutsideFacts, PlacesDiffer DEF Outside
<1>5. e.mem[F(Running, "env")] = mem[F(Running, "env")]
  BY <1>1, <1>3, <1>4 DEF SetTo
<1>6. Then(Push(e, e.mem[F(Running, "env")]), top + 1) /\ Same /\ Idle
  BY <1>5
<1> HIDE DEF e
<1>7. Good(Push(e, e.mem[F(Running, "env")]), Obj \ heap)
      /\ Above(Push(e, e.mem[F(Running, "env")]).mem, top + 1)
  BY <1>2, <1>3, <1>4, PushGood
<1> QED
  BY <1>2, <1>6, <1>7, SameEnds

LEMMA lua_pushnumberKeeps ==
  ASSUME ApiInv, lua_pushnumber
  PROVE  ApiInv'
<1> USE DEF lua_pushnumber
<1>1. Good(Store, Obj \ heap) /\ Above(Store.mem, top)
      /\ top \in 1 .. Slots + 1 /\ Slots \in Nat
  BY CallStarts
<1>2. top \in Slot /\ top + 1 \in 1 .. Slots + 1 /\ top \in Nat \ {0} /\ top + 1 \in Nat \ {0}
  BY <1>1, RoomSlot
<1> DEFINE c == Push(Store, Num)
<1>3. Obj \ heap \in SUBSET Obj /\ Sound(Store, Owed, {}, Obj \ heap)
  BY <1>1 DEF Good
<1>4. CanSet(Store, S(top), Num, {}, Obj \ heap)
  BY <1>2, <1>3, CanSetNum
<1>5. Good(c, Obj \ heap) /\ SetTo(Store, c, S(top), Num)
  BY <1>1, <1>4, GoodSet DEF Push
<1>6. Above(Store.mem, top + 1)
  BY <1>1, <1>2, AboveMore
<1>7. \A i \in top + 1 .. Slots : S(top) # S(i)
  BY <1>1, PlacesDiffer
<1> HIDE DEF c
<1>8. Above(c.mem, top + 1)
  BY <1>2, <1>5, <1>6, <1>7, AboveSet
<1>9. Then(c, top + 1) /\ Same /\ Idle
  BY DEF c
<1> QED
  BY <1>2, <1>5, <1>8, <1>9, SameEnds

-----------------------------------------------------------------------------
(* The loops over the stack                                                *)

(* SetNilAll makes the slots from .. to - 1 nil and changes no other place. *)
LEMMA SetNilAllGood ==
  ASSUME NEW c, NEW G, Good(c, G), NEW from \in 1 .. Slots + 1, NEW to \in 1 .. Slots + 1,
         from <= to
  PROVE  /\ Good(SetNilAll(c, from, to), G)
         /\ \A q \in Place : SetNilAll(c, from, to).mem[q] =
              IF \E i \in from .. to - 1 : q = S(i) THEN Nil ELSE c.mem[q]
<1> DEFINE k == to - from
           g == [x \in (1 .. k) \X Stores |-> setnilvalue(x[2], S(to - x[1]))]
           set == CHOOSE s : s = [n \in 0 .. k |-> IF n = 0 THEN c
                                                   ELSE setnilvalue(s[n - 1], S(to - n))]
<1>1. k \in Nat /\ Slots \in Nat /\ \A n \in 1 .. k : to - n \in Slot
  BY ApiAssumption DEF Slot
<1>2. c \in Stores
  BY GoodTypes
<1>3. g \in [(1 .. k) \X Stores -> Stores]
  <2>1. ASSUME NEW x \in (1 .. k) \X Stores
        PROVE  setnilvalue(x[2], S(to - x[1])) \in Stores
    <3>1. x[2] \in Stores /\ x[1] \in 1 .. k
      OBVIOUS
    <3>2. S(to - x[1]) \in Place
      BY <1>1, <3>1, PlaceFacts
    <3> QED
      BY <3>1, <3>2, SetObjShape DEF setnilvalue, Value
  <2> QED
    BY <2>1
<1>4. SetNilAll(c, from, to) = set[k]
  BY DEF SetNilAll
<1> HIDE DEF k
<1>5. \E s : s = [n \in 0 .. k |-> IF n = 0 THEN c ELSE setnilvalue(s[n - 1], S(to - n))]
  <2> HIDE DEF g
  <2>1. PICK f : LoopRun(f, k, Stores, c, g)
    BY <1>1, <1>2, <1>3, LoopExists
  <2>2. ASSUME NEW n \in 0 .. k, n # 0
        PROVE  g[<<n, f[n - 1]>>] = setnilvalue(f[n - 1], S(to - n))
    <3>1. n \in 1 .. k /\ n - 1 \in 0 .. k
      BY <1>1, <2>2
    <3>2. <<n, f[n - 1]>> \in (1 .. k) \X Stores
      BY <2>1, <3>1 DEF LoopRun
    <3> QED
      BY <3>2 DEF g
  <2>3. f = [n \in 0 .. k |-> IF n = 0 THEN c ELSE setnilvalue(f[n - 1], S(to - n))]
    <3>1. f[0] = c /\ \A n \in 1 .. k : f[n] = g[<<n, f[n - 1]>>]
      BY <2>1 DEF LoopRun
    <3>2. ASSUME NEW n \in 0 .. k
          PROVE  f[n] = IF n = 0 THEN c ELSE setnilvalue(f[n - 1], S(to - n))
      <4>1. n = 0 \/ n \in 1 .. k
        BY <1>1
      <4> QED
        BY <2>2, <3>1, <4>1
    <3>3. f = [n \in 0 .. k |-> f[n]]
      BY <2>1 DEF LoopRun
    <3> QED
      BY <3>2, <3>3
  <2> QED
    BY <2>3
<1>6. set = [n \in 0 .. k |-> IF n = 0 THEN c ELSE setnilvalue(set[n - 1], S(to - n))]
  BY <1>5
<1> HIDE DEF set, g
<1> DEFINE T == {n \in Nat : n <= k =>
                   /\ Good(set[n], G)
                   /\ \A q \in Place : set[n].mem[q] =
                        IF \E i \in to - n .. to - 1 : q = S(i) THEN Nil ELSE c.mem[q]}
<1>7. 0 \in T
  <2>1. set[0] = c
    BY <1>1, <1>6
  <2>2. \A i \in to - 0 .. to - 1 : FALSE
    OBVIOUS
  <2> QED
    BY <2>1, <2>2
<1>8. ASSUME NEW n \in Nat, n \in T PROVE n + 1 \in T
  <2> SUFFICES ASSUME n + 1 <= k
               PROVE  /\ Good(set[n + 1], G)
                      /\ \A q \in Place : set[n + 1].mem[q] =
                           IF \E i \in to - (n + 1) .. to - 1 : q = S(i) THEN Nil ELSE c.mem[q]
    OBVIOUS
  <2>1. n <= k /\ n + 1 \in 1 .. k /\ n + 1 \in 0 .. k /\ (n + 1) - 1 = n /\ n + 1 # 0
    BY <1>1
  <2>2. /\ Good(set[n], G)
        /\ \A q \in Place : set[n].mem[q] =
             IF \E i \in to - n .. to - 1 : q = S(i) THEN Nil ELSE c.mem[q]
    BY <1>8, <2>1
  <2>3. set[n + 1] = setnilvalue(set[n], S(to - (n + 1)))
    BY <1>6, <2>1
  <2>4. to - (n + 1) \in Slot
    BY <1>1, <2>1
  <2> DEFINE b == set[n]
             j == to - (n + 1)
  <2>5. Good(setnilvalue(b, S(j)), G) /\ SetTo(b, setnilvalue(b, S(j)), S(j), Nil)
    <3> HIDE DEF b, j
    <3> QED
      BY <2>2, <2>4, GoodNil DEF b, j
  <2>6. \A i : i \in j .. to - 1 <=> i = j \/ i \in to - n .. to - 1
    BY <2>1
  <2>7. ASSUME NEW q \in Place
        PROVE  set[n + 1].mem[q] = IF \E i \in j .. to - 1 : q = S(i) THEN Nil ELSE c.mem[q]
    <3>1. set[n + 1].mem[q] = IF q = S(j) THEN Nil ELSE b.mem[q]
      BY <2>3, <2>5 DEF SetTo
    <3>2. b.mem[q] = IF \E i \in to - n .. to - 1 : q = S(i) THEN Nil ELSE c.mem[q]
      BY <2>2
    <3> HIDE DEF b, j
    <3> QED
      BY <2>6, <3>1, <3>2
  <2> QED
    BY <2>3, <2>5, <2>7
<1>9. k \in T
  <2> HIDE DEF T
  <2> QED
    BY <1>1, <1>7, <1>8, SetInduction
<1>10. to - k = from
  BY DEF k
<1> QED
  BY <1>4, <1>9, <1>10

(* A loop that copies slot b[n] to slot a[n] has a run ...                 *)
CopyStep(c, i, j) == setobj(c, S(i), c.mem[S(j)])

CopyLoop(s, c, k, a, b) ==
  s = [n \in 0 .. k |-> IF n = 0 THEN c ELSE CopyStep(s[n - 1], a[n], b[n])]

LEMMA CopyLoopRuns ==
  ASSUME NEW c \in Stores, NEW k \in Nat, NEW a \in [1 .. k -> Slot], NEW b \in [1 .. k -> Slot]
  PROVE  \E s : CopyLoop(s, c, k, a, b)
<1> DEFINE g == [x \in (1 .. k) \X Stores |-> CopyStep(x[2], a[x[1]], b[x[1]])]
<1>1. g \in [(1 .. k) \X Stores -> Stores]
  <2>1. ASSUME NEW x \in (1 .. k) \X Stores
        PROVE  CopyStep(x[2], a[x[1]], b[x[1]]) \in Stores
    <3>1. x[2] \in Stores /\ a[x[1]] \in Slot /\ b[x[1]] \in Slot
      OBVIOUS
    <3>2. S(a[x[1]]) \in Place /\ S(b[x[1]]) \in Place
      BY <3>1, PlaceFacts
    <3>3. x[2].mem[S(b[x[1]])] \in Value
      BY <3>1, <3>2 DEF Stores
    <3> DEFINE d == x[2]
               p == S(a[x[1]])
               v == d.mem[S(b[x[1]])]
    <3>4. CopyStep(x[2], a[x[1]], b[x[1]]) = setobj(d, p, v)
      BY DEF CopyStep
    <3>5. d \in Stores /\ p \in Place /\ v \in Value
      BY <3>1, <3>2, <3>3
    <3> HIDE DEF d, p, v
    <3>6. setobj(d, p, v) \in Stores
      BY <3>5, SetObjShape
    <3> QED
      BY <3>4, <3>6
  <2> QED
    BY <2>1
<1> HIDE DEF g
<1>2. PICK f : LoopRun(f, k, Stores, c, g)
  BY <1>1, LoopExists
<1>3. f \in [0 .. k -> Stores] /\ f[0] = c /\ \A n \in 1 .. k : f[n] = g[<<n, f[n - 1]>>]
  BY <1>2 DEF LoopRun
<1>4. ASSUME NEW n \in 0 .. k
      PROVE  f[n] = IF n = 0 THEN c ELSE CopyStep(f[n - 1], a[n], b[n])
  <2>1. CASE n = 0
    BY <1>3, <2>1
  <2>2. CASE n # 0
    <3>1. n \in 1 .. k /\ n - 1 \in 0 .. k
      BY <2>2
    <3>2. <<n, f[n - 1]>> \in (1 .. k) \X Stores
      BY <1>3, <3>1
    <3>3. g[<<n, f[n - 1]>>] = CopyStep(f[n - 1], a[n], b[n])
      BY <3>2 DEF g
    <3> QED
      BY <1>3, <2>2, <3>1, <3>3
  <2> QED
    BY <2>1, <2>2
<1>5. f = [n \in 0 .. k |-> f[n]]
  BY <1>3
<1>6. f = [n \in 0 .. k |-> IF n = 0 THEN c ELSE CopyStep(f[n - 1], a[n], b[n])]
  BY <1>4, <1>5
<1>7. CopyLoop(f, c, k, a, b)
  BY <1>6 DEF CopyLoop
<1> QED
  BY <1>7

(* ... that keeps the store good and writes no slot but those of a.        *)
CopyRun(s, c, k, a, b) == s[0] = c /\ \A n \in 1 .. k : s[n] = CopyStep(s[n - 1], a[n], b[n])

CopyKept(d, c, k, a) ==
  \A q \in Place : (\A n \in 1 .. k : q # S(a[n])) => d.mem[q] = c.mem[q]

LEMMA CopyLoopGood ==
  ASSUME NEW c, NEW G, Good(c, G),
         NEW k \in Nat, NEW a \in [1 .. k -> Slot], NEW b \in [1 .. k -> Slot], NEW s,
         CopyRun(s, c, k, a, b)
  PROVE  Good(s[k], G) /\ CopyKept(s[k], c, k, a)
<1> DEFINE T == {n \in Nat : n <= k =>
                   /\ Good(s[n], G)
                   /\ \A q \in Place : (\A j \in 1 .. k : q # S(a[j])) => s[n].mem[q] = c.mem[q]}
<1>1. 0 \in T
  BY DEF CopyRun
<1>2. ASSUME NEW n \in Nat, n \in T PROVE n + 1 \in T
  <2> SUFFICES ASSUME n + 1 <= k
               PROVE  /\ Good(s[n + 1], G)
                      /\ \A q \in Place : (\A j \in 1 .. k : q # S(a[j]))
                                            => s[n + 1].mem[q] = c.mem[q]
    OBVIOUS
  <2>1. n <= k /\ n + 1 \in 1 .. k /\ (n + 1) - 1 = n
    OBVIOUS
  <2> DEFINE d == s[n]
             i == a[n + 1]
             j == b[n + 1]
  <2>2. Good(d, G)
    BY <1>2, <2>1
  <2>3. i \in Slot /\ j \in Slot
    BY <2>1
  <2>4. s[n + 1] = setobj(d, S(i), d.mem[S(j)])
    BY <2>1 DEF CopyRun, CopyStep
  <2>5. \A q \in Place : (\A m \in 1 .. k : q # S(a[m])) => d.mem[q] = c.mem[q]
    BY <1>2, <2>1
  <2>6. \A q \in Place : (\A m \in 1 .. k : q # S(a[m])) => q # S(i)
    BY <2>1
  <2> HIDE DEF d, i, j
  <2>7. S(j) \in Place /\ Outside(S(i), G)
    BY <2>2, <2>3, PlaceFacts, OutsideFacts
  <2>8. Good(s[n + 1], G) /\ SetTo(d, s[n + 1], S(i), d.mem[S(j)])
    BY <2>2, <2>4, <2>7, GoodCopy
  <2> QED
    BY <2>5, <2>6, <2>8 DEF SetTo
<1>3. k \in T
  <2> HIDE DEF T
  <2> QED
    BY <1>1, <1>2, SetInduction
<1> QED
  BY <1>3 DEF CopyKept

LEMMA lua_settopKeeps ==
  ASSUME ApiInv, NEW i \in Slot, lua_settop(i)
  PROVE  ApiInv'
<1> USE DEF lua_settop
<1>1. Good(Store, Obj \ heap) /\ Above(Store.mem, top)
      /\ top \in 1 .. Slots + 1 /\ Slots \in Nat
  BY CallStarts
<1> DEFINE to == IF top > i THEN top ELSE i
           d == SetNilAll(Store, i, to)
<1>2. i \in 1 .. Slots + 1 /\ to \in 1 .. Slots + 1 /\ i <= to /\ top <= to
  BY <1>1 DEF Slot
<1>3. Then(d, i) /\ Same /\ Idle
  OBVIOUS
<1> HIDE DEF to
<1>4. /\ Good(d, Obj \ heap)
      /\ \A q \in Place : d.mem[q] =
           IF \E j \in i .. to - 1 : q = S(j) THEN Nil ELSE Store.mem[q]
  BY <1>1, <1>2, SetNilAllGood
<1> HIDE DEF d
<1>5. Above(d.mem, i)
  <2> SUFFICES ASSUME NEW j \in i .. Slots, d.mem[S(j)] # Nil PROVE j \in left
    BY DEF Above
  <2>1. j \in Slot /\ S(j) \in Place
    BY <1>2, PlaceFacts DEF Slot
  <2>2. j \notin i .. to - 1 /\ Store.mem[S(j)] # Nil
    BY <1>4, <2>1
  <2>3. j \in top .. Slots
    BY <1>1, <1>2, <2>2
  <2> QED
    BY <1>1, <2>2, <2>3 DEF Above
<1> QED
  BY <1>2, <1>3, <1>4, <1>5, SameEnds

LEMMA ReturnKeeps ==
  ASSUME ApiInv, Return
  PROVE  ApiInv'
<1> USE DEF Return
<1>1. Good(Store, Obj \ heap) /\ Above(Store.mem, top)
      /\ top \in 1 .. Slots + 1 /\ Slots \in Nat
  BY CallStarts
<1> DEFINE d == SetNilAll(Store, 1, top)
<1>2. 1 \in 1 .. Slots + 1 /\ 1 <= top
  BY <1>1
<1>3. Then(d, 1) /\ Same /\ Idle
  OBVIOUS
<1>4. /\ Good(d, Obj \ heap)
      /\ \A q \in Place : d.mem[q] =
           IF \E j \in 1 .. top - 1 : q = S(j) THEN Nil ELSE Store.mem[q]
  BY <1>1, <1>2, SetNilAllGood
<1> HIDE DEF d
<1>5. Above(d.mem, 1)
  <2> SUFFICES ASSUME NEW j \in 1 .. Slots, d.mem[S(j)] # Nil PROVE j \in left
    BY DEF Above
  <2>1. S(j) \in Place
    BY PlaceFacts DEF Slot
  <2>2. j \notin 1 .. top - 1 /\ Store.mem[S(j)] # Nil
    BY <1>4, <2>1
  <2>3. j \in top .. Slots
    BY <1>1, <2>2
  <2> QED
    BY <1>1, <2>2, <2>3 DEF Above
<1> QED
  BY <1>2, <1>3, <1>4, <1>5, SameEnds

(* Clearing the slot below the top pops it.                                *)
LEMMA PopGood ==
  ASSUME NEW c, NEW G, Good(c, G), NEW k \in Slot, Above(c.mem, k + 1)
  PROVE  Good(setnilvalue(c, S(k)), G) /\ Above(setnilvalue(c, S(k)).mem, k)
<1> DEFINE d == setnilvalue(c, S(k))
<1>1. Good(d, G) /\ SetTo(c, d, S(k), Nil)
  BY GoodNil
<1>2. k \in Nat /\ k + 1 \in Nat \ {0} /\ S(k) \in Place
  BY PlaceFacts DEF Slot
<1> HIDE DEF d
<1>3. Above(d.mem, k + 1)
  BY <1>1, <1>2, AboveSet
<1>4. d.mem[S(k)] = Nil
  BY <1>1, <1>2 DEF SetTo
<1>5. Above(d.mem, k)
  BY <1>2, <1>3, <1>4, AboveLess
<1> QED
  BY <1>1, <1>5 DEF d

LEMMA lua_removeKeeps ==
  ASSUME ApiInv, NEW i \in Slot, lua_remove(i)
  PROVE  ApiInv'
<1>1. Good(Store, Obj \ heap) /\ Above(Store.mem, top)
      /\ top \in 1 .. Slots + 1 /\ Slots \in Nat
  BY CallStarts DEF lua_remove
<1> DEFINE k == top - 1 - i
           move == CHOOSE s : s = [n \in 0 .. k |->
                     IF n = 0 THEN Store
                     ELSE setobj(s[n - 1], S(i + n - 1), s[n - 1].mem[S(i + n)])]
           a == [n \in 1 .. k |-> i + n - 1]
           b == [n \in 1 .. k |-> i + n]
<1>2. i < top /\ Then(setnilvalue(move[k], S(top - 1)), top - 1) /\ Same /\ Idle
  BY DEF lua_remove
<1>3. k \in Nat /\ top - 1 \in Slot /\ top - 1 \in 1 .. Slots + 1 /\ (top - 1) + 1 = top
  BY <1>1, <1>2 DEF Slot
<1>4. a \in [1 .. k -> Slot] /\ b \in [1 .. k -> Slot]
      /\ \A n \in 1 .. k : a[n] = i + n - 1 /\ b[n] = i + n
  BY <1>1, <1>2, <1>3 DEF Slot
<1>5. Store \in Stores
  BY <1>1, GoodTypes
<1> HIDE DEF k, a, b
<1>6. move = [n \in 0 .. k |->
                IF n = 0 THEN Store
                ELSE setobj(move[n - 1], S(i + n - 1), move[n - 1].mem[S(i + n)])]
  <2>1. PICK s : CopyLoop(s, Store, k, a, b)
    <3>1. k \in Nat /\ a \in [1 .. k -> Slot] /\ b \in [1 .. k -> Slot]
      BY <1>3, <1>4
    <3> QED
      BY <1>5, <3>1, CopyLoopRuns
  <2>2. ASSUME NEW n \in 0 .. k, n # 0
        PROVE  CopyStep(s[n - 1], a[n], b[n])
                 = setobj(s[n - 1], S(i + n - 1), s[n - 1].mem[S(i + n)])
    <3>1. n \in 1 .. k
      BY <2>2
    <3> QED
      BY <1>4, <3>1 DEF CopyStep
  <2>3. s = [n \in 0 .. k |->
               IF n = 0 THEN Store
               ELSE setobj(s[n - 1], S(i + n - 1), s[n - 1].mem[S(i + n)])]
    BY <2>1, <2>2 DEF CopyLoop
  <2> QED
    BY <2>3, Zenon
<1> HIDE DEF move
<1>7. move[0] = Store
  BY <1>3, <1>6
<1>8. ASSUME NEW n \in 1 .. k PROVE move[n] = CopyStep(move[n - 1], a[n], b[n])
  <2>1. n \in 0 .. k /\ n # 0
    OBVIOUS
  <2> QED
    BY <1>4, <1>6, <2>1 DEF CopyStep
<1>9. Good(move[k], Obj \ heap) /\ CopyKept(move[k], Store, k, a)
  <2>1. CopyRun(move, Store, k, a, b)
    BY <1>7, <1>8 DEF CopyRun
  <2> QED
    BY <1>1, <1>3, <1>4, <2>1, CopyLoopGood
<1>10. Above(move[k].mem, top)
  <2> SUFFICES ASSUME NEW j \in top .. Slots, move[k].mem[S(j)] # Nil PROVE j \in left
    BY DEF Above
  <2>1. S(j) \in Place
    <3>1. j \in Slot
      BY <1>1 DEF Slot
    <3> QED
      BY <3>1, PlaceFacts
  <2>2. \A n \in 1 .. k : S(j) # S(a[n])
    <3>1. \A n \in 1 .. k : j # a[n]
      BY <1>1, <1>4 DEF k, Slot
    <3> QED
      BY <3>1, PlacesDiffer
  <2>3. Store.mem[S(j)] # Nil
    BY <1>9, <2>1, <2>2 DEF CopyKept
  <2> QED
    BY <1>1, <2>3 DEF Above
<1> DEFINE d == setnilvalue(move[k], S(top - 1))
<1>11. Good(d, Obj \ heap) /\ Above(d.mem, top - 1)
  <2> DEFINE c == move[k]
             t == top - 1
  <2>1. Good(c, Obj \ heap) /\ t \in Slot /\ Above(c.mem, t + 1)
    BY <1>3, <1>9, <1>10
  <2> HIDE DEF c, t
  <2>2. Good(setnilvalue(c, S(t)), Obj \ heap) /\ Above(setnilvalue(c, S(t)).mem, t)
    BY <2>1, PopGood
  <2> QED
    BY <2>2 DEF c, t
<1>12. Then(d, top - 1)
  BY <1>2
<1> HIDE DEF d
<1> QED
  BY <1>2, <1>3, <1>11, <1>12, SameEnds

LEMMA lua_insertKeeps ==
  ASSUME ApiInv, NEW i \in Slot, lua_insert(i)
  PROVE  ApiInv'
<1>1. Good(Store, Obj \ heap) /\ Above(Store.mem, top)
      /\ top \in 1 .. Slots + 1 /\ Slots \in Nat
  BY CallStarts DEF lua_insert
<1> DEFINE k == top - i
           move == CHOOSE s : s = [n \in 0 .. k |->
                     IF n = 0 THEN Store
                     ELSE setobj(s[n - 1], S(top + 1 - n), s[n - 1].mem[S(top - n)])]
           a == [n \in 1 .. k |-> top + 1 - n]
           b == [n \in 1 .. k |-> top - n]
           up == move[k]
           d == setobj(up, S(i), up.mem[S(top)])
           e == setnilvalue(d, S(top))
<1>2. i < top /\ Room /\ Then(e, top) /\ Same /\ Idle
  BY DEF lua_insert
<1>3. k \in Nat /\ top \in Slot /\ i \in Nat \ {0} /\ top + 1 \in Nat \ {0} /\ top \in Nat
  BY <1>1, <1>2, RoomSlot DEF Slot
<1>4. a \in [1 .. k -> Slot] /\ b \in [1 .. k -> Slot]
      /\ \A n \in 1 .. k : a[n] = top + 1 - n /\ b[n] = top - n
  BY <1>1, <1>2, <1>3 DEF Slot
<1>5. Store \in Stores
  BY <1>1, GoodTypes
<1> HIDE DEF k, a, b
<1>6. move = [n \in 0 .. k |->
                IF n = 0 THEN Store
                ELSE setobj(move[n - 1], S(top + 1 - n), move[n - 1].mem[S(top - n)])]
  <2>1. PICK s : CopyLoop(s, Store, k, a, b)
    <3>1. k \in Nat /\ a \in [1 .. k -> Slot] /\ b \in [1 .. k -> Slot]
      BY <1>3, <1>4
    <3> QED
      BY <1>5, <3>1, CopyLoopRuns
  <2>2. ASSUME NEW n \in 0 .. k, n # 0
        PROVE  CopyStep(s[n - 1], a[n], b[n])
                 = setobj(s[n - 1], S(top + 1 - n), s[n - 1].mem[S(top - n)])
    <3>1. n \in 1 .. k
      BY <2>2
    <3> QED
      BY <1>4, <3>1 DEF CopyStep
  <2>3. s = [n \in 0 .. k |->
               IF n = 0 THEN Store
               ELSE setobj(s[n - 1], S(top + 1 - n), s[n - 1].mem[S(top - n)])]
    BY <2>1, <2>2 DEF CopyLoop
  <2> QED
    BY <2>3, Zenon
<1> HIDE DEF move
<1>7. CopyRun(move, Store, k, a, b)
  <2>1. move[0] = Store
    BY <1>3, <1>6
  <2>2. ASSUME NEW n \in 1 .. k PROVE move[n] = CopyStep(move[n - 1], a[n], b[n])
    <3>1. n \in 0 .. k /\ n # 0
      OBVIOUS
    <3> QED
      BY <1>4, <1>6, <3>1 DEF CopyStep
  <2> QED
    BY <2>1, <2>2 DEF CopyRun
<1>8. Good(up, Obj \ heap) /\ CopyKept(up, Store, k, a)
  BY <1>1, <1>3, <1>4, <1>7, CopyLoopGood
<1> HIDE DEF up
<1>9. Above(up.mem, top + 1)
  <2> SUFFICES ASSUME NEW j \in top + 1 .. Slots, up.mem[S(j)] # Nil PROVE j \in left
    BY DEF Above
  <2>1. S(j) \in Place
    <3>1. j \in Slot
      BY <1>1 DEF Slot
    <3> QED
      BY <3>1, PlaceFacts
  <2>2. \A n \in 1 .. k : S(j) # S(a[n])
    <3>1. \A n \in 1 .. k : j # a[n]
      BY <1>1, <1>4
    <3> QED
      BY <3>1, PlacesDiffer
  <2>3. Store.mem[S(j)] # Nil
    BY <1>8, <2>1, <2>2 DEF CopyKept
  <2>4. j \in top .. Slots
    BY <1>1
  <2> QED
    BY <1>1, <2>3, <2>4 DEF Above
<1>10. Good(d, Obj \ heap) /\ SetTo(up, d, S(i), up.mem[S(top)])
  <2>1. S(top) \in Place
    BY <1>3, PlaceFacts
  <2>2. Outside(S(i), Obj \ heap)
    BY <1>1, OutsideFacts
  <2> QED
    BY <1>8, <2>1, <2>2, GoodCopy
<1> HIDE DEF d
<1>11. Above(d.mem, top + 1)
  <2>1. \A j \in top + 1 .. Slots : S(i) # S(j)
    <3>1. \A j \in top + 1 .. Slots : i # j
      BY <1>1, <1>2, <1>3
    <3> QED
      BY <3>1, PlacesDiffer
  <2> QED
    BY <1>3, <1>9, <1>10, <2>1, AboveSet
<1>12. Good(e, Obj \ heap) /\ Above(e.mem, top)
  BY <1>3, <1>10, <1>11, PopGood
<1> HIDE DEF e
<1> QED
  BY <1>1, <1>2, <1>12, SameEnds

(* A value is popped after a place below it, or a field, was written.      *)
LEMMA SetThenPop ==
  ASSUME ApiInv, Idle, top > 1, NEW c, Good(c, Obj \ heap), Above(c.mem, top),
         Then(setnilvalue(c, S(top - 1)), top - 1), Same
  PROVE  ApiInv'
<1>1. top \in 1 .. Slots + 1 /\ Slots \in Nat
  BY CallStarts
<1>2. top - 1 \in Slot /\ top - 1 \in 1 .. Slots + 1 /\ (top - 1) + 1 = top
  BY <1>1, RoomSlot
<1> DEFINE k == top - 1
           d == setnilvalue(c, S(k))
<1>3. Good(d, Obj \ heap) /\ Above(d.mem, k)
  <2>1. k \in Slot /\ Above(c.mem, k + 1)
    BY <1>2
  <2> HIDE DEF k
  <2> QED
    BY <2>1, PopGood
<1>4. Then(d, k) /\ k \in 1 .. Slots + 1
  BY <1>2
<1> HIDE DEF d, k
<1> QED
  BY <1>3, <1>4, SameEnds

(* One setobj of what a place holds, to a place a function may write.      *)
LEMMA CopyGood ==
  ASSUME NEW c, NEW G, Good(c, G), NEW k \in Nat \ {0}, Above(c.mem, k),
         NEW p, Outside(p, G), NEW q \in Place, \A i \in k .. Slots : p # S(i)
  PROVE  /\ Good(setobj(c, p, c.mem[q]), G)
         /\ SetTo(c, setobj(c, p, c.mem[q]), p, c.mem[q])
         /\ Above(setobj(c, p, c.mem[q]).mem, k)
<1> DEFINE d == setobj(c, p, c.mem[q])
<1>1. Good(d, G) /\ SetTo(c, d, p, c.mem[q])
  BY GoodCopy
<1> HIDE DEF d
<1>2. Above(d.mem, k)
  BY <1>1, AboveSet
<1> QED
  BY <1>1, <1>2 DEF d

(* A place that an index names can be written.                             *)
LEMMA NamedOutside ==
  ASSUME NEW c, NEW G, Good(c, G), top \in 1 .. Slots + 1, NEW p \in index2adr
  PROVE  p \in Place /\ Outside(p, G) /\ \A i \in top .. Slots : p # S(i)
<1>1. p \in Place
  BY NamedPlaces
<1>2. CASE \E i \in Slot : i < top /\ p = S(i)
  <2>1. PICK i \in Slot : i < top /\ p = S(i)
    BY <1>2
  <2>2. \A j \in top .. Slots : i # j
    BY <2>1, ApiAssumption DEF Slot
  <2> QED
    BY <1>1, <2>1, <2>2, OutsideFacts, PlacesDiffer
<1>3. CASE p = GlobalsIndex \/ p = F(Running, "value")
  BY <1>1, <1>3, OutsideFacts, PlacesDiffer
<1> QED
  BY <1>2, <1>3, NamedPlaces

LEMMA lua_replaceKeeps ==
  ASSUME ApiInv, NEW p \in index2adr, lua_replace(p)
  PROVE  ApiInv'
<1>1. Good(Store, Obj \ heap) /\ Above(Store.mem, top) /\ Store.mem = mem
      /\ top \in 1 .. Slots + 1 /\ Slots \in Nat
  BY CallStarts DEF lua_replace
<1>2. Idle /\ top > 1 /\ Same
      /\ Then(setnilvalue(setobj(Store, p, Store.mem[S(top - 1)]), S(top - 1)), top - 1)
  BY <1>1 DEF lua_replace
<1>3. S(top - 1) \in Place /\ top \in Nat \ {0}
  BY <1>1, <1>2, RoomSlot, PlaceFacts
<1>4. Outside(p, Obj \ heap) /\ \A i \in top .. Slots : p # S(i)
  BY <1>1, NamedOutside
<1> DEFINE c == setobj(Store, p, Store.mem[S(top - 1)])
<1>5. Good(c, Obj \ heap) /\ Above(c.mem, top)
  BY <1>1, <1>3, <1>4, CopyGood
<1> HIDE DEF c
<1>6. Then(setnilvalue(c, S(top - 1)), top - 1)
  BY <1>2 DEF c
<1> QED
  BY <1>2, <1>5, <1>6, SetThenPop

LEMMA lua_replaceEnvKeeps ==
  ASSUME ApiInv, lua_replaceEnv
  PROVE  ApiInv'
<1>1. Good(Store, Obj \ heap) /\ Above(Store.mem, top) /\ Store.mem = mem
      /\ top \in 1 .. Slots + 1 /\ Slots \in Nat
  BY CallStarts DEF lua_replaceEnv
<1> DEFINE e == EnvironIndex(Store)
<1>2. Idle /\ top > 1 /\ Same
      /\ Then(setnilvalue(setobj(e, F(Running, "env"), mem[S(top - 1)]), S(top - 1)), top - 1)
  BY DEF lua_replaceEnv
<1>3. S(top - 1) \in Place /\ top \in Nat \ {0} /\ S(top - 1) # EnvSlot
  BY <1>1, <1>2, RoomSlot, PlaceFacts, PlacesDiffer
<1>4. Good(e, Obj \ heap) /\ Above(e.mem, top)
      /\ SetTo(Store, e, EnvSlot, Store.mem[F(Running, "env")])
  BY <1>1, <1>3, EnvironGood
<1>5. e.mem[S(top - 1)] = mem[S(top - 1)]
  BY <1>1, <1>3, <1>4 DEF SetTo
<1> HIDE DEF e
<1> DEFINE c == setobj(e, F(Running, "env"), e.mem[S(top - 1)])
<1>6. Good(c, Obj \ heap) /\ Above(c.mem, top)
  <2>1. Outside(F(Running, "env"), Obj \ heap) /\ \A i \in top .. Slots : F(Running, "env") # S(i)
    BY <1>4, OutsideFacts, PlacesDiffer
  <2> QED
    BY <1>3, <1>4, <2>1, CopyGood
<1> HIDE DEF c
<1>7. Then(setnilvalue(c, S(top - 1)), top - 1)
  BY <1>2, <1>5 DEF c
<1> QED
  BY <1>2, <1>6, <1>7, SetThenPop

-----------------------------------------------------------------------------
(* New objects                                                             *)

(* Fewer objects that do not exist ask for less.                           *)
LEMMA GoodFewer ==
  ASSUME NEW c, NEW G, Good(c, G), NEW H \in SUBSET G
  PROVE  Good(c, H)
<1>1. Sound(c, Owed, {}, H)
  <2>1. Sound(c, Owed, {}, G)
    BY DEF Good
  <2>2. c.zero \cup H \subseteq c.zero \cup G
    OBVIOUS
  <2> QED
    BY <2>1, <2>2 DEF Sound
<1> QED
  BY <1>1 DEF Good

(* A field of an object that did not exist is nil; setobj2n writes it.     *)
LEMMA NewField ==
  ASSUME NEW c, NEW G, NEW o \in Obj, Good(c, G), o \notin G, o \notin c.zero,
         NEW f \in Fields(o), c.mem[F(o, f)] = Nil,
         NEW q \in Place, NEW k \in Nat \ {0}, Above(c.mem, k)
  PROVE  LET d == setobj2n(c, F(o, f), c.mem[q])
         IN /\ Good(d, G) /\ SetTo(c, d, F(o, f), c.mem[q])
            /\ Above(d.mem, k) /\ o \notin d.zero
<1> DEFINE d == setobj(c, F(o, f), c.mem[q])
<1>1. Outside(F(o, f), G) /\ F(o, f) \in Place
  BY OutsideFacts, PlaceFacts
<1>2. c \in Stores /\ c.mem[q] \in Value
  BY GoodTypes
<1>3. setobj2n(c, F(o, f), c.mem[q]) = d
  BY <1>1, <1>2, SetNewShape
<1>4. \A i \in k .. Slots : F(o, f) # S(i)
  BY PlacesDiffer, FieldNames
<1>5. Good(d, G) /\ SetTo(c, d, F(o, f), c.mem[q]) /\ Above(d.mem, k)
  BY <1>1, <1>4, CopyGood
<1> HIDE DEF d
<1>6. o \notin d.zero
  <2>1. o # Nil
    BY ApiAssumption
  <2> QED
    BY <1>5, <2>1 DEF SetTo
<1> QED
  BY <1>3, <1>5, <1>6

(* The new object is put in a slot.                                        *)
LEMMA PushNew ==
  ASSUME ApiInv, Idle, NEW o \in Obj, o \notin heap, heap' = heap \cup {o},
         NEW c, Good(c, (Obj \ heap) \ {o}), o \notin c.zero,
         NEW k \in Slot, Above(c.mem, k + 1), Then(setobj(c, S(k), o), k + 1),
         UNCHANGED <<dying, half, leaked>>
  PROVE  ApiInv'
<1> DEFINE G == (Obj \ heap) \ {o}
           d == setobj(c, S(k), o)
<1>1. heap \subseteq Obj /\ Slots \in Nat
  BY CallStarts
<1>2. Obj \ heap' = G /\ heap' \subseteq Obj
  BY <1>1
<1>3. k + 1 \in 1 .. Slots + 1 /\ k + 1 \in Nat \ {0}
  BY <1>1 DEF Slot
<1> HIDE DEF G
<1>4. Good(c, G) /\ o \notin G
  BY DEF G
<1>5. CanSet(c, S(k), o, {}, G)
  <2>1. Outside(S(k), G)
    BY <1>4, OutsideFacts
  <2> QED
    BY <1>4, <2>1 DEF CanSet, Outside, Value
<1>6. Good(d, G) /\ SetTo(c, d, S(k), o)
  BY <1>4, <1>5, GoodSet
<1> HIDE DEF d
<1>7. Above(d.mem, k + 1)
  <2>1. \A i \in k + 1 .. Slots : S(k) # S(i)
    <3>1. \A i \in k + 1 .. Slots : k # i
      BY <1>3
    <3> QED
      BY <3>1, PlacesDiffer
  <2> QED
    BY <1>3, <1>6, <2>1, AboveSet
<1>8. Then(d, k + 1)
  BY DEF d
<1>9. Good(d, Obj \ heap')
  BY <1>2, <1>6
<1> QED
  BY <1>2, <1>3, <1>7, <1>8, <1>9, ThenEnds

(* An object that did not exist, and the store before it is linked.        *)
LEMMA NewStarts ==
  ASSUME ApiInv, Idle, NEW o \in Obj, o \notin heap
  PROVE  /\ Good(Store, (Obj \ heap) \ {o}) /\ Above(Store.mem, top) /\ Store.mem = mem
         /\ o \notin Store.zero
         /\ \A f \in Fields(o) : Store.mem[F(o, f)] = Nil
         /\ top \in 1 .. Slots + 1 /\ Slots \in Nat
         /\ F(Running, "env") \in Place /\ GlobalsIndex \in Place
<1>1. /\ Good(Store, Obj \ heap) /\ Above(Store.mem, top) /\ Store.mem = mem
      /\ Store.zero = {} /\ top \in 1 .. Slots + 1 /\ Slots \in Nat
  BY CallStarts
<1>2. Good(Store, (Obj \ heap) \ {o})
  BY <1>1, GoodFewer
<1>3. \A f \in Fields(o) : Store.mem[F(o, f)] = Nil
  BY <1>1 DEF Good, Sound
<1>4. F(Running, "env") \in Place /\ GlobalsIndex \in Place
  BY <1>1, OutsideFacts DEF Outside
<1> QED
  BY <1>1, <1>2, <1>3, <1>4

LEMMA lua_createtableKeeps ==
  ASSUME ApiInv, NEW o \in Obj, lua_createtable(o)
  PROVE  ApiInv'
<1>1. /\ Idle /\ Room /\ o \notin heap /\ heap' = heap \cup {o}
      /\ Then(setobj(Store, S(top), o), top + 1)
      /\ UNCHANGED <<dying, half, leaked>>
  BY DEF lua_createtable, New, Push
<1>2. /\ Good(Store, (Obj \ heap) \ {o}) /\ Above(Store.mem, top)
      /\ o \notin Store.zero /\ top \in 1 .. Slots + 1 /\ Slots \in Nat
  BY <1>1, NewStarts
<1>3. top \in Slot /\ top \in Nat /\ top + 1 \in Nat
  BY <1>1, <1>2, RoomSlot
<1>4. Above(Store.mem, top + 1)
  BY <1>2, <1>3, AboveMore
<1> QED
  BY <1>1, <1>2, <1>3, <1>4, PushNew

(* The same with the environment field first.                              *)
LEMMA NewWithEnv ==
  ASSUME ApiInv, NEW o \in Obj, "env" \in Fields(o), NEW q \in Place,
         NEW k, New(o, k, setobj2n(Store, F(o, "env"), mem[q]))
  PROVE  ApiInv'
<1> DEFINE c == setobj2n(Store, F(o, "env"), Store.mem[q])
<1>1. /\ Idle /\ Room /\ o \notin heap /\ heap' = heap \cup {o}
      /\ Then(setobj(c, S(top), o), top + 1)
      /\ UNCHANGED <<dying, half, leaked>>
  BY DEF New, Push, Store
<1>2. /\ Good(Store, (Obj \ heap) \ {o}) /\ Above(Store.mem, top)
      /\ o \notin Store.zero /\ top \in 1 .. Slots + 1 /\ Slots \in Nat
      /\ Store.mem[F(o, "env")] = Nil
  BY <1>1, NewStarts
<1>3. top \in Slot /\ top \in Nat \ {0} /\ top + 1 \in Nat \ {0}
  BY <1>1, <1>2, RoomSlot
<1>4. Above(Store.mem, top + 1)
  BY <1>2, <1>3, AboveMore
<1>5. Good(c, (Obj \ heap) \ {o}) /\ Above(c.mem, top + 1) /\ o \notin c.zero
  <2> DEFINE G == (Obj \ heap) \ {o}
  <2>1. Good(Store, G) /\ o \notin G
    BY <1>2
  <2> HIDE DEF G
  <2>2. Good(c, G) /\ Above(c.mem, top + 1) /\ o \notin c.zero
    BY <1>2, <1>3, <1>4, <2>1, NewField
  <2> QED
    BY <2>2 DEF G
<1> HIDE DEF c
<1> QED
  BY <1>1, <1>3, <1>5, PushNew

LEMMA lua_newuserdataKeeps ==
  ASSUME ApiInv, NEW o \in Obj, lua_newuserdata(o)
  PROVE  ApiInv'
<1>1. Idle /\ o \notin heap /\ Kind[o] = "userdata"
  BY DEF lua_newuserdata, New
<1>2. "env" \in Fields(o)
  BY <1>1 DEF Fields
<1>3. New(o, "userdata", setobj2n(Store, F(o, "env"), mem[F(Running, "env")]))
  BY DEF lua_newuserdata, getcurrenv
<1>4. F(Running, "env") \in Place
  BY <1>1, NewStarts
<1> QED
  BY <1>2, <1>3, <1>4, NewWithEnv

LEMMA lua_newthreadKeeps ==
  ASSUME ApiInv, NEW o \in Obj, lua_newthread(o)
  PROVE  ApiInv'
<1>1. Idle /\ o \notin heap /\ Kind[o] = "thread"
  BY DEF lua_newthread, New
<1>2. "env" \in Fields(o)
  BY <1>1 DEF Fields
<1>3. New(o, "thread", setobj2n(Store, F(o, "env"), mem[GlobalsIndex]))
  BY DEF lua_newthread
<1>4. GlobalsIndex \in Place
  BY PlaceFacts
<1> QED
  BY <1>2, <1>3, <1>4, NewWithEnv

LEMMA lua_pushcclosureKeeps ==
  ASSUME ApiInv, NEW o \in Obj, NEW n \in 0 .. 1, lua_pushcclosure(o, n)
  PROVE  ApiInv'
<1> DEFINE c == setobj2n(Store, F(o, "env"), Store.mem[F(Running, "env")])
           u == setobj2n(c, F(o, "value"), c.mem[S(top - 1)])
           G == (Obj \ heap) \ {o}
<1>1. /\ Idle /\ o \notin heap /\ heap' = heap \cup {o} /\ Kind[o] = "function"
      /\ top > n /\ top - n <= Slots
      /\ UNCHANGED <<dying, half, leaked>>
      /\ Then(setobj(IF n = 0 THEN c ELSE setnilvalue(u, S(top - 1)), S(top - n), o),
              top - n + 1)
  BY DEF lua_pushcclosure, getcurrenv, Store
<1>2. "env" \in Fields(o) /\ "value" \in Fields(o)
  BY <1>1 DEF Fields
<1>3. /\ Good(Store, G) /\ o \notin G /\ Above(Store.mem, top)
      /\ o \notin Store.zero /\ top \in 1 .. Slots + 1 /\ Slots \in Nat
      /\ Store.mem[F(o, "env")] = Nil /\ Store.mem[F(o, "value")] = Nil
      /\ F(Running, "env") \in Place
  BY <1>1, <1>2, NewStarts
<1> HIDE DEF G
<1>4. top \in Nat \ {0}
  BY <1>3
<1>5. /\ Good(c, G) /\ Above(c.mem, top) /\ o \notin c.zero
      /\ SetTo(Store, c, F(o, "env"), Store.mem[F(Running, "env")])
  BY <1>2, <1>3, <1>4, NewField
<1> HIDE DEF c
<1>6. CASE n = 0
  <2>1. top \in Slot /\ top + 1 \in Nat /\ top \in Nat
    BY <1>1, <1>3, <1>6 DEF Slot
  <2>2. Above(c.mem, top + 1)
    BY <1>5, <2>1, AboveMore
  <2>3. Then(setobj(c, S(top), o), top + 1)
    <3>1. top - n = top
      BY <1>6, <2>1
    <3> QED
      BY <1>1, <1>6, <3>1
  <2> QED
    BY <1>1, <1>5, <2>1, <2>2, <2>3, PushNew DEF G
<1>7. CASE n = 1
  <2>1. top - 1 \in Slot /\ (top - 1) + 1 = top /\ top - n = top - 1
    BY <1>1, <1>3, <1>7 DEF Slot
  <2>2. S(top - 1) \in Place
    BY <2>1, PlaceFacts
  <2>3. F(o, "value") \in Place /\ F(o, "value") # F(o, "env")
    BY <1>2, PlaceFacts, PlacesDiffer
  <2>4. c.mem[F(o, "value")] = Nil
    BY <1>3, <1>5, <2>3 DEF SetTo
  <2>5. Good(u, G) /\ Above(u.mem, top) /\ o \notin u.zero
    BY <1>2, <1>3, <1>4, <1>5, <2>2, <2>4, NewField
  <2>6. u.mem \in [Place -> Value] /\ \A p \in Place : u.mem[p] # o
    <3>1. Good(u, G) /\ u.mem \in [Place -> Value]
      BY <2>5, GoodTypes
    <3>2. \A p \in Place : Store.mem[p] # o
      <4>1. Good(Store, Obj \ heap)
        BY <1>1, CallStarts
      <4> QED
        BY <1>1, <4>1, GoodTypes
    <3>3. \A p \in Place : c.mem[p] # o
      BY <1>3, <1>5, <3>2 DEF SetTo
    <3>4. SetTo(c, u, F(o, "value"), c.mem[S(top - 1)])
      BY <1>2, <1>3, <1>4, <1>5, <2>2, <2>4, NewField
    <3> QED
      BY <2>2, <3>1, <3>3, <3>4 DEF SetTo
  <2> HIDE DEF u
  <2> DEFINE k == top - 1
             d == setnilvalue(u, S(k))
  <2>7. k \in Slot /\ k + 1 = top
    BY <2>1
  <2>8. Then(setobj(d, S(k), o), k + 1)
    BY <1>1, <1>7, <2>1
  <2> HIDE DEF k
  <2>9. Good(d, G) /\ SetTo(u, d, S(k), Nil)
    BY <2>5, <2>7, GoodNil
  <2> HIDE DEF d
  <2>10. Above(d.mem, k + 1) /\ o \notin d.zero
    <3>1. Above(d.mem, top)
      BY <1>4, <2>5, <2>9, AboveSet
    <3>2. S(k) \in Place
      BY <2>7, PlaceFacts
    <3> QED
      BY <2>5, <2>6, <2>7, <2>9, <3>1, <3>2 DEF SetTo
  <2> QED
    BY <1>1, <2>7, <2>8, <2>9, <2>10, PushNew DEF G
<1> QED
  BY <1>6, <1>7

-----------------------------------------------------------------------------
(* Tables, metatables, environments, upvalues                              *)

(* The field of an object that an index names.                             *)
LEMMA FieldOfNamed ==
  ASSUME NEW c, NEW G, Good(c, G), top \in 1 .. Slots + 1, NEW p \in index2adr,
         c.mem[p] \in Obj, NEW f \in Fields(c.mem[p])
  PROVE  /\ F(c.mem[p], f) \in Place /\ Outside(F(c.mem[p], f), G)
         /\ \A i : S(i) # F(c.mem[p], f)
<1>1. p \in Place
  BY NamedPlaces
<1> QED
  BY <1>1, OutsideFacts, PlacesDiffer, FieldNames DEF Outside

LEMMA KindFields ==
  ASSUME NEW p
  PROVE  /\ IsA(p, "table") => mem[p] \in Obj /\ Fields(mem[p]) = {"metatable", "value"}
         /\ IsA(p, "userdata") => mem[p] \in Obj /\ Fields(mem[p]) = {"metatable", "env"}
         /\ IsA(p, "function") => mem[p] \in Obj /\ Fields(mem[p]) = {"env", "value"}
         /\ IsA(p, "thread") => mem[p] \in Obj /\ Fields(mem[p]) = {"env"}
BY DEF IsA, Fields

(* What a place holds is pushed; nothing else changes.                     *)
LEMMA PushEnds ==
  ASSUME ApiInv, Idle, Room, NEW q \in Place, Then(Push(Store, mem[q]), top + 1), Same
  PROVE  ApiInv'
<1>1. Good(Store, Obj \ heap) /\ Above(Store.mem, top) /\ Store.mem = mem
      /\ top \in 1 .. Slots + 1 /\ Slots \in Nat
  BY CallStarts
<1>2. top \in Slot /\ top + 1 \in 1 .. Slots + 1
  BY <1>1, RoomSlot
<1> DEFINE c == Push(Store, Store.mem[q])
<1>3. Good(c, Obj \ heap) /\ Above(c.mem, top + 1)
  BY <1>1, <1>2, PushGood
<1>4. Then(c, top + 1)
  BY <1>1
<1> HIDE DEF c
<1> QED
  BY <1>2, <1>3, <1>4, SameEnds

(* Nil is pushed.                                                          *)
LEMMA PushNilEnds ==
  ASSUME ApiInv, Idle, Room, Then(Push(Store, Nil), top + 1), Same
  PROVE  ApiInv'
<1>1. Good(Store, Obj \ heap) /\ Above(Store.mem, top) /\ Store.mem = mem
      /\ top \in 1 .. Slots + 1 /\ Slots \in Nat
  BY CallStarts
<1>2. top \in Slot /\ top + 1 \in 1 .. Slots + 1 /\ top \in Nat \ {0} /\ top + 1 \in Nat
  BY <1>1, RoomSlot
<1> DEFINE c == setnilvalue(Store, S(top))
<1>3. Good(c, Obj \ heap) /\ SetTo(Store, c, S(top), Nil)
  BY <1>1, <1>2, GoodNil
<1>4. Then(c, top + 1)
  BY DEF Push, setnilvalue
<1> HIDE DEF c
<1>5. Above(c.mem, top)
  BY <1>1, <1>2, <1>3, AboveSet
<1>6. Above(c.mem, top + 1)
  BY <1>2, <1>5, AboveMore
<1> QED
  BY <1>2, <1>3, <1>4, <1>6, SameEnds

(* lua_rawgeti, lua_getmetatable, lua_getfenv, lua_getupvalue push what a  *)
(* field of the object holds.                                              *)
LEMMA PushFieldEnds ==
  ASSUME ApiInv, Idle, Room, NEW p \in index2adr, mem[p] \in Obj, NEW f \in Fields(mem[p]),
         Then(Push(Store, mem[F(mem[p], f)]), top + 1), Same
  PROVE  ApiInv'
<1>1. Good(Store, Obj \ heap) /\ Store.mem = mem /\ top \in 1 .. Slots + 1
  BY CallStarts
<1>2. F(mem[p], f) \in Place
  BY <1>1, FieldOfNamed
<1> QED
  BY <1>2, PushEnds

LEMMA lua_rawgetiKeeps ==
  ASSUME ApiInv, NEW p \in index2adr, lua_rawgeti(p)
  PROVE  ApiInv'
BY KindFields, PushFieldEnds DEF lua_rawgeti

LEMMA lua_getupvalueKeeps ==
  ASSUME ApiInv, NEW p \in index2adr, lua_getupvalue(p)
  PROVE  ApiInv'
BY KindFields, PushFieldEnds DEF lua_getupvalue

LEMMA lua_getmetatableKeeps ==
  ASSUME ApiInv, NEW p \in index2adr, lua_getmetatable(p)
  PROVE  ApiInv'
BY KindFields, PushFieldEnds DEF lua_getmetatable, HasMetatable

LEMMA lua_getfenvKeeps ==
  ASSUME ApiInv, NEW p \in index2adr, lua_getfenv(p)
  PROVE  ApiInv'
<1>1. CASE mem[p] \in Obj /\ "env" \in Fields(mem[p])
  BY <1>1, PushFieldEnds DEF lua_getfenv
<1>2. CASE ~(mem[p] \in Obj /\ "env" \in Fields(mem[p]))
  BY <1>2, PushNilEnds DEF lua_getfenv
<1> QED
  BY <1>1, <1>2

(* The value of the slot below the top goes to a field of a named object.  *)
LEMMA SetFieldGood ==
  ASSUME ApiInv, Idle, top > 1, NEW p \in index2adr, mem[p] \in Obj, NEW f \in Fields(mem[p])
  PROVE  LET c == setobj(Store, F(mem[p], f), mem[S(top - 1)])
         IN /\ Good(c, Obj \ heap) /\ Above(c.mem, top)
            /\ SetTo(Store, c, F(mem[p], f), mem[S(top - 1)])
            /\ top \in 1 .. Slots + 1 /\ Slots \in Nat
<1>1. Good(Store, Obj \ heap) /\ Above(Store.mem, top) /\ Store.mem = mem
      /\ top \in 1 .. Slots + 1 /\ Slots \in Nat
  BY CallStarts
<1>2. S(top - 1) \in Place /\ top \in Nat \ {0}
  BY <1>1, RoomSlot, PlaceFacts
<1> DEFINE x == F(mem[p], f)
<1>3. Outside(x, Obj \ heap) /\ \A i : S(i) # x
  BY <1>1, FieldOfNamed
<1> HIDE DEF x
<1> DEFINE c == setobj(Store, x, Store.mem[S(top - 1)])
<1>4. Good(c, Obj \ heap) /\ SetTo(Store, c, x, Store.mem[S(top - 1)]) /\ Above(c.mem, top)
  BY <1>1, <1>2, <1>3, CopyGood
<1> QED
  BY <1>1, <1>4 DEF x

LEMMA lua_rawgetKeeps ==
  ASSUME ApiInv, NEW p \in index2adr, lua_rawget(p)
  PROVE  ApiInv'
<1>1. Idle /\ top > 1 /\ IsA(p, "table") /\ Same
      /\ Then(setobj(Store, S(top - 1), mem[F(mem[p], "value")]), top)
  BY DEF lua_rawget
<1>2. Good(Store, Obj \ heap) /\ Above(Store.mem, top) /\ Store.mem = mem
      /\ top \in 1 .. Slots + 1 /\ Slots \in Nat
  BY <1>1, CallStarts
<1>3. F(mem[p], "value") \in Place
  BY <1>1, <1>2, KindFields, FieldOfNamed
<1>4. Outside(S(top - 1), Obj \ heap) /\ top \in Nat \ {0}
      /\ \A i \in top .. Slots : S(top - 1) # S(i)
  BY <1>1, <1>2, RoomSlot, OutsideFacts, PlacesDiffer
<1> DEFINE x == F(mem[p], "value")
           c == setobj(Store, S(top - 1), Store.mem[x])
<1>5. Then(c, top) /\ x \in Place
  BY <1>1, <1>2, <1>3
<1> HIDE DEF x
<1>6. Good(c, Obj \ heap) /\ Above(c.mem, top)
  BY <1>2, <1>4, <1>5, CopyGood
<1> HIDE DEF c
<1> QED
  BY <1>1, <1>2, <1>5, <1>6, SameEnds

LEMMA lua_rawsetiKeeps ==
  ASSUME ApiInv, NEW p \in index2adr, lua_rawseti(p)
  PROVE  ApiInv'
<1> DEFINE c == setobj(Store, F(mem[p], "value"), mem[S(top - 1)])
<1>1. Idle /\ top > 1 /\ IsA(p, "table") /\ Same
      /\ Then(setnilvalue(c, S(top - 1)), top - 1)
  BY DEF lua_rawseti
<1>2. Good(c, Obj \ heap) /\ Above(c.mem, top)
  BY <1>1, KindFields, SetFieldGood
<1> HIDE DEF c
<1> QED
  BY <1>1, <1>2, SetThenPop

LEMMA lua_rawsetKeeps ==
  ASSUME ApiInv, NEW p \in index2adr, lua_rawset(p)
  PROVE  ApiInv'
<1> DEFINE c == setobj(Store, F(mem[p], "value"), mem[S(top - 1)])
           d == setnilvalue(c, S(top - 2))
           e == setnilvalue(d, S(top - 1))
<1>1. Idle /\ top > 2 /\ IsA(p, "table") /\ Same /\ Then(e, top - 2)
  BY DEF lua_rawset
<1>2. top \in 1 .. Slots + 1 /\ Slots \in Nat
  BY <1>1, CallStarts
<1>3. /\ top > 1 /\ top \in Nat \ {0} /\ (top - 1) + 1 = top /\ (top - 2) + 1 = top - 1
      /\ top - 1 \in Slot /\ top - 2 \in Slot /\ top - 2 \in 1 .. Slots + 1
      /\ top - 2 \in Nat /\ top - 1 # top - 2
  BY <1>1, <1>2, RoomSlot DEF Slot
<1>4. Good(c, Obj \ heap) /\ Above(c.mem, top)
  BY <1>1, <1>3, KindFields, SetFieldGood
<1> HIDE DEF c
<1> DEFINE i == top - 1
           j == top - 2
<1>5. /\ i \in Slot /\ j \in Slot /\ j \in Nat /\ i # j /\ i + 1 = top /\ j + 1 = i
  BY <1>3
<1>6. Good(d, Obj \ heap) /\ SetTo(c, d, S(j), Nil)
  <2> HIDE DEF j
  <2> QED
    BY <1>4, <1>5, GoodNil DEF j
<1> HIDE DEF d
<1>7. Above(d.mem, top) /\ S(j) \in Place /\ d.mem[S(j)] = Nil
  <2>1. S(j) \in Place
    BY <1>5, PlaceFacts
  <2>2. Above(d.mem, top)
    BY <1>3, <1>4, <1>6, AboveSet
  <2> QED
    BY <1>6, <2>1, <2>2 DEF SetTo
<1>8. Good(e, Obj \ heap) /\ Above(e.mem, i)
  <2>1. Above(d.mem, i + 1)
    BY <1>5, <1>7
  <2> HIDE DEF i
  <2> QED
    BY <1>5, <1>6, <2>1, PopGood DEF i
<1>9. SetTo(d, e, S(i), Nil)
  BY <1>5, <1>6, GoodNil
<1> HIDE DEF e
<1>10. e.mem[S(j)] = Nil
  BY <1>5, <1>7, <1>9, PlacesDiffer DEF SetTo
<1>11. Above(e.mem, j)
  BY <1>5, <1>8, <1>10, AboveLess
<1>12. Then(e, j) /\ j \in 1 .. Slots + 1
  BY <1>1, <1>3
<1> HIDE DEF j
<1> QED
  BY <1>1, <1>8, <1>11, <1>12, SameEnds

LEMMA lua_nextKeeps ==
  ASSUME ApiInv, NEW p \in index2adr, lua_next(p)
  PROVE  ApiInv'
<1>1. Idle /\ top > 1 /\ IsA(p, "table") /\ Same
  BY DEF lua_next
<1>2. Good(Store, Obj \ heap) /\ Above(Store.mem, top) /\ Store.mem = mem
      /\ top \in 1 .. Slots + 1 /\ Slots \in Nat
  BY <1>1, CallStarts
<1>3. /\ top - 1 \in Slot /\ top \in Nat \ {0}
      /\ \A i \in top .. Slots : S(top - 1) # S(i)
  BY <1>1, <1>2, RoomSlot, PlacesDiffer
<1> DEFINE x == F(mem[p], "value")
           c == setobj(Store, S(top - 1), Num)
<1>4. x \in Place /\ x # S(top - 1)
  BY <1>1, <1>2, KindFields, FieldOfNamed
<1>5. CASE Room /\ Then(Push(c, mem[x]), top + 1)
  <2>1. Obj \ heap \in SUBSET Obj /\ Sound(Store, Owed, {}, Obj \ heap)
    BY <1>2 DEF Good
  <2>2. CanSet(Store, S(top - 1), Num, {}, Obj \ heap)
    <3> DEFINE i == top - 1
    <3>1. i \in Slot
      BY <1>3
    <3> HIDE DEF i
    <3>2. CanSet(Store, S(i), Num, {}, Obj \ heap)
      BY <2>1, <3>1, CanSetNum
    <3> QED
      BY <3>2 DEF i
  <2>3. Good(c, Obj \ heap) /\ SetTo(Store, c, S(top - 1), Num)
    BY <1>2, <2>2, GoodSet
  <2> HIDE DEF c
  <2>4. Above(c.mem, top)
    BY <1>2, <1>3, <2>3, AboveSet
  <2>5. c.mem[x] = mem[x]
    BY <1>2, <1>4, <2>3 DEF SetTo
  <2> HIDE DEF x
  <2>6. top \in Slot /\ top + 1 \in 1 .. Slots + 1
    BY <1>2, <1>5, RoomSlot
  <2> DEFINE d == Push(c, c.mem[x])
  <2>7. Good(d, Obj \ heap) /\ Above(d.mem, top + 1)
    BY <1>4, <2>3, <2>4, <2>6, PushGood
  <2>8. Then(d, top + 1)
    BY <1>5, <2>5
  <2> HIDE DEF d
  <2> QED
    BY <1>1, <2>6, <2>7, <2>8, SameEnds
<1>6. CASE Then(setnilvalue(Store, S(top - 1)), top - 1)
  BY <1>1, <1>2, <1>6, SetThenPop
<1> QED
  BY <1>5, <1>6 DEF lua_next

LEMMA lua_setupvalueKeeps ==
  ASSUME ApiInv, NEW p \in index2adr, lua_setupvalue(p)
  PROVE  ApiInv'
<1> DEFINE c == setobj(Store, F(mem[p], "value"), mem[S(top - 1)])
<1>1. /\ Idle /\ top > 1 /\ IsA(p, "function") /\ Same
      /\ mem' = c.mem /\ ref' = c.ref /\ zero' = c.zero /\ top' = top - 1
      /\ left' = {i \in left \cup {top - 1} : c.mem[S(i)] # Nil}
  BY DEF lua_setupvalue
<1>2. /\ Good(c, Obj \ heap) /\ Above(c.mem, top)
      /\ top \in 1 .. Slots + 1 /\ Slots \in Nat
  BY <1>1, KindFields, SetFieldGood
<1> HIDE DEF c
<1>3. left \subseteq Slot
  BY <1>1, CallStarts
<1>4. top - 1 \in Slot /\ top - 1 \in 1 .. Slots + 1
  BY <1>1, <1>2, RoomSlot
<1>5. left' \subseteq Slot
  BY <1>1, <1>3, <1>4
<1>6. \A i \in top - 1 .. Slots : c.mem[S(i)] # Nil => i \in left'
  <2> SUFFICES ASSUME NEW i \in top - 1 .. Slots, c.mem[S(i)] # Nil PROVE i \in left'
    OBVIOUS
  <2>1. i = top - 1 \/ i \in top .. Slots
    BY <1>2
  <2>2. i \in left \cup {top - 1}
    BY <1>2, <2>1 DEF Above
  <2> QED
    BY <1>1, <2>2
<1>7. heap' = heap /\ dying' = dying /\ half' = half /\ leaked' = leaked /\ heap \subseteq Obj
  BY <1>1, CallStarts DEF Same
<1>8. ApiInv'
  <2>1. Store' = c
    <3>1. c \in Stores
      BY <1>2, GoodTypes
    <3>2. c = [mem |-> c.mem, ref |-> c.ref, zero |-> c.zero]
      BY <3>1 DEF Stores
    <3> QED
      BY <1>1, <3>2 DEF Store
  <2>2. half' = <<>> /\ dying' = {} /\ half = <<>>
    BY <1>1, <1>7 DEF Idle
  <2>3. Half' = {} /\ Gone' = Obj \ heap /\ Owed' = Owed
    BY <1>7, <2>2 DEF Half, Gone, Owed, HalfDone
  <2>4. Sound(Store, Owed, Half, Gone)'
    <3>1. Sound(c, Owed, {}, Obj \ heap)
      BY <1>2 DEF Good
    <3>2. Sound(Store', Owed', Half', Gone')
      BY <2>1, <2>3, <3>1
    <3> QED
      BY <3>2 DEF Sound, Refs
  <2>5. ApiTypeOK'
    BY <1>1, <1>2, <1>4, <1>5, <1>7, <2>1, <2>2, GoodTypes DEF ApiTypeOK, ApiInv
  <2>6. HalfOK' /\ TopIsNil'
    BY <1>1, <1>6, <2>2 DEF HalfOK, TopIsNil
  <2> QED
    BY <2>4, <2>5, <2>6 DEF ApiInv
<1> QED
  BY <1>8

-----------------------------------------------------------------------------
(* Steps that write a place in two halves, or lose a reference             *)

LEMMA DebtHolds ==
  ASSUME ApiInv
  PROVE  Debt(Store, Owed, Half) /\ Owed \in [Obj -> Int]
<1>1. ASSUME NEW o \in Obj, Owed[o] < 0
      PROVE  Owed[o] = -1 /\ \E p \in Half : Half = {p} /\ Store.mem[p] = o
  <2>1. Owed[o] = (IF o \in leaked THEN 1 ELSE 0) - (IF HalfDone(o) THEN 1 ELSE 0)
    BY DEF Owed
  <2>2. HalfDone(o) /\ Owed[o] = -1
    BY <1>1, <2>1
  <2>3. Half = {half[1]} /\ Store.mem[half[1]] = o
    BY <2>2 DEF HalfDone, Half, Store
  <2> QED
    BY <2>2, <2>3
<1> QED
  BY <1>1, OwedType DEF Debt

(* The half written place is a field of an object that a named place       *)
(* holds, and so of one that is in use.                                    *)
LEMMA HalfFacts ==
  ASSUME ApiInv
  PROVE  /\ Half \in SUBSET Place /\ Here \notin Half
         /\ \A i : S(i) \notin Half
         /\ \A q \in index2adr : q \notin Half
         /\ \A o \in zero \cup Gone : \A f \in Fields(o) : F(o, f) \notin Half
<1>1. CASE half = <<>>
  BY <1>1 DEF Half
<1>2. CASE half # <<>>
  <2>1. PICK q \in index2adr, g \in {"metatable", "env"} :
          mem[q] \in Obj /\ g \in Fields(mem[q]) /\ half = <<F(mem[q], g)>>
    BY <1>2 DEF ApiInv, HalfOK
  <2>2. top \in 1 .. Slots + 1
    BY DEF ApiInv, ApiTypeOK
  <2> DEFINE x == F(mem[q], g)
  <2>3. Half = {x} /\ x \in Place
    BY <1>2, <2>1, PlaceFacts DEF Half
  <2>4. Here # x /\ \A i : S(i) # x
    BY PlacesDiffer
  <2>5. \A r \in index2adr : r # x
    <3>1. ASSUME NEW r \in index2adr PROVE r # x
      <4>1. GlobalsIndex # x /\ F(Running, "value") # x
        BY PlacesDiffer
      <4> QED
        BY <2>2, <2>4, <4>1, NamedPlaces
    <3> QED
      BY <3>1
  <2>6. mem[q] \notin zero \cup Gone
    <3>1. q \in Place \ Half
      BY <2>2, <2>3, <2>5, NamedPlaces
    <3>2. Sound(Store, Owed, Half, Gone) /\ Store.mem = mem /\ Store.zero = zero
      BY DEF ApiInv, Store
    <3> QED
      BY <3>1, <3>2, HeldInUse
  <2>7. ASSUME NEW o \in zero \cup Gone, NEW f \in Fields(o) PROVE F(o, f) # x
    BY <2>6, PlacesDiffer
  <2> QED
    BY <2>3, <2>4, <2>5, <2>7
<1> QED
  BY <1>1, <1>2

LEMMA InvFrom ==
  ASSUME NEW c, mem' = c.mem, ref' = c.ref, zero' = c.zero,
         Sound(c, Owed', Half', Gone'), top' \in 1 .. Slots + 1,
         heap' \subseteq Obj, dying' \subseteq Obj, leaked' \subseteq Obj, left' \subseteq Slot,
         HalfOK', TopIsNil'
  PROVE  ApiInv'
<1>1. c \in Stores
  BY DEF Sound
<1>2. Store' = c
  <2>1. c = [mem |-> c.mem, ref |-> c.ref, zero |-> c.zero]
    BY <1>1 DEF Stores
  <2> QED
    BY <2>1 DEF Store
<1>3. Sound(Store, Owed, Half, Gone)'
  <2>1. Sound(Store', Owed', Half', Gone')
    BY <1>2
  <2> QED
    BY <2>1 DEF Sound, Refs
<1>4. ApiTypeOK'
  BY <1>1, <1>2 DEF ApiTypeOK, Stores
<1> QED
  BY <1>3, <1>4 DEF ApiInv

LEMMA GiveBackKeeps ==
  ASSUME ApiInv, Idle, top > 1, NEW p \in index2adr, mem[p] \in Obj,
         NEW f \in {"metatable", "env"}, f \in Fields(mem[p]), GiveBack(F(mem[p], f))
  PROVE  ApiInv'
<1> DEFINE x == F(mem[p], f)
           c == subref(Store, mem[x])
           w == [o \in Obj |-> (IF o \in leaked THEN 1 ELSE 0) - (IF mem[x] = o THEN 1 ELSE 0)]
<1>1. /\ Good(Store, Obj \ heap) /\ Store.mem = mem /\ Store.zero = {} /\ Store.ref = ref
      /\ top \in 1 .. Slots + 1 /\ heap \subseteq Obj /\ left \subseteq Slot
  BY CallStarts
<1>2. x \in Place /\ x # Here
  BY <1>1, FieldOfNamed DEF Outside
<1>3. /\ ref' = c.ref /\ zero' = c.zero /\ half' = <<x>>
      /\ UNCHANGED <<mem, top, heap, dying, leaked, left>>
  BY DEF GiveBack
<1>4. Store \in Stores /\ mem \in [Place -> Value] /\ mem[x] \in Value
  BY <1>1, <1>2, GoodTypes
<1>5. /\ c \in Stores /\ c.mem = Store.mem
      /\ \A o \in Obj : c.ref[o] = Store.ref[o] - (IF mem[x] = o THEN 1 ELSE 0)
      /\ \A o \in c.zero \ Store.zero : o = mem[x] /\ mem[x] \in Obj /\ c.ref[o] <= 0
  BY <1>4, SubrefShape
<1>6. Owed' = w /\ Half' = {x} /\ Gone' = Obj \ heap
  BY <1>3 DEF Owed, HalfDone, Half, Gone, Idle
<1>7. \A o \in Obj : Owed[o] = IF o \in leaked THEN 1 ELSE 0
  BY DEF Owed, HalfDone, Idle
<1>8. HalfOK'
  <2>1. index2adr' = index2adr
    BY <1>3 DEF index2adr
  <2> QED
    BY <1>3, <2>1 DEF HalfOK
<1> HIDE DEF c, x
<1>9. w \in [Obj -> Int]
      /\ \A o \in Obj : w[o] = Owed[o] - (IF mem[x] = o THEN 1 ELSE 0)
  <2>1. \A o \in Obj :
          (IF o \in leaked THEN 1 ELSE 0) - (IF mem[x] = o THEN 1 ELSE 0) \in Int
    OBVIOUS
  <2> QED
    BY <1>7, <2>1
<1>10. Debt(c, w, {x})
  <2>1. ASSUME NEW o \in Obj, w[o] < 0 PROVE w[o] = -1 /\ c.mem[x] = o
    BY <1>1, <1>5, <2>1
  <2> HIDE DEF w
  <2> QED
    BY <2>1 DEF Debt
<1> HIDE DEF w
<1>11. ASSUME NEW o \in Obj PROVE c.ref[o] = Refs(c.mem, o) + w[o]
  <2>1. Store.ref[o] = Refs(Store.mem, o) + Owed[o]
    BY <1>1 DEF Good, Sound
  <2>2. Refs(Store.mem, o) \in Nat
    BY <1>1, <1>4, RefsOfHeld
  <2>3. Owed[o] \in Int
    BY OwedType
  <2> QED
    BY <1>5, <1>9, <2>1, <2>2, <2>3
<1>12. Sound(c, w, {x}, Obj \ heap)
  <2>1. ASSUME NEW o \in c.zero \cup (Obj \ heap), NEW q \in Place \ {x} PROVE c.mem[q] # o
    <3>1. CASE o \in Obj \ heap
      BY <1>1, <1>5, <3>1 DEF Good, Sound
    <3>2. CASE o \in c.zero
      <4>1. o \in Obj /\ c.ref[o] <= 0
        BY <1>1, <1>5, <3>2
      <4>2. c.ref[o] = Refs(c.mem, o) + w[o]
        BY <1>11, <4>1
      <4>3. {x} \in SUBSET Place /\ c \in Stores
        BY <1>2, <1>5
      <4> QED
        BY <1>9, <1>10, <4>1, <4>2, <4>3, ZeroUnheld
    <3> QED
      BY <3>1, <3>2
  <2>2. \A o \in Obj \ heap : \A g \in Fields(o) : c.mem[F(o, g)] = Nil
    BY <1>1, <1>5 DEF Good, Sound
  <2>3. c.mem[Here] = Running
    BY <1>1, <1>5 DEF Good, Sound
  <2> QED
    BY <1>5, <1>11, <2>1, <2>2, <2>3 DEF Sound
<1>13. TopIsNil'
  BY <1>3 DEF TopIsNil, ApiInv
<1>14. dying' \subseteq Obj /\ leaked' \subseteq Obj
  BY <1>3 DEF ApiInv, ApiTypeOK
<1>15. mem' = c.mem
  BY <1>1, <1>3, <1>5
<1>16. heap' \subseteq Obj /\ left' \subseteq Slot /\ top' \in 1 .. Slots + 1
  BY <1>1, <1>3
<1>17. Sound(c, Owed', Half', Gone')
  BY <1>6, <1>12
<1> QED
  BY <1>3, <1>8, <1>13, <1>14, <1>15, <1>16, <1>17, InvFrom

LEMMA lua_setmetatableKeeps ==
  ASSUME ApiInv, NEW p \in index2adr, lua_setmetatable(p)
  PROVE  ApiInv'
<1>1. mem[p] \in Obj /\ "metatable" \in Fields(mem[p])
  BY KindFields DEF lua_setmetatable, HasMetatable
<1> QED
  BY <1>1, GiveBackKeeps DEF lua_setmetatable

LEMMA lua_setfenvKeeps ==
  ASSUME ApiInv, NEW p \in index2adr, lua_setfenv(p)
  PROVE  ApiInv'
<1>1. mem[p] \in Obj /\ "env" \in Fields(mem[p])
  BY KindFields DEF lua_setfenv
<1> QED
  BY <1>1, GiveBackKeeps DEF lua_setfenv

LEMMA TakeOverKeeps ==
  ASSUME ApiInv, TakeOver
  PROVE  ApiInv'
<1>1. half # <<>> /\ zero = {} /\ dying = {} /\ half' = <<>>
      /\ UNCHANGED <<heap, dying, leaked>>
      /\ Then(setnilvalue2n([Store EXCEPT !.mem[half[1]] = mem[S(top - 1)]], S(top - 1)), top - 1)
  BY DEF TakeOver
<1>2. PICK q \in index2adr, g \in {"metatable", "env"} :
        mem[q] \in Obj /\ g \in Fields(mem[q]) /\ half = <<F(mem[q], g)>>
  BY <1>1 DEF ApiInv, HalfOK
<1>3. /\ top > 1 /\ top \in 1 .. Slots + 1 /\ Slots \in Nat /\ heap \subseteq Obj
      /\ left \subseteq Slot /\ leaked \subseteq Obj /\ Store \in Stores
      /\ Sound(Store, Owed, Half, Gone)
      /\ Store = [mem |-> mem, ref |-> ref, zero |-> {}]
  BY <1>1, ApiAssumption DEF ApiInv, ApiTypeOK, HalfOK, Store
<1> DEFINE x == F(mem[q], g)
           k == top - 1
           v == mem[S(k)]
           m1 == Put(mem, x, v)
           m2 == Put(m1, S(k), Nil)
           c == [mem |-> m2, ref |-> ref, zero |-> {}]
           w == [o \in Obj |-> IF o \in leaked THEN 1 ELSE 0]
<1>4. half[1] = x /\ Half = {x} /\ x \in Place /\ x # Here
  BY <1>1, <1>2, PlaceFacts, PlacesDiffer DEF Half
<1>5. k \in Slot /\ k \in 1 .. Slots + 1 /\ k + 1 = top /\ S(k) \in Place /\ S(k) # x /\ S(k) # Here
  BY <1>3, RoomSlot, PlaceFacts, PlacesDiffer
<1>6. mem \in [Place -> Value] /\ ref \in [Obj -> Int] /\ Gone = Obj \ heap
  BY <1>1, <1>3 DEF Stores, Gone
<1>7. mem[q] \notin Obj \ heap /\ v \in Value /\ v \notin Obj \ heap
  <2>1. q \in Place \ Half /\ S(k) \in Place \ Half
    BY <1>3, <1>4, <1>5, HalfFacts, NamedPlaces
  <2>2. Store.mem[q] \notin Gone /\ Store.mem[S(k)] \notin Gone /\ Store.mem[S(k)] \in Value
    BY <1>3, <2>1, HeldInUse
  <2> QED
    BY <1>3, <1>6, <2>2
<1>8. Then(c, k)
  <2>1. [Store EXCEPT !.mem[x] = v] = [mem |-> m1, ref |-> ref, zero |-> {}]
    <3>1. Store = [mem |-> mem, ref |-> ref, zero |-> {}]
      BY <1>3
    <3> HIDE DEF v, x
    <3> QED
      BY <3>1 DEF Put
  <2>2. setnilvalue2n([mem |-> m1, ref |-> ref, zero |-> {}], S(k)) = c
    BY DEF setnilvalue2n, Put
  <2> QED
    BY <1>1, <1>4, <2>1, <2>2
<1>9. \A o \in Obj : Owed[o] = w[o] - (IF mem[x] = o THEN 1 ELSE 0)
  BY <1>1, <1>4 DEF Owed, HalfDone
<1> HIDE DEF x, k
<1>10. m1 \in [Place -> Value] /\ m2 \in [Place -> Value]
       /\ \A r \in Place : m2[r] = IF r = S(k) THEN Nil ELSE IF r = x THEN v ELSE mem[r]
  BY <1>4, <1>5, <1>6, <1>7 DEF Value, Put
<1>11. ASSUME NEW o \in Obj PROVE c.ref[o] = Refs(c.mem, o) + w[o]
  <2>1. /\ Refs(mem, o) \in Nat
        /\ Refs(m1, o) = Refs(mem, o) + (IF v = o THEN 1 ELSE 0) - (IF mem[x] = o THEN 1 ELSE 0)
    <3>1. mem \in [Place -> Value] /\ x \in Place /\ v \in Value
      BY <1>4, <1>6, <1>7
    <3> HIDE DEF v
    <3> QED
      BY <3>1, PutCounts
  <2>2. m1[S(k)] = v /\ Nil # o /\ Nil \in Value
    BY <1>4, <1>5, <1>6, ApiAssumption DEF Value, Put
  <2>3. /\ Refs(m1, o) \in Nat
        /\ Refs(m2, o) = Refs(m1, o) + (IF Nil = o THEN 1 ELSE 0) - (IF m1[S(k)] = o THEN 1 ELSE 0)
    <3>1. m1 \in [Place -> Value] /\ S(k) \in Place /\ Nil \in Value
      BY <1>5, <1>10, <2>2
    <3> HIDE DEF m1
    <3> QED
      BY <3>1, PutCounts
  <2>4. ref[o] = Refs(mem, o) + Owed[o] /\ Owed[o] = w[o] - (IF mem[x] = o THEN 1 ELSE 0)
    BY <1>3, <1>9 DEF Sound
  <2>5. c.ref[o] = ref[o] /\ c.mem = m2 /\ w[o] \in Int
    BY DEF c
  <2> HIDE DEF m1, m2, c, w, v
  <2> QED
    BY <2>1, <2>2, <2>3, <2>4, <2>5
<1>12. Sound(c, w, {}, Obj \ heap)
  <2>1. c \in Stores /\ c.mem = m2 /\ c.zero = {}
    BY <1>6, <1>10 DEF Stores
  <2> HIDE DEF c, m2, m1
  <2>2. ASSUME NEW o \in Obj \ heap, NEW r \in Place PROVE m2[r] # o
    <3>1. r # x => mem[r] # o
      BY <1>3, <1>4, <1>6 DEF Sound
    <3> QED
      BY <1>7, <1>10, <3>1, ApiAssumption
  <2>3. ASSUME NEW o \in Obj \ heap, NEW f \in Fields(o) PROVE m2[F(o, f)] = Nil
    <3>1. mem[F(o, f)] = Nil /\ F(o, f) \in Place
      BY <1>3, <1>6, PlaceFacts DEF Sound
    <3>2. F(o, f) # x
      BY <1>7, PlacesDiffer DEF x
    <3> QED
      BY <1>10, <3>1, <3>2
  <2>4. m2[Here] = Running
    BY <1>3, <1>4, <1>5, <1>10, PlaceFacts DEF Sound
  <2> QED
    BY <1>11, <2>1, <2>2, <2>3, <2>4 DEF Sound
<1>13. Owed' = w /\ Half' = {} /\ Gone' = Obj \ heap
  BY <1>1 DEF Owed, HalfDone, Half, Gone
<1>14. left' = {i \in left : i >= k /\ c.mem[S(i)] # Nil} /\ top' = k
       /\ mem' = c.mem /\ ref' = c.ref /\ zero' = c.zero
  BY <1>8 DEF Then
<1>15. TopIsNil'
  <2> SUFFICES ASSUME NEW i \in k .. Slots, c.mem[S(i)] # Nil PROVE i \in left'
    BY <1>14 DEF TopIsNil
  <2>1. i \in Slot /\ i \in Nat /\ k \in Nat
    BY <1>5 DEF Slot
  <2>2. S(i) \in Place /\ S(i) # x
    BY <2>1, PlaceFacts, PlacesDiffer, FieldNames DEF x
  <2>3. i # k /\ mem[S(i)] # Nil
    BY <1>10, <2>2
  <2>4. i \in top .. Slots
    BY <1>3, <1>5, <2>1, <2>3
  <2>5. i \in left
    BY <2>3, <2>4 DEF ApiInv, TopIsNil
  <2> QED
    BY <1>14, <2>1, <2>5
<1>16. HalfOK'
  BY <1>1 DEF HalfOK
<1>17. heap' \subseteq Obj /\ dying' \subseteq Obj /\ leaked' \subseteq Obj /\ left' \subseteq Slot
       /\ top' \in 1 .. Slots + 1
  BY <1>1, <1>3, <1>5, <1>14
<1>18. Sound(c, Owed', Half', Gone')
  BY <1>12, <1>13
<1> HIDE DEF c
<1> QED
  BY <1>14, <1>15, <1>16, <1>17, <1>18, InvFrom

(* A slot is cleared, and the object it held is uncounted or not: either   *)
(* way no place is written but the slot.                                   *)
LEMMA ClearShape ==
  ASSUME NEW d \in Stores, NEW k \in Slot
  PROVE  LET e == setnilvalue2n(d, S(k))
         IN /\ e \in Stores /\ e.mem = Put(d.mem, S(k), Nil)
            /\ e.ref = d.ref /\ e.zero = d.zero /\ S(k) \in Place
            /\ \A q \in Place : e.mem[q] = IF q = S(k) THEN Nil ELSE d.mem[q]
            /\ \A o \in Obj : /\ Refs(d.mem, o) \in Nat
                              /\ Refs(e.mem, o) = Refs(d.mem, o)
                                                  - (IF d.mem[S(k)] = o THEN 1 ELSE 0)
<1> DEFINE e == setnilvalue2n(d, S(k))
<1>1. S(k) \in Place /\ Nil \in Value /\ d.mem \in [Place -> Value]
  BY PlaceFacts DEF Value, Stores
<1>2. /\ e \in Stores /\ e.mem = Put(d.mem, S(k), Nil) /\ e.ref = d.ref /\ e.zero = d.zero
  BY <1>1, WriteShape DEF setnilvalue2n, Put
<1> HIDE DEF e
<1>3. \A q \in Place : e.mem[q] = IF q = S(k) THEN Nil ELSE d.mem[q]
  BY <1>1, <1>2 DEF Put
<1>4. ASSUME NEW o \in Obj
      PROVE  /\ Refs(d.mem, o) \in Nat
             /\ Refs(e.mem, o) = Refs(d.mem, o) - (IF d.mem[S(k)] = o THEN 1 ELSE 0)
  <2>1. Nil # o
    BY ApiAssumption
  <2>2. /\ Refs(d.mem, o) \in Nat
        /\ Refs(Put(d.mem, S(k), Nil), o) = Refs(d.mem, o) + (IF Nil = o THEN 1 ELSE 0)
                                            - (IF d.mem[S(k)] = o THEN 1 ELSE 0)
    BY <1>1, PutCounts
  <2> QED
    BY <1>2, <2>1, <2>2
<1>5. /\ e \in Stores /\ e.mem = Put(d.mem, S(k), Nil)
      /\ e.ref = d.ref /\ e.zero = d.zero /\ S(k) \in Place
      /\ \A q \in Place : e.mem[q] = IF q = S(k) THEN Nil ELSE d.mem[q]
      /\ \A o \in Obj : /\ Refs(d.mem, o) \in Nat
                        /\ Refs(e.mem, o) = Refs(d.mem, o)
                                            - (IF d.mem[S(k)] = o THEN 1 ELSE 0)
  BY <1>1, <1>2, <1>3, <1>4
<1> QED
  BY <1>5 DEF e

(* A store one of whose slots was cleared is sound if its counts are.      *)
LEMMA ClearSound ==
  ASSUME NEW d \in Stores, NEW e \in Stores, NEW k \in Slot, NEW G \in SUBSET Obj, NEW w,
         \A q \in Place : e.mem[q] = IF q = S(k) THEN Nil ELSE d.mem[q],
         \A o \in Obj : e.ref[o] = Refs(e.mem, o) + w[o],
         \A o \in e.zero \cup G : \A q \in Place : d.mem[q] # o,
         \A o \in G : \A f \in Fields(o) : d.mem[F(o, f)] = Nil,
         d.mem[Here] = Running
  PROVE  Sound(e, w, {}, G)
<1>1. e.zero \subseteq Obj /\ Nil \notin Obj
  BY ApiAssumption DEF Stores
<1>2. \A o \in e.zero \cup G : \A q \in Place : e.mem[q] # o
  BY <1>1
<1>3. \A o \in G : \A f \in Fields(o) : e.mem[F(o, f)] = Nil
  BY PlaceFacts
<1>4. e.mem[Here] = Running
  BY PlaceFacts, PlacesDiffer
<1> QED
  BY <1>2, <1>3, <1>4 DEF Sound

LEMMA lua_setfenvThreadKeeps ==
  ASSUME ApiInv, NEW p \in index2adr, lua_setfenvThread(p)
  PROVE  ApiInv'
<1> DEFINE k == top - 1
           x == F(mem[p], "env")
           t == mem[S(k)]
           G == Obj \ heap
           c == setobj(Store, x, t)
           d == subref(c, t)
           e == setnilvalue2n(d, S(k))
<1>1. Idle /\ top > 1 /\ IsA(p, "thread") /\ IsA(S(k), "table") /\ Then(e, k) /\ Same
  BY DEF lua_setfenvThread
<1>2. /\ Good(c, G) /\ Above(c.mem, top) /\ SetTo(Store, c, x, t)
      /\ top \in 1 .. Slots + 1 /\ Slots \in Nat
  BY <1>1, KindFields, SetFieldGood
<1>3. k \in Slot /\ k \in 1 .. Slots + 1 /\ k + 1 = top /\ k \in Nat
  BY <1>1, <1>2, RoomSlot DEF Slot
<1>4. /\ Good(Store, G) /\ Store.mem = mem
      /\ x \in Place /\ S(k) # x /\ S(k) \in Place
  BY <1>1, <1>2, <1>3, CallStarts, KindFields, FieldOfNamed, PlaceFacts
<1>5. t \in Obj /\ t \in Value
  BY <1>1 DEF IsA, Value
<1>6. \A o \in Obj : Owed[o] \in Nat
  BY <1>1 DEF Owed, HalfDone, Idle
<1> HIDE DEF c, x, k, t
<1>7. c.mem[x] = t /\ c.mem[S(k)] = t
  BY <1>2, <1>4 DEF SetTo, t
<1>8. c \in Stores /\ c.mem \in [Place -> Value]
  BY <1>2, GoodTypes
<1>9. c.ref[t] > 1
  <2>1. Refs(c.mem, t) \in Nat /\ ~(Refs(c.mem, t) <= 1)
    BY <1>4, <1>5, <1>7, <1>8, RefsOfHeld
  <2>2. c.ref[t] = Refs(c.mem, t) + Owed[t]
    BY <1>2, <1>5 DEF Good, Sound
  <2>3. Owed[t] \in Nat
    BY <1>5, <1>6
  <2> QED
    BY <2>1, <2>2, <2>3
<1>10. /\ d \in Stores /\ d.mem = c.mem
       /\ \A o \in Obj : d.ref[o] = c.ref[o] - (IF t = o THEN 1 ELSE 0)
       /\ d.zero = c.zero
  <2>1. /\ d \in Stores /\ d.mem = c.mem
        /\ \A o \in Obj : d.ref[o] = c.ref[o] - (IF t = o THEN 1 ELSE 0)
        /\ c.zero \subseteq d.zero
        /\ \A o \in d.zero \ c.zero : o = t /\ d.ref[o] <= 0
    BY <1>5, <1>8, SubrefShape
  <2>2. c.ref[t] \in Int
    BY <1>5, <1>8 DEF Stores
  <2>3. ~(d.ref[t] <= 0)
    BY <1>5, <1>9, <2>1, <2>2
  <2> QED
    BY <2>1, <2>3
<1> HIDE DEF d
<1>11. /\ e \in Stores /\ e.ref = d.ref /\ e.zero = d.zero
       /\ \A q \in Place : e.mem[q] = IF q = S(k) THEN Nil ELSE d.mem[q]
       /\ \A o \in Obj : /\ Refs(d.mem, o) \in Nat
                         /\ Refs(e.mem, o) = Refs(d.mem, o)
                                             - (IF d.mem[S(k)] = o THEN 1 ELSE 0)
  BY <1>3, <1>10, ClearShape
<1> HIDE DEF e
<1>12. ASSUME NEW o \in Obj PROVE e.ref[o] = Refs(e.mem, o) + Owed[o]
  <2>1. c.ref[o] = Refs(c.mem, o) + Owed[o] /\ Owed[o] \in Nat
    BY <1>2, <1>6 DEF Good, Sound
  <2> QED
    BY <1>7, <1>10, <1>11, <2>1
<1>13. Sound(e, Owed, {}, G)
  <2>1. /\ \A o \in e.zero \cup G : \A q \in Place : d.mem[q] # o
        /\ \A o \in G : \A f \in Fields(o) : d.mem[F(o, f)] = Nil
        /\ d.mem[Here] = Running
    BY <1>2, <1>10, <1>11 DEF Good, Sound
  <2>2. G \in SUBSET Obj
    OBVIOUS
  <2> HIDE DEF G
  <2> QED
    BY <1>3, <1>10, <1>11, <1>12, <2>1, <2>2, ClearSound
<1>14. Good(e, G)
  <2>1. \A o \in Obj : ~(Owed[o] < 0)
    BY <1>6
  <2> QED
    BY <1>13, <2>1 DEF Good, Debt
<1>15. Above(e.mem, k)
  <2>1. SetTo(d, e, S(k), Nil)
    BY <1>11 DEF SetTo
  <2>2. Above(d.mem, top) /\ top \in Nat \ {0}
    BY <1>2, <1>10
  <2>3. Above(e.mem, top)
    BY <2>1, <2>2, AboveSet
  <2>4. e.mem[S(k)] = Nil
    BY <1>4, <1>11
  <2>5. Above(e.mem, k + 1)
    BY <1>3, <2>3
  <2> QED
    BY <1>3, <2>4, <2>5, AboveLess
<1> QED
  BY <1>1, <1>3, <1>14, <1>15, SameEnds

LEMMA lua_setfenvOtherKeeps ==
  ASSUME ApiInv, NEW p \in index2adr, lua_setfenvOther(p)
  PROVE  ApiInv'
<1> DEFINE k == top - 1
           t == mem[S(k)]
           G == Obj \ heap
           e == setnilvalue2n(Store, S(k))
           w == [o \in Obj |-> IF o \in leaked \cup {t} THEN 1 ELSE 0]
<1>1. Idle /\ top > 1 /\ IsA(S(k), "table") /\ t \notin leaked /\ Then(e, k)
      /\ leaked' = leaked \cup {t} /\ UNCHANGED <<heap, dying, half>>
  BY DEF lua_setfenvOther
<1>2. /\ Good(Store, G) /\ Above(Store.mem, top) /\ Store.mem = mem
      /\ top \in 1 .. Slots + 1 /\ Slots \in Nat /\ heap \subseteq Obj /\ left \subseteq Slot
  BY <1>1, CallStarts
<1>3. k \in Slot /\ k \in 1 .. Slots + 1 /\ k + 1 = top /\ k \in Nat
  BY <1>1, <1>2, RoomSlot DEF Slot
<1>4. t \in Obj
  BY <1>1 DEF IsA
<1>5. \A o \in Obj : Owed[o] = (IF o \in leaked THEN 1 ELSE 0)
                     /\ w[o] = Owed[o] + (IF t = o THEN 1 ELSE 0) /\ Owed[o] \in Nat
  BY <1>1 DEF Owed, HalfDone, Idle
<1>6. Store \in Stores
  BY <1>2, GoodTypes
<1> HIDE DEF k
<1>7. /\ e \in Stores /\ e.ref = Store.ref /\ e.zero = Store.zero /\ S(k) \in Place
      /\ \A q \in Place : e.mem[q] = IF q = S(k) THEN Nil ELSE Store.mem[q]
      /\ \A o \in Obj : /\ Refs(Store.mem, o) \in Nat
                        /\ Refs(e.mem, o) = Refs(Store.mem, o)
                                            - (IF Store.mem[S(k)] = o THEN 1 ELSE 0)
  BY <1>3, <1>6, ClearShape
<1>8. Owed' = w /\ Half' = {} /\ Gone' = G
  BY <1>1 DEF Owed, HalfDone, Half, Gone, Idle
<1> HIDE DEF e
<1>9. ASSUME NEW o \in Obj PROVE e.ref[o] = Refs(e.mem, o) + w[o]
  <2>1. Store.ref[o] = Refs(Store.mem, o) + Owed[o] /\ Owed[o] \in Nat
    BY <1>2, <1>5 DEF Good, Sound
  <2>2. w[o] = Owed[o] + (IF t = o THEN 1 ELSE 0) /\ Store.mem[S(k)] = t
    BY <1>2, <1>5
  <2> HIDE DEF w, t
  <2> QED
    BY <1>7, <2>1, <2>2
<1> HIDE DEF w
<1>10. Sound(e, w, {}, G)
  <2>1. /\ \A o \in e.zero \cup G : \A q \in Place : Store.mem[q] # o
        /\ \A o \in G : \A f \in Fields(o) : Store.mem[F(o, f)] = Nil
        /\ Store.mem[Here] = Running
    BY <1>2, <1>7 DEF Good, Sound
  <2>2. G \in SUBSET Obj
    OBVIOUS
  <2> HIDE DEF G
  <2> QED
    BY <1>3, <1>6, <1>7, <1>9, <2>1, <2>2, ClearSound
<1>11. Above(e.mem, k)
  <2>1. SetTo(Store, e, S(k), Nil)
    BY <1>7 DEF SetTo
  <2>2. top \in Nat \ {0}
    BY <1>2
  <2>3. Above(e.mem, top)
    BY <1>2, <2>1, <2>2, AboveSet
  <2>4. e.mem[S(k)] = Nil
    BY <1>7
  <2>5. Above(e.mem, k + 1)
    BY <1>3, <2>3
  <2> QED
    BY <1>3, <2>4, <2>5, AboveLess
<1>12. left' = {i \in left : i >= k /\ e.mem[S(i)] # Nil} /\ top' = k
       /\ mem' = e.mem /\ ref' = e.ref /\ zero' = e.zero
  BY <1>1 DEF Then
<1>13. TopIsNil' /\ HalfOK'
  BY <1>1, <1>11, <1>12 DEF TopIsNil, HalfOK, Above, Idle
<1>14. heap' \subseteq Obj /\ dying' \subseteq Obj /\ leaked' \subseteq Obj /\ left' \subseteq Slot
       /\ top' \in 1 .. Slots + 1
  BY <1>1, <1>2, <1>3, <1>4, <1>12 DEF ApiInv, ApiTypeOK
<1>15. Sound(e, Owed', Half', Gone')
  BY <1>8, <1>10
<1> QED
  BY <1>12, <1>13, <1>14, <1>15, InvFrom

-----------------------------------------------------------------------------
(* Releases                                                                *)

(* What giving up fields of o leaves of a store: nothing but those fields  *)
(* was written, and the fields in D are nil.                               *)
Stripped(c, d, o, D) ==
  /\ c.zero \subseteq d.zero
  /\ \A q \in Place : (\A f \in Fields(o) : q # F(o, f)) => d.mem[q] = c.mem[q]
  /\ \A f \in D : f \in Fields(o) => d.mem[F(o, f)] = Nil

LEMMA GiveUpStrips ==
  ASSUME NEW c0, NEW c, NEW e \in [Obj -> Int], NEW h \in SUBSET Place, NEW G \in SUBSET Obj,
         Sound(c, e, h, G), Debt(c, e, h), NEW o \in Obj, NEW f, NEW D,
         \A g \in Fields(o) : F(o, g) \notin h, Stripped(c0, c, o, D)
  PROVE  LET d == GiveUp(c, o, f)
         IN Sound(d, e, h, G) /\ Debt(d, e, h) /\ Stripped(c0, d, o, D \cup {f})
<1> DEFINE d == GiveUp(c, o, f)
<1>1. CASE f \notin Fields(o)
  <2>1. d = c
    BY <1>1 DEF GiveUp
  <2>2. Stripped(c0, c, o, D \cup {f})
    BY <1>1 DEF Stripped
  <2> QED
    BY <2>1, <2>2
<1>2. CASE f \in Fields(o)
  <2>1. d = setobj(c, F(o, f), Nil)
    BY <1>2 DEF GiveUp, setnilvalue
  <2>2. F(o, f) \in Place \ h /\ F(o, f) # Here
    BY <1>2, PlaceFacts, PlacesDiffer, FieldNames
  <2>3. CanSet(c, F(o, f), Nil, h, G)
    BY <2>2, CanSetNil
  <2>4. Sound(d, e, h, G) /\ Debt(d, e, h) /\ SetTo(c, d, F(o, f), Nil)
    BY <2>1, <2>3, SetObjSound
  <2> HIDE DEF d
  <2>5. Stripped(c0, d, o, D \cup {f})
    <3>1. c0.zero \subseteq d.zero
      BY <2>4 DEF SetTo, Stripped
    <3>2. ASSUME NEW q \in Place, \A g \in Fields(o) : q # F(o, g) PROVE d.mem[q] = c0.mem[q]
      BY <1>2, <2>4, <3>2 DEF SetTo, Stripped
    <3>3. ASSUME NEW g \in D \cup {f}, g \in Fields(o) PROVE d.mem[F(o, g)] = Nil
      <4>1. F(o, g) \in Place
        BY <3>3, PlaceFacts
      <4>2. g = f \/ c.mem[F(o, g)] = Nil
        BY <3>3 DEF Stripped
      <4> QED
        BY <2>4, <4>1, <4>2 DEF SetTo
    <3> QED
      BY <3>1, <3>2, <3>3 DEF Stripped
  <2> QED
    BY <2>4, <2>5 DEF d
<1> QED
  BY <1>1, <1>2

LEMMA StripKeeps ==
  ASSUME ApiInv, NEW o \in Obj, Strip(o)
  PROVE  ApiInv'
<1> DEFINE a == GiveUp(Store, o, "metatable")
           b == GiveUp(a, o, "env")
           c == GiveUp(b, o, "value")
           d == [mem |-> c.mem, ref |-> c.ref, zero |-> c.zero \ {o}]
           names == {"metatable", "env", "value"}
<1>1. /\ o \in zero /\ mem' = c.mem /\ ref' = c.ref /\ zero' = c.zero \ {o}
      /\ dying' = dying \cup {o}
      /\ UNCHANGED <<top, heap, half, leaked, left>>
  BY DEF Strip
<1>2. /\ Sound(Store, Owed, Half, Gone) /\ Debt(Store, Owed, Half) /\ Owed \in [Obj -> Int]
      /\ Half \in SUBSET Place /\ Here \notin Half /\ Gone \in SUBSET Obj
      /\ \A g \in Fields(o) : F(o, g) \notin Half
      /\ Store.mem = mem /\ Store.zero = zero
  BY <1>1, DebtHolds, HalfFacts DEF ApiInv, ApiTypeOK, Gone, Store
<1>3. o # Running
  <2>1. Here \in Place \ Half /\ Store.mem[Here] = Running
    BY <1>2, PlaceFacts DEF Sound
  <2>2. Store.mem[Here] \notin Store.zero \cup Gone
    BY <1>2, <2>1, HeldInUse
  <2> QED
    BY <1>1, <1>2, <2>1, <2>2
<1>4. Stripped(Store, Store, o, {})
  BY DEF Stripped
<1>5. /\ Sound(a, Owed, Half, Gone) /\ Debt(a, Owed, Half)
      /\ Stripped(Store, a, o, {} \cup {"metatable"})
  BY <1>2, <1>4, GiveUpStrips
<1> HIDE DEF a
<1>6. /\ Sound(b, Owed, Half, Gone) /\ Debt(b, Owed, Half)
      /\ Stripped(Store, b, o, ({} \cup {"metatable"}) \cup {"env"})
  BY <1>2, <1>5, GiveUpStrips
<1> HIDE DEF b
<1>7. /\ Sound(c, Owed, Half, Gone) /\ Debt(c, Owed, Half)
      /\ Stripped(Store, c, o, (({} \cup {"metatable"}) \cup {"env"}) \cup {"value"})
  BY <1>2, <1>6, GiveUpStrips
<1> HIDE DEF c
<1>8. /\ \A f \in Fields(o) : c.mem[F(o, f)] = Nil
      /\ \A q \in Place : (\A f \in Fields(o) : q # F(o, f)) => c.mem[q] = mem[q]
      /\ zero \subseteq c.zero
  BY <1>2, <1>7, FieldNames DEF Stripped
<1>9. Sound(d, Owed, Half, Gone \cup {o})
  <2>1. d \in Stores /\ d.mem = c.mem /\ d.ref = c.ref /\ d.zero = c.zero \ {o}
    <3>1. c \in Stores
      BY <1>7, SoundTypes
    <3> QED
      BY <3>1 DEF Stores
  <2> HIDE DEF d
  <2>2. \A q \in d.zero \cup (Gone \cup {o}) : q \in c.zero \cup Gone
    BY <1>1, <1>8, <2>1
  <2>3. \A q \in Gone \cup {o} : \A f \in Fields(q) : d.mem[F(q, f)] = Nil
    BY <1>7, <1>8, <2>1 DEF Sound
  <2> QED
    BY <1>7, <2>1, <2>2, <2>3 DEF Sound
<1>10. Half' = Half /\ Gone' = Gone \cup {o}
  BY <1>1 DEF Half, Gone
<1>11. Owed' = Owed
  <2>1. CASE half = <<>>
    BY <1>1, <2>1 DEF Owed, HalfDone
  <2>2. CASE half # <<>>
    <3>1. half[1] \in Half /\ half[1] \in Place
      BY <1>2, <2>2 DEF Half
    <3>2. mem'[half[1]] = mem[half[1]]
      BY <1>1, <1>2, <1>8, <3>1
    <3> QED
      BY <1>1, <3>2 DEF Owed, HalfDone
  <2> QED
    BY <2>1, <2>2
<1>12. HalfOK'
  <2> SUFFICES ASSUME half' # <<>>
               PROVE  /\ top' > 1
                      /\ \E q \in index2adr', f \in {"metatable", "env"} :
                           mem'[q] \in Obj /\ f \in Fields(mem'[q]) /\ half' = <<F(mem'[q], f)>>
    BY DEF HalfOK
  <2>1. PICK q \in index2adr, f \in {"metatable", "env"} :
          mem[q] \in Obj /\ f \in Fields(mem[q]) /\ half = <<F(mem[q], f)>>
    BY <1>1 DEF ApiInv, HalfOK
  <2>2. top > 1 /\ top \in 1 .. Slots + 1
    BY <1>1 DEF ApiInv, HalfOK, ApiTypeOK
  <2>3. q \in Place /\ \A g \in Fields(o) : q # F(o, g)
    BY <1>3, <2>2, NamedPlaces, PlacesDiffer, FieldNames
  <2>4. mem'[q] = mem[q] /\ index2adr' = index2adr
    BY <1>1, <1>8, <2>3 DEF index2adr
  <2> QED
    BY <1>1, <2>1, <2>2, <2>4
<1>13. TopIsNil'
  <2>1. ASSUME NEW i \in top .. Slots, c.mem[S(i)] # Nil PROVE mem[S(i)] # Nil
    <3>1. i \in Slot
      BY DEF ApiInv, ApiTypeOK, Slot
    <3>2. S(i) \in Place /\ \A f \in Fields(o) : S(i) # F(o, f)
      BY <3>1, PlaceFacts, PlacesDiffer, FieldNames
    <3> QED
      BY <1>8, <2>1, <3>2
  <2> QED
    BY <1>1, <2>1 DEF ApiInv, TopIsNil
<1>14. top' \in 1 .. Slots + 1 /\ heap' \subseteq Obj /\ dying' \subseteq Obj
       /\ leaked' \subseteq Obj /\ left' \subseteq Slot
  BY <1>1 DEF ApiInv, ApiTypeOK
<1>15. mem' = d.mem /\ ref' = d.ref /\ zero' = d.zero
  BY <1>1
<1>16. Sound(d, Owed', Half', Gone')
  BY <1>9, <1>10, <1>11
<1> HIDE DEF d
<1> QED
  BY <1>12, <1>13, <1>14, <1>15, <1>16, InvFrom

LEMMA FreeKeeps ==
  ASSUME ApiInv, NEW o \in Obj, Free(o)
  PROVE  ApiInv'
<1>1. /\ zero = {} /\ o \in dying /\ dying' = dying \ {o} /\ heap' = heap \ {o}
      /\ UNCHANGED <<mem, ref, top, zero, half, leaked, left>>
  BY DEF Free
<1>2. Owed' = Owed /\ Half' = Half /\ index2adr' = index2adr
  BY <1>1 DEF Owed, HalfDone, Half, index2adr
<1>3. Gone' = Gone
  BY <1>1 DEF Gone
<1>4. HalfOK' /\ TopIsNil'
  BY <1>1, <1>2 DEF ApiInv, HalfOK, TopIsNil
<1>5. top' \in 1 .. Slots + 1 /\ heap' \subseteq Obj /\ dying' \subseteq Obj
      /\ leaked' \subseteq Obj /\ left' \subseteq Slot
  BY <1>1 DEF ApiInv, ApiTypeOK
<1>6. mem' = Store.mem /\ ref' = Store.ref /\ zero' = Store.zero
  BY <1>1 DEF Store
<1>7. Sound(Store, Owed', Half', Gone')
  BY <1>2, <1>3 DEF ApiInv
<1> QED
  BY <1>4, <1>5, <1>6, <1>7, InvFrom

LEMMA FinalizerKeeps ==
  ASSUME ApiInv, ~FinalizerInHalf, NEW o \in Obj, NEW p \in Place, Finalizer(o, p)
  PROVE  ApiInv'
<1> DEFINE x == F(mem[GlobalsIndex], "value")
           c == setobj(Store, x, Store.mem[p])
<1>1. /\ half = <<>> /\ IsA(GlobalsIndex, "table") /\ Store.mem = mem
      /\ mem' = c.mem /\ ref' = c.ref /\ zero' = c.zero
      /\ UNCHANGED <<top, heap, dying, half, leaked, left>>
  BY DEF Finalizer, Store
<1>2. Good(Store, Gone)
  <2>1. Half = {} /\ Gone \subseteq Obj
    BY <1>1 DEF Half, Gone, ApiInv, ApiTypeOK
  <2> QED
    BY <2>1, DebtHolds DEF Good, ApiInv
<1>3. x \in Place /\ Outside(x, Gone) /\ \A i : S(i) # x
  <2>1. mem[GlobalsIndex] \in Obj /\ "value" \in Fields(mem[GlobalsIndex])
        /\ GlobalsIndex \in Place
    BY <1>1, KindFields, PlaceFacts
  <2> QED
    BY <1>1, <1>2, <2>1, OutsideFacts, PlacesDiffer DEF Outside
<1> HIDE DEF x
<1>4. Good(c, Gone) /\ SetTo(Store, c, x, Store.mem[p])
  BY <1>2, <1>3, GoodCopy
<1> HIDE DEF c
<1>5. Owed' = Owed /\ Half' = {} /\ Gone' = Gone
  BY <1>1 DEF Owed, HalfDone, Half, Gone
<1>6. HalfOK'
  BY <1>1 DEF HalfOK
<1>7. TopIsNil'
  <2>1. ASSUME NEW i \in top .. Slots PROVE c.mem[S(i)] = mem[S(i)]
    <3>1. i \in Slot
      BY DEF ApiInv, ApiTypeOK, Slot
    <3>2. S(i) \in Place /\ S(i) # x
      BY <1>3, <3>1, PlaceFacts
    <3> QED
      BY <1>1, <1>4, <3>2 DEF SetTo
  <2> QED
    BY <1>1, <2>1 DEF ApiInv, TopIsNil
<1>8. top' \in 1 .. Slots + 1 /\ heap' \subseteq Obj /\ dying' \subseteq Obj
      /\ leaked' \subseteq Obj /\ left' \subseteq Slot
  BY <1>1 DEF ApiInv, ApiTypeOK
<1>9. Sound(c, Owed', Half', Gone')
  BY <1>4, <1>5 DEF Good
<1> QED
  BY <1>1, <1>6, <1>7, <1>8, <1>9, InvFrom

-----------------------------------------------------------------------------
(* The specification                                                       *)

(* The count of the first state: the function below its arguments, the     *)
(* globals in the thread and in the environment of the function.           *)
LEMMA InitInv == Init => ApiInv
<1> SUFFICES ASSUME Init PROVE ApiInv
  OBVIOUS
<1> USE ApiAssumption
<1> DEFINE env == F(Running, "env")
<1>1. /\ env \in Place /\ GlobalsIndex \in Place /\ Here \in Place
      /\ env # GlobalsIndex /\ env # Here /\ GlobalsIndex # Here
      /\ \A i : S(i) # Here /\ S(i) # GlobalsIndex /\ S(i) # env
      /\ \A o : \A f \in Fields(o) :
           F(o, f) # Here /\ F(o, f) # GlobalsIndex /\ (o # Running => F(o, f) # env)
  BY PlaceFacts, PlacesDiffer, FieldNames
<1>2. /\ mem \in [Place -> Value] /\ ref \in [Obj -> Int]
      /\ \A p \in Place : mem[p] = IF p = Here THEN Running
                                   ELSE IF p = GlobalsIndex \/ p = env THEN Globals ELSE Nil
      /\ \A o \in Obj : ref[o] = IF o = Globals THEN 2 ELSE IF o = Running THEN 1 ELSE 0
      /\ top = 1 /\ heap = {Running, Globals}
      /\ zero = {} /\ dying = {} /\ half = <<>> /\ leaked = {} /\ left = {}
  BY DEF Init, Value
<1> HIDE DEF env
<1>3. ASSUME NEW o \in Obj PROVE ref[o] = Refs(mem, o)
  <2>1. CASE o = Globals
    <3>1. {p \in Place : mem[p] = o} = {GlobalsIndex, env}
      BY <1>1, <1>2, <2>1
    <3>2. Cardinality({GlobalsIndex, env}) = 2
      <4>1. IsFiniteSet({GlobalsIndex}) /\ Cardinality({GlobalsIndex}) = 1
        BY FS_Singleton
      <4>2. Cardinality({GlobalsIndex} \cup {env}) = 1 + 1
        BY <1>1, <4>1, FS_AddElement
      <4>3. {GlobalsIndex} \cup {env} = {GlobalsIndex, env}
        OBVIOUS
      <4> QED
        BY <4>2, <4>3
    <3> QED
      BY <1>2, <2>1, <3>1, <3>2 DEF Refs
  <2>2. CASE o = Running
    <3>1. {p \in Place : mem[p] = o} = {Here}
      BY <1>1, <1>2, <2>2
    <3>2. Cardinality({Here}) = 1
      BY FS_Singleton
    <3> QED
      BY <1>2, <2>2, <3>1, <3>2 DEF Refs
  <2>3. CASE o # Globals /\ o # Running
    <3>1. {p \in Place : mem[p] = o} = {}
      BY <1>1, <1>2, <2>3
    <3>2. Cardinality({}) = 0
      BY FS_EmptySet
    <3> QED
      BY <1>2, <2>3, <3>1, <3>2 DEF Refs
  <2> QED
    BY <2>1, <2>2, <2>3
<1>4. Owed = [o \in Obj |-> 0] /\ Half = {} /\ Gone = Obj \ {Running, Globals}
  BY <1>2 DEF Owed, HalfDone, Half, Gone
<1>5. Store \in Stores /\ Store.mem = mem /\ Store.ref = ref /\ Store.zero = {}
  BY <1>2 DEF Store, Stores
<1>6. Sound(Store, Owed, Half, Gone)
  <2>1. ASSUME NEW o \in Obj PROVE Store.ref[o] = Refs(Store.mem, o) + Owed[o]
    <3>1. Refs(mem, o) \in Nat
      BY <1>2, RefsOfHeld
    <3> QED
      BY <1>3, <1>4, <1>5, <3>1
  <2>2. \A o \in Gone : \A p \in Place : mem[p] # o
    BY <1>2, <1>4
  <2>3. ASSUME NEW o \in Gone, NEW f \in Fields(o) PROVE mem[F(o, f)] = Nil
    <3>1. F(o, f) \in Place
      BY <1>4, PlaceFacts
    <3>2. F(o, f) # Here /\ F(o, f) # GlobalsIndex /\ F(o, f) # env
      BY <1>1, <1>4
    <3> QED
      BY <1>2, <3>1, <3>2
  <2>4. mem[Here] = Running
    BY <1>1, <1>2
  <2> QED
    BY <1>4, <1>5, <2>1, <2>2, <2>3, <2>4 DEF Sound
<1>7. TopIsNil
  <2>1. ASSUME NEW i \in top .. Slots PROVE mem[S(i)] = Nil
    <3>1. S(i) \in Place
      BY <1>2, PlaceFacts DEF Slot
    <3> QED
      BY <1>1, <1>2, <3>1
  <2> QED
    BY <2>1 DEF TopIsNil
<1>8. ApiTypeOK /\ HalfOK
  BY <1>2, <1>5 DEF ApiTypeOK, HalfOK
<1> QED
  BY <1>6, <1>7, <1>8 DEF ApiInv

(* Every step of the model keeps the invariant.                            *)
LEMMA NextKeeps ==
  ASSUME ~FinalizerInHalf, ApiInv, [Next]_avars
  PROVE  ApiInv'
<1>1. CASE StackCall
  <2>1. ASSUME NEW p \in index2adr, lua_pushvalue(p) \/ lua_replace(p) PROVE ApiInv'
    BY <2>1, lua_pushvalueKeeps, lua_replaceKeeps
  <2>2. ASSUME lua_pushvalueEnv \/ lua_replaceEnv \/ lua_pushnumber PROVE ApiInv'
    BY <2>2, lua_pushvalueEnvKeeps, lua_replaceEnvKeeps, lua_pushnumberKeeps
  <2>3. ASSUME NEW i \in Slot, lua_settop(i) \/ lua_remove(i) \/ lua_insert(i) PROVE ApiInv'
    BY <2>3, lua_settopKeeps, lua_removeKeeps, lua_insertKeeps
  <2>4. ASSUME NEW o \in Obj, lua_createtable(o) \/ lua_newuserdata(o) \/ lua_newthread(o)
        PROVE  ApiInv'
    BY <2>4, lua_createtableKeeps, lua_newuserdataKeeps, lua_newthreadKeeps
  <2>5. ASSUME NEW o \in Obj, NEW n \in 0 .. 1, lua_pushcclosure(o, n) PROVE ApiInv'
    BY <2>5, lua_pushcclosureKeeps
  <2>6. ASSUME Return PROVE ApiInv'
    BY <2>6, ReturnKeeps
  <2> QED
    BY <1>1, <2>1, <2>2, <2>3, <2>4, <2>5, <2>6 DEF StackCall
<1>2. CASE HeapCall
  <2>1. ASSUME NEW p \in index2adr,
               lua_rawget(p) \/ lua_rawgeti(p) \/ lua_rawset(p) \/ lua_rawseti(p) \/ lua_next(p)
        PROVE  ApiInv'
    BY <2>1, lua_rawgetKeeps, lua_rawgetiKeeps, lua_rawsetKeeps, lua_rawsetiKeeps, lua_nextKeeps
  <2>2. ASSUME NEW p \in index2adr,
               lua_getmetatable(p) \/ lua_setmetatable(p) \/ lua_getfenv(p) \/ lua_setfenv(p)
        PROVE  ApiInv'
    BY <2>2, lua_getmetatableKeeps, lua_setmetatableKeeps, lua_getfenvKeeps, lua_setfenvKeeps
  <2>3. ASSUME NEW p \in index2adr,
               \/ lua_setfenvThread(p) \/ lua_setfenvOther(p)
               \/ lua_getupvalue(p) \/ lua_setupvalue(p)
        PROVE  ApiInv'
    BY <2>3, lua_setfenvThreadKeeps, lua_setfenvOtherKeeps, lua_getupvalueKeeps,
       lua_setupvalueKeeps
  <2>4. ASSUME TakeOver PROVE ApiInv'
    BY <2>4, TakeOverKeeps
  <2> QED
    BY <1>2, <2>1, <2>2, <2>3, <2>4 DEF HeapCall
<1>3. CASE Release
  <2>1. PICK o \in Obj : Strip(o) \/ Free(o) \/ \E p \in Place : Finalizer(o, p)
    BY <1>3 DEF Release
  <2> QED
    BY <2>1, StripKeeps, FreeKeeps, FinalizerKeeps
<1>4. CASE UNCHANGED avars
  <2>1. Store' = Store /\ Owed' = Owed /\ Half' = Half /\ Gone' = Gone
    BY <1>4 DEF avars, Store, Owed, HalfDone, Half, Gone
  <2>2. mem' = Store.mem /\ ref' = Store.ref /\ zero' = Store.zero
    BY <1>4 DEF avars, Store
  <2>3. HalfOK' /\ TopIsNil'
    BY <1>4 DEF avars, ApiInv, HalfOK, TopIsNil, index2adr
  <2>4. top' \in 1 .. Slots + 1 /\ heap' \subseteq Obj /\ dying' \subseteq Obj
        /\ leaked' \subseteq Obj /\ left' \subseteq Slot
    BY <1>4 DEF avars, ApiInv, ApiTypeOK
  <2>5. Sound(Store, Owed', Half', Gone')
    BY <2>1 DEF ApiInv
  <2> QED
    BY <2>2, <2>3, <2>4, <2>5, InvFrom
<1> QED
  BY <1>1, <1>2, <1>3, <1>4 DEF Next

(* Whatever calls the API is given, and wherever its releases and its      *)
(* finalizers fall among them, every place that holds an object is in the  *)
(* object's count, nothing that is being released is held by another       *)
(* place, and the slots above the top are nil.                             *)
THEOREM ApiInvariant == ~FinalizerInHalf => (Spec => []ApiInv)
<1> SUFFICES ASSUME ~FinalizerInHalf PROVE Spec => []ApiInv
  OBVIOUS
<1>1. ApiInv /\ [Next]_avars => ApiInv'
  BY NextKeeps
<1> QED
  BY <1>1, InitInv, PTL DEF Spec

(* The values a lua_State, its stack and its objects hold are always of    *)
(* the kinds that lapi.c asserts of them.                                  *)
THEOREM ApiTypeCorrect == ~FinalizerInHalf => (Spec => []ApiTypeOK)
<1>1. ApiInv => ApiTypeOK
  BY DEF ApiInv
<1> QED
  BY <1>1, ApiInvariant, PTL

(* The counts are exact after every call and in the middle of it: each API *)
(* call adds what it stores and takes back what it overwrites, but for the *)
(* reference lua_setfenv loses and the field that is half written.         *)
THEOREM ApiCountsCorrect == ~FinalizerInHalf => (Spec => []ApiCounts)
<1>1. ASSUME ApiInv PROVE ApiCounts
  <2>1. ASSUME NEW o \in Obj
        PROVE  ref[o] = Refs(mem, o)
                         + ((IF o \in leaked THEN 1 ELSE 0) - (IF HalfDone(o) THEN 1 ELSE 0))
    <3>1. Store.ref[o] = Refs(Store.mem, o) + Owed[o]
      BY <1>1 DEF ApiInv, Sound
    <3> QED
      BY <3>1 DEF Store, Owed
  <2>2. ASSUME NEW o \in Obj
        PROVE  ref[o] = Refs(mem, o) + (IF o \in leaked THEN 1 ELSE 0)
                         - (IF HalfDone(o) THEN 1 ELSE 0)
    <3>1. mem \in [Place -> Value]
      BY <1>1 DEF ApiInv, ApiTypeOK, Stores, Store
    <3>2. Refs(mem, o) \in Nat
      BY <3>1, RefsOfHeld
    <3> QED
      BY <2>1, <3>2
  <2>3. heap \subseteq Obj
    BY <1>1 DEF ApiInv, ApiTypeOK
  <2> QED
    BY <2>2, <2>3 DEF ApiCounts
<1> QED
  BY <1>1, ApiInvariant, PTL

(* No API call releases an object that a slot, a field or a registry still *)
(* holds: in every call that moves a value the reference is taken at the   *)
(* new place before the old one gives it back (the comment in lua_insert,  *)
(* lapi.c).                                                                *)
THEOREM ReleaseUnreferencedAlways == ~FinalizerInHalf => (Spec => []ReleaseUnreferenced)
<1>1. ASSUME ApiInv PROVE ReleaseUnreferenced
  <2>1. ASSUME NEW o \in zero \cup dying, NEW p \in Place, mem[p] = o
        PROVE  half = <<p>>
    <3>1. \A q \in Place \ Half : mem[q] # o
      BY <1>1 DEF ApiInv, Sound, Gone, Store
    <3>2. p \in Half
      BY <2>1, <3>1
    <3>3. half # <<>> /\ p = half[1]
      BY <3>2 DEF Half
    <3>4. PICK q \in index2adr, f \in {"metatable", "env"} : half = <<F(mem[q], f)>>
      BY <1>1, <3>3 DEF ApiInv, HalfOK
    <3> QED
      BY <3>3, <3>4
  <2> QED
    BY <2>1 DEF ReleaseUnreferenced
<1> QED
  BY <1>1, ApiInvariant, PTL

(* A call that pushes finds nil at the top, as lua_assert(ttisnil(L->top)) *)
(* says all over lapi.c: whoever pops a value clears its slot.             *)
THEOREM TopIsNilAlways == ~FinalizerInHalf => (Spec => []TopIsNil)
<1>1. ApiInv => TopIsNil
  BY DEF ApiInv
<1> QED
  BY <1>1, ApiInvariant, PTL

=============================================================================
