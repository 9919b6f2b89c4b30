--------------------------- MODULE RefCountProofs ---------------------------
(***************************************************************************)
(* Proofs about RefCount for every heap, every set of fields and every set *)
(* of finalized userdata, with errors in finalizers allowed, as long as no *)
(* finalizer returns with its argument still stored (~Retain).             *)
(***************************************************************************)
EXTENDS RefCount, FiniteSetTheorems, TLAPS

Value == Obj \cup {Nil}

-----------------------------------------------------------------------------
(* The inductive invariant                                                 *)

(* An object that is being released, or was freed, has no holder left.     *)
Unheld == \A o \in Obj : st[o] \in {"free", "dying"} => Holders(o) = {}

(* FINALIZEDBIT is set before a finalizer runs; the main thread stays.     *)
StatusInv ==
  /\ st[Main] = "live"
  /\ \A o \in Obj : st[o] = "finalizing" => o \in fin

IndInv == TypeOK /\ RefExact /\ Unheld /\ StatusInv /\ NoDoubleRelease

(* What setobj does to counts and holders, from the counts r: every count  *)
(* moves with the number of holders, and an object without holders only    *)
(* gains one by being the value stored.                                    *)
LEMMA SetObjCounts ==
  ASSUME TypeOK, NEW s, NEW r \in [Obj -> Int],
         NEW p \in Obj, NEW f \in Fld, NEW v \in Value,
         SetObj(s, r, p, f, v)
  PROVE  /\ fld' \in [Obj \X Fld -> Value]
         /\ ref' \in [Obj -> Int]
         /\ \A o \in Obj :
              /\ Cardinality(Holders(o)) \in Nat
              /\ Cardinality(Holders(o)') \in Nat
              /\ Cardinality(Holders(o)') - Cardinality(Holders(o)) = ref'[o] - r[o]
              /\ o # v => Holders(o)' \subseteq Holders(o)
              /\ Cardinality(Holders(o)') = 0 => Holders(o)' = {}
<1> DEFINE x == <<p, f>>
<1>1. x \in Obj \X Fld /\ fld[<<p, f>>] = fld[x]
  OBVIOUS
<1>2. fld \in [Obj \X Fld -> Value] /\ fld[x] \in Value /\ fld' = [fld EXCEPT ![x] = v]
  BY DEF TypeOK, Value, SetObj
<1>3. ref' = SubRef(AddRef(r, v), fld[x])
  BY <1>1 DEF SetObj
<1>4. /\ ref' \in [Obj -> Int]
      /\ \A o \in Obj : ref'[o] - r[o] = (IF v = o THEN 1 ELSE 0)
                                         - (IF fld[x] = o THEN 1 ELSE 0)
  <2>1. AddRef(r, v) \in [Obj -> Int]
        /\ \A o \in Obj : AddRef(r, v)[o] = r[o] + (IF v = o THEN 1 ELSE 0)
    BY ObjAssumption DEF AddRef, Value
  <2> HIDE DEF x
  <2> DEFINE r1 == AddRef(r, v)
  <2>2. SubRef(r1, fld[x]) \in [Obj -> Int]
        /\ \A o \in Obj : SubRef(r1, fld[x])[o] = r1[o] - (IF fld[x] = o THEN 1 ELSE 0)
    <3> HIDE DEF r1
    <3>1. r1 \in [Obj -> Int]
      BY <2>1 DEF r1
    <3> QED
      BY <1>2, <3>1, ObjAssumption DEF SubRef, Value
  <2> QED
    BY <1>3, <2>1, <2>2
<1>5. ASSUME NEW o \in Obj
      PROVE  /\ Cardinality(Holders(o)) \in Nat
             /\ Cardinality(Holders(o)') \in Nat
             /\ Cardinality(Holders(o)') - Cardinality(Holders(o)) = ref'[o] - r[o]
             /\ o # v => Holders(o)' \subseteq Holders(o)
             /\ Cardinality(Holders(o)') = 0 => Holders(o)' = {}
  <2> HIDE DEF x
  <2>1. /\ IsFiniteSet(Holders(o)) /\ Cardinality(Holders(o)) \in Nat
        /\ IsFiniteSet(Holders(o)') /\ Cardinality(Holders(o)') \in Nat
    <3>1. IsFiniteSet(Obj \X Fld)
      BY ObjAssumption, FS_Product
    <3>2. Holders(o) \subseteq Obj \X Fld /\ Holders(o)' \subseteq Obj \X Fld
      BY DEF Holders
    <3> QED
      BY <3>1, <3>2, FS_Subset, FS_CardinalityType
  <2>2. ref'[o] - r[o] = (IF v = o THEN 1 ELSE 0) - (IF fld[x] = o THEN 1 ELSE 0)
    BY <1>4
  <2>3. \A y \in Obj \X Fld : fld'[y] = IF y = x THEN v ELSE fld[y]
    BY <1>1, <1>2
  <2>4. r[o] \in Int /\ ref'[o] \in Int
    BY <1>4
  <2>5. Cardinality(Holders(o)') = 0 => Holders(o)' = {}
    BY <2>1, FS_EmptySet
  <2>6. CASE v = o <=> fld[x] = o
    <3>1. Holders(o)' = Holders(o)
      BY <2>3, <2>6 DEF Holders
    <3> QED
      BY <2>1, <2>2, <2>4, <2>5, <2>6, <3>1
  <2>7. CASE v = o /\ fld[x] # o
    <3>1. Holders(o)' = Holders(o) \cup {x} /\ x \notin Holders(o)
      BY <1>1, <2>3, <2>7 DEF Holders
    <3>2. Cardinality(Holders(o) \cup {x}) = Cardinality(Holders(o)) + 1
      BY <2>1, <3>1, FS_AddElement
    <3> QED
      BY <2>1, <2>2, <2>4, <2>5, <2>7, <3>1, <3>2
  <2>8. CASE v # o /\ fld[x] = o
    <3>1. Holders(o)' = Holders(o) \ {x} /\ x \in Holders(o)
      BY <1>1, <2>3, <2>8 DEF Holders
    <3>2. Cardinality(Holders(o) \ {x}) = Cardinality(Holders(o)) - 1
      BY <2>1, <3>1, FS_RemoveElement
    <3> QED
      BY <2>1, <2>2, <2>4, <2>5, <2>8, <3>1, <3>2
  <2> QED
    BY <2>7, <2>8, <2>6
<1>6. fld' \in [Obj \X Fld -> Value]
  BY <1>2
<1> QED
  BY <1>4, <1>5, <1>6

(* The invariant over given statuses s and counts r, so that it can be     *)
(* assumed of the state in which a setobj starts.                          *)
CountsIn(s, r) ==
  \A o \in Obj : s[o] # "free" =>
    r[o] = Cardinality(Holders(o)) + (IF s[o] = "finalizing" THEN 1 ELSE 0)

UnheldIn(s) == \A o \in Obj : s[o] \in {"free", "dying"} => Holders(o) = {}

FramesIn(s) ==
  \A i \in 1 .. Len(frames) :
    /\ s[frames[i]] \in {"dying", "finalizing"}
    /\ \A j \in 1 .. Len(frames) : frames[j] = frames[i] => j = i

StatusIn(s) ==
  /\ s[Main] = "live"
  /\ \A o \in Obj : s[o] = "finalizing" => o \in fin /\ o \in fin'

(* A setobj preserves the invariant when the statuses s and the counts r   *)
(* it starts from satisfy it and the stored value is in use.  If the old   *)
(* value is released, it was live and has no holder left.                  *)
LEMMA SetObjStep ==
  ASSUME TypeOK, NEW s \in [Obj -> Status], NEW r \in [Obj -> Int],
         NEW p \in Obj, NEW f \in Fld, NEW v \in Value,
         SetObj(s, r, p, f, v), fin' \subseteq Obj,
         CountsIn(s, r), UnheldIn(s), FramesIn(s), StatusIn(s),
         v # Nil => s[v] \in {"live", "finalizing"}
  PROVE  IndInv'
<1> PICK old \in Value : old = fld[<<p, f>>]
  BY DEF TypeOK, Value
<1> DEFINE released == old # Nil /\ ref'[old] <= 0 /\ ~Kept(old)
<1>1. /\ fld' \in [Obj \X Fld -> Value]
      /\ ref' \in [Obj -> Int]
      /\ \A o \in Obj :
           /\ Cardinality(Holders(o)) \in Nat
           /\ Cardinality(Holders(o)') \in Nat
           /\ Cardinality(Holders(o)') - Cardinality(Holders(o)) = ref'[o] - r[o]
           /\ o # v => Holders(o)' \subseteq Holders(o)
           /\ Cardinality(Holders(o)') = 0 => Holders(o)' = {}
  BY SetObjCounts
<1>2. /\ released => st' = [s EXCEPT ![old] = "dying"] /\ frames' = Append(frames, old)
      /\ ~released => st' = s /\ frames' = frames
  BY DEF SetObj, ReleaseIfZero
<1>3. old # Nil => old \in Obj /\ Holders(old) # {}
  BY DEF TypeOK, Value, Holders
<1>4. released => old # Nil /\ ref'[old] <= 0 /\ old # Main /\ old \notin fin
  BY DEF Kept
<1> HIDE DEF released
<1>5. ASSUME NEW o \in Obj, s[o] # "free"
      PROVE  ref'[o] = Cardinality(Holders(o)') + (IF s[o] = "finalizing" THEN 1 ELSE 0)
  <2>1. r[o] = Cardinality(Holders(o)) + (IF s[o] = "finalizing" THEN 1 ELSE 0)
    BY <1>5 DEF CountsIn
  <2>2. /\ Cardinality(Holders(o)) \in Nat
        /\ Cardinality(Holders(o)') \in Nat
        /\ Cardinality(Holders(o)') - Cardinality(Holders(o)) = ref'[o] - r[o]
        /\ ref'[o] \in Int /\ r[o] \in Int
    BY <1>1
  <2> QED
    BY <2>1, <2>2
<1>6. ASSUME released
      PROVE  old \in Obj /\ s[old] = "live" /\ Holders(old)' = {}
  <2>1. old \in Obj /\ s[old] \notin {"free", "dying"}
    BY <1>3, <1>4, <1>6 DEF UnheldIn
  <2>2. s[old] = "live"
    BY <1>4, <1>6, <2>1 DEF Status, StatusIn
  <2>3. ref'[old] = Cardinality(Holders(old)') + (IF s[old] = "finalizing" THEN 1 ELSE 0)
    BY <1>5, <2>1
  <2>4. Cardinality(Holders(old)') \in Nat /\ ref'[old] <= 0
    BY <1>1, <1>4, <1>6, <2>1
  <2>5. Cardinality(Holders(old)') = 0
    BY <2>2, <2>3, <2>4
  <2> QED
    BY <1>1, <2>1, <2>2, <2>5
<1>7. st' \in [Obj -> Status] /\ frames' \in Seq(Obj)
  <2>1. st' \in [Obj -> Status]
    BY <1>2, <1>6 DEF Status
  <2>2. CASE released
    <3>1. frames \in Seq(Obj) /\ old \in Obj /\ frames' = Append(frames, old)
      BY <1>2, <1>6, <2>2 DEF TypeOK
    <3>2. frames' \in Seq(Obj)
      BY <3>1
    <3> QED
      BY <2>1, <3>2
  <2>3. CASE ~released
    BY <1>2, <2>1, <2>3 DEF TypeOK
  <2> QED
    BY <2>2, <2>3
<1>8. \A o \in Obj : \/ st'[o] = s[o]
                     \/ released /\ o = old /\ s[o] = "live" /\ st'[o] = "dying"
  BY <1>2, <1>6
<1>9. TypeOK'
  BY <1>1, <1>7 DEF TypeOK, Value
<1>10. RefExact'
  <2> SUFFICES ASSUME NEW o \in Obj, st'[o] # "free"
               PROVE  ref'[o] = Cardinality(Holders(o)') + ArgumentCount(o)'
    BY DEF RefExact
  <2>1. s[o] # "free"
    BY <1>8
  <2>2. ArgumentCount(o)' = IF s[o] = "finalizing" THEN 1 ELSE 0
    BY <1>8 DEF ArgumentCount
  <2> QED
    BY <1>5, <2>1, <2>2
<1>11. Unheld'
  <2> SUFFICES ASSUME NEW o \in Obj, st'[o] \in {"free", "dying"}
               PROVE  Holders(o)' = {}
    BY DEF Unheld
  <2>1. CASE released /\ o = old
    BY <1>6, <2>1
  <2>2. CASE ~(released /\ o = old)
    <3>1. s[o] \in {"free", "dying"} /\ Holders(o) = {}
      BY <1>8, <2>2 DEF UnheldIn
    <3>2. o # v
      BY <3>1, ObjAssumption DEF Value
    <3> QED
      BY <1>1, <3>1, <3>2
  <2> QED
    BY <2>1, <2>2
<1>12. StatusInv'
  <2>1. Main \in Obj
    BY ObjAssumption
  <2>2. ~(released /\ old = Main)
    BY <1>4
  <2>3. st'[Main] = "live"
    BY <1>8, <2>1, <2>2 DEF StatusIn
  <2> QED
    BY <1>8, <2>3 DEF StatusInv, StatusIn
<1>13. NoDoubleRelease'
  <2>1. CASE ~released
    BY <1>2, <2>1 DEF NoDoubleRelease, FramesIn
  <2>2. CASE released
    <3>1. /\ Len(frames') = Len(frames) + 1
          /\ \A i \in 1 .. Len(frames) : frames'[i] = frames[i] /\ frames[i] \in Obj
          /\ frames'[Len(frames) + 1] = old
          /\ Len(frames) \in Nat
      <4>1. frames \in Seq(Obj) /\ old \in Obj /\ frames' = Append(frames, old)
        BY <1>2, <1>6, <2>2 DEF TypeOK
      <4> QED
        BY <4>1
    <3>2. \A i \in 1 .. Len(frames) : frames[i] # old
      BY <1>6, <2>2 DEF FramesIn
    <3>3. st'[old] = "dying"
      BY <1>2, <1>6, <2>2
    <3>4. \A i \in 1 .. Len(frames) : st'[frames[i]] \in {"dying", "finalizing"}
      BY <1>8, <3>1, <3>2 DEF FramesIn
    <3>5. \A i \in 1 .. Len(frames) + 1 :
            i = Len(frames) + 1 \/ i \in 1 .. Len(frames)
      BY <3>1
    <3>6. \A i, j \in 1 .. Len(frames) : frames[i] = frames[j] => i = j
      BY <1>2 DEF FramesIn
    <3>7. ASSUME NEW i \in 1 .. Len(frames'), NEW j \in 1 .. Len(frames'),
                 frames'[i] = frames'[j]
          PROVE  i = j
      <4>1. i \in 1 .. Len(frames) => frames'[i] = frames[i] /\ frames[i] # old
        BY <3>1, <3>2
      <4>2. j \in 1 .. Len(frames) => frames'[j] = frames[j] /\ frames[j] # old
        BY <3>1, <3>2
      <4>3. /\ i = Len(frames) + 1 \/ i \in 1 .. Len(frames)
            /\ j = Len(frames) + 1 \/ j \in 1 .. Len(frames)
        BY <3>1, <3>5
      <4> QED
        BY <3>1, <3>6, <3>7, <4>1, <4>2, <4>3
    <3>8. \A i \in 1 .. Len(frames') : st'[frames'[i]] \in {"dying", "finalizing"}
      BY <3>1, <3>3, <3>4, <3>5
    <3> QED
      BY <3>7, <3>8 DEF NoDoubleRelease
  <2> QED
    BY <2>1, <2>2
<1> QED
  BY <1>9, <1>10, <1>11, <1>12, <1>13 DEF IndInv

-----------------------------------------------------------------------------
(* The invariant holds in every step                                       *)

(* The main thread is the only object, and nothing refers to it.           *)
LEMMA InitInv == Init => IndInv
<1> SUFFICES ASSUME Init PROVE IndInv
  OBVIOUS
<1>1. TypeOK
  BY ObjAssumption DEF Init, TypeOK, Status
<1>2. \A o \in Obj : Holders(o) = {}
  BY ObjAssumption DEF Init, Holders
<1>3. Cardinality({}) = 0
  BY FS_EmptySet
<1>4. RefExact
  <2>1. \A o \in Obj : ref[o] = 0 /\ ArgumentCount(o) = 0
    BY DEF Init, ArgumentCount
  <2> QED
    BY <1>2, <1>3, <2>1 DEF RefExact
<1>5. Unheld /\ StatusInv /\ NoDoubleRelease
  BY <1>2, ObjAssumption DEF Init, Unheld, StatusInv, NoDoubleRelease
<1> QED
  BY <1>1, <1>4, <1>5 DEF IndInv

(* A setobj that starts from the current state.                            *)
LEMMA PlainStore ==
  ASSUME IndInv, NEW p \in Obj, NEW f \in Fld, NEW v \in Value,
         SetObj(st, ref, p, f, v), UNCHANGED fin,
         v # Nil => st[v] \in {"live", "finalizing"}
  PROVE  IndInv'
<1>1. TypeOK /\ st \in [Obj -> Status] /\ ref \in [Obj -> Int] /\ fin' \subseteq Obj
  BY DEF IndInv, TypeOK
<1>2. CountsIn(st, ref)
  BY DEF IndInv, RefExact, ArgumentCount, CountsIn
<1>3. UnheldIn(st) /\ FramesIn(st) /\ StatusIn(st)
  BY DEF IndInv, Unheld, UnheldIn, NoDoubleRelease, FramesIn, StatusInv, StatusIn
<1> QED
  BY <1>1, <1>2, <1>3, SetObjStep

(* What a field holds is neither freed nor being released.                 *)
LEMMA HeldIsUsed ==
  ASSUME IndInv, NEW x \in Obj \X Fld, fld[x] # Nil
  PROVE  fld[x] \in Obj /\ st[fld[x]] \in {"live", "finalizing"}
<1>1. fld[x] \in Obj
  BY DEF IndInv, TypeOK
<1>2. Holders(fld[x]) # {}
  BY DEF Holders
<1>3. st[fld[x]] \in Status
  BY <1>1 DEF IndInv, TypeOK
<1> QED
  BY <1>1, <1>2, <1>3 DEF IndInv, Unheld, Status

LEMMA AssignInv ==
  ASSUME IndInv, NEW p \in Obj, NEW q \in Obj, NEW f \in Fld, NEW g \in Fld,
         Assign(p, f, q, g)
  PROVE  IndInv'
<1> PICK v \in Value : v = fld[<<q, g>>]
  BY DEF IndInv, TypeOK, Value
<1>1. v # Nil => st[v] \in {"live", "finalizing"}
  BY HeldIsUsed
<1>2. SetObj(st, ref, p, f, v) /\ UNCHANGED fin
  BY DEF Assign
<1> QED
  BY <1>1, <1>2, PlainStore

LEMMA ClearInv ==
  ASSUME IndInv, NEW p \in Obj, NEW f \in Fld, Clear(p, f)
  PROVE  IndInv'
<1>1. Nil \in Value
  BY DEF Value
<1> QED
  BY <1>1, PlainStore DEF Clear

LEMMA AssignArgumentInv ==
  ASSUME IndInv, NEW p \in Obj, NEW f \in Fld, AssignArgument(p, f)
  PROVE  IndInv'
<1> PICK u \in Argument : SetObj(st, ref, p, f, u)
  BY DEF AssignArgument
<1>1. u \in Value /\ st[u] = "finalizing"
  BY DEF Argument, Value
<1>2. UNCHANGED fin
  BY DEF AssignArgument
<1> QED
  BY <1>1, <1>2, PlainStore

(* A fresh object starts with count 0 and no holder: its cell was free.    *)
LEMMA NewInv ==
  ASSUME IndInv, NEW o \in Obj, NEW t \in Fld, New(o, t)
  PROVE  IndInv'
<1> PICK s \in [Obj -> Status] : s = [st EXCEPT ![o] = "live"]
  BY DEF IndInv, TypeOK, Status
<1> PICK r \in [Obj -> Int] : r = [ref EXCEPT ![o] = 0]
  <2>1. [ref EXCEPT ![o] = 0] \in [Obj -> Int]
    BY DEF IndInv, TypeOK
  <2> QED
    BY <2>1, Zenon
<1>1. SetObj(s, r, Main, t, o) /\ st[o] = "free"
  BY DEF New
<1>2. TypeOK /\ Main \in Obj /\ o \in Value /\ fin' \subseteq Obj /\ s[o] = "live"
  BY ObjAssumption DEF New, IndInv, TypeOK, Value
<1>3. Holders(o) = {} /\ Cardinality({}) = 0
  BY <1>1, FS_EmptySet DEF IndInv, Unheld
<1>4. CountsIn(s, r)
  <2> SUFFICES ASSUME NEW a \in Obj, s[a] # "free"
               PROVE  r[a] = Cardinality(Holders(a)) + (IF s[a] = "finalizing" THEN 1 ELSE 0)
    BY DEF CountsIn
  <2>1. CASE a = o
    <3>1. r[o] = 0
      BY DEF IndInv, TypeOK
    <3> QED
      BY <1>2, <1>3, <2>1, <3>1
  <2>2. CASE a # o
    BY <2>2 DEF IndInv, TypeOK, RefExact, ArgumentCount
  <2> QED
    BY <2>1, <2>2
<1>5. UnheldIn(s)
  BY DEF IndInv, TypeOK, Unheld, UnheldIn
<1>6. FramesIn(s)
  BY <1>1 DEF IndInv, TypeOK, NoDoubleRelease, FramesIn
<1>7. StatusIn(s)
  BY <1>1, <1>2 DEF IndInv, TypeOK, StatusInv, StatusIn, New
<1> QED
  BY <1>1, <1>2, <1>4, <1>5, <1>6, <1>7, SetObjStep

(* The innermost frame.                                                    *)
LEMMA TopFrame ==
  ASSUME IndInv, frames # <<>>
  PROVE  /\ Len(frames) \in Nat \ {0} /\ Len(frames) \in 1 .. Len(frames)
         /\ Top \in Obj /\ Top # Main
<1>1. Len(frames) \in Nat \ {0} /\ frames \in Seq(Obj)
  BY DEF IndInv, TypeOK
<1>2. Len(frames) \in 1 .. Len(frames) /\ frames[Len(frames)] \in Obj
  BY <1>1
<1>3. st[frames[Len(frames)]] \in {"dying", "finalizing"}
  BY <1>2 DEF IndInv, NoDoubleRelease
<1> QED
  BY <1>1, <1>2, <1>3 DEF Top, IndInv, StatusInv

LEMMA CallFinalizerInv ==
  ASSUME IndInv, CallFinalizer
  PROVE  IndInv'
<1> PICK t \in Obj : t = Top /\ t # Main
  BY TopFrame DEF CallFinalizer
<1>1. /\ fin' = fin \cup {t} /\ st' = [st EXCEPT ![t] = "finalizing"]
      /\ ref' = [ref EXCEPT ![t] = @ + 1]
      /\ fld' = fld /\ frames' = frames /\ st[t] = "dying"
  BY DEF CallFinalizer
<1>2. TypeOK'
  BY <1>1 DEF IndInv, TypeOK, Status
<1>3. \A o \in Obj : Holders(o)' = Holders(o)
  BY <1>1 DEF Holders
<1>4. RefExact'
  <2> SUFFICES ASSUME NEW o \in Obj, st'[o] # "free"
               PROVE  ref'[o] = Cardinality(Holders(o)) + ArgumentCount(o)'
    BY <1>3 DEF RefExact
  <2>1. st[o] # "free" /\ ref[o] = Cardinality(Holders(o)) + ArgumentCount(o)
    BY <1>1 DEF IndInv, RefExact, TypeOK
  <2>2. CASE o = t
    <3>1. ref[o] = Cardinality({}) + 0 /\ Holders(o) = {}
      BY <1>1, <2>1, <2>2 DEF IndInv, Unheld, ArgumentCount
    <3>2. ref'[o] = ref[o] + 1 /\ ArgumentCount(o)' = 1
      BY <1>1, <2>2 DEF IndInv, TypeOK, ArgumentCount
    <3> QED
      BY <3>1, <3>2, FS_EmptySet
  <2>3. CASE o # t
    <3>1. ref'[o] = ref[o] /\ st'[o] = st[o]
      BY <1>1, <2>3 DEF IndInv, TypeOK
    <3> QED
      BY <2>1, <3>1 DEF ArgumentCount
  <2> QED
    BY <2>2, <2>3
<1>5. Unheld'
  BY <1>1, <1>3 DEF IndInv, TypeOK, Unheld
<1>6. StatusInv'
  BY <1>1 DEF IndInv, TypeOK, StatusInv
<1>7. NoDoubleRelease'
  BY <1>1 DEF IndInv, TypeOK, NoDoubleRelease
<1> QED
  BY <1>2, <1>4, <1>5, <1>6, <1>7 DEF IndInv

(* The argument has no other holder, so unlinking it is safe; its count    *)
(* reaching zero does not release it again because it is finalized.        *)
LEMMA FinalizerReturnInv ==
  ASSUME IndInv, ~Retain, FinalizerReturn
  PROVE  IndInv'
<1> PICK t \in Obj : t = Top /\ t # Main
  BY TopFrame DEF FinalizerReturn, AfterFinalizer
<1>1. /\ st[t] = "finalizing" /\ Holders(t) = {} /\ fin' = fin
      /\ st' = [st EXCEPT ![t] = "dying"]
      /\ ref' = [ref EXCEPT ![t] = @ - 1] /\ fld' = fld
  BY DEF FinalizerReturn, AfterFinalizer
<1>2. frames' = frames
  BY <1>1 DEF FinalizerReturn, AfterFinalizer, Kept, IndInv, StatusInv
<1>3. TypeOK'
  BY <1>1, <1>2 DEF IndInv, TypeOK, Status
<1>4. \A o \in Obj : Holders(o)' = Holders(o)
  BY <1>1 DEF Holders
<1>5. RefExact'
  <2> SUFFICES ASSUME NEW o \in Obj, st'[o] # "free"
               PROVE  ref'[o] = Cardinality(Holders(o)) + ArgumentCount(o)'
    BY <1>4 DEF RefExact
  <2>1. st[o] # "free" /\ ref[o] = Cardinality(Holders(o)) + ArgumentCount(o)
    BY <1>1 DEF IndInv, RefExact, TypeOK
  <2>2. CASE o = t
    <3>1. ref[o] = Cardinality({}) + 1 /\ Holders(o) = {}
      BY <1>1, <2>1, <2>2 DEF ArgumentCount
    <3>2. ref'[o] = ref[o] - 1 /\ ArgumentCount(o)' = 0
      BY <1>1, <2>2 DEF IndInv, TypeOK, ArgumentCount
    <3> QED
      BY <3>1, <3>2, FS_EmptySet
  <2>3. CASE o # t
    <3>1. ref'[o] = ref[o] /\ st'[o] = st[o]
      BY <1>1, <2>3 DEF IndInv, TypeOK
    <3> QED
      BY <2>1, <3>1 DEF ArgumentCount
  <2> QED
    BY <2>2, <2>3
<1>6. Unheld'
  BY <1>1, <1>4 DEF IndInv, TypeOK, Unheld
<1>7. StatusInv'
  BY <1>1 DEF IndInv, TypeOK, StatusInv
<1>8. NoDoubleRelease'
  BY <1>1, <1>2 DEF IndInv, TypeOK, NoDoubleRelease
<1> QED
  BY <1>3, <1>5, <1>6, <1>7, <1>8 DEF IndInv

(* An error unwinds a suffix of the frames: the finalizers in it lose      *)
(* their argument slot and stay on rootgc, the other objects are lost but  *)
(* remain unreferenced.                                                    *)
LEMMA FinalizerErrorInv ==
  ASSUME IndInv, FinalizerError
  PROVE  IndInv'
<1> PICK n \in 0 .. Len(frames) - 1 :
      LET gone == {frames[i] : i \in n + 1 .. Len(frames)}
          final == {o \in gone : st[o] = "finalizing"}
      IN /\ n > 0 => st[frames[n]] = "finalizing"
         /\ frames' = SubSeq(frames, 1, n)
         /\ st' = [o \in Obj |-> IF o \in final THEN "live" ELSE st[o]]
         /\ ref' = [o \in Obj |-> IF o \in final THEN ref[o] - 1 ELSE ref[o]]
  BY DEF FinalizerError
<1> DEFINE gone == {frames[i] : i \in n + 1 .. Len(frames)}
           final == {o \in gone : st[o] = "finalizing"}
<1>1. /\ frames' = SubSeq(frames, 1, n)
      /\ st' = [o \in Obj |-> IF o \in final THEN "live" ELSE st[o]]
      /\ ref' = [o \in Obj |-> IF o \in final THEN ref[o] - 1 ELSE ref[o]]
      /\ fld' = fld /\ fin' = fin
  BY DEF FinalizerError
<1>2. frames \in Seq(Obj) /\ Len(frames) \in Nat /\ n \in Nat /\ n <= Len(frames)
  BY DEF IndInv, TypeOK
<1>3. /\ Len(frames') = n /\ frames' \in Seq(Obj)
      /\ \A i \in 1 .. n : frames'[i] = frames[i] /\ i \in 1 .. Len(frames)
  BY <1>1, <1>2
<1>4. \A i \in 1 .. n : frames[i] \notin gone
  BY <1>2 DEF IndInv, NoDoubleRelease
<1>5. final \subseteq gone /\ \A o \in final : st[o] = "finalizing"
  OBVIOUS
<1> HIDE DEF gone, final
<1>6. TypeOK'
  BY <1>1, <1>3 DEF IndInv, TypeOK, Status
<1>7. \A o \in Obj : Holders(o)' = Holders(o)
  BY <1>1 DEF Holders
<1>8. RefExact'
  <2> SUFFICES ASSUME NEW o \in Obj, st'[o] # "free"
               PROVE  ref'[o] = Cardinality(Holders(o)) + ArgumentCount(o)'
    BY <1>7 DEF RefExact
  <2>1. CASE o \in final
    <3>1. st[o] = "finalizing" /\ st'[o] = "live" /\ ref'[o] = ref[o] - 1
      BY <1>1, <1>5, <2>1
    <3>2. ref[o] = Cardinality(Holders(o)) + 1
      BY <3>1 DEF IndInv, RefExact, ArgumentCount
    <3>3. ArgumentCount(o)' = 0 /\ ref[o] \in Int
      BY <3>1 DEF ArgumentCount, IndInv, TypeOK
    <3>4. Cardinality(Holders(o)) \in Nat
      <4>1. IsFiniteSet(Obj \X Fld) /\ Holders(o) \subseteq Obj \X Fld
        BY ObjAssumption, FS_Product DEF Holders
      <4> QED
        BY <4>1, FS_Subset, FS_CardinalityType
    <3> QED
      BY <3>1, <3>2, <3>3, <3>4
  <2>2. CASE o \notin final
    <3>1. st'[o] = st[o] /\ ref'[o] = ref[o]
      BY <1>1, <2>2
    <3> QED
      BY <3>1 DEF IndInv, RefExact, ArgumentCount
  <2> QED
    BY <2>1, <2>2
<1>9. Unheld'
  BY <1>1, <1>7 DEF IndInv, Unheld
<1>10. StatusInv'
  BY <1>1, ObjAssumption DEF IndInv, StatusInv
<1>11. NoDoubleRelease'
  <2>1. \A i \in 1 .. n : frames[i] \in Obj /\ st'[frames[i]] = st[frames[i]]
    <3>1. \A i \in 1 .. n : frames[i] \in Obj /\ frames[i] \notin final
      BY <1>2, <1>3, <1>4, <1>5
    <3> QED
      BY <1>1, <3>1
  <2> QED
    BY <1>3, <2>1 DEF IndInv, NoDoubleRelease
<1> QED
  BY <1>6, <1>8, <1>9, <1>10, <1>11 DEF IndInv

LEMMA ReleaseMemberInv ==
  ASSUME IndInv, NEW f \in Fld, ReleaseMember(f)
  PROVE  IndInv'
<1> PICK t \in Obj : t = Top
  BY TopFrame DEF ReleaseMember
<1>1. SetObj(st, ref, t, f, Nil) /\ UNCHANGED fin /\ Nil \in Value
  BY DEF ReleaseMember, Value
<1> QED
  BY <1>1, PlainStore

LEMMA FreeObjectInv ==
  ASSUME IndInv, FreeObject
  PROVE  IndInv'
<1> PICK t \in Obj : t = Top /\ t # Main
  BY TopFrame DEF FreeObject
<1> PICK n \in Nat : n = Len(frames) - 1
  <2>1. Len(frames) \in Nat \ {0}
    BY TopFrame DEF FreeObject
  <2>2. Len(frames) - 1 \in Nat
    BY <2>1
  <2> QED
    BY <2>2
<1>1. /\ st[t] = "dying" /\ st' = [st EXCEPT ![t] = "free"]
      /\ frames' = SubSeq(frames, 1, n)
      /\ fld' = fld /\ ref' = ref /\ fin' = fin \ {t}
  BY DEF FreeObject
<1>2. frames \in Seq(Obj) /\ Len(frames) = n + 1 /\ frames[n + 1] = t
  BY TopFrame DEF FreeObject, IndInv, TypeOK, Top
<1>3. /\ Len(frames') = n /\ frames' \in Seq(Obj)
      /\ \A i \in 1 .. n : frames'[i] = frames[i] /\ i \in 1 .. Len(frames)
  <2>1. frames' = SubSeq(frames, 1, n)
    BY <1>1
  <2> QED
    BY <1>2, <2>1
<1>4. \A i \in 1 .. n : frames[i] # t
  BY <1>2 DEF IndInv, NoDoubleRelease
<1>5. TypeOK'
  <2>1. st' \in [Obj -> Status]
    BY <1>1 DEF IndInv, TypeOK, Status
  <2> QED
    BY <1>1, <1>3, <2>1 DEF IndInv, TypeOK
<1>6. \A o \in Obj : Holders(o)' = Holders(o)
  BY <1>1 DEF Holders
<1>7. \A o \in Obj : st'[o] = IF o = t THEN "free" ELSE st[o]
  BY <1>1 DEF IndInv, TypeOK
<1>8. RefExact' /\ Unheld' /\ StatusInv'
  <2>1. RefExact'
    BY <1>1, <1>6, <1>7 DEF IndInv, RefExact, ArgumentCount
  <2>2. Unheld'
    BY <1>1, <1>6, <1>7 DEF IndInv, Unheld
  <2>3. StatusInv'
    BY <1>1, <1>7, ObjAssumption DEF IndInv, StatusInv
  <2> QED
    BY <2>1, <2>2, <2>3
<1>9. NoDoubleRelease'
  <2>1. ASSUME NEW i \in 1 .. n PROVE frames[i] \in Obj /\ st'[frames[i]] = st[frames[i]]
    <3>1. frames[i] \in Obj
      BY <1>2, <1>3
    <3> QED
      BY <1>4, <1>7, <3>1
  <2>2. \A i \in 1 .. n : /\ st[frames[i]] \in {"dying", "finalizing"}
                         /\ \A j \in 1 .. n : frames[j] = frames[i] => j = i
    BY <1>3 DEF IndInv, NoDoubleRelease
  <2>3. \A i \in 1 .. Len(frames') : /\ st'[frames'[i]] \in {"dying", "finalizing"}
                                    /\ \A j \in 1 .. Len(frames') : frames'[j] = frames'[i] => j = i
    <3>1. Len(frames') = n /\ \A i \in 1 .. n : frames'[i] = frames[i]
      BY <1>3
    <3>2. ASSUME NEW i \in 1 .. n
          PROVE  /\ st'[frames'[i]] \in {"dying", "finalizing"}
                 /\ \A j \in 1 .. n : frames'[j] = frames'[i] => j = i
      <4>1. frames'[i] = frames[i] /\ st'[frames[i]] = st[frames[i]]
        BY <2>1, <3>1
      <4> QED
        BY <2>2, <3>1, <4>1
    <3> QED
      BY <3>1, <3>2
  <2> QED
    BY <2>3 DEF NoDoubleRelease
<1> QED
  BY <1>5, <1>8, <1>9 DEF IndInv

LEMMA NextInv ==
  ASSUME IndInv, ~Retain, [Next]_rcvars
  PROVE  IndInv'
<1>1. CASE Next
  BY <1>1, AssignInv, ClearInv, AssignArgumentInv, NewInv, CallFinalizerInv,
     FinalizerReturnInv, FinalizerErrorInv, ReleaseMemberInv, FreeObjectInv DEF Next
<1>2. CASE UNCHANGED rcvars
  <2>1. st' = st /\ fld' = fld /\ ref' = ref /\ fin' = fin /\ frames' = frames
    BY <1>2 DEF rcvars
  <2> QED
    BY <2>1 DEF IndInv, TypeOK, RefExact, Holders, ArgumentCount, Unheld, StatusInv,
                NoDoubleRelease
<1> QED
  BY <1>1, <1>2

-----------------------------------------------------------------------------
(* The theorems                                                            *)

(* The inductive invariant holds in every reachable state.                 *)
THEOREM Invariance ==
  ASSUME ~Retain
  PROVE  Spec => []IndInv
<1>1. IndInv /\ [Next]_rcvars => IndInv'
  BY NextInv
<1> QED
  BY <1>1, InitInv, PTL DEF Spec

(* For every heap: every field of every program state has its type, the    *)
(* frames of luaC_freeobj are objects.                                     *)
THEOREM TypeCorrect ==
  ASSUME ~Retain
  PROVE  Spec => []TypeOK
<1>1. IndInv => TypeOK
  BY DEF IndInv
<1> QED
  BY <1>1, Invariance, PTL

(* Every counter is exact in every state, with errors or without.          *)
THEOREM CountsExact ==
  ASSUME ~Retain
  PROVE  Spec => []RefExact
<1>1. IndInv => RefExact
  BY DEF IndInv
<1> QED
  BY <1>1, Invariance, PTL

(* No field ever refers to freed memory.                                   *)
THEOREM NeverDangling ==
  ASSUME ~Retain
  PROVE  Spec => []NoDangling
<1>1. IndInv => NoDangling
  BY HeldIsUsed DEF NoDangling
<1> QED
  BY <1>1, Invariance, PTL

(* luaC_freeobj never re-enters for an object it is releasing.             *)
THEOREM ReleasedOnce ==
  ASSUME ~Retain
  PROVE  Spec => []NoDoubleRelease
<1>1. IndInv => NoDoubleRelease
  BY DEF IndInv
<1> QED
  BY <1>1, Invariance, PTL

-----------------------------------------------------------------------------
(* The repository's README claims that an object is reclaimed as soon as   *)
(* its count becomes 0.  Proved here for every heap, when no finalizer     *)
(* raises an error (~Errors) or keeps its argument (~Retain).              *)

(* The inductive invariant, on top of IndInv                               *)

(* A live object is referred to.                                           *)
LiveCounted == \A o \in Obj \ {Main} : st[o] = "live" => ref[o] > 0

(* What luarc_free* has taken off rootgc, or is finalizing, has a frame.   *)
Framed ==
  \A o \in Obj : st[o] \in {"dying", "finalizing"} =>
    \E i \in 1 .. Len(frames) : frames[i] = o

(* FINALIZEDBIT is only found on userdata that is being released, so it    *)
(* never keeps luarc_releaseobj from releasing a live object.              *)
FinReleased == \A o \in fin : st[o] \in {"dying", "finalizing"}

Reclaims == LiveCounted /\ Framed /\ FinReleased

-----------------------------------------------------------------------------
(* The same over given statuses s and counts r, from which a setobj of v   *)
(* over old starts: only v may be uncounted yet.                           *)
LiveCountedIn(s, r, v, old) ==
  \A o \in Obj \ {Main} : s[o] = "live" => r[o] > 0 \/ (o = v /\ r[o] = 0 /\ o # old)

FramedIn(s) ==
  \A o \in Obj : s[o] \in {"dying", "finalizing"} =>
    \E i \in 1 .. Len(frames) : frames[i] = o

FinReleasedIn(s) == \A o \in fin : s[o] \in {"dying", "finalizing"}

(* A setobj from the statuses s and the counts r: whatever it drops to     *)
(* zero is released by it.                                                 *)
LEMMA StoreReclaims ==
  ASSUME IndInv, NEW s \in [Obj -> Status], NEW r \in [Obj -> Int],
         NEW p \in Obj, NEW f \in Fld, NEW v \in Value,
         SetObj(s, r, p, f, v), fin' \subseteq fin,
         LiveCountedIn(s, r, v, fld[<<p, f>>]), FramedIn(s), FinReleasedIn(s)
  PROVE  Reclaims'
<1> PICK old \in Value : old = fld[<<p, f>>]
  BY DEF IndInv, TypeOK, Value
<1> DEFINE released == old # Nil /\ ref'[old] <= 0 /\ ~Kept(old)
<1>1. /\ released => st' = [s EXCEPT ![old] = "dying"] /\ frames' = Append(frames, old)
      /\ ~released => st' = s /\ frames' = frames
  BY DEF SetObj, ReleaseIfZero
<1>2. released => old \in Obj
  BY DEF Value
<1>3. released <=> old # Nil /\ ref'[old] <= 0 /\ old # Main /\ old \notin fin
  BY DEF Kept
<1>4. \A o \in Obj : ref'[o] = r[o] + (IF v = o THEN 1 ELSE 0) - (IF old = o THEN 1 ELSE 0)
  <2>1. ref' = SubRef(AddRef(r, v), old)
    BY DEF SetObj
  <2> DEFINE r1 == AddRef(r, v)
  <2>2. r1 \in [Obj -> Int] /\ \A o \in Obj : r1[o] = r[o] + (IF v = o THEN 1 ELSE 0)
    BY ObjAssumption DEF AddRef, Value
  <2> HIDE DEF r1
  <2>3. \A o \in Obj : SubRef(r1, old)[o] = r1[o] - (IF old = o THEN 1 ELSE 0)
    BY <2>2, ObjAssumption DEF SubRef, Value
  <2>4. \A o \in Obj : ref'[o] = r1[o] - (IF old = o THEN 1 ELSE 0)
    BY <2>1, <2>3 DEF r1
  <2> SUFFICES ASSUME NEW o \in Obj
               PROVE  ref'[o] = r[o] + (IF v = o THEN 1 ELSE 0) - (IF old = o THEN 1 ELSE 0)
    OBVIOUS
  <2>5. r1[o] \in Int /\ r[o] \in Int /\ r1[o] = r[o] + (IF v = o THEN 1 ELSE 0)
    BY <2>2
  <2>6. ref'[o] = r1[o] - (IF old = o THEN 1 ELSE 0)
    BY <2>4
  <2> QED
    BY <2>5, <2>6
<1> HIDE DEF released
<1>5. \A o \in Obj : IF released /\ o = old THEN st'[o] = "dying" ELSE st'[o] = s[o]
  BY <1>1, <1>2
<1>6. LiveCounted'
  <2> SUFFICES ASSUME NEW o \in Obj \ {Main}, st'[o] = "live"
               PROVE  ref'[o] > 0
    BY DEF LiveCounted
  <2>1. s[o] = "live" /\ ~(released /\ o = old)
    BY <1>5
  <2>2. o \notin fin /\ o # Nil
    BY <2>1, ObjAssumption DEF FinReleasedIn
  <2>3. ref'[o] = r[o] + (IF v = o THEN 1 ELSE 0) - (IF old = o THEN 1 ELSE 0) /\ r[o] \in Int
    BY <1>4
  <2>4. r[o] > 0 \/ (o = v /\ r[o] = 0 /\ o # old)
    BY <2>1 DEF LiveCountedIn
  <2>5. CASE o = old
    <3>1. ref'[o] \in Int /\ ~(ref'[o] <= 0)
      BY <1>3, <2>1, <2>2, <2>3, <2>5
    <3> QED
      BY <3>1
  <2>6. CASE o # old
    BY <2>3, <2>4, <2>6
  <2> QED
    BY <2>5, <2>6
<1>7. Framed'
  <2> SUFFICES ASSUME NEW o \in Obj, st'[o] \in {"dying", "finalizing"}
               PROVE  \E i \in 1 .. Len(frames') : frames'[i] = o
    BY DEF Framed
  <2>1. CASE ~released
    BY <1>1, <2>1 DEF FramedIn
  <2>2. CASE released
    <3>1. /\ Len(frames) \in Nat /\ Len(frames') = Len(frames) + 1
          /\ frames'[Len(frames) + 1] = old
          /\ \A i \in 1 .. Len(frames) : frames'[i] = frames[i]
      <4>1. frames \in Seq(Obj) /\ old \in Obj /\ frames' = Append(frames, old)
        BY <1>1, <1>2, <2>2 DEF IndInv, TypeOK
      <4> QED
        BY <4>1
    <3>2. CASE o = old
      <4>1. Len(frames) + 1 \in 1 .. Len(frames')
        BY <3>1
      <4> QED
        BY <3>1, <3>2, <4>1
    <3>3. CASE o # old
      <4>1. s[o] \in {"dying", "finalizing"}
        BY <1>5, <3>3
      <4>2. PICK i \in 1 .. Len(frames) : frames[i] = o
        BY <4>1 DEF FramedIn
      <4>3. i \in 1 .. Len(frames') /\ frames'[i] = o
        BY <3>1, <4>2
      <4> QED
        BY <4>3
    <3> QED
      BY <3>2, <3>3
  <2> QED
    BY <2>1, <2>2
<1>8. FinReleased'
  <2> SUFFICES ASSUME NEW o \in fin'
               PROVE  st'[o] \in {"dying", "finalizing"}
    BY DEF FinReleased
  <2>1. o \in fin /\ o \in Obj
    BY DEF IndInv, TypeOK
  <2> QED
    BY <1>5, <2>1 DEF FinReleasedIn
<1> QED
  BY <1>6, <1>7, <1>8 DEF Reclaims

(* A setobj that starts from the current state.                            *)
LEMMA PlainReclaims ==
  ASSUME IndInv, Reclaims, NEW p \in Obj, NEW f \in Fld, NEW v \in Value,
         SetObj(st, ref, p, f, v), UNCHANGED fin
  PROVE  Reclaims'
<1>1. st \in [Obj -> Status] /\ ref \in [Obj -> Int] /\ fin' \subseteq fin
  BY DEF IndInv, TypeOK
<1>2. LiveCountedIn(st, ref, v, fld[<<p, f>>]) /\ FramedIn(st) /\ FinReleasedIn(st)
  BY DEF Reclaims, LiveCounted, Framed, FinReleased, LiveCountedIn, FramedIn, FinReleasedIn
<1> QED
  BY <1>1, <1>2, StoreReclaims

(* The new object is counted by the register that receives it, which       *)
(* cannot have held it before.                                             *)
LEMMA NewReclaims ==
  ASSUME IndInv, Reclaims, NEW o \in Obj, NEW t \in Fld, New(o, t)
  PROVE  Reclaims'
<1> PICK s \in [Obj -> Status] : s = [st EXCEPT ![o] = "live"]
  BY DEF IndInv, TypeOK, Status
<1> PICK r \in [Obj -> Int] : r = [ref EXCEPT ![o] = 0]
  <2>1. [ref EXCEPT ![o] = 0] \in [Obj -> Int]
    BY DEF IndInv, TypeOK
  <2> QED
    BY <2>1, Zenon
<1>1. SetObj(s, r, Main, t, o) /\ st[o] = "free" /\ fin' \subseteq fin
  BY DEF New
<1>2. Main \in Obj /\ o \in Value /\ s[o] = "live" /\ r[o] = 0
  BY ObjAssumption DEF IndInv, TypeOK, Value
<1>3. o # fld[<<Main, t>>]
  BY <1>1, <1>2 DEF IndInv, Unheld, Holders
<1>4. \A a \in Obj : a # o => s[a] = st[a] /\ r[a] = ref[a]
  BY DEF IndInv, TypeOK
<1>5. LiveCountedIn(s, r, o, fld[<<Main, t>>])
  BY <1>2, <1>3, <1>4 DEF Reclaims, LiveCounted, LiveCountedIn
<1>6. FramedIn(s)
  BY <1>2, <1>4 DEF Reclaims, Framed, FramedIn
<1>7. FinReleasedIn(s)
  <2> SUFFICES ASSUME NEW a \in fin PROVE s[a] \in {"dying", "finalizing"}
    BY DEF FinReleasedIn
  <2>1. a \in Obj /\ st[a] \in {"dying", "finalizing"} /\ a # o
    BY <1>1 DEF IndInv, TypeOK, Reclaims, FinReleased
  <2> QED
    BY <1>4, <2>1
<1> QED
  BY <1>1, <1>2, <1>5, <1>6, <1>7, StoreReclaims

(* The innermost object changes between dying and finalizing and keeps its *)
(* frame.                                                                  *)
LEMMA FinalizerReclaims ==
  ASSUME IndInv, Reclaims, CallFinalizer \/ FinalizerReturn
  PROVE  Reclaims'
<1> PICK t \in Obj : t = Top /\ t # Main
  BY TopFrame DEF CallFinalizer, FinalizerReturn
<1> PICK status \in {"dying", "finalizing"} :
      /\ st[t] \in {"dying", "finalizing"} /\ st' = [st EXCEPT ![t] = status]
      /\ fin' \subseteq fin \cup {t}
  BY DEF CallFinalizer, FinalizerReturn
<1>1. frames' = frames
  BY DEF CallFinalizer, FinalizerReturn, AfterFinalizer, Kept, IndInv, StatusInv
<1>2. \A o \in Obj : o # t => st'[o] = st[o] /\ ref'[o] = ref[o]
  BY DEF CallFinalizer, FinalizerReturn, IndInv, TypeOK
<1>3. st'[t] \in {"dying", "finalizing"}
  BY DEF IndInv, TypeOK
<1>4. LiveCounted'
  BY <1>2, <1>3 DEF Reclaims, LiveCounted
<1>5. Framed'
  BY <1>1, <1>2, <1>3 DEF Reclaims, Framed
<1>6. FinReleased'
  BY <1>2, <1>3 DEF Reclaims, FinReleased, IndInv, TypeOK
<1> QED
  BY <1>4, <1>5, <1>6 DEF Reclaims

(* The innermost object is freed with its frame, and loses FINALIZEDBIT.   *)
LEMMA FreeReclaims ==
  ASSUME IndInv, Reclaims, FreeObject
  PROVE  Reclaims'
<1> PICK t \in Obj : t = Top /\ t # Main
  BY TopFrame DEF FreeObject
<1> PICK n \in Nat : n = Len(frames) - 1
  BY TopFrame DEF FreeObject
<1>1. /\ st' = [st EXCEPT ![t] = "free"] /\ ref' = ref
      /\ frames' = SubSeq(frames, 1, n) /\ fin' = fin \ {t}
  BY DEF FreeObject
<1>2. frames \in Seq(Obj) /\ Len(frames) = n + 1 /\ frames[n + 1] = t
  BY TopFrame DEF FreeObject, IndInv, TypeOK, Top
<1>3. Len(frames') = n /\ \A i \in 1 .. n : frames'[i] = frames[i]
  BY <1>1, <1>2
<1>4. \A o \in Obj : IF o = t THEN st'[o] = "free" ELSE st'[o] = st[o]
  BY <1>1 DEF IndInv, TypeOK
<1>5. LiveCounted'
  BY <1>1, <1>4 DEF Reclaims, LiveCounted
<1>6. Framed'
  <2> SUFFICES ASSUME NEW o \in Obj, st'[o] \in {"dying", "finalizing"}
               PROVE  \E i \in 1 .. Len(frames') : frames'[i] = o
    BY DEF Framed
  <2>1. o # t /\ st[o] \in {"dying", "finalizing"}
    BY <1>4
  <2>2. PICK i \in 1 .. Len(frames) : frames[i] = o
    BY <2>1 DEF Reclaims, Framed
  <2>3. i \in 1 .. n
    BY <1>2, <2>1, <2>2
  <2> QED
    BY <1>3, <2>2, <2>3
<1>7. FinReleased'
  BY <1>1, <1>4 DEF Reclaims, FinReleased, IndInv, TypeOK
<1> QED
  BY <1>5, <1>6, <1>7 DEF Reclaims

LEMMA NextReclaims ==
  ASSUME IndInv, Reclaims, ~Errors, [Next]_rcvars
  PROVE  Reclaims'
<1>1. ASSUME NEW p \in Obj, NEW q \in Obj, NEW f \in Fld, NEW g \in Fld, Assign(p, f, q, g)
      PROVE  Reclaims'
  <2> PICK v \in Value : v = fld[<<q, g>>]
    BY DEF IndInv, TypeOK, Value
  <2>1. SetObj(st, ref, p, f, v) /\ UNCHANGED fin
    BY <1>1 DEF Assign
  <2> QED
    BY <2>1, PlainReclaims
<1>2. ASSUME NEW p \in Obj, NEW f \in Fld, Clear(p, f)
      PROVE  Reclaims'
  <2>1. Nil \in Value
    BY DEF Value
  <2> QED
    BY <1>2, <2>1, PlainReclaims DEF Clear
<1>3. ASSUME NEW p \in Obj, NEW f \in Fld, AssignArgument(p, f)
      PROVE  Reclaims'
  <2> PICK u \in Argument : SetObj(st, ref, p, f, u)
    BY <1>3 DEF AssignArgument
  <2>1. u \in Value /\ UNCHANGED fin
    BY <1>3 DEF Argument, Value, AssignArgument
  <2> QED
    BY <2>1, PlainReclaims
<1>4. ASSUME NEW f \in Fld, ReleaseMember(f)
      PROVE  Reclaims'
  <2> PICK t \in Obj : t = Top
    BY <1>4, TopFrame DEF ReleaseMember
  <2>1. SetObj(st, ref, t, f, Nil) /\ UNCHANGED fin /\ Nil \in Value
    BY <1>4 DEF ReleaseMember, Value
  <2> QED
    BY <2>1, PlainReclaims
<1>5. CASE FinalizerError
  BY <1>5 DEF FinalizerError
<1>6. CASE UNCHANGED rcvars
  BY <1>6 DEF rcvars, Reclaims, LiveCounted, Framed, FinReleased
<1>7. CASE Next
  BY <1>7, <1>1, <1>2, <1>3, <1>4, <1>5, NewReclaims, FinalizerReclaims, FreeReclaims DEF Next
<1> QED
  BY <1>6, <1>7

-----------------------------------------------------------------------------
(* The theorems                                                            *)

THEOREM ReclaimsInvariance ==
  ASSUME ~Retain, ~Errors
  PROVE  Spec => [](IndInv /\ Reclaims)
<1>1. Init => Reclaims
  BY DEF Init, Reclaims, LiveCounted, Framed, FinReleased
<1>2. IndInv /\ Reclaims /\ [Next]_rcvars => (IndInv /\ Reclaims)'
  BY NextInv, NextReclaims
<1> QED
  BY <1>1, <1>2, InitInv, PTL DEF Spec

(* "Reclaimed as soon as the reference count becomes 0": between two       *)
(* statements of Lua code no object has a zero count.                      *)
THEOREM ReclaimedAtOnce ==
  ASSUME ~Retain, ~Errors
  PROVE  Spec => []ImmediateReclaim
<1>1. IndInv /\ Reclaims => ImmediateReclaim
  <2> SUFFICES ASSUME IndInv, Reclaims, frames = <<>>,
                      NEW o \in Obj \ {Main}, st[o] # "free"
               PROVE  ref[o] > 0
    BY DEF ImmediateReclaim
  <2>1. st[o] \notin {"dying", "finalizing"}
    BY DEF Reclaims, Framed
  <2>2. st[o] = "live"
    BY <2>1 DEF IndInv, TypeOK, Status
  <2> QED
    BY <2>2 DEF Reclaims, LiveCounted
<1> QED
  BY <1>1, ReclaimsInvariance, PTL

(* No object leaves rootgc without an activation of luaC_freeobj that will *)
(* free it.                                                                *)
THEOREM NeverLost ==
  ASSUME ~Retain, ~Errors
  PROVE  Spec => []NothingLost
<1>1. IndInv /\ Reclaims => NothingLost
  BY DEF Reclaims, Framed, NothingLost
<1> QED
  BY <1>1, ReclaimsInvariance, PTL

-----------------------------------------------------------------------------
(* RefCount implements AbstractHeap: an object that luaC_freeobj is        *)
(* working on has no holder, hence is not reachable.                       *)


(* An object nothing refers to, and no finalizer was called with, is       *)
(* unreachable: everything else is closed under fields.                    *)
LEMMA UnheldUnreachable ==
  ASSUME IndInv, NEW o \in Obj, o # Main, st[o] # "finalizing", Holders(o) = {}
  PROVE  ~Heap!Reachable(o)
<1> DEFINE S == Obj \ {o}
<1>1. S \in SUBSET Obj /\ o \notin S
  OBVIOUS
<1>2. Heap!Roots \subseteq S
  BY ObjAssumption DEF Heap!Roots
<1>3. Heap!ClosedUnderFields(S)
  <2> SUFFICES ASSUME NEW p \in S, NEW f \in Fld, fld[<<p, f>>] # Nil
               PROVE  fld[<<p, f>>] \in S
    BY DEF Heap!ClosedUnderFields
  <2>1. fld[<<p, f>>] \in Obj
    BY DEF IndInv, TypeOK
  <2>2. fld[<<p, f>>] # o
    BY DEF Holders
  <2> QED
    BY <2>1, <2>2
<1> QED
  BY <1>1, <1>2, <1>3 DEF Heap!Reachable

(* What the running code can name is reachable, and so is what it reads.   *)
LEMMA AccessibleReachable ==
  ASSUME IndInv, NEW p \in Accessible
  PROVE  /\ p \in Obj /\ Heap!Reachable(p)
         /\ \A f \in Fld : fld[<<p, f>>] # Nil => Heap!Reachable(fld[<<p, f>>])
<1>1. p \in Obj
  BY ObjAssumption DEF Accessible, Argument
<1>2. ASSUME NEW S \in SUBSET Obj, Heap!Roots \subseteq S, Heap!ClosedUnderFields(S)
      PROVE  p \in S /\ \A f \in Fld : fld[<<p, f>>] # Nil => fld[<<p, f>>] \in S
  <2>1. Main \in S /\ (st[p] = "finalizing" => p \in S)
    BY <1>1, <1>2 DEF Heap!Roots
  <2>2. \A q \in S, f \in Fld : fld[<<q, f>>] # Nil => fld[<<q, f>>] \in S
    BY <1>2 DEF Heap!ClosedUnderFields
  <2>3. p # Nil
    BY <1>1, ObjAssumption
  <2>4. p \in S
    BY <2>1, <2>2, <2>3 DEF Accessible, Argument
  <2> QED
    BY <2>2, <2>4
<1> QED
  BY <1>1, <1>2 DEF Heap!Reachable

Alive == {o \in Obj : st[o] # "free"}
Args == {o \in Obj : st[o] = "finalizing"}

(* A setobj may start a release, which frees and finalizes nothing yet.    *)
LEMMA StoreStatuses ==
  ASSUME IndInv, NEW s, NEW r, NEW p \in Obj, NEW f \in Fld, NEW v \in Value,
         s \in [Obj -> Status], SetObj(s, r, p, f, v),
         \A o \in Obj : st[o] = s[o] \/ (st[o] = "free" /\ s[o] = "live")
  PROVE  /\ Alive' = {o \in Obj : s[o] # "free"}
         /\ Args' = Args
<1> PICK old \in Value : old = fld[<<p, f>>]
  BY DEF IndInv, TypeOK, Value
<1>1. old # Nil => old \in Obj /\ st[old] \in {"live", "finalizing"}
  BY HeldIsUsed
<1>2. \/ st' = s
      \/ old # Nil /\ old \notin fin /\ st' = [s EXCEPT ![old] = "dying"]
  BY DEF SetObj, ReleaseIfZero, Kept
<1>3. \A o \in Obj : st'[o] = s[o] \/ (st[o] = "live" /\ st'[o] = "dying" /\ s[o] # "free")
  BY <1>1, <1>2 DEF IndInv, StatusInv
<1>4. Alive' = {o \in Obj : s[o] # "free"}
  BY <1>3 DEF Alive
<1>5. Args' = Args
  BY <1>3 DEF Args
<1> QED
  BY <1>4, <1>5

(* Each step of RefCount is a step of AbstractHeap.                        *)
LEMMA HeapStep ==
  ASSUME IndInv, ~Retain, Next
  PROVE  Heap!Next
<1> USE DEF Alive, Args
<1>1. ASSUME NEW p \in Obj, NEW f \in Fld, NEW v \in Value,
             SetObj(st, ref, p, f, v), Heap!Reachable(p), v # Nil => Heap!Reachable(v)
      PROVE  Heap!Next
  <2>1. st \in [Obj -> Status]
    BY DEF IndInv, TypeOK
  <2>2. Alive' = Alive /\ Args' = Args
    BY <1>1, <2>1, StoreStatuses
  <2>3. Heap!Store(p, f, v)
    BY <1>1, <2>2 DEF Heap!Store, SetObj
  <2> QED
    BY <2>3 DEF Heap!Next, Value
<1>2. ASSUME NEW p \in Obj, NEW q \in Obj, NEW f \in Fld, NEW g \in Fld, Assign(p, f, q, g)
      PROVE  Heap!Next
  <2> PICK v \in Value : v = fld[<<q, g>>]
    BY DEF IndInv, TypeOK, Value
  <2>1. p \in Accessible /\ q \in Accessible /\ SetObj(st, ref, p, f, v)
    BY <1>2 DEF Assign
  <2>2. Heap!Reachable(p) /\ (v # Nil => Heap!Reachable(v))
    BY <2>1, AccessibleReachable
  <2> QED
    BY <1>1, <2>1, <2>2
<1>3. ASSUME NEW p \in Obj, NEW f \in Fld, Clear(p, f)
      PROVE  Heap!Next
  <2>1. p \in Accessible /\ SetObj(st, ref, p, f, Nil) /\ Nil \in Value
    BY <1>3 DEF Clear, Value
  <2> QED
    BY <1>1, <2>1, AccessibleReachable
<1>4. ASSUME NEW p \in Obj, NEW f \in Fld, AssignArgument(p, f)
      PROVE  Heap!Next
  <2> PICK u \in Argument : SetObj(st, ref, p, f, u)
    BY <1>4 DEF AssignArgument
  <2>1. u \in Value /\ u \in Accessible /\ p \in Accessible
    BY <1>4 DEF AssignArgument, Accessible, Argument, Value
  <2> QED
    BY <1>1, <2>1, AccessibleReachable
<1>5. ASSUME NEW o \in Obj, NEW t \in Fld, New(o, t)
      PROVE  Heap!Next
  <2> PICK s \in [Obj -> Status] : s = [st EXCEPT ![o] = "live"]
    BY DEF IndInv, TypeOK, Status
  <2> PICK r : r = [ref EXCEPT ![o] = 0]
    OBVIOUS
  <2>1. SetObj(s, r, Main, t, o) /\ st[o] = "free" /\ o \in Value /\ Main \in Obj
    BY <1>5, ObjAssumption DEF New, Value
  <2>2. \A a \in Obj : st[a] = s[a] \/ (st[a] = "free" /\ s[a] = "live")
    BY <2>1 DEF IndInv, TypeOK
  <2>3. Alive' = {a \in Obj : s[a] # "free"} /\ Args' = Args
    BY <2>1, <2>2, StoreStatuses
  <2>4. Alive' = Alive \cup {o} /\ o \notin Alive
    BY <2>1, <2>3 DEF IndInv, TypeOK
  <2>5. Heap!Reachable(Main)
    BY AccessibleReachable DEF Accessible
  <2>6. fld' = [fld EXCEPT ![<<Main, t>>] = o]
    BY <2>1 DEF SetObj
  <2>7. Heap!Create(o, Main, t)
    BY <2>3, <2>4, <2>5, <2>6 DEF Heap!Create
  <2> QED
    BY <2>1, <2>7 DEF Heap!Next
<1>6. ASSUME CallFinalizer
      PROVE  Heap!Next
  <2> PICK t \in Obj : t = Top /\ t # Main
    BY <1>6, TopFrame DEF CallFinalizer
  <2>1. st[t] = "dying" /\ st' = [st EXCEPT ![t] = "finalizing"] /\ fld' = fld
    BY <1>6 DEF CallFinalizer
  <2>2. ~Heap!Reachable(t)
    BY <2>1, UnheldUnreachable DEF IndInv, Unheld
  <2>3. Alive' = Alive /\ Args' = Args \cup {t} /\ t \in Alive
    BY <2>1 DEF IndInv, TypeOK
  <2>4. Heap!Finalize(t)
    BY <2>1, <2>2, <2>3 DEF Heap!Finalize
  <2> QED
    BY <2>4 DEF Heap!Next
<1>7. ASSUME FinalizerReturn
      PROVE  Heap!Next
  <2> PICK t \in Obj : t = Top
    BY <1>7, TopFrame DEF FinalizerReturn
  <2>1. st[t] = "finalizing" /\ st' = [st EXCEPT ![t] = "dying"] /\ fld' = fld
    BY <1>7 DEF FinalizerReturn
  <2>2. Alive' = Alive /\ Args' = Args \ {t} /\ t \in Args
    BY <2>1 DEF IndInv, TypeOK
  <2>3. Heap!EndFinalize
    BY <2>1, <2>2 DEF Heap!EndFinalize
  <2> QED
    BY <2>3 DEF Heap!Next
<1>8. ASSUME FinalizerError
      PROVE  Heap!Next
  <2> PICK t \in Obj : t = Top /\ t = frames[Len(frames)]
    BY <1>8, TopFrame DEF FinalizerError, Top
  <2>1. st[t] = "finalizing" /\ fld' = fld /\ Len(frames) \in Nat \ {0}
    BY <1>8, TopFrame DEF FinalizerError
  <2>2. /\ \A o \in Obj : st'[o] = st[o] \/ (st[o] = "finalizing" /\ st'[o] = "live")
        /\ st'[t] = "live"
    BY <1>8, <2>1 DEF FinalizerError
  <2>3. Alive' = Alive /\ Args' \subseteq Args /\ t \in Args /\ t \notin Args'
    BY <2>1, <2>2
  <2>4. Heap!EndFinalize
    BY <2>1, <2>3 DEF Heap!EndFinalize
  <2> QED
    BY <2>4 DEF Heap!Next
<1>9. ASSUME NEW f \in Fld, ReleaseMember(f)
      PROVE  Heap!Next
  <2> PICK t \in Obj : t = Top /\ t # Main
    BY <1>9, TopFrame DEF ReleaseMember
  <2>1. st[t] = "dying" /\ SetObj(st, ref, t, f, Nil) /\ Nil \in Value
    BY <1>9 DEF ReleaseMember, Value
  <2>2. ~Heap!Reachable(t)
    BY <2>1, UnheldUnreachable DEF IndInv, Unheld
  <2>3. st \in [Obj -> Status]
    BY DEF IndInv, TypeOK
  <2>4. Alive' = Alive /\ Args' = Args
    BY <2>1, <2>3, StoreStatuses
  <2>5. Heap!Strip(t, f)
    BY <2>1, <2>2, <2>4 DEF Heap!Strip, SetObj
  <2> QED
    BY <2>5 DEF Heap!Next
<1>10. ASSUME FreeObject
       PROVE  Heap!Next
  <2> PICK t \in Obj : t = Top /\ t # Main
    BY <1>10, TopFrame DEF FreeObject
  <2>1. st[t] = "dying" /\ st' = [st EXCEPT ![t] = "free"] /\ fld' = fld
    BY <1>10 DEF FreeObject
  <2>2. ~Heap!Reachable(t)
    BY <2>1, UnheldUnreachable DEF IndInv, Unheld
  <2>3. Alive' = Alive \ {t} /\ Args' = Args /\ t \in Alive
    BY <2>1 DEF IndInv, TypeOK
  <2>4. Heap!Reclaim(t)
    BY <2>1, <2>2, <2>3 DEF Heap!Reclaim
  <2> QED
    BY <2>4 DEF Heap!Next
<1> QED
  BY <1>2, <1>3, <1>4, <1>5, <1>6, <1>7, <1>8, <1>9, <1>10 DEF Next

(* For every heap and every set of finalizers that let their argument go:  *)
(* luaC_freeobj finalizes, strips and frees only unreachable objects.      *)
THEOREM RefCountImplementsHeap ==
  ASSUME ~Retain
  PROVE  Spec => ImplementsHeap
<1>1. Init => Heap!Init
  BY ObjAssumption DEF Init, Heap!Init
<1>2. IndInv /\ [Next]_rcvars => [Heap!Next]_Heap!heap
  <2>1. UNCHANGED rcvars => UNCHANGED Heap!heap
    BY DEF rcvars, Heap!heap
  <2> QED
    BY <2>1, HeapStep
<1>3. Spec => []IndInv
  BY Invariance
<1> QED
  BY <1>1, <1>2, <1>3, PTL DEF Spec, ImplementsHeap, Heap!Spec

=============================================================================
