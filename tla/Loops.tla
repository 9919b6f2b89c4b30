-------------------------------- MODULE Loops -------------------------------
(***************************************************************************)
(* The loops of the C code are recursive functions over 0 .. k in the      *)
(* models: the state after n turns.  Here is what proofs about them need:  *)
(* induction on n, and that such a function exists.  Both are stated in    *)
(* first-order form, for the set of the numbers that have a property and   *)
(* for the function g that is one turn.                                    *)
(***************************************************************************)
EXTENDS Integers, WellFoundedInduction, TLAPS

(* Every set of naturals that is not empty has a least element.            *)
LEMMA LeastNatural ==
  ASSUME NEW T \in SUBSET Nat, T # {}
  PROVE  \E m \in T : \A k \in T : m <= k
<1> DEFINE R == OpToRel(<, Nat)
<1>1. IsWellFoundedOn(R, Nat)
  BY NatLessThanWellFounded
<1>2. \A x, y \in Nat : <<y, x>> \in R <=> y < x
  BY DEF OpToRel
<1> HIDE DEF R
<1>3. PICK m \in T : \A k \in T : ~ (<<k, m>> \in R)
  BY <1>1, WFMin
<1>4. ASSUME NEW k \in T PROVE m <= k
  <2>1. ~(k < m)
    BY <1>2, <1>3
  <2> QED
    BY <2>1
<1> QED
  BY <1>4

(* A set that holds 0, and n + 1 with every n, holds every natural.        *)
LEMMA SetInduction ==
  ASSUME NEW T, 0 \in T, \A n \in Nat : n \in T => n + 1 \in T
  PROVE  Nat \subseteq T
<1> SUFFICES ASSUME Nat \ T # {} PROVE FALSE
  OBVIOUS
<1>1. PICK m \in Nat \ T : \A k \in Nat \ T : m <= k
  BY LeastNatural
<1>2. m - 1 \in Nat /\ m = (m - 1) + 1
  BY <1>1
<1>3. m - 1 \in T
  BY <1>1, <1>2
<1> QED
  BY <1>1, <1>2, <1>3

(* f is a run of k turns from c0, turn n being g[n, .].                    *)
LoopRun(f, k, St, c0, g) ==
  f \in [0 .. k -> St] /\ f[0] = c0 /\ \A n \in 1 .. k : f[n] = g[<<n, f[n - 1]>>]

(* Such a run exists, so a loop written as a recursive function is one.    *)
LEMMA LoopExists ==
  ASSUME NEW k \in Nat, NEW St, NEW c0 \in St, NEW g \in [(1 .. k) \X St -> St]
  PROVE  \E f : LoopRun(f, k, St, c0, g)
<1> DEFINE T == {j \in Nat : j <= k => \E f : LoopRun(f, j, St, c0, g)}
<1>1. 0 \in T
  <2>1. LoopRun([n \in 0 .. 0 |-> c0], 0, St, c0, g)
    BY DEF LoopRun
  <2> QED
    BY <2>1
<1>2. ASSUME NEW j \in Nat, j \in T
      PROVE  j + 1 \in T
  <2> SUFFICES ASSUME j + 1 <= k PROVE \E f : LoopRun(f, j + 1, St, c0, g)
    BY <1>2
  <2>1. PICK f : LoopRun(f, j, St, c0, g)
    BY <1>2
  <2> DEFINE h == [n \in 0 .. j + 1 |-> IF n = j + 1 THEN g[<<j + 1, f[j]>>] ELSE f[n]]
  <2>2. f[j] \in St /\ g[<<j + 1, f[j]>>] \in St
    BY <2>1 DEF LoopRun
  <2>3. h \in [0 .. j + 1 -> St] /\ h[0] = c0
    BY <2>1, <2>2 DEF LoopRun
  <2>4. ASSUME NEW n \in 1 .. j + 1 PROVE h[n] = g[<<n, h[n - 1]>>]
    <3>1. CASE n = j + 1
      <4>1. j + 1 \in 0 .. j + 1 /\ j \in 0 .. j + 1 /\ j # j + 1 /\ n - 1 = j
        BY <3>1
      <4>2. h[j + 1] = g[<<j + 1, f[j]>>] /\ h[j] = f[j]
        BY <4>1
      <4> QED
        BY <3>1, <4>1, <4>2
    <3>2. CASE n # j + 1
      <4>1. n \in 1 .. j /\ n - 1 \in 0 .. j /\ n - 1 # j + 1
        BY <3>2
      <4> QED
        BY <2>1, <4>1 DEF LoopRun
    <3> QED
      BY <3>1, <3>2
  <2> HIDE DEF h
  <2>5. LoopRun(h, j + 1, St, c0, g)
    BY <2>3, <2>4 DEF LoopRun
  <2> QED
    BY <2>5
<1>3. k \in T
  <2> HIDE DEF T
  <2> QED
    BY <1>1, <1>2, SetInduction
<1> QED
  BY <1>3

(* The run as the recursive function that the models define.               *)
LoopFunction(f, k, St, c0, g) ==
  /\ f = [n \in 0 .. k |-> IF n = 0 THEN c0 ELSE g[<<n, f[n - 1]>>]]
  /\ f \in [0 .. k -> St] /\ f[0] = c0
  /\ \A n \in 1 .. k : n - 1 \in 0 .. k /\ f[n - 1] \in St

LEMMA LoopDefined ==
  ASSUME NEW k \in Nat, NEW St, NEW c0 \in St, NEW g \in [(1 .. k) \X St -> St]
  PROVE  \E f : LoopFunction(f, k, St, c0, g)
<1>1. PICK f : LoopRun(f, k, St, c0, g)
  BY LoopExists
<1>2. ASSUME NEW n \in 0 .. k
      PROVE  f[n] = IF n = 0 THEN c0 ELSE g[<<n, f[n - 1]>>]
  <2>1. n = 0 \/ n \in 1 .. k
    OBVIOUS
  <2> QED
    BY <1>1, <2>1 DEF LoopRun
<1>3. f = [n \in 0 .. k |-> f[n]] /\ f \in [0 .. k -> St] /\ f[0] = c0
  BY <1>1 DEF LoopRun
<1>4. \A n \in 1 .. k : n - 1 \in 0 .. k /\ f[n - 1] \in St
  BY <1>3
<1> QED
  BY <1>2, <1>3, <1>4 DEF LoopFunction

(* What holds at first and is kept by every turn holds after every turn:   *)
(* I[n] is the set of the states that have the invariant after n turns.    *)
LEMMA LoopInduction ==
  ASSUME NEW k \in Nat, NEW f, NEW I, f[0] \in I[0],
         \A n \in 1 .. k : f[n - 1] \in I[n - 1] => f[n] \in I[n]
  PROVE  \A n \in 0 .. k : f[n] \in I[n]
<1> DEFINE T == {n \in Nat : n <= k => f[n] \in I[n]}
<1>1. 0 \in T
  OBVIOUS
<1>2. ASSUME NEW n \in Nat, n \in T PROVE n + 1 \in T
  <2> SUFFICES ASSUME n + 1 <= k PROVE f[n + 1] \in I[n + 1]
    OBVIOUS
  <2>1. n + 1 \in 1 .. k /\ (n + 1) - 1 = n /\ f[n] \in I[n]
    BY <1>2
  <2> QED
    BY <2>1
<1>3. Nat \subseteq T
  <2> HIDE DEF T
  <2> QED
    BY <1>1, <1>2, SetInduction
<1> QED
  BY <1>3

(* f is the recursive function of a loop that stays within I.              *)
LoopOf(f, k, I, c0, g) ==
  /\ f = [n \in 0 .. k |-> IF n = 0 THEN c0 ELSE g[<<n, f[n - 1]>>]]
  /\ \A n \in 0 .. k : f[n] \in I[n]

(* Such a loop exists if every turn is defined on the states that arise.   *)
LEMMA LoopWithin ==
  ASSUME NEW k \in Nat, NEW St, NEW I, NEW c0 \in I[0], NEW g,
         \A n \in 0 .. k : I[n] \subseteq St,
         \A n \in 1 .. k : \A c \in I[n - 1] : g[<<n, c>>] \in I[n]
  PROVE  \E f : LoopOf(f, k, I, c0, g)
<1> DEFINE h == [p \in (1 .. k) \X St |-> IF p[2] \in I[p[1] - 1] THEN g[p] ELSE c0]
<1>1. \A n \in 1 .. k : n \in 0 .. k /\ n - 1 \in 0 .. k
  OBVIOUS
<1>2. c0 \in St
  OBVIOUS
<1>3. ASSUME NEW n \in 1 .. k, NEW c \in St
      PROVE  /\ h[<<n, c>>] \in St
             /\ c \in I[n - 1] => h[<<n, c>>] = g[<<n, c>>]
  <2>1. h[<<n, c>>] = IF c \in I[n - 1] THEN g[<<n, c>>] ELSE c0
    OBVIOUS
  <2> HIDE DEF h
  <2> QED
    BY <1>1, <1>2, <2>1
<1>4. h \in [(1 .. k) \X St -> St]
  <2>1. \A p \in (1 .. k) \X St : h[p] \in St
    <3> HIDE DEF h
    <3> QED
      BY <1>3
  <2> QED
    BY <2>1
<1> HIDE DEF h
<1>5. PICK f : LoopFunction(f, k, St, c0, h)
  BY <1>2, <1>4, LoopDefined
<1>6. ASSUME NEW n \in 1 .. k, f[n - 1] \in I[n - 1]
      PROVE  f[n] = g[<<n, f[n - 1]>>] /\ f[n] \in I[n]
  <2>1. f[n] = h[<<n, f[n - 1]>>] /\ f[n - 1] \in St
    BY <1>1, <1>5 DEF LoopFunction
  <2> QED
    BY <1>3, <1>6, <2>1
<1>7. f[0] \in I[0]
  BY <1>5 DEF LoopFunction
<1>8. \A n \in 0 .. k : f[n] \in I[n]
  BY <1>6, <1>7, LoopInduction
<1>9. ASSUME NEW n \in 0 .. k
      PROVE  f[n] = IF n = 0 THEN c0 ELSE g[<<n, f[n - 1]>>]
  <2>1. CASE n = 0
    BY <1>5, <2>1 DEF LoopFunction
  <2>2. CASE n # 0
    <3>1. n \in 1 .. k
      BY <2>2
    <3> QED
      BY <1>1, <1>6, <1>8, <2>2, <3>1
  <2> QED
    BY <2>1, <2>2
<1>10. f = [n \in 0 .. k |-> f[n]]
  BY <1>5 DEF LoopFunction
<1>11. LoopOf(f, k, I, c0, g)
  BY <1>8, <1>9, <1>10 DEF LoopOf
<1> QED
  BY <1>11

=============================================================================
