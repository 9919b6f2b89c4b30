--------------------------- MODULE LuaTableProofs ---------------------------
(***************************************************************************)
(* Proofs about LuaTable, for any keys and any hash function: whatever     *)
(* collides, moves, dies and is rehashed, a lookup finds what was stored.  *)
(***************************************************************************)
EXTENDS LuaTable, Loops, FiniteSetTheorems, TLAPS

-----------------------------------------------------------------------------
(* Powers of two                                                           *)

(* twoto is a function on 0 .. MaxBits that satisfies its equation.        *)
LEMMA TwotoIs ==
  /\ twoto \in [0 .. MaxBits -> Nat \ {0}]
  /\ twoto[0] = 1
  /\ \A x \in 1 .. MaxBits : twoto[x] = 2 * twoto[x - 1]
<1> DEFINE g == [p \in (1 .. MaxBits) \X (Nat \ {0}) |-> 2 * p[2]]
           D == [x \in 0 .. MaxBits |-> IF x = 0 THEN 1 ELSE 2 * twoto[x - 1]]
<1>1. MaxBits \in Nat
  BY TableAssumption
<1>2. g \in [(1 .. MaxBits) \X (Nat \ {0}) -> Nat \ {0}] /\ 1 \in Nat \ {0}
  OBVIOUS
<1>3. twoto = D
  <2>1. PICK f : LoopFunction(f, MaxBits, Nat \ {0}, 1, g)
    <3> HIDE DEF g
    <3> QED
      BY <1>1, <1>2, LoopDefined
  <2>2. ASSUME NEW n \in 0 .. MaxBits, n # 0 PROVE g[<<n, f[n - 1]>>] = 2 * f[n - 1]
    <3>1. n \in 1 .. MaxBits
      BY <1>1, <2>2
    <3>2. f[n - 1] \in Nat \ {0}
      BY <2>1, <3>1 DEF LoopFunction
    <3> QED
      BY <3>1, <3>2
  <2> HIDE DEF g
  <2>3. f = [x \in 0 .. MaxBits |-> IF x = 0 THEN 1 ELSE 2 * f[x - 1]]
    BY <2>1, <2>2 DEF LoopFunction
  <2> QED
    BY <2>3 DEF twoto
<1> DEFINE T == {x \in Nat : x <= MaxBits => twoto[x] \in Nat \ {0}}
<1>4. 0 \in 0 .. MaxBits /\ twoto[0] = 1
  BY <1>1, <1>3
<1>5. ASSUME NEW x \in 1 .. MaxBits PROVE twoto[x] = 2 * twoto[x - 1]
  <2>1. x \in 0 .. MaxBits /\ x # 0
    BY <1>1
  <2> QED
    BY <1>3, <2>1
<1>6. Nat \subseteq T
  <2>1. 0 \in T
    BY <1>4
  <2>2. ASSUME NEW x \in Nat, x \in T PROVE x + 1 \in T
    <3> SUFFICES ASSUME x + 1 <= MaxBits PROVE twoto[x + 1] \in Nat \ {0}
      OBVIOUS
    <3>1. x + 1 \in 1 .. MaxBits /\ (x + 1) - 1 = x /\ twoto[x] \in Nat \ {0}
      BY <1>1, <2>2
    <3>2. twoto[x + 1] = 2 * twoto[x]
      BY <1>5, <3>1
    <3> QED
      BY <3>1, <3>2
  <2> HIDE DEF T
  <2> QED
    BY <2>1, <2>2, SetInduction
<1>7. \A x \in 0 .. MaxBits : twoto[x] \in Nat \ {0}
  BY <1>1, <1>6
<1>8. twoto = [x \in 0 .. MaxBits |-> twoto[x]]
  BY <1>3
<1> QED
  BY <1>4, <1>5, <1>7, <1>8

(* The powers grow.                                                        *)
LEMMA TwotoGrows ==
  ASSUME NEW x \in 0 .. MaxBits, NEW y \in 0 .. MaxBits, x < y
  PROVE  2 * twoto[x] <= twoto[y]
<1>1. MaxBits \in Nat
  BY TableAssumption
<1> DEFINE T == {z \in Nat : x + 1 + z <= MaxBits => 2 * twoto[x] <= twoto[x + 1 + z]}
<1>2. 0 \in T
  <2>1. x + 1 <= MaxBits => x + 1 \in 1 .. MaxBits /\ (x + 1) - 1 = x
    BY <1>1
  <2>2. x + 1 <= MaxBits => twoto[x + 1] = 2 * twoto[x]
    BY <2>1, TwotoIs
  <2>3. twoto[x] \in Nat
    BY TwotoIs
  <2> QED
    BY <2>2, <2>3
<1>3. ASSUME NEW z \in Nat, z \in T PROVE z + 1 \in T
  <2> SUFFICES ASSUME x + 1 + (z + 1) <= MaxBits
               PROVE  2 * twoto[x] <= twoto[x + 1 + (z + 1)]
    OBVIOUS
  <2> DEFINE w == x + 1 + z
  <2>1. w + 1 \in 1 .. MaxBits /\ (w + 1) - 1 = w /\ w \in 0 .. MaxBits
        /\ x + 1 + (z + 1) = w + 1 /\ w <= MaxBits
    BY <1>1
  <2>2. 2 * twoto[x] <= twoto[w]
    BY <1>3, <2>1
  <2> HIDE DEF w
  <2>3. twoto[w + 1] = 2 * twoto[w] /\ twoto[w] \in Nat /\ twoto[x] \in Nat
    BY <2>1, TwotoIs
  <2> QED
    BY <2>1, <2>2, <2>3
<1>4. Nat \subseteq T
  <2> HIDE DEF T
  <2> QED
    BY <1>2, <1>3, SetInduction
<1>5. y - x - 1 \in Nat /\ x + 1 + (y - x - 1) = y
  BY <1>1
<1>6. y - x - 1 \in T
  BY <1>4, <1>5
<1> QED
  BY <1>1, <1>5, <1>6

(* CeilPow2 finds a power, and one that is large enough.                   *)
LEMMA CeilPow2Facts ==
  ASSUME NEW n \in Nat \ {0}, n <= twoto[MaxBits]
  PROVE  CeilPow2(n) \in Powers /\ n <= CeilPow2(n)
<1>1. MaxBits \in Nat
  BY TableAssumption
<1> DEFINE S == {i \in 0 .. MaxBits : n <= twoto[i]}
<1>2. S \in SUBSET Nat /\ S # {}
  BY <1>1
<1>3. PICK m \in S : \A k \in S : m <= k
  <2> HIDE DEF S
  <2> QED
    BY <1>2, LeastNatural
<1>4. twoto[m] \in Powers /\ n <= twoto[m] /\ twoto[m] \in Nat \ {0}
  BY TwotoIs DEF Powers
<1>5. twoto[m] = 1 \/ twoto[m] \div 2 < n
  <2>1. CASE m = 0
    BY <2>1, TwotoIs
  <2>2. CASE m # 0
    <3>1. m \in 1 .. MaxBits /\ m - 1 \in 0 .. MaxBits
      BY <1>1, <2>2
    <3>2. m - 1 \notin S
      BY <1>3, <3>1
    <3>3. twoto[m] = 2 * twoto[m - 1] /\ twoto[m - 1] \in Nat /\ twoto[m - 1] < n
      BY <3>1, <3>2, TwotoIs
    <3> QED
      BY <3>3
  <2> QED
    BY <2>1, <2>2
<1>6. \E p \in Powers : p >= n /\ (p = 1 \/ p \div 2 < n)
  BY <1>4, <1>5
<1>7. CeilPow2(n) \in Powers /\ CeilPow2(n) >= n
  BY <1>6 DEF CeilPow2
<1>8. CeilPow2(n) \in Nat
  BY <1>7, TwotoIs DEF Powers
<1> QED
  BY <1>7, <1>8

(* The sizes of array parts are positive, and at most 2^MAXBITS.           *)
LEMMA PowersFacts ==
  \A p \in Powers : p \in Nat \ {0} /\ p <= twoto[MaxBits]
<1> SUFFICES ASSUME NEW i \in 0 .. MaxBits
             PROVE  twoto[i] \in Nat \ {0} /\ twoto[i] <= twoto[MaxBits]
  BY DEF Powers
<1>1. MaxBits \in 0 .. MaxBits
  BY TableAssumption
<1>2. twoto[i] \in Nat \ {0} /\ twoto[MaxBits] \in Nat
  BY <1>1, TwotoIs
<1>3. i < MaxBits => 2 * twoto[i] <= twoto[MaxBits]
  BY <1>1, TwotoGrows
<1> QED
  BY <1>1, <1>2, <1>3

(* MAXBITS and 2^MAXBITS, as numbers                                       *)
LEMMA BitsNat == MaxBits \in Nat
BY TableAssumption

-----------------------------------------------------------------------------
(* The size of the array part                                              *)

(* How many of keys are at most m                                          *)
UpTo(keys, m) == Cardinality({k \in keys : k <= m})

(* Counting the integer keys up to a number                                *)
LEMMA UpToFacts ==
  ASSUME NEW M \in Nat, NEW keys \in SUBSET (1 .. M)
  PROVE  /\ IsFiniteSet(keys) /\ Cardinality(keys) \in Nat
         /\ \A m \in Nat : /\ UpTo(keys, m) \in Nat /\ UpTo(keys, m) <= m
                           /\ UpTo(keys, m) <= Cardinality(keys)
         /\ \A m, n \in Nat : m <= n => UpTo(keys, m) <= UpTo(keys, n)
<1>1. IsFiniteSet(1 .. M)
  BY FS_Interval
<1>2. IsFiniteSet(keys)
  BY <1>1, FS_Subset
<1>3. Cardinality(keys) \in Nat /\ \A k \in keys : k \in Nat /\ 1 <= k
  BY <1>2, FS_CardinalityType
<1>4. ASSUME NEW m \in Nat
      PROVE  /\ UpTo(keys, m) \in Nat /\ UpTo(keys, m) <= m
             /\ UpTo(keys, m) <= Cardinality(keys)
             /\ IsFiniteSet({k \in keys : k <= m})
  <2> DEFINE S == {k \in keys : k <= m}
  <2>1. S \subseteq keys /\ S \subseteq 1 .. m
    <3>1. ASSUME NEW k \in keys, k <= m PROVE k \in 1 .. m
      BY <1>3, <3>1
    <3> QED
      BY <3>1
  <2>2. IsFiniteSet(1 .. m) /\ Cardinality(1 .. m) = m
    BY FS_Interval
  <2> HIDE DEF S
  <2>3. IsFiniteSet(S) /\ Cardinality(S) <= Cardinality(keys)
    BY <1>2, <2>1, FS_Subset
  <2>4. Cardinality(S) <= m
    BY <2>1, <2>2, FS_Subset
  <2>5. Cardinality(S) \in Nat
    BY <2>3, FS_CardinalityType
  <2> QED
    BY <2>3, <2>4, <2>5 DEF UpTo, S
<1>5. ASSUME NEW m \in Nat, NEW n \in Nat, m <= n PROVE UpTo(keys, m) <= UpTo(keys, n)
  <2> DEFINE S == {k \in keys : k <= m}
             R == {k \in keys : k <= n}
  <2>1. S \subseteq R
    <3>1. ASSUME NEW k \in keys, k <= m PROVE k <= n
      BY <1>3, <1>5, <3>1
    <3> QED
      BY <3>1
  <2>2. IsFiniteSet(R)
    BY <1>4
  <2> HIDE DEF S, R
  <2>3. Cardinality(S) <= Cardinality(R)
    BY <2>1, <2>2, FS_Subset
  <2> QED
    BY <2>3 DEF UpTo, S, R
<1> QED
  BY <1>2, <1>3, <1>4, <1>5

(* nums splits the keys into slices.                                       *)
LEMMA SliceFacts ==
  ASSUME NEW M \in Nat, NEW keys \in SUBSET (1 .. M)
  PROVE  /\ Nums(keys) \in [0 .. MaxBits -> Nat]
         /\ Nums(keys)[0] = UpTo(keys, twoto[0])
         /\ \A i \in 1 .. MaxBits :
              UpTo(keys, twoto[i]) = UpTo(keys, twoto[i - 1]) + Nums(keys)[i]
<1>1. MaxBits \in Nat /\ IsFiniteSet(keys)
  BY TableAssumption, UpToFacts
<1> DEFINE Slice(i) == {k \in keys : k <= twoto[i] /\ (i = 0 \/ k > twoto[i - 1])}
<1>2. ASSUME NEW i \in 0 .. MaxBits
      PROVE  Nums(keys)[i] = Cardinality(Slice(i)) /\ Cardinality(Slice(i)) \in Nat
             /\ IsFiniteSet(Slice(i))
  <2>1. Slice(i) \subseteq keys
    OBVIOUS
  <2>2. Nums(keys)[i] = Cardinality(Slice(i))
    BY DEF Nums
  <2> HIDE DEF Slice
  <2>3. IsFiniteSet(Slice(i))
    BY <1>1, <2>1, FS_Subset
  <2>4. Cardinality(Slice(i)) \in Nat
    BY <2>3, FS_CardinalityType
  <2> QED
    BY <2>2, <2>3, <2>4
<1>3. Nums(keys) \in [0 .. MaxBits -> Nat]
  <2> DEFINE N == Nums(keys)
  <2>1. N = [i \in 0 .. MaxBits |-> N[i]]
    BY DEF Nums
  <2>2. \A i \in 0 .. MaxBits : N[i] \in Nat
    BY <1>2
  <2> HIDE DEF N
  <2>3. N \in [0 .. MaxBits -> Nat]
    BY <2>1, <2>2
  <2> QED
    BY <2>3 DEF N
<1>4. Nums(keys)[0] = UpTo(keys, twoto[0])
  <2>1. 0 \in 0 .. MaxBits
    BY <1>1
  <2>2. Slice(0) = {k \in keys : k <= twoto[0]}
    OBVIOUS
  <2> QED
    BY <1>2, <2>1, <2>2 DEF UpTo
<1>5. ASSUME NEW i \in 1 .. MaxBits
      PROVE  UpTo(keys, twoto[i]) = UpTo(keys, twoto[i - 1]) + Nums(keys)[i]
  <2> DEFINE A == {k \in keys : k <= twoto[i - 1]}
             B == Slice(i)
             C == {k \in keys : k <= twoto[i]}
  <2>1. i \in 0 .. MaxBits /\ i - 1 \in 0 .. MaxBits /\ i # 0
    BY <1>1
  <2>2. twoto[i - 1] \in Nat /\ twoto[i] = 2 * twoto[i - 1]
    BY <2>1, TwotoIs
  <2>3. C = A \cup B /\ A \cap B = {} /\ A \subseteq keys
    <3>1. \A k \in keys : k \in Nat
      OBVIOUS
    <3>2. \A k \in keys : k \in C <=> k \in A \/ k \in B
      BY <2>1, <2>2, <3>1
    <3>3. \A k \in keys : ~(k \in A /\ k \in B)
      BY <2>1, <2>2, <3>1
    <3>4. A \subseteq keys /\ B \subseteq keys /\ C \subseteq keys
      OBVIOUS
    <3> HIDE DEF A, B, C
    <3> QED
      BY <3>2, <3>3, <3>4
  <2>4. IsFiniteSet(B) /\ Cardinality(B) = Nums(keys)[i]
    BY <1>2, <2>1
  <2>5. UpTo(keys, twoto[i]) = Cardinality(C) /\ UpTo(keys, twoto[i - 1]) = Cardinality(A)
    BY DEF UpTo
  <2> HIDE DEF A, B, C
  <2>6. IsFiniteSet(A)
    BY <1>1, <2>3, FS_Subset
  <2>7. Cardinality(A \cup B) = Cardinality(A) + Cardinality(B) - Cardinality(A \cap B)
    BY <2>4, <2>6, FS_Union
  <2>8. Cardinality(A) \in Nat /\ Cardinality(B) \in Nat /\ Cardinality({}) = 0
    BY <2>4, <2>6, FS_CardinalityType, FS_EmptySet
  <2> QED
    BY <2>3, <2>4, <2>5, <2>7, <2>8
<1> QED
  BY <1>3, <1>4, <1>5

(* A size more than half of which would be in use                          *)
Good(keys, j) == 2 * UpTo(keys, twoto[j]) > twoto[j]

(* What the loop of computesizes knows after i turns                       *)
SizesOK(keys, i, s) ==
  /\ s \in [a : Nat, na : Nat, n : Nat, stop : BOOLEAN]
  /\ ~s.stop => s.a = IF i = 0 THEN 0 ELSE UpTo(keys, twoto[i - 1])
  /\ \/ s.n = 0 /\ s.na = 0
     \/ \E j \in 0 .. MaxBits : Good(keys, j) /\ s.n = twoto[j] /\ s.na = UpTo(keys, twoto[j])
  /\ \A j \in 0 .. MaxBits : Good(keys, j) /\ (s.stop \/ j < i) => twoto[j] <= s.n

(* One turn of the loop                                                    *)
SizesTurn(nums, narray, i, s) ==
  LET twotoi == twoto[i - 1]
      a      == s.a + nums[i - 1]
      better == nums[i - 1] > 0 /\ HalfUsed(a, twotoi)
  IN IF s.stop \/ twotoi \div 2 >= narray THEN [s EXCEPT !.stop = TRUE]
     ELSE [a |-> a, na |-> IF better THEN a ELSE s.na,
           n |-> IF better THEN twotoi ELSE s.n, stop |-> a = narray]

(* A larger size is not good if all the keys fit in half of it.            *)
LEMMA LateSizes ==
  ASSUME NEW M \in Nat, NEW keys \in SUBSET (1 .. M),
         NEW i \in 0 .. MaxBits, NEW j \in 0 .. MaxBits, i <= j,
         2 * Cardinality(keys) <= twoto[i]
  PROVE  ~Good(keys, j)
<1>1. UpTo(keys, twoto[j]) <= Cardinality(keys) /\ UpTo(keys, twoto[j]) \in Nat
      /\ Cardinality(keys) \in Nat /\ twoto[i] \in Nat /\ twoto[j] \in Nat
  BY UpToFacts, TwotoIs
<1>2. i = j \/ (i < j /\ 2 * twoto[i] <= twoto[j])
  BY BitsNat, TwotoGrows
<1> QED
  BY <1>1, <1>2 DEF Good

(* A turn of the loop in computesizes keeps its invariant.                 *)
LEMMA SizesKept ==
  ASSUME NEW M \in Nat, NEW keys \in SUBSET (1 .. M), NEW i \in 1 .. MaxBits + 1,
         NEW s, SizesOK(keys, i - 1, s)
  PROVE  SizesOK(keys, i, SizesTurn(Nums(keys), Cardinality(keys), i, s))
<1> SUFFICES ASSUME NEW st, st = SizesTurn(Nums(keys), Cardinality(keys), i, s)
             PROVE  SizesOK(keys, i, st)
  OBVIOUS
<1> DEFINE N == Cardinality(keys)
           w == i - 1
           a == s.a + Nums(keys)[w]
<1>1. MaxBits \in Nat /\ w \in 0 .. MaxBits /\ N \in Nat
  <2>1. N \in Nat
    BY UpToFacts
  <2> QED
    BY <2>1, BitsNat
<1>2. twoto[w] \in Nat \ {0} /\ UpTo(keys, twoto[w]) \in Nat /\ UpTo(keys, twoto[w]) <= N
  BY <1>1, TwotoIs, UpToFacts
<1>3. twoto[w] = 1 \/ twoto[w] = 2 * (twoto[w] \div 2)
  <2>1. w = 0 \/ (w \in 1 .. MaxBits /\ w - 1 \in 0 .. MaxBits)
    BY <1>1
  <2>2. w = 0 \/ (twoto[w] = 2 * twoto[w - 1] /\ twoto[w - 1] \in Nat)
    BY <2>1, TwotoIs
  <2> QED
    BY <2>2, TwotoIs
<1>4. CASE s.stop \/ twoto[w] \div 2 >= N
  <2>1. st = [s EXCEPT !.stop = TRUE]
    BY <1>4 DEF SizesTurn
  <2>2. s \in [a : Nat, na : Nat, n : Nat, stop : BOOLEAN]
    BY DEF SizesOK
  <2>3. st \in [a : Nat, na : Nat, n : Nat, stop : BOOLEAN] /\ st.stop /\ st.n = s.n /\ st.na = s.na
    BY <2>1, <2>2
  <2>4. ASSUME NEW j \in 0 .. MaxBits, Good(keys, j) PROVE twoto[j] <= s.n
    <3>1. CASE s.stop \/ j < w
      BY <2>4, <3>1 DEF SizesOK
    <3>2. CASE ~s.stop /\ w <= j
      <4>1. twoto[w] \div 2 >= N
        BY <1>4, <3>2
      <4>2. twoto[w] # 1 => 2 * N <= twoto[w]
        BY <1>1, <1>2, <1>3, <4>1
      <4>3. twoto[w] = 1 => N = 0
        BY <1>1, <4>1
      <4>4. 2 * N <= twoto[w]
        BY <1>2, <4>2, <4>3
      <4>5. ~Good(keys, j)
        BY <1>1, <3>2, <4>4, LateSizes
      <4> QED
        BY <2>4, <4>5
    <3> QED
      BY <1>1, <3>1, <3>2
  <2> QED
    BY <2>3, <2>4 DEF SizesOK
<1>5. CASE ~s.stop /\ twoto[w] \div 2 < N
  <2>1. s \in [a : Nat, na : Nat, n : Nat, stop : BOOLEAN]
    BY DEF SizesOK
  <2>2. a = UpTo(keys, twoto[w])
    <3>1. CASE w = 0
      <4>1. s.a = 0
        BY <1>5, <3>1 DEF SizesOK
      <4>2. Nums(keys)[0] = UpTo(keys, twoto[0])
        BY SliceFacts
      <4>3. a = 0 + UpTo(keys, twoto[0])
        BY <3>1, <4>1, <4>2
      <4> QED
        BY <1>2, <3>1, <4>3
    <3>2. CASE w # 0
      <4>1. w \in 1 .. MaxBits
        BY <1>1, <3>2
      <4>2. s.a = UpTo(keys, twoto[w - 1])
        BY <1>5, <3>2 DEF SizesOK
      <4> HIDE DEF w
      <4> QED
        BY <4>1, <4>2, SliceFacts
    <3> QED
      BY <3>1, <3>2
  <2> DEFINE better == Nums(keys)[w] > 0 /\ HalfUsed(a, twoto[w])
  <2>3. ~(s.stop \/ twoto[w] \div 2 >= N)
    BY <1>1, <1>2, <1>5
  <2>4. st = [a |-> a, na |-> IF better THEN a ELSE s.na,
              n |-> IF better THEN twoto[w] ELSE s.n, stop |-> a = N]
    BY <2>3 DEF SizesTurn
  <2>5. better <=> Good(keys, w)
    <3>1. HalfUsed(a, twoto[w]) <=> Good(keys, w)
      BY <1>2, <1>3, <2>2 DEF HalfUsed, Good
    <3>2. Good(keys, w) => Nums(keys)[w] > 0
      <4>1. CASE w = 0
        <5>1. Nums(keys)[w] = UpTo(keys, twoto[w])
          BY <4>1, SliceFacts
        <5> QED
          BY <1>2, <5>1 DEF Good
      <4>2. CASE w # 0
        <5>1. w \in 1 .. MaxBits /\ w - 1 \in 0 .. MaxBits
          BY <1>1, <4>2
        <5>2. UpTo(keys, twoto[w]) = UpTo(keys, twoto[w - 1]) + Nums(keys)[w]
          BY <5>1, SliceFacts
        <5>3. twoto[w] = 2 * twoto[w - 1] /\ twoto[w - 1] \in Nat
          BY <5>1, TwotoIs
        <5>4. UpTo(keys, twoto[w - 1]) <= twoto[w - 1] /\ UpTo(keys, twoto[w - 1]) \in Nat
          BY <5>3, UpToFacts
        <5>5. Nums(keys)[w] \in Nat
          BY <1>1, SliceFacts
        <5> HIDE DEF w
        <5> QED
          BY <1>2, <5>2, <5>3, <5>4, <5>5 DEF Good
      <4> QED
        BY <4>1, <4>2
    <3> QED
      BY <3>1, <3>2
  <2> HIDE DEF better, a
  <2>6. a \in Nat
    BY <1>2, <2>2
  <2>7. /\ st \in [a : Nat, na : Nat, n : Nat, stop : BOOLEAN]
        /\ st.a = a /\ st.stop = (a = N)
        /\ st.na = IF better THEN a ELSE s.na
        /\ st.n = IF better THEN twoto[w] ELSE s.n
    BY <1>2, <2>1, <2>4, <2>6
  <2>8. \/ st.n = 0 /\ st.na = 0
        \/ \E j \in 0 .. MaxBits : Good(keys, j) /\ st.n = twoto[j] /\ st.na = UpTo(keys, twoto[j])
    <3>1. CASE better
      BY <1>1, <2>2, <2>5, <2>7, <3>1
    <3>2. CASE ~better
      BY <2>7, <3>2 DEF SizesOK
    <3> QED
      BY <3>1, <3>2
  <2>9. ASSUME NEW j \in 0 .. MaxBits, Good(keys, j), st.stop \/ j < i
        PROVE  twoto[j] <= st.n
    <3>1. twoto[j] \in Nat /\ s.n \in Nat
      BY <2>1, TwotoIs
    <3>2. CASE j < w
      <4>1. twoto[j] <= s.n
        BY <2>9, <3>2 DEF SizesOK
      <4>2. 2 * twoto[j] <= twoto[w]
        BY <1>1, <3>2, TwotoGrows
      <4> QED
        BY <2>7, <3>1, <4>1, <4>2, <1>2
    <3>3. CASE j = w
      BY <1>2, <2>5, <2>7, <2>9, <3>3
    <3>4. CASE w < j
      <4>1. a = N
        BY <1>1, <2>7, <2>9, <3>4
      <4>2. 2 * twoto[w] <= twoto[j] /\ UpTo(keys, twoto[j]) <= N /\ UpTo(keys, twoto[j]) \in Nat
        BY <1>1, <3>1, <3>4, TwotoGrows, UpToFacts
      <4>3. N <= twoto[w]
        BY <1>2, <2>2, <4>1, UpToFacts
      <4>4. 2 * UpTo(keys, twoto[j]) <= twoto[j]
        BY <1>1, <1>2, <3>1, <4>2, <4>3
      <4> QED
        BY <2>9, <3>1, <4>2, <4>4 DEF Good
    <3> QED
      BY <1>1, <3>2, <3>3, <3>4
  <2>10. i # 0 /\ st.a = UpTo(keys, twoto[i - 1])
    BY <2>2, <2>7
  <2> QED
    BY <2>7, <2>8, <2>9, <2>10 DEF SizesOK
<1> QED
  BY <1>1, <1>2, <1>4, <1>5

Sizes == [a : Nat, na : Nat, n : Nat, stop : BOOLEAN]
FirstSizes == [a |-> 0, na |-> 0, n |-> 0, stop |-> FALSE]

(* A turn of that loop leaves a record of sizes.                           *)
LEMMA SizesTurnType ==
  ASSUME NEW nums \in [0 .. MaxBits -> Nat], NEW narray \in Nat,
         NEW i \in 1 .. MaxBits + 1, NEW s \in Sizes
  PROVE  SizesTurn(nums, narray, i, s) \in Sizes
<1>1. i - 1 \in 0 .. MaxBits
  BY BitsNat
<1>2. nums[i - 1] \in Nat /\ twoto[i - 1] \in Nat
  BY <1>1, TwotoIs
<1> DEFINE a == s.a + nums[i - 1]
<1>3. a \in Nat
  BY <1>2 DEF Sizes
<1>4. [s EXCEPT !.stop = TRUE] \in Sizes
  BY DEF Sizes
<1> DEFINE better == nums[i - 1] > 0 /\ HalfUsed(a, twoto[i - 1])
<1>5. [a |-> a, na |-> IF better THEN a ELSE s.na,
       n |-> IF better THEN twoto[i - 1] ELSE s.n, stop |-> a = narray] \in Sizes
  <2> HIDE DEF better, a
  <2> QED
    BY <1>2, <1>3 DEF Sizes
<1> QED
  BY <1>4, <1>5 DEF SizesTurn

(* The loop is a run of its turns.                                         *)
LEMMA SizesLoop ==
  ASSUME NEW nums \in [0 .. MaxBits -> Nat], NEW narray \in Nat
  PROVE  \E f : /\ f[0] = FirstSizes
                /\ \A i \in 1 .. MaxBits + 1 : f[i] = SizesTurn(nums, narray, i, f[i - 1])
                /\ computesizes(nums, narray) = f[MaxBits + 1]
<1> DEFINE g == [p \in (1 .. MaxBits + 1) \X Sizes |-> SizesTurn(nums, narray, p[1], p[2])]
           K == MaxBits + 1
           loop[i \in 0 .. MaxBits + 1] ==
             IF i = 0 THEN [a |-> 0, na |-> 0, n |-> 0, stop |-> FALSE]
             ELSE LET s      == loop[i - 1]
                      twotoi == twoto[i - 1]
                      a      == s.a + nums[i - 1]
                      better == nums[i - 1] > 0 /\ HalfUsed(a, twotoi)
                  IN IF s.stop \/ twotoi \div 2 >= narray THEN [s EXCEPT !.stop = TRUE]
                     ELSE [a |-> a, na |-> IF better THEN a ELSE s.na,
                           n |-> IF better THEN twotoi ELSE s.n, stop |-> a = narray]
<1>1. g \in [(1 .. K) \X Sizes -> Sizes]
  <2>1. \A p \in (1 .. K) \X Sizes : SizesTurn(nums, narray, p[1], p[2]) \in Sizes
    BY SizesTurnType
  <2> QED
    BY <2>1
<1>2. FirstSizes \in Sizes /\ K \in Nat
  BY BitsNat DEF FirstSizes, Sizes
<1>3. PICK f : LoopFunction(f, K, Sizes, FirstSizes, g)
  <2> HIDE DEF g, K
  <2> QED
    BY <1>1, <1>2, LoopDefined
<1>4. ASSUME NEW i \in 0 .. K, i # 0
      PROVE  g[<<i, f[i - 1]>>] = SizesTurn(nums, narray, i, f[i - 1])
  <2>1. i \in 1 .. K
    BY <1>2, <1>4
  <2>2. f[i - 1] \in Sizes
    <3> HIDE DEF g, K
    <3> QED
      BY <1>3, <2>1 DEF LoopFunction
  <2> QED
    BY <2>1, <2>2
<1>5. f = [i \in 0 .. K |-> IF i = 0 THEN FirstSizes
                            ELSE SizesTurn(nums, narray, i, f[i - 1])]
  <2> HIDE DEF g, K
  <2> QED
    BY <1>3, <1>4 DEF LoopFunction
<1>6. loop = CHOOSE h : h = [i \in 0 .. K |-> IF i = 0 THEN FirstSizes
                                              ELSE SizesTurn(nums, narray, i, h[i - 1])]
  BY DEF SizesTurn, FirstSizes
<1>7. loop = [i \in 0 .. K |-> IF i = 0 THEN FirstSizes
                               ELSE SizesTurn(nums, narray, i, loop[i - 1])]
  <2> HIDE DEF loop, K, g
  <2> QED
    BY <1>5, <1>6
<1>8. computesizes(nums, narray) = loop[K]
  BY DEF computesizes
<1> HIDE DEF loop, g
<1>9. loop[0] = FirstSizes /\ \A i \in 1 .. K : loop[i] = SizesTurn(nums, narray, i, loop[i - 1])
  <2>1. 0 \in 0 .. K /\ \A i \in 1 .. K : i \in 0 .. K /\ i # 0
    BY <1>2
  <2> HIDE DEF K
  <2> QED
    BY <1>7, <2>1
<1> QED
  BY <1>8, <1>9

(* computesizes finds the largest good size, and counts the keys that fit. *)
LEMMA SizesFound ==
  ASSUME NEW keys \in SUBSET (1 .. twoto[MaxBits]),
         NEW s, s = computesizes(Nums(keys), Cardinality(keys))
  PROVE  /\ s.na = UpTo(keys, s.n)
         /\ \/ s.n = 0
            \/ \E j \in 0 .. MaxBits : Good(keys, j) /\ s.n = twoto[j]
         /\ \A j \in 0 .. MaxBits : Good(keys, j) => twoto[j] <= s.n
<1>1. twoto[MaxBits] \in Nat
  BY BitsNat, TwotoIs
<1>2. Nums(keys) \in [0 .. MaxBits -> Nat] /\ Cardinality(keys) \in Nat
  BY <1>1, SliceFacts, UpToFacts
<1>3. PICK f : /\ f[0] = FirstSizes
               /\ \A i \in 1 .. MaxBits + 1 :
                    f[i] = SizesTurn(Nums(keys), Cardinality(keys), i, f[i - 1])
               /\ s = f[MaxBits + 1]
  BY <1>2, SizesLoop
<1> DEFINE T == {i \in Nat : i <= MaxBits + 1 => SizesOK(keys, i, f[i])}
<1>4. 0 \in T
  <2>1. f[0] = FirstSizes
    BY <1>3
  <2>2. SizesOK(keys, 0, FirstSizes)
    BY BitsNat DEF SizesOK, FirstSizes
  <2> QED
    BY <2>1, <2>2
<1>5. ASSUME NEW i \in Nat, i \in T PROVE i + 1 \in T
  <2> SUFFICES ASSUME i + 1 <= MaxBits + 1 PROVE SizesOK(keys, i + 1, f[i + 1])
    OBVIOUS
  <2>1. i + 1 \in 1 .. MaxBits + 1 /\ (i + 1) - 1 = i /\ i <= MaxBits + 1
    BY BitsNat
  <2>2. SizesOK(keys, i, f[i])
    BY <1>5, <2>1
  <2>3. f[i + 1] = SizesTurn(Nums(keys), Cardinality(keys), i + 1, f[i])
    BY <1>3, <2>1
  <2> QED
    BY <1>1, <2>1, <2>2, <2>3, SizesKept
<1>6. Nat \subseteq T
  <2> HIDE DEF T
  <2> QED
    BY <1>4, <1>5, SetInduction
<1>7. SizesOK(keys, MaxBits + 1, s)
  BY <1>3, <1>6, BitsNat
<1>8. UpTo(keys, 0) = 0
  <2>1. UpTo(keys, 0) \in Nat /\ UpTo(keys, 0) <= 0
    BY <1>1, UpToFacts
  <2> QED
    BY <2>1
<1> QED
  BY <1>7, <1>8, BitsNat DEF SizesOK

(* A largest element is what Max chooses.                                  *)
LEMMA MaxIs ==
  ASSUME NEW S \in SUBSET Int, NEW m \in S, \A x \in S : x <= m
  PROVE  Max(S) = m
<1>1. \A x \in S : m >= x
  OBVIOUS
<1>2. Max(S) \in S /\ \A x \in S : Max(S) >= x
  BY <1>1 DEF Max
<1>3. Max(S) \in Int /\ m \in Int /\ Max(S) <= m /\ Max(S) >= m
  BY <1>2
<1> QED
  BY <1>3

(* A least element is what Min chooses.                                    *)
LEMMA MinIs ==
  ASSUME NEW S \in SUBSET Int, NEW m \in S, \A x \in S : m <= x
  PROVE  Min(S) = m
<1>1. Min(S) \in S /\ \A x \in S : Min(S) <= x
  BY DEF Min
<1>2. Min(S) \in Int /\ m \in Int /\ Min(S) <= m /\ m <= Min(S)
  BY <1>1
<1> QED
  BY <1>2

(* rehash chooses the best size, for any table and any extra key.          *)
LEMMA BestArraySize ==
  ASSUME NEW T, NEW k
  PROVE  LET ints == IntegersInUse(T, k)
             good == {n \in Powers : 2 * Cardinality({j \in ints : j <= n}) > n}
         IN NewSizes(T, k).array = Max(good \cup {0})
<1> DEFINE ints == IntegersInUse(T, k)
           good == {n \in Powers : 2 * Cardinality({j \in ints : j <= n}) > n}
           s == computesizes(Nums(ints), Cardinality(ints))
<1>1. ints \in SUBSET (1 .. twoto[MaxBits])
  BY DEF IntegersInUse
<1>2. good = {n \in Powers : 2 * UpTo(ints, n) > n}
  BY DEF UpTo
<1>3. NewSizes(T, k).array = s.n
  BY DEF NewSizes
<1> HIDE DEF ints, good, s
<1>4. /\ s.n = 0 \/ \E j \in 0 .. MaxBits : Good(ints, j) /\ s.n = twoto[j]
      /\ \A j \in 0 .. MaxBits : Good(ints, j) => twoto[j] <= s.n
  BY <1>1, SizesFound DEF s
<1>5. \A j \in 0 .. MaxBits : twoto[j] \in good <=> Good(ints, j)
  BY <1>2 DEF Powers, Good
<1>6. s.n \in good \cup {0}
  BY <1>4, <1>5
<1>7. good \cup {0} \subseteq Int /\ s.n \in Nat
  BY <1>2, <1>6, PowersFacts
<1>8. ASSUME NEW x \in good \cup {0} PROVE x <= s.n
  <2>1. CASE x \in good
    <3>1. PICK j \in 0 .. MaxBits : x = twoto[j]
      BY <1>2, <2>1 DEF Powers
    <3> QED
      BY <1>4, <1>5, <2>1, <3>1
  <2> QED
    BY <1>7, <2>1
<1>9. Max(good \cup {0}) = s.n
  <2> DEFINE S == good \cup {0}
  <2>1. S \in SUBSET Int /\ s.n \in S /\ \A x \in S : x <= s.n
    BY <1>6, <1>7, <1>8
  <2> HIDE DEF S
  <2>2. Max(S) = s.n
    BY <2>1, MaxIs
  <2> QED
    BY <2>2 DEF S
<1> QED
  BY <1>3, <1>9 DEF good, ints

(* The array part gets the largest power of two more than half of which    *)
(* is in use, whatever the table and the extra key: computesizes loses     *)
(* nothing by skipping the empty slices and by stopping early.             *)
THEOREM ArraySizeIsOptimal == Spec => []ArraySizeOptimal
<1>1. ArraySizeOptimal
  BY BestArraySize DEF ArraySizeOptimal
<1> QED
  BY <1>1, PTL

-----------------------------------------------------------------------------
(* The border                                                              *)

Present(T, i) == luaH_get(T, i) # Nil

(* A border lies between a and b.                                          *)
Between(T, a, b) ==
  /\ a \in Nat /\ b \in Nat /\ a < b
  /\ a = 0 \/ Present(T, a)

(* One turn of the bisection                                               *)
Halved(T, s) ==
  LET m == (s[1] + s[2]) \div 2
  IN IF s[2] - s[1] <= 1 THEN s
     ELSE IF luaH_get(T, m) = Nil THEN <<s[1], m>> ELSE <<m, s[2]>>

SearchRun(T, i, j, f) ==
  /\ f[0] = <<i, j>>
  /\ \A n \in 1 .. j - i : f[n] = Halved(T, f[n - 1])
  /\ BinarySearch(T, i, j) = f[j - i][1]

(* The bisection computes its turns.                                       *)
LEMMA SearchLoop ==
  ASSUME NEW T, NEW i \in Nat, NEW j \in Nat, i < j
  PROVE  \E f : SearchRun(T, i, j, f)
<1> DEFINE St == Nat \X Nat
           K == j - i
           g == [p \in (1 .. K) \X St |-> Halved(T, p[2])]
           search[n \in 0 .. j - i] ==
             IF n = 0 THEN <<i, j>>
             ELSE LET s == search[n - 1]
                      m == (s[1] + s[2]) \div 2
                  IN IF s[2] - s[1] <= 1 THEN s
                     ELSE IF luaH_get(T, m) = Nil THEN <<s[1], m>> ELSE <<m, s[2]>>
<1>1. g \in [(1 .. K) \X St -> St]
  <2>1. ASSUME NEW s \in St PROVE Halved(T, s) \in St
    <3>1. (s[1] + s[2]) \div 2 \in Nat
      OBVIOUS
    <3> QED
      BY <3>1 DEF Halved
  <2> QED
    BY <2>1
<1>2. <<i, j>> \in St /\ K \in Nat
  OBVIOUS
<1>3. PICK f : LoopFunction(f, K, St, <<i, j>>, g)
  <2> HIDE DEF g, K, St
  <2> QED
    BY <1>1, <1>2, LoopDefined
<1>4. ASSUME NEW n \in 0 .. K, n # 0 PROVE g[<<n, f[n - 1]>>] = Halved(T, f[n - 1])
  <2>1. n \in 1 .. K
    BY <1>2, <1>4
  <2>2. f[n - 1] \in St
    <3> HIDE DEF g, K, St
    <3> QED
      BY <1>3, <2>1 DEF LoopFunction
  <2> HIDE DEF St, K
  <2> QED
    BY <2>1, <2>2
<1>5. f = [n \in 0 .. K |-> IF n = 0 THEN <<i, j>> ELSE Halved(T, f[n - 1])]
  <2> HIDE DEF g, K, St
  <2> QED
    BY <1>3, <1>4 DEF LoopFunction
<1>6. search = CHOOSE h : h = [n \in 0 .. K |-> IF n = 0 THEN <<i, j>> ELSE Halved(T, h[n - 1])]
  BY DEF Halved
<1>7. search = [n \in 0 .. K |-> IF n = 0 THEN <<i, j>> ELSE Halved(T, search[n - 1])]
  <2> HIDE DEF search, K, g, St
  <2> QED
    BY <1>5, <1>6
<1>8. BinarySearch(T, i, j) = search[K][1]
  BY DEF BinarySearch
<1> HIDE DEF search, g
<1>9. search[0] = <<i, j>> /\ \A n \in 1 .. K : search[n] = Halved(T, search[n - 1])
  <2>1. 0 \in 0 .. K /\ \A n \in 1 .. K : n \in 0 .. K /\ n # 0
    BY <1>2
  <2> HIDE DEF K
  <2> QED
    BY <1>7, <2>1
<1> QED
  BY <1>8, <1>9 DEF SearchRun

(* The bisection ends at a border: the interval shrinks in every turn.     *)
LEMMA SearchFinds ==
  ASSUME NEW T, NEW i, NEW j, Between(T, i, j), ~Present(T, j),
         NEW n, n = BinarySearch(T, i, j)
  PROVE  n \in Nat /\ (n = 0 \/ Present(T, n)) /\ ~Present(T, n + 1)
<1>1. i \in Nat /\ j \in Nat /\ i < j
  BY DEF Between
<1>2. PICK f : SearchRun(T, i, j, f)
  BY <1>1, SearchLoop
<1> DEFINE OK(k, a, b) == /\ f[k] = <<a, b>> /\ Between(T, a, b) /\ ~Present(T, b)
                          /\ b - a = 1 \/ b - a <= j - i - k
           S == {k \in Nat : k <= j - i => \E a, b : OK(k, a, b)}
<1>3. 0 \in S
  <2>1. OK(0, i, j)
    BY <1>1, <1>2 DEF SearchRun
  <2> QED
    BY <2>1
<1>4. ASSUME NEW k \in Nat, k \in S PROVE k + 1 \in S
  <2> SUFFICES ASSUME k + 1 <= j - i PROVE \E a, b : OK(k + 1, a, b)
    OBVIOUS
  <2>1. PICK a, b : OK(k, a, b)
    BY <1>1, <1>4
  <2>2. a \in Nat /\ b \in Nat /\ a < b /\ f[k] = <<a, b>>
    BY <2>1 DEF Between
  <2>3. f[k + 1] = Halved(T, <<a, b>>)
    <3>1. k + 1 \in 1 .. j - i /\ (k + 1) - 1 = k
      BY <1>1
    <3> QED
      BY <1>2, <2>2, <3>1 DEF SearchRun
  <2>4. CASE b - a <= 1
    <3>1. f[k + 1] = <<a, b>> /\ b - a = 1
      BY <2>2, <2>3, <2>4 DEF Halved
    <3>2. OK(k + 1, a, b)
      BY <2>1, <3>1
    <3> QED
      BY <3>2
  <2>5. CASE b - a > 1
    <3> DEFINE m == (a + b) \div 2
    <3>1. m \in Nat /\ a < m /\ m < b
      BY <2>2, <2>5
    <3>2. b - m <= j - i - (k + 1) /\ m - a <= j - i - (k + 1)
      <4>1. b - a <= j - i - k
        BY <2>1, <2>2, <2>5
      <4> HIDE DEF m
      <4> QED
        BY <1>1, <2>2, <3>1, <4>1
    <3>3. f[k + 1] = IF ~Present(T, m) THEN <<a, m>> ELSE <<m, b>>
      <4>1. ~(b - a <= 1)
        BY <2>2, <2>5
      <4> QED
        BY <2>3, <4>1 DEF Halved, Present
    <3> HIDE DEF m
    <3>4. CASE Present(T, m)
      <4>1. OK(k + 1, m, b)
        BY <2>1, <2>2, <3>1, <3>2, <3>3, <3>4 DEF Between
      <4> QED
        BY <4>1
    <3>5. CASE ~Present(T, m)
      <4>1. OK(k + 1, a, m)
        BY <2>1, <2>2, <3>1, <3>2, <3>3, <3>5 DEF Between
      <4> QED
        BY <4>1
    <3> QED
      BY <3>4, <3>5
  <2> QED
    BY <2>2, <2>4, <2>5
<1>5. Nat \subseteq S
  <2> HIDE DEF S
  <2> QED
    BY <1>3, <1>4, SetInduction
<1>6. PICK a, b : OK(j - i, a, b)
  BY <1>1, <1>5
<1>7. a \in Nat /\ b = a + 1 /\ n = a
  BY <1>1, <1>2, <1>6 DEF Between, SearchRun
<1> QED
  BY <1>6, <1>7 DEF Between

(* One turn of the doubling                                                *)
Doubled(T, s) ==
  IF s[2] > MaxInt \/ luaH_get(T, s[2]) = Nil THEN s ELSE <<s[2], 2 * s[2]>>

UnboundRun(T, j0, f) ==
  /\ f[0] = <<j0, j0 + 1>>
  /\ \A n \in 1 .. MaxInt + 1 : f[n] = Doubled(T, f[n - 1])
  /\ unbound_search(T, j0) =
       IF f[MaxInt + 1][2] > MaxInt
       THEN Min({i \in 1 .. Cardinality(Key) + 1 : luaH_get(T, i) = Nil}) - 1
       ELSE BinarySearch(T, f[MaxInt + 1][1], f[MaxInt + 1][2])

(* The doubling of unbound_search computes its turns.                      *)
LEMMA UnboundLoop ==
  ASSUME NEW T, NEW j0 \in Nat
  PROVE  \E f : UnboundRun(T, j0, f)
<1> DEFINE St == Nat \X Nat
           K == MaxInt + 1
           g == [p \in (1 .. K) \X St |-> Doubled(T, p[2])]
           double[n \in 0 .. MaxInt + 1] ==
             IF n = 0 THEN <<j0, j0 + 1>>
             ELSE LET s == double[n - 1]
                  IN IF s[2] > MaxInt \/ luaH_get(T, s[2]) = Nil THEN s
                     ELSE <<s[2], 2 * s[2]>>
<1>1. g \in [(1 .. K) \X St -> St]
  <2>1. ASSUME NEW s \in St PROVE Doubled(T, s) \in St
    <3>1. 2 * s[2] \in Nat
      OBVIOUS
    <3> QED
      BY <3>1 DEF Doubled
  <2> QED
    BY <2>1
<1>2. <<j0, j0 + 1>> \in St /\ K \in Nat
  BY TableAssumption
<1>3. PICK f : LoopFunction(f, K, St, <<j0, j0 + 1>>, g)
  <2> DEFINE c == <<j0, j0 + 1>>
  <2>1. c \in St
    BY <1>2
  <2> HIDE DEF g, K, St, c
  <2>2. \E f : LoopFunction(f, K, St, c, g)
    BY <1>1, <1>2, <2>1, LoopDefined
  <2> QED
    BY <2>2 DEF c
<1>4. ASSUME NEW n \in 0 .. K, n # 0 PROVE g[<<n, f[n - 1]>>] = Doubled(T, f[n - 1])
  <2>1. n \in 1 .. K
    BY <1>2, <1>4
  <2>2. f[n - 1] \in St
    <3> HIDE DEF g, K, St
    <3> QED
      BY <1>3, <2>1 DEF LoopFunction
  <2> HIDE DEF St, K
  <2> QED
    BY <2>1, <2>2
<1>5. f = [n \in 0 .. K |-> IF n = 0 THEN <<j0, j0 + 1>> ELSE Doubled(T, f[n - 1])]
  <2> HIDE DEF g, K, St
  <2> QED
    BY <1>3, <1>4 DEF LoopFunction
<1>6. double = CHOOSE h : h = [n \in 0 .. K |-> IF n = 0 THEN <<j0, j0 + 1>>
                                                ELSE Doubled(T, h[n - 1])]
  BY DEF Doubled
<1>7. double = [n \in 0 .. K |-> IF n = 0 THEN <<j0, j0 + 1>> ELSE Doubled(T, double[n - 1])]
  <2> HIDE DEF double, K, g, St
  <2> QED
    BY <1>5, <1>6
<1>8. unbound_search(T, j0) =
        IF double[K][2] > MaxInt
        THEN Min({i \in 1 .. Cardinality(Key) + 1 : luaH_get(T, i) = Nil}) - 1
        ELSE BinarySearch(T, double[K][1], double[K][2])
  BY DEF unbound_search
<1> HIDE DEF double, g
<1>9. double[0] = <<j0, j0 + 1>> /\ \A n \in 1 .. K : double[n] = Doubled(T, double[n - 1])
  <2>1. 0 \in 0 .. K /\ \A n \in 1 .. K : n \in 0 .. K /\ n # 0
    BY <1>2
  <2> HIDE DEF K
  <2> QED
    BY <1>7, <2>1
<1> QED
  BY <1>8, <1>9 DEF UnboundRun

(* No table holds more integers than there are keys.                       *)
LEMMA SomeAbsent ==
  ASSUME NEW T, \A i \in Nat : Present(T, i) => i \in Key
  PROVE  \E i \in 1 .. Cardinality(Key) + 1 : ~Present(T, i)
<1> SUFFICES ASSUME \A i \in 1 .. Cardinality(Key) + 1 : Present(T, i) PROVE FALSE
  OBVIOUS
<1>1. IsFiniteSet(Key) /\ Cardinality(Key) \in Nat
  BY TableAssumption, FS_CardinalityType
<1> DEFINE K == Cardinality(Key)
           S == 1 .. K + 1
<1>2. S \subseteq Key
  BY <1>1
<1>3. Cardinality(S) = K + 1
  <2> HIDE DEF K
  <2>1. K + 1 \in Int /\ 1 \in Int /\ ~(1 > K + 1) /\ (K + 1) - 1 + 1 = K + 1
    BY <1>1 DEF K
  <2> QED
    BY <2>1, FS_Interval
<1> HIDE DEF S
<1>4. Cardinality(S) <= K
  BY <1>1, <1>2, FS_Subset
<1> QED
  BY <1>1, <1>3, <1>4

(* unbound_search finds a border, doubling, bisecting or counting.         *)
LEMMA UnboundFinds ==
  ASSUME NEW T, NEW j0 \in Nat, j0 = 0 \/ Present(T, j0),
         \A i \in Nat : Present(T, i) => i \in Key,
         NEW n, n = unbound_search(T, j0)
  PROVE  n \in Nat /\ (n = 0 \/ Present(T, n)) /\ ~Present(T, n + 1)
<1>1. MaxInt \in Nat
  BY TableAssumption
<1>2. PICK f : UnboundRun(T, j0, f)
  BY UnboundLoop
<1> DEFINE OK(k, a, b) == /\ f[k] = <<a, b>> /\ Between(T, a, b)
                          /\ b > MaxInt \/ ~Present(T, b) \/ b > k
           S == {k \in Nat : k <= MaxInt + 1 => \E a, b : OK(k, a, b)}
<1>3. 0 \in S
  <2>1. OK(0, j0, j0 + 1)
    BY <1>2 DEF Between, UnboundRun
  <2> QED
    BY <2>1
<1>4. ASSUME NEW k \in Nat, k \in S PROVE k + 1 \in S
  <2> SUFFICES ASSUME k + 1 <= MaxInt + 1 PROVE \E a, b : OK(k + 1, a, b)
    OBVIOUS
  <2>1. PICK a, b : OK(k, a, b)
    BY <1>1, <1>4
  <2>2. a \in Nat /\ b \in Nat /\ a < b /\ f[k] = <<a, b>>
    BY <2>1 DEF Between
  <2>3. f[k + 1] = Doubled(T, <<a, b>>)
    <3>1. k + 1 \in 1 .. MaxInt + 1 /\ (k + 1) - 1 = k
      BY <1>1
    <3> QED
      BY <1>2, <2>2, <3>1 DEF UnboundRun
  <2>4. CASE b > MaxInt \/ ~Present(T, b)
    <3>1. f[k + 1] = <<a, b>>
      BY <2>3, <2>4 DEF Doubled, Present
    <3>2. OK(k + 1, a, b)
      BY <2>1, <2>4, <3>1
    <3> QED
      BY <3>2
  <2>5. CASE ~(b > MaxInt) /\ Present(T, b)
    <3>1. f[k + 1] = <<b, 2 * b>>
      BY <2>3, <2>5 DEF Doubled, Present
    <3>2. b > k
      BY <2>1, <2>5
    <3>3. 2 * b \in Nat /\ b < 2 * b /\ 2 * b > k + 1
      BY <2>2, <3>2
    <3>4. OK(k + 1, b, 2 * b)
      BY <2>2, <2>5, <3>1, <3>3 DEF Between
    <3> QED
      BY <3>4
  <2> QED
    BY <2>4, <2>5
<1>5. Nat \subseteq S
  <2> HIDE DEF S
  <2> QED
    BY <1>3, <1>4, SetInduction
<1>6. PICK a, b : OK(MaxInt + 1, a, b)
  BY <1>1, <1>5
<1>7. a \in Nat /\ b \in Nat
  BY <1>6 DEF Between
<1>8. CASE b > MaxInt
  <2> DEFINE R == {i \in 1 .. Cardinality(Key) + 1 : luaH_get(T, i) = Nil}
  <2>1. n = Min(R) - 1
    BY <1>2, <1>6, <1>8 DEF UnboundRun
  <2>2. R \in SUBSET Nat /\ R # {}
    <3>1. Cardinality(Key) \in Nat
      BY TableAssumption, FS_CardinalityType
    <3> QED
      BY <3>1, SomeAbsent DEF Present
  <2>3. PICK m \in R : \A k \in R : m <= k
    <3> HIDE DEF R
    <3> QED
      BY <2>2, LeastNatural
  <2>4. Min(R) = m
    <3> HIDE DEF R
    <3>1. R \in SUBSET Int
      BY <2>2
    <3> QED
      BY <2>3, <3>1, MinIs
  <2>5. m \in 1 .. Cardinality(Key) + 1 /\ ~Present(T, m) /\ m \in Nat
    BY <2>2 DEF Present
  <2>6. m - 1 = 0 \/ Present(T, m - 1)
    <3>1. Cardinality(Key) \in Nat
      BY TableAssumption, FS_CardinalityType
    <3>2. m - 1 \notin R
      BY <2>3, <2>5
    <3>3. m - 1 # 0 => m - 1 \in 1 .. Cardinality(Key) + 1
      BY <2>5, <3>1
    <3> QED
      BY <3>2, <3>3 DEF Present
  <2> QED
    <3>1. n = m - 1 /\ n + 1 = m /\ n \in Nat
      BY <2>1, <2>4, <2>5
    <3> QED
      BY <2>5, <2>6, <3>1
<1>9. CASE ~(b > MaxInt)
  <2>1. n = BinarySearch(T, a, b)
    BY <1>2, <1>6, <1>9 DEF UnboundRun
  <2>2. Between(T, a, b) /\ ~Present(T, b)
    BY <1>1, <1>6, <1>7, <1>9
  <2> QED
    BY <2>1, <2>2, SearchFinds
<1> QED
  BY <1>8, <1>9

-----------------------------------------------------------------------------
(* The inductive invariant                                                 *)

NodeSet(T) == 0 .. sizenode(T) - 1

NodeRecord(n) == [key : Key \cup {Nil}, val : Key \cup {Nil},
                  next : (0 .. n - 1) \cup {NULL}, dead : BOOLEAN]

ArrayOK(a) ==
  /\ a \in Seq(Key \cup {Nil})
  /\ \A i \in 1 .. Len(a) : a[i] # Nil => a[i] = i

(* A value is stored under its key; a dead key has none, and none of the   *)
(* keys belongs into the array part.                                       *)
NodeOK(T, nd) ==
  /\ nd.val # Nil => nd.val = nd.key /\ ~nd.dead
  /\ nd.dead => nd.key \in Collectable
  /\ nd.key = Nil => nd.val = Nil /\ nd.next = NULL /\ ~nd.dead
  /\ nd.key # Nil => ~InArray(T, nd.key)

(* The free positions lie below lastfree.                                  *)
FreeOK(T) ==
  /\ T.lastfree \in 0 .. sizenode(T)
  /\ T.dummy \in BOOLEAN
  /\ T.dummy => sizenode(T) = 1 /\ T.node[0].key = Nil /\ T.lastfree = 0
  /\ ~T.dummy => \A i \in T.lastfree .. sizenode(T) - 1 : T.node[i].key # Nil

ShapeOK(T) ==
  /\ T \in [array : Seq(Key \cup {Nil}), node : [NodeSet(T) -> NodeRecord(sizenode(T))],
            lastfree : Nat, dummy : BOOLEAN, ref : [Collectable -> Nat], nested : BOOLEAN]
  /\ sizenode(T) \in Powers
  /\ ArrayOK(T.array)
  /\ \A i \in NodeSet(T) : NodeOK(T, T.node[i])
  /\ FreeOK(T)
  /\ ~T.nested

(* The chains: c says which chain a node is on, r falls along a chain, and *)
(* a node of a chain is reached from every node above it.                  *)
Chains(S, nx, c, r) ==
  /\ c \in [S -> Nat] /\ r \in [S -> Nat]
  /\ \A i \in S : nx[i] # NULL => nx[i] \in S /\ c[nx[i]] = c[i] /\ r[nx[i]] < r[i]
  /\ \A i, j \in S : i # j /\ c[i] = c[j] /\ r[j] <= r[i] =>
                       nx[i] # NULL /\ r[j] <= r[nx[i]]

(* A free node is on no chain of other nodes.                              *)
FreeAlone(S, key, c) == \A i, j \in S : i # j /\ key[i] = Nil => c[i] # c[j]

(* A key is on the chain of its main position, whose node is held by a key *)
(* that has its main position there.                                       *)
OnChain(S, key, mp, c, r) ==
  \A i \in S : key[i] # Nil =>
    LET m == mp[key[i]]
    IN m \in S /\ c[m] = c[i] /\ r[i] <= r[m] /\ key[m] # Nil /\ mp[key[m]] = m

(* A key that is not dead is in one node; dead copies of it are below.     *)
KeysOnce(S, key, dead, r) ==
  \A i, j \in S : i # j /\ key[i] # Nil /\ key[i] = key[j] /\ ~dead[i] =>
                    dead[j] /\ r[j] < r[i]

Linked(S, key, dead, nx, mp, c, r) ==
  /\ Chains(S, nx, c, r)
  /\ FreeAlone(S, key, c)
  /\ OnChain(S, key, mp, c, r)
  /\ KeysOnce(S, key, dead, r)

Keys(T)  == [i \in NodeSet(T) |-> T.node[i].key]
Deads(T) == [i \in NodeSet(T) |-> T.node[i].dead]
Nexts(T) == [i \in NodeSet(T) |-> T.node[i].next]
Mains(T) == [k \in Key |-> mainposition(T, k)]

LinksOK(T) ==
  \E c, r : Linked(NodeSet(T), Keys(T), Deads(T), Nexts(T), Mains(T), c, r)

(* A key that is not dead is covered by a reference.                       *)
HeldLive(T, k) == \E i \in NodeSet(T) : T.node[i].key = k /\ ~T.node[i].dead

RefsOK(T) == \A k \in Collectable : HeldLive(T, k) => T.ref[k] >= 1

TableOK(T) == ShapeOK(T) /\ LinksOK(T) /\ RefsOK(T)

ContentOK ==
  /\ content \in [Key -> Key \cup {Nil}]
  /\ \A k \in Key : content[k] \in {k, Nil} /\ luaH_get(t, k) = content[k]

-----------------------------------------------------------------------------
(* Positions                                                               *)

(* Integer keys are the keys that are numbers; nil is no key.              *)
LEMMA IntegersApart ==
  /\ \A i \in Nat : i \notin StrKey \cup ObjKey
  /\ \A k \in Key : k # Nil /\ (k \in Nat <=> k \in IntKey)
BY TableAssumption DEF Key, Collectable

(* arrayindex is the identity on numbers, -1 on other keys.                *)
LEMMA ArrayIndexFacts ==
  /\ \A i \in Nat : arrayindex(i) = i
  /\ \A k \in Key : arrayindex(k) \in Int /\ (k \notin IntKey => arrayindex(k) = -1)
<1>1. \A i \in Nat : arrayindex(i) = i
  BY IntegersApart DEF arrayindex
<1>2. \A k \in Key : k \in IntKey \/ arrayindex(k) = -1
  BY DEF Key, arrayindex
<1>3. \A k \in IntKey : k \in Nat
  BY TableAssumption
<1> QED
  BY <1>1, <1>2, <1>3

(* A position in the array part is an integer.                             *)
LEMMA InArrayFacts ==
  ASSUME NEW T, T.array \in Seq(Key \cup {Nil})
  PROVE  /\ Len(T.array) \in Nat
         /\ \A i \in Nat : InArray(T, i) <=> i \in 1 .. Len(T.array)
         /\ \A k \in Key : InArray(T, k) <=> k \in IntKey /\ k \in 1 .. Len(T.array)
<1>1. Len(T.array) \in Nat
  OBVIOUS
<1>2. \A i \in Nat : InArray(T, i) <=> i \in 1 .. Len(T.array)
  BY <1>1, ArrayIndexFacts DEF InArray
<1>3. ASSUME NEW k \in Key PROVE InArray(T, k) <=> k \in IntKey /\ k \in 1 .. Len(T.array)
  <2>1. CASE k \in IntKey
    BY <1>2, <2>1, TableAssumption
  <2>2. CASE k \notin IntKey
    BY <2>2, ArrayIndexFacts DEF InArray
  <2> QED
    BY <2>1, <2>2
<1> QED
  BY <1>1, <1>2, <1>3

(* The main position of a key is a node.                                   *)
LEMMA MainPositionFacts ==
  ASSUME NEW T, sizenode(T) \in Nat \ {0}
  PROVE  \A k \in Key : mainposition(T, k) \in NodeSet(T)
<1> SUFFICES ASSUME NEW k \in Key PROVE mainposition(T, k) \in NodeSet(T)
  OBVIOUS
<1> DEFINE n == sizenode(T)
           m == IF n <= 2 THEN 1 ELSE n - 1
<1>1. Hash[k] \in Nat
  BY TableAssumption
<1>2. m \in Nat /\ 1 <= m /\ m <= n
  OBVIOUS
<1>3. \A q \in Nat : 1 <= q => Hash[k] % q \in 0 .. q - 1
  BY <1>1
<1>4. Hash[k] % n \in 0 .. n - 1 /\ Hash[k] % m \in 0 .. m - 1
  <2> HIDE DEF m
  <2> QED
    BY <1>2, <1>3
<1>5. mainposition(T, k) = IF k \in StrKey THEN Hash[k] % n ELSE Hash[k] % m
  BY DEF mainposition
<1> HIDE DEF m
<1> QED
  BY <1>2, <1>4, <1>5 DEF NodeSet

(* The size of a node vector                                               *)
LEMMA SizeIs ==
  ASSUME NEW T, NEW n \in Nat \ {0}, DOMAIN T.node = 0 .. n - 1
  PROVE  sizenode(T) = n /\ NodeSet(T) = 0 .. n - 1
<1>1. Cardinality(0 .. n - 1) = n
  <2>1. n - 1 \in Int /\ 0 \in Int /\ ~(0 > n - 1) /\ (n - 1) - 0 + 1 = n
    OBVIOUS
  <2> QED
    BY <2>1, FS_Interval
<1> QED
  BY <1>1 DEF sizenode, NodeSet

(* The position of a key depends only on the size.                         *)
LEMMA SameMains ==
  ASSUME NEW T, NEW T2, sizenode(T2) = sizenode(T)
  PROVE  /\ Mains(T2) = Mains(T) /\ NodeSet(T2) = NodeSet(T)
         /\ \A k \in Key : mainposition(T2, k) = mainposition(T, k)
<1>1. \A k : mainposition(T2, k) = mainposition(T, k)
  BY DEF mainposition
<1> QED
  BY <1>1 DEF Mains, NodeSet

-----------------------------------------------------------------------------
(* Chains                                                                  *)

(* One node more of a chain                                                *)
Longer(nx, q) == IF nx[q[Len(q)]] = NULL THEN q ELSE Append(q, nx[q[Len(q)]])

ChainRun(T, s, f) ==
  /\ f[0] = <<s>>
  /\ \A n \in 1 .. sizenode(T) : f[n] = Longer(Nexts(T), f[n - 1])
  /\ Chain(T, s) = f[sizenode(T)]

NonEmpty(S) == {q \in Seq(S) : Len(q) # 0}

(* One more link leads to one more node.                                   *)
LEMMA LongerType ==
  ASSUME NEW S, NEW nx, \A i \in S : nx[i] # NULL => nx[i] \in S, NEW q \in NonEmpty(S)
  PROVE  Longer(nx, q) \in NonEmpty(S)
<1>1. q \in Seq(S) /\ Len(q) \in Nat \ {0}
  BY DEF NonEmpty
<1>2. q[Len(q)] \in S
  BY <1>1
<1>3. CASE nx[q[Len(q)]] = NULL
  BY <1>3 DEF Longer
<1>4. CASE nx[q[Len(q)]] # NULL
  <2>1. nx[q[Len(q)]] \in S
    BY <1>2, <1>4
  <2>2. Append(q, nx[q[Len(q)]]) \in Seq(S) /\ Len(Append(q, nx[q[Len(q)]])) = Len(q) + 1
    BY <1>1, <2>1
  <2> QED
    BY <1>1, <1>4, <2>2 DEF Longer, NonEmpty
<1> QED
  BY <1>3, <1>4

(* Chain computes the turns of its loop.                                   *)
LEMMA ChainLoop ==
  ASSUME NEW T, sizenode(T) \in Nat, NEW s \in NodeSet(T),
         \A i \in NodeSet(T) : Nexts(T)[i] # NULL => Nexts(T)[i] \in NodeSet(T)
  PROVE  \E f : ChainRun(T, s, f)
<1> DEFINE St == NonEmpty(NodeSet(T))
           K == sizenode(T)
           g == [p \in (1 .. K) \X St |-> Longer(Nexts(T), p[2])]
           chain[n \in 0 .. sizenode(T)] ==
             IF n = 0 THEN <<s>>
             ELSE LET c == chain[n - 1]
                      e == T.node[Last(c)].next
                  IN IF e = NULL THEN c ELSE Append(c, e)
<1>1. g \in [(1 .. K) \X St -> St]
  <2>1. \A q \in St : Longer(Nexts(T), q) \in St
    BY LongerType
  <2> HIDE DEF St
  <2> QED
    BY <2>1
<1>2. <<s>> \in St /\ K \in Nat
  BY DEF NonEmpty
<1>3. PICK f : LoopFunction(f, K, St, <<s>>, g)
  <2> DEFINE c0 == <<s>>
  <2>1. c0 \in St
    BY <1>2
  <2> HIDE DEF g, K, St, c0
  <2>2. \E f : LoopFunction(f, K, St, c0, g)
    BY <1>1, <1>2, <2>1, LoopDefined
  <2> QED
    BY <2>2 DEF c0
<1>4. ASSUME NEW n \in 0 .. K, n # 0
      PROVE  g[<<n, f[n - 1]>>] = Longer(Nexts(T), f[n - 1]) /\ f[n - 1] \in St
  <2>1. n \in 1 .. K
    BY <1>2, <1>4
  <2>2. f[n - 1] \in St
    <3> HIDE DEF g, K, St
    <3> QED
      BY <1>3, <2>1 DEF LoopFunction
  <2> HIDE DEF St, K
  <2> QED
    BY <2>1, <2>2
<1> DEFINE Step(q) == LET e == T.node[Last(q)].next IN IF e = NULL THEN q ELSE Append(q, e)
<1>5. ASSUME NEW q \in St PROVE Longer(Nexts(T), q) = Step(q)
  <2>1. q \in Seq(NodeSet(T)) /\ Len(q) \in Nat \ {0}
    BY DEF NonEmpty
  <2>2. q[Len(q)] \in NodeSet(T)
    BY <2>1
  <2>3. Nexts(T)[q[Len(q)]] = T.node[Last(q)].next
    BY <2>2 DEF Nexts, Last
  <2> QED
    BY <2>3 DEF Longer
<1>6. f = [n \in 0 .. K |-> IF n = 0 THEN <<s>> ELSE Step(f[n - 1])]
  <2>1. \A n \in 0 .. K : n # 0 => g[<<n, f[n - 1]>>] = Step(f[n - 1])
    BY <1>4, <1>5
  <2> HIDE DEF g, K, St, Step
  <2> QED
    BY <1>3, <2>1 DEF LoopFunction
<1>7. chain = CHOOSE h : h = [n \in 0 .. K |-> IF n = 0 THEN <<s>> ELSE Step(h[n - 1])]
  OBVIOUS
<1>8. chain = [n \in 0 .. K |-> IF n = 0 THEN <<s>> ELSE Step(chain[n - 1])]
  <2> HIDE DEF chain, K, g, St, Step
  <2> QED
    BY <1>6, <1>7
<1>9. Chain(T, s) = chain[K]
  BY DEF Chain
<1> HIDE DEF chain, g, Step
<1>10. chain[0] = <<s>> /\ \A n \in 1 .. K : chain[n] = Step(chain[n - 1])
  <2>1. 0 \in 0 .. K /\ \A n \in 1 .. K : n \in 0 .. K /\ n # 0
    BY <1>2
  <2> HIDE DEF K
  <2> QED
    BY <1>8, <2>1
<1> DEFINE R == {n \in Nat : n <= K => chain[n] \in St}
<1>11. Nat \subseteq R
  <2>1. 0 \in R
    BY <1>2, <1>10
  <2>2. ASSUME NEW n \in Nat, n \in R PROVE n + 1 \in R
    <3> SUFFICES ASSUME n + 1 <= K PROVE chain[n + 1] \in St
      OBVIOUS
    <3>1. n + 1 \in 1 .. K /\ (n + 1) - 1 = n /\ chain[n] \in St
      BY <1>2, <2>2
    <3>2. chain[n + 1] = Step(chain[n])
      BY <1>10, <3>1
    <3>3. Step(chain[n]) = Longer(Nexts(T), chain[n])
      BY <1>5, <3>1
    <3>4. Longer(Nexts(T), chain[n]) \in St
      BY <3>1, LongerType
    <3> QED
      BY <3>2, <3>3, <3>4
  <2> HIDE DEF R
  <2> QED
    BY <2>1, <2>2, SetInduction
<1>12. \A n \in 1 .. K : chain[n] = Longer(Nexts(T), chain[n - 1])
  <2> SUFFICES ASSUME NEW n \in 1 .. K PROVE chain[n] = Longer(Nexts(T), chain[n - 1])
    OBVIOUS
  <2>1. n - 1 \in Nat /\ n - 1 <= K
    BY <1>2
  <2>2. chain[n - 1] \in St
    BY <1>11, <2>1
  <2> QED
    BY <1>5, <1>10, <2>2
<1> QED
  BY <1>9, <1>10, <1>12 DEF ChainRun

(* q is a part of the chain, from s on.                                    *)
Follows(S, nx, c, r, s, q) ==
  /\ q \in NonEmpty(S) /\ q[1] = s
  /\ \A a \in 1 .. Len(q) : c[q[a]] = c[s]
  /\ \A a \in 1 .. Len(q) - 1 : nx[q[a]] = q[a + 1]
  /\ \A a, b \in 1 .. Len(q) : a < b => r[q[b]] < r[q[a]]

(* One more link still follows the chain, with falling ranks.              *)
LEMMA FollowsLonger ==
  ASSUME NEW S, NEW nx, NEW c, NEW r, NEW s, NEW q,
         Chains(S, nx, c, r), Follows(S, nx, c, r, s, q)
  PROVE  Follows(S, nx, c, r, s, Longer(nx, q))
<1>1. CASE nx[q[Len(q)]] = NULL
  BY <1>1 DEF Longer
<1>2. CASE nx[q[Len(q)]] # NULL
  <2> DEFINE n == Len(q)
             e == nx[q[n]]
             p == Append(q, e)
  <2>1. q \in Seq(S) /\ n \in Nat \ {0} /\ q[n] \in S
    BY DEF Follows, NonEmpty
  <2>2. e \in S /\ c[e] = c[q[n]] /\ r[e] < r[q[n]] /\ r \in [S -> Nat]
    BY <1>2, <2>1 DEF Chains
  <2>3. p \in Seq(S) /\ Len(p) = n + 1 /\ p[n + 1] = e /\ \A a \in 1 .. n : p[a] = q[a]
    BY <2>1, <2>2
  <2>4. Longer(nx, q) = p
    BY <1>2 DEF Longer
  <2> HIDE DEF p, e
  <2>5. p \in NonEmpty(S) /\ p[1] = s
    BY <2>1, <2>3 DEF NonEmpty, Follows
  <2>6. ASSUME NEW a \in 1 .. n + 1 PROVE c[p[a]] = c[s] /\ (a # n + 1 => a \in 1 .. n)
    <3>1. a = n + 1 \/ a \in 1 .. n
      BY <2>1
    <3>2. n \in 1 .. n
      BY <2>1
    <3> QED
      BY <2>1, <2>2, <2>3, <3>1, <3>2 DEF Follows
  <2>7. ASSUME NEW a \in 1 .. n PROVE nx[p[a]] = p[a + 1]
    <3>1. CASE a = n
      BY <2>3, <3>1 DEF e
    <3>2. CASE a # n
      <4>1. a \in 1 .. n - 1 /\ a + 1 \in 1 .. n
        BY <2>1, <3>2
      <4> QED
        BY <2>3, <4>1 DEF Follows
    <3> QED
      BY <3>1, <3>2
  <2>8. ASSUME NEW a \in 1 .. n + 1, NEW b \in 1 .. n + 1, a < b PROVE r[p[b]] < r[p[a]]
    <3>1. a \in 1 .. n /\ p[a] = q[a] /\ q[a] \in S
      BY <2>1, <2>3, <2>8
    <3>2. CASE b \in 1 .. n
      BY <2>3, <2>8, <3>1, <3>2 DEF Follows
    <3>3. CASE b = n + 1
      <4>1. a = n \/ a < n
        BY <2>1, <3>1
      <4>2. n \in 1 .. n
        BY <2>1
      <4>3. a = n \/ r[q[n]] < r[q[a]]
        BY <3>1, <4>1, <4>2 DEF Follows
      <4>4. r[e] \in Nat /\ r[q[n]] \in Nat /\ r[q[a]] \in Nat
        BY <2>1, <2>2, <3>1
      <4> QED
        BY <2>2, <2>3, <3>1, <3>3, <4>3, <4>4
    <3> QED
      BY <2>1, <3>2, <3>3
  <2> QED
    <3>1. Len(p) - 1 = n
      BY <2>1, <2>3
    <3> QED
      BY <2>3, <2>4, <2>5, <2>6, <2>7, <2>8, <3>1 DEF Follows
<1> QED
  BY <1>1, <1>2

(* The numbers of elements of intervals                                    *)
LEMMA Counts ==
  ASSUME NEW n \in Nat
  PROVE  /\ IsFiniteSet(1 .. n) /\ Cardinality(1 .. n) = n
         /\ IsFiniteSet(0 .. n - 1) /\ Cardinality(0 .. n - 1) = n
<1>1. n - 1 \in Int /\ (0 > n - 1 => n = 0) /\ (n - 1) - 0 + 1 = n
      /\ (1 > n => n = 0) /\ n - 1 + 1 = n
  OBVIOUS
<1>2. IsFiniteSet(0 .. n - 1) /\ Cardinality(0 .. n - 1) = n
  BY <1>1, FS_Interval
<1>3. IsFiniteSet(1 .. n)
  BY FS_Interval
<1>4. Cardinality(1 .. n) = n
  <2>1. Cardinality(1 .. n) = IF 1 > n THEN 0 ELSE n - 1 + 1
    BY FS_Interval
  <2> QED
    BY <1>1, <2>1
<1> QED
  BY <1>2, <1>3, <1>4

(* No chain has more nodes than there are.                                 *)
LEMMA ShortChain ==
  ASSUME NEW n \in Nat, NEW nx, NEW c, NEW r \in [0 .. n - 1 -> Nat], NEW s, NEW q,
         Follows(0 .. n - 1, nx, c, r, s, q)
  PROVE  Len(q) <= n
<1> DEFINE m == Len(q)
<1>1. m \in Nat /\ q \in [1 .. m -> 0 .. n - 1]
  BY DEF Follows, NonEmpty
<1>2. IsFiniteSet(1 .. m) /\ Cardinality(1 .. m) = m
  <2> HIDE DEF m
  <2> QED
    BY <1>1, Counts
<1>3. IsFiniteSet(0 .. n - 1) /\ Cardinality(0 .. n - 1) = n
  BY Counts
<1>4. CASE m > n
  <2> HIDE DEF m
  <2>1. PICK a, b \in 1 .. m : a # b /\ q[a] = q[b]
    <3>1. Cardinality(0 .. n - 1) < Cardinality(1 .. m)
      BY <1>1, <1>2, <1>3, <1>4
    <3> QED
      BY <1>1, <1>2, <1>3, <3>1, FS_PigeonHole
  <2>2. r[q[a]] \in Nat
    BY <1>1
  <2>3. a < b \/ b < a
    BY <2>1
  <2> QED
    BY <2>1, <2>2, <2>3 DEF m, Follows
<1> QED
  BY <1>1, <1>4

(* Chain follows a chain to its end: there are enough turns.               *)
LEMMA ChainFollows ==
  ASSUME NEW T, sizenode(T) \in Nat, NEW s \in NodeSet(T), NEW c, NEW r,
         Chains(NodeSet(T), Nexts(T), c, r)
  PROVE  /\ Follows(NodeSet(T), Nexts(T), c, r, s, Chain(T, s))
         /\ Nexts(T)[Chain(T, s)[Len(Chain(T, s))]] = NULL
<1> DEFINE S == NodeSet(T)
           nx == Nexts(T)
           N == sizenode(T)
<1>1. \A i \in S : nx[i] # NULL => nx[i] \in S
  BY DEF Chains
<1>2. PICK f : ChainRun(T, s, f)
  BY <1>1, ChainLoop
<1> DEFINE OK(n) == /\ Follows(S, nx, c, r, s, f[n])
                    /\ Len(f[n]) = n + 1 \/ nx[f[n][Len(f[n])]] = NULL
           R == {n \in Nat : n <= N => OK(n)}
<1>3. 0 \in R
  <2>1. f[0] = <<s>>
    BY <1>2 DEF ChainRun
  <2>2. <<s>> \in NonEmpty(S) /\ Len(<<s>>) = 1 /\ <<s>>[1] = s
    BY DEF NonEmpty
  <2>3. Follows(S, nx, c, r, s, <<s>>)
    BY <2>2 DEF Follows
  <2> QED
    BY <2>1, <2>2, <2>3
<1>4. ASSUME NEW n \in Nat, n \in R PROVE n + 1 \in R
  <2> SUFFICES ASSUME n + 1 <= N PROVE OK(n + 1)
    OBVIOUS
  <2>1. n + 1 \in 1 .. N /\ (n + 1) - 1 = n /\ OK(n)
    BY <1>4
  <2>2. f[n + 1] = Longer(nx, f[n])
    BY <1>2, <2>1 DEF ChainRun
  <2>3. Follows(S, nx, c, r, s, f[n + 1])
    BY <2>1, <2>2, FollowsLonger
  <2>4. CASE nx[f[n][Len(f[n])]] = NULL
    BY <2>2, <2>3, <2>4 DEF Longer
  <2>5. CASE nx[f[n][Len(f[n])]] # NULL
    <3>1. f[n] \in Seq(S) /\ Len(f[n]) = n + 1 /\ f[n][Len(f[n])] \in S
      BY <2>1, <2>5 DEF Follows, NonEmpty
    <3>2. nx[f[n][Len(f[n])]] \in S
      BY <1>1, <2>5, <3>1
    <3>3. f[n + 1] = Append(f[n], nx[f[n][Len(f[n])]])
      BY <2>2, <2>5 DEF Longer
    <3>4. Len(f[n + 1]) = (n + 1) + 1
      BY <3>1, <3>2, <3>3
    <3> QED
      BY <2>3, <3>4
  <2> QED
    BY <2>4, <2>5
<1>5. Nat \subseteq R
  <2> HIDE DEF R
  <2> QED
    BY <1>3, <1>4, SetInduction
<1>6. OK(N) /\ Chain(T, s) = f[N]
  BY <1>2, <1>5 DEF ChainRun
<1>7. Len(f[N]) <= N
  <2>1. r \in [0 .. N - 1 -> Nat]
    BY DEF Chains, NodeSet
  <2>2. Follows(0 .. N - 1, nx, c, r, s, f[N])
    BY <1>6 DEF NodeSet
  <2> HIDE DEF OK, R, S, nx, N
  <2>3. N \in Nat
    BY DEF N
  <2> QED
    BY <2>1, <2>2, <2>3, ShortChain
<1>8. Len(f[N]) # N + 1
  <2>1. Len(f[N]) \in Nat
    BY <1>6 DEF Follows, NonEmpty
  <2> QED
    BY <1>7, <2>1
<1> QED
  BY <1>6, <1>8

(* The chain from s holds the nodes of c that are not above s.             *)
LEMMA ChainMembers ==
  ASSUME NEW S, NEW nx, NEW c, NEW r, NEW s \in S, NEW q,
         Chains(S, nx, c, r), Follows(S, nx, c, r, s, q), nx[q[Len(q)]] = NULL
  PROVE  \A i \in S : (\E a \in 1 .. Len(q) : q[a] = i) <=> c[i] = c[s] /\ r[i] <= r[s]
<1> SUFFICES ASSUME NEW i \in S
             PROVE  (\E a \in 1 .. Len(q) : q[a] = i) <=> c[i] = c[s] /\ r[i] <= r[s]
  OBVIOUS
<1>1. q \in Seq(S) /\ Len(q) \in Nat \ {0} /\ q[1] = s /\ r \in [S -> Nat]
  BY DEF Follows, NonEmpty, Chains
<1>2. ASSUME NEW a \in 1 .. Len(q), q[a] = i PROVE c[i] = c[s] /\ r[i] <= r[s]
  <2>1. 1 \in 1 .. Len(q) /\ (a = 1 \/ 1 < a)
    BY <1>1
  <2>2. a = 1 \/ r[q[a]] < r[q[1]]
    BY <2>1 DEF Follows
  <2>3. r[i] \in Nat /\ r[s] \in Nat
    BY <1>1
  <2>4. c[i] = c[s]
    BY <1>2 DEF Follows
  <2>5. r[i] <= r[s]
    BY <1>1, <1>2, <2>2, <2>3
  <2> QED
    BY <2>4, <2>5
<1>3. ASSUME c[i] = c[s], r[i] <= r[s] PROVE \E a \in 1 .. Len(q) : q[a] = i
  <2> DEFINE D == {d \in Nat : d < Len(q) /\ r[i] <= r[q[Len(q) - d]]}
  <2>1. Len(q) - 1 \in D
    <3>1. Len(q) - (Len(q) - 1) = 1 /\ Len(q) - 1 \in Nat
      BY <1>1
    <3> QED
      BY <1>1, <1>3, <3>1
  <2>2. PICK d \in D : \A e \in D : d <= e
    <3>1. D \in SUBSET Nat /\ D # {}
      BY <2>1
    <3> HIDE DEF D
    <3> QED
      BY <3>1, LeastNatural
  <2> DEFINE a == Len(q) - d
  <2>3. a \in 1 .. Len(q) /\ r[i] <= r[q[a]] /\ q[a] \in S
    BY <1>1
  <2>4. c[q[a]] = c[i]
    BY <1>3, <2>3 DEF Follows
  <2>5. CASE q[a] = i
    BY <2>3, <2>5
  <2>6. CASE q[a] # i
    <3>1. nx[q[a]] # NULL /\ r[i] <= r[nx[q[a]]]
      BY <2>3, <2>4, <2>6 DEF Chains
    <3>2. a # Len(q)
      BY <3>1
    <3>3. d # 0 /\ d - 1 \in Nat /\ d - 1 < Len(q) /\ Len(q) - (d - 1) = a + 1
      BY <1>1, <3>2
    <3>4. a \in 1 .. Len(q) - 1
      BY <1>1, <2>3, <3>2
    <3>5. nx[q[a]] = q[a + 1]
      BY <3>4 DEF Follows
    <3>6. d - 1 \in D
      BY <3>1, <3>3, <3>5
    <3>7. d <= d - 1
      <4> HIDE DEF D
      <4> QED
        BY <2>2, <3>6
    <3> QED
      BY <3>3, <3>7
  <2> QED
    BY <2>5, <2>6
<1> QED
  BY <1>2, <1>3

(* Chain meets the nodes of the chain that are not above its start.        *)
LEMMA ChainSet ==
  ASSUME NEW T, sizenode(T) \in Nat, NEW s \in NodeSet(T), NEW c, NEW r,
         Chains(NodeSet(T), Nexts(T), c, r)
  PROVE  ToSet(Chain(T, s)) = {i \in NodeSet(T) : c[i] = c[s] /\ r[i] <= r[s]}
<1> DEFINE S == NodeSet(T)
           q == Chain(T, s)
<1>1. Follows(S, Nexts(T), c, r, s, q) /\ Nexts(T)[q[Len(q)]] = NULL
  BY ChainFollows
<1>2. q \in Seq(S)
  BY <1>1 DEF Follows, NonEmpty
<1> HIDE DEF S, q
<1>3. \A i \in S : (\E a \in 1 .. Len(q) : q[a] = i) <=> c[i] = c[s] /\ r[i] <= r[s]
  BY <1>1, ChainMembers DEF S
<1>4. ToSet(q) = {q[a] : a \in 1 .. Len(q)}
  BY <1>2 DEF ToSet
<1>5. \A a \in 1 .. Len(q) : q[a] \in S
  BY <1>2
<1> QED
  BY <1>3, <1>4, <1>5 DEF S, q

(* What ShapeOK says of a node and of the vector                           *)
LEMMA ShapeFacts ==
  ASSUME NEW T, ShapeOK(T)
  PROVE  /\ sizenode(T) \in Nat \ {0} /\ sizenode(T) \in Powers
         /\ 0 \in NodeSet(T)
         /\ T.array \in Seq(Key \cup {Nil}) /\ T.ref \in [Collectable -> Nat]
         /\ T.node \in [NodeSet(T) -> NodeRecord(sizenode(T))]
         /\ \A i \in NodeSet(T) :
              /\ T.node[i] \in NodeRecord(sizenode(T))
              /\ T.node[i].key \in Key \cup {Nil}
              /\ T.node[i].next \in NodeSet(T) \cup {NULL}
              /\ T.node[i].dead \in BOOLEAN
              /\ Keys(T)[i] = T.node[i].key /\ Deads(T)[i] = T.node[i].dead
              /\ Nexts(T)[i] = T.node[i].next
         /\ \A k \in Key : Mains(T)[k] = mainposition(T, k) /\ mainposition(T, k) \in NodeSet(T)
         /\ NULL \notin NodeSet(T)
<1>1. sizenode(T) \in Nat \ {0} /\ sizenode(T) \in Powers
  BY PowersFacts DEF ShapeOK
<1>2. 0 \in NodeSet(T) /\ NULL \notin NodeSet(T)
  BY <1>1 DEF NodeSet, NULL
<1>3. T.array \in Seq(Key \cup {Nil}) /\ T.ref \in [Collectable -> Nat]
      /\ T.node \in [NodeSet(T) -> NodeRecord(sizenode(T))]
  BY DEF ShapeOK
<1>4. \A k \in Key : Mains(T)[k] = mainposition(T, k) /\ mainposition(T, k) \in NodeSet(T)
  BY <1>1, MainPositionFacts DEF Mains
<1>5. ASSUME NEW i \in NodeSet(T)
      PROVE  /\ T.node[i] \in NodeRecord(sizenode(T))
             /\ T.node[i].key \in Key \cup {Nil}
             /\ T.node[i].next \in NodeSet(T) \cup {NULL}
             /\ T.node[i].dead \in BOOLEAN
             /\ Keys(T)[i] = T.node[i].key /\ Deads(T)[i] = T.node[i].dead
             /\ Nexts(T)[i] = T.node[i].next
  <2>1. T.node[i] \in NodeRecord(sizenode(T))
    BY <1>3
  <2>2. T.node[i].key \in Key \cup {Nil} /\ T.node[i].dead \in BOOLEAN
        /\ T.node[i].next \in NodeSet(T) \cup {NULL}
    BY <2>1 DEF NodeRecord, NodeSet
  <2> QED
    BY <2>1, <2>2 DEF Keys, Deads, Nexts
<1> QED
  BY <1>1, <1>2, <1>3, <1>4, <1>5

(* The nodes of k are all those that hold k and are not dead, and there is *)
(* at most one.                                                            *)
LEMMA NodesOfFacts ==
  ASSUME NEW T, ShapeOK(T), LinksOK(T), NEW k \in Key
  PROVE  /\ NodesOf(T, k) = {i \in NodeSet(T) : T.node[i].key = k /\ ~T.node[i].dead}
         /\ \A i, j \in NodesOf(T, k) : i = j
<1> DEFINE S == NodeSet(T)
<1>1. PICK c, r : Linked(S, Keys(T), Deads(T), Nexts(T), Mains(T), c, r)
  BY DEF LinksOK
<1>2. Chains(S, Nexts(T), c, r) /\ OnChain(S, Keys(T), Mains(T), c, r)
      /\ KeysOnce(S, Keys(T), Deads(T), r)
  BY <1>1 DEF Linked
<1> DEFINE m == mainposition(T, k)
<1>3. m \in S /\ sizenode(T) \in Nat /\ Mains(T)[k] = m
  BY ShapeFacts
<1>4. ToSet(Chain(T, m)) = {i \in S : c[i] = c[m] /\ r[i] <= r[m]}
  BY <1>2, <1>3, ChainSet
<1>5. ASSUME NEW i \in S, T.node[i].key = k PROVE i \in ToSet(Chain(T, m))
  <2>1. Keys(T)[i] = k /\ k # Nil
    BY <1>5, ShapeFacts, IntegersApart
  <2>2. c[m] = c[i] /\ r[i] <= r[m]
    BY <1>2, <1>3, <2>1 DEF OnChain
  <2> QED
    BY <1>4, <2>2
<1>6. NodesOf(T, k) = {i \in S : T.node[i].key = k /\ ~T.node[i].dead}
  BY <1>4, <1>5 DEF NodesOf
<1>7. ASSUME NEW i \in NodesOf(T, k), NEW j \in NodesOf(T, k) PROVE i = j
  <2>1. /\ i \in S /\ j \in S /\ Keys(T)[i] = k /\ Keys(T)[j] = k /\ k # Nil
        /\ ~Deads(T)[i] /\ ~Deads(T)[j]
    BY <1>6, ShapeFacts, IntegersApart
  <2> QED
    BY <1>2, <2>1 DEF KeysOnce
<1> QED
  BY <1>6, <1>7

(* What a lookup finds                                                     *)
LEMMA GetFacts ==
  ASSUME NEW T, ShapeOK(T), LinksOK(T), NEW k \in Key
  PROVE  /\ InArray(T, k) => /\ luaH_get(T, k) = T.array[k]
                             /\ k \in 1 .. Len(T.array) /\ k \in IntKey
         /\ \A i \in NodeSet(T) :
              T.node[i].key = k /\ ~T.node[i].dead =>
                /\ ~InArray(T, k) /\ luaH_get(T, k) = T.node[i].val
                /\ NodesOf(T, k) = {i} /\ (CHOOSE j \in NodesOf(T, k) : TRUE) = i
         /\ ~InArray(T, k) /\ ~HeldLive(T, k) => luaH_get(T, k) = Nil
         /\ luaH_get(T, k) \in {k, Nil}
         /\ HasSlot(T, k) <=> InArray(T, k) \/ HeldLive(T, k)
<1>1. NodesOf(T, k) = {i \in NodeSet(T) : T.node[i].key = k /\ ~T.node[i].dead}
      /\ \A i, j \in NodesOf(T, k) : i = j
  BY NodesOfFacts
<1>2. InArray(T, k) => /\ luaH_get(T, k) = T.array[k]
                       /\ k \in 1 .. Len(T.array) /\ k \in IntKey
                       /\ T.array[k] \in {k, Nil}
  <2>1. T.array \in Seq(Key \cup {Nil}) /\ ArrayOK(T.array)
    BY ShapeFacts DEF ShapeOK
  <2>2. InArray(T, k) => k \in 1 .. Len(T.array) /\ k \in IntKey
    BY <2>1, InArrayFacts
  <2> QED
    BY <2>1, <2>2 DEF luaH_get, ArrayOK
<1>3. ASSUME NEW i \in NodeSet(T), T.node[i].key = k, ~T.node[i].dead
      PROVE  /\ ~InArray(T, k) /\ luaH_get(T, k) = T.node[i].val
             /\ NodesOf(T, k) = {i} /\ (CHOOSE j \in NodesOf(T, k) : TRUE) = i
             /\ T.node[i].val \in {k, Nil}
  <2>1. NodeOK(T, T.node[i]) /\ k # Nil
    BY IntegersApart DEF ShapeOK
  <2>2. ~InArray(T, k) /\ T.node[i].val \in {k, Nil}
    BY <1>3, <2>1 DEF NodeOK
  <2>3. NodesOf(T, k) = {i}
    BY <1>1, <1>3
  <2>4. (CHOOSE j \in NodesOf(T, k) : TRUE) = i
    BY <2>3
  <2>5. luaH_get(T, k) = T.node[i].val
    BY <2>2, <2>3, <2>4 DEF luaH_get
  <2> QED
    BY <2>2, <2>3, <2>4, <2>5
<1>4. ~InArray(T, k) /\ ~HeldLive(T, k) => luaH_get(T, k) = Nil
  BY <1>1 DEF luaH_get, HeldLive
<1>5. luaH_get(T, k) \in {k, Nil}
  BY <1>2, <1>3, <1>4 DEF HeldLive
<1>6. HasSlot(T, k) <=> InArray(T, k) \/ HeldLive(T, k)
  BY <1>1 DEF HasSlot, HeldLive
<1> QED
  BY <1>2, <1>3, <1>4, <1>5, <1>6

-----------------------------------------------------------------------------
(* The border of a table                                                   *)

(* A lookup of a number                                                    *)
LEMMA NumberFacts ==
  ASSUME NEW T, ShapeOK(T), NEW i \in Nat
  PROVE  /\ i \in 1 .. Len(T.array) => luaH_get(T, i) = T.array[i]
         /\ Present(T, i) => i \in Key
<1>1. T.array \in Seq(Key \cup {Nil}) /\ ArrayOK(T.array)
  BY ShapeFacts DEF ShapeOK
<1>2. InArray(T, i) <=> i \in 1 .. Len(T.array)
  BY <1>1, InArrayFacts
<1>3. i \in 1 .. Len(T.array) => luaH_get(T, i) = T.array[i]
  BY <1>2 DEF luaH_get
<1>4. i \in 1 .. Len(T.array) => T.array[i] \in {i, Nil} /\ T.array[i] \in Key \cup {Nil}
  BY <1>1 DEF ArrayOK
<1>5. ~(i \in 1 .. Len(T.array)) => luaH_get(T, i) = Nil \/ i \in Key
  BY <1>2 DEF luaH_get
<1> QED
  BY <1>3, <1>4, <1>5 DEF Present

(* luaH_getn finds a border of what luaH_get finds.                        *)
LEMMA GetnFinds ==
  ASSUME NEW T, ShapeOK(T), LinksOK(T), NEW n, n = luaH_getn(T)
  PROVE  n \in Nat /\ (n = 0 \/ Present(T, n)) /\ ~Present(T, n + 1)
<1> DEFINE j == Len(T.array)
<1>1. T.array \in Seq(Key \cup {Nil}) /\ j \in Nat
  BY ShapeFacts
<1>2. j > 0 => luaH_get(T, j) = T.array[j]
  <2>1. j > 0 => j \in 1 .. j
    BY <1>1
  <2> QED
    BY <1>1, <2>1, NumberFacts
<1>3. CASE j > 0 /\ T.array[j] = Nil
  <2>1. n = BinarySearch(T, 0, j)
    BY <1>3 DEF luaH_getn
  <2>2. Between(T, 0, j) /\ ~Present(T, j)
    BY <1>1, <1>2, <1>3 DEF Between, Present
  <2> QED
    BY <2>1, <2>2, SearchFinds
<1>4. CASE ~(j > 0 /\ T.array[j] = Nil) /\ T.dummy
  <2>1. n = j
    BY <1>4 DEF luaH_getn
  <2>2. j = 0 \/ Present(T, j)
    BY <1>1, <1>2, <1>4 DEF Present
  <2>3. ASSUME Present(T, j + 1) PROVE FALSE
    <3>1. j + 1 \in Nat /\ j + 1 \in Key
      BY <1>1, <2>3, NumberFacts
    <3>2. ~InArray(T, j + 1)
      BY <1>1, <3>1, InArrayFacts
    <3>3. HeldLive(T, j + 1)
      BY <2>3, <3>1, <3>2, GetFacts DEF Present
    <3>4. PICK i \in NodeSet(T) : T.node[i].key = j + 1
      BY <3>3 DEF HeldLive
    <3>5. sizenode(T) = 1 /\ T.node[0].key = Nil
      BY <1>4 DEF ShapeOK, FreeOK
    <3>6. i = 0
      BY <3>5 DEF NodeSet
    <3> QED
      BY <3>1, <3>4, <3>5, <3>6, IntegersApart
  <2> QED
    BY <1>1, <2>1, <2>2, <2>3
<1>5. CASE ~(j > 0 /\ T.array[j] = Nil) /\ ~T.dummy
  <2>1. n = unbound_search(T, j)
    BY <1>5 DEF luaH_getn
  <2>2. j = 0 \/ Present(T, j)
    BY <1>1, <1>2, <1>5 DEF Present
  <2>3. \A i \in Nat : Present(T, i) => i \in Key
    BY NumberFacts
  <2> QED
    BY <1>1, <2>1, <2>2, <2>3, UnboundFinds
<1> QED
  BY <1>3, <1>4, <1>5

(* Hence it finds a border of what the program has stored.                 *)
LEMMA BorderOfContent == TableOK(t) /\ ContentOK => IsBorder
<1> SUFFICES ASSUME TableOK(t), ContentOK PROVE IsBorder
  OBVIOUS
<1> SUFFICES ASSUME NEW n, n = luaH_getn(t)
             PROVE  /\ n = 0 \/ (n \in IntKey /\ content[n] # Nil)
                    /\ ~(n + 1 \in IntKey /\ content[n + 1] # Nil)
  BY DEF IsBorder
<1>1. n \in Nat /\ (n = 0 \/ Present(t, n)) /\ ~Present(t, n + 1)
  BY GetnFinds DEF TableOK
<1>2. n = 0 \/ n \in Key
  BY <1>1, NumberFacts DEF TableOK
<1>3. \A k \in Key : content[k] = luaH_get(t, k)
  BY DEF ContentOK
<1>4. n + 1 \in IntKey => n + 1 \in Key
  BY DEF Key
<1> QED
  BY <1>1, <1>2, <1>3, <1>4, IntegersApart DEF Present

-----------------------------------------------------------------------------
(* A key is linked into its chain                                          *)

(* Nodes of the same chain have different ranks.                           *)
LEMMA RanksDiffer ==
  ASSUME NEW S, NEW nx, NEW c, NEW r, Chains(S, nx, c, r),
         NEW i \in S, NEW j \in S, i # j, c[i] = c[j]
  PROVE  r[i] \in Nat /\ r[j] \in Nat /\ (r[i] < r[j] \/ r[j] < r[i])
<1>1. r[i] \in Nat /\ r[j] \in Nat
  BY DEF Chains
<1>2. r[j] <= r[i] => nx[i] # NULL /\ r[j] <= r[nx[i]] /\ r[nx[i]] \in Nat /\ r[nx[i]] < r[i]
  BY DEF Chains
<1> QED
  BY <1>1, <1>2

(* k may be put into a node: m is its main position, and only dead nodes   *)
(* hold it.                                                                *)
MayHold(S, key, dead, mp, k, m) ==
  /\ k # Nil /\ m \in S /\ m = mp[k]
  /\ \A i \in S : key[i] = k => dead[i]

(* Node n holds k.                                                         *)
Held(S, key, dead, k, n, key2, dead2) ==
  /\ \A i \in S : key2[i] = IF i = n THEN k ELSE key[i]
  /\ \A i \in S : dead2[i] = IF i = n THEN FALSE ELSE dead[i]

(* The node at the main position has no value: its key is replaced.        *)
LEMMA LinkReused ==
  ASSUME NEW S, NEW key, NEW dead, NEW nx, NEW mp, NEW c, NEW r, NEW k, NEW m,
         Linked(S, key, dead, nx, mp, c, r), MayHold(S, key, dead, mp, k, m),
         NEW key2, NEW dead2, Held(S, key, dead, k, m, key2, dead2)
  PROVE  Linked(S, key2, dead2, nx, mp, c, r)
<1>0. /\ \A i \in S : key2[i] = IF i = m THEN k ELSE key[i]
      /\ \A i \in S : dead2[i] = IF i = m THEN FALSE ELSE dead[i]
  BY DEF Held
<1>1. /\ Chains(S, nx, c, r) /\ FreeAlone(S, key, c) /\ OnChain(S, key, mp, c, r)
      /\ KeysOnce(S, key, dead, r)
  BY <1>0 DEF Linked
<1>2. k # Nil /\ m \in S /\ m = mp[k] /\ \A i \in S : key[i] = k => dead[i]
  BY <1>0 DEF MayHold
<1>3. FreeAlone(S, key2, c)
  BY <1>0, <1>1, <1>2 DEF FreeAlone
<1>4. OnChain(S, key2, mp, c, r)
  <2> SUFFICES ASSUME NEW i \in S, key2[i] # Nil
               PROVE  LET o == mp[key2[i]]
                      IN o \in S /\ c[o] = c[i] /\ r[i] <= r[o] /\ key2[o] # Nil
                         /\ mp[key2[o]] = o
    BY <1>0 DEF OnChain
  <2>1. CASE i = m
    <3>1. key2[i] = k /\ mp[key2[i]] = m /\ r[m] \in Nat
      BY <1>0, <1>1, <1>2, <2>1 DEF Chains
    <3> QED
      BY <1>0, <1>2, <2>1, <3>1
  <2>2. CASE i # m
    <3>1. key2[i] = key[i]
      BY <1>0, <2>2
    <3> DEFINE o == mp[key[i]]
    <3>2. o \in S /\ c[o] = c[i] /\ r[i] <= r[o] /\ key[o] # Nil /\ mp[key[o]] = o
      BY <1>0, <1>1, <3>1 DEF OnChain
    <3> QED
      BY <1>0, <1>1, <1>2, <3>1, <3>2
  <2> QED
    BY <1>0, <2>1, <2>2
<1>5. KeysOnce(S, key2, dead2, r)
  <2> SUFFICES ASSUME NEW i \in S, NEW j \in S, i # j, key2[i] # Nil,
                      key2[i] = key2[j], ~dead2[i]
               PROVE  dead2[j] /\ r[j] < r[i]
    BY <1>0 DEF KeysOnce
  <2>1. CASE i = m
    <3>1. key[j] = k /\ dead[j] /\ dead2[j]
      BY <1>0, <1>2, <2>1
    <3>2. c[m] = c[j] /\ r[j] <= r[m]
      BY <1>0, <1>1, <1>2, <3>1 DEF OnChain
    <3>3. r[j] < r[m]
      BY <1>0, <1>1, <1>2, <2>1, <3>2, RanksDiffer
    <3> QED
      BY <1>0, <2>1, <3>1, <3>3
  <2>2. CASE j = m
    BY <1>0, <1>2, <2>2
  <2>3. CASE i # m /\ j # m
    BY <1>0, <1>1, <2>3 DEF KeysOnce
  <2> QED
    BY <1>0, <2>1, <2>2, <2>3
<1> QED
  BY <1>0, <1>1, <1>3, <1>4, <1>5 DEF Linked

NextBehind(S, nx, m, n, nx2) ==
  \A i \in S : nx2[i] = IF i = n THEN nx[m] ELSE IF i = m THEN n ELSE nx[i]

(* The node at the main position is in its own main position: the new node *)
(* n comes behind it.                                                      *)
LEMMA LinkBehind ==
  ASSUME NEW S, NEW key, NEW dead, NEW nx, NEW mp, NEW c, NEW r, NEW k, NEW m,
         Linked(S, key, dead, nx, mp, c, r), MayHold(S, key, dead, mp, k, m),
         NULL \notin S, key[m] # Nil, key[m] # k, mp[key[m]] = m,
         NEW n \in S, key[n] = Nil,
         NEW key2, NEW dead2, Held(S, key, dead, k, n, key2, dead2),
         NEW nx2, NextBehind(S, nx, m, n, nx2)
  PROVE  \E c2, r2 : Linked(S, key2, dead2, nx2, mp, c2, r2)
<1> DEFINE c2 == [i \in S |-> IF i = n THEN c[m] ELSE c[i]]
           r2 == [i \in S |-> IF i = n THEN 2 * r[m] ELSE 2 * r[i] + 1]
<1>0. /\ \A i \in S : key2[i] = IF i = n THEN k ELSE key[i]
      /\ \A i \in S : dead2[i] = IF i = n THEN FALSE ELSE dead[i]
      /\ \A i \in S : nx2[i] = IF i = n THEN nx[m] ELSE IF i = m THEN n ELSE nx[i]
  BY DEF Held, NextBehind
<1>1. /\ Chains(S, nx, c, r) /\ FreeAlone(S, key, c) /\ OnChain(S, key, mp, c, r)
      /\ KeysOnce(S, key, dead, r)
  BY <1>0 DEF Linked
<1>2. k # Nil /\ m \in S /\ m = mp[k] /\ n # m /\ \A i \in S : key[i] = k => dead[i]
  BY <1>0 DEF MayHold
<1>3. /\ \A i \in S : c[i] \in Nat /\ r[i] \in Nat
      /\ \A i \in S : i # n => c[i] # c[n] /\ nx[i] # n
  <2>1. \A i \in S : c[i] \in Nat /\ r[i] \in Nat
    BY <1>0, <1>1 DEF Chains
  <2>2. ASSUME NEW i \in S, i # n PROVE c[i] # c[n] /\ nx[i] # n
    <3>1. c[n] # c[i]
      BY <1>0, <1>1, <2>2 DEF FreeAlone
    <3>2. nx[i] = n => c[n] = c[i]
      BY <1>0, <1>1 DEF Chains
    <3> QED
      BY <1>0, <3>1, <3>2
  <2> QED
    BY <1>0, <2>1, <2>2
<1>4. \A i \in S : /\ i # n => c2[i] = c[i] /\ r2[i] = 2 * r[i] + 1
                   /\ i = n => c2[i] = c[m] /\ r2[i] = 2 * r[m]
  OBVIOUS
<1>5. Chains(S, nx2, c2, r2)
  <2>1. c2 \in [S -> Nat] /\ r2 \in [S -> Nat]
    BY <1>0, <1>2, <1>3
  <2>2. ASSUME NEW i \in S, nx2[i] # NULL
        PROVE  nx2[i] \in S /\ c2[nx2[i]] = c2[i] /\ r2[nx2[i]] < r2[i]
    <3>1. CASE i = m
      BY <1>0, <1>2, <1>3, <1>4, <3>1
    <3>2. CASE i = n
      <4>1. nx2[i] = nx[m] /\ nx[m] # NULL
        BY <1>0, <2>2, <3>2
      <4>2. nx[m] \in S /\ c[nx[m]] = c[m] /\ r[nx[m]] < r[m] /\ nx[m] # n
        BY <1>0, <1>1, <1>2, <1>3, <4>1 DEF Chains
      <4> QED
        BY <1>0, <1>2, <1>3, <1>4, <3>2, <4>1, <4>2
    <3>3. CASE i # m /\ i # n
      <4>1. nx2[i] = nx[i] /\ nx[i] # NULL
        BY <1>0, <2>2, <3>3
      <4>2. nx[i] \in S /\ c[nx[i]] = c[i] /\ r[nx[i]] < r[i] /\ nx[i] # n
        BY <1>0, <1>1, <1>3, <3>3, <4>1 DEF Chains
      <4> QED
        BY <1>0, <1>2, <1>3, <1>4, <3>3, <4>1, <4>2
    <3> QED
      BY <1>0, <3>1, <3>2, <3>3
  <2>3. ASSUME NEW i \in S, NEW j \in S, i # j, c2[i] = c2[j], r2[j] <= r2[i]
        PROVE  nx2[i] # NULL /\ r2[j] <= r2[nx2[i]]
    <3>0. n # NULL
      OBVIOUS
    <3>1. CASE i # n /\ j # n
      <4>1. c[i] = c[j] /\ r[j] <= r[i]
        BY <1>0, <1>3, <1>4, <2>3, <3>1
      <4>2. nx[i] # NULL /\ r[j] <= r[nx[i]] /\ nx[i] \in S /\ nx[i] # n /\ r[nx[i]] < r[i]
        BY <1>0, <1>1, <1>3, <2>3, <3>1, <4>1 DEF Chains
      <4>3. CASE i = m
        BY <1>0, <1>2, <1>3, <1>4, <3>0, <3>1, <4>2, <4>3
      <4>4. CASE i # m
        BY <1>0, <1>3, <1>4, <3>1, <4>2, <4>4
      <4> QED
        BY <1>0, <4>3, <4>4
    <3>2. CASE i = n
      <4>1. j # n /\ c[j] = c[m] /\ r[j] < r[m] /\ j # m
        BY <1>0, <1>2, <1>3, <1>4, <2>3, <3>2
      <4>2. nx[m] # NULL /\ r[j] <= r[nx[m]] /\ nx[m] \in S /\ nx[m] # n
        BY <1>0, <1>1, <1>2, <1>3, <4>1 DEF Chains
      <4> QED
        BY <1>0, <1>3, <1>4, <3>2, <4>1, <4>2
    <3>3. CASE j = n
      <4>1. i # n /\ c[i] = c[m] /\ r[m] <= r[i]
        BY <1>0, <1>2, <1>3, <1>4, <2>3, <3>3
      <4>2. CASE i = m
        BY <1>0, <1>2, <1>3, <1>4, <3>0, <3>3, <4>1, <4>2
      <4>3. CASE i # m
        <5>1. nx[i] # NULL /\ r[m] <= r[nx[i]] /\ nx[i] \in S /\ nx[i] # n
          BY <1>0, <1>1, <1>2, <1>3, <4>1, <4>3 DEF Chains
        <5> QED
          BY <1>0, <1>2, <1>3, <1>4, <3>3, <4>1, <4>3, <5>1
      <4> QED
        BY <1>0, <4>2, <4>3
    <3> QED
      BY <1>0, <3>1, <3>2, <3>3
  <2> QED
    BY <1>0, <2>1, <2>2, <2>3 DEF Chains
<1>6. FreeAlone(S, key2, c2)
  BY <1>0, <1>1, <1>2, <1>4 DEF FreeAlone
<1>7. OnChain(S, key2, mp, c2, r2)
  <2> SUFFICES ASSUME NEW i \in S, key2[i] # Nil
               PROVE  LET o == mp[key2[i]]
                      IN o \in S /\ c2[o] = c2[i] /\ r2[i] <= r2[o] /\ key2[o] # Nil
                         /\ mp[key2[o]] = o
    BY <1>0 DEF OnChain
  <2>1. CASE i = n
    BY <1>0, <1>2, <1>3, <1>4, <2>1
  <2>2. CASE i # n
    <3>1. key2[i] = key[i]
      BY <1>0, <2>2
    <3> DEFINE o == mp[key[i]]
    <3>2. o \in S /\ c[o] = c[i] /\ r[i] <= r[o] /\ key[o] # Nil /\ mp[key[o]] = o
      BY <1>0, <1>1, <3>1 DEF OnChain
    <3> HIDE DEF o
    <3>3. o # n /\ key2[o] = key[o] /\ c2[o] = c2[i] /\ r2[i] <= r2[o]
      BY <1>0, <1>3, <1>4, <2>2, <3>2
    <3> QED
      BY <1>0, <3>1, <3>2, <3>3 DEF o
  <2> QED
    BY <1>0, <2>1, <2>2
<1>8. KeysOnce(S, key2, dead2, r2)
  <2> SUFFICES ASSUME NEW i \in S, NEW j \in S, i # j, key2[i] # Nil,
                      key2[i] = key2[j], ~dead2[i]
               PROVE  dead2[j] /\ r2[j] < r2[i]
    BY <1>0 DEF KeysOnce
  <2>1. CASE i = n
    <3>1. key[j] = k /\ dead[j] /\ dead2[j] /\ j # m
      BY <1>0, <1>2, <2>1
    <3>2. c[m] = c[j] /\ r[j] <= r[m]
      BY <1>0, <1>1, <1>2, <3>1 DEF OnChain
    <3>3. r[j] < r[m] /\ r[j] \in Nat /\ r[m] \in Nat
      BY <1>0, <1>1, <1>2, <3>1, <3>2, RanksDiffer
    <3> QED
      BY <1>0, <1>4, <2>1, <3>1, <3>3
  <2>2. CASE j = n
    BY <1>0, <1>2, <2>2
  <2>3. CASE i # n /\ j # n
    <3>1. dead[j] /\ r[j] < r[i]
      BY <1>0, <1>1, <2>3 DEF KeysOnce
    <3>2. dead2[j] = dead[j]
      BY <1>0, <2>3
    <3>3. r2[j] < r2[i]
      BY <1>0, <1>3, <1>4, <2>3, <3>1
    <3> QED
      BY <1>0, <3>1, <3>2, <3>3
  <2> QED
    BY <1>0, <2>1, <2>2, <2>3
<1> QED
  BY <1>0, <1>5, <1>6, <1>7, <1>8 DEF Linked

(* Chains whose nodes m and n have changed places                          *)
Swap(m, n, i) == IF i = m THEN n ELSE IF i = n THEN m ELSE i

Swapped(S, f, m, n) == [i \in S |-> f[Swap(m, n, i)]]

Renamed(S, nx, m, n, nx2) ==
  \A i \in S : nx2[i] = IF nx[Swap(m, n, i)] = NULL THEN NULL
                        ELSE Swap(m, n, nx[Swap(m, n, i)])

(* Renaming two nodes leaves chains.                                       *)
LEMMA ChainsSwapped ==
  ASSUME NEW S, NEW nx, NEW c, NEW r, Chains(S, nx, c, r), NULL \notin S,
         NEW m \in S, NEW n \in S, NEW nx2, Renamed(S, nx, m, n, nx2),
         NEW c2, c2 = Swapped(S, c, m, n), NEW r2, r2 = Swapped(S, r, m, n)
  PROVE  Chains(S, nx2, c2, r2)
<1>1. \A i \in S : /\ Swap(m, n, i) \in S /\ Swap(m, n, Swap(m, n, i)) = i
                   /\ c2[i] = c[Swap(m, n, i)] /\ r2[i] = r[Swap(m, n, i)]
  BY DEF Swap, Swapped
<1>2. \A i, j \in S : i # j => Swap(m, n, i) # Swap(m, n, j)
  BY DEF Swap
<1>3. c2 \in [S -> Nat] /\ r2 \in [S -> Nat]
  <2>1. c \in [S -> Nat] /\ r \in [S -> Nat]
    BY DEF Chains
  <2> QED
    BY <1>1, <2>1 DEF Swapped
<1>4. ASSUME NEW i \in S, nx2[i] # NULL
      PROVE  nx2[i] \in S /\ c2[nx2[i]] = c2[i] /\ r2[nx2[i]] < r2[i]
  <2> DEFINE a == Swap(m, n, i)
             e == nx[a]
  <2>1. a \in S /\ nx2[i] = (IF e = NULL THEN NULL ELSE Swap(m, n, e)) /\ e # NULL
    BY <1>1, <1>4 DEF Renamed
  <2>2. e \in S /\ c[e] = c[a] /\ r[e] < r[a]
    BY <2>1 DEF Chains
  <2> QED
    BY <1>1, <2>1, <2>2
<1>5. ASSUME NEW i \in S, NEW j \in S, i # j, c2[i] = c2[j], r2[j] <= r2[i]
      PROVE  nx2[i] # NULL /\ r2[j] <= r2[nx2[i]]
  <2> DEFINE a == Swap(m, n, i)
             b == Swap(m, n, j)
             e == nx[a]
  <2>1. a \in S /\ b \in S /\ a # b /\ c[a] = c[b] /\ r[b] <= r[a]
    BY <1>1, <1>2, <1>5
  <2>2. e # NULL /\ r[b] <= r[e] /\ e \in S
    BY <2>1 DEF Chains
  <2>3. nx2[i] = Swap(m, n, e)
    BY <2>2 DEF Renamed
  <2>4. Swap(m, n, e) \in S /\ r2[Swap(m, n, e)] = r[e] /\ r2[j] = r[b]
    BY <1>1, <2>2
  <2> QED
    BY <2>2, <2>3, <2>4
<1> QED
  BY <1>3, <1>4, <1>5 DEF Chains

(* A node that is not the first of its chain has one predecessor, on the   *)
(* chain of the first.                                                     *)
LEMMA Predecessor ==
  ASSUME NEW S, NEW nx, NEW c, NEW r, Chains(S, nx, c, r), NULL \notin S,
         NEW m \in S, NEW o \in S, o # m, c[o] = c[m], r[m] <= r[o]
  PROVE  /\ \E b \in S : nx[b] = m /\ c[b] = c[o] /\ r[b] <= r[o]
         /\ \A a, b \in S : nx[a] = m /\ nx[b] = m => a = b
<1>1. \A i \in S : r[i] \in Nat
  BY DEF Chains
<1> DEFINE U == {i \in S : c[i] = c[m] /\ r[m] < r[i]}
           R == {x \in Nat : \E i \in U : r[i] = x}
<1>2. o \in U
  BY RanksDiffer, <1>1
<1>3. PICK x \in R : \A y \in R : x <= y
  <2>1. R \in SUBSET Nat /\ R # {}
    BY <1>1, <1>2
  <2> HIDE DEF R
  <2> QED
    BY <2>1, LeastNatural
<1>4. PICK b \in U : r[b] = x
  OBVIOUS
<1>5. \A i \in U : r[b] <= r[i]
  BY <1>1, <1>3, <1>4
<1>6. b \in S /\ c[b] = c[m] /\ r[m] < r[b] /\ b # m
  BY <1>1
<1>7. nx[b] \in S /\ c[nx[b]] = c[m] /\ r[m] <= r[nx[b]] /\ r[nx[b]] < r[b]
  BY <1>1, <1>6 DEF Chains
<1>8. nx[b] = m
  <2> SUFFICES ASSUME nx[b] # m PROVE FALSE
    OBVIOUS
  <2>1. r[m] < r[nx[b]]
    BY <1>1, <1>7, RanksDiffer
  <2>2. r[b] <= r[nx[b]]
    BY <1>5, <1>7, <2>1
  <2> QED
    BY <1>1, <1>7, <2>2
<1>9. ASSUME NEW a1 \in S, NEW a2 \in S, nx[a1] = m, nx[a2] = m, a1 # a2 PROVE FALSE
  <2>1. c[a1] = c[m] /\ c[a2] = c[m] /\ r[m] < r[a1] /\ r[m] < r[a2]
    BY <1>9 DEF Chains
  <2>2. r[a1] < r[a2] \/ r[a2] < r[a1]
    BY <1>9, <2>1, RanksDiffer
  <2>3. r[a1] <= r[m] \/ r[a2] <= r[m]
    BY <1>1, <1>9, <2>1, <2>2 DEF Chains
  <2> QED
    BY <1>1, <2>1, <2>3
<1> QED
  BY <1>2, <1>5, <1>6, <1>8, <1>9

HeldMoved(S, key, dead, k, m, n, key2, dead2) ==
  /\ \A i \in S : key2[i] = IF i = m THEN k ELSE IF i = n THEN key[m] ELSE key[i]
  /\ \A i \in S : dead2[i] = IF i = m THEN FALSE ELSE IF i = n THEN dead[m] ELSE dead[i]

NextMoved(S, nx, m, n, b, nx2) ==
  \A i \in S : nx2[i] = IF i = b THEN n ELSE IF i = n THEN nx[m]
                        ELSE IF i = m THEN NULL ELSE nx[i]

(* The node at the main position is not in its own main position: it goes  *)
(* to the free node n, and the new key takes its place.                    *)
LEMMA LinkMoved ==
  ASSUME NEW S, NEW key, NEW dead, NEW nx, NEW mp, NEW c, NEW r, NEW k, NEW m,
         Linked(S, key, dead, nx, mp, c, r), MayHold(S, key, dead, mp, k, m),
         NULL \notin S, key[m] # Nil, mp[key[m]] # m,
         NEW n \in S, key[n] = Nil, nx[n] = NULL,
         NEW b \in S, nx[b] = m,
         NEW key2, NEW dead2, HeldMoved(S, key, dead, k, m, n, key2, dead2),
         NEW nx2, NextMoved(S, nx, m, n, b, nx2)
  PROVE  \E c2, r2 : Linked(S, key2, dead2, nx2, mp, c2, r2)
<1> DEFINE c2 == Swapped(S, c, m, n)
           r2 == Swapped(S, r, m, n)
<1>0. /\ \A i \in S : key2[i] = IF i = m THEN k ELSE IF i = n THEN key[m] ELSE key[i]
      /\ \A i \in S : dead2[i] = IF i = m THEN FALSE ELSE IF i = n THEN dead[m] ELSE dead[i]
      /\ \A i \in S : nx2[i] = IF i = b THEN n ELSE IF i = n THEN nx[m]
                               ELSE IF i = m THEN NULL ELSE nx[i]
  BY DEF HeldMoved, NextMoved
<1>1. /\ Chains(S, nx, c, r) /\ FreeAlone(S, key, c) /\ OnChain(S, key, mp, c, r)
      /\ KeysOnce(S, key, dead, r)
  BY <1>0 DEF Linked
<1>2. k # Nil /\ m \in S /\ m = mp[k] /\ n # m /\ \A i \in S : key[i] = k => dead[i]
  BY <1>0 DEF MayHold
<1> DEFINE o == mp[key[m]]
<1>3. o \in S /\ c[o] = c[m] /\ r[m] <= r[o] /\ key[o] # Nil /\ mp[key[o]] = o /\ o # m
      /\ o # n
  BY <1>0, <1>1, <1>2 DEF OnChain
<1>4. \A i \in S : nx[i] = m => i = b
  BY <1>0, <1>1, <1>2, <1>3, Predecessor
<1>5. /\ \A i \in S : r[i] \in Nat
      /\ \A i \in S : nx[i] # n /\ nx[i] # i
      /\ b # m /\ b # n
  <2>1. \A i \in S : r[i] \in Nat
    BY <1>0, <1>1 DEF Chains
  <2>2. ASSUME NEW i \in S PROVE nx[i] # n /\ nx[i] # i
    <3>1. nx[i] = n => c[n] = c[i] /\ r[n] < r[i]
      BY <1>0, <1>1 DEF Chains
    <3>2. nx[i] = i => r[i] < r[i]
      BY <1>0, <1>1 DEF Chains
    <3>3. i # n => c[n] # c[i]
      BY <1>0, <1>1 DEF FreeAlone
    <3> QED
      BY <1>0, <2>1, <3>1, <3>2, <3>3
  <2> QED
    BY <1>0, <1>2, <2>1, <2>2
<1>6. \A i \in S : /\ i # m /\ i # n => c2[i] = c[i] /\ r2[i] = r[i]
                   /\ i = m => c2[i] = c[n] /\ r2[i] = r[n]
                   /\ i = n => c2[i] = c[m] /\ r2[i] = r[m]
  BY <1>0, <1>2 DEF Swap, Swapped
<1>7. Chains(S, nx2, c2, r2)
  <2>1. ASSUME NEW i \in S
        PROVE  nx2[i] = IF nx[Swap(m, n, i)] = NULL THEN NULL
                        ELSE Swap(m, n, nx[Swap(m, n, i)])
    <3>1. CASE i = m
      BY <1>0, <1>2, <1>5, <3>1 DEF Swap
    <3>2. CASE i = n
      BY <1>0, <1>2, <1>5, <3>2 DEF Swap
    <3>3. CASE i = b
      BY <1>0, <1>2, <1>5, <3>3 DEF Swap
    <3>4. CASE i # m /\ i # n /\ i # b
      BY <1>0, <1>2, <1>4, <1>5, <3>4 DEF Swap
    <3> QED
      BY <1>0, <3>1, <3>2, <3>3, <3>4
  <2>2. Renamed(S, nx, m, n, nx2)
    BY <1>0, <2>1 DEF Renamed
  <2> QED
    BY <1>0, <1>1, <1>2, <2>2, ChainsSwapped
<1>8. FreeAlone(S, key2, c2)
  <2> SUFFICES ASSUME NEW i \in S, NEW j \in S, i # j, key2[i] = Nil PROVE c2[i] # c2[j]
    BY <1>0 DEF FreeAlone
  <2>1. i # m /\ i # n /\ key[i] = Nil /\ c2[i] = c[i]
    BY <1>0, <1>2, <1>6
  <2>2. \A x \in S : x # i => c[x] # c[i]
    BY <1>0, <1>1, <2>1 DEF FreeAlone
  <2> QED
    BY <1>0, <1>2, <1>6, <2>1, <2>2
<1>9. OnChain(S, key2, mp, c2, r2)
  <2> SUFFICES ASSUME NEW i \in S, key2[i] # Nil
               PROVE  LET x == mp[key2[i]]
                      IN x \in S /\ c2[x] = c2[i] /\ r2[i] <= r2[x] /\ key2[x] # Nil
                         /\ mp[key2[x]] = x
    BY <1>0 DEF OnChain
  <2>1. CASE i = m
    BY <1>0, <1>2, <1>5, <1>6, <2>1
  <2>2. CASE i = n
    <3>1. key2[i] = key[m] /\ c2[i] = c[m] /\ r2[i] = r[m]
      BY <1>0, <1>2, <1>6, <2>2
    <3>2. key2[o] = key[o] /\ c2[o] = c[o] /\ r2[o] = r[o]
      BY <1>0, <1>3, <1>6
    <3> QED
      BY <1>0, <1>3, <3>1, <3>2
  <2>3. CASE i # m /\ i # n
    <3>1. key2[i] = key[i] /\ c2[i] = c[i] /\ r2[i] = r[i]
      BY <1>0, <1>6, <2>3
    <3> DEFINE x == mp[key[i]]
    <3>2. x \in S /\ c[x] = c[i] /\ r[i] <= r[x] /\ key[x] # Nil /\ mp[key[x]] = x
      BY <1>0, <1>1, <3>1 DEF OnChain
    <3>3. x # m /\ x # n
      BY <1>0, <3>2
    <3>4. key2[x] = key[x] /\ c2[x] = c[x] /\ r2[x] = r[x]
      BY <1>0, <1>6, <3>2, <3>3
    <3> HIDE DEF x
    <3> QED
      BY <1>0, <3>1, <3>2, <3>4 DEF x
  <2> QED
    BY <1>0, <2>1, <2>2, <2>3
<1>10. \A i \in S : key[i] # k
  <2> SUFFICES ASSUME NEW i \in S, key[i] = k PROVE FALSE
    OBVIOUS
  <2>1. mp[key[m]] = m
    BY <1>0, <1>1, <1>2 DEF OnChain
  <2> QED
    BY <1>0, <2>1
<1>11. KeysOnce(S, key2, dead2, r2)
  <2> SUFFICES ASSUME NEW i \in S, NEW j \in S, i # j, key2[i] # Nil,
                      key2[i] = key2[j], ~dead2[i]
               PROVE  dead2[j] /\ r2[j] < r2[i]
    BY <1>0 DEF KeysOnce
  <2>1. i # m /\ j # m
    BY <1>0, <1>2, <1>10
  <2> DEFINE a == Swap(m, n, i)
             d == Swap(m, n, j)
  <2>2. a \in S /\ d \in S /\ a # d /\ key[a] = key2[i] /\ key[d] = key2[j]
    BY <1>0, <1>2, <2>1 DEF Swap
  <2>3. dead2[i] = dead[a] /\ dead2[j] = dead[d] /\ r2[i] = r[a] /\ r2[j] = r[d]
    BY <1>0, <1>2, <2>1 DEF Swap, Swapped
  <2> HIDE DEF a, d
  <2>4. dead[d] /\ r[d] < r[a]
    BY <1>0, <1>1, <2>2, <2>3 DEF KeysOnce
  <2> QED
    BY <1>0, <2>3, <2>4
<1> QED
  BY <1>0, <1>7, <1>8, <1>9, <1>11 DEF Linked

-----------------------------------------------------------------------------
(* newkey                                                                  *)

CanInsert(T, k) == k \in Key /\ ~InArray(T, k) /\ ~HeldLive(T, k) /\ ~Full(T, k)

(* Every key has a value.                                                  *)
Filled(T) == \A i \in NodeSet(T) : T.node[i].key # Nil => T.node[i].val # Nil

(* What an insertion leaves behind                                         *)
Inserted(T, k, v, T2) ==
  /\ TableOK(T2)
  /\ T2.array = T.array /\ T2.dummy = T.dummy /\ sizenode(T2) = sizenode(T)
  /\ \A q \in Key : luaH_get(T2, q) = IF q = k THEN v ELSE luaH_get(T, q)
  /\ Filled(T) /\ v # Nil => Filled(T2) /\ T2.ref = Taken(T.ref, k)

TableRecord(n) ==
  [array : Seq(Key \cup {Nil}), node : [0 .. n - 1 -> NodeRecord(n)],
   lastfree : Nat, dummy : BOOLEAN, ref : [Collectable -> Int], nested : {FALSE}]

(* T2 is T with k in the node at: the node e, which had no value, is gone, *)
(* and what was at the node at is now there.                               *)
Fits(T, k, v, T2, at, e) ==
  /\ at \in NodeSet(T) /\ e \in NodeSet(T) /\ T.node[e].val = Nil
  /\ T2 \in TableRecord(sizenode(T))
  /\ T2.array = T.array /\ T2.dummy = T.dummy
  /\ T2.ref = Replaced(Taken(T.ref, k), T.node[e])
  /\ T2.node[at].key = k /\ T2.node[at].val = v /\ ~T2.node[at].dead
  /\ \A i \in NodeSet(T) \ {at} :
       LET nd == T.node[Swap(at, e, i)]
       IN /\ T2.node[i].key = nd.key /\ T2.node[i].val = nd.val
          /\ T2.node[i].dead = nd.dead
  /\ \A i \in NodeSet(T) : T2.node[i].key = Nil => T2.node[i].next = NULL
  /\ FreeOK(T2) /\ LinksOK(T2)

(* luarc_addref: one key, if it is collectable, gains a reference.         *)
LEMMA TakenFacts ==
  ASSUME NEW ref \in [Collectable -> Nat], NEW k
  PROVE  /\ Taken(ref, k) \in [Collectable -> Nat]
         /\ \A q \in Collectable : Taken(ref, k)[q] = IF q = k THEN ref[q] + 1 ELSE ref[q]
BY DEF Taken

(* At most one node holds a key that is not dead.                          *)
LEMMA HeldOnce ==
  ASSUME NEW T, ShapeOK(T), LinksOK(T), NEW q \in Key,
         NEW i \in NodeSet(T), NEW j \in NodeSet(T),
         T.node[i].key = q, ~T.node[i].dead, T.node[j].key = q, ~T.node[j].dead
  PROVE  i = j
<1>1. i \in NodesOf(T, q) /\ j \in NodesOf(T, q)
  BY NodesOfFacts
<1> QED
  BY <1>1, NodesOfFacts

(* newkey keeps the shape of the nodes and the references.                 *)
LEMMA FitsShape ==
  ASSUME NEW T, TableOK(T), NEW k, CanInsert(T, k), NEW v \in {k, Nil}, NEW T2,
         NEW at, NEW e, Fits(T, k, v, T2, at, e)
  PROVE  ShapeOK(T2) /\ RefsOK(T2) /\ NodeSet(T2) = NodeSet(T) /\ sizenode(T2) = sizenode(T)
<1>1. /\ ShapeOK(T) /\ LinksOK(T) /\ RefsOK(T) /\ k \in Key /\ ~InArray(T, k)
      /\ ~HeldLive(T, k)
  BY DEF TableOK, CanInsert
<1> DEFINE n == sizenode(T)
<1>2. n \in Nat \ {0} /\ n \in Powers /\ NodeSet(T) = 0 .. n - 1
  BY <1>1, ShapeFacts DEF NodeSet
<1>3. T2 \in TableRecord(n)
  BY DEF Fits
<1>4. DOMAIN T2.node = 0 .. n - 1
  BY <1>3 DEF TableRecord
<1>5. sizenode(T2) = n /\ NodeSet(T2) = NodeSet(T)
  <2> HIDE DEF n
  <2> QED
    BY <1>2, <1>4, SizeIs
<1>6. \A i \in NodeSet(T) \ {at} : /\ Swap(at, e, i) \in NodeSet(T)
                                   /\ Swap(at, e, i) # e
  BY DEF Fits, Swap
<1>7. ASSUME NEW q \in Collectable
      PROVE  /\ T2.ref[q] = Taken(T.ref, k)[q] - (IF T.node[e].key = q /\ ~T.node[e].dead
                                                  THEN 1 ELSE 0)
             /\ Taken(T.ref, k)[q] = IF q = k THEN T.ref[q] + 1 ELSE T.ref[q]
             /\ T.ref[q] \in Nat
             /\ HeldLive(T, q) => T.ref[q] >= 1
             /\ T.node[e].key = q /\ ~T.node[e].dead => HeldLive(T, q) /\ q # k
             /\ q \in Key
  <2>1. T2.ref = Replaced(Taken(T.ref, k), T.node[e]) /\ e \in NodeSet(T)
    BY DEF Fits
  <2>2. T.ref \in [Collectable -> Nat]
    BY <1>1, ShapeFacts
  <2>3. Taken(T.ref, k)[q] = IF q = k THEN T.ref[q] + 1 ELSE T.ref[q]
    BY <2>2, TakenFacts
  <2>4. T2.ref[q] = Taken(T.ref, k)[q] - (IF T.node[e].key = q /\ ~T.node[e].dead
                                          THEN 1 ELSE 0)
    BY <2>1 DEF Replaced
  <2>5. T.node[e].key = q /\ ~T.node[e].dead => HeldLive(T, q)
    BY <2>1 DEF HeldLive
  <2>6. q \in Key
    BY DEF Collectable, Key
  <2> QED
    BY <1>1, <2>2, <2>3, <2>4, <2>5, <2>6 DEF RefsOK
<1>8. \A q \in Collectable : T2.ref[q] \in Nat
  BY <1>7
<1>9. T2.ref \in [Collectable -> Nat]
  BY <1>3, <1>8 DEF TableRecord
<1>10. ASSUME NEW i \in NodeSet(T) PROVE NodeOK(T2, T2.node[i])
  <2>1. \A q : InArray(T2, q) <=> InArray(T, q)
    BY DEF Fits, InArray
  <2>2. CASE i = at
    <3>1. /\ T2.node[i].key = k /\ T2.node[i].val = v /\ ~T2.node[i].dead /\ k # Nil
      BY <1>1, <2>2, IntegersApart DEF Fits
    <3> QED
      BY <1>1, <2>1, <3>1 DEF NodeOK
  <2>3. CASE i # at
    <3> DEFINE j == Swap(at, e, i)
    <3>1. j \in NodeSet(T)
      BY <1>6, <2>3
    <3>2. /\ T2.node[i].key = T.node[j].key /\ T2.node[i].val = T.node[j].val
          /\ T2.node[i].dead = T.node[j].dead
          /\ T2.node[i].key = Nil => T2.node[i].next = NULL
      BY <2>3 DEF Fits
    <3>3. NodeOK(T, T.node[j])
      BY <1>1, <3>1 DEF ShapeOK
    <3> HIDE DEF j
    <3> QED
      BY <2>1, <3>2, <3>3 DEF NodeOK
  <2> QED
    BY <2>2, <2>3
<1>11. ShapeOK(T2)
  <2>1. T2.array = T.array /\ FreeOK(T2) /\ ArrayOK(T.array)
    BY <1>1 DEF Fits, ShapeOK
  <2>2. T2 \in [array : Seq(Key \cup {Nil}), node : [NodeSet(T2) -> NodeRecord(sizenode(T2))],
                lastfree : Nat, dummy : BOOLEAN, ref : [Collectable -> Nat], nested : BOOLEAN]
        /\ ~T2.nested
    <3> HIDE DEF n
    <3> QED
      BY <1>2, <1>3, <1>5, <1>9 DEF TableRecord
  <2> QED
    BY <1>2, <1>5, <1>10, <2>1, <2>2 DEF ShapeOK
<1>12. RefsOK(T2)
  <2> SUFFICES ASSUME NEW q \in Collectable, HeldLive(T2, q) PROVE T2.ref[q] >= 1
    BY DEF RefsOK
  <2>1. PICK i \in NodeSet(T) : T2.node[i].key = q /\ ~T2.node[i].dead
    BY <1>5 DEF HeldLive
  <2>2. CASE i = at
    <3>1. q = k
      BY <2>1, <2>2 DEF Fits
    <3> QED
      BY <1>7, <3>1
  <2>3. CASE i # at
    <3> DEFINE j == Swap(at, e, i)
    <3>1. j \in NodeSet(T) /\ j # e
      BY <1>6, <2>3
    <3>2. T.node[j].key = q /\ ~T.node[j].dead
      BY <2>1, <2>3 DEF Fits
    <3>3. HeldLive(T, q)
      BY <3>1, <3>2 DEF HeldLive
    <3> HIDE DEF j
    <3>4. ~(T.node[e].key = q /\ ~T.node[e].dead)
      BY <1>1, <1>7, <3>1, <3>2, HeldOnce DEF Fits
    <3> QED
      BY <1>7, <3>3, <3>4
  <2> QED
    BY <2>2, <2>3
<1> QED
  BY <1>5, <1>11, <1>12

(* newkey adds its key, and every other key is found as before.            *)
LEMMA FitsInserted ==
  ASSUME NEW T, TableOK(T), NEW k, CanInsert(T, k), NEW v \in {k, Nil}, NEW T2,
         NEW at, NEW e, Fits(T, k, v, T2, at, e)
  PROVE  Inserted(T, k, v, T2)
<1>1. /\ ShapeOK(T) /\ LinksOK(T) /\ RefsOK(T) /\ k \in Key /\ ~InArray(T, k)
      /\ ~HeldLive(T, k)
  BY DEF TableOK, CanInsert
<1>2. ShapeOK(T2) /\ RefsOK(T2) /\ NodeSet(T2) = NodeSet(T) /\ sizenode(T2) = sizenode(T)
  BY FitsShape
<1>3. /\ LinksOK(T2) /\ T2.array = T.array /\ T2.dummy = T.dummy
      /\ at \in NodeSet(T) /\ e \in NodeSet(T) /\ T.node[e].val = Nil
      /\ T2.node[at].key = k /\ T2.node[at].val = v /\ ~T2.node[at].dead
      /\ T2.ref = Replaced(Taken(T.ref, k), T.node[e])
  BY DEF Fits
<1>4. ASSUME NEW i \in NodeSet(T), i # at
      PROVE  \E j \in NodeSet(T) :
               /\ j # e /\ T2.node[i].key = T.node[j].key /\ T2.node[i].val = T.node[j].val
               /\ T2.node[i].dead = T.node[j].dead
  <2>1. Swap(at, e, i) \in NodeSet(T) /\ Swap(at, e, i) # e
    BY <1>3, <1>4 DEF Swap
  <2> QED
    BY <1>4, <2>1 DEF Fits
<1>5. ASSUME NEW j \in NodeSet(T), j # e
      PROVE  \E i \in NodeSet(T) :
               /\ i # at /\ T2.node[i].key = T.node[j].key /\ T2.node[i].val = T.node[j].val
               /\ T2.node[i].dead = T.node[j].dead
  <2> DEFINE i == Swap(at, e, j)
  <2>1. i \in NodeSet(T) /\ i # at /\ Swap(at, e, i) = j
    BY <1>3, <1>5 DEF Swap
  <2> QED
    BY <2>1 DEF Fits
<1>6. ASSUME NEW q \in Key PROVE luaH_get(T2, q) = IF q = k THEN v ELSE luaH_get(T, q)
  <2>1. InArray(T2, q) <=> InArray(T, q)
    BY <1>3 DEF InArray
  <2>2. CASE InArray(T, q)
    BY <1>1, <1>3, <2>1, <2>2 DEF luaH_get
  <2>3. CASE ~InArray(T, q) /\ q = k
    BY <1>2, <1>3, <2>3, GetFacts
  <2>4. CASE ~InArray(T, q) /\ q # k /\ HeldLive(T, q)
    <3>1. PICK j \in NodeSet(T) : T.node[j].key = q /\ ~T.node[j].dead
      BY <2>4 DEF HeldLive
    <3>2. luaH_get(T, q) = T.node[j].val
      BY <1>1, <3>1, GetFacts
    <3>3. CASE j = e
      <4>1. ~HeldLive(T2, q)
        <5> SUFFICES ASSUME NEW i \in NodeSet(T), T2.node[i].key = q, ~T2.node[i].dead
                     PROVE  FALSE
          BY <1>2 DEF HeldLive
        <5>1. i # at
          BY <1>3, <2>4
        <5>2. PICK x \in NodeSet(T) : x # e /\ T.node[x].key = q /\ ~T.node[x].dead
          BY <1>4, <5>1
        <5> QED
          BY <1>1, <3>1, <3>3, <5>2, HeldOnce
      <4>2. luaH_get(T2, q) = Nil
        BY <1>2, <1>3, <2>1, <2>4, <4>1, GetFacts
      <4> QED
        BY <1>3, <2>4, <3>2, <3>3, <4>2
    <3>4. CASE j # e
      <4>1. PICK i \in NodeSet(T) : /\ T2.node[i].key = q /\ ~T2.node[i].dead
                                    /\ T2.node[i].val = T.node[j].val
        BY <1>5, <3>1, <3>4
      <4>2. luaH_get(T2, q) = T2.node[i].val
        BY <1>2, <1>3, <4>1, GetFacts
      <4> QED
        BY <2>4, <3>2, <4>1, <4>2
    <3> QED
      BY <3>3, <3>4
  <2>5. CASE ~InArray(T, q) /\ q # k /\ ~HeldLive(T, q)
    <3>1. ~HeldLive(T2, q)
      <4> SUFFICES ASSUME NEW i \in NodeSet(T), T2.node[i].key = q, ~T2.node[i].dead
                   PROVE  FALSE
        BY <1>2 DEF HeldLive
      <4>1. i # at
        BY <1>3, <2>5
      <4>2. PICK x \in NodeSet(T) : T.node[x].key = q /\ ~T.node[x].dead
        BY <1>4, <4>1
      <4> QED
        BY <2>5, <4>2 DEF HeldLive
    <3>2. luaH_get(T2, q) = Nil /\ luaH_get(T, q) = Nil
      BY <1>1, <1>2, <1>3, <2>1, <2>5, <3>1, GetFacts
    <3> QED
      BY <2>5, <3>2
  <2> QED
    BY <2>2, <2>3, <2>4, <2>5
<1>7. ASSUME Filled(T), v # Nil PROVE Filled(T2) /\ T2.ref = Taken(T.ref, k)
  <2>1. ASSUME NEW i \in NodeSet(T), T2.node[i].key # Nil PROVE T2.node[i].val # Nil
    <3>1. CASE i = at
      BY <1>3, <1>7, <3>1
    <3>2. CASE i # at
      BY <1>4, <1>7, <2>1, <3>2 DEF Filled
    <3> QED
      BY <3>1, <3>2
  <2>2. T.node[e].key = Nil
    BY <1>3, <1>7 DEF Filled
  <2> DEFINE f == Taken(T.ref, k)
  <2>3. f \in [Collectable -> Nat]
    BY <1>1, ShapeFacts, TakenFacts
  <2>4. \A q \in Collectable : T.node[e].key # q
    BY <2>2, TableAssumption DEF Collectable, Key
  <2> HIDE DEF f
  <2>5. Replaced(f, T.node[e]) = [q \in Collectable |-> f[q]]
    BY <2>3, <2>4 DEF Replaced
  <2>6. Replaced(f, T.node[e]) = f
    BY <2>3, <2>5
  <2> QED
    BY <1>2, <1>3, <2>1, <2>6 DEF Filled, f
<1> QED
  BY <1>2, <1>3, <1>6, <1>7 DEF Inserted, TableOK

(* getfreepos returns the last of the free nodes.                          *)
LEMMA FreePosFacts ==
  ASSUME NEW T, ShapeOK(T), NEW n, n = getfreepos(T), n # NULL
  PROVE  /\ ~T.dummy
         /\ n \in NodeSet(T) /\ n \in Nat /\ T.node[n].key = Nil /\ T.node[n].val = Nil
         /\ T.node[n].next = NULL /\ ~T.node[n].dead
         /\ \A i \in NodeSet(T) : n < i => T.node[i].key # Nil
<1> DEFINE free == {i \in 0 .. T.lastfree - 1 : T.node[i].key = Nil}
<1>1. T.lastfree \in 0 .. sizenode(T) /\ sizenode(T) \in Nat /\ NodeSet(T) = 0 .. sizenode(T) - 1
  BY ShapeFacts DEF ShapeOK, FreeOK, NodeSet
<1>2. n = Max(free) /\ free # {}
  BY DEF getfreepos
<1>3. free \in SUBSET Int /\ free \subseteq 0 .. sizenode(T)
  BY <1>1
<1>4. n \in free /\ \A i \in free : i <= n
  <2> DEFINE U == {x \in Nat : \E i \in free : x = sizenode(T) - i}
  <2>1. U \in SUBSET Nat /\ U # {}
    <3>1. PICK i \in free : TRUE
      BY <1>2
    <3>2. sizenode(T) - i \in Nat
      BY <1>1
    <3> QED
      BY <3>2
  <2>2. PICK u \in U : \A w \in U : u <= w
    <3> HIDE DEF U
    <3> QED
      BY <2>1, LeastNatural
  <2>3. PICK m \in free : u = sizenode(T) - m
    OBVIOUS
  <2>4. \A i \in free : i <= m
    <3> SUFFICES ASSUME NEW i \in free PROVE i <= m
      OBVIOUS
    <3>1. sizenode(T) - i \in U
      BY <1>1
    <3>2. u <= sizenode(T) - i
      <4> HIDE DEF U
      <4> QED
        BY <2>2, <3>1
    <3> QED
      BY <1>1, <2>3, <3>2
  <2> HIDE DEF free
  <2>5. Max(free) = m
    BY <1>3, <2>3, <2>4, MaxIs
  <2> QED
    BY <1>2, <2>3, <2>4, <2>5
<1>5. n \in NodeSet(T) /\ n \in Nat /\ T.node[n].key = Nil /\ n < T.lastfree
  BY <1>1, <1>4
<1>6. ~T.dummy
  BY <1>1, <1>5 DEF ShapeOK, FreeOK
<1>7. T.node[n].val = Nil /\ T.node[n].next = NULL /\ ~T.node[n].dead
  BY <1>5 DEF ShapeOK, NodeOK
<1>8. ASSUME NEW i \in NodeSet(T), n < i PROVE T.node[i].key # Nil
  <2>1. CASE i \in T.lastfree .. sizenode(T) - 1
    BY <1>6, <2>1 DEF ShapeOK, FreeOK
  <2>2. CASE i \in 0 .. T.lastfree - 1
    <3>1. ~(i <= n)
      BY <1>1, <1>5, <1>8
    <3> QED
      BY <1>4, <2>2, <3>1
  <2> QED
    BY <1>1, <2>1, <2>2
<1> QED
  BY <1>5, <1>6, <1>7, <1>8

(* What CanInsert says of the node at the main position                    *)
LEMMA MainNode ==
  ASSUME NEW T, TableOK(T), NEW k, CanInsert(T, k), NEW m, m = mainposition(T, k)
  PROVE  /\ m \in NodeSet(T)
         /\ MayHold(NodeSet(T), Keys(T), Deads(T), Mains(T), k, m)
         /\ T.node[m].val # Nil \/ T.dummy => getfreepos(T) # NULL
         /\ ~(T.node[m].val = Nil /\ ~T.dummy) =>
              /\ T.node[m].val # Nil /\ T.node[m].key # Nil /\ T.node[m].key # k
              /\ T.node[m].key \in Key /\ ~T.node[m].dead
<1>1. ShapeOK(T) /\ k \in Key /\ ~HeldLive(T, k) /\ ~Full(T, k)
  BY DEF TableOK, CanInsert
<1>2. m \in NodeSet(T) /\ Mains(T)[k] = m
  BY <1>1, ShapeFacts
<1>3. k # Nil
  BY <1>1, IntegersApart
<1>4. \A i \in NodeSet(T) : Keys(T)[i] = k => Deads(T)[i]
  BY <1>1, ShapeFacts DEF HeldLive
<1>5. T.node[m].val # Nil \/ T.dummy => getfreepos(T) # NULL
  BY <1>1 DEF Full
<1>6. ASSUME ~(T.node[m].val = Nil /\ ~T.dummy)
      PROVE  /\ T.node[m].val # Nil /\ T.node[m].key # Nil /\ T.node[m].key # k
             /\ T.node[m].key \in Key /\ ~T.node[m].dead
  <2>1. getfreepos(T) # NULL
    BY <1>5, <1>6
  <2>2. ~T.dummy
    BY <1>1, <2>1, FreePosFacts
  <2>3. T.node[m].val # Nil /\ NodeOK(T, T.node[m])
    BY <1>1, <1>2, <1>6, <2>2 DEF ShapeOK
  <2>4. ~T.node[m].dead /\ T.node[m].key # Nil
    BY <2>3 DEF NodeOK
  <2>5. T.node[m].key # k
    BY <1>1, <1>2, <2>4 DEF HeldLive
  <2> QED
    BY <1>1, <1>2, <2>3, <2>4, <2>5, ShapeFacts
<1> QED
  BY <1>2, <1>3, <1>4, <1>5, <1>6 DEF MayHold

(* A table with other nodes                                                *)
WithNodes(T, lf, nds, rf) == [T EXCEPT !.lastfree = lf, !.node = nds, !.ref = rf]

(* A table with other nodes is a table.                                    *)
LEMMA Rebuilt ==
  ASSUME NEW n, NEW T \in TableRecord(n), NEW nds \in [0 .. n - 1 -> NodeRecord(n)],
         NEW lf \in Nat, NEW rf \in [Collectable -> Int],
         NEW T2, T2 = WithNodes(T, lf, nds, rf)
  PROVE  /\ T2 \in TableRecord(n)
         /\ T2.array = T.array /\ T2.dummy = T.dummy /\ T2.node = nds
         /\ T2.lastfree = lf /\ T2.ref = rf
BY DEF TableRecord, WithNodes

(* A table in order is a record of its type.                               *)
LEMMA RecordFacts ==
  ASSUME NEW T, ShapeOK(T)
  PROVE  /\ T \in TableRecord(sizenode(T)) /\ NodeSet(T) = 0 .. sizenode(T) - 1
         /\ T.node \in [NodeSet(T) -> NodeRecord(sizenode(T))] /\ DOMAIN T.node = NodeSet(T)
         /\ T.lastfree \in Nat
         /\ \A q, nd : Replaced(Taken(T.ref, q), nd) \in [Collectable -> Int]
<1>1. T.ref \in [Collectable -> Nat] /\ T.node \in [NodeSet(T) -> NodeRecord(sizenode(T))]
  BY ShapeFacts
<1>2. T \in TableRecord(sizenode(T))
  <2>1. T.ref \in [Collectable -> Int]
    BY <1>1
  <2>2. T.nested \in BOOLEAN /\ ~T.nested
    BY DEF ShapeOK
  <2>3. T.nested \in {FALSE}
    BY <2>2
  <2> QED
    BY <2>1, <2>3 DEF ShapeOK, TableRecord, NodeSet
<1>3. ASSUME NEW q, NEW nd PROVE Replaced(Taken(T.ref, q), nd) \in [Collectable -> Int]
  <2> DEFINE f == Taken(T.ref, q)
  <2>1. f \in [Collectable -> Nat]
    BY <1>1, TakenFacts
  <2> HIDE DEF f
  <2>2. \A x \in Collectable : f[x] - (IF nd.key = x /\ ~nd.dead THEN 1 ELSE 0) \in Int
    BY <2>1
  <2> QED
    BY <2>2 DEF f, Replaced
<1>4. T.lastfree \in Nat
  BY DEF ShapeOK
<1> QED
  BY <1>1, <1>2, <1>3, <1>4 DEF NodeSet

(* The node with its new key and value                                     *)
Renewed(nd, k, v) == [nd EXCEPT !.key = k, !.dead = FALSE, !.val = v]

(* The node that receives a key                                            *)
LEMMA RenewedFacts ==
  ASSUME NEW n, NEW nd \in NodeRecord(n), NEW k \in Key, NEW v \in {k, Nil}
  PROVE  /\ Renewed(nd, k, v) \in NodeRecord(n)
         /\ Renewed(nd, k, v).key = k /\ Renewed(nd, k, v).val = v
         /\ ~Renewed(nd, k, v).dead /\ Renewed(nd, k, v).next = nd.next
BY DEF Renewed, NodeRecord

(* Insertion into the node at the main position                            *)
LEMMA InsertReused ==
  ASSUME NEW T, TableOK(T), NEW k, CanInsert(T, k), NEW v \in {k, Nil},
         NEW m, m = mainposition(T, k), T.node[m].val = Nil, ~T.dummy,
         NEW T2, T2 = Insert(T, k, v)
  PROVE  Fits(T, k, v, T2, m, m)
<1>1. ShapeOK(T) /\ LinksOK(T) /\ k \in Key /\ ~Full(T, k) /\ k # Nil
  BY IntegersApart DEF TableOK, CanInsert
<1>2. m \in NodeSet(T) /\ MayHold(NodeSet(T), Keys(T), Deads(T), Mains(T), k, m)
  BY MainNode
<1> DEFINE n == sizenode(T)
           nds == [T.node EXCEPT ![m] = Renewed(@, k, v)]
           rf == Replaced(Taken(T.ref, k), T.node[m])
<1>3. /\ T \in TableRecord(n) /\ NodeSet(T) = 0 .. n - 1 /\ DOMAIN T.node = NodeSet(T)
      /\ T.node \in [NodeSet(T) -> NodeRecord(n)] /\ rf \in [Collectable -> Int]
      /\ T.lastfree \in Nat
  BY <1>1, RecordFacts
<1>4. Placed(T, k) = [tab |-> T, at |-> m]
  BY DEF Placed
<1>5. T2 = [T EXCEPT !.node[m] = [@ EXCEPT !.key = k, !.dead = FALSE, !.val = v],
                     !.ref = Replaced(Taken(@, k), T.node[m])]
  BY <1>1, <1>4 DEF Insert
<1>6. T2 = WithNodes(T, T.lastfree, nds, rf)
  BY <1>3, <1>5 DEF TableRecord, Renewed, WithNodes
<1>7. Renewed(T.node[m], k, v) \in NodeRecord(n)
  BY <1>1, <1>2, <1>3, RenewedFacts
<1>8. nds \in [0 .. n - 1 -> NodeRecord(n)]
  BY <1>3, <1>7
<1> HIDE DEF nds, rf, n
<1>9. /\ T2 \in TableRecord(n) /\ T2.array = T.array /\ T2.dummy = T.dummy
      /\ T2.node = nds /\ T2.lastfree = T.lastfree /\ T2.ref = rf
  BY <1>3, <1>6, <1>8, Rebuilt
<1>10. ASSUME NEW i \in NodeSet(T)
       PROVE  /\ i # m => T2.node[i] = T.node[i]
              /\ i = m => /\ T2.node[i].key = k /\ T2.node[i].val = v /\ ~T2.node[i].dead
                          /\ T2.node[i].next = T.node[i].next
              /\ T2.node[i] \in NodeRecord(n)
  <2>1. T2.node[i] = IF i = m THEN Renewed(T.node[m], k, v) ELSE T.node[i]
    BY <1>3, <1>9 DEF nds
  <2>2. T.node[m] \in NodeRecord(n)
    BY <1>2, <1>3
  <2>3. i = m => /\ T2.node[i].key = k /\ T2.node[i].val = v /\ ~T2.node[i].dead
                 /\ T2.node[i].next = T.node[i].next
    BY <1>1, <2>1, <2>2, RenewedFacts
  <2>4. T2.node[i] \in NodeRecord(n)
    BY <1>3, <1>7, <2>1
  <2> QED
    BY <2>1, <2>3, <2>4
<1>11. n \in Nat \ {0}
  BY <1>1, ShapeFacts DEF n
<1>12. sizenode(T2) = n /\ NodeSet(T2) = NodeSet(T)
  <2>1. DOMAIN T2.node = 0 .. n - 1
    BY <1>8, <1>9
  <2> QED
    BY <1>3, <1>11, <2>1, SizeIs
<1>13. Mains(T2) = Mains(T)
  BY <1>12, SameMains DEF n
<1>14. /\ Held(NodeSet(T), Keys(T), Deads(T), k, m, Keys(T2), Deads(T2))
       /\ Nexts(T2) = Nexts(T)
  <2>1. \A i \in NodeSet(T) : Keys(T2)[i] = IF i = m THEN k ELSE Keys(T)[i]
    BY <1>10, <1>12 DEF Keys
  <2>2. \A i \in NodeSet(T) : T2.node[i].dead = IF i = m THEN FALSE ELSE T.node[i].dead
    <3>1. T2.node[m].dead \in BOOLEAN
      BY <1>2, <1>10 DEF NodeRecord
    <3>2. T2.node[m].dead = FALSE
      BY <1>2, <1>10, <3>1
    <3> QED
      BY <1>10, <3>2
  <2>3. \A i \in NodeSet(T) : Deads(T2)[i] = IF i = m THEN FALSE ELSE Deads(T)[i]
    BY <1>12, <2>2 DEF Deads
  <2>4. \A i \in NodeSet(T) : T2.node[i].next = T.node[i].next
    BY <1>10
  <2>5. Nexts(T2) = Nexts(T)
    BY <1>12, <2>4 DEF Nexts
  <2> QED
    BY <2>1, <2>3, <2>5 DEF Held
<1>15. LinksOK(T2)
  <2>1. PICK c, r : Linked(NodeSet(T), Keys(T), Deads(T), Nexts(T), Mains(T), c, r)
    BY <1>1 DEF LinksOK
  <2>2. Linked(NodeSet(T), Keys(T2), Deads(T2), Nexts(T), Mains(T), c, r)
    BY <1>2, <1>14, <2>1, LinkReused
  <2> QED
    BY <1>12, <1>13, <1>14, <2>2 DEF LinksOK
<1>16. FreeOK(T2)
  <2>1. FreeOK(T)
    BY <1>1 DEF ShapeOK
  <2>2. \A i \in NodeSet(T) : T.node[i].key # Nil => T2.node[i].key # Nil
    BY <1>1, <1>10
  <2>3. T.lastfree \in 0 .. n /\ \A i \in T.lastfree .. n - 1 : T.node[i].key # Nil
    BY <2>1 DEF FreeOK, n
  <2>4. \A i \in T.lastfree .. n - 1 : T2.node[i].key # Nil
    BY <1>3, <1>11, <2>2, <2>3
  <2> QED
    BY <1>9, <1>12, <2>1, <2>3, <2>4 DEF FreeOK
<1>17. ASSUME NEW i \in NodeSet(T), T2.node[i].key = Nil PROVE T2.node[i].next = NULL
  <2>1. i # m
    BY <1>1, <1>10, <1>17
  <2>2. T2.node[i] = T.node[i] /\ NodeOK(T, T.node[i])
    BY <1>1, <1>10, <2>1 DEF ShapeOK
  <2> QED
    BY <1>17, <2>2 DEF NodeOK
<1>18. ASSUME NEW i \in NodeSet(T) \ {m}
       PROVE  LET nd == T.node[Swap(m, m, i)]
              IN /\ T2.node[i].key = nd.key /\ T2.node[i].val = nd.val
                 /\ T2.node[i].dead = nd.dead
  BY <1>10, <1>18 DEF Swap
<1>19. T2.node[m].key = k /\ T2.node[m].val = v /\ ~T2.node[m].dead
  BY <1>2, <1>10
<1> QED
  BY <1>2, <1>9, <1>15, <1>16, <1>17, <1>18, <1>19 DEF Fits, rf, n

(* A table with nodes of the same number                                   *)
LEMMA BuiltFacts ==
  ASSUME NEW T, ShapeOK(T), NEW nds, nds \in [NodeSet(T) -> NodeRecord(sizenode(T))],
         NEW lf \in Nat, NEW rf \in [Collectable -> Int],
         NEW T2, T2 = WithNodes(T, lf, nds, rf)
  PROVE  /\ T2 \in TableRecord(sizenode(T))
         /\ T2.array = T.array /\ T2.dummy = T.dummy /\ T2.node = nds
         /\ T2.lastfree = lf /\ T2.ref = rf
         /\ sizenode(T2) = sizenode(T) /\ NodeSet(T2) = NodeSet(T) /\ Mains(T2) = Mains(T)
         /\ \A i \in NodeSet(T) : /\ Keys(T2)[i] = nds[i].key /\ Deads(T2)[i] = nds[i].dead
                                  /\ Nexts(T2)[i] = nds[i].next
<1> DEFINE n == sizenode(T)
<1>1. T \in TableRecord(n) /\ NodeSet(T) = 0 .. n - 1
  BY RecordFacts
<1>2. n \in Nat \ {0}
  BY ShapeFacts
<1>3. nds \in [0 .. n - 1 -> NodeRecord(n)]
  BY <1>1
<1> HIDE DEF n
<1>4. /\ T2 \in TableRecord(n)
      /\ T2.array = T.array /\ T2.dummy = T.dummy /\ T2.node = nds
      /\ T2.lastfree = lf /\ T2.ref = rf
  BY <1>1, <1>3, Rebuilt
<1>5. DOMAIN T2.node = 0 .. n - 1
  BY <1>3, <1>4
<1>6. sizenode(T2) = n /\ NodeSet(T2) = NodeSet(T)
  BY <1>1, <1>2, <1>5, SizeIs
<1>7. Mains(T2) = Mains(T)
  BY <1>6, SameMains DEF n
<1>8. ASSUME NEW i \in NodeSet(T)
      PROVE  /\ Keys(T2)[i] = nds[i].key /\ Deads(T2)[i] = nds[i].dead
             /\ Nexts(T2)[i] = nds[i].next
  BY <1>4, <1>6 DEF Keys, Deads, Nexts
<1> QED
  BY <1>4, <1>6, <1>7, <1>8 DEF n

(* The free node that getfreepos found is used.                            *)
LEMMA FreeAfter ==
  ASSUME NEW T, ShapeOK(T), ~T.dummy, NEW n \in NodeSet(T),
         NEW T2, T2.dummy = T.dummy, T2.lastfree = n, sizenode(T2) = sizenode(T),
         \A i \in NodeSet(T) : n <= i => T2.node[i].key # Nil
  PROVE  FreeOK(T2)
<1>1. sizenode(T) \in Nat /\ n \in 0 .. sizenode(T)
  BY ShapeFacts DEF NodeSet
<1>2. \A i \in n .. sizenode(T) - 1 : T2.node[i].key # Nil
  BY <1>1 DEF NodeSet
<1>3. T2.dummy \in BOOLEAN
  BY DEF ShapeOK
<1> QED
  BY <1>1, <1>2, <1>3 DEF FreeOK

PlacedAs(T, k, at, lf, nds) ==
  /\ Placed(T, k) = [tab |-> WithNodes(T, lf, nds, T.ref), at |-> at]
  /\ nds \in [NodeSet(T) -> NodeRecord(sizenode(T))] /\ at \in NodeSet(T)

(* Insert once the key has its place                                       *)
LEMMA InsertOf ==
  ASSUME NEW T, NEW k, NEW v, ~Full(T, k), ShapeOK(T),
         NEW at, NEW lf, NEW nds, PlacedAs(T, k, at, lf, nds)
  PROVE  Insert(T, k, v) =
           WithNodes(T, lf, [nds EXCEPT ![at] = Renewed(@, k, v)],
                     Replaced(Taken(T.ref, k), nds[at]))
<1> DEFINE N == sizenode(T)
           tb == WithNodes(T, lf, nds, T.ref)
<1>0. /\ T \in TableRecord(N) /\ at \in 0 .. N - 1 /\ nds \in [0 .. N - 1 -> NodeRecord(N)]
      /\ Placed(T, k) = [tab |-> tb, at |-> at]
  BY RecordFacts DEF PlacedAs
<1>1. Insert(T, k, v) = [tb EXCEPT !.node[at] = Renewed(@, k, v),
                                   !.ref = Replaced(Taken(@, k), tb.node[at])]
  <2> HIDE DEF tb
  <2> QED
    BY <1>0 DEF Insert, Renewed
<1>2. tb.node = nds /\ tb.ref = T.ref
  BY <1>0 DEF WithNodes, TableRecord
<1> DEFINE rf == Replaced(Taken(T.ref, k), nds[at])
           nds2 == [nds EXCEPT ![at] = Renewed(@, k, v)]
<1>3. Insert(T, k, v) = [tb EXCEPT !.node = nds2, !.ref = rf]
  <2>1. [tb EXCEPT !.node[at] = Renewed(@, k, v)].node = nds2
    BY <1>0, <1>2 DEF WithNodes, TableRecord
  <2> HIDE DEF rf
  <2> QED
    BY <1>0, <1>1, <1>2, <2>1 DEF WithNodes, TableRecord, rf
<1> HIDE DEF rf, nds2
<1>4. [tb EXCEPT !.node = nds2, !.ref = rf] = WithNodes(T, lf, nds2, rf)
  BY <1>0 DEF WithNodes, TableRecord
<1> QED
  BY <1>3, <1>4 DEF rf, nds2

(* Insertion into a free node, behind the node at the main position        *)
LEMMA InsertBehind ==
  ASSUME NEW T, TableOK(T), NEW k, CanInsert(T, k), NEW v \in {k, Nil},
         NEW m, m = mainposition(T, k), ~(T.node[m].val = Nil /\ ~T.dummy),
         mainposition(T, T.node[m].key) = m,
         NEW n, n = getfreepos(T), NEW T2, T2 = Insert(T, k, v)
  PROVE  Fits(T, k, v, T2, n, n)
<1>1. ShapeOK(T) /\ LinksOK(T) /\ k \in Key /\ ~Full(T, k) /\ k # Nil
  BY IntegersApart DEF TableOK, CanInsert
<1>2. /\ m \in NodeSet(T) /\ MayHold(NodeSet(T), Keys(T), Deads(T), Mains(T), k, m)
      /\ T.node[m].val # Nil /\ T.node[m].key # Nil /\ T.node[m].key # k
      /\ T.node[m].key \in Key /\ n # NULL
  <2>1. /\ m \in NodeSet(T) /\ MayHold(NodeSet(T), Keys(T), Deads(T), Mains(T), k, m)
        /\ T.node[m].val # Nil /\ T.node[m].key # Nil /\ T.node[m].key # k
        /\ T.node[m].key \in Key
    BY MainNode
  <2>2. n # NULL
    BY <2>1, MainNode
  <2> QED
    BY <2>1, <2>2
<1>3. /\ ~T.dummy /\ n \in NodeSet(T) /\ n \in Nat /\ T.node[n].key = Nil
      /\ T.node[n].val = Nil /\ ~T.node[n].dead
      /\ \A i \in NodeSet(T) : n < i => T.node[i].key # Nil
  BY <1>1, <1>2, FreePosFacts
<1>4. n # m
  BY <1>2, <1>3
<1> DEFINE N == sizenode(T)
           nd0 == [T.node[n] EXCEPT !.next = T.node[m].next]
           nd1 == [T.node[m] EXCEPT !.next = n]
           nds == [T.node EXCEPT ![n] = nd0, ![m] = nd1]
           tb == [T EXCEPT !.lastfree = n, !.node[n].next = T.node[m].next,
                           !.node[m].next = n]
<1>5. /\ T \in TableRecord(N) /\ DOMAIN T.node = NodeSet(T)
      /\ T.node \in [NodeSet(T) -> NodeRecord(N)] /\ NodeSet(T) = 0 .. N - 1
  BY <1>1, RecordFacts
<1>6. nd0 \in NodeRecord(N) /\ nd0.key = Nil /\ nd0.dead = T.node[n].dead
      /\ nd0.next = T.node[m].next
  <2>1. T.node[n] \in NodeRecord(N) /\ T.node[m].next \in (0 .. N - 1) \cup {NULL}
    BY <1>2, <1>3, <1>5 DEF NodeRecord
  <2> QED
    BY <1>3, <2>1 DEF NodeRecord
<1>7. nd1 \in NodeRecord(N) /\ nd1.next = n /\ nd1.key = T.node[m].key
      /\ nd1.val = T.node[m].val /\ nd1.dead = T.node[m].dead
  <2>1. T.node[m] \in NodeRecord(N)
    BY <1>2, <1>5
  <2> QED
    BY <1>3, <1>5, <2>1 DEF NodeRecord
<1>8. tb = WithNodes(T, n, nds, T.ref)
  BY <1>2, <1>3, <1>4, <1>5 DEF WithNodes, TableRecord
<1>9. Placed(T, k) = [tab |-> tb, at |-> n]
  <2>1. ~(T.node[m].val = Nil /\ ~T.dummy) /\ ~(mainposition(T, T.node[m].key) # m)
    OBVIOUS
  <2> QED
    BY <2>1 DEF Placed
<1> HIDE DEF nd0, nd1, tb
<1>10. nds \in [NodeSet(T) -> NodeRecord(N)] /\ nds[n] = nd0
  BY <1>2, <1>3, <1>4, <1>5, <1>6, <1>7
<1> DEFINE nds2 == [nds EXCEPT ![n] = Renewed(@, k, v)]
           rf == Replaced(Taken(T.ref, k), T.node[n])
<1>11. T2 = WithNodes(T, n, nds2, rf)
  <2>1. Replaced(Taken(T.ref, k), nd0) = rf
    <3> DEFINE f == Taken(T.ref, k)
    <3> HIDE DEF f
    <3>1. Replaced(f, nd0) = Replaced(f, T.node[n])
      BY <1>3, <1>6 DEF Replaced
    <3> QED
      BY <3>1 DEF f
  <2>2. PlacedAs(T, k, n, n, nds)
    BY <1>3, <1>8, <1>9, <1>10 DEF PlacedAs
  <2> HIDE DEF nds
  <2>3. T2 = WithNodes(T, n, nds2, Replaced(Taken(T.ref, k), nds[n]))
    BY <1>1, <2>2, InsertOf
  <2> QED
    BY <1>10, <2>1, <2>3
<1>12. /\ Renewed(nd0, k, v) \in NodeRecord(N)
       /\ Renewed(nd0, k, v).key = k /\ Renewed(nd0, k, v).val = v
       /\ ~Renewed(nd0, k, v).dead /\ Renewed(nd0, k, v).next = nd0.next
  BY <1>1, <1>6, RenewedFacts
<1>13. nds2 \in [NodeSet(T) -> NodeRecord(N)] /\ rf \in [Collectable -> Int]
  <2>1. rf \in [Collectable -> Int]
    BY <1>1, RecordFacts
  <2> HIDE DEF nds
  <2> QED
    BY <1>10, <1>12, <2>1
<1>14. ASSUME NEW i \in NodeSet(T)
       PROVE  nds2[i] = IF i = n THEN Renewed(nd0, k, v) ELSE IF i = m THEN nd1 ELSE T.node[i]
  BY <1>2, <1>3, <1>4, <1>5
<1> HIDE DEF nds2, rf, N, nds
<1>15. /\ T2 \in TableRecord(N)
       /\ T2.array = T.array /\ T2.dummy = T.dummy /\ T2.node = nds2
       /\ T2.lastfree = n /\ T2.ref = rf
       /\ sizenode(T2) = N /\ NodeSet(T2) = NodeSet(T) /\ Mains(T2) = Mains(T)
       /\ \A i \in NodeSet(T) : /\ Keys(T2)[i] = nds2[i].key /\ Deads(T2)[i] = nds2[i].dead
                                /\ Nexts(T2)[i] = nds2[i].next
  BY <1>1, <1>3, <1>11, <1>13, BuiltFacts DEF N
<1>16. ASSUME NEW i \in NodeSet(T)
       PROVE  /\ nds2[i].key = IF i = n THEN k ELSE T.node[i].key
              /\ nds2[i].next = IF i = n THEN T.node[m].next ELSE IF i = m THEN n
                                ELSE T.node[i].next
              /\ i # n => nds2[i].val = T.node[i].val /\ nds2[i].dead = T.node[i].dead
              /\ i = n => nds2[i].val = v /\ nds2[i].dead = FALSE
  <2>1. Renewed(nd0, k, v).dead = FALSE
    BY <1>12 DEF NodeRecord
  <2> QED
    BY <1>4, <1>6, <1>7, <1>12, <1>14, <2>1
<1>17. Held(NodeSet(T), Keys(T), Deads(T), k, n, Keys(T2), Deads(T2))
  <2>1. ASSUME NEW i \in NodeSet(T)
        PROVE  /\ Keys(T2)[i] = IF i = n THEN k ELSE Keys(T)[i]
               /\ Deads(T2)[i] = IF i = n THEN FALSE ELSE Deads(T)[i]
    <3>1. Keys(T)[i] = T.node[i].key /\ Deads(T)[i] = T.node[i].dead
      BY <1>1, ShapeFacts
    <3>2. Keys(T2)[i] = nds2[i].key /\ Deads(T2)[i] = nds2[i].dead
      BY <1>15
    <3> QED
      BY <1>16, <3>1, <3>2
  <2> QED
    BY <2>1 DEF Held
<1>18. NextBehind(NodeSet(T), Nexts(T), m, n, Nexts(T2))
  <2> SUFFICES ASSUME NEW i \in NodeSet(T)
               PROVE  nds2[i].next = IF i = n THEN Nexts(T)[m] ELSE IF i = m THEN n
                                     ELSE Nexts(T)[i]
    BY <1>15 DEF NextBehind
  <2>1. Nexts(T)[i] = T.node[i].next /\ Nexts(T)[m] = T.node[m].next
    BY <1>1, <1>2, ShapeFacts
  <2>2. CASE i = n
    <3>1. nds2[i].next = T.node[m].next
      BY <1>16, <2>2
    <3> QED
      BY <2>1, <2>2, <3>1
  <2>3. CASE i # n /\ i = m
    <3>1. nds2[i].next = n
      BY <1>16, <2>3
    <3> QED
      BY <2>3, <3>1
  <2>4. CASE i # n /\ i # m
    <3>1. nds2[i].next = T.node[i].next
      BY <1>16, <2>4
    <3> QED
      BY <2>1, <2>4, <3>1
  <2> QED
    BY <2>2, <2>3, <2>4
<1>19. LinksOK(T2)
  <2>1. PICK c, r : Linked(NodeSet(T), Keys(T), Deads(T), Nexts(T), Mains(T), c, r)
    BY <1>1 DEF LinksOK
  <2>2. /\ NULL \notin NodeSet(T) /\ Keys(T)[m] # Nil /\ Keys(T)[m] # k
        /\ Mains(T)[Keys(T)[m]] = m /\ Keys(T)[n] = Nil
    <3>1. /\ NULL \notin NodeSet(T) /\ Keys(T)[m] = T.node[m].key
          /\ Keys(T)[n] = T.node[n].key
      BY <1>1, <1>2, <1>3, ShapeFacts
    <3>2. Mains(T)[T.node[m].key] = m
      BY <1>1, <1>2, ShapeFacts
    <3> QED
      BY <1>2, <1>3, <3>1, <3>2
  <2>3. \E c2, r2 : Linked(NodeSet(T), Keys(T2), Deads(T2), Nexts(T2), Mains(T), c2, r2)
    BY <1>2, <1>3, <1>17, <1>18, <2>1, <2>2, LinkBehind
  <2> QED
    BY <1>15, <2>3 DEF LinksOK
<1>20. FreeOK(T2)
  <2>1. \A i \in NodeSet(T) : n <= i => T2.node[i].key # Nil
    <3> SUFFICES ASSUME NEW i \in NodeSet(T), n <= i PROVE nds2[i].key # Nil
      BY <1>15
    <3>1. i = n \/ n < i
      BY <1>3, <1>5 DEF N
    <3> QED
      BY <1>1, <1>3, <1>16, <3>1
  <2> QED
    BY <1>1, <1>3, <1>15, <2>1, FreeAfter DEF N
<1>21. ASSUME NEW i \in NodeSet(T), T2.node[i].key = Nil PROVE T2.node[i].next = NULL
  <2>1. i # n /\ T.node[i].key = Nil
    BY <1>1, <1>15, <1>16, <1>21
  <2>2. i # m /\ T.node[i].next = NULL
    BY <1>1, <1>2, <2>1 DEF ShapeOK, NodeOK
  <2>3. nds2[i].next = T.node[i].next
    BY <1>16, <2>1, <2>2
  <2> QED
    BY <1>15, <2>2, <2>3
<1>22. ASSUME NEW i \in NodeSet(T) \ {n}
       PROVE  LET nd == T.node[Swap(n, n, i)]
              IN /\ T2.node[i].key = nd.key /\ T2.node[i].val = nd.val
                 /\ T2.node[i].dead = nd.dead
  BY <1>15, <1>16, <1>22 DEF Swap
<1>23. T2.node[n].key = k /\ T2.node[n].val = v /\ ~T2.node[n].dead
  BY <1>3, <1>15, <1>16
<1> QED
  BY <1>3, <1>15, <1>19, <1>20, <1>21, <1>22, <1>23 DEF Fits, rf, N

(* The predecessor that newkey searches for                                *)
LEMMA BeforeFacts ==
  ASSUME NEW T, ShapeOK(T), LinksOK(T), NEW m \in NodeSet(T), T.node[m].key # Nil,
         NEW o, o = mainposition(T, T.node[m].key), o # m,
         NEW b, b = CHOOSE i \in ToSet(Chain(T, o)) : T.node[i].next = m
  PROVE  b \in NodeSet(T) /\ T.node[b].next = m /\ T.node[b].key # Nil
<1> DEFINE S == NodeSet(T)
<1>1. PICK c, r : Linked(S, Keys(T), Deads(T), Nexts(T), Mains(T), c, r)
  BY DEF LinksOK
<1>2. Chains(S, Nexts(T), c, r) /\ OnChain(S, Keys(T), Mains(T), c, r)
  BY <1>1 DEF Linked
<1>3. T.node[m].key \in Key /\ Keys(T)[m] = T.node[m].key /\ Mains(T)[T.node[m].key] = o
      /\ sizenode(T) \in Nat /\ NULL \notin S
  BY ShapeFacts
<1>4. o \in S /\ c[o] = c[m] /\ r[m] <= r[o]
  BY <1>2, <1>3 DEF OnChain
<1>5. PICK a \in S : Nexts(T)[a] = m /\ c[a] = c[o] /\ r[a] <= r[o]
  BY <1>2, <1>3, <1>4, Predecessor
<1>6. ToSet(Chain(T, o)) = {i \in S : c[i] = c[o] /\ r[i] <= r[o]}
  BY <1>2, <1>3, <1>4, ChainSet
<1>7. T.node[a].next = m
  BY <1>5, ShapeFacts
<1>8. b \in ToSet(Chain(T, o)) /\ T.node[b].next = m
  <2>1. a \in ToSet(Chain(T, o)) /\ T.node[a].next = m
    BY <1>5, <1>6, <1>7
  <2> QED
    BY <2>1, Zenon
<1>9. b \in S
  BY <1>6, <1>8
<1>10. T.node[b].key # Nil
  BY <1>3, <1>8, <1>9 DEF ShapeOK, NodeOK
<1> QED
  BY <1>8, <1>9, <1>10

(* Insertion at the main position, whose node moves to a free one          *)
LEMMA InsertMoved ==
  ASSUME NEW T, TableOK(T), NEW k, CanInsert(T, k), NEW v \in {k, Nil},
         NEW m, m = mainposition(T, k), ~(T.node[m].val = Nil /\ ~T.dummy),
         mainposition(T, T.node[m].key) # m,
         NEW n, n = getfreepos(T), NEW T2, T2 = Insert(T, k, v)
  PROVE  Fits(T, k, v, T2, m, n)
<1>1. ShapeOK(T) /\ LinksOK(T) /\ k \in Key /\ ~Full(T, k) /\ k # Nil
  BY IntegersApart DEF TableOK, CanInsert
<1>2. /\ m \in NodeSet(T) /\ MayHold(NodeSet(T), Keys(T), Deads(T), Mains(T), k, m)
      /\ T.node[m].val # Nil /\ T.node[m].key # Nil /\ T.node[m].key # k
      /\ T.node[m].key \in Key /\ n # NULL
  <2>1. /\ m \in NodeSet(T) /\ MayHold(NodeSet(T), Keys(T), Deads(T), Mains(T), k, m)
        /\ T.node[m].val # Nil /\ T.node[m].key # Nil /\ T.node[m].key # k
        /\ T.node[m].key \in Key
    BY MainNode
  <2>2. n # NULL
    BY <2>1, MainNode
  <2> QED
    BY <2>1, <2>2
<1>3. /\ ~T.dummy /\ n \in NodeSet(T) /\ n \in Nat /\ T.node[n].key = Nil
      /\ T.node[n].val = Nil /\ ~T.node[n].dead /\ T.node[n].next = NULL
      /\ \A i \in NodeSet(T) : n < i => T.node[i].key # Nil
  BY <1>1, <1>2, FreePosFacts
<1> DEFINE o == mainposition(T, T.node[m].key)
           b == CHOOSE i \in ToSet(Chain(T, o)) : T.node[i].next = m
<1>4. b \in NodeSet(T) /\ T.node[b].next = m /\ T.node[b].key # Nil
  BY <1>1, <1>2, BeforeFacts
<1>5. n # m /\ b # n /\ b # m
  <2>1. PICK c, r : Linked(NodeSet(T), Keys(T), Deads(T), Nexts(T), Mains(T), c, r)
    BY <1>1 DEF LinksOK
  <2>2. Nexts(T)[b] = m /\ NULL \notin NodeSet(T)
    BY <1>1, <1>4, ShapeFacts
  <2>3. r[m] < r[b] /\ r[b] \in Nat
    BY <1>2, <1>4, <2>1, <2>2 DEF Linked, Chains
  <2> HIDE DEF b
  <2>4. b # m
    BY <2>3
  <2> QED
    BY <1>2, <1>3, <1>4, <2>4
<1> DEFINE N == sizenode(T)
           nd1 == [T.node[b] EXCEPT !.next = n]
           nds == [T.node EXCEPT ![n] = T.node[m], ![m] = FreeNode, ![b] = nd1]
           tb == [T EXCEPT !.lastfree = n, !.node[n] = T.node[m], !.node[m] = FreeNode,
                           !.node[b].next = n]
<1>6. /\ T \in TableRecord(N) /\ DOMAIN T.node = NodeSet(T)
      /\ T.node \in [NodeSet(T) -> NodeRecord(N)] /\ NodeSet(T) = 0 .. N - 1
  BY <1>1, RecordFacts
<1>7. Placed(T, k) = [tab |-> MoveCollider(T, m, n), at |-> m]
  <2>1. ~(T.node[m].val = Nil /\ ~T.dummy) /\ o # m
    OBVIOUS
  <2> QED
    BY <2>1 DEF Placed
<1>8. MoveCollider(T, m, n) = tb
  <2>1. MoveCollider(T, m, n) =
          [T EXCEPT !.lastfree = n, !.node[n] = T.node[m], !.node[m] = FreeNode,
                    !.node[IF b = m THEN n ELSE b].next = n]
    BY DEF MoveCollider
  <2> HIDE DEF b
  <2> QED
    BY <1>5, <2>1
<1> HIDE DEF b, o
<1>9. tb = WithNodes(T, n, nds, T.ref)
  BY <1>2, <1>3, <1>4, <1>5, <1>6 DEF WithNodes, TableRecord
<1>10. nd1 \in NodeRecord(N) /\ nd1.next = n /\ nd1.key = T.node[b].key
       /\ nd1.val = T.node[b].val /\ nd1.dead = T.node[b].dead
  <2>1. T.node[b] \in NodeRecord(N)
    BY <1>4, <1>6
  <2> QED
    BY <1>3, <1>6, <2>1 DEF NodeRecord
<1> HIDE DEF tb, nd1
<1>11. FreeNode \in NodeRecord(N) /\ FreeNode.key = Nil /\ FreeNode.dead = FALSE
       /\ FreeNode.next = NULL
  BY DEF FreeNode, NodeRecord
<1>12. nds \in [NodeSet(T) -> NodeRecord(N)] /\ nds[m] = FreeNode
  <2> HIDE DEF N
  <2> QED
    BY <1>2, <1>3, <1>4, <1>5, <1>6, <1>10, <1>11
<1> DEFINE nds2 == [nds EXCEPT ![m] = Renewed(@, k, v)]
           rf == Replaced(Taken(T.ref, k), T.node[n])
<1>13. T2 = WithNodes(T, n, nds2, rf)
  <2>1. Replaced(Taken(T.ref, k), FreeNode) = rf
    <3> DEFINE f == Taken(T.ref, k)
    <3> HIDE DEF f
    <3>1. Replaced(f, FreeNode) = Replaced(f, T.node[n])
      BY <1>3, <1>11 DEF Replaced
    <3> QED
      BY <3>1 DEF f
  <2>2. PlacedAs(T, k, m, n, nds)
    BY <1>2, <1>7, <1>8, <1>9, <1>12 DEF PlacedAs
  <2> HIDE DEF nds
  <2>3. T2 = WithNodes(T, n, nds2, Replaced(Taken(T.ref, k), nds[m]))
    BY <1>1, <2>2, InsertOf
  <2> QED
    BY <1>12, <2>1, <2>3
<1>14. /\ Renewed(FreeNode, k, v) \in NodeRecord(N)
       /\ Renewed(FreeNode, k, v).key = k /\ Renewed(FreeNode, k, v).val = v
       /\ ~Renewed(FreeNode, k, v).dead /\ Renewed(FreeNode, k, v).next = NULL
  BY <1>1, <1>11, RenewedFacts
<1>15. nds2 \in [NodeSet(T) -> NodeRecord(N)] /\ rf \in [Collectable -> Int]
  <2>1. rf \in [Collectable -> Int]
    BY <1>1, RecordFacts
  <2> HIDE DEF nds
  <2> QED
    BY <1>12, <1>14, <2>1
<1>16. ASSUME NEW i \in NodeSet(T)
       PROVE  nds2[i] = IF i = m THEN Renewed(FreeNode, k, v) ELSE IF i = n THEN T.node[m]
                        ELSE IF i = b THEN nd1 ELSE T.node[i]
  BY <1>2, <1>3, <1>4, <1>5, <1>6
<1> HIDE DEF nds2, rf, N, nds
<1>17. /\ T2 \in TableRecord(N)
       /\ T2.array = T.array /\ T2.dummy = T.dummy /\ T2.node = nds2
       /\ T2.lastfree = n /\ T2.ref = rf
       /\ sizenode(T2) = N /\ NodeSet(T2) = NodeSet(T) /\ Mains(T2) = Mains(T)
       /\ \A i \in NodeSet(T) : /\ Keys(T2)[i] = nds2[i].key /\ Deads(T2)[i] = nds2[i].dead
                                /\ Nexts(T2)[i] = nds2[i].next
  BY <1>1, <1>3, <1>13, <1>15, BuiltFacts DEF N
<1>18. ASSUME NEW i \in NodeSet(T)
       PROVE  /\ i = m => /\ nds2[i].key = k /\ nds2[i].val = v /\ nds2[i].dead = FALSE
                          /\ nds2[i].next = NULL
              /\ i = n => nds2[i] = T.node[m]
              /\ i # m /\ i # n => /\ nds2[i].key = T.node[i].key
                                   /\ nds2[i].val = T.node[i].val
                                   /\ nds2[i].dead = T.node[i].dead
                                   /\ nds2[i].next = IF i = b THEN n ELSE T.node[i].next
  <2>1. Renewed(FreeNode, k, v).dead = FALSE
    BY <1>14 DEF NodeRecord
  <2> QED
    BY <1>5, <1>10, <1>14, <1>16, <2>1
<1>19. HeldMoved(NodeSet(T), Keys(T), Deads(T), k, m, n, Keys(T2), Deads(T2))
  <2>1. ASSUME NEW i \in NodeSet(T)
        PROVE  /\ Keys(T2)[i] = IF i = m THEN k ELSE IF i = n THEN Keys(T)[m] ELSE Keys(T)[i]
               /\ Deads(T2)[i] = IF i = m THEN FALSE
                                 ELSE IF i = n THEN Deads(T)[m] ELSE Deads(T)[i]
    <3>1. Keys(T)[i] = T.node[i].key /\ Deads(T)[i] = T.node[i].dead
          /\ Keys(T)[m] = T.node[m].key /\ Deads(T)[m] = T.node[m].dead
      BY <1>1, <1>2, ShapeFacts
    <3>2. Keys(T2)[i] = nds2[i].key /\ Deads(T2)[i] = nds2[i].dead
      BY <1>17
    <3>3. CASE i = m
      <4>1. nds2[i].key = k /\ nds2[i].dead = FALSE
        BY <1>18, <3>3
      <4> QED
        BY <3>2, <3>3, <4>1
    <3>4. CASE i # m /\ i = n
      <4>1. nds2[i] = T.node[m]
        BY <1>18, <3>4
      <4> QED
        BY <3>1, <3>2, <3>4, <4>1
    <3>5. CASE i # m /\ i # n
      <4>1. nds2[i].key = T.node[i].key /\ nds2[i].dead = T.node[i].dead
        BY <1>18, <3>5
      <4> QED
        BY <3>1, <3>2, <3>5, <4>1
    <3> QED
      BY <3>3, <3>4, <3>5
  <2> QED
    BY <2>1 DEF HeldMoved
<1>20. NextMoved(NodeSet(T), Nexts(T), m, n, b, Nexts(T2))
  <2>1. ASSUME NEW i \in NodeSet(T)
        PROVE  Nexts(T2)[i] = IF i = b THEN n ELSE IF i = n THEN Nexts(T)[m]
                              ELSE IF i = m THEN NULL ELSE Nexts(T)[i]
    <3>1. Nexts(T)[i] = T.node[i].next /\ Nexts(T)[m] = T.node[m].next
      BY <1>1, <1>2, ShapeFacts
    <3>2. Nexts(T2)[i] = nds2[i].next
      BY <1>17
    <3> QED
      BY <1>5, <1>18, <3>1, <3>2
  <2> QED
    BY <2>1 DEF NextMoved
<1>21. LinksOK(T2)
  <2>1. PICK c, r : Linked(NodeSet(T), Keys(T), Deads(T), Nexts(T), Mains(T), c, r)
    BY <1>1 DEF LinksOK
  <2>2. /\ NULL \notin NodeSet(T) /\ Keys(T)[m] # Nil
        /\ Mains(T)[Keys(T)[m]] # m /\ Keys(T)[n] = Nil /\ Nexts(T)[n] = NULL
        /\ Nexts(T)[b] = m
    <3>1. Keys(T)[m] = T.node[m].key /\ Keys(T)[n] = T.node[n].key
          /\ Nexts(T)[n] = T.node[n].next /\ Nexts(T)[b] = T.node[b].next
          /\ NULL \notin NodeSet(T)
      BY <1>1, <1>2, <1>3, <1>4, ShapeFacts
    <3>2. Mains(T)[T.node[m].key] = mainposition(T, T.node[m].key)
      BY <1>2 DEF Mains
    <3> QED
      BY <1>2, <1>3, <1>4, <3>1, <3>2
  <2>3. \E c2, r2 : Linked(NodeSet(T), Keys(T2), Deads(T2), Nexts(T2), Mains(T), c2, r2)
    BY <1>2, <1>3, <1>4, <1>19, <1>20, <2>1, <2>2, LinkMoved
  <2> QED
    BY <1>17, <2>3 DEF LinksOK
<1>22. FreeOK(T2)
  <2>1. \A i \in NodeSet(T) : n <= i => T2.node[i].key # Nil
    <3> SUFFICES ASSUME NEW i \in NodeSet(T), n <= i PROVE nds2[i].key # Nil
      BY <1>17
    <3>1. i = n \/ n < i
      BY <1>3, <1>6 DEF N
    <3> QED
      BY <1>1, <1>2, <1>3, <1>18, <3>1
  <2> QED
    BY <1>1, <1>3, <1>17, <2>1, FreeAfter DEF N
<1>23. ASSUME NEW i \in NodeSet(T), T2.node[i].key = Nil PROVE T2.node[i].next = NULL
  <2>1. i # m /\ i # n /\ T.node[i].key = Nil
    BY <1>1, <1>2, <1>17, <1>18, <1>23
  <2>2. i # b /\ T.node[i].next = NULL
    BY <1>1, <1>4, <2>1 DEF ShapeOK, NodeOK
  <2>3. nds2[i].next = T.node[i].next
    BY <1>18, <2>1, <2>2
  <2> QED
    BY <1>17, <2>2, <2>3
<1>24. ASSUME NEW i \in NodeSet(T) \ {m}
       PROVE  LET nd == T.node[Swap(m, n, i)]
              IN /\ T2.node[i].key = nd.key /\ T2.node[i].val = nd.val
                 /\ T2.node[i].dead = nd.dead
  <2>1. CASE i = n
    <3>1. nds2[i] = T.node[m] /\ Swap(m, n, i) = m
      BY <1>18, <1>24, <2>1 DEF Swap
    <3> QED
      BY <1>17, <3>1
  <2>2. CASE i # n
    <3>1. /\ nds2[i].key = T.node[i].key /\ nds2[i].val = T.node[i].val
          /\ nds2[i].dead = T.node[i].dead /\ Swap(m, n, i) = i
      BY <1>18, <1>24, <2>2 DEF Swap
    <3> QED
      BY <1>17, <3>1
  <2> QED
    BY <2>1, <2>2
<1>25. T2.node[m].key = k /\ T2.node[m].val = v /\ ~T2.node[m].dead
  BY <1>2, <1>17, <1>18
<1> QED
  BY <1>2, <1>3, <1>17, <1>21, <1>22, <1>23, <1>24, <1>25 DEF Fits, rf, N

(* An insertion that needs no rehash                                       *)
LEMMA InsertFacts ==
  ASSUME NEW T, TableOK(T), NEW k, CanInsert(T, k), NEW v \in {k, Nil},
         NEW T2, T2 = Insert(T, k, v)
  PROVE  Inserted(T, k, v, T2)
<1> DEFINE m == mainposition(T, k)
           n == getfreepos(T)
<1>1. CASE T.node[m].val = Nil /\ ~T.dummy
  BY <1>1, InsertReused, FitsInserted
<1>2. CASE ~(T.node[m].val = Nil /\ ~T.dummy) /\ mainposition(T, T.node[m].key) = m
  BY <1>2, InsertBehind, FitsInserted
<1>3. CASE ~(T.node[m].val = Nil /\ ~T.dummy) /\ mainposition(T, T.node[m].key) # m
  BY <1>3, InsertMoved, FitsInserted
<1> QED
  BY <1>1, <1>2, <1>3

-----------------------------------------------------------------------------
(* Values change, keys die                                                 *)

(* T2 has the keys of T in the same places; more of them may be dead.      *)
Touched(T, T2) ==
  /\ T2 \in TableRecord(sizenode(T)) /\ T2.lastfree = T.lastfree /\ T2.dummy = T.dummy
  /\ Len(T2.array) = Len(T.array) /\ ArrayOK(T2.array)
  /\ \A i \in NodeSet(T) :
       /\ T2.node[i].key = T.node[i].key /\ T2.node[i].next = T.node[i].next
       /\ T.node[i].dead => T2.node[i].dead
       /\ T2.node[i].val # Nil => T2.node[i].val = T.node[i].key /\ ~T2.node[i].dead
       /\ T2.node[i].dead => T.node[i].key \in Collectable
       /\ T.node[i].key = Nil => T2.node[i].val = Nil
  /\ \A q \in Collectable : T2.ref[q] \in Nat /\ (HeldLive(T2, q) => T2.ref[q] >= 1)

(* The keys and the chains are the same.                                   *)
SameKeys(T, T2) ==
  /\ Len(T2.array) = Len(T.array) /\ sizenode(T2) = sizenode(T)
  /\ NodeSet(T2) = NodeSet(T) /\ Keys(T2) = Keys(T) /\ Nexts(T2) = Nexts(T)
  /\ Mains(T2) = Mains(T)

(* Such a table is in order, with the same keys and chains.                *)
LEMMA TouchedFacts ==
  ASSUME NEW T, TableOK(T), NEW T2, Touched(T, T2)
  PROVE  TableOK(T2) /\ SameKeys(T, T2)
<1>1. ShapeOK(T) /\ LinksOK(T)
  BY DEF TableOK
<1> DEFINE n == sizenode(T)
<1>2. n \in Nat \ {0} /\ n \in Powers /\ NodeSet(T) = 0 .. n - 1
  BY <1>1, ShapeFacts DEF NodeSet
<1>3. T2 \in TableRecord(n)
  BY DEF Touched
<1>4. DOMAIN T2.node = 0 .. n - 1
  BY <1>3 DEF TableRecord
<1>5. sizenode(T2) = n /\ NodeSet(T2) = NodeSet(T)
  <2> HIDE DEF n
  <2> QED
    BY <1>2, <1>4, SizeIs
<1>6. Mains(T2) = Mains(T)
  BY <1>5, SameMains
<1>7. Keys(T2) = Keys(T) /\ Nexts(T2) = Nexts(T)
  BY <1>5 DEF Keys, Nexts, Touched
<1>8. \A i \in NodeSet(T) : Deads(T)[i] => Deads(T2)[i]
  BY <1>5 DEF Deads, Touched
<1>9. LinksOK(T2)
  <2>1. PICK c, r : Linked(NodeSet(T), Keys(T), Deads(T), Nexts(T), Mains(T), c, r)
    BY <1>1 DEF LinksOK
  <2>2. KeysOnce(NodeSet(T), Keys(T), Deads(T2), r)
    BY <1>8, <2>1 DEF Linked, KeysOnce
  <2>3. Linked(NodeSet(T), Keys(T), Deads(T2), Nexts(T), Mains(T), c, r)
    BY <2>1, <2>2 DEF Linked
  <2> QED
    BY <1>5, <1>6, <1>7, <2>3 DEF LinksOK
<1>10. ASSUME NEW i \in NodeSet(T) PROVE NodeOK(T2, T2.node[i])
  <2>1. \A q : InArray(T2, q) <=> InArray(T, q)
    BY DEF Touched, InArray
  <2>2. NodeOK(T, T.node[i])
    BY <1>1 DEF ShapeOK
  <2> DEFINE a == T.node[i]
             b == T2.node[i]
  <2>3. /\ b.key = a.key /\ b.next = a.next /\ (a.dead => b.dead)
        /\ b.val # Nil => b.val = a.key /\ ~b.dead
        /\ b.dead => a.key \in Collectable
        /\ a.key = Nil => b.val = Nil
    BY DEF Touched
  <2>4. Nil \notin Collectable
    BY TableAssumption DEF Collectable, Key
  <2> HIDE DEF a, b
  <2> QED
    BY <2>1, <2>2, <2>3, <2>4 DEF NodeOK, a, b
<1>11. FreeOK(T2)
  <2>1. /\ FreeOK(T) /\ T2.lastfree = T.lastfree /\ T2.dummy = T.dummy
        /\ \A i \in NodeSet(T) : T2.node[i].key = T.node[i].key
    BY <1>1 DEF ShapeOK, Touched
  <2>2. 0 \in NodeSet(T) /\ T.lastfree \in Nat
    BY <1>2, <2>1 DEF FreeOK
  <2>3. \A i \in T.lastfree .. n - 1 : i \in NodeSet(T)
    BY <1>2, <2>2
  <2>4. /\ T.lastfree \in 0 .. n /\ T.dummy \in BOOLEAN
        /\ T.dummy => n = 1 /\ T.node[0].key = Nil /\ T.lastfree = 0
        /\ ~T.dummy => \A i \in T.lastfree .. n - 1 : T.node[i].key # Nil
    BY <2>1 DEF FreeOK
  <2> HIDE DEF n
  <2> QED
    BY <1>5, <2>1, <2>2, <2>3, <2>4 DEF FreeOK
<1>12. T2.ref \in [Collectable -> Nat]
  <2>1. T2.ref \in [Collectable -> Int]
    BY <1>3 DEF TableRecord
  <2> QED
    BY <2>1 DEF Touched
<1>13. ShapeOK(T2)
  <2>1. ArrayOK(T2.array)
    BY DEF Touched
  <2>2. T2 \in [array : Seq(Key \cup {Nil}), node : [NodeSet(T2) -> NodeRecord(sizenode(T2))],
                lastfree : Nat, dummy : BOOLEAN, ref : [Collectable -> Nat], nested : BOOLEAN]
        /\ ~T2.nested
    <3> HIDE DEF n
    <3> QED
      BY <1>2, <1>3, <1>5, <1>12 DEF TableRecord
  <2> QED
    BY <1>2, <1>5, <1>10, <1>11, <2>1, <2>2 DEF ShapeOK
<1>14. RefsOK(T2)
  BY DEF RefsOK, Touched
<1>15. SameKeys(T, T2)
  BY <1>5, <1>6, <1>7 DEF SameKeys, Touched
<1> QED
  BY <1>9, <1>13, <1>14, <1>15 DEF TableOK

(* The entry of q is as it was, or it had no value and is dead.            *)
SameEntry(T, T2, q) ==
  /\ InArray(T, q) => T2.array[q] = T.array[q]
  /\ \A i \in NodeSet(T) : T.node[i].key = q /\ ~T.node[i].dead =>
       T2.node[i].val = T.node[i].val /\ (T2.node[i].dead => T.node[i].val = Nil)

(* A lookup whose entry is the same finds the same.                        *)
LEMMA TouchedGet ==
  ASSUME NEW T, TableOK(T), NEW T2, Touched(T, T2), NEW q \in Key, SameEntry(T, T2, q)
  PROVE  luaH_get(T2, q) = luaH_get(T, q)
<1>1. /\ ShapeOK(T) /\ LinksOK(T) /\ ShapeOK(T2) /\ LinksOK(T2) /\ NodeSet(T2) = NodeSet(T)
  BY TouchedFacts DEF TableOK, SameKeys
<1>2. InArray(T2, q) <=> InArray(T, q)
  BY DEF Touched, InArray
<1>3. \A i \in NodeSet(T) : /\ T2.node[i].key = T.node[i].key
                            /\ T.node[i].dead => T2.node[i].dead
  BY DEF Touched
<1>4. CASE InArray(T, q)
  BY <1>2, <1>4 DEF luaH_get, SameEntry
<1>5. CASE ~InArray(T, q) /\ HeldLive(T, q)
  <2>1. PICK i \in NodeSet(T) : T.node[i].key = q /\ ~T.node[i].dead
    BY <1>5 DEF HeldLive
  <2>2. luaH_get(T, q) = T.node[i].val /\ T2.node[i].val = T.node[i].val
    BY <1>1, <2>1, GetFacts DEF SameEntry
  <2>3. CASE ~T2.node[i].dead
    BY <1>1, <1>3, <2>1, <2>2, <2>3, GetFacts
  <2>4. CASE T2.node[i].dead
    <3>1. T.node[i].val = Nil
      BY <2>1, <2>4 DEF SameEntry
    <3>2. ~HeldLive(T2, q)
      <4> SUFFICES ASSUME NEW j \in NodeSet(T), T2.node[j].key = q, ~T2.node[j].dead
                   PROVE  FALSE
        BY <1>1 DEF HeldLive
      <4>1. T.node[j].key = q /\ ~T.node[j].dead
        BY <1>3
      <4>2. j = i
        BY <1>1, <2>1, <4>1, HeldOnce
      <4> QED
        BY <2>4, <4>2
    <3>3. luaH_get(T2, q) = Nil
      BY <1>1, <1>2, <1>5, <3>2, GetFacts
    <3> QED
      BY <2>2, <3>1, <3>3
  <2> QED
    BY <2>3, <2>4
<1>6. CASE ~InArray(T, q) /\ ~HeldLive(T, q)
  <2>1. ~HeldLive(T2, q)
    BY <1>1, <1>3, <1>6 DEF HeldLive
  <2> QED
    BY <1>1, <1>2, <1>6, <2>1, GetFacts
<1> QED
  BY <1>4, <1>5, <1>6

(* What a store that needs no rehash leaves behind                         *)
Stored(T, k, v, T2) ==
  /\ TableOK(T2)
  /\ Len(T2.array) = Len(T.array) /\ T2.dummy = T.dummy /\ sizenode(T2) = sizenode(T)
  /\ \A q \in Key : luaH_get(T2, q) = IF q = k THEN v ELSE luaH_get(T, q)
  /\ Filled(T) /\ v # Nil /\ luaH_get(T, k) = Nil => Filled(T2) /\ T2.ref = Taken(T.ref, k)

(* The store into the array part                                           *)
LEMMA UpdateArray ==
  ASSUME NEW T, TableOK(T), NEW k \in Key, InArray(T, k), NEW v \in {k, Nil},
         NEW T2, T2 = Update(T, k, v)
  PROVE  Stored(T, k, v, T2) /\ SameKeys(T, T2)
<1>1. ShapeOK(T) /\ LinksOK(T) /\ RefsOK(T)
  BY DEF TableOK
<1>2. /\ T \in TableRecord(sizenode(T)) /\ T.array \in Seq(Key \cup {Nil})
      /\ T.ref \in [Collectable -> Nat] /\ ArrayOK(T.array)
  BY <1>1, RecordFacts, ShapeFacts DEF ShapeOK
<1>3. k \in 1 .. Len(T.array) /\ k \in IntKey
  BY <1>1, GetFacts
<1> DEFINE a2 == [T.array EXCEPT ![k] = v]
<1>4. T2 = [T EXCEPT !.array = a2]
  BY DEF Update
<1>5. a2 \in Seq(Key \cup {Nil}) /\ Len(a2) = Len(T.array) /\ a2[k] = v
      /\ \A i \in 1 .. Len(T.array) : i # k => a2[i] = T.array[i]
  BY <1>2, <1>3
<1> HIDE DEF a2
<1>6. /\ T2 \in TableRecord(sizenode(T)) /\ T2.array = a2 /\ T2.node = T.node
      /\ T2.lastfree = T.lastfree /\ T2.dummy = T.dummy /\ T2.ref = T.ref
  BY <1>2, <1>4, <1>5 DEF TableRecord
<1>7. NodeSet(T2) = NodeSet(T)
  BY <1>6 DEF NodeSet, sizenode
<1>8. Touched(T, T2)
  <2>1. ArrayOK(a2)
    BY <1>2, <1>5 DEF ArrayOK
  <2>2. ASSUME NEW i \in NodeSet(T)
        PROVE  /\ T.node[i].val # Nil => T.node[i].val = T.node[i].key /\ ~T.node[i].dead
               /\ T.node[i].dead => T.node[i].key \in Collectable
               /\ T.node[i].key = Nil => T.node[i].val = Nil
    BY <1>1 DEF ShapeOK, NodeOK
  <2>3. \A q \in Collectable : T2.ref[q] \in Nat /\ (HeldLive(T2, q) => T2.ref[q] >= 1)
    BY <1>1, <1>2, <1>6, <1>7 DEF RefsOK, HeldLive
  <2> QED
    BY <1>5, <1>6, <2>1, <2>2, <2>3 DEF Touched
<1>9. TableOK(T2) /\ SameKeys(T, T2)
  BY <1>8, TouchedFacts
<1>10. ASSUME NEW q \in Key PROVE luaH_get(T2, q) = IF q = k THEN v ELSE luaH_get(T, q)
  <2>1. InArray(T2, q) <=> InArray(T, q)
    BY <1>5, <1>6 DEF InArray
  <2>2. CASE q = k
    BY <1>5, <1>6, <2>1, <2>2 DEF luaH_get
  <2>3. CASE q # k
    <3>1. InArray(T, q) => q \in 1 .. Len(T.array)
      BY <1>1, GetFacts
    <3>2. SameEntry(T, T2, q)
      <4>1. InArray(T, q) => T2.array[q] = T.array[q]
        BY <1>5, <1>6, <2>3, <3>1
      <4> QED
        BY <1>1, <1>6, <4>1 DEF SameEntry, ShapeOK, NodeOK
    <3> QED
      BY <1>8, <2>3, <3>2, TouchedGet
  <2> QED
    BY <2>2, <2>3
<1>11. Filled(T) => Filled(T2)
  BY <1>6, <1>7 DEF Filled
<1>12. Taken(T.ref, k) = T.ref
  <2>1. k \notin Collectable
    BY <1>3, TableAssumption
  <2> QED
    BY <2>1 DEF Taken
<1> QED
  BY <1>5, <1>6, <1>9, <1>10, <1>11, <1>12 DEF Stored, SameKeys

(* The store into the node that holds the key                              *)
LEMMA UpdateNode ==
  ASSUME NEW T, TableOK(T), NEW k \in Key, ~InArray(T, k), HeldLive(T, k), NEW v \in {k, Nil},
         NEW T2, T2 = Update(T, k, v)
  PROVE  Stored(T, k, v, T2) /\ SameKeys(T, T2)
<1>1. ShapeOK(T) /\ LinksOK(T) /\ RefsOK(T) /\ k # Nil
  BY IntegersApart DEF TableOK
<1>2. /\ T \in TableRecord(sizenode(T)) /\ NodeSet(T) = 0 .. sizenode(T) - 1
      /\ T.node \in [NodeSet(T) -> NodeRecord(sizenode(T))]
      /\ T.ref \in [Collectable -> Nat] /\ ArrayOK(T.array)
  BY <1>1, RecordFacts, ShapeFacts DEF ShapeOK
<1>3. PICK n \in NodeSet(T) : T.node[n].key = k /\ ~T.node[n].dead
  BY DEF HeldLive
<1>4. (CHOOSE j \in NodesOf(T, k) : TRUE) = n /\ luaH_get(T, k) = T.node[n].val
  BY <1>1, <1>3, GetFacts
<1> DEFINE nd == [T.node[n] EXCEPT !.val = v]
           nds == [T.node EXCEPT ![n] = nd]
<1>5. T2 = [T EXCEPT !.node = nds]
  BY <1>2, <1>4 DEF Update, TableRecord
<1>6. /\ nd \in NodeRecord(sizenode(T)) /\ nd.key = k /\ nd.val = v
      /\ nd.dead = T.node[n].dead /\ nd.next = T.node[n].next
  <2>1. T.node[n] \in NodeRecord(sizenode(T))
    BY <1>2
  <2> QED
    BY <1>3, <2>1 DEF NodeRecord
<1> HIDE DEF nd
<1>7. nds \in [NodeSet(T) -> NodeRecord(sizenode(T))]
      /\ \A i \in NodeSet(T) : nds[i] = IF i = n THEN nd ELSE T.node[i]
  BY <1>2, <1>3, <1>6
<1> HIDE DEF nds
<1>8. /\ T2 \in TableRecord(sizenode(T)) /\ T2.array = T.array /\ T2.node = nds
      /\ T2.lastfree = T.lastfree /\ T2.dummy = T.dummy /\ T2.ref = T.ref
  BY <1>2, <1>5, <1>7 DEF TableRecord
<1>9. NodeSet(T2) = NodeSet(T)
  <2>1. DOMAIN T2.node = DOMAIN T.node
    BY <1>2, <1>7, <1>8
  <2> QED
    BY <2>1 DEF NodeSet, sizenode
<1>10. ASSUME NEW i \in NodeSet(T)
       PROVE  /\ T2.node[i].key = T.node[i].key /\ T2.node[i].next = T.node[i].next
              /\ T2.node[i].dead = T.node[i].dead
              /\ i = n => T2.node[i].val = v
              /\ i # n => T2.node[i].val = T.node[i].val
  BY <1>3, <1>6, <1>7, <1>8
<1>11. Touched(T, T2)
  <2>1. ASSUME NEW i \in NodeSet(T)
        PROVE  /\ T2.node[i].val # Nil => T2.node[i].val = T.node[i].key /\ ~T2.node[i].dead
               /\ T2.node[i].dead => T.node[i].key \in Collectable
               /\ T.node[i].key = Nil => T2.node[i].val = Nil
    <3>1. NodeOK(T, T.node[i])
      BY <1>1 DEF ShapeOK
    <3> QED
      BY <1>1, <1>3, <1>10, <3>1 DEF NodeOK
  <2>2. ASSUME NEW q \in Collectable
        PROVE  T2.ref[q] \in Nat /\ (HeldLive(T2, q) => T2.ref[q] >= 1)
    <3>1. HeldLive(T2, q) => HeldLive(T, q)
      BY <1>9, <1>10 DEF HeldLive
    <3> QED
      BY <1>1, <1>2, <1>8, <3>1 DEF RefsOK
  <2> QED
    BY <1>2, <1>8, <1>10, <2>1, <2>2 DEF Touched
<1>12. TableOK(T2) /\ SameKeys(T, T2)
  BY <1>11, TouchedFacts
<1>13. ASSUME NEW q \in Key PROVE luaH_get(T2, q) = IF q = k THEN v ELSE luaH_get(T, q)
  <2>1. CASE q = k
    <3>1. T2.node[n].key = k /\ ~T2.node[n].dead /\ T2.node[n].val = v /\ n \in NodeSet(T2)
      BY <1>3, <1>9, <1>10
    <3> QED
      BY <1>12, <2>1, <3>1, GetFacts DEF TableOK
  <2>2. CASE q # k
    <3>1. SameEntry(T, T2, q)
      BY <1>3, <1>8, <1>10, <2>2 DEF SameEntry
    <3> QED
      BY <1>11, <2>2, <3>1, TouchedGet
  <2> QED
    BY <2>1, <2>2
<1>14. Filled(T) => luaH_get(T, k) # Nil
  BY <1>1, <1>3, <1>4 DEF Filled
<1> QED
  BY <1>8, <1>12, <1>13, <1>14 DEF Stored, SameKeys

(* A store that needs no rehash changes the value of its key only.         *)
LEMMA StoreFacts ==
  ASSUME NEW T, TableOK(T), NEW k \in Key, NEW v \in {k, Nil},
         ~HasSlot(T, k) => ~Full(T, k), NEW T2, T2 = Store(T, k, v)
  PROVE  Stored(T, k, v, T2)
<1>1. HasSlot(T, k) <=> InArray(T, k) \/ HeldLive(T, k)
  BY GetFacts DEF TableOK
<1>2. CASE InArray(T, k)
  BY <1>1, <1>2, UpdateArray DEF Store
<1>3. CASE ~InArray(T, k) /\ HeldLive(T, k)
  BY <1>1, <1>3, UpdateNode DEF Store
<1>4. CASE ~HasSlot(T, k)
  <2>1. T2 = Insert(T, k, v) /\ CanInsert(T, k)
    BY <1>1, <1>4 DEF Store, CanInsert
  <2>2. Inserted(T, k, v, T2)
    BY <2>1, InsertFacts
  <2> QED
    BY <2>2 DEF Inserted, Stored
<1> QED
  BY <1>1, <1>2, <1>3, <1>4

(* A set with at most one element                                          *)
LEMMA AtMostOne ==
  ASSUME NEW S, \A a, b \in S : a = b
  PROVE  /\ Cardinality(S) \in {0, 1} /\ IsFiniteSet(S)
         /\ S = {} => Cardinality(S) = 0
         /\ S # {} => Cardinality(S) = 1
<1>1. CASE S = {}
  BY <1>1, FS_EmptySet
<1>2. CASE S # {}
  <2>1. PICK a \in S : TRUE
    BY <1>2
  <2>2. S = {a}
    BY <2>1
  <2> QED
    BY <2>2, FS_Singleton
<1> QED
  BY <1>1, <1>2

(* traversetable                                                           *)
LEMMA RemoveEmptyFacts ==
  ASSUME NEW T, TableOK(T), NEW T2, T2 = RemoveEmpty(T)
  PROVE  TableOK(T2) /\ SameKeys(T, T2) /\ \A q \in Key : luaH_get(T2, q) = luaH_get(T, q)
<1>1. ShapeOK(T) /\ LinksOK(T) /\ RefsOK(T)
  BY DEF TableOK
<1> DEFINE S == NodeSet(T)
           empty == {i \in S : T.node[i].val = Nil}
           nds == [i \in S |-> IF i \in empty THEN removeentry(T.node[i]) ELSE T.node[i]]
           rf == GivenUp(T.ref, T.node, empty)
<1>2. /\ T \in TableRecord(sizenode(T)) /\ S = 0 .. sizenode(T) - 1 /\ DOMAIN T.node = S
      /\ T.node \in [S -> NodeRecord(sizenode(T))]
      /\ T.ref \in [Collectable -> Nat] /\ ArrayOK(T.array)
  BY <1>1, RecordFacts, ShapeFacts DEF ShapeOK
<1>3. T2 = [T EXCEPT !.node = nds, !.ref = rf]
  BY <1>2 DEF RemoveEmpty
<1>4. ASSUME NEW i \in S
      PROVE  /\ nds[i] \in NodeRecord(sizenode(T))
             /\ nds[i].key = T.node[i].key /\ nds[i].val = T.node[i].val
             /\ nds[i].next = T.node[i].next
             /\ i \in empty => (nds[i].dead <=> T.node[i].key \in Collectable)
             /\ i \notin empty => nds[i].dead = T.node[i].dead
  <2>1. T.node[i] \in NodeRecord(sizenode(T))
    BY <1>2
  <2>2. /\ removeentry(T.node[i]) \in NodeRecord(sizenode(T))
        /\ removeentry(T.node[i]).key = T.node[i].key
        /\ removeentry(T.node[i]).val = T.node[i].val
        /\ removeentry(T.node[i]).next = T.node[i].next
        /\ removeentry(T.node[i]).dead <=> T.node[i].key \in Collectable
    <3> DEFINE d == T.node[i].key \in Collectable
    <3>1. d \in BOOLEAN
      OBVIOUS
    <3> HIDE DEF d
    <3>2. removeentry(T.node[i]) = [T.node[i] EXCEPT !.dead = d]
      BY DEF removeentry, d
    <3>3. [T.node[i] EXCEPT !.dead = d].dead = d
      BY <2>1 DEF NodeRecord
    <3> QED
      BY <2>1, <3>1, <3>2, <3>3 DEF NodeRecord, d
  <2>3. nds[i] = IF i \in empty THEN removeentry(T.node[i]) ELSE T.node[i]
    OBVIOUS
  <2> HIDE DEF nds, empty
  <2> QED
    BY <2>1, <2>2, <2>3
<1>5. ASSUME NEW q \in Collectable
      PROVE  /\ rf[q] \in Nat
             /\ ~(\E i \in empty : T.node[i].key = q /\ ~T.node[i].dead) => rf[q] = T.ref[q]
  <2> DEFINE C == {i \in empty : T.node[i].key = q /\ ~T.node[i].dead}
  <2>1. rf[q] = T.ref[q] - Cardinality(C)
    BY DEF GivenUp
  <2>2. \A i, j \in C : i = j
    <3>1. q \in Key
      BY DEF Collectable, Key
    <3> QED
      BY <1>1, <3>1, HeldOnce
  <2>3. C # {} => T.ref[q] >= 1
    <3>1. C # {} => HeldLive(T, q)
      BY DEF HeldLive
    <3> QED
      BY <1>1, <3>1 DEF RefsOK
  <2>4. T.ref[q] \in Nat
    BY <1>2
  <2>5. ~(\E i \in empty : T.node[i].key = q /\ ~T.node[i].dead) => C = {}
    OBVIOUS
  <2> HIDE DEF C, rf
  <2>6. Cardinality(C) \in {0, 1} /\ (C = {} => Cardinality(C) = 0)
    BY <2>2, AtMostOne
  <2> QED
    BY <2>1, <2>3, <2>4, <2>5, <2>6
<1>6. rf \in [Collectable -> Int]
  <2>1. \A q \in Collectable : rf[q] \in Int
    BY <1>5
  <2>2. rf = [q \in Collectable |-> rf[q]]
    BY DEF GivenUp
  <2> HIDE DEF rf
  <2> QED
    BY <2>1, <2>2
<1>7. nds \in [S -> NodeRecord(sizenode(T))]
  BY <1>4
<1> HIDE DEF nds, rf
<1>8. /\ T2 \in TableRecord(sizenode(T)) /\ T2.array = T.array /\ T2.node = nds
      /\ T2.lastfree = T.lastfree /\ T2.dummy = T.dummy /\ T2.ref = rf
  BY <1>2, <1>3, <1>6, <1>7 DEF TableRecord
<1>9. NodeSet(T2) = S
  <2>1. DOMAIN T2.node = DOMAIN T.node
    BY <1>2, <1>7, <1>8
  <2> QED
    BY <2>1 DEF NodeSet, sizenode
<1>10. ASSUME NEW i \in S
       PROVE  /\ T2.node[i].key = T.node[i].key /\ T2.node[i].next = T.node[i].next
              /\ T2.node[i].val = T.node[i].val
              /\ T.node[i].val # Nil => T2.node[i].dead = T.node[i].dead
              /\ T.node[i].val = Nil => (T2.node[i].dead <=> T.node[i].key \in Collectable)
  BY <1>4, <1>8
<1>11. \A i \in S : NodeOK(T, T.node[i])
  BY <1>1 DEF ShapeOK
<1>12. Touched(T, T2)
  <2>1. ASSUME NEW i \in S
        PROVE  /\ T.node[i].dead => T2.node[i].dead
               /\ T2.node[i].val # Nil => T2.node[i].val = T.node[i].key /\ ~T2.node[i].dead
               /\ T2.node[i].dead => T.node[i].key \in Collectable
               /\ T.node[i].key = Nil => T2.node[i].val = Nil
    BY <1>10, <1>11 DEF NodeOK
  <2>2. ASSUME NEW q \in Collectable, HeldLive(T2, q) PROVE rf[q] >= 1
    <3>1. PICK j \in S : T2.node[j].key = q /\ ~T2.node[j].dead
      BY <1>9, <2>2 DEF HeldLive
    <3>2. T.node[j].key = q /\ T.node[j].val # Nil /\ ~T.node[j].dead
      BY <1>10, <3>1
    <3>3. T.ref[q] >= 1
      BY <1>1, <3>2 DEF RefsOK, HeldLive
    <3>4. q \in Key
      BY DEF Collectable, Key
    <3>5. ~(\E i \in empty : T.node[i].key = q /\ ~T.node[i].dead)
      BY <1>1, <3>2, <3>4, HeldOnce
    <3> QED
      BY <1>5, <3>3, <3>5
  <2> QED
    BY <1>2, <1>5, <1>8, <1>10, <2>1, <2>2 DEF Touched
<1>13. TableOK(T2) /\ SameKeys(T, T2)
  BY <1>12, TouchedFacts
<1>14. ASSUME NEW q \in Key PROVE luaH_get(T2, q) = luaH_get(T, q)
  <2>1. SameEntry(T, T2, q)
    BY <1>8, <1>10 DEF SameEntry
  <2> QED
    BY <1>12, <2>1, TouchedGet
<1> QED
  BY <1>13, <1>14

(* cleartable, when the entry is in a node                                 *)
ClearedNode(T, n) ==
  [T EXCEPT !.node[n] = removeentry([@ EXCEPT !.val = Nil]), !.ref = Replaced(@, T.node[n])]

(* The entry loses its value, its key dies and gives its reference back.   *)
LEMMA ClearNode ==
  ASSUME NEW T, TableOK(T), NEW k \in Key, ~InArray(T, k), HeldLive(T, k),
         NEW n, n = (CHOOSE i \in NodesOf(T, k) : TRUE), NEW T2, T2 = ClearedNode(T, n)
  PROVE  /\ TableOK(T2) /\ SameKeys(T, T2)
         /\ \A q \in Key : luaH_get(T2, q) = IF q = k THEN Nil ELSE luaH_get(T, q)
<1>1. ShapeOK(T) /\ LinksOK(T) /\ RefsOK(T) /\ k # Nil
  BY IntegersApart DEF TableOK
<1>2. /\ T \in TableRecord(sizenode(T)) /\ NodeSet(T) = 0 .. sizenode(T) - 1
      /\ T.node \in [NodeSet(T) -> NodeRecord(sizenode(T))]
      /\ T.ref \in [Collectable -> Nat] /\ ArrayOK(T.array)
  BY <1>1, RecordFacts, ShapeFacts DEF ShapeOK
<1>3. n \in NodeSet(T) /\ T.node[n].key = k /\ ~T.node[n].dead
  <2>1. PICK m \in NodeSet(T) : T.node[m].key = k /\ ~T.node[m].dead
    BY DEF HeldLive
  <2> QED
    BY <1>1, <2>1, GetFacts
<1> DEFINE nd == removeentry([T.node[n] EXCEPT !.val = Nil])
           nds == [T.node EXCEPT ![n] = nd]
           rf == Replaced(T.ref, T.node[n])
<1>4. T2 = [T EXCEPT !.node = nds, !.ref = rf]
  BY <1>2 DEF TableRecord, ClearedNode
<1>5. /\ nd \in NodeRecord(sizenode(T)) /\ nd.key = k /\ nd.val = Nil
      /\ (nd.dead <=> k \in Collectable) /\ nd.next = T.node[n].next
  <2> DEFINE d == k \in Collectable
             a == [T.node[n] EXCEPT !.val = Nil]
  <2>1. T.node[n] \in NodeRecord(sizenode(T))
    BY <1>2, <1>3
  <2>2. /\ a \in NodeRecord(sizenode(T)) /\ a.key = k /\ a.val = Nil
        /\ a.next = T.node[n].next
    BY <1>3, <2>1 DEF NodeRecord
  <2>3. d \in BOOLEAN
    OBVIOUS
  <2> HIDE DEF d, a
  <2>4. nd = [a EXCEPT !.dead = d]
    BY <2>2 DEF removeentry, d, a
  <2>5. [a EXCEPT !.dead = d].dead = d
    BY <2>2 DEF NodeRecord
  <2> HIDE DEF nd
  <2> QED
    BY <2>2, <2>3, <2>4, <2>5 DEF NodeRecord, d
<1> HIDE DEF nd
<1>6. nds \in [NodeSet(T) -> NodeRecord(sizenode(T))]
      /\ \A i \in NodeSet(T) : nds[i] = IF i = n THEN nd ELSE T.node[i]
  BY <1>2, <1>3, <1>5
<1>7. ASSUME NEW q \in Collectable
      PROVE  rf[q] \in Nat /\ (q # k => rf[q] = T.ref[q])
  <2>1. rf[q] = T.ref[q] - (IF q = k THEN 1 ELSE 0)
    BY <1>3 DEF Replaced
  <2>2. T.ref[q] \in Nat /\ (q = k => T.ref[q] >= 1)
    BY <1>1, <1>2 DEF RefsOK
  <2> HIDE DEF rf
  <2> QED
    BY <2>1, <2>2
<1>8. rf \in [Collectable -> Int]
  <2>1. \A q \in Collectable : rf[q] \in Int
    BY <1>7
  <2>2. rf = [q \in Collectable |-> rf[q]]
    BY DEF Replaced
  <2> HIDE DEF rf
  <2> QED
    BY <2>1, <2>2
<1> HIDE DEF nds, rf
<1>9. /\ T2 \in TableRecord(sizenode(T)) /\ T2.array = T.array /\ T2.node = nds
      /\ T2.lastfree = T.lastfree /\ T2.dummy = T.dummy /\ T2.ref = rf
  BY <1>2, <1>4, <1>6, <1>8 DEF TableRecord
<1>10. NodeSet(T2) = NodeSet(T)
  <2>1. DOMAIN T2.node = DOMAIN T.node
    BY <1>2, <1>6, <1>9
  <2> QED
    BY <2>1 DEF NodeSet, sizenode
<1>11. ASSUME NEW i \in NodeSet(T)
       PROVE  /\ T2.node[i].key = T.node[i].key /\ T2.node[i].next = T.node[i].next
              /\ i = n => T2.node[i].val = Nil /\ (T2.node[i].dead <=> k \in Collectable)
              /\ i # n => T2.node[i].val = T.node[i].val /\ T2.node[i].dead = T.node[i].dead
  <2>1. T2.node[i] = IF i = n THEN nd ELSE T.node[i]
    BY <1>6, <1>9
  <2>2. CASE i = n
    <3>1. T2.node[i] = nd
      BY <2>1, <2>2
    <3> QED
      BY <1>3, <1>5, <2>2, <3>1
  <2>3. CASE i # n
    <3>1. T2.node[i] = T.node[i]
      BY <2>1, <2>3
    <3> QED
      BY <2>3, <3>1
  <2> QED
    BY <2>2, <2>3
<1>12. Touched(T, T2)
  <2>1. ASSUME NEW i \in NodeSet(T)
        PROVE  /\ T.node[i].dead => T2.node[i].dead
               /\ T2.node[i].val # Nil => T2.node[i].val = T.node[i].key /\ ~T2.node[i].dead
               /\ T2.node[i].dead => T.node[i].key \in Collectable
               /\ T.node[i].key = Nil => T2.node[i].val = Nil
    <3>1. NodeOK(T, T.node[i])
      BY <1>1 DEF ShapeOK
    <3>2. CASE i = n
      <4>1. /\ T2.node[i].val = Nil /\ (T2.node[i].dead <=> k \in Collectable)
            /\ T.node[i].key = k /\ ~T.node[i].dead
        BY <1>3, <1>11, <3>2
      <4> QED
        BY <1>1, <4>1
    <3>3. CASE i # n
      <4>1. T2.node[i].val = T.node[i].val /\ T2.node[i].dead = T.node[i].dead
        BY <1>11, <3>3
      <4> QED
        BY <3>1, <4>1 DEF NodeOK
    <3> QED
      BY <3>2, <3>3
  <2>2. ASSUME NEW q \in Collectable, HeldLive(T2, q) PROVE rf[q] >= 1
    <3>1. PICK j \in NodeSet(T) : T2.node[j].key = q /\ ~T2.node[j].dead
      BY <1>10, <2>2 DEF HeldLive
    <3>2. j # n
      BY <1>3, <1>11, <3>1
    <3>3. T.node[j].key = q /\ ~T.node[j].dead
      BY <1>11, <3>1, <3>2
    <3>4. q # k
      BY <1>1, <1>3, <3>2, <3>3, HeldOnce
    <3>5. T.ref[q] >= 1
      BY <1>1, <3>3 DEF RefsOK, HeldLive
    <3> QED
      BY <1>7, <3>4, <3>5
  <2> QED
    BY <1>2, <1>7, <1>9, <1>11, <2>1, <2>2 DEF Touched
<1>13. TableOK(T2) /\ SameKeys(T, T2)
  BY <1>12, TouchedFacts
<1>14. ASSUME NEW q \in Key
       PROVE  luaH_get(T2, q) = IF q = k THEN Nil ELSE luaH_get(T, q)
  <2>1. CASE q # k
    <3>1. ASSUME NEW i \in NodeSet(T), T.node[i].key = q
          PROVE  T2.node[i].val = T.node[i].val /\ T2.node[i].dead = T.node[i].dead
      <4>1. i # n
        BY <1>3, <2>1, <3>1
      <4> QED
        BY <1>11, <4>1
    <3>2. SameEntry(T, T2, q)
      BY <1>9, <3>1 DEF SameEntry
    <3> QED
      BY <1>12, <2>1, <3>2, TouchedGet
  <2>2. CASE q = k /\ HeldLive(T2, k)
    <3>1. PICK j \in NodeSet(T) : T2.node[j].key = k /\ ~T2.node[j].dead
      BY <1>10, <2>2 DEF HeldLive
    <3>2. j = n
      BY <1>1, <1>3, <1>11, <3>1, HeldOnce
    <3>3. T2.node[j].val = Nil /\ j \in NodeSet(T2)
      BY <1>10, <1>11, <3>2
    <3>4. ShapeOK(T2) /\ LinksOK(T2)
      BY <1>13 DEF TableOK
    <3>5. luaH_get(T2, k) = T2.node[j].val
      BY <3>1, <3>3, <3>4, GetFacts
    <3> QED
      BY <2>2, <3>3, <3>5
  <2>3. CASE q = k /\ ~HeldLive(T2, k)
    <3>1. ~InArray(T2, k)
      BY <1>9 DEF InArray
    <3> QED
      BY <1>13, <2>3, <3>1, GetFacts DEF TableOK
  <2> QED
    BY <2>1, <2>2, <2>3
<1> QED
  BY <1>13, <1>14

-----------------------------------------------------------------------------
(* A new table                                                             *)

(* setnodevector makes a vector of free nodes, whose number is a power of  *)
(* two, and large enough.                                                  *)
LEMMA NodeVectorFacts ==
  ASSUME NEW size \in Nat, size <= twoto[MaxBits], NEW vec, vec = NodeVector(size)
  PROVE  \E n \in Powers :
           /\ vec.node = [i \in 0 .. n - 1 |-> FreeNode]
           /\ vec.dummy \in BOOLEAN /\ (vec.dummy <=> size = 0)
           /\ vec.lastfree = (IF size = 0 THEN 0 ELSE n)
           /\ n >= size /\ (size = 0 => n = 1)
<1>1. CASE size = 0
  <2>1. 1 \in Powers
    BY BitsNat, TwotoIs DEF Powers
  <2>2. vec = [node |-> [i \in 0 .. 1 - 1 |-> FreeNode], lastfree |-> 0, dummy |-> TRUE]
    BY <1>1 DEF NodeVector
  <2>3. /\ vec.node = [i \in 0 .. 1 - 1 |-> FreeNode] /\ vec.lastfree = 0
        /\ vec.dummy \in BOOLEAN /\ vec.dummy
    BY <2>2
  <2> HIDE DEF NodeVector
  <2> WITNESS 1 \in Powers
  <2> QED
    BY <1>1, <2>3
<1>2. CASE size # 0
  <2> DEFINE n == CeilPow2(size)
  <2>1. n \in Powers /\ n >= size
    <3>1. n \in Powers /\ size <= n
      BY <1>2, CeilPow2Facts
    <3>2. n \in Nat
      BY <3>1, PowersFacts
    <3> QED
      BY <3>1, <3>2
  <2>2. vec = [node |-> [i \in 0 .. n - 1 |-> FreeNode], lastfree |-> n, dummy |-> FALSE]
    BY <1>2 DEF NodeVector
  <2> HIDE DEF n
  <2>3. /\ vec.node = [i \in 0 .. n - 1 |-> FreeNode] /\ vec.lastfree = n
        /\ vec.dummy \in BOOLEAN /\ ~vec.dummy
    BY <2>2
  <2> QED
    BY <1>2, <2>1, <2>3
<1> QED
  BY <1>1, <1>2

(* A table with new nodes: what it holds is in the array part.             *)
Fresh(a, size, ref, W) ==
  /\ TableOK(W) /\ Filled(W)
  /\ W.array = a /\ W.ref = ref /\ (W.dummy <=> size = 0) /\ sizenode(W) >= size
  /\ \A q \in Key : luaH_get(W, q) = IF InArray(W, q) THEN a[q] ELSE Nil

(* A table with new nodes finds what its array part holds.                 *)
LEMMA NewTable ==
  ASSUME NEW a, ArrayOK(a), NEW size \in Nat, size <= twoto[MaxBits],
         NEW ref \in [Collectable -> Nat], NEW W, W = Table(a, NodeVector(size), ref)
  PROVE  Fresh(a, size, ref, W)
<1> DEFINE vec == NodeVector(size)
<1>1. PICK n \in Powers :
           /\ vec.node = [i \in 0 .. n - 1 |-> FreeNode]
           /\ vec.dummy \in BOOLEAN /\ (vec.dummy <=> size = 0)
           /\ vec.lastfree = (IF size = 0 THEN 0 ELSE n)
           /\ n >= size /\ (size = 0 => n = 1)
  BY NodeVectorFacts
<1> HIDE DEF vec
<1>2. n \in Nat \ {0}
  BY PowersFacts
<1>3. W = [array |-> a, node |-> vec.node, lastfree |-> vec.lastfree,
           dummy |-> vec.dummy, ref |-> ref, nested |-> FALSE]
  BY DEF Table, vec
<1>4. /\ W.array = a /\ W.node = [i \in 0 .. n - 1 |-> FreeNode] /\ W.ref = ref
      /\ W.lastfree = (IF size = 0 THEN 0 ELSE n)
      /\ W.dummy \in BOOLEAN /\ (W.dummy <=> size = 0)
  <2>1. W.dummy = vec.dummy
    BY <1>3
  <2> QED
    BY <1>1, <1>3, <2>1
<1>14. W.nested \in BOOLEAN /\ ~W.nested
  BY <1>3
<1>5. sizenode(W) = n /\ NodeSet(W) = 0 .. n - 1
  BY <1>2, <1>4, SizeIs
<1>6. FreeNode \in NodeRecord(n) /\ FreeNode.key = Nil /\ FreeNode.val = Nil
      /\ FreeNode.next = NULL /\ ~FreeNode.dead
  BY DEF FreeNode, NodeRecord
<1>7. \A i \in NodeSet(W) : W.node[i] = FreeNode
  BY <1>4, <1>5
<1>8. ShapeOK(W)
  <2>1. W.node \in [NodeSet(W) -> NodeRecord(n)]
    BY <1>4, <1>5, <1>6
  <2>2. W.lastfree \in Nat /\ W.dummy \in BOOLEAN /\ a \in Seq(Key \cup {Nil})
    BY <1>2, <1>4 DEF ArrayOK
  <2>3. W \in [array : Seq(Key \cup {Nil}), node : [NodeSet(W) -> NodeRecord(sizenode(W))],
               lastfree : Nat, dummy : BOOLEAN, ref : [Collectable -> Nat], nested : BOOLEAN]
    <3>1. W = [array |-> W.array, node |-> W.node, lastfree |-> W.lastfree,
               dummy |-> W.dummy, ref |-> W.ref, nested |-> W.nested]
      <4>1. W = [array |-> a, node |-> vec.node, lastfree |-> vec.lastfree,
                 dummy |-> vec.dummy, ref |-> ref, nested |-> FALSE]
        BY <1>3
      <4> QED
        BY ONLY <4>1
    <3>2. W.array \in Seq(Key \cup {Nil}) /\ W.ref \in [Collectable -> Nat]
      BY <1>4, <2>2
    <3> QED
      BY <1>5, <1>14, <2>1, <2>2, <3>1, <3>2
  <2>4. FreeOK(W)
    <3>1. CASE size = 0
      <4>1. n = 1 /\ W.lastfree = 0 /\ 0 \in NodeSet(W)
        BY <1>1, <1>4, <1>5, <3>1
      <4>2. W.dummy \in BOOLEAN /\ W.dummy
        BY <1>4, <3>1
      <4> QED
        BY <1>5, <1>6, <1>7, <4>1, <4>2 DEF FreeOK
    <3>2. CASE size # 0
      <4>1. W.lastfree = n
        BY <1>4, <3>2
      <4>2. W.dummy \in BOOLEAN /\ ~W.dummy
        BY <1>4, <3>2
      <4> QED
        BY <1>2, <1>5, <4>1, <4>2 DEF FreeOK
    <3> QED
      BY <3>1, <3>2
  <2>5. \A i \in NodeSet(W) : NodeOK(W, W.node[i])
    BY <1>6, <1>7 DEF NodeOK
  <2> QED
    BY <1>4, <1>5, <1>14, <2>3, <2>4, <2>5 DEF ShapeOK
<1>9. LinksOK(W)
  <2> DEFINE S == NodeSet(W)
             c == [i \in S |-> i]
             r == [i \in S |-> 0]
  <2>1. \A i \in S : Keys(W)[i] = Nil /\ Nexts(W)[i] = NULL
    BY <1>6, <1>7 DEF Keys, Nexts
  <2>2. Chains(S, Nexts(W), c, r)
    <3>1. c \in [S -> Nat] /\ r \in [S -> Nat]
      BY <1>2, <1>5
    <3>2. \A i, j \in S : i # j => c[i] # c[j]
      OBVIOUS
    <3> HIDE DEF c, r
    <3> QED
      BY <2>1, <3>1, <3>2 DEF Chains
  <2>3. FreeAlone(S, Keys(W), c)
    BY DEF FreeAlone
  <2> HIDE DEF c, r
  <2>4. Linked(S, Keys(W), Deads(W), Nexts(W), Mains(W), c, r)
    BY <2>1, <2>2, <2>3 DEF Linked, OnChain, KeysOnce
  <2> QED
    BY <2>4 DEF LinksOK
<1>10. \A q \in Key : ~HeldLive(W, q)
  BY <1>6, <1>7, IntegersApart DEF HeldLive
<1>11. RefsOK(W) /\ Filled(W)
  <2>1. \A q \in Collectable : q \in Key
    BY DEF Collectable, Key
  <2> QED
    BY <1>6, <1>7, <1>10, <2>1 DEF RefsOK, Filled
<1>12. \A q \in Key : luaH_get(W, q) = IF InArray(W, q) THEN a[q] ELSE Nil
  BY <1>4, <1>8, <1>9, <1>10, GetFacts
<1>13. sizenode(W) >= size
  BY <1>1, <1>5
<1> QED
  BY <1>4, <1>8, <1>9, <1>11, <1>12, <1>13 DEF Fresh, TableOK

-----------------------------------------------------------------------------
(* Elements move to a new table                                            *)

(* tab is the new table W once the keys D are in it.                       *)
Holding(W, D, tab) ==
  /\ TableOK(tab) /\ Filled(tab)
  /\ Len(tab.array) = Len(W.array) /\ sizenode(tab) = sizenode(W) /\ tab.dummy = W.dummy
  /\ \A q \in Key : luaH_get(tab, q) = IF q \in D THEN q ELSE Nil

(* Every insertion has taken a reference.                                  *)
Refilled(W, D, tab) ==
  /\ Holding(W, D, tab)
  /\ \A q \in Collectable : tab.ref[q] = IF q \in D THEN W.ref[q] + 1 ELSE W.ref[q]

(* The keys of E that have no slot in the array part                       *)
Outside(W, E) == {q \in E : ~(q \in 1 .. Len(W.array))}

RoomFor(W, E) ==
  /\ E \subseteq Key
  /\ Cardinality(Outside(W, E)) <= (IF W.dummy THEN 0 ELSE sizenode(W))

(* A full table has no free node.                                          *)
LEMMA NoFreeNode ==
  ASSUME NEW T, ShapeOK(T), getfreepos(T) = NULL, ~T.dummy, NEW i \in NodeSet(T)
  PROVE  T.node[i].key # Nil
<1> DEFINE free == {j \in 0 .. T.lastfree - 1 : T.node[j].key = Nil}
<1>1. T.lastfree \in 0 .. sizenode(T) /\ sizenode(T) \in Nat /\ i \in 0 .. sizenode(T) - 1
  BY ShapeFacts DEF ShapeOK, FreeOK, NodeSet
<1>2. free = {}
  <2> SUFFICES ASSUME free # {} PROVE FALSE
    OBVIOUS
  <2>1. Max(free) = NULL
    BY DEF getfreepos
  <2> DEFINE U == {x \in Nat : \E j \in free : x = sizenode(T) - j}
  <2>2. U \in SUBSET Nat /\ U # {}
    <3>1. PICK j \in free : TRUE
      OBVIOUS
    <3>2. sizenode(T) - j \in Nat
      BY <1>1
    <3> QED
      BY <3>2
  <2>3. PICK u \in U : \A w \in U : u <= w
    <3> HIDE DEF U
    <3> QED
      BY <2>2, LeastNatural
  <2>4. PICK m \in free : u = sizenode(T) - m
    OBVIOUS
  <2>5. \A j \in free : j <= m
    <3> SUFFICES ASSUME NEW j \in free PROVE j <= m
      OBVIOUS
    <3>1. sizenode(T) - j \in U
      BY <1>1
    <3>2. u <= sizenode(T) - j
      <4> HIDE DEF U
      <4> QED
        BY <2>3, <3>1
    <3> QED
      BY <1>1, <2>4, <3>2
  <2>6. free \in SUBSET Int /\ m \in Nat
    BY <1>1, <2>4
  <2> HIDE DEF free
  <2>7. Max(free) = m
    BY <2>4, <2>5, <2>6, MaxIs
  <2> QED
    BY <2>1, <2>6, <2>7 DEF NULL
<1>3. CASE i \in 0 .. T.lastfree - 1
  BY <1>2, <1>3
<1>4. CASE i \in T.lastfree .. sizenode(T) - 1
  BY <1>4 DEF ShapeOK, FreeOK
<1> QED
  BY <1>1, <1>3, <1>4

(* There is room for every key the new table is meant for: each node that  *)
(* is taken holds another of them.                                         *)
LEMMA NotFull ==
  ASSUME NEW W, NEW D, NEW E, RoomFor(W, E), D \subseteq E, NEW T, Holding(W, D, T),
         NEW k \in E, k \notin D, ~InArray(T, k)
  PROVE  ~Full(T, k)
<1>1. /\ TableOK(T) /\ Filled(T) /\ Len(T.array) = Len(W.array)
      /\ sizenode(T) = sizenode(W) /\ T.dummy = W.dummy
      /\ \A q \in Key : luaH_get(T, q) = IF q \in D THEN q ELSE Nil
  BY DEF Holding
<1>2. ShapeOK(T) /\ LinksOK(T)
  BY <1>1 DEF TableOK
<1> DEFINE O == Outside(W, E)
           N == NodeSet(T)
<1>3. E \subseteq Key /\ k \in Key /\ IsFiniteSet(E) /\ IsFiniteSet(O) /\ O \subseteq E
  <2>1. E \subseteq Key
    BY DEF RoomFor
  <2>2. IsFiniteSet(E)
    BY <2>1, TableAssumption, FS_Subset
  <2>3. O \subseteq E
    BY DEF Outside
  <2> QED
    BY <2>1, <2>2, <2>3, FS_Subset
<1>4. T.array \in Seq(Key \cup {Nil})
  BY <1>2, ShapeFacts
<1>5. \A q \in E : q \in O <=> ~InArray(T, q)
  <2> SUFFICES ASSUME NEW q \in E PROVE q \in O <=> ~InArray(T, q)
    OBVIOUS
  <2>1. InArray(T, q) <=> q \in IntKey /\ q \in 1 .. Len(T.array)
    BY <1>3, <1>4, InArrayFacts
  <2>2. q \in 1 .. Len(T.array) => q \in IntKey
    <3>1. q \in 1 .. Len(T.array) => q \in Nat
      BY <1>4, InArrayFacts
    <3> QED
      BY <1>3, <3>1, IntegersApart
  <2> QED
    BY <1>1, <2>1, <2>2 DEF Outside
<1>6. k \in O
  BY <1>5
<1>7. Cardinality(O) \in Nat /\ Cardinality(O) # 0
      /\ IsFiniteSet(O \ {k}) /\ Cardinality(O \ {k}) = Cardinality(O) - 1
  <2> HIDE DEF O
  <2> QED
    BY <1>3, <1>6, FS_CardinalityType, FS_EmptySet, FS_RemoveElement
<1> SUFFICES ASSUME Full(T, k) PROVE FALSE
  OBVIOUS
<1>8. ~T.dummy /\ Cardinality(O) <= sizenode(T)
  <2>1. Cardinality(O) <= (IF W.dummy THEN 0 ELSE sizenode(W))
    BY DEF RoomFor
  <2> HIDE DEF O
  <2> QED
    BY <1>1, <1>7, <2>1
<1>9. \A i \in N : T.node[i].key # Nil
  BY <1>2, <1>8, NoFreeNode DEF Full
<1>10. ASSUME NEW i \in N
       PROVE  T.node[i].key \in O \ {k} /\ ~T.node[i].dead
  <2> DEFINE q == T.node[i].key
  <2>1. q \in Key /\ T.node[i].val # Nil /\ NodeOK(T, T.node[i])
    BY <1>1, <1>2, <1>9, ShapeFacts DEF Filled, ShapeOK
  <2>2. ~T.node[i].dead /\ ~InArray(T, q)
    BY <1>9, <2>1 DEF NodeOK
  <2>3. luaH_get(T, q) # Nil
    BY <1>2, <2>1, <2>2, GetFacts
  <2>4. q \in D
    BY <1>1, <2>1, <2>3
  <2> HIDE DEF q
  <2>5. q \in O /\ q # k
    BY <1>5, <2>2, <2>4
  <2> QED
    BY <2>2, <2>5 DEF q
<1> DEFINE f == [i \in N |-> T.node[i].key]
<1>11. f \in [N -> O \ {k}]
  <2> HIDE DEF O, N
  <2> QED
    BY <1>10
<1>12. IsFiniteSet(N) /\ Cardinality(N) = sizenode(T)
  <2>1. sizenode(T) \in Nat \ {0}
    BY <1>2, ShapeFacts
  <2>2. sizenode(T) - 1 \in Int /\ ~(0 > sizenode(T) - 1)
        /\ (sizenode(T) - 1) - 0 + 1 = sizenode(T)
    BY <2>1
  <2> QED
    BY <2>2, FS_Interval DEF NodeSet
<1>13. Cardinality(O \ {k}) < Cardinality(N)
  <2>1. sizenode(T) \in Nat
    BY <1>2, ShapeFacts
  <2> HIDE DEF O, N
  <2> QED
    BY <1>7, <1>8, <1>12, <2>1
<1>14. PICK i, j \in N : i # j /\ f[i] = f[j]
  <2> HIDE DEF O, N, f
  <2> QED
    BY <1>7, <1>11, <1>12, <1>13, FS_PigeonHole
<1>15. T.node[i].key = T.node[j].key /\ T.node[i].key \in Key
  <2>1. T.node[i].key = T.node[j].key
    BY <1>14
  <2>2. T.node[i].key \in O
    BY <1>10
  <2> QED
    BY <1>3, <2>1, <2>2
<1>16. i = j
  <2>1. ~T.node[i].dead /\ ~T.node[j].dead
    BY <1>10
  <2> QED
    BY <1>2, <1>15, <2>1, HeldOnce
<1> QED
  BY <1>14, <1>16

(* One element moves.                                                      *)
LEMMA RefillStep ==
  ASSUME NEW W, W.ref \in [Collectable -> Nat], NEW D, NEW E, RoomFor(W, E), D \subseteq E,
         NEW T, Refilled(W, D, T), NEW k \in E, k \notin D,
         NEW T2, T2 = Store(T, k, k)
  PROVE  Refilled(W, D \cup {k}, T2)
<1>1. /\ Holding(W, D, T) /\ TableOK(T) /\ Filled(T)
      /\ Len(T.array) = Len(W.array) /\ sizenode(T) = sizenode(W) /\ T.dummy = W.dummy
      /\ \A q \in Key : luaH_get(T, q) = IF q \in D THEN q ELSE Nil
  BY DEF Refilled, Holding
<1>2. k \in Key /\ k # Nil
  BY IntegersApart DEF RoomFor
<1>3. ~HasSlot(T, k) => ~Full(T, k)
  BY <1>1, NotFull DEF HasSlot
<1>4. Stored(T, k, k, T2)
  BY <1>1, <1>2, <1>3, StoreFacts
<1>5. luaH_get(T, k) = Nil
  BY <1>1, <1>2
<1>6. Filled(T2) /\ T2.ref = Taken(T.ref, k)
  BY <1>1, <1>2, <1>4, <1>5 DEF Stored
<1>7. Holding(W, D \cup {k}, T2)
  <2>1. \A q \in Key : luaH_get(T2, q) = IF q \in D \cup {k} THEN q ELSE Nil
    BY <1>1, <1>4 DEF Stored
  <2> QED
    BY <1>1, <1>4, <1>6, <2>1 DEF Holding, Stored
<1>8. ASSUME NEW q \in Collectable
      PROVE  T2.ref[q] = IF q \in D \cup {k} THEN W.ref[q] + 1 ELSE W.ref[q]
  <2>1. T.ref[q] = IF q \in D THEN W.ref[q] + 1 ELSE W.ref[q]
    BY DEF Refilled
  <2>2. T.ref \in [Collectable -> Nat]
    BY <1>1, ShapeFacts DEF TableOK
  <2>3. T2.ref[q] = IF q = k THEN T.ref[q] + 1 ELSE T.ref[q]
    BY <1>6, <2>2, TakenFacts
  <2> QED
    BY <2>1, <2>3
<1> QED
  BY <1>7, <1>8 DEF Refilled

(* The keys in use in the array part, and all of them                      *)
ArrayKeys(T) == {k \in 1 .. Len(T.array) : T.array[k] # Nil}

KeysInUse(T) == {q \in Key : luaH_get(T, q) # Nil}

(* A key is in use in the array part or in one node.                       *)
LEMMA KeysInUseFacts ==
  ASSUME NEW T, TableOK(T)
  PROVE  /\ \A k \in ArrayKeys(T) : k \in Nat /\ k \in IntKey /\ T.array[k] = k
         /\ \A i \in InUse(T) : /\ i \in NodeSet(T) /\ T.node[i].val = T.node[i].key
                                /\ T.node[i].key \in KeysInUse(T) \ ArrayKeys(T)
                                /\ ~T.node[i].dead
         /\ ArrayKeys(T) \subseteq KeysInUse(T)
         /\ \A q \in KeysInUse(T) \ ArrayKeys(T) : \E i \in InUse(T) : T.node[i].key = q
         /\ \A i, j \in InUse(T) : T.node[i].key = T.node[j].key => i = j
         /\ InUse(T) = {i \in NodeSet(T) : T.node[i].val # Nil}
<1>1. ShapeOK(T) /\ LinksOK(T)
  BY DEF TableOK
<1>2. T.array \in Seq(Key \cup {Nil}) /\ ArrayOK(T.array) /\ DOMAIN T.node = NodeSet(T)
  BY <1>1, RecordFacts DEF ShapeOK, ArrayOK
<1>3. ASSUME NEW k \in ArrayKeys(T)
      PROVE  k \in Nat /\ k \in IntKey /\ T.array[k] = k /\ k \in KeysInUse(T)
  <2>1. k \in 1 .. Len(T.array) /\ T.array[k] # Nil
    BY DEF ArrayKeys
  <2>2. T.array[k] = k /\ k \in Nat
    BY <1>2, <2>1 DEF ArrayOK
  <2>3. k \in Key
    BY <1>2, <2>1, <2>2
  <2>4. k \in IntKey
    BY <2>2, <2>3, IntegersApart
  <2>5. InArray(T, k)
    BY <1>2, <2>1, <2>2, InArrayFacts
  <2>6. luaH_get(T, k) # Nil
    BY <2>1, <2>5 DEF luaH_get
  <2> QED
    BY <2>2, <2>3, <2>4, <2>6 DEF KeysInUse
<1>4. ASSUME NEW i \in InUse(T)
      PROVE  /\ i \in NodeSet(T) /\ T.node[i].val = T.node[i].key
             /\ T.node[i].key \in KeysInUse(T) \ ArrayKeys(T)
             /\ ~T.node[i].dead
  <2>1. i \in NodeSet(T) /\ T.node[i].val # Nil
    BY <1>2 DEF InUse
  <2>2. NodeOK(T, T.node[i]) /\ T.node[i].key \in Key \cup {Nil}
    BY <1>1, <2>1, ShapeFacts DEF ShapeOK
  <2>3. T.node[i].val = T.node[i].key /\ ~T.node[i].dead /\ T.node[i].key # Nil
    BY <2>1, <2>2 DEF NodeOK
  <2>4. ~InArray(T, T.node[i].key) /\ T.node[i].key \in Key
    BY <2>2, <2>3 DEF NodeOK
  <2>5. luaH_get(T, T.node[i].key) # Nil
    BY <1>1, <2>1, <2>3, <2>4, GetFacts
  <2>6. T.node[i].key \notin ArrayKeys(T)
    <3>1. ASSUME T.node[i].key \in ArrayKeys(T) PROVE InArray(T, T.node[i].key)
      BY <1>2, <1>3, <3>1, InArrayFacts DEF ArrayKeys
    <3> QED
      BY <2>4, <3>1
  <2> QED
    BY <2>1, <2>3, <2>4, <2>5, <2>6 DEF KeysInUse
<1>5. ASSUME NEW q \in KeysInUse(T) \ ArrayKeys(T)
      PROVE  \E i \in InUse(T) : T.node[i].key = q
  <2>1. q \in Key /\ luaH_get(T, q) # Nil
    BY DEF KeysInUse
  <2>2. ~InArray(T, q)
    <3>1. ASSUME InArray(T, q) PROVE q \in ArrayKeys(T)
      BY <1>1, <2>1, <3>1, GetFacts DEF ArrayKeys
    <3> QED
      BY <3>1
  <2>3. PICK i \in NodeSet(T) : T.node[i].key = q /\ ~T.node[i].dead
    BY <1>1, <2>1, <2>2, GetFacts DEF HeldLive
  <2>4. T.node[i].val # Nil
    BY <1>1, <2>1, <2>3, GetFacts
  <2> QED
    BY <1>2, <2>3, <2>4 DEF InUse
<1>6. ASSUME NEW i \in InUse(T), NEW j \in InUse(T), T.node[i].key = T.node[j].key
      PROVE  i = j
  <2>1. T.node[i].key \in Key
    BY <1>4 DEF KeysInUse
  <2> QED
    BY <1>1, <1>4, <1>6, <2>1, HeldOnce
<1>7. InUse(T) = {i \in NodeSet(T) : T.node[i].val # Nil}
  BY <1>2 DEF InUse
<1>8. ArrayKeys(T) \subseteq KeysInUse(T)
  BY <1>3
<1> QED
  BY <1>3, <1>4, <1>5, <1>6, <1>7, <1>8

(* A table that is being refilled is a record of the type of W.            *)
LEMMA RefilledType ==
  ASSUME NEW W, NEW D, NEW T, Refilled(W, D, T)
  PROVE  T \in TableRecord(sizenode(W))
<1>1. ShapeOK(T) /\ sizenode(T) = sizenode(W)
  BY DEF Refilled, Holding, TableOK
<1>2. T \in TableRecord(sizenode(T))
  BY <1>1, RecordFacts
<1> QED
  BY <1>1, <1>2

(* One turn of the loop over the vanishing slice, and the keys that have   *)
(* moved after n turns                                                     *)
SliceTurn(T, nasize, n, c) ==
  IF n > nasize /\ T.array[n] # Nil THEN Store(c, n, T.array[n]) ELSE c

SliceKeys(T, nasize, n) == {k \in ArrayKeys(T) : k <= nasize \/ k <= n}

(* A turn of that loop inserts one element of the vanishing slice.         *)
LEMMA SliceTurnFacts ==
  ASSUME NEW T, TableOK(T), NEW nasize \in Nat, NEW W, W.ref \in [Collectable -> Nat],
         NEW E, RoomFor(W, E), KeysInUse(T) \subseteq E,
         NEW n \in 1 .. Len(T.array), NEW c, Refilled(W, SliceKeys(T, nasize, n - 1), c)
  PROVE  Refilled(W, SliceKeys(T, nasize, n), SliceTurn(T, nasize, n, c))
<1> DEFINE D == SliceKeys(T, nasize, n - 1)
<1>1. n \in Nat /\ \A k \in ArrayKeys(T) : k \in Nat
  BY KeysInUseFacts
<1>2. CASE n > nasize /\ T.array[n] # Nil
  <2>1. n \in ArrayKeys(T) /\ T.array[n] = n /\ n \in E
    BY <1>2, KeysInUseFacts DEF ArrayKeys
  <2>2. n \notin D /\ D \subseteq E /\ SliceKeys(T, nasize, n) = D \cup {n}
    <3>1. n \notin D
      BY <1>1, <1>2 DEF SliceKeys
    <3>2. D \subseteq E
      BY KeysInUseFacts DEF SliceKeys
    <3>3. \A k \in ArrayKeys(T) : k <= n <=> (k <= n - 1 \/ k = n)
      BY <1>1
    <3>4. SliceKeys(T, nasize, n) = D \cup {n}
      BY <1>2, <2>1, <3>3 DEF SliceKeys
    <3> QED
      BY <3>1, <3>2, <3>4
  <2>3. SliceTurn(T, nasize, n, c) = Store(c, n, n)
    BY <1>2, <2>1 DEF SliceTurn
  <2> HIDE DEF D
  <2>4. Refilled(W, D, c)
    BY DEF D
  <2>5. Refilled(W, D \cup {n}, Store(c, n, n))
    BY <2>1, <2>2, <2>4, RefillStep
  <2> QED
    BY <2>2, <2>3, <2>5
<1>3. CASE ~(n > nasize /\ T.array[n] # Nil)
  <2>1. \A k \in ArrayKeys(T) : k <= nasize \/ k <= n <=> k <= nasize \/ k <= n - 1
    <3> SUFFICES ASSUME NEW k \in ArrayKeys(T)
                 PROVE  k <= nasize \/ k <= n <=> k <= nasize \/ k <= n - 1
      OBVIOUS
    <3>1. k = n => k <= nasize
      BY <1>1, <1>3 DEF ArrayKeys
    <3> QED
      BY <1>1, <3>1
  <2>2. SliceKeys(T, nasize, n) = D
    BY <2>1 DEF SliceKeys
  <2>3. SliceTurn(T, nasize, n, c) = c
    BY <1>3 DEF SliceTurn
  <2> QED
    BY <2>2, <2>3
<1> QED
  BY <1>2, <1>3

(* The elements of the vanishing slice are in the new table.               *)
LEMMA FromSliceFacts ==
  ASSUME NEW T, TableOK(T), NEW nasize \in Nat, NEW W, W.ref \in [Collectable -> Nat],
         NEW E, RoomFor(W, E), KeysInUse(T) \subseteq E,
         Refilled(W, SliceKeys(T, nasize, 0), W)
  PROVE  Refilled(W, ArrayKeys(T), FromSlice(T, nasize, W))
<1> DEFINE K == Len(T.array)
           St == TableRecord(sizenode(W))
           I == [n \in 0 .. K |-> {c \in St : Refilled(W, SliceKeys(T, nasize, n), c)}]
           g == [p \in (1 .. K) \X St |-> SliceTurn(T, nasize, p[1], p[2])]
           shrink[i \in 0 .. Len(T.array)] ==
             IF i = 0 THEN W
             ELSE IF i > nasize /\ T.array[i] # Nil
                  THEN Store(shrink[i - 1], i, T.array[i])
                  ELSE shrink[i - 1]
<1>1. K \in Nat
  BY ShapeFacts DEF TableOK
<1>2. \A n \in 0 .. K : \A c : c \in I[n] <=> Refilled(W, SliceKeys(T, nasize, n), c)
  <2> SUFFICES ASSUME NEW n \in 0 .. K, NEW c
               PROVE  c \in I[n] <=> Refilled(W, SliceKeys(T, nasize, n), c)
    OBVIOUS
  <2>1. Refilled(W, SliceKeys(T, nasize, n), c) => c \in St
    BY RefilledType
  <2>2. I[n] = {x \in St : Refilled(W, SliceKeys(T, nasize, n), x)}
    OBVIOUS
  <2> HIDE DEF I, St
  <2> QED
    BY <2>1, <2>2
<1>3. \A n \in 0 .. K : I[n] \subseteq St
  OBVIOUS
<1>4. \A n \in 1 .. K : n \in 0 .. K /\ n - 1 \in 0 .. K
  BY <1>1
<1>5. \A n \in 1 .. K : \A c \in I[n - 1] : SliceTurn(T, nasize, n, c) \in I[n]
  <2> HIDE DEF I, St
  <2> QED
    BY <1>2, <1>4, SliceTurnFacts
<1>6. \A n \in 1 .. K : \A c \in St : g[<<n, c>>] = SliceTurn(T, nasize, n, c)
  <2> HIDE DEF St
  <2> QED
    OBVIOUS
<1>7. W \in I[0] /\ 0 \in 0 .. K
  <2> HIDE DEF I, St
  <2> QED
    BY <1>1, <1>2
<1>8. PICK f : LoopOf(f, K, I, W, g)
  <2>1. \A n \in 1 .. K : \A c \in I[n - 1] : g[<<n, c>>] \in I[n]
    <3> HIDE DEF g, I, St
    <3> QED
      BY <1>3, <1>4, <1>5, <1>6
  <2> HIDE DEF g, I, St, K
  <2> QED
    BY <1>1, <1>3, <1>7, <2>1, LoopWithin
<1> HIDE DEF g, I, St
<1>9. f = [n \in 0 .. K |-> IF n = 0 THEN W ELSE SliceTurn(T, nasize, n, f[n - 1])]
  <2>1. \A n \in 0 .. K : n # 0 => g[<<n, f[n - 1]>>] = SliceTurn(T, nasize, n, f[n - 1])
    <3> SUFFICES ASSUME NEW n \in 0 .. K, n # 0
                 PROVE  g[<<n, f[n - 1]>>] = SliceTurn(T, nasize, n, f[n - 1])
      OBVIOUS
    <3>1. n \in 1 .. K
      BY <1>1
    <3>2. f[n - 1] \in St
      BY <1>3, <1>4, <1>8, <3>1 DEF LoopOf
    <3> QED
      BY <1>6, <3>1, <3>2
  <2> HIDE DEF K
  <2> QED
    BY <1>8, <2>1 DEF LoopOf
<1>10. shrink = CHOOSE h : h = [n \in 0 .. K |-> IF n = 0 THEN W
                                                ELSE SliceTurn(T, nasize, n, h[n - 1])]
  BY DEF SliceTurn
<1>11. FromSlice(T, nasize, W) = shrink[K]
  BY DEF FromSlice
<1> HIDE DEF shrink
<1>12. shrink = [n \in 0 .. K |-> IF n = 0 THEN W ELSE SliceTurn(T, nasize, n, shrink[n - 1])]
  <2> HIDE DEF K
  <2> QED
    BY <1>9, <1>10
<1>13. \A n \in 0 .. K : shrink[n] \in I[n]
  <2>1. shrink[0] \in I[0]
    <3>1. shrink[0] = W
      BY <1>7, <1>12
    <3> QED
      BY <1>7, <3>1
  <2>2. ASSUME NEW n \in 1 .. K, shrink[n - 1] \in I[n - 1] PROVE shrink[n] \in I[n]
    <3>1. shrink[n] = SliceTurn(T, nasize, n, shrink[n - 1])
      BY <1>4, <1>12
    <3> QED
      BY <1>5, <2>2, <3>1
  <2> HIDE DEF K
  <2> QED
    BY <1>1, <2>1, <2>2, LoopInduction
<1>14. Refilled(W, SliceKeys(T, nasize, K), shrink[K])
  <2>1. K \in 0 .. K
    BY <1>1
  <2> QED
    BY <1>2, <1>13, <2>1
<1>15. SliceKeys(T, nasize, K) = ArrayKeys(T)
  BY DEF SliceKeys, ArrayKeys
<1> QED
  BY <1>11, <1>14, <1>15

(* The same for the loop over the old nodes, from the last to the first    *)
NodeTurn(T, n, c) ==
  IF T.node[sizenode(T) - n].val # Nil
  THEN Store(c, T.node[sizenode(T) - n].key, T.node[sizenode(T) - n].val)
  ELSE c

MovedKeys(T, n) ==
  {q \in Key : q \in ArrayKeys(T) \/ \E i \in InUse(T) : T.node[i].key = q /\ sizenode(T) - n <= i}

(* A turn of that loop inserts one element of the old hash part.           *)
LEMMA NodeTurnFacts ==
  ASSUME NEW T, TableOK(T), NEW W, W.ref \in [Collectable -> Nat],
         NEW E, RoomFor(W, E), KeysInUse(T) \subseteq E,
         NEW n \in 1 .. sizenode(T), NEW c, Refilled(W, MovedKeys(T, n - 1), c)
  PROVE  Refilled(W, MovedKeys(T, n), NodeTurn(T, n, c))
<1> DEFINE D == MovedKeys(T, n - 1)
           m == sizenode(T) - n
<1>1. sizenode(T) \in Nat /\ NodeSet(T) = 0 .. sizenode(T) - 1 /\ NodeSet(T) \subseteq Int
  BY ShapeFacts DEF TableOK, NodeSet
<1>2. n \in Nat /\ m \in NodeSet(T) /\ sizenode(T) - (n - 1) = m + 1 /\ m \in Int
  BY <1>1
<1>3. \A i \in InUse(T) : i \in Int
  BY <1>1, KeysInUseFacts
<1>4. \A i \in InUse(T) : m <= i <=> m + 1 <= i \/ i = m
  <2> HIDE DEF m
  <2> QED
    BY <1>2, <1>3
<1>5. \A q : q \in D <=> q \in Key /\ (q \in ArrayKeys(T)
                                       \/ \E i \in InUse(T) : T.node[i].key = q /\ m + 1 <= i)
  BY <1>2 DEF MovedKeys
<1>6. \A q : q \in MovedKeys(T, n) <=>
               q \in Key /\ (q \in ArrayKeys(T) \/ \E i \in InUse(T) : T.node[i].key = q /\ m <= i)
  BY DEF MovedKeys
<1>7. NodeTurn(T, n, c) = IF T.node[m].val # Nil THEN Store(c, T.node[m].key, T.node[m].val) ELSE c
  BY DEF NodeTurn
<1>8. D \subseteq E
  <2>1. \A q \in D : q \in KeysInUse(T)
    <3> HIDE DEF D, m
    <3> QED
      BY <1>5, KeysInUseFacts
  <2> QED
    BY <2>1
<1> HIDE DEF D, m
<1>9. CASE T.node[m].val # Nil
  <2> DEFINE k == T.node[m].key
  <2>1. m \in InUse(T)
    BY <1>2, <1>9, KeysInUseFacts
  <2>2. T.node[m].val = k /\ k \in KeysInUse(T) \ ArrayKeys(T) /\ k \in E /\ k \in Key
    BY <2>1, KeysInUseFacts DEF KeysInUse
  <2>3. k \notin D
    <3> SUFFICES ASSUME NEW i \in InUse(T), T.node[i].key = k, m + 1 <= i PROVE FALSE
      BY <1>5, <2>2
    <3>1. i = m
      BY <2>1, KeysInUseFacts
    <3> QED
      BY <1>2, <3>1
  <2>4. MovedKeys(T, n) = D \cup {k}
    <3>1. \A q : q \in MovedKeys(T, n) <=> q \in D \cup {k}
      <4> SUFFICES ASSUME NEW q PROVE q \in MovedKeys(T, n) <=> q \in D \/ q = k
        OBVIOUS
      <4>1. q \in MovedKeys(T, n) => q \in D \/ q = k
        BY <1>4, <1>5, <1>6
      <4>2. q \in D => q \in MovedKeys(T, n)
        BY <1>4, <1>5, <1>6
      <4>3. k \in MovedKeys(T, n)
        <5>1. m <= m
          BY <1>2
        <5> QED
          BY <1>6, <2>1, <2>2, <5>1
      <4> QED
        BY <4>1, <4>2, <4>3
    <3> QED
      BY <3>1
  <2>5. NodeTurn(T, n, c) = Store(c, k, k)
    BY <1>7, <1>9, <2>2
  <2> HIDE DEF k
  <2>6. Refilled(W, D, c)
    BY DEF D
  <2>7. Refilled(W, D \cup {k}, Store(c, k, k))
    BY <1>8, <2>2, <2>3, <2>6, RefillStep
  <2> QED
    BY <2>4, <2>5, <2>7
<1>10. CASE T.node[m].val = Nil
  <2>1. m \notin InUse(T)
    BY <1>10, KeysInUseFacts
  <2>2. MovedKeys(T, n) = D
    <3>1. \A i \in InUse(T) : m <= i <=> m + 1 <= i
      BY <1>4, <2>1
    <3>2. \A q : q \in MovedKeys(T, n) <=> q \in D
      BY <1>5, <1>6, <3>1
    <3> QED
      BY <3>2
  <2>3. NodeTurn(T, n, c) = c
    BY <1>7, <1>10
  <2> QED
    BY <2>2, <2>3 DEF D
<1> QED
  BY <1>9, <1>10

(* All elements are in the new table.                                      *)
LEMMA FromNodesFacts ==
  ASSUME NEW T, TableOK(T), NEW W, W.ref \in [Collectable -> Nat],
         NEW E, RoomFor(W, E), KeysInUse(T) \subseteq E,
         NEW c0, Refilled(W, ArrayKeys(T), c0)
  PROVE  Refilled(W, KeysInUse(T), FromNodes(T, c0))
<1> DEFINE K == sizenode(T)
           St == TableRecord(sizenode(W))
           I == [n \in 0 .. K |-> {c \in St : Refilled(W, MovedKeys(T, n), c)}]
           g == [p \in (1 .. K) \X St |-> NodeTurn(T, p[1], p[2])]
           old(i) == T.node[sizenode(T) - i]
           refill[i \in 0 .. sizenode(T)] ==
             IF i = 0 THEN c0
             ELSE IF old(i).val # Nil THEN Store(refill[i - 1], old(i).key, old(i).val)
             ELSE refill[i - 1]
<1>1. K \in Nat
  BY ShapeFacts DEF TableOK
<1>2. \A n \in 0 .. K : \A c : c \in I[n] <=> Refilled(W, MovedKeys(T, n), c)
  <2> SUFFICES ASSUME NEW n \in 0 .. K, NEW c
               PROVE  c \in I[n] <=> Refilled(W, MovedKeys(T, n), c)
    OBVIOUS
  <2>1. Refilled(W, MovedKeys(T, n), c) => c \in St
    BY RefilledType
  <2>2. I[n] = {x \in St : Refilled(W, MovedKeys(T, n), x)}
    OBVIOUS
  <2> HIDE DEF I, St
  <2> QED
    BY <2>1, <2>2
<1>3. \A n \in 0 .. K : I[n] \subseteq St
  OBVIOUS
<1>4. \A n \in 1 .. K : n \in 0 .. K /\ n - 1 \in 0 .. K
  BY <1>1
<1>5. \A n \in 1 .. K : \A c \in I[n - 1] : NodeTurn(T, n, c) \in I[n]
  <2> HIDE DEF I, St
  <2> QED
    BY <1>2, <1>4, NodeTurnFacts
<1>6. \A n \in 1 .. K : \A c \in St : g[<<n, c>>] = NodeTurn(T, n, c)
  <2> HIDE DEF St
  <2> QED
    OBVIOUS
<1>7. c0 \in I[0] /\ 0 \in 0 .. K
  <2>1. MovedKeys(T, 0) = ArrayKeys(T)
    <3>1. \A i \in InUse(T) : ~(K - 0 <= i)
      <4> SUFFICES ASSUME NEW i \in InUse(T) PROVE ~(K - 0 <= i)
        OBVIOUS
      <4>1. i \in 0 .. K - 1
        BY KeysInUseFacts DEF NodeSet
      <4> QED
        BY <1>1, <4>1
    <3>2. \A k \in ArrayKeys(T) : k \in Key
      BY KeysInUseFacts DEF KeysInUse
    <3> QED
      BY <3>1, <3>2 DEF MovedKeys
  <2> HIDE DEF I, St
  <2> QED
    BY <1>1, <1>2, <2>1
<1>8. PICK f : LoopOf(f, K, I, c0, g)
  <2>1. \A n \in 1 .. K : \A c \in I[n - 1] : g[<<n, c>>] \in I[n]
    <3> HIDE DEF g, I, St
    <3> QED
      BY <1>3, <1>4, <1>5, <1>6
  <2> HIDE DEF g, I, St, K
  <2> QED
    BY <1>1, <1>3, <1>7, <2>1, LoopWithin
<1> HIDE DEF g, I, St
<1>9. f = [n \in 0 .. K |-> IF n = 0 THEN c0 ELSE NodeTurn(T, n, f[n - 1])]
  <2>1. \A n \in 0 .. K : n # 0 => g[<<n, f[n - 1]>>] = NodeTurn(T, n, f[n - 1])
    <3> SUFFICES ASSUME NEW n \in 0 .. K, n # 0
                 PROVE  g[<<n, f[n - 1]>>] = NodeTurn(T, n, f[n - 1])
      OBVIOUS
    <3>1. n \in 1 .. K
      BY <1>1
    <3>2. f[n - 1] \in St
      BY <1>3, <1>4, <1>8, <3>1 DEF LoopOf
    <3> QED
      BY <1>6, <3>1, <3>2
  <2> HIDE DEF K
  <2> QED
    BY <1>8, <2>1 DEF LoopOf
<1>10. refill = CHOOSE h : h = [n \in 0 .. K |-> IF n = 0 THEN c0
                                                ELSE NodeTurn(T, n, h[n - 1])]
  BY DEF NodeTurn
<1>11. FromNodes(T, c0) = refill[K]
  BY DEF FromNodes
<1> HIDE DEF refill
<1>12. refill = [n \in 0 .. K |-> IF n = 0 THEN c0 ELSE NodeTurn(T, n, refill[n - 1])]
  <2> HIDE DEF K
  <2> QED
    BY <1>9, <1>10
<1>13. \A n \in 0 .. K : refill[n] \in I[n]
  <2>1. refill[0] \in I[0]
    <3>1. refill[0] = c0
      BY <1>7, <1>12
    <3> QED
      BY <1>7, <3>1
  <2>2. ASSUME NEW n \in 1 .. K, refill[n - 1] \in I[n - 1] PROVE refill[n] \in I[n]
    <3>1. refill[n] = NodeTurn(T, n, refill[n - 1])
      BY <1>4, <1>12
    <3> QED
      BY <1>5, <2>2, <3>1
  <2> HIDE DEF K
  <2> QED
    BY <1>1, <2>1, <2>2, LoopInduction
<1>14. Refilled(W, MovedKeys(T, K), refill[K])
  <2>1. K \in 0 .. K
    BY <1>1
  <2> QED
    BY <1>2, <1>13, <2>1
<1>15. MovedKeys(T, K) = KeysInUse(T)
  <2>1. \A i \in InUse(T) : K - K <= i
    <3> SUFFICES ASSUME NEW i \in InUse(T) PROVE K - K <= i
      OBVIOUS
    <3>1. i \in 0 .. K - 1
      BY KeysInUseFacts DEF NodeSet
    <3> QED
      BY <1>1, <3>1
  <2>2. \A q \in KeysInUse(T) : q \in Key
    BY DEF KeysInUse
  <2>3. \A q : q \in MovedKeys(T, K) <=>
                 q \in Key /\ (q \in ArrayKeys(T) \/ \E i \in InUse(T) : T.node[i].key = q)
    BY <2>1 DEF MovedKeys
  <2>4. \A q : q \in MovedKeys(T, K) <=> q \in KeysInUse(T)
    BY <2>2, <2>3, KeysInUseFacts
  <2> QED
    BY <2>4
<1> QED
  BY <1>11, <1>14, <1>15

(* The array part with another length                                      *)
LEMMA ArrayVectorFacts ==
  ASSUME NEW T, TableOK(T), NEW nasize \in Nat, NEW a, a = ArrayVector(T, nasize)
  PROVE  /\ ArrayOK(a) /\ Len(a) = nasize
         /\ \A k \in 1 .. nasize : a[k] = IF k <= Len(T.array) THEN T.array[k] ELSE Nil
<1>1. T.array \in Seq(Key \cup {Nil}) /\ ArrayOK(T.array) /\ Len(T.array) \in Nat
  BY DEF TableOK, ShapeOK, ArrayOK
<1>2. a = [k \in 1 .. nasize |-> IF k <= Len(T.array) THEN T.array[k] ELSE Nil]
  BY DEF ArrayVector
<1>3. \A k \in 1 .. nasize : a[k] = IF k <= Len(T.array) THEN T.array[k] ELSE Nil
  BY <1>2
<1>4. \A k \in 1 .. nasize : a[k] \in Key \cup {Nil} /\ (a[k] # Nil => a[k] = k)
  <2> SUFFICES ASSUME NEW k \in 1 .. nasize
               PROVE  a[k] \in Key \cup {Nil} /\ (a[k] # Nil => a[k] = k)
    OBVIOUS
  <2>1. k <= Len(T.array) => k \in 1 .. Len(T.array)
    BY <1>1
  <2> QED
    BY <1>1, <1>3, <2>1 DEF ArrayOK
<1>5. a \in [1 .. nasize -> Key \cup {Nil}]
  <2>1. a = [k \in 1 .. nasize |-> a[k]]
    BY <1>2
  <2> QED
    BY <1>4, <2>1
<1>6. a \in Seq(Key \cup {Nil}) /\ Len(a) = nasize
  BY <1>5
<1> QED
  BY <1>3, <1>4, <1>6 DEF ArrayOK

(* The new table before anything is inserted                               *)
LEMMA FreshRefilled ==
  ASSUME NEW T, TableOK(T), NEW nasize \in Nat, NEW nhsize \in Nat, nhsize <= twoto[MaxBits],
         NEW W, W = Table(ArrayVector(T, nasize), NodeVector(nhsize), T.ref)
  PROVE  /\ Refilled(W, SliceKeys(T, nasize, 0), W)
         /\ W.ref = T.ref /\ Len(W.array) = nasize
         /\ W.dummy <=> nhsize = 0
         /\ sizenode(W) >= nhsize
<1> DEFINE a == ArrayVector(T, nasize)
<1>1. /\ ArrayOK(a) /\ Len(a) = nasize
      /\ \A k \in 1 .. nasize : a[k] = IF k <= Len(T.array) THEN T.array[k] ELSE Nil
  BY ArrayVectorFacts
<1>2. T.ref \in [Collectable -> Nat] /\ Len(T.array) \in Nat
  BY ShapeFacts DEF TableOK
<1> HIDE DEF a
<1>3. Fresh(a, nhsize, T.ref, W)
  BY <1>1, <1>2, NewTable DEF a
<1>4. /\ TableOK(W) /\ Filled(W)
      /\ W.array = a /\ W.ref = T.ref /\ (W.dummy <=> nhsize = 0) /\ sizenode(W) >= nhsize
      /\ \A q \in Key : luaH_get(W, q) = IF InArray(W, q) THEN a[q] ELSE Nil
  BY <1>3 DEF Fresh
<1>5. \A q \in Key : InArray(W, q) <=> q \in IntKey /\ q \in 1 .. nasize
  <2>1. W.array \in Seq(Key \cup {Nil})
    BY <1>4, ShapeFacts DEF TableOK
  <2> QED
    BY <1>1, <1>4, <2>1, InArrayFacts
<1> DEFINE D == SliceKeys(T, nasize, 0)
<1>6. ASSUME NEW q \in Key PROVE luaH_get(W, q) = IF q \in D THEN q ELSE Nil
  <2>1. CASE InArray(W, q)
    <3>1. q \in 1 .. nasize /\ luaH_get(W, q) = a[q] /\ q \in Nat
      BY <1>4, <1>5, <2>1
    <3>2. a[q] = IF q <= Len(T.array) THEN T.array[q] ELSE Nil
      BY <1>1, <3>1
    <3>3. q \in D <=> q <= Len(T.array) /\ T.array[q] # Nil
      BY <1>2, <3>1 DEF SliceKeys, ArrayKeys
    <3>4. q \in D => T.array[q] = q
      BY KeysInUseFacts DEF SliceKeys
    <3> HIDE DEF D
    <3> QED
      BY <3>1, <3>2, <3>3, <3>4
  <2>2. CASE ~InArray(W, q)
    <3>1. q \notin D
      <4> SUFFICES ASSUME q \in D PROVE FALSE
        OBVIOUS
      <4>1. q \in ArrayKeys(T) /\ (q <= nasize \/ q <= 0)
        BY DEF SliceKeys
      <4>2. q \in 1 .. Len(T.array) /\ q \in IntKey
        BY <4>1, KeysInUseFacts DEF ArrayKeys
      <4>3. q \in 1 .. nasize
        BY <1>2, <4>1, <4>2
      <4> QED
        BY <1>5, <2>2, <4>2, <4>3
    <3> QED
      BY <1>4, <2>2, <3>1
  <2> QED
    BY <2>1, <2>2
<1>7. \A q \in Collectable : q \notin D
  BY KeysInUseFacts, TableAssumption DEF SliceKeys
<1>8. Refilled(W, D, W)
  BY <1>4, <1>6, <1>7 DEF Refilled, Holding
<1> QED
  BY <1>1, <1>4, <1>8

(* What resize leaves behind: the same elements, an array part of the size *)
(* it was asked for, and room for the keys of E                            *)
Resized(T, nasize, E, T2) ==
  /\ TableOK(T2) /\ Len(T2.array) = nasize
  /\ \A q \in Key : luaH_get(T2, q) = luaH_get(T, q)
  /\ \A k \in E : k \notin KeysInUse(T) /\ ~HasSlot(T2, k) => ~Full(T2, k)

(* Every key of an old node has been taken once more and is given up once. *)
LEMMA RefsRestored ==
  ASSUME NEW T, TableOK(T), NEW ref, NEW q \in Collectable,
         ref[q] = IF q \in KeysInUse(T) THEN T.ref[q] + 1 ELSE T.ref[q]
  PROVE  GivenUp(ref, T.node, InUse(T))[q] = T.ref[q]
<1> DEFINE C == {i \in InUse(T) : T.node[i].key = q /\ ~T.node[i].dead}
<1>1. GivenUp(ref, T.node, InUse(T))[q] = ref[q] - Cardinality(C)
  BY DEF GivenUp
<1>2. \A i, j \in C : i = j
  BY KeysInUseFacts
<1>3. C # {} <=> q \in KeysInUse(T)
  <2>1. q \notin ArrayKeys(T)
    BY KeysInUseFacts, TableAssumption
  <2> QED
    BY <2>1, KeysInUseFacts
<1>4. T.ref[q] \in Nat
  BY ShapeFacts DEF TableOK
<1> HIDE DEF C
<1>5. Cardinality(C) \in {0, 1} /\ (C = {} => Cardinality(C) = 0) /\ (C # {} => Cardinality(C) = 1)
  BY <1>2, AtMostOne
<1> QED
  BY <1>1, <1>3, <1>4, <1>5

(* resize keeps every value, needs no rehash, and leaves the room it had.  *)
LEMMA ResizeFacts ==
  ASSUME NEW T, TableOK(T), NEW nasize \in Nat, NEW nhsize \in Nat, nhsize <= twoto[MaxBits],
         NEW E, KeysInUse(T) \subseteq E, E \subseteq Key,
         Cardinality({q \in E : ~(q \in 1 .. nasize)}) <= nhsize,
         NEW T2, T2 = resize(T, nasize, nhsize)
  PROVE  Resized(T, nasize, E, T2)
<1> DEFINE W == Table(ArrayVector(T, nasize), NodeVector(nhsize), T.ref)
           slice == FromSlice(T, nasize, W)
           moved == FromNodes(T, slice)
           D == KeysInUse(T)
<1>1. /\ Refilled(W, SliceKeys(T, nasize, 0), W)
      /\ W.ref = T.ref /\ Len(W.array) = nasize /\ (W.dummy <=> nhsize = 0)
      /\ sizenode(W) >= nhsize
  BY FreshRefilled
<1>2. T2 = [moved EXCEPT !.ref = GivenUp(moved.ref, T.node, InUse(T))]
  BY DEF resize
<1>3. ShapeOK(T) /\ RefsOK(T) /\ T.ref \in [Collectable -> Nat]
  BY ShapeFacts DEF TableOK
<1> HIDE DEF W
<1>4. RoomFor(W, E)
  <2>1. Cardinality(Outside(W, E)) <= nhsize
    BY <1>1 DEF Outside
  <2>2. sizenode(W) \in Nat
    BY <1>1, ShapeFacts DEF Refilled, Holding, TableOK
  <2>3. Cardinality(Outside(W, E)) \in Nat
    <3>1. Outside(W, E) \subseteq Key
      BY DEF Outside
    <3> QED
      BY <3>1, TableAssumption, FS_Subset, FS_CardinalityType
  <2> QED
    BY <1>1, <2>1, <2>2, <2>3 DEF RoomFor
<1>5. Refilled(W, ArrayKeys(T), slice)
  BY <1>1, <1>3, <1>4, FromSliceFacts
<1> HIDE DEF slice
<1>6. Refilled(W, D, moved)
  BY <1>1, <1>3, <1>4, <1>5, FromNodesFacts
<1> HIDE DEF moved
<1>7. /\ TableOK(moved) /\ Filled(moved) /\ ShapeOK(moved)
      /\ Len(moved.array) = nasize /\ sizenode(moved) = sizenode(W) /\ moved.dummy = W.dummy
      /\ \A q \in Key : luaH_get(moved, q) = IF q \in D THEN q ELSE Nil
      /\ \A q \in Collectable : moved.ref[q] = IF q \in D THEN T.ref[q] + 1 ELSE T.ref[q]
  BY <1>1, <1>6 DEF Refilled, Holding, TableOK
<1>8. GivenUp(moved.ref, T.node, InUse(T)) = T.ref
  <2> DEFINE rf == GivenUp(moved.ref, T.node, InUse(T))
  <2>1. \A q \in Collectable : rf[q] = T.ref[q]
    BY <1>7, RefsRestored
  <2>2. rf = [q \in Collectable |-> rf[q]]
    BY DEF GivenUp
  <2> HIDE DEF rf
  <2> QED
    BY <1>3, <2>1, <2>2 DEF rf
<1>9. /\ moved \in TableRecord(sizenode(moved)) /\ ArrayOK(moved.array)
      /\ T.ref \in [Collectable -> Int]
  <2>1. ShapeOK(moved)
    BY <1>7
  <2>2. moved \in TableRecord(sizenode(moved))
    BY <2>1, RecordFacts
  <2>3. ArrayOK(moved.array)
    BY <2>1 DEF ShapeOK
  <2>4. T.ref \in [Collectable -> Int]
    BY <1>3
  <2> QED
    BY <2>2, <2>3, <2>4
<1>10. /\ T2 \in TableRecord(sizenode(moved)) /\ T2.array = moved.array
       /\ T2.node = moved.node /\ T2.lastfree = moved.lastfree /\ T2.dummy = moved.dummy
       /\ T2.ref = T.ref
  BY <1>2, <1>8, <1>9 DEF TableRecord
<1>11. NodeSet(T2) = NodeSet(moved) /\ sizenode(T2) = sizenode(moved)
  BY <1>10 DEF NodeSet, sizenode
<1>12. ASSUME NEW q \in Collectable, HeldLive(moved, q) PROVE T.ref[q] >= 1
  <2>1. PICK i \in NodeSet(moved) : moved.node[i].key = q /\ ~moved.node[i].dead
    BY <1>12 DEF HeldLive
  <2>2. q \in Key /\ q # Nil
    BY IntegersApart DEF Collectable, Key
  <2>3. moved.node[i].val # Nil
    BY <1>7, <2>1, <2>2 DEF Filled
  <2>4. luaH_get(moved, q) # Nil
    BY <1>7, <2>1, <2>2, <2>3, GetFacts DEF TableOK
  <2>5. q \in D \ ArrayKeys(T)
    BY <1>7, <2>2, <2>4, KeysInUseFacts, TableAssumption
  <2>6. PICK j \in InUse(T) : T.node[j].key = q
    BY <2>5, KeysInUseFacts
  <2>7. HeldLive(T, q)
    BY <2>6, KeysInUseFacts DEF HeldLive
  <2> QED
    BY <1>3, <2>7 DEF RefsOK
<1>13. Touched(moved, T2)
  <2>1. ASSUME NEW i \in NodeSet(moved)
        PROVE  /\ moved.node[i].val # Nil => moved.node[i].val = moved.node[i].key
                                             /\ ~moved.node[i].dead
               /\ moved.node[i].dead => moved.node[i].key \in Collectable
               /\ moved.node[i].key = Nil => moved.node[i].val = Nil
    BY <1>7 DEF ShapeOK, NodeOK
  <2>2. \A q \in Collectable : T2.ref[q] \in Nat /\ (HeldLive(T2, q) => T2.ref[q] >= 1)
    BY <1>3, <1>10, <1>11, <1>12 DEF HeldLive
  <2> QED
    BY <1>9, <1>10, <2>1, <2>2 DEF Touched
<1>14. TableOK(T2)
  BY <1>7, <1>13, TouchedFacts
<1>15. ASSUME NEW q \in Key PROVE luaH_get(T2, q) = luaH_get(moved, q)
  <2>1. SameEntry(moved, T2, q)
    BY <1>7, <1>10 DEF SameEntry, ShapeOK, NodeOK
  <2> QED
    BY <1>7, <1>13, <2>1, TouchedGet
<1>16. Holding(W, D, T2)
  <2>1. Filled(T2)
    BY <1>7, <1>10, <1>11 DEF Filled
  <2> QED
    BY <1>1, <1>7, <1>10, <1>11, <1>14, <1>15, <2>1 DEF Holding
<1>17. ASSUME NEW k \in E, k \notin D, ~HasSlot(T2, k) PROVE ~Full(T2, k)
  BY <1>4, <1>16, <1>17, NotFull DEF HasSlot
<1>18. ASSUME NEW q \in Key PROVE luaH_get(T2, q) = luaH_get(T, q)
  <2>1. luaH_get(T2, q) = IF q \in D THEN q ELSE Nil
    BY <1>7, <1>15
  <2>2. luaH_get(T, q) = IF q \in D THEN q ELSE Nil
    <3>1. luaH_get(T, q) \in {q, Nil}
      BY GetFacts DEF TableOK
    <3> QED
      BY <3>1 DEF KeysInUse
  <2> QED
    BY <2>1, <2>2
<1> QED
  BY <1>7, <1>10, <1>14, <1>17, <1>18 DEF Resized

-----------------------------------------------------------------------------
(* rehash                                                                  *)

(* Sets of the same size                                                   *)
LEMMA SameSize ==
  ASSUME NEW S, IsFiniteSet(S), NEW R, NEW f \in [S -> R],
         \A a, b \in S : f[a] = f[b] => a = b, \A x \in R : \E a \in S : f[a] = x
  PROVE  IsFiniteSet(R) /\ Cardinality(R) = Cardinality(S)
<1>1. f \in Injection(S, R)
  BY DEF Injection, IsInjective
<1>2. f \in Surjection(S, R)
  BY DEF Surjection
<1>3. ExistsBijection(S, R)
  BY <1>1, <1>2 DEF ExistsBijection, Bijection
<1> QED
  BY <1>3, FS_Bijection

(* totaluse counts the keys in use and the extra key.                      *)
LEMMA TotalUseIs ==
  ASSUME NEW T, TableOK(T)
  PROVE  /\ IsFiniteSet(KeysInUse(T))
         /\ Cardinality(KeysInUse(T)) \in Nat
         /\ TotalUse(T) = Cardinality(KeysInUse(T)) + 1
         /\ IsFiniteSet(KeysInUse(T) \ ArrayKeys(T))
         /\ Cardinality(KeysInUse(T) \ ArrayKeys(T)) = Cardinality(InUse(T))
<1> DEFINE A == ArrayKeys(T)
           P == KeysInUse(T)
           U == InUse(T)
           f == [i \in U |-> T.node[i].key]
<1>1. IsFiniteSet(P)
  <2>1. P \subseteq Key
    BY DEF KeysInUse
  <2> QED
    BY <2>1, TableAssumption, FS_Subset
<1>2. A \subseteq P
  BY KeysInUseFacts
<1>3. IsFiniteSet(A) /\ P \cap A = A
  BY <1>1, <1>2, FS_Subset
<1>4. Cardinality(P \ A) = Cardinality(P) - Cardinality(A)
  <2> HIDE DEF P, A
  <2> QED
    BY <1>1, <1>3, FS_Difference
<1>5. IsFiniteSet(U)
  <2>1. U \subseteq NodeSet(T)
    BY KeysInUseFacts
  <2>2. IsFiniteSet(NodeSet(T))
    <3>1. sizenode(T) - 1 \in Int
      BY ShapeFacts DEF TableOK
    <3> QED
      BY <3>1, FS_Interval DEF NodeSet
  <2> QED
    BY <2>1, <2>2, FS_Subset
<1>6. f \in [U -> P \ A]
  BY KeysInUseFacts
<1>7. \A i, j \in U : f[i] = f[j] => i = j
  BY KeysInUseFacts
<1>8. \A q \in P \ A : \E i \in U : f[i] = q
  BY KeysInUseFacts
<1>9. IsFiniteSet(P \ A) /\ Cardinality(P \ A) = Cardinality(U)
  <2> HIDE DEF P, A, U, f
  <2> QED
    BY <1>5, <1>6, <1>7, <1>8, SameSize
<1>10. TotalUse(T) = Cardinality(A) + Cardinality(U) + 1
  BY DEF TotalUse, ArrayKeys
<1>11. Cardinality(P) \in Nat /\ Cardinality(A) \in Nat /\ Cardinality(U) \in Nat
  BY <1>1, <1>3, <1>5, FS_CardinalityType
<1> HIDE DEF P, A, U
<1>12. TotalUse(T) = Cardinality(P) + 1
  BY <1>4, <1>9, <1>10, <1>11
<1> QED
  BY <1>1, <1>9, <1>11, <1>12 DEF P, A, U

(* The integers rehash counts are those in use, and the extra key.         *)
LEMMA IntegersInUseAre ==
  ASSUME NEW T, TableOK(T), NEW k, NEW j \in 1 .. twoto[MaxBits]
  PROVE  j \in IntegersInUse(T, k) <=> j \in KeysInUse(T) \cup {k}
<1>1. j \in Nat /\ 1 <= j
  BY BitsNat, TwotoIs
<1>2. Len(T.array) \in Nat
  BY ShapeFacts DEF TableOK
<1>3. j <= Len(T.array) /\ T.array[j] # Nil <=> j \in ArrayKeys(T)
  BY <1>1, <1>2 DEF ArrayKeys
<1>4. j \in KeysInUse(T) <=> j \in ArrayKeys(T) \/ \E i \in InUse(T) : T.node[i].key = j
  BY KeysInUseFacts
<1> QED
  BY <1>3, <1>4 DEF IntegersInUse

(* The sizes rehash computes leave room for every key.                     *)
LEMMA NewSizesFacts ==
  ASSUME NEW T, TableOK(T), NEW k \in Key, k \notin KeysInUse(T),
         NEW s, s = NewSizes(T, k), NEW E, E = KeysInUse(T) \cup {k}
  PROVE  /\ s.array \in Nat /\ s.hash \in Nat /\ s.hash <= twoto[MaxBits]
         /\ E \subseteq Key
         /\ Cardinality({q \in E : ~(q \in 1 .. s.array)}) <= s.hash
<1> DEFINE P == KeysInUse(T)
           ints == IntegersInUse(T, k)
           z == computesizes(Nums(ints), Cardinality(ints))
           N == 1 .. twoto[MaxBits]
           In == {q \in E : q \in 1 .. z.n}
<1>1. s.array = z.n /\ s.hash = TotalUse(T) - z.na
  BY DEF NewSizes
<1>2. ints \in SUBSET N
  BY DEF IntegersInUse
<1>3. /\ z.na = UpTo(ints, z.n)
      /\ \/ z.n = 0
         \/ \E j \in 0 .. MaxBits : z.n = twoto[j]
  <2> HIDE DEF ints
  <2> QED
    BY <1>2, SizesFound
<1> HIDE DEF z
<1>4. z.n \in Nat /\ z.n <= twoto[MaxBits] /\ twoto[MaxBits] \in Nat
  <2>1. twoto[MaxBits] \in Nat
    BY BitsNat, TwotoIs
  <2>2. \A j \in 0 .. MaxBits : twoto[j] \in Nat /\ twoto[j] <= twoto[MaxBits]
    BY PowersFacts DEF Powers
  <2> QED
    BY <1>3, <2>1, <2>2
<1>5. \A j \in N : j \in ints <=> j \in E
  BY IntegersInUseAre
<1>6. {j \in ints : j <= z.n} = In
  <2>1. ASSUME NEW j \in ints, j <= z.n PROVE j \in In
    <3>1. j \in N /\ j \in E
      BY <1>2, <1>5
    <3>2. j \in 1 .. z.n
      BY <1>4, <2>1, <3>1
    <3> QED
      BY <3>1, <3>2
  <2>2. ASSUME NEW j \in In PROVE j \in ints /\ j <= z.n
    <3>1. j \in E /\ j \in 1 .. z.n
      OBVIOUS
    <3>2. j \in N /\ j <= z.n
      BY <1>4, <3>1
    <3> QED
      BY <1>5, <3>1, <3>2
  <2> HIDE DEF In
  <2> QED
    BY <2>1, <2>2
<1>7. z.na = Cardinality(In)
  BY <1>3, <1>6 DEF UpTo
<1>8. IsFiniteSet(P) /\ Cardinality(P) \in Nat /\ TotalUse(T) = Cardinality(P) + 1
  BY TotalUseIs
<1>9. IsFiniteSet(E) /\ Cardinality(E) = TotalUse(T)
  <2> HIDE DEF P
  <2>1. E = P \cup {k} /\ k \notin P
    BY DEF P
  <2> QED
    BY <1>8, <2>1, FS_AddElement
<1>10. E \subseteq Key
  BY DEF KeysInUse
<1> DEFINE O == {q \in E : ~(q \in 1 .. s.array)}
<1>11. O = E \ In /\ E \cap In = In
  BY <1>1
<1>12. Cardinality(O) = Cardinality(E) - Cardinality(In)
  <2> HIDE DEF O, In
  <2>1. Cardinality(E \ In) = Cardinality(E) - Cardinality(E \cap In)
    BY <1>9, FS_Difference
  <2> QED
    BY <1>11, <2>1
<1>13. IsFiniteSet(O) /\ Cardinality(O) \in Nat /\ Cardinality(O) <= Cardinality(E)
  <2>1. O \subseteq E
    OBVIOUS
  <2> HIDE DEF O
  <2> QED
    BY <1>9, <2>1, FS_Subset, FS_CardinalityType
<1>14. Cardinality(E) <= Cardinality(Key) /\ Cardinality(Key) \in Nat /\ Cardinality(E) \in Nat
  BY <1>9, <1>10, TableAssumption, FS_Subset, FS_CardinalityType
<1>15. Cardinality(Key) <= twoto[MaxBits]
  BY TableAssumption
<1> HIDE DEF O, In
<1>16. s.hash = Cardinality(O)
  BY <1>1, <1>7, <1>9, <1>12
<1>17. s.array \in Nat
  BY <1>1, <1>4
<1> QED
  BY <1>4, <1>10, <1>13, <1>14, <1>15, <1>16, <1>17 DEF O

(* luaH_set: the table means what it meant, except for k.                  *)
LEMMA SetFacts ==
  ASSUME NEW T, TableOK(T), NEW k \in Key, NEW v \in {k, Nil}, NEW T2, T2 = luaH_set(T, k, v)
  PROVE  /\ TableOK(T2)
         /\ \A q \in Key : luaH_get(T2, q) = IF q = k THEN v ELSE luaH_get(T, q)
<1>1. CASE ~(~HasSlot(T, k) /\ Full(T, k))
  <2>1. T2 = Store(T, k, v)
    BY <1>1 DEF luaH_set
  <2>2. Stored(T, k, v, T2)
    BY <1>1, <2>1, StoreFacts
  <2> QED
    BY <2>2 DEF Stored
<1>2. CASE ~HasSlot(T, k) /\ Full(T, k)
  <2> DEFINE R == rehash(T, k)
             s == NewSizes(T, k)
             E == KeysInUse(T) \cup {k}
  <2>1. T2 = Store(R, k, v)
    BY <1>2 DEF luaH_set
  <2>2. k \notin KeysInUse(T)
    BY <1>2, GetFacts DEF KeysInUse, TableOK
  <2>3. /\ s.array \in Nat /\ s.hash \in Nat /\ s.hash <= twoto[MaxBits] /\ E \subseteq Key
        /\ Cardinality({q \in E : ~(q \in 1 .. s.array)}) <= s.hash
    <3> HIDE DEF s
    <3> QED
      BY <2>2, NewSizesFacts DEF s
  <2>4. R = resize(T, s.array, s.hash)
    BY DEF rehash
  <2>5. KeysInUse(T) \subseteq E /\ k \in E
    OBVIOUS
  <2> HIDE DEF R, s, E
  <2>6. Resized(T, s.array, E, R)
    BY <2>3, <2>4, <2>5, ResizeFacts
  <2>7. /\ TableOK(R) /\ (~HasSlot(R, k) => ~Full(R, k))
        /\ \A q \in Key : luaH_get(R, q) = luaH_get(T, q)
    BY <2>2, <2>5, <2>6 DEF Resized
  <2>8. Stored(R, k, v, T2)
    BY <2>1, <2>7, StoreFacts
  <2> QED
    BY <2>7, <2>8 DEF Stored
<1> QED
  BY <1>1, <1>2

-----------------------------------------------------------------------------
(* A list is stored                                                        *)

(* luaH_resizearray keeps the size of the hash part, in which nothing more *)
(* will be than before.                                                    *)
LEMMA ResizeArrayFacts ==
  ASSUME NEW T, TableOK(T), NEW n \in Nat, Len(T.array) <= n,
         NEW T2, T2 = luaH_resizearray(T, n)
  PROVE  Resized(T, n, KeysInUse(T), T2)
<1> DEFINE h == IF T.dummy THEN 0 ELSE sizenode(T)
           E == KeysInUse(T)
           O == {q \in E : ~(q \in 1 .. n)}
<1>1. /\ ShapeOK(T) /\ sizenode(T) \in Nat \ {0} /\ sizenode(T) \in Powers
      /\ Len(T.array) \in Nat
  BY ShapeFacts DEF TableOK
<1>2. sizenode(T) <= twoto[MaxBits] /\ 0 <= twoto[MaxBits]
  <2>1. twoto[MaxBits] \in Nat
    BY BitsNat, TwotoIs
  <2> QED
    BY <1>1, <2>1, PowersFacts
<1>3. h \in Nat /\ h <= twoto[MaxBits]
  BY <1>1, <1>2
<1>4. O \subseteq E \ ArrayKeys(T)
  BY <1>1 DEF ArrayKeys
<1>5. /\ IsFiniteSet(E \ ArrayKeys(T))
      /\ Cardinality(E \ ArrayKeys(T)) = Cardinality(InUse(T))
  BY TotalUseIs
<1>6. Cardinality(O) <= Cardinality(InUse(T)) /\ Cardinality(O) \in Nat
  <2> HIDE DEF O, E
  <2> QED
    BY <1>4, <1>5, FS_Subset, FS_CardinalityType
<1>7. IsFiniteSet(NodeSet(T)) /\ Cardinality(NodeSet(T)) = sizenode(T)
  <2>1. sizenode(T) - 1 \in Int /\ ~(0 > sizenode(T) - 1)
        /\ (sizenode(T) - 1) - 0 + 1 = sizenode(T)
    BY <1>1
  <2> QED
    BY <2>1, FS_Interval DEF NodeSet
<1>8. Cardinality(InUse(T)) <= h /\ Cardinality(InUse(T)) \in Nat
  <2>1. InUse(T) \subseteq NodeSet(T)
    BY KeysInUseFacts
  <2>2. Cardinality(InUse(T)) <= sizenode(T) /\ Cardinality(InUse(T)) \in Nat
    BY <1>7, <2>1, FS_Subset, FS_CardinalityType
  <2>3. CASE T.dummy
    <3>1. sizenode(T) = 1 /\ T.node[0].key = Nil
      BY <1>1, <2>3 DEF ShapeOK, FreeOK
    <3>2. T.node[0].val = Nil /\ NodeSet(T) = {0}
      BY <1>1, <3>1, ShapeFacts DEF ShapeOK, NodeOK, NodeSet
    <3>3. InUse(T) = {}
      BY <3>2, KeysInUseFacts
    <3> QED
      BY <1>3, <3>3, FS_EmptySet
  <2>4. CASE ~T.dummy
    BY <2>2, <2>4
  <2> QED
    BY <2>3, <2>4
<1>9. Cardinality(O) <= h
  <2> HIDE DEF O, h
  <2> QED
    BY <1>3, <1>6, <1>8
<1>10. T2 = resize(T, n, h)
  BY DEF luaH_resizearray
<1>11. E \subseteq Key
  BY DEF KeysInUse
<1> HIDE DEF h
<1> QED
  BY <1>3, <1>9, <1>10, <1>11, ResizeFacts

(* A store into the array part, whether the position is a key or not       *)
LEMMA SlotFacts ==
  ASSUME NEW T, TableOK(T), NEW k \in 1 .. Len(T.array), NEW v \in {k, Nil},
         v \in Key \cup {Nil}, NEW T2, T2 = luaH_set(T, k, v)
  PROVE  /\ TableOK(T2) /\ Len(T2.array) = Len(T.array) /\ sizenode(T2) = sizenode(T)
         /\ \A q \in Key : luaH_get(T2, q) = IF q = k THEN v ELSE luaH_get(T, q)
<1>1. /\ ShapeOK(T) /\ T.array \in Seq(Key \cup {Nil}) /\ ArrayOK(T.array)
      /\ T \in TableRecord(sizenode(T))
  BY RecordFacts, ShapeFacts DEF TableOK, ShapeOK
<1>2. InArray(T, k)
  BY <1>1, InArrayFacts
<1>3. T2 = Update(T, k, v) /\ T2 = [T EXCEPT !.array[k] = v]
  BY <1>2 DEF luaH_set, Store, HasSlot, Update
<1>4. CASE k \in Key
  <2>1. Stored(T, k, v, T2)
    BY <1>2, <1>3, <1>4, UpdateArray
  <2> QED
    BY <2>1 DEF Stored
<1>5. CASE k \notin Key
  <2>1. v = Nil /\ T.array[k] = Nil
    <3>1. T.array[k] # Nil => T.array[k] = k /\ T.array[k] \in Key
      BY <1>1 DEF ArrayOK
    <3> QED
      BY <1>5, <3>1
  <2> DEFINE a == [T.array EXCEPT ![k] = v]
  <2>2. a = T.array
    BY <1>1, <2>1
  <2>3. T2 = [T EXCEPT !.array = a]
    BY <1>1, <1>3 DEF TableRecord
  <2> HIDE DEF a
  <2>4. T2 = T
    BY <1>1, <2>2, <2>3 DEF TableRecord
  <2> QED
    BY <1>5, <2>4
<1> QED
  BY <1>4, <1>5

(* The table once the last m of the n values are stored                    *)
ListStored(G, vals, n, m, tab) ==
  /\ TableOK(tab) /\ Len(tab.array) = Len(G.array) /\ sizenode(tab) = sizenode(G)
  /\ \A q \in Key : luaH_get(tab, q) = IF q \in 1 .. n /\ n < q + m THEN vals[q]
                                       ELSE luaH_get(G, q)

ListTurn(vals, n, m, c) == luaH_set(c, n + 1 - m, vals[n + 1 - m])

(* A turn of the loop stores one value.                                    *)
LEMMA ListTurnFacts ==
  ASSUME NEW G, NEW n \in Nat, n <= Len(G.array), NEW vals \in [1 .. n -> Key \cup {Nil}],
         \A i \in 1 .. n : vals[i] \in {i, Nil}, Len(G.array) \in Nat,
         NEW m \in 1 .. n, NEW c, ListStored(G, vals, n, m - 1, c)
  PROVE  ListStored(G, vals, n, m, ListTurn(vals, n, m, c))
<1> DEFINE k == n + 1 - m
           T2 == luaH_set(c, k, vals[k])
<1>1. k \in 1 .. n /\ k \in 1 .. Len(G.array) /\ k \in Int /\ m = n + 1 - k
  OBVIOUS
<1>2. /\ TableOK(c) /\ Len(c.array) = Len(G.array) /\ sizenode(c) = sizenode(G)
      /\ \A q \in Key : luaH_get(c, q) = IF q \in 1 .. n /\ n < q + (m - 1) THEN vals[q]
                                           ELSE luaH_get(G, q)
  BY DEF ListStored
<1>3. vals[k] \in {k, Nil} /\ vals[k] \in Key \cup {Nil}
  BY <1>1
<1>4. ListTurn(vals, n, m, c) = T2
  BY DEF ListTurn
<1> HIDE DEF k
<1>5. /\ TableOK(T2) /\ Len(T2.array) = Len(c.array) /\ sizenode(T2) = sizenode(c)
      /\ \A q \in Key : luaH_get(T2, q) = IF q = k THEN vals[k] ELSE luaH_get(c, q)
  BY <1>1, <1>2, <1>3, SlotFacts
<1> HIDE DEF T2
<1>6. ASSUME NEW q \in Key
      PROVE  luaH_get(T2, q) = IF q \in 1 .. n /\ n < q + m THEN vals[q] ELSE luaH_get(G, q)
  <2>1. CASE q \in 1 .. n
    <3>1. n < q + m <=> q = k \/ n < q + (m - 1)
      BY <1>1, <2>1
    <3> QED
      BY <1>2, <1>5, <2>1, <3>1
  <2>2. CASE q \notin 1 .. n
    BY <1>1, <1>2, <1>5, <2>2
  <2> QED
    BY <2>1, <2>2
<1> QED
  BY <1>2, <1>4, <1>5, <1>6 DEF ListStored

(* The loop of OP_SETLIST, on the grown table                              *)
Poured(G, vals, n) ==
  LET fill[i \in 0 .. n] ==
        IF i = 0 THEN G ELSE luaH_set(fill[i - 1], n + 1 - i, vals[n + 1 - i])
  IN fill[n]

(* The loop stores all of them.                                            *)
LEMMA PouredFacts ==
  ASSUME NEW G, TableOK(G), NEW n \in Nat, n <= Len(G.array),
         NEW vals \in [1 .. n -> Key \cup {Nil}], \A i \in 1 .. n : vals[i] \in {i, Nil}
  PROVE  ListStored(G, vals, n, n, Poured(G, vals, n))
<1> DEFINE St == TableRecord(sizenode(G))
           I == [m \in 0 .. n |-> {c \in St : ListStored(G, vals, n, m, c)}]
           g == [p \in (1 .. n) \X St |-> ListTurn(vals, n, p[1], p[2])]
           fill[i \in 0 .. n] ==
             IF i = 0 THEN G ELSE luaH_set(fill[i - 1], n + 1 - i, vals[n + 1 - i])
<1>1. Len(G.array) \in Nat
  BY ShapeFacts DEF TableOK
<1>2. \A m \in 0 .. n : \A c : c \in I[m] <=> ListStored(G, vals, n, m, c)
  <2> SUFFICES ASSUME NEW m \in 0 .. n, NEW c
               PROVE  c \in I[m] <=> ListStored(G, vals, n, m, c)
    OBVIOUS
  <2>1. ListStored(G, vals, n, m, c) => c \in St
    <3> SUFFICES ASSUME ListStored(G, vals, n, m, c) PROVE c \in St
      OBVIOUS
    <3>1. ShapeOK(c) /\ sizenode(c) = sizenode(G)
      BY DEF ListStored, TableOK
    <3>2. c \in TableRecord(sizenode(c))
      BY <3>1, RecordFacts
    <3> QED
      BY <3>1, <3>2
  <2>2. I[m] = {x \in St : ListStored(G, vals, n, m, x)}
    OBVIOUS
  <2> HIDE DEF I, St
  <2> QED
    BY <2>1, <2>2
<1>3. \A m \in 0 .. n : I[m] \subseteq St
  OBVIOUS
<1>4. \A m \in 1 .. n : m \in 0 .. n /\ m - 1 \in 0 .. n
  OBVIOUS
<1>5. \A m \in 1 .. n : \A c \in I[m - 1] : ListTurn(vals, n, m, c) \in I[m]
  <2> HIDE DEF I, St
  <2> QED
    BY <1>1, <1>2, <1>4, ListTurnFacts
<1>6. \A m \in 1 .. n : \A c \in St : g[<<m, c>>] = ListTurn(vals, n, m, c)
  <2> HIDE DEF St
  <2> QED
    OBVIOUS
<1>7. G \in I[0] /\ 0 \in 0 .. n
  <2>1. \A q \in 1 .. n : ~(n < q + 0)
    OBVIOUS
  <2>2. ListStored(G, vals, n, 0, G)
    BY <2>1 DEF ListStored
  <2> HIDE DEF I, St
  <2> QED
    BY <1>2, <2>2
<1>8. PICK f : LoopOf(f, n, I, G, g)
  <2>1. \A m \in 1 .. n : \A c \in I[m - 1] : g[<<m, c>>] \in I[m]
    <3> HIDE DEF g, I, St
    <3> QED
      BY <1>3, <1>4, <1>5, <1>6
  <2> HIDE DEF g, I, St
  <2> QED
    BY <1>3, <1>7, <2>1, LoopWithin
<1> HIDE DEF g, I, St
<1>9. f = [m \in 0 .. n |-> IF m = 0 THEN G ELSE ListTurn(vals, n, m, f[m - 1])]
  <2>1. \A m \in 0 .. n : m # 0 => g[<<m, f[m - 1]>>] = ListTurn(vals, n, m, f[m - 1])
    <3> SUFFICES ASSUME NEW m \in 0 .. n, m # 0
                 PROVE  g[<<m, f[m - 1]>>] = ListTurn(vals, n, m, f[m - 1])
      OBVIOUS
    <3>1. m \in 1 .. n
      OBVIOUS
    <3>2. f[m - 1] \in St
      BY <1>3, <1>4, <1>8, <3>1 DEF LoopOf
    <3> QED
      BY <1>6, <3>1, <3>2
  <2> QED
    BY <1>8, <2>1 DEF LoopOf
<1>10. fill = CHOOSE h : h = [m \in 0 .. n |-> IF m = 0 THEN G
                                              ELSE ListTurn(vals, n, m, h[m - 1])]
  BY DEF ListTurn
<1>11. Poured(G, vals, n) = fill[n]
  BY DEF Poured
<1> HIDE DEF fill
<1>12. fill = [m \in 0 .. n |-> IF m = 0 THEN G ELSE ListTurn(vals, n, m, fill[m - 1])]
  BY <1>9, <1>10
<1>13. \A m \in 0 .. n : fill[m] \in I[m]
  <2>1. fill[0] \in I[0]
    <3>1. fill[0] = G
      BY <1>7, <1>12
    <3> QED
      BY <1>7, <3>1
  <2>2. ASSUME NEW m \in 1 .. n, fill[m - 1] \in I[m - 1] PROVE fill[m] \in I[m]
    <3>1. fill[m] = ListTurn(vals, n, m, fill[m - 1])
      BY <1>4, <1>12
    <3> QED
      BY <1>5, <2>2, <3>1
  <2> QED
    BY <2>1, <2>2, LoopInduction
<1> QED
  BY <1>2, <1>11, <1>13

(* OP_SETLIST: the table means what it meant, except for the list.         *)
LEMMA SetListFacts ==
  ASSUME NEW T, TableOK(T), NEW n \in Nat,
         NEW vals \in [1 .. n -> Key \cup {Nil}], \A i \in 1 .. n : vals[i] \in {i, Nil},
         NEW G, G = IF n > Len(T.array) THEN luaH_resizearray(T, n) ELSE T,
         NEW T2, T2 = Poured(G, vals, n)
  PROVE  /\ TableOK(T2)
         /\ \A q \in Key : luaH_get(T2, q) = IF q \in 1 .. n THEN vals[q] ELSE luaH_get(T, q)
<1>1. Len(T.array) \in Nat
  BY ShapeFacts DEF TableOK
<1>2. TableOK(G) /\ n <= Len(G.array) /\ \A q \in Key : luaH_get(G, q) = luaH_get(T, q)
  <2>1. CASE n > Len(T.array)
    <3>1. Resized(T, n, KeysInUse(T), G)
      BY <1>1, <2>1, ResizeArrayFacts
    <3> QED
      BY <3>1 DEF Resized
  <2>2. CASE ~(n > Len(T.array))
    BY <1>1, <2>2
  <2> QED
    BY <2>1, <2>2
<1>3. ListStored(G, vals, n, n, T2)
  BY <1>2, PouredFacts
<1>4. \A q \in 1 .. n : n < q + n
  OBVIOUS
<1> QED
  BY <1>2, <1>3, <1>4 DEF ListStored

-----------------------------------------------------------------------------

-----------------------------------------------------------------------------
(* What the program has stored                                             *)

(* A new table is empty.                                                   *)
LEMMA NewFacts ==
  ASSUME NEW narray \in 0 .. MaxPart, NEW nhash \in 0 .. MaxPart,
         NEW T, T = luaH_new(narray, nhash)
  PROVE  TableOK(T) /\ \A q \in Key : luaH_get(T, q) = Nil
<1> DEFINE a == [i \in 1 .. narray |-> Nil]
           ref == [k \in Collectable |-> 0]
<1>1. /\ narray \in Nat /\ nhash \in Nat /\ nhash <= twoto[MaxBits]
      /\ ref \in [Collectable -> Nat]
  <2>1. MaxPart \in Nat /\ MaxPart <= twoto[MaxBits] /\ twoto[MaxBits] \in Nat
    BY TableAssumption, TwotoIs
  <2> QED
    BY <2>1
<1>2. ArrayOK(a) /\ DOMAIN a = 1 .. narray /\ Len(a) = narray
      /\ \A i \in 1 .. narray : a[i] = Nil
  BY <1>1 DEF ArrayOK
<1>3. T = Table(a, NodeVector(nhash), ref)
  BY DEF luaH_new
<1> HIDE DEF a, ref
<1>4. Fresh(a, nhash, ref, T)
  BY <1>1, <1>2, <1>3, NewTable
<1>5. ASSUME NEW q \in Key PROVE luaH_get(T, q) = Nil
  <2>1. TableOK(T) /\ T.array = a
        /\ luaH_get(T, q) = IF InArray(T, q) THEN a[q] ELSE Nil
    BY <1>4 DEF Fresh
  <2>2. InArray(T, q) => q \in 1 .. Len(a)
    BY <2>1, GetFacts DEF TableOK
  <2> QED
    BY <1>2, <2>1, <2>2
<1> QED
  BY <1>4, <1>5 DEF Fresh

(* At first the table is empty, as the program has stored nothing.         *)
LEMMA InitContent == Init => TableOK(t) /\ ContentOK
<1> SUFFICES ASSUME Init PROVE TableOK(t) /\ ContentOK
  OBVIOUS
<1>1. PICK narray \in 0 .. MaxPart, nhash \in 0 .. MaxPart : t = luaH_new(narray, nhash)
  BY DEF Init
<1>2. TableOK(t) /\ \A q \in Key : luaH_get(t, q) = Nil
  BY <1>1, NewFacts
<1>3. content = [k \in Key |-> Nil]
  BY DEF Init
<1> QED
  BY <1>2, <1>3 DEF ContentOK

(* ClearTable: an entry is taken out of the array part or of its node.     *)
Cleared(T, k) ==
  IF InArray(T, k) THEN Update(T, k, Nil)
  ELSE ClearedNode(T, CHOOSE i \in NodesOf(T, k) : TRUE)

(* cleartable takes one value out, and moves no key.                       *)
LEMMA ClearFacts ==
  ASSUME NEW T, TableOK(T), NEW k \in Key, luaH_get(T, k) # Nil, NEW T2, T2 = Cleared(T, k)
  PROVE  /\ TableOK(T2) /\ SameKeys(T, T2)
         /\ \A q \in Key : luaH_get(T2, q) = IF q = k THEN Nil ELSE luaH_get(T, q)
<1>1. CASE InArray(T, k)
  <2>1. Stored(T, k, Nil, T2) /\ SameKeys(T, T2)
    BY <1>1, UpdateArray DEF Cleared
  <2> QED
    BY <2>1 DEF Stored
<1>2. CASE ~InArray(T, k)
  <2>1. HeldLive(T, k)
    BY <1>2, GetFacts DEF TableOK
  <2> DEFINE n == CHOOSE i \in NodesOf(T, k) : TRUE
  <2>2. T2 = ClearedNode(T, n)
    BY <1>2 DEF Cleared
  <2>3. n = CHOOSE i \in NodesOf(T, k) : TRUE
    OBVIOUS
  <2> HIDE DEF n
  <2> QED
    BY <1>2, <2>1, <2>2, <2>3, ClearNode
<1> QED
  BY <1>1, <1>2

(* The table follows the content when the value of k changes.              *)
LEMMA ContentFollows ==
  ASSUME ContentOK, NEW k \in Key, NEW v \in {k, Nil}, content' = [content EXCEPT ![k] = v],
         \A q \in Key : luaH_get(t', q) = IF q = k THEN v ELSE luaH_get(t, q)
  PROVE  ContentOK'
<1>1. content' \in [Key -> Key \cup {Nil}]
  BY DEF ContentOK
<1>2. ASSUME NEW q \in Key PROVE content'[q] \in {q, Nil} /\ luaH_get(t', q) = content'[q]
  BY DEF ContentOK
<1> QED
  BY <1>1, <1>2 DEF ContentOK

(* A store: the table follows the content.                                 *)
LEMMA SetContent ==
  ASSUME TableOK(t), ContentOK, NEW k \in Key, NEW v \in {k, Nil}, Set(k, v)
  PROVE  TableOK(t') /\ ContentOK'
<1>1. t' = luaH_set(t, k, v) /\ content' = [content EXCEPT ![k] = v]
  BY DEF Set
<1>2. TableOK(t') /\ \A q \in Key : luaH_get(t', q) = IF q = k THEN v ELSE luaH_get(t, q)
  BY <1>1, SetFacts
<1> QED
  BY <1>1, <1>2, ContentFollows

(* cleartable: the table follows the content, and no key moves.            *)
LEMMA ClearContent ==
  ASSUME TableOK(t), ContentOK, NEW k \in Key, ClearTable(k)
  PROVE  TableOK(t') /\ ContentOK' /\ SameKeys(t, t')
<1>1. luaH_get(t, k) # Nil
  BY DEF ClearTable, ContentOK
<1>2. content' = [content EXCEPT ![k] = Nil] /\ t' = Cleared(t, k)
  BY DEF ClearTable, Cleared, ClearedNode
<1>3. /\ TableOK(t') /\ SameKeys(t, t')
      /\ \A q \in Key : luaH_get(t', q) = IF q = k THEN Nil ELSE luaH_get(t, q)
  BY <1>1, <1>2, ClearFacts
<1> QED
  BY <1>2, <1>3, ContentFollows

(* OP_SETLIST: the table follows the content.                              *)
LEMMA SetListContent ==
  ASSUME TableOK(t), ContentOK, NEW vals \in Lists, \A i \in DOMAIN vals : vals[i] \in {i, Nil},
         SetList(vals)
  PROVE  TableOK(t') /\ ContentOK'
<1>1. PICK n \in 1 .. MaxPart : vals \in [1 .. n -> Key \cup {Nil}]
  BY DEF Lists
<1>2. n \in Nat /\ Len(vals) = n /\ DOMAIN vals = 1 .. n
  BY <1>1
<1> DEFINE G == IF n > Len(t.array) THEN luaH_resizearray(t, n) ELSE t
<1>3. t' = Poured(G, vals, n)
  BY <1>2 DEF SetList, Poured
<1>4. content' = [k \in Key |-> IF k \in 1 .. n THEN vals[k] ELSE content[k]]
  BY <1>2 DEF SetList
<1>5. TableOK(t')
      /\ \A q \in Key : luaH_get(t', q) = IF q \in 1 .. n THEN vals[q] ELSE luaH_get(t, q)
  BY <1>1, <1>2, <1>3, SetListFacts
<1>6. content' \in [Key -> Key \cup {Nil}]
  BY <1>1, <1>4 DEF ContentOK
<1>7. ASSUME NEW q \in Key PROVE content'[q] \in {q, Nil} /\ luaH_get(t', q) = content'[q]
  BY <1>2, <1>4, <1>5 DEF ContentOK
<1> QED
  BY <1>5, <1>6, <1>7 DEF ContentOK

(* traversetable changes no content and moves no key.                      *)
LEMMA RemoveContent ==
  ASSUME TableOK(t), ContentOK, TraverseTable
  PROVE  TableOK(t') /\ ContentOK' /\ SameKeys(t, t')
<1>1. t' = RemoveEmpty(t) /\ content' = content
  BY DEF TraverseTable
<1>2. TableOK(t') /\ SameKeys(t, t') /\ \A q \in Key : luaH_get(t', q) = luaH_get(t, q)
  BY <1>1, RemoveEmptyFacts
<1> QED
  BY <1>1, <1>2 DEF ContentOK

(* Every step keeps the table in order and its meaning.                    *)
LEMMA NextContent ==
  ASSUME TableOK(t), ContentOK, [Next]_vars
  PROVE  TableOK(t') /\ ContentOK'
<1>1. CASE \E k \in Key : Set(k, k) \/ Set(k, Nil) \/ ClearTable(k)
  BY <1>1, SetContent, ClearContent
<1>2. CASE \E vals \in {l \in Lists : \A i \in DOMAIN l : l[i] \in {i, Nil}} : SetList(vals)
  BY <1>2, SetListContent
<1>3. CASE TraverseTable
  BY <1>3, RemoveContent
<1>4. CASE StartTraversal
  BY <1>4 DEF StartTraversal, ContentOK
<1>5. CASE luaH_next
  BY <1>5 DEF luaH_next, ContentOK
<1>6. CASE UNCHANGED vars
  BY <1>6 DEF vars, ContentOK
<1> QED
  BY <1>1, <1>2, <1>3, <1>4, <1>5, <1>6 DEF Next

-----------------------------------------------------------------------------

-----------------------------------------------------------------------------
(* Positions in a traversal                                                *)

(* findindex finds, of the nodes that hold k, dead or not, the one that is *)
(* first on its chain.                                                     *)
LEMMA FirstNodeFacts ==
  ASSUME NEW T, ShapeOK(T), NEW c, NEW r, Chains(NodeSet(T), Nexts(T), c, r),
         OnChain(NodeSet(T), Keys(T), Mains(T), c, r), NEW k \in Key
  PROVE  /\ Places(T, k) = {} <=> \A i \in NodeSet(T) : T.node[i].key # k
         /\ Places(T, k) # {} =>
              /\ FirstNode(T, k) \in NodeSet(T) /\ T.node[FirstNode(T, k)].key = k
              /\ \A j \in NodeSet(T) : T.node[j].key = k /\ j # FirstNode(T, k) =>
                                         r[j] < r[FirstNode(T, k)]
<1> DEFINE S == NodeSet(T)
           m == mainposition(T, k)
           q == Chain(T, m)
<1>1. m \in S /\ sizenode(T) \in Nat /\ Mains(T)[k] = m /\ r \in [S -> Nat]
  BY ShapeFacts DEF Chains
<1>2. Follows(S, Nexts(T), c, r, m, q) /\ ToSet(q) = {i \in S : c[i] = c[m] /\ r[i] <= r[m]}
  BY <1>1, ChainFollows, ChainSet
<1>3. /\ q \in Seq(S) /\ Len(q) \in Nat
      /\ \A a, b \in 1 .. Len(q) : a < b => r[q[b]] < r[q[a]]
  BY <1>2 DEF Follows, NonEmpty
<1>4. Places(T, k) = {a \in 1 .. Len(q) : T.node[q[a]].key = k}
  BY DEF Places, Found
<1>5. FirstNode(T, k) = q[Min(Places(T, k))]
  BY DEF FirstNode
<1> HIDE DEF q, m, S
<1>6. ToSet(q) = {q[a] : a \in 1 .. Len(q)}
  BY <1>3 DEF ToSet
<1>7. ASSUME NEW i \in S, T.node[i].key = k PROVE \E a \in Places(T, k) : q[a] = i
  <2>1. Keys(T)[i] = k /\ k # Nil
    BY <1>7, ShapeFacts, IntegersApart DEF S
  <2>2. c[m] = c[i] /\ r[i] <= r[m]
    BY <1>1, <2>1 DEF OnChain, S
  <2>3. i \in ToSet(q)
    BY <1>2, <2>2
  <2> QED
    BY <1>4, <1>6, <1>7, <2>3
<1>8. ASSUME NEW a \in Places(T, k) PROVE q[a] \in S /\ T.node[q[a]].key = k
  BY <1>3, <1>4
<1>9. ASSUME Places(T, k) # {}
      PROVE  /\ FirstNode(T, k) \in S /\ T.node[FirstNode(T, k)].key = k
             /\ \A j \in S : T.node[j].key = k /\ j # FirstNode(T, k) =>
                               r[j] < r[FirstNode(T, k)]
  <2> DEFINE a == Min(Places(T, k))
  <2>1. a \in Places(T, k) /\ \A b \in Places(T, k) : a <= b
    <3>1. Places(T, k) \in SUBSET Nat /\ Places(T, k) \in SUBSET Int
      BY <1>3, <1>4
    <3>2. PICK b \in Places(T, k) : \A d \in Places(T, k) : b <= d
      BY <1>9, <3>1, LeastNatural
    <3>3. Min(Places(T, k)) = b
      BY <3>1, <3>2, MinIs
    <3> QED
      BY <3>2, <3>3
  <2> HIDE DEF a
  <2>2. FirstNode(T, k) = q[a]
    BY <1>5 DEF a
  <2>3. ASSUME NEW j \in S, T.node[j].key = k, j # q[a] PROVE r[j] < r[q[a]]
    <3>1. PICK b \in Places(T, k) : q[b] = j
      BY <1>7, <2>3
    <3>2. a <= b /\ a # b /\ a \in 1 .. Len(q) /\ b \in 1 .. Len(q)
      BY <1>4, <2>1, <2>3, <3>1
    <3> QED
      BY <1>3, <3>1, <3>2
  <2> QED
    BY <1>8, <2>1, <2>2, <2>3
<1> QED
  BY <1>7, <1>8, <1>9 DEF S

(* The chains of a table, without which nodes are dead                     *)

(* The chains of a table, without which nodes are dead                     *)
LEMMA ChainsOf ==
  ASSUME NEW T, TableOK(T)
  PROVE  /\ ShapeOK(T) /\ LinksOK(T)
         /\ \E c, r : /\ Chains(NodeSet(T), Nexts(T), c, r)
                      /\ OnChain(NodeSet(T), Keys(T), Mains(T), c, r)
                      /\ KeysOnce(NodeSet(T), Keys(T), Deads(T), r)
<1>1. PICK c, r : Linked(NodeSet(T), Keys(T), Deads(T), Nexts(T), Mains(T), c, r)
  BY DEF TableOK, LinksOK
<1> QED
  BY <1>1 DEF TableOK, Linked

(* A position depends on the keys and the chains only.                     *)
LEMMA IndexSame ==
  ASSUME NEW T, TableOK(T), NEW T2, TableOK(T2), SameKeys(T, T2), NEW k \in Key \cup {Nil}
  PROVE  findindex(T2, k) = findindex(T, k)
<1>1. CASE k = Nil
  BY <1>1 DEF findindex
<1>2. CASE k # Nil
  <2> DEFINE S == NodeSet(T)
             F == FirstNode(T, k)
             F2 == FirstNode(T2, k)
  <2>1. k \in Key
    BY <1>2
  <2>2. ShapeOK(T) /\ ShapeOK(T2)
    BY ChainsOf
  <2>3. PICK c, r : Chains(S, Nexts(T), c, r) /\ OnChain(S, Keys(T), Mains(T), c, r)
    BY ChainsOf
  <2>4. /\ NodeSet(T2) = S /\ Len(T2.array) = Len(T.array)
        /\ Chains(NodeSet(T2), Nexts(T2), c, r)
        /\ OnChain(NodeSet(T2), Keys(T2), Mains(T2), c, r)
    BY <2>3 DEF SameKeys
  <2>5. \A i \in S : T2.node[i].key = T.node[i].key
    <3> SUFFICES ASSUME NEW i \in S PROVE T2.node[i].key = T.node[i].key
      OBVIOUS
    <3>1. Keys(T2)[i] = Keys(T)[i] /\ NodeSet(T2) = S
      BY DEF SameKeys
    <3>2. Keys(T2)[i] = T2.node[i].key /\ Keys(T)[i] = T.node[i].key
      BY <3>1 DEF Keys
    <3> QED
      BY <3>1, <3>2
  <2>6. /\ Places(T, k) = {} <=> \A i \in S : T.node[i].key # k
        /\ Places(T, k) # {} =>
             /\ F \in S /\ T.node[F].key = k
             /\ \A j \in S : T.node[j].key = k /\ j # F => r[j] < r[F]
    BY <2>1, <2>2, <2>3, FirstNodeFacts
  <2>7. /\ Places(T2, k) = {} <=> \A i \in S : T2.node[i].key # k
        /\ Places(T2, k) # {} =>
             /\ F2 \in S /\ T2.node[F2].key = k
             /\ \A j \in S : T2.node[j].key = k /\ j # F2 => r[j] < r[F2]
    <3> HIDE DEF F2, S
    <3> QED
      BY <2>1, <2>2, <2>4, FirstNodeFacts DEF F2
  <2>8. r \in [S -> Nat]
    BY <2>3 DEF Chains
  <2> HIDE DEF F, F2, S
  <2>9. (Places(T2, k) = {}) <=> (Places(T, k) = {})
    BY <2>5, <2>6, <2>7
  <2>10. ASSUME Places(T, k) # {} PROVE F2 = F
    <3>1. r[F] \in Nat /\ r[F2] \in Nat
      BY <2>6, <2>7, <2>8, <2>9, <2>10
    <3>2. F # F2 => r[F] < r[F2] /\ r[F2] < r[F]
      BY <2>5, <2>6, <2>7, <2>9, <2>10
    <3> QED
      BY <3>1, <3>2
  <2>11. InArray(T2, k) <=> InArray(T, k)
    BY <2>4 DEF InArray
  <2> QED
    BY <1>2, <2>4, <2>9, <2>10, <2>11 DEF findindex, F, F2
<1> QED
  BY <1>1, <1>2

Positions(T) == 0 .. Len(T.array) + sizenode(T) - 1

(* A position comes from its key.                                          *)
LEMMA KeyOfIndex ==
  ASSUME NEW T, TableOK(T), NEW p \in Positions(T), ValueAt(T, p) # Nil
  PROVE  /\ KeyAt(T, p) \in Key /\ findindex(T, KeyAt(T, p)) = p
         /\ luaH_get(T, KeyAt(T, p)) # Nil
<1> DEFINE n == Len(T.array)
           S == NodeSet(T)
           k == KeyAt(T, p)
<1>1. /\ ShapeOK(T) /\ LinksOK(T) /\ n \in Nat /\ sizenode(T) \in Nat /\ p \in Nat
      /\ T.array \in Seq(Key \cup {Nil}) /\ ArrayOK(T.array)
  BY ChainsOf, ShapeFacts DEF ShapeOK, Positions
<1>2. CASE p < n
  <2>1. p + 1 \in 1 .. n /\ ValueAt(T, p) = T.array[p + 1] /\ k = p + 1
    BY <1>1, <1>2 DEF ValueAt, KeyAt
  <2>2. T.array[p + 1] = p + 1 /\ T.array[p + 1] \in Key
    BY <1>1, <2>1 DEF ArrayOK
  <2>3. InArray(T, p + 1)
    BY <1>1, <2>1, InArrayFacts
  <2>4. p + 1 # Nil
    BY <2>2, IntegersApart
  <2>5. findindex(T, p + 1) = p
    BY <1>1, <2>3, <2>4 DEF findindex
  <2>6. luaH_get(T, p + 1) = T.array[p + 1]
    BY <2>3 DEF luaH_get
  <2> QED
    BY <2>1, <2>2, <2>4, <2>5, <2>6
<1>3. CASE ~(p < n)
  <2> DEFINE i == p - n
  <2>1. i \in S /\ ValueAt(T, p) = T.node[i].val /\ k = T.node[i].key
    BY <1>1, <1>3 DEF ValueAt, KeyAt, NodeSet, Positions
  <2>2. NodeOK(T, T.node[i]) /\ k \in Key \cup {Nil}
    <3>1. NodeOK(T, T.node[i])
      BY <1>1, <2>1 DEF ShapeOK
    <3>2. T.node[i].key \in Key \cup {Nil}
      BY <1>1, <2>1, ShapeFacts
    <3> QED
      BY <2>1, <3>1, <3>2
  <2>3. k \in Key /\ k # Nil /\ ~T.node[i].dead /\ ~InArray(T, k)
    BY <2>1, <2>2 DEF NodeOK
  <2>4. luaH_get(T, k) = T.node[i].val
    BY <1>1, <2>1, <2>3, GetFacts
  <2>5. PICK c, r : /\ Chains(S, Nexts(T), c, r)
                    /\ OnChain(S, Keys(T), Mains(T), c, r)
                    /\ KeysOnce(S, Keys(T), Deads(T), r)
    BY ChainsOf
  <2> HIDE DEF i, k
  <2>6. Places(T, k) # {} /\ FirstNode(T, k) \in S /\ T.node[FirstNode(T, k)].key = k
        /\ (i # FirstNode(T, k) => r[i] < r[FirstNode(T, k)])
    BY <1>1, <2>1, <2>3, <2>5, FirstNodeFacts
  <2>7. FirstNode(T, k) = i
    <3>1. i # FirstNode(T, k) => r[FirstNode(T, k)] < r[i]
      <4>1. /\ Keys(T)[i] = k /\ Keys(T)[FirstNode(T, k)] = k /\ ~Deads(T)[i]
        BY <1>1, <2>1, <2>3, <2>6, ShapeFacts
      <4> QED
        BY <2>1, <2>3, <2>5, <2>6, <4>1 DEF KeysOnce
    <3>2. r[i] \in Nat /\ r[FirstNode(T, k)] \in Nat
      BY <2>1, <2>5, <2>6 DEF Chains
    <3> QED
      BY <2>6, <3>1, <3>2
  <2>8. findindex(T, k) = n + i
    BY <2>3, <2>6, <2>7 DEF findindex
  <2>9. n + i = p
    BY <1>1 DEF i
  <2> QED
    BY <2>1, <2>3, <2>4, <2>8, <2>9 DEF k
<1> QED
  BY <1>2, <1>3

(* A key has a position, which holds its value.                            *)
LEMMA IndexOfKey ==
  ASSUME NEW T, TableOK(T), NEW k \in Key
  PROVE  /\ findindex(T, k) = Invalid \/ findindex(T, k) \in Positions(T)
         /\ luaH_get(T, k) # Nil =>
              \E p \in Positions(T) : /\ findindex(T, k) = p /\ KeyAt(T, p) = k
                                      /\ ValueAt(T, p) # Nil
<1> DEFINE n == Len(T.array)
           S == NodeSet(T)
<1>1. /\ ShapeOK(T) /\ LinksOK(T) /\ n \in Nat /\ sizenode(T) \in Nat \ {0} /\ k # Nil
      /\ T.array \in Seq(Key \cup {Nil})
  BY ChainsOf, ShapeFacts, IntegersApart DEF ShapeOK
<1>2. CASE InArray(T, k)
  <2>1. k \in 1 .. n /\ luaH_get(T, k) = T.array[k]
    BY <1>1, <1>2, GetFacts
  <2>2. findindex(T, k) = k - 1 /\ k - 1 \in Positions(T) /\ k - 1 < n /\ (k - 1) + 1 = k
    BY <1>1, <1>2, <2>1 DEF findindex, Positions
  <2>3. KeyAt(T, k - 1) = k /\ ValueAt(T, k - 1) = T.array[k]
    BY <2>2 DEF KeyAt, ValueAt
  <2> QED
    BY <2>1, <2>2, <2>3
<1>3. CASE ~InArray(T, k)
  <2>1. Places(T, k) # {} => FirstNode(T, k) \in S
    BY <1>1, ChainsOf, FirstNodeFacts
  <2>2. findindex(T, k) = Invalid \/ findindex(T, k) \in Positions(T)
    BY <1>1, <1>3, <2>1 DEF findindex, Positions, NodeSet
  <2>3. ASSUME luaH_get(T, k) # Nil
        PROVE  \E p \in Positions(T) : /\ findindex(T, k) = p /\ KeyAt(T, p) = k
                                       /\ ValueAt(T, p) # Nil
    <3>1. HeldLive(T, k)
      BY <1>1, <1>3, <2>3, GetFacts
    <3>2. PICK i \in S : T.node[i].key = k /\ ~T.node[i].dead
      BY <3>1 DEF HeldLive
    <3>3. T.node[i].val # Nil
      BY <1>1, <2>3, <3>2, GetFacts
    <3> DEFINE p == n + i
    <3>4. p \in Positions(T) /\ ~(p < n) /\ p - n = i
      BY <1>1, <3>2 DEF Positions, NodeSet
    <3>5. ValueAt(T, p) = T.node[i].val /\ KeyAt(T, p) = k
      BY <3>2, <3>4 DEF ValueAt, KeyAt
    <3> HIDE DEF p
    <3>6. findindex(T, k) = p
      BY <3>3, <3>4, <3>5, KeyOfIndex
    <3> QED
      BY <3>3, <3>4, <3>5, <3>6
  <2> QED
    BY <2>2, <2>3
<1> QED
  BY <1>2, <1>3

-----------------------------------------------------------------------------
(* The traversal                                                           *)

Traversal == [on : BOOLEAN, at : Key \cup {Nil}, seen : SUBSET Key, must : SUBSET Key,
              lost : SUBSET Key, invalid : BOOLEAN]

(* The key to go on from has a position; the keys returned lie at or       *)
(* before it, those still to be returned behind it.                        *)
Passed ==
  /\ findindex(t, trav.at) # Invalid
  /\ \A k \in trav.must : content[k] # Nil
  /\ \A k \in trav.must \ trav.seen : findindex(t, trav.at) < findindex(t, k)
  /\ \A k \in trav.seen : /\ findindex(t, k) # Invalid
                          /\ findindex(t, k) <= findindex(t, trav.at)

TravOK ==
  /\ trav \in Traversal
  /\ trav.lost = {} /\ ~trav.invalid
  /\ trav.on => Passed

(* An assignment to an existing field moves no key.                        *)
LEMMA SetField ==
  ASSUME NEW T, TableOK(T), NEW k \in Key, NEW v \in {k, Nil}, luaH_get(T, k) # Nil,
         NEW T2, T2 = luaH_set(T, k, v)
  PROVE  SameKeys(T, T2)
<1>1. HasSlot(T, k) /\ (InArray(T, k) \/ HeldLive(T, k))
  BY GetFacts DEF TableOK
<1>2. T2 = Update(T, k, v)
  BY <1>1 DEF luaH_set, Store
<1> QED
  BY <1>1, <1>2, UpdateArray, UpdateNode

(* As long as the keys stay where they are, so does the traversal.         *)
LEMMA TravKept ==
  ASSUME TableOK(t), TableOK(t'), TravOK, trav.on => SameKeys(t, t'),
         NEW M \in SUBSET trav.must, trav' = [trav EXCEPT !.must = M],
         trav.on => \A k \in M : content'[k] # Nil
  PROVE  TravOK'
<1>1. trav \in Traversal /\ trav.lost = {} /\ ~trav.invalid
  BY DEF TravOK
<1>2. M \in SUBSET Key
  BY <1>1 DEF Traversal
<1>3. /\ trav' \in Traversal /\ trav'.lost = {} /\ ~trav'.invalid
      /\ trav'.on = trav.on /\ trav'.at = trav.at /\ trav'.seen = trav.seen /\ trav'.must = M
  BY <1>1, <1>2 DEF Traversal
<1>4. ASSUME trav'.on PROVE Passed'
  <2>1. trav.on /\ Passed /\ SameKeys(t, t')
    BY <1>3, <1>4 DEF TravOK
  <2>2. \A k \in Key \cup {Nil} : findindex(t', k) = findindex(t, k)
    BY <2>1, IndexSame
  <2>3. trav.at \in Key \cup {Nil} /\ trav.seen \subseteq Key /\ trav.must \subseteq Key
    BY <1>1 DEF Traversal
  <2>4. findindex(t', trav'.at) # Invalid
    BY <1>3, <2>1, <2>2, <2>3 DEF Passed
  <2>5. \A k \in trav'.must : content'[k] # Nil
    BY <1>3, <2>1
  <2>6. \A k \in trav'.must \ trav'.seen : findindex(t', trav'.at) < findindex(t', k)
    BY <1>3, <2>1, <2>2, <2>3 DEF Passed
  <2>7. \A k \in trav'.seen : /\ findindex(t', k) # Invalid
                              /\ findindex(t', k) <= findindex(t', trav'.at)
    BY <1>3, <2>1, <2>2, <2>3 DEF Passed
  <2> QED
    BY <2>4, <2>5, <2>6, <2>7 DEF Passed
<1> QED
  BY <1>3, <1>4 DEF TravOK

(* No traversal, no errors                                                 *)
LEMMA NoTraversalFacts ==
  /\ NoTraversal \in Traversal /\ ~NoTraversal.on /\ NoTraversal.lost = {}
  /\ ~NoTraversal.invalid /\ NoTraversal.seen = {} /\ NoTraversal.at = Nil
BY DEF NoTraversal, Traversal

(* The traversal starts before the first position.                         *)
LEMMA StartKept ==
  ASSUME TableOK(t), ContentOK, TravOK, StartTraversal
  PROVE  TravOK'
<1> DEFINE M == {k \in Key : content[k] # Nil}
<1>1. trav' = [NoTraversal EXCEPT !.on = TRUE, !.must = M] /\ t' = t /\ content' = content
  BY DEF StartTraversal
<1>2. M \in SUBSET Key /\ \A k \in M : content[k] # Nil /\ luaH_get(t, k) # Nil
  BY DEF ContentOK
<1> HIDE DEF M
<1>3. /\ trav' \in Traversal /\ trav'.lost = {} /\ ~trav'.invalid
      /\ trav'.at = Nil /\ trav'.seen = {} /\ trav'.must = M
  BY <1>1, <1>2 DEF NoTraversal, Traversal
<1>4. findindex(t', trav'.at) = -1
  BY <1>3 DEF findindex
<1>5. ASSUME NEW k \in M PROVE -1 < findindex(t', k)
  <2>1. findindex(t, k) \in Positions(t)
    BY <1>2, IndexOfKey
  <2> QED
    BY <1>1, <2>1 DEF Positions
<1>6. Passed'
  BY <1>1, <1>2, <1>3, <1>4, <1>5 DEF Passed, Invalid
<1> QED
  BY <1>3, <1>6 DEF TravOK

(* next goes on to the next position with a value, or ends when there is   *)
(* none, having returned all that had to be.                               *)
LEMMA NextKept ==
  ASSUME TableOK(t), ContentOK, TravOK, luaH_next
  PROVE  TravOK' /\ (trav'.at # trav.at => trav'.at \notin trav.seen)
<1> DEFINE i == findindex(t, trav.at)
           F == Following(t, trav.at)
           p == Min(F)
           k == KeyAt(t, p)
<1>1. /\ trav \in Traversal /\ trav.lost = {} /\ ~trav.invalid /\ trav.on /\ Passed
      /\ t' = t /\ content' = content /\ i # Invalid
  BY DEF TravOK, luaH_next, Passed
<1>2. /\ trav.at \in Key \cup {Nil} /\ trav.seen \subseteq Key /\ trav.must \subseteq Key
  BY <1>1 DEF Traversal
<1>3. trav' = IF F = {} THEN [NoTraversal EXCEPT !.lost = trav.must \ trav.seen]
              ELSE [trav EXCEPT !.at = k, !.seen = @ \cup {k}]
  BY <1>1 DEF luaH_next
<1>4. Len(t.array) \in Nat /\ sizenode(t) \in Nat
  BY ShapeFacts DEF TableOK
<1>5. i \in Nat \cup {-1}
  <2>1. CASE trav.at = Nil
    BY <2>1 DEF findindex
  <2>2. CASE trav.at # Nil
    <3>1. i \in Positions(t)
      BY <1>1, <1>2, <2>2, IndexOfKey
    <3> QED
      BY <3>1 DEF Positions
  <2> QED
    BY <2>1, <2>2
<1>6. F = {x \in Positions(t) : i < x /\ ValueAt(t, x) # Nil}
  BY <1>4, <1>5 DEF Following, Positions
<1> HIDE DEF i, F, p, k
<1>7. ASSUME NEW q \in trav.must, q \notin trav.seen
      PROVE  findindex(t, q) \in F /\ KeyAt(t, findindex(t, q)) = q
  <2>1. q \in Key /\ content[q] # Nil /\ luaH_get(t, q) # Nil /\ i < findindex(t, q)
    BY <1>1, <1>2, <1>7 DEF Passed, ContentOK, i
  <2>2. PICK x \in Positions(t) : findindex(t, q) = x /\ KeyAt(t, x) = q /\ ValueAt(t, x) # Nil
    BY <2>1, IndexOfKey
  <2> QED
    BY <1>6, <2>1, <2>2
<1>8. CASE F = {}
  <2>1. trav.must \ trav.seen = {}
    BY <1>7, <1>8
  <2>2. trav' = [NoTraversal EXCEPT !.lost = {}]
    BY <1>3, <1>8, <2>1
  <2>3. trav' = NoTraversal
    BY <2>2 DEF NoTraversal
  <2>4. trav'.at \notin trav.seen
    BY <1>2, <2>3, NoTraversalFacts, IntegersApart
  <2> QED
    BY <2>3, <2>4, NoTraversalFacts DEF TravOK
<1>9. CASE F # {}
  <2>1. p \in F /\ \A x \in F : p <= x
    <3>1. F \in SUBSET Nat /\ F \in SUBSET Int
      BY <1>4, <1>6 DEF Positions
    <3>2. PICK b \in F : \A d \in F : b <= d
      BY <1>9, <3>1, LeastNatural
    <3>3. Min(F) = b
      BY <3>1, <3>2, MinIs
    <3> QED
      BY <3>2, <3>3 DEF p
  <2>2. p \in Positions(t) /\ p \in Nat /\ i < p /\ ValueAt(t, p) # Nil
    BY <1>4, <1>6, <2>1 DEF Positions
  <2>3. k \in Key /\ findindex(t, k) = p
    BY <2>2, KeyOfIndex DEF k
  <2>4. /\ trav' \in Traversal /\ trav'.lost = {} /\ ~trav'.invalid
        /\ trav'.at = k /\ trav'.seen = trav.seen \cup {k} /\ trav'.must = trav.must
    BY <1>1, <1>3, <1>9, <2>3 DEF Traversal
  <2>5. k \notin trav.seen
    <3>1. k \in trav.seen => p <= i
      BY <1>1, <2>3 DEF Passed, i
    <3> QED
      BY <1>5, <2>2, <3>1
  <2>6. ASSUME NEW q \in trav'.must \ trav'.seen
        PROVE  findindex(t', trav'.at) < findindex(t', q)
    <3>1. q \in trav.must /\ q \notin trav.seen /\ q # k
      BY <2>4, <2>6
    <3>2. findindex(t, q) \in F /\ KeyAt(t, findindex(t, q)) = q
      BY <1>7, <3>1
    <3>3. p <= findindex(t, q) /\ p # findindex(t, q) /\ findindex(t, q) \in Nat
      BY <1>4, <1>6, <2>1, <3>1, <3>2 DEF k, Positions
    <3> QED
      BY <1>1, <2>2, <2>3, <2>4, <3>3
  <2>7. ASSUME NEW q \in trav'.seen
        PROVE  findindex(t', q) # Invalid /\ findindex(t', q) <= findindex(t', trav'.at)
    <3>1. CASE q = k
      BY <1>1, <2>2, <2>3, <2>4, <3>1 DEF Invalid
    <3>2. CASE q # k
      <4>1. q \in trav.seen /\ q \in Key
        BY <1>2, <2>4, <2>7, <3>2
      <4>2. findindex(t, q) # Invalid /\ findindex(t, q) <= i
        BY <1>1, <4>1 DEF Passed, i
      <4>3. findindex(t, q) \in Nat
        BY <1>4, <4>1, <4>2, IndexOfKey DEF Positions
      <4> QED
        BY <1>1, <1>5, <2>2, <2>3, <2>4, <4>2, <4>3
    <3> QED
      BY <3>1, <3>2
  <2>8. findindex(t', trav'.at) # Invalid /\ \A q \in trav'.must : content'[q] # Nil
    BY <1>1, <2>2, <2>3, <2>4 DEF Passed, Invalid
  <2>9. Passed'
    BY <2>6, <2>7, <2>8 DEF Passed
  <2> QED
    BY <2>4, <2>5, <2>9 DEF TravOK
<1> QED
  BY <1>8, <1>9

-----------------------------------------------------------------------------
(* The inductive invariant holds                                           *)

TableInv == TableOK(t) /\ ContentOK /\ TravOK

(* The invariant holds initially.                                          *)
LEMMA InitInv == Init => TableInv
<1> SUFFICES ASSUME Init PROVE TableInv
  OBVIOUS
<1>1. trav = NoTraversal
  BY DEF Init
<1> QED
  BY <1>1, InitContent, NoTraversalFacts DEF TableInv, TravOK

(* Every step keeps the traversal, and next returns a new key.             *)
LEMMA NextTrav ==
  ASSUME TableInv, TableOK(t'), [Next]_vars
  PROVE  TravOK' /\ (trav.on /\ trav'.at # trav.at => trav'.at \notin trav.seen)
<1>1. TableOK(t) /\ ContentOK /\ TravOK /\ trav \in Traversal
  BY DEF TableInv, TravOK
<1>2. trav.on => \A k \in trav.must : content[k] # Nil
  BY <1>1 DEF TravOK, Passed
<1>3. trav = [trav EXCEPT !.must = trav.must]
  BY <1>1 DEF Traversal
<1>4. trav.must \subseteq Key
  BY <1>1 DEF Traversal
<1>5. ASSUME NEW M \in SUBSET trav.must, trav' = [trav EXCEPT !.must = M]
      PROVE  trav'.at = trav.at
  BY <1>1, <1>5 DEF Traversal
<1>6. ASSUME NEW k \in Key, NEW v \in {k, Nil}, Set(k, v)
      PROVE  TravOK' /\ trav'.at = trav.at
  <2> DEFINE M == IF v = Nil THEN trav.must \ {k} ELSE trav.must
  <2>1. /\ trav' = [trav EXCEPT !.must = M] /\ t' = luaH_set(t, k, v)
        /\ content' = [content EXCEPT ![k] = v] /\ (trav.on => content[k] # Nil)
    BY <1>6 DEF Set
  <2>2. M \in SUBSET trav.must /\ (v = Nil => k \notin M)
    OBVIOUS
  <2> HIDE DEF M
  <2>3. trav.on => SameKeys(t, t')
    <3>1. trav.on => luaH_get(t, k) # Nil
      BY <1>1, <2>1 DEF ContentOK
    <3> QED
      BY <1>1, <2>1, <3>1, SetField
  <2>4. trav.on => \A q \in M : content'[q] # Nil
    <3>1. content \in [Key -> Key \cup {Nil}]
      BY <1>1 DEF ContentOK
    <3> QED
      BY <1>2, <1>4, <2>1, <2>2, <3>1
  <2> QED
    BY <1>1, <1>5, <2>1, <2>2, <2>3, <2>4, TravKept
<1>7. ASSUME NEW k \in Key, ClearTable(k)
      PROVE  TravOK' /\ trav'.at = trav.at
  <2> DEFINE M == trav.must \ {k}
  <2>1. trav' = [trav EXCEPT !.must = M] /\ content' = [content EXCEPT ![k] = Nil]
    BY <1>7 DEF ClearTable
  <2>2. M \in SUBSET trav.must /\ k \notin M
    OBVIOUS
  <2> HIDE DEF M
  <2>3. SameKeys(t, t')
    BY <1>1, <1>7, ClearContent
  <2>4. trav.on => \A q \in M : content'[q] # Nil
    <3>1. content \in [Key -> Key \cup {Nil}]
      BY <1>1 DEF ContentOK
    <3> QED
      BY <1>2, <1>4, <2>1, <2>2, <3>1
  <2> QED
    BY <1>1, <1>5, <2>1, <2>2, <2>3, <2>4, TravKept
<1>8. ASSUME NEW vals, SetList(vals) PROVE TravOK' /\ trav'.at = trav.at
  <2>1. ~trav.on /\ trav' = trav
    BY <1>8 DEF SetList
  <2> QED
    BY <1>1, <2>1 DEF TravOK
<1>9. CASE TraverseTable
  <2>1. trav' = [trav EXCEPT !.must = trav.must] /\ content' = content
    BY <1>3, <1>9 DEF TraverseTable
  <2>2. SameKeys(t, t')
    BY <1>1, <1>9, RemoveContent
  <2> QED
    BY <1>1, <1>2, <1>5, <2>1, <2>2, TravKept
<1>10. CASE StartTraversal
  BY <1>1, <1>10, StartKept DEF StartTraversal
<1>11. CASE luaH_next
  BY <1>1, <1>11, NextKept
<1>12. CASE UNCHANGED vars
  <2>1. t' = t /\ content' = content /\ trav' = trav
    BY <1>12 DEF vars
  <2> QED
    BY <1>1, <2>1 DEF TravOK, Passed
<1> QED
  BY <1>6, <1>7, <1>8, <1>9, <1>10, <1>11, <1>12 DEF Next

(* Every step keeps the invariant.                                         *)
LEMMA StepInv == TableInv /\ [Next]_vars => TableInv'
<1> SUFFICES ASSUME TableInv, [Next]_vars PROVE TableInv'
  OBVIOUS
<1>1. TableOK(t') /\ ContentOK'
  BY NextContent DEF TableInv
<1>2. TravOK'
  BY <1>1, NextTrav
<1> QED
  BY <1>1, <1>2 DEF TableInv

(* In every state the table is in order, a lookup finds what was stored,   *)
(* and a traversal is where it should be.                                  *)
THEOREM TableInOrder == Spec => []TableInv
BY InitInv, StepInv, PTL DEF Spec

-----------------------------------------------------------------------------
(* What follows                                                            *)

(* Every variable of the table has its type.                               *)
THEOREM TableTypes == Spec => []TypeOK
<1>1. TableInv => TypeOK
  <2> SUFFICES ASSUME TableInv PROVE TypeOK
    OBVIOUS
  <2>1. ShapeOK(t) /\ ContentOK /\ trav \in Traversal
    BY DEF TableInv, TableOK, TravOK
  <2>2. /\ t.array \in Seq(Key \cup {Nil}) /\ t.ref \in [Collectable -> Nat]
        /\ t.node \in [NodeSet(t) -> NodeRecord(sizenode(t))]
    BY <2>1, ShapeFacts
  <2>3. DOMAIN t.node = NodeSet(t)
    BY <2>2
  <2>4. ASSUME NEW i \in DOMAIN t.node
        PROVE  t.node[i] \in [key : Key \cup {Nil}, val : Key \cup {Nil},
                              next : DOMAIN t.node \cup {NULL}, dead : BOOLEAN]
    <3>1. t.node[i] \in NodeRecord(sizenode(t))
      BY <2>2, <2>3
    <3> QED
      BY <2>3, <3>1 DEF NodeRecord, NodeSet
  <2>5. content \in [Key -> Key \cup {Nil}]
    BY <2>1 DEF ContentOK
  <2>6. trav.at \in Key \cup {Nil} /\ trav.seen \subseteq Key
    BY <2>1 DEF Traversal
  <2> QED
    BY <2>2, <2>4, <2>5, <2>6 DEF TypeOK
<1> QED
  BY <1>1, TableInOrder, PTL

(* luaH_get finds under every key what was last stored there, whatever     *)
(* has collided, moved, died and been rehashed since.                      *)
THEOREM GetFindsWhatWasSet == Spec => []GetMatches
<1>1. TableInv => GetMatches
  BY DEF TableInv, ContentOK, GetMatches
<1> QED
  BY <1>1, TableInOrder, PTL

(* A rehash leaves room for the key that caused it and for every element   *)
(* that is inserted again: newkey never rehashes inside a rehash.          *)
THEOREM RehashHasRoom == Spec => []RehashMakesRoom
<1>1. TableInv => RehashMakesRoom
  BY DEF TableInv, TableOK, ShapeOK, RehashMakesRoom
<1> QED
  BY <1>1, TableInOrder, PTL

(* luaH_getn returns a border of what the program has stored.              *)
THEOREM GetnIsABorder == Spec => []IsBorder
<1>1. TableInv => IsBorder
  BY BorderOfContent DEF TableInv
<1> QED
  BY <1>1, TableInOrder, PTL

(* A traversal ends without an error, and only when it has returned every  *)
(* key that stayed in the table.                                           *)
THEOREM TraversalIsComplete == Spec => []NextComplete
<1>1. TableInv => NextComplete
  BY DEF TableInv, TravOK, NextComplete
<1> QED
  BY <1>1, TableInOrder, PTL

(* luaH_next returns no key twice.                                         *)
THEOREM TraversalIsOnce == Spec => NextOnce
<1>1. TableInv /\ [Next]_vars =>
        [trav.on /\ trav'.at # trav.at => trav'.at \notin trav.seen]_vars
  <2> SUFFICES ASSUME TableInv, [Next]_vars
               PROVE  trav.on /\ trav'.at # trav.at => trav'.at \notin trav.seen
    OBVIOUS
  <2>1. TableOK(t')
    BY NextContent DEF TableInv
  <2> QED
    BY <2>1, NextTrav
<1> QED
  BY <1>1, TableInOrder, PTL DEF Spec, NextOnce

(* A key that a node can still be read by is covered by a reference.       *)
THEOREM KeysAreHeld == Spec => []KeyRefsCover
<1>1. TableInv => KeyRefsCover
  <2> SUFFICES ASSUME TableInv, NEW k \in Collectable
               PROVE  t.ref[k] >= Cardinality(KeySlots(k))
    BY DEF KeyRefsCover
  <2>1. ShapeOK(t) /\ LinksOK(t) /\ RefsOK(t) /\ k \in Key
    BY DEF TableInv, TableOK, Key, Collectable
  <2>2. t.ref[k] \in Nat /\ DOMAIN t.node = NodeSet(t)
    BY <2>1, ShapeFacts
  <2>3. KeySlots(k) = {i \in NodeSet(t) : t.node[i].key = k /\ ~t.node[i].dead}
    BY <2>2 DEF KeySlots
  <2>4. \A i, j \in KeySlots(k) : i = j
    BY <2>1, <2>3, HeldOnce
  <2>5. KeySlots(k) # {} => t.ref[k] >= 1
    BY <2>1, <2>3 DEF RefsOK, HeldLive
  <2> HIDE DEF KeySlots
  <2> QED
    BY <2>2, <2>4, <2>5, AtMostOne
<1> QED
  BY <1>1, TableInOrder, PTL

=============================================================================
