---------------------------- MODULE GcListsProofs ---------------------------
(***************************************************************************)
(* Proofs about GcLists for any number of objects: the links of rootgc and *)
(* of tmudata are those of two lists, whatever is spliced in and out of    *)
(* them and wherever the sweep is.                                         *)
(***************************************************************************)
EXTENDS GcLists, Loops, FiniteSetTheorems, SequenceTheorems, TLAPS

Cells == Cell \cup {Nil}

-----------------------------------------------------------------------------
(* The inductive invariant                                                 *)

OnList == {Main} \cup {o \in Obj : place[o] = "list"}
Waiting == {o \in Obj : place[o] = "tmu"}

(* The links nx run through S in the order of r; the last one is e.        *)
Sorted(nx, S, r, e) ==
  /\ \A x, y \in S : r[x] = r[y] => x = y
  /\ \A x \in S :
       \/ nx[x] = e /\ \A y \in S : r[y] <= r[x]
       \/ /\ nx[x] \in S /\ r[x] < r[nx[x]]
          /\ \A y \in S : r[y] <= r[x] \/ r[nx[x]] <= r[y]

(* The links pv go back along nx.                                          *)
Back(nx, pv, S, first) ==
  /\ pv[first] = Nil
  /\ \A x \in S : x # first => pv[x] \in S /\ nx[pv[x]] = x
  /\ \A x \in S : nx[x] # Nil => pv[nx[x]] = x

(* rootgc: its cells are S in the order of r, and the userdata are behind  *)
(* the main thread, all else before it.                                    *)
RootList(nx, pv, S, first, r) ==
  /\ Sorted(nx, S, r, Nil) /\ Back(nx, pv, S, first)
  /\ first \in S /\ \A x \in S : r[first] <= r[x]
  /\ Main \in S
  /\ \A x \in S : (x \in Udata => r[Main] < r[x]) /\ (x \in Plain => r[x] < r[Main])

(* tmudata: its cells are S in the order of r, from the one behind last    *)
(* to last.                                                                *)
Circle(nx, S, last, r) ==
  \/ S = {} /\ last = Nil
  \/ /\ last \in S /\ nx[last] \in S
     /\ Sorted(nx, S, r, nx[last])
     /\ \A x \in S : r[nx[last]] <= r[x] /\ r[x] <= r[last]

(* What the sweep has to find: lua_close no longer cares.                  *)
Due == IF closing = "no" THEN dead ELSE {}

(* The sweep is in a list, S or T, and ahead in S is what is dead there.   *)
Ahead(at, D, S, T, r) ==
  at # Root => at \in S \cup T /\ (at \in S => \A o \in D \cap S : r[at] < r[o])

Order(r) ==
  /\ RootList(next, prev, OnList, rootgc, r)
  /\ Circle(next, Waiting, tmudata, r)
  /\ gcstate = "sweep" => Ahead(sweepgc, Due, OnList, Waiting, r)

(* What the objects of dead, fin and frames can be.                        *)
Marked ==
  /\ \A o \in dead : place[o] \in {"list", "off", "lost"} /\ (o \in Udata => o \in fin)
  /\ \A o \in Obj : place[o] = "tmu" => o \in Udata
  /\ \A o \in Obj : place[o] = "off" => \E i \in 1 .. Len(frames) : frames[i] = o
  /\ gcstate = "sweep" /\ closing = "no" => sweepgc = Root \/ sweepgc \in OnList

Closed ==
  gcstate = "closed" =>
    /\ frames = <<>> /\ full = "no" /\ closing # "no" /\ tmudata = Nil
    /\ \A o \in Obj : place[o] \in {"free", "lost"}

(* Nothing is lost without errors.                                         *)
LostByErrors == \A o \in Obj : place[o] = "lost" => Errors

GcInv == TypeOK /\ (\E r \in [Cell -> Int] : Order(r)) /\ Marked /\ Closed

-----------------------------------------------------------------------------
(* Splicing                                                                *)

LEMMA Cells0 ==
  /\ Main \in Cell /\ Nil \notin Cell /\ Root \notin Cell
  /\ Plain \subseteq Obj /\ Udata \subseteq Obj /\ Obj \subseteq Cell
  /\ \A x \in Cell : x = Main \/ x \in Plain \/ x \in Udata
  /\ Main \notin Plain /\ Main \notin Udata
BY ListAssumption DEF Cell, Obj

(* The links after o is taken out of the list S.                           *)
Cut(nx, pv, nx2, pv2, S, o) ==
  /\ \A x \in S \ {o} : nx2[x] = IF nx[x] = o THEN nx[o] ELSE nx[x]
  /\ \A x \in S \ {o} : pv2[x] = IF x = nx[o] THEN pv[o] ELSE pv[x]

LEMMA RootCut ==
  ASSUME NEW nx \in [Cell -> Cells], NEW pv \in [Cell -> Cells], NEW S \in SUBSET Cell,
         NEW first, NEW r \in [Cell -> Int], RootList(nx, pv, S, first, r),
         NEW o \in S, o # Main, NEW nx2, NEW pv2, Cut(nx, pv, nx2, pv2, S, o)
  PROVE  RootList(nx2, pv2, S \ {o}, IF first = o THEN nx[o] ELSE first, r)
<1> DEFINE R == S \ {o}
           f2 == IF first = o THEN nx[o] ELSE first
<1>1. /\ \A x \in S : r[x] \in Int
      /\ \A x, y \in S : r[x] = r[y] => x = y
      /\ \A x \in S : \/ nx[x] = Nil /\ \A y \in S : r[y] <= r[x]
                      \/ /\ nx[x] \in S /\ r[x] < r[nx[x]]
                         /\ \A y \in S : r[y] <= r[x] \/ r[nx[x]] <= r[y]
  BY DEF RootList, Sorted
<1>2. /\ pv[first] = Nil
      /\ \A x \in S : x # first => pv[x] \in S /\ nx[pv[x]] = x
      /\ \A x \in S : nx[x] # Nil => pv[nx[x]] = x
      /\ first \in S /\ \A x \in S : r[first] <= r[x]
      /\ Main \in S
  BY DEF RootList, Back
<1>3. Nil \notin S
  BY Cells0
<1>4. /\ \A x \in R : nx2[x] = IF nx[x] = o THEN nx[o] ELSE nx[x]
      /\ \A x \in R : pv2[x] = IF x = nx[o] THEN pv[o] ELSE pv[x]
      /\ R \subseteq S /\ o \notin R /\ \A x \in S : x # o => x \in R
  BY DEF Cut
<1>5. nx[o] # o /\ \A x \in S : nx[x] # x
  BY <1>1, <1>3
<1>6. f2 \in R /\ \A x \in R : r[f2] <= r[x]
  <2>1. CASE first = o
    <3>1. nx[o] \in R
      BY <1>1, <1>2, <1>4, <1>5, <2>1
    <3>2. ASSUME NEW x \in R PROVE r[nx[o]] <= r[x]
      <4>1. r[o] <= r[x] /\ r[o] # r[x]
        BY <1>1, <1>2, <1>4, <2>1
      <4>2. nx[o] # Nil
        BY <1>3, <3>1
      <4> QED
        BY <1>1, <1>4, <4>1, <4>2
    <3> QED
      BY <2>1, <3>1, <3>2
  <2>2. CASE first # o
    BY <1>2, <1>4, <2>2
  <2> QED
    BY <2>1, <2>2
<1>7. Sorted(nx2, R, r, Nil)
  <2>1. ASSUME NEW x \in R
        PROVE  \/ nx2[x] = Nil /\ \A y \in R : r[y] <= r[x]
               \/ /\ nx2[x] \in R /\ r[x] < r[nx2[x]]
                  /\ \A y \in R : r[y] <= r[x] \/ r[nx2[x]] <= r[y]
    <3>1. CASE nx[x] = o /\ nx[o] = Nil
      <4>1. nx2[x] = Nil
        BY <1>4, <3>1
      <4>2. ASSUME NEW y \in R PROVE r[y] <= r[x]
        <5>1. r[y] <= r[o] /\ r[y] # r[o]
          BY <1>1, <1>3, <1>4, <3>1
        <5>2. r[y] <= r[x] \/ r[o] <= r[y]
          BY <1>1, <1>3, <1>4, <3>1
        <5> QED
          BY <1>1, <1>4, <5>1, <5>2
      <4> QED
        BY <4>1, <4>2
    <3>2. CASE nx[x] = o /\ nx[o] # Nil
      <4>1. nx2[x] = nx[o] /\ nx[o] \in R
        BY <1>1, <1>4, <1>5, <3>2
      <4>2. r[x] < r[o] /\ r[o] < r[nx[o]]
        BY <1>1, <1>3, <1>4, <3>2
      <4>3. ASSUME NEW y \in R PROVE r[y] <= r[x] \/ r[nx[o]] <= r[y]
        <5>1. r[y] <= r[x] \/ r[o] <= r[y]
          BY <1>1, <1>3, <1>4, <3>2
        <5>2. r[y] <= r[o] \/ r[nx[o]] <= r[y]
          BY <1>1, <1>3, <1>4, <3>2
        <5>3. r[y] # r[o]
          BY <1>1, <1>4
        <5> QED
          BY <1>1, <1>4, <5>1, <5>2, <5>3
      <4> QED
        BY <1>1, <1>4, <4>1, <4>2, <4>3
    <3>3. CASE nx[x] # o
      <4>1. nx2[x] = nx[x]
        BY <1>4, <3>3
      <4> QED
        BY <1>1, <1>4, <3>3, <4>1
    <3> QED
      BY <3>1, <3>2, <3>3
  <2> QED
    BY <1>1, <1>4, <2>1 DEF Sorted
<1>8. Back(nx2, pv2, R, f2)
  <2>1. pv2[f2] = Nil
    <3>1. CASE first = o
      <4>1. f2 = nx[o] /\ pv2[nx[o]] = pv[o]
        BY <1>4, <1>6, <3>1
      <4> QED
        BY <1>2, <3>1, <4>1
    <3>2. CASE first # o
      <4>1. f2 = first /\ first # nx[o]
        BY <1>2, <1>3, <3>2
      <4> QED
        BY <1>2, <1>4, <1>6, <4>1
    <3> QED
      BY <3>1, <3>2
  <2>2. ASSUME NEW x \in R, x # f2 PROVE pv2[x] \in R /\ nx2[pv2[x]] = x
    <3>1. CASE x = nx[o]
      <4>1. o # first
        BY <2>2, <3>1
      <4>2. pv2[x] = pv[o] /\ pv[o] \in S /\ nx[pv[o]] = o
        BY <1>2, <1>4, <3>1, <4>1
      <4>3. pv[o] # o
        BY <1>5, <4>2
      <4> QED
        BY <1>4, <3>1, <4>2, <4>3
    <3>2. CASE x # nx[o]
      <4>1. x # first
        BY <1>4, <2>2
      <4>2. pv2[x] = pv[x] /\ pv[x] \in S /\ nx[pv[x]] = x
        BY <1>2, <1>4, <3>2, <4>1
      <4>3. pv[x] # o /\ x # o
        BY <1>4, <3>2, <4>2
      <4> QED
        BY <1>4, <4>2, <4>3
    <3> QED
      BY <3>1, <3>2
  <2>3. ASSUME NEW x \in R, nx2[x] # Nil PROVE pv2[nx2[x]] = x
    <3>1. CASE nx[x] = o
      <4>1. nx2[x] = nx[o] /\ nx[o] # Nil
        BY <1>4, <2>3, <3>1
      <4>2. nx[o] \in R
        BY <1>1, <1>4, <1>5, <4>1
      <4>3. pv2[nx[o]] = pv[o]
        BY <1>4, <4>2
      <4>4. o # Nil /\ pv[o] = x
        BY <1>2, <1>3, <1>4, <3>1
      <4> QED
        BY <4>1, <4>3, <4>4
    <3>2. CASE nx[x] # o
      <4>1. nx2[x] = nx[x] /\ nx[x] \in R /\ pv[nx[x]] = x
        BY <1>1, <1>2, <1>4, <2>3, <3>2
      <4>2. nx[x] # nx[o]
        BY <1>2, <1>4, <2>3, <4>1
      <4> QED
        BY <1>4, <4>1, <4>2
    <3> QED
      BY <3>1, <3>2
  <2> QED
    BY <2>1, <2>2, <2>3 DEF Back
<1>9. Main \in R /\ \A x \in R : (x \in Udata => r[Main] < r[x]) /\ (x \in Plain => r[x] < r[Main])
  BY <1>2, <1>4 DEF RootList
<1> HIDE DEF f2, R
<1>10. RootList(nx2, pv2, R, f2, r)
  BY <1>6, <1>7, <1>8, <1>9 DEF RootList
<1> QED
  BY <1>10 DEF R, f2

(* The links, and the ranks, after u is put behind the main thread.        *)
AfterMain(nx, pv, nx2, pv2, S, u) ==
  /\ nx2[u] = nx[Main] /\ nx2[Main] = u
  /\ \A x \in S \ {Main} : nx2[x] = nx[x]
  /\ pv2[u] = Main
  /\ \A x \in S : pv2[x] = IF x = nx[Main] THEN u ELSE pv[x]

Shift(r, S, u) ==
  [x \in Cell |-> IF x = u THEN r[Main] + 1
                  ELSE IF x \in S /\ r[Main] < r[x] THEN r[x] + 1 ELSE r[x]]

LEMMA ShiftRanks ==
  ASSUME NEW S \in SUBSET Cell, NEW r \in [Cell -> Int], NEW u \in Cell \ S, Main \in S
  PROVE  /\ Shift(r, S, u) \in [Cell -> Int]
         /\ Shift(r, S, u)[u] = r[Main] + 1 /\ Shift(r, S, u)[Main] = r[Main]
         /\ \A x \in S : Shift(r, S, u)[x] = IF r[Main] < r[x] THEN r[x] + 1 ELSE r[x]
         /\ \A x \in Cell \ (S \cup {u}) : Shift(r, S, u)[x] = r[x]
         /\ \A x, y \in S : r[x] < r[y] <=> Shift(r, S, u)[x] < Shift(r, S, u)[y]
         /\ \A x \in S : r[Main] < r[x] <=> Shift(r, S, u)[u] < Shift(r, S, u)[x]
<1>1. /\ Shift(r, S, u) \in [Cell -> Int]
      /\ Shift(r, S, u)[u] = r[Main] + 1 /\ Shift(r, S, u)[Main] = r[Main]
      /\ \A x \in S : Shift(r, S, u)[x] = IF r[Main] < r[x] THEN r[x] + 1 ELSE r[x]
      /\ \A x \in Cell \ (S \cup {u}) : Shift(r, S, u)[x] = r[x]
  BY DEF Shift
<1>2. \A x \in S : r[x] \in Int /\ r[Main] \in Int
  OBVIOUS
<1> QED
  BY <1>1, <1>2

LEMMA RootInsert ==
  ASSUME NEW nx \in [Cell -> Cells], NEW pv \in [Cell -> Cells], NEW S \in SUBSET Cell,
         NEW first, NEW r \in [Cell -> Int], RootList(nx, pv, S, first, r),
         NEW u \in Udata \ S, NEW nx2, NEW pv2, AfterMain(nx, pv, nx2, pv2, S, u)
  PROVE  RootList(nx2, pv2, S \cup {u}, first, Shift(r, S, u))
<1> DEFINE R == S \cup {u}
           q == Shift(r, S, u)
<1>1. /\ \A x \in S : r[x] \in Int
      /\ \A x, y \in S : r[x] = r[y] => x = y
      /\ \A x \in S : \/ nx[x] = Nil /\ \A y \in S : r[y] <= r[x]
                      \/ /\ nx[x] \in S /\ r[x] < r[nx[x]]
                         /\ \A y \in S : r[y] <= r[x] \/ r[nx[x]] <= r[y]
  BY DEF RootList, Sorted
<1>2. /\ pv[first] = Nil
      /\ \A x \in S : x # first => pv[x] \in S /\ nx[pv[x]] = x
      /\ \A x \in S : nx[x] # Nil => pv[nx[x]] = x
      /\ first \in S /\ \A x \in S : r[first] <= r[x]
      /\ Main \in S
  BY DEF RootList, Back
<1>3. Nil \notin S /\ u # Main /\ u \in Cell \ S /\ u # Nil
  BY <1>2, Cells0
<1>4. /\ nx2[u] = nx[Main] /\ nx2[Main] = u /\ pv2[u] = Main
      /\ \A x \in S : x # Main => nx2[x] = nx[x]
      /\ \A x \in S : pv2[x] = IF x = nx[Main] THEN u ELSE pv[x]
  BY DEF AfterMain
<1>5. /\ q \in [Cell -> Int]
      /\ q[u] = r[Main] + 1 /\ q[Main] = r[Main]
      /\ \A x \in S : q[x] = IF r[Main] < r[x] THEN r[x] + 1 ELSE r[x]
      /\ \A x, y \in S : r[x] < r[y] <=> q[x] < q[y]
      /\ \A x \in S : r[Main] < r[x] <=> q[u] < q[x]
  BY <1>2, <1>3, ShiftRanks
<1>6. \A x \in R : q[x] \in Int
  BY <1>3, <1>5
<1> HIDE DEF q
<1>7. \A x, y \in R : q[x] = q[y] => x = y
  <2>1. ASSUME NEW x \in S, NEW y \in S, q[x] = q[y] PROVE x = y
    <3>1. ~(r[x] < r[y]) /\ ~(r[y] < r[x])
      BY <1>5, <1>6, <2>1
    <3> QED
      BY <1>1, <3>1
  <2>2. ASSUME NEW x \in S PROVE q[x] # q[u]
    BY <1>1, <1>2, <1>5
  <2> QED
    BY <2>1, <2>2
<1>8. ASSUME NEW x \in R
      PROVE  \/ nx2[x] = Nil /\ \A y \in R : q[y] <= q[x]
             \/ /\ nx2[x] \in R /\ q[x] < q[nx2[x]]
                /\ \A y \in R : q[y] <= q[x] \/ q[nx2[x]] <= q[y]
  <2>1. CASE x = u
    <3>1. CASE nx[Main] = Nil
      <4>1. ASSUME NEW y \in S PROVE q[y] <= q[u]
        BY <1>1, <1>2, <1>3, <1>5, <3>1
      <4> QED
        BY <1>4, <1>6, <2>1, <3>1, <4>1
    <3>2. CASE nx[Main] # Nil
      <4>1. nx[Main] \in S /\ r[Main] < r[nx[Main]]
        BY <1>1, <1>2, <3>2
      <4>2. q[u] < q[nx[Main]]
        BY <1>5, <4>1
      <4>3. ASSUME NEW y \in S PROVE q[y] <= q[u] \/ q[nx[Main]] <= q[y]
        <5>1. r[y] <= r[Main] \/ r[nx[Main]] <= r[y]
          BY <1>1, <1>2, <3>2
        <5> QED
          BY <1>1, <1>2, <1>5, <4>1, <5>1
      <4> QED
        BY <1>4, <1>6, <2>1, <4>1, <4>2, <4>3
    <3> QED
      BY <3>1, <3>2
  <2>2. CASE x = Main
    <3>1. q[Main] < q[u]
      BY <1>1, <1>2, <1>5
    <3>2. ASSUME NEW y \in S PROVE q[y] <= q[Main] \/ q[u] <= q[y]
      BY <1>1, <1>2, <1>5
    <3> QED
      BY <1>4, <1>6, <2>2, <3>1, <3>2
  <2>3. CASE x \in S /\ x # Main
    <3>1. nx2[x] = nx[x]
      BY <1>4, <2>3
    <3>2. CASE nx[x] = Nil
      <4>1. ASSUME NEW y \in S PROVE q[y] <= q[x]
        BY <1>1, <1>2, <1>3, <1>5, <1>6, <2>3, <3>2
      <4>2. r[Main] <= r[x] /\ r[Main] # r[x]
        BY <1>1, <1>2, <1>3, <2>3, <3>2
      <4>3. q[u] <= q[x]
        BY <1>1, <1>2, <1>5, <2>3, <4>2
      <4> QED
        BY <3>1, <3>2, <4>1, <4>3
    <3>3. CASE nx[x] # Nil
      <4>1. nx[x] \in S /\ r[x] < r[nx[x]] /\ \A y \in S : r[y] <= r[x] \/ r[nx[x]] <= r[y]
        BY <1>1, <2>3, <3>3
      <4>2. q[x] < q[nx[x]]
        BY <1>5, <2>3, <4>1
      <4>3. ASSUME NEW y \in S PROVE q[y] <= q[x] \/ q[nx[x]] <= q[y]
        <5>1. ~(r[x] < r[y]) \/ ~(r[y] < r[nx[x]])
          BY <1>1, <2>3, <4>1
        <5> QED
          BY <1>5, <1>6, <2>3, <4>1, <5>1
      <4>4. q[u] <= q[x] \/ q[nx[x]] <= q[u]
        <5>1. r[Main] <= r[x] \/ r[nx[x]] <= r[Main]
          BY <1>2, <4>1
        <5>2. r[Main] # r[x]
          BY <1>1, <1>2, <2>3
        <5>3. r[Main] < r[x] => q[u] < q[x]
          BY <1>5, <2>3
        <5>4. r[nx[x]] <= r[Main] => q[nx[x]] = r[nx[x]]
          BY <1>1, <1>2, <1>5, <4>1
        <5>5. /\ r[Main] \in Int /\ r[x] \in Int /\ r[nx[x]] \in Int
              /\ q[u] = r[Main] + 1 /\ q[x] \in Int
          BY <1>1, <1>2, <1>5, <1>6, <2>3, <4>1
        <5> QED
          BY <5>1, <5>2, <5>3, <5>4, <5>5
      <4> QED
        BY <3>1, <4>1, <4>2, <4>3, <4>4
    <3> QED
      BY <3>2, <3>3
  <2> QED
    BY <2>1, <2>2, <2>3
<1>9. Back(nx2, pv2, R, first)
  <2>1. first # nx[Main]
    BY <1>2, <1>3
  <2>2. pv2[first] = Nil
    BY <1>2, <1>4, <2>1
  <2>3. ASSUME NEW x \in R, x # first PROVE pv2[x] \in R /\ nx2[pv2[x]] = x
    <3>1. CASE x = u
      BY <1>2, <1>4, <3>1
    <3>2. CASE x # u /\ x = nx[Main]
      BY <1>4, <3>2
    <3>3. CASE x # u /\ x # nx[Main]
      <4>1. pv2[x] = pv[x] /\ pv[x] \in S /\ nx[pv[x]] = x
        BY <1>2, <1>4, <2>3, <3>3
      <4>2. pv[x] # Main
        BY <3>3, <4>1
      <4> QED
        BY <1>4, <4>1, <4>2
    <3> QED
      BY <3>1, <3>2, <3>3
  <2>4. ASSUME NEW x \in R, nx2[x] # Nil PROVE pv2[nx2[x]] = x
    <3>1. CASE x = u
      <4>1. nx2[x] = nx[Main] /\ nx[Main] \in S
        BY <1>1, <1>2, <1>4, <2>4, <3>1
      <4> QED
        BY <1>4, <3>1, <4>1
    <3>2. CASE x = Main
      BY <1>4, <3>2
    <3>3. CASE x \in S /\ x # Main
      <4>1. nx2[x] = nx[x] /\ nx[x] \in S /\ pv[nx[x]] = x
        BY <1>1, <1>2, <1>4, <2>4, <3>3
      <4>2. nx[x] # nx[Main]
        BY <1>2, <3>3, <4>1, <2>4
      <4> QED
        BY <1>4, <4>1, <4>2
    <3> QED
      BY <3>1, <3>2, <3>3
  <2> QED
    BY <2>2, <2>3, <2>4 DEF Back
<1>10. first \in R /\ \A x \in R : q[first] <= q[x]
  <2>1. ASSUME NEW x \in S PROVE q[first] <= q[x]
    BY <1>2, <1>5, <1>6
  <2>2. q[first] <= q[Main] /\ q[Main] < q[u]
    BY <1>1, <1>2, <1>5, <2>1
  <2> QED
    BY <1>2, <1>6, <2>1, <2>2
<1>11. /\ Main \in R
       /\ \A x \in R : (x \in Udata => q[Main] < q[x]) /\ (x \in Plain => q[x] < q[Main])
  <2>1. u \notin Plain
    BY ListAssumption
  <2>2. \A x \in S : (x \in Udata => r[Main] < r[x]) /\ (x \in Plain => r[x] < r[Main])
    BY DEF RootList
  <2>3. q[Main] < q[u]
    BY <1>1, <1>2, <1>5
  <2> QED
    BY <1>2, <1>5, <2>1, <2>2, <2>3
<1>12. Sorted(nx2, R, q, Nil)
  BY <1>7, <1>8 DEF Sorted
<1> HIDE DEF R
<1>13. RootList(nx2, pv2, R, first, q)
  BY <1>9, <1>10, <1>11, <1>12 DEF RootList
<1> QED
  BY <1>13 DEF R, q

LEMMA RootFirst ==
  ASSUME NEW nx \in [Cell -> Cells], NEW pv \in [Cell -> Cells], NEW S \in SUBSET Cell,
         NEW first, NEW r \in [Cell -> Int], RootList(nx, pv, S, first, r),
         NEW o \in Plain \ S
  PROVE  RootList([nx EXCEPT ![o] = first], [pv EXCEPT ![o] = Nil, ![first] = o],
                  S \cup {o}, o, [r EXCEPT ![o] = r[first] - 1])
<1> DEFINE R == S \cup {o}
           nx2 == [nx EXCEPT ![o] = first]
           pv2 == [pv EXCEPT ![o] = Nil, ![first] = o]
           q == [r EXCEPT ![o] = r[first] - 1]
<1>1. /\ \A x \in S : r[x] \in Int
      /\ \A x, y \in S : r[x] = r[y] => x = y
      /\ \A x \in S : \/ nx[x] = Nil /\ \A y \in S : r[y] <= r[x]
                      \/ /\ nx[x] \in S /\ r[x] < r[nx[x]]
                         /\ \A y \in S : r[y] <= r[x] \/ r[nx[x]] <= r[y]
  BY DEF RootList, Sorted
<1>2. /\ pv[first] = Nil
      /\ \A x \in S : x # first => pv[x] \in S /\ nx[pv[x]] = x
      /\ \A x \in S : nx[x] # Nil => pv[nx[x]] = x
      /\ first \in S /\ \A x \in S : r[first] <= r[x]
      /\ Main \in S
  BY DEF RootList, Back
<1>3. Nil \notin S /\ o # Main /\ o \in Cell /\ o \notin S /\ o # Nil /\ first \in Cell /\ first # o
  BY <1>2, Cells0
<1>4. /\ nx2[o] = first /\ \A x \in S : nx2[x] = nx[x]
      /\ pv2[o] = Nil /\ pv2[first] = o
      /\ \A x \in S : x # first => pv2[x] = pv[x]
      /\ q[o] = r[first] - 1 /\ \A x \in S : q[x] = r[x]
  BY <1>3
<1> HIDE DEF nx2, pv2, q
<1>5. q[o] \in Int /\ \A x \in S : q[o] < q[x] /\ q[x] \in Int
  BY <1>1, <1>2, <1>4
<1>6. Sorted(nx2, R, q, Nil)
  <2>1. \A x, y \in R : q[x] = q[y] => x = y
    BY <1>1, <1>4, <1>5
  <2>2. ASSUME NEW x \in S
        PROVE  \/ nx2[x] = Nil /\ \A y \in R : q[y] <= q[x]
               \/ /\ nx2[x] \in R /\ q[x] < q[nx2[x]]
                  /\ \A y \in R : q[y] <= q[x] \/ q[nx2[x]] <= q[y]
    <3>1. q[o] <= q[x] /\ q[x] = r[x] /\ nx2[x] = nx[x]
      BY <1>4, <1>5
    <3> QED
      BY <1>1, <1>4, <3>1
  <2>3. \A y \in S : q[first] <= q[y]
    BY <1>2, <1>4
  <2> QED
    BY <1>2, <1>4, <1>5, <2>1, <2>2, <2>3 DEF Sorted
<1>7. Back(nx2, pv2, R, o)
  BY <1>1, <1>2, <1>3, <1>4 DEF Back
<1>8. /\ Main \in R /\ o \in R /\ \A x \in R : q[o] <= q[x]
      /\ \A x \in R : (x \in Udata => q[Main] < q[x]) /\ (x \in Plain => q[x] < q[Main])
  <2>1. o \notin Udata
    BY ListAssumption
  <2>2. \A x \in S : (x \in Udata => r[Main] < r[x]) /\ (x \in Plain => r[x] < r[Main])
    BY DEF RootList
  <2> QED
    BY <1>2, <1>4, <1>5, <2>1, <2>2
<1> HIDE DEF R
<1>9. RootList(nx2, pv2, R, o, q)
  BY <1>6, <1>7, <1>8 DEF RootList
<1> QED
  BY <1>9 DEF R, nx2, pv2, q

(* Only the links and the ranks of its cells matter to a list.             *)
LEMMA RootSame ==
  ASSUME NEW nx, NEW pv, NEW S, NEW first, NEW r, RootList(nx, pv, S, first, r),
         NEW nx2, NEW pv2, NEW r2,
         \A x \in S : nx2[x] = nx[x] /\ pv2[x] = pv[x] /\ r2[x] = r[x]
  PROVE  RootList(nx2, pv2, S, first, r2)
<1>1. Sorted(nx2, S, r2, Nil)
  BY DEF RootList, Sorted
<1>2. Back(nx2, pv2, S, first)
  <2>1. /\ first \in S /\ pv[first] = Nil
        /\ \A x \in S : x # first => pv[x] \in S /\ nx[pv[x]] = x
        /\ \A x \in S : nx[x] # Nil => pv[nx[x]] = x
        /\ \A x \in S : nx[x] = Nil \/ nx[x] \in S
    BY DEF RootList, Back, Sorted
  <2>2. pv2[first] = Nil
    BY <2>1
  <2>3. \A x \in S : x # first => pv2[x] \in S /\ nx2[pv2[x]] = x
    BY <2>1
  <2>4. \A x \in S : nx2[x] # Nil => pv2[nx2[x]] = x
    BY <2>1
  <2> QED
    BY <2>2, <2>3, <2>4 DEF Back
<1>3. first \in S /\ Main \in S /\ \A x \in S : r2[first] <= r2[x]
  BY DEF RootList
<1>4. \A x \in S : (x \in Udata => r2[Main] < r2[x]) /\ (x \in Plain => r2[x] < r2[Main])
  BY DEF RootList
<1> QED
  BY <1>1, <1>2, <1>3, <1>4 DEF RootList

LEMMA CircleSame ==
  ASSUME NEW nx, NEW S, NEW last, NEW r, Circle(nx, S, last, r),
         NEW nx2, NEW r2, \A x \in S : nx2[x] = nx[x] /\ r2[x] = r[x]
  PROVE  Circle(nx2, S, last, r2)
<1>1. ASSUME last \in S, Sorted(nx, S, r, nx[last]) PROVE Sorted(nx2, S, r2, nx2[last])
  BY <1>1 DEF Sorted
<1> QED
  BY <1>1 DEF Circle

(* u is put at the end of the circular list.                               *)
LEMMA CircleAppend ==
  ASSUME NEW nx \in [Cell -> Cells], NEW S \in SUBSET Cell, NEW last, NEW r \in [Cell -> Int],
         Circle(nx, S, last, r), NEW u \in Cell \ S,
         NEW nx2, \A x \in S \ {last} : nx2[x] = nx[x],
         nx2[u] = IF last = Nil THEN u ELSE nx[last],
         last # Nil => nx2[last] = u
  PROVE  \E n \in Int : \A q : q[u] = n /\ (\A x \in S : q[x] = r[x])
                               => Circle(nx2, S \cup {u}, u, q)
<1> DEFINE P(n) == \A q : q[u] = n /\ (\A x \in S : q[x] = r[x])
                          => Circle(nx2, S \cup {u}, u, q)
<1> SUFFICES \E n \in Int : P(n)
  OBVIOUS
<1>1. Nil \notin S
  BY Cells0
<1>2. CASE S = {} /\ last = Nil
  <2>1. ASSUME NEW q, q[u] = 0 PROVE Circle(nx2, {u}, u, q)
    BY <1>2, <2>1 DEF Circle, Sorted
  <2>2. S \cup {u} = {u}
    BY <1>2
  <2>3. P(0)
    BY <2>1, <2>2
  <2> HIDE DEF P
  <2> QED
    BY <2>3
<1>3. CASE last \in S
  <2> DEFINE R == S \cup {u}
  <2>1. /\ nx[last] \in S /\ \A x \in S : r[nx[last]] <= r[x] /\ r[x] <= r[last]
        /\ \A x, y \in S : r[x] = r[y] => x = y
        /\ \A x \in S : \/ nx[x] = nx[last] /\ \A y \in S : r[y] <= r[x]
                        \/ /\ nx[x] \in S /\ r[x] < r[nx[x]]
                           /\ \A y \in S : r[y] <= r[x] \/ r[nx[x]] <= r[y]
    BY <1>1, <1>3 DEF Circle, Sorted
  <2>2. last # Nil /\ nx2[u] = nx[last] /\ nx2[last] = u
    BY <1>1, <1>3
  <2>3. \A x \in S : r[x] \in Int
    OBVIOUS
  <2>4. ASSUME NEW q, q[u] = r[last] + 1, \A x \in S : q[x] = r[x]
        PROVE  Circle(nx2, R, u, q)
    <3>1. q[u] \in Int /\ \A x \in S : q[x] < q[u] /\ q[x] \in Int
      BY <1>3, <2>1, <2>3, <2>4
    <3>2. \A x, y \in R : q[x] = q[y] => x = y
      BY <2>1, <2>4, <3>1
    <3>3. ASSUME NEW x \in R
          PROVE  \/ nx2[x] = nx2[u] /\ \A y \in R : q[y] <= q[x]
                 \/ /\ nx2[x] \in R /\ q[x] < q[nx2[x]]
                    /\ \A y \in R : q[y] <= q[x] \/ q[nx2[x]] <= q[y]
      <4>1. CASE x = u
        BY <3>1, <4>1
      <4>2. CASE x = last
        <5>1. \A y \in R : q[y] <= q[last] \/ q[u] <= q[y]
          BY <1>3, <2>1, <2>4, <3>1
        <5> QED
          BY <1>3, <2>2, <3>1, <4>2, <5>1
      <4>3. CASE x \in S /\ x # last
        <5>1. nx2[x] = nx[x] /\ r[x] # r[last] /\ r[x] <= r[last]
          BY <1>3, <2>1, <4>3
        <5>2. ~(\A y \in S : r[y] <= r[x])
          BY <1>3, <2>3, <4>3, <5>1
        <5>3. nx[x] \in S /\ r[x] < r[nx[x]] /\ \A y \in S : r[y] <= r[x] \/ r[nx[x]] <= r[y]
          BY <2>1, <4>3, <5>2
        <5>4. q[nx[x]] <= q[u]
          BY <3>1, <5>3
        <5> QED
          BY <2>4, <4>3, <5>1, <5>3, <5>4
      <4> QED
        BY <4>1, <4>2, <4>3
    <3>4. nx2[u] \in R /\ \A x \in R : q[nx2[u]] <= q[x] /\ q[x] <= q[u]
      BY <2>1, <2>2, <2>4, <3>1
    <3> QED
      BY <3>2, <3>3, <3>4 DEF Circle, Sorted
  <2>5. r[last] + 1 \in Int
    BY <1>3, <2>3
  <2>6. P(r[last] + 1)
    BY <2>4
  <2> HIDE DEF P
  <2> QED
    BY <2>5, <2>6
<1> QED
  BY <1>2, <1>3 DEF Circle

(* The first of the circular list is taken out.                            *)
LEMMA CircleCut ==
  ASSUME NEW nx \in [Cell -> Cells], NEW S \in SUBSET Cell, NEW last, NEW r \in [Cell -> Int],
         Circle(nx, S, last, r), last # Nil,
         NEW nx2, nx2[last] = nx[nx[last]],
         \A x \in S \ {last, nx[last]} : nx2[x] = nx[x]
  PROVE  Circle(nx2, S \ {nx[last]}, IF nx[last] = last THEN Nil ELSE last, r)
<1> DEFINE u == nx[last]
           R == S \ {u}
<1>1. /\ last \in S /\ u \in S /\ \A x \in S : r[u] <= r[x] /\ r[x] <= r[last]
      /\ \A x, y \in S : r[x] = r[y] => x = y
      /\ \A x \in S : \/ nx[x] = u /\ \A y \in S : r[y] <= r[x]
                      \/ /\ nx[x] \in S /\ r[x] < r[nx[x]]
                         /\ \A y \in S : r[y] <= r[x] \/ r[nx[x]] <= r[y]
  BY DEF Circle, Sorted
<1>2. \A x \in S : r[x] \in Int
  OBVIOUS
<1>3. nx2[last] = nx[u] /\ \A x \in R : x # last => nx2[x] = nx[x]
  OBVIOUS
<1> HIDE DEF u
<1>4. CASE u = last
  <2>1. \A x \in S : x = u
    BY <1>1, <1>2, <1>4
  <2> QED
    BY <1>4, <2>1 DEF Circle, u
<1>5. CASE u # last
  <2>1. r[u] < r[last] /\ last \in R
    BY <1>1, <1>2, <1>5
  <2>2. /\ nx[u] \in S /\ r[u] < r[nx[u]]
        /\ \A y \in S : r[y] <= r[u] \/ r[nx[u]] <= r[y]
    BY <1>1, <1>2, <2>1
  <2>3. nx[u] \in R /\ \A y \in R : r[nx[u]] <= r[y]
    BY <1>1, <1>2, <2>2
  <2>4. ASSUME NEW x \in R
        PROVE  \/ nx2[x] = nx2[last] /\ \A y \in R : r[y] <= r[x]
               \/ /\ nx2[x] \in R /\ r[x] < r[nx2[x]]
                  /\ \A y \in R : r[y] <= r[x] \/ r[nx2[x]] <= r[y]
    <3>1. CASE x = last
      BY <1>1, <3>1
    <3>2. CASE x # last
      <4>1. r[x] < r[last]
        BY <1>1, <1>2, <3>2
      <4>2. nx[x] \in S /\ r[x] < r[nx[x]] /\ \A y \in S : r[y] <= r[x] \/ r[nx[x]] <= r[y]
        BY <1>1, <1>2, <4>1
      <4>3. nx[x] # u
        BY <1>1, <1>2, <4>2
      <4> QED
        BY <1>3, <3>2, <4>2, <4>3
    <3> QED
      BY <3>1, <3>2
  <2>5. Circle(nx2, R, last, r)
    BY <1>1, <1>3, <2>1, <2>3, <2>4 DEF Circle, Sorted
  <2> QED
    BY <1>5, <2>5 DEF u
<1> QED
  BY <1>4, <1>5

-----------------------------------------------------------------------------
(* Every step keeps the invariant                                          *)

LEMMA OrderFrom ==
  ASSUME NEW q \in [Cell -> Int],
         RootList(next', prev', OnList', rootgc', q),
         Circle(next', Waiting', tmudata', q),
         gcstate' = "sweep" => Ahead(sweepgc', Due', OnList', Waiting', q)
  PROVE  (\E r \in [Cell -> Int] : Order(r))'
<1>1. Order(q)'
  BY DEF Order
<1> QED
  BY <1>1

LEMMA ListFacts ==
  ASSUME TypeOK
  PROVE  /\ next \in [Cell -> Cells] /\ prev \in [Cell -> Cells]
         /\ OnList \in SUBSET Cell /\ Waiting \in SUBSET Cell
         /\ OnList \cap Waiting = {} /\ Main \in OnList
         /\ \A o \in Obj : o \in OnList <=> place[o] = "list"
         /\ \A o \in Obj : o \in Waiting <=> place[o] = "tmu"
<1>1. Main \notin Obj /\ Main \in Cell /\ Obj \subseteq Cell
  BY Cells0, ListAssumption
<1>2. next \in [Cell -> Cells] /\ prev \in [Cell -> Cells]
  BY DEF TypeOK, Cells
<1>3. /\ \A x : x \in OnList <=> x = Main \/ (x \in Obj /\ place[x] = "list")
      /\ \A x : x \in Waiting <=> x \in Obj /\ place[x] = "tmu"
  BY DEF OnList, Waiting
<1> QED
  BY <1>1, <1>2, <1>3

(* One object changes its place.                                           *)
LEMMA PlaceChange ==
  ASSUME NEW o \in Obj, \A x \in Obj : x # o => place'[x] = place[x]
  PROVE  /\ OnList' = IF place'[o] = "list" THEN OnList \cup {o} ELSE OnList \ {o}
         /\ Waiting' = IF place'[o] = "tmu" THEN Waiting \cup {o} ELSE Waiting \ {o}
<1>1. \A x \in Obj : x # o => place'[x] = place[x]
  OBVIOUS
<1>2. o # Main /\ Main \notin Obj
  BY Cells0, ListAssumption
<1> QED
  BY <1>1, <1>2 DEF OnList, Waiting

LEMMA NotClosed ==
  ASSUME GcInv, LuaRuns \/ CollectorRuns \/ frames # <<>> \/ closing = "no"
  PROVE  gcstate # "closed"
BY DEF GcInv, Closed, LuaRuns, CollectorRuns

(* The links without o, where it is on rootgc.                             *)
LEMMA Without ==
  ASSUME NEW r \in [Cell -> Int], TypeOK, RootList(next, prev, OnList, rootgc, r),
         NEW o \in OnList, o # Main
  PROVE  /\ NextWithout(o) \in [Cell -> Cells] /\ PrevWithout(o) \in [Cell -> Cells]
         /\ Cut(next, prev, NextWithout(o), PrevWithout(o), OnList, o)
         /\ \A x \in Cell \ OnList : NextWithout(o)[x] = next[x]
         /\ prev[o] = Nil <=> o = rootgc
         /\ prev[o] # Nil => prev[o] \in OnList \ {o} /\ r[prev[o]] < r[o]
<1>1. /\ prev[rootgc] = Nil
      /\ \A x \in OnList : x # rootgc => prev[x] \in OnList /\ next[prev[x]] = x
      /\ \A x \in OnList : next[x] # Nil => prev[next[x]] = x
      /\ \A x \in OnList : next[x] # Nil => next[x] \in OnList /\ r[x] < r[next[x]]
  BY DEF RootList, Back, Sorted
<1>2. /\ next \in [Cell -> Cells] /\ prev \in [Cell -> Cells] /\ OnList \subseteq Cell
      /\ Nil \notin OnList
  BY ListFacts, Cells0
<1>3. prev[o] = Nil <=> o = rootgc
  BY <1>1, <1>2
<1>4. prev[o] # Nil => prev[o] \in OnList \ {o} /\ r[prev[o]] < r[o]
  <2> SUFFICES ASSUME prev[o] # Nil PROVE prev[o] \in OnList \ {o} /\ r[prev[o]] < r[o]
    OBVIOUS
  <2>1. prev[o] \in OnList /\ next[prev[o]] = o
    BY <1>1, <1>3
  <2>2. r[prev[o]] < r[o]
    BY <1>1, <1>2, <2>1
  <2>3. r[o] \in Int
    BY <1>2
  <2> QED
    BY <2>1, <2>2, <2>3
<1>5. NextWithout(o) \in [Cell -> Cells] /\ PrevWithout(o) \in [Cell -> Cells]
  BY <1>2 DEF NextWithout, PrevWithout, Cells
<1>6. ASSUME NEW x \in OnList \ {o} PROVE NextWithout(o)[x] = IF next[x] = o THEN next[o] ELSE next[x]
  <2>1. CASE prev[o] = Nil
    <3>1. next[x] # o
      BY <1>1, <1>2, <2>1
    <3> QED
      BY <2>1, <3>1 DEF NextWithout
  <2>2. CASE prev[o] # Nil
    <3>1. next[prev[o]] = o /\ prev[o] \in Cell
      BY <1>1, <1>2, <1>3, <2>2
    <3>2. next[x] = o <=> x = prev[o]
      BY <1>1, <1>2, <3>1
    <3> QED
      BY <1>2, <2>2, <3>1, <3>2 DEF NextWithout
  <2> QED
    BY <2>1, <2>2
<1>7. ASSUME NEW x \in OnList \ {o} PROVE PrevWithout(o)[x] = IF x = next[o] THEN prev[o] ELSE prev[x]
  BY <1>2 DEF PrevWithout
<1>8. ASSUME NEW x \in Cell \ OnList PROVE NextWithout(o)[x] = next[x]
  BY <1>2, <1>4 DEF NextWithout
<1> QED
  BY <1>3, <1>4, <1>5, <1>6, <1>7, <1>8 DEF Cut

LEMMA LinkKeeps ==
  ASSUME GcInv, NEW o \in Obj, Link(o)
  PROVE  GcInv'
<1>1. TypeOK /\ Marked /\ Closed
  BY DEF GcInv
<1>2. PICK r \in [Cell -> Int] : Order(r)
  BY DEF GcInv
<1>3. /\ o \in Plain /\ place[o] = "free" /\ LuaRuns
      /\ next' = [next EXCEPT ![o] = rootgc]
      /\ prev' = [prev EXCEPT ![o] = Nil, ![rootgc] = o]
      /\ rootgc' = o /\ place' = [place EXCEPT ![o] = "list"]
      /\ UNCHANGED <<sweepgc, tmudata, gcstate, dead, fin, frames, full, depth, closing>>
  BY DEF Link
<1>4. OnList' = OnList \cup {o} /\ Waiting' = Waiting
  <2>1. o \notin Waiting
    BY <1>3 DEF Waiting
  <2>2. \A x \in Obj : place'[x] = IF x = o THEN "list" ELSE place[x]
    BY <1>1, <1>3 DEF TypeOK
  <2> QED
    BY <2>1, <2>2, PlaceChange
<1>5. o \in Plain \ OnList /\ o \in Cell /\ o \notin dead
  BY <1>1, <1>3, ListFacts, Cells0 DEF Marked, TypeOK
<1> DEFINE q == [r EXCEPT ![o] = r[rootgc] - 1]
<1>6. /\ RootList(next, prev, OnList, rootgc, r) /\ Circle(next, Waiting, tmudata, r)
      /\ next \in [Cell -> Cells] /\ prev \in [Cell -> Cells]
      /\ OnList \in SUBSET Cell /\ Waiting \in SUBSET Cell /\ rootgc \in OnList
  BY <1>1, <1>2, ListFacts DEF Order, RootList
<1>7. RootList(next', prev', OnList', rootgc', q)
  BY <1>3, <1>4, <1>5, <1>6, RootFirst
<1>8. q \in [Cell -> Int] /\ \A x \in Cell : x # o => q[x] = r[x]
  BY <1>5, <1>6
<1>9. Circle(next', Waiting', tmudata', q)
  <2>1. \A x \in Waiting : next'[x] = next[x] /\ q[x] = r[x]
    BY <1>1, <1>3, <1>6, <1>8, ListFacts DEF Waiting
  <2> HIDE DEF q
  <2>2. Circle(next', Waiting, tmudata, q)
    BY <1>6, <2>1, CircleSame
  <2> QED
    BY <1>3, <1>4, <2>2
<1>10. gcstate' = "sweep" => Ahead(sweepgc', Due', OnList', Waiting', q)
  <2>1. gcstate = "sweep" => Ahead(sweepgc, Due, OnList, Waiting, r)
    BY <1>2 DEF Order
  <2>2. sweepgc = o => sweepgc \notin OnList \cup Waiting
    BY <1>3, <1>5 DEF Waiting
  <2>3. sweepgc = o => sweepgc # Root
    BY <1>5, Cells0
  <2>4. Due' = Due /\ o \notin Due
    BY <1>3, <1>5 DEF Due
  <2> HIDE DEF q
  <2> QED
    BY <1>3, <1>4, <1>5, <1>6, <1>8, <2>1, <2>2, <2>3, <2>4 DEF Ahead
<1> HIDE DEF q
<1>11. (\E s \in [Cell -> Int] : Order(s))'
  BY <1>7, <1>8, <1>9, <1>10, OrderFrom
<1>12. TypeOK'
  BY <1>1, <1>3, <1>5 DEF TypeOK, Cell
<1>13. gcstate # "closed"
  BY <1>3, NotClosed
<1>14. Marked' /\ Closed'
  <2>1. \A x \in Obj : place'[x] = IF x = o THEN "list" ELSE place[x]
    BY <1>1, <1>3 DEF TypeOK
  <2>2. Closed'
    BY <1>3, <1>13 DEF Closed
  <2>3. \A x \in dead' : place'[x] \in {"list", "off", "lost"} /\ (x \in Udata => x \in fin')
    BY <1>1, <1>3, <1>5, <2>1 DEF Marked, TypeOK
  <2>4. \A x \in Obj : /\ place'[x] = "tmu" => x \in Udata
                       /\ place'[x] = "off" => \E i \in 1 .. Len(frames') : frames'[i] = x
    BY <1>1, <1>3, <2>1 DEF Marked
  <2>5. gcstate' = "sweep" /\ closing' = "no" => sweepgc' = Root \/ sweepgc' \in OnList'
    BY <1>1, <1>3, <1>4 DEF Marked
  <2> QED
    BY <2>2, <2>3, <2>4, <2>5 DEF Marked
<1> QED
  BY <1>11, <1>12, <1>14 DEF GcInv

(* An object leaves rootgc.                                                *)
LEMMA CutOrder ==
  ASSUME TypeOK, NEW r \in [Cell -> Int], Order(r), NEW o \in OnList, o # Main,
         Cut(next, prev, next', prev', OnList, o),
         \A x \in Waiting : next'[x] = next[x],
         rootgc' = IF rootgc = o THEN next[o] ELSE rootgc, tmudata' = tmudata,
         OnList' = OnList \ {o}, Waiting' = Waiting,
         gcstate' = "sweep" => Ahead(sweepgc', Due', OnList \ {o}, Waiting, r)
  PROVE  (\E s \in [Cell -> Int] : Order(s))' /\ rootgc' \in Cell
<1>1. /\ RootList(next, prev, OnList, rootgc, r) /\ Circle(next, Waiting, tmudata, r)
      /\ next \in [Cell -> Cells] /\ prev \in [Cell -> Cells]
      /\ OnList \in SUBSET Cell /\ Waiting \in SUBSET Cell
  BY ListFacts DEF Order
<1>2. RootList(next', prev', OnList \ {o}, rootgc', r)
  BY <1>1, RootCut
<1>3. Circle(next', Waiting, tmudata, r)
  BY <1>1, CircleSame
<1>4. rootgc' \in Cell
  BY <1>1, <1>2 DEF RootList
<1> QED
  BY <1>2, <1>3, <1>4, OrderFrom

(* Adjusted moves g->sweepgc back out of o: no dead object is passed.      *)
LEMMA AdjustedAhead ==
  ASSUME TypeOK, NEW r \in [Cell -> Int], Order(r), NEW o \in OnList, o # Main
  PROVE  /\ gcstate = "sweep" => Ahead(Adjusted(o), Due, OnList \ {o}, Waiting, r)
         /\ gcstate = "sweep" /\ (sweepgc = Root \/ sweepgc \in OnList) =>
              Adjusted(o) = Root \/ Adjusted(o) \in OnList \ {o}
         /\ Adjusted(o) \in Cell \cup {Root}
<1>1. /\ prev[o] # Nil => prev[o] \in OnList \ {o} /\ r[prev[o]] < r[o]
      /\ OnList \subseteq Cell /\ OnList \cap Waiting = {} /\ Root \notin Cell
  BY Without, ListFacts, Cells0 DEF Order
<1>2. gcstate = "sweep" => Ahead(sweepgc, Due, OnList, Waiting, r)
  BY DEF Order
<1>3. sweepgc \in Cell \cup {Root}
  BY DEF TypeOK
<1>4. CASE gcstate = "sweep" /\ sweepgc = o
  <2>1. CASE prev[o] = Nil
    BY <1>4, <2>1 DEF Adjusted, Ahead
  <2>2. CASE prev[o] # Nil
    <3>1. Adjusted(o) = prev[o]
      BY <1>4, <2>2 DEF Adjusted
    <3>2. \A x \in Due \cap OnList : r[o] < r[x]
      BY <1>1, <1>2, <1>4 DEF Ahead
    <3>3. \A x \in Due \cap (OnList \ {o}) : r[prev[o]] < r[x]
      <4>1. r[prev[o]] \in Int /\ r[o] \in Int /\ \A x \in OnList : r[x] \in Int
        BY <1>1, <2>2
      <4> QED
        BY <1>1, <2>2, <3>2, <4>1
    <3> QED
      BY <1>1, <2>2, <3>1, <3>3 DEF Ahead
  <2> QED
    BY <2>1, <2>2
<1>5. CASE ~(gcstate = "sweep" /\ sweepgc = o)
  <2>1. Adjusted(o) = sweepgc
    BY <1>5 DEF Adjusted
  <2> QED
    BY <1>1, <1>2, <1>3, <1>5, <2>1 DEF Ahead
<1> QED
  BY <1>4, <1>5

LEMMA UnlinkKeeps ==
  ASSUME GcInv, NEW o \in Obj, Unlink(o), gcstate # "closed"
  PROVE  GcInv'
<1>1. TypeOK /\ Marked /\ Closed
  BY DEF GcInv
<1>2. PICK r \in [Cell -> Int] : Order(r)
  BY DEF GcInv
<1>3. /\ o \in Plain /\ place[o] = "list"
      /\ next' = NextWithout(o) /\ prev' = PrevWithout(o)
      /\ rootgc' = IF prev[o] = Nil THEN next[o] ELSE rootgc
      /\ sweepgc' = Adjusted(o)
      /\ place' = [place EXCEPT ![o] = "off"]
      /\ frames' = Append(frames, o)
      /\ UNCHANGED <<tmudata, gcstate, dead, fin, full, depth, closing>>
  BY DEF Unlink
<1>4. o \in OnList /\ o # Main /\ o \notin Waiting
  BY <1>1, <1>3, ListFacts, Cells0
<1>5. \A x \in Obj : place'[x] = IF x = o THEN "off" ELSE place[x]
  BY <1>1, <1>3 DEF TypeOK
<1>6. OnList' = OnList \ {o} /\ Waiting' = Waiting
  BY <1>4, <1>5, PlaceChange
<1>7. /\ next' \in [Cell -> Cells] /\ prev' \in [Cell -> Cells]
      /\ Cut(next, prev, next', prev', OnList, o)
      /\ \A x \in Cell \ OnList : next'[x] = next[x]
      /\ prev[o] = Nil <=> o = rootgc
  BY <1>1, <1>2, <1>3, <1>4, Without DEF Order
<1>8. /\ gcstate = "sweep" => Ahead(Adjusted(o), Due, OnList \ {o}, Waiting, r)
      /\ gcstate = "sweep" /\ (sweepgc = Root \/ sweepgc \in OnList) =>
           Adjusted(o) = Root \/ Adjusted(o) \in OnList \ {o}
      /\ Adjusted(o) \in Cell \cup {Root}
  BY <1>1, <1>2, <1>4, AdjustedAhead
<1>9. (\E s \in [Cell -> Int] : Order(s))' /\ rootgc' \in Cell
  <2>1. rootgc' = IF rootgc = o THEN next[o] ELSE rootgc
    BY <1>3, <1>7
  <2>2. \A x \in Waiting : next'[x] = next[x]
    BY <1>1, <1>7, ListFacts
  <2>3. gcstate' = "sweep" => Ahead(sweepgc', Due', OnList \ {o}, Waiting, r)
    BY <1>3, <1>8 DEF Due
  <2> QED
    BY <1>1, <1>2, <1>3, <1>4, <1>6, <1>7, <2>1, <2>2, <2>3, CutOrder
<1>10. frames' \in Seq(Obj) /\ \A i \in 1 .. Len(frames) : frames'[i] = frames[i]
  BY <1>1, <1>3 DEF TypeOK
<1>14. Len(frames') = Len(frames) + 1 /\ frames'[Len(frames) + 1] = o /\ Len(frames) \in Nat
  BY <1>1, <1>3 DEF TypeOK
<1>11. TypeOK'
  BY <1>1, <1>3, <1>7, <1>8, <1>9, <1>10 DEF TypeOK, Cells
<1>12. Marked'
  <2>1. \A x \in dead' : place'[x] \in {"list", "off", "lost"} /\ (x \in Udata => x \in fin')
    BY <1>1, <1>3, <1>5 DEF Marked, TypeOK
  <2>2. \A x \in Obj : place'[x] = "tmu" => x \in Udata
    BY <1>1, <1>5 DEF Marked
  <2>3. ASSUME NEW x \in Obj, place'[x] = "off"
        PROVE  \E i \in 1 .. Len(frames') : frames'[i] = x
    <3>1. CASE x = o
      <4>1. Len(frames) + 1 \in 1 .. Len(frames')
        BY <1>14
      <4> QED
        BY <1>14, <3>1, <4>1
    <3>2. CASE x # o
      <4>1. PICK i \in 1 .. Len(frames) : frames[i] = x
        BY <1>1, <1>5, <2>3, <3>2 DEF Marked
      <4>2. i \in 1 .. Len(frames')
        BY <1>14, <4>1
      <4> QED
        BY <1>10, <4>1, <4>2
    <3> QED
      BY <3>1, <3>2
  <2>4. gcstate' = "sweep" /\ closing' = "no" => sweepgc' = Root \/ sweepgc' \in OnList'
    BY <1>1, <1>3, <1>6, <1>8 DEF Marked
  <2> QED
    BY <2>1, <2>2, <2>3, <2>4 DEF Marked
<1>13. Closed'
  BY <1>3 DEF Closed
<1> QED
  BY <1>9, <1>11, <1>12, <1>13 DEF GcInv

LEMMA UnlinkUdataKeeps ==
  ASSUME GcInv, UnlinkUdata
  PROVE  GcInv'
<1>1. TypeOK /\ Marked /\ Closed
  BY DEF GcInv
<1>2. PICK r \in [Cell -> Int] : Order(r)
  BY DEF GcInv
<1>0. PICK o : o = Top
  OBVIOUS
<1>3. /\ LuaRuns /\ frames # <<>>
      /\ next' = NextWithout(o) /\ prev' = PrevWithout(o)
      /\ sweepgc' = Adjusted(o)
      /\ place' = [place EXCEPT ![o] = "off"]
      /\ UNCHANGED <<rootgc, tmudata, gcstate, dead, fin, frames, full, depth, closing>>
  BY <1>0 DEF UnlinkUdata
<1>4. /\ o \in Udata /\ place[o] = "list" /\ o \in Obj
      /\ \E i \in 1 .. Len(frames) : frames[i] = o
  BY <1>0, <1>3, Cells0 DEF LuaRuns, Finalizing
<1>5. o \in OnList /\ o # Main /\ o \notin Waiting
  BY <1>1, <1>4, ListFacts, Cells0
<1>6. \A x \in Obj : place'[x] = IF x = o THEN "off" ELSE place[x]
  BY <1>1, <1>3 DEF TypeOK
<1>7. OnList' = OnList \ {o} /\ Waiting' = Waiting
  <2>1. o \in Obj /\ place'[o] = "off" /\ \A x \in Obj : x # o => place'[x] = place[x]
    BY <1>4, <1>6
  <2>2. /\ OnList' = IF place'[o] = "list" THEN OnList \cup {o} ELSE OnList \ {o}
        /\ Waiting' = IF place'[o] = "tmu" THEN Waiting \cup {o} ELSE Waiting \ {o}
    BY <2>1, PlaceChange
  <2> QED
    BY <1>5, <2>1, <2>2
<1>8. /\ next' \in [Cell -> Cells] /\ prev' \in [Cell -> Cells]
      /\ Cut(next, prev, next', prev', OnList, o)
      /\ \A x \in Cell \ OnList : next'[x] = next[x]
  <2>1. RootList(next, prev, OnList, rootgc, r)
    BY <1>2 DEF Order
  <2>2. /\ NextWithout(o) \in [Cell -> Cells] /\ PrevWithout(o) \in [Cell -> Cells]
        /\ Cut(next, prev, NextWithout(o), PrevWithout(o), OnList, o)
        /\ \A x \in Cell \ OnList : NextWithout(o)[x] = next[x]
    BY <1>1, <1>5, <2>1, Without
  <2>3. next' = NextWithout(o) /\ prev' = PrevWithout(o)
    BY <1>3
  <2> QED
    BY <2>2, <2>3
<1>9. /\ gcstate = "sweep" => Ahead(Adjusted(o), Due, OnList \ {o}, Waiting, r)
      /\ gcstate = "sweep" /\ (sweepgc = Root \/ sweepgc \in OnList) =>
           Adjusted(o) = Root \/ Adjusted(o) \in OnList \ {o}
      /\ Adjusted(o) \in Cell \cup {Root}
  BY <1>1, <1>2, <1>5, AdjustedAhead
<1>10. rootgc # o
  <2>1. RootList(next, prev, OnList, rootgc, r) /\ OnList \subseteq Cell
    BY <1>1, <1>2, ListFacts DEF Order
  <2>2. r[rootgc] <= r[Main] /\ r[Main] < r[o] /\ r[Main] \in Int /\ r[o] \in Int
    BY <1>4, <1>5, <2>1 DEF RootList
  <2> QED
    BY <2>2
<1>11. (\E s \in [Cell -> Int] : Order(s))'
  <2>1. rootgc' = IF rootgc = o THEN next[o] ELSE rootgc
    BY <1>3, <1>10
  <2>2. \A x \in Waiting : next'[x] = next[x]
    BY <1>1, <1>8, ListFacts
  <2>3. gcstate' = "sweep" => Ahead(sweepgc', Due', OnList \ {o}, Waiting, r)
    BY <1>3, <1>9 DEF Due
  <2> QED
    BY <1>1, <1>2, <1>3, <1>5, <1>7, <1>8, <2>1, <2>2, <2>3, CutOrder
<1>12. TypeOK'
  BY <1>1, <1>3, <1>8, <1>9 DEF TypeOK, Cells
<1>13. Marked'
  <2>1. \A x \in dead' : place'[x] \in {"list", "off", "lost"} /\ (x \in Udata => x \in fin')
    BY <1>1, <1>3, <1>6 DEF Marked, TypeOK
  <2>2. \A x \in Obj : place'[x] = "tmu" => x \in Udata
    BY <1>1, <1>6 DEF Marked
  <2>3. \A x \in Obj : place'[x] = "off" => \E i \in 1 .. Len(frames') : frames'[i] = x
    BY <1>1, <1>3, <1>4, <1>6 DEF Marked
  <2>4. gcstate' = "sweep" /\ closing' = "no" => sweepgc' = Root \/ sweepgc' \in OnList'
    BY <1>1, <1>3, <1>7, <1>9 DEF Marked
  <2> QED
    BY <2>1, <2>2, <2>3, <2>4 DEF Marked
<1>14. gcstate # "closed"
  BY <1>3, NotClosed
<1>15. Closed'
  BY <1>3, <1>14 DEF Closed
<1> QED
  BY <1>11, <1>12, <1>13, <1>15 DEF GcInv

-----------------------------------------------------------------------------
(* Userdata behind the main thread                                         *)

LEMMA AfterMainOf ==
  ASSUME NEW nx \in [Cell -> Cells], NEW pv \in [Cell -> Cells], NEW S \in SUBSET Cell,
         Main \in S, NEW u \in Udata \ S
  PROVE  /\ NextAfterMain(nx, u) \in [Cell -> Cells] /\ PrevAfterMain(nx, pv, u) \in [Cell -> Cells]
         /\ AfterMain(nx, pv, NextAfterMain(nx, u), PrevAfterMain(nx, pv, u), S, u)
         /\ \A x \in Cell \ (S \cup {u}) : NextAfterMain(nx, u)[x] = nx[x]
<1>1. u \in Cell /\ Main \in Cell /\ u # Main
  BY Cells0
<1>2. NextAfterMain(nx, u) \in [Cell -> Cells] /\ PrevAfterMain(nx, pv, u) \in [Cell -> Cells]
  BY <1>1 DEF NextAfterMain, PrevAfterMain, Cells
<1>3. /\ NextAfterMain(nx, u)[u] = nx[Main] /\ NextAfterMain(nx, u)[Main] = u
      /\ \A x \in Cell : x # u /\ x # Main => NextAfterMain(nx, u)[x] = nx[x]
  BY <1>1 DEF NextAfterMain
<1>4. \A x \in Cell : PrevAfterMain(nx, pv, u)[x] =
                        IF x = u THEN Main ELSE IF x = nx[Main] THEN u ELSE pv[x]
  BY DEF PrevAfterMain
<1> QED
  BY <1>1, <1>2, <1>3, <1>4 DEF AfterMain

LEMMA InsertOrder ==
  ASSUME NEW r \in [Cell -> Int], NEW nx \in [Cell -> Cells], NEW pv \in [Cell -> Cells],
         NEW S \in SUBSET Cell, NEW T \in SUBSET Cell, S \cap T = {},
         RootList(nx, pv, S, rootgc', r), Circle(nx, T, tmudata', r),
         NEW u \in Udata \ S, u \notin T,
         next' = NextAfterMain(nx, u), prev' = PrevAfterMain(nx, pv, u),
         OnList' = S \cup {u}, Waiting' = T,
         gcstate' = "sweep" => Ahead(sweepgc', Due', S \cup {u}, T, Shift(r, S, u))
  PROVE  /\ (\E s \in [Cell -> Int] : Order(s))'
         /\ next' \in [Cell -> Cells] /\ prev' \in [Cell -> Cells]
<1>1. Main \in S /\ u \in Cell \ S
  BY Cells0 DEF RootList
<1>2. /\ next' \in [Cell -> Cells] /\ prev' \in [Cell -> Cells]
      /\ AfterMain(nx, pv, next', prev', S, u)
      /\ \A x \in Cell \ (S \cup {u}) : next'[x] = nx[x]
  BY <1>1, AfterMainOf
<1>3. RootList(next', prev', S \cup {u}, rootgc', Shift(r, S, u))
  BY <1>2, RootInsert
<1>4. /\ Shift(r, S, u) \in [Cell -> Int]
      /\ \A x \in Cell \ (S \cup {u}) : Shift(r, S, u)[x] = r[x]
  BY <1>1, ShiftRanks
<1>5. Circle(next', T, tmudata', Shift(r, S, u))
  <2>1. \A x \in T : next'[x] = nx[x] /\ Shift(r, S, u)[x] = r[x]
    BY <1>2, <1>4
  <2> QED
    BY <2>1, CircleSame
<1> QED
  BY <1>2, <1>3, <1>4, <1>5, OrderFrom

LEMMA ShiftAhead ==
  ASSUME NEW r \in [Cell -> Int], NEW S \in SUBSET Cell, NEW T, NEW D, NEW at, Main \in S,
         NEW u \in Cell \ S, u \notin D, u \notin T
  PROVE  /\ Ahead(at, D, S, T, r) => Ahead(at, D, S \cup {u}, T, Shift(r, S, u))
         /\ (\A o \in D \cap S : r[Main] < r[o]) => Ahead(u, D, S \cup {u}, T, Shift(r, S, u))
<1>1. /\ \A x, y \in S : r[x] < r[y] <=> Shift(r, S, u)[x] < Shift(r, S, u)[y]
      /\ \A x \in S : r[Main] < r[x] <=> Shift(r, S, u)[u] < Shift(r, S, u)[x]
  BY ShiftRanks
<1>2. ASSUME Ahead(at, D, S, T, r), at # Root
      PROVE  /\ at \in S \cup T
             /\ at \in S \cup {u} =>
                  \A o \in D \cap (S \cup {u}) : Shift(r, S, u)[at] < Shift(r, S, u)[o]
  BY <1>1, <1>2 DEF Ahead
<1> QED
  BY <1>1, <1>2 DEF Ahead

LEMMA NewUdataKeeps ==
  ASSUME GcInv, NEW u \in Obj, NewUdata(u)
  PROVE  GcInv'
<1>1. TypeOK /\ Marked /\ Closed
  BY DEF GcInv
<1>2. PICK r \in [Cell -> Int] : Order(r)
  BY DEF GcInv
<1>3. /\ LuaRuns /\ u \in Udata /\ place[u] = "free"
      /\ next' = NextAfterMain(next, u) /\ prev' = PrevAfterMain(next, prev, u)
      /\ place' = [place EXCEPT ![u] = "list"]
      /\ fin' = fin \ {u}
      /\ UNCHANGED <<rootgc, sweepgc, tmudata, gcstate, dead, frames, full, depth, closing>>
  BY DEF NewUdata
<1>4. place'[u] = "list" /\ \A x \in Obj : x # u => place'[x] = place[x]
  BY <1>1, <1>3 DEF TypeOK
<1>5. u \in Udata \ OnList /\ u \notin Waiting /\ u \notin dead /\ u \in Cell /\ u # Root
  BY <1>1, <1>3, ListFacts, Cells0 DEF Marked
<1>6. OnList' = OnList \cup {u} /\ Waiting' = Waiting
  BY <1>4, <1>5, PlaceChange
<1>7. /\ RootList(next, prev, OnList, rootgc, r) /\ Circle(next, Waiting, tmudata, r)
      /\ next \in [Cell -> Cells] /\ prev \in [Cell -> Cells]
      /\ OnList \in SUBSET Cell /\ Waiting \in SUBSET Cell /\ OnList \cap Waiting = {}
      /\ Main \in OnList
  BY <1>1, <1>2, ListFacts DEF Order
<1>8. gcstate' = "sweep" => Ahead(sweepgc', Due', OnList \cup {u}, Waiting, Shift(r, OnList, u))
  <2>1. gcstate = "sweep" => Ahead(sweepgc, Due, OnList, Waiting, r)
    BY <1>2 DEF Order
  <2>2. u \notin Due /\ Due' = Due
    BY <1>3, <1>5 DEF Due
  <2> QED
    BY <1>3, <1>5, <1>7, <2>1, <2>2, ShiftAhead
<1>9. /\ (\E s \in [Cell -> Int] : Order(s))'
      /\ next' \in [Cell -> Cells] /\ prev' \in [Cell -> Cells]
  BY <1>3, <1>5, <1>6, <1>7, <1>8, InsertOrder
<1>10. TypeOK'
  BY <1>1, <1>3, <1>9 DEF TypeOK, Cells
<1>11. gcstate # "closed"
  BY <1>3, NotClosed
<1>12. Marked' /\ Closed'
  <2>1. \A x \in dead' : place'[x] \in {"list", "off", "lost"} /\ (x \in Udata => x \in fin')
    BY <1>1, <1>3, <1>4, <1>5 DEF Marked, TypeOK
  <2>2. \A x \in Obj : /\ place'[x] = "tmu" => x \in Udata
                       /\ place'[x] = "off" => \E i \in 1 .. Len(frames') : frames'[i] = x
    BY <1>1, <1>3, <1>4 DEF Marked
  <2>3. gcstate' = "sweep" /\ closing' = "no" => sweepgc' = Root \/ sweepgc' \in OnList'
    BY <1>1, <1>3, <1>6 DEF Marked
  <2>4. Closed'
    BY <1>3, <1>11 DEF Closed
  <2> QED
    BY <2>1, <2>2, <2>3, <2>4 DEF Marked
<1> QED
  BY <1>9, <1>10, <1>12 DEF GcInv

LEMMA CallFinalizerKeeps ==
  ASSUME GcInv, NEW u \in Obj, CallFinalizer(u), gcstate # "closed"
  PROVE  GcInv'
<1>1. TypeOK /\ Marked /\ Closed
  BY DEF GcInv
<1>2. PICK r \in [Cell -> Int] : Order(r)
  BY DEF GcInv
<1> DEFINE nx == NextWithout(u)
           pv == PrevWithout(u)
           S == OnList \ {u}
<1>3. /\ u \in Udata /\ place[u] = "list" /\ u \notin fin
      /\ fin' = fin \cup {u} /\ dead' = dead \ {u}
      /\ next' = NextAfterMain(nx, u) /\ prev' = PrevAfterMain(nx, pv, u)
      /\ frames' = Append(frames, u)
      /\ UNCHANGED <<rootgc, sweepgc, tmudata, gcstate, place, full, depth, closing>>
  BY DEF CallFinalizer
<1>4. u \in OnList /\ u # Main /\ u \notin Waiting /\ u \in Cell
  BY <1>1, <1>3, ListFacts, Cells0
<1>5. OnList' = OnList /\ Waiting' = Waiting
  BY <1>3 DEF OnList, Waiting
<1>6. /\ RootList(next, prev, OnList, rootgc, r) /\ Circle(next, Waiting, tmudata, r)
      /\ next \in [Cell -> Cells] /\ prev \in [Cell -> Cells]
      /\ OnList \in SUBSET Cell /\ Waiting \in SUBSET Cell /\ OnList \cap Waiting = {}
      /\ Main \in OnList
  BY <1>1, <1>2, ListFacts DEF Order
<1>7. /\ nx \in [Cell -> Cells] /\ pv \in [Cell -> Cells]
      /\ Cut(next, prev, nx, pv, OnList, u)
      /\ \A x \in Cell \ OnList : nx[x] = next[x]
  BY <1>1, <1>4, <1>6, Without
<1>8. rootgc # u /\ r[Main] < r[u]
  <2>1. r[rootgc] <= r[Main] /\ r[Main] < r[u] /\ r[Main] \in Int /\ r[u] \in Int
    BY <1>3, <1>4, <1>6 DEF RootList
  <2> QED
    BY <2>1
<1> HIDE DEF nx, pv
<1>9. RootList(nx, pv, S, rootgc, r)
  BY <1>4, <1>6, <1>7, <1>8, RootCut
<1>10. Circle(nx, Waiting, tmudata, r)
  <2>1. \A x \in Waiting : nx[x] = next[x]
    BY <1>6, <1>7
  <2> QED
    BY <1>6, <2>1, CircleSame
<1>11. gcstate' = "sweep" => Ahead(sweepgc', Due', S \cup {u}, Waiting, Shift(r, S, u))
  <2>1. gcstate = "sweep" => Ahead(sweepgc, Due, OnList, Waiting, r)
    BY <1>2 DEF Order
  <2>2. u \notin Due' /\ Due' \subseteq Due
    BY <1>3 DEF Due
  <2>3. S \in SUBSET Cell /\ Main \in S /\ u \in Cell \ S
    BY <1>4, <1>6
  <2>4. CASE sweepgc = u
    <3>1. u # Root
      BY <1>4, Cells0
    <3>2. gcstate = "sweep" => \A o \in Due \cap OnList : r[u] < r[o]
      BY <1>4, <2>1, <2>4, <3>1 DEF Ahead
    <3>3. r[Main] \in Int /\ r[u] \in Int /\ \A o \in OnList : r[o] \in Int
      BY <1>4, <1>6
    <3>4. gcstate = "sweep" => \A o \in Due' \cap S : r[Main] < r[o]
      BY <1>8, <2>2, <3>2, <3>3
    <3> QED
      BY <1>3, <1>4, <2>2, <2>3, <2>4, <3>4, ShiftAhead
  <2>5. CASE sweepgc # u
    <3>1. gcstate = "sweep" => Ahead(sweepgc, Due', S, Waiting, r)
      BY <2>1, <2>2, <2>5 DEF Ahead
    <3> QED
      BY <1>3, <1>4, <2>2, <2>3, <3>1, ShiftAhead
  <2> QED
    BY <2>4, <2>5
<1>12. /\ (\E s \in [Cell -> Int] : Order(s))'
       /\ next' \in [Cell -> Cells] /\ prev' \in [Cell -> Cells]
  <2>1. S \in SUBSET Cell /\ S \cap Waiting = {} /\ u \in Udata \ S
    BY <1>3, <1>6
  <2>2. OnList' = S \cup {u}
    BY <1>4, <1>5
  <2>3. RootList(nx, pv, S, rootgc', r) /\ Circle(nx, Waiting, tmudata', r)
    BY <1>3, <1>9, <1>10
  <2> HIDE DEF S
  <2> QED
    BY <1>3, <1>4, <1>5, <1>6, <1>7, <1>11, <2>1, <2>2, <2>3, InsertOrder
<1>13. frames' \in Seq(Obj) /\ \A i \in 1 .. Len(frames) : frames'[i] = frames[i]
  BY <1>1, <1>3 DEF TypeOK
<1>14. Len(frames') = Len(frames) + 1 /\ Len(frames) \in Nat
  BY <1>1, <1>3 DEF TypeOK
<1>15. TypeOK'
  BY <1>1, <1>3, <1>12, <1>13 DEF TypeOK, Cells
<1>16. Marked' /\ Closed'
  <2>1. \A x \in dead' : place'[x] \in {"list", "off", "lost"} /\ (x \in Udata => x \in fin')
    BY <1>1, <1>3 DEF Marked, TypeOK
  <2>2. \A x \in Obj : place'[x] = "tmu" => x \in Udata
    BY <1>1, <1>3 DEF Marked
  <2>3. ASSUME NEW x \in Obj, place'[x] = "off"
        PROVE  \E i \in 1 .. Len(frames') : frames'[i] = x
    <3>1. PICK i \in 1 .. Len(frames) : frames[i] = x
      BY <1>1, <1>3, <2>3 DEF Marked
    <3>2. i \in 1 .. Len(frames')
      BY <1>14, <3>1
    <3> QED
      BY <1>13, <3>1, <3>2
  <2>4. gcstate' = "sweep" /\ closing' = "no" => sweepgc' = Root \/ sweepgc' \in OnList'
    BY <1>1, <1>3, <1>5 DEF Marked
  <2>5. Closed'
    BY <1>3 DEF Closed
  <2> QED
    BY <2>1, <2>2, <2>3, <2>4, <2>5 DEF Marked
<1> QED
  BY <1>12, <1>15, <1>16 DEF GcInv

LEMMA FreeKeeps ==
  ASSUME GcInv, Free
  PROVE  GcInv'
<1>1. TypeOK /\ Marked /\ Closed
  BY DEF GcInv
<1>2. PICK r \in [Cell -> Int] : Order(r)
  BY DEF GcInv
<1>3. PICK o : o = Top
  OBVIOUS
<1>4. /\ frames # <<>> /\ place[o] = "off"
      /\ place' = [place EXCEPT ![o] = "free"]
      /\ next' = [next EXCEPT ![o] = Nil] /\ prev' = [prev EXCEPT ![o] = Nil]
      /\ dead' = dead \ {o}
      /\ frames' = SubSeq(frames, 1, Len(frames) - 1)
      /\ UNCHANGED <<rootgc, sweepgc, tmudata, gcstate, fin, full, depth, closing>>
  BY <1>3 DEF Free
<1>5. /\ Len(frames) \in Nat /\ Len(frames) > 0 /\ o = frames[Len(frames)] /\ o \in Obj
      /\ frames' \in Seq(Obj) /\ Len(frames') = Len(frames) - 1
      /\ \A i \in 1 .. Len(frames) - 1 : frames'[i] = frames[i]
  <2>1. frames \in Seq(Obj) /\ frames # <<>>
    BY <1>1, <1>4 DEF TypeOK
  <2>2. Len(frames) \in Nat /\ Len(frames) > 0 /\ frames[Len(frames)] \in Obj
    BY <2>1
  <2> DEFINE n == Len(frames) - 1
             s == SubSeq(frames, 1, n)
  <2>3. 1 \in Int /\ n \in Int /\ \A i \in 1 .. n : frames[i] \in Obj
    BY <2>1
  <2> HIDE DEF n
  <2>4. /\ s \in Seq(Obj) /\ Len(s) = IF 1 <= n THEN n - 1 + 1 ELSE 0
        /\ \A i \in 1 .. n - 1 + 1 : s[i] = frames[1 + i - 1]
    BY <2>3, SubSeqProperties
  <2>5. frames' = s /\ o = frames[Len(frames)]
    BY <1>3, <1>4 DEF Top, n
  <2> HIDE DEF s
  <2>6. n \in Nat
    BY <2>2 DEF n
  <2>7. Len(s) = n
    BY <2>4, <2>6
  <2>8. ASSUME NEW i \in 1 .. n PROVE s[i] = frames[i]
    <3>1. i \in 1 .. n - 1 + 1 /\ 1 + i - 1 = i
      BY <2>6
    <3> QED
      BY <2>4, <3>1
  <2> QED
    BY <2>2, <2>4, <2>5, <2>7, <2>8 DEF n
<1>6. o \notin OnList /\ o \notin Waiting /\ o \in Cell
  BY <1>1, <1>4, <1>5, ListFacts, Cells0
<1>7. place'[o] = "free" /\ \A x \in Obj : x # o => place'[x] = place[x]
  BY <1>1, <1>4, <1>5 DEF TypeOK
<1>8. OnList' = OnList /\ Waiting' = Waiting
  <2>1. /\ OnList' = IF place'[o] = "list" THEN OnList \cup {o} ELSE OnList \ {o}
        /\ Waiting' = IF place'[o] = "tmu" THEN Waiting \cup {o} ELSE Waiting \ {o}
    BY <1>5, <1>7, PlaceChange
  <2> QED
    BY <1>6, <1>7, <2>1
<1>9. /\ RootList(next, prev, OnList, rootgc, r) /\ Circle(next, Waiting, tmudata, r)
      /\ next \in [Cell -> Cells] /\ prev \in [Cell -> Cells]
      /\ OnList \in SUBSET Cell /\ Waiting \in SUBSET Cell
  BY <1>1, <1>2, ListFacts DEF Order
<1>10. \A x \in Cell : x # o => next'[x] = next[x] /\ prev'[x] = prev[x]
  BY <1>4, <1>9
<1>11. RootList(next', prev', OnList, rootgc, r)
  <2>1. \A x \in OnList : next'[x] = next[x] /\ prev'[x] = prev[x] /\ r[x] = r[x]
    BY <1>6, <1>9, <1>10
  <2> QED
    BY <1>9, <2>1, RootSame
<1>12. Circle(next', Waiting, tmudata, r)
  <2>1. \A x \in Waiting : next'[x] = next[x] /\ r[x] = r[x]
    BY <1>6, <1>9, <1>10
  <2> QED
    BY <1>9, <2>1, CircleSame
<1>13. gcstate' = "sweep" => Ahead(sweepgc', Due', OnList', Waiting', r)
  <2>1. gcstate = "sweep" => Ahead(sweepgc, Due, OnList, Waiting, r)
    BY <1>2 DEF Order
  <2>2. Due' \subseteq Due
    BY <1>4 DEF Due
  <2> QED
    BY <1>4, <1>8, <2>1, <2>2 DEF Ahead
<1>14. (\E s \in [Cell -> Int] : Order(s))'
  BY <1>4, <1>8, <1>11, <1>12, <1>13, OrderFrom
<1>15. TypeOK'
  BY <1>1, <1>4, <1>5, <1>6 DEF TypeOK
<1>16. Marked' /\ Closed'
  <2>1. \A x \in dead' : place'[x] \in {"list", "off", "lost"} /\ (x \in Udata => x \in fin')
    BY <1>1, <1>4, <1>7 DEF Marked, TypeOK
  <2>2. \A x \in Obj : place'[x] = "tmu" => x \in Udata
    BY <1>1, <1>7 DEF Marked
  <2>3. ASSUME NEW x \in Obj, place'[x] = "off"
        PROVE  \E i \in 1 .. Len(frames') : frames'[i] = x
    <3>1. x # o /\ place[x] = "off"
      BY <1>7, <2>3
    <3>2. PICK i \in 1 .. Len(frames) : frames[i] = x
      BY <1>1, <3>1 DEF Marked
    <3>3. i # Len(frames)
      BY <1>5, <3>1, <3>2
    <3>4. i \in 1 .. Len(frames) - 1 /\ i \in 1 .. Len(frames')
      BY <1>5, <3>3
    <3> QED
      BY <1>5, <3>2, <3>4
  <2>4. gcstate' = "sweep" /\ closing' = "no" => sweepgc' = Root \/ sweepgc' \in OnList'
    BY <1>1, <1>4, <1>8 DEF Marked
  <2>5. Closed'
    BY <1>1, <1>4 DEF Closed
  <2> QED
    BY <2>1, <2>2, <2>3, <2>4, <2>5 DEF Marked
<1> QED
  BY <1>14, <1>15, <1>16 DEF GcInv

-----------------------------------------------------------------------------
(* The collector                                                           *)

(* What the links lead to: from a cell of a list to the next one.          *)
LEMMA NextOf ==
  ASSUME TypeOK, NEW r \in [Cell -> Int], Order(r)
  PROVE  /\ \A x \in OnList : next[x] = Nil \/ (next[x] \in OnList /\ prev[next[x]] = x
                                               /\ next[x] # rootgc /\ next[x] # x
                                               /\ \A y \in OnList : r[x] < r[y] => r[next[x]] <= r[y])
         /\ \A x \in OnList : next[x] = Nil => \A y \in OnList : r[y] <= r[x]
         /\ \A x \in Waiting : next[x] \in Waiting
         /\ rootgc \in OnList /\ prev[rootgc] = Nil /\ \A y \in OnList : r[rootgc] <= r[y]
         /\ Nil \notin OnList /\ Nil \notin Waiting
         /\ \A x \in OnList : r[x] \in Int
         /\ \A x, y \in OnList : r[x] = r[y] => x = y
<1>1. /\ RootList(next, prev, OnList, rootgc, r) /\ Circle(next, Waiting, tmudata, r)
      /\ OnList \in SUBSET Cell /\ Waiting \in SUBSET Cell
  BY ListFacts DEF Order
<1>2. /\ \A x \in OnList : \/ next[x] = Nil /\ \A y \in OnList : r[y] <= r[x]
                           \/ /\ next[x] \in OnList /\ r[x] < r[next[x]]
                              /\ \A y \in OnList : r[y] <= r[x] \/ r[next[x]] <= r[y]
      /\ \A x, y \in OnList : r[x] = r[y] => x = y
      /\ \A x \in OnList : next[x] # Nil => prev[next[x]] = x
      /\ prev[rootgc] = Nil /\ rootgc \in OnList
      /\ \A y \in OnList : r[rootgc] <= r[y]
  BY <1>1 DEF RootList, Sorted, Back
<1>3. Nil \notin OnList /\ Nil \notin Waiting /\ \A x \in OnList : r[x] \in Int
  BY <1>1, Cells0
<1>4. ASSUME NEW x \in OnList, next[x] # Nil
      PROVE  /\ next[x] \in OnList /\ prev[next[x]] = x /\ next[x] # rootgc /\ next[x] # x
             /\ \A y \in OnList : r[x] < r[y] => r[next[x]] <= r[y]
  <2>1. next[x] \in OnList /\ prev[next[x]] = x /\ r[x] < r[next[x]]
    BY <1>2, <1>4
  <2>2. next[x] # rootgc
    BY <1>2, <1>3, <2>1
  <2>3. next[x] # x
    BY <1>3, <2>1
  <2>4. ASSUME NEW y \in OnList, r[x] < r[y] PROVE r[next[x]] <= r[y]
    BY <1>2, <1>3, <1>4, <2>4
  <2> QED
    BY <2>1, <2>2, <2>3, <2>4
<1>5. ASSUME NEW x \in OnList, next[x] = Nil PROVE \A y \in OnList : r[y] <= r[x]
  BY <1>2, <1>3, <1>5
<1>6. \A x \in Waiting : next[x] \in Waiting
  BY <1>1 DEF Circle, Sorted
<1> QED
  BY <1>2, <1>3, <1>4, <1>5, <1>6

LEMMA SweepStepKeeps ==
  ASSUME GcInv, SweepStep
  PROVE  GcInv'
<1>1. TypeOK /\ Marked /\ Closed
  BY DEF GcInv
<1>2. PICK r \in [Cell -> Int] : Order(r)
  BY DEF GcInv
<1>3. PICK curr : curr = At(sweepgc)
  OBVIOUS
<1>4. /\ gcstate = "sweep" /\ gcstate' \in {"finalize", "sweep"}
      /\ UNCHANGED <<tmudata, fin, frames, full, depth, closing>>
      /\ \/ curr = Nil /\ UNCHANGED <<next, prev, rootgc, sweepgc, dead, place>>
         \/ /\ curr \in dead /\ curr # Nil
            /\ rootgc' = IF sweepgc = Root THEN next[curr] ELSE rootgc
            /\ next' = [o \in Cell |-> IF o = sweepgc THEN next[curr]
                                       ELSE IF o = curr THEN Nil ELSE next[o]]
            /\ prev' = [o \in Cell |-> IF o = next[curr] THEN prev[curr]
                                       ELSE IF o = curr THEN Nil ELSE prev[o]]
            /\ place' = [place EXCEPT ![curr] = "free"]
            /\ dead' = dead \ {curr}
            /\ UNCHANGED sweepgc
         \/ /\ curr \notin dead /\ curr # Nil
            /\ sweepgc' = curr /\ UNCHANGED <<next, prev, rootgc, dead, place>>
  BY <1>3 DEF SweepStep
<1>5. /\ next \in [Cell -> Cells] /\ prev \in [Cell -> Cells]
      /\ OnList \in SUBSET Cell /\ Waiting \in SUBSET Cell /\ OnList \cap Waiting = {}
      /\ RootList(next, prev, OnList, rootgc, r) /\ Circle(next, Waiting, tmudata, r)
      /\ Ahead(sweepgc, Due, OnList, Waiting, r)
      /\ Root \notin Cell
  BY <1>1, <1>2, <1>4, ListFacts, Cells0 DEF Order
<1>6. sweepgc # Root => sweepgc \in OnList \cup Waiting
  BY <1>5 DEF Ahead
<1>7. /\ sweepgc = Root => curr = rootgc
      /\ sweepgc # Root => curr = next[sweepgc]
  BY <1>3 DEF At
<1>8. /\ sweepgc \in OnList => curr = Nil \/ (curr \in OnList /\ prev[curr] = sweepgc
                                              /\ curr # rootgc /\ curr # sweepgc)
      /\ sweepgc \in Waiting => curr \in Waiting
      /\ sweepgc = Root => curr \in OnList /\ prev[curr] = Nil
  BY <1>1, <1>2, <1>5, <1>7, NextOf
<1>9. CASE curr = Nil
  <2>1. UNCHANGED <<next, prev, rootgc, sweepgc, dead, place, tmudata, fin, frames, full,
                    depth, closing>>
    <3>1. Nil \notin dead
      BY <1>1, Cells0 DEF TypeOK
    <3> QED
      BY <1>4, <1>9, <3>1
  <2>2. OnList' = OnList /\ Waiting' = Waiting /\ Due' = Due
    BY <2>1 DEF OnList, Waiting, Due
  <2>3. (\E s \in [Cell -> Int] : Order(s))'
    BY <1>5, <2>1, <2>2, OrderFrom
  <2>4. TypeOK' /\ Marked' /\ Closed'
    BY <1>1, <1>4, <2>1, <2>2 DEF TypeOK, Marked, Closed
  <2> QED
    BY <2>3, <2>4 DEF GcInv
<1>10. CASE curr \in dead
  <2>1. curr \in Obj /\ place[curr] \in {"list", "off", "lost"} /\ curr # Main /\ curr \in Cell /\ curr # Nil
    BY <1>1, <1>10, Cells0, ListAssumption DEF TypeOK, Marked
  <2>2. curr \in OnList /\ curr \notin Waiting
    BY <1>1, <1>6, <1>8, <2>1, ListFacts
  <2>3. sweepgc = Root \/ sweepgc \in OnList
    BY <1>6, <1>8, <2>2
  <2>4. /\ rootgc' = IF sweepgc = Root THEN next[curr] ELSE rootgc
        /\ next' = [o \in Cell |-> IF o = sweepgc THEN next[curr]
                                   ELSE IF o = curr THEN Nil ELSE next[o]]
        /\ prev' = [o \in Cell |-> IF o = next[curr] THEN prev[curr]
                                   ELSE IF o = curr THEN Nil ELSE prev[o]]
        /\ place' = [place EXCEPT ![curr] = "free"]
        /\ dead' = dead \ {curr} /\ sweepgc' = sweepgc
    BY <1>4, <1>10, <2>1
  <2>5. rootgc' = IF rootgc = curr THEN next[curr] ELSE rootgc
    BY <1>7, <1>8, <2>1, <2>3, <2>4
  <2>6. ASSUME NEW x \in OnList \ {curr}
        PROVE  /\ next'[x] = IF next[x] = curr THEN next[curr] ELSE next[x]
               /\ prev'[x] = IF x = next[curr] THEN prev[curr] ELSE prev[x]
    <3>1. x \in Cell /\ x # Root /\ x # Nil
      BY <1>5, Cells0
    <3>2. next[x] = curr => prev[curr] = x
      BY <1>1, <1>2, <2>1, NextOf
    <3>3. next[x] = curr <=> x = sweepgc
      BY <1>7, <1>8, <2>1, <2>3, <3>1, <3>2
    <3> QED
      BY <2>4, <3>1, <3>3
  <2>7. Cut(next, prev, next', prev', OnList, curr)
    BY <2>6 DEF Cut
  <2>8. \A x \in Waiting : next'[x] = next[x]
    BY <1>5, <2>2, <2>3, <2>4
  <2>9. place'[curr] = "free" /\ \A x \in Obj : x # curr => place'[x] = place[x]
    BY <1>1, <2>1, <2>4 DEF TypeOK
  <2>10. OnList' = OnList \ {curr} /\ Waiting' = Waiting
    <3>1. /\ OnList' = IF place'[curr] = "list" THEN OnList \cup {curr} ELSE OnList \ {curr}
          /\ Waiting' = IF place'[curr] = "tmu" THEN Waiting \cup {curr} ELSE Waiting \ {curr}
      BY <2>1, <2>9, PlaceChange
    <3> QED
      BY <2>2, <2>9, <3>1
  <2>11. Ahead(sweepgc', Due', OnList \ {curr}, Waiting, r)
    <3>1. Due' \subseteq Due /\ sweepgc' = sweepgc
      BY <1>4, <2>4 DEF Due
    <3>2. sweepgc # curr
      BY <1>5, <1>8, <2>1, <2>3
    <3> QED
      BY <1>5, <3>1, <3>2 DEF Ahead
  <2>12. (\E s \in [Cell -> Int] : Order(s))' /\ rootgc' \in Cell
    BY <1>1, <1>2, <1>4, <2>1, <2>2, <2>5, <2>7, <2>8, <2>10, <2>11, CutOrder
  <2>13. TypeOK'
    <3>1. next' \in [Cell -> Cells] /\ prev' \in [Cell -> Cells]
      BY <1>5, <2>1, <2>4 DEF Cells
    <3> QED
      BY <1>1, <1>4, <2>4, <2>12, <3>1 DEF TypeOK, Cells
  <2>14. Marked' /\ Closed'
    <3>1. \A x \in dead' : place'[x] \in {"list", "off", "lost"} /\ (x \in Udata => x \in fin')
      BY <1>1, <1>4, <2>4, <2>9 DEF Marked, TypeOK
    <3>2. \A x \in Obj : /\ place'[x] = "tmu" => x \in Udata
                         /\ place'[x] = "off" => \E i \in 1 .. Len(frames') : frames'[i] = x
      BY <1>1, <1>4, <2>9 DEF Marked
    <3>3. sweepgc' = Root \/ sweepgc' \in OnList'
      BY <1>8, <2>1, <2>3, <2>4, <2>10
    <3>4. Closed'
      BY <1>4 DEF Closed
    <3> QED
      BY <3>1, <3>2, <3>3, <3>4 DEF Marked
  <2> QED
    BY <2>12, <2>13, <2>14 DEF GcInv
<1>11. CASE curr \notin dead /\ curr # Nil
  <2>1. /\ sweepgc' = curr
        /\ UNCHANGED <<next, prev, rootgc, dead, place, tmudata, fin, frames, full, depth, closing>>
    BY <1>4, <1>11
  <2>2. OnList' = OnList /\ Waiting' = Waiting /\ Due' = Due
    BY <2>1 DEF OnList, Waiting, Due
  <2>3. curr \in OnList \cup Waiting
    BY <1>6, <1>8, <1>11
  <2>4. Ahead(curr, Due, OnList, Waiting, r)
    <3>1. ASSUME curr \in OnList, NEW o \in Due \cap OnList PROVE r[curr] < r[o]
      <4>1. curr # o
        BY <1>11 DEF Due
      <4>2. CASE sweepgc = Root
        <5>1. r[rootgc] <= r[o] /\ curr = rootgc
          BY <1>1, <1>2, <1>7, <4>2, NextOf
        <5> QED
          BY <1>1, <1>2, <3>1, <4>1, <5>1, NextOf
      <4>3. CASE sweepgc # Root
        <5>1. sweepgc \in OnList
          BY <1>5, <1>6, <1>8, <3>1, <4>3
        <5>2. r[sweepgc] < r[o]
          BY <1>5, <4>3, <5>1 DEF Ahead
        <5>3. r[curr] <= r[o]
          BY <1>1, <1>2, <1>7, <1>11, <4>3, <5>1, <5>2, NextOf
        <5> QED
          BY <1>1, <1>2, <3>1, <4>1, <5>3, NextOf
      <4> QED
        BY <4>2, <4>3
    <3> QED
      BY <2>3, <3>1 DEF Ahead
  <2>5. (\E s \in [Cell -> Int] : Order(s))'
    BY <1>5, <2>1, <2>2, <2>4, OrderFrom
  <2>6. TypeOK'
    BY <1>1, <1>4, <1>5, <2>1, <2>3 DEF TypeOK
  <2>7. Marked' /\ Closed'
    <3>1. closing = "no" => curr \in OnList
      BY <1>1, <1>4, <1>6, <1>8, <1>11 DEF Marked
    <3>2. Closed'
      BY <1>4 DEF Closed
    <3> QED
      BY <1>1, <2>1, <2>2, <3>1, <3>2 DEF Marked
  <2> QED
    BY <2>5, <2>6, <2>7 DEF GcInv
<1> QED
  BY <1>4, <1>9, <1>10, <1>11

LEMMA GCTMKeeps ==
  ASSUME GcInv, GCTM
  PROVE  GcInv'
<1>1. TypeOK /\ Marked /\ Closed
  BY DEF GcInv
<1>2. PICK r \in [Cell -> Int] : Order(r)
  BY DEF GcInv
<1>3. PICK u : u = next[tmudata]
  OBVIOUS
<1> DEFINE nx == [next EXCEPT ![tmudata] = next[u]]
           T == Waiting \ {u}
<1>4. /\ gcstate = "finalize" \/ closing # "no"
      /\ tmudata # Nil
      /\ tmudata' = IF u = tmudata THEN Nil ELSE tmudata
      /\ next' = NextAfterMain(nx, u) /\ prev' = PrevAfterMain(nx, prev, u)
      /\ place' = [place EXCEPT ![u] = "list"]
      /\ dead' = dead \ {u}
      /\ closing' = IF closing = "separated" THEN "finalizers" ELSE closing
      /\ UNCHANGED <<rootgc, sweepgc, gcstate, fin, frames, full, depth>>
  BY <1>3 DEF GCTM
<1>5. /\ RootList(next, prev, OnList, rootgc, r) /\ Circle(next, Waiting, tmudata, r)
      /\ next \in [Cell -> Cells] /\ prev \in [Cell -> Cells]
      /\ OnList \in SUBSET Cell /\ Waiting \in SUBSET Cell /\ OnList \cap Waiting = {}
      /\ Main \in OnList
  BY <1>1, <1>2, ListFacts DEF Order
<1>6. tmudata \in Waiting /\ u \in Waiting
  BY <1>3, <1>4, <1>5 DEF Circle
<1>7. u \in Obj /\ u \in Udata /\ u \notin OnList /\ u \in Cell
  BY <1>1, <1>5, <1>6 DEF Marked, Waiting
<1>8. place'[u] = "list" /\ \A x \in Obj : x # u => place'[x] = place[x]
  BY <1>1, <1>4, <1>7 DEF TypeOK
<1>9. OnList' = OnList \cup {u} /\ Waiting' = T
  <2>1. /\ OnList' = IF place'[u] = "list" THEN OnList \cup {u} ELSE OnList \ {u}
        /\ Waiting' = IF place'[u] = "tmu" THEN Waiting \cup {u} ELSE Waiting \ {u}
    BY <1>7, <1>8, PlaceChange
  <2> QED
    BY <1>8, <2>1
<1>10. /\ nx \in [Cell -> Cells] /\ nx[tmudata] = next[next[tmudata]]
       /\ \A x \in Cell : x # tmudata => nx[x] = next[x]
  BY <1>3, <1>5, <1>6
<1> HIDE DEF nx
<1>11. RootList(nx, prev, OnList, rootgc, r)
  <2>1. \A x \in OnList : nx[x] = next[x] /\ prev[x] = prev[x] /\ r[x] = r[x]
    BY <1>5, <1>6, <1>10
  <2> QED
    BY <1>5, <2>1, RootSame
<1>12. Circle(nx, T, tmudata', r)
  <2>1. \A x \in Waiting \ {tmudata, next[tmudata]} : nx[x] = next[x]
    BY <1>5, <1>10
  <2>2. Circle(nx, Waiting \ {next[tmudata]}, IF next[tmudata] = tmudata THEN Nil ELSE tmudata, r)
    BY <1>4, <1>5, <1>10, <2>1, CircleCut
  <2> QED
    BY <1>3, <1>4, <2>2
<1>13. gcstate' = "sweep" => Ahead(sweepgc', Due', OnList \cup {u}, T, Shift(r, OnList, u))
  <2>1. gcstate = "sweep" => closing # "no" /\ Due' = {}
    BY <1>4 DEF Due
  <2>2. gcstate = "sweep" => Ahead(sweepgc, Due, OnList, Waiting, r)
    BY <1>2 DEF Order
  <2> QED
    BY <1>4, <2>1, <2>2 DEF Ahead
<1>14. /\ (\E s \in [Cell -> Int] : Order(s))'
       /\ next' \in [Cell -> Cells] /\ prev' \in [Cell -> Cells]
  <2>1. T \in SUBSET Cell /\ OnList \cap T = {} /\ u \in Udata \ OnList /\ u \notin T
    BY <1>5, <1>7
  <2> HIDE DEF T
  <2> QED
    BY <1>4, <1>5, <1>9, <1>10, <1>11, <1>12, <1>13, <2>1, InsertOrder
<1>15. TypeOK'
  BY <1>1, <1>4, <1>7, <1>14 DEF TypeOK, Cells
<1>16. Marked' /\ Closed'
  <2>1. \A x \in dead' : place'[x] \in {"list", "off", "lost"} /\ (x \in Udata => x \in fin')
    BY <1>1, <1>4, <1>8 DEF Marked, TypeOK
  <2>2. \A x \in Obj : /\ place'[x] = "tmu" => x \in Udata
                       /\ place'[x] = "off" => \E i \in 1 .. Len(frames') : frames'[i] = x
    BY <1>1, <1>4, <1>8 DEF Marked
  <2>3. gcstate' = "sweep" => closing' # "no"
    BY <1>4
  <2>4. gcstate' # "closed"
    BY <1>1, <1>4 DEF Closed
  <2> QED
    BY <2>1, <2>2, <2>3, <2>4 DEF Marked, Closed
<1> QED
  BY <1>14, <1>15, <1>16 DEF GcInv

(* Neither the lists nor the places change.                                *)
LEMMA SameLists ==
  ASSUME GcInv, gcstate # "closed",
         UNCHANGED <<next, prev, rootgc, tmudata, dead, fin, place, frames, closing>>,
         TypeOK',
         gcstate' = "sweep" => sweepgc' = Root \/ (gcstate = "sweep" /\ sweepgc' = sweepgc),
         gcstate' # "closed"
  PROVE  GcInv'
<1>1. TypeOK /\ Marked
  BY DEF GcInv
<1>2. PICK r \in [Cell -> Int] : Order(r)
  BY DEF GcInv
<1>3. OnList' = OnList /\ Waiting' = Waiting /\ Due' = Due
  BY DEF OnList, Waiting, Due
<1>4. gcstate' = "sweep" => Ahead(sweepgc', Due', OnList', Waiting', r)
  <2>1. gcstate = "sweep" => Ahead(sweepgc, Due, OnList, Waiting, r)
    BY <1>2 DEF Order
  <2> QED
    BY <1>3, <2>1 DEF Ahead
<1>5. (\E s \in [Cell -> Int] : Order(s))'
  <2>1. RootList(next, prev, OnList, rootgc, r) /\ Circle(next, Waiting, tmudata, r)
    BY <1>2 DEF Order
  <2> QED
    BY <1>3, <1>4, <2>1, OrderFrom
<1>6. Marked'
  BY <1>1, <1>3 DEF Marked
<1> QED
  BY <1>5, <1>6 DEF GcInv, Closed

LEMMA EndCycleKeeps ==
  ASSUME GcInv, EndCycle
  PROVE  GcInv'
<1>1. TypeOK /\ gcstate # "closed"
  BY NotClosed DEF GcInv, EndCycle
<1>2. TypeOK'
  BY <1>1 DEF TypeOK, EndCycle
<1>3. /\ UNCHANGED <<next, prev, rootgc, tmudata, dead, fin, place, frames, closing>>
      /\ gcstate' = "mark"
  BY DEF EndCycle
<1> QED
  BY <1>1, <1>2, <1>3, SameLists

LEMMA FullGCKeeps ==
  ASSUME GcInv, FullGC
  PROVE  GcInv'
<1>1. TypeOK /\ gcstate # "closed"
  BY NotClosed DEF GcInv, FullGC
<1>2. /\ full' = "finish" /\ depth' = Len(frames)
      /\ \/ gcstate' = "sweep" /\ sweepgc' = Root
         \/ UNCHANGED <<gcstate, sweepgc>>
      /\ UNCHANGED <<next, prev, rootgc, tmudata, dead, fin, place, frames, closing>>
  BY DEF FullGC
<1>3. TypeOK'
  BY <1>1, <1>2 DEF TypeOK
<1> QED
  BY <1>1, <1>2, <1>3, SameLists

-----------------------------------------------------------------------------
(* Paths                                                                   *)

PathRun(p, nx, o) ==
  /\ p \in [0 .. Cardinality(Cell) -> Cells] /\ p[0] = o
  /\ \A n \in 1 .. Cardinality(Cell) : p[n] = IF p[n - 1] = Nil THEN Nil ELSE nx[p[n - 1]]

LEMMA CellsFinite ==
  /\ IsFiniteSet(Cell) /\ Cardinality(Cell) \in Nat
  /\ IsFiniteSet(Udata) /\ Cardinality(Udata) \in Nat
<1>1. IsFiniteSet(Plain \cup Udata)
  BY ListAssumption, FS_Union
<1>2. IsFiniteSet(Obj \cup {Main})
  BY <1>1, FS_AddElement DEF Obj
<1> QED
  BY <1>2, FS_CardinalityType, ListAssumption DEF Cell

LEMMA PathIs ==
  ASSUME NEW nx \in [Cell -> Cells], NEW o \in Cells
  PROVE  PathRun(Path(nx, o), nx, o)
<1> DEFINE k == Cardinality(Cell)
           g == [x \in (1 .. k) \X Cells |-> IF x[2] = Nil THEN Nil ELSE nx[x[2]]]
           p == CHOOSE f : f = [n \in 0 .. k |-> IF n = 0 THEN o
                                                 ELSE IF f[n - 1] = Nil THEN Nil ELSE nx[f[n - 1]]]
<1>1. k \in Nat
  BY CellsFinite
<1>2. g \in [(1 .. k) \X Cells -> Cells]
  BY DEF Cells
<1>3. Path(nx, o) = p
  BY DEF Path
<1> HIDE DEF k
<1>4. \E f : f = [n \in 0 .. k |-> IF n = 0 THEN o
                                   ELSE IF f[n - 1] = Nil THEN Nil ELSE nx[f[n - 1]]]
  <2> HIDE DEF g
  <2>1. PICK f : LoopRun(f, k, Cells, o, g)
    BY <1>1, <1>2, LoopExists
  <2>2. ASSUME NEW n \in 0 .. k, n # 0
        PROVE  g[<<n, f[n - 1]>>] = IF f[n - 1] = Nil THEN Nil ELSE nx[f[n - 1]]
    <3>1. n \in 1 .. k /\ n - 1 \in 0 .. k
      BY <1>1, <2>2
    <3>2. <<n, f[n - 1]>> \in (1 .. k) \X Cells
      BY <2>1, <3>1 DEF LoopRun
    <3> QED
      BY <3>2 DEF g
  <2>3. f = [n \in 0 .. k |-> IF n = 0 THEN o
                              ELSE IF f[n - 1] = Nil THEN Nil ELSE nx[f[n - 1]]]
    <3>1. f[0] = o /\ \A n \in 1 .. k : f[n] = g[<<n, f[n - 1]>>]
      BY <2>1 DEF LoopRun
    <3>2. ASSUME NEW n \in 0 .. k
          PROVE  f[n] = IF n = 0 THEN o ELSE IF f[n - 1] = Nil THEN Nil ELSE nx[f[n - 1]]
      <4>1. n = 0 \/ n \in 1 .. k
        BY <1>1
      <4> QED
        BY <2>2, <3>1, <4>1
    <3>3. f = [n \in 0 .. k |-> f[n]]
      BY <2>1 DEF LoopRun
    <3> QED
      BY <3>2, <3>3
  <2> QED
    BY <2>3
<1>5. p = [n \in 0 .. k |-> IF n = 0 THEN o
                            ELSE IF p[n - 1] = Nil THEN Nil ELSE nx[p[n - 1]]]
  BY <1>4
<1> HIDE DEF p, g
<1>6. p[0] = o
  BY <1>1, <1>5
<1>7. ASSUME NEW n \in 1 .. k PROVE p[n] = IF p[n - 1] = Nil THEN Nil ELSE nx[p[n - 1]]
  <2>1. n \in 0 .. k /\ n # 0
    BY <1>1
  <2> QED
    BY <1>5, <2>1
<1> DEFINE T == {n \in Nat : n <= k => p[n] \in Cells}
<1>8. 0 \in T
  BY <1>6
<1>9. ASSUME NEW n \in Nat, n \in T PROVE n + 1 \in T
  <2> SUFFICES ASSUME n + 1 <= k PROVE p[n + 1] \in Cells
    OBVIOUS
  <2>1. n + 1 \in 1 .. k /\ (n + 1) - 1 = n /\ p[n] \in Cells
    BY <1>1, <1>9
  <2>2. p[n + 1] = IF p[n] = Nil THEN Nil ELSE nx[p[n]]
    BY <1>7, <2>1
  <2> QED
    BY <2>1, <2>2 DEF Cells
<1>10. \A n \in 0 .. k : p[n] \in Cells
  <2>1. Nat \subseteq T
    <3> HIDE DEF T
    <3> QED
      BY <1>8, <1>9, SetInduction
  <2> QED
    BY <1>1, <2>1
<1>11. p \in [0 .. k -> Cells]
  <2>1. p = [n \in 0 .. k |-> p[n]]
    BY <1>5
  <2> QED
    BY <1>10, <2>1
<1> QED
  BY <1>3, <1>6, <1>7, <1>11 DEF PathRun, k

(* From o a path passes all that is behind it, and stops at the last cell. *)
LEMMA PathVisits ==
  ASSUME NEW nx \in [Cell -> Cells], NEW S \in SUBSET Cell, NEW r \in [Cell -> Int], NEW e,
         Sorted(nx, S, r, e), NEW o \in S, NEW p, PathRun(p, nx, o)
  PROVE  \E m \in 0 .. Cardinality(Cell) - 1 :
           /\ p[m] \in S /\ nx[p[m]] = e
           /\ \A y \in S : r[o] <= r[y] => \E i \in 0 .. m : p[i] = y
<1> DEFINE k == Cardinality(Cell)
           Behind(x) == {y \in S : r[x] < r[y]}
           Passed(n) == \A y \in S : r[o] <= r[y] => r[p[n]] < r[y] \/ \E i \in 0 .. n : p[i] = y
           Done(m) == /\ p[m] \in S /\ nx[p[m]] = e
                      /\ \A y \in S : r[o] <= r[y] => \E i \in 0 .. m : p[i] = y
           T == {n \in Nat : n <= k => \/ \E m \in 0 .. k - 1 : Done(m)
                                       \/ /\ p[n] \in S /\ Passed(n)
                                          /\ Cardinality(Behind(p[n])) + n + 1 <= k}
<1>1. k \in Nat /\ IsFiniteSet(Cell)
  BY CellsFinite
<1>2. /\ \A x \in S : r[x] \in Int
      /\ \A x, y \in S : r[x] = r[y] => x = y
      /\ \A x \in S : \/ nx[x] = e /\ \A y \in S : r[y] <= r[x]
                      \/ /\ nx[x] \in S /\ r[x] < r[nx[x]]
                         /\ \A y \in S : r[y] <= r[x] \/ r[nx[x]] <= r[y]
  BY DEF Sorted
<1>3. ASSUME NEW x PROVE IsFiniteSet(Behind(x)) /\ Cardinality(Behind(x)) \in Nat
  <2>1. Behind(x) \subseteq Cell
    OBVIOUS
  <2> QED
    BY <1>1, <2>1, FS_Subset, FS_CardinalityType
<1>4. p[0] = o /\ \A n \in 1 .. k : p[n] = IF p[n - 1] = Nil THEN Nil ELSE nx[p[n - 1]]
  BY DEF PathRun
<1>5. 0 \in T
  <2>1. Behind(o) \subseteq Cell \ {o}
    BY <1>2
  <2>2. IsFiniteSet(Cell \ {o}) /\ Cardinality(Cell \ {o}) = k - 1
    BY <1>1, FS_RemoveElement
  <2>3. Cardinality(Behind(o)) <= k - 1
    <3> HIDE DEF Behind, k
    <3> QED
      BY <2>1, <2>2, FS_Subset
  <2>4. Passed(0)
    <3>1. ASSUME NEW y \in S, r[o] <= r[y] PROVE r[p[0]] < r[y] \/ \E i \in 0 .. 0 : p[i] = y
      <4>1. r[o] < r[y] \/ o = y
        BY <1>2, <3>1
      <4> QED
        BY <1>4, <4>1
    <3> QED
      BY <3>1
  <2>5. Cardinality(Behind(p[0])) + 0 + 1 <= k
    <3> HIDE DEF Behind, k
    <3> QED
      BY <1>1, <1>3, <1>4, <2>3
  <2> HIDE DEF Passed, Behind, Done
  <2> QED
    BY <1>4, <2>4, <2>5
<1>6. ASSUME NEW n \in Nat, n \in T PROVE n + 1 \in T
  <2> SUFFICES ASSUME n + 1 <= k, ~ \E m \in 0 .. k - 1 : Done(m)
               PROVE  /\ p[n + 1] \in S /\ Passed(n + 1)
                      /\ Cardinality(Behind(p[n + 1])) + (n + 1) + 1 <= k
    OBVIOUS
  <2>1. n <= k /\ n + 1 \in 1 .. k /\ (n + 1) - 1 = n /\ n \in 0 .. k - 1
    BY <1>1
  <2>2. /\ p[n] \in S /\ Passed(n)
        /\ Cardinality(Behind(p[n])) + n + 1 <= k
    <3> HIDE DEF Passed, Behind, Done
    <3> QED
      BY <1>6, <2>1
  <2>3. p[n + 1] = nx[p[n]]
    <3>1. p[n] # Nil
      BY <2>2, Cells0
    <3> QED
      BY <1>4, <2>1, <3>1
  <2>4. ~(\A y \in S : r[y] <= r[p[n]])
    <3> SUFFICES ASSUME \A y \in S : r[y] <= r[p[n]] PROVE FALSE
      OBVIOUS
    <3>1. nx[p[n]] = e
      <4>1. nx[p[n]] \in S => ~(r[p[n]] < r[nx[p[n]]])
        BY <1>2, <2>2
      <4> QED
        BY <1>2, <2>2, <4>1
    <3>2. \A y \in S : r[o] <= r[y] => \E i \in 0 .. n : p[i] = y
      BY <1>2, <2>2
    <3>3. Done(n)
      BY <2>2, <3>1, <3>2
    <3> HIDE DEF Done
    <3> QED
      BY <2>1, <3>3
  <2> DEFINE a == p[n]
             b == p[n + 1]
  <2>5. /\ b \in S /\ r[a] < r[b]
        /\ \A y \in S : r[y] <= r[a] \/ r[b] <= r[y]
    BY <1>2, <2>2, <2>3, <2>4
  <2>6. Passed(n + 1)
    <3>1. ASSUME NEW y \in S, r[o] <= r[y]
          PROVE  r[b] < r[y] \/ \E i \in 0 .. n + 1 : p[i] = y
      <4>1. CASE r[a] < r[y]
        <5>1. r[b] < r[y] \/ b = y
          BY <1>2, <2>2, <2>5, <4>1
        <5>2. n + 1 \in 0 .. n + 1
          OBVIOUS
        <5> QED
          BY <5>1, <5>2
      <4>2. CASE ~(r[a] < r[y])
        <5>1. PICK i \in 0 .. n : p[i] = y
          BY <2>2, <3>1, <4>2
        <5>2. i \in 0 .. n + 1
          OBVIOUS
        <5> QED
          BY <5>1, <5>2
      <4> QED
        BY <4>1, <4>2
    <3> QED
      BY <3>1
  <2>7. Behind(b) = Behind(a) \ {b} /\ b \in Behind(a)
    BY <1>2, <2>2, <2>5
  <2>8. Cardinality(Behind(b)) = Cardinality(Behind(a)) - 1
    <3> DEFINE A == Behind(a)
    <3>1. IsFiniteSet(A)
      BY <1>3
    <3>2. Behind(b) = A \ {b} /\ b \in A
      BY <2>7
    <3> HIDE DEF A, b
    <3>3. Cardinality(A \ {b}) = Cardinality(A) - 1
      BY <3>1, <3>2, FS_RemoveElement
    <3> HIDE DEF Behind
    <3>4. Cardinality(Behind(b)) = Cardinality(A) - 1
      BY <3>2, <3>3
    <3> QED
      BY <3>4 DEF A
  <2> HIDE DEF Passed, Behind, k
  <2> QED
    BY <1>1, <1>3, <2>2, <2>5, <2>6, <2>8
<1>7. k \in T
  <2> HIDE DEF T, k
  <2> QED
    BY <1>1, <1>5, <1>6, SetInduction
<1>8. \E m \in 0 .. k - 1 : Done(m)
  <2> HIDE DEF Done, Passed, Behind, k
  <2> SUFFICES ASSUME Cardinality(Behind(p[k])) + k + 1 <= k PROVE FALSE
    BY <1>1, <1>7
  <2> QED
    BY <1>1, <1>3
<1> QED
  BY <1>8

(* A path that has ended stays at its end.                                 *)
LEMMA PathEnded ==
  ASSUME NEW nx, NEW o, NEW p, PathRun(p, nx, o),
         NEW m \in 0 .. Cardinality(Cell), p[m] = Nil
  PROVE  \A n \in m .. Cardinality(Cell) : p[n] = Nil
<1> DEFINE k == Cardinality(Cell)
           T == {d \in Nat : m + d <= k => p[m + d] = Nil}
<1>1. k \in Nat /\ m \in Nat
  BY CellsFinite
<1>2. 0 \in T
  BY <1>1
<1>3. ASSUME NEW d \in Nat, d \in T PROVE d + 1 \in T
  <2> SUFFICES ASSUME m + (d + 1) <= k PROVE p[m + (d + 1)] = Nil
    OBVIOUS
  <2>1. /\ m + (d + 1) \in 1 .. k /\ (m + (d + 1)) - 1 = m + d
        /\ p[m + d] = Nil
    BY <1>1, <1>3
  <2> QED
    BY <2>1 DEF PathRun
<1>4. Nat \subseteq T
  <2> HIDE DEF T
  <2> QED
    BY <1>2, <1>3, SetInduction
<1>5. ASSUME NEW n \in m .. k PROVE p[n] = Nil
  <2>1. n - m \in T /\ m + (n - m) = n /\ n <= k
    BY <1>1, <1>4
  <2> QED
    BY <2>1
<1> QED
  BY <1>5

(* A path never leaves a set that is closed under the links.               *)
LEMMA PathStays ==
  ASSUME NEW nx, NEW o, NEW p, PathRun(p, nx, o), NEW R,
         o \in R, \A x \in R : x # Nil => nx[x] \in R
  PROVE  \A n \in 0 .. Cardinality(Cell) : p[n] \in R
<1> DEFINE k == Cardinality(Cell)
           T == {n \in Nat : n <= k => p[n] \in R}
<1>1. k \in Nat
  BY CellsFinite
<1>2. 0 \in T
  BY DEF PathRun
<1>3. ASSUME NEW n \in Nat, n \in T PROVE n + 1 \in T
  <2> SUFFICES ASSUME n + 1 <= k PROVE p[n + 1] \in R
    OBVIOUS
  <2>1. n + 1 \in 1 .. k /\ (n + 1) - 1 = n /\ p[n] \in R
    BY <1>1, <1>3
  <2>2. p[n + 1] = IF p[n] = Nil THEN Nil ELSE nx[p[n]]
    BY <2>1 DEF PathRun
  <2> QED
    BY <2>1, <2>2
<1>4. Nat \subseteq T
  <2> HIDE DEF T
  <2> QED
    BY <1>2, <1>3, SetInduction
<1> QED
  BY <1>1, <1>4

LEMMA ReachedRun ==
  ASSUME NEW nx, NEW o, NEW p, p = Path(nx, o)
  PROVE  Reached(nx, o) = {p[n] : n \in 0 .. Cardinality(Cell)} \ {Nil}
BY DEF Reached

(* Along rootgc a path comes to all that is behind its start, and ends.    *)
LEMMA RootPath ==
  ASSUME TypeOK, NEW r \in [Cell -> Int], Order(r), NEW o \in OnList
  PROVE  /\ Reached(next, o) = {y \in OnList : r[o] <= r[y]}
         /\ Path(next, o)[Cardinality(Cell)] = Nil
<1> DEFINE k == Cardinality(Cell)
           A == {y \in OnList : r[o] <= r[y]}
<1>1. PICK p : p = Path(next, o)
  OBVIOUS
<1>2. /\ next \in [Cell -> Cells] /\ OnList \in SUBSET Cell /\ o \in Cells
      /\ Sorted(next, OnList, r, Nil)
  BY ListFacts DEF Order, RootList, Cells
<1>3. PathRun(p, next, o)
  BY <1>1, <1>2, PathIs
<1>4. PICK m \in 0 .. k - 1 : /\ p[m] \in OnList /\ next[p[m]] = Nil
                              /\ \A y \in OnList : r[o] <= r[y] => \E i \in 0 .. m : p[i] = y
  BY <1>2, <1>3, PathVisits
<1>5. k \in Nat /\ Nil \notin OnList /\ \A x \in OnList : r[x] \in Int
  BY <1>2, CellsFinite, Cells0
<1>6. p[k] = Nil
  <2>1. m + 1 \in 1 .. k /\ (m + 1) - 1 = m /\ m + 1 \in 0 .. k
    BY <1>4, <1>5
  <2>2. p[m + 1] = Nil
    BY <1>3, <1>4, <1>5, <2>1 DEF PathRun
  <2>3. k \in m + 1 .. k
    BY <1>5, <2>1
  <2> QED
    BY <1>3, <2>1, <2>2, <2>3, PathEnded
<1>7. \A n \in 0 .. k : p[n] \in A \cup {Nil}
  <2>1. ASSUME NEW x \in A \cup {Nil}, x # Nil PROVE next[x] \in A \cup {Nil}
    <3>1. x \in OnList /\ r[o] <= r[x]
      BY <2>1
    <3>2. next[x] = Nil \/ (next[x] \in OnList /\ r[x] < r[next[x]])
      BY <1>2, <3>1 DEF Sorted
    <3>3. next[x] \in OnList /\ r[x] < r[next[x]] => r[o] <= r[next[x]]
      BY <1>5, <3>1
    <3> QED
      BY <3>2, <3>3
  <2>2. o \in A
    BY <1>5
  <2> HIDE DEF A
  <2> QED
    BY <1>3, <2>1, <2>2, PathStays
<1>8. Reached(next, o) = {p[n] : n \in 0 .. k} \ {Nil}
  BY <1>1, ReachedRun
<1>9. ASSUME NEW y \in A PROVE y \in {p[n] : n \in 0 .. k} \ {Nil}
  <2>1. PICK i \in 0 .. m : p[i] = y
    BY <1>4
  <2>2. i \in 0 .. k
    BY <1>4, <1>5
  <2> QED
    BY <1>5, <2>1, <2>2
<1>10. Reached(next, o) = A
  <2> HIDE DEF A
  <2> QED
    BY <1>7, <1>8, <1>9
<1> QED
  BY <1>1, <1>6, <1>10

(* Around tmudata a path comes to all of it.                               *)
LEMMA CirclePath ==
  ASSUME TypeOK, NEW r \in [Cell -> Int], Order(r)
  PROVE  Tmudata = Waiting
<1> DEFINE k == Cardinality(Cell)
<1>1. /\ next \in [Cell -> Cells] /\ Waiting \in SUBSET Cell
      /\ Circle(next, Waiting, tmudata, r) /\ Nil \notin Waiting
  BY ListFacts, Cells0 DEF Order
<1>2. CASE tmudata = Nil
  BY <1>1, <1>2 DEF Circle, Tmudata
<1>3. CASE tmudata # Nil
  <2>1. PICK first : first = next[tmudata]
    OBVIOUS
  <2>2. /\ first \in Waiting /\ Sorted(next, Waiting, r, first)
        /\ \A x \in Waiting : r[first] <= r[x]
    BY <1>1, <1>3, <2>1 DEF Circle
  <2>3. PICK p : p = Path(next, first)
    OBVIOUS
  <2>4. PathRun(p, next, first)
    BY <1>1, <2>2, <2>3, PathIs DEF Cells
  <2>5. PICK m \in 0 .. k - 1 :
          \A y \in Waiting : r[first] <= r[y] => \E i \in 0 .. m : p[i] = y
    BY <1>1, <2>2, <2>4, PathVisits
  <2>6. \A x \in Waiting : next[x] \in Waiting
    BY <2>2 DEF Sorted
  <2>7. \A n \in 0 .. k : p[n] \in Waiting
    BY <2>2, <2>4, <2>6, PathStays
  <2>8. Tmudata = {p[n] : n \in 0 .. k} \ {Nil}
    BY <1>3, <2>1, <2>3, ReachedRun DEF Tmudata
  <2>9. ASSUME NEW y \in Waiting PROVE y \in {p[n] : n \in 0 .. k} \ {Nil}
    <3>1. PICK i \in 0 .. m : p[i] = y
      BY <2>2, <2>5
    <3>2. i \in 0 .. k
      BY <2>5, CellsFinite
    <3> QED
      BY <1>1, <3>1, <3>2
  <2> QED
    BY <2>7, <2>8, <2>9
<1> QED
  BY <1>2, <1>3

LEMMA FreeAllKeeps ==
  ASSUME GcInv, FreeAll
  PROVE  GcInv'
<1>1. TypeOK /\ Marked /\ Closed
  BY DEF GcInv
<1>2. PICK r \in [Cell -> Int] : Order(r)
  BY DEF GcInv
<1>3. /\ closing # "no" /\ frames = <<>> /\ full = "no" /\ tmudata = Nil
      /\ rootgc' = Main
      /\ next' = [o \in Cell |-> Nil] /\ prev' = [o \in Cell |-> Nil]
      /\ place' = [o \in Obj |-> IF o \in Reached(next, rootgc) THEN "free" ELSE place[o]]
      /\ dead' = {} /\ sweepgc' = Root
      /\ gcstate' = "closed"
      /\ UNCHANGED <<tmudata, fin, frames, full, depth, closing>>
  BY DEF FreeAll
<1>4. Reached(next, rootgc) = OnList
  <2>1. rootgc \in OnList /\ \A y \in OnList : r[rootgc] <= r[y]
    BY <1>1, <1>2, NextOf
  <2> QED
    BY <1>1, <1>2, <2>1, RootPath
<1>5. Waiting = {}
  <2>1. Circle(next, Waiting, tmudata, r) /\ Nil \notin Waiting
    BY <1>1, <1>2, ListFacts, Cells0 DEF Order
  <2> QED
    BY <1>3, <2>1 DEF Circle
<1>6. ASSUME NEW o \in Obj PROVE place'[o] \in {"free", "lost"}
  <2>1. place'[o] = IF o \in OnList THEN "free" ELSE place[o]
    BY <1>3, <1>4
  <2>2. place[o] # "tmu" /\ (place[o] = "list" => o \in OnList)
    BY <1>1, <1>5, ListFacts
  <2>3. place[o] # "off"
    <3>1. \A i \in 1 .. Len(frames) : FALSE
      BY <1>3
    <3> QED
      BY <1>1, <3>1 DEF Marked
  <2> QED
    BY <1>1, <2>1, <2>2, <2>3 DEF TypeOK
<1>7. OnList' = {Main} /\ Waiting' = {}
  BY <1>6 DEF OnList, Waiting
<1>8. Main \in Cell /\ Main \notin Udata /\ Main \notin Plain
  BY Cells0
<1>9. (\E s \in [Cell -> Int] : Order(s))'
  <2>1. RootList(next', prev', {Main}, rootgc', r)
    BY <1>3, <1>8 DEF RootList, Sorted, Back
  <2>2. Circle(next', {}, tmudata', r)
    BY <1>3 DEF Circle
  <2> QED
    BY <1>3, <1>7, <2>1, <2>2, OrderFrom
<1>10. TypeOK'
  <2>1. place' \in [Obj -> {"free", "list", "tmu", "off", "lost"}]
    BY <1>3, <1>6
  <2> QED
    BY <1>1, <1>3, <1>8, <2>1 DEF TypeOK
<1>11. Marked' /\ Closed'
  BY <1>3, <1>6 DEF Marked, Closed
<1> QED
  BY <1>6, <1>9, <1>10, <1>11 DEF GcInv

-----------------------------------------------------------------------------
(* luaC_separateudata                                                      *)

SepStates == [next : [Cell -> Cells], prev : [Cell -> Cells], tmudata : Udata \cup {Nil}, at : Cell]

(* After n turns M has moved; what else is to move is still behind c.at.   *)
SepOK(c, W, n, M, r) ==
  /\ RootList(c.next, c.prev, OnList \ M, rootgc, r)
  /\ Circle(c.next, Waiting \cup M, c.tmudata, r)
  /\ c.at \in OnList \ M /\ r[Main] <= r[c.at]
  /\ \A x \in W \ M : r[c.at] < r[x]
  /\ Cardinality({x \in OnList \ M : r[c.at] < r[x]}) + n <= Cardinality(Udata)

LEMMA SeparateNextType ==
  ASSUME NEW W \in SUBSET Udata, NEW c \in SepStates
  PROVE  SeparateNext(W, c) \in SepStates
<1> DEFINE curr == c.next[c.at]
<1>1. /\ c.next \in [Cell -> Cells] /\ c.prev \in [Cell -> Cells]
      /\ c.tmudata \in Udata \cup {Nil} /\ c.at \in Cell
      /\ c = [next |-> c.next, prev |-> c.prev, tmudata |-> c.tmudata, at |-> c.at]
  BY DEF SepStates
<1>2. curr \in Cells /\ Udata \subseteq Cell
  BY <1>1, Cells0
<1>3. CASE curr = Nil
  BY <1>3 DEF SeparateNext
<1>4. CASE curr # Nil /\ curr \notin W
  <2>1. SeparateNext(W, c) = [c EXCEPT !.at = curr]
    BY <1>4 DEF SeparateNext
  <2>2. curr \in Cell
    BY <1>2, <1>4 DEF Cells
  <2> QED
    BY <2>1, <2>2 DEF SepStates
<1>5. CASE curr # Nil /\ curr \in W
  <2> DEFINE after == c.next[curr]
             first == IF c.tmudata = Nil THEN curr ELSE c.next[c.tmudata]
             nx == [o \in Cell |-> IF o = curr THEN first
                                   ELSE IF o = c.at THEN after
                                   ELSE IF o = c.tmudata THEN curr ELSE c.next[o]]
             pv == [o \in Cell |-> IF o = after THEN c.prev[curr] ELSE c.prev[o]]
  <2>1. SeparateNext(W, c) = [next |-> nx, prev |-> pv, tmudata |-> curr, at |-> c.at]
    BY <1>5 DEF SeparateNext
  <2>2. curr \in Udata /\ curr \in Cell
    BY <1>2, <1>5
  <2>3. after \in Cells /\ c.prev[curr] \in Cells
    BY <1>1, <2>2
  <2>4. first \in Cells
    BY <1>1, <1>2
  <2>5. \A o \in Cell : c.next[o] \in Cells /\ c.prev[o] \in Cells
    BY <1>1
  <2> HIDE DEF curr, after, first
  <2>6. nx \in [Cell -> Cells] /\ pv \in [Cell -> Cells]
    BY <1>2, <2>3, <2>4, <2>5
  <2> HIDE DEF nx, pv
  <2> QED
    BY <1>1, <2>1, <2>2, <2>6 DEF SepStates
<1> QED
  BY <1>3, <1>4, <1>5

LEMMA SeparateNextOK ==
  ASSUME TypeOK, NEW W \in SUBSET (Udata \cap OnList), NEW c \in SepStates, NEW n \in Nat,
         n + 1 <= Cardinality(Udata), NEW M \in SUBSET W, NEW r \in [Cell -> Int],
         SepOK(c, W, n, M, r)
  PROVE  \E N \in SUBSET W, q \in [Cell -> Int] : SepOK(SeparateNext(W, c), W, n + 1, N, q)
<1> DEFINE S == OnList \ M
           T == Waiting \cup M
           a == c.at
           b == c.next[c.at]
           Behind(x) == {y \in S : r[x] < r[y]}
<1>1. /\ OnList \in SUBSET Cell /\ Waiting \in SUBSET Cell /\ OnList \cap Waiting = {}
      /\ S \in SUBSET Cell /\ T \in SUBSET Cell /\ S \cap T = {} /\ M \subseteq Cell
  BY ListFacts
<1>2. /\ c.next \in [Cell -> Cells] /\ c.prev \in [Cell -> Cells]
      /\ c.tmudata \in Udata \cup {Nil} /\ c.at \in Cell
  BY DEF SepStates
<1>3. /\ RootList(c.next, c.prev, S, rootgc, r)
      /\ Circle(c.next, T, c.tmudata, r)
      /\ a \in S /\ r[Main] <= r[a]
      /\ \A x \in W \ M : r[a] < r[x]
      /\ Cardinality(Behind(a)) + n <= Cardinality(Udata)
  BY DEF SepOK
<1>4. IsFiniteSet(Behind(a)) /\ Cardinality(Behind(a)) \in Nat /\ Cardinality(Udata) \in Nat
  <2>1. Behind(a) \subseteq Cell
    BY <1>1
  <2> QED
    BY <2>1, CellsFinite, FS_Subset, FS_CardinalityType
<1>5. /\ \A x \in S : r[x] \in Int
      /\ \A x, y \in S : r[x] = r[y] => x = y
      /\ \A x \in S : \/ c.next[x] = Nil /\ \A y \in S : r[y] <= r[x]
                      \/ /\ c.next[x] \in S /\ r[x] < r[c.next[x]]
                         /\ \A y \in S : r[y] <= r[x] \/ r[c.next[x]] <= r[y]
      /\ \A x \in S : c.next[x] # Nil => c.prev[c.next[x]] = x
      /\ rootgc \in S /\ \A x \in S : r[rootgc] <= r[x]
      /\ Main \in S
      /\ Nil \notin S /\ Nil \notin T
  BY <1>1, <1>3, Cells0 DEF RootList, Sorted, Back
<1>6. CASE b = Nil
  <2>1. SeparateNext(W, c) = c
    BY <1>6 DEF SeparateNext
  <2>2. Behind(a) = {}
    BY <1>3, <1>5, <1>6
  <2>3. Cardinality(Behind(a)) = 0
    BY <2>2, FS_EmptySet
  <2>4. Cardinality(Behind(a)) + (n + 1) <= Cardinality(Udata)
    <3> HIDE DEF Behind
    <3> QED
      BY <1>4, <2>3
  <2>5. SepOK(c, W, n + 1, M, r)
    BY <1>3, <2>4 DEF SepOK
  <2> QED
    BY <2>1, <2>5
<1>7. ASSUME b # Nil
      PROVE  /\ b \in S /\ r[a] < r[b] /\ Behind(b) = Behind(a) \ {b}
             /\ Cardinality(Behind(a) \ {b}) + (n + 1) <= Cardinality(Udata)
             /\ \A x \in S : c.next[x] = b <=> x = a
  <2>1. b \in S /\ r[a] < r[b] /\ \A y \in S : r[y] <= r[a] \/ r[b] <= r[y]
    BY <1>3, <1>5, <1>7
  <2>2. Behind(b) = Behind(a) \ {b}
    BY <1>3, <1>5, <2>1
  <2>3. b \in Behind(a)
    BY <2>1
  <2> DEFINE A == Behind(a)
             z == b
  <2>4. IsFiniteSet(A) /\ Cardinality(A) \in Nat /\ z \in A
        /\ Cardinality(A) + n <= Cardinality(Udata)
    BY <1>3, <1>4, <2>3
  <2>5. Cardinality(A \ {z}) + (n + 1) <= Cardinality(Udata)
    <3> HIDE DEF A, z
    <3>1. Cardinality(A \ {z}) = Cardinality(A) - 1
      BY <2>4, FS_RemoveElement
    <3> QED
      BY <1>4, <2>4, <3>1
  <2>6. \A x \in S : c.next[x] = b <=> x = a
    BY <1>3, <1>5, <1>7
  <2> QED
    BY <2>1, <2>2, <2>5, <2>6
<1>8. CASE b # Nil /\ b \notin W
  <2> DEFINE d == [c EXCEPT !.at = b]
  <2>1. SeparateNext(W, c) = d
    BY <1>8 DEF SeparateNext
  <2>2. d.next = c.next /\ d.prev = c.prev /\ d.tmudata = c.tmudata /\ d.at = b
    BY DEF SepStates
  <2>3. /\ b \in S /\ r[a] < r[b] /\ Behind(b) = Behind(a) \ {b}
        /\ Cardinality(Behind(a) \ {b}) + (n + 1) <= Cardinality(Udata)
    BY <1>7, <1>8
  <2>4. r[Main] <= r[b]
    BY <1>3, <1>5, <2>3
  <2>5. ASSUME NEW x \in W \ M PROVE r[b] < r[x]
    <3>1. x \in S /\ x # b /\ r[a] < r[x]
      BY <1>3, <1>8
    <3>2. r[b] <= r[x]
      BY <1>3, <1>5, <1>8, <2>3, <3>1
    <3>3. r[b] # r[x]
      BY <1>5, <2>3, <3>1
    <3> QED
      BY <1>5, <2>3, <3>1, <3>2, <3>3
  <2>6. Cardinality(Behind(b)) + (n + 1) <= Cardinality(Udata)
    BY <2>3
  <2> HIDE DEF d, b
  <2>7. SepOK(d, W, n + 1, M, r)
    BY <1>3, <2>2, <2>3, <2>4, <2>5, <2>6 DEF SepOK
  <2> QED
    BY <2>1, <2>7
<1>9. CASE b # Nil /\ b \in W
  <2> DEFINE after == c.next[b]
             first == IF c.tmudata = Nil THEN b ELSE c.next[c.tmudata]
             nx == [o \in Cell |-> IF o = b THEN first
                                   ELSE IF o = a THEN after
                                   ELSE IF o = c.tmudata THEN b ELSE c.next[o]]
             pv == [o \in Cell |-> IF o = after THEN c.prev[b] ELSE c.prev[o]]
             d == [next |-> nx, prev |-> pv, tmudata |-> b, at |-> a]
  <2>1. SeparateNext(W, c) = d
    BY <1>9 DEF SeparateNext
  <2>2. d.next = nx /\ d.prev = pv /\ d.tmudata = b /\ d.at = a
    OBVIOUS
  <2>3. /\ b \in S /\ r[a] < r[b]
        /\ Cardinality(Behind(a) \ {b}) + (n + 1) <= Cardinality(Udata)
        /\ \A x \in S : c.next[x] = b <=> x = a
    BY <1>7, <1>9
  <2>4. b \in Cell /\ b \notin T /\ b # a /\ b # Main /\ b # rootgc /\ a \in Cell
    <3>1. r[Main] < r[b] /\ r[rootgc] < r[b] /\ b # a
      BY <1>3, <1>5, <2>3
    <3> QED
      BY <1>1, <1>3, <1>5, <2>3, <3>1
  <2>5. c.tmudata = Nil \/ c.tmudata \in T
    BY <1>3 DEF Circle
  <2>6. /\ nx[b] = first /\ nx[a] = after
        /\ \A x \in Cell : x # b /\ x # a /\ x # c.tmudata => nx[x] = c.next[x]
        /\ c.tmudata # Nil => nx[c.tmudata] = b
        /\ \A x \in Cell : pv[x] = IF x = after THEN c.prev[b] ELSE c.prev[x]
    BY <1>1, <1>3, <2>4, <2>5
  <2> HIDE DEF nx, pv, d, b
  <2>7. Cut(c.next, c.prev, nx, pv, S, b)
    <3>1. ASSUME NEW x \in S \ {b} PROVE nx[x] = IF c.next[x] = b THEN c.next[b] ELSE c.next[x]
      <4>1. x # c.tmudata /\ x \in Cell
        BY <1>1, <1>5, <2>5
      <4> QED
        BY <2>3, <2>6, <4>1
    <3>2. ASSUME NEW x \in S \ {b} PROVE pv[x] = IF x = c.next[b] THEN c.prev[b] ELSE c.prev[x]
      BY <1>1, <2>6
    <3> QED
      BY <3>1, <3>2 DEF Cut
  <2>8. RootList(nx, pv, S \ {b}, rootgc, r)
    <3>1. RootList(nx, pv, S \ {b}, IF rootgc = b THEN c.next[b] ELSE rootgc, r)
      <4> HIDE DEF S
      <4> QED
        BY <1>1, <1>2, <1>3, <2>3, <2>4, <2>7, RootCut
    <3> QED
      BY <2>4, <3>1
  <2>9. PICK m \in Int : \A q : q[b] = m /\ (\A x \in T : q[x] = r[x])
                                => Circle(nx, T \cup {b}, b, q)
    <3>1. \A x \in T \ {c.tmudata} : nx[x] = c.next[x]
      BY <1>1, <1>3, <2>4, <2>6
    <3>2. nx[b] = IF c.tmudata = Nil THEN b ELSE c.next[c.tmudata]
      BY <2>6
    <3>3. T \in SUBSET Cell /\ b \in Cell \ T /\ Circle(c.next, T, c.tmudata, r)
      BY <1>1, <1>3, <2>4
    <3> HIDE DEF T, first
    <3> QED
      BY <1>2, <2>6, <3>1, <3>2, <3>3, CircleAppend
  <2> DEFINE q == [r EXCEPT ![b] = m]
             N == M \cup {b}
  <2>10. q \in [Cell -> Int] /\ q[b] = m /\ \A x \in Cell : x # b => q[x] = r[x]
    BY <2>4
  <2> HIDE DEF q
  <2>11. OnList \ N = S \ {b} /\ Waiting \cup N = T \cup {b}
    OBVIOUS
  <2>12. RootList(nx, pv, OnList \ N, rootgc, q)
    <3>1. \A x \in S \ {b} : nx[x] = nx[x] /\ pv[x] = pv[x] /\ q[x] = r[x]
      BY <1>1, <2>10
    <3> HIDE DEF S, N
    <3>2. RootList(nx, pv, S \ {b}, rootgc, q)
      BY <2>8, <3>1, RootSame
    <3> QED
      BY <2>11, <3>2
  <2>13. Circle(nx, Waiting \cup N, b, q)
    <3>1. \A x \in T : q[x] = r[x]
      BY <1>1, <2>4, <2>10
    <3> HIDE DEF T, N
    <3> QED
      BY <2>9, <2>10, <2>11, <3>1
  <2>14. a \in OnList \ N /\ q[Main] <= q[a] /\ q[a] = r[a]
    <3>1. Main \in Cell
      BY Cells0
    <3> QED
      BY <1>3, <2>4, <2>10, <3>1
  <2>15. ASSUME NEW x \in W \ N PROVE q[a] < q[x]
    <3>1. x \in W \ M /\ x # b /\ x \in Cell
      BY <1>1
    <3> QED
      BY <1>3, <2>10, <2>14, <3>1
  <2>16. {x \in OnList \ N : q[a] < q[x]} = Behind(a) \ {b}
    <3>1. \A x \in OnList \ N : x \in S /\ x # b /\ q[x] = r[x]
      BY <1>1, <2>10
    <3>2. \A x \in S : x # b => x \in OnList \ N
      OBVIOUS
    <3> QED
      BY <2>14, <3>1, <3>2
  <2>17. Cardinality({x \in OnList \ N : q[a] < q[x]}) + (n + 1) <= Cardinality(Udata)
    BY <2>3, <2>16
  <2>18. N \in SUBSET W
    BY <1>9
  <2> HIDE DEF N, a
  <2>19. SepOK(d, W, n + 1, N, q)
    BY <2>2, <2>12, <2>13, <2>14, <2>15, <2>17 DEF SepOK
  <2> QED
    BY <2>1, <2>10, <2>18, <2>19
<1> QED
  BY <1>6, <1>8, <1>9

(* When the turns are over, all of W has moved to the circular list.       *)
LEMMA SeparatedOK ==
  ASSUME TypeOK, NEW W \in SUBSET (Udata \cap OnList), NEW r \in [Cell -> Int],
         RootList(next, prev, OnList, rootgc, r), Circle(next, Waiting, tmudata, r)
  PROVE  /\ Separated(W) \in SepStates
         /\ \E q \in [Cell -> Int] :
              /\ RootList(Separated(W).next, Separated(W).prev, OnList \ W, rootgc, q)
              /\ Circle(Separated(W).next, Waiting \cup W, Separated(W).tmudata, q)
<1> DEFINE k == Cardinality(Udata)
           g == [x \in (1 .. k) \X SepStates |-> SeparateNext(W, x[2])]
           t == CHOOSE f : f = [n \in 0 .. k |-> IF n = 0 THEN Unseparated
                                                 ELSE SeparateNext(W, f[n - 1])]
<1>1. k \in Nat /\ IsFiniteSet(Udata)
  BY CellsFinite
<1>2. Separated(W) = t[k]
  BY DEF Separated
<1>3. Unseparated \in SepStates
  <2>1. Main \in Cell /\ next \in [Cell -> Cells] /\ prev \in [Cell -> Cells]
        /\ tmudata \in Udata \cup {Nil}
    BY ListFacts, Cells0 DEF TypeOK
  <2> QED
    BY <2>1 DEF Unseparated, SepStates
<1>4. /\ OnList \in SUBSET Cell /\ Main \in OnList /\ Main \in Cell
      /\ \A x \in OnList : x = Main \/ x \in Plain \/ x \in Udata
      /\ \A x \in OnList : r[x] \in Int
  BY ListFacts, Cells0
<1>5. SepOK(Unseparated, W, 0, {}, r)
  <2> DEFINE B == {x \in OnList : r[Main] < r[x]}
  <2>1. \A x \in OnList : (x \in Udata => r[Main] < r[x]) /\ (x \in Plain => r[x] < r[Main])
    BY DEF RootList
  <2>2. B \subseteq Udata
    BY <1>4, <2>1
  <2>3. Cardinality(B) \in Nat /\ Cardinality(B) <= k
    BY <1>1, <2>2, FS_Subset, FS_CardinalityType
  <2>4. /\ Unseparated.next = next /\ Unseparated.prev = prev
        /\ Unseparated.tmudata = tmudata /\ Unseparated.at = Main
    BY DEF Unseparated
  <2>5. OnList \ {} = OnList /\ Waiting \cup {} = Waiting
    OBVIOUS
  <2>6. Cardinality(B) + 0 <= Cardinality(Udata)
    BY <2>3
  <2>7. \A x \in W \ {} : r[Main] < r[x]
    BY <2>1
  <2>8. r[Main] <= r[Main]
    BY <1>4
  <2> QED
    BY <1>4, <2>4, <2>5, <2>6, <2>7, <2>8 DEF SepOK
<1> HIDE DEF k
<1>6. g \in [(1 .. k) \X SepStates -> SepStates]
  <2>1. W \in SUBSET Udata
    OBVIOUS
  <2>2. ASSUME NEW x \in (1 .. k) \X SepStates PROVE SeparateNext(W, x[2]) \in SepStates
    <3>1. x[2] \in SepStates
      OBVIOUS
    <3> QED
      BY <2>1, <3>1, SeparateNextType
  <2> QED
    BY <2>2
<1>7. \E f : f = [n \in 0 .. k |-> IF n = 0 THEN Unseparated ELSE SeparateNext(W, f[n - 1])]
  <2> HIDE DEF g
  <2>1. PICK f : LoopRun(f, k, SepStates, Unseparated, g)
    BY <1>1, <1>3, <1>6, LoopExists
  <2>2. ASSUME NEW n \in 0 .. k, n # 0
        PROVE  g[<<n, f[n - 1]>>] = SeparateNext(W, f[n - 1])
    <3>1. n \in 1 .. k /\ n - 1 \in 0 .. k
      BY <1>1, <2>2
    <3>2. <<n, f[n - 1]>> \in (1 .. k) \X SepStates
      BY <2>1, <3>1 DEF LoopRun
    <3> QED
      BY <3>2 DEF g
  <2>3. f[0] = Unseparated /\ \A n \in 1 .. k : f[n] = g[<<n, f[n - 1]>>]
    BY <2>1 DEF LoopRun
  <2>4. ASSUME NEW n \in 0 .. k
        PROVE  f[n] = IF n = 0 THEN Unseparated ELSE SeparateNext(W, f[n - 1])
    <3>1. n = 0 \/ n \in 1 .. k
      BY <1>1
    <3> QED
      BY <2>2, <2>3, <3>1
  <2>5. f = [n \in 0 .. k |-> f[n]]
    BY <2>1 DEF LoopRun
  <2>6. f = [n \in 0 .. k |-> IF n = 0 THEN Unseparated ELSE SeparateNext(W, f[n - 1])]
    BY <2>4, <2>5
  <2> QED
    BY <2>6
<1>8. t = [n \in 0 .. k |-> IF n = 0 THEN Unseparated ELSE SeparateNext(W, t[n - 1])]
  BY <1>7
<1> HIDE DEF t, g
<1>9. t[0] = Unseparated
  BY <1>1, <1>8
<1>10. ASSUME NEW n \in 1 .. k PROVE t[n] = SeparateNext(W, t[n - 1])
  <2>1. n \in 0 .. k /\ n # 0
    BY <1>1
  <2> QED
    BY <1>8, <2>1
<1> DEFINE P(n) == /\ t[n] \in SepStates
                   /\ \E N \in SUBSET W, q \in [Cell -> Int] : SepOK(t[n], W, n, N, q)
           T == {n \in Nat : n <= k => P(n)}
<1>11. 0 \in T
  <2>1. {} \in SUBSET W
    OBVIOUS
  <2>2. P(0)
    BY <1>3, <1>5, <1>9, <2>1
  <2> QED
    BY <2>2
<1>12. ASSUME NEW n \in Nat, n \in T PROVE n + 1 \in T
  <2> SUFFICES ASSUME n + 1 <= k PROVE P(n + 1)
    OBVIOUS
  <2>1. n + 1 \in 1 .. k /\ (n + 1) - 1 = n /\ n <= k
    BY <1>1
  <2>2. t[n + 1] = SeparateNext(W, t[n])
    BY <1>10, <2>1
  <2>3. P(n)
    BY <1>12, <2>1
  <2>4. PICK c : c = t[n]
    OBVIOUS
  <2>5. PICK N \in SUBSET W, q \in [Cell -> Int] : SepOK(c, W, n, N, q)
    BY <2>3, <2>4
  <2>6. c \in SepStates
    BY <2>3, <2>4
  <2>7. SeparateNext(W, c) \in SepStates
    BY <2>6, SeparateNextType
  <2>8. \E N2 \in SUBSET W, q2 \in [Cell -> Int] : SepOK(SeparateNext(W, c), W, n + 1, N2, q2)
    BY <2>5, <2>6, SeparateNextOK DEF k
  <2> QED
    BY <2>2, <2>4, <2>7, <2>8
<1>13. P(k)
  <2>1. Nat \subseteq T
    <3> HIDE DEF T
    <3> QED
      BY <1>11, <1>12, SetInduction
  <2> QED
    BY <1>1, <2>1
<1>14. PICK s : s = t[k]
  OBVIOUS
<1>15. PICK N \in SUBSET W, q \in [Cell -> Int] : SepOK(s, W, k, N, q)
  BY <1>13, <1>14
<1>16. N = W
  <2> DEFINE B == {x \in OnList \ N : q[s.at] < q[x]}
  <2>1. Cardinality(B) + k <= k /\ \A x \in W \ N : q[s.at] < q[x]
    BY <1>15 DEF SepOK, k
  <2>2. IsFiniteSet(B)
    <3>1. B \subseteq Cell
      BY <1>4
    <3> QED
      BY <3>1, CellsFinite, FS_Subset
  <2>3. Cardinality(B) \in Nat
    BY <2>2, FS_CardinalityType
  <2>4. Cardinality(B) = 0
    <3> HIDE DEF B
    <3> QED
      BY <1>1, <2>1, <2>3
  <2>5. B = {}
    BY <2>2, <2>4, FS_EmptySet
  <2> QED
    BY <2>1, <2>5
<1>17. RootList(s.next, s.prev, OnList \ W, rootgc, q) /\ Circle(s.next, Waiting \cup W, s.tmudata, q)
  BY <1>15, <1>16 DEF SepOK
<1> HIDE DEF P, T
<1>18. t[k] \in SepStates
  BY <1>13 DEF P
<1> QED
  BY <1>2, <1>14, <1>17, <1>18

LEMMA SeparateSplits ==
  ASSUME TypeOK, NEW r \in [Cell -> Int], Order(r), NEW W \in SUBSET (Udata \cap OnList),
         Separate(W), rootgc' = rootgc
  PROVE  /\ OnList' = OnList \ W /\ Waiting' = Waiting \cup W
         /\ next' \in [Cell -> Cells] /\ prev' \in [Cell -> Cells] /\ tmudata' \in Udata \cup {Nil}
         /\ \A o \in Obj : place'[o] = IF o \in W THEN "tmu" ELSE place[o]
         /\ \E q \in [Cell -> Int] :
              RootList(next', prev', OnList', rootgc', q) /\ Circle(next', Waiting', tmudata', q)
<1>1. PICK s : s = Separated(W)
  OBVIOUS
<1>2. RootList(next, prev, OnList, rootgc, r) /\ Circle(next, Waiting, tmudata, r)
  BY DEF Order
<1>3. s \in SepStates /\ \E q \in [Cell -> Int] :
        RootList(s.next, s.prev, OnList \ W, rootgc, q) /\ Circle(s.next, Waiting \cup W, s.tmudata, q)
  BY <1>1, <1>2, SeparatedOK
<1>4. /\ next' = s.next /\ prev' = s.prev /\ tmudata' = s.tmudata
      /\ place' = [o \in Obj |-> IF o \in W THEN "tmu" ELSE place[o]]
  BY <1>1 DEF Separate
<1>5. \A o \in Obj : place'[o] = IF o \in W THEN "tmu" ELSE place[o]
  BY <1>4
<1>6. OnList' = OnList \ W
  <2>1. Main \notin W
    BY Cells0
  <2> QED
    BY <1>5, <2>1 DEF OnList
<1>7. Waiting' = Waiting \cup W
  <2>1. W \subseteq Obj
    BY Cells0
  <2> QED
    BY <1>5, <2>1 DEF Waiting
<1>8. next' \in [Cell -> Cells] /\ prev' \in [Cell -> Cells] /\ tmudata' \in Udata \cup {Nil}
  BY <1>3, <1>4 DEF SepStates
<1>9. \E q \in [Cell -> Int] :
        RootList(next', prev', OnList', rootgc', q) /\ Circle(next', Waiting', tmudata', q)
  BY <1>3, <1>4, <1>6, <1>7
<1> QED
  BY <1>5, <1>6, <1>7, <1>8, <1>9

LEMMA AtomicKeeps ==
  ASSUME GcInv, NEW D \in SUBSET Obj, Atomic(D)
  PROVE  GcInv'
<1>1. TypeOK /\ Marked
  BY DEF GcInv
<1>2. PICK r \in [Cell -> Int] : Order(r)
  BY DEF GcInv
<1> DEFINE W == (D \cap Udata) \ fin
<1>3. /\ D \subseteq {o \in Obj : place[o] = "list"}
      /\ Separate(W) /\ fin' = fin \cup W
      /\ dead' = D \ (Udata \ fin) /\ sweepgc' = Root /\ gcstate' = "sweep"
      /\ full' = IF full = "finish" THEN "cycle" ELSE full
      /\ UNCHANGED <<rootgc, frames, depth, closing>>
  BY DEF Atomic, Separate
<1>4. W \in SUBSET (Udata \cap OnList)
  BY <1>3 DEF OnList
<1>5. /\ OnList' = OnList \ W /\ Waiting' = Waiting \cup W
      /\ next' \in [Cell -> Cells] /\ prev' \in [Cell -> Cells] /\ tmudata' \in Udata \cup {Nil}
      /\ \A o \in Obj : place'[o] = IF o \in W THEN "tmu" ELSE place[o]
      /\ \E q \in [Cell -> Int] :
           RootList(next', prev', OnList', rootgc', q) /\ Circle(next', Waiting', tmudata', q)
  <2> HIDE DEF W
  <2> QED
    BY <1>1, <1>2, <1>3, <1>4, SeparateSplits
<1>6. (\E q \in [Cell -> Int] : Order(q))'
  <2>1. PICK q \in [Cell -> Int] :
          RootList(next', prev', OnList', rootgc', q) /\ Circle(next', Waiting', tmudata', q)
    BY <1>5
  <2>2. Ahead(sweepgc', Due', OnList', Waiting', q)
    BY <1>3 DEF Ahead
  <2> QED
    BY <2>1, <2>2, OrderFrom
<1>7. TypeOK'
  <2>1. place' \in [Obj -> {"free", "list", "tmu", "off", "lost"}]
    BY <1>1, <1>3 DEF Separate, TypeOK
  <2>2. dead' \subseteq Obj /\ fin' \subseteq Udata
    BY <1>1, <1>3 DEF TypeOK
  <2> QED
    BY <1>1, <1>3, <1>5, <2>1, <2>2 DEF TypeOK, Cells
<1>8. Marked'
  <2>1. \A o \in dead' : place'[o] \in {"list", "off", "lost"} /\ (o \in Udata => o \in fin')
    BY <1>3, <1>5
  <2>2. \A o \in Obj : place'[o] = "tmu" => o \in Udata
    BY <1>1, <1>5 DEF Marked
  <2>3. \A o \in Obj : place'[o] = "off" => \E i \in 1 .. Len(frames') : frames'[i] = o
    BY <1>1, <1>3, <1>5 DEF Marked
  <2> QED
    BY <1>3, <2>1, <2>2, <2>3 DEF Marked
<1>9. Closed'
  BY <1>3 DEF Closed
<1> QED
  BY <1>6, <1>7, <1>8, <1>9 DEF GcInv

LEMMA LuaCloseKeeps ==
  ASSUME GcInv, LuaClose
  PROVE  GcInv'
<1>1. TypeOK /\ Marked
  BY DEF GcInv
<1>2. PICK r \in [Cell -> Int] : Order(r)
  BY DEF GcInv
<1> DEFINE W == {u \in Udata : place[u] = "list"} \ fin
<1>3. /\ closing = "no" /\ closing' = "separated"
      /\ Separate(W) /\ fin' = fin \cup W
      /\ UNCHANGED <<rootgc, sweepgc, gcstate, dead, frames, full, depth>>
  BY DEF LuaClose, Separate
<1>4. W \in SUBSET (Udata \cap OnList)
  BY Cells0 DEF OnList
<1>5. /\ OnList' = OnList \ W /\ Waiting' = Waiting \cup W
      /\ next' \in [Cell -> Cells] /\ prev' \in [Cell -> Cells] /\ tmudata' \in Udata \cup {Nil}
      /\ \A o \in Obj : place'[o] = IF o \in W THEN "tmu" ELSE place[o]
      /\ \E q \in [Cell -> Int] :
           RootList(next', prev', OnList', rootgc', q) /\ Circle(next', Waiting', tmudata', q)
  <2> HIDE DEF W
  <2> QED
    BY <1>1, <1>2, <1>3, <1>4, SeparateSplits
<1>6. (\E q \in [Cell -> Int] : Order(q))'
  <2>1. PICK q \in [Cell -> Int] :
          RootList(next', prev', OnList', rootgc', q) /\ Circle(next', Waiting', tmudata', q)
    BY <1>5
  <2>2. gcstate' = "sweep" => Ahead(sweepgc', Due', OnList', Waiting', q)
    <3>1. gcstate = "sweep" => Ahead(sweepgc, Due, OnList, Waiting, r)
      BY <1>2 DEF Order
    <3>2. Due' = {}
      BY <1>3 DEF Due
    <3> HIDE DEF W
    <3> QED
      BY <1>3, <1>5, <3>1, <3>2 DEF Ahead
  <2> QED
    BY <2>1, <2>2, OrderFrom
<1>7. TypeOK'
  <2>1. place' \in [Obj -> {"free", "list", "tmu", "off", "lost"}]
    BY <1>1, <1>3 DEF Separate, TypeOK
  <2>2. fin' \subseteq Udata
    BY <1>1, <1>3 DEF TypeOK
  <2> QED
    BY <1>1, <1>3, <1>5, <2>1, <2>2 DEF TypeOK, Cells
<1>8. Marked'
  <2>1. ASSUME NEW o \in dead'
        PROVE  place'[o] \in {"list", "off", "lost"} /\ (o \in Udata => o \in fin')
    <3>1. o \in Obj /\ place[o] \in {"list", "off", "lost"} /\ (o \in Udata => o \in fin)
      BY <1>1, <1>3 DEF Marked, TypeOK
    <3> QED
      BY <1>3, <1>5, <3>1
  <2>2. \A o \in Obj : place'[o] = "tmu" => o \in Udata
    BY <1>1, <1>5 DEF Marked
  <2>3. \A o \in Obj : place'[o] = "off" => \E i \in 1 .. Len(frames') : frames'[i] = o
    BY <1>1, <1>3, <1>5 DEF Marked
  <2> QED
    BY <1>3, <2>1, <2>2, <2>3 DEF Marked
<1>9. Closed'
  <2>1. gcstate # "closed"
    BY <1>3, NotClosed
  <2> QED
    BY <1>3, <2>1 DEF Closed
<1> QED
  BY <1>6, <1>7, <1>8, <1>9 DEF GcInv

-----------------------------------------------------------------------------
(* The theorems                                                            *)

LEMMA InitInv == Init => GcInv
<1> SUFFICES ASSUME Init PROVE GcInv
  OBVIOUS
<1>1. /\ next = [o \in Cell |-> Nil] /\ prev = [o \in Cell |-> Nil]
      /\ rootgc = Main /\ sweepgc = Root /\ tmudata = Nil
      /\ gcstate = "mark" /\ dead = {} /\ fin = {}
      /\ place = [o \in Obj |-> "free"]
      /\ frames = <<>> /\ full = "no" /\ depth = 0 /\ closing = "no"
  BY DEF Init
<1>2. Main \in Cell /\ Main \notin Udata /\ Main \notin Plain
  BY Cells0
<1>3. TypeOK
  BY <1>1, <1>2 DEF TypeOK
<1>4. OnList = {Main} /\ Waiting = {}
  BY <1>1 DEF OnList, Waiting
<1>5. \E r \in [Cell -> Int] : Order(r)
  <2> DEFINE r == [x \in Cell |-> 0]
  <2>1. r \in [Cell -> Int]
    OBVIOUS
  <2>2. next[Main] = Nil /\ prev[Main] = Nil /\ r[Main] = 0 /\ 0 <= 0
    BY <1>1, <1>2
  <2> HIDE DEF r
  <2>3. Main # Nil
    BY Cells0
  <2>4. RootList(next, prev, {Main}, Main, r)
    <3>1. Sorted(next, {Main}, r, Nil)
      BY <2>2 DEF Sorted
    <3>2. Back(next, prev, {Main}, Main)
      BY <2>2, <2>3 DEF Back
    <3> QED
      BY <1>2, <2>2, <2>3, <3>1, <3>2 DEF RootList
  <2>5. Circle(next, {}, Nil, r)
    BY DEF Circle
  <2>6. Order(r)
    BY <1>1, <1>4, <2>4, <2>5 DEF Order
  <2> QED
    BY <2>1, <2>6
<1>6. Marked /\ Closed
  BY <1>1 DEF Marked, Closed
<1> QED
  BY <1>3, <1>5, <1>6 DEF GcInv

LEMMA StutterInv == GcInv /\ UNCHANGED vars => GcInv'
<1> SUFFICES ASSUME GcInv, UNCHANGED vars PROVE GcInv'
  OBVIOUS
<1>1. UNCHANGED <<next, prev, rootgc, sweepgc, tmudata, gcstate, dead, fin, place,
                  frames, full, depth, closing>>
  BY DEF vars
<1>2. TypeOK' /\ Marked' /\ Closed'
  BY <1>1 DEF GcInv, TypeOK, Marked, Closed, OnList
<1>3. (\E r \in [Cell -> Int] : Order(r))'
  <2>1. PICK r \in [Cell -> Int] : Order(r)
    BY DEF GcInv
  <2>2. OnList' = OnList /\ Waiting' = Waiting /\ Due' = Due
    BY <1>1 DEF OnList, Waiting, Due
  <2>3. /\ RootList(next', prev', OnList', rootgc', r)
        /\ Circle(next', Waiting', tmudata', r)
        /\ gcstate' = "sweep" => Ahead(sweepgc', Due', OnList', Waiting', r)
    BY <1>1, <2>1, <2>2 DEF Order
  <2> QED
    BY <2>3, OrderFrom
<1> QED
  BY <1>2, <1>3 DEF GcInv

(* What is off the lists is freed by a frame that is left, or is lost.     *)
LEMMA FinalizerErrorKeeps ==
  ASSUME GcInv, NEW k \in 0 .. Len(frames), FinalizerError(k)
  PROVE  GcInv'
<1>1. TypeOK /\ Marked /\ gcstate # "closed"
  BY NotClosed DEF GcInv, FinalizerError
<1>2. PICK r \in [Cell -> Int] : Order(r)
  BY DEF GcInv
<1>3. /\ frames' = SubSeq(frames, 1, k)
      /\ place' = [o \in Obj |-> IF place[o] = "off" /\ o \in Above(k) THEN "lost" ELSE place[o]]
      /\ (full' = full /\ depth' = depth) \/ (full' = "no" /\ depth' = 0)
      /\ UNCHANGED <<next, prev, rootgc, sweepgc, tmudata, gcstate, dead, fin, closing>>
  BY DEF FinalizerError
<1>4. /\ frames' \in Seq(Obj) /\ Len(frames') = k
      /\ \A i \in 1 .. k : frames'[i] = frames[i]
  BY <1>1, <1>3 DEF TypeOK
<1>5. \A o \in Obj : place'[o] = IF place[o] = "off" /\ o \in Above(k) THEN "lost" ELSE place[o]
  BY <1>3
<1>6. TypeOK'
  <2>1. place' \in [Obj -> {"free", "list", "tmu", "off", "lost"}]
    BY <1>1, <1>3 DEF TypeOK
  <2> QED
    BY <1>1, <1>3, <1>4, <2>1 DEF TypeOK
<1>7. OnList' = OnList /\ Waiting' = Waiting /\ Due' = Due
  BY <1>3, <1>5 DEF OnList, Waiting, Due
<1>8. (\E s \in [Cell -> Int] : Order(s))'
  <2>1. /\ RootList(next', prev', OnList', rootgc', r)
        /\ Circle(next', Waiting', tmudata', r)
        /\ gcstate' = "sweep" => Ahead(sweepgc', Due', OnList', Waiting', r)
    BY <1>2, <1>3, <1>7 DEF Order
  <2> QED
    BY <2>1, OrderFrom
<1>9. Marked'
  <2>1. \A o \in dead' : place'[o] \in {"list", "off", "lost"} /\ (o \in Udata => o \in fin')
    BY <1>1, <1>3, <1>5 DEF Marked, TypeOK
  <2>2. \A o \in Obj : place'[o] = "tmu" => o \in Udata
    BY <1>1, <1>5 DEF Marked
  <2>3. ASSUME NEW o \in Obj, place'[o] = "off"
        PROVE  \E i \in 1 .. Len(frames') : frames'[i] = o
    <3>1. place[o] = "off" /\ o \notin Above(k)
      BY <1>5, <2>3
    <3>2. PICK i \in 1 .. Len(frames) : frames[i] = o
      BY <1>1, <3>1 DEF Marked
    <3>3. i \notin k + 1 .. Len(frames)
      BY <3>1, <3>2 DEF Above
    <3>4. i \in 1 .. k
      BY <1>1, <3>3 DEF TypeOK
    <3> QED
      BY <1>4, <3>2, <3>4
  <2>4. gcstate' = "sweep" /\ closing' = "no" => sweepgc' = Root \/ sweepgc' \in OnList'
    BY <1>1, <1>3, <1>7 DEF Marked
  <2> QED
    BY <2>1, <2>2, <2>3, <2>4 DEF Marked
<1>10. Closed'
  BY <1>1, <1>3 DEF Closed
<1> QED
  BY <1>6, <1>8, <1>9, <1>10 DEF GcInv

LEMMA ReleaseKeeps ==
  ASSUME GcInv, NEW o \in Obj, Release(o)
  PROVE  GcInv'
<1>1. gcstate # "closed"
  BY NotClosed DEF Release
<1>2. Unlink(o) \/ CallFinalizer(o)
  BY DEF Release
<1> QED
  BY <1>1, <1>2, UnlinkKeeps, CallFinalizerKeeps

LEMMA StepKeeps == GcInv /\ [Next]_vars => GcInv'
<1> SUFFICES ASSUME GcInv, [Next]_vars PROVE GcInv'
  OBVIOUS
<1>1. CASE LuaCode
  <2>1. PICK o \in Obj : Link(o) \/ NewUdata(o) \/ Release(o)
    BY <1>1 DEF LuaCode
  <2> QED
    BY <2>1, LinkKeeps, NewUdataKeeps, ReleaseKeeps
<1>2. CASE UnlinkUdata
  BY <1>2, UnlinkUdataKeeps
<1>3. CASE Free
  BY <1>3, FreeKeeps
<1>4. CASE \E D \in SUBSET Obj : Atomic(D)
  BY <1>4, AtomicKeeps
<1>5. CASE SweepStep
  BY <1>5, SweepStepKeeps
<1>6. CASE GCTM
  BY <1>6, GCTMKeeps
<1>7. CASE EndCycle
  BY <1>7, EndCycleKeeps
<1>8. CASE FullGC
  BY <1>8, FullGCKeeps
<1>9. CASE LuaClose
  BY <1>9, LuaCloseKeeps
<1>10. CASE FreeAll
  BY <1>10, FreeAllKeeps
<1>11. CASE UNCHANGED vars
  BY <1>11, StutterInv
<1>14. CASE \E k \in 0 .. Len(frames) : FinalizerError(k)
  BY <1>14, FinalizerErrorKeeps
<1>12. LuaCode \/ Releases \/ Collector \/ LuaClose \/ FreeAll \/ UNCHANGED vars
  BY DEF Next
<1>13. /\ Releases => UnlinkUdata \/ Free \/ \E k \in 0 .. Len(frames) : FinalizerError(k)
       /\ Collector => (\E D \in SUBSET Obj : Atomic(D)) \/ SweepStep \/ GCTM \/ EndCycle \/ FullGC
  BY DEF Releases, Collector
<1> QED
  BY <1>1, <1>2, <1>3, <1>4, <1>5, <1>6, <1>7, <1>8, <1>9, <1>10, <1>11, <1>12, <1>13, <1>14

(* The links of every reachable state are those of two lists: there is a   *)
(* rank for every cell such that rootgc runs up through the objects that   *)
(* belong to it, with prev its inverse, the main thread in front of the    *)
(* userdata, and tmudata once around those that wait, while the sweep is   *)
(* in front of all that is dead.                                           *)
THEOREM GcInvariant == Spec => []GcInv
<1>1. Init => GcInv
  BY InitInv
<1>2. GcInv /\ [Next]_vars => GcInv'
  BY StepKeeps
<1> QED
  BY <1>1, <1>2, PTL DEF Spec

(* Every link is NULL or leads to an object, and the pointers of the       *)
(* collector are those of objects.                                         *)
THEOREM GcTypeCorrect == Spec => []TypeOK
<1>1. GcInv => TypeOK
  BY DEF GcInv
<1> QED
  BY <1>1, GcInvariant, PTL

(* luaC_link, luaS_newudata, the luarc_free* functions, sweeplist, GCTM    *)
(* and luaC_separateudata never drop an object from rootgc or tmudata,     *)
(* keep one or enter it twice, and prev stays the inverse of next.         *)
THEOREM ListsExactAlways == Spec => []ListsExact
<1>1. GcInv => ListsExact
  <2> SUFFICES ASSUME GcInv PROVE ListsExact
    OBVIOUS
  <2>1. TypeOK
    BY DEF GcInv
  <2>2. PICK r \in [Cell -> Int] : Order(r)
    BY DEF GcInv
  <2> DEFINE k == Cardinality(Cell)
  <2>3. PICK p : p = Path(next, rootgc)
    OBVIOUS
  <2>4. /\ \A x \in OnList : next[x] = Nil \/ (next[x] \in OnList /\ prev[next[x]] = x)
        /\ rootgc \in OnList /\ \A y \in OnList : r[rootgc] <= r[y]
    BY <2>1, <2>2, NextOf
  <2>5. Reached(next, rootgc) = OnList /\ p[k] = Nil
    BY <2>1, <2>2, <2>3, <2>4, RootPath
  <2>6. PathRun(p, next, rootgc)
    <3>1. next \in [Cell -> Cells] /\ rootgc \in Cells
      BY <2>1, ListFacts DEF TypeOK, Cells
    <3> QED
      BY <2>3, <3>1, PathIs
  <2>7. \A n \in 0 .. k : p[n] \in OnList \cup {Nil}
    BY <2>4, <2>6, PathStays
  <2>8. ASSUME NEW i \in 1 .. k, p[i] # Nil PROVE prev[p[i]] = p[i - 1]
    <3>1. i - 1 \in 0 .. k /\ p[i] = IF p[i - 1] = Nil THEN Nil ELSE next[p[i - 1]]
      BY <2>6, CellsFinite DEF PathRun
    <3>2. p[i - 1] \in OnList /\ p[i] = next[p[i - 1]]
      BY <2>7, <2>8, <3>1
    <3> QED
      BY <2>4, <2>8, <3>2
  <2>9. Tmudata = {o \in Obj : place[o] = "tmu"}
    BY <2>1, <2>2, CirclePath DEF Waiting
  <2>10. Reached(next, rootgc) = {Main} \cup {o \in Obj : place[o] = "list"}
    BY <2>5 DEF OnList
  <2> QED
    BY <2>3, <2>5, <2>8, <2>9, <2>10 DEF ListsExact
<1> QED
  BY <1>1, GcInvariant, PTL

(* No release during a sweep leaves g->sweepgc inside an object that is    *)
(* freed or being freed, even one that a finalizer ran for in between.     *)
THEOREM SweepInListAlways == Spec => []SweepInList
<1>1. GcInv => SweepInList
  <2> SUFFICES ASSUME GcInv, gcstate = "sweep", closing = "no"
               PROVE  sweepgc \in {Root, Main} \/ place[sweepgc] = "list"
    BY DEF SweepInList
  <2>1. sweepgc = Root \/ sweepgc \in OnList
    BY DEF GcInv, Marked
  <2> QED
    BY <2>1 DEF OnList
<1> QED
  BY <1>1, GcInvariant, PTL

(* The adjustments of g->sweepgc in luarc_free*, and the objects that are  *)
(* linked during a sweep, never put a dead object behind the pointer: the  *)
(* sweep that found it dead comes to it.                                   *)
THEOREM DeadAheadAlways == Spec => []DeadAhead
<1>1. GcInv => DeadAhead
  <2> SUFFICES ASSUME GcInv, gcstate = "sweep", closing = "no",
                      NEW o \in dead, place[o] = "list"
               PROVE  o \in Reached(next, At(sweepgc))
    BY DEF DeadAhead
  <2>1. TypeOK /\ (sweepgc = Root \/ sweepgc \in OnList)
    BY DEF GcInv, Marked
  <2>2. PICK r \in [Cell -> Int] : Order(r)
    BY DEF GcInv
  <2>3. o \in OnList /\ OnList \subseteq Cell /\ Root \notin OnList /\ Nil \notin OnList
    BY <2>1, ListFacts, Cells0 DEF TypeOK
  <2>4. CASE sweepgc = Root
    <3>1. rootgc \in OnList /\ \A y \in OnList : r[rootgc] <= r[y]
      BY <2>1, <2>2, NextOf
    <3>2. Reached(next, rootgc) = {y \in OnList : r[rootgc] <= r[y]}
      BY <2>1, <2>2, <3>1, RootPath
    <3> QED
      BY <2>3, <2>4, <3>1, <3>2 DEF At
  <2>5. CASE sweepgc # Root
    <3>1. sweepgc \in OnList /\ At(sweepgc) = next[sweepgc]
      BY <2>1, <2>5 DEF At
    <3>2. r[sweepgc] < r[o]
      BY <2>2, <2>3, <2>5, <3>1 DEF Order, Ahead, Due
    <3>3. \/ next[sweepgc] = Nil /\ \A y \in OnList : r[y] <= r[sweepgc]
          \/ next[sweepgc] \in OnList /\ \A y \in OnList : r[y] <= r[sweepgc] \/ r[next[sweepgc]] <= r[y]
      BY <2>2, <3>1 DEF Order, RootList, Sorted
    <3>4. r[sweepgc] \in Int /\ r[o] \in Int
      BY <2>3, <3>1
    <3>5. next[sweepgc] \in OnList /\ r[next[sweepgc]] <= r[o]
      BY <2>3, <3>2, <3>3, <3>4
    <3>6. Reached(next, next[sweepgc]) = {y \in OnList : r[next[sweepgc]] <= r[y]}
      BY <2>1, <2>2, <3>5, RootPath
    <3> QED
      BY <2>3, <3>1, <3>5, <3>6
  <2> QED
    BY <2>4, <2>5
<1> QED
  BY <1>1, GcInvariant, PTL

LEMMA LostStep == TypeOK /\ LostByErrors /\ [Next]_vars => LostByErrors'
<1> SUFFICES ASSUME TypeOK, LostByErrors, [Next]_vars, NEW o \in Obj, place'[o] = "lost"
             PROVE  Errors
  BY DEF LostByErrors
<1>1. place \in [Obj -> {"free", "list", "tmu", "off", "lost"}] /\ (place[o] = "lost" => Errors)
  BY DEF TypeOK, LostByErrors
<1>2. CASE \E x \in Obj : Link(x) \/ NewUdata(x) \/ Unlink(x) \/ CallFinalizer(x)
  BY <1>1, <1>2 DEF Link, NewUdata, Unlink, CallFinalizer
<1>3. CASE UnlinkUdata \/ Free
  BY <1>1, <1>3 DEF UnlinkUdata, Free
<1>4. CASE \E k \in 0 .. Len(frames) : FinalizerError(k)
  BY <1>4 DEF FinalizerError
<1>5. CASE \E D \in SUBSET Obj : Atomic(D)
  BY <1>1, <1>5 DEF Atomic, Separate
<1>6. CASE SweepStep
  BY <1>1, <1>6 DEF SweepStep
<1>7. CASE GCTM
  BY <1>1, <1>7 DEF GCTM
<1>8. CASE EndCycle \/ FullGC \/ UNCHANGED vars
  BY <1>1, <1>8 DEF EndCycle, FullGC, vars
<1>9. CASE LuaClose
  BY <1>1, <1>9 DEF LuaClose, Separate
<1>10. CASE FreeAll
  BY <1>1, <1>10 DEF FreeAll
<1> QED
  BY <1>2, <1>3, <1>4, <1>5, <1>6, <1>7, <1>8, <1>9, <1>10
     DEF Next, LuaCode, Release, Releases, Collector

(* After lua_close every object is free, the one a finalizer made or the   *)
(* pending sweep left behind too, but what an error of a finalizer made an *)
(* unfinished luarc_free* lose: nothing else is left over by close_state.  *)
THEOREM CloseFreesAllAlways == Spec => []CloseFreesAll
<1>1. Init => LostByErrors
  BY DEF Init, LostByErrors
<1>2. GcInv => TypeOK
  BY DEF GcInv
<1>3. GcInv /\ LostByErrors => CloseFreesAll
  BY DEF GcInv, Closed, LostByErrors, CloseFreesAll
<1> QED
  BY <1>1, <1>2, <1>3, LostStep, GcInvariant, PTL DEF Spec

(* Where no finalizer raises an error, the second assertion of close_state *)
(* holds too: lua_close leaves no memory behind.                           *)
THEOREM CloseFreesEverything ==
  ASSUME ~Errors
  PROVE  Spec => [](gcstate = "closed" => \A o \in Obj : place[o] = "free")
<1>1. CloseFreesAll => (gcstate = "closed" => \A o \in Obj : place[o] = "free")
  BY DEF CloseFreesAll
<1> QED
  BY <1>1, CloseFreesAllAlways, PTL

=============================================================================
