--------------------------- MODULE LuaCallsProofs ---------------------------
(***************************************************************************)
(* The control half of LuaCalls: which activations of C code run which     *)
(* threads and functions.  For any number of coroutines, any limits and    *)
(* any program, nCcalls counts the C calls exactly, a thread that yields   *)
(* leaves no C code waiting, the limit on nested calls comes back after an *)
(* overflow, and the CallInfo array never grows past twice that limit.     *)
(*                                                                         *)
(* What is on the stacks plays no part in these theorems: their invariant  *)
(* speaks of the number of frames, which of them are Lua functions, the    *)
(* counters and the C stack.                                               *)
(*                                                                         *)
(* After them comes the invariant of the data half, which does speak of    *)
(* the stacks, with lemmas about one lua_State: writing to its slots,      *)
(* entering and leaving a function, opening and closing upvalues.          *)
(* LuaStackProofs shows that every step preserves it.                      *)
(***************************************************************************)
EXTENDS LuaCalls, Loops, FiniteSetTheorems, SequenceTheorems, TLAPS

-----------------------------------------------------------------------------
(* The invariant, of threads T, C stack C and pending error p              *)

IsSeq(s) == s \in Seq({s[i] : i \in 1 .. Len(s)})

Fields == {"stk", "top", "base", "ci", "size_ci", "status", "nCcalls",
           "baseCcalls", "errfunc", "allowhook", "openupval", "kept"}

(* A lua_State: its frames, the lowest of which is C code, fit in `ci'.    *)
StateOK(L) ==
  /\ DOMAIN L = Fields
  /\ IsSeq(L.ci) /\ Len(L.ci) >= 1 /\ ~L.ci[1].lua
  /\ \A i \in 1 .. Len(L.ci) : "lua" \in DOMAIN L.ci[i] /\ L.ci[i].lua \in BOOLEAN
  /\ L.size_ci \in Nat /\ Len(L.ci) <= L.size_ci /\ L.size_ci <= 2 * LUAI_MAXCALLS
  /\ L.status \in {"none", "ok", "yield", "dead"}
  /\ L.nCcalls \in Int /\ L.baseCcalls \in Int
  /\ L.allowhook \in BOOLEAN /\ L.kept \in BOOLEAN

Calling == {"call", "pcall", "callTMres", "compare", "callTM", "handler"}

ActOK(e) ==
  /\ e.k \in Calling \cup {"resume", "hook"}
  /\ e.t \in Thread /\ e.nexec \in Nat
  /\ {"k", "t", "nexec", "ci"} \subseteq DOMAIN e
  /\ e.k = "pcall" => {"nCcalls", "errfunc", "allowhook"} \subseteq DOMAIN e
  /\ e.k = "pcall" => e.allowhook \in BOOLEAN
  /\ e.k = "resume" => "from" \in DOMAIN e

Cur(C) == IF C = <<>> THEN Main ELSE C[Len(C)].t

(* The threads of the C stack: the host's and those that have been resumed. *)
Running(C) == {Main} \cup {C[i].t : i \in 1 .. Len(C)}

(* The activation that catches the errors of the lowest n.                 *)
Catches(C, d, n) ==
  /\ C[d].k \in {"pcall", "resume"}
  /\ \A j \in d + 1 .. n : C[j].k \notin {"pcall", "resume"}

ActsOK(C) == \A i \in 1 .. Len(C) : ActOK(C[i])

(* The C stack starts with a protected call of the host.                   *)
HostOK(C) == Len(C) > 0 => C[1].k = "pcall" /\ C[1].t = Main

(* Only lua_resume changes the thread, and the activations of a thread lie *)
(* side by side.                                                           *)
RunsOK(C) ==
  \A i, j \in 1 .. Len(C) :
    /\ (i <= j /\ \A n \in i + 1 .. j : C[n].k # "resume") => C[i].t = C[j].t
    /\ C[i].t = C[j].t => \A n \in i .. j : C[n].t = C[i].t

(* lua_resume starts a thread that is not on the C stack.                  *)
ResumesOK(C) ==
  \A j \in 1 .. Len(C) : C[j].k = "resume" =>
    /\ j > 1 /\ C[j].t \in Coroutine /\ C[j].from = C[j - 1].t
    /\ \A i \in 1 .. j - 1 : C[i].t # C[j].t

(* A thread below another one on the C stack has resumed it, directly or   *)
(* through others.                                                         *)
HandsOver(C, i, j) == C[j].t = C[i].t /\ C[j + 1].k = "resume"

HandoverOK(C) ==
  \A i \in 1 .. Len(C) : \A k \in i .. Len(C) :
    C[i].t # C[k].t => \E j \in i .. k - 1 : HandsOver(C, i, j)

CaughtOK(C) == \A n \in 1 .. Len(C) : \E d \in 1 .. n : Catches(C, d, n)

(* A hook can only call; it does not resume.                               *)
HooksOK(C) == \A i \in 1 .. Len(C) - 1 : C[i].k = "hook" => C[i + 1].k \in Calling

ChainOK(C) ==
  /\ IsSeq(C) /\ ActsOK(C) /\ HostOK(C) /\ RunsOK(C) /\ ResumesOK(C)
  /\ CaughtOK(C) /\ HooksOK(C) /\ HandoverOK(C)

(* The C calls on thread t among the lowest n activations.                 *)
CallsTo(C, t, n) == {i \in 1 .. n : C[i].t = t /\ C[i].k \in Calling}

CountsOK(T, C) ==
  /\ \A t \in Running(C) :
       T[t].nCcalls = T[t].baseCcalls + Cardinality(CallsTo(C, t, Len(C)))
  /\ \A i \in 1 .. Len(C) : C[i].k = "pcall" =>
       C[i].nCcalls = T[C[i].t].baseCcalls + Cardinality(CallsTo(C, C[i].t, i - 1))

(* A suspended thread: Lua functions, and on top the C function that       *)
(* called lua_yield.                                                       *)
Suspended(L) ==
  /\ Len(L.ci) >= 3 /\ ~L.ci[Len(L.ci)].lua
  /\ \A i \in 2 .. Len(L.ci) - 1 : L.ci[i].lua

StatusOK(T, C) ==
  /\ \A t \in Running(C) : T[t].status = "ok"
  /\ \A t \in Thread \ Running(C) :
       /\ T[t].status \in {"none", "ok"} => Len(T[t].ci) = 1
       /\ T[t].status = "yield" => Suspended(T[t])

Has(C, n, t, k) == \E i \in 1 .. n : C[i].t = t /\ C[i].k = k

(* An error handler belongs to a protected call, and hooks are only off    *)
(* inside one.                                                             *)
SettingsOK(T, C) ==
  /\ \A t \in Thread : T[t].status # "dead" =>
       /\ T[t].errfunc # 0 => Has(C, Len(C), t, "pcall")
       /\ ~T[t].allowhook => Has(C, Len(C), t, "hook")
  /\ \A i \in 1 .. Len(C) : C[i].k = "pcall" =>
       /\ C[i].errfunc # 0 => Has(C, i - 1, C[i].t, "pcall")
       /\ ~C[i].allowhook => Has(C, i - 1, C[i].t, "hook")

Errors == {"message", "ERRRUN", "ERRERR", "ERRMEM"}

(* The array is larger than the limit while the error is on its way or its *)
(* handler runs.                                                           *)
OverflowOK(T, C, p) ==
  \A t \in Thread :
    (T[t].status # "dead" /\ ~T[t].kept /\ T[t].size_ci > LUAI_MAXCALLS) =>
      (p \in Errors /\ Cur(C) = t) \/ Has(C, Len(C), t, "handler")

(* lev[i] is the number of frames its thread had when activation i began.  *)
(* Above them are the nexec Lua functions that its luaV_execute runs, and  *)
(* at most one C function.                                                 *)
Upper(T, C, lev, i) ==
  IF i < Len(C) /\ C[i + 1].t = C[i].t THEN lev[i + 1] ELSE Len(T[C[i].t].ci)

BlockOK(L, e, from, to) ==
  /\ from + e.nexec <= to /\ to <= from + e.nexec + 1
  /\ e.k = "hook" => to = from
  /\ \A f \in from + 1 .. from + e.nexec : L.ci[f].lua
  /\ to = from + e.nexec + 1 => ~L.ci[to].lua

FramesOK(T, C, lev) ==
  /\ lev \in [1 .. Len(C) -> Nat]
  /\ C = <<>> => Len(T[Main].ci) = 1
  /\ \A i \in 1 .. Len(C) :
       /\ 1 <= lev[i] /\ lev[i] <= Len(T[C[i].t].ci)
       /\ (i = 1 \/ C[i].k = "resume") => lev[i] = 1
       /\ lev[i] = C[i].ci
       /\ \A j \in i .. Len(C) : C[i].t = C[j].t => lev[i] <= lev[j]
       /\ BlockOK(T[C[i].t], C[i], lev[i], Upper(T, C, lev, i))

(* An activation has a function to run, but while it is being entered or   *)
(* left and after an error.                                                *)
BusyOK(T, C, p, lev) ==
  \A i \in 1 .. Len(C) :
    (C[i].k # "hook" /\ IF i < Len(C) THEN C[i + 1].k # "handler" ELSE p = "none") =>
      /\ lev[i] < Upper(T, C, lev, i)
      /\ C[i].k = "resume" => C[i].nexec >= 1

(* p is "enter" between the steps of one action.                           *)
Good(T, C, p, lev) ==
  /\ DOMAIN T = Thread /\ \A t \in Thread : StateOK(T[t])
  /\ ChainOK(C) /\ CountsOK(T, C) /\ StatusOK(T, C) /\ SettingsOK(T, C)
  /\ OverflowOK(T, C, p)
  /\ FramesOK(T, C, lev) /\ BusyOK(T, C, p, lev)
  /\ p \in Errors \cup {"none", "enter"} /\ (C = <<>> => p = "none")

CallsInv == \E lev \in [1 .. Len(cst) -> Nat] : Good(th, cst, pend, lev)

-----------------------------------------------------------------------------
(* Sequences                                                               *)

LEMMA SeqElements ==
  ASSUME NEW S, NEW s \in Seq(S)
  PROVE  IsSeq(s)
<1> DEFINE R == {s[i] : i \in 1 .. Len(s)}
<1>1. s \in [1 .. Len(s) -> R] /\ Len(s) \in Nat
  OBVIOUS
<1>2. s \in Seq(R)
  BY <1>1
<1> QED
  BY <1>2 DEF IsSeq

LEMMA SeqAppend ==
  ASSUME NEW s, IsSeq(s), NEW e
  PROVE  /\ IsSeq(Append(s, e)) /\ Len(Append(s, e)) = Len(s) + 1
         /\ Len(s) \in Nat /\ Append(s, e) # <<>>
         /\ \A i \in 1 .. Len(s) : Append(s, e)[i] = s[i]
         /\ Append(s, e)[Len(s) + 1] = e
<1> DEFINE R == {s[i] : i \in 1 .. Len(s)} \cup {e}
<1>1. s \in [1 .. Len(s) -> R] /\ Len(s) \in Nat
  BY DEF IsSeq
<1>2. s \in Seq(R)
  BY <1>1
<1>3. e \in R
  OBVIOUS
<1> HIDE DEF R
<1>4. /\ Append(s, e) \in Seq(R) /\ Append(s, e) # <<>>
      /\ Len(Append(s, e)) = Len(s) + 1
      /\ \A i \in 1 .. Len(s) : Append(s, e)[i] = s[i]
      /\ Append(s, e)[Len(s) + 1] = e
  BY <1>2, <1>3, AppendProperties
<1>5. IsSeq(Append(s, e))
  BY <1>4, SeqElements
<1> QED
  BY <1>1, <1>4, <1>5

LEMMA SeqCut ==
  ASSUME NEW s, IsSeq(s), NEW n \in 0 .. Len(s)
  PROVE  /\ IsSeq(SubSeq(s, 1, n)) /\ Len(SubSeq(s, 1, n)) = n
         /\ \A i \in 1 .. n : SubSeq(s, 1, n)[i] = s[i]
<1> DEFINE R == {s[i] : i \in 1 .. Len(s)}
<1>1. Len(s) \in Nat
  BY DEF IsSeq
<1>2. \A i \in 1 .. n : s[i] \in R
  BY <1>1
<1> HIDE DEF R
<1>3. 1 \in Int /\ n \in Int
  BY <1>1
<1>4. /\ SubSeq(s, 1, n) \in Seq(R)
      /\ Len(SubSeq(s, 1, n)) = IF 1 <= n THEN n - 1 + 1 ELSE 0
      /\ \A i \in 1 .. n - 1 + 1 : SubSeq(s, 1, n)[i] = s[1 + i - 1]
  BY <1>2, <1>3, SubSeqProperties
<1>5. IsSeq(SubSeq(s, 1, n))
  BY <1>4, SeqElements
<1> QED
  BY <1>1, <1>4, <1>5

LEMMA SeqFront ==
  ASSUME NEW s, IsSeq(s), Len(s) > 0
  PROVE  /\ IsSeq(Front(s)) /\ Len(Front(s)) = Len(s) - 1
         /\ Len(s) \in Nat
         /\ \A i \in 1 .. Len(s) - 1 : Front(s)[i] = s[i]
<1>1. Len(s) \in Nat /\ Len(s) - 1 \in 0 .. Len(s)
  BY DEF IsSeq
<1> DEFINE n == Len(s) - 1
<1>2. Front(s) = SubSeq(s, 1, n)
  BY DEF Front
<1> HIDE DEF n
<1>3. n \in 0 .. Len(s)
  BY <1>1 DEF n
<1>4. /\ IsSeq(Front(s)) /\ Len(Front(s)) = n
      /\ \A i \in 1 .. n : Front(s)[i] = s[i]
  BY <1>2, <1>3, SeqCut
<1> QED
  BY <1>1, <1>4 DEF n

LEMMA SeqSet ==
  ASSUME NEW s, IsSeq(s), Len(s) > 0, NEW e
  PROVE  LET z == [s EXCEPT ![Len(s)] = e]
         IN /\ IsSeq(z) /\ Len(z) = Len(s) /\ Len(s) \in Nat
            /\ \A i \in 1 .. Len(s) - 1 : z[i] = s[i]
            /\ z[Len(s)] = e
<1> DEFINE R == {s[i] : i \in 1 .. Len(s)} \cup {e}
           z == [s EXCEPT ![Len(s)] = e]
<1>1. s \in [1 .. Len(s) -> R] /\ Len(s) \in Nat /\ e \in R
  BY DEF IsSeq
<1>2. s \in Seq(R) /\ Len(s) \in 1 .. Len(s)
  BY <1>1
<1> HIDE DEF R
<1>3. /\ z \in Seq(R) /\ Len(z) = Len(s)
      /\ \A j \in 1 .. Len(s) : z[j] = IF j = Len(s) THEN e ELSE s[j]
  BY <1>1, <1>2, ExceptSeq
<1> HIDE DEF z
<1>4. IsSeq(z)
  BY <1>3, SeqElements
<1>5. \A i \in 1 .. Len(s) - 1 : z[i] = s[i]
  BY <1>1, <1>3
<1>6. z[Len(s)] = e
  BY <1>2, <1>3
<1> QED
  BY <1>1, <1>3, <1>4, <1>5, <1>6 DEF z

-----------------------------------------------------------------------------
(* Steps that keep the calls in progress                                   *)

SameSettings(M, L) ==
  /\ M.status = L.status /\ M.nCcalls = L.nCcalls /\ M.baseCcalls = L.baseCcalls
  /\ M.errfunc = L.errfunc /\ M.allowhook = L.allowhook /\ M.kept = L.kept

(* M differs from L in its stack, its upvalues and its array size only.    *)
Alike(M, L) ==
  /\ Len(M.ci) = Len(L.ci)
  /\ \A i \in 1 .. Len(L.ci) : M.ci[i].lua = L.ci[i].lua
  /\ SameSettings(M, L)

LEMMA StateFacts ==
  ASSUME NEW L, StateOK(L)
  PROVE  /\ Len(L.ci) \in Nat /\ Len(L.ci) >= 1 /\ IsSeq(L.ci)
         /\ DOMAIN L = Fields /\ Frame(L) = L.ci[Len(L.ci)]
         /\ "lua" \in DOMAIN Frame(L) /\ Frame(L).lua \in BOOLEAN
<1>1. IsSeq(L.ci) /\ Len(L.ci) >= 1 /\ DOMAIN L = Fields
  BY DEF StateOK
<1>2. Len(L.ci) \in Nat
  BY <1>1 DEF IsSeq
<1>3. Frame(L) = L.ci[Len(L.ci)] /\ Len(L.ci) \in 1 .. Len(L.ci)
  BY <1>1, <1>2 DEF Frame, Last
<1>4. "lua" \in DOMAIN Frame(L) /\ Frame(L).lua \in BOOLEAN
  BY <1>3 DEF StateOK
<1> QED
  BY <1>1, <1>2, <1>3, <1>4

LEMMA RunningThread ==
  ASSUME NEW C, ChainOK(C)
  PROVE  /\ Len(C) \in Nat /\ Running(C) \subseteq Thread /\ Cur(C) \in Running(C)
         /\ Main \in Thread /\ \A i \in 1 .. Len(C) : C[i].t \in Running(C)
         /\ C # <<>> => Len(C) >= 1
         /\ C = <<>> => Len(C) = 0
<1>1. Len(C) \in Nat /\ (C # <<>> => Len(C) >= 1) /\ (C = <<>> => Len(C) = 0)
  BY DEF ChainOK, IsSeq
<1> QED
  BY <1>1 DEF ChainOK, ActsOK, ActOK, Running, Cur, Thread

(* What the invariant says of the numbers in it.                           *)
LEMMA Numbers ==
  ASSUME NEW T, NEW C, NEW p, NEW lev, Good(T, C, p, lev)
  PROVE  /\ ChainOK(C) /\ \A u \in Thread : Len(T[u].ci) \in Nat
         /\ \A i \in 1 .. Len(C) :
              /\ C[i].t \in Thread /\ C[i].nexec \in Nat
              /\ lev[i] \in Nat /\ 1 <= lev[i] /\ lev[i] <= Len(T[C[i].t].ci)
              /\ Upper(T, C, lev, i) \in Nat
              /\ Upper(T, C, lev, i) <= Len(T[C[i].t].ci)
<1>1. ChainOK(C) /\ FramesOK(T, C, lev) /\ \A u \in Thread : StateOK(T[u])
  BY DEF Good
<1>2. \A u \in Thread : Len(T[u].ci) \in Nat
  BY <1>1 DEF StateOK, IsSeq
<1>3. Len(C) \in Nat /\ \A i \in 1 .. Len(C) : C[i].t \in Thread /\ C[i].nexec \in Nat
  BY <1>1, RunningThread DEF ChainOK, ActsOK, ActOK
<1>4. \A i \in 1 .. Len(C) : lev[i] \in Nat /\ 1 <= lev[i] /\ lev[i] <= Len(T[C[i].t].ci)
  BY <1>1, <1>3 DEF FramesOK
<1>5. ASSUME NEW i \in 1 .. Len(C)
      PROVE  Upper(T, C, lev, i) \in Nat /\ Upper(T, C, lev, i) <= Len(T[C[i].t].ci)
  <2>1. CASE i < Len(C) /\ C[i + 1].t = C[i].t
    <3>1. i + 1 \in 1 .. Len(C)
      BY <1>3, <2>1
    <3> QED
      BY <1>4, <2>1, <3>1 DEF Upper
  <2>2. CASE ~(i < Len(C) /\ C[i + 1].t = C[i].t)
    BY <1>2, <1>3, <2>2 DEF Upper
  <2> QED
    BY <2>1, <2>2
<1> QED
  BY <1>1, <1>2, <1>3, <1>4, <1>5

(* The frames of an activation only depend on what is below its upper end. *)
LEMMA BlockSame ==
  ASSUME NEW L, NEW M, NEW e, e.nexec \in Nat, NEW from \in Nat, NEW to \in Nat,
         1 <= from, \A i \in 1 .. to : M.ci[i].lua = L.ci[i].lua,
         BlockOK(L, e, from, to), NEW e2, e2.k = e.k, e2.nexec = e.nexec
  PROVE  BlockOK(M, e2, from, to)
<1>1. /\ from + e.nexec <= to /\ to <= from + e.nexec + 1
      /\ e.k = "hook" => to = from
  BY DEF BlockOK
<1>2. ASSUME NEW f \in from + 1 .. from + e.nexec
      PROVE  M.ci[f].lua
  <2>1. f \in 1 .. to
    BY <1>1
  <2>2. L.ci[f].lua
    BY DEF BlockOK
  <2> QED
    BY <2>1, <2>2
<1>3. ASSUME to = from + e.nexec + 1
      PROVE  ~M.ci[to].lua
  <2>1. to \in 1 .. to
    BY <1>3
  <2>2. ~L.ci[to].lua
    BY <1>3 DEF BlockOK
  <2> QED
    BY <2>1, <2>2
<1> QED
  BY <1>1, <1>2, <1>3 DEF BlockOK

LEMMA SuspendedAlike ==
  ASSUME NEW L, NEW M, Alike(M, L), Len(L.ci) \in Nat, Suspended(L)
  PROVE  Suspended(M)
<1>1. /\ Len(M.ci) = Len(L.ci)
      /\ \A i \in 1 .. Len(L.ci) : M.ci[i].lua = L.ci[i].lua
  BY DEF Alike
<1>2. Len(L.ci) \in 1 .. Len(L.ci) /\ ~M.ci[Len(L.ci)].lua
  BY <1>1 DEF Suspended
<1>3. \A i \in 2 .. Len(L.ci) - 1 : M.ci[i].lua
  BY <1>1 DEF Suspended
<1> QED
  BY <1>1, <1>2, <1>3 DEF Suspended

(* Only stacks change, or an error is raised.                              *)
LEMMA QuietGood ==
  ASSUME NEW T, NEW C, NEW p, NEW lev, Good(T, C, p, lev),
         NEW T2, DOMAIN T2 = Thread,
         \A u \in Thread : StateOK(T2[u]) /\ Alike(T2[u], T[u]),
         NEW q \in Errors \cup {"none", "enter"}, q = p \/ (q \in Errors /\ C # <<>>),
         \A u \in Thread : T2[u].size_ci > LUAI_MAXCALLS =>
           T2[u].size_ci = T[u].size_ci \/ (q \in Errors /\ Cur(C) = u)
  PROVE  Good(T2, C, q, lev)
<1>1. ChainOK(C)
  BY DEF Good
<1>2. /\ Len(C) \in Nat /\ Running(C) \subseteq Thread /\ Main \in Thread
      /\ \A i \in 1 .. Len(C) : C[i].t \in Thread
  BY <1>1, RunningThread
<1>3. CountsOK(T2, C)
  BY <1>2 DEF CountsOK, SameSettings, Alike, Good
<1>4. StatusOK(T2, C)
  <2>1. \A u \in Thread : Len(T[u].ci) \in Nat
    BY Numbers
  <2>2. ASSUME NEW u \in Thread, Suspended(T[u])
        PROVE  Suspended(T2[u])
    BY <2>1, <2>2, SuspendedAlike
  <2> QED
    BY <1>2, <2>2 DEF StatusOK, SameSettings, Alike, Good
<1>5. SettingsOK(T2, C)
  BY DEF SettingsOK, SameSettings, Alike, Good
<1>6. OverflowOK(T2, C, q)
  BY DEF OverflowOK, SameSettings, Alike, Good
<1>7. \A i \in 1 .. Len(C) : Upper(T2, C, lev, i) = Upper(T, C, lev, i)
  BY <1>2 DEF Upper, Alike
<1>8. FramesOK(T2, C, lev)
  <2>1. ASSUME NEW i \in 1 .. Len(C)
        PROVE  BlockOK(T2[C[i].t], C[i], lev[i], Upper(T2, C, lev, i))
    <3>1. /\ Alike(T2[C[i].t], T[C[i].t]) /\ C[i].nexec \in Nat
          /\ Len(T[C[i].t].ci) \in Nat /\ lev[i] \in Nat /\ 1 <= lev[i]
          /\ Upper(T, C, lev, i) \in Nat
          /\ Upper(T, C, lev, i) <= Len(T[C[i].t].ci)
      <4>1. C[i].t \in Thread
        BY <1>2
      <4> QED
        BY <4>1, Numbers
    <3>2. BlockOK(T[C[i].t], C[i], lev[i], Upper(T, C, lev, i))
      BY DEF FramesOK, Good
    <3>3. BlockOK(T2[C[i].t], C[i], lev[i], Upper(T, C, lev, i))
      <4>1. \A j \in 1 .. Upper(T, C, lev, i) : T2[C[i].t].ci[j].lua = T[C[i].t].ci[j].lua
        BY <3>1 DEF Alike
      <4> QED
        BY <3>1, <3>2, <4>1, BlockSame
    <3> QED
      BY <3>3, <1>7
  <2> QED
    BY <1>2, <2>1 DEF FramesOK, Alike, Good
<1>9. BusyOK(T2, C, q, lev)
  BY <1>7 DEF BusyOK, Errors, Good
<1> QED
  BY <1>1, <1>3, <1>4, <1>5, <1>6, <1>8, <1>9 DEF Good

-----------------------------------------------------------------------------
(* The C stack                                                             *)

(* D has the activations of C; their nexec may differ.                     *)
SameActs(D, C) ==
  /\ IsSeq(D) /\ Len(D) = Len(C)
  /\ \A i \in 1 .. Len(C) :
       /\ ActOK(D[i]) /\ D[i].k = C[i].k /\ D[i].t = C[i].t
       /\ D[i].ci = C[i].ci
       /\ C[i].k = "pcall" =>
            /\ D[i].nCcalls = C[i].nCcalls
            /\ D[i].errfunc = C[i].errfunc /\ D[i].allowhook = C[i].allowhook
       /\ C[i].k = "resume" => D[i].from = C[i].from

(* D has the lowest m activations of C.                                    *)
Mirrors(D, C, m) ==
  /\ IsSeq(D) /\ Len(D) = m
  /\ \A i \in 1 .. m : /\ ActOK(D[i]) /\ D[i].k = C[i].k /\ D[i].t = C[i].t
                       /\ C[i].k = "resume" => D[i].from = C[i].from

SeenThrough(D, C, m) ==
  /\ ChainOK(D)
  /\ \A t, j : j \in 0 .. m => CallsTo(D, t, j) = CallsTo(C, t, j)
  /\ \A t, k, j : j \in 0 .. m => (Has(D, j, t, k) <=> Has(C, j, t, k))

LEMMA ChainPrefix ==
  ASSUME NEW C, ChainOK(C), NEW m \in 0 .. Len(C), NEW D, Mirrors(D, C, m)
  PROVE  SeenThrough(D, C, m)
<1>0. /\ IsSeq(D) /\ Len(D) = m
      /\ \A i \in 1 .. m : /\ ActOK(D[i]) /\ D[i].k = C[i].k /\ D[i].t = C[i].t
                           /\ C[i].k = "resume" => D[i].from = C[i].from
  BY DEF Mirrors
<1> USE <1>0
<1>1. Len(C) \in Nat /\ \A i \in 1 .. m : i \in 1 .. Len(C)
  BY RunningThread
<1>2. ActsOK(D)
  BY DEF ActsOK
<1>3. HostOK(D)
  BY <1>1 DEF ChainOK, HostOK
<1>4. RunsOK(D)
  <2> SUFFICES ASSUME NEW i \in 1 .. m, NEW j \in 1 .. m
               PROVE  /\ (i <= j /\ \A n \in i + 1 .. j : D[n].k # "resume") => D[i].t = D[j].t
                      /\ D[i].t = D[j].t => \A n \in i .. j : D[n].t = D[i].t
    BY DEF RunsOK
  <2>1. \A n \in i .. j : n \in 1 .. m
    BY <1>1
  <2>2. /\ (i <= j /\ \A n \in i + 1 .. j : C[n].k # "resume") => C[i].t = C[j].t
        /\ C[i].t = C[j].t => \A n \in i .. j : C[n].t = C[i].t
    BY <1>1 DEF ChainOK, RunsOK
  <2>3. \A n \in i + 1 .. j : n \in i .. j
    BY <1>1
  <2> QED
    BY <2>1, <2>2, <2>3
<1>5. ResumesOK(D)
  <2> SUFFICES ASSUME NEW j \in 1 .. m, D[j].k = "resume"
               PROVE  /\ j > 1 /\ D[j].t \in Coroutine /\ D[j].from = D[j - 1].t
                      /\ \A i \in 1 .. j - 1 : D[i].t # D[j].t
    BY DEF ResumesOK
  <2>1. /\ j > 1 /\ C[j].t \in Coroutine /\ C[j].from = C[j - 1].t
        /\ \A i \in 1 .. j - 1 : C[i].t # C[j].t
    BY <1>1 DEF ChainOK, ResumesOK
  <2>2. j - 1 \in 1 .. m /\ \A i \in 1 .. j - 1 : i \in 1 .. m
    BY <1>1, <2>1
  <2> QED
    BY <1>1, <2>1, <2>2
<1>6. CaughtOK(D)
  <2> SUFFICES ASSUME NEW n \in 1 .. m
               PROVE  \E d \in 1 .. n : Catches(D, d, n)
    BY DEF CaughtOK
  <2>1. PICK d \in 1 .. n : Catches(C, d, n)
    BY <1>1 DEF ChainOK, CaughtOK
  <2>2. d \in 1 .. m /\ \A j \in d + 1 .. n : j \in 1 .. m
    BY <1>1
  <2>3. Catches(D, d, n)
    BY <2>1, <2>2 DEF Catches
  <2> QED
    BY <2>3
<1>7. HooksOK(D)
  <2> SUFFICES ASSUME NEW i \in 1 .. m - 1, D[i].k = "hook"
               PROVE  D[i + 1].k \in Calling
    BY DEF HooksOK
  <2>1. i \in 1 .. m /\ i + 1 \in 1 .. m /\ i \in 1 .. Len(C) - 1
    BY <1>1
  <2> QED
    BY <2>1 DEF ChainOK, HooksOK
<1>8. ChainOK(D)
  <2>1. ASSUME NEW i \in 1 .. m, NEW k \in i .. m, D[i].t # D[k].t
        PROVE  \E j \in i .. k - 1 : HandsOver(D, i, j)
    <3>1. i \in 1 .. Len(C) /\ k \in i .. Len(C) /\ k \in 1 .. m
      BY <1>1
    <3>2. PICK j \in i .. k - 1 : HandsOver(C, i, j)
      BY <2>1, <3>1 DEF ChainOK, HandoverOK
    <3>3. j \in 1 .. m /\ j + 1 \in 1 .. m
      BY <1>1, <3>1
    <3>4. HandsOver(D, i, j)
      BY <3>2, <3>3 DEF HandsOver
    <3> QED
      BY <3>4
  <2>2. HandoverOK(D)
    BY <2>1 DEF HandoverOK
  <2> QED
    BY <1>2, <1>3, <1>4, <1>5, <1>6, <1>7, <2>2 DEF ChainOK
<1>9. ASSUME NEW t, NEW j \in 0 .. m
      PROVE  CallsTo(D, t, j) = CallsTo(C, t, j)
  <2>1. \A i \in 1 .. j : i \in 1 .. m
    BY <1>1
  <2> QED
    BY <2>1 DEF CallsTo
<1>10. ASSUME NEW t, NEW k, NEW j \in 0 .. m
       PROVE  Has(D, j, t, k) <=> Has(C, j, t, k)
  <2>1. \A i \in 1 .. j : i \in 1 .. m
    BY <1>1
  <2> QED
    BY <2>1 DEF Has
<1> QED
  BY <1>8, <1>9, <1>10 DEF SeenThrough

(* The activations below a new one, and the new one.                       *)
LEMMA ChainPush ==
  ASSUME NEW C, ChainOK(C), NEW e, ActOK(e),
         IF e.k = "resume"
         THEN /\ C # <<>> /\ e.t \in Coroutine \ Running(C)
              /\ e.from = C[Len(C)].t /\ C[Len(C)].k # "hook"
         ELSE /\ e.t = Cur(C) /\ (C = <<>> => e.k = "pcall")
              /\ C # <<>> /\ C[Len(C)].k = "hook" => e.k \in Calling
  PROVE  ChainOK(Append(C, e))
<1> DEFINE n == Len(C)
           D == Append(C, e)
<1>1. /\ IsSeq(C) /\ n \in Nat /\ (C # <<>> => n >= 1) /\ (C = <<>> => n = 0)
      /\ \A i \in 1 .. n : C[i].t \in Running(C)
  BY RunningThread DEF ChainOK
<1>2. /\ IsSeq(D) /\ Len(D) = n + 1 /\ D # <<>> /\ D[n + 1] = e
      /\ \A i \in 1 .. n : D[i] = C[i]
  BY <1>1, SeqAppend
<1>3. Cur(C) = IF n = 0 THEN Main ELSE C[n].t
  BY <1>1 DEF Cur
<1> HIDE DEF n, D
<1> USE <1>1
<1>4. ActsOK(D)
  BY <1>2 DEF ChainOK, ActsOK, n
<1>5. HostOK(D)
  <2>1. CASE C = <<>>
    BY <1>2, <1>3, <2>1 DEF HostOK
  <2>2. CASE C # <<>>
    BY <1>2, <2>2 DEF ChainOK, HostOK, n
  <2> QED
    BY <2>1, <2>2
<1>6. RunsOK(D)
  <2> SUFFICES ASSUME NEW i \in 1 .. n + 1, NEW j \in 1 .. n + 1
               PROVE  /\ (i <= j /\ \A m \in i + 1 .. j : D[m].k # "resume") => D[i].t = D[j].t
                      /\ D[i].t = D[j].t => \A m \in i .. j : D[m].t = D[i].t
    BY <1>2 DEF RunsOK
  <2>1. CASE i > j
    BY <2>1
  <2>2. CASE i = j
    BY <2>2
  <2>3. CASE i < j /\ j \in 1 .. n
    <3>1. /\ (\A m \in i + 1 .. j : C[m].k # "resume") => C[i].t = C[j].t
          /\ C[i].t = C[j].t => \A m \in i .. j : C[m].t = C[i].t
      BY <2>3 DEF ChainOK, RunsOK, n
    <3>2. \A m \in i .. j : D[m] = C[m]
      BY <1>2, <2>3
    <3>3. \A m \in i + 1 .. j : m \in i .. j
      BY <2>3
    <3>4. D[i] = C[i] /\ D[j] = C[j]
      BY <2>3, <3>2
    <3> QED
      BY <2>3, <3>1, <3>2, <3>3, <3>4
  <2>4. CASE i < j /\ j = n + 1 /\ e.k # "resume"
    <3>1. e.t = C[n].t /\ n \in 1 .. n /\ i \in 1 .. n
      BY <1>3, <2>4
    <3>2. /\ (\A m \in i + 1 .. n : C[m].k # "resume") => C[i].t = C[n].t
          /\ C[i].t = C[n].t => \A m \in i .. n : C[m].t = C[i].t
      BY <3>1 DEF ChainOK, RunsOK, n
    <3>3. \A m \in i .. n + 1 : m \in i .. n \/ m = n + 1
      BY <3>1
    <3>4. \A m \in i .. n : D[m] = C[m]
      BY <1>2, <3>1
    <3>5. \A m \in i + 1 .. n : m \in i .. n /\ m \in i + 1 .. n + 1
      BY <3>1
    <3>6. D[i] = C[i] /\ D[j] = e
      BY <1>2, <2>4, <3>1
    <3>7. (\A m \in i + 1 .. j : D[m].k # "resume") => D[i].t = D[j].t
      BY <2>4, <3>1, <3>2, <3>4, <3>5, <3>6
    <3>8. D[i].t = D[j].t => \A m \in i .. j : D[m].t = D[i].t
      BY <2>4, <3>1, <3>2, <3>3, <3>4, <3>6
    <3> QED
      BY <3>7, <3>8
  <2>5. CASE i < j /\ j = n + 1 /\ e.k = "resume"
    <3>1. C[i].t # e.t /\ D[i] = C[i] /\ D[j] = e
      BY <1>2, <2>5 DEF n
    <3>2. j \in i + 1 .. j
      BY <2>5
    <3> QED
      BY <2>5, <3>1, <3>2
  <2> QED
    BY <2>1, <2>2, <2>3, <2>4, <2>5
<1>7. ResumesOK(D)
  <2> SUFFICES ASSUME NEW j \in 1 .. n + 1, D[j].k = "resume"
               PROVE  /\ j > 1 /\ D[j].t \in Coroutine /\ D[j].from = D[j - 1].t
                      /\ \A i \in 1 .. j - 1 : D[i].t # D[j].t
    BY <1>2 DEF ResumesOK
  <2>1. CASE j \in 1 .. n
    <3>1. D[j] = C[j]
      BY <1>2, <2>1
    <3>2. /\ j > 1 /\ C[j].t \in Coroutine /\ C[j].from = C[j - 1].t
          /\ \A i \in 1 .. j - 1 : C[i].t # C[j].t
      BY <2>1, <3>1 DEF ChainOK, ResumesOK, n
    <3>3. D[j - 1] = C[j - 1] /\ \A i \in 1 .. j - 1 : D[i] = C[i]
      BY <1>2, <2>1, <3>2
    <3> QED
      BY <3>1, <3>2, <3>3
  <2>2. CASE j = n + 1
    <3>1. D[j] = e /\ e.k = "resume" /\ n >= 1
      BY <1>2, <2>2
    <3>2. \A i \in 1 .. n : D[i].t # e.t
      BY <1>2, <3>1
    <3>3. D[n] = C[n] /\ j - 1 = n
      BY <1>2, <2>2, <3>1
    <3> QED
      BY <2>2, <3>1, <3>2, <3>3 DEF n
  <2> QED
    BY <2>1, <2>2
<1>8. CaughtOK(D)
  <2> SUFFICES ASSUME NEW m \in 1 .. n + 1
               PROVE  \E d \in 1 .. m : Catches(D, d, m)
    BY <1>2 DEF CaughtOK
  <2>1. CASE m \in 1 .. n
    <3>1. PICK d \in 1 .. m : Catches(C, d, m)
      BY <2>1 DEF ChainOK, CaughtOK, n
    <3>2. Catches(D, d, m)
      BY <1>2, <2>1, <3>1 DEF Catches
    <3> QED
      BY <3>2
  <2>2. CASE m = n + 1 /\ e.k \in {"pcall", "resume"}
    <3>1. Catches(D, m, m) /\ m \in 1 .. m
      BY <1>2, <2>2 DEF Catches
    <3> QED
      BY <3>1
  <2>3. CASE m = n + 1 /\ e.k \notin {"pcall", "resume"}
    <3>1. n \in 1 .. n
      BY <2>3
    <3>2. PICK d \in 1 .. n : Catches(C, d, n)
      BY <3>1 DEF ChainOK, CaughtOK, n
    <3>3. D[d] = C[d] /\ \A j \in d + 1 .. m : j = n + 1 \/ (j \in d + 1 .. n /\ D[j] = C[j])
      BY <1>2, <2>3
    <3>4. Catches(D, d, m) /\ d \in 1 .. m
      BY <1>2, <2>3, <3>2, <3>3 DEF Catches
    <3> QED
      BY <3>4
  <2> QED
    BY <2>1, <2>2, <2>3
<1>9. HooksOK(D)
  <2> SUFFICES ASSUME NEW i \in 1 .. n, D[i].k = "hook"
               PROVE  D[i + 1].k \in Calling
    BY <1>2 DEF HooksOK
  <2>1. D[i] = C[i]
    BY <1>2
  <2>2. CASE i \in 1 .. n - 1
    <3>1. D[i + 1] = C[i + 1]
      BY <1>2, <2>2
    <3> QED
      BY <2>1, <2>2, <3>1 DEF ChainOK, HooksOK, n
  <2>3. CASE i = n
    BY <1>2, <2>1, <2>3 DEF n
  <2> QED
    BY <2>2, <2>3
<1>10. HandoverOK(D)
  <2> SUFFICES ASSUME NEW i \in 1 .. n + 1, NEW k \in i .. n + 1, D[i].t # D[k].t
               PROVE  \E j \in i .. k - 1 : HandsOver(D, i, j)
    BY <1>2 DEF HandoverOK
  <2>1. ASSUME NEW m \in i .. n, C[i].t # C[m].t
        PROVE  \E j \in i .. m - 1 : HandsOver(D, i, j)
    <3>1. i \in 1 .. n
      OBVIOUS
    <3>2. PICK j \in i .. m - 1 : HandsOver(C, i, j)
      BY <2>1, <3>1 DEF ChainOK, HandoverOK, n
    <3>3. j \in 1 .. n /\ j + 1 \in 1 .. n
      BY <3>1
    <3>4. HandsOver(D, i, j)
      BY <1>2, <3>1, <3>2, <3>3 DEF HandsOver
    <3> QED
      BY <3>4
  <2>2. CASE k \in i .. n
    <3>1. D[i] = C[i] /\ D[k] = C[k]
      BY <1>2, <2>2
    <3> QED
      BY <2>1, <2>2, <3>1
  <2>3. CASE k = n + 1
    <3>1. i \in 1 .. n /\ n \in i .. n /\ k - 1 = n
      BY <2>3
    <3>2. D[i] = C[i] /\ D[n] = C[n] /\ D[k] = e
      BY <1>2, <2>3, <3>1
    <3>3. CASE C[i].t # C[n].t
      <4>1. PICK j \in i .. n - 1 : HandsOver(D, i, j)
        BY <2>1, <3>1, <3>3
      <4>2. j \in i .. k - 1
        BY <3>1
      <4> QED
        BY <4>1, <4>2
    <3>4. CASE C[i].t = C[n].t
      <4>1. e.k = "resume"
        BY <1>3, <3>1, <3>2, <3>4
      <4>2. HandsOver(D, i, n)
        BY <1>2, <3>2, <3>4, <4>1 DEF HandsOver
      <4> QED
        BY <3>1, <4>2
    <3> QED
      BY <3>3, <3>4
  <2> QED
    BY <2>2, <2>3
<1> QED
  BY <1>2, <1>4, <1>5, <1>6, <1>7, <1>8, <1>9, <1>10 DEF ChainOK, D

LEMMA SameActsFacts ==
  ASSUME NEW C, ChainOK(C), NEW D, SameActs(D, C)
  PROVE  /\ ChainOK(D) /\ Running(D) = Running(C) /\ Cur(D) = Cur(C)
         /\ D = <<>> <=> C = <<>>
         /\ \A t, j : j \in 0 .. Len(C) => CallsTo(D, t, j) = CallsTo(C, t, j)
         /\ \A t, k, j : j \in 0 .. Len(C) => (Has(D, j, t, k) <=> Has(C, j, t, k))
<1>1. Len(C) \in Nat /\ IsSeq(D) /\ IsSeq(C) /\ Len(D) = Len(C) /\ Len(C) \in 0 .. Len(C)
  BY RunningThread DEF SameActs, ChainOK
<1>2. \A i \in 1 .. Len(C) : /\ ActOK(D[i]) /\ D[i].k = C[i].k /\ D[i].t = C[i].t
                             /\ C[i].k = "resume" => D[i].from = C[i].from
  BY DEF SameActs
<1>3. /\ ChainOK(D)
      /\ \A t, j : j \in 0 .. Len(C) => CallsTo(D, t, j) = CallsTo(C, t, j)
      /\ \A t, k, j : j \in 0 .. Len(C) => (Has(D, j, t, k) <=> Has(C, j, t, k))
  <2>1. Mirrors(D, C, Len(C))
    BY <1>1, <1>2 DEF Mirrors
  <2>2. SeenThrough(D, C, Len(C))
    BY <1>1, <2>1, ChainPrefix
  <2> QED
    BY <2>2 DEF SeenThrough
<1>4. D = <<>> <=> C = <<>>
  BY <1>1, <1>3, RunningThread
<1>5. Running(D) = Running(C)
  BY <1>1, <1>2 DEF Running
<1>6. Cur(D) = Cur(C)
  <2>1. CASE C = <<>>
    BY <1>4, <2>1 DEF Cur
  <2>2. CASE C # <<>>
    <3>1. Len(C) \in 1 .. Len(C)
      BY <1>1, <2>2, RunningThread
    <3> QED
      BY <1>1, <1>2, <1>4, <2>2, <3>1 DEF Cur
  <2> QED
    BY <2>1, <2>2
<1> QED
  BY <1>3, <1>4, <1>5, <1>6

(* An activation below the top one, of the same thread, is followed by one *)
(* of that thread.                                                         *)
LEMMA Adjacent ==
  ASSUME NEW C, ChainOK(C), NEW i \in 1 .. Len(C), i < Len(C), C[i].t = C[Len(C)].t
  PROVE  C[i + 1].t = C[i].t
<1>1. Len(C) \in Nat
  BY RunningThread
<1>2. Len(C) \in 1 .. Len(C) /\ i + 1 \in i .. Len(C)
  BY <1>1
<1> QED
  BY <1>2 DEF ChainOK, RunsOK

LEMMA ExecutingActs ==
  ASSUME NEW C, ChainOK(C), C # <<>>, NEW d \in Int, C[Len(C)].nexec + d \in Nat
  PROVE  /\ SameActs(Executing(C, d), C)
         /\ \A i \in 1 .. Len(C) - 1 : Executing(C, d)[i] = C[i]
         /\ Executing(C, d)[Len(C)].nexec = C[Len(C)].nexec + d
<1> DEFINE n == Len(C)
           e == [C[n] EXCEPT !.nexec = C[n].nexec + d]
           D == [C EXCEPT ![n] = e]
<1>1. n \in Nat /\ n >= 1 /\ IsSeq(C) /\ n \in 1 .. n
  BY RunningThread DEF ChainOK
<1>2. Executing(C, d) = D
  BY DEF Executing
<1>3. /\ IsSeq(D) /\ Len(D) = n /\ D[n] = e
      /\ \A i \in 1 .. n - 1 : D[i] = C[i]
  BY <1>1, SeqSet
<1>4. ActOK(C[n])
  BY <1>1 DEF ChainOK, ActsOK
<1>5. /\ ActOK(e) /\ e.k = C[n].k /\ e.t = C[n].t /\ e.nexec = C[n].nexec + d
      /\ e.ci = C[n].ci
      /\ C[n].k = "pcall" =>
           /\ e.nCcalls = C[n].nCcalls
           /\ e.errfunc = C[n].errfunc /\ e.allowhook = C[n].allowhook
      /\ C[n].k = "resume" => e.from = C[n].from
  BY <1>4 DEF ActOK
<1>6. \A i \in 1 .. n - 1 : ActOK(D[i])
  BY <1>1, <1>3 DEF ChainOK, ActsOK
<1> HIDE DEF n, e, D
<1>7. SameActs(D, C)
  BY <1>1, <1>3, <1>5, <1>6 DEF SameActs, n
<1> QED
  BY <1>2, <1>3, <1>5, <1>7 DEF n

-----------------------------------------------------------------------------
(* Steps of calls                                                          *)

(* T2 has the threads of T, but for t.                                     *)
Only(T2, T, t) == DOMAIN T2 = Thread /\ \A u \in Thread \ {t} : T2[u] = T[u]

(* The functions that the top activation n, of thread t, runs change: it   *)
(* calls one, or one returns.                                              *)
TopStep(T, C, lev, T2, D, q, n, t) ==
  /\ n = Len(C) /\ t = C[n].t /\ C # <<>>
  /\ Only(T2, T, t)
  /\ StateOK(T2[t]) /\ SameSettings(T2[t], T[t])
  /\ T2[t].size_ci > LUAI_MAXCALLS => T2[t].size_ci = T[t].size_ci
  /\ SameActs(D, C) /\ \A i \in 1 .. n - 1 : D[i] = C[i]
  /\ \A i \in 1 .. lev[n] : T2[t].ci[i].lua = T[t].ci[i].lua
  /\ lev[n] <= Len(T2[t].ci) /\ BlockOK(T2[t], D[n], lev[n], Len(T2[t].ci))
  /\ (q = "none" /\ C[n].k # "hook") =>
       lev[n] < Len(T2[t].ci) /\ (C[n].k = "resume" => D[n].nexec >= 1)

LEMMA TopGood ==
  ASSUME NEW T, NEW C, NEW p \in {"none", "enter"}, NEW lev, Good(T, C, p, lev),
         NEW T2, NEW D, NEW q \in {"none", "enter"}, NEW n, NEW t,
         TopStep(T, C, lev, T2, D, q, n, t)
  PROVE  Good(T2, D, q, lev)
<1>0. /\ n = Len(C) /\ t = C[n].t /\ C # <<>> /\ SameActs(D, C)
  BY DEF TopStep
<1>1. ChainOK(C) /\ CountsOK(T, C) /\ StatusOK(T, C) /\ SettingsOK(T, C)
  BY DEF Good
<1>2. /\ n \in Nat /\ n >= 1 /\ n \in 1 .. n /\ Len(D) = n /\ t \in Running(C)
      /\ Running(C) \subseteq Thread /\ Main \in Thread
      /\ \A i \in 1 .. n : C[i].t \in Running(C) /\ D[i].t = C[i].t /\ D[i].k = C[i].k
  BY <1>0, <1>1, RunningThread DEF SameActs
<1>3. /\ ChainOK(D) /\ Running(D) = Running(C) /\ Cur(D) = Cur(C)
      /\ D # <<>>
      /\ \A u, j : j \in 0 .. n => CallsTo(D, u, j) = CallsTo(C, u, j)
      /\ \A u, k, j : j \in 0 .. n => (Has(D, j, u, k) <=> Has(C, j, u, k))
  BY <1>0, <1>1, SameActsFacts
<1>4. \A u \in Thread : StateOK(T2[u]) /\ SameSettings(T2[u], T[u])
  <2>1. \A u \in Thread \ {t} : T2[u] = T[u] /\ StateOK(T[u])
    BY DEF Good, TopStep, Only
  <2>2. StateOK(T2[t]) /\ SameSettings(T2[t], T[t])
    BY DEF TopStep
  <2> QED
    BY <2>1, <2>2 DEF SameSettings
<1>5. CountsOK(T2, D)
  <2>1. ASSUME NEW u \in Running(D)
        PROVE  T2[u].nCcalls = T2[u].baseCcalls + Cardinality(CallsTo(D, u, n))
    <3>1. u \in Running(C) /\ u \in Thread /\ n \in 0 .. n
      BY <1>2, <1>3
    <3>2. T[u].nCcalls = T[u].baseCcalls + Cardinality(CallsTo(C, u, n))
      BY <1>0, <1>1, <3>1 DEF CountsOK
    <3> QED
      BY <1>3, <1>4, <3>1, <3>2 DEF SameSettings
  <2>2. ASSUME NEW i \in 1 .. n, D[i].k = "pcall"
        PROVE  D[i].nCcalls = T2[D[i].t].baseCcalls + Cardinality(CallsTo(D, D[i].t, i - 1))
    <3>1. /\ i - 1 \in 0 .. n /\ C[i].k = "pcall" /\ D[i].t = C[i].t /\ C[i].t \in Thread
          /\ D[i].nCcalls = C[i].nCcalls
      BY <1>0, <1>2, <2>2 DEF SameActs
    <3>2. C[i].nCcalls = T[C[i].t].baseCcalls + Cardinality(CallsTo(C, C[i].t, i - 1))
      BY <1>0, <1>1, <3>1 DEF CountsOK
    <3> QED
      BY <1>3, <1>4, <3>1, <3>2 DEF SameSettings
  <2> QED
    BY <1>2, <2>1, <2>2 DEF CountsOK
<1>6. StatusOK(T2, D)
  <2>1. \A u \in Running(D) : T2[u].status = "ok"
    BY <1>1, <1>2, <1>3, <1>4 DEF StatusOK, SameSettings
  <2>2. \A u \in Thread \ Running(D) : u \in Thread \ Running(C) /\ T2[u] = T[u]
    BY <1>2, <1>3 DEF TopStep, Only
  <2> QED
    BY <1>1, <2>1, <2>2 DEF StatusOK
<1>7. SettingsOK(T2, D)
  <2>1. \A u \in Thread : T2[u].status # "dead" =>
          /\ T2[u].errfunc # 0 => Has(D, n, u, "pcall")
          /\ ~T2[u].allowhook => Has(D, n, u, "hook")
    <3>1. n \in 0 .. n /\ \A u \in Thread : SameSettings(T2[u], T[u])
      BY <1>2, <1>4
    <3> QED
      BY <1>0, <1>1, <1>3, <3>1 DEF SettingsOK, SameSettings
  <2>2. ASSUME NEW i \in 1 .. n, D[i].k = "pcall"
        PROVE  /\ D[i].errfunc # 0 => Has(D, i - 1, D[i].t, "pcall")
               /\ ~D[i].allowhook => Has(D, i - 1, D[i].t, "hook")
    <3>1. /\ i - 1 \in 0 .. n /\ C[i].k = "pcall" /\ D[i].t = C[i].t
          /\ D[i].errfunc = C[i].errfunc /\ D[i].allowhook = C[i].allowhook
      BY <1>0, <1>2, <2>2 DEF SameActs
    <3> QED
      BY <1>0, <1>1, <1>3, <3>1 DEF SettingsOK
  <2> QED
    BY <1>2, <2>1, <2>2 DEF SettingsOK
<1>8. OverflowOK(T2, D, q)
  <2> SUFFICES ASSUME NEW u \in Thread, T2[u].status # "dead", ~T2[u].kept,
                      T2[u].size_ci > LUAI_MAXCALLS
               PROVE  Has(D, n, u, "handler")
    BY <1>2 DEF OverflowOK
  <2>1. /\ T[u].status # "dead" /\ ~T[u].kept /\ T[u].size_ci = T2[u].size_ci
    BY <1>4 DEF SameSettings, TopStep, Only
  <2>2. Has(C, n, u, "handler")
    BY <1>0, <2>1 DEF Good, OverflowOK, Errors
  <2> QED
    BY <1>2, <1>3, <2>2
<1>9. /\ Upper(T2, D, lev, n) = Len(T2[t].ci)
      /\ \A i \in 1 .. n - 1 :
           /\ Upper(T2, D, lev, i) = Upper(T, C, lev, i)
           /\ C[i].t = t => Upper(T, C, lev, i) = lev[i + 1]
  <2>1. Upper(T2, D, lev, n) = Len(T2[t].ci)
    BY <1>0, <1>2 DEF Upper
  <2>2. ASSUME NEW i \in 1 .. n - 1
        PROVE  /\ Upper(T2, D, lev, i) = Upper(T, C, lev, i)
               /\ C[i].t = t => Upper(T, C, lev, i) = lev[i + 1]
    <3>1. i \in 1 .. n /\ i + 1 \in 1 .. n /\ i < n
      BY <1>2
    <3>2. C[i].t = t => C[i + 1].t = C[i].t
      BY <1>0, <1>1, <3>1, Adjacent
    <3>3. /\ Upper(T2, D, lev, i) = IF C[i + 1].t = C[i].t THEN lev[i + 1] ELSE Len(T2[C[i].t].ci)
          /\ Upper(T, C, lev, i) = IF C[i + 1].t = C[i].t THEN lev[i + 1] ELSE Len(T[C[i].t].ci)
      BY <1>0, <1>2, <3>1 DEF Upper
    <3>4. C[i].t \in Thread /\ (C[i].t # t => T2[C[i].t] = T[C[i].t])
      BY <1>2, <3>1 DEF TopStep, Only
    <3> QED
      BY <3>2, <3>3, <3>4
  <2> QED
    BY <2>1, <2>2
<1>10. FramesOK(T2, D, lev)
  <2>1. ASSUME NEW i \in 1 .. n
        PROVE  BlockOK(T2[C[i].t], D[i], lev[i], Upper(T2, D, lev, i))
    <3>1. CASE i = n
      BY <1>0, <1>9, <3>1 DEF TopStep
    <3>2. CASE i # n
      <4>1. i \in 1 .. n - 1 /\ i + 1 \in 1 .. n
        BY <1>2, <3>2
      <4>2. BlockOK(T[C[i].t], C[i], lev[i], Upper(T, C, lev, i))
        BY <1>0 DEF Good, FramesOK
      <4>3. CASE C[i].t # t
        <5>1. T2[C[i].t] = T[C[i].t] /\ D[i] = C[i]
          BY <1>2, <4>1, <4>3 DEF TopStep, Only
        <5> QED
          BY <1>9, <4>1, <4>2, <5>1
      <4>4. CASE C[i].t = t
        <5>1. /\ lev[i] \in Nat /\ 1 <= lev[i] /\ C[i].nexec \in Nat
              /\ lev[i + 1] \in Nat /\ lev[n] \in Nat
          BY <1>0, <1>2, <4>1, Numbers
        <5>2. i < n
          BY <1>2, <4>1
        <5>3. C[i + 1].t = C[n].t /\ n \in i + 1 .. n
          BY <1>0, <1>1, <1>2, <4>1, <4>4, <5>2, Adjacent
        <5>4. lev[i + 1] <= lev[n]
          BY <1>0, <4>1, <5>3 DEF Good, FramesOK
        <5>5. \A j \in 1 .. lev[i + 1] : T2[t].ci[j].lua = T[t].ci[j].lua
          BY <5>1, <5>4 DEF TopStep
        <5>6. D[i] = C[i] /\ BlockOK(T[t], C[i], lev[i], lev[i + 1])
          BY <1>9, <4>1, <4>2, <4>4 DEF TopStep
        <5>7. BlockOK(T2[t], D[i], lev[i], lev[i + 1])
          BY <5>1, <5>5, <5>6, BlockSame
        <5> QED
          BY <1>9, <4>1, <4>4, <5>7
      <4> QED
        BY <4>3, <4>4
    <3> QED
      BY <3>1, <3>2
  <2>2. ASSUME NEW i \in 1 .. n
        PROVE  /\ 1 <= lev[i] /\ lev[i] <= Len(T2[C[i].t].ci)
               /\ (i = 1 \/ C[i].k = "resume") => lev[i] = 1
               /\ lev[i] = D[i].ci
               /\ \A j \in i .. n : D[i].t = D[j].t => lev[i] <= lev[j]
    <3>1. /\ 1 <= lev[i] /\ lev[i] <= Len(T[C[i].t].ci)
          /\ (i = 1 \/ C[i].k = "resume") => lev[i] = 1
          /\ lev[i] = C[i].ci
          /\ \A j \in i .. n : C[i].t = C[j].t => lev[i] <= lev[j]
      BY <1>0 DEF Good, FramesOK
    <3>2. lev[i] <= Len(T2[C[i].t].ci)
      <4>1. CASE C[i].t # t
        BY <1>2, <3>1, <4>1 DEF TopStep, Only
      <4>2. CASE C[i].t = t
        <5>1. /\ lev[i] \in Nat /\ lev[n] \in Nat /\ lev[i] <= lev[n]
          <6>1. C[i].t = C[n].t /\ n \in i .. n
            BY <1>0, <1>2, <4>2
          <6>2. lev[i] \in Nat /\ lev[n] \in Nat
            <7>1. lev \in [1 .. n -> Nat]
              BY <1>0 DEF Good, FramesOK
            <7>2. n \in 1 .. n
              BY <1>2
            <7> QED
              BY <7>1, <7>2
          <6>3. lev[i] <= lev[n]
            <7>1. \A j \in i .. n : C[i].t = C[j].t => lev[i] <= lev[j]
              BY <3>1, Zenon
            <7> QED
              BY <6>1, <7>1
          <6> QED
            BY <6>2, <6>3
        <5>2. Len(T2[t].ci) \in Nat /\ lev[n] <= Len(T2[t].ci)
          <6>1. StateOK(T2[t]) /\ lev[n] <= Len(T2[t].ci)
            BY DEF TopStep
          <6> QED
            BY <6>1, StateFacts
        <5>3. lev[i] <= Len(T2[t].ci)
          <6>1. \A a, b, c \in Nat : a <= b /\ b <= c => a <= c
            OBVIOUS
          <6> QED
            BY <5>1, <5>2, <6>1
        <5> QED
          BY <4>2, <5>3
      <4> QED
        BY <4>1, <4>2
    <3>3. \A j \in i .. n : j \in 1 .. n
      BY <1>2
    <3>4. D[i].k = C[i].k /\ D[i].t = C[i].t /\ D[i].ci = C[i].ci
      BY <1>0 DEF SameActs
    <3>5. \A j \in i .. n : D[j].t = C[j].t
      BY <1>2, <3>3
    <3> QED
      BY <3>1, <3>2, <3>4, <3>5
  <2>3. lev \in [1 .. Len(D) -> Nat]
    BY <1>0, <1>2 DEF Good, FramesOK
  <2> QED
    BY <1>2, <1>3, <2>1, <2>2, <2>3 DEF FramesOK
<1>11. BusyOK(T2, D, q, lev)
  <2> SUFFICES ASSUME NEW i \in 1 .. n,
                      D[i].k # "hook" /\ IF i < n THEN D[i + 1].k # "handler" ELSE q = "none"
               PROVE  /\ lev[i] < Upper(T2, D, lev, i)
                      /\ D[i].k = "resume" => D[i].nexec >= 1
    BY <1>2 DEF BusyOK
  <2>1. CASE i = n
    BY <1>0, <1>2, <1>9, <2>1 DEF TopStep
  <2>2. CASE i # n
    <3>1. i \in 1 .. n - 1 /\ i + 1 \in 1 .. n /\ i < n
      BY <1>2, <2>2
    <3>2. D[i] = C[i] /\ D[i + 1].k = C[i + 1].k
      BY <1>2, <3>1 DEF TopStep
    <3>3. lev[i] < Upper(T, C, lev, i) /\ (C[i].k = "resume" => C[i].nexec >= 1)
      BY <1>0, <3>1, <3>2 DEF Good, BusyOK
    <3> QED
      BY <1>9, <3>1, <3>2, <3>3
  <2> QED
    BY <2>1, <2>2
<1> QED
  BY <1>3, <1>4, <1>5, <1>6, <1>7, <1>8, <1>10, <1>11 DEF Good, TopStep, Only

(* One more activation changes the number of calls by at most one.         *)
LEMMA CallsCount ==
  ASSUME NEW C, NEW u, NEW n \in Nat
  PROVE  /\ Cardinality(CallsTo(C, u, n)) \in Nat
         /\ Cardinality(CallsTo(C, u, n + 1)) =
              IF C[n + 1].t = u /\ C[n + 1].k \in Calling
              THEN Cardinality(CallsTo(C, u, n)) + 1 ELSE Cardinality(CallsTo(C, u, n))
<1> DEFINE S == CallsTo(C, u, n)
<1>1. IsFiniteSet(S)
  <2>1. IsFiniteSet(1 .. n) /\ S \subseteq 1 .. n
    BY FS_Interval DEF CallsTo
  <2> QED
    BY <2>1, FS_Subset
<1>2. n + 1 \notin S
  BY DEF CallsTo
<1>3. CASE C[n + 1].t = u /\ C[n + 1].k \in Calling
  <2>1. CallsTo(C, u, n + 1) = S \cup {n + 1}
    BY <1>3 DEF CallsTo
  <2> HIDE DEF S
  <2> QED
    BY <1>1, <1>2, <1>3, <2>1, FS_AddElement, FS_CardinalityType DEF S
<1>4. CASE ~(C[n + 1].t = u /\ C[n + 1].k \in Calling)
  <2>1. CallsTo(C, u, n + 1) = S
    BY <1>4 DEF CallsTo
  <2> QED
    BY <1>1, <1>4, <2>1, FS_CardinalityType
<1> QED
  BY <1>3, <1>4

(* D is C with the activation e on top.                                    *)
Grown(C, D, e, n) ==
  /\ n \in Nat /\ n = Len(C) /\ Len(D) = n + 1 /\ D # <<>> /\ D[n + 1] = e
  /\ \A i \in 1 .. n : D[i] = C[i]
  /\ Running(D) = Running(C) \cup {e.t} /\ Cur(D) = e.t
  /\ \A u, j : j \in 0 .. n => CallsTo(D, u, j) = CallsTo(C, u, j)
  /\ \A u, k, j : j \in 0 .. n => (Has(D, j, u, k) <=> Has(C, j, u, k))
  /\ \A u, k : Has(C, n, u, k) => Has(D, n + 1, u, k)
  /\ Has(D, n + 1, e.t, e.k)

LEMMA AppendFacts ==
  ASSUME NEW C, ChainOK(C), NEW e, NEW D, D = Append(C, e), NEW n, n = Len(C)
  PROVE  Grown(C, D, e, n)
<1>1. IsSeq(C) /\ n \in Nat
  BY RunningThread DEF ChainOK
<1>2. /\ Len(D) = n + 1 /\ D # <<>> /\ D[n + 1] = e
      /\ \A i \in 1 .. n : D[i] = C[i]
  BY <1>1, SeqAppend
<1>3. /\ \A u, j : j \in 0 .. n => CallsTo(C, u, j) = CallsTo(D, u, j)
      /\ \A u, k, j : j \in 0 .. n => (Has(C, j, u, k) <=> Has(D, j, u, k))
  <2>1. \A j \in 0 .. n : \A i \in 1 .. j : i \in 1 .. n /\ D[i] = C[i]
    BY <1>1, <1>2
  <2>2. ASSUME NEW u, NEW j \in 0 .. n PROVE CallsTo(C, u, j) = CallsTo(D, u, j)
    BY <2>1 DEF CallsTo
  <2>3. ASSUME NEW u, NEW k, NEW j \in 0 .. n PROVE Has(C, j, u, k) <=> Has(D, j, u, k)
    BY <2>1 DEF Has
  <2> QED
    BY <2>2, <2>3
<1>4. Running(D) = Running(C) \cup {e.t}
  <2>1. \A i \in 1 .. n + 1 : i \in 1 .. n \/ i = n + 1
    BY <1>1
  <2>2. n + 1 \in 1 .. n + 1 /\ \A i \in 1 .. n : i \in 1 .. n + 1
    BY <1>1
  <2> QED
    BY <1>2, <2>1, <2>2 DEF Running
<1>5. Cur(D) = e.t
  BY <1>2 DEF Cur
<1>6. /\ \A u, k : Has(C, n, u, k) => Has(D, n + 1, u, k)
      /\ Has(D, n + 1, e.t, e.k)
  BY <1>1, <1>2 DEF Has
<1> QED
  BY <1>1, <1>2, <1>3, <1>4, <1>5, <1>6 DEF Grown

(* The levels when an activation begins on m frames.                       *)
Deeper(lev, n, m) == [i \in 1 .. n + 1 |-> IF i = n + 1 THEN m ELSE lev[i]]

(* Thread t, which runs, gets an activation e on top.                      *)
PushStep(T, C, p, T2, e, q, t) ==
  /\ t = Cur(C) /\ Only(T2, T, t) /\ StateOK(T2[t])
  /\ Len(T2[t].ci) = Len(T[t].ci)
  /\ \A i \in 1 .. Len(T[t].ci) : T2[t].ci[i].lua = T[t].ci[i].lua
  /\ T2[t].status = T[t].status /\ T2[t].baseCcalls = T[t].baseCcalls
  /\ T2[t].kept = T[t].kept /\ T2[t].size_ci = T[t].size_ci
  /\ T2[t].nCcalls = IF e.k \in Calling THEN T[t].nCcalls + 1 ELSE T[t].nCcalls
  /\ e.k # "pcall" => T2[t].errfunc = T[t].errfunc
  /\ e.k # "hook" => T2[t].allowhook = T[t].allowhook
  /\ ActOK(e) /\ e.t = t /\ e.nexec = 0 /\ e.k # "resume"
  /\ C = <<>> => e.k = "pcall"
  /\ C # <<>> /\ C[Len(C)].k = "hook" => e.k \in Calling
  /\ e.ci = Len(T[t].ci)
  /\ e.k = "pcall" =>
       /\ e.nCcalls = T[t].nCcalls
       /\ e.errfunc = T[t].errfunc /\ e.allowhook = T[t].allowhook
  /\ p = "none" \/ (p = "message" /\ e.k = "handler")
  /\ q = IF e.k = "hook" THEN "none" ELSE "enter"

LEMMA PushGood ==
  ASSUME NEW T, NEW C, NEW p, NEW lev, Good(T, C, p, lev),
         NEW T2, NEW e, NEW q, NEW t, PushStep(T, C, p, T2, e, q, t)
  PROVE  Good(T2, Append(C, e), q, Deeper(lev, Len(C), Len(T[t].ci)))
<1> DEFINE n == Len(C)
           D == Append(C, e)
           lev2 == Deeper(lev, Len(C), Len(T[t].ci))
<1>1. ChainOK(C) /\ CountsOK(T, C) /\ StatusOK(T, C) /\ SettingsOK(T, C)
  BY DEF Good
<1>2. /\ n \in Nat /\ (C # <<>> => n >= 1) /\ (C = <<>> <=> n = 0)
      /\ Running(C) \subseteq Thread /\ t \in Running(C) /\ Main \in Thread
      /\ \A i \in 1 .. n : C[i].t \in Running(C)
  BY <1>1, RunningThread DEF PushStep
<1>3. ChainOK(D)
  BY <1>1, ChainPush DEF PushStep
<1>4. /\ n \in Nat /\ Len(D) = n + 1 /\ D # <<>> /\ D[n + 1] = e
      /\ \A i \in 1 .. n : D[i] = C[i]
      /\ Running(D) = Running(C) \cup {e.t} /\ Cur(D) = e.t
      /\ \A u, j : j \in 0 .. n => CallsTo(D, u, j) = CallsTo(C, u, j)
      /\ \A u, k, j : j \in 0 .. n => (Has(D, j, u, k) <=> Has(C, j, u, k))
      /\ \A u, k : Has(C, n, u, k) => Has(D, n + 1, u, k)
      /\ Has(D, n + 1, e.t, e.k)
  <2>1. n = Len(C) /\ D = Append(C, e)
    OBVIOUS
  <2> HIDE DEF n, D
  <2>2. Grown(C, D, e, n)
    BY <1>1, <2>1, AppendFacts
  <2> QED
    BY <2>2 DEF Grown
<1>5. /\ \A u \in Thread : u # t => T2[u] = T[u]
      /\ e.t = t /\ t \in Thread /\ Running(D) = Running(C)
  BY <1>2, <1>4 DEF PushStep, Only
<1>6. /\ \A i \in 1 .. n + 1 : i \in 1 .. n \/ i = n + 1
      /\ n + 1 \in 1 .. n + 1 /\ \A i \in 1 .. n : i \in 1 .. n + 1
      /\ n \in 0 .. n
  BY <1>2
<1> HIDE DEF n, D
<1>7. /\ \A i \in 1 .. n : lev2[i] = lev[i]
      /\ lev2[n + 1] = Len(T[t].ci)
  <2>1. \A i \in 1 .. n : i # n + 1
    BY <1>2
  <2>2. lev2 = [i \in 1 .. n + 1 |-> IF i = n + 1 THEN Len(T[t].ci) ELSE lev[i]]
    BY DEF Deeper, n
  <2> QED
    BY <1>6, <2>1, <2>2
<1> HIDE DEF lev2
<1>8. /\ \A u \in Thread : Len(T[u].ci) \in Nat
      /\ \A i \in 1 .. n : /\ C[i].t \in Thread /\ C[i].nexec \in Nat
                           /\ lev[i] \in Nat /\ 1 <= lev[i] /\ lev[i] <= Len(T[C[i].t].ci)
                           /\ Upper(T, C, lev, i) \in Nat
                           /\ Upper(T, C, lev, i) <= Len(T[C[i].t].ci)
  BY Numbers DEF n
<1>9. CountsOK(T2, D)
  <2>1. ASSUME NEW u \in Running(D)
        PROVE  T2[u].nCcalls = T2[u].baseCcalls + Cardinality(CallsTo(D, u, n + 1))
    <3>1. /\ T[u].nCcalls = T[u].baseCcalls + Cardinality(CallsTo(D, u, n))
          /\ u \in Thread
      BY <1>1, <1>2, <1>4, <1>5, <1>6 DEF CountsOK, n
    <3>2. /\ Cardinality(CallsTo(D, u, n)) \in Nat
          /\ Cardinality(CallsTo(D, u, n + 1)) =
               IF e.t = u /\ e.k \in Calling
               THEN Cardinality(CallsTo(D, u, n)) + 1 ELSE Cardinality(CallsTo(D, u, n))
      BY <1>2, <1>4, CallsCount
    <3>3. CASE u = t
      <4>1. /\ T2[t].nCcalls = IF e.k \in Calling THEN T[t].nCcalls + 1 ELSE T[t].nCcalls
            /\ T2[t].baseCcalls = T[t].baseCcalls /\ T[t].baseCcalls \in Int
        BY <1>5 DEF PushStep, Good, StateOK
      <4> QED
        BY <1>5, <3>1, <3>2, <3>3, <4>1
    <3>4. CASE u # t
      BY <1>5, <3>1, <3>2, <3>4
    <3> QED
      BY <3>3, <3>4
  <2>2. ASSUME NEW i \in 1 .. n + 1, D[i].k = "pcall"
        PROVE  D[i].nCcalls = T2[D[i].t].baseCcalls + Cardinality(CallsTo(D, D[i].t, i - 1))
    <3>1. T2[t].baseCcalls = T[t].baseCcalls
      BY DEF PushStep
    <3>2. CASE i \in 1 .. n
      <4>1. D[i] = C[i] /\ i - 1 \in 0 .. n /\ C[i].t \in Thread
        BY <1>2, <1>4, <3>2
      <4>2. C[i].nCcalls = T[C[i].t].baseCcalls + Cardinality(CallsTo(C, C[i].t, i - 1))
        BY <1>1, <2>2, <3>2, <4>1 DEF CountsOK, n
      <4> QED
        BY <1>4, <1>5, <3>1, <4>1, <4>2
    <3>3. CASE i = n + 1
      <4>1. i - 1 = n /\ D[i] = e /\ e.nCcalls = T[t].nCcalls /\ e.t = t
        BY <1>2, <1>4, <2>2, <3>3 DEF PushStep
      <4>2. T[t].nCcalls = T[t].baseCcalls + Cardinality(CallsTo(C, t, n))
        BY <1>1, <1>2 DEF CountsOK, n
      <4> QED
        BY <1>4, <1>6, <3>1, <4>1, <4>2
    <3> QED
      BY <1>6, <3>2, <3>3
  <2> QED
    BY <1>4, <2>1, <2>2 DEF CountsOK
<1>10. StatusOK(T2, D)
  <2>1. \A u \in Running(D) : T2[u].status = "ok"
    BY <1>1, <1>2, <1>5 DEF StatusOK, PushStep
  <2>2. \A u \in Thread \ Running(D) : u \in Thread \ Running(C) /\ T2[u] = T[u]
    BY <1>2, <1>5
  <2> QED
    BY <1>1, <2>1, <2>2 DEF StatusOK
<1>11. SettingsOK(T2, D)
  <2>1. ASSUME NEW u \in Thread, T2[u].status # "dead"
        PROVE  /\ T2[u].errfunc # 0 => Has(D, n + 1, u, "pcall")
               /\ ~T2[u].allowhook => Has(D, n + 1, u, "hook")
    <3>1. /\ T2[u].status = T[u].status
          /\ T2[u].errfunc = T[u].errfunc \/ (u = t /\ e.k = "pcall")
          /\ T2[u].allowhook = T[u].allowhook \/ (u = t /\ e.k = "hook")
      BY <1>5 DEF PushStep
    <3>2. /\ T[u].errfunc # 0 => Has(C, n, u, "pcall")
          /\ ~T[u].allowhook => Has(C, n, u, "hook")
      BY <1>1, <2>1, <3>1 DEF SettingsOK, n
    <3> QED
      BY <1>4, <1>5, <3>1, <3>2
  <2>2. ASSUME NEW i \in 1 .. n + 1, D[i].k = "pcall"
        PROVE  /\ D[i].errfunc # 0 => Has(D, i - 1, D[i].t, "pcall")
               /\ ~D[i].allowhook => Has(D, i - 1, D[i].t, "hook")
    <3>1. CASE i \in 1 .. n
      <4>1. D[i] = C[i] /\ i - 1 \in 0 .. n
        BY <1>2, <1>4, <3>1
      <4> QED
        BY <1>1, <1>4, <2>2, <3>1, <4>1 DEF SettingsOK, n
    <3>2. CASE i = n + 1
      <4>1. /\ i - 1 = n /\ D[i] = e /\ e.t = t
            /\ e.errfunc = T[t].errfunc /\ e.allowhook = T[t].allowhook
        BY <1>2, <1>4, <2>2, <3>2 DEF PushStep
      <4>2. T[t].status # "dead"
        BY <1>1, <1>2 DEF StatusOK
      <4>3. /\ T[t].errfunc # 0 => Has(C, n, t, "pcall")
            /\ ~T[t].allowhook => Has(C, n, t, "hook")
        BY <1>1, <1>5, <4>2 DEF SettingsOK, n
      <4> QED
        BY <1>4, <1>6, <4>1, <4>3
    <3> QED
      BY <1>6, <3>1, <3>2
  <2> QED
    BY <1>4, <2>1, <2>2 DEF SettingsOK
<1>12. OverflowOK(T2, D, q)
  <2> SUFFICES ASSUME NEW u \in Thread, T2[u].status # "dead", ~T2[u].kept,
                      T2[u].size_ci > LUAI_MAXCALLS
               PROVE  Has(D, n + 1, u, "handler")
    BY <1>4 DEF OverflowOK
  <2>1. T[u].status # "dead" /\ ~T[u].kept /\ T[u].size_ci > LUAI_MAXCALLS
    BY <1>5 DEF PushStep
  <2>2. (p \in Errors /\ Cur(C) = u) \/ Has(C, n, u, "handler")
    BY <2>1 DEF Good, OverflowOK, n
  <2>3. p \in Errors /\ Cur(C) = u => e.k = "handler" /\ u = e.t
    BY DEF PushStep, Errors
  <2> QED
    BY <1>4, <2>2, <2>3
<1>13. \A i \in 1 .. n : Upper(T2, D, lev2, i) = Upper(T, C, lev, i)
  <2> SUFFICES ASSUME NEW i \in 1 .. n
               PROVE  Upper(T2, D, lev2, i) = Upper(T, C, lev, i)
    OBVIOUS
  <2>1. Len(T2[C[i].t].ci) = Len(T[C[i].t].ci)
    BY <1>5, <1>8 DEF PushStep
  <2>2. D[i] = C[i] /\ i < n + 1
    BY <1>2, <1>4
  <2>3. CASE i < n
    <3>1. i + 1 \in 1 .. n /\ D[i + 1] = C[i + 1] /\ lev2[i + 1] = lev[i + 1]
      BY <1>2, <1>4, <1>7, <2>3
    <3> QED
      BY <1>4, <2>1, <2>2, <2>3, <3>1 DEF Upper, n
  <2>4. CASE i = n
    <3>1. C[n].t = t
      BY <1>2, <2>4 DEF PushStep, Cur, n
    <3>2. Upper(T2, D, lev2, i) = lev2[n + 1]
      BY <1>4, <1>5, <2>2, <2>4, <3>1 DEF Upper
    <3>3. Upper(T, C, lev, i) = Len(T[t].ci)
      BY <1>2, <2>4, <3>1 DEF Upper, n
    <3> QED
      BY <1>7, <3>2, <3>3
  <2> QED
    BY <1>2, <2>3, <2>4
<1>14. Upper(T2, D, lev2, n + 1) = Len(T[t].ci)
  BY <1>4, <1>5 DEF Upper, PushStep
<1>15. FramesOK(T2, D, lev2)
  <2>1. lev2 \in [1 .. n + 1 -> Nat]
    BY <1>2, <1>5, <1>8 DEF Deeper, n, lev2
  <2>2. ASSUME NEW i \in 1 .. n + 1
        PROVE  /\ 1 <= lev2[i] /\ lev2[i] <= Len(T2[D[i].t].ci)
               /\ (i = 1 \/ D[i].k = "resume") => lev2[i] = 1
               /\ lev2[i] = D[i].ci
               /\ \A j \in i .. n + 1 : D[i].t = D[j].t => lev2[i] <= lev2[j]
               /\ BlockOK(T2[D[i].t], D[i], lev2[i], Upper(T2, D, lev2, i))
    <3>1. CASE i \in 1 .. n
      <4>1. /\ D[i] = C[i] /\ lev2[i] = lev[i] /\ C[i].t \in Thread
            /\ Len(T2[C[i].t].ci) = Len(T[C[i].t].ci)
            /\ \A j \in 1 .. Len(T[C[i].t].ci) : T2[C[i].t].ci[j].lua = T[C[i].t].ci[j].lua
        <5>1. D[i] = C[i] /\ lev2[i] = lev[i] /\ C[i].t \in Thread
          BY <1>4, <1>7, <1>8, <3>1
        <5>2. CASE C[i].t # t
          BY <1>5, <5>1, <5>2
        <5>3. CASE C[i].t = t
          BY <5>1, <5>3 DEF PushStep
        <5> QED
          BY <5>1, <5>2, <5>3
      <4>2. /\ 1 <= lev[i] /\ lev[i] <= Len(T[C[i].t].ci)
            /\ (i = 1 \/ C[i].k = "resume") => lev[i] = 1
            /\ lev[i] = C[i].ci
            /\ \A j \in i .. n : C[i].t = C[j].t => lev[i] <= lev[j]
            /\ BlockOK(T[C[i].t], C[i], lev[i], Upper(T, C, lev, i))
        BY <3>1 DEF Good, FramesOK, n
      <4>3. BlockOK(T2[C[i].t], C[i], lev[i], Upper(T, C, lev, i))
        <5>1. \A j \in 1 .. Upper(T, C, lev, i) : T2[C[i].t].ci[j].lua = T[C[i].t].ci[j].lua
          BY <1>8, <3>1, <4>1
        <5> QED
          BY <1>8, <3>1, <4>2, <5>1, BlockSame
      <4>4. ASSUME NEW j \in i .. n + 1, D[i].t = D[j].t
            PROVE  lev2[i] <= lev2[j]
        <5>1. CASE j = n + 1
          BY <1>4, <1>5, <1>7, <4>1, <4>2, <4>4, <5>1
        <5>2. CASE j \in i .. n
          <6>1. j \in 1 .. n
            BY <1>2, <3>1, <5>2
          <6> QED
            BY <1>4, <1>7, <4>1, <4>2, <4>4, <5>2, <6>1
        <5> QED
          BY <1>2, <3>1, <5>1, <5>2
      <4> QED
        BY <1>13, <3>1, <4>1, <4>2, <4>3, <4>4
    <3>2. CASE i = n + 1
      <4>1. /\ D[i] = e /\ lev2[i] = Len(T[t].ci) /\ Len(T[t].ci) \in Nat
            /\ e.t = t /\ e.nexec = 0 /\ e.k # "resume"
            /\ Len(T2[t].ci) = Len(T[t].ci) /\ Len(T[t].ci) >= 1
            /\ e.ci = Len(T[t].ci)
        BY <1>4, <1>5, <1>7, <1>8, <3>2 DEF PushStep, Good, StateOK
      <4>2. i = 1 => Len(T[t].ci) = 1
        <5>1. ASSUME i = 1 PROVE C = <<>>
          BY <1>2, <3>2, <5>1
        <5>2. C = <<>> => t = Main /\ Len(T[Main].ci) = 1
          BY DEF Good, FramesOK, PushStep, Cur
        <5> QED
          BY <5>1, <5>2
      <4>3. BlockOK(T2[t], e, Len(T[t].ci), Len(T[t].ci))
        BY <4>1 DEF BlockOK
      <4>4. \A j \in i .. n + 1 : j = i
        BY <1>2, <3>2
      <4> QED
        BY <1>14, <3>2, <4>1, <4>2, <4>3, <4>4
    <3> QED
      BY <1>6, <3>1, <3>2
  <2> QED
    BY <1>4, <2>1, <2>2 DEF FramesOK
<1>16. BusyOK(T2, D, q, lev2)
  <2> SUFFICES ASSUME NEW i \in 1 .. n + 1, D[i].k # "hook",
                      IF i < n + 1 THEN D[i + 1].k # "handler" ELSE q = "none"
               PROVE  /\ lev2[i] < Upper(T2, D, lev2, i)
                      /\ D[i].k = "resume" => D[i].nexec >= 1
    BY <1>4 DEF BusyOK
  <2>1. CASE i = n + 1
    BY <1>2, <1>4, <2>1 DEF PushStep
  <2>2. CASE i \in 1 .. n
    <3>1. D[i] = C[i] /\ i < n + 1 /\ lev2[i] = lev[i]
      BY <1>2, <1>4, <1>7, <2>2
    <3>2. IF i < n THEN C[i + 1].k # "handler" ELSE p = "none"
      <4>1. CASE i < n
        BY <1>2, <1>4, <2>2, <3>1, <4>1
      <4>2. CASE ~(i < n)
        <5>1. i + 1 = n + 1
          BY <1>2, <2>2, <4>2
        <5> QED
          BY <1>4, <3>1, <4>2, <5>1 DEF PushStep
      <4> QED
        BY <4>1, <4>2
    <3>3. lev[i] < Upper(T, C, lev, i) /\ (C[i].k = "resume" => C[i].nexec >= 1)
      BY <2>2, <3>1, <3>2 DEF Good, BusyOK, n
    <3> QED
      BY <1>13, <2>2, <3>1, <3>3
  <2> QED
    BY <1>6, <2>1, <2>2
<1>17. /\ DOMAIN T2 = Thread /\ \A u \in Thread : StateOK(T2[u])
       /\ q \in Errors \cup {"none", "enter"}
  BY <1>5 DEF Good, PushStep, Only
<1> QED
  BY <1>3, <1>4, <1>9, <1>10, <1>11, <1>12, <1>15, <1>16, <1>17 DEF Good, D, n, lev2

-----------------------------------------------------------------------------
(* Activations that end                                                    *)

(* D is the lowest m activations of C.                                     *)
Shrunk(C, D, m) ==
  /\ IsSeq(D) /\ Len(D) = m /\ ChainOK(D) /\ (D = <<>> <=> m = 0)
  /\ \A i \in 1 .. m : D[i] = C[i] /\ C[i].t \in Running(D)
  /\ \A u, j : j \in 0 .. m => CallsTo(D, u, j) = CallsTo(C, u, j)
  /\ \A u, k, j : j \in 0 .. m => (Has(D, j, u, k) <=> Has(C, j, u, k))

LEMMA CutFacts ==
  ASSUME NEW C, ChainOK(C), NEW m \in 0 .. Len(C), NEW D, D = SubSeq(C, 1, m)
  PROVE  Shrunk(C, D, m)
<1>1. Len(C) \in Nat /\ IsSeq(C) /\ m \in Nat /\ m <= Len(C)
  BY RunningThread DEF ChainOK
<1>2. IsSeq(D) /\ Len(D) = m /\ \A i \in 1 .. m : D[i] = C[i]
  BY <1>1, SeqCut
<1>3. \A i \in 1 .. m : /\ ActOK(D[i]) /\ D[i].k = C[i].k /\ D[i].t = C[i].t
                        /\ C[i].k = "resume" => D[i].from = C[i].from
  BY <1>1, <1>2 DEF ChainOK, ActsOK
<1>4. /\ ChainOK(D)
      /\ \A t, j : j \in 0 .. m => CallsTo(D, t, j) = CallsTo(C, t, j)
      /\ \A t, k, j : j \in 0 .. m => (Has(D, j, t, k) <=> Has(C, j, t, k))
  <2>1. Mirrors(D, C, m)
    BY <1>2, <1>3 DEF Mirrors
  <2>2. SeenThrough(D, C, m)
    BY <2>1, ChainPrefix
  <2> QED
    BY <2>2 DEF SeenThrough
<1>5. D = <<>> <=> m = 0
  BY <1>1, <1>2, <1>4, RunningThread
<1>6. \A i \in 1 .. m : C[i].t \in Running(D)
  BY <1>2 DEF Running
<1> QED
  BY <1>2, <1>4, <1>5, <1>6 DEF Shrunk

(* What the thread w of a finished resume is like: it has ended, yielded   *)
(* or failed.                                                              *)
Ended(L) ==
  /\ L.status \in {"ok", "yield", "dead"}
  /\ L.status = "ok" => Len(L.ci) = 1
  /\ L.status = "yield" => Suspended(L)
  /\ L.status # "dead" =>
       /\ L.errfunc = 0 /\ L.allowhook /\ (L.kept \/ L.size_ci <= LUAI_MAXCALLS)

(* What the thread w of a finished call is like, back on the m activations *)
(* below it.                                                               *)
CameBack(T, C, lev, L, q, m, w) ==
  /\ L.status = "ok" /\ L.baseCcalls = T[w].baseCcalls
  /\ L.nCcalls = L.baseCcalls + Cardinality(CallsTo(C, w, m))
  /\ Len(L.ci) = lev[m + 1]
  /\ \A i \in 1 .. lev[m + 1] : L.ci[i].lua = T[w].ci[i].lua
  /\ L.errfunc # 0 => Has(C, m, w, "pcall")
  /\ ~L.allowhook => Has(C, m, w, "hook")
  /\ (~L.kept /\ L.size_ci > LUAI_MAXCALLS) => q \in Errors \/ Has(C, m, w, "handler")
  /\ q = "none" => C[m + 1].k # "handler"

(* The activations above the lowest m, all of thread w, are left.          *)
PopStep(T, C, lev, T2, D, q, m, w) ==
  /\ m \in Nat /\ m < Len(C) /\ D = SubSeq(C, 1, m)
  /\ \A i \in m + 1 .. Len(C) : C[i].t = w
  /\ DOMAIN T2 = Thread /\ \A u \in Thread : StateOK(T2[u])
  /\ \A u \in Thread \ {w} : Alike(T2[u], T[u]) /\ T2[u].size_ci = T[u].size_ci
  /\ q \in Errors \cup {"none"} /\ (m = 0 => q = "none")
  /\ IF C[m + 1].k = "resume" THEN q = "none" /\ Ended(T2[w])
     ELSE CameBack(T, C, lev, T2[w], q, m, w)

(* The thread below: the one that goes on.                                 *)
LEMMA PopThreads ==
  ASSUME NEW C, ChainOK(C), NEW m \in Nat, m < Len(C), NEW D, Shrunk(C, D, m), NEW w,
         \A i \in m + 1 .. Len(C) : C[i].t = w
  PROVE  /\ w \in Thread /\ Running(C) = Running(D) \cup {w} /\ Running(C) \subseteq Thread
         /\ C[m + 1].t = w
         /\ C[m + 1].k = "resume" =>
              /\ m >= 1 /\ w \notin Running(D) /\ C[m].k # "hook"
              /\ \A i \in 1 .. m : C[i].t # w
         /\ C[m + 1].k # "resume" => w = Cur(D) /\ w \in Running(D)
         /\ C[m + 1].k # "resume" =>
              \A i \in 1 .. m : C[i].t = w => C[i + 1].t = w
<1>1. /\ Len(C) \in Nat /\ m + 1 \in 1 .. Len(C) /\ m + 1 \in m + 1 .. Len(C)
      /\ Running(C) \subseteq Thread
      /\ \A i \in 1 .. Len(C) : C[i].t \in Running(C)
  BY RunningThread
<1>2. C[m + 1].t = w /\ w \in Running(C) /\ w \in Thread
  BY <1>1
<1>3. Len(D) = m /\ (D = <<>> <=> m = 0) /\ \A i \in 1 .. m : D[i] = C[i]
  BY DEF Shrunk
<1>4. Running(C) = Running(D) \cup {w}
  <2>1. \A i \in 1 .. Len(C) : i \in 1 .. m \/ i \in m + 1 .. Len(C)
    BY <1>1
  <2>2. \A i \in 1 .. m : i \in 1 .. Len(C)
    BY <1>1
  <2>3. \A i \in 1 .. Len(C) : (i \in 1 .. m /\ C[i].t = D[i].t) \/ C[i].t = w
    BY <1>3, <2>1
  <2>4. \A u \in Running(C) : u \in Running(D) \cup {w}
    BY <1>3, <2>3 DEF Running
  <2>5. \A u \in Running(D) : u \in Running(C)
    BY <1>3, <2>2 DEF Running
  <2> QED
    BY <1>2, <2>4, <2>5
<1>5. ASSUME C[m + 1].k = "resume"
      PROVE  /\ m >= 1 /\ w \notin Running(D) /\ C[m].k # "hook"
             /\ \A i \in 1 .. m : C[i].t # w
  <2>1. /\ m + 1 > 1 /\ w \in Coroutine /\ \A i \in 1 .. m + 1 - 1 : C[i].t # w
    BY <1>1, <1>2, <1>5 DEF ChainOK, ResumesOK
  <2>2. m >= 1 /\ \A i \in 1 .. m : C[i].t # w
    BY <2>1
  <2>3. w \notin Running(D)
    BY <1>3, <2>1, <2>2, CallsAssumption DEF Running
  <2>4. m \in 1 .. Len(C) - 1
    BY <1>1, <2>2
  <2>5. C[m].k # "hook"
    BY <1>5, <2>4 DEF ChainOK, HooksOK, Calling
  <2> QED
    BY <2>2, <2>3, <2>5
<1>6. ASSUME C[m + 1].k # "resume"
      PROVE  w = Cur(D)
  <2>1. CASE m = 0
    BY <1>1, <1>2, <1>3, <2>1 DEF Cur, ChainOK, HostOK
  <2>2. CASE m # 0
    <3>1. /\ m \in 1 .. Len(C) /\ m <= m + 1 /\ \A n \in m + 1 .. m + 1 : n = m + 1
          /\ m \in 1 .. m
      BY <1>1, <2>2
    <3>2. C[m].t = C[m + 1].t
      BY <1>1, <1>6, <3>1 DEF ChainOK, RunsOK
    <3> QED
      BY <1>2, <1>3, <2>2, <3>1, <3>2 DEF Cur
  <2> QED
    BY <2>1, <2>2
<1>7. Cur(D) \in Running(D)
  BY RunningThread DEF Shrunk
<1>8. ASSUME NEW i \in 1 .. m, C[i].t = w
      PROVE  C[i + 1].t = w
  <2>1. i \in 1 .. Len(C) /\ i + 1 \in i .. m + 1
    BY <1>1
  <2>2. \A n \in i .. m + 1 : C[n].t = C[i].t
    BY <1>1, <1>2, <1>8, <2>1 DEF ChainOK, RunsOK
  <2> QED
    BY <1>8, <2>1, <2>2
<1> QED
  BY <1>1, <1>2, <1>4, <1>5, <1>6, <1>7, <1>8

(* The levels of the lowest m activations.                                 *)
Lower(lev, m) == [i \in 1 .. m |-> lev[i]]

LEMMA PopGood ==
  ASSUME NEW T, NEW C, NEW p, NEW lev, Good(T, C, p, lev),
         NEW T2, NEW D, NEW q, NEW m, NEW w, PopStep(T, C, lev, T2, D, q, m, w)
  PROVE  Good(T2, D, q, Lower(lev, m))
<1> DEFINE lev2 == Lower(lev, m)
<1>1. /\ ChainOK(C) /\ CountsOK(T, C) /\ StatusOK(T, C) /\ SettingsOK(T, C)
      /\ OverflowOK(T, C, p) /\ FramesOK(T, C, lev) /\ BusyOK(T, C, p, lev)
  BY DEF Good
<1>2. /\ m \in Nat /\ m < Len(C) /\ D = SubSeq(C, 1, m)
      /\ \A i \in m + 1 .. Len(C) : C[i].t = w
      /\ DOMAIN T2 = Thread /\ \A u \in Thread : StateOK(T2[u])
      /\ \A u \in Thread \ {w} : Alike(T2[u], T[u]) /\ T2[u].size_ci = T[u].size_ci
      /\ q \in Errors \cup {"none"} /\ (m = 0 => q = "none")
      /\ C[m + 1].k = "resume" => q = "none" /\ Ended(T2[w])
      /\ C[m + 1].k # "resume" => CameBack(T, C, lev, T2[w], q, m, w)
  BY DEF PopStep
<1>3. /\ Len(C) \in Nat /\ m \in 0 .. Len(C) /\ m + 1 \in 1 .. Len(C) /\ m \in 0 .. m
      /\ \A i \in 1 .. m : i \in 1 .. Len(C) /\ i + 1 \in 1 .. Len(C)
      /\ \A i \in 1 .. Len(C) : i \in 1 .. m \/ i \in m + 1 .. Len(C)
  BY <1>1, <1>2, RunningThread
<1>4. Shrunk(C, D, m)
  BY <1>1, <1>2, <1>3, CutFacts
<1>5. /\ Len(D) = m /\ ChainOK(D) /\ (D = <<>> <=> m = 0)
      /\ \A i \in 1 .. m : D[i] = C[i] /\ C[i].t \in Running(D)
      /\ \A u, j : j \in 0 .. m => CallsTo(D, u, j) = CallsTo(C, u, j)
      /\ \A u, k, j : j \in 0 .. m => (Has(D, j, u, k) <=> Has(C, j, u, k))
  BY <1>4 DEF Shrunk
<1>6. /\ w \in Thread /\ Running(C) = Running(D) \cup {w} /\ Running(C) \subseteq Thread
      /\ C[m + 1].t = w
      /\ C[m + 1].k = "resume" =>
           /\ m >= 1 /\ w \notin Running(D) /\ C[m].k # "hook"
           /\ \A i \in 1 .. m : C[i].t # w
      /\ C[m + 1].k # "resume" => w = Cur(D) /\ w \in Running(D)
      /\ C[m + 1].k # "resume" => \A i \in 1 .. m : C[i].t = w => C[i + 1].t = w
  BY <1>1, <1>2, <1>4, PopThreads
<1>7. \A i \in 1 .. m : /\ lev2[i] = lev[i] /\ D[i] = C[i] /\ C[i].t \in Thread
                       /\ i < Len(C) /\ i \in 1 .. Len(C) /\ i - 1 \in 0 .. m
  <2>1. \A i \in 1 .. m : lev2[i] = lev[i]
    BY DEF Lower
  <2>2. \A i \in 1 .. m : C[i].t \in Thread
    BY <1>5, <1>6
  <2>3. \A i \in 1 .. m : i < Len(C) /\ i \in 1 .. Len(C) /\ i - 1 \in 0 .. m
    BY <1>2, <1>3
  <2> QED
    BY <1>5, <2>1, <2>2, <2>3
<1> HIDE DEF lev2
<1>8. ASSUME NEW u \in Thread, u # w
      PROVE  /\ Alike(T2[u], T[u]) /\ T2[u].size_ci = T[u].size_ci /\ SameSettings(T2[u], T[u])
             /\ CallsTo(C, u, Len(C)) = CallsTo(D, u, m)
             /\ \A k : Has(C, Len(C), u, k) => Has(D, m, u, k)
  <2>1. \A i \in 1 .. Len(C) : C[i].t = u => i \in 1 .. m
    BY <1>2, <1>3, <1>8
  <2>2. CallsTo(C, u, Len(C)) = CallsTo(C, u, m)
    BY <1>3, <2>1 DEF CallsTo
  <2>3. \A k : Has(C, Len(C), u, k) => Has(C, m, u, k)
    BY <2>1 DEF Has
  <2> QED
    BY <1>2, <1>3, <1>5, <1>8, <2>2, <2>3 DEF Alike
<1>9. C[m + 1].k # "resume" =>
        /\ T2[w].status = "ok" /\ T2[w].baseCcalls = T[w].baseCcalls
        /\ T2[w].nCcalls = T2[w].baseCcalls + Cardinality(CallsTo(D, w, m))
        /\ Len(T2[w].ci) = lev[m + 1]
        /\ \A i \in 1 .. lev[m + 1] : T2[w].ci[i].lua = T[w].ci[i].lua
        /\ T2[w].errfunc # 0 => Has(D, m, w, "pcall")
        /\ ~T2[w].allowhook => Has(D, m, w, "hook")
        /\ (~T2[w].kept /\ T2[w].size_ci > LUAI_MAXCALLS) =>
             q \in Errors \/ Has(D, m, w, "handler")
        /\ q = "none" => C[m + 1].k # "handler"
  BY <1>2, <1>3, <1>5 DEF CameBack
<1>10. CountsOK(T2, D)
  <2>1. ASSUME NEW u \in Running(D)
        PROVE  T2[u].nCcalls = T2[u].baseCcalls + Cardinality(CallsTo(D, u, m))
    <3>1. CASE u = w
      BY <1>6, <1>9, <3>1
    <3>2. CASE u # w
      <4>1. T[u].nCcalls = T[u].baseCcalls + Cardinality(CallsTo(C, u, Len(C)))
        BY <1>1, <1>6 DEF CountsOK
      <4>2. SameSettings(T2[u], T[u]) /\ CallsTo(C, u, Len(C)) = CallsTo(D, u, m)
        BY <1>6, <1>8, <3>2
      <4> QED
        BY <4>1, <4>2 DEF SameSettings
    <3> QED
      BY <3>1, <3>2
  <2>2. ASSUME NEW i \in 1 .. m, D[i].k = "pcall"
        PROVE  D[i].nCcalls = T2[D[i].t].baseCcalls + Cardinality(CallsTo(D, D[i].t, i - 1))
    <3>1. D[i] = C[i] /\ i - 1 \in 0 .. m /\ C[i].t \in Thread /\ i \in 1 .. Len(C)
      BY <1>7
    <3>2. C[i].nCcalls = T[C[i].t].baseCcalls + Cardinality(CallsTo(C, C[i].t, i - 1))
      BY <1>1, <2>2, <3>1 DEF CountsOK
    <3>3. T2[C[i].t].baseCcalls = T[C[i].t].baseCcalls
      <4>1. CASE C[i].t = w
        BY <1>6, <1>9, <4>1
      <4>2. CASE C[i].t # w
        BY <1>8, <3>1, <4>2 DEF SameSettings
      <4> QED
        BY <4>1, <4>2
    <3> QED
      BY <1>5, <3>1, <3>2, <3>3
  <2> QED
    BY <1>5, <2>1, <2>2 DEF CountsOK
<1>11. StatusOK(T2, D)
  <2>1. ASSUME NEW u \in Running(D) PROVE T2[u].status = "ok"
    <3>1. CASE u = w
      BY <1>6, <1>9, <3>1
    <3>2. CASE u # w
      BY <1>1, <1>6, <1>8, <3>2 DEF StatusOK, SameSettings
    <3> QED
      BY <3>1, <3>2
  <2>2. ASSUME NEW u \in Thread \ Running(D)
        PROVE  /\ T2[u].status \in {"none", "ok"} => Len(T2[u].ci) = 1
               /\ T2[u].status = "yield" => Suspended(T2[u])
    <3>1. CASE u = w
      BY <1>2, <1>6, <3>1 DEF Ended
    <3>2. CASE u # w
      <4>1. /\ T[u].status \in {"none", "ok"} => Len(T[u].ci) = 1
            /\ T[u].status = "yield" => Suspended(T[u])
        BY <1>1, <1>6, <3>2 DEF StatusOK
      <4>2. Alike(T2[u], T[u]) /\ T2[u].status = T[u].status /\ Len(T[u].ci) \in Nat
        BY <1>8, <3>2, Numbers DEF SameSettings
      <4>3. Suspended(T[u]) => Suspended(T2[u])
        BY <4>2, SuspendedAlike
      <4> QED
        BY <4>1, <4>2, <4>3 DEF Alike
    <3> QED
      BY <3>1, <3>2
  <2> QED
    BY <2>1, <2>2 DEF StatusOK
<1>12. SettingsOK(T2, D)
  <2>1. ASSUME NEW u \in Thread, T2[u].status # "dead"
        PROVE  /\ T2[u].errfunc # 0 => Has(D, m, u, "pcall")
               /\ ~T2[u].allowhook => Has(D, m, u, "hook")
    <3>1. CASE u = w
      BY <1>2, <1>9, <2>1, <3>1 DEF Ended
    <3>2. CASE u # w
      <4>1. SameSettings(T2[u], T[u])
        BY <1>8, <3>2
      <4>2. /\ T[u].errfunc # 0 => Has(C, Len(C), u, "pcall")
            /\ ~T[u].allowhook => Has(C, Len(C), u, "hook")
        BY <1>1, <2>1, <4>1 DEF SettingsOK, SameSettings
      <4> QED
        BY <1>8, <3>2, <4>1, <4>2 DEF SameSettings
    <3> QED
      BY <3>1, <3>2
  <2>2. ASSUME NEW i \in 1 .. m, D[i].k = "pcall"
        PROVE  /\ D[i].errfunc # 0 => Has(D, i - 1, D[i].t, "pcall")
               /\ ~D[i].allowhook => Has(D, i - 1, D[i].t, "hook")
    <3>1. D[i] = C[i] /\ i - 1 \in 0 .. m /\ i \in 1 .. Len(C)
      BY <1>2, <1>3, <1>5
    <3> QED
      BY <1>1, <1>5, <2>2, <3>1 DEF SettingsOK
  <2> QED
    BY <1>5, <2>1, <2>2 DEF SettingsOK
<1>13. OverflowOK(T2, D, q)
  <2> SUFFICES ASSUME NEW u \in Thread, T2[u].status # "dead", ~T2[u].kept,
                      T2[u].size_ci > LUAI_MAXCALLS
               PROVE  (q \in Errors /\ Cur(D) = u) \/ Has(D, m, u, "handler")
    BY <1>5 DEF OverflowOK
  <2>1. CASE u = w
    <3>1. T2[w].size_ci \in Nat /\ LUAI_MAXCALLS \in Nat
      BY <1>2, <1>6, CallsAssumption DEF StateOK
    <3> QED
      BY <1>2, <1>6, <1>9, <2>1, <3>1 DEF Ended
  <2>2. CASE u # w
    <3>1. T[u].status # "dead" /\ ~T[u].kept /\ T[u].size_ci > LUAI_MAXCALLS
      BY <1>8, <2>2 DEF SameSettings
    <3>2. (p \in Errors /\ Cur(C) = u) \/ Has(C, Len(C), u, "handler")
      BY <1>1, <3>1 DEF OverflowOK
    <3>3. Cur(C) = w
      BY <1>2, <1>3 DEF Cur
    <3> QED
      BY <1>8, <2>2, <3>2, <3>3
  <2> QED
    BY <2>1, <2>2
<1>14. ASSUME NEW i \in 1 .. m
       PROVE  Upper(T2, D, lev2, i) = Upper(T, C, lev, i)
  <2>1. D[i] = C[i] /\ i < Len(C) /\ C[i].t \in Thread
    BY <1>7
  <2>2. C[i].t # w => Len(T2[C[i].t].ci) = Len(T[C[i].t].ci)
    BY <1>8, <2>1 DEF Alike
  <2>3. CASE i < m
    <3>1. i + 1 \in 1 .. m
      BY <1>2, <2>3
    <3>2. D[i + 1] = C[i + 1] /\ lev2[i + 1] = lev[i + 1]
      BY <1>5, <1>7, <3>1
    <3>3. C[i].t = w => C[i + 1].t = w
      BY <1>6
    <3> QED
      BY <1>5, <2>1, <2>2, <2>3, <3>2, <3>3 DEF Upper
  <2>4. CASE i = m
    <3>1. Upper(T2, D, lev2, i) = Len(T2[C[i].t].ci)
      BY <1>5, <2>1, <2>4 DEF Upper
    <3>2. CASE C[i].t = w
      BY <1>6, <1>9, <2>1, <2>4, <3>1, <3>2 DEF Upper
    <3>3. CASE C[i].t # w
      BY <1>6, <2>1, <2>2, <2>4, <3>1, <3>3 DEF Upper
    <3> QED
      BY <3>2, <3>3
  <2> QED
    BY <1>2, <2>3, <2>4
<1>15. ASSUME NEW i \in 1 .. m
       PROVE  /\ C[i].t \in Thread /\ C[i].nexec \in Nat
              /\ lev[i] \in Nat /\ 1 <= lev[i] /\ lev[i] <= Len(T[C[i].t].ci)
              /\ lev[m + 1] \in Nat /\ 1 <= lev[m + 1]
              /\ Upper(T, C, lev, i) \in Nat
              /\ Upper(T, C, lev, i) <= Len(T[C[i].t].ci)
              /\ (C[i].t = w /\ C[m + 1].k # "resume") =>
                   lev[i] <= lev[m + 1] /\ Upper(T, C, lev, i) <= lev[m + 1]
  <2>1. /\ C[i].t \in Thread /\ C[i].nexec \in Nat
        /\ lev[i] \in Nat /\ 1 <= lev[i] /\ lev[i] <= Len(T[C[i].t].ci)
        /\ lev[m + 1] \in Nat /\ 1 <= lev[m + 1]
        /\ Upper(T, C, lev, i) \in Nat
        /\ Upper(T, C, lev, i) <= Len(T[C[i].t].ci)
    BY <1>3, Numbers
  <2>2. ASSUME C[i].t = w, C[m + 1].k # "resume"
        PROVE  lev[i] <= lev[m + 1] /\ Upper(T, C, lev, i) <= lev[m + 1]
    <3>1. m + 1 \in i .. Len(C) /\ m + 1 \in i + 1 .. Len(C) /\ i < Len(C)
      BY <1>3
    <3>2. C[i + 1].t = w
      BY <1>6, <2>2
    <3>3. lev[i] <= lev[m + 1] /\ lev[i + 1] <= lev[m + 1]
      BY <1>1, <1>3, <1>6, <2>2, <3>1, <3>2 DEF FramesOK
    <3> QED
      BY <2>2, <3>1, <3>2, <3>3 DEF Upper
  <2> QED
    BY <2>1, <2>2
<1>16. ASSUME NEW i \in 1 .. m
       PROVE  /\ lev[i] <= Len(T2[C[i].t].ci)
              /\ \A j \in 1 .. Upper(T, C, lev, i) : T2[C[i].t].ci[j].lua = T[C[i].t].ci[j].lua
  <2>1. CASE C[i].t = w
    <3>1. C[m + 1].k # "resume"
      BY <1>6, <2>1
    <3>2. /\ Len(T2[w].ci) = lev[m + 1]
          /\ \A j \in 1 .. lev[m + 1] : T2[w].ci[j].lua = T[w].ci[j].lua
      BY <1>9, <3>1
    <3> QED
      BY <1>15, <2>1, <3>1, <3>2
  <2>2. CASE C[i].t # w
    <3>1. Alike(T2[C[i].t], T[C[i].t]) /\ Len(T[C[i].t].ci) \in Nat
      BY <1>8, <1>15, <2>2, Numbers
    <3> QED
      BY <1>15, <3>1 DEF Alike
  <2> QED
    BY <2>1, <2>2
<1>17. FramesOK(T2, D, lev2)
  <2>1. lev2 \in [1 .. m -> Nat]
    BY <1>15 DEF lev2, Lower
  <2>2. D = <<>> => Len(T2[Main].ci) = 1
    <3>1. ASSUME D = <<>> PROVE Len(T2[Main].ci) = 1
      <4>1. m = 0 /\ C[m + 1].k # "resume" /\ w = Main /\ m + 1 = 1
        BY <1>5, <1>6, <3>1 DEF Cur
      <4>2. lev[1] = 1
        BY <1>1, <1>3, <4>1 DEF FramesOK
      <4> QED
        BY <1>9, <4>1, <4>2
    <3> QED
      BY <3>1
  <2>3. ASSUME NEW i \in 1 .. m
        PROVE  /\ 1 <= lev2[i] /\ lev2[i] <= Len(T2[D[i].t].ci)
               /\ (i = 1 \/ D[i].k = "resume") => lev2[i] = 1
               /\ lev2[i] = D[i].ci
               /\ \A j \in i .. m : D[i].t = D[j].t => lev2[i] <= lev2[j]
               /\ BlockOK(T2[D[i].t], D[i], lev2[i], Upper(T2, D, lev2, i))
    <3>1. /\ 1 <= lev[i]
          /\ (i = 1 \/ C[i].k = "resume") => lev[i] = 1
          /\ lev[i] = C[i].ci
          /\ \A j \in i .. Len(C) : C[i].t = C[j].t => lev[i] <= lev[j]
          /\ BlockOK(T[C[i].t], C[i], lev[i], Upper(T, C, lev, i))
      BY <1>1, <1>3 DEF FramesOK
    <3>2. BlockOK(T2[C[i].t], C[i], lev[i], Upper(T, C, lev, i))
      BY <1>15, <1>16, <3>1, BlockSame
    <3>3. \A j \in i .. m : j \in 1 .. m /\ j \in i .. Len(C)
      BY <1>2, <1>3
    <3>4. \A j \in i .. m : D[i].t = D[j].t => lev2[i] <= lev2[j]
      BY <1>5, <1>7, <3>1, <3>3
    <3> QED
      BY <1>5, <1>7, <1>14, <1>16, <3>1, <3>2, <3>4
  <2> QED
    BY <1>5, <2>1, <2>2, <2>3 DEF FramesOK
<1>18. BusyOK(T2, D, q, lev2)
  <2> SUFFICES ASSUME NEW i \in 1 .. m, D[i].k # "hook",
                      IF i < m THEN D[i + 1].k # "handler" ELSE q = "none"
               PROVE  /\ lev2[i] < Upper(T2, D, lev2, i)
                      /\ D[i].k = "resume" => D[i].nexec >= 1
    BY <1>5 DEF BusyOK
  <2>1. D[i] = C[i] /\ lev2[i] = lev[i] /\ i < Len(C)
    BY <1>3, <1>5, <1>7
  <2>2. C[i + 1].k # "handler"
    <3>1. CASE i < m
      <4>1. i + 1 \in 1 .. m
        BY <1>2, <3>1
      <4> QED
        BY <1>5, <3>1, <4>1
    <3>2. CASE ~(i < m)
      <4>1. i = m
        BY <1>2, <3>2
      <4> QED
        BY <1>9, <3>2, <4>1
    <3> QED
      BY <3>1, <3>2
  <2>3. lev[i] < Upper(T, C, lev, i) /\ (C[i].k = "resume" => C[i].nexec >= 1)
    BY <1>1, <1>3, <2>1, <2>2 DEF BusyOK
  <2> QED
    BY <1>14, <2>1, <2>3
<1> QED
  BY <1>2, <1>5, <1>10, <1>11, <1>12, <1>13, <1>17, <1>18 DEF Good, lev2

-----------------------------------------------------------------------------
(* Coroutines                                                              *)

(* Thread t resumes co, whose frames are seen as entered afterwards.       *)
ResumeStep(T, C, T2, e, t, co) ==
  /\ C # <<>> /\ t = Cur(C) /\ C[Len(C)].k # "hook" /\ co \in Coroutine \ Running(C)
  /\ DOMAIN T2 = Thread /\ \A u \in Thread : StateOK(T2[u])
  /\ \A u \in Thread \ {co} : Alike(T2[u], T[u]) /\ T2[u].size_ci = T[u].size_ci
  /\ T2[co].status = "ok" /\ T2[co].nCcalls = T2[co].baseCcalls /\ Len(T2[co].ci) = 1
  /\ T2[co].errfunc = 0 /\ T2[co].allowhook
  /\ T2[co].kept \/ T2[co].size_ci <= LUAI_MAXCALLS
  /\ ActOK(e) /\ e.k = "resume" /\ e.t = co /\ e.nexec = 0
  /\ e.ci = 1 /\ e.from = t

LEMMA ResumeGood ==
  ASSUME NEW T, NEW C, NEW lev, Good(T, C, "none", lev),
         NEW T2, NEW e, NEW t, NEW co, ResumeStep(T, C, T2, e, t, co)
  PROVE  Good(T2, Append(C, e), "enter", Deeper(lev, Len(C), 1))
<1> DEFINE n == Len(C)
           D == Append(C, e)
           lev2 == Deeper(lev, Len(C), 1)
<1>1. /\ ChainOK(C) /\ CountsOK(T, C) /\ StatusOK(T, C) /\ SettingsOK(T, C)
      /\ OverflowOK(T, C, "none") /\ FramesOK(T, C, lev) /\ BusyOK(T, C, "none", lev)
  BY DEF Good
<1>2. /\ n \in Nat /\ n >= 1 /\ C # <<>> /\ n \in 1 .. n
      /\ Running(C) \subseteq Thread /\ co \in Thread /\ co \notin Running(C)
      /\ \A i \in 1 .. n : C[i].t \in Running(C)
  BY <1>1, RunningThread DEF ResumeStep, Thread
<1>3. ChainOK(D)
  BY <1>1, ChainPush DEF ResumeStep, Cur
<1>4. /\ Len(D) = n + 1 /\ D # <<>> /\ D[n + 1] = e
      /\ \A i \in 1 .. n : D[i] = C[i]
      /\ Running(D) = Running(C) \cup {co}
      /\ \A u, j : j \in 0 .. n => CallsTo(D, u, j) = CallsTo(C, u, j)
      /\ \A u, k, j : j \in 0 .. n => (Has(D, j, u, k) <=> Has(C, j, u, k))
      /\ \A u, k : Has(C, n, u, k) => Has(D, n + 1, u, k)
  <2>1. n = Len(C) /\ D = Append(C, e)
    OBVIOUS
  <2> HIDE DEF n, D
  <2>2. Grown(C, D, e, n)
    BY <1>1, <2>1, AppendFacts
  <2> QED
    BY <2>2 DEF Grown, ResumeStep
<1> HIDE DEF n, D
<1>5. /\ \A i \in 1 .. n + 1 : i \in 1 .. n \/ i = n + 1
      /\ n + 1 \in 1 .. n + 1 /\ \A i \in 1 .. n : i \in 1 .. n + 1
      /\ n \in 0 .. n
  BY <1>2
<1>6. (\A i \in 1 .. n : lev2[i] = lev[i]) /\ lev2[n + 1] = 1
  <2>1. \A i \in 1 .. n : i # n + 1
    BY <1>2
  <2>2. lev2 = [i \in 1 .. n + 1 |-> IF i = n + 1 THEN 1 ELSE lev[i]]
    BY DEF Deeper, n
  <2> QED
    BY <1>5, <2>1, <2>2
<1> HIDE DEF lev2
<1>7. \A u \in Thread : u # co =>
        Alike(T2[u], T[u]) /\ T2[u].size_ci = T[u].size_ci /\ SameSettings(T2[u], T[u])
  BY DEF ResumeStep, Alike
<1>8. \A i \in 1 .. n : /\ D[i] = C[i] /\ C[i].t \in Thread /\ C[i].t # co
                        /\ i - 1 \in 0 .. n /\ i < n + 1
  BY <1>2, <1>4
<1>9. CountsOK(T2, D)
  <2>1. ASSUME NEW u \in Running(D)
        PROVE  T2[u].nCcalls = T2[u].baseCcalls + Cardinality(CallsTo(D, u, n + 1))
    <3>1. Cardinality(CallsTo(D, u, n + 1)) = Cardinality(CallsTo(C, u, n))
      <4>1. e.k \notin Calling
        BY DEF ResumeStep, Calling
      <4>2. CallsTo(D, u, n) = CallsTo(C, u, n)
        BY <1>4, <1>5
      <4>3. Cardinality(CallsTo(D, u, n + 1)) =
              IF D[n + 1].t = u /\ D[n + 1].k \in Calling
              THEN Cardinality(CallsTo(D, u, n)) + 1 ELSE Cardinality(CallsTo(D, u, n))
        BY <1>2, CallsCount
      <4> QED
        BY <1>4, <4>1, <4>2, <4>3
    <3>2. CASE u = co
      <4>1. CallsTo(C, u, n) = {}
        BY <1>8, <3>2 DEF CallsTo
      <4>2. T2[u].nCcalls = T2[u].baseCcalls /\ T2[u].baseCcalls \in Int
        BY <1>2, <3>2 DEF ResumeStep, StateOK
      <4> QED
        BY <3>1, <4>1, <4>2, FS_EmptySet
    <3>3. CASE u # co
      <4>1. u \in Running(C) /\ u \in Thread
        BY <1>2, <1>4, <3>3
      <4>2. T[u].nCcalls = T[u].baseCcalls + Cardinality(CallsTo(C, u, n))
        BY <1>1, <4>1 DEF CountsOK, n
      <4> QED
        BY <1>7, <3>1, <3>3, <4>1, <4>2 DEF SameSettings
    <3> QED
      BY <3>2, <3>3
  <2>2. ASSUME NEW i \in 1 .. n + 1, D[i].k = "pcall"
        PROVE  D[i].nCcalls = T2[D[i].t].baseCcalls + Cardinality(CallsTo(D, D[i].t, i - 1))
    <3>1. i \in 1 .. n
      BY <1>4, <1>5, <2>2 DEF ResumeStep
    <3>2. D[i] = C[i] /\ i - 1 \in 0 .. n /\ C[i].t \in Thread /\ C[i].t # co
      BY <1>8, <3>1
    <3>3. C[i].nCcalls = T[C[i].t].baseCcalls + Cardinality(CallsTo(C, C[i].t, i - 1))
      BY <1>1, <2>2, <3>1, <3>2 DEF CountsOK, n
    <3> QED
      BY <1>4, <1>7, <3>2, <3>3 DEF SameSettings
  <2> QED
    BY <1>4, <2>1, <2>2 DEF CountsOK
<1>10. StatusOK(T2, D)
  <2>1. \A u \in Running(D) : T2[u].status = "ok"
    BY <1>1, <1>2, <1>4, <1>7 DEF StatusOK, ResumeStep, SameSettings
  <2>2. ASSUME NEW u \in Thread \ Running(D)
        PROVE  /\ T2[u].status \in {"none", "ok"} => Len(T2[u].ci) = 1
               /\ T2[u].status = "yield" => Suspended(T2[u])
    <3>1. u # co /\ u \in Thread \ Running(C)
      BY <1>4
    <3>2. /\ T[u].status \in {"none", "ok"} => Len(T[u].ci) = 1
          /\ T[u].status = "yield" => Suspended(T[u])
      BY <1>1, <3>1 DEF StatusOK
    <3>3. Alike(T2[u], T[u]) /\ T2[u].status = T[u].status /\ Len(T[u].ci) \in Nat
      BY <1>7, <3>1, Numbers DEF SameSettings
    <3>4. Suspended(T[u]) => Suspended(T2[u])
      BY <3>3, SuspendedAlike
    <3> QED
      BY <3>2, <3>3, <3>4 DEF Alike
  <2> QED
    BY <2>1, <2>2 DEF StatusOK
<1>11. SettingsOK(T2, D)
  <2>1. ASSUME NEW u \in Thread, T2[u].status # "dead"
        PROVE  /\ T2[u].errfunc # 0 => Has(D, n + 1, u, "pcall")
               /\ ~T2[u].allowhook => Has(D, n + 1, u, "hook")
    <3>1. CASE u = co
      BY <3>1 DEF ResumeStep
    <3>2. CASE u # co
      <4>1. SameSettings(T2[u], T[u])
        BY <1>7, <3>2
      <4>2. /\ T[u].errfunc # 0 => Has(C, n, u, "pcall")
            /\ ~T[u].allowhook => Has(C, n, u, "hook")
        BY <1>1, <2>1, <4>1 DEF SettingsOK, SameSettings, n
      <4> QED
        BY <1>4, <4>1, <4>2 DEF SameSettings
    <3> QED
      BY <3>1, <3>2
  <2>2. ASSUME NEW i \in 1 .. n + 1, D[i].k = "pcall"
        PROVE  /\ D[i].errfunc # 0 => Has(D, i - 1, D[i].t, "pcall")
               /\ ~D[i].allowhook => Has(D, i - 1, D[i].t, "hook")
    <3>1. i \in 1 .. n
      BY <1>4, <1>5, <2>2 DEF ResumeStep
    <3>2. D[i] = C[i] /\ i - 1 \in 0 .. n
      BY <1>8, <3>1
    <3> QED
      BY <1>1, <1>4, <2>2, <3>1, <3>2 DEF SettingsOK, n
  <2> QED
    BY <1>4, <2>1, <2>2 DEF SettingsOK
<1>12. OverflowOK(T2, D, "enter")
  <2> SUFFICES ASSUME NEW u \in Thread, T2[u].status # "dead", ~T2[u].kept,
                      T2[u].size_ci > LUAI_MAXCALLS
               PROVE  Has(D, n + 1, u, "handler")
    BY <1>4 DEF OverflowOK
  <2>1. u # co
    <3>1. T2[u].size_ci \in Nat /\ LUAI_MAXCALLS \in Nat
      BY CallsAssumption DEF ResumeStep, StateOK
    <3> QED
      BY <3>1 DEF ResumeStep
  <2>2. T[u].status # "dead" /\ ~T[u].kept /\ T[u].size_ci > LUAI_MAXCALLS
    BY <1>7, <2>1 DEF SameSettings
  <2>3. Has(C, n, u, "handler")
    BY <1>1, <2>2 DEF OverflowOK, Errors, n
  <2> QED
    BY <1>4, <2>3
<1>13. ASSUME NEW i \in 1 .. n PROVE Upper(T2, D, lev2, i) = Upper(T, C, lev, i)
  <2>1. D[i] = C[i] /\ i < n + 1 /\ Len(T2[C[i].t].ci) = Len(T[C[i].t].ci) /\ C[i].t # co
    BY <1>7, <1>8 DEF Alike
  <2>2. CASE i < n
    <3>1. i + 1 \in 1 .. n
      BY <1>2, <2>2
    <3>2. D[i + 1] = C[i + 1] /\ lev2[i + 1] = lev[i + 1]
      BY <1>4, <1>6, <3>1
    <3> QED
      BY <1>4, <2>1, <2>2, <3>2 DEF Upper, n
  <2>3. CASE i = n
    <3>1. D[i + 1].t # C[i].t
      BY <1>4, <2>1, <2>3 DEF ResumeStep
    <3> QED
      BY <1>4, <2>1, <2>3, <3>1 DEF Upper, n
  <2> QED
    BY <1>2, <2>2, <2>3
<1>14. Upper(T2, D, lev2, n + 1) = 1
  BY <1>4 DEF Upper, ResumeStep
<1>15. FramesOK(T2, D, lev2)
  <2>1. \A i \in 1 .. n : /\ lev[i] \in Nat /\ 1 <= lev[i] /\ C[i].nexec \in Nat
                          /\ lev[i] <= Len(T[C[i].t].ci) /\ Len(T[C[i].t].ci) \in Nat
                          /\ Upper(T, C, lev, i) \in Nat
                          /\ Upper(T, C, lev, i) <= Len(T[C[i].t].ci)
    BY Numbers DEF n
  <2>2. lev2 \in [1 .. n + 1 -> Nat]
    BY <1>2, <1>5, <2>1 DEF Deeper, n, lev2
  <2>3. ASSUME NEW i \in 1 .. n + 1
        PROVE  /\ 1 <= lev2[i] /\ lev2[i] <= Len(T2[D[i].t].ci)
               /\ (i = 1 \/ D[i].k = "resume") => lev2[i] = 1
               /\ lev2[i] = D[i].ci
               /\ \A j \in i .. n + 1 : D[i].t = D[j].t => lev2[i] <= lev2[j]
               /\ BlockOK(T2[D[i].t], D[i], lev2[i], Upper(T2, D, lev2, i))
    <3>1. CASE i \in 1 .. n
      <4>1. /\ D[i] = C[i] /\ lev2[i] = lev[i] /\ C[i].t \in Thread /\ C[i].t # co
            /\ Alike(T2[C[i].t], T[C[i].t])
        BY <1>6, <1>7, <1>8, <3>1
      <4>2. /\ (i = 1 \/ C[i].k = "resume") => lev[i] = 1
            /\ lev[i] = C[i].ci
            /\ \A j \in i .. n : C[i].t = C[j].t => lev[i] <= lev[j]
            /\ BlockOK(T[C[i].t], C[i], lev[i], Upper(T, C, lev, i))
        BY <1>1, <3>1 DEF FramesOK, n
      <4>3. BlockOK(T2[C[i].t], C[i], lev[i], Upper(T, C, lev, i))
        <5>1. \A j \in 1 .. Upper(T, C, lev, i) : T2[C[i].t].ci[j].lua = T[C[i].t].ci[j].lua
          BY <2>1, <3>1, <4>1 DEF Alike
        <5> QED
          BY <2>1, <3>1, <4>2, <5>1, BlockSame
      <4>4. ASSUME NEW j \in i .. n + 1, D[i].t = D[j].t
            PROVE  lev2[i] <= lev2[j]
        <5>1. j # n + 1
          BY <1>4, <4>1, <4>4 DEF ResumeStep
        <5>2. j \in i .. n /\ j \in 1 .. n
          BY <1>2, <3>1, <5>1
        <5> QED
          BY <1>4, <1>6, <4>1, <4>2, <4>4, <5>2
      <4>5. lev[i] <= Len(T2[C[i].t].ci) /\ 1 <= lev[i]
        BY <2>1, <3>1, <4>1 DEF Alike
      <4> QED
        BY <1>13, <3>1, <4>1, <4>2, <4>3, <4>4, <4>5
    <3>2. CASE i = n + 1
      <4>1. /\ D[i] = e /\ lev2[i] = 1 /\ e.t = co /\ e.nexec = 0 /\ e.k = "resume" /\ e.ci = 1
            /\ Len(T2[co].ci) = 1
        BY <1>4, <1>6, <3>2 DEF ResumeStep
      <4>2. BlockOK(T2[co], e, 1, 1)
        BY <4>1 DEF BlockOK
      <4>3. \A j \in i .. n + 1 : j = i
        BY <1>2, <3>2
      <4> QED
        BY <1>14, <3>2, <4>1, <4>2, <4>3
    <3> QED
      BY <1>5, <3>1, <3>2
  <2> QED
    BY <1>4, <2>2, <2>3 DEF FramesOK
<1>16. BusyOK(T2, D, "enter", lev2)
  <2> SUFFICES ASSUME NEW i \in 1 .. n + 1, D[i].k # "hook",
                      IF i < n + 1 THEN D[i + 1].k # "handler" ELSE "enter" = "none"
               PROVE  /\ lev2[i] < Upper(T2, D, lev2, i)
                      /\ D[i].k = "resume" => D[i].nexec >= 1
    BY <1>4 DEF BusyOK
  <2>1. i \in 1 .. n
    BY <1>5
  <2>2. D[i] = C[i] /\ i < n + 1 /\ lev2[i] = lev[i]
    BY <1>6, <1>8, <2>1
  <2>3. i < n => C[i + 1].k # "handler"
    BY <1>2, <1>4, <2>1, <2>2
  <2>4. lev[i] < Upper(T, C, lev, i) /\ (C[i].k = "resume" => C[i].nexec >= 1)
    BY <1>1, <2>1, <2>2, <2>3 DEF BusyOK, n
  <2> QED
    BY <1>13, <2>1, <2>2, <2>4
<1> QED
  BY <1>3, <1>4, <1>9, <1>10, <1>11, <1>12, <1>15, <1>16 DEF Good, ResumeStep, D, n, lev2

(* A thread that is not on the C stack changes: luaB_cocreate gives it its *)
(* first state, or lua_resume refuses to run it.                           *)
LEMMA IdleGood ==
  ASSUME NEW T, NEW C, NEW p, NEW lev, Good(T, C, p, lev), NEW co \in Thread \ Running(C),
         NEW T2, Only(T2, T, co), StateOK(T2[co]), Ended(T2[co])
  PROVE  Good(T2, C, p, lev)
<1>1. /\ ChainOK(C) /\ CountsOK(T, C) /\ StatusOK(T, C) /\ SettingsOK(T, C)
      /\ OverflowOK(T, C, p) /\ FramesOK(T, C, lev) /\ BusyOK(T, C, p, lev)
  BY DEF Good
<1>2. co \notin Running(C) /\ Main \in Running(C)
  BY DEF Running
<1>3. \A u \in Thread \ {co} : T2[u] = T[u]
  BY DEF Only
<1>4. /\ Len(C) \in Nat /\ \A i \in 1 .. Len(C) : C[i].t \in Thread /\ C[i].t # co
      /\ Running(C) \subseteq Thread
  BY <1>1, <1>2, RunningThread
<1>5. CountsOK(T2, C)
  BY <1>1, <1>2, <1>3, <1>4 DEF CountsOK
<1>6. StatusOK(T2, C)
  <2>1. T2[co].status \in {"none", "ok"} => Len(T2[co].ci) = 1
    BY DEF Ended
  <2>2. T2[co].status = "yield" => Suspended(T2[co])
    BY DEF Ended
  <2> QED
    BY <1>1, <1>2, <1>3, <1>4, <2>1, <2>2 DEF StatusOK
<1>7. SettingsOK(T2, C)
  <2>1. T2[co].status # "dead" => T2[co].errfunc = 0 /\ T2[co].allowhook
    BY DEF Ended
  <2> QED
    BY <1>1, <1>3, <2>1 DEF SettingsOK
<1>8. OverflowOK(T2, C, p)
  <2>1. T2[co].status # "dead" => T2[co].kept \/ T2[co].size_ci <= LUAI_MAXCALLS
    BY DEF Ended
  <2>2. T2[co].size_ci \in Nat /\ LUAI_MAXCALLS \in Nat
    BY CallsAssumption DEF StateOK
  <2>3. T2[co].status # "dead" => T2[co].kept \/ ~(T2[co].size_ci > LUAI_MAXCALLS)
    BY <2>1, <2>2
  <2> QED
    BY <1>1, <1>3, <2>3 DEF OverflowOK
<1>9. \A i \in 1 .. Len(C) : Upper(T2, C, lev, i) = Upper(T, C, lev, i)
  BY <1>3, <1>4 DEF Upper
<1>10. FramesOK(T2, C, lev)
  <2>1. Main # co /\ Main \in Thread
    BY <1>2, <1>4
  <2>2. C = <<>> => Len(T2[Main].ci) = 1
    BY <1>1, <1>3, <2>1 DEF FramesOK
  <2>3. \A i \in 1 .. Len(C) : T2[C[i].t] = T[C[i].t]
    BY <1>3, <1>4
  <2> QED
    BY <1>1, <1>9, <2>2, <2>3 DEF FramesOK
<1>11. BusyOK(T2, C, p, lev)
  BY <1>1, <1>9 DEF BusyOK
<1> QED
  BY <1>1, <1>3, <1>5, <1>6, <1>7, <1>8, <1>10, <1>11 DEF Good, Only

-----------------------------------------------------------------------------
(* What the operations on a lua_State leave alone                          *)

(* Only the stack, its top and base and the open upvalues have changed.    *)
StackOnly(M, L) ==
  /\ DOMAIN M = Fields /\ M.ci = L.ci /\ M.size_ci = L.size_ci
  /\ SameSettings(M, L)

(* The frames may have changed too, but not their number and kind.         *)
Quiet(M, L) == StateOK(M) /\ Alike(M, L) /\ M.size_ci = L.size_ci

LEMMA StackSame ==
  ASSUME NEW L, DOMAIN L = Fields
  PROVE  StackOnly(L, L)
BY DEF StackOnly, SameSettings

LEMMA StackTrans ==
  ASSUME NEW L, NEW M, NEW N, StackOnly(M, L), StackOnly(N, M)
  PROVE  StackOnly(N, L)
BY DEF StackOnly, SameSettings

LEMMA StackQuiet ==
  ASSUME NEW L, StateOK(L), NEW M, StackOnly(M, L)
  PROVE  Quiet(M, L)
BY DEF StackOnly, SameSettings, Quiet, StateOK, Alike

LEMMA QuietTrans ==
  ASSUME NEW L, NEW M, NEW N, Quiet(M, L), Quiet(N, M)
  PROVE  Quiet(N, L)
<1>1. Len(M.ci) = Len(L.ci) /\ Len(N.ci) = Len(M.ci) /\ SameSettings(N, L)
  BY DEF Quiet, Alike, SameSettings
<1>2. \A i \in 1 .. Len(L.ci) : N.ci[i].lua = L.ci[i].lua
  BY <1>1 DEF Quiet, Alike
<1> QED
  BY <1>1, <1>2 DEF Quiet, Alike

LEMMA QuietSame ==
  ASSUME NEW L, StateOK(L)
  PROVE  Quiet(L, L)
BY DEF Quiet, Alike, SameSettings

LEMMA Fields1 ==
  ASSUME NEW L, DOMAIN L = Fields, NEW x, NEW y, NEW z
  PROVE  /\ StackOnly([L EXCEPT !.stk = x], L)
         /\ StackOnly([L EXCEPT !.top = x], L)
         /\ StackOnly([L EXCEPT !.base = x], L)
         /\ StackOnly([L EXCEPT !.openupval = x], L)
         /\ StackOnly([L EXCEPT !.stk = x, !.top = y], L)
<1>1. /\ StackOnly([L EXCEPT !.stk = x], L)
      /\ StackOnly([L EXCEPT !.top = x], L)
  BY DEF StackOnly, SameSettings, Fields
<1>2. /\ StackOnly([L EXCEPT !.base = x], L)
      /\ StackOnly([L EXCEPT !.openupval = x], L)
  BY DEF StackOnly, SameSettings, Fields
<1>3. StackOnly([L EXCEPT !.stk = x, !.top = y], L)
  BY DEF StackOnly, SameSettings, Fields
<1> QED
  BY <1>1, <1>2, <1>3

LEMMA StackOps ==
  ASSUME NEW L, DOMAIN L = Fields, NEW a, NEW b
  PROVE  /\ StackOnly(SetNil(L, a, b), L) /\ StackOnly(SetSlot(L, a, b), L)
         /\ StackOnly(CutTo(L, a), L) /\ StackOnly(Push(L, a), L)
         /\ StackOnly(tryfuncTM(L, a), L)
         /\ StackOnly(luaF_findupval(L, a), L) /\ StackOnly(luaF_close(L, a), L)
<1>1. StackOnly(SetNil(L, a, b), L) /\ StackOnly(SetSlot(L, a, b), L)
  BY Fields1 DEF SetNil, SetSlot
<1>2. StackOnly(CutTo(L, a), L)
  <2>1. StackOnly(SetNil(L, a, L.top), L)
    BY Fields1 DEF SetNil
  <2>2. StackOnly([SetNil(L, a, L.top) EXCEPT !.top = a], SetNil(L, a, L.top))
    BY <2>1, Fields1 DEF StackOnly
  <2> QED
    BY <2>1, <2>2, StackTrans DEF CutTo
<1>3. StackOnly(Push(L, a), L)
  <2> DEFINE M == SetSlot(L, L.top, a)
  <2>1. StackOnly(M, L)
    BY Fields1 DEF SetSlot
  <2> HIDE DEF M
  <2>2. StackOnly([M EXCEPT !.top = @ + 1], M)
    BY <2>1, Fields1 DEF StackOnly
  <2> QED
    BY <2>1, <2>2, StackTrans DEF Push, M
<1>4. StackOnly(tryfuncTM(L, a), L)
  BY Fields1 DEF tryfuncTM
<1>5. StackOnly(luaF_findupval(L, a), L)
  <2>1. PICK x : luaF_findupval(L, a) = IF Contains(L.openupval, a) THEN L
                                        ELSE [L EXCEPT !.openupval = x]
    BY Zenon DEF luaF_findupval
  <2> QED
    BY <2>1, Fields1, StackSame
<1>6. StackOnly(luaF_close(L, a), L)
  BY Fields1 DEF luaF_close
<1> QED
  BY <1>1, <1>2, <1>3, <1>4, <1>5, <1>6

LEMMA ArgumentsStack ==
  ASSUME NEW L, DOMAIN L = Fields, NEW func, NEW p
  PROVE  StackOnly(Arguments(L, func, p), L)
<1>1. StackOnly(adjust_varargs(L, func, p), L)
  BY Fields1 DEF adjust_varargs
<1> QED
  BY <1>1, StackOps, StackSame DEF Arguments

LEMMA ErrorObjStack ==
  ASSUME NEW L, DOMAIN L = Fields, NEW code, NEW oldtop
  PROVE  StackOnly(luaD_seterrorobj(L, code, oldtop), L)
<1> DEFINE msg == IF code = "ERRRUN" THEN L.stk[L.top - 1] ELSE Message
           M == SetSlot(L, oldtop, msg)
           N == CutTo(M, oldtop + 1)
<1>1. StackOnly(M, L)
  BY StackOps
<1>2. luaD_seterrorobj(L, code, oldtop) = [N EXCEPT !.top = oldtop + 1]
  BY DEF luaD_seterrorobj
<1> HIDE DEF M
<1>3. DOMAIN M = Fields
  BY <1>1 DEF StackOnly
<1>4. StackOnly(N, M)
  BY <1>3, StackOps
<1> HIDE DEF N
<1>5. DOMAIN N = Fields
  BY <1>4 DEF StackOnly
<1>6. StackOnly([N EXCEPT !.top = oldtop + 1], N)
  BY <1>5, Fields1
<1> QED
  BY <1>1, <1>2, <1>4, <1>6, StackTrans

LEMMA XmoveStack ==
  ASSUME NEW L, DOMAIN L = Fields, NEW M, DOMAIN M = Fields, NEW n
  PROVE  StackOnly(lua_xmove(L, M, n).from, L) /\ StackOnly(lua_xmove(L, M, n).to, M)
<1>1. lua_xmove(L, M, n).from = CutTo(L, L.top - n)
  BY DEF lua_xmove
<1>2. StackOnly(lua_xmove(L, M, n).to, M)
  BY Fields1 DEF lua_xmove
<1> QED
  BY <1>1, <1>2, StackOps

LEMMA TMresultStack ==
  ASSUME NEW L, DOMAIN L = Fields, NEW e
  PROVE  StackOnly(TMresult(L, e), L)
<1> DEFINE M == SetSlot(L, e.res, L.stk[L.top - 1])
<1>1. StackOnly(M, L)
  BY StackOps
<1> HIDE DEF M
<1>2. StackOnly(CutTo(M, L.top - 1), M)
  BY <1>1, StackOps DEF StackOnly
<1> QED
  BY <1>1, <1>2, StackTrans DEF TMresult, M

-----------------------------------------------------------------------------
(* What the operations do to the frames                                    *)

LEMMA FrameQuiet ==
  ASSUME NEW L, StateOK(L), NEW f, "lua" \in DOMAIN f, f.lua = Frame(L).lua
  PROVE  Quiet(SetFrame(L, f), L)
<1> DEFINE z == [L.ci EXCEPT ![Len(L.ci)] = f]
           n == Len(L.ci)
           M == SetFrame(L, f)
<1>1. M = [L EXCEPT !.ci = z]
  BY DEF SetFrame
<1>2. IsSeq(L.ci) /\ n > 0 /\ n \in Nat
  BY DEF StateOK, IsSeq
<1>3. /\ IsSeq(z) /\ Len(z) = n
      /\ \A i \in 1 .. n - 1 : z[i] = L.ci[i]
      /\ z[n] = f
  BY <1>2, SeqSet
<1>4. f.lua = L.ci[n].lua /\ n \in 1 .. n /\ \A i \in 1 .. n : i \in 1 .. n - 1 \/ i = n
  BY <1>2 DEF Frame, Last
<1> HIDE DEF z, n, M
<1>5. /\ DOMAIN M = Fields /\ M.ci = z /\ M.size_ci = L.size_ci
      /\ SameSettings(M, L)
  BY <1>1 DEF StateOK, Fields, SameSettings
<1>6. /\ \A i \in 1 .. n : z[i].lua = L.ci[i].lua
      /\ \A i \in 1 .. n : "lua" \in DOMAIN z[i]
      /\ \A i \in 1 .. n : L.ci[i].lua \in BOOLEAN
  <2>1. \A i \in 1 .. n : "lua" \in DOMAIN L.ci[i] /\ L.ci[i].lua \in BOOLEAN
    BY DEF StateOK, n
  <2> QED
    BY <1>3, <1>4, <2>1
<1>7. Alike(M, L)
  BY <1>3, <1>5, <1>6 DEF Alike, n
<1>8. StateOK(M)
  <2>1. 1 \in 1 .. n
    BY <1>2
  <2> QED
    BY <1>2, <1>3, <1>5, <1>6, <2>1 DEF StateOK, SameSettings, n
<1> QED
  BY <1>5, <1>7, <1>8 DEF Quiet, M

LEMMA FrameOps ==
  ASSUME NEW L, StateOK(L), NEW a, NEW b
  PROVE  /\ Quiet(SetFrame(L, [Frame(L) EXCEPT !.top = a]), L)
         /\ Quiet(MarkOpen(L, a), L) /\ Quiet(ToFrameTop(L), L)
         /\ Quiet(lua_checkstack(L, a), L) /\ Quiet(adjustresults(L, a), L)
         /\ Quiet(WithArguments(L, a, b), L) /\ Quiet(AfterCall(L, a), L)
<1>1. "lua" \in DOMAIN Frame(L)
  BY StateFacts
<1>2. Quiet(SetFrame(L, [Frame(L) EXCEPT !.top = a]), L)
  BY <1>1, FrameQuiet
<1>3. ASSUME NEW M, StateOK(M), NEW x PROVE Quiet(MarkOpen(M, x), M)
  <2>1. "lua" \in DOMAIN Frame(M)
    BY <1>3, StateFacts
  <2> QED
    BY <1>3, <2>1, FrameQuiet DEF MarkOpen
<1>4. Quiet(ToFrameTop(L), L)
  <2>1. StackOnly(SetNil(L, Frame(L).top, L.top), L)
    BY StackOps DEF StateOK
  <2>2. StackOnly(ToFrameTop(L), SetNil(L, Frame(L).top, L.top))
    BY <2>1, Fields1 DEF StackOnly, ToFrameTop
  <2>3. StackOnly(ToFrameTop(L), L)
    BY <2>1, <2>2, StackTrans
  <2> QED
    BY <2>3, StackQuiet
<1>5. Quiet(lua_checkstack(L, a), L)
  BY <1>1, FrameQuiet, QuietSame DEF lua_checkstack
<1>6. Quiet(adjustresults(L, a), L)
  BY <1>1, FrameQuiet, QuietSame DEF adjustresults
<1>7. Quiet(WithArguments(L, a, b), L)
  <2> DEFINE M == IF b = 0 THEN L ELSE CutTo(L, a + b)
  <2>1. Quiet(M, L)
    BY StackOps, StackQuiet, QuietSame DEF StateOK
  <2>2. WithArguments(L, a, b) = MarkOpen(M, FALSE)
    BY DEF WithArguments
  <2> HIDE DEF M
  <2>3. Quiet(MarkOpen(M, FALSE), M)
    BY <1>3, <2>1 DEF Quiet
  <2> QED
    BY <2>1, <2>2, <2>3, QuietTrans
<1>8. Quiet(AfterCall(L, a), L)
  BY <1>3, <1>4 DEF AfterCall
<1> QED
  BY <1>2, <1>3, <1>4, <1>5, <1>6, <1>7, <1>8

(* The array grows up to twice the limit, and past the limit only with an  *)
(* error.                                                                  *)
Resized(M, L) == StateOK(M) /\ Alike(M, L)

LEMMA IncCi ==
  ASSUME NEW L, StateOK(L), NEW inc, inc = inc_ci(L), NEW M, M = [L EXCEPT !.size_ci = inc.size]
  PROVE  /\ inc.err \in {"none", "overflow", "ERRERR"} => Resized(M, L)
         /\ inc.err = "none" =>
              /\ Len(M.ci) < M.size_ci
              /\ M.size_ci > LUAI_MAXCALLS => M.size_ci = L.size_ci
<1>1. /\ Len(L.ci) \in Nat /\ L.size_ci \in Nat /\ Len(L.ci) >= 1
      /\ Len(L.ci) <= L.size_ci /\ L.size_ci <= 2 * LUAI_MAXCALLS
      /\ LUAI_MAXCALLS \in Nat
  BY CallsAssumption DEF StateOK, IsSeq
<1>2. /\ inc.size \in Nat /\ Len(L.ci) <= inc.size /\ inc.size <= 2 * LUAI_MAXCALLS
      /\ inc.err = "none" =>
           /\ Len(L.ci) < inc.size
           /\ inc.size > LUAI_MAXCALLS => inc.size = L.size_ci
  <2>1. CASE Len(L.ci) < L.size_ci
    <3>1. inc = [size |-> L.size_ci, err |-> "none"]
      BY <1>1, <2>1 DEF inc_ci
    <3> QED
      BY <1>1, <2>1, <3>1
  <2>2. CASE Len(L.ci) = L.size_ci /\ L.size_ci > LUAI_MAXCALLS
    <3>1. inc = [size |-> L.size_ci, err |-> "ERRERR"]
      BY <1>1, <2>2 DEF inc_ci
    <3> QED
      BY <1>1, <2>2, <3>1
  <2>3. CASE Len(L.ci) = L.size_ci /\ L.size_ci <= LUAI_MAXCALLS
    <3>1. inc = [size |-> 2 * L.size_ci,
                 err |-> IF 2 * L.size_ci > LUAI_MAXCALLS THEN "overflow" ELSE "none"]
      BY <1>1, <2>3 DEF inc_ci
    <3>2. inc.size = 2 * L.size_ci /\ (inc.err = "none" => ~(2 * L.size_ci > LUAI_MAXCALLS))
      BY <3>1
    <3> QED
      BY <1>1, <2>3, <3>2
  <2> QED
    BY <1>1, <2>1, <2>2, <2>3
<1>3. DOMAIN M = Fields /\ M.ci = L.ci /\ M.size_ci = inc.size /\ SameSettings(M, L)
  BY DEF StateOK, Fields, SameSettings
<1>4. StateOK(M)
  BY <1>2, <1>3 DEF StateOK, SameSettings
<1>5. Alike(M, L)
  BY <1>3 DEF Alike
<1> QED
  BY <1>2, <1>3, <1>4, <1>5 DEF Resized

(* M is L with a frame more, of a Lua function or of C code.               *)
Framed(M, L, lua) ==
  /\ StateOK(M) /\ SameSettings(M, L) /\ M.size_ci = L.size_ci
  /\ Len(M.ci) = Len(L.ci) + 1 /\ M.ci[Len(L.ci) + 1].lua = lua
  /\ \A i \in 1 .. Len(L.ci) : M.ci[i].lua = L.ci[i].lua

LEMMA FrameAdded ==
  ASSUME NEW L, StateOK(L), Len(L.ci) < L.size_ci, NEW f, "lua" \in DOMAIN f,
         f.lua \in BOOLEAN, NEW M, DOMAIN M = Fields, M.ci = Append(L.ci, f),
         M.size_ci = L.size_ci, SameSettings(M, L)
  PROVE  Framed(M, L, f.lua)
<1>1. /\ IsSeq(M.ci) /\ Len(M.ci) = Len(L.ci) + 1 /\ Len(L.ci) \in Nat
      /\ \A i \in 1 .. Len(L.ci) : M.ci[i] = L.ci[i]
      /\ M.ci[Len(L.ci) + 1] = f
  BY SeqAppend DEF StateOK
<1>2. /\ \A i \in 1 .. Len(L.ci) : "lua" \in DOMAIN L.ci[i] /\ L.ci[i].lua \in BOOLEAN
      /\ Len(L.ci) >= 1 /\ ~L.ci[1].lua /\ L.size_ci \in Nat
  BY DEF StateOK
<1>3. \A i \in 1 .. Len(L.ci) + 1 : i \in 1 .. Len(L.ci) \/ i = Len(L.ci) + 1
  BY <1>1
<1>4. \A i \in 1 .. Len(M.ci) : "lua" \in DOMAIN M.ci[i] /\ M.ci[i].lua \in BOOLEAN
  BY <1>1, <1>2, <1>3
<1>5. 1 \in 1 .. Len(L.ci) /\ ~M.ci[1].lua
  BY <1>1, <1>2
<1>6. StateOK(M)
  BY <1>1, <1>2, <1>4, <1>5 DEF StateOK, SameSettings
<1> QED
  BY <1>1, <1>6 DEF Framed

LEMMA NewFrames ==
  ASSUME NEW L, StateOK(L), Len(L.ci) < L.size_ci, NEW func, NEW p, NEW nresults
  PROVE  /\ Framed(LuaFrame(L, func, p, nresults), L, TRUE)
         /\ Framed(CFrame(L, func, nresults), L, FALSE)
<1>1. Framed(LuaFrame(L, func, p, nresults), L, TRUE)
  <2> DEFINE base == BaseOf(L, func, p)
             top == base + p.maxstacksize
             N == SetNil(L, top, L.top)
             f == [func |-> func, base |-> base, top |-> top, lua |-> TRUE,
                   nresults |-> nresults, numparams |-> p.numparams,
                   is_vararg |-> p.is_vararg, open |-> FALSE]
             M == [N EXCEPT !.ci = Append(@, f), !.base = base, !.top = top]
  <2>1. StackOnly(N, L)
    BY StackOps DEF StateOK
  <2>2. LuaFrame(L, func, p, nresults) = M
    BY DEF LuaFrame
  <2>3. "lua" \in DOMAIN f /\ f.lua = TRUE
    OBVIOUS
  <2> HIDE DEF base, top, N, f
  <2>4. DOMAIN M = Fields /\ M.ci = Append(N.ci, f) /\ M.size_ci = N.size_ci /\ SameSettings(M, N)
    BY <2>1 DEF StackOnly, Fields, SameSettings
  <2> HIDE DEF M
  <2>5. M.ci = Append(L.ci, f) /\ M.size_ci = L.size_ci /\ SameSettings(M, L)
    BY <2>1, <2>4 DEF StackOnly, SameSettings
  <2> QED
    BY <2>2, <2>3, <2>4, <2>5, FrameAdded
<1>2. Framed(CFrame(L, func, nresults), L, FALSE)
  <2> DEFINE f == [func |-> func, base |-> func + 1,
                   top |-> L.top + LUA_MINSTACK, lua |-> FALSE,
                   nresults |-> nresults, numparams |-> 0,
                   is_vararg |-> FALSE, open |-> FALSE]
             M == [L EXCEPT !.ci = Append(@, f), !.base = func + 1]
  <2>1. CFrame(L, func, nresults) = M
    BY DEF CFrame
  <2>2. "lua" \in DOMAIN f /\ f.lua = FALSE
    OBVIOUS
  <2> HIDE DEF f
  <2>3. DOMAIN M = Fields /\ M.ci = Append(L.ci, f) /\ M.size_ci = L.size_ci /\ SameSettings(M, L)
    BY DEF StateOK, Fields, SameSettings
  <2> HIDE DEF M
  <2> QED
    BY <2>1, <2>2, <2>3, FrameAdded
<1> QED
  BY <1>1, <1>2

(* M is L cut to its lowest n frames.                                      *)
Cut(M, L, n) ==
  /\ Len(M.ci) = n /\ \A i \in 1 .. n : M.ci[i].lua = L.ci[i].lua

LEMMA FramesCut ==
  ASSUME NEW L, StateOK(L), NEW n \in 1 .. Len(L.ci), NEW s, IsSeq(s), Len(s) = n,
         \A i \in 1 .. n : s[i] = L.ci[i]
  PROVE  /\ Len(s) >= 1 /\ ~s[1].lua
         /\ \A i \in 1 .. Len(s) : "lua" \in DOMAIN s[i] /\ s[i].lua \in BOOLEAN
         /\ \A i \in 1 .. n : s[i].lua = L.ci[i].lua
         /\ Len(s) <= Len(L.ci) /\ Len(s) \in Nat /\ Len(L.ci) \in Nat
<1>1. Len(L.ci) \in Nat /\ 1 \in 1 .. n /\ \A i \in 1 .. n : i \in 1 .. Len(L.ci)
  BY StateFacts
<1>2. /\ \A i \in 1 .. Len(L.ci) : "lua" \in DOMAIN L.ci[i] /\ L.ci[i].lua \in BOOLEAN
      /\ ~L.ci[1].lua
  BY DEF StateOK
<1> QED
  BY <1>1, <1>2

LEMMA PosCall ==
  ASSUME NEW L, StateOK(L), Len(L.ci) >= 2, NEW first
  PROVE  LET M == luaD_poscall(L, first)
         IN /\ StateOK(M) /\ SameSettings(M, L) /\ M.size_ci = L.size_ci
            /\ Cut(M, L, Len(L.ci) - 1)
<1> DEFINE M == luaD_poscall(L, first)
           s == Front(L.ci)
<1>1. Len(L.ci) \in Nat /\ Len(L.ci) > 0 /\ IsSeq(L.ci) /\ Len(L.ci) - 1 \in 1 .. Len(L.ci)
  BY StateFacts
<1>2. IsSeq(s) /\ Len(s) = Len(L.ci) - 1 /\ \A i \in 1 .. Len(L.ci) - 1 : s[i] = L.ci[i]
  BY <1>1, SeqFront
<1> HIDE DEF s
<1>3. /\ Len(s) >= 1 /\ ~s[1].lua
      /\ \A i \in 1 .. Len(s) : "lua" \in DOMAIN s[i] /\ s[i].lua \in BOOLEAN
      /\ \A i \in 1 .. Len(L.ci) - 1 : s[i].lua = L.ci[i].lua
      /\ Len(s) <= Len(L.ci) /\ Len(s) \in Nat
  <2> DEFINE n == Len(L.ci) - 1
  <2>1. n \in 1 .. Len(L.ci) /\ Len(s) = n /\ \A i \in 1 .. n : s[i] = L.ci[i]
    BY <1>1, <1>2
  <2> HIDE DEF n
  <2>2. /\ Len(s) >= 1 /\ ~s[1].lua
        /\ \A i \in 1 .. Len(s) : "lua" \in DOMAIN s[i] /\ s[i].lua \in BOOLEAN
        /\ \A i \in 1 .. n : s[i].lua = L.ci[i].lua
        /\ Len(s) <= Len(L.ci) /\ Len(s) \in Nat
    BY <1>2, <2>1, FramesCut
  <2> QED
    BY <2>2 DEF n
<1>4. DOMAIN M = Fields /\ M.ci = s /\ M.size_ci = L.size_ci /\ SameSettings(M, L)
  <2>1. PICK x, y, z :
          luaD_poscall(L, first) = [L EXCEPT !.stk = x, !.ci = Front(@), !.base = y, !.top = z]
    BY Zenon DEF luaD_poscall
  <2> QED
    BY <2>1 DEF StateOK, Fields, SameSettings, s
<1> HIDE DEF M
<1>5. Len(s) <= L.size_ci
  BY <1>1, <1>3 DEF StateOK
<1>6. StateOK(M)
  BY <1>2, <1>3, <1>4, <1>5 DEF StateOK, SameSettings
<1>7. Cut(M, L, Len(L.ci) - 1)
  BY <1>2, <1>3, <1>4 DEF Cut
<1> QED
  BY <1>4, <1>6, <1>7 DEF M

(* A tail call: the new frame, the last but one before, takes the place of *)
(* its caller's.                                                           *)
LEMMA TailCall ==
  ASSUME NEW L, StateOK(L), Len(L.ci) >= 3
  PROVE  LET M == TailFrame(L)
             n == Len(L.ci) - 1
         IN /\ StateOK(M) /\ SameSettings(M, L) /\ M.size_ci = L.size_ci
            /\ Len(M.ci) = n /\ M.ci[n].lua = L.ci[n + 1].lua
            /\ \A i \in 1 .. n - 1 : M.ci[i].lua = L.ci[i].lua
<1> DEFINE M == TailFrame(L)
           n == Len(L.ci) - 1
           new == L.ci[n + 1]
           old == L.ci[n]
           d == new.func - old.func
           f == [new EXCEPT !.func = old.func, !.base = @ - d, !.top = L.top - d,
                            !.nresults = old.nresults]
           s == Front(Front(L.ci))
           N == luaF_close(L, old.base)
<1>1. Len(L.ci) \in Nat /\ Len(L.ci) > 0 /\ IsSeq(L.ci) /\ n \in Nat /\ n + 1 = Len(L.ci)
  BY StateFacts
<1>2. StackOnly(N, L)
  BY StackOps DEF StateOK
<1>3. /\ IsSeq(s) /\ Len(s) = n - 1 /\ \A i \in 1 .. n - 1 : s[i] = L.ci[i]
  <2>1. /\ IsSeq(Front(L.ci)) /\ Len(Front(L.ci)) = n
        /\ \A i \in 1 .. n : Front(L.ci)[i] = L.ci[i]
    BY <1>1, SeqFront
  <2>2. /\ IsSeq(s) /\ Len(s) = n - 1 /\ \A i \in 1 .. n - 1 : s[i] = Front(L.ci)[i]
    BY <1>1, <2>1, SeqFront
  <2> QED
    BY <1>1, <2>1, <2>2
<1>4. "lua" \in DOMAIN f /\ f.lua = new.lua /\ new.lua \in BOOLEAN
  <2>1. n + 1 \in 1 .. Len(L.ci)
    BY <1>1
  <2>2. "lua" \in DOMAIN new /\ new.lua \in BOOLEAN
    BY <2>1 DEF StateOK
  <2> QED
    BY <2>2
<1>5. /\ IsSeq(Append(s, f)) /\ Len(Append(s, f)) = n
      /\ \A i \in 1 .. n - 1 : Append(s, f)[i] = L.ci[i]
      /\ Append(s, f)[n] = f
  <2> HIDE DEF s, f
  <2> QED
    BY <1>1, <1>3, SeqAppend
<1>6. M.ci = Append(s, f) /\ DOMAIN M = Fields /\ M.size_ci = N.size_ci /\ SameSettings(M, N)
  <2>1. N.ci = L.ci /\ DOMAIN N = Fields
    BY <1>2 DEF StackOnly
  <2>2. Last(L.ci) = new /\ L.ci[Len(L.ci) - 1] = old
    BY <1>1 DEF Last
  <2> DEFINE k == [i \in Slot |-> IF old.func <= i /\ i < L.top - d THEN N.stk[i + d]
                                  ELSE IF L.top - d <= i /\ i < L.top THEN Nil
                                  ELSE N.stk[i]]
  <2>3. M = [N EXCEPT !.stk = k, !.ci = Append(s, f), !.base = new.base - d, !.top = L.top - d]
    BY <2>1, <2>2 DEF TailFrame, Fields
  <2> HIDE DEF k, M, N, s, f, new, old, d
  <2> QED
    BY <2>1, <2>3 DEF Fields, SameSettings
<1> HIDE DEF M, N, s, f
<1>7. M.size_ci = L.size_ci /\ SameSettings(M, L)
  BY <1>2, <1>6 DEF StackOnly, SameSettings
<1>8. /\ \A i \in 1 .. n - 1 : /\ M.ci[i] = L.ci[i] /\ "lua" \in DOMAIN L.ci[i]
                               /\ L.ci[i].lua \in BOOLEAN
      /\ M.ci[n] = f /\ \A i \in 1 .. n : i \in 1 .. n - 1 \/ i = n
      /\ 1 \in 1 .. n - 1 /\ ~L.ci[1].lua
  <2>1. \A i \in 1 .. n - 1 : i \in 1 .. Len(L.ci)
    BY <1>1
  <2>2. 1 \in 1 .. n - 1 /\ \A i \in 1 .. n : i \in 1 .. n - 1 \/ i = n
    BY <1>1
  <2> QED
    BY <1>5, <1>6, <2>1, <2>2 DEF StateOK
<1>9. n <= L.size_ci
  BY <1>1 DEF StateOK
<1>10. \A i \in 1 .. n : "lua" \in DOMAIN M.ci[i] /\ M.ci[i].lua \in BOOLEAN
  BY <1>4, <1>8
<1>11. StateOK(M)
  <2>1. /\ IsSeq(M.ci) /\ Len(M.ci) >= 1 /\ ~M.ci[1].lua /\ Len(M.ci) = n
    BY <1>1, <1>5, <1>6, <1>8
  <2> QED
    BY <1>6, <1>7, <1>9, <1>10, <2>1 DEF StateOK, SameSettings
<1> QED
  BY <1>4, <1>5, <1>6, <1>7, <1>8, <1>11 DEF M

(* The error path of luaD_pcall.                                           *)
LEMMA Recovered ==
  ASSUME NEW L, StateOK(L), NEW e, e.ci \in 1 .. Len(L.ci), e.nCcalls \in Int,
         e.allowhook \in BOOLEAN, NEW code
  PROVE  LET M == Recover(L, e, code)
         IN /\ StateOK(M) /\ Cut(M, L, e.ci)
            /\ M.status = L.status /\ M.baseCcalls = L.baseCcalls
            /\ M.nCcalls = e.nCcalls /\ M.errfunc = e.errfunc
            /\ M.allowhook = e.allowhook
            /\ M.kept \/ M.size_ci <= LUAI_MAXCALLS
<1> DEFINE N1 == luaF_close(L, e.oldtop)
           N == luaD_seterrorobj(N1, code, e.oldtop)
           s == SubSeq(L.ci, 1, e.ci)
           kept == L.size_ci > LUAI_MAXCALLS /\ e.ci >= LUAI_MAXCALLS
           R == [N EXCEPT !.nCcalls = e.nCcalls, !.ci = SubSeq(@, 1, e.ci),
                          !.base = N.ci[e.ci].base, !.allowhook = e.allowhook,
                          !.errfunc = e.errfunc, !.kept = kept]
           M == restore_stack_limit(R)
<1>1. /\ Len(L.ci) \in Nat /\ Len(L.ci) >= 1 /\ IsSeq(L.ci) /\ DOMAIN L = Fields
      /\ e.ci \in 0 .. Len(L.ci)
  BY StateFacts
<1>2. /\ L.size_ci \in Nat /\ LUAI_MAXCALLS \in Nat /\ Len(L.ci) <= L.size_ci
      /\ L.size_ci <= 2 * LUAI_MAXCALLS /\ L.status \in {"none", "ok", "yield", "dead"}
      /\ L.baseCcalls \in Int
  BY CallsAssumption DEF StateOK
<1>3. Recover(L, e, code) = M
  BY DEF Recover
<1>4. StackOnly(N, L)
  <2>1. StackOnly(N1, L)
    BY <1>1, StackOps
  <2> HIDE DEF N1
  <2>2. StackOnly(N, N1)
    BY <2>1, ErrorObjStack DEF StackOnly
  <2> QED
    BY <2>1, <2>2, StackTrans
<1>5. IsSeq(s) /\ Len(s) = e.ci /\ \A i \in 1 .. e.ci : s[i] = L.ci[i]
  BY <1>1, SeqCut
<1> HIDE DEF N
<1>6. /\ DOMAIN R = Fields /\ R.ci = s /\ R.size_ci = L.size_ci
      /\ R.status = L.status /\ R.baseCcalls = L.baseCcalls
      /\ R.nCcalls = e.nCcalls /\ R.errfunc = e.errfunc
      /\ R.allowhook = e.allowhook /\ R.kept = kept
  <2>1. /\ DOMAIN N = Fields /\ N.ci = L.ci /\ N.size_ci = L.size_ci
        /\ N.status = L.status /\ N.baseCcalls = L.baseCcalls
    BY <1>4 DEF StackOnly, SameSettings
  <2> QED
    BY <2>1 DEF Fields
<1> HIDE DEF R, s
<1>7. /\ Len(s) >= 1 /\ ~s[1].lua
      /\ \A i \in 1 .. Len(s) : "lua" \in DOMAIN s[i] /\ s[i].lua \in BOOLEAN
      /\ \A i \in 1 .. e.ci : s[i].lua = L.ci[i].lua
      /\ Len(s) <= Len(L.ci) /\ Len(s) \in Nat
  BY <1>5, FramesCut
<1>8. /\ DOMAIN M = Fields /\ M.ci = s
      /\ M.status = L.status /\ M.baseCcalls = L.baseCcalls
      /\ M.nCcalls = e.nCcalls /\ M.errfunc = e.errfunc
      /\ M.allowhook = e.allowhook /\ M.kept = kept
      /\ M.size_ci = IF L.size_ci > LUAI_MAXCALLS /\ e.ci < LUAI_MAXCALLS
                     THEN LUAI_MAXCALLS ELSE L.size_ci
  <2>1. M = IF L.size_ci > LUAI_MAXCALLS /\ e.ci < LUAI_MAXCALLS
            THEN [R EXCEPT !.size_ci = LUAI_MAXCALLS] ELSE R
    BY <1>5, <1>6 DEF restore_stack_limit
  <2>2. CASE L.size_ci > LUAI_MAXCALLS /\ e.ci < LUAI_MAXCALLS
    BY <1>6, <2>1, <2>2 DEF Fields
  <2>3. CASE ~(L.size_ci > LUAI_MAXCALLS /\ e.ci < LUAI_MAXCALLS)
    BY <1>6, <2>1, <2>3
  <2> QED
    BY <2>2, <2>3
<1> HIDE DEF M
<1>9. /\ M.size_ci \in Nat /\ Len(s) <= M.size_ci /\ M.size_ci <= 2 * LUAI_MAXCALLS
      /\ M.kept \/ M.size_ci <= LUAI_MAXCALLS
  <2>1. e.ci \in Nat /\ Len(s) = e.ci
    BY <1>5, <1>7
  <2>2. M.size_ci = IF L.size_ci > LUAI_MAXCALLS /\ e.ci < LUAI_MAXCALLS
                    THEN LUAI_MAXCALLS ELSE L.size_ci
    BY <1>8
  <2>3. M.size_ci \in Nat /\ Len(s) <= M.size_ci /\ M.size_ci <= 2 * LUAI_MAXCALLS
    BY <1>2, <1>7, <2>1, <2>2
  <2>4. ~(M.size_ci <= LUAI_MAXCALLS) => kept
    BY <1>2, <2>1, <2>2
  <2>5. M.kept = kept
    BY <1>8
  <2> QED
    BY <2>3, <2>4, <2>5, Zenon
<1>10. StateOK(M)
  BY <1>2, <1>5, <1>7, <1>8, <1>9 DEF StateOK
<1> QED
  BY <1>3, <1>5, <1>7, <1>8, <1>9, <1>10 DEF Cut

-----------------------------------------------------------------------------
(* Raising errors and entering functions                                   *)

LEMMA InvNext ==
  ASSUME NEW lev, Good(th', cst', pend', lev)
  PROVE  CallsInv'
BY DEF CallsInv, Good, FramesOK

LEMMA PutFacts ==
  ASSUME NEW ts, DOMAIN ts = Thread, NEW t \in Thread, NEW L
  PROVE  LET T == [ts EXCEPT ![t] = L]
         IN DOMAIN T = Thread /\ T[t] = L /\ \A u \in Thread \ {t} : T[u] = ts[u]
OBVIOUS

LEMMA PutTwo ==
  ASSUME NEW ts, DOMAIN ts = Thread, NEW t \in Thread, NEW u \in Thread, t # u,
         NEW L, NEW M
  PROVE  LET T == [ts EXCEPT ![t] = L, ![u] = M]
         IN /\ DOMAIN T = Thread /\ T[t] = L /\ T[u] = M
            /\ \A v \in Thread \ {t, u} : T[v] = ts[v]
  OBVIOUS

(* The running thread t of the threads ts and the C stack cs is now L.     *)
Now(ts, t, L, cs, p, lev) ==
  /\ DOMAIN ts = Thread /\ t \in Thread /\ cs # <<>> /\ t = Cur(cs)
  /\ Good([ts EXCEPT ![t] = L], cs, p, lev)

LEMMA NowFacts ==
  ASSUME NEW ts, NEW t, NEW L, NEW cs, NEW p, NEW lev, Now(ts, t, L, cs, p, lev)
  PROVE  /\ StateOK(L) /\ ChainOK(cs) /\ Len(cs) \in Nat /\ Len(cs) \in 1 .. Len(cs)
         /\ t = cs[Len(cs)].t /\ t \in Thread /\ DOMAIN ts = Thread /\ cs # <<>>
<1>1. DOMAIN ts = Thread /\ t \in Thread /\ cs # <<>> /\ t = Cur(cs) /\ ChainOK(cs)
  BY DEF Now, Good
<1>2. Len(cs) \in Nat /\ Len(cs) \in 1 .. Len(cs)
  BY <1>1, RunningThread
<1>3. StateOK(L)
  BY <1>1 DEF Now, Good
<1> QED
  BY <1>1, <1>2, <1>3 DEF Cur

(* Nothing the invariant looks at changes, or an error is raised.          *)
LEMMA NowQuiet ==
  ASSUME NEW ts, NEW t, NEW L, NEW cs, NEW p, NEW lev, Now(ts, t, L, cs, p, lev),
         NEW M, StateOK(M), Alike(M, L), NEW q,
         (q = p /\ M.size_ci = L.size_ci) \/ q \in Errors
  PROVE  Now(ts, t, M, cs, q, lev)
<1> DEFINE T == [ts EXCEPT ![t] = L]
           T2 == [ts EXCEPT ![t] = M]
<1>1. /\ DOMAIN ts = Thread /\ t \in Thread /\ cs # <<>> /\ t = Cur(cs)
      /\ Good(T, cs, p, lev)
  BY DEF Now
<1>2. DOMAIN T2 = Thread /\ T2[t] = M /\ T[t] = L /\ \A u \in Thread \ {t} : T2[u] = T[u]
  BY <1>1
<1> HIDE DEF T, T2
<1>3. \A u \in Thread : StateOK(T2[u]) /\ Alike(T2[u], T[u])
  BY <1>1, <1>2 DEF Good, Alike, SameSettings
<1>4. q \in Errors \cup {"none", "enter"}
  BY <1>1 DEF Good
<1>5. \A u \in Thread : T2[u].size_ci > LUAI_MAXCALLS =>
        T2[u].size_ci = T[u].size_ci \/ (q \in Errors /\ Cur(cs) = u)
  BY <1>1, <1>2
<1>6. Good(T2, cs, q, lev)
  BY <1>1, <1>2, <1>3, <1>4, <1>5, QuietGood
<1> QED
  BY <1>1, <1>6 DEF Now, T2

LEMMA GoInv ==
  ASSUME NEW ts, NEW t, NEW L, NEW cs, NEW lev, Now(ts, t, L, cs, "none", lev),
         Go(ts, t, L, cs)
  PROVE  CallsInv'
BY InvNext DEF Now, Go

LEMMA ThrowInv ==
  ASSUME NEW ts, NEW t, NEW L, NEW cs, NEW p, NEW lev, Now(ts, t, L, cs, p, lev),
         NEW M, StateOK(M), Alike(M, L), NEW q \in Errors, Throw(ts, t, M, cs, q)
  PROVE  CallsInv'
<1>1. Now(ts, t, M, cs, q, lev)
  BY NowQuiet
<1> QED
  BY <1>1, InvNext DEF Now, Throw

LEMMA RunErrorInv ==
  ASSUME NEW ts, NEW t, NEW L, NEW cs, NEW p, NEW lev, Now(ts, t, L, cs, p, lev),
         NEW M, StateOK(M), Alike(M, L), RunError(ts, t, M, cs)
  PROVE  CallsInv'
<1> DEFINE M1 == Push(M, Message)
           M2 == IF isLua(M) THEN Push(M1, Message) ELSE M1
<1>1. StackOnly(M1, M)
  BY StackOps, StateFacts
<1>2. Throw(ts, t, M2, cs, "message")
  BY DEF RunError
<1> HIDE DEF M1
<1>3. DOMAIN M1 = Fields
  BY <1>1 DEF StackOnly
<1>4. StackOnly(M2, M)
  BY <1>1, <1>3, StackOps, StackTrans
<1> HIDE DEF M2
<1>5. StateOK(M2) /\ Alike(M2, M)
  BY <1>4, StackQuiet DEF Quiet
<1>6. Now(ts, t, M, cs, "message", lev)
  BY NowQuiet DEF Errors
<1>7. "message" \in Errors
  BY DEF Errors
<1> QED
  BY <1>2, <1>5, <1>6, <1>7, ThrowInv

(* The activation on top of cs has no C function running: it can call one. *)
Free(L, cs, lev) ==
  /\ cs[Len(cs)].k # "hook"
  /\ Len(L.ci) = lev[Len(cs)] + cs[Len(cs)].nexec

LEMMA FreeFacts ==
  ASSUME NEW ts, NEW t, NEW L, NEW cs, NEW p, NEW lev, Now(ts, t, L, cs, p, lev),
         Free(L, cs, lev)
  PROVE  LET n == Len(cs)
         IN /\ lev[n] \in Nat /\ cs[n].nexec \in Nat /\ 1 <= lev[n]
            /\ \A f \in lev[n] + 1 .. lev[n] + cs[n].nexec : L.ci[f].lua
            /\ ActOK(cs[n])
            /\ p = "none" => cs[n].nexec >= 1
<1> DEFINE n == Len(cs)
           T == [ts EXCEPT ![t] = L]
<1>1. /\ n \in 1 .. n /\ t = cs[n].t /\ ChainOK(cs)
      /\ T[t] = L /\ Good(T, cs, p, lev) /\ n \in Nat
  <2>1. n \in 1 .. n /\ t = cs[n].t /\ ChainOK(cs) /\ n \in Nat
    BY NowFacts
  <2>2. DOMAIN ts = Thread /\ t \in Thread /\ Good(T, cs, p, lev)
    BY DEF Now
  <2> QED
    BY <2>1, <2>2
<1> HIDE DEF T
<1>2. lev[n] \in Nat /\ cs[n].nexec \in Nat /\ 1 <= lev[n]
  BY <1>1, Numbers
<1>3. ActOK(cs[n])
  BY <1>1 DEF ChainOK, ActsOK
<1>4. Upper(T, cs, lev, n) = Len(L.ci)
  BY <1>1 DEF Upper
<1>5. BlockOK(L, cs[n], lev[n], Len(L.ci))
  BY <1>1, <1>4 DEF Good, FramesOK
<1>6. \A f \in lev[n] + 1 .. lev[n] + cs[n].nexec : L.ci[f].lua
  BY <1>5 DEF BlockOK
<1>7. ASSUME p = "none" PROVE cs[n].nexec >= 1
  <2>1. lev[n] < Len(L.ci)
    BY <1>1, <1>4, <1>7 DEF Good, BusyOK, Free
  <2> QED
    BY <1>2, <2>1 DEF Free
<1> QED
  BY <1>2, <1>3, <1>6, <1>7

(* L gets a frame more: a Lua function, in luaV_execute, or a C function.  *)
LEMMA FrameGood ==
  ASSUME NEW ts, NEW t, NEW L, NEW cs, NEW p \in {"none", "enter"}, NEW lev,
         Now(ts, t, L, cs, p, lev), Free(L, cs, lev),
         NEW K, Resized(K, L), K.size_ci > LUAI_MAXCALLS => K.size_ci = L.size_ci,
         NEW lua \in BOOLEAN, NEW M, Framed(M, K, lua),
         lua \/ p = "none" \/ cs[Len(cs)].k # "resume",
         NEW D, D = IF lua THEN Executing(cs, 1) ELSE cs
  PROVE  Good([ts EXCEPT ![t] = M], D, "none", lev)
<1> DEFINE n == Len(cs)
           T == [ts EXCEPT ![t] = L]
           T2 == [ts EXCEPT ![t] = M]
<1>1. /\ n \in 1 .. n /\ n \in Nat /\ t = cs[n].t /\ ChainOK(cs) /\ StateOK(L)
      /\ Only(T2, T, t) /\ T[t] = L /\ T2[t] = M
      /\ cs # <<>> /\ Good(T, cs, p, lev)
  <2>1. n \in 1 .. n /\ n \in Nat /\ t = cs[n].t /\ ChainOK(cs) /\ StateOK(L)
    BY NowFacts
  <2>2. DOMAIN ts = Thread /\ t \in Thread /\ cs # <<>> /\ Good(T, cs, p, lev)
    BY DEF Now
  <2> QED
    BY <2>1, <2>2 DEF Only
<1> HIDE DEF T, T2
<1>2. /\ lev[n] \in Nat /\ cs[n].nexec \in Nat /\ 1 <= lev[n]
      /\ \A f \in lev[n] + 1 .. lev[n] + cs[n].nexec : L.ci[f].lua
      /\ ActOK(cs[n]) /\ (p = "none" => cs[n].nexec >= 1)
  BY FreeFacts
<1>3. /\ Len(L.ci) = lev[n] + cs[n].nexec /\ Len(L.ci) \in Nat /\ cs[n].k # "hook"
  BY <1>1, StateFacts DEF Free
<1>4. /\ StateOK(M) /\ SameSettings(M, L)
      /\ M.size_ci > LUAI_MAXCALLS => M.size_ci = L.size_ci
      /\ Len(M.ci) = Len(L.ci) + 1 /\ M.ci[Len(L.ci) + 1].lua = lua
      /\ \A i \in 1 .. Len(L.ci) : M.ci[i].lua = L.ci[i].lua
  BY DEF Resized, Framed, Alike, SameSettings
<1>5. SameActs(cs, cs)
  BY <1>1 DEF SameActs, ChainOK, ActsOK
<1>6. /\ SameActs(D, cs) /\ \A i \in 1 .. n - 1 : D[i] = cs[i]
      /\ D[n].nexec = IF lua THEN cs[n].nexec + 1 ELSE cs[n].nexec
  <2>1. CASE lua
    BY <1>1, <1>2, <2>1, ExecutingActs
  <2>2. CASE ~lua
    BY <1>5, <2>2
  <2> QED
    BY <2>1, <2>2
<1>7. D[n].k = cs[n].k
  BY <1>1, <1>6 DEF SameActs
<1>8. BlockOK(M, D[n], lev[n], Len(M.ci))
  <2>1. CASE lua
    <3>1. D[n].nexec = cs[n].nexec + 1 /\ Len(M.ci) = lev[n] + D[n].nexec
      BY <1>2, <1>3, <1>4, <1>6, <2>1
    <3>2. ASSUME NEW f \in lev[n] + 1 .. lev[n] + D[n].nexec PROVE M.ci[f].lua
      <4>1. CASE f = Len(L.ci) + 1
        BY <1>4, <2>1, <4>1
      <4>2. CASE f # Len(L.ci) + 1
        <5>1. f \in lev[n] + 1 .. lev[n] + cs[n].nexec /\ f \in 1 .. Len(L.ci)
          <6>1. \A m, k, g \in Nat : m >= 1 /\ g \in m + 1 .. m + (k + 1) /\ g # (m + k) + 1 =>
                  g \in m + 1 .. m + k /\ g \in 1 .. m + k
            OBVIOUS
          <6>2. f \in Nat /\ f \in lev[n] + 1 .. lev[n] + (cs[n].nexec + 1)
                /\ f # (lev[n] + cs[n].nexec) + 1
            BY <1>2, <1>3, <3>1, <4>2
          <6> QED
            BY <1>2, <1>3, <6>1, <6>2
        <5> QED
          BY <1>2, <1>4, <5>1
      <4> QED
        BY <4>1, <4>2
    <3> QED
      BY <1>2, <1>3, <1>7, <3>1, <3>2 DEF BlockOK
  <2>2. CASE ~lua
    <3>1. D[n].nexec = cs[n].nexec /\ Len(M.ci) = lev[n] + D[n].nexec + 1
      BY <1>2, <1>3, <1>4, <1>6, <2>2
    <3>2. ASSUME NEW f \in lev[n] + 1 .. lev[n] + D[n].nexec PROVE M.ci[f].lua
      <4>1. f \in lev[n] + 1 .. lev[n] + cs[n].nexec /\ f \in 1 .. Len(L.ci)
        BY <1>2, <1>3, <3>1
      <4> QED
        BY <1>2, <1>4, <4>1
    <3>3. ~M.ci[Len(M.ci)].lua
      BY <1>4, <2>2
    <3> QED
      BY <1>2, <1>3, <1>7, <3>1, <3>2, <3>3 DEF BlockOK
  <2> QED
    BY <2>1, <2>2
<1>9. /\ lev[n] < Len(M.ci) /\ lev[n] <= Len(M.ci)
      /\ \A i \in 1 .. lev[n] : M.ci[i].lua = L.ci[i].lua
  BY <1>2, <1>3, <1>4
<1>10. cs[n].k = "resume" => D[n].nexec >= 1
  BY <1>2, <1>6
<1>11. TopStep(T, cs, lev, T2, D, "none", n, t)
  BY <1>1, <1>4, <1>6, <1>8, <1>9, <1>10 DEF TopStep
<1>12. Good(T2, D, "none", lev)
  BY <1>1, <1>11, TopGood
<1> QED
  BY <1>12 DEF T2

(* The new Lua function takes the frame of the one that calls it.          *)
LEMMA TailGood ==
  ASSUME NEW ts, NEW t, NEW L, NEW cs, NEW p \in {"none", "enter"}, NEW lev,
         Now(ts, t, L, cs, p, lev), Free(L, cs, lev), cs[Len(cs)].nexec >= 1,
         NEW K, Resized(K, L), K.size_ci > LUAI_MAXCALLS => K.size_ci = L.size_ci,
         NEW N, Framed(N, K, TRUE), NEW M, M = TailFrame(N)
  PROVE  Now(ts, t, M, cs, "none", lev)
<1> DEFINE n == Len(cs)
           T == [ts EXCEPT ![t] = L]
           T2 == [ts EXCEPT ![t] = M]
           m == Len(L.ci)
<1>1. /\ n \in 1 .. n /\ n \in Nat /\ t = cs[n].t /\ ChainOK(cs) /\ StateOK(L)
      /\ Only(T2, T, t) /\ T[t] = L /\ T2[t] = M
      /\ cs # <<>> /\ Good(T, cs, p, lev)
  <2>1. n \in 1 .. n /\ n \in Nat /\ t = cs[n].t /\ ChainOK(cs) /\ StateOK(L)
    BY NowFacts
  <2>2. DOMAIN ts = Thread /\ t \in Thread /\ cs # <<>> /\ Good(T, cs, p, lev)
    BY DEF Now
  <2> QED
    BY <2>1, <2>2 DEF Only
<1> HIDE DEF T, T2
<1>2. /\ lev[n] \in Nat /\ cs[n].nexec \in Nat /\ 1 <= lev[n]
      /\ \A f \in lev[n] + 1 .. lev[n] + cs[n].nexec : L.ci[f].lua
  BY FreeFacts
<1>3. m = lev[n] + cs[n].nexec /\ m \in Nat /\ cs[n].k # "hook" /\ m >= 2
  BY <1>1, <1>2, StateFacts DEF Free
<1>4. /\ StateOK(N) /\ SameSettings(N, L)
      /\ N.size_ci > LUAI_MAXCALLS => N.size_ci = L.size_ci
      /\ Len(N.ci) = m + 1 /\ N.ci[m + 1].lua = TRUE
      /\ \A i \in 1 .. m : N.ci[i].lua = L.ci[i].lua
  BY DEF Resized, Framed, Alike, SameSettings
<1>5. /\ StateOK(M) /\ SameSettings(M, N) /\ M.size_ci = N.size_ci
      /\ Len(M.ci) = Len(N.ci) - 1 /\ M.ci[Len(N.ci) - 1].lua = N.ci[Len(N.ci) - 1 + 1].lua
      /\ \A i \in 1 .. Len(N.ci) - 1 - 1 : M.ci[i].lua = N.ci[i].lua
  <2>1. StateOK(N) /\ Len(N.ci) >= 3
    BY <1>3, <1>4
  <2> QED
    BY <2>1, TailCall
<1> HIDE DEF m
<1>6. /\ Len(M.ci) = m /\ M.ci[m].lua = TRUE
      /\ \A i \in 1 .. m - 1 : M.ci[i].lua = L.ci[i].lua
  <2>1. Len(N.ci) - 1 = m /\ Len(N.ci) - 1 + 1 = m + 1 /\ Len(N.ci) - 1 - 1 = m - 1
    <3>1. Len(N.ci) = m + 1 /\ m \in Nat
      BY <1>3, <1>4
    <3> QED
      BY <3>1
  <2>2. \A i \in 1 .. m - 1 : i \in 1 .. m
    BY <1>3
  <2> QED
    BY <1>4, <1>5, <2>1, <2>2
<1>7. SameSettings(M, L) /\ (M.size_ci > LUAI_MAXCALLS => M.size_ci = L.size_ci)
  BY <1>4, <1>5 DEF SameSettings
<1>8. SameActs(cs, cs)
  BY <1>1 DEF SameActs, ChainOK, ActsOK
<1>9. ASSUME NEW f \in lev[n] + 1 .. lev[n] + cs[n].nexec PROVE M.ci[f].lua
  <2>1. CASE f = m
    BY <1>6, <2>1
  <2>2. CASE f # m
    <3>1. f \in 1 .. m - 1
      BY <1>2, <1>3, <2>2
    <3> QED
      BY <1>2, <1>6, <3>1
  <2> QED
    BY <2>1, <2>2
<1>10. BlockOK(M, cs[n], lev[n], Len(M.ci))
  BY <1>2, <1>3, <1>6, <1>9 DEF BlockOK
<1>11. /\ lev[n] < Len(M.ci) /\ lev[n] <= Len(M.ci)
       /\ \A i \in 1 .. lev[n] : M.ci[i].lua = L.ci[i].lua
  BY <1>2, <1>3, <1>6
<1>12. TopStep(T, cs, lev, T2, cs, "none", n, t)
  BY <1>1, <1>5, <1>7, <1>8, <1>10, <1>11 DEF TopStep
<1>13. Good(T2, cs, "none", lev)
  BY <1>1, <1>12, TopGood
<1> QED
  BY <1>13 DEF T2, Now

LEMMA EnterLuaInv ==
  ASSUME NEW ts, NEW t, NEW L, NEW cs, NEW p \in {"none", "enter"}, NEW lev,
         Now(ts, t, L, cs, p, lev), Free(L, cs, lev),
         NEW func, NEW nresults, NEW tail \in BOOLEAN, tail => cs[Len(cs)].nexec >= 1,
         EnterLua(ts, t, L, cs, func, nresults, tail)
  PROVE  CallsInv'
<1>1. PICK proto \in Proto :
        LET L1 == Arguments(L, func, proto)
            Enter(M) == IF tail
                        THEN Go(ts, t, TailFrame(LuaFrame(M, func, proto, nresults)), cs)
                        ELSE Go(ts, t, LuaFrame(M, func, proto, nresults), Executing(cs, 1))
        IN WithCallInfo(ts, t, L1, cs, Enter)
  BY DEF EnterLua
<1> DEFINE L1 == Arguments(L, func, proto)
           inc == inc_ci(L1)
           K == [L1 EXCEPT !.size_ci = inc.size]
           N == LuaFrame(K, func, proto, nresults)
<1>2. StateOK(L) /\ DOMAIN L = Fields
  BY NowFacts, StateFacts
<1>3. Quiet(L1, L)
  BY <1>2, ArgumentsStack, StackQuiet
<1>4. \/ inc.err = "none" /\ tail /\ Go(ts, t, TailFrame(N), cs)
      \/ inc.err = "none" /\ ~tail /\ Go(ts, t, N, Executing(cs, 1))
      \/ inc.err = "overflow" /\ RunError(ts, t, K, cs)
      \/ inc.err = "ERRERR" /\ Throw(ts, t, K, cs, "ERRERR")
  BY <1>1 DEF WithCallInfo
<1> HIDE DEF L1
<1>5. StateOK(L1) /\ Now(ts, t, L1, cs, p, lev) /\ Free(L1, cs, lev)
  BY <1>3, NowQuiet DEF Quiet, Alike, Free
<1>6. /\ inc.err \in {"none", "overflow", "ERRERR"} => Resized(K, L1)
      /\ inc.err = "none" =>
           /\ Len(K.ci) < K.size_ci
           /\ K.size_ci > LUAI_MAXCALLS => K.size_ci = L1.size_ci
  BY <1>5, IncCi
<1> HIDE DEF inc, K
<1>7. Resized(K, L1) => StateOK(K) /\ Alike(K, L1)
  BY DEF Resized
<1>8. CASE inc.err = "overflow" /\ RunError(ts, t, K, cs)
  BY <1>5, <1>6, <1>7, <1>8, RunErrorInv
<1>9. CASE inc.err = "ERRERR" /\ Throw(ts, t, K, cs, "ERRERR")
  BY <1>5, <1>6, <1>7, <1>9, ThrowInv DEF Errors
<1>10. ASSUME inc.err = "none" PROVE Framed(N, K, TRUE)
  BY <1>6, <1>7, <1>10, NewFrames
<1> HIDE DEF N
<1>11. CASE inc.err = "none" /\ tail /\ Go(ts, t, TailFrame(N), cs)
  <2>1. Now(ts, t, TailFrame(N), cs, "none", lev)
    BY <1>5, <1>6, <1>10, <1>11, TailGood
  <2> QED
    BY <1>11, <2>1, GoInv
<1>12. CASE inc.err = "none" /\ ~tail /\ Go(ts, t, N, Executing(cs, 1))
  <2>1. Executing(cs, 1) = IF TRUE THEN Executing(cs, 1) ELSE cs
    OBVIOUS
  <2>2. Good([ts EXCEPT ![t] = N], Executing(cs, 1), "none", lev)
    BY <1>5, <1>6, <1>10, <1>12, <2>1, FrameGood
  <2> QED
    BY <1>12, <2>2, InvNext DEF Go
<1> QED
  BY <1>4, <1>8, <1>9, <1>11, <1>12

LEMMA EnterCInv ==
  ASSUME NEW ts, NEW t, NEW L, NEW cs, NEW p \in {"none", "enter"}, NEW lev,
         Now(ts, t, L, cs, p, lev), Free(L, cs, lev),
         p = "none" \/ cs[Len(cs)].k # "resume",
         NEW func, NEW nresults, EnterC(ts, t, L, cs, func, nresults)
  PROVE  CallsInv'
<1> DEFINE inc == inc_ci(L)
           K == [L EXCEPT !.size_ci = inc.size]
           N == CFrame(K, func, nresults)
<1>1. \/ inc.err = "none" /\ Go(ts, t, N, cs)
      \/ inc.err = "overflow" /\ RunError(ts, t, K, cs)
      \/ inc.err = "ERRERR" /\ Throw(ts, t, K, cs, "ERRERR")
  BY DEF EnterC, WithCallInfo
<1>2. StateOK(L)
  BY NowFacts
<1>3. /\ inc.err \in {"none", "overflow", "ERRERR"} => Resized(K, L)
      /\ inc.err = "none" =>
           /\ Len(K.ci) < K.size_ci
           /\ K.size_ci > LUAI_MAXCALLS => K.size_ci = L.size_ci
  BY <1>2, IncCi
<1> HIDE DEF inc, K
<1>4. Resized(K, L) => StateOK(K) /\ Alike(K, L)
  BY DEF Resized
<1>5. CASE inc.err = "overflow" /\ RunError(ts, t, K, cs)
  BY <1>3, <1>4, <1>5, RunErrorInv
<1>6. CASE inc.err = "ERRERR" /\ Throw(ts, t, K, cs, "ERRERR")
  BY <1>3, <1>4, <1>6, ThrowInv DEF Errors
<1>7. CASE inc.err = "none" /\ Go(ts, t, N, cs)
  <2>1. Framed(N, K, FALSE)
    BY <1>3, <1>4, <1>7, NewFrames
  <2> HIDE DEF N
  <2>2. cs = IF FALSE THEN Executing(cs, 1) ELSE cs
    OBVIOUS
  <2>3. Good([ts EXCEPT ![t] = N], cs, "none", lev)
    BY <1>3, <1>7, <2>1, <2>2, FrameGood
  <2> QED
    BY <1>7, <2>3, InvNext DEF Go
<1> QED
  BY <1>1, <1>5, <1>6, <1>7

LEMMA PrecallInv ==
  ASSUME NEW ts, NEW t, NEW L, NEW cs, NEW p \in {"none", "enter"}, NEW lev,
         Now(ts, t, L, cs, p, lev), Free(L, cs, lev),
         p = "none" \/ cs[Len(cs)].k # "resume",
         NEW func, NEW nresults, NEW tail \in BOOLEAN, tail => p = "none",
         luaD_precall(ts, t, L, cs, func, nresults, tail)
  PROVE  CallsInv'
<1>1. StateOK(L) /\ DOMAIN L = Fields
  BY NowFacts, StateFacts
<1>2. CASE RunError(ts, t, L, cs)
  <2>1. Alike(L, L)
    BY DEF Alike, SameSettings
  <2> QED
    BY <1>1, <1>2, <2>1, RunErrorInv
<1>3. ASSUME NEW M \in {L, tryfuncTM(L, func)},
             EnterLua(ts, t, M, cs, func, nresults, tail) \/ EnterC(ts, t, M, cs, func, nresults)
      PROVE  CallsInv'
  <2>1. Quiet(M, L)
    BY <1>1, StackOps, StackQuiet, QuietSame
  <2>2. Now(ts, t, M, cs, p, lev) /\ Free(M, cs, lev)
    BY <2>1, NowQuiet DEF Quiet, Alike, Free
  <2>3. tail => cs[Len(cs)].nexec >= 1
    BY FreeFacts
  <2>4. CASE EnterLua(ts, t, M, cs, func, nresults, tail)
    BY <2>2, <2>3, <2>4, EnterLuaInv
  <2>5. CASE EnterC(ts, t, M, cs, func, nresults)
    BY <2>2, <2>5, EnterCInv
  <2> QED
    BY <1>3, <2>4, <2>5
<1> QED
  BY <1>2, <1>3 DEF luaD_precall

-----------------------------------------------------------------------------
(* The running thread                                                      *)

LEMMA CurrentThread ==
  ASSUME NEW lev, Good(th, cst, pend, lev)
  PROVE  /\ Current = Cur(cst) /\ Current \in Thread /\ DOMAIN th = Thread
         /\ StateOK(th[Current]) /\ DOMAIN th[Current] = Fields /\ ChainOK(cst)
         /\ cst # <<>> => Last(cst) = cst[Len(cst)]
<1>1. ChainOK(cst) /\ DOMAIN th = Thread /\ \A u \in Thread : StateOK(th[u])
  BY DEF Good
<1>2. Current = Cur(cst) /\ (cst # <<>> => Last(cst) = cst[Len(cst)])
  BY DEF Current, Cur, Last
<1>3. Cur(cst) \in Thread
  BY <1>1, RunningThread
<1> QED
  BY <1>1, <1>2, <1>3, StateFacts

(* The threads as they are: th and the thread that runs.                   *)
LEMMA NowAsIs ==
  ASSUME NEW lev, Good(th, cst, pend, lev), cst # <<>>, NEW t, t = Current
  PROVE  Now(th, t, th[t], cst, pend, lev)
<1> DEFINE T2 == [th EXCEPT ![t] = th[t]]
<1>1. t \in Thread /\ DOMAIN th = Thread /\ t = Cur(cst)
  BY CurrentThread
<1>2. DOMAIN T2 = Thread /\ \A u \in Thread : T2[u] = th[u]
  BY <1>1
<1> HIDE DEF T2
<1>3. \A u \in Thread : StateOK(T2[u]) /\ Alike(T2[u], th[u])
  BY <1>2 DEF Good, Alike, SameSettings
<1>4. pend \in Errors \cup {"none", "enter"}
  BY DEF Good
<1>5. \A u \in Thread : T2[u].size_ci > LUAI_MAXCALLS =>
        T2[u].size_ci = th[u].size_ci \/ (pend \in Errors /\ Cur(cst) = u)
  BY <1>2
<1>6. Good(T2, cst, pend, lev)
  BY <1>2, <1>3, <1>4, <1>5, QuietGood
<1> QED
  BY <1>1, <1>6 DEF Now, T2

(* Only the stack of a thread, or a frame's top, changes.                  *)
LEMMA QuietInv ==
  ASSUME NEW lev, Good(th, cst, pend, lev), pend = "none", NEW t, t = Current,
         NEW L, Quiet(L, th[t]), Go(th, t, L, cst)
  PROVE  CallsInv'
<1> DEFINE T2 == [th EXCEPT ![t] = L]
<1>1. t \in Thread /\ DOMAIN th = Thread /\ t = Cur(cst)
  BY CurrentThread
<1>2. DOMAIN T2 = Thread /\ T2[t] = L /\ \A u \in Thread \ {t} : T2[u] = th[u]
  BY <1>1
<1>3. th' = T2 /\ cst' = cst /\ pend' = "none"
  BY DEF Go
<1> HIDE DEF T2
<1>4. \A u \in Thread : StateOK(T2[u]) /\ Alike(T2[u], th[u]) /\ T2[u].size_ci = th[u].size_ci
  BY <1>2 DEF Good, Alike, SameSettings, Quiet
<1>5. "none" \in Errors \cup {"none", "enter"}
  OBVIOUS
<1>6. Good(T2, cst, "none", lev)
  BY <1>2, <1>4, <1>5, QuietGood
<1> QED
  BY <1>3, <1>6, InvNext

(* A Lua function is on top of its activation.                             *)
LEMMA LuaRunsFacts ==
  ASSUME NEW lev, Good(th, cst, pend, lev), NEW t, LuaRuns(t)
  PROVE  /\ pend = "none" /\ cst # <<>> /\ t = Current /\ StateOK(th[t])
         /\ DOMAIN th[t] = Fields
         /\ Now(th, t, th[t], cst, "none", lev) /\ Free(th[t], cst, lev)
<1> DEFINE n == Len(cst)
<1>1. pend = "none" /\ t = Current /\ ~InHook /\ isLua(th[t])
  BY DEF LuaRuns, InC
<1>2. /\ t = Cur(cst) /\ t \in Thread /\ StateOK(th[t]) /\ DOMAIN th[t] = Fields
      /\ ChainOK(cst)
  BY <1>1, CurrentThread
<1>3. /\ Len(th[t].ci) \in Nat /\ Frame(th[t]) = th[t].ci[Len(th[t].ci)]
  BY <1>2, StateFacts
<1>4. th[t].ci[Len(th[t].ci)].lua
  BY <1>1, <1>3 DEF isLua
<1>5. cst # <<>>
  <2>1. ASSUME cst = <<>> PROVE FALSE
    <3>1. t = Main /\ Len(th[t].ci) = 1
      BY <1>2, <2>1 DEF Cur, Good, FramesOK
    <3> QED
      BY <1>2, <1>4, <3>1 DEF StateOK
  <2> QED
    BY <2>1
<1>6. n \in 1 .. n /\ n \in Nat /\ t = cst[n].t /\ cst[n].k # "hook"
  BY <1>1, <1>2, <1>5, RunningThread, CurrentThread DEF Cur, InHook
<1>7. BlockOK(th[t], cst[n], lev[n], Len(th[t].ci))
  <2>1. Upper(th, cst, lev, n) = Len(th[t].ci)
    BY <1>6 DEF Upper
  <2> QED
    BY <1>6, <2>1 DEF Good, FramesOK
<1>8. lev[n] \in Nat /\ cst[n].nexec \in Nat
  BY <1>6, Numbers
<1>9. Len(th[t].ci) = lev[n] + cst[n].nexec
  <2> DEFINE m == Len(th[t].ci)
  <2>1. ~(m = lev[n] + cst[n].nexec + 1 /\ ~th[t].ci[m].lua)
    BY <1>4
  <2> HIDE DEF m
  <2>2. /\ lev[n] + cst[n].nexec <= m /\ m <= lev[n] + cst[n].nexec + 1
        /\ m = lev[n] + cst[n].nexec + 1 => ~th[t].ci[m].lua
    BY <1>7 DEF BlockOK, m
  <2>3. m \in Nat
    BY <1>3 DEF m
  <2>4. m = lev[n] + cst[n].nexec
    BY <1>8, <2>1, <2>2, <2>3
  <2> QED
    BY <2>4 DEF m
<1>10. Now(th, t, th[t], cst, "none", lev)
  BY <1>1, <1>5, NowAsIs
<1> QED
  BY <1>1, <1>2, <1>5, <1>6, <1>9, <1>10 DEF Free

-----------------------------------------------------------------------------
(* Calls                                                                   *)

(* L, a version of thread t, can call: luaD_call counts the call next.     *)
Callable(L, K, e) ==
  /\ StateOK(L) /\ Len(L.ci) = Len(K.ci)
  /\ \A i \in 1 .. Len(K.ci) : L.ci[i].lua = K.ci[i].lua
  /\ L.status = K.status /\ L.baseCcalls = K.baseCcalls /\ L.kept = K.kept
  /\ L.size_ci = K.size_ci /\ L.nCcalls = K.nCcalls /\ L.allowhook = K.allowhook
  /\ e.k # "pcall" => L.errfunc = K.errfunc

LEMMA CallInv ==
  ASSUME NEW lev, Good(th, cst, pend, lev), NEW t, t = Current,
         NEW e, ActOK(e), e.k \in Calling, e.t = t, e.nexec = 0,
         cst = <<>> => e.k = "pcall",
         e.ci = Len(th[t].ci),
         e.k = "pcall" => /\ e.nCcalls = th[t].nCcalls
                          /\ e.errfunc = th[t].errfunc /\ e.allowhook = th[t].allowhook,
         pend = "none" \/ (pend = "message" /\ e.k = "handler"),
         NEW L, Callable(L, th[t], e), NEW func, NEW nresults,
         luaD_call(t, L, cst, e, func, nresults)
  PROVE  CallsInv'
<1> DEFINE m == L.nCcalls + 1
           L1 == [L EXCEPT !.nCcalls = m]
           cs == Append(cst, e)
           T2 == [th EXCEPT ![t] = L1]
           lev2 == Deeper(lev, Len(cst), Len(th[t].ci))
<1>1. /\ t = Cur(cst) /\ t \in Thread /\ DOMAIN th = Thread /\ ChainOK(cst)
      /\ Len(cst) \in Nat /\ IsSeq(cst)
  BY CurrentThread, RunningThread DEF ChainOK
<1>2. \/ RunError(th, t, L1, cs) \/ Throw(th, t, L1, cs, "ERRERR")
      \/ luaD_precall(th, t, L1, cs, func, nresults, FALSE)
  BY DEF luaD_call
<1>3. StateOK(L1) /\ L1.ci = L.ci /\ L1.nCcalls = m
      /\ L1.status = L.status /\ L1.baseCcalls = L.baseCcalls /\ L1.kept = L.kept
      /\ L1.size_ci = L.size_ci /\ L1.allowhook = L.allowhook /\ L1.errfunc = L.errfunc
  <2>1. DOMAIN L = Fields /\ StateOK(L) /\ m \in Int
    BY DEF Callable, StateOK
  <2> HIDE DEF m
  <2>2. /\ DOMAIN L1 = Fields /\ L1.ci = L.ci /\ L1.nCcalls = m
        /\ L1.status = L.status /\ L1.baseCcalls = L.baseCcalls /\ L1.kept = L.kept
        /\ L1.size_ci = L.size_ci /\ L1.allowhook = L.allowhook /\ L1.errfunc = L.errfunc
    BY <2>1 DEF Fields
  <2> HIDE DEF L1
  <2>3. StateOK(L1)
    BY <2>1, <2>2 DEF StateOK
  <2> QED
    BY <2>2, <2>3
<1> HIDE DEF L1
<1>4. T2[t] = L1 /\ Only(T2, th, t)
  BY <1>1 DEF Only
<1> HIDE DEF T2
<1>5. PushStep(th, cst, pend, T2, e, "enter", t)
  <2>1. /\ Len(T2[t].ci) = Len(th[t].ci)
        /\ \A i \in 1 .. Len(th[t].ci) : T2[t].ci[i].lua = th[t].ci[i].lua
        /\ T2[t].status = th[t].status /\ T2[t].baseCcalls = th[t].baseCcalls
        /\ T2[t].kept = th[t].kept /\ T2[t].size_ci = th[t].size_ci
        /\ T2[t].nCcalls = th[t].nCcalls + 1
        /\ e.k # "pcall" => T2[t].errfunc = th[t].errfunc
        /\ T2[t].allowhook = th[t].allowhook /\ StateOK(T2[t])
    BY <1>3, <1>4 DEF Callable
  <2>2. e.k # "hook" /\ e.k # "resume"
    BY DEF Calling
  <2> QED
    BY <1>1, <1>4, <2>1, <2>2 DEF PushStep
<1>6. Good(T2, cs, "enter", lev2)
  BY <1>5, PushGood
<1>7. /\ cs # <<>> /\ Len(cs) = Len(cst) + 1 /\ cs[Len(cst) + 1] = e
  BY <1>1, SeqAppend
<1>8. Now(th, t, L1, cs, "enter", lev2)
  BY <1>1, <1>6, <1>7 DEF Now, T2, Cur
<1>9. Free(L1, cs, lev2)
  <2>1. lev2[Len(cst) + 1] = Len(th[t].ci)
    BY <1>1 DEF Deeper
  <2>2. Len(L1.ci) = Len(th[t].ci) /\ Len(th[t].ci) \in Nat
    BY <1>1, <1>3, StateFacts, CurrentThread DEF Callable
  <2>3. e.k # "hook"
    BY DEF Calling
  <2> QED
    BY <1>7, <2>1, <2>2, <2>3 DEF Free
<1>10. StateOK(L1) /\ Alike(L1, L1) /\ "ERRERR" \in Errors
  BY <1>3 DEF Alike, SameSettings, Errors
<1>11. CASE RunError(th, t, L1, cs)
  BY <1>8, <1>10, <1>11, RunErrorInv
<1>12. CASE Throw(th, t, L1, cs, "ERRERR")
  BY <1>8, <1>10, <1>12, ThrowInv
<1>13. CASE luaD_precall(th, t, L1, cs, func, nresults, FALSE)
  <2>1. cs[Len(cs)].k # "resume"
    BY <1>7 DEF Calling
  <2> QED
    BY <1>8, <1>9, <1>13, <2>1, PrecallInv
<1> QED
  BY <1>2, <1>11, <1>12, <1>13

LEMMA QuietCallable ==
  ASSUME NEW L, NEW K, Quiet(L, K), NEW e
  PROVE  Callable(L, K, e)
BY DEF Quiet, Alike, SameSettings, Callable

(* Calls from Lua code and from C code that are not protected.             *)
LEMMA PlainCallInv ==
  ASSUME NEW lev, Good(th, cst, pend, lev), NEW t, t = Current, cst # <<>>,
         NEW e, {"k", "t", "nexec", "ci"} \subseteq DOMAIN e, e.k \in Calling \ {"pcall"},
         e.t = t, e.nexec = 0, e.ci = Len(th[t].ci),
         pend = "none" \/ (pend = "message" /\ e.k = "handler"),
         NEW L, Quiet(L, th[t]), NEW func, NEW nresults,
         luaD_call(t, L, cst, e, func, nresults)
  PROVE  CallsInv'
<1>1. ActOK(e)
  <2>1. t \in Thread
    BY CurrentThread
  <2> QED
    BY <2>1 DEF ActOK, Calling
<1>2. Callable(L, th[t], e)
  BY QuietCallable
<1>3. e.k # "pcall" /\ e.k \in Calling
  OBVIOUS
<1> QED
  BY <1>1, <1>2, <1>3, CallInv

-----------------------------------------------------------------------------
(* Instructions that stay in their frame                                   *)

LEMMA RegisterInv ==
  ASSUME NEW lev, Good(th, cst, pend, lev), NEW t, NEW r, NEW v, LuaRuns(t)
  PROVE  /\ SetRegisters(t, v) => CallsInv'
         /\ OP_CLOSURE(t, r) => CallsInv'
         /\ OP_CLOSE(t, r) => CallsInv'
         /\ OP_SETUPVAL(t, v) => CallsInv'
         /\ OP_SETLIST(t) => CallsInv'
         /\ OP_VARARG(t, r, v) => CallsInv'
<1>1. pend = "none" /\ t = Current /\ StateOK(th[t]) /\ DOMAIN th[t] = Fields
  BY LuaRunsFacts
<1>2. ASSUME SetRegisters(t, v) PROVE CallsInv'
  <2> DEFINE L == [th[t] EXCEPT !.stk = [i \in Slot |-> IF i \in Registers(th[t]) THEN v
                                                        ELSE @[i]]]
  <2>1. StackOnly(L, th[t])
    BY <1>1, Fields1
  <2>2. Go(th, t, L, cst)
    BY <1>2 DEF SetRegisters
  <2> HIDE DEF L
  <2> QED
    BY <1>1, <2>1, <2>2, StackQuiet, QuietInv
<1>3. ASSUME OP_CLOSURE(t, r) PROVE CallsInv'
  <2>1. StackOnly(luaF_findupval(th[t], r), th[t]) /\ Go(th, t, luaF_findupval(th[t], r), cst)
    BY <1>1, <1>3, StackOps DEF OP_CLOSURE
  <2> QED
    BY <1>1, <2>1, StackQuiet, QuietInv
<1>4. ASSUME OP_CLOSE(t, r) PROVE CallsInv'
  <2>1. StackOnly(luaF_close(th[t], r), th[t]) /\ Go(th, t, luaF_close(th[t], r), cst)
    BY <1>1, <1>4, StackOps DEF OP_CLOSE
  <2> QED
    BY <1>1, <2>1, StackQuiet, QuietInv
<1>5. ASSUME OP_SETUPVAL(t, v) PROVE CallsInv'
  <2>1. PICK i \in 1 .. Len(th[t].openupval) : Go(th, t, SetSlot(th[t], th[t].openupval[i], v), cst)
    BY <1>5 DEF OP_SETUPVAL
  <2>2. StackOnly(SetSlot(th[t], th[t].openupval[i], v), th[t])
    BY <1>1, StackOps
  <2> QED
    BY <1>1, <2>1, <2>2, StackQuiet, QuietInv
<1>6. ASSUME OP_SETLIST(t) PROVE CallsInv'
  <2> DEFINE M == ToFrameTop(th[t])
  <2>1. Quiet(M, th[t])
    BY <1>1, FrameOps
  <2>2. Go(th, t, MarkOpen(M, FALSE), cst)
    BY <1>6 DEF OP_SETLIST
  <2> HIDE DEF M
  <2>3. Quiet(MarkOpen(M, FALSE), M)
    BY <2>1, FrameOps DEF Quiet
  <2>4. Quiet(MarkOpen(M, FALSE), th[t])
    BY <2>1, <2>3, QuietTrans
  <2> QED
    BY <1>1, <2>2, <2>4, QuietInv
<1>7. ASSUME OP_VARARG(t, r, v) PROVE CallsInv'
  <2> DEFINE L == th[t]
             f == Frame(L)
             n == f.base - f.func - f.numparams - 1
             L1 == IF v = MULTRET THEN [CutTo(L, r + n) EXCEPT !.top = r + n] ELSE L
             count == IF v = MULTRET THEN n ELSE v
             M == [L1 EXCEPT !.stk =
                     [i \in Slot |-> IF i \in r .. r + count - 1
                                     THEN IF i - r < n THEN L.stk[f.base - n + i - r] ELSE Nil
                                     ELSE @[i]]]
  <2>1. Go(th, t, MarkOpen(M, v = MULTRET), cst)
    BY <1>7 DEF OP_VARARG
  <2> HIDE DEF n, count
  <2>2. StackOnly(L1, L)
    <3>1. StackOnly(CutTo(L, r + n), L)
      BY <1>1, StackOps
    <3>2. StackOnly([CutTo(L, r + n) EXCEPT !.top = r + n], CutTo(L, r + n))
      BY <3>1, Fields1 DEF StackOnly
    <3> QED
      BY <1>1, <3>1, <3>2, StackTrans, StackSame
  <2> HIDE DEF L1
  <2>3. StackOnly(M, L1)
    BY <2>2, Fields1 DEF StackOnly
  <2> HIDE DEF M, L
  <2>4. Quiet(M, th[t])
    BY <1>1, <2>2, <2>3, StackTrans, StackQuiet DEF L
  <2>5. Quiet(MarkOpen(M, v = MULTRET), M)
    BY <2>4, FrameOps DEF Quiet
  <2>6. Quiet(MarkOpen(M, v = MULTRET), th[t])
    BY <2>4, <2>5, QuietTrans
  <2> QED
    BY <1>1, <2>1, <2>6, QuietInv
<1> QED
  BY <1>2, <1>3, <1>4, <1>5, <1>6, <1>7

-----------------------------------------------------------------------------
(* Instructions that call, fail or run a hook                              *)

LEMMA LuaCallInv ==
  ASSUME NEW lev, Good(th, cst, pend, lev), NEW t, NEW r, NEW b, NEW nresults, LuaRuns(t)
  PROVE  /\ OP_CALL(t, r, b, nresults) => CallsInv'
         /\ OP_TAILCALL(t, r, b) => CallsInv'
         /\ LuaError(t) => CallsInv'
<1>1. /\ pend = "none" /\ t = Current /\ StateOK(th[t]) /\ DOMAIN th[t] = Fields
      /\ Now(th, t, th[t], cst, "none", lev) /\ Free(th[t], cst, lev)
  BY LuaRunsFacts
<1> DEFINE M == WithArguments(th[t], r, b)
<1>2. Quiet(M, th[t])
  BY <1>1, FrameOps
<1> HIDE DEF M
<1>3. Now(th, t, M, cst, "none", lev) /\ Free(M, cst, lev)
  BY <1>1, <1>2, NowQuiet DEF Quiet, Alike, Free
<1>4. ASSUME OP_CALL(t, r, b, nresults) PROVE CallsInv'
  <2>1. luaD_precall(th, t, M, cst, r, nresults, FALSE)
    BY <1>4 DEF OP_CALL, M
  <2> QED
    BY <1>3, <2>1, PrecallInv
<1>5. ASSUME OP_TAILCALL(t, r, b) PROVE CallsInv'
  <2>1. luaD_precall(th, t, M, cst, r, MULTRET, TRUE)
    BY <1>5 DEF OP_TAILCALL, M
  <2> QED
    BY <1>3, <2>1, PrecallInv
<1>6. ASSUME LuaError(t) PROVE CallsInv'
  <2>1. Alike(th[t], th[t]) /\ "ERRMEM" \in Errors
    BY DEF Alike, SameSettings, Errors
  <2>2. CASE RunError(th, t, th[t], cst)
    BY <1>1, <2>1, <2>2, RunErrorInv
  <2>3. CASE Throw(th, t, th[t], cst, "ERRMEM")
    BY <1>1, <2>1, <2>3, ThrowInv
  <2> QED
    BY <1>6, <2>2, <2>3 DEF LuaError
<1> QED
  BY <1>4, <1>5, <1>6

LEMMA MetamethodInv ==
  ASSUME NEW lev, Good(th, cst, pend, lev), NEW t, NEW r, LuaRuns(t)
  PROVE  /\ callTMres(t, r) => CallsInv'
         /\ call_orderTM(t) => CallsInv'
         /\ callTM(t) => CallsInv'
<1>1. /\ pend = "none" /\ t = Current /\ StateOK(th[t]) /\ DOMAIN th[t] = Fields
      /\ cst # <<>>
  BY LuaRunsFacts
<1> DEFINE L == th[t]
           L1 == Push(L, Message)
           L2 == Push(L1, Message)
           L3 == Push(L2, Message)
           L4 == Push(L3, Message)
<1>2. StackOnly(L1, L)
  BY <1>1, StackOps
<1>3. ASSUME callTMres(t, r) PROVE luaD_call(t, L3, cst,
        [k |-> "callTMres", t |-> t, nexec |-> 0, ci |-> Len(L.ci), res |-> r], L.top, 1)
  BY <1>3 DEF callTMres
<1>4. ASSUME call_orderTM(t) PROVE luaD_call(t, L3, cst,
        [k |-> "compare", t |-> t, nexec |-> 0, ci |-> Len(L.ci), res |-> L.top], L.top, 1)
  BY <1>4 DEF call_orderTM
<1>5. ASSUME callTM(t) PROVE luaD_call(t, L4, cst,
        [k |-> "callTM", t |-> t, nexec |-> 0, ci |-> Len(L.ci)], L.top, 0)
  BY <1>5 DEF callTM
<1> HIDE DEF L1
<1>6. StackOnly(L2, L1)
  BY <1>2, StackOps DEF StackOnly
<1> HIDE DEF L2
<1>7. StackOnly(L3, L2)
  BY <1>6, StackOps DEF StackOnly
<1> HIDE DEF L3
<1>8. StackOnly(L4, L3)
  BY <1>7, StackOps DEF StackOnly
<1> HIDE DEF L4
<1>9. StackOnly(L3, L) /\ StackOnly(L4, L)
  <2>1. StackOnly(L2, L)
    BY <1>2, <1>6, StackTrans
  <2>2. StackOnly(L3, L)
    BY <1>7, <2>1, StackTrans
  <2> QED
    BY <1>8, <2>2, StackTrans
<1>10. Quiet(L3, th[t]) /\ Quiet(L4, th[t])
  BY <1>1, <1>9, StackQuiet
<1>11. ASSUME callTMres(t, r) PROVE CallsInv'
  <2> DEFINE e == [k |-> "callTMres", t |-> t, nexec |-> 0, ci |-> Len(L.ci), res |-> r]
  <2>1. /\ {"k", "t", "nexec", "ci"} \subseteq DOMAIN e /\ e.k \in Calling \ {"pcall"}
        /\ e.t = t /\ e.nexec = 0 /\ e.ci = Len(th[t].ci)
    BY DEF Calling
  <2>2. luaD_call(t, L3, cst, e, L.top, 1)
    BY <1>3, <1>11
  <2> HIDE DEF e
  <2> QED
    BY <1>1, <1>10, <2>1, <2>2, PlainCallInv
<1>12. ASSUME call_orderTM(t) PROVE CallsInv'
  <2> DEFINE e == [k |-> "compare", t |-> t, nexec |-> 0, ci |-> Len(L.ci), res |-> L.top]
  <2>1. /\ {"k", "t", "nexec", "ci"} \subseteq DOMAIN e /\ e.k \in Calling \ {"pcall"}
        /\ e.t = t /\ e.nexec = 0 /\ e.ci = Len(th[t].ci)
    BY DEF Calling
  <2>2. luaD_call(t, L3, cst, e, L.top, 1)
    BY <1>4, <1>12
  <2> HIDE DEF e
  <2> QED
    BY <1>1, <1>10, <2>1, <2>2, PlainCallInv
<1>13. ASSUME callTM(t) PROVE CallsInv'
  <2> DEFINE e == [k |-> "callTM", t |-> t, nexec |-> 0, ci |-> Len(L.ci)]
  <2>1. /\ {"k", "t", "nexec", "ci"} \subseteq DOMAIN e /\ e.k \in Calling \ {"pcall"}
        /\ e.t = t /\ e.nexec = 0 /\ e.ci = Len(th[t].ci)
    BY DEF Calling
  <2>2. luaD_call(t, L4, cst, e, L.top, 0)
    BY <1>5, <1>13
  <2> HIDE DEF e
  <2> QED
    BY <1>1, <1>10, <2>1, <2>2, PlainCallInv
<1> QED
  BY <1>11, <1>12, <1>13

LEMMA HookInv ==
  ASSUME NEW lev, Good(th, cst, pend, lev), NEW t, luaD_callhook(t)
  PROVE  CallsInv'
<1> DEFINE L == th[t]
           f == Frame(L)
           K == [L EXCEPT !.allowhook = FALSE]
           M == SetFrame(K, [f EXCEPT !.top = L.top + LUA_MINSTACK])
           e == [k |-> "hook", t |-> t, nexec |-> 0, ci |-> Len(L.ci), top |-> L.top, citop |-> f.top]
           T2 == [th EXCEPT ![t] = M]
<1>1. LuaRuns(t) /\ Go(th, t, M, Append(cst, e))
  BY DEF luaD_callhook
<1>2. /\ pend = "none" /\ t = Current /\ StateOK(L) /\ DOMAIN L = Fields
      /\ cst # <<>> /\ cst[Len(cst)].k # "hook"
  BY <1>1, LuaRunsFacts DEF Free
<1>3. t = Cur(cst) /\ t \in Thread /\ DOMAIN th = Thread
  BY <1>2, CurrentThread
<1>4. /\ DOMAIN K = Fields /\ K.ci = L.ci /\ K.size_ci = L.size_ci /\ K.status = L.status
      /\ K.nCcalls = L.nCcalls /\ K.baseCcalls = L.baseCcalls /\ K.errfunc = L.errfunc
      /\ K.kept = L.kept /\ K.allowhook = FALSE
  BY <1>2 DEF Fields
<1> HIDE DEF K
<1>5. StateOK(K) /\ Frame(K) = f
  <2>1. StateOK(K)
    BY <1>2, <1>4 DEF StateOK
  <2> QED
    BY <1>4, <2>1 DEF Frame
<1>6. Quiet(M, K)
  BY <1>5, FrameOps
<1> HIDE DEF M
<1>7. T2[t] = M /\ Only(T2, th, t)
  BY <1>3 DEF Only
<1>8. /\ ActOK(e) /\ e.t = t /\ e.nexec = 0 /\ e.ci = Len(th[t].ci) /\ e.k = "hook" /\ e.k \notin Calling
  BY <1>3 DEF ActOK, Calling
<1> HIDE DEF T2, e
<1>9. /\ StateOK(M) /\ Len(M.ci) = Len(th[t].ci)
      /\ \A i \in 1 .. Len(th[t].ci) : M.ci[i].lua = th[t].ci[i].lua
      /\ M.status = th[t].status /\ M.baseCcalls = th[t].baseCcalls
      /\ M.kept = th[t].kept /\ M.size_ci = th[t].size_ci
      /\ M.nCcalls = th[t].nCcalls /\ M.errfunc = th[t].errfunc
  BY <1>4, <1>6 DEF Quiet, Alike, SameSettings
<1>10. PushStep(th, cst, pend, T2, e, "none", t)
  BY <1>2, <1>3, <1>7, <1>8, <1>9 DEF PushStep
<1>11. Good(T2, Append(cst, e), "none", Deeper(lev, Len(cst), Len(th[t].ci)))
  BY <1>10, PushGood
<1> QED
  BY <1>1, <1>11, InvNext DEF Go, T2

-----------------------------------------------------------------------------
(* C code                                                                  *)

LEMMA CRunsFacts ==
  ASSUME NEW lev, Good(th, cst, pend, lev), NEW t, CRuns(t)
  PROVE  /\ pend = "none" /\ t = Current /\ t = Cur(cst) /\ t \in Thread
         /\ StateOK(th[t]) /\ DOMAIN th[t] = Fields /\ DOMAIN th = Thread
  BY CurrentThread DEF CRuns

LEMMA WindowInv ==
  ASSUME NEW lev, Good(th, cst, pend, lev), NEW t, NEW v
  PROVE  /\ lua_push(t, v) => CallsInv'
         /\ lua_pop(t) => CallsInv'
         /\ lua_error(t) => CallsInv'
<1>1. ASSUME lua_push(t, v) PROVE CallsInv'
  <2>1. CRuns(t) /\ Go(th, t, Push(th[t], v), cst)
    BY <1>1 DEF lua_push
  <2>2. pend = "none" /\ t = Current /\ StateOK(th[t]) /\ DOMAIN th[t] = Fields
    BY <2>1, CRunsFacts
  <2>3. Quiet(Push(th[t], v), th[t])
    BY <2>2, StackOps, StackQuiet
  <2> QED
    BY <2>1, <2>2, <2>3, QuietInv
<1>2. ASSUME lua_pop(t) PROVE CallsInv'
  <2> DEFINE a == th[t].top - 1
  <2>1. CRuns(t) /\ Go(th, t, CutTo(th[t], a), cst)
    BY <1>2 DEF lua_pop
  <2>2. pend = "none" /\ t = Current /\ StateOK(th[t]) /\ DOMAIN th[t] = Fields
    BY <2>1, CRunsFacts
  <2> HIDE DEF a
  <2>3. Quiet(CutTo(th[t], a), th[t])
    BY <2>2, StackOps, StackQuiet
  <2> QED
    BY <2>1, <2>2, <2>3, QuietInv
<1>3. ASSUME lua_error(t) PROVE CallsInv'
  <2>1. CRuns(t) /\ cst # <<>> /\ Throw(th, t, th[t], cst, "message")
    BY <1>3 DEF lua_error
  <2>2. t = Current /\ StateOK(th[t])
    BY <2>1, CRunsFacts
  <2>3. Now(th, t, th[t], cst, pend, lev)
    BY <2>1, <2>2, NowAsIs
  <2>4. Alike(th[t], th[t]) /\ "message" \in Errors
    BY DEF Alike, SameSettings, Errors
  <2> QED
    BY <2>1, <2>2, <2>3, <2>4, ThrowInv
<1> QED
  BY <1>1, <1>2, <1>3

LEMMA CCallInv ==
  ASSUME NEW lev, Good(th, cst, pend, lev), NEW t, NEW a, NEW r, NEW ef
  PROVE  /\ lua_call(t, a, r) => CallsInv'
         /\ lua_pcall(t, a, r, ef) => CallsInv'
<1> DEFINE L == th[t]
           func == L.top - (a + 1)
<1>1. ASSUME lua_call(t, a, r) PROVE CallsInv'
  <2> DEFINE e == [k |-> "call", t |-> t, nexec |-> 0, ci |-> Len(L.ci), nresults |-> r]
  <2>1. CRuns(t) /\ cst # <<>> /\ luaD_call(t, L, cst, e, func, r)
    BY <1>1 DEF lua_call
  <2>2. pend = "none" /\ t = Current /\ StateOK(L)
    BY <2>1, CRunsFacts
  <2>3. /\ {"k", "t", "nexec", "ci"} \subseteq DOMAIN e /\ e.k \in Calling \ {"pcall"}
        /\ e.t = t /\ e.nexec = 0 /\ e.ci = Len(th[t].ci)
    BY DEF Calling
  <2> HIDE DEF e, func
  <2>4. Quiet(L, th[t])
    BY <2>2, QuietSame
  <2> QED
    BY <2>1, <2>2, <2>3, <2>4, PlainCallInv
<1>2. ASSUME lua_pcall(t, a, r, ef) PROVE CallsInv'
  <2> DEFINE e == [k |-> "pcall", t |-> t, nexec |-> 0, ci |-> Len(L.ci),
                   nresults |-> r, oldtop |-> func, nCcalls |-> L.nCcalls,
                   allowhook |-> L.allowhook, errfunc |-> L.errfunc,
                   keep |-> SubSeq(L.stk, Bottom(t), func - 1)]
             M == [L EXCEPT !.errfunc = ef]
  <2>1. CRuns(t) /\ luaD_call(t, M, cst, e, func, r)
    BY <1>2 DEF lua_pcall
  <2>2. pend = "none" /\ t = Current /\ t \in Thread /\ StateOK(L) /\ DOMAIN L = Fields
    BY <2>1, CRunsFacts
  <2>3. L.allowhook \in BOOLEAN
    BY <2>2 DEF StateOK
  <2>4. /\ e.k = "pcall" /\ e.t = t /\ e.nexec = 0 /\ e.ci = Len(th[t].ci)
        /\ e.nCcalls = th[t].nCcalls /\ e.errfunc = th[t].errfunc
        /\ e.allowhook = th[t].allowhook
        /\ {"k", "t", "nexec", "ci", "nCcalls", "errfunc", "allowhook"} \subseteq DOMAIN e
    OBVIOUS
  <2> HIDE DEF e, func
  <2>5. ActOK(e) /\ e.k \in Calling
    BY <2>2, <2>3, <2>4 DEF ActOK, Calling
  <2>6. /\ DOMAIN M = Fields /\ M.ci = L.ci /\ M.size_ci = L.size_ci
        /\ M.status = L.status /\ M.nCcalls = L.nCcalls /\ M.baseCcalls = L.baseCcalls
        /\ M.allowhook = L.allowhook /\ M.kept = L.kept
    BY <2>2 DEF Fields
  <2> HIDE DEF M
  <2>7. StateOK(M)
    BY <2>2, <2>6 DEF StateOK
  <2>8. Callable(M, th[t], e)
    BY <2>4, <2>6, <2>7 DEF Callable
  <2> QED
    BY <2>1, <2>2, <2>4, <2>5, <2>8, CallInv
<1> QED
  BY <1>1, <1>2

LEMMA ErrorMsgInv ==
  ASSUME NEW lev, Good(th, cst, pend, lev), luaG_errormsg
  PROVE  CallsInv'
<1> DEFINE t == Current
           L == th[t]
           K == SetSlot(L, L.top - 1, L.stk[L.errfunc])
           M == Push(K, L.stk[L.top - 1])
           e == [k |-> "handler", t |-> t, nexec |-> 0, ci |-> Len(L.ci)]
           func == L.top - 1
<1>1. /\ pend = "message"
      /\ \/ \E q \in {"ERRRUN", "ERRERR"} : Throw(th, t, L, cst, q)
         \/ luaD_call(t, M, cst, e, func, 1)
  BY DEF luaG_errormsg
<1>2. StateOK(L) /\ DOMAIN L = Fields
  BY CurrentThread
<1>3. cst # <<>>
  BY <1>1 DEF Good
<1>4. /\ {"k", "t", "nexec", "ci"} \subseteq DOMAIN e /\ e.k \in Calling \ {"pcall"}
      /\ e.t = t /\ e.nexec = 0 /\ e.ci = Len(th[t].ci) /\ e.k = "handler"
  BY DEF Calling
<1> HIDE DEF e, func
<1>5. StackOnly(K, L)
  BY <1>2, StackOps
<1> HIDE DEF K
<1>6. StackOnly(M, K)
  <2>1. DOMAIN K = Fields
    BY <1>5 DEF StackOnly
  <2> QED
    BY <2>1, StackOps
<1> HIDE DEF M
<1>7. Quiet(M, L)
  BY <1>2, <1>5, <1>6, StackTrans, StackQuiet
<1> HIDE DEF t
<1>8. t = Current
  BY DEF t
<1>9. ASSUME NEW q \in {"ERRRUN", "ERRERR"}, Throw(th, t, L, cst, q)
      PROVE  CallsInv'
  <2>1. Now(th, t, th[t], cst, pend, lev)
    BY <1>3, <1>8, NowAsIs
  <2>2. Alike(L, th[t]) /\ q \in Errors
    BY DEF Alike, SameSettings, Errors
  <2> QED
    BY <1>2, <1>9, <2>1, <2>2, ThrowInv
<1>10. ASSUME luaD_call(t, M, cst, e, func, 1)
       PROVE  CallsInv'
  BY <1>1, <1>3, <1>4, <1>7, <1>8, <1>10, PlainCallInv
<1> QED
  BY <1>1, <1>9, <1>10

-----------------------------------------------------------------------------
(* Returning                                                               *)

LEMMA SeqSame ==
  ASSUME NEW r, IsSeq(r), NEW s, IsSeq(s), Len(r) = Len(s),
         \A i \in 1 .. Len(s) : r[i] = s[i]
  PROVE  r = s
<1>1. r = [i \in 1 .. Len(r) |-> r[i]]
  BY DEF IsSeq
<1>2. s = [i \in 1 .. Len(s) |-> s[i]]
  BY DEF IsSeq
<1>3. [i \in 1 .. Len(r) |-> r[i]] = [i \in 1 .. Len(s) |-> s[i]]
  OBVIOUS
<1> QED
  BY <1>1, <1>2, <1>3

(* The innermost activation, with no error on its way.                     *)
LEMMA Innermost ==
  ASSUME NEW lev, Good(th, cst, pend, lev), pend = "none", cst # <<>>, NEW t, t = Current,
         NEW n, n = Len(cst), cst[n].k # "hook"
  PROVE  /\ n \in Nat /\ n >= 1 /\ cst[n].t = t /\ t \in Running(cst) /\ ActOK(cst[n])
         /\ lev[n] \in Nat /\ lev[n] >= 1 /\ cst[n].nexec \in Nat
         /\ BlockOK(th[t], cst[n], lev[n], Len(th[t].ci))
         /\ lev[n] < Len(th[t].ci) /\ th[t].status = "ok"
         /\ cst[n].k = "resume" => cst[n].nexec >= 1 /\ lev[n] = 1
<1>1. /\ ChainOK(cst) /\ FramesOK(th, cst, lev) /\ BusyOK(th, cst, pend, lev)
      /\ StatusOK(th, cst)
  BY DEF Good
<1>2. n \in Nat /\ n >= 1 /\ n \in 1 .. Len(cst) /\ \A i \in 1 .. Len(cst) : cst[i].t \in Running(cst)
  BY <1>1, RunningThread
<1>3. cst[n].t = t
  BY CurrentThread DEF Cur
<1>4. Upper(th, cst, lev, n) = Len(th[t].ci)
  BY <1>2, <1>3 DEF Upper
<1>5. /\ lev[n] >= 1 /\ BlockOK(th[t], cst[n], lev[n], Len(th[t].ci))
      /\ cst[n].k = "resume" => lev[n] = 1
  BY <1>1, <1>2, <1>3, <1>4 DEF FramesOK
<1>6. lev[n] < Len(th[t].ci) /\ (cst[n].k = "resume" => cst[n].nexec >= 1)
  BY <1>1, <1>2, <1>4 DEF BusyOK
<1>7. lev[n] \in Nat /\ cst[n].nexec \in Nat
  BY <1>2, Numbers
<1>8. ActOK(cst[n]) /\ t \in Running(cst) /\ th[t].status = "ok"
  BY <1>1, <1>2, <1>3 DEF ChainOK, ActsOK, StatusOK
<1> QED
  BY <1>2, <1>3, <1>5, <1>6, <1>7, <1>8

(* A C function on top of the Lua functions of its activation.             *)
LEMMA CFunction ==
  ASSUME NEW lev, Good(th, cst, pend, lev), NEW t, CRuns(t), ~InHook, Len(th[t].ci) > 1,
         NEW n, n = Len(cst)
  PROVE  /\ cst # <<>> /\ cst[n].k # "hook" /\ ~th[t].ci[Len(th[t].ci)].lua
         /\ Len(th[t].ci) = lev[n] + cst[n].nexec + 1
         /\ \A f \in lev[n] + 1 .. lev[n] + cst[n].nexec : th[t].ci[f].lua
<1>1. /\ pend = "none" /\ t = Current /\ t = Cur(cst) /\ StateOK(th[t])
  BY CRunsFacts
<1>2. cst # <<>>
  <2>1. ASSUME cst = <<>> PROVE FALSE
    <3>1. t = Main /\ Len(th[t].ci) = 1
      BY <1>1, <2>1 DEF Cur, Good, FramesOK
    <3> QED
      BY <3>1
  <2> QED
    BY <2>1
<1>3. cst[n].k # "hook"
  BY <1>2, CurrentThread DEF InHook
<1>4. ~th[t].ci[Len(th[t].ci)].lua
  <2>1. Frame(th[t]) = th[t].ci[Len(th[t].ci)] /\ ~Frame(th[t]).lua
    BY <1>1, StateFacts DEF CRuns, InC, isLua
  <2> QED
    BY <2>1
<1>5. /\ lev[n] \in Nat /\ cst[n].nexec \in Nat /\ lev[n] < Len(th[t].ci)
      /\ BlockOK(th[t], cst[n], lev[n], Len(th[t].ci)) /\ Len(th[t].ci) \in Nat
  BY <1>1, <1>2, <1>3, Innermost, StateFacts
<1>6. Len(th[t].ci) = lev[n] + cst[n].nexec + 1
  <2> DEFINE m == Len(th[t].ci)
  <2>1. lev[n] + cst[n].nexec <= m /\ m <= lev[n] + cst[n].nexec + 1
    BY <1>5 DEF BlockOK
  <2>2. m \notin lev[n] + 1 .. lev[n] + cst[n].nexec
    BY <1>4, <1>5 DEF BlockOK
  <2>3. m \in Nat /\ lev[n] < m
    BY <1>5
  <2>4. lev[n] \in Nat /\ cst[n].nexec \in Nat
    BY <1>5
  <2> HIDE DEF m
  <2>5. m = lev[n] + cst[n].nexec + 1
    BY <2>1, <2>2, <2>3, <2>4
  <2> QED
    BY <2>5 DEF m
<1> QED
  BY <1>2, <1>3, <1>4, <1>5, <1>6 DEF BlockOK

(* The activation of lua_resume is the lowest of its thread, so nothing    *)
(* below it could have left a handler, hooks switched off or an overflow.  *)
LEMMA Alone ==
  ASSUME NEW lev, Good(th, cst, pend, lev), pend = "none", cst # <<>>, NEW t, t = Current,
         NEW n, n = Len(cst), cst[n].k = "resume"
  PROVE  /\ th[t].errfunc = 0 /\ th[t].allowhook
         /\ th[t].kept \/ th[t].size_ci <= LUAI_MAXCALLS
         /\ n > 1 /\ cst[n].from \in Thread /\ cst[n].from # t
<1>1. /\ ChainOK(cst) /\ SettingsOK(th, cst) /\ OverflowOK(th, cst, pend)
  BY DEF Good
<1>2. /\ n \in Nat /\ n >= 1 /\ cst[n].t = t /\ th[t].status = "ok"
  BY Innermost
<1>3. n \in 1 .. Len(cst) /\ t \in Thread /\ StateOK(th[t])
  BY <1>2, CurrentThread
<1>4. /\ n > 1 /\ cst[n].from = cst[n - 1].t
      /\ \A i \in 1 .. n - 1 : cst[i].t # t
  BY <1>1, <1>2, <1>3 DEF ChainOK, ResumesOK
<1>5. cst[n].from \in Thread /\ cst[n].from # t
  <2>1. n - 1 \in 1 .. Len(cst) /\ n - 1 \in 1 .. n - 1
    BY <1>2, <1>4
  <2>2. cst[n - 1].t \in Thread
    BY <2>1, Numbers
  <2> QED
    BY <1>4, <2>1, <2>2
<1>6. ASSUME NEW k, Has(cst, Len(cst), t, k) PROVE k = "resume"
  <2>1. PICK i \in 1 .. Len(cst) : cst[i].t = t /\ cst[i].k = k
    BY <1>6 DEF Has
  <2>2. i = n
    BY <1>2, <1>4, <2>1
  <2> QED
    BY <2>1, <2>2
<1>7. ~Has(cst, Len(cst), t, "pcall") /\ ~Has(cst, Len(cst), t, "hook")
  BY <1>6
<1>8. ~Has(cst, Len(cst), t, "handler")
  BY <1>6
<1>9. th[t].errfunc = 0 /\ th[t].allowhook
  BY <1>1, <1>2, <1>3, <1>7 DEF SettingsOK, StateOK
<1>10. th[t].kept \/ th[t].size_ci <= LUAI_MAXCALLS
  <2>1. th[t].size_ci \in Nat /\ LUAI_MAXCALLS \in Nat /\ pend \notin Errors
    BY <1>3, CallsAssumption DEF StateOK, Errors
  <2>2. th[t].kept \/ ~(th[t].size_ci > LUAI_MAXCALLS)
    BY <1>1, <1>2, <1>3, <1>8, <2>1 DEF OverflowOK
  <2> QED
    BY <2>1, <2>2
<1> QED
  BY <1>4, <1>5, <1>9, <1>10

(* The end of lua_resume: its thread is done or suspended, the one that    *)
(* resumed it goes on.                                                     *)
LEMMA EndResumeInv ==
  ASSUME NEW lev, Good(th, cst, pend, lev), pend = "none", cst # <<>>, NEW t, t = Current,
         cst[Len(cst)].k = "resume", NEW L, StateOK(L), Ended(L),
         NEW k, EndResume(t, L, k)
  PROVE  CallsInv'
<1> DEFINE n == Len(cst)
           from == Last(cst).from
           R == [L EXCEPT !.nCcalls = @ - 1]
           F == lua_checkstack(th[from], k + 1)
           x == lua_xmove(R, F, k)
           T2 == [th EXCEPT ![t] = x.from, ![from] = x.to]
<1>1. th' = T2 /\ cst' = Front(cst) /\ pend' = "none"
  BY DEF EndResume
<1>2. /\ DOMAIN th = Thread /\ t \in Thread /\ Last(cst) = cst[n] /\ ChainOK(cst)
      /\ \A u \in Thread : StateOK(th[u])
  BY CurrentThread DEF Good
<1>3. from \in Thread /\ from # t /\ n > 1 /\ n \in Nat /\ cst[n].t = t
  BY <1>2, Alone, Innermost
<1> HIDE DEF from
<1>4. Quiet(F, th[from])
  BY <1>2, <1>3, FrameOps
<1>5. /\ DOMAIN R = Fields /\ R.ci = L.ci /\ R.size_ci = L.size_ci /\ R.status = L.status
      /\ R.nCcalls = L.nCcalls - 1 /\ R.baseCcalls = L.baseCcalls
      /\ R.errfunc = L.errfunc /\ R.allowhook = L.allowhook /\ R.kept = L.kept
  BY DEF StateOK, Fields
<1> HIDE DEF R, F
<1>6. StateOK(R) /\ Ended(R)
  <2>1. R.nCcalls \in Int
    BY <1>5 DEF StateOK
  <2> QED
    BY <1>5, <2>1 DEF StateOK, Ended, Suspended
<1>7. StackOnly(x.from, R) /\ StackOnly(x.to, F)
  <2>1. DOMAIN F = Fields
    BY <1>4 DEF Quiet, StateOK
  <2> QED
    BY <1>5, <2>1, XmoveStack
<1> HIDE DEF x
<1>8. StateOK(x.from) /\ Ended(x.from)
  <2>1. StateOK(x.from)
    BY <1>6, <1>7, StackQuiet DEF Quiet
  <2>2. /\ x.from.ci = R.ci /\ x.from.status = R.status /\ x.from.errfunc = R.errfunc
        /\ x.from.allowhook = R.allowhook /\ x.from.kept = R.kept
        /\ x.from.size_ci = R.size_ci
    BY <1>7 DEF StackOnly, SameSettings
  <2>3. Ended(x.from)
    BY <1>6, <2>2 DEF Ended, Suspended
  <2> QED
    BY <2>1, <2>3
<1>9. Quiet(x.to, th[from])
  <2>1. Quiet(x.to, F)
    BY <1>4, <1>7, StackQuiet DEF Quiet
  <2> QED
    BY <1>4, <2>1, QuietTrans
<1>10. /\ DOMAIN T2 = Thread /\ T2[t] = x.from /\ T2[from] = x.to
       /\ \A u \in Thread \ {t, from} : T2[u] = th[u]
  BY <1>2, <1>3
<1> HIDE DEF T2
<1>11. \A u \in Thread \ {t} : Quiet(T2[u], th[u])
  BY <1>2, <1>9, <1>10, QuietSame
<1>12. \A u \in Thread : StateOK(T2[u])
  <2>1. \A u \in Thread \ {t} : StateOK(T2[u])
    BY <1>11 DEF Quiet
  <2>2. StateOK(T2[t])
    BY <1>8, <1>10
  <2> QED
    BY <2>1, <2>2
<1>13. PopStep(th, cst, lev, T2, Front(cst), "none", n - 1, t)
  <2>1. n - 1 \in Nat /\ n - 1 < Len(cst) /\ (n - 1) + 1 = n
    BY <1>3
  <2>2. Front(cst) = SubSeq(cst, 1, n - 1)
    BY DEF Front
  <2>3. \A i \in (n - 1) + 1 .. Len(cst) : cst[i].t = t
    BY <1>3
  <2>4. \A u \in Thread \ {t} : Alike(T2[u], th[u]) /\ T2[u].size_ci = th[u].size_ci
    BY <1>11 DEF Quiet
  <2> QED
    BY <1>8, <1>10, <1>12, <2>1, <2>2, <2>3, <2>4 DEF PopStep
<1>14. Good(T2, Front(cst), "none", Lower(lev, n - 1))
  BY <1>13, PopGood
<1> QED
  BY <1>1, <1>14, InvNext

(* A call is over: the thread has the frames, the counters and the         *)
(* settings that it had before it.                                         *)
After(M, L, e) ==
  /\ StateOK(M) /\ Len(M.ci) = Len(L.ci)
  /\ \A i \in 1 .. Len(L.ci) : M.ci[i].lua = L.ci[i].lua
  /\ M.status = L.status /\ M.baseCcalls = L.baseCcalls /\ M.nCcalls = L.nCcalls - 1
  /\ M.errfunc = IF e.k = "pcall" THEN e.errfunc ELSE L.errfunc
  /\ M.allowhook = L.allowhook /\ M.kept = L.kept /\ M.size_ci = L.size_ci

LEMMA AfterGood ==
  ASSUME NEW lev, Good(th, cst, pend, lev), pend = "none", cst # <<>>, NEW t, t = Current,
         NEW n, n = Len(cst), cst[n].k \in Calling,
         NEW L, SameSettings(L, th[t]), Cut(L, th[t], lev[n]), L.size_ci = th[t].size_ci,
         NEW M, After(M, L, cst[n]),
         NEW q, q = IF cst[n].k = "handler" THEN "ERRRUN" ELSE "none"
  PROVE  Good([th EXCEPT ![t] = M], Front(cst), q, Lower(lev, n - 1))
<1> DEFINE T2 == [th EXCEPT ![t] = M]
           m == n - 1
<1>1. /\ DOMAIN th = Thread /\ t \in Thread /\ ChainOK(cst)
      /\ \A u \in Thread : StateOK(th[u])
  BY CurrentThread DEF Good
<1>2. /\ n \in Nat /\ n >= 1 /\ cst[n].t = t /\ t \in Running(cst) /\ lev[n] \in Nat
      /\ th[t].status = "ok" /\ cst[n].k # "hook" /\ cst[n].k # "resume"
  <2>1. cst[n].k # "hook" /\ cst[n].k # "resume"
    BY DEF Calling
  <2> QED
    BY <2>1, Innermost
<1>3. m \in Nat /\ m < Len(cst) /\ m + 1 = n /\ n \in 1 .. Len(cst)
  BY <1>2
<1>4. T2[t] = M /\ DOMAIN T2 = Thread /\ \A u \in Thread \ {t} : T2[u] = th[u]
  BY <1>1
<1> HIDE DEF T2
<1>5. /\ StateOK(M) /\ M.status = "ok" /\ M.baseCcalls = th[t].baseCcalls
      /\ M.nCcalls = th[t].nCcalls - 1 /\ M.allowhook = th[t].allowhook
      /\ M.kept = th[t].kept /\ M.size_ci = th[t].size_ci /\ Len(M.ci) = lev[n]
      /\ M.errfunc = IF cst[n].k = "pcall" THEN cst[n].errfunc ELSE th[t].errfunc
  BY <1>2 DEF After, SameSettings, Cut
<1>6. \A i \in 1 .. lev[n] : M.ci[i].lua = th[t].ci[i].lua
  BY DEF After, Cut
<1>7. M.nCcalls = M.baseCcalls + Cardinality(CallsTo(cst, t, m))
  <2>1. th[t].nCcalls = th[t].baseCcalls + Cardinality(CallsTo(cst, t, n))
    BY <1>2 DEF Good, CountsOK
  <2>2. /\ Cardinality(CallsTo(cst, t, m)) \in Nat
        /\ Cardinality(CallsTo(cst, t, n)) = Cardinality(CallsTo(cst, t, m)) + 1
    BY <1>2, <1>3, CallsCount
  <2>3. th[t].baseCcalls \in Int
    BY <1>1 DEF StateOK
  <2> QED
    BY <1>5, <2>1, <2>2, <2>3
<1>8. \A k : Has(cst, n, t, k) => k = cst[n].k \/ Has(cst, m, t, k)
  BY <1>2, <1>3 DEF Has
<1>9. M.errfunc # 0 => Has(cst, m, t, "pcall")
  <2>1. CASE cst[n].k = "pcall"
    <3>1. cst[n].errfunc # 0 => Has(cst, n - 1, cst[n].t, "pcall")
      BY <1>3, <2>1 DEF Good, SettingsOK
    <3> QED
      BY <1>2, <1>5, <2>1, <3>1
  <2>2. CASE cst[n].k # "pcall"
    <3>1. th[t].errfunc # 0 => Has(cst, n, t, "pcall")
      BY <1>1, <1>2 DEF Good, SettingsOK
    <3> QED
      BY <1>5, <1>8, <2>2, <3>1
  <2> QED
    BY <2>1, <2>2
<1>10. ~M.allowhook => Has(cst, m, t, "hook")
  <2>1. ~th[t].allowhook => Has(cst, n, t, "hook")
    BY <1>1, <1>2 DEF Good, SettingsOK
  <2> QED
    BY <1>2, <1>5, <1>8, <2>1
<1>11. (~M.kept /\ M.size_ci > LUAI_MAXCALLS) => q \in Errors \/ Has(cst, m, t, "handler")
  <2>1. (~th[t].kept /\ th[t].size_ci > LUAI_MAXCALLS) => Has(cst, n, t, "handler")
    BY <1>1, <1>2 DEF Good, OverflowOK, Errors
  <2>2. cst[n].k = "handler" => q \in Errors
    BY DEF Errors
  <2> QED
    BY <1>5, <1>8, <2>1, <2>2
<1>12. CameBack(th, cst, lev, M, q, m, t)
  BY <1>3, <1>5, <1>6, <1>7, <1>9, <1>10, <1>11 DEF CameBack
<1>13. m = 0 => q = "none"
  <2>1. HostOK(cst)
    BY <1>1 DEF ChainOK
  <2>2. cst[1].k = "pcall"
    BY <1>2, <2>1 DEF HostOK
  <2> HIDE DEF m
  <2>3. ASSUME m = 0 PROVE n = 1
    <3>1. n = 0 + 1
      BY <1>3, <2>3, Zenon
    <3>2. 0 + 1 = 1
      OBVIOUS
    <3> QED
      BY <3>1, <3>2, Zenon
  <2> QED
    BY <2>2, <2>3
<1>14. PopStep(th, cst, lev, T2, Front(cst), q, m, t)
  <2>1. Front(cst) = SubSeq(cst, 1, m)
    BY DEF Front
  <2>2. \A i \in m + 1 .. Len(cst) : cst[i].t = t
    BY <1>2, <1>3
  <2>3. \A u \in Thread \ {t} : Alike(T2[u], th[u]) /\ T2[u].size_ci = th[u].size_ci
    BY <1>4 DEF Alike, SameSettings
  <2>4. q \in Errors \cup {"none"}
    BY DEF Errors
  <2>5. \A u \in Thread : StateOK(T2[u])
    BY <1>1, <1>4, <1>5
  <2> HIDE DEF m
  <2> QED
    BY <1>2, <1>3, <1>4, <1>12, <1>13, <2>1, <2>2, <2>3, <2>4, <2>5 DEF PopStep
<1>15. Good(T2, Front(cst), q, Lower(lev, m))
  BY <1>14, PopGood
<1> QED
  BY <1>15 DEF T2

(* The callers of luaD_call and luaD_pcall, when luaV_execute or the C     *)
(* function is over; cs is the C stack with nexeccalls at zero.            *)
LEMMA FinishInv ==
  ASSUME NEW lev, Good(th, cst, pend, lev), pend = "none", cst # <<>>, NEW t, t = Current,
         NEW n, n = Len(cst), cst[n].k # "hook",
         NEW cs, Last(cs).k = cst[n].k, Front(cs) = Front(cst),
         cst[n].k = "pcall" => Last(cs).errfunc = cst[n].errfunc,
         NEW L, StateOK(L), SameSettings(L, th[t]), Cut(L, th[t], lev[n]),
         L.size_ci = th[t].size_ci, FinishCall(t, L, cs)
  PROVE  CallsInv'
<1> DEFINE e == Last(cs)
           K == [L EXCEPT !.nCcalls = @ - 1]
           P == [K EXCEPT !.errfunc = e.errfunc]
<1>1. e.k \in Calling \cup {"resume"} /\ e.k = cst[n].k
  BY Innermost DEF ActOK
<1>2. /\ StateOK(K) /\ K.ci = L.ci /\ K.size_ci = L.size_ci /\ K.status = L.status
      /\ K.nCcalls = L.nCcalls - 1 /\ K.baseCcalls = L.baseCcalls
      /\ K.errfunc = L.errfunc /\ K.allowhook = L.allowhook /\ K.kept = L.kept
      /\ DOMAIN K = Fields
  <2>1. /\ K.ci = L.ci /\ K.size_ci = L.size_ci /\ K.status = L.status
        /\ K.nCcalls = L.nCcalls - 1 /\ K.baseCcalls = L.baseCcalls
        /\ K.errfunc = L.errfunc /\ K.allowhook = L.allowhook /\ K.kept = L.kept
        /\ DOMAIN K = Fields
    BY DEF StateOK, Fields
  <2> HIDE DEF K
  <2>2. K.nCcalls \in Int
    BY <2>1 DEF StateOK
  <2> QED
    BY <2>1, <2>2 DEF StateOK
<1>3. /\ DOMAIN P = Fields /\ P.ci = K.ci /\ P.size_ci = K.size_ci /\ P.status = K.status
      /\ P.nCcalls = K.nCcalls /\ P.baseCcalls = K.baseCcalls
      /\ P.errfunc = e.errfunc /\ P.allowhook = K.allowhook /\ P.kept = K.kept
  BY <1>2 DEF Fields
<1>4. /\ e.k = "call" => Go(th, t, adjustresults(K, e), Front(cst))
      /\ e.k = "pcall" => Go(th, t, adjustresults(P, e), Front(cst))
      /\ e.k = "callTMres" => Go(th, t, TMresult(K, e), Front(cst))
      /\ e.k = "compare" => EndComparison(t, K, e, Front(cst))
      /\ e.k = "callTM" => Go(th, t, K, Front(cst))
      /\ e.k = "handler" => Throw(th, t, K, Front(cst), "ERRRUN")
      /\ e.k = "resume" => EndResume(t, L, L.top - L.base)
  BY DEF FinishCall
<1> HIDE DEF K, P, e
<1>5. StateOK(P)
  BY <1>2, <1>3 DEF StateOK
<1>6. /\ Quiet(adjustresults(K, e), K) /\ Quiet(TMresult(K, e), K) /\ Quiet(K, K)
  BY <1>2, FrameOps, TMresultStack, StackQuiet, QuietSame
<1>7. Quiet(adjustresults(P, e), P)
  BY <1>5, FrameOps
<1>8. ASSUME NEW M, Quiet(M, IF e.k = "pcall" THEN P ELSE K), e.k # "resume"
      PROVE  After(M, L, cst[n])
  <2>1. e.k = "pcall" => e.errfunc = cst[n].errfunc
    BY <1>1 DEF e
  <2>2. /\ StateOK(M) /\ Len(M.ci) = Len(L.ci)
        /\ \A i \in 1 .. Len(L.ci) : M.ci[i].lua = L.ci[i].lua
    BY <1>2, <1>3, <1>8 DEF Quiet, Alike
  <2>3. /\ M.status = L.status /\ M.baseCcalls = L.baseCcalls
        /\ M.nCcalls = L.nCcalls - 1
        /\ M.allowhook = L.allowhook /\ M.kept = L.kept /\ M.size_ci = L.size_ci
        /\ M.errfunc = IF e.k = "pcall" THEN e.errfunc ELSE L.errfunc
    BY <1>2, <1>3, <1>8 DEF Quiet, Alike, SameSettings
  <2> QED
    BY <1>1, <2>1, <2>2, <2>3 DEF After
<1>9. ASSUME NEW M, Quiet(M, IF e.k = "pcall" THEN P ELSE K), e.k # "resume",
             th' = [th EXCEPT ![t] = M], cst' = Front(cst),
             pend' = IF cst[n].k = "handler" THEN "ERRRUN" ELSE "none"
      PROVE  CallsInv'
  <2>1. After(M, L, cst[n]) /\ cst[n].k \in Calling
    BY <1>1, <1>8, <1>9
  <2>2. Good([th EXCEPT ![t] = M], Front(cst), pend', Lower(lev, n - 1))
    BY <1>9, <2>1, AfterGood
  <2> QED
    BY <1>9, <2>2, InvNext
<1>10. CASE e.k \in {"call", "callTMres", "callTM"}
  <2>1. PICK M : Quiet(M, K) /\ Go(th, t, M, Front(cst))
    BY <1>4, <1>6, <1>10
  <2> QED
    BY <1>1, <1>9, <1>10, <2>1 DEF Go
<1>11. CASE e.k = "pcall"
  BY <1>1, <1>4, <1>7, <1>9, <1>11 DEF Go
<1>12. CASE e.k = "handler"
  BY <1>1, <1>4, <1>6, <1>9, <1>12 DEF Throw
<1>13. CASE e.k = "compare"
  <2> DEFINE N == TMresult(K, e)
             M == SetSlot(N, N.top, Nil)
  <2>1. th' = [th EXCEPT ![t] = M] /\ cst' = Front(cst) /\ pend' = "none"
    BY <1>4, <1>13 DEF EndComparison
  <2>2. Quiet(N, K)
    BY <1>6
  <2> HIDE DEF N
  <2>3. Quiet(M, N)
    <3>1. DOMAIN N = Fields /\ StateOK(N)
      BY <2>2 DEF Quiet, StateOK
    <3> QED
      BY <3>1, StackOps, StackQuiet
  <2> HIDE DEF M
  <2>4. Quiet(M, K)
    BY <2>2, <2>3, QuietTrans
  <2> QED
    BY <1>1, <1>9, <1>13, <2>1, <2>4
<1>14. CASE e.k = "resume"
  <2>1. cst[n].k = "resume"
    BY <1>1, <1>14
  <2>2. /\ th[t].errfunc = 0 /\ th[t].allowhook
        /\ th[t].kept \/ th[t].size_ci <= LUAI_MAXCALLS
    BY <2>1, Alone
  <2>3. th[t].status = "ok" /\ (cst[n].k = "resume" => lev[n] = 1)
    BY Innermost
  <2>4. Ended(L)
    BY <2>1, <2>2, <2>3 DEF Ended, SameSettings, Cut
  <2> QED
    BY <1>4, <1>14, <2>1, <2>4, EndResumeInv
<1> QED
  BY <1>1, <1>10, <1>11, <1>12, <1>13, <1>14 DEF Calling

(* The innermost function returns: a Lua function, after which nexeccalls  *)
(* is one less, or a C function.                                           *)
LEMMA ReturnInv ==
  ASSUME NEW lev, Good(th, cst, pend, lev), pend = "none", cst # <<>>, NEW t, t = Current,
         NEW n, n = Len(cst), cst[n].k # "hook",
         NEW L, Quiet(L, th[t]), NEW x \in Nat, Len(L.ci) = lev[n] + x + 1,
         cst[n].nexec = IF isLua(L) THEN x + 1 ELSE x,
         NEW first, Return(t, L, first)
  PROVE  CallsInv'
<1> DEFINE M == luaD_poscall(L, first)
           cs == IF isLua(L) THEN Executing(cst, -1) ELSE cst
           nresults == Frame(L).nresults
<1>1. IF Last(cs).nexec = 0 THEN FinishCall(t, M, cs)
      ELSE Go(th, t, AfterCall(M, nresults), cs)
  BY DEF Return
<1>2. /\ n \in Nat /\ n >= 1 /\ cst[n].t = t /\ ActOK(cst[n])
      /\ lev[n] \in Nat /\ lev[n] >= 1 /\ cst[n].nexec \in Nat
      /\ BlockOK(th[t], cst[n], lev[n], Len(th[t].ci))
  BY Innermost
<1>3. ChainOK(cst) /\ DOMAIN th = Thread /\ t \in Thread /\ StateOK(th[t])
  BY CurrentThread
<1>4. /\ SameActs(cs, cst) /\ \A i \in 1 .. n - 1 : cs[i] = cst[i]
      /\ cs[n].nexec = x
  <2>1. CASE isLua(L)
    <3> DEFINE d == -1
    <3>1. d \in Int /\ cst[n].nexec + d = x
      BY <2>1
    <3>2. cs = Executing(cst, d)
      BY <2>1
    <3> HIDE DEF d, cs
    <3>3. cst[Len(cst)].nexec + d \in Nat
      BY <3>1
    <3>4. /\ SameActs(Executing(cst, d), cst)
          /\ \A i \in 1 .. Len(cst) - 1 : Executing(cst, d)[i] = cst[i]
          /\ Executing(cst, d)[Len(cst)].nexec = cst[Len(cst)].nexec + d
      BY <1>3, <3>1, <3>3, ExecutingActs
    <3> QED
      BY <3>1, <3>2, <3>4
  <2>2. CASE ~isLua(L)
    BY <1>3, <2>2 DEF SameActs, ChainOK, ActsOK
  <2> QED
    BY <2>1, <2>2
<1> HIDE DEF cs, nresults
<1>5. /\ IsSeq(cs) /\ Len(cs) = n /\ Last(cs) = cs[n] /\ cs[n].k = cst[n].k
      /\ cst[n].k = "pcall" => cs[n].errfunc = cst[n].errfunc
  <2>1. IsSeq(cs) /\ Len(cs) = n
    BY <1>4 DEF SameActs
  <2>2. n \in 1 .. Len(cst)
    BY <1>2
  <2> QED
    BY <1>4, <2>1, <2>2 DEF SameActs, Last
<1>6. Front(cs) = Front(cst)
  <2>1. /\ IsSeq(Front(cs)) /\ Len(Front(cs)) = n - 1
        /\ \A i \in 1 .. n - 1 : Front(cs)[i] = cs[i]
    BY <1>2, <1>5, SeqFront
  <2>2. /\ IsSeq(Front(cst)) /\ Len(Front(cst)) = n - 1
        /\ \A i \in 1 .. n - 1 : Front(cst)[i] = cst[i]
    BY <1>2, <1>3, SeqFront DEF ChainOK
  <2>3. \A i \in 1 .. Len(Front(cst)) : Front(cs)[i] = Front(cst)[i]
    BY <1>4, <2>1, <2>2
  <2> QED
    BY <2>1, <2>2, <2>3, SeqSame
<1>7. /\ StateOK(L) /\ SameSettings(L, th[t]) /\ L.size_ci = th[t].size_ci
      /\ Len(L.ci) = Len(th[t].ci)
      /\ \A i \in 1 .. Len(th[t].ci) : L.ci[i].lua = th[t].ci[i].lua
  BY DEF Quiet, Alike
<1>8. /\ StateOK(M) /\ SameSettings(M, L) /\ M.size_ci = L.size_ci
      /\ Cut(M, L, Len(L.ci) - 1)
  <2>1. Len(L.ci) >= 2
    BY <1>2
  <2> QED
    BY <1>7, <2>1, PosCall
<1> HIDE DEF M
<1>9. /\ SameSettings(M, th[t]) /\ M.size_ci = th[t].size_ci
      /\ Cut(M, th[t], lev[n] + x)
  <2>1. Len(L.ci) - 1 = lev[n] + x /\ lev[n] + x \in Nat
    BY <1>2
  <2>2. \A i \in 1 .. lev[n] + x : i \in 1 .. Len(th[t].ci)
    BY <1>2, <1>7
  <2>3. Cut(M, th[t], lev[n] + x)
    BY <1>7, <1>8, <2>1, <2>2 DEF Cut
  <2> QED
    BY <1>7, <1>8, <2>3 DEF SameSettings
<1>10. CASE x = 0
  <2>1. Cut(M, th[t], lev[n]) /\ FinishCall(t, M, cs)
    BY <1>1, <1>2, <1>4, <1>5, <1>9, <1>10
  <2> QED
    BY <1>5, <1>6, <1>8, <1>9, <2>1, FinishInv
<1>11. CASE x # 0
  <2> DEFINE T2 == [th EXCEPT ![t] = M]
  <2>1. T2[t] = M /\ Only(T2, th, t)
    BY <1>3 DEF Only
  <2> HIDE DEF T2
  <2>2. /\ \A i \in 1 .. lev[n] : M.ci[i].lua = th[t].ci[i].lua
        /\ Len(M.ci) = lev[n] + x /\ lev[n] <= Len(M.ci) /\ lev[n] < Len(M.ci)
    BY <1>2, <1>9, <1>11 DEF Cut
  <2>3. BlockOK(M, cs[n], lev[n], Len(M.ci))
    <3>1. \A f \in lev[n] + 1 .. lev[n] + x : M.ci[f].lua
      <4>1. \A f \in lev[n] + 1 .. lev[n] + x :
              f \in lev[n] + 1 .. lev[n] + cst[n].nexec /\ f \in 1 .. lev[n] + x
        BY <1>2
      <4>2. \A f \in lev[n] + 1 .. lev[n] + x : th[t].ci[f].lua
        BY <1>2, <4>1 DEF BlockOK
      <4> QED
        BY <1>9, <4>1, <4>2 DEF Cut
    <3>2. cs[n].k # "hook"
      BY <1>5
    <3> QED
      BY <1>2, <1>4, <2>2, <3>1, <3>2 DEF BlockOK
  <2>4. x >= 1
    BY <1>11
  <2>5. TopStep(th, cst, lev, T2, cs, "none", n, t)
    BY <1>2, <1>4, <1>8, <1>9, <2>1, <2>2, <2>3, <2>4 DEF TopStep
  <2>6. Good(T2, cs, "none", lev)
    BY <2>5, TopGood
  <2>7. Now(th, t, M, cs, "none", lev)
    <3>1. cs # <<>> /\ Cur(cs) = t
      <4>1. Cur(cs) = Cur(cst) /\ cs # <<>>
        BY <1>3, <1>4, SameActsFacts
      <4> QED
        BY <4>1, CurrentThread
    <3> QED
      BY <1>3, <2>6, <3>1 DEF Now, T2
  <2>8. Quiet(AfterCall(M, nresults), M)
    BY <1>8, FrameOps
  <2>9. Now(th, t, AfterCall(M, nresults), cs, "none", lev)
    BY <2>7, <2>8, NowQuiet DEF Quiet
  <2> QED
    BY <1>1, <1>4, <1>5, <1>11, <2>9, GoInv
<1> QED
  BY <1>10, <1>11

LEMMA FunctionReturnInv ==
  ASSUME NEW lev, Good(th, cst, pend, lev), NEW t, NEW r, NEW b, NEW k
  PROVE  /\ OP_RETURN(t, r, b) => CallsInv'
         /\ CReturn(t, k) => CallsInv'
<1> DEFINE n == Len(cst)
<1>1. ASSUME OP_RETURN(t, r, b) PROVE CallsInv'
  <2> DEFINE K == luaF_close(th[t], Frame(th[t]).base)
             L == IF b = 0 THEN K ELSE CutTo(K, r + b - 1)
             x == cst[n].nexec - 1
  <2>1. LuaRuns(t) /\ Return(t, L, r)
    BY <1>1 DEF OP_RETURN
  <2>2. /\ pend = "none" /\ cst # <<>> /\ t = Current /\ StateOK(th[t])
        /\ DOMAIN th[t] = Fields
        /\ Now(th, t, th[t], cst, "none", lev) /\ Free(th[t], cst, lev)
    BY <2>1, LuaRunsFacts
  <2>3. cst[n].nexec \in Nat /\ cst[n].nexec >= 1 /\ lev[n] \in Nat
    BY <2>2, FreeFacts
  <2>4. x \in Nat /\ cst[n].nexec = x + 1 /\ lev[n] + cst[n].nexec = lev[n] + x + 1
    BY <2>3
  <2> HIDE DEF x
  <2>5. StackOnly(K, th[t])
    BY <2>2, StackOps
  <2> HIDE DEF K
  <2>6. StackOnly(CutTo(K, r + b - 1), K)
    BY <2>5, StackOps DEF StackOnly
  <2>7. StackOnly(L, th[t])
    BY <2>5, <2>6, StackTrans
  <2> HIDE DEF L
  <2>8. Quiet(L, th[t]) /\ L.ci = th[t].ci
    BY <2>2, <2>7, StackQuiet DEF StackOnly
  <2>9. isLua(L)
    BY <2>1, <2>8 DEF LuaRuns, InC, isLua, Frame
  <2>10. Len(L.ci) = lev[n] + x + 1 /\ cst[n].k # "hook"
    BY <2>2, <2>4, <2>8 DEF Free
  <2> QED
    BY <2>1, <2>2, <2>4, <2>8, <2>9, <2>10, ReturnInv
<1>2. ASSUME CReturn(t, k) PROVE CallsInv'
  <2> DEFINE L == th[t]
             x == cst[n].nexec
  <2>1. CRuns(t) /\ ~InHook /\ Len(L.ci) > 1 /\ Return(t, L, L.top - k)
    BY <1>2 DEF CReturn
  <2>2. pend = "none" /\ t = Current /\ StateOK(L)
    BY <2>1, CRunsFacts
  <2>3. cst # <<>> /\ cst[n].k # "hook" /\ Len(L.ci) = lev[n] + x + 1
    BY <2>1, CFunction
  <2>4. x \in Nat
    BY <2>2, <2>3, Innermost
  <2>5. Quiet(L, th[t]) /\ ~isLua(L)
    BY <2>1, <2>2, QuietSame DEF CRuns, InC
  <2> HIDE DEF x
  <2>6. cst[n].nexec = IF isLua(L) THEN x + 1 ELSE x
    BY <2>5 DEF x
  <2> HIDE DEF L
  <2> QED
    BY <2>1, <2>2, <2>3, <2>4, <2>5, <2>6, ReturnInv
<1> QED
  BY <1>1, <1>2

LEMMA HookReturnInv ==
  ASSUME NEW lev, Good(th, cst, pend, lev), NEW t, HookReturn(t)
  PROVE  CallsInv'
<1> DEFINE n == Len(cst)
           m == n - 1
           e == Last(cst)
           L == CutTo(th[t], e.top)
           K == [L EXCEPT !.allowhook = TRUE]
           M == SetFrame(K, [Frame(L) EXCEPT !.top = e.citop])
           T2 == [th EXCEPT ![t] = M]
<1>1. CRuns(t) /\ InHook /\ th' = T2 /\ cst' = Front(cst) /\ pend' = "none"
  BY DEF HookReturn, Go
<1>2. /\ pend = "none" /\ t = Current /\ t = Cur(cst) /\ t \in Thread
      /\ StateOK(th[t]) /\ DOMAIN th[t] = Fields /\ DOMAIN th = Thread
  BY <1>1, CRunsFacts
<1>3. cst # <<>> /\ cst[n].k = "hook" /\ cst[n].t = t
  BY <1>1, <1>2, CurrentThread DEF InHook, Cur
<1>4. /\ ChainOK(cst) /\ \A u \in Thread : StateOK(th[u])
  BY DEF Good
<1>5. n \in Nat /\ n \in 1 .. Len(cst) /\ t \in Running(cst)
  BY <1>3, <1>4, RunningThread
<1>6. m \in Nat /\ m < n /\ m + 1 = n
  BY <1>5
<1> HIDE DEF m, n, e
<1>7. StackOnly(L, th[t])
  BY <1>2, StackOps
<1> HIDE DEF L
<1>8. /\ DOMAIN K = Fields /\ K.ci = L.ci /\ K.size_ci = L.size_ci /\ K.status = L.status
      /\ K.nCcalls = L.nCcalls /\ K.baseCcalls = L.baseCcalls /\ K.errfunc = L.errfunc
      /\ K.kept = L.kept /\ K.allowhook = TRUE
  BY <1>7 DEF Fields, StackOnly
<1> HIDE DEF K
<1>9. StateOK(K) /\ Frame(K) = Frame(L)
  <2>1. StateOK(L)
    BY <1>2, <1>7, StackQuiet DEF Quiet
  <2>2. StateOK(K)
    BY <1>8, <2>1 DEF StateOK
  <2> QED
    BY <1>8, <2>2 DEF Frame
<1>10. Quiet(M, K)
  BY <1>9, FrameOps
<1> HIDE DEF M
<1>11. T2[t] = M /\ DOMAIN T2 = Thread /\ \A u \in Thread \ {t} : T2[u] = th[u]
  BY <1>2
<1> HIDE DEF T2
<1>12. /\ StateOK(M) /\ Len(M.ci) = Len(th[t].ci) /\ M.status = th[t].status
       /\ \A i \in 1 .. Len(th[t].ci) : M.ci[i].lua = th[t].ci[i].lua
       /\ M.nCcalls = th[t].nCcalls /\ M.baseCcalls = th[t].baseCcalls
       /\ M.errfunc = th[t].errfunc /\ M.kept = th[t].kept
       /\ M.size_ci = th[t].size_ci /\ M.allowhook = TRUE
  BY <1>7, <1>8, <1>10 DEF Quiet, Alike, SameSettings, StackOnly
<1>13. Len(M.ci) = lev[n] /\ \A i \in 1 .. lev[n] : M.ci[i].lua = th[t].ci[i].lua
  <2>1. Upper(th, cst, lev, n) = Len(th[t].ci)
    BY <1>3, <1>5 DEF Upper, n
  <2>2. BlockOK(th[t], cst[n], lev[n], Len(th[t].ci))
    BY <1>3, <1>5, <2>1 DEF Good, FramesOK
  <2>3. Len(th[t].ci) = lev[n]
    BY <1>3, <2>2 DEF BlockOK
  <2> QED
    BY <1>12, <2>3
<1>14. M.status = "ok"
  BY <1>5, <1>12 DEF Good, StatusOK
<1>15. M.nCcalls = M.baseCcalls + Cardinality(CallsTo(cst, t, m))
  <2>1. th[t].nCcalls = th[t].baseCcalls + Cardinality(CallsTo(cst, t, n))
    BY <1>5 DEF Good, CountsOK, n
  <2>2. "hook" \notin Calling
    BY DEF Calling
  <2>3. Cardinality(CallsTo(cst, t, n)) = Cardinality(CallsTo(cst, t, m))
    BY <1>3, <1>6, <2>2, CallsCount
  <2> QED
    BY <1>12, <2>1, <2>3
<1>16. \A k : Has(cst, n, t, k) => k = "hook" \/ Has(cst, m, t, k)
  BY <1>3, <1>5, <1>6 DEF Has
<1>17. M.errfunc # 0 => Has(cst, m, t, "pcall")
  <2>1. th[t].errfunc # 0 => Has(cst, n, t, "pcall")
    BY <1>2, <1>12, <1>14 DEF Good, SettingsOK, n
  <2> QED
    BY <1>12, <1>16, <2>1
<1>18. (~M.kept /\ M.size_ci > LUAI_MAXCALLS) => Has(cst, m, t, "handler")
  <2>1. (~th[t].kept /\ th[t].size_ci > LUAI_MAXCALLS) => Has(cst, n, t, "handler")
    BY <1>2, <1>12, <1>14 DEF Good, OverflowOK, Errors, n
  <2> QED
    BY <1>12, <1>16, <2>1
<1>19. CameBack(th, cst, lev, M, "none", m, t)
  BY <1>3, <1>6, <1>12, <1>13, <1>14, <1>15, <1>17, <1>18 DEF CameBack
<1>20. PopStep(th, cst, lev, T2, Front(cst), "none", m, t)
  <2>1. Front(cst) = SubSeq(cst, 1, m) /\ n = Len(cst)
    BY DEF Front, m, n
  <2>2. \A i \in m + 1 .. Len(cst) : cst[i].t = t
    BY <1>3, <1>5, <1>6, <2>1
  <2>3. \A u \in Thread \ {t} : Alike(T2[u], th[u]) /\ T2[u].size_ci = th[u].size_ci
    BY <1>11 DEF Alike, SameSettings
  <2>4. \A u \in Thread : StateOK(T2[u])
    BY <1>4, <1>11, <1>12
  <2> QED
    BY <1>3, <1>6, <1>11, <1>19, <2>1, <2>2, <2>3, <2>4 DEF PopStep
<1>21. Good(T2, Front(cst), "none", Lower(lev, m))
  BY <1>20, PopGood
<1> QED
  BY <1>1, <1>21, InvNext

-----------------------------------------------------------------------------
(* Errors                                                                  *)

(* The activation that catches an error runs the thread that raised it.    *)
LEMMA Catcher ==
  ASSUME NEW lev, Good(th, cst, pend, lev), cst # <<>>,
         NEW d, d = CHOOSE i \in 1 .. Len(cst) :
                      /\ cst[i].k \in {"pcall", "resume"}
                      /\ \A j \in i + 1 .. Len(cst) : cst[j].k \notin {"pcall", "resume"}
  PROVE  /\ d \in 1 .. Len(cst) /\ cst[d].k \in {"pcall", "resume"} /\ Len(cst) \in Nat
         /\ \A i \in d .. Len(cst) : cst[i].t = Current
<1> DEFINE n == Len(cst)
           P(i) == /\ cst[i].k \in {"pcall", "resume"}
                   /\ \A j \in i + 1 .. n : cst[j].k \notin {"pcall", "resume"}
<1>1. ChainOK(cst) /\ n \in Nat /\ n \in 1 .. n /\ cst[n].t = Current
  BY CurrentThread, RunningThread DEF Cur
<1>2. \E i \in 1 .. n : P(i)
  BY <1>1 DEF ChainOK, CaughtOK, Catches
<1>3. d = CHOOSE i \in 1 .. n : P(i)
  OBVIOUS
<1> HIDE DEF P
<1>4. d \in 1 .. n /\ P(d)
  BY <1>2, <1>3
<1>5. \A j \in d + 1 .. n : cst[j].k # "resume"
  BY <1>4 DEF P
<1>6. ASSUME NEW i \in d .. n PROVE cst[i].t = Current
  <2>1. i \in 1 .. Len(cst) /\ i <= n
    BY <1>1, <1>4
  <2>2. \A j \in i + 1 .. n : j \in d + 1 .. n
    BY <1>1, <1>4
  <2>3. \A j \in i + 1 .. n : cst[j].k # "resume"
    BY <1>5, <2>2
  <2>4. cst[i].t = cst[n].t
    BY <1>1, <2>1, <2>3 DEF ChainOK, RunsOK
  <2> QED
    BY <1>1, <2>4
<1> QED
  BY <1>1, <1>4, <1>6 DEF P

LEMMA PcallCatchInv ==
  ASSUME NEW lev, Good(th, cst, pend, lev), pend \in Errors, cst # <<>>,
         NEW t, t = Current, NEW d \in 1 .. Len(cst), cst[d].k = "pcall",
         \A i \in d .. Len(cst) : cst[i].t = t,
         NEW M, M = Recover(th[t], cst[d], pend),
         th' = [th EXCEPT ![t] = M], cst' = SubSeq(cst, 1, d - 1), pend' = "none"
  PROVE  CallsInv'
<1> DEFINE e == cst[d]
           m == d - 1
           T2 == [th EXCEPT ![t] = M]
<1>1. /\ DOMAIN th = Thread /\ t \in Thread /\ ChainOK(cst) /\ Len(cst) \in Nat
      /\ \A u \in Thread : StateOK(th[u])
  BY CurrentThread, RunningThread DEF Good
<1>2. m \in Nat /\ m < Len(cst) /\ m + 1 = d /\ d \in d .. Len(cst)
  BY <1>1
<1>3. e.t = t
  BY <1>2
<1>4. /\ lev[d] \in Nat /\ 1 <= lev[d] /\ lev[d] <= Len(th[t].ci) /\ Len(th[t].ci) \in Nat
  BY <1>1, <1>3, Numbers
<1>5. e.ci = lev[d]
  BY DEF Good, FramesOK
<1>6. /\ e.nCcalls = th[t].baseCcalls + Cardinality(CallsTo(cst, t, m))
  BY <1>3 DEF Good, CountsOK
<1>7. e.nCcalls \in Int
  <2>1. Cardinality(CallsTo(cst, t, m)) \in Nat
    BY <1>2, CallsCount
  <2>2. th[t].baseCcalls \in Int
    BY <1>1 DEF StateOK
  <2> QED
    BY <1>6, <2>1, <2>2
<1>8. e.allowhook \in BOOLEAN
  BY <1>1 DEF ChainOK, ActsOK, ActOK
<1>9. /\ e.errfunc # 0 => Has(cst, m, t, "pcall")
      /\ ~e.allowhook => Has(cst, m, t, "hook")
  BY <1>3 DEF Good, SettingsOK
<1>10. th[t].status = "ok"
  <2>1. t \in Running(cst)
    BY <1>1, <1>3, RunningThread
  <2> QED
    BY <2>1 DEF Good, StatusOK
<1> HIDE DEF e, m
<1>11. /\ StateOK(M) /\ Cut(M, th[t], e.ci)
       /\ M.status = th[t].status /\ M.baseCcalls = th[t].baseCcalls
       /\ M.nCcalls = e.nCcalls /\ M.errfunc = e.errfunc /\ M.allowhook = e.allowhook
       /\ M.kept \/ M.size_ci <= LUAI_MAXCALLS
  <2>1. e.ci \in 1 .. Len(th[t].ci) /\ StateOK(th[t]) /\ M = Recover(th[t], e, pend)
    BY <1>1, <1>4, <1>5 DEF e
  <2> QED
    BY <1>7, <1>8, <2>1, Recovered
<1>12. ~(~M.kept /\ M.size_ci > LUAI_MAXCALLS)
  <2>1. M.size_ci \in Nat /\ LUAI_MAXCALLS \in Nat
    BY <1>11, CallsAssumption DEF StateOK
  <2> QED
    BY <1>11, <2>1
<1>13. CameBack(th, cst, lev, M, "none", m, t)
  <2>1. cst[m + 1].k # "handler"
    BY <1>2
  <2>2. Len(M.ci) = lev[m + 1] /\ \A i \in 1 .. lev[m + 1] : M.ci[i].lua = th[t].ci[i].lua
    BY <1>2, <1>5, <1>11 DEF Cut
  <2> QED
    BY <1>6, <1>9, <1>10, <1>11, <1>12, <2>1, <2>2 DEF CameBack
<1>14. T2[t] = M /\ DOMAIN T2 = Thread /\ \A u \in Thread \ {t} : T2[u] = th[u]
  BY <1>1
<1> HIDE DEF T2
<1>15. PopStep(th, cst, lev, T2, SubSeq(cst, 1, m), "none", m, t)
  <2>1. \A i \in m + 1 .. Len(cst) : cst[i].t = t
    BY <1>2
  <2>2. \A u \in Thread \ {t} : Alike(T2[u], th[u]) /\ T2[u].size_ci = th[u].size_ci
    BY <1>14 DEF Alike, SameSettings
  <2>3. \A u \in Thread : StateOK(T2[u])
    BY <1>1, <1>11, <1>14
  <2>4. cst[m + 1].k # "resume"
    BY <1>2
  <2> QED
    BY <1>2, <1>13, <1>14, <2>1, <2>2, <2>3, <2>4 DEF PopStep
<1>16. Good(T2, SubSeq(cst, 1, m), "none", Lower(lev, m))
  BY <1>15, PopGood
<1> QED
  BY <1>16, InvNext DEF T2, m

LEMMA ResumeCatchInv ==
  ASSUME NEW lev, Good(th, cst, pend, lev), pend \in Errors, cst # <<>>,
         NEW t, t = Current, NEW d \in 1 .. Len(cst), cst[d].k = "resume",
         \A i \in d .. Len(cst) : cst[i].t = t,
         NEW K, StateOK(K), K.status = "dead", NEW from, from = cst[d].from,
         NEW x, x = lua_xmove(K, th[from], 1),
         th' = [th EXCEPT ![t] = x.from, ![from] = x.to],
         cst' = SubSeq(cst, 1, d - 1), pend' = "none"
  PROVE  CallsInv'
<1> DEFINE m == d - 1
           T2 == [th EXCEPT ![t] = x.from, ![from] = x.to]
<1>1. /\ DOMAIN th = Thread /\ t \in Thread /\ ChainOK(cst) /\ Len(cst) \in Nat
      /\ \A u \in Thread : StateOK(th[u])
  BY CurrentThread, RunningThread DEF Good
<1>2. m \in Nat /\ m < Len(cst) /\ m + 1 = d /\ d \in d .. Len(cst)
  BY <1>1
<1>3. from \in Thread /\ from # t
  <2>1. cst[d].t = t
    BY <1>2
  <2>2. d > 1 /\ from = cst[d - 1].t /\ \A i \in 1 .. d - 1 : cst[i].t # t
    BY <1>1, <2>1 DEF ChainOK, ResumesOK
  <2>3. d - 1 \in 1 .. Len(cst) /\ d - 1 \in 1 .. d - 1
    BY <1>1, <2>2
  <2>4. cst[d - 1].t \in Thread
    BY <2>3, Numbers
  <2> QED
    BY <2>2, <2>3, <2>4
<1>4. StackOnly(x.from, K) /\ StackOnly(x.to, th[from])
  BY <1>1, <1>3, XmoveStack DEF StateOK
<1>5. Quiet(x.from, K) /\ Quiet(x.to, th[from])
  BY <1>1, <1>3, <1>4, StackQuiet
<1>6. /\ T2[t] = x.from /\ DOMAIN T2 = Thread /\ T2[from] = x.to
      /\ \A u \in Thread \ {t, from} : T2[u] = th[u]
  BY <1>1, <1>3, PutTwo
<1> HIDE DEF T2, m
<1>7. StateOK(T2[t]) /\ Ended(T2[t])
  <2>1. StateOK(x.from) /\ x.from.status = "dead"
    BY <1>5, Zenon DEF Quiet, Alike, SameSettings
  <2>2. Ended(x.from)
    BY <2>1 DEF Ended
  <2> QED
    BY <1>6, <2>1, <2>2, Zenon
<1>8. \A u \in Thread \ {t} : Quiet(T2[u], th[u])
  BY <1>1, <1>5, <1>6, QuietSame
<1>9. PopStep(th, cst, lev, T2, SubSeq(cst, 1, m), "none", m, t)
  <2>1. \A i \in m + 1 .. Len(cst) : cst[i].t = t
    BY <1>2
  <2>2. \A u \in Thread \ {t} :
          StateOK(T2[u]) /\ Alike(T2[u], th[u]) /\ T2[u].size_ci = th[u].size_ci
    BY <1>8 DEF Quiet
  <2>3. \A u \in Thread : StateOK(T2[u])
    BY <1>7, <2>2
  <2>4. cst[m + 1].k = "resume"
    BY <1>2
  <2> QED
    BY <1>2, <1>6, <1>7, <2>1, <2>2, <2>3, <2>4 DEF PopStep
<1>10. Good(T2, SubSeq(cst, 1, m), "none", Lower(lev, m))
  BY <1>9, PopGood
<1> QED
  BY <1>10, InvNext DEF T2, m

LEMMA ThrowsInv ==
  ASSUME NEW lev, Good(th, cst, pend, lev), luaD_throw
  PROVE  CallsInv'
<1> DEFINE t == Current
           d == CHOOSE i \in 1 .. Len(cst) :
                  /\ cst[i].k \in {"pcall", "resume"}
                  /\ \A j \in i + 1 .. Len(cst) : cst[j].k \notin {"pcall", "resume"}
           e == cst[d]
           L == th[t]
           L1 == luaD_seterrorobj(L, pend, L.top)
           L2 == [L1 EXCEPT !.status = "dead", !.nCcalls = @ - 1]
           K == SetFrame(L2, [Frame(L1) EXCEPT !.top = L1.top])
           x == lua_xmove(K, th[e.from], 1)
<1>1. /\ pend \in {"ERRRUN", "ERRERR", "ERRMEM"} /\ pend' = "none"
      /\ cst' = SubSeq(cst, 1, d - 1)
      /\ e.k = "pcall" => th' = [th EXCEPT ![t] = Recover(L, e, pend)]
      /\ e.k # "pcall" => th' = [th EXCEPT ![t] = x.from, ![e.from] = x.to]
  BY ZenonT(60) DEF luaD_throw
<1>2. pend \in Errors /\ cst # <<>>
  <2>1. pend \in Errors /\ pend # "none"
    <3>1. pend \in {"ERRRUN", "ERRERR", "ERRMEM"}
      BY Zenon, <1>1
    <3> QED
      BY <3>1 DEF Errors
  <2>2. cst = <<>> => pend = "none"
    BY DEF Good
  <2> QED
    BY <2>1, <2>2
<1>3. /\ d \in 1 .. Len(cst) /\ e.k \in {"pcall", "resume"}
      /\ \A i \in d .. Len(cst) : cst[i].t = t
  BY <1>2, Catcher
<1> HIDE DEF d
<1>4. CASE e.k = "pcall"
  BY <1>1, <1>2, <1>3, <1>4, PcallCatchInv
<1>5. CASE e.k = "resume"
  <2>1. StateOK(L) /\ DOMAIN L = Fields
    BY CurrentThread
  <2>2. StackOnly(L1, L)
    BY <2>1, ErrorObjStack
  <2>3. StateOK(L1)
    BY <2>1, <2>2, StackQuiet DEF Quiet
  <2> HIDE DEF L1
  <2>4. /\ DOMAIN L2 = Fields /\ L2.ci = L1.ci /\ L2.size_ci = L1.size_ci
        /\ L2.status = "dead" /\ L2.nCcalls = L1.nCcalls - 1
        /\ L2.baseCcalls = L1.baseCcalls /\ L2.allowhook = L1.allowhook
        /\ L2.kept = L1.kept
    BY <2>3 DEF StateOK, Fields
  <2> HIDE DEF L2
  <2>5. StateOK(L2) /\ Frame(L2) = Frame(L1)
    <3>1. L2.nCcalls \in Int
      BY <2>3, <2>4 DEF StateOK
    <3>2. StateOK(L2)
      BY <2>3, <2>4, <3>1 DEF StateOK
    <3> QED
      BY <2>4, <3>2 DEF Frame
  <2>6. Quiet(K, L2)
    BY <2>5, FrameOps
  <2> HIDE DEF K
  <2>7. StateOK(K) /\ K.status = "dead"
    BY <2>4, <2>6 DEF Quiet, Alike, SameSettings
  <2>8. th' = [th EXCEPT ![t] = x.from, ![e.from] = x.to]
    BY <1>1, <1>5
  <2> HIDE DEF x, t
  <2>9. t = Current /\ x = lua_xmove(K, th[e.from], 1)
    BY DEF t, x
  <2> QED
    BY <1>1, <1>2, <1>3, <1>5, <2>7, <2>8, <2>9, ResumeCatchInv
<1> QED
  BY <1>3, <1>4, <1>5, Zenon

-----------------------------------------------------------------------------
(* Coroutines                                                              *)

LEMMA NewStateFacts ==
  ASSUME NEW s \in {"none", "ok"}, NEW L, L = NewState(s)
  PROVE  /\ StateOK(L) /\ DOMAIN L = Fields /\ L.status = s /\ Len(L.ci) = 1
         /\ L.nCcalls = 0 /\ L.baseCcalls = 0 /\ L.errfunc = 0 /\ L.allowhook
         /\ L.size_ci \in Nat /\ L.size_ci <= LUAI_MAXCALLS /\ LUAI_MAXCALLS \in Nat
<1> DEFINE f == [func |-> 1, base |-> 2, top |-> 2 + LUA_MINSTACK, lua |-> FALSE,
                 nresults |-> 0, numparams |-> 0, is_vararg |-> FALSE, open |-> FALSE]
<1>1. /\ DOMAIN L = Fields /\ L.ci = <<f>> /\ L.size_ci = BASIC_CI_SIZE
      /\ L.status = s /\ L.nCcalls = 0 /\ L.baseCcalls = 0 /\ L.errfunc = 0
      /\ L.allowhook = TRUE /\ L.kept = FALSE
  BY DEF NewState, Fields
<1>2. "lua" \in DOMAIN f /\ f.lua = FALSE
  OBVIOUS
<1> HIDE DEF f
<1>3. IsSeq(L.ci) /\ Len(L.ci) = 1 /\ L.ci[1] = f
  BY <1>1, SeqElements DEF IsSeq
<1>4. /\ BASIC_CI_SIZE \in Nat /\ BASIC_CI_SIZE >= 1 /\ LUAI_MAXCALLS \in Nat
      /\ BASIC_CI_SIZE <= LUAI_MAXCALLS
  <2>1. /\ BASIC_CI_SIZE \in Nat \ {0} /\ LUAI_MAXCALLS \in Nat \ {0}
        /\ BASIC_CI_SIZE <= LUAI_MAXCALLS
    BY CallsAssumption, Zenon
  <2> QED
    BY <2>1
<1>5. \A i \in 1 .. Len(L.ci) : "lua" \in DOMAIN L.ci[i] /\ L.ci[i].lua \in BOOLEAN
  <2>1. \A i \in 1 .. Len(L.ci) : i = 1
    BY <1>3
  <2> QED
    BY <1>2, <1>3, <2>1
<1>6. StateOK(L)
  <2>1. IsSeq(L.ci) /\ Len(L.ci) >= 1 /\ ~L.ci[1].lua
    BY <1>2, <1>3
  <2>2. /\ L.size_ci \in Nat /\ Len(L.ci) <= L.size_ci
        /\ L.size_ci <= 2 * LUAI_MAXCALLS
    BY <1>1, <1>3, <1>4
  <2>3. L.nCcalls \in Int /\ L.baseCcalls \in Int
    BY <1>1
  <2>4. L.status \in {"none", "ok", "yield", "dead"}
    BY <1>1
  <2>5. L.allowhook \in BOOLEAN /\ L.kept \in BOOLEAN
    BY <1>1
  <2> QED
    BY <1>1, <1>5, <2>1, <2>2, <2>3, <2>4, <2>5, Zenon DEF StateOK
<1> QED
  BY <1>1, <1>3, <1>4, <1>6

(* What is known of a thread that is not on the C stack.                   *)
LEMMA Idle ==
  ASSUME NEW T, NEW C, NEW p, NEW lev, Good(T, C, p, lev), NEW co \in Thread \ Running(C),
         T[co].status # "none"
  PROVE  Ended(T[co])
<1>1. /\ ChainOK(C) /\ StatusOK(T, C) /\ SettingsOK(T, C) /\ OverflowOK(T, C, p)
      /\ StateOK(T[co])
  BY DEF Good
<1>2. \A k : ~Has(C, Len(C), co, k)
  BY <1>1, RunningThread DEF Has
<1>3. Cur(C) # co
  BY <1>1, RunningThread
<1>4. /\ T[co].status = "ok" => Len(T[co].ci) = 1
      /\ T[co].status = "yield" => Suspended(T[co])
      /\ T[co].status \in {"ok", "yield", "dead"}
  BY <1>1 DEF StatusOK, StateOK
<1>5. T[co].status # "dead" => T[co].errfunc = 0 /\ T[co].allowhook
  BY <1>1, <1>2 DEF SettingsOK, StateOK
<1>6. T[co].status # "dead" => T[co].kept \/ T[co].size_ci <= LUAI_MAXCALLS
  <2>1. T[co].size_ci \in Nat /\ LUAI_MAXCALLS \in Nat
    BY <1>1, CallsAssumption DEF StateOK
  <2>2. T[co].status # "dead" => T[co].kept \/ ~(T[co].size_ci > LUAI_MAXCALLS)
    BY <1>1, <1>2, <1>3 DEF OverflowOK
  <2> QED
    BY <2>1, <2>2
<1> QED
  BY <1>4, <1>5, <1>6 DEF Ended

LEMMA CreateInv ==
  ASSUME NEW lev, Good(th, cst, pend, lev), NEW t, NEW co, luaB_cocreate(t, co)
  PROVE  CallsInv'
<1> DEFINE N == NewState("ok")
           L == Push(N, Message)
           M == Push(th[t], Message)
           T1 == [th EXCEPT ![co] = L]
           T2 == [th EXCEPT ![co] = L, ![t] = M]
<1>1. CRuns(t) /\ co \in Thread /\ th[co].status = "none"
  BY DEF luaB_cocreate, Thread
<1>2. /\ pend = "none" /\ t = Current /\ t = Cur(cst) /\ t \in Thread
      /\ StateOK(th[t]) /\ DOMAIN th[t] = Fields /\ DOMAIN th = Thread
  BY <1>1, CRunsFacts
<1>3. /\ ChainOK(cst) /\ StatusOK(th, cst) /\ \A u \in Thread : StateOK(th[u])
  BY DEF Good
<1>4. co \notin Running(cst) /\ t \in Running(cst) /\ co # t
  BY <1>1, <1>2, <1>3, RunningThread DEF StatusOK
<1>5. th' = T2 /\ cst' = cst /\ pend' = pend
  BY <1>2, <1>4 DEF luaB_cocreate
<1>6. /\ StateOK(N) /\ DOMAIN N = Fields /\ N.status = "ok" /\ Len(N.ci) = 1
      /\ N.errfunc = 0 /\ N.allowhook /\ N.size_ci <= LUAI_MAXCALLS
  BY NewStateFacts
<1> HIDE DEF N
<1>7. StackOnly(L, N) /\ StackOnly(M, th[t])
  BY <1>2, <1>6, StackOps
<1>8. StateOK(L) /\ Quiet(M, th[t])
  BY <1>2, <1>6, <1>7, StackQuiet DEF Quiet
<1> HIDE DEF L, M
<1>9. Ended(L)
  BY <1>6, <1>7 DEF Ended, StackOnly, SameSettings
<1>10. DOMAIN T1 = Thread /\ T1[co] = L /\ \A u \in Thread \ {co} : T1[u] = th[u]
  BY <1>1, <1>2, PutFacts
<1>11. /\ DOMAIN T2 = Thread /\ T2[co] = L /\ T2[t] = M
       /\ \A u \in Thread \ {co, t} : T2[u] = th[u]
  BY <1>1, <1>2, <1>4, PutTwo
<1> HIDE DEF T1, T2
<1>12. Good(T1, cst, pend, lev)
  <2>1. Only(T1, th, co)
    BY <1>10 DEF Only
  <2> QED
    BY <1>1, <1>4, <1>8, <1>9, <1>10, <2>1, IdleGood
<1>13. ASSUME NEW u \in Thread PROVE Quiet(T2[u], T1[u])
  <2>1. CASE u = t
    BY <1>4, <1>8, <1>10, <1>11, <2>1
  <2>2. CASE u = co
    BY <1>8, <1>10, <1>11, <2>2, QuietSame
  <2>3. CASE u # t /\ u # co
    BY <1>3, <1>10, <1>11, <2>3, QuietSame
  <2> QED
    BY <2>1, <2>2, <2>3
<1>14. \A u \in Thread : /\ StateOK(T2[u]) /\ Alike(T2[u], T1[u])
                         /\ T2[u].size_ci = T1[u].size_ci
  BY <1>13 DEF Quiet
<1>15. Good(T2, cst, pend, lev)
  BY <1>2, <1>11, <1>12, <1>14, QuietGood
<1> QED
  BY <1>5, <1>15, InvNext

LEMMA YieldInv ==
  ASSUME NEW lev, Good(th, cst, pend, lev), NEW t, NEW k, lua_yield(t, k)
  PROVE  CallsInv'
<1> DEFINE n == Len(cst)
           L == th[t]
           M == [L EXCEPT !.base = L.top - k, !.status = "yield"]
<1>1. /\ CRuns(t) /\ ~InHook /\ Len(L.ci) > 1
      /\ L.nCcalls > L.baseCcalls => RunError(th, t, L, cst)
      /\ ~(L.nCcalls > L.baseCcalls) => EndResume(t, M, k)
  BY DEF lua_yield
<1>2. /\ pend = "none" /\ t = Current /\ t \in Thread /\ StateOK(L) /\ DOMAIN L = Fields
  BY <1>1, CRunsFacts
<1>3. /\ cst # <<>> /\ cst[n].k # "hook" /\ ~L.ci[Len(L.ci)].lua
      /\ Len(L.ci) = lev[n] + cst[n].nexec + 1
      /\ \A f \in lev[n] + 1 .. lev[n] + cst[n].nexec : L.ci[f].lua
  BY <1>1, CFunction
<1>4. CASE L.nCcalls > L.baseCcalls
  <2>1. Now(th, t, th[t], cst, pend, lev)
    BY <1>2, <1>3, NowAsIs
  <2>2. Alike(L, th[t])
    BY DEF Alike, SameSettings
  <2> QED
    BY <1>1, <1>2, <1>4, <2>1, <2>2, RunErrorInv
<1>5. CASE ~(L.nCcalls > L.baseCcalls)
  <2>1. /\ n \in Nat /\ n >= 1 /\ cst[n].t = t /\ t \in Running(cst) /\ ActOK(cst[n])
        /\ lev[n] \in Nat /\ cst[n].nexec \in Nat
        /\ cst[n].k = "resume" => cst[n].nexec >= 1 /\ lev[n] = 1
    BY <1>2, <1>3, Innermost
  <2>2. cst[n].k = "resume"
    <3>1. ASSUME cst[n].k \in Calling PROVE FALSE
      <4> DEFINE m == n - 1
      <4>1. m \in Nat /\ m + 1 = n
        BY <2>1
      <4> HIDE DEF m
      <4>2. Cardinality(CallsTo(cst, t, n)) = Cardinality(CallsTo(cst, t, m)) + 1
        BY <2>1, <3>1, <4>1, CallsCount
      <4>3. Cardinality(CallsTo(cst, t, m)) \in Nat
        BY <4>1, CallsCount
      <4>4. L.nCcalls = L.baseCcalls + Cardinality(CallsTo(cst, t, n))
        BY <2>1 DEF Good, CountsOK
      <4>5. L.baseCcalls \in Int
        BY <1>2 DEF StateOK
      <4> QED
        BY <1>5, <4>2, <4>3, <4>4, <4>5
    <3> QED
      BY <1>3, <2>1, <3>1 DEF ActOK
  <2>3. /\ L.errfunc = 0 /\ L.allowhook /\ (L.kept \/ L.size_ci <= LUAI_MAXCALLS)
    BY <1>2, <1>3, <2>2, Alone
  <2>4. /\ DOMAIN M = Fields /\ M.ci = L.ci /\ M.size_ci = L.size_ci /\ M.status = "yield"
        /\ M.nCcalls = L.nCcalls /\ M.baseCcalls = L.baseCcalls
        /\ M.errfunc = L.errfunc /\ M.allowhook = L.allowhook /\ M.kept = L.kept
    BY <1>2 DEF Fields
  <2> HIDE DEF M
  <2>5. StateOK(M)
    BY <1>2, <2>4 DEF StateOK
  <2>6. Suspended(L)
    <3>1. Len(L.ci) >= 3 /\ lev[n] = 1 /\ Len(L.ci) - 1 = lev[n] + cst[n].nexec
      BY <1>3, <2>1, <2>2
    <3> QED
      BY <1>3, <3>1 DEF Suspended
  <2>7. Ended(M)
    BY <2>3, <2>4, <2>6 DEF Ended, Suspended
  <2> QED
    BY <1>1, <1>2, <1>3, <1>5, <2>2, <2>5, <2>7, EndResumeInv
<1> QED
  BY <1>4, <1>5

(* A thread that costatus calls suspended is not on the C stack: a thread  *)
(* below the running one has called the function that resumed the next.    *)
LEMMA NotRunning ==
  ASSUME NEW lev, Good(th, cst, pend, lev), pend = "none", NEW t, t = Current,
         NEW co \in Coroutine, co # t, th[co].status = "yield" \/ Len(th[co].ci) = 1
  PROVE  co \in Thread \ Running(cst)
<1> DEFINE n == Len(cst)
<1>1. /\ ChainOK(cst) /\ StatusOK(th, cst) /\ FramesOK(th, cst, lev)
      /\ BusyOK(th, cst, pend, lev)
  BY DEF Good
<1>2. co \in Thread /\ co # Main
  BY CallsAssumption DEF Thread
<1>3. SUFFICES ASSUME co \in Running(cst) PROVE FALSE
  BY <1>2
<1>4. th[co].status = "ok" /\ Len(th[co].ci) = 1
  BY <1>1, <1>3 DEF StatusOK
<1>5. PICK i \in 1 .. n : cst[i].t = co
  BY <1>2, <1>3 DEF Running
<1>6. n \in Nat /\ cst # <<>> /\ cst[n].t = t
  <2>1. n \in Nat /\ (cst = <<>> => n = 0)
    BY <1>1, RunningThread
  <2>2. cst # <<>>
    BY <1>5, <2>1
  <2> QED
    BY <2>1, <2>2, CurrentThread DEF Cur
<1>7. PICK j \in i .. n - 1 : HandsOver(cst, i, j)
  <2>1. n \in i .. n /\ cst[i].t # cst[n].t
    BY <1>5, <1>6
  <2> QED
    BY <1>1, <2>1 DEF ChainOK, HandoverOK
<1>8. j \in 1 .. Len(cst) /\ j < Len(cst) /\ j + 1 \in 1 .. Len(cst) /\ j \in 1 .. Len(cst) - 1
      /\ j \in 1 .. (j + 1) - 1
  BY <1>6
<1>9. cst[j].t = co /\ cst[j + 1].k = "resume"
  BY <1>5, <1>7 DEF HandsOver
<1>10. cst[j + 1].t # co
  BY <1>1, <1>8, <1>9 DEF ChainOK, ResumesOK
<1>11. cst[j].k # "hook" /\ cst[j + 1].k # "handler"
  <2>1. "resume" \notin Calling
    BY DEF Calling
  <2> QED
    BY <1>1, <1>8, <1>9, <2>1 DEF ChainOK, HooksOK
<1>12. Upper(th, cst, lev, j) = Len(th[co].ci)
  BY <1>9, <1>10 DEF Upper
<1>13. lev[j] < Len(th[co].ci)
  BY <1>1, <1>8, <1>11, <1>12 DEF BusyOK
<1>14. lev[j] \in Nat /\ 1 <= lev[j]
  BY <1>8, Numbers
<1> QED
  BY <1>4, <1>13, <1>14

(* The thread that is resumed, when its call of lua_yield has returned:    *)
(* its Lua functions are those of the new luaV_execute.                    *)
LEMMA WakeInv ==
  ASSUME NEW lev, Good(th, cst, "none", lev), cst # <<>>, cst[Len(cst)].k # "hook",
         NEW t, t = Current, NEW co \in Coroutine \ Running(cst),
         NEW e, ActOK(e), e.k = "resume", e.t = co, e.nexec = 0, e.ci = 1, e.from = t,
         NEW cs, cs = Append(cst, e),
         NEW F, Quiet(F, th[t]), NEW ts, ts = [th EXCEPT ![t] = F],
         NEW L, StateOK(L), Ended(L), L.nCcalls = L.baseCcalls,
         NEW k, resume(ts, co, L, cs, k), L.status \in {"ok", "yield"}
  PROVE  CallsInv'
<1> DEFINE n == Len(cst)
           lev2 == Deeper(lev, n, 1)
<1>1. /\ DOMAIN th = Thread /\ t \in Thread /\ t = Cur(cst) /\ ChainOK(cst) /\ co \in Thread
      /\ \A u \in Thread : StateOK(th[u])
  <2>1. t = Cur(cst)
    BY DEF Current, Cur, Last
  <2> QED
    BY <2>1, RunningThread DEF Good, Thread
<1>2. co # t /\ n \in Nat /\ n >= 1
  BY <1>1, RunningThread
<1>3. DOMAIN ts = Thread /\ ts[t] = F /\ \A u \in Thread \ {t} : ts[u] = th[u]
  BY <1>1, PutFacts
<1>4. ASSUME NEW K, StateOK(K), K.status = "ok", K.nCcalls = K.baseCcalls, Len(K.ci) = 1,
             K.errfunc = 0, K.allowhook, K.kept \/ K.size_ci <= LUAI_MAXCALLS
      PROVE  Now(ts, co, K, cs, "enter", lev2)
  <2> DEFINE T2 == [ts EXCEPT ![co] = K]
  <2>1. DOMAIN T2 = Thread /\ T2[co] = K /\ \A u \in Thread \ {co} : T2[u] = ts[u]
    BY <1>1, <1>3, PutFacts
  <2> HIDE DEF T2
  <2>2. \A u \in Thread \ {co} : Quiet(T2[u], th[u])
    <3>1. \A u \in Thread \ {co, t} : Quiet(T2[u], th[u])
      BY <1>1, <1>3, <2>1, QuietSame
    <3>2. Quiet(T2[t], th[t])
      BY <1>1, <1>2, <1>3, <2>1
    <3> QED
      BY <3>1, <3>2
  <2>3. \A u \in Thread \ {co} : /\ StateOK(T2[u]) /\ Alike(T2[u], th[u])
                                 /\ T2[u].size_ci = th[u].size_ci
    BY <2>2 DEF Quiet
  <2>4. \A u \in Thread : StateOK(T2[u])
    BY <1>4, <2>1, <2>3
  <2>5. ResumeStep(th, cst, T2, e, t, co)
    BY <1>1, <1>4, <2>1, <2>3, <2>4 DEF ResumeStep
  <2>6. Good(T2, cs, "enter", lev2)
    BY <2>5, ResumeGood
  <2>7. cs # <<>> /\ Cur(cs) = co
    <3>1. Grown(cst, cs, e, n)
      BY <1>1, AppendFacts
    <3>2. cs # <<>> /\ Cur(cs) = e.t
      BY <3>1, Zenon DEF Grown
    <3> QED
      BY <3>2
  <2> QED
    BY <1>1, <1>3, <2>6, <2>7 DEF Now, T2
<1>5. /\ Len(cs) = n + 1 /\ cs[n + 1] = e /\ lev2[n + 1] = 1
  <2>1. lev2[n + 1] = 1
    BY <1>2 DEF Deeper
  <2> QED
    BY <1>1, <2>1, AppendFacts DEF Grown
<1> HIDE DEF lev2
<1>6. CASE L.status = "ok"
  <2>1. /\ Len(L.ci) = 1 /\ L.errfunc = 0 /\ L.allowhook
        /\ L.kept \/ L.size_ci <= LUAI_MAXCALLS
    BY <1>6 DEF Ended
  <2>2. Now(ts, co, L, cs, "enter", lev2)
    BY <1>4, <1>6, <2>1
  <2>3. Free(L, cs, lev2)
    BY <1>5, <2>1 DEF Free
  <2>4. EnterLua(ts, co, L, cs, L.top - k - 1, MULTRET, FALSE)
    BY <1>6 DEF resume
  <2> QED
    BY <2>2, <2>3, <2>4, EnterLuaInv
<1>7. CASE L.status = "yield"
  <2> DEFINE N == [L EXCEPT !.status = "ok"]
             M == luaD_poscall(N, L.top - k)
             K == [M EXCEPT !.ci = SubSeq(@, 1, 1)]
             m == Len(M.ci)
             D == Executing(cs, m - 1)
             R == Frame(L).nresults
  <2>1. Go(ts, co, AfterCall(M, R), D)
    BY <1>7 DEF resume
  <2>2. /\ DOMAIN N = Fields /\ N.ci = L.ci /\ N.size_ci = L.size_ci /\ N.status = "ok"
        /\ N.nCcalls = L.nCcalls /\ N.baseCcalls = L.baseCcalls
        /\ N.errfunc = L.errfunc /\ N.allowhook = L.allowhook /\ N.kept = L.kept
    BY DEF Fields, StateOK
  <2> HIDE DEF N
  <2>3. StateOK(N)
    BY <2>2 DEF StateOK
  <2>4. /\ L.errfunc = 0 /\ L.allowhook /\ (L.kept \/ L.size_ci <= LUAI_MAXCALLS)
        /\ Suspended(L)
    BY <1>7 DEF Ended
  <2>5. Len(L.ci) \in Nat /\ Len(L.ci) >= 3 /\ \A i \in 2 .. Len(L.ci) - 1 : L.ci[i].lua
    BY <2>4, StateFacts DEF Suspended
  <2>6. /\ StateOK(M) /\ SameSettings(M, N) /\ M.size_ci = N.size_ci
        /\ Cut(M, N, Len(N.ci) - 1)
    BY <2>2, <2>3, <2>5, PosCall
  <2> HIDE DEF M
  <2>7. /\ m = Len(L.ci) - 1 /\ m \in Nat /\ m >= 2 /\ \A i \in 2 .. m : M.ci[i].lua
    <3>1. m = Len(L.ci) - 1 /\ \A i \in 1 .. m : M.ci[i].lua = L.ci[i].lua
      BY <2>2, <2>6 DEF Cut
    <3>2. m \in Nat /\ m >= 2
      BY <2>5, <3>1
    <3>3. \A i \in 2 .. m : i \in 1 .. m /\ i \in 2 .. Len(L.ci) - 1
      BY <3>1, <3>2
    <3> QED
      BY <2>5, <3>1, <3>2, <3>3
  <2>8. /\ DOMAIN K = Fields /\ K.ci = SubSeq(M.ci, 1, 1) /\ K.size_ci = M.size_ci
        /\ SameSettings(K, M)
    BY <2>6 DEF Fields, StateOK, SameSettings
  <2> HIDE DEF K
  <2>9. /\ IsSeq(K.ci) /\ Len(K.ci) = 1 /\ K.ci[1] = M.ci[1]
    <3>1. IsSeq(M.ci) /\ 1 \in 0 .. Len(M.ci)
      BY <2>6, <2>7 DEF StateOK
    <3> QED
      BY <2>8, <3>1, SeqCut
  <2>10. StateOK(K)
    <3>1. \A i \in 1 .. Len(K.ci) : i = 1
      BY <2>9
    <3>2. 1 \in 1 .. Len(M.ci)
      BY <2>7
    <3>3. \A i \in 1 .. Len(K.ci) : "lua" \in DOMAIN K.ci[i] /\ K.ci[i].lua \in BOOLEAN
      BY <2>6, <2>9, <3>1, <3>2 DEF StateOK
    <3>4. K.size_ci \in Nat /\ Len(K.ci) <= K.size_ci /\ K.size_ci <= 2 * LUAI_MAXCALLS
      BY <2>6, <2>7, <2>8, <2>9 DEF StateOK
    <3>5. ~K.ci[1].lua /\ Len(K.ci) >= 1
      BY <2>6, <2>9 DEF StateOK
    <3> QED
      BY <2>6, <2>8, <2>9, <3>3, <3>4, <3>5 DEF StateOK, SameSettings
  <2>11. /\ K.status = "ok" /\ K.nCcalls = K.baseCcalls /\ K.errfunc = 0 /\ K.allowhook
         /\ K.kept \/ K.size_ci <= LUAI_MAXCALLS
    BY <2>2, <2>4, <2>6, <2>8 DEF SameSettings
  <2>12. Now(ts, co, K, cs, "enter", lev2)
    BY <1>4, <2>9, <2>10, <2>11
  <2> DEFINE T1 == [ts EXCEPT ![co] = K]
             T2 == [ts EXCEPT ![co] = M]
  <2>13. /\ T1[co] = K /\ T2[co] = M /\ DOMAIN T2 = Thread
         /\ \A u \in Thread \ {co} : T2[u] = T1[u]
    BY <1>1, <1>3, PutFacts
  <2>14. Good(T1, cs, "enter", lev2) /\ co = cs[Len(cs)].t /\ ChainOK(cs) /\ cs # <<>>
    <3>1. Good(T1, cs, "enter", lev2)
      BY <2>12, Zenon DEF Now
    <3>2. co = cs[Len(cs)].t /\ ChainOK(cs) /\ cs # <<>>
      BY <2>12, NowFacts
    <3> QED
      BY <3>1, <3>2
  <2> HIDE DEF T1, T2
  <2>15. /\ SameActs(D, cs) /\ \A i \in 1 .. Len(cs) - 1 : D[i] = cs[i]
         /\ D[Len(cs)].nexec = m - 1
    <3>1. m - 1 \in Int /\ cs[Len(cs)].nexec + (m - 1) = m - 1 /\ m - 1 \in Nat
      BY <1>5, <2>7
    <3> DEFINE d == m - 1
    <3> HIDE DEF d
    <3>2. d \in Int /\ cs[Len(cs)].nexec + d = d /\ d \in Nat
      BY <3>1 DEF d
    <3>3. /\ SameActs(Executing(cs, d), cs)
          /\ \A i \in 1 .. Len(cs) - 1 : Executing(cs, d)[i] = cs[i]
          /\ Executing(cs, d)[Len(cs)].nexec = d
      BY <2>14, <3>2, ExecutingActs
    <3> QED
      BY <3>3 DEF d
  <2> HIDE DEF D
  <2>16. BlockOK(M, D[n + 1], 1, m)
    <3>1. D[n + 1].nexec = m - 1
      BY <1>5, <2>15
    <3>2. D[n + 1].k = "resume"
      BY <1>2, <1>5, <2>15 DEF SameActs
    <3>3. 1 + D[n + 1].nexec = m
      BY <2>7, <3>1
    <3>4. \A f \in 1 + 1 .. 1 + D[n + 1].nexec : M.ci[f].lua
      BY <2>7, <3>3
    <3> QED
      BY <2>7, <3>2, <3>3, <3>4 DEF BlockOK
  <2>17. TopStep(T1, cs, lev2, T2, D, "none", n + 1, co)
    <3>1. Only(T2, T1, co)
      BY <2>13 DEF Only
    <3>2. SameSettings(T2[co], T1[co]) /\ T2[co].size_ci = T1[co].size_ci
      BY <2>8, <2>13 DEF SameSettings
    <3>3. \A i \in 1 .. lev2[n + 1] : T2[co].ci[i].lua = T1[co].ci[i].lua
      BY <1>5, <2>9, <2>13
    <3>4. lev2[n + 1] < Len(T2[co].ci) /\ lev2[n + 1] <= Len(T2[co].ci)
      BY <1>5, <2>7, <2>13
    <3>5. D[n + 1].nexec >= 1
      BY <1>5, <2>7, <2>15
    <3>6. \A i \in 1 .. (n + 1) - 1 : D[i] = cs[i]
      BY <1>5, <2>15
    <3>7. BlockOK(T2[co], D[n + 1], lev2[n + 1], Len(T2[co].ci))
      BY <1>5, <2>13, <2>16
    <3>8. StateOK(T2[co])
      BY <2>6, <2>13
    <3> QED
      BY <1>5, <2>14, <2>15, <3>1, <3>2, <3>3, <3>4, <3>5, <3>6, <3>7, <3>8, Zenon
      DEF TopStep
  <2>18. Good(T2, D, "none", lev2)
    BY <2>14, <2>17, TopGood
  <2>19. Now(ts, co, M, D, "none", lev2)
    <3>1. D # <<>> /\ Cur(D) = Cur(cs) /\ Cur(cs) = co
      BY <2>12, <2>14, <2>15, SameActsFacts DEF Now
    <3> QED
      BY <1>1, <1>3, <2>18, <3>1 DEF Now, T2
  <2>20. Quiet(AfterCall(M, R), M)
    BY <2>6, FrameOps
  <2>21. Now(ts, co, AfterCall(M, R), D, "none", lev2)
    BY <2>19, <2>20, NowQuiet DEF Quiet
  <2> QED
    BY <2>1, <2>21, GoInv
<1> QED
  BY <1>6, <1>7

LEMMA AuxresumeInv ==
  ASSUME NEW lev, Good(th, cst, pend, lev), NEW t, NEW co, NEW k, auxresume(t, co, k)
  PROVE  CallsInv'
<1> DEFINE K == lua_checkstack(th[co], k)
           x == lua_xmove(th[t], K, k)
           F == x.from
           depth == th[t].nCcalls
           e == [k |-> "resume", t |-> co, nexec |-> 0, ci |-> 1, from |-> t]
           cs == Append(cst, e)
           N == [x.to EXCEPT !.nCcalls = depth]
           L == [x.to EXCEPT !.nCcalls = depth + 1, !.baseCcalls = depth + 1]
           ts == [th EXCEPT ![t] = F]
<1>1. /\ CRuns(t) /\ ~InHook /\ cst # <<>> /\ co \in Coroutine /\ th[co].status # "none"
      /\ costatus(t, co) = "suspended"
      /\ resume_error(t, co, F, N) \/ resume(ts, co, L, cs, k)
  BY Zenon DEF auxresume
<1>2. /\ pend = "none" /\ t = Current /\ t = Cur(cst) /\ t \in Thread
      /\ StateOK(th[t]) /\ DOMAIN th[t] = Fields /\ DOMAIN th = Thread
      /\ co \in Thread /\ \A u \in Thread : StateOK(th[u])
  BY <1>1, CRunsFacts DEF Good, Thread
<1>3. /\ co # t /\ th[co].status \in {"ok", "yield"}
      /\ th[co].status = "yield" \/ Len(th[co].ci) = 1
  <2>1. t # co
    BY <1>1 DEF costatus
  <2>2. Len(th[co].ci) \in Nat /\ Len(th[co].ci) >= 1
    BY <1>2, StateFacts
  <2>3. th[co].status \in {"ok", "yield", "dead"}
    BY <1>1, <1>2 DEF StateOK
  <2>4. CASE th[co].status = "yield"
    BY <2>1, <2>4
  <2>5. CASE th[co].status = "dead"
    BY <1>1, <2>1, <2>5 DEF costatus
  <2>6. CASE th[co].status = "ok" /\ Len(th[co].ci) > 1
    BY <1>1, <2>1, <2>2, <2>6 DEF costatus
  <2>7. CASE th[co].status = "ok" /\ Len(th[co].ci) = 1
    BY <2>1, <2>7
  <2>8. Len(th[co].ci) = 1 \/ Len(th[co].ci) > 1
    <3>1. \A m \in Nat : m >= 1 => m = 1 \/ m > 1
      OBVIOUS
    <3> QED
      BY <2>2, <3>1, Zenon
  <2> QED
    BY <2>3, <2>4, <2>5, <2>6, <2>7, <2>8, Zenon
<1>4. co \in Thread \ Running(cst)
  BY <1>1, <1>2, <1>3, NotRunning
<1>5. Ended(th[co])
  BY <1>1, <1>4, Idle
<1>6. cst[Len(cst)].k # "hook"
  BY <1>1, CurrentThread DEF InHook
<1>7. Quiet(K, th[co])
  BY <1>2, FrameOps
<1>8. StackOnly(F, th[t]) /\ StackOnly(x.to, K)
  <2>1. DOMAIN K = Fields
    BY <1>7 DEF Quiet, StateOK
  <2> HIDE DEF K
  <2> QED
    BY <1>2, <2>1, XmoveStack
<1>9. Quiet(F, th[t])
  BY <1>2, <1>8, StackQuiet
<1> HIDE DEF x, K, cs
<1>10. /\ StateOK(x.to) /\ DOMAIN x.to = Fields /\ Ended(x.to)
       /\ x.to.status = th[co].status
  <2>1. StateOK(K) /\ Alike(K, th[co]) /\ K.size_ci = th[co].size_ci
    BY <1>7 DEF Quiet
  <2>2. Quiet(x.to, K)
    BY <1>8, <2>1, StackQuiet
  <2>3. Quiet(x.to, th[co])
    BY <1>7, <2>2, QuietTrans
  <2>4. StateOK(x.to) /\ Alike(x.to, th[co]) /\ x.to.size_ci = th[co].size_ci
    BY <2>3 DEF Quiet
  <2>5. /\ SameSettings(x.to, th[co]) /\ Len(x.to.ci) = Len(th[co].ci)
    BY <2>4 DEF Alike
  <2>6. Suspended(th[co]) => Suspended(x.to)
    <3>1. Len(th[co].ci) \in Nat
      BY <1>2, StateFacts
    <3> QED
      BY <2>4, <3>1, SuspendedAlike
  <2>7. Ended(x.to)
    BY <1>5, <2>4, <2>5, <2>6 DEF Ended, SameSettings
  <2> QED
    BY <2>4, <2>5, <2>7 DEF SameSettings, StateOK
<1>11. depth \in Int
  BY <1>2 DEF StateOK
<1>12. ASSUME resume_error(t, co, F, N) PROVE CallsInv'
  <2> DEFINE A == CutTo(N, Frame(N).base)
             B == Push(A, Message)
             y == lua_xmove(B, F, 1)
             T1 == [th EXCEPT ![co] = y.from]
             T2 == [T1 EXCEPT ![t] = y.to]
  <2>1. th' = T2 /\ cst' = cst /\ pend' = "none"
    BY <1>12 DEF resume_error, Go
  <2>2. /\ DOMAIN N = Fields /\ N.ci = x.to.ci /\ N.size_ci = x.to.size_ci
        /\ N.status = x.to.status /\ N.nCcalls = depth /\ N.baseCcalls = x.to.baseCcalls
        /\ N.errfunc = x.to.errfunc /\ N.allowhook = x.to.allowhook /\ N.kept = x.to.kept
    BY <1>10 DEF Fields
  <2> HIDE DEF N
  <2>3. StateOK(N) /\ Ended(N)
    BY <1>10, <1>11, <2>2 DEF StateOK, Ended, Suspended
  <2>4. StackOnly(A, N)
    BY <2>2, StackOps
  <2> HIDE DEF A
  <2>5. StackOnly(B, A)
    BY <2>4, StackOps DEF StackOnly
  <2> HIDE DEF B, F
  <2>6. StackOnly(y.from, B) /\ StackOnly(y.to, F)
    BY <1>8, <2>5, XmoveStack DEF StackOnly
  <2> HIDE DEF y
  <2>7. StackOnly(y.from, N) /\ StackOnly(y.to, th[t])
    BY <1>8, <2>4, <2>5, <2>6, StackTrans
  <2>8. Quiet(y.from, N) /\ Quiet(y.to, th[t])
    BY <1>2, <2>3, <2>7, StackQuiet
  <2>9. StateOK(y.from) /\ Ended(y.from)
    BY <2>3, <2>7, <2>8 DEF Quiet, StackOnly, SameSettings, Ended, Suspended
  <2>10. /\ DOMAIN T1 = Thread /\ T1[co] = y.from
         /\ \A u \in Thread \ {co} : T1[u] = th[u]
    BY <1>2, PutFacts
  <2> HIDE DEF T1
  <2>11. /\ DOMAIN T2 = Thread /\ T2[t] = y.to
         /\ \A u \in Thread \ {t} : T2[u] = T1[u]
    BY <1>2, <2>10, PutFacts
  <2> HIDE DEF T2
  <2>12. Good(T1, cst, pend, lev)
    <3>1. Only(T1, th, co)
      BY <2>10 DEF Only
    <3> QED
      BY <1>4, <2>9, <2>10, <3>1, IdleGood
  <2>13. ASSUME NEW u \in Thread PROVE Quiet(T2[u], T1[u])
    <3>1. CASE u = t
      BY <1>3, <2>8, <2>10, <2>11, <3>1
    <3>2. CASE u # t
      <4>1. T2[u] = T1[u] /\ StateOK(T1[u])
        BY <1>2, <2>9, <2>10, <2>11, <3>2
      <4> QED
        BY <4>1, QuietSame
    <3> QED
      BY <3>1, <3>2
  <2>14. \A u \in Thread : /\ StateOK(T2[u]) /\ Alike(T2[u], T1[u])
                           /\ T2[u].size_ci = T1[u].size_ci
    BY <2>13 DEF Quiet
  <2>15. Good(T2, cst, pend, lev)
    BY <1>2, <2>11, <2>12, <2>14, QuietGood
  <2> QED
    BY <1>2, <2>1, <2>15, InvNext
<1>13. ASSUME resume(ts, co, L, cs, k) PROVE CallsInv'
  <2>1. /\ DOMAIN L = Fields /\ L.ci = x.to.ci /\ L.size_ci = x.to.size_ci
        /\ L.status = x.to.status /\ L.nCcalls = depth + 1 /\ L.baseCcalls = depth + 1
        /\ L.errfunc = x.to.errfunc /\ L.allowhook = x.to.allowhook /\ L.kept = x.to.kept
    BY <1>10 DEF Fields
  <2> HIDE DEF L
  <2>2. depth + 1 \in Int
    BY <1>11
  <2> HIDE DEF depth
  <2>3. StateOK(L) /\ Ended(L)
    BY <1>10, <2>1, <2>2 DEF StateOK, Ended, Suspended
  <2>4. ActOK(e) /\ e.k = "resume" /\ e.t = co /\ e.nexec = 0
        /\ e.ci = 1 /\ e.from = t
    BY <1>2 DEF ActOK
  <2> HIDE DEF e, F, ts
  <2>5. cs = Append(cst, e) /\ ts = [th EXCEPT ![t] = F]
    BY DEF cs, ts
  <2>6. L.status \in {"ok", "yield"} /\ L.nCcalls = L.baseCcalls
    BY <1>3, <1>10, <2>1
  <2>7. Good(th, cst, "none", lev) /\ co \in Coroutine \ Running(cst)
    BY <1>1, <1>2, <1>4
  <2> QED
    BY <1>1, <1>2, <1>6, <1>9, <1>13, <2>3, <2>4, <2>5, <2>6, <2>7, WakeInv
<1> QED
  BY <1>1, <1>12, <1>13

-----------------------------------------------------------------------------
(* The invariance of CallsInv, action by action                            *)

LEMMA InitInv == Init => CallsInv
<1> SUFFICES ASSUME Init PROVE CallsInv
  OBVIOUS
<1> DEFINE lev == [i \in 1 .. Len(cst) |-> 1]
           S(t) == IF t = Main THEN "ok" ELSE "none"
<1>1. /\ cst = <<>> /\ Len(cst) = 0 /\ pend = "none" /\ DOMAIN th = Thread
      /\ \A t \in Thread : th[t] = NewState(S(t))
  BY DEF Init
<1>2. 1 .. Len(cst) = {}
  BY <1>1
<1>3. lev \in [1 .. Len(cst) -> Nat]
  OBVIOUS
<1> HIDE DEF lev
<1>4. ASSUME NEW t \in Thread
      PROVE  /\ StateOK(th[t]) /\ th[t].status = S(t) /\ Len(th[t].ci) = 1
             /\ th[t].nCcalls = 0 /\ th[t].baseCcalls = 0 /\ th[t].errfunc = 0
             /\ th[t].allowhook /\ ~(th[t].size_ci > LUAI_MAXCALLS)
  <2>1. S(t) \in {"none", "ok"} /\ th[t] = NewState(S(t))
    BY <1>1
  <2> HIDE DEF S
  <2>2. /\ StateOK(th[t]) /\ th[t].status = S(t) /\ Len(th[t].ci) = 1
        /\ th[t].nCcalls = 0 /\ th[t].baseCcalls = 0 /\ th[t].errfunc = 0
        /\ th[t].allowhook /\ th[t].size_ci \in Nat /\ th[t].size_ci <= LUAI_MAXCALLS
        /\ LUAI_MAXCALLS \in Nat
    BY <2>1, NewStateFacts
  <2> QED
    BY <2>2
<1>5. Main \in Thread /\ Running(cst) = {Main}
  BY <1>2 DEF Thread, Running
<1>6. ChainOK(cst)
  <2>1. IsSeq(cst)
    BY <1>1 DEF IsSeq
  <2> QED
    BY <1>1, <1>2, <2>1 DEF ChainOK, ActsOK, HostOK, RunsOK, ResumesOK, CaughtOK,
                            HooksOK, HandoverOK
<1>7. CountsOK(th, cst)
  <2>1. CallsTo(cst, Main, Len(cst)) = {}
    BY <1>2 DEF CallsTo
  <2>2. Cardinality(CallsTo(cst, Main, Len(cst))) = 0
    BY <2>1, FS_EmptySet
  <2> QED
    BY <1>2, <1>4, <1>5, <2>2 DEF CountsOK
<1>8. StatusOK(th, cst)
  BY <1>4, <1>5 DEF StatusOK
<1>9. SettingsOK(th, cst)
  BY <1>2, <1>4 DEF SettingsOK
<1>10. OverflowOK(th, cst, pend)
  BY <1>4 DEF OverflowOK
<1>11. FramesOK(th, cst, lev)
  BY <1>2, <1>3, <1>4, <1>5 DEF FramesOK
<1>12. BusyOK(th, cst, pend, lev)
  BY <1>2 DEF BusyOK
<1>13. Good(th, cst, pend, lev)
  BY <1>1, <1>4, <1>6, <1>7, <1>8, <1>9, <1>10, <1>11, <1>12 DEF Good
<1> QED
  BY <1>3, <1>13 DEF CallsInv

LEMMA LuaStepInv ==
  ASSUME NEW lev, Good(th, cst, pend, lev), NEW t, LuaStep(t)
  PROVE  CallsInv'
<1>1. ASSUME NEW v, SetRegisters(t, v) PROVE CallsInv'
  <2>1. LuaRuns(t)
    BY <1>1 DEF SetRegisters
  <2> QED
    BY <1>1, <2>1, RegisterInv
<1>2. ASSUME NEW r, NEW b, NEW n, OP_CALL(t, r, b, n) PROVE CallsInv'
  <2>1. LuaRuns(t)
    BY <1>2 DEF OP_CALL
  <2> QED
    BY <1>2, <2>1, LuaCallInv
<1>3. ASSUME NEW r, NEW b, OP_TAILCALL(t, r, b) PROVE CallsInv'
  <2>1. LuaRuns(t)
    BY <1>3 DEF OP_TAILCALL
  <2> QED
    BY <1>3, <2>1, LuaCallInv
<1>4. ASSUME NEW r, NEW b, OP_RETURN(t, r, b) PROVE CallsInv'
  BY <1>4, FunctionReturnInv
<1>5. ASSUME NEW r, OP_CLOSURE(t, r) PROVE CallsInv'
  <2>1. LuaRuns(t)
    BY <1>5 DEF OP_CLOSURE
  <2> QED
    BY <1>5, <2>1, RegisterInv
<1>6. ASSUME NEW r, OP_CLOSE(t, r) PROVE CallsInv'
  <2>1. LuaRuns(t)
    BY <1>6 DEF OP_CLOSE
  <2> QED
    BY <1>6, <2>1, RegisterInv
<1>7. ASSUME NEW r, NEW b, OP_VARARG(t, r, b) PROVE CallsInv'
  <2>1. LuaRuns(t)
    BY <1>7 DEF OP_VARARG
  <2> QED
    BY <1>7, <2>1, RegisterInv
<1>8. ASSUME NEW r, callTMres(t, r) PROVE CallsInv'
  <2>1. LuaRuns(t)
    BY <1>8 DEF callTMres
  <2> QED
    BY <1>8, <2>1, MetamethodInv
<1>9. ASSUME NEW v, OP_SETUPVAL(t, v) PROVE CallsInv'
  <2>1. LuaRuns(t)
    BY <1>9 DEF OP_SETUPVAL
  <2> QED
    BY <1>9, <2>1, RegisterInv
<1>10. CASE OP_SETLIST(t)
  <2>1. LuaRuns(t)
    BY <1>10 DEF OP_SETLIST
  <2> QED
    BY <1>10, <2>1, RegisterInv
<1>11. CASE callTM(t)
  <2>1. LuaRuns(t)
    BY <1>11 DEF callTM
  <2> QED
    BY <1>11, <2>1, MetamethodInv
<1>12. CASE call_orderTM(t)
  <2>1. LuaRuns(t)
    BY <1>12 DEF call_orderTM
  <2> QED
    BY <1>12, <2>1, MetamethodInv
<1>13. CASE LuaError(t)
  <2>1. LuaRuns(t)
    BY <1>13 DEF LuaError
  <2> QED
    BY <1>13, <2>1, LuaCallInv
<1>14. CASE luaD_callhook(t)
  BY <1>14, HookInv
<1> QED
  BY <1>1, <1>2, <1>3, <1>4, <1>5, <1>6, <1>7, <1>8, <1>9, <1>10, <1>11, <1>12, <1>13,
     <1>14, Zenon DEF LuaStep

LEMMA CStepInv ==
  ASSUME NEW lev, Good(th, cst, pend, lev), NEW t, CStep(t)
  PROVE  CallsInv'
<1>1. ASSUME NEW v, lua_push(t, v) PROVE CallsInv'
  BY <1>1, WindowInv
<1>2. CASE lua_pop(t)
  BY <1>2, WindowInv
<1>3. ASSUME NEW a, lua_call(t, a, 1) PROVE CallsInv'
  BY <1>3, CCallInv
<1>4. ASSUME NEW a, NEW ef, lua_pcall(t, a, MULTRET, ef) PROVE CallsInv'
  BY <1>4, CCallInv
<1>5. CASE lua_error(t)
  BY <1>5, WindowInv
<1>6. ASSUME NEW n, CReturn(t, n) PROVE CallsInv'
  BY <1>6, FunctionReturnInv
<1>7. CASE HookReturn(t)
  BY <1>7, HookReturnInv
<1>8. ASSUME NEW co, luaB_cocreate(t, co) PROVE CallsInv'
  BY <1>8, CreateInv
<1>9. ASSUME NEW co, NEW n, auxresume(t, co, n) PROVE CallsInv'
  BY <1>9, AuxresumeInv
<1>10. ASSUME NEW n, lua_yield(t, n) PROVE CallsInv'
  BY <1>10, YieldInv
<1> QED
  BY <1>1, <1>2, <1>3, <1>4, <1>5, <1>6, <1>7, <1>8, <1>9, <1>10, Zenon DEF CStep

LEMMA NextInv == CallsInv /\ [Next]_cvars => CallsInv'
<1> SUFFICES ASSUME CallsInv, [Next]_cvars PROVE CallsInv'
  OBVIOUS
<1>1. PICK lev \in [1 .. Len(cst) -> Nat] : Good(th, cst, pend, lev)
  BY DEF CallsInv
<1>2. CASE luaG_errormsg
  BY <1>1, <1>2, ErrorMsgInv
<1>3. CASE luaD_throw
  BY <1>1, <1>3, ThrowsInv
<1>4. ASSUME NEW t \in Thread, LuaStep(t) PROVE CallsInv'
  BY <1>1, <1>4, LuaStepInv
<1>5. ASSUME NEW t \in Thread, CStep(t) PROVE CallsInv'
  BY <1>1, <1>5, CStepInv
<1>6. CASE UNCHANGED cvars
  BY <1>6 DEF cvars, CallsInv
<1> QED
  BY <1>2, <1>3, <1>4, <1>5, <1>6 DEF Next

-----------------------------------------------------------------------------
(* Theorems                                                                *)

(* Whatever Lua and C code do, the C stack and the lua_States agree: which *)
(* thread each activation of luaD_call, luaD_pcall, lua_resume and         *)
(* luaD_callhook runs, how many frames it found and how many Lua functions *)
(* its luaV_execute runs; every error has an activation that catches it;   *)
(* and a protected call remembers counters that are still right when it    *)
(* has to restore them.                                                    *)
THEOREM CallsInvariance == Spec => []CallsInv
BY InitInv, NextInv, PTL DEF Spec

(* nCcalls, which limits the depth of the C stack in luaD_call and decides *)
(* in lua_yield whether a thread may be suspended, is exact in every       *)
(* thread that is on the C stack, after any errors, yields and hooks.      *)
THEOREM CCallsAreExact == Spec => []CCallsExact
<1>1. CallsInv => CCallsExact
  <2> SUFFICES ASSUME CallsInv PROVE CCallsExact
    OBVIOUS
  <2>1. PICK lev \in [1 .. Len(cst) -> Nat] : Good(th, cst, pend, lev)
    BY DEF CallsInv
  <2>2. ChainOK(cst) /\ CountsOK(th, cst)
    BY <2>1 DEF Good
  <2> SUFFICES ASSUME NEW t \in {Current} \cup {cst[i].t : i \in 1 .. Len(cst)}
               PROVE  th[t].nCcalls = th[t].baseCcalls +
                        Cardinality({i \in 1 .. Len(cst) :
                                       cst[i].t = t /\ cst[i].k \notin {"resume", "hook"}})
    BY DEF CCallsExact
  <2>3. t \in Running(cst)
    BY <2>1, <2>2, CurrentThread, RunningThread
  <2>4. \A i \in 1 .. Len(cst) : cst[i].k \notin {"resume", "hook"} <=> cst[i].k \in Calling
    BY <2>2 DEF ChainOK, ActsOK, ActOK, Calling
  <2>5. CallsTo(cst, t, Len(cst)) =
          {i \in 1 .. Len(cst) : cst[i].t = t /\ cst[i].k \notin {"resume", "hook"}}
    BY <2>4 DEF CallsTo
  <2> QED
    BY <2>2, <2>3, <2>5 DEF CountsOK
<1> QED
  BY <1>1, CallsInvariance, PTL

(* A suspended thread can be resumed: no C code waits inside it, and the   *)
(* handlers and hooks of the calls it was in are gone (lua_yield,          *)
(* lua_resume).                                                            *)
THEOREM YieldsSafe == Spec => []YieldSafe
<1>1. CallsInv => YieldSafe
  <2> SUFFICES ASSUME CallsInv PROVE YieldSafe
    OBVIOUS
  <2>1. PICK lev \in [1 .. Len(cst) -> Nat] : Good(th, cst, pend, lev)
    BY DEF CallsInv
  <2> SUFFICES ASSUME NEW co \in Thread, th[co].status = "yield"
               PROVE  /\ \A i \in 1 .. Len(cst) : cst[i].t # co
                      /\ th[co].errfunc = 0 /\ ~isLua(th[co]) /\ th[co].allowhook
    BY DEF YieldSafe
  <2>2. ChainOK(cst) /\ StatusOK(th, cst) /\ StateOK(th[co])
    BY <2>1 DEF Good
  <2>3. co \notin Running(cst)
    BY <2>2 DEF StatusOK
  <2>4. \A i \in 1 .. Len(cst) : cst[i].t # co
    BY <2>2, <2>3, RunningThread
  <2>5. Ended(th[co])
    BY <2>1, <2>3, Idle
  <2>6. th[co].errfunc = 0 /\ th[co].allowhook /\ Suspended(th[co])
    BY <2>5 DEF Ended
  <2>7. Frame(th[co]) = th[co].ci[Len(th[co].ci)]
    BY <2>2, StateFacts
  <2>8. ~isLua(th[co])
    BY <2>6, <2>7 DEF isLua, Suspended
  <2> QED
    BY <2>4, <2>6, <2>8
<1> QED
  BY <1>1, CallsInvariance, PTL

(* An overflow of the CallInfo array is undone by the time its thread can  *)
(* be entered again: restore_stack_limit is reached on every path, but for *)
(* a protected call made at the limit itself.                              *)
THEOREM OverflowsUndone == Spec => []OverflowUndone
<1>1. CallsInv => OverflowUndone
  <2> SUFFICES ASSUME CallsInv PROVE OverflowUndone
    OBVIOUS
  <2>1. PICK lev \in [1 .. Len(cst) -> Nat] : Good(th, cst, pend, lev)
    BY DEF CallsInv
  <2>2. ChainOK(cst) /\ OverflowOK(th, cst, pend)
    BY <2>1 DEF Good
  <2> SUFFICES ASSUME NEW t \in Thread, th[t].status # "dead",
                      \A i \in 1 .. Len(cst) : cst[i].t # t
               PROVE  th[t].kept \/ th[t].size_ci <= LUAI_MAXCALLS
    BY DEF OverflowUndone
  <2>3. ~Has(cst, Len(cst), t, "handler")
    BY DEF Has
  <2>4. ~(pend \in Errors /\ Cur(cst) = t)
    <3>1. ASSUME cst # <<>> PROVE Cur(cst) # t
      <4>1. Len(cst) \in 1 .. Len(cst)
        BY <2>2, <3>1, RunningThread
      <4> QED
        BY <3>1, <4>1 DEF Cur
    <3>2. cst = <<>> => pend \notin Errors
      BY <2>1 DEF Good, Errors
    <3> QED
      BY <3>1, <3>2
  <2>5. th[t].kept \/ ~(th[t].size_ci > LUAI_MAXCALLS)
    BY <2>2, <2>3, <2>4 DEF OverflowOK
  <2>6. th[t].size_ci \in Nat /\ LUAI_MAXCALLS \in Nat
    BY <2>1, CallsAssumption DEF Good, StateOK
  <2> QED
    BY <2>5, <2>6
<1> QED
  BY <1>1, CallsInvariance, PTL

(* Every frame of a thread has a slot of its CallInfo array, which growCI   *)
(* lets pass the limit on nested calls once.                               *)
FramesFit ==
  \A t \in Thread :
    Len(th[t].ci) <= th[t].size_ci /\ th[t].size_ci <= 2 * LUAI_MAXCALLS

(* The CallInfo array of a thread never grows past twice the limit on      *)
(* nested calls, however deep Lua code, C code and handlers call: growCI   *)
(* enlarges it to run the handler of an overflow, and an overflow inside   *)
(* the handler raises an error instead of growing it again.                *)
THEOREM DepthBounded == Spec => []FramesFit
<1>1. CallsInv => FramesFit
  <2> SUFFICES ASSUME CallsInv, NEW t \in Thread
               PROVE  Len(th[t].ci) <= th[t].size_ci /\ th[t].size_ci <= 2 * LUAI_MAXCALLS
    BY DEF FramesFit
  <2>1. PICK lev \in [1 .. Len(cst) -> Nat] : Good(th, cst, pend, lev)
    BY DEF CallsInv
  <2> QED
    BY <2>1 DEF Good, StateOK
<1> QED
  BY <1>1, CallsInvariance, PTL

-----------------------------------------------------------------------------
(* The lua_States                                                          *)

Value == Val \cup {Nil}

FrameType == [func : Slot, base : Slot, top : Slot, lua : BOOLEAN,
              nresults : Nat \cup {-1}, numparams : Nat, is_vararg : BOOLEAN,
              open : BOOLEAN]

FrameOK(f) ==
  /\ f.func < f.base /\ f.base <= f.top
  /\ f.is_vararg => f.func + f.numparams < f.base

(* The frames of a thread lie one above the other.                         *)
Nested(ci) ==
  /\ ci \in Seq(FrameType) /\ Len(ci) >= 1
  /\ \A i \in 1 .. Len(ci) : FrameOK(ci[i])
  /\ \A i, j \in 1 .. Len(ci) : i < j => ci[i].base <= ci[j].func

NilAbove(L) == \A i \in Slot : i >= L.top => L.stk[i] = Nil

(* The slots with an open upvalue.                                         *)
Ups(L) == {L.openupval[i] : i \in 1 .. Len(L.openupval)}

UpFree(L, w) == \A u \in Ups(L) : u < w

Sorted(uv) ==
  /\ uv \in Seq(Slot)
  /\ \A i, j \in 1 .. Len(uv) : i < j => uv[i] > uv[j]

(* Slot u is a register of the j-th frame, a Lua function.                 *)
Owns(L, j, u) ==
  /\ L.ci[j].lua /\ L.ci[j].base <= u /\ u < L.ci[j].top
  /\ u < (IF j < Len(L.ci) THEN L.ci[j + 1].func ELSE L.top)

Owned(L) == \A u \in Ups(L) : \E j \in 1 .. Len(L.ci) : Owns(L, j, u)

(* Top and base; a coroutine that has yielded has its results above base.  *)
WindowOK(L) ==
  /\ L.top \in 2 .. Slots /\ L.base \in 2 .. Slots
  /\ L.ci[Len(L.ci)].base <= L.top
  /\ L.status # "yield" => L.base = L.ci[Len(L.ci)].base

Mem(L) ==
  /\ DOMAIN L = Fields
  /\ L.stk \in [Slot -> Value] /\ L.errfunc \in 0 .. Slots
  /\ Nested(L.ci) /\ WindowOK(L) /\ NilAbove(L)
  /\ Sorted(L.openupval) /\ Owned(L)
  /\ L.status = "yield" => Len(L.ci) >= 2 /\ L.ci[2].nresults = -1

-----------------------------------------------------------------------------
(* The activations                                                         *)

(* Slots from Floor(e) on belong to the functions that a hook or a         *)
(* protected call runs; from Low(e) on to whoever called it.               *)
Floor(e) == IF e.k = "hook" THEN e.top ELSE e.oldtop
Low(e) == IF e.k = "hook" THEN e.top ELSE e.oldtop - Len(e.keep)

Guarded(e) == e.k \in {"hook", "pcall"}

FloorOK(L, e) ==
  LET l == e.ci
  IN /\ Low(e) \in Slot /\ Floor(e) \in Slot
     /\ L.ci[l].base <= Low(e) /\ Low(e) <= Floor(e) /\ Floor(e) <= L.top
     /\ \A j \in l + 1 .. Len(L.ci) : Floor(e) <= L.ci[j].func
     /\ \A u \in Ups(L) : u < Low(e) \/ (l < Len(L.ci) /\ L.ci[l + 1].base <= u)

(* What the end of the hook needs to give the frame its top back.          *)
HookRec(L, e) ==
  LET l == e.ci
  IN /\ e.citop \in Slot /\ L.ci[l].base <= e.citop /\ L.ci[l].lua
     /\ ~L.ci[l].open => e.citop = e.top
     /\ \A u \in Ups(L) : u < e.top => u < e.citop

(* What the caller of lua_pcall has on its stack.                          *)
PcallRec(L, e) ==
  /\ e.errfunc \in 0 .. Slots /\ e.oldtop < Slots
  /\ e.keep \in Seq(Value)
  /\ \A i \in 1 .. Len(e.keep) : e.keep[i] = L.stk[Low(e) + i - 1]

Meta == {"callTMres", "compare", "callTM"}

(* A metamethod runs above the registers of the Lua function.              *)
MetaRec(L, e) ==
  LET l == e.ci
  IN /\ L.ci[l].lua /\ ~L.ci[l].open
     /\ e.k = "callTMres" =>
          e.res \in Slot /\ L.ci[l].base <= e.res /\ e.res < L.ci[l].top
     /\ e.k = "compare" => e.res = L.ci[l].top

(* The function that an activation has called, in frame l + 1.             *)
CalleeOK(e, top, func, nresults) ==
  /\ e.k \in Meta => func = top /\ nresults = IF e.k = "callTM" THEN 0 ELSE 1
  /\ e.k = "resume" => nresults = -1
  /\ nresults = -1 \/ func + nresults <= Slots

EnteredOK(L, e) ==
  CalleeOK(e, L.ci[e.ci].top, L.ci[e.ci + 1].func, L.ci[e.ci + 1].nresults)

(* The fields of the activation records.                                   *)
RecFields(e) ==
  /\ {"k", "t", "nexec", "ci"} \subseteq DOMAIN e
  /\ e.k = "pcall" => {"oldtop", "keep", "errfunc", "allowhook"} \subseteq DOMAIN e
  /\ e.k = "hook" => {"top", "citop"} \subseteq DOMAIN e
  /\ e.k \in {"callTMres", "compare"} => "res" \in DOMAIN e
  /\ e.k = "resume" => "from" \in DOMAIN e

(* Activation e of a thread with state L; up is where the next one begins. *)
RecOK(L, e, up) ==
  /\ RecFields(e) /\ e.ci \in 1 .. Len(L.ci)
  /\ Guarded(e) => FloorOK(L, e)
  /\ e.k = "hook" => HookRec(L, e)
  /\ e.k = "pcall" => PcallRec(L, e)
  /\ e.k \in Meta => MetaRec(L, e)
  /\ (e.k # "hook" /\ e.ci < up) => e.ci + 1 \in 1 .. Len(L.ci) /\ EnteredOK(L, e)

Until(L, C, i) == IF i < Len(C) /\ C[i + 1].t = C[i].t THEN C[i + 1].ci ELSE Len(L.ci)

(* No activation of thread t uses slots from w on.                         *)
Above(C, t, w) ==
  \A i \in 1 .. Len(C) : (C[i].t = t /\ Guarded(C[i])) => Floor(C[i]) <= w

FloorsOK(C) ==
  \A i, k \in 1 .. Len(C) :
    (i < k /\ C[i].t = C[k].t /\ Guarded(C[i]) /\ Guarded(C[k])) =>
      Floor(C[i]) <= Floor(C[k])

(* A hook calls no hook, and no metamethod itself; an error inside it      *)
(* leaves hooks off.                                                       *)
HooksNest(C) ==
  \A i \in 1 .. Len(C) : C[i].k = "hook" =>
    \A k \in i + 1 .. Len(C) : C[k].t = C[i].t =>
      /\ C[k].k # "hook" /\ (C[k].k = "pcall" => ~C[k].allowhook)
      /\ k = i + 1 => C[k].k \notin Meta

Top(L) == L.ci[Len(L.ci)]

(* Hooks are off inside a hook; C functions call, and hooks do.            *)
RecIn(L, C, i) ==
  /\ RecOK(L, C[i], Until(L, C, i))
  /\ C[i].k = "hook" => ~L.allowhook
  /\ C[i].k \in {"call", "pcall"} =>
       ~L.ci[C[i].ci].lua \/ (i > 1 /\ C[i - 1].k = "hook")

(* A thread with state L.                                                  *)
ThreadOK(L, C, t) ==
  Mem(L) /\ \A i \in 1 .. Len(C) : C[i].t = t => RecIn(L, C, i)

(* Between the instructions of a Lua function its top is that of the frame. *)
LiveOK(L, C, p) ==
  (p = "none" /\ C # <<>> /\ C[Len(C)].k # "hook" /\ Top(L).lua /\ ~Top(L).open) =>
    L.top = Top(L).top

(* The message of an error is above everything else.                       *)
MessageOK(L, C, t, p) ==
  p = "message" =>
    Top(L).base <= L.top - 1 /\ UpFree(L, L.top - 1) /\ Above(C, t, L.top - 1)

(* C functions resume.                                                     *)
Resumers(T, C) ==
  \A i \in 1 .. Len(C) : C[i].k = "resume" => ~Top(T[C[i].from]).lua

Data(T, C, p) ==
  /\ DOMAIN T = Thread /\ \A t \in Thread : ThreadOK(T[t], C, t)
  /\ FloorsOK(C) /\ HooksNest(C) /\ Resumers(T, C)
  /\ LiveOK(T[Cur(C)], C, p) /\ MessageOK(T[Cur(C)], C, Cur(C), p)
  /\ p # "enter"

StackInv == CallsInv /\ Data(th, cst, pend)

-----------------------------------------------------------------------------
(* The operations on the slots of a stack                                  *)

Clean(L) ==
  /\ DOMAIN L = Fields /\ L.stk \in [Slot -> Value] /\ L.top \in Int /\ NilAbove(L)

(* M has the frames, upvalues and settings of L.                           *)
Kept(M, L) ==
  /\ DOMAIN M = Fields /\ M.ci = L.ci /\ M.base = L.base
  /\ M.openupval = L.openupval /\ M.status = L.status
  /\ M.errfunc = L.errfunc /\ M.allowhook = L.allowhook

(* The slots of M from w on may differ from those of L; none above the top *)
(* holds a value.                                                          *)
Over(M, L, w) ==
  /\ M.stk \in [Slot -> Value] /\ M.top \in Int /\ w <= M.top /\ NilAbove(M)
  /\ \A i \in Slot : i < w => M.stk[i] = L.stk[i]

Edit(M, L, w) == Kept(M, L) /\ Over(M, L, w)

(* What the assumption on the constants says of the sizes.                 *)
LEMMA Sizes ==
  /\ Slots \in Nat /\ Slots >= 3 /\ stack_last \in Nat /\ stack_last < Slots
  /\ LUA_MINSTACK \in Nat /\ LUA_MINSTACK >= 1 /\ LUA_MINSTACK + 2 <= Slots
  /\ Slot \subseteq Nat /\ Nil \in Value /\ Message \in Value /\ Message # Nil
<1>1. /\ Slots \in Nat /\ EXTRA_STACK \in Nat /\ LUA_MINSTACK \in Nat
      /\ Slots > LUA_MINSTACK + EXTRA_STACK /\ EXTRA_STACK >= 1 /\ LUA_MINSTACK >= 1
      /\ Val # {} /\ Nil \notin Val
  BY CallsAssumption
<1>2. Message \in Val
  BY <1>1 DEF Message
<1> QED
  BY <1>1, <1>2 DEF stack_last, Slot, Value

(* Doing nothing is an edit.                                               *)
LEMMA EditSame ==
  ASSUME NEW L, Clean(L), NEW w, w <= L.top
  PROVE  Edit(L, L, w)
BY DEF Edit, Kept, Over, Clean

(* One edit after another is an edit.                                      *)
LEMMA EditTrans ==
  ASSUME NEW L, NEW M, NEW N, NEW w, Edit(M, L, w), Edit(N, M, w)
  PROVE  Edit(N, L, w)
BY DEF Edit, Kept, Over

(* An edit leaves no value above the top.                                  *)
LEMMA EditClean ==
  ASSUME NEW L, NEW M, NEW w, Edit(M, L, w)
  PROVE  Clean(M) /\ w <= M.top
BY DEF Edit, Kept, Over, Clean

(* An edit above w is an edit above anything lower.                        *)
LEMMA EditLower ==
  ASSUME NEW L, NEW M, NEW w \in Int, Edit(M, L, w), NEW v \in Int, v <= w
  PROVE  Edit(M, L, v)
<1>1. M.top \in Int /\ v <= M.top
  BY DEF Edit, Over
<1>2. \A i \in Slot : i < v => i < w
  BY Sizes DEF Slot
<1> QED
  BY <1>1, <1>2 DEF Edit, Over

(* lua_settop and the other cuts edit above the new top.                   *)
LEMMA CutToEdit ==
  ASSUME NEW L, Clean(L), NEW n \in Int, NEW w \in Int, w <= n
  PROVE  Edit(CutTo(L, n), L, w) /\ CutTo(L, n).top = n
<1> DEFINE k == [i \in Slot |-> IF n <= i /\ i < L.top THEN Nil ELSE L.stk[i]]
           M == CutTo(L, n)
<1>1. Kept(M, L) /\ M.stk = k /\ M.top = n
  BY DEF CutTo, SetNil, Kept, Clean, Fields
<1>2. k \in [Slot -> Value]
  BY Sizes DEF Clean
<1>3. \A i \in Slot : i \in Int /\ (i < w => k[i] = L.stk[i])
  BY Sizes DEF Slot
<1>4. ASSUME NEW i \in Slot, i >= n PROVE k[i] = Nil
  <2>1. L.top \in Int /\ i \in Int /\ (i >= L.top => L.stk[i] = Nil)
    BY Sizes DEF Clean, NilAbove, Slot
  <2> QED
    BY <1>4, <2>1
<1> HIDE DEF M, k
<1>5. Over(M, L, w)
  BY <1>1, <1>2, <1>3, <1>4 DEF Over, NilAbove
<1> QED
  BY <1>1, <1>5 DEF Edit, M

(* Writing a slot below the top, or clearing one above it.                 *)
LEMMA SetSlotEdit ==
  ASSUME NEW L, Clean(L), NEW i \in Int, NEW v \in Value, NEW w \in Int, w <= i,
         w <= L.top, i < L.top \/ v = Nil
  PROVE  Edit(SetSlot(L, i, v), L, w) /\ SetSlot(L, i, v).top = L.top
<1> DEFINE k == [L.stk EXCEPT ![i] = v]
           M == SetSlot(L, i, v)
<1>1. Kept(M, L) /\ M.stk = k /\ M.top = L.top
  BY DEF SetSlot, Kept, Clean, Fields
<1>2. k \in [Slot -> Value] /\ L.top \in Int
  BY DEF Clean
<1>3. \A j \in Slot : j \in Int /\ k[j] = IF j = i THEN v ELSE L.stk[j]
  BY Sizes DEF Clean, Slot
<1>4. \A j \in Slot : j >= L.top => L.stk[j] = Nil
  BY DEF Clean, NilAbove
<1> HIDE DEF M, k
<1>5. \A j \in Slot : /\ j < w => k[j] = L.stk[j]
                      /\ j >= L.top => k[j] = Nil
  BY <1>2, <1>3, <1>4
<1>6. Over(M, L, w)
  BY <1>1, <1>2, <1>5 DEF Over, NilAbove
<1> QED
  BY <1>1, <1>6 DEF Edit, M

(* Pushing a value.                                                        *)
LEMMA PushEdit ==
  ASSUME NEW L, Clean(L), NEW v \in Value, NEW w \in Int, w <= L.top
  PROVE  Edit(Push(L, v), L, w) /\ Push(L, v).top = L.top + 1
<1> DEFINE k == [L.stk EXCEPT ![L.top] = v]
           M == Push(L, v)
<1>1. Kept(M, L) /\ M.stk = k /\ M.top = L.top + 1
  BY DEF Push, SetSlot, Kept, Clean, Fields
<1>2. k \in [Slot -> Value] /\ L.top \in Int
  BY DEF Clean
<1>3. \A j \in Slot : j \in Int /\ k[j] = IF j = L.top THEN v ELSE L.stk[j]
  BY Sizes DEF Clean, Slot
<1>4. \A j \in Slot : j >= L.top => L.stk[j] = Nil
  BY DEF Clean, NilAbove
<1> HIDE DEF M, k
<1>5. \A j \in Slot : /\ j < w => k[j] = L.stk[j]
                      /\ j >= L.top + 1 => k[j] = Nil
  BY <1>2, <1>3, <1>4
<1>6. Over(M, L, w)
  BY <1>1, <1>2, <1>5 DEF Over, NilAbove
<1> QED
  BY <1>1, <1>6 DEF Edit, M

(* The metamethod below the object and its arguments.                      *)
LEMMA TryEdit ==
  ASSUME NEW L, Clean(L), NEW func \in Slot, func <= L.top
  PROVE  Edit(tryfuncTM(L, func), L, func) /\ tryfuncTM(L, func).top = L.top + 1
<1> DEFINE k == [i \in Slot |-> IF i = func THEN Message
                                ELSE IF func < i /\ i <= L.top THEN L.stk[i - 1]
                                ELSE L.stk[i]]
           M == tryfuncTM(L, func)
<1>1. Kept(M, L) /\ M.stk = k /\ M.top = L.top + 1
  BY DEF tryfuncTM, Kept, Clean, Fields
<1>2. k \in [Slot -> Value]
  <2>1. ASSUME NEW i \in Slot, func < i PROVE i - 1 \in Slot
    BY <2>1, Sizes DEF Slot
  <2>2. \A i \in Slot : L.stk[i] \in Value
    BY DEF Clean
  <2> QED
    BY <2>1, <2>2, Sizes
<1>3. \A i \in Slot : i < func => k[i] = L.stk[i]
  BY Sizes DEF Slot
<1>4. ASSUME NEW i \in Slot, i >= L.top + 1 PROVE k[i] = Nil
  <2>1. i \in Int /\ func \in Int /\ L.top \in Int /\ L.stk[i] = Nil
    BY <1>4, Sizes DEF Clean, NilAbove, Slot
  <2> QED
    BY <1>4, <2>1
<1>5. L.top \in Int /\ func \in Int
  BY Sizes DEF Clean, Slot
<1> HIDE DEF M, k
<1>6. Over(M, L, func)
  BY <1>1, <1>2, <1>3, <1>4, <1>5 DEF Over, NilAbove
<1> QED
  BY <1>1, <1>6 DEF Edit, M

-----------------------------------------------------------------------------
(* Returning to a lower frame, or staying in the same                      *)

(* The bounds of every frame and of the top, for arithmetic.               *)
LEMMA MemFacts ==
  ASSUME NEW L, Mem(L)
  PROVE  /\ Len(L.ci) \in Nat /\ Len(L.ci) >= 1 /\ IsSeq(L.ci)
         /\ \A i \in 1 .. Len(L.ci) :
              /\ L.ci[i] \in FrameType /\ L.ci[i].func \in Nat /\ L.ci[i].base \in Nat
              /\ L.ci[i].top \in Nat /\ 1 <= L.ci[i].func /\ L.ci[i].top <= Slots
              /\ L.ci[i].func < L.ci[i].base /\ L.ci[i].base <= L.ci[i].top
         /\ Frame(L) = Top(L) /\ Clean(L) /\ Ups(L) \subseteq Slot
         /\ L.top \in Nat /\ L.top <= Slots /\ Top(L).base <= L.top /\ L.top >= 2
<1>1. L.ci \in Seq(FrameType) /\ Len(L.ci) >= 1 /\ \A i \in 1 .. Len(L.ci) : FrameOK(L.ci[i])
  BY DEF Mem, Nested
<1>2. Len(L.ci) \in Nat /\ \A i \in 1 .. Len(L.ci) : L.ci[i] \in FrameType
  BY <1>1
<1>3. IsSeq(L.ci)
  BY <1>1, SeqElements
<1>4. Frame(L) = Top(L)
  BY <1>1, <1>2 DEF Frame, Last, Top
<1>5. Sorted(L.openupval) /\ WindowOK(L) /\ DOMAIN L = Fields
      /\ L.stk \in [Slot -> Value] /\ NilAbove(L)
  BY DEF Mem
<1>6. Ups(L) \subseteq Slot
  BY <1>5 DEF Sorted, Ups
<1>7. L.top \in 2 .. Slots /\ Top(L).base <= L.top /\ Slots \in Nat
  BY <1>5, Sizes DEF WindowOK, Top
<1>8. ASSUME NEW i \in 1 .. Len(L.ci)
      PROVE  /\ L.ci[i].func \in Nat /\ L.ci[i].base \in Nat
             /\ L.ci[i].top \in Nat /\ 1 <= L.ci[i].func /\ L.ci[i].top <= Slots
             /\ L.ci[i].func < L.ci[i].base /\ L.ci[i].base <= L.ci[i].top
  <2> DEFINE f == L.ci[i]
  <2>1. f \in FrameType /\ FrameOK(f)
    BY <1>1, <1>2
  <2> HIDE DEF f
  <2>2. f.func \in Slot /\ f.base \in Slot /\ f.top \in Slot
    BY <2>1 DEF FrameType
  <2>3. f.func < f.base /\ f.base <= f.top
    BY <2>1 DEF FrameOK
  <2> QED
    BY <2>2, <2>3, Sizes DEF f, Slot
<1> QED
  BY <1>1, <1>2, <1>3, <1>4, <1>5, <1>6, <1>7, <1>8 DEF Clean

(* A frame begins above the base of every frame below it.                  *)
LEMMA FramesNested ==
  ASSUME NEW L, Mem(L), NEW i \in 1 .. Len(L.ci), NEW j \in 1 .. Len(L.ci), i < j
  PROVE  L.ci[i].base <= L.ci[j].func
BY DEF Mem, Nested

(* f is frame g but for its top and the number of results it waits for.    *)
SameFrame(f, g) ==
  /\ f.func = g.func /\ f.base = g.base /\ f.lua = g.lua
  /\ f.nresults = g.nresults /\ f.numparams = g.numparams
  /\ f.is_vararg = g.is_vararg

(* M has the lowest m frames of L; slots from w on, and those of open      *)
(* upvalues, may differ.                                                   *)
Down(M, L, m, w) ==
  /\ DOMAIN M = Fields /\ m \in 1 .. Len(L.ci)
  /\ M.ci \in Seq(FrameType) /\ Len(M.ci) = m
  /\ \A j \in 1 .. m - 1 : M.ci[j] = L.ci[j]
  /\ SameFrame(M.ci[m], L.ci[m]) /\ M.ci[m].base <= M.ci[m].top
  /\ w \in Int /\ L.ci[m].base <= w /\ w <= M.top /\ M.top \in Int /\ M.top <= Slots
  /\ M.stk \in [Slot -> Value] /\ NilAbove(M)
  /\ \A i \in Slot : i < w => M.stk[i] = L.stk[i] \/ i \in Ups(L)
  /\ Sorted(M.openupval) /\ Ups(M) \subseteq Ups(L) /\ UpFree(M, M.top)
  /\ m < Len(L.ci) => UpFree(M, L.ci[m + 1].func)
  /\ M.ci[m].top >= L.ci[m].top \/ UpFree(M, M.ci[m].top)
  /\ M.base \in 2 .. Slots /\ (M.status # "yield" => M.base = L.ci[m].base)
  /\ M.status = "yield" => m >= 2 /\ M.ci[2].nresults = -1
  /\ M.errfunc \in 0 .. Slots

(* The frames that are left when those above the m-th have gone.           *)
LEMMA DownFrames ==
  ASSUME NEW L, Mem(L), NEW M, NEW m, NEW w, Down(M, L, m, w)
  PROVE  /\ m \in Nat /\ 1 <= m /\ m <= Len(L.ci) /\ Len(M.ci) = m
         /\ \A j \in 1 .. m : SameFrame(M.ci[j], L.ci[j]) /\ M.ci[j] \in FrameType
                              /\ FrameOK(M.ci[j])
         /\ \A j \in 1 .. m : j < m => M.ci[j] = L.ci[j]
         /\ Top(M) = M.ci[m]
<1>1. Len(L.ci) \in Nat /\ m \in 1 .. Len(L.ci) /\ Len(M.ci) = m /\ M.ci \in Seq(FrameType)
  BY MemFacts DEF Down
<1>2. m \in Nat /\ 1 <= m /\ m <= Len(L.ci)
  BY <1>1
<1>3. ASSUME NEW j \in 1 .. m, j < m PROVE M.ci[j] = L.ci[j]
  BY <1>2, <1>3 DEF Down
<1>4. ASSUME NEW j \in 1 .. m
      PROVE  SameFrame(M.ci[j], L.ci[j]) /\ M.ci[j] \in FrameType /\ FrameOK(M.ci[j])
  <2>1. M.ci[j] \in FrameType /\ j \in 1 .. Len(L.ci)
    BY <1>1, <1>2
  <2>2. FrameOK(L.ci[j])
    BY <2>1 DEF Mem, Nested
  <2>3. CASE j < m
    BY <1>3, <2>1, <2>2, <2>3 DEF SameFrame
  <2>4. CASE j = m
    <3>1. SameFrame(M.ci[j], L.ci[j]) /\ M.ci[j].base <= M.ci[j].top
      BY <2>4 DEF Down
    <3> QED
      BY <2>1, <2>2, <3>1 DEF SameFrame, FrameOK
  <2> QED
    BY <1>2, <2>3, <2>4
<1> QED
  BY <1>1, <1>2, <1>3, <1>4 DEF Top

(* Leaving the frames above the m-th keeps a thread's stack in order.      *)
LEMMA DownMem ==
  ASSUME NEW L, Mem(L), NEW M, NEW m, NEW w, Down(M, L, m, w)
  PROVE  Mem(M)
<1>1. /\ m \in Nat /\ 1 <= m /\ m <= Len(L.ci) /\ Len(M.ci) = m
      /\ \A j \in 1 .. m : SameFrame(M.ci[j], L.ci[j]) /\ FrameOK(M.ci[j])
      /\ \A j \in 1 .. m : j < m => M.ci[j] = L.ci[j]
  BY DownFrames
<1>2. Len(L.ci) \in Nat /\ Slots \in Nat
  BY MemFacts, Sizes
<1>3. Nested(M.ci)
  <2>1. ASSUME NEW i \in 1 .. m, NEW j \in 1 .. m, i < j
        PROVE  M.ci[i].base <= M.ci[j].func
    <3>1. i \in 1 .. Len(L.ci) /\ j \in 1 .. Len(L.ci)
      BY <1>1, <1>2
    <3> QED
      BY <1>1, <2>1, <3>1, FramesNested DEF SameFrame
  <2> QED
    BY <1>1, <2>1 DEF Nested, Down
<1>4. WindowOK(M)
  <2>1. /\ L.ci[m].base <= w /\ w <= M.top /\ M.top \in Int /\ M.top <= Slots /\ w \in Int
        /\ M.base \in 2 .. Slots /\ (M.status # "yield" => M.base = L.ci[m].base)
    BY DEF Down
  <2>2. L.ci[m].base \in Nat /\ L.ci[m].base >= 2 /\ M.ci[m].base = L.ci[m].base
    <3>1. m \in 1 .. Len(L.ci) /\ m \in 1 .. m
      BY <1>1, <1>2
    <3>2. L.ci[m].func \in Nat /\ 1 <= L.ci[m].func /\ L.ci[m].base \in Nat
          /\ L.ci[m].func < L.ci[m].base
      BY <3>1, MemFacts
    <3> QED
      BY <1>1, <3>1, <3>2 DEF SameFrame
  <2> QED
    BY <1>1, <1>2, <2>1, <2>2 DEF WindowOK
<1>5. Owned(M)
  <2> SUFFICES ASSUME NEW u \in Ups(M) PROVE \E j \in 1 .. Len(M.ci) : Owns(M, j, u)
    BY DEF Owned
  <2>1. u \in Ups(L) /\ u < M.top /\ u \in Nat
    BY MemFacts, Sizes DEF Down, UpFree
  <2>2. PICK j \in 1 .. Len(L.ci) : Owns(L, j, u)
    BY <2>1 DEF Mem, Owned
  <2>3. j <= m
    <3> SUFFICES ASSUME m < j PROVE FALSE
      BY <1>1, <1>2
    <3>1. m + 1 \in 1 .. Len(L.ci) /\ m < Len(L.ci)
      BY <1>1, <1>2
    <3>2. u < L.ci[m + 1].func /\ L.ci[j].base <= u
      BY <2>2, <3>1 DEF Down, UpFree, Owns
    <3>3. L.ci[m + 1].func <= L.ci[j].base
      <4>1. CASE j = m + 1
        BY <4>1, <3>1, MemFacts
      <4>2. CASE m + 1 < j
        <5>1. L.ci[m + 1].base <= L.ci[j].func
          BY <3>1, <4>2, FramesNested
        <5> QED
          BY <3>1, <5>1, MemFacts
      <4> QED
        BY <1>1, <1>2, <4>1, <4>2
    <3>4. L.ci[m + 1].func \in Nat /\ L.ci[j].base \in Nat
      BY <3>1, MemFacts
    <3> QED
      BY <2>1, <3>2, <3>3, <3>4
  <2>4. j \in 1 .. m
    BY <2>3, <1>1
  <2>5. CASE j < m
    <3>1. M.ci[j] = L.ci[j] /\ j + 1 \in 1 .. m /\ M.ci[j + 1].func = L.ci[j + 1].func
      BY <1>1, <2>4, <2>5 DEF SameFrame
    <3>2. j < Len(L.ci) /\ j < Len(M.ci)
      BY <1>1, <1>2, <2>5
    <3>3. Owns(M, j, u)
      BY <2>2, <3>1, <3>2 DEF Owns
    <3> QED
      BY <1>1, <2>4, <3>3
  <2>6. CASE j = m
    <3>1. L.ci[j].lua /\ L.ci[j].base <= u /\ u < L.ci[j].top
      BY <2>2 DEF Owns
    <3>2. M.ci[j].lua /\ M.ci[j].base <= u /\ M.ci[j].top \in Nat /\ L.ci[j].top \in Nat
      <4>1. SameFrame(M.ci[j], L.ci[j]) /\ M.ci[j] \in FrameType
        BY <2>4, DownFrames
      <4>2. M.ci[j].top \in Slot /\ L.ci[j].top \in Nat
        BY <4>1, MemFacts DEF FrameType
      <4> QED
        BY <3>1, <4>1, <4>2, Sizes DEF SameFrame
    <3>3. u < M.ci[j].top
      BY <2>1, <2>6, <3>1, <3>2 DEF Down, UpFree
    <3>4. ~(j < Len(M.ci))
      BY <1>1, <2>6
    <3>5. Owns(M, j, u)
      BY <2>1, <3>2, <3>3, <3>4 DEF Owns
    <3> QED
      BY <1>1, <2>4, <3>5
  <2> QED
    BY <1>1, <2>4, <2>5, <2>6
<1> QED
  BY <1>1, <1>3, <1>4, <1>5 DEF Mem, Down

(* What an activation needs is still there in a lower frame.               *)
LEMMA DownRec ==
  ASSUME NEW L, Mem(L), NEW M, NEW m, NEW w, Down(M, L, m, w),
         NEW e, NEW up, NEW ups \in Int, RecOK(L, e, up), ups <= m,
         ups = up \/ (ups = m /\ up = Len(L.ci)),
         e.ci <= m, Guarded(e) => Floor(e) <= w,
         e.ci = m => M.ci[m] = L.ci[m] \/ (e.k = "hook" /\ M.ci[m].open = L.ci[m].open)
  PROVE  RecOK(M, e, ups)
<1> DEFINE l == e.ci
<1>1. /\ m \in Nat /\ 1 <= m /\ m <= Len(L.ci) /\ Len(M.ci) = m
      /\ \A j \in 1 .. m : SameFrame(M.ci[j], L.ci[j])
      /\ \A j \in 1 .. m : j < m => M.ci[j] = L.ci[j]
  BY DownFrames
<1>2. Len(L.ci) \in Nat
  BY MemFacts
<1>3. RecFields(e) /\ l \in 1 .. Len(L.ci) /\ l \in 1 .. m /\ l \in Nat
  BY <1>1, <1>2 DEF RecOK
<1>4. M.ci[l].base = L.ci[l].base /\ M.ci[l].lua = L.ci[l].lua
  BY <1>1, <1>3 DEF SameFrame
<1>5. Ups(M) \subseteq Ups(L) /\ Ups(L) \subseteq Slot
  BY MemFacts DEF Down
<1>6. ASSUME Guarded(e) PROVE FloorOK(M, e)
  <2>1. FloorOK(L, e)
    BY <1>6 DEF RecOK
  <2>2. Low(e) \in Nat /\ Floor(e) \in Nat /\ Low(e) \in Slot /\ Floor(e) \in Slot
    BY <2>1, Sizes DEF FloorOK
  <2>3. Low(e) <= Floor(e) /\ L.ci[l].base <= Low(e)
    BY <2>1 DEF FloorOK
  <2>4. Floor(e) <= M.top
    BY <1>6, <2>2 DEF Down
  <2>5. ASSUME NEW j \in l + 1 .. Len(M.ci) PROVE Floor(e) <= M.ci[j].func
    <3>1. j \in l + 1 .. Len(L.ci) /\ j \in 1 .. m
      BY <1>1, <1>2, <1>3
    <3> QED
      BY <1>1, <2>1, <3>1 DEF FloorOK, SameFrame
  <2>6. ASSUME NEW u \in Ups(M), ~(u < Low(e))
        PROVE  l < Len(M.ci) /\ M.ci[l + 1].base <= u
    <3>1. l < Len(L.ci) /\ L.ci[l + 1].base <= u
      BY <1>5, <2>1, <2>6 DEF FloorOK
    <3>2. l + 1 \in 1 .. Len(L.ci)
      BY <1>2, <1>3, <3>1
    <3>3. l # m
      <4> SUFFICES ASSUME l = m PROVE FALSE
        OBVIOUS
      <4>1. u < L.ci[l + 1].func
        BY <2>6, <3>1 DEF Down, UpFree
      <4>2. L.ci[l + 1].func < L.ci[l + 1].base /\ L.ci[l + 1].func \in Nat
            /\ L.ci[l + 1].base \in Nat
        BY <3>2, MemFacts
      <4>3. u \in Nat
        BY <1>5, <2>6, Sizes
      <4> HIDE DEF l
      <4> QED
        BY <3>1, <4>1, <4>2, <4>3
    <3>4. l < m /\ l + 1 \in 1 .. m
      BY <1>1, <1>3, <3>3
    <3> QED
      BY <1>1, <3>1, <3>4 DEF SameFrame
  <2> QED
    BY <1>4, <2>2, <2>3, <2>4, <2>5, <2>6 DEF FloorOK
<1>7. ASSUME e.k = "hook" PROVE HookRec(M, e)
  <2>1. HookRec(L, e)
    BY <1>7 DEF RecOK
  <2>2. M.ci[l].open = L.ci[l].open
    BY <1>1, <1>3
  <2> QED
    BY <1>4, <1>5, <2>1, <2>2 DEF HookRec
<1>8. ASSUME e.k = "pcall" PROVE PcallRec(M, e)
  <2>1. PcallRec(L, e) /\ FloorOK(L, e)
    BY <1>8 DEF RecOK, Guarded
  <2>2. ASSUME NEW i \in 1 .. Len(e.keep) PROVE e.keep[i] = M.stk[Low(e) + i - 1]
    <3> DEFINE s == Low(e) + i - 1
    <3>1. Len(e.keep) \in Nat /\ e.oldtop = Floor(e) /\ Low(e) = e.oldtop - Len(e.keep)
      BY <1>8, <2>1 DEF PcallRec, Floor, Low
    <3>2. Low(e) \in Slot /\ Floor(e) \in Slot /\ Low(e) \in Nat /\ Floor(e) \in Nat
      BY <2>1, Sizes DEF FloorOK
    <3>3. Low(e) <= s /\ s < Floor(e) /\ s \in Slot
      <4>1. i \in Nat /\ 1 <= i /\ i <= Len(e.keep) /\ Low(e) + Len(e.keep) = Floor(e)
        BY <3>1, <3>2
      <4>2. s \in Nat /\ Low(e) <= s /\ s < Floor(e)
        BY <3>1, <3>2, <4>1
      <4>3. 1 <= Low(e) /\ Floor(e) <= Slots
        BY <3>2 DEF Slot
      <4> HIDE DEF s
      <4> QED
        BY <3>2, <4>2, <4>3, Sizes DEF Slot
    <3>4. s < w
      BY <1>8, <3>2, <3>3 DEF Guarded, Down
    <3>5. s \notin Ups(L)
      <4> SUFFICES ASSUME s \in Ups(L) PROVE FALSE
        OBVIOUS
      <4>1. l < Len(L.ci) /\ L.ci[l + 1].base <= s
        BY <2>1, <3>2, <3>3 DEF FloorOK
      <4>2. l + 1 \in 1 .. Len(L.ci) /\ l + 1 \in l + 1 .. Len(L.ci)
        BY <1>2, <1>3, <4>1
      <4>3. Floor(e) <= L.ci[l + 1].func
        BY <2>1, <4>2 DEF FloorOK
      <4>4. L.ci[l + 1].func < L.ci[l + 1].base /\ L.ci[l + 1].func \in Nat
            /\ L.ci[l + 1].base \in Nat
        BY <4>2, MemFacts
      <4> DEFINE low == L.ci[l + 1].func
                 bottom == L.ci[l + 1].base
                 lim == Floor(e)
      <4>5. lim \in Nat /\ s \in Int /\ s < lim
        BY <3>2, <3>3, Sizes
      <4>6. low \in Nat /\ bottom \in Nat /\ low < bottom /\ bottom <= s /\ lim <= low
        BY <4>1, <4>3, <4>4
      <4> HIDE DEF l, s, low, bottom, lim
      <4> QED
        BY <4>5, <4>6
    <3>6. M.stk[s] = L.stk[s]
      BY <3>3, <3>4, <3>5 DEF Down
    <3>7. e.keep[i] = L.stk[s]
      BY <2>1 DEF PcallRec
    <3> QED
      BY <3>6, <3>7
  <2> QED
    BY <2>1, <2>2 DEF PcallRec
<1>9. ASSUME e.k \in Meta PROVE MetaRec(M, e)
  <2>1. MetaRec(L, e)
    BY <1>9 DEF RecOK
  <2>2. M.ci[l] = L.ci[l]
    BY <1>1, <1>3, <1>9 DEF Meta
  <2> QED
    BY <2>1, <2>2 DEF MetaRec
<1>10. ASSUME e.k # "hook", e.ci < ups
       PROVE  e.ci + 1 \in 1 .. Len(M.ci) /\ EnteredOK(M, e)
  <2>1. e.ci < up
    BY <1>1, <1>2, <1>3, <1>10
  <2>2. l + 1 \in 1 .. Len(L.ci) /\ EnteredOK(L, e)
    BY <1>10, <2>1 DEF RecOK
  <2>3. l < m
    BY <1>1, <1>3, <1>10
  <2>4. l + 1 \in 1 .. m /\ M.ci[l] = L.ci[l] /\ SameFrame(M.ci[l + 1], L.ci[l + 1])
    BY <1>1, <1>3, <2>3
  <2> QED
    BY <1>1, <2>2, <2>4 DEF EnteredOK, SameFrame
<1> QED
  BY <1>1, <1>3, <1>6, <1>7, <1>8, <1>9, <1>10 DEF RecOK

(* The activations of thread t use slots below w, and leave its m-th frame *)
(* to the function that runs; hooks may run only where they are off.       *)
Steady(M, L, C, t, m, w) ==
  /\ Above(C, t, w)
  /\ \A i \in 1 .. Len(C) : C[i].t = t =>
       /\ C[i].ci <= m
       /\ C[i].ci = m => M.ci[m] = L.ci[m]
                         \/ (C[i].k = "hook" /\ M.ci[m].open = L.ci[m].open)
       /\ C[i].k = "hook" => ~M.allowhook

(* The same with the activations that run the thread.                      *)
LEMMA DownThread ==
  ASSUME NEW C, IsSeq(C), NEW t, NEW L, ThreadOK(L, C, t), NEW M, NEW m, NEW w,
         Down(M, L, m, w), Steady(M, L, C, t, m, w)
  PROVE  ThreadOK(M, C, t)
<1>1. Mem(L) /\ Mem(M) /\ Len(C) \in Nat
  BY DownMem DEF ThreadOK, IsSeq
<1>2. /\ m \in Nat /\ 1 <= m /\ m <= Len(L.ci) /\ Len(M.ci) = m
      /\ \A j \in 1 .. m : SameFrame(M.ci[j], L.ci[j])
  BY <1>1, DownFrames
<1>3. ASSUME NEW i \in 1 .. Len(C), C[i].t = t PROVE RecIn(M, C, i)
  <2> DEFINE e == C[i]
             up == Until(L, C, i)
             ups == Until(M, C, i)
  <2>1. RecIn(L, C, i)
    BY <1>3 DEF ThreadOK
  <2>2. RecOK(L, e, up) /\ e.ci \in 1 .. Len(L.ci)
    BY <2>1 DEF RecIn, RecOK
  <2>3. ups \in Int /\ ups <= m /\ (ups = up \/ (ups = m /\ up = Len(L.ci)))
    <3>1. CASE i < Len(C) /\ C[i + 1].t = C[i].t
      <4>1. i + 1 \in 1 .. Len(C) /\ ups = C[i + 1].ci /\ up = C[i + 1].ci
        BY <1>1, <3>1 DEF Until
      <4>2. RecIn(L, C, i + 1)
        BY <1>3, <3>1, <4>1 DEF ThreadOK
      <4>3. C[i + 1].ci \in 1 .. Len(L.ci)
        BY <4>2 DEF RecIn, RecOK
      <4> QED
        BY <1>3, <3>1, <4>1, <4>3 DEF Steady
    <3>2. CASE ~(i < Len(C) /\ C[i + 1].t = C[i].t)
      BY <1>2, <3>2 DEF Until
    <3> QED
      BY <3>1, <3>2
  <2>4. /\ e.ci <= m /\ (Guarded(e) => Floor(e) <= w)
        /\ e.ci = m => M.ci[m] = L.ci[m] \/ (e.k = "hook" /\ M.ci[m].open = L.ci[m].open)
    BY <1>3 DEF Steady, Above
  <2> HIDE DEF ups, up, e
  <2>5. RecOK(M, e, ups)
    BY <1>1, <2>2, <2>3, <2>4, DownRec
  <2>6. e.k = "hook" => ~M.allowhook
    BY <1>3 DEF Steady, e
  <2>7. e.ci \in 1 .. m
    BY <1>2, <2>2, <2>4 DEF e
  <2>8. M.ci[e.ci].lua = L.ci[e.ci].lua
    BY <1>2, <2>7 DEF SameFrame
  <2>9. e.k \in {"call", "pcall"} =>
          ~M.ci[e.ci].lua \/ (i > 1 /\ C[i - 1].k = "hook")
    BY <2>1, <2>8 DEF RecIn, e
  <2> QED
    BY <2>5, <2>6, <2>9 DEF RecIn, e, ups
<1> QED
  BY <1>1, <1>3 DEF ThreadOK

(* Open upvalues lie below the top, and below a C function.                *)
LEMMA UpsBelow ==
  ASSUME NEW L, Mem(L)
  PROVE  /\ UpFree(L, L.top) /\ Ups(L) \subseteq Nat
         /\ (~Top(L).lua \/ UpFree(L, Top(L).base)) => UpFree(L, Top(L).func)
         /\ Top(L).lua => \A u \in Ups(L) : u < Top(L).func \/ Top(L).base <= u
<1>1. /\ Len(L.ci) \in Nat /\ Len(L.ci) >= 1 /\ Len(L.ci) \in 1 .. Len(L.ci)
      /\ Ups(L) \subseteq Nat /\ Top(L).func \in Nat /\ Top(L).base \in Nat
      /\ Top(L).top \in Nat /\ L.top \in Nat
      /\ Top(L).base <= L.top /\ Top(L).func < Top(L).base /\ Top(L).base <= Top(L).top
  <2>1. Len(L.ci) \in Nat /\ Len(L.ci) >= 1 /\ Ups(L) \subseteq Nat /\ L.top \in Nat
        /\ Top(L).base <= L.top
    BY MemFacts, Sizes
  <2>2. Len(L.ci) \in 1 .. Len(L.ci)
    BY <2>1
  <2> QED
    BY <2>1, <2>2, MemFacts DEF Top
<1>2. ASSUME NEW u \in Ups(L)
      PROVE  u < Top(L).func \/ (Top(L).lua /\ Top(L).base <= u /\ u < L.top /\ u < Top(L).top)
  <2>1. PICK j \in 1 .. Len(L.ci) : Owns(L, j, u)
    BY DEF Mem, Owned
  <2>2. CASE j = Len(L.ci)
    BY <2>1, <2>2 DEF Owns, Top
  <2>3. CASE j < Len(L.ci)
    <3>1. j + 1 \in 1 .. Len(L.ci) /\ u < L.ci[j + 1].func /\ u \in Nat
      BY <1>1, <2>1, <2>3 DEF Owns
    <3>2. L.ci[j + 1].func \in Nat /\ L.ci[j + 1].base \in Nat
          /\ L.ci[j + 1].func < L.ci[j + 1].base
      BY <3>1, MemFacts
    <3>3. CASE j + 1 = Len(L.ci)
      BY <3>1, <3>3 DEF Top
    <3>4. CASE j + 1 < Len(L.ci)
      <4>1. L.ci[j + 1].base <= Top(L).func
        BY <1>1, <3>1, <3>4, FramesNested DEF Top
      <4> QED
        BY <1>1, <3>1, <3>2, <4>1
    <3> QED
      BY <1>1, <3>1, <3>3, <3>4
  <2> QED
    BY <1>1, <2>2, <2>3
<1>3. ASSUME NEW u \in Ups(L) PROVE u < L.top /\ u \in Nat
  BY <1>1, <1>2, <1>3
<1>4. ASSUME ~Top(L).lua \/ UpFree(L, Top(L).base), NEW u \in Ups(L)
      PROVE  u < Top(L).func
  BY <1>1, <1>2, <1>4 DEF UpFree
<1> QED
  BY <1>1, <1>2, <1>3, <1>4 DEF UpFree

(* A frame has the func, base and kind that it has.                        *)
LEMMA SameFrameRefl == \A f : SameFrame(f, f)
BY DEF SameFrame

(* Slots from w on are written, and the top moves.                         *)
LEMMA EditThread ==
  ASSUME NEW C, IsSeq(C), NEW t, NEW L, ThreadOK(L, C, t), NEW M, NEW w \in Int,
         Edit(M, L, w), Top(L).base <= w, M.top <= Slots, UpFree(L, M.top),
         Above(C, t, w)
  PROVE  ThreadOK(M, C, t) /\ Top(M) = Top(L)
<1>1. Mem(L)
  BY DEF ThreadOK
<1> DEFINE n == Len(L.ci)
<1>2. n \in 1 .. n /\ n \in Nat /\ L.ci \in Seq(FrameType) /\ L.ci[n] = Top(L)
      /\ Top(L).base <= Top(L).top /\ Top(L).top \in Nat
  BY <1>1, MemFacts DEF Top, Mem, Nested
<1>3. /\ DOMAIN M = Fields /\ M.ci = L.ci /\ M.base = L.base
      /\ M.openupval = L.openupval /\ M.status = L.status
      /\ M.errfunc = L.errfunc /\ M.allowhook = L.allowhook
  BY DEF Edit, Kept
<1>4. /\ M.stk \in [Slot -> Value] /\ M.top \in Int /\ w <= M.top /\ NilAbove(M)
      /\ \A i \in Slot : i < w => M.stk[i] = L.stk[i]
  BY DEF Edit, Over
<1>5. /\ Sorted(L.openupval) /\ L.errfunc \in 0 .. Slots
      /\ L.base \in 2 .. Slots /\ (L.status # "yield" => L.base = L.ci[n].base)
      /\ L.status = "yield" => n >= 2 /\ L.ci[2].nresults = -1
  BY <1>1 DEF Mem, WindowOK
<1>6. Ups(M) = Ups(L) /\ UpFree(M, M.top)
  BY <1>3 DEF Ups, UpFree
<1>7. Down(M, L, n, w)
  BY <1>2, <1>3, <1>4, <1>5, <1>6, SameFrameRefl DEF Down
<1>8. Steady(M, L, C, t, n, w)
  <2> SUFFICES ASSUME NEW i \in 1 .. Len(C), C[i].t = t
               PROVE  C[i].ci <= n /\ (C[i].k = "hook" => ~M.allowhook)
    BY <1>3 DEF Steady
  <2>1. RecIn(L, C, i)
    BY DEF ThreadOK
  <2> QED
    BY <1>2, <1>3, <2>1 DEF RecIn, RecOK
<1>9. ThreadOK(M, C, t)
  BY <1>7, <1>8, DownThread
<1> QED
  BY <1>3, <1>9 DEF Top

(* Nothing that concerns the stack changes.                                *)
LEMMA SettingsThread ==
  ASSUME NEW C, NEW t, NEW L, ThreadOK(L, C, t), NEW M, DOMAIN M = Fields,
         M.stk = L.stk, M.top = L.top, M.ci = L.ci, M.openupval = L.openupval,
         M.base = L.base, M.status = L.status, M.errfunc \in 0 .. Slots,
         \A i \in 1 .. Len(C) : (C[i].t = t /\ C[i].k = "hook") => ~M.allowhook
  PROVE  ThreadOK(M, C, t) /\ Top(M) = Top(L)
<1>1. Mem(M)
  <2>1. Ups(M) = Ups(L)
    BY DEF Ups
  <2> QED
    BY <2>1 DEF ThreadOK, Mem, WindowOK, NilAbove, Owned, Owns
<1>2. ASSUME NEW i \in 1 .. Len(C), C[i].t = t PROVE RecIn(M, C, i)
  <2>1. RecIn(L, C, i)
    BY <1>2 DEF ThreadOK
  <2>2. Until(M, C, i) = Until(L, C, i)
    BY DEF Until
  <2>3. RecOK(L, C[i], Until(L, C, i))
    BY <2>1 DEF RecIn
  <2>4. RecOK(M, C[i], Until(M, C, i))
    BY <2>2, <2>3 DEF RecOK, FloorOK, HookRec, PcallRec, MetaRec, EnteredOK, Ups
  <2> QED
    BY <1>2, <2>1, <2>4 DEF RecIn
<1> QED
  BY <1>1, <1>2 DEF ThreadOK, Top

(* Activations at the frame on top are hooks.                              *)
Settled(L, C, t) ==
  \A i \in 1 .. Len(C) : (C[i].t = t /\ C[i].ci = Len(L.ci)) => C[i].k = "hook"

(* Changing the innermost frame changes nothing else.                      *)
LEMMA SetFrameFacts ==
  ASSUME NEW L, Mem(L), NEW f \in FrameType
  PROVE  LET M == SetFrame(L, f)
         IN /\ DOMAIN M = Fields /\ M.ci \in Seq(FrameType) /\ Len(M.ci) = Len(L.ci)
            /\ \A j \in 1 .. Len(L.ci) - 1 : M.ci[j] = L.ci[j]
            /\ M.ci[Len(L.ci)] = f /\ Top(M) = f
            /\ M.stk = L.stk /\ M.top = L.top /\ M.openupval = L.openupval
            /\ M.base = L.base /\ M.status = L.status /\ M.errfunc = L.errfunc
            /\ M.allowhook = L.allowhook
<1> DEFINE z == [L.ci EXCEPT ![Len(L.ci)] = f]
           n == Len(L.ci)
<1>1. DOMAIN L = Fields /\ L.ci \in Seq(FrameType) /\ n \in Nat /\ n \in 1 .. n
  BY MemFacts DEF Mem, Nested
<1>2. /\ z \in Seq(FrameType) /\ Len(z) = n
      /\ \A j \in 1 .. n : z[j] = IF j = n THEN f ELSE L.ci[j]
  BY <1>1, ExceptSeq
<1> HIDE DEF z, n
<1>3. \A j \in 1 .. n - 1 : z[j] = L.ci[j]
  BY <1>1, <1>2
<1>4. z[n] = f
  BY <1>1, <1>2
<1>5. SetFrame(L, f) = [L EXCEPT !.ci = z]
  BY DEF SetFrame, z
<1> QED
  BY <1>1, <1>2, <1>3, <1>4, <1>5 DEF n, Top, Fields

(* The frame on top gets another top, or waits for results.                *)
LEMMA FrameThread ==
  ASSUME NEW C, IsSeq(C), NEW t, NEW L, ThreadOK(L, C, t), NEW f \in FrameType,
         SameFrame(f, Top(L)), f.base <= f.top, Settled(L, C, t),
         f.open = Top(L).open \/ \A i \in 1 .. Len(C) : C[i].t = t => C[i].ci < Len(L.ci),
         f.top >= Top(L).top \/ UpFree(L, f.top)
  PROVE  ThreadOK(SetFrame(L, f), C, t) /\ Top(SetFrame(L, f)) = f
<1> DEFINE M == SetFrame(L, f)
           n == Len(L.ci)
<1>1. Mem(L)
  BY DEF ThreadOK
<1>2. n \in 1 .. n /\ n \in Nat /\ L.ci[n] = Top(L) /\ L.top \in Nat /\ L.top <= Slots
      /\ Top(L).base <= L.top /\ Top(L).base \in Nat
  BY <1>1, MemFacts DEF Top
<1>3. /\ DOMAIN M = Fields /\ M.ci \in Seq(FrameType) /\ Len(M.ci) = n
      /\ \A j \in 1 .. n - 1 : M.ci[j] = L.ci[j]
      /\ M.ci[n] = f /\ Top(M) = f
      /\ M.stk = L.stk /\ M.top = L.top /\ M.openupval = L.openupval
      /\ M.base = L.base /\ M.status = L.status /\ M.errfunc = L.errfunc
      /\ M.allowhook = L.allowhook
  BY <1>1, SetFrameFacts
<1> HIDE DEF M
<1>4. /\ L.stk \in [Slot -> Value] /\ NilAbove(L) /\ Sorted(L.openupval)
      /\ L.errfunc \in 0 .. Slots /\ L.base \in 2 .. Slots
      /\ (L.status # "yield" => L.base = L.ci[n].base)
      /\ L.status = "yield" => n >= 2 /\ L.ci[2].nresults = -1
  BY <1>1 DEF Mem, WindowOK
<1>5. Ups(M) = Ups(L) /\ UpFree(L, L.top)
  BY <1>1, <1>3, UpsBelow DEF Ups
<1> HIDE DEF n
<1>6. M.status = "yield" => n >= 2 /\ M.ci[2].nresults = -1
  <2>1. CASE n = 2
    <3>1. f.nresults = L.ci[n].nresults
      BY <1>2 DEF SameFrame
    <3> QED
      BY <1>3, <1>4, <2>1, <3>1
  <2>2. CASE n > 2
    <3>1. 2 \in 1 .. n - 1
      BY <1>2, <2>2
    <3> QED
      BY <1>3, <1>4, <2>2, <3>1
  <2> QED
    BY <1>2, <1>3, <1>4, <2>1, <2>2
<1>7. Down(M, L, n, L.top)
  <2>1. UpFree(M, M.top) /\ (f.top >= Top(L).top \/ UpFree(M, f.top))
    BY <1>3, <1>5 DEF UpFree
  <2>2. NilAbove(M)
    BY <1>3, <1>4 DEF NilAbove
  <2>3. L.top \in Int /\ Top(L).base <= L.top /\ L.top <= L.top
    BY <1>2
  <2>4. \A i \in Slot : M.stk[i] = L.stk[i]
    BY <1>3
  <2>5. n \in 1 .. Len(L.ci) /\ ~(n < Len(L.ci))
    BY <1>2 DEF n
  <2>6. L.top \in Int /\ M.top <= Slots /\ Ups(M) \subseteq Ups(L)
    BY <1>2, <1>3, <1>5
  <2> QED
    BY <1>2, <1>3, <1>4, <1>6, <2>1, <2>2, <2>3, <2>4, <2>5, <2>6 DEF Down
<1>8. Steady(M, L, C, t, n, L.top)
  <2>1. ASSUME NEW i \in 1 .. Len(C), C[i].t = t
        PROVE  /\ C[i].ci <= n
               /\ C[i].ci = n => C[i].k = "hook" /\ f.open = Top(L).open
               /\ C[i].k = "hook" => ~M.allowhook
               /\ Guarded(C[i]) => Floor(C[i]) <= L.top
    <3>1. RecIn(L, C, i)
      BY <2>1 DEF ThreadOK
    <3>2. RecOK(L, C[i], Until(L, C, i)) /\ C[i].ci \in 1 .. n
          /\ (C[i].k = "hook" => ~L.allowhook)
      BY <3>1 DEF RecIn, RecOK, n
    <3>3. C[i].ci = n => C[i].k = "hook" /\ ~(C[i].ci < Len(L.ci))
      BY <1>2, <2>1 DEF Settled, n
    <3>4. C[i].ci <= n
      BY <1>2, <3>2
    <3>5. Guarded(C[i]) => Floor(C[i]) <= L.top
      BY <3>2 DEF RecOK, FloorOK
    <3> QED
      BY <1>3, <2>1, <3>2, <3>3, <3>4, <3>5
  <2> QED
    BY <1>2, <1>3, <2>1 DEF Steady, Above
<1>9. ThreadOK(M, C, t)
  BY <1>7, <1>8, DownThread
<1> QED
  BY <1>3, <1>9 DEF M

-----------------------------------------------------------------------------
(* Open upvalues                                                           *)

(* The list is sorted: the slots from `level' on are at its front.         *)
LEMMA HigherPrefix ==
  ASSUME NEW uv, Sorted(uv), NEW level \in Int
  PROVE  \E h \in 0 .. Len(uv) :
           /\ \A i \in 1 .. Len(uv) : uv[i] >= level <=> i <= h
           /\ {i \in 1 .. Len(uv) : uv[i] >= level} = 1 .. h
           /\ Cardinality(1 .. h) = h
<1> DEFINE n == Len(uv)
           B == {i \in 1 .. n : uv[i] < level}
<1>0. uv \in Seq(Slot)
  BY DEF Sorted
<1>1. n \in Nat /\ \A i \in 1 .. n : uv[i] \in Nat
  <2>1. n \in Nat /\ \A i \in 1 .. n : uv[i] \in Slot
    BY <1>0
  <2> QED
    BY <2>1, Sizes
<1>2. \A i, j \in 1 .. n : i < j => uv[i] > uv[j]
  BY DEF Sorted
<1> HIDE DEF n
<1>3. \E h \in 0 .. n : \A i \in 1 .. n : uv[i] >= level <=> i <= h
  <2>1. CASE B = {}
    <3>1. \A i \in 1 .. n : uv[i] >= level <=> i <= n
      BY <1>1, <2>1
    <3> QED
      BY <1>1, <3>1
  <2>2. CASE B # {}
    <3>1. B \in SUBSET Nat
      BY <1>1
    <3>2. PICK k \in B : \A i \in B : k <= i
      BY <2>2, <3>1, LeastNatural
    <3>3. k \in 1 .. n /\ uv[k] < level /\ k - 1 \in 0 .. n
      BY <1>1, <3>2
    <3>4. ASSUME NEW i \in 1 .. n PROVE uv[i] >= level <=> i <= k - 1
      <4>1. CASE i < k
        <5>1. i \notin B
          BY <1>1, <3>2, <3>3, <4>1
        <5> QED
          BY <1>1, <3>3, <4>1, <5>1
      <4>2. CASE i = k
        BY <1>1, <3>3, <4>2
      <4>3. CASE i > k
        BY <1>1, <1>2, <3>3, <4>3
      <4> QED
        BY <3>3, <4>1, <4>2, <4>3
    <3> QED
      BY <3>3, <3>4
  <2> QED
    BY <2>1, <2>2
<1>4. PICK h \in 0 .. n : \A i \in 1 .. n : uv[i] >= level <=> i <= h
  BY <1>3
<1>5. {i \in 1 .. n : uv[i] >= level} = 1 .. h
  BY <1>1, <1>4
<1>6. Cardinality(1 .. h) = h
  <2>1. h \in Nat /\ 1 \in Int /\ h \in Int
    BY <1>1
  <2>2. Cardinality(1 .. h) = IF 1 > h THEN 0 ELSE h - 1 + 1
    BY <2>1, FS_Interval
  <2> QED
    BY <2>1, <2>2
<1> QED
  BY <1>4, <1>5, <1>6 DEF n

(* luaF_close closes the upvalues from level on and nothing else.          *)
LEMMA CloseFacts ==
  ASSUME NEW L, DOMAIN L = Fields, Sorted(L.openupval), NEW level \in Int
  PROVE  LET M == luaF_close(L, level)
         IN /\ Sorted(M.openupval) /\ Ups(M) \subseteq Ups(L) /\ UpFree(M, level)
            /\ DOMAIN M = Fields /\ M.stk = L.stk /\ M.top = L.top /\ M.base = L.base
            /\ M.ci = L.ci /\ M.status = L.status /\ M.errfunc = L.errfunc
            /\ M.allowhook = L.allowhook
<1> DEFINE uv == L.openupval
           n == Len(uv)
           P == {i \in 1 .. n : \A j \in 1 .. i : uv[j] >= level}
           c == Cardinality(P)
           z == SubSeq(uv, c + 1, n)
           M == luaF_close(L, level)
<1>0. uv \in Seq(Slot)
  BY DEF Sorted
<1>1. n \in Nat /\ \A i \in 1 .. n : uv[i] \in Slot /\ uv[i] \in Nat
  <2>1. n \in Nat /\ \A i \in 1 .. n : uv[i] \in Slot
    BY <1>0
  <2> QED
    BY <2>1, Sizes
<1>2. M = [L EXCEPT !.openupval = z]
  BY DEF luaF_close
<1>3. PICK h \in 0 .. n : /\ \A i \in 1 .. n : uv[i] >= level <=> i <= h
                          /\ {i \in 1 .. n : uv[i] >= level} = 1 .. h
                          /\ Cardinality(1 .. h) = h
  BY HigherPrefix
<1>4. P = 1 .. h
  <2>1. ASSUME NEW i \in 1 .. n
        PROVE  (\A j \in 1 .. i : uv[j] >= level) <=> i <= h
    <3>1. i \in 1 .. i /\ 1 .. i \subseteq 1 .. n
      BY <1>1
    <3>2. \A j \in 1 .. i : j <= i
      OBVIOUS
    <3>3. ASSUME i <= h, NEW j \in 1 .. i PROVE uv[j] >= level
      BY <1>1, <1>3, <3>1, <3>3
    <3> QED
      BY <1>3, <3>1, <3>3
  <2> QED
    BY <1>1, <1>3, <2>1
<1>5. c = h
  BY <1>3, <1>4
<1> HIDE DEF P, c
<1>6. /\ z \in Seq(Slot) /\ Len(z) = n - h
      /\ \A i \in 1 .. n - h : z[i] = uv[h + i]
  <2>1. h + 1 \in Int /\ n \in Int /\ \A i \in h + 1 .. n : uv[i] \in Slot
    BY <1>1
  <2>2. /\ z \in Seq(Slot) /\ Len(z) = IF h + 1 <= n THEN n - (h + 1) + 1 ELSE 0
        /\ \A i \in 1 .. n - (h + 1) + 1 : z[i] = uv[h + 1 + i - 1]
    BY <1>5, <2>1, SubSeqProperties
  <2>3. Len(z) = n - h
    BY <1>1, <2>2
  <2>4. ASSUME NEW i \in 1 .. n - h PROVE z[i] = uv[h + i]
    <3>1. i \in 1 .. n - (h + 1) + 1 /\ h + 1 + i - 1 = h + i
      BY <1>1
    <3> QED
      BY <2>2, <3>1
  <2> QED
    BY <2>2, <2>3, <2>4
<1> HIDE DEF z
<1>7. \A i \in 1 .. n - h : h + i \in 1 .. n /\ ~(h + i <= h)
  BY <1>1
<1>8. Sorted(z)
  <2>1. ASSUME NEW i \in 1 .. Len(z), NEW j \in 1 .. Len(z), i < j PROVE z[i] > z[j]
    <3>1. h + i < h + j /\ h + i \in 1 .. n /\ h + j \in 1 .. n
      BY <1>1, <1>6, <1>7, <2>1
    <3>2. uv[h + i] > uv[h + j]
      BY <3>1 DEF Sorted
    <3>3. z[i] = uv[h + i] /\ z[j] = uv[h + j]
      <4>1. i \in 1 .. n - h /\ j \in 1 .. n - h
        BY <1>6
      <4> QED
        BY <1>6, <4>1
    <3> QED
      BY <3>2, <3>3
  <2> QED
    BY <1>6, <2>1 DEF Sorted
<1>9. ASSUME NEW i \in 1 .. n - h PROVE z[i] \in Ups(L) /\ z[i] < level
  <2>1. h + i \in 1 .. n /\ ~(h + i <= h) /\ z[i] = uv[h + i]
    BY <1>6, <1>7
  <2>2. uv[h + i] < level
    BY <1>1, <1>3, <2>1
  <2> QED
    BY <2>1, <2>2 DEF Ups
<1>10. M.openupval = z /\ Ups(M) \subseteq Ups(L) /\ UpFree(M, level)
  BY <1>2, <1>6, <1>9 DEF Ups, UpFree, Fields
<1> QED
  BY <1>2, <1>8, <1>10 DEF Fields

(* The elements of a sequence with one more in the middle.                 *)
LEMMA InsertAtFacts ==
  ASSUME NEW S, NEW s \in Seq(S), NEW e \in S, NEW h \in 0 .. Len(s),
         NEW k, k = h + 1
  PROVE  LET z == InsertAt(s, k, e)
         IN /\ z \in Seq(S) /\ Len(z) = Len(s) + 1
            /\ \A i \in 1 .. Len(s) + 1 :
                 z[i] = IF i <= h THEN s[i] ELSE IF i = h + 1 THEN e ELSE s[i - 1]
<1> DEFINE n == Len(s)
           a == SubSeq(s, 1, h)
           b == SubSeq(s, h + 1, n)
           c == <<e>>
           d == a \o c
           z == InsertAt(s, k, e)
<1>1. n \in Nat /\ \A i \in 1 .. n : s[i] \in S
  OBVIOUS
<1>2. h \in Nat /\ h <= n
  BY <1>1
<1>3. z = d \o b
  <2>1. z = SubSeq(s, 1, k - 1) \o <<e>> \o SubSeq(s, k, Len(s))
    BY DEF InsertAt
  <2>2. k - 1 = h /\ k = h + 1
    BY <1>2
  <2> QED
    BY <2>1, <2>2
<1> HIDE DEF n
<1>4. a \in Seq(S) /\ Len(a) = h /\ \A i \in 1 .. h : a[i] = s[i]
  <2>1. \A i \in 1 .. h : s[i] \in S
    BY <1>1, <1>2
  <2>2. 1 \in Int /\ h \in Int
    BY <1>2
  <2>3. /\ a \in Seq(S) /\ Len(a) = IF 1 <= h THEN h - 1 + 1 ELSE 0
        /\ \A i \in 1 .. h - 1 + 1 : a[i] = s[1 + i - 1]
    BY <2>1, <2>2, SubSeqProperties
  <2> QED
    BY <1>2, <2>3
<1>5. /\ b \in Seq(S) /\ Len(b) = n - h
      /\ \A i \in 1 .. n - h : b[i] = s[h + i]
  <2>1. h + 1 \in Int /\ n \in Int /\ \A i \in h + 1 .. n : s[i] \in S
    BY <1>1, <1>2
  <2>2. /\ b \in Seq(S) /\ Len(b) = IF h + 1 <= n THEN n - (h + 1) + 1 ELSE 0
        /\ \A i \in 1 .. n - (h + 1) + 1 : b[i] = s[h + 1 + i - 1]
    BY <2>1, SubSeqProperties
  <2>3. Len(b) = n - h
    BY <1>1, <1>2, <2>2
  <2>4. ASSUME NEW i \in 1 .. n - h PROVE b[i] = s[h + i]
    <3>1. i \in 1 .. n - (h + 1) + 1 /\ h + 1 + i - 1 = h + i
      BY <1>1, <1>2
    <3> QED
      BY <2>2, <3>1
  <2> QED
    BY <2>2, <2>3, <2>4
<1>6. c \in Seq(S) /\ Len(c) = 1 /\ c[1] = e
  OBVIOUS
<1> HIDE DEF a, b, c
<1>7. /\ d \in Seq(S) /\ Len(d) = h + 1
      /\ \A i \in 1 .. h : d[i] = s[i]
      /\ d[h + 1] = e
  <2>1. /\ d \in Seq(S) /\ Len(d) = Len(a) + Len(c)
        /\ \A i \in 1 .. Len(a) + Len(c) : d[i] = IF i <= Len(a) THEN a[i] ELSE c[i - Len(a)]
    BY <1>4, <1>6, ConcatProperties
  <2>2. h + 1 \in 1 .. h + 1 /\ ~(h + 1 <= h) /\ h + 1 - h = 1
    BY <1>2
  <2>3. \A i \in 1 .. h : i \in 1 .. h + 1 /\ i <= h
    BY <1>2
  <2> HIDE DEF d
  <2> QED
    BY <1>4, <1>6, <2>1, <2>2, <2>3
<1> HIDE DEF d, z
<1>8. /\ z \in Seq(S) /\ Len(z) = Len(d) + Len(b)
      /\ \A i \in 1 .. Len(d) + Len(b) : z[i] = IF i <= Len(d) THEN d[i] ELSE b[i - Len(d)]
  <2>1. /\ d \o b \in Seq(S) /\ Len(d \o b) = Len(d) + Len(b)
        /\ \A i \in 1 .. Len(d) + Len(b) :
             (d \o b)[i] = IF i <= Len(d) THEN d[i] ELSE b[i - Len(d)]
    BY <1>5, <1>7, ConcatProperties
  <2> QED
    BY <1>3, <2>1
<1>9. Len(d) + Len(b) = n + 1
  BY <1>1, <1>2, <1>5, <1>7
<1>10. ASSUME NEW i \in 1 .. n + 1
       PROVE  z[i] = IF i <= h THEN s[i] ELSE IF i = h + 1 THEN e ELSE s[i - 1]
  <2>1. CASE i <= h
    <3>1. i \in 1 .. h /\ i <= h + 1
      BY <1>1, <1>2, <2>1
    <3> QED
      BY <1>7, <1>8, <1>9, <2>1, <3>1
  <2>2. CASE i = h + 1
    <3>1. ~(i <= h) /\ i <= h + 1
      BY <1>1, <1>2, <2>2
    <3> QED
      BY <1>7, <1>8, <1>9, <2>2, <3>1
  <2>3. CASE i > h + 1
    <3>1. i - (h + 1) \in 1 .. n - h /\ ~(i <= h + 1) /\ ~(i <= h) /\ i # h + 1
          /\ h + (i - (h + 1)) = i - 1
      BY <1>1, <1>2, <2>3
    <3>2. z[i] = b[i - (h + 1)]
      BY <1>7, <1>8, <1>9, <3>1
    <3> QED
      BY <1>5, <3>1, <3>2
  <2> QED
    BY <1>1, <1>2, <2>1, <2>2, <2>3
<1> QED
  BY <1>8, <1>9, <1>10 DEF n, z

(* luaF_findupval keeps the open upvalues sorted, with level among them.   *)
LEMMA FindFacts ==
  ASSUME NEW L, DOMAIN L = Fields, Sorted(L.openupval), NEW level \in Slot
  PROVE  LET M == luaF_findupval(L, level)
         IN /\ Sorted(M.openupval) /\ Ups(M) = Ups(L) \cup {level}
            /\ DOMAIN M = Fields /\ M.stk = L.stk /\ M.top = L.top /\ M.base = L.base
            /\ M.ci = L.ci /\ M.status = L.status /\ M.errfunc = L.errfunc
            /\ M.allowhook = L.allowhook
<1> DEFINE uv == L.openupval
           n == Len(uv)
           c == Cardinality({i \in 1 .. n : uv[i] > level})
           z == InsertAt(uv, c + 1, level)
           M == luaF_findupval(L, level)
<1>0. uv \in Seq(Slot)
  BY DEF Sorted
<1>1. n \in Nat /\ level \in Nat /\ \A i \in 1 .. n : uv[i] \in Slot /\ uv[i] \in Nat
  <2>1. n \in Nat /\ \A i \in 1 .. n : uv[i] \in Slot
    BY <1>0
  <2> QED
    BY <2>1, Sizes
<1>2. CASE Contains(uv, level)
  <2>1. M = L
    BY <1>2 DEF luaF_findupval
  <2>2. level \in Ups(L)
    BY <1>2 DEF Contains, Ups
  <2> QED
    BY <2>1, <2>2
<1>3. CASE ~Contains(uv, level)
  <2>1. M = [L EXCEPT !.openupval = z]
    BY <1>3 DEF luaF_findupval
  <2>2. level + 1 \in Int
    BY <1>1
  <2>3. PICK h \in 0 .. n : /\ \A i \in 1 .. n : uv[i] >= level + 1 <=> i <= h
                            /\ {i \in 1 .. n : uv[i] >= level + 1} = 1 .. h
                            /\ Cardinality(1 .. h) = h
    BY <2>2, HigherPrefix
  <2>4. c = h
    <3>1. {i \in 1 .. n : uv[i] > level} = {i \in 1 .. n : uv[i] >= level + 1}
      BY <1>1
    <3> QED
      BY <2>3, <3>1
  <2>5. \A i \in 1 .. n : i > h => uv[i] < level
    BY <1>1, <1>3, <2>3 DEF Contains
  <2> HIDE DEF c
  <2>10. /\ z \in Seq(Slot) /\ Len(z) = n + 1
         /\ \A i \in 1 .. n + 1 : z[i] = IF i <= h THEN uv[i]
                                        ELSE IF i = h + 1 THEN level ELSE uv[i - 1]
    <3> DEFINE k == h + 1
    <3>0. k = h + 1
      OBVIOUS
    <3> HIDE DEF k
    <3> DEFINE y == InsertAt(uv, k, level)
    <3>1. z = y
      BY <2>4, <3>0
    <3>2. /\ y \in Seq(Slot) /\ Len(y) = n + 1
          /\ \A i \in 1 .. n + 1 : y[i] = IF i <= h THEN uv[i]
                                         ELSE IF i = h + 1 THEN level ELSE uv[i - 1]
      <4> HIDE DEF uv
      <4>1. h \in 0 .. Len(uv) /\ level \in Slot
        OBVIOUS
      <4> QED
        BY <1>0, <3>0, <4>1, InsertAtFacts, SMTT(60)
    <3> HIDE DEF y, z
    <3> QED
      BY <3>1, <3>2
  <2> HIDE DEF z
  <2>11. Sorted(z)
    <3> SUFFICES ASSUME NEW i \in 1 .. n + 1, NEW j \in 1 .. n + 1, i < j
                 PROVE  z[i] > z[j]
      BY <2>10 DEF Sorted
    <3>1. \A k, l \in 1 .. n : k < l => uv[k] > uv[l]
      BY DEF Sorted
    <3> HIDE DEF n, uv
    <3>2. CASE j <= h
      <4>1. i <= h /\ i \in 1 .. n /\ j \in 1 .. n
        BY <1>1, <3>2
      <4> QED
        BY <2>10, <3>1, <3>2, <4>1
    <3>3. CASE j = h + 1
      <4>1. i <= h /\ i \in 1 .. n /\ ~(j <= h)
        BY <1>1, <3>3
      <4>2. uv[i] >= level + 1
        BY <2>3, <4>1 DEF n, uv
      <4> QED
        BY <1>1, <2>10, <3>3, <4>1, <4>2
    <3>4. CASE j > h + 1
      <4>1. j - 1 \in 1 .. n /\ j - 1 > h /\ ~(j <= h) /\ j # h + 1
        BY <1>1, <3>4
      <4>2. z[j] = uv[j - 1] /\ uv[j - 1] < level
        BY <2>5, <2>10, <4>1 DEF n, uv
      <4>3. CASE i <= h
        <5>1. i \in 1 .. n /\ i < j - 1
          BY <1>1, <3>4, <4>3
        <5> QED
          BY <2>10, <3>1, <4>1, <4>2, <4>3, <5>1
      <4>4. CASE i = h + 1
        <5>1. ~(i <= h)
          BY <1>1, <4>4
        <5> QED
          BY <1>1, <2>10, <4>1, <4>2, <4>4, <5>1
      <4>5. CASE i > h + 1
        <5>1. i - 1 \in 1 .. n /\ i - 1 < j - 1 /\ ~(i <= h) /\ i # h + 1
          BY <1>1, <4>5
        <5> QED
          BY <2>10, <3>1, <4>1, <4>2, <5>1
      <4> QED
        BY <1>1, <4>3, <4>4, <4>5
    <3> QED
      BY <1>1, <3>2, <3>3, <3>4
  <2>12. Ups(M) = Ups(L) \cup {level}
    <3>1. M.openupval = z /\ Ups(M) = {z[i] : i \in 1 .. n + 1}
      BY <2>1, <2>10 DEF Ups, Fields
    <3>2. ASSUME NEW i \in 1 .. n + 1 PROVE z[i] \in Ups(L) \cup {level}
      <4>1. CASE i <= h
        <5>1. i \in 1 .. n
          BY <1>1, <4>1
        <5> QED
          BY <2>10, <4>1, <5>1 DEF Ups
      <4>2. CASE i = h + 1
        <5>1. ~(i <= h)
          BY <1>1, <4>2
        <5> QED
          BY <2>10, <4>2, <5>1
      <4>3. CASE i > h + 1
        <5>1. i - 1 \in 1 .. n /\ ~(i <= h) /\ i # h + 1
          BY <1>1, <4>3
        <5> QED
          BY <2>10, <5>1 DEF Ups
      <4> QED
        BY <1>1, <4>1, <4>2, <4>3
    <3>3. ASSUME NEW i \in 1 .. n PROVE \E j \in 1 .. n + 1 : uv[i] = z[j]
      <4>1. CASE i <= h
        <5>1. i \in 1 .. n + 1
          BY <1>1
        <5> QED
          BY <2>10, <4>1, <5>1
      <4>2. CASE i > h
        <5>1. i + 1 \in 1 .. n + 1 /\ ~(i + 1 <= h) /\ i + 1 # h + 1 /\ (i + 1) - 1 = i
          BY <1>1, <4>2
        <5> QED
          BY <2>10, <5>1
      <4> QED
        BY <1>1, <4>1, <4>2
    <3>4. level = z[h + 1] /\ h + 1 \in 1 .. n + 1
      <4>1. h + 1 \in 1 .. n + 1 /\ ~(h + 1 <= h)
        BY <1>1
      <4> QED
        BY <2>10, <4>1
    <3>5. Ups(M) \subseteq Ups(L) \cup {level}
      BY <3>1, <3>2
    <3>6. level \in Ups(M)
      BY <3>1, <3>4
    <3>7. \A i \in 1 .. n : uv[i] \in Ups(M)
      BY <3>1, <3>3
    <3>8. Ups(L) \subseteq Ups(M)
      BY <3>7 DEF Ups
    <3> QED
      BY <3>5, <3>6, <3>8
  <2>13. M.openupval = z
    BY <2>1 DEF Fields
  <2> QED
    BY <2>1, <2>11, <2>12, <2>13 DEF Fields
<1> QED
  BY <1>2, <1>3

(* Upvalues are closed, or written; slots from w on may change.            *)
LEMMA StayThread ==
  ASSUME NEW C, IsSeq(C), NEW t, NEW L, ThreadOK(L, C, t), NEW M, NEW w \in Int,
         DOMAIN M = Fields, M.ci = L.ci, M.base = L.base, M.status = L.status,
         M.errfunc = L.errfunc, M.allowhook = L.allowhook,
         Sorted(M.openupval), Ups(M) \subseteq Ups(L),
         M.stk \in [Slot -> Value], M.top = L.top, NilAbove(M),
         Top(L).base <= w, w <= L.top, Above(C, t, w),
         \A i \in Slot : i < w => M.stk[i] = L.stk[i] \/ i \in Ups(L)
  PROVE  ThreadOK(M, C, t) /\ Top(M) = Top(L)
<1>1. Mem(L)
  BY DEF ThreadOK
<1> DEFINE n == Len(L.ci)
<1>2. /\ n \in 1 .. n /\ n \in Nat /\ L.ci \in Seq(FrameType) /\ L.ci[n] = Top(L)
      /\ Top(L).base <= Top(L).top /\ Top(L).top \in Nat /\ L.top \in Nat /\ L.top <= Slots
  BY <1>1, MemFacts DEF Top, Mem, Nested
<1>3. /\ L.errfunc \in 0 .. Slots
      /\ L.base \in 2 .. Slots /\ (L.status # "yield" => L.base = L.ci[n].base)
      /\ L.status = "yield" => n >= 2 /\ L.ci[2].nresults = -1
  BY <1>1 DEF Mem, WindowOK
<1>4. UpFree(M, M.top)
  BY <1>1, UpsBelow DEF UpFree
<1>5. Down(M, L, n, w)
  BY <1>2, <1>3, <1>4, SameFrameRefl DEF Down
<1>6. Steady(M, L, C, t, n, w)
  <2> SUFFICES ASSUME NEW i \in 1 .. Len(C), C[i].t = t
               PROVE  C[i].ci <= n /\ (C[i].k = "hook" => ~M.allowhook)
    BY DEF Steady
  <2>1. RecIn(L, C, i)
    BY DEF ThreadOK
  <2> QED
    BY <1>2, <2>1 DEF RecIn, RecOK
<1>7. ThreadOK(M, C, t)
  BY <1>5, <1>6, DownThread
<1> QED
  BY <1>7 DEF Top

(* luaF_close keeps a thread in order.                                     *)
LEMMA CloseThread ==
  ASSUME NEW C, IsSeq(C), NEW t, NEW L, ThreadOK(L, C, t), NEW level \in Int
  PROVE  /\ ThreadOK(luaF_close(L, level), C, t)
         /\ Top(luaF_close(L, level)) = Top(L) /\ UpFree(luaF_close(L, level), level)
         /\ Ups(luaF_close(L, level)) \subseteq Ups(L)
         /\ luaF_close(L, level).top = L.top /\ luaF_close(L, level).ci = L.ci
<1> DEFINE M == luaF_close(L, level)
<1>1. Mem(L)
  BY DEF ThreadOK
<1>2. DOMAIN L = Fields /\ Sorted(L.openupval) /\ L.stk \in [Slot -> Value] /\ NilAbove(L)
  BY <1>1 DEF Mem
<1>3. /\ Sorted(M.openupval) /\ Ups(M) \subseteq Ups(L) /\ UpFree(M, level)
      /\ DOMAIN M = Fields /\ M.stk = L.stk /\ M.top = L.top /\ M.base = L.base
      /\ M.ci = L.ci /\ M.status = L.status /\ M.errfunc = L.errfunc
      /\ M.allowhook = L.allowhook
  BY <1>2, CloseFacts
<1> HIDE DEF M
<1>4. L.top \in Int /\ Top(L).base <= L.top /\ L.top <= L.top /\ NilAbove(M)
  BY <1>1, <1>2, <1>3, MemFacts DEF NilAbove
<1>5. Above(C, t, L.top)
  <2> SUFFICES ASSUME NEW i \in 1 .. Len(C), C[i].t = t, Guarded(C[i])
               PROVE  Floor(C[i]) <= L.top
    BY DEF Above
  <2> QED
    BY DEF ThreadOK, RecIn, RecOK, FloorOK
<1>6. ThreadOK(M, C, t) /\ Top(M) = Top(L)
  BY <1>2, <1>3, <1>4, <1>5, StayThread
<1> QED
  BY <1>3, <1>6 DEF M

(* A new upvalue for a register of the function on top.                    *)
LEMMA FindThread ==
  ASSUME NEW C, IsSeq(C), NEW t, NEW L, ThreadOK(L, C, t), NEW r \in Slot,
         Top(L).lua, Top(L).base <= r, r < Top(L).top, r < L.top,
         \A i \in 1 .. Len(C) : C[i].t = t => C[i].ci < Len(L.ci)
  PROVE  LET M == luaF_findupval(L, r)
         IN ThreadOK(M, C, t) /\ Top(M) = Top(L) /\ M.top = L.top
<1> DEFINE M == luaF_findupval(L, r)
           n == Len(L.ci)
<1>1. Mem(L)
  BY DEF ThreadOK
<1>2. DOMAIN L = Fields /\ Sorted(L.openupval) /\ L.stk \in [Slot -> Value] /\ NilAbove(L)
  BY <1>1 DEF Mem
<1>3. /\ Sorted(M.openupval) /\ Ups(M) = Ups(L) \cup {r}
      /\ DOMAIN M = Fields /\ M.stk = L.stk /\ M.top = L.top /\ M.base = L.base
      /\ M.ci = L.ci /\ M.status = L.status /\ M.errfunc = L.errfunc
      /\ M.allowhook = L.allowhook
  BY <1>2, FindFacts
<1> HIDE DEF M
<1>4. n \in Nat /\ n \in 1 .. n /\ L.ci[n] = Top(L) /\ r \in Nat /\ Ups(L) \subseteq Nat
  BY <1>1, MemFacts, UpsBelow, Sizes DEF Top
<1>5. Mem(M)
  <2>1. Owned(M)
    <3> SUFFICES ASSUME NEW u \in Ups(M) PROVE \E j \in 1 .. n : Owns(M, j, u)
      BY <1>3 DEF Owned
    <3>1. CASE u = r
      <4>1. Owns(M, n, u)
        BY <1>3, <1>4, <3>1 DEF Owns
      <4> QED
        BY <1>4, <4>1
    <3>2. CASE u \in Ups(L)
      <4>1. PICK j \in 1 .. n : Owns(L, j, u)
        BY <1>1, <3>2 DEF Mem, Owned
      <4>2. Owns(M, j, u)
        BY <1>3, <4>1 DEF Owns
      <4> QED
        BY <4>2
    <3> QED
      BY <1>3, <3>1, <3>2
  <2> QED
    BY <1>1, <1>3, <2>1 DEF Mem, WindowOK, NilAbove
<1>6. ASSUME NEW i \in 1 .. Len(C), C[i].t = t PROVE RecIn(M, C, i)
  <2> DEFINE e == C[i]
             l == e.ci
  <2>1. RecIn(L, C, i)
    BY <1>6 DEF ThreadOK
  <2>2. Until(M, C, i) = Until(L, C, i)
    BY <1>3 DEF Until
  <2>3. RecOK(L, e, Until(L, C, i))
    BY <2>1 DEF RecIn
  <2>4. l \in 1 .. n /\ l < n /\ l + 1 \in 1 .. n /\ l + 1 \in l + 1 .. n
    BY <1>4, <1>6, <2>3 DEF RecOK
  <2>5. L.ci[l + 1].base <= r /\ L.ci[l + 1].func < r /\ L.ci[l + 1].func \in Nat
    <3>1. L.ci[l + 1].func < L.ci[l + 1].base /\ L.ci[l + 1].func \in Nat
          /\ L.ci[l + 1].base \in Nat /\ Top(L).base \in Nat /\ Top(L).func \in Nat
          /\ Top(L).func < Top(L).base
      BY <1>1, <1>4, <2>4, MemFacts
    <3>2. L.ci[l + 1].base <= Top(L).base
      <4>1. CASE l + 1 = n
        BY <1>4, <3>1, <4>1
      <4>2. CASE l + 1 < n
        <5>1. L.ci[l + 1].base <= L.ci[n].func
          BY <1>1, <1>4, <2>4, <4>2, FramesNested
        <5> HIDE DEF n
        <5> QED
          BY <1>4, <3>1, <5>1
      <4> QED
        BY <1>4, <2>4, <4>1, <4>2
    <3>3. Top(L).base <= r /\ r \in Nat
      BY <1>4
    <3> DEFINE low == L.ci[l + 1].func
               bottom == L.ci[l + 1].base
               regs == Top(L).base
    <3> HIDE DEF low, bottom, regs, l
    <3>4. bottom <= r /\ low < r
      <4>1. low \in Nat /\ bottom \in Nat /\ regs \in Nat /\ low < bottom
        BY <3>1 DEF low, bottom, regs
      <4>2. bottom <= regs /\ regs <= r
        BY <3>2, <3>3 DEF bottom, regs
      <4> QED
        BY <3>3, <4>1, <4>2
    <3> QED
      BY <3>1, <3>4 DEF low, bottom
  <2>6. Guarded(e) => FloorOK(M, e)
    <3> SUFFICES ASSUME Guarded(e) PROVE FloorOK(M, e)
      OBVIOUS
    <3>1. FloorOK(L, e)
      BY <2>3 DEF RecOK
    <3> QED
      BY <1>3, <2>4, <2>5, <3>1 DEF FloorOK
  <2>7. e.k = "hook" => HookRec(M, e)
    <3> SUFFICES ASSUME e.k = "hook" PROVE HookRec(M, e)
      OBVIOUS
    <3>1. HookRec(L, e) /\ FloorOK(L, e)
      BY <2>3 DEF RecOK, Guarded
    <3>2. e.top <= L.ci[l + 1].func /\ e.top \in Nat
      BY <2>4, <3>1, Sizes DEF FloorOK, Floor
    <3>3. ~(r < e.top)
      BY <1>4, <2>5, <3>2
    <3> QED
      BY <1>3, <3>1, <3>3 DEF HookRec
  <2>8. RecOK(M, e, Until(M, C, i))
    <3> HIDE DEF l
    <3>1. e.k = "pcall" => PcallRec(M, e)
      BY <1>3, <2>3 DEF RecOK, PcallRec
    <3>2. e.k \in Meta => MetaRec(M, e)
      BY <1>3, <2>3 DEF RecOK, MetaRec
    <3>3. EnteredOK(L, e) => EnteredOK(M, e)
      BY <1>3 DEF EnteredOK
    <3> QED
      BY <1>3, <2>2, <2>3, <2>6, <2>7, <3>1, <3>2, <3>3 DEF RecOK
  <2> QED
    BY <1>3, <2>1, <2>8 DEF RecIn
<1>7. ThreadOK(M, C, t)
  BY <1>5, <1>6 DEF ThreadOK
<1> QED
  BY <1>3, <1>7 DEF Top, M

-----------------------------------------------------------------------------
(* Returning from a function                                               *)

(* What the lower frames own lies below the frame above them.              *)
LEMMA UpsBelowFrame ==
  ASSUME NEW L, Mem(L), UpFree(L, Top(L).func), Len(L.ci) >= 2
  PROVE  UpFree(L, L.ci[Len(L.ci) - 1].top)
<1> DEFINE n == Len(L.ci)
<1>1. n \in Nat /\ Ups(L) \subseteq Nat /\ n - 1 \in 1 .. n /\ n \in 1 .. n
  BY MemFacts, UpsBelow
<1>2. \A j \in 1 .. n : /\ L.ci[j].func \in Nat /\ L.ci[j].base \in Nat /\ L.ci[j].top \in Nat
                        /\ L.ci[j].func < L.ci[j].base /\ L.ci[j].base <= L.ci[j].top
  BY MemFacts
<1> SUFFICES ASSUME NEW u \in Ups(L) PROVE u < L.ci[n - 1].top
  BY DEF UpFree
<1>3. PICK j \in 1 .. n : Owns(L, j, u)
  BY DEF Mem, Owned
<1>4. u \in Nat /\ L.ci[j].base <= u /\ u < L.ci[j].top
      /\ (j < n => u < L.ci[j + 1].func)
  BY <1>1, <1>3 DEF Owns
<1>5. CASE j = n
  <2>1. u < L.ci[n].func
    BY DEF UpFree, Top
  <2> HIDE DEF n
  <2> QED
    BY <1>1, <1>2, <1>4, <1>5, <2>1
<1>6. CASE j = n - 1
  BY <1>4, <1>6
<1>7. CASE j < n - 1
  <2> HIDE DEF n
  <2>1. j + 1 \in 1 .. n /\ j + 1 <= n - 1
    BY <1>1, <1>7
  <2>2. L.ci[j + 1].func <= L.ci[n - 1].func
    <3>1. CASE j + 1 = n - 1
      BY <1>1, <1>2, <3>1
    <3>2. CASE j + 1 < n - 1
      <4>1. L.ci[j + 1].base <= L.ci[n - 1].func
        BY <1>1, <2>1, <3>2, FramesNested DEF n
      <4> QED
        BY <1>1, <1>2, <2>1, <4>1
    <3> QED
      BY <1>1, <2>1, <3>1, <3>2
  <2> DEFINE p == L.ci[n - 1]
             q == L.ci[j + 1]
  <2>3. q.func \in Nat /\ p.func \in Nat /\ p.base \in Nat /\ p.top \in Nat
        /\ p.func < p.base /\ p.base <= p.top /\ q.func <= p.func
    BY <1>1, <1>2, <2>1, <2>2
  <2>4. u < q.func
    BY <1>1, <1>4, <1>7
  <2>5. u < p.top
    <3> HIDE DEF p, q
    <3> QED
      BY <1>4, <2>3, <2>4
  <2> QED
    BY <2>5
<1> QED
  BY <1>1, <1>5, <1>6, <1>7

(* What luaD_poscall leaves: the caller's frame, and the results from the  *)
(* function's slot on with nothing above them.                             *)
LEMMA PosCallFacts ==
  ASSUME NEW L, Mem(L), Len(L.ci) >= 2, NEW fr \in Int, Top(L).func <= fr, fr <= L.top
  PROVE  LET P == luaD_poscall(L, fr)
             f == Top(L)
             n == Len(L.ci)
         IN /\ DOMAIN P = Fields /\ P.ci = Front(L.ci) /\ P.base = L.ci[n - 1].base
            /\ P.openupval = L.openupval /\ P.status = L.status
            /\ P.errfunc = L.errfunc /\ P.allowhook = L.allowhook
            /\ P.top = f.func + (IF f.nresults = -1 THEN L.top - fr ELSE f.nresults)
            /\ P.top \in Nat /\ f.func <= P.top
            /\ P.stk \in [Slot -> Value] /\ NilAbove(P)
            /\ \A i \in Slot : i < f.func => P.stk[i] = L.stk[i]
            /\ P.ci \in Seq(FrameType) /\ Len(P.ci) = n - 1
            /\ \A j \in 1 .. n - 1 : P.ci[j] = L.ci[j]
            /\ Top(P) = L.ci[n - 1]
<1> DEFINE f == Top(L)
           n == Len(L.ci)
           nres == L.top - fr
           wanted == IF f.nresults = -1 THEN nres ELSE f.nresults
           P == luaD_poscall(L, fr)
           k == [i \in Slot |->
                   IF i \in f.func .. f.func + wanted - 1
                   THEN IF i - f.func < nres THEN L.stk[fr + i - f.func] ELSE Nil
                   ELSE IF f.func + wanted <= i /\ i < L.top THEN Nil ELSE L.stk[i]]
<1>1. /\ n \in Nat /\ n - 1 \in 1 .. n /\ n \in 1 .. n /\ Frame(L) = f /\ L.ci[n] = f
      /\ L.top \in Nat /\ L.top <= Slots
  BY MemFacts DEF Top
<1>2. f \in FrameType /\ f.func \in Nat /\ 1 <= f.func /\ f.nresults \in Nat \cup {-1}
  <2>1. f \in FrameType /\ f.func \in Nat /\ 1 <= f.func
    BY <1>1, MemFacts
  <2> QED
    BY <2>1 DEF FrameType
<1>3. nres \in Nat /\ wanted \in Nat
  BY <1>1, <1>2
<1>4. /\ DOMAIN P = Fields /\ P.ci = Front(L.ci) /\ P.base = L.ci[n - 1].base
      /\ P.openupval = L.openupval /\ P.status = L.status
      /\ P.errfunc = L.errfunc /\ P.allowhook = L.allowhook
      /\ P.top = f.func + wanted /\ P.stk = k
  <2>1. DOMAIN L = Fields
    BY DEF Mem
  <2> QED
    BY <1>1, <2>1 DEF luaD_poscall, MULTRET, Fields
<1>5. \A i \in Slot : i \in Nat /\ 1 <= i /\ i <= Slots
  BY Sizes DEF Slot
<1>6. \A i \in Slot : L.stk[i] \in Value
  BY DEF Mem
<1>7. P.stk \in [Slot -> Value]
  <2>1. ASSUME NEW i \in Slot, i \in f.func .. f.func + wanted - 1, i - f.func < nres
        PROVE  fr + i - f.func \in Slot
    <3> DEFINE b == f.func
               x == L.top
    <3>1. b \in Nat /\ 1 <= b /\ b <= fr /\ fr \in Int
      BY <1>2
    <3>2. x \in Nat /\ x <= Slots /\ Slots \in Nat
      BY <1>1, Sizes
    <3>3. i \in Nat /\ b <= i /\ i - b < x - fr
      <4> HIDE DEF f, wanted
      <4> QED
        BY <1>2, <1>3, <1>5, <2>1
    <3> HIDE DEF b, x
    <3>4. fr + i - b \in 1 .. Slots
      BY <3>1, <3>2, <3>3
    <3> QED
      BY <3>4 DEF Slot, b
  <2>2. \A i \in Slot : k[i] \in Value
    BY <1>6, <2>1, Sizes
  <2> QED
    BY <1>4, <2>2
<1>8. NilAbove(P)
  <2> SUFFICES ASSUME NEW i \in Slot, i >= f.func + wanted PROVE k[i] = Nil
    BY <1>4 DEF NilAbove
  <2>1. i \notin f.func .. f.func + wanted - 1
    BY <1>2, <1>3, <1>5
  <2>2. i >= L.top => L.stk[i] = Nil
    BY DEF Mem, NilAbove
  <2> HIDE DEF f, wanted, nres
  <2> QED
    BY <1>1, <1>2, <1>3, <1>5, <2>1, <2>2
<1>9. ASSUME NEW i \in Slot, i < f.func PROVE k[i] = L.stk[i]
  <2>1. i \notin f.func .. f.func + wanted - 1 /\ ~(f.func + wanted <= i)
    <3> HIDE DEF f, wanted
    <3> QED
      BY <1>2, <1>3, <1>5, <1>9
  <2> QED
    BY <2>1
<1> HIDE DEF k, P, wanted
<1>10. /\ P.ci \in Seq(FrameType) /\ Len(P.ci) = n - 1
       /\ \A j \in 1 .. n - 1 : P.ci[j] = L.ci[j]
  <2>1. L.ci \in Seq(FrameType) /\ IsSeq(L.ci) /\ n > 0
    BY <1>1, MemFacts DEF Mem, Nested
  <2>2. /\ IsSeq(Front(L.ci)) /\ Len(Front(L.ci)) = n - 1
        /\ \A j \in 1 .. n - 1 : Front(L.ci)[j] = L.ci[j]
    BY <2>1, SeqFront
  <2>3. \A j \in 1 .. n - 1 : L.ci[j] \in FrameType
    BY <1>1, <2>1
  <2>4. Front(L.ci) \in Seq(FrameType)
    <3> DEFINE z == Front(L.ci)
    <3>1. z \in [1 .. n - 1 -> {z[i] : i \in 1 .. Len(z)}] /\ n - 1 \in Nat
      BY <1>1, <2>2 DEF IsSeq
    <3> HIDE DEF z
    <3>2. z \in [1 .. n - 1 -> FrameType]
      BY <2>2, <2>3, <3>1 DEF z
    <3> QED
      BY <3>1, <3>2 DEF z
  <2> QED
    BY <1>4, <2>2, <2>4
<1>11. Top(P) = L.ci[n - 1]
  <2>1. n - 1 \in 1 .. n - 1
    BY <1>1
  <2> QED
    BY <1>10, <2>1 DEF Top
<1>12. P.top \in Nat /\ f.func <= P.top
  <2> HIDE DEF f
  <2> QED
    BY <1>2, <1>3, <1>4
<1> QED
  BY <1>4, <1>7, <1>8, <1>9, <1>10, <1>11, <1>12 DEF P, wanted

(* M is the state after luaD_poscall, or has its top moved; the caller's   *)
(* frame is on top again.                                                  *)
LEMMA PosThread ==
  ASSUME NEW C, IsSeq(C), NEW t, NEW L, ThreadOK(L, C, t), Len(L.ci) >= 2,
         NEW fr \in Int, Top(L).func <= fr, fr <= L.top, L.status # "yield",
         NEW M, NEW w \in Int, Edit(M, luaD_poscall(L, fr), w),
         L.ci[Len(L.ci) - 1].base <= w, w <= Top(L).func, M.top <= Slots,
         UpFree(L, Top(L).func), UpFree(L, M.top), Above(C, t, w),
         \A i \in 1 .. Len(C) : C[i].t = t => C[i].ci < Len(L.ci)
  PROVE  ThreadOK(M, C, t) /\ Top(M) = L.ci[Len(L.ci) - 1] /\ Len(M.ci) = Len(L.ci) - 1
<1> DEFINE n == Len(L.ci)
           P == luaD_poscall(L, fr)
           m == n - 1
<1>1. Mem(L)
  BY DEF ThreadOK
<1>2. /\ DOMAIN P = Fields /\ P.base = L.ci[n - 1].base
      /\ P.openupval = L.openupval /\ P.status = L.status
      /\ P.errfunc = L.errfunc /\ P.allowhook = L.allowhook
      /\ P.stk \in [Slot -> Value]
      /\ \A i \in Slot : i < Top(L).func => P.stk[i] = L.stk[i]
      /\ P.ci \in Seq(FrameType) /\ Len(P.ci) = n - 1
      /\ \A j \in 1 .. n - 1 : P.ci[j] = L.ci[j]
      /\ Top(P) = L.ci[n - 1]
  BY <1>1, PosCallFacts
<1> HIDE DEF P
<1>3. /\ DOMAIN M = Fields /\ M.ci = P.ci /\ M.base = P.base
      /\ M.openupval = P.openupval /\ M.status = P.status
      /\ M.errfunc = P.errfunc /\ M.allowhook = P.allowhook
      /\ M.stk \in [Slot -> Value] /\ M.top \in Int /\ w <= M.top /\ NilAbove(M)
      /\ \A i \in Slot : i < w => M.stk[i] = P.stk[i]
  BY DEF Edit, Kept, Over, P
<1>4. /\ n \in Nat /\ n >= 2 /\ Slots \in Nat
      /\ \A j \in 1 .. n : /\ L.ci[j].func \in Nat /\ L.ci[j].base \in Nat /\ L.ci[j].top \in Nat
                           /\ 1 <= L.ci[j].func /\ L.ci[j].top <= Slots
                           /\ L.ci[j].func < L.ci[j].base /\ L.ci[j].base <= L.ci[j].top
  BY <1>1, MemFacts, Sizes
<1>5. m \in 1 .. n /\ m \in Nat /\ m + 1 = n /\ m < n /\ n \in 1 .. n
  BY <1>4
<1>6. L.ci[n] = Top(L) /\ Top(L).func \in Nat /\ Sorted(L.openupval) /\ L.errfunc \in 0 .. Slots
  BY <1>1, <1>4, <1>5 DEF Top, Mem
<1> HIDE DEF n, m
<1>7. L.ci[m].base \in 2 .. Slots /\ M.base = L.ci[m].base
  <2>1. M.base = L.ci[m].base
    BY <1>2, <1>3 DEF m
  <2> DEFINE f == L.ci[m]
  <2>2. /\ f.func \in Nat /\ f.base \in Nat /\ f.top \in Nat
        /\ 1 <= f.func /\ f.top <= Slots /\ f.func < f.base /\ f.base <= f.top
    BY <1>4, <1>5
  <2>3. f.base \in 2 .. Slots
    <3> HIDE DEF f
    <3> QED
      BY <1>4, <2>2
  <2> QED
    BY <2>1, <2>3
<1>8. Len(M.ci) = m /\ M.ci \in Seq(FrameType) /\ \A j \in 1 .. m : M.ci[j] = L.ci[j]
  BY <1>2, <1>3 DEF m
<1>9. M.ci[m] = L.ci[m]
  <2>1. m \in 1 .. m
    BY <1>4, <1>5
  <2> QED
    BY <1>8, <2>1
<1>10. \A j \in 1 .. m - 1 : M.ci[j] = L.ci[j]
  <2>1. 1 .. m - 1 \subseteq 1 .. m
    BY <1>5
  <2> QED
    BY <1>8, <2>1
<1>11. \A i \in Slot : i < w => M.stk[i] = L.stk[i]
  <2>1. \A i \in Slot : i < w => i < Top(L).func
    BY <1>6, Sizes
  <2> QED
    BY <1>2, <1>3, <2>1
<1>12. Ups(M) = Ups(L) /\ UpFree(M, M.top) /\ UpFree(M, Top(L).func)
  BY <1>2, <1>3 DEF Ups, UpFree
<1>13. Down(M, L, m, w)
  <2>1. L.ci[m].base <= w /\ w <= Top(L).func
    BY DEF m, n
  <2>2. L.ci[m + 1].func = Top(L).func /\ m \in 1 .. Len(L.ci)
    BY <1>5, <1>6 DEF n
  <2>3. SameFrame(M.ci[m], L.ci[m]) /\ M.ci[m].base <= M.ci[m].top
        /\ M.ci[m].top >= L.ci[m].top
    BY <1>4, <1>5, <1>9, SameFrameRefl
  <2>4. M.status # "yield"
    BY <1>2, <1>3
  <2>5. Sorted(M.openupval) /\ M.errfunc \in 0 .. Slots /\ M.base \in 2 .. Slots
        /\ M.base = L.ci[m].base
    BY <1>2, <1>3, <1>6, <1>7
  <2>6. UpFree(M, L.ci[m + 1].func) /\ Ups(M) \subseteq Ups(L)
    BY <1>12, <2>2
  <2> QED
    BY <1>3, <1>8, <1>10, <1>11, <1>12, <2>1, <2>2, <2>3, <2>4, <2>5, <2>6 DEF Down
<1>14. Steady(M, L, C, t, m, w)
  <2> SUFFICES ASSUME NEW i \in 1 .. Len(C), C[i].t = t
               PROVE  C[i].ci <= m /\ (C[i].k = "hook" => ~M.allowhook)
    BY <1>9 DEF Steady
  <2>1. RecIn(L, C, i)
    BY DEF ThreadOK
  <2>2. C[i].ci \in 1 .. n /\ C[i].ci < n
    BY <2>1 DEF RecIn, RecOK, n
  <2> QED
    BY <1>2, <1>3, <1>4, <1>5, <2>1, <2>2 DEF RecIn
<1>15. ThreadOK(M, C, t)
  BY <1>13, <1>14, DownThread
<1> QED
  BY <1>2, <1>3, <1>15 DEF Top, n

-----------------------------------------------------------------------------
(* Entering a function                                                     *)

(* M has one frame more, f, from slot f.func on.                           *)
Up(M, L, f) ==
  /\ DOMAIN M = Fields /\ M.ci = Append(L.ci, f)
  /\ f \in FrameType /\ FrameOK(f) /\ Top(L).base <= f.func
  /\ M.stk \in [Slot -> Value] /\ NilAbove(M)
  /\ M.top \in Int /\ f.base <= M.top /\ M.top <= Slots
  /\ \A i \in Slot : i < f.func => M.stk[i] = L.stk[i]
  /\ M.openupval = L.openupval /\ UpFree(L, f.func)
  /\ M.base = f.base /\ L.status # "yield" /\ M.status = L.status
  /\ M.errfunc = L.errfunc /\ M.allowhook = L.allowhook

(* The innermost activation of the thread, if it begins at this frame, has *)
(* called f.                                                               *)
Entering(L, C, t, f) ==
  \A i \in 1 .. Len(C) :
    (/\ C[i].t = t /\ C[i].ci = Len(L.ci) /\ C[i].k # "hook"
     /\ i = Len(C) \/ C[i + 1].t # t) =>
      CalleeOK(C[i], Top(L).top, f.func, f.nresults)

(* The frames of a thread that has entered one more function.              *)
LEMMA UpFrames ==
  ASSUME NEW L, Mem(L), NEW M, NEW f, Up(M, L, f)
  PROVE  LET n == Len(L.ci)
         IN /\ M.ci \in Seq(FrameType) /\ Len(M.ci) = n + 1 /\ n \in Nat /\ n >= 1
            /\ \A j \in 1 .. n : M.ci[j] = L.ci[j]
            /\ M.ci[n + 1] = f /\ Top(M) = f
<1>1. IsSeq(L.ci) /\ L.ci \in Seq(FrameType) /\ Len(L.ci) \in Nat /\ Len(L.ci) >= 1
  BY MemFacts DEF Mem, Nested
<1>2. M.ci = Append(L.ci, f) /\ f \in FrameType
  BY DEF Up
<1>3. Append(L.ci, f) \in Seq(FrameType)
  BY <1>1, <1>2
<1>4. /\ Len(Append(L.ci, f)) = Len(L.ci) + 1
      /\ \A i \in 1 .. Len(L.ci) : Append(L.ci, f)[i] = L.ci[i]
      /\ Append(L.ci, f)[Len(L.ci) + 1] = f
  BY <1>1, SeqAppend
<1> QED
  BY <1>1, <1>2, <1>3, <1>4 DEF Top

(* Entering a function keeps a thread's stack in order.                    *)
LEMMA UpMem ==
  ASSUME NEW L, Mem(L), NEW M, NEW f, Up(M, L, f)
  PROVE  Mem(M)
<1> DEFINE n == Len(L.ci)
<1>1. /\ M.ci \in Seq(FrameType) /\ Len(M.ci) = n + 1 /\ n \in Nat /\ n >= 1
      /\ \A j \in 1 .. n : M.ci[j] = L.ci[j]
      /\ M.ci[n + 1] = f /\ Top(M) = f
  BY UpFrames
<1>2. Top(L) = L.ci[n] /\ Top(L).base <= f.func /\ FrameOK(f) /\ f \in FrameType
  BY DEF Up, Top
<1>3. \A j \in 1 .. n : FrameOK(L.ci[j]) /\ L.ci[j].base \in Nat /\ L.ci[j].func \in Nat
                        /\ L.ci[j].func < L.ci[j].base
  BY MemFacts DEF Mem, Nested
<1>4. f.func \in Nat /\ f.base \in Nat /\ f.base >= 2 /\ f.func < f.base
  <2>1. f.func \in Slot /\ f.base \in Slot /\ f.func < f.base
    BY <1>2 DEF FrameType, FrameOK
  <2> QED
    BY <2>1, Sizes DEF Slot
<1> HIDE DEF n
<1>5. ASSUME NEW i \in 1 .. n PROVE L.ci[i].base <= f.func
  <2>1. CASE i = n
    BY <1>2, <2>1
  <2>2. CASE i < n
    <3>1. L.ci[i].base <= L.ci[n].func /\ n \in 1 .. n
      BY <1>1, <2>2, FramesNested DEF n
    <3> DEFINE g == L.ci[n]
               b == L.ci[i].base
    <3>2. g.base <= f.func /\ g.func < g.base /\ g.base \in Nat /\ g.func \in Nat
          /\ b \in Nat /\ b <= g.func
      BY <1>2, <1>3, <3>1
    <3> HIDE DEF g, b
    <3>3. b <= f.func
      BY <1>4, <3>2
    <3> QED
      BY <3>3 DEF b
  <2> QED
    BY <1>1, <2>1, <2>2
<1>6. Nested(M.ci)
  <2>1. ASSUME NEW i \in 1 .. n + 1 PROVE FrameOK(M.ci[i])
    BY <1>1, <1>2, <1>3
  <2>2. ASSUME NEW i \in 1 .. n + 1, NEW j \in 1 .. n + 1, i < j
        PROVE  M.ci[i].base <= M.ci[j].func
    <3>1. CASE j = n + 1
      <4>1. i \in 1 .. n
        BY <1>1, <2>2, <3>1
      <4> QED
        BY <1>1, <1>5, <3>1, <4>1
    <3>2. CASE j <= n
      <4>1. i \in 1 .. n /\ j \in 1 .. n
        BY <1>1, <2>2, <3>2
      <4> QED
        BY <1>1, <2>2, <4>1, FramesNested DEF n
    <3> QED
      BY <1>1, <3>1, <3>2
  <2> QED
    BY <1>1, <2>1, <2>2 DEF Nested
<1>7. WindowOK(M)
  <2>1. f.base <= M.top /\ M.top <= Slots /\ M.base = f.base /\ M.top \in Int
    BY DEF Up
  <2>2. M.top \in 2 .. Slots /\ M.base \in 2 .. Slots
    BY <1>4, <2>1, Sizes
  <2> QED
    BY <1>1, <2>1, <2>2 DEF WindowOK
<1>8. Owned(M)
  <2> SUFFICES ASSUME NEW u \in Ups(L) PROVE \E j \in 1 .. Len(M.ci) : Owns(M, j, u)
    BY DEF Up, Owned, Ups
  <2>1. PICK j \in 1 .. n : Owns(L, j, u)
    BY DEF Mem, Owned, n
  <2>2. j \in 1 .. n + 1 /\ j < Len(M.ci) /\ M.ci[j] = L.ci[j]
    BY <1>1
  <2>3. u < M.ci[j + 1].func
    <3>1. CASE j = n
      BY <1>1, <3>1 DEF Up, UpFree
    <3>2. CASE j < n
      <4>1. j + 1 \in 1 .. n /\ M.ci[j + 1] = L.ci[j + 1]
        BY <1>1, <3>2
      <4> QED
        BY <2>1, <3>2, <4>1 DEF Owns, n
    <3> QED
      BY <1>1, <3>1, <3>2
  <2>4. Owns(M, j, u)
    BY <2>1, <2>2, <2>3 DEF Owns
  <2> QED
    BY <1>1, <2>2, <2>4
<1> QED
  BY <1>6, <1>7, <1>8 DEF Up, Mem

(* The same with the activations that run the thread.                      *)
LEMMA UpThread ==
  ASSUME NEW C, IsSeq(C), NEW t, NEW L, ThreadOK(L, C, t), NEW M, NEW f, Up(M, L, f),
         Above(C, t, f.func), Entering(L, C, t, f)
  PROVE  ThreadOK(M, C, t) /\ Top(M) = f
<1> DEFINE n == Len(L.ci)
<1>1. Mem(L) /\ Mem(M) /\ Len(C) \in Nat
  BY UpMem DEF ThreadOK, IsSeq
<1>2. /\ Len(M.ci) = n + 1 /\ n \in Nat /\ n >= 1
      /\ \A j \in 1 .. n : M.ci[j] = L.ci[j]
      /\ M.ci[n + 1] = f /\ Top(M) = f
  BY <1>1, UpFrames
<1>3. /\ \A i \in Slot : i < f.func => M.stk[i] = L.stk[i]
      /\ M.openupval = L.openupval /\ M.allowhook = L.allowhook
      /\ f.base <= M.top /\ f.func < f.base /\ f.func \in Nat /\ f.base \in Nat
      /\ M.top \in Int /\ UpFree(L, f.func)
  BY Sizes DEF Up, FrameType, FrameOK
<1>4. Ups(M) = Ups(L) /\ Ups(L) \subseteq Nat
  BY <1>1, <1>3, UpsBelow DEF Ups
<1> HIDE DEF n
<1>5. ASSUME NEW i \in 1 .. Len(C), C[i].t = t PROVE RecIn(M, C, i)
  <2> DEFINE e == C[i]
             l == e.ci
             up == Until(L, C, i)
             ups == Until(M, C, i)
  <2>1. RecIn(L, C, i) /\ RecOK(L, e, up)
    BY <1>5 DEF ThreadOK, RecIn
  <2>2. l \in 1 .. n /\ RecFields(e)
    BY <2>1 DEF RecOK, n
  <2>3. M.ci[l] = L.ci[l] /\ l \in 1 .. n + 1 /\ l < n + 1 /\ l \in Nat
    BY <1>2, <2>2
  <2>4. Guarded(e) => Floor(e) <= f.func
    BY <1>5 DEF Above
  <2> HIDE DEF e, l, up, ups
  <2>5. ASSUME Guarded(e) PROVE FloorOK(M, e)
    <3>1. FloorOK(L, e) /\ e.ci = l
      BY <2>1, <2>5 DEF RecOK, l
    <3>2. Low(e) \in Slot /\ Floor(e) \in Slot /\ Low(e) \in Nat /\ Floor(e) \in Nat
          /\ Low(e) <= Floor(e)
      BY <3>1, Sizes DEF FloorOK
    <3>3. M.ci[l].base <= Low(e)
      BY <2>3, <3>1 DEF FloorOK
    <3>4. Floor(e) <= M.top
      BY <1>3, <2>4, <2>5, <3>2
    <3>5. ASSUME NEW j \in l + 1 .. n + 1 PROVE Floor(e) <= M.ci[j].func
      <4>1. CASE j = n + 1
        BY <1>2, <2>4, <2>5, <4>1
      <4>2. CASE j <= n
        <5>1. j \in l + 1 .. n /\ j \in 1 .. n
          BY <1>2, <2>3, <4>2
        <5> QED
          BY <1>2, <3>1, <5>1 DEF FloorOK, n
      <4> QED
        BY <1>2, <2>3, <4>1, <4>2
    <3>6. ASSUME NEW u \in Ups(M), ~(u < Low(e))
          PROVE  l < Len(M.ci) /\ M.ci[l + 1].base <= u
      <4>1. l < n /\ L.ci[l + 1].base <= u
        BY <1>4, <3>1, <3>6 DEF FloorOK, n
      <4>2. l + 1 \in 1 .. n
        BY <1>2, <2>3, <4>1
      <4> QED
        BY <1>2, <2>3, <4>1, <4>2
    <3> QED
      BY <1>2, <3>1, <3>2, <3>3, <3>4, <3>5, <3>6 DEF FloorOK
  <2>6. ASSUME e.k = "hook" PROVE HookRec(M, e)
    <3>1. HookRec(L, e)
      BY <2>1, <2>6 DEF RecOK
    <3> QED
      BY <1>4, <2>3, <3>1 DEF HookRec, l
  <2>7. ASSUME e.k = "pcall" PROVE PcallRec(M, e)
    <3>1. PcallRec(L, e) /\ FloorOK(L, e)
      BY <2>1, <2>7 DEF RecOK, Guarded
    <3>2. ASSUME NEW j \in 1 .. Len(e.keep) PROVE e.keep[j] = M.stk[Low(e) + j - 1]
      <4> DEFINE s == Low(e) + j - 1
      <4>1. Len(e.keep) \in Nat /\ Low(e) + Len(e.keep) = Floor(e)
        <5>1. Len(e.keep) \in Nat /\ e.oldtop = Floor(e) /\ Low(e) = e.oldtop - Len(e.keep)
          BY <2>7, <3>1 DEF PcallRec, Floor, Low
        <5>2. Floor(e) \in Nat
          BY <3>1, Sizes DEF FloorOK
        <5> QED
          BY <5>1, <5>2
      <4>2. Low(e) \in Nat /\ Floor(e) \in Nat /\ 1 <= Low(e) /\ Floor(e) <= Slots
            /\ Floor(e) <= f.func
        BY <2>4, <2>7, <3>1, Sizes DEF FloorOK, Guarded, Slot
      <4>3. s \in Nat /\ Low(e) <= s /\ s < Floor(e)
        BY <4>1, <4>2
      <4> HIDE DEF s
      <4>4. s \in Slot /\ s < f.func
        BY <1>3, <4>2, <4>3, Sizes DEF Slot
      <4>5. e.keep[j] = L.stk[s]
        BY <3>1 DEF PcallRec, s
      <4> QED
        BY <1>3, <4>4, <4>5 DEF s
    <3> QED
      BY <3>1, <3>2 DEF PcallRec
  <2>8. ASSUME e.k \in Meta PROVE MetaRec(M, e)
    <3>1. MetaRec(L, e)
      BY <2>1, <2>8 DEF RecOK
    <3> QED
      BY <2>3, <3>1 DEF MetaRec, l
  <2>9. ASSUME e.k # "hook", e.ci < ups
        PROVE  e.ci + 1 \in 1 .. Len(M.ci) /\ EnteredOK(M, e)
    <3>1. CASE e.ci < up
      <4>1. l + 1 \in 1 .. n /\ EnteredOK(L, e)
        BY <2>1, <2>9, <3>1 DEF RecOK, l, n
      <4>2. l + 1 \in 1 .. n + 1 /\ M.ci[l + 1] = L.ci[l + 1]
        BY <1>2, <4>1
      <4> QED
        BY <1>2, <2>3, <4>1, <4>2 DEF EnteredOK, l
    <3>2. CASE ~(e.ci < up)
      <4>1. ~(i < Len(C) /\ C[i + 1].t = t) /\ l = n
        <5>1. CASE i < Len(C) /\ C[i + 1].t = t
          <6>1. ups = up
            BY <1>5, <5>1 DEF Until, ups, up
          <6> QED
            BY <2>9, <3>2, <6>1
        <5>2. CASE ~(i < Len(C) /\ C[i + 1].t = t)
          <6>1. up = n
            BY <1>5, <5>2 DEF Until, up, n
          <6> QED
            BY <1>2, <2>2, <2>3, <3>2, <5>2, <6>1 DEF l
        <5> QED
          BY <5>1, <5>2
      <4>2. i = Len(C) \/ C[i + 1].t # t
        BY <1>1, <4>1
      <4>3. CalleeOK(e, Top(L).top, f.func, f.nresults)
        BY <1>5, <2>9, <4>1, <4>2 DEF Entering, e, l, n
      <4>4. Top(L) = M.ci[l]
        BY <2>3, <4>1 DEF Top, n
      <4>5. M.ci[l + 1] = f /\ l + 1 \in 1 .. n + 1
        BY <1>2, <4>1
      <4> QED
        BY <1>2, <4>3, <4>4, <4>5 DEF EnteredOK, l
    <3> QED
      BY <3>1, <3>2
  <2>10. RecOK(M, e, ups)
    BY <1>2, <2>2, <2>3, <2>5, <2>6, <2>7, <2>8, <2>9 DEF RecOK, l
  <2>11. M.ci[e.ci].lua = L.ci[e.ci].lua
    BY <2>3 DEF l
  <2> QED
    BY <1>3, <2>1, <2>10, <2>11 DEF RecIn, e, ups
<1> QED
  BY <1>1, <1>2, <1>5 DEF ThreadOK

(* The results that luaD_precall finds room for.                           *)
LEMMA SetNilClean ==
  ASSUME NEW L, Clean(L), NEW n \in Int, NEW w \in Int, w <= n
  PROVE  LET k == [i \in Slot |-> IF n <= i /\ i < L.top THEN Nil ELSE L.stk[i]]
         IN /\ k \in [Slot -> Value] /\ \A i \in Slot : i >= n => k[i] = Nil
            /\ \A i \in Slot : i < w => k[i] = L.stk[i]
<1> DEFINE k == [i \in Slot |-> IF n <= i /\ i < L.top THEN Nil ELSE L.stk[i]]
<1>1. k \in [Slot -> Value]
  BY Sizes DEF Clean
<1>2. ASSUME NEW i \in Slot PROVE (i >= n => k[i] = Nil) /\ (i < w => k[i] = L.stk[i])
  <2>1. L.top \in Int /\ i \in Int /\ (i >= L.top => L.stk[i] = Nil)
    BY Sizes DEF Clean, NilAbove
  <2> QED
    BY <2>1
<1> QED
  BY <1>1, <1>2

(* The frame that luaD_precall makes for a Lua function.                   *)
LEMMA LuaFrameUp ==
  ASSUME NEW L, Mem(L), L.status # "yield", NEW func \in Slot, Top(L).base <= func,
         func < L.top, UpFree(L, func), NEW p \in Proto, NEW nresults \in Nat \cup {-1},
         p.is_vararg => func + 1 + 2 * p.numparams <= L.top,
         BaseOf(L, func, p) + p.maxstacksize <= Slots
  PROVE  LET f == [func |-> func, base |-> BaseOf(L, func, p),
                   top |-> BaseOf(L, func, p) + p.maxstacksize, lua |-> TRUE,
                   nresults |-> nresults, numparams |-> p.numparams,
                   is_vararg |-> p.is_vararg, open |-> FALSE]
             M == LuaFrame(L, func, p, nresults)
         IN Up(M, L, f) /\ M.top = f.top
<1> DEFINE base == BaseOf(L, func, p)
           top == base + p.maxstacksize
           f == [func |-> func, base |-> base, top |-> top, lua |-> TRUE,
                 nresults |-> nresults, numparams |-> p.numparams,
                 is_vararg |-> p.is_vararg, open |-> FALSE]
           M == LuaFrame(L, func, p, nresults)
           k == [i \in Slot |-> IF top <= i /\ i < L.top THEN Nil ELSE L.stk[i]]
<1>1. /\ p.numparams \in Nat /\ p.maxstacksize \in Nat /\ p.is_vararg \in BOOLEAN
      /\ p.numparams <= p.maxstacksize
  BY CallsAssumption
<1>2. func \in Nat /\ 1 <= func /\ Clean(L) /\ L.top \in Nat /\ L.top <= Slots /\ Slots \in Nat
  BY MemFacts, Sizes DEF Slot
<1>3. /\ base \in Nat /\ func < base
      /\ p.is_vararg => func + p.numparams < base
  BY <1>1, <1>2 DEF BaseOf
<1>4. M = [L EXCEPT !.stk = k, !.ci = Append(@, f), !.base = base, !.top = top]
  BY <1>2 DEF LuaFrame, SetNil, Clean, Fields
<1> HIDE DEF M, base
<1>5. top \in Nat /\ base <= top /\ top <= Slots /\ func <= top
  BY <1>1, <1>2, <1>3 DEF base
<1>6. k \in [Slot -> Value] /\ (\A i \in Slot : i >= top => k[i] = Nil)
      /\ \A i \in Slot : i < func => k[i] = L.stk[i]
  BY <1>2, <1>5, SetNilClean
<1> HIDE DEF k, top
<1>7. f \in FrameType /\ FrameOK(f)
  <2>1. base \in Slot /\ top \in Slot
    BY <1>2, <1>3, <1>5, Sizes DEF Slot
  <2> QED
    BY <1>1, <1>3, <1>5, <2>1 DEF FrameType, FrameOK
<1>8. /\ DOMAIN M = Fields /\ M.ci = Append(L.ci, f) /\ M.stk = k /\ M.top = top
      /\ M.base = base /\ M.openupval = L.openupval /\ M.status = L.status
      /\ M.errfunc = L.errfunc /\ M.allowhook = L.allowhook
  BY <1>2, <1>4 DEF Clean, Fields
<1>9. f.func = func /\ f.base = base /\ f.top = top
  OBVIOUS
<1>10. NilAbove(M)
  BY <1>6, <1>8 DEF NilAbove
<1> HIDE DEF f
<1>11. Up(M, L, f)
  BY <1>5, <1>6, <1>7, <1>8, <1>9, <1>10 DEF Up
<1> QED
  BY <1>8, <1>9, <1>11 DEF M, f, base, top

(* The frame that luaD_precall makes for a C function.                     *)
LEMMA CFrameUp ==
  ASSUME NEW L, Mem(L), L.status # "yield", NEW func \in Slot, Top(L).base <= func,
         func < L.top, UpFree(L, func), NEW nresults \in Nat \cup {-1},
         L.top + LUA_MINSTACK <= stack_last
  PROVE  LET f == [func |-> func, base |-> func + 1,
                   top |-> L.top + LUA_MINSTACK, lua |-> FALSE,
                   nresults |-> nresults, numparams |-> 0,
                   is_vararg |-> FALSE, open |-> FALSE]
         IN Up(CFrame(L, func, nresults), L, f)
<1> DEFINE f == [func |-> func, base |-> func + 1,
                 top |-> L.top + LUA_MINSTACK, lua |-> FALSE,
                 nresults |-> nresults, numparams |-> 0,
                 is_vararg |-> FALSE, open |-> FALSE]
           M == CFrame(L, func, nresults)
<1>1. func \in Nat /\ 1 <= func /\ Clean(L) /\ L.top \in Nat /\ L.top <= Slots
      /\ Slots \in Nat /\ LUA_MINSTACK \in Nat /\ L.top + LUA_MINSTACK <= Slots
  BY MemFacts, Sizes DEF Slot
<1>2. /\ DOMAIN M = Fields /\ M.ci = Append(L.ci, f) /\ M.stk = L.stk /\ M.top = L.top
      /\ M.base = func + 1 /\ M.openupval = L.openupval /\ M.status = L.status
      /\ M.errfunc = L.errfunc /\ M.allowhook = L.allowhook
  BY <1>1 DEF CFrame, Clean, Fields
<1>3. f \in FrameType /\ FrameOK(f)
  <2>1. func + 1 \in Slot /\ L.top + LUA_MINSTACK \in Slot /\ func + 1 <= L.top + LUA_MINSTACK
    BY <1>1 DEF Slot
  <2> QED
    BY <1>1, <2>1 DEF FrameType, FrameOK
<1>4. f.func = func /\ f.base = func + 1 /\ func + 1 <= L.top
  BY <1>1
<1> HIDE DEF M, f
<1>5. Up(M, L, f)
  BY <1>1, <1>2, <1>3, <1>4 DEF Up, NilAbove, Clean
<1> QED
  BY <1>5 DEF M, f

-----------------------------------------------------------------------------
(* adjust_varargs                                                          *)

MoveTurn(fixed, top, i, c) ==
  [[c EXCEPT ![top + i - 1] = c[fixed + i - 1]] EXCEPT ![fixed + i - 1] = Nil]

(* adjust_varargs copies the fixed parameters above the arguments.         *)
LEMMA MoveFacts ==
  ASSUME NEW stack \in [Slot -> Value], NEW fixed \in Int, NEW top \in Int, NEW n \in Nat,
         NEW w \in Int, 1 <= w, w <= fixed, fixed <= top, top + n <= Slots,
         \A j \in Slot : j >= top => stack[j] = Nil
  PROVE  LET M == MoveFixed(stack, fixed, top, n)
         IN /\ M \in [Slot -> Value]
            /\ \A j \in Slot : j < w => M[j] = stack[j]
            /\ \A j \in Slot : j >= top + n => M[j] = Nil
<1> DEFINE St == [Slot -> Value]
           J == {c \in St : /\ \A j \in Slot : j < w => c[j] = stack[j]
                            /\ \A j \in Slot : j >= top + n => c[j] = Nil}
           I == [i \in 0 .. n |-> J]
           g == [p \in (1 .. n) \X St |-> MoveTurn(fixed, top, p[1], p[2])]
           moved[i \in 0 .. n] ==
             IF i = 0 THEN stack
             ELSE [[moved[i - 1] EXCEPT ![top + i - 1] = moved[i - 1][fixed + i - 1]]
                     EXCEPT ![fixed + i - 1] = Nil]
<1>1. stack \in J
  <2>1. \A j \in Slot : j >= top + n => j >= top
    BY Sizes DEF Slot
  <2> QED
    BY <2>1
<1>2. ASSUME NEW i \in 1 .. n, NEW c \in J PROVE MoveTurn(fixed, top, i, c) \in J
  <2> DEFINE a == fixed + i - 1
             b == top + i - 1
             d == MoveTurn(fixed, top, i, c)
  <2>1. a \in Slot /\ b \in Slot /\ w <= a /\ w <= b /\ a < top + n /\ b < top + n
        /\ a \in Int /\ b \in Int
    BY Sizes DEF Slot
  <2>2. c \in [Slot -> Value] /\ c[a] \in Value
    BY <2>1
  <2>3. d = [[c EXCEPT ![b] = c[a]] EXCEPT ![a] = Nil]
    BY DEF MoveTurn
  <2>4. \A j \in Slot : j \in Int /\ (j < w => c[j] = stack[j]) /\ (j >= top + n => c[j] = Nil)
    BY Sizes DEF Slot
  <2> HIDE DEF a, b, d, J
  <2>5. d \in St /\ \A j \in Slot : d[j] = IF j = a THEN Nil ELSE IF j = b THEN c[a] ELSE c[j]
    BY <2>1, <2>2, <2>3, Sizes
  <2>6. \A j \in Slot : (j < w => j # a /\ j # b) /\ (j >= top + n => j # a /\ j # b)
    BY <2>1, <2>4
  <2>7. \A j \in Slot : (j < w => d[j] = stack[j]) /\ (j >= top + n => d[j] = Nil)
    BY <2>4, <2>5, <2>6
  <2> QED
    BY <2>5, <2>7 DEF d, J
<1>3. \A i \in 0 .. n : I[i] = J
  OBVIOUS
<1>4. \A i \in 1 .. n : i \in 0 .. n /\ i - 1 \in 0 .. n
  OBVIOUS
<1>5. J \subseteq St /\ \A i \in 1 .. n : \A c \in St :
                          g[<<i, c>>] = MoveTurn(fixed, top, i, c)
  <2> HIDE DEF St
  <2> QED
    OBVIOUS
<1> HIDE DEF I, g, J, St
<1>6. PICK f : LoopOf(f, n, I, stack, g)
  <2>1. ASSUME NEW i \in 1 .. n, NEW c \in I[i - 1] PROVE g[<<i, c>>] \in I[i]
    <3>1. c \in J /\ c \in St /\ I[i] = J
      BY <1>3, <1>4, <1>5
    <3>2. g[<<i, c>>] = MoveTurn(fixed, top, i, c)
      BY <1>5, <3>1
    <3> QED
      BY <1>2, <3>1, <3>2
  <2>2. \A i \in 0 .. n : I[i] \subseteq St
    BY <1>3, <1>5
  <2>3. stack \in I[0]
    BY <1>1, <1>3
  <2> QED
    BY <2>1, <2>2, <2>3, LoopWithin
<1>7. f = [i \in 0 .. n |-> IF i = 0 THEN stack ELSE MoveTurn(fixed, top, i, f[i - 1])]
  <2>1. ASSUME NEW i \in 0 .. n, i # 0
        PROVE  g[<<i, f[i - 1]>>] = MoveTurn(fixed, top, i, f[i - 1])
    <3>1. i \in 1 .. n
      BY <2>1
    <3>2. f[i - 1] \in St
      BY <1>3, <1>4, <1>5, <1>6, <3>1 DEF LoopOf
    <3> QED
      BY <1>5, <3>1, <3>2
  <2> QED
    BY <1>6, <2>1 DEF LoopOf
<1>8. moved = CHOOSE h : h = [i \in 0 .. n |-> IF i = 0 THEN stack
                                               ELSE MoveTurn(fixed, top, i, h[i - 1])]
  BY DEF MoveTurn
<1>9. MoveFixed(stack, fixed, top, n) = moved[n]
  BY DEF MoveFixed
<1> HIDE DEF moved
<1>10. moved = [i \in 0 .. n |-> IF i = 0 THEN stack
                                 ELSE MoveTurn(fixed, top, i, moved[i - 1])]
  BY <1>7, <1>8
<1>11. moved[n] \in J
  <2>1. moved[0] \in I[0]
    BY <1>1, <1>3, <1>10
  <2>2. ASSUME NEW i \in 1 .. n, moved[i - 1] \in I[i - 1] PROVE moved[i] \in I[i]
    <3>1. moved[i] = MoveTurn(fixed, top, i, moved[i - 1])
      BY <1>4, <1>10
    <3> QED
      BY <1>2, <1>3, <1>4, <2>2, <3>1
  <2>3. \A i \in 0 .. n : moved[i] \in I[i]
    BY <2>1, <2>2, LoopInduction
  <2> QED
    BY <1>3, <2>3
<1> QED
  BY <1>9, <1>11 DEF J, St

(* What luaD_precall does to the arguments of a Lua function.              *)
LEMMA ArgumentsEdit ==
  ASSUME NEW L, Clean(L), NEW func \in Slot, func < L.top, NEW p \in Proto,
         BaseOf(Arguments(L, func, p), func, p) + p.maxstacksize <= stack_last
  PROVE  LET M == Arguments(L, func, p)
         IN /\ Edit(M, L, func) /\ func < M.top /\ M.top <= Slots
            /\ p.is_vararg => func + 1 + 2 * p.numparams <= M.top
<1> DEFINE n == p.numparams
           m == p.maxstacksize
           M == Arguments(L, func, p)
<1>1. n \in Nat /\ m \in Nat /\ n <= m /\ L.top \in Int /\ func \in Nat /\ func >= 1
      /\ stack_last \in Nat /\ stack_last < Slots /\ Slots \in Nat
  <2>1. p \in [numparams : Nat, is_vararg : BOOLEAN, maxstacksize : Nat]
        /\ p.numparams <= p.maxstacksize
    BY CallsAssumption
  <2> QED
    BY <2>1, Sizes DEF Slot, Clean
<1>2. CASE p.is_vararg
  <2> DEFINE actual == L.top - func - 1
             top == IF actual < n THEN func + 1 + n ELSE L.top
             fixed == top - actual
             k == MoveFixed(L.stk, fixed, top, n)
  <2>1. M = [L EXCEPT !.stk = k, !.top = top + n]
    BY <1>2 DEF Arguments, adjust_varargs
  <2>2. DOMAIN L = Fields
    BY DEF Clean
  <2>3. M.stk = k /\ M.top = top + n /\ Kept(M, L)
    BY <2>1, <2>2 DEF Kept, Fields
  <2>4. actual \in Int /\ actual >= 0 /\ actual = L.top - func - 1
    BY <1>1
  <2> HIDE DEF M, k, actual, n, m
  <2>5. top \in Int /\ L.top <= top /\ func + 1 <= fixed /\ fixed <= top /\ fixed \in Int
        /\ func + 1 + n <= top
    BY <1>1, <2>4
  <2>6. top + n <= Slots
    <3>1. M.top - n + m <= stack_last
      BY <1>2 DEF BaseOf, M, n, m
    <3> QED
      BY <1>1, <2>3, <2>5, <3>1
  <2>7. \A j \in Slot : j >= top => L.stk[j] = Nil
    <3>1. \A j \in Slot : j >= L.top => L.stk[j] = Nil
      BY DEF Clean, NilAbove
    <3>2. \A j \in Slot : j >= top => j >= L.top
      BY <1>1, <2>5, Sizes DEF Slot
    <3> QED
      BY <3>1, <3>2
  <2>8. L.stk \in [Slot -> Value]
    BY DEF Clean
  <2> HIDE DEF top, fixed
  <2>9. /\ k \in [Slot -> Value]
        /\ \A j \in Slot : j < func => k[j] = L.stk[j]
        /\ \A j \in Slot : j >= top + n => k[j] = Nil
    <3>1. func <= fixed
      BY <1>1, <2>5
    <3> QED
      BY <1>1, <2>5, <2>6, <2>7, <2>8, <3>1, MoveFacts DEF k
  <2>10. func <= M.top /\ M.top \in Int /\ func < M.top /\ func + 1 + 2 * n <= M.top
    BY <1>1, <2>3, <2>5
  <2> QED
    BY <2>3, <2>6, <2>9, <2>10 DEF Edit, Over, NilAbove, M, n
<1>3. CASE ~p.is_vararg
  <2>1. func + 1 + m <= stack_last
    BY <1>3 DEF BaseOf
  <2>2. M = IF L.top > func + 1 + n THEN CutTo(L, func + 1 + n) ELSE L
    BY <1>3 DEF Arguments
  <2> HIDE DEF M, n, m
  <2>3. func + 1 + n \in Int /\ func <= func + 1 + n /\ func <= L.top
        /\ func < func + 1 + n /\ func + 1 + n <= Slots
    BY <1>1, <2>1
  <2>4. Edit(CutTo(L, func + 1 + n), L, func) /\ CutTo(L, func + 1 + n).top = func + 1 + n
    BY <1>1, <2>3, CutToEdit
  <2>5. Edit(L, L, func)
    BY <2>3, EditSame
  <2>6. CASE L.top > func + 1 + n
    BY <1>3, <2>2, <2>3, <2>4, <2>6 DEF M
  <2>7. CASE ~(L.top > func + 1 + n)
    <3>1. L.top <= Slots
      BY <1>1, <2>3, <2>7
    <3> QED
      BY <1>3, <2>2, <2>5, <2>7, <3>1 DEF M
  <2> QED
    BY <2>6, <2>7
<1> QED
  BY <1>2, <1>3

=============================================================================
