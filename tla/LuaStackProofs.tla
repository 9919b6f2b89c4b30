--------------------------- MODULE LuaStackProofs ---------------------------
(***************************************************************************)
(* The data half of LuaCalls: what is on the stacks.  For any number of    *)
(* coroutines, any limits and any program, every stack window lies inside  *)
(* its stack, no slot above a top holds a value, every open upvalue is a   *)
(* register of an active Lua function, and a protected call gives its      *)
(* caller back the stack and the settings it had.                          *)
(*                                                                         *)
(* The invariant rests on the one of LuaCallsProofs, which says how many   *)
(* frames each activation on the C stack runs.                             *)
(***************************************************************************)
EXTENDS LuaCallsProofs


-----------------------------------------------------------------------------
(* One step                                                                *)

(* What the invariant says while a step of thread t is on its way: t has   *)
(* state L, and the others are as in ts.                                   *)
At(ts, t, L, C) ==
  /\ DOMAIN ts = Thread /\ t \in Thread /\ t = Cur(C) /\ IsSeq(C)
  /\ \A s \in Thread \ {t} : ThreadOK(ts[s], C, s)
  /\ ThreadOK(L, C, t) /\ FloorsOK(C) /\ HooksNest(C)
  /\ \A i \in 1 .. Len(C) : C[i].k = "resume" =>
       C[i].from \in Thread \ {t} /\ ~Top(ts[C[i].from]).lua

(* The running thread may get another state that is in order.              *)
LEMMA AtStep ==
  ASSUME NEW ts, NEW t, NEW L, NEW C, At(ts, t, L, C), NEW M, ThreadOK(M, C, t)
  PROVE  At(ts, t, M, C)
BY DEF At

(* A thread that has called lua_resume is not the one that runs.           *)
LEMMA FromOther ==
  ASSUME NEW C, ChainOK(C), NEW j \in 1 .. Len(C), C[j].k = "resume"
  PROVE  C[j].from \in Thread \ {Cur(C)} /\ j > 1 /\ C[j].from = C[j - 1].t
<1>1. /\ j > 1 /\ C[j].from = C[j - 1].t
      /\ \A i \in 1 .. j - 1 : C[i].t # C[j].t
  BY DEF ChainOK, ResumesOK
<1>2. Len(C) \in Nat /\ Cur(C) = C[Len(C)].t /\ j \in Nat
  BY RunningThread DEF Cur
<1>3. j - 1 \in 1 .. Len(C) /\ j - 1 \in 1 .. j - 1 /\ Len(C) \in 1 .. Len(C)
      /\ j \in j - 1 .. Len(C)
  BY <1>1, <1>2
<1>4. C[j - 1].t \in Thread /\ C[j - 1].t # C[j].t
  BY <1>1, <1>3 DEF ChainOK, ActsOK, ActOK
<1>5. C[j - 1].t # C[Len(C)].t
  <2>1. C[j - 1].t = C[Len(C)].t => C[j].t = C[j - 1].t
    BY <1>3 DEF ChainOK, RunsOK
  <2> QED
    BY <1>4, <2>1
<1> QED
  BY <1>1, <1>2, <1>4, <1>5

(* The thread that runs, of a program in order.                            *)
LEMMA DataAt ==
  ASSUME NEW T, NEW C, NEW p, NEW lev, Good(T, C, p, lev), Data(T, C, p),
         NEW t, t = Cur(C)
  PROVE  /\ At(T, t, T[t], C) /\ LiveOK(T[t], C, p) /\ MessageOK(T[t], C, t, p)
         /\ T[t].status = "ok" /\ StateOK(T[t]) /\ ChainOK(C) /\ Mem(T[t])
         /\ IsSeq(C) /\ Len(C) \in Nat
<1>1. ChainOK(C) /\ StatusOK(T, C) /\ \A s \in Thread : StateOK(T[s])
  BY DEF Good
<1>2. t \in Thread /\ t \in Running(C) /\ IsSeq(C)
  BY <1>1, RunningThread DEF ChainOK
<1>3. \A i \in 1 .. Len(C) : C[i].k = "resume" =>
        C[i].from \in Thread \ {t} /\ ~Top(T[C[i].from]).lua
  BY <1>1, FromOther DEF Data, Resumers
<1>4. At(T, t, T[t], C)
  BY <1>2, <1>3 DEF Data, At
<1>5. T[t].status = "ok"
  BY <1>1, <1>2 DEF StatusOK
<1>6. Mem(T[t])
  BY <1>2 DEF Data, ThreadOK
<1> QED
  BY <1>1, <1>2, <1>4, <1>5, <1>6, RunningThread DEF Data

(* The program is in order again once the running thread is.               *)
LEMMA AtData ==
  ASSUME NEW ts, NEW t, NEW L, NEW C, At(ts, t, L, C), NEW p, p # "enter",
         LiveOK(L, C, p), MessageOK(L, C, t, p)
  PROVE  Data([ts EXCEPT ![t] = L], C, p)
<1> DEFINE T == [ts EXCEPT ![t] = L]
<1>1. /\ DOMAIN T = Thread /\ T[t] = L /\ t = Cur(C)
      /\ \A s \in Thread \ {t} : T[s] = ts[s]
  BY DEF At
<1> HIDE DEF T
<1>2. \A s \in Thread : ThreadOK(T[s], C, s)
  BY <1>1 DEF At
<1>3. Resumers(T, C)
  BY <1>1 DEF At, Resumers
<1> QED
  BY <1>1, <1>2, <1>3 DEF At, Data, T

(* A step that goes on running.                                            *)
LEMMA AtGo ==
  ASSUME NEW ts, NEW t, NEW L, NEW C, At(ts, t, L, C), LiveOK(L, C, "none"),
         Go(ts, t, L, C)
  PROVE  Data(th', cst', pend')
<1>1. MessageOK(L, C, t, "none") /\ "none" # "enter"
  BY DEF MessageOK
<1> QED
  BY <1>1, AtData DEF Go

(* A step that raises an error.                                            *)
LEMMA AtThrow ==
  ASSUME NEW ts, NEW t, NEW L, NEW C, At(ts, t, L, C), NEW q,
         q \in {"ERRRUN", "ERRERR", "ERRMEM"}, Throw(ts, t, L, C, q)
  PROVE  Data(th', cst', pend')
<1>1. MessageOK(L, C, t, q) /\ q # "enter" /\ LiveOK(L, C, q)
  BY DEF MessageOK, LiveOK
<1> QED
  BY <1>1, AtData DEF Throw

(* No activation uses slots from the top on.                               *)
LEMMA AboveTop ==
  ASSUME NEW L, NEW C, NEW t, ThreadOK(L, C, t), NEW w \in Int, L.top <= w
  PROVE  Above(C, t, w)
<1> SUFFICES ASSUME NEW i \in 1 .. Len(C), C[i].t = t, Guarded(C[i])
             PROVE  Floor(C[i]) <= w
  BY DEF Above
<1>1. FloorOK(L, C[i]) /\ Mem(L)
  BY DEF ThreadOK, RecIn, RecOK
<1>2. Floor(C[i]) <= L.top /\ Floor(C[i]) \in Nat
  BY <1>1, Sizes DEF FloorOK
<1>3. L.top \in Nat
  BY <1>1, MemFacts
<1> QED
  BY <1>2, <1>3

(* Values are pushed.                                                      *)
LEMMA PushThread ==
  ASSUME NEW C, IsSeq(C), NEW t, NEW L, ThreadOK(L, C, t), NEW v \in Value,
         L.top < Slots
  PROVE  LET M == Push(L, v)
         IN /\ ThreadOK(M, C, t) /\ Top(M) = Top(L) /\ M.top = L.top + 1
            /\ Edit(M, L, L.top)
<1>1. Mem(L)
  BY DEF ThreadOK
<1>2. Clean(L) /\ L.top \in Nat /\ Top(L).base <= L.top /\ Slots \in Nat
  BY <1>1, MemFacts, Sizes
<1>3. Edit(Push(L, v), L, L.top) /\ Push(L, v).top = L.top + 1
  BY <1>2, PushEdit
<1>4. UpFree(L, L.top + 1)
  <2>1. UpFree(L, L.top) /\ Ups(L) \subseteq Nat
    BY <1>1, UpsBelow
  <2> QED
    BY <1>2, <2>1 DEF UpFree
<1>5. Above(C, t, L.top)
  BY <1>2, AboveTop
<1> QED
  BY <1>2, <1>3, <1>4, <1>5, EditThread

(* A step that raises an error with a message.                             *)
LEMMA AtRunError ==
  ASSUME NEW ts, NEW t, NEW L, NEW C, At(ts, t, L, C), RunError(ts, t, L, C)
  PROVE  Data(th', cst', pend')
<1> DEFINE L1 == Push(L, Message)
           L2 == IF isLua(L) THEN Push(L1, Message) ELSE L1
<1>1. L.top + 2 <= Slots /\ Throw(ts, t, L2, C, "message")
  BY DEF RunError
<1>2. IsSeq(C) /\ ThreadOK(L, C, t) /\ Mem(L) /\ Message \in Value
  BY Sizes DEF At, ThreadOK
<1>3. L.top \in Nat /\ Slots \in Nat /\ Top(L).base \in Nat /\ Top(L).base <= L.top
      /\ L.top + 1 <= Slots /\ L.top < Slots
  <2>1. Len(L.ci) \in 1 .. Len(L.ci)
    BY <1>2, MemFacts
  <2> QED
    BY <1>1, <1>2, <2>1, MemFacts, Sizes DEF Top
<1>4. /\ ThreadOK(L1, C, t) /\ Top(L1) = Top(L) /\ L1.top = L.top + 1
      /\ Edit(L1, L, L.top)
  BY <1>2, <1>3, PushThread
<1> HIDE DEF L1
<1>5. UpFree(L, L.top) /\ Ups(L) \subseteq Nat
  BY <1>2, UpsBelow
<1>6. CASE isLua(L)
  <2> DEFINE N == Push(L1, Message)
  <2>1. L1.top < Slots
    BY <1>1, <1>3, <1>4
  <2>2. /\ ThreadOK(N, C, t) /\ Top(N) = Top(L1) /\ N.top = L1.top + 1
        /\ Edit(N, L1, L1.top)
    BY <1>2, <1>4, <2>1, PushThread
  <2>3. L2 = N
    BY <1>6
  <2> HIDE DEF N, L2
  <2>4. N.openupval = L.openupval
    BY <1>4, <2>2 DEF Edit, Kept
  <2>5. UpFree(N, N.top - 1)
    <3>1. \A u \in Nat : u < L.top => u < N.top - 1
      BY <1>3, <1>4, <2>2
    <3> QED
      BY <1>5, <2>4, <3>1 DEF UpFree, Ups
  <2>6. N.top - 1 = L1.top /\ Top(L).base <= N.top - 1 /\ L1.top \in Int
    BY <1>3, <1>4, <2>2
  <2>7. Above(C, t, N.top - 1)
    BY <1>4, <2>6, AboveTop
  <2>8. MessageOK(N, C, t, "message") /\ LiveOK(N, C, "message") /\ "message" # "enter"
    BY <1>4, <2>2, <2>5, <2>6, <2>7 DEF MessageOK, LiveOK
  <2> QED
    BY <1>1, <2>2, <2>3, <2>8, AtStep, AtData DEF Throw
<1>7. CASE ~isLua(L)
  <2>1. L2 = L1
    BY <1>7
  <2> HIDE DEF L2
  <2>2. L1.openupval = L.openupval
    BY <1>4 DEF Edit, Kept
  <2>3. L1.top - 1 = L.top
    BY <1>3, <1>4
  <2>4. UpFree(L1, L1.top - 1)
    BY <1>5, <2>2, <2>3 DEF UpFree, Ups
  <2>5. Above(C, t, L1.top - 1)
    BY <1>2, <1>3, <2>3, AboveTop
  <2>6. MessageOK(L1, C, t, "message") /\ LiveOK(L1, C, "message") /\ "message" # "enter"
    BY <1>3, <1>4, <2>3, <2>4, <2>5 DEF MessageOK, LiveOK
  <2> QED
    BY <1>1, <1>4, <2>1, <2>6, AtStep, AtData DEF Throw
<1> QED
  BY <1>6, <1>7

-----------------------------------------------------------------------------
(* The C stack                                                             *)

(* The number of functions that luaV_execute runs plays no part in what an *)
(* activation asks of the stack.                                           *)
LEMMA RecSame ==
  ASSUME NEW L, NEW e, NEW up, RecOK(L, e, up), NEW v, NEW f, f = [e EXCEPT !.nexec = v]
  PROVE  /\ RecOK(L, f, up) /\ f.k = e.k /\ f.t = e.t /\ f.ci = e.ci
         /\ Guarded(e) => Floor(f) = Floor(e)
         /\ e.k = "resume" => f.from = e.from
         /\ e.k = "pcall" => f.allowhook = e.allowhook
<1>1. RecFields(e) /\ DOMAIN f = DOMAIN e
  BY DEF RecOK
<1>2. f.k = e.k /\ f.t = e.t /\ f.ci = e.ci
  BY <1>1 DEF RecFields
<1>3. e.k = "hook" => f.top = e.top /\ f.citop = e.citop
  BY <1>1 DEF RecFields
<1>4. e.k = "pcall" => /\ f.oldtop = e.oldtop /\ f.keep = e.keep
                       /\ f.errfunc = e.errfunc /\ f.allowhook = e.allowhook
  BY <1>1 DEF RecFields
<1>5. e.k \in {"callTMres", "compare"} => f.res = e.res
  BY <1>1 DEF RecFields
<1>6. e.k = "resume" => f.from = e.from
  BY <1>1 DEF RecFields
<1>7. RecFields(f)
  BY <1>1, <1>2 DEF RecFields
<1>8. Guarded(e) => Floor(f) = Floor(e) /\ Low(f) = Low(e)
  BY <1>2, <1>3, <1>4 DEF Guarded, Floor, Low
<1>9. Guarded(e) => FloorOK(L, f)
  BY <1>2, <1>8 DEF FloorOK, RecOK
<1>10. e.k = "hook" => HookRec(L, f)
  BY <1>2, <1>3 DEF HookRec, RecOK
<1>11. e.k = "pcall" => PcallRec(L, f)
  BY <1>2, <1>4, <1>8 DEF PcallRec, RecOK, Guarded
<1>12. e.k \in Meta => MetaRec(L, f)
  BY <1>2, <1>5 DEF MetaRec, RecOK
<1>13. EnteredOK(L, e) => EnteredOK(L, f)
  BY <1>2 DEF EnteredOK, CalleeOK
<1> QED
  BY <1>2, <1>4, <1>6, <1>7, <1>8, <1>9, <1>10, <1>11, <1>12, <1>13 DEF RecOK, Guarded

(* luaV_execute runs one function more, or one fewer.                      *)
LEMMA AtExec ==
  ASSUME NEW ts, NEW t, NEW L, NEW C, At(ts, t, L, C), ActsOK(C), C # <<>>, NEW d
  PROVE  At(ts, t, L, Executing(C, d))
<1> DEFINE n == Len(C)
           D == Executing(C, d)
           v == C[n].nexec + d
<1>1. IsSeq(C) /\ n \in Nat /\ n >= 1 /\ n \in 1 .. n
  BY DEF At, IsSeq
<1> DEFINE f == [C[n] EXCEPT !.nexec = v]
<1>2. D = [C EXCEPT ![n] = f]
  BY DEF Executing
<1> HIDE DEF D, f
<1>3. IsSeq(D) /\ Len(D) = n /\ D[n] = f /\ \A i \in 1 .. n - 1 : D[i] = C[i]
  <2> DEFINE z == [C EXCEPT ![Len(C)] = f]
  <2>1. IsSeq(z) /\ Len(z) = n /\ z[n] = f /\ \A i \in 1 .. n - 1 : z[i] = C[i]
    BY <1>1, SeqSet
  <2> QED
    BY <1>2, <2>1
<1> HIDE DEF n, v
<1>10. \A i \in 1 .. n : i = n \/ D[i] = C[i]
  BY <1>1, <1>3
<1>4. ASSUME NEW i \in 1 .. n, NEW M, NEW up, RecOK(M, C[i], up)
      PROVE  /\ RecOK(M, D[i], up)
             /\ D[i].k = C[i].k /\ D[i].t = C[i].t /\ D[i].ci = C[i].ci
             /\ Guarded(C[i]) => Floor(D[i]) = Floor(C[i])
             /\ C[i].k = "resume" => D[i].from = C[i].from
             /\ C[i].k = "pcall" => D[i].allowhook = C[i].allowhook
  <2>1. CASE i = n
    <3>1. f = [C[n] EXCEPT !.nexec = v] /\ RecOK(M, C[n], up)
      BY <1>4, <2>1 DEF f
    <3>2. D[i] = f /\ C[i] = C[n]
      BY <1>3, <2>1
    <3> DEFINE r == C[n]
    <3> HIDE DEF r
    <3>4. f = [r EXCEPT !.nexec = v] /\ RecOK(M, r, up)
      BY <3>1 DEF r
    <3>3. /\ RecOK(M, f, up) /\ f.k = r.k /\ f.t = r.t /\ f.ci = r.ci
          /\ Guarded(r) => Floor(f) = Floor(r)
          /\ r.k = "resume" => f.from = r.from
          /\ r.k = "pcall" => f.allowhook = r.allowhook
      BY <3>4, RecSame
    <3> QED
      BY <3>2, <3>3 DEF r
  <2>2. CASE i # n
    BY <1>4, <1>10, <2>2
  <2> QED
    BY <2>1, <2>2
<1>5. ASSUME NEW i \in 1 .. n
      PROVE  /\ D[i].k = C[i].k /\ D[i].t = C[i].t /\ D[i].ci = C[i].ci
             /\ Guarded(C[i]) => Floor(D[i]) = Floor(C[i])
             /\ Guarded(C[i]) <=> Guarded(D[i])
             /\ C[i].k = "resume" => D[i].from = C[i].from
             /\ C[i].k = "pcall" => D[i].allowhook = C[i].allowhook
  <2>1. C[i].t \in Thread
    BY DEF ActsOK, ActOK, n
  <2>2. PICK M : ThreadOK(M, C, C[i].t)
    BY <2>1 DEF At
  <2>3. RecOK(M, C[i], Until(M, C, i))
    BY <2>2 DEF ThreadOK, RecIn, n
  <2> QED
    BY <1>4, <2>3 DEF Guarded
<1>6. ASSUME NEW s, NEW M, ThreadOK(M, C, s) PROVE ThreadOK(M, D, s)
  <2> SUFFICES ASSUME NEW i \in 1 .. n, D[i].t = s PROVE RecIn(M, D, i)
    BY <1>3, <1>6 DEF ThreadOK
  <2>1. RecIn(M, C, i)
    BY <1>5, <1>6 DEF ThreadOK, n
  <2>2. Until(M, D, i) = Until(M, C, i)
    <3>1. i < n => i + 1 \in 1 .. n
      BY <1>1
    <3> QED
      BY <1>3, <1>5, <3>1 DEF Until, n
  <2>3. RecOK(M, D[i], Until(M, D, i))
    BY <1>4, <2>1, <2>2 DEF RecIn
  <2>4. i > 1 => i - 1 \in 1 .. n
    BY <1>1
  <2> QED
    BY <1>5, <2>1, <2>3, <2>4 DEF RecIn
<1>7. FloorsOK(D)
  BY <1>3, <1>5 DEF FloorsOK, At, n
<1>8. HooksNest(D)
  <2> SUFFICES ASSUME NEW i \in 1 .. n, D[i].k = "hook",
                      NEW k \in i + 1 .. n, D[k].t = D[i].t
               PROVE  /\ D[k].k # "hook" /\ (D[k].k = "pcall" => ~D[k].allowhook)
                      /\ k = i + 1 => D[k].k \notin Meta
    BY <1>3 DEF HooksNest
  <2>1. k \in 1 .. n
    BY <1>1
  <2>2. HooksNest(C)
    BY DEF At
  <2>3. /\ C[i].k = "hook" /\ C[k].t = C[i].t /\ D[k].k = C[k].k
        /\ C[k].k = "pcall" => D[k].allowhook = C[k].allowhook
    BY <1>5, <2>1
  <2>4. /\ C[k].k # "hook" /\ (C[k].k = "pcall" => ~C[k].allowhook)
        /\ k = i + 1 => C[k].k \notin Meta
    BY <2>2, <2>3 DEF HooksNest, n
  <2> QED
    BY <2>3, <2>4
<1>9. Cur(D) = t
  <2>1. D # <<>>
    BY <1>1, <1>3
  <2>2. t = C[n].t
    BY DEF At, Cur, n
  <2> QED
    BY <1>1, <1>3, <1>5, <2>1, <2>2 DEF Cur
<1> QED
  BY <1>3, <1>5, <1>6, <1>7, <1>8, <1>9 DEF At, D, n

(* An activation is entered.                                               *)
LEMMA AppendThread ==
  ASSUME NEW C, IsSeq(C), NEW s, NEW L, ThreadOK(L, C, s), NEW e,
         e.t = s => /\ RecIn(L, Append(C, e), Len(C) + 1) /\ e.ci = Len(L.ci)
  PROVE  ThreadOK(L, Append(C, e), s)
<1> DEFINE n == Len(C)
           D == Append(C, e)
<1>1. n \in Nat /\ IsSeq(D) /\ Len(D) = n + 1 /\ D[n + 1] = e
      /\ \A i \in 1 .. n : D[i] = C[i]
  BY SeqAppend
<1> HIDE DEF D, n
<1> SUFFICES ASSUME NEW i \in 1 .. n + 1, D[i].t = s PROVE RecIn(L, D, i)
  BY <1>1 DEF ThreadOK, D
<1>2. CASE i = n + 1
  BY <1>1, <1>2 DEF D, n
<1>3. CASE i # n + 1
  <2>1. i \in 1 .. n /\ D[i] = C[i] /\ C[i].t = s
    BY <1>1, <1>3
  <2>2. RecIn(L, C, i)
    BY <2>1 DEF ThreadOK, n
  <2>3. Until(L, D, i) = Until(L, C, i)
    <3>1. CASE i = n
      BY <1>1, <2>1, <3>1 DEF Until, D, n
    <3>2. CASE i < n
      <4>1. i + 1 \in 1 .. n
        BY <1>1, <2>1, <3>2
      <4> QED
        BY <1>1, <2>1, <3>2, <4>1 DEF Until, n
    <3> QED
      BY <1>1, <2>1, <3>1, <3>2
  <2>4. i > 1 => i - 1 \in 1 .. n
    BY <1>1, <2>1
  <2> QED
    BY <1>1, <2>1, <2>2, <2>3, <2>4 DEF RecIn
<1> QED
  BY <1>2, <1>3

(* C code calls into the thread that runs.                                 *)
LEMMA AtAppend ==
  ASSUME NEW ts, NEW t, NEW L, NEW C, At(ts, t, L, C), NEW e, e.t = t,
         e.ci = Len(L.ci), RecOK(L, e, Len(L.ci)), e.k # "resume",
         e.k = "hook" => ~L.allowhook,
         e.k \in {"call", "pcall"} =>
           ~L.ci[e.ci].lua \/ (C # <<>> /\ C[Len(C)].k = "hook"),
         Guarded(e) => Above(C, t, Floor(e)),
         \A i \in 1 .. Len(C) : (C[i].t = t /\ C[i].k = "hook") =>
           /\ e.k # "hook" /\ (e.k = "pcall" => ~e.allowhook)
           /\ i = Len(C) => e.k \notin Meta
  PROVE  At(ts, t, L, Append(C, e))
<1> DEFINE n == Len(C)
           D == Append(C, e)
<1>9. IsSeq(C)
  BY DEF At
<1>1. IsSeq(C) /\ n \in Nat /\ IsSeq(D) /\ Len(D) = n + 1 /\ D[n + 1] = e /\ D # <<>>
      /\ \A i \in 1 .. n : D[i] = C[i]
  BY <1>9, SeqAppend
<1>2. C # <<>> => n >= 1
  BY <1>1 DEF IsSeq
<1> HIDE DEF D, n
<1>3. RecIn(L, D, n + 1)
  <2>1. Until(L, D, n + 1) = Len(L.ci)
    BY <1>1 DEF Until
  <2>2. (C # <<>> /\ C[Len(C)].k = "hook") => n + 1 > 1 /\ D[(n + 1) - 1].k = "hook"
    BY <1>1, <1>2 DEF n
  <2> QED
    BY <1>1, <2>1, <2>2 DEF RecIn
<1>4. ThreadOK(L, D, t) /\ \A s \in Thread \ {t} : ThreadOK(ts[s], D, s)
  BY <1>1, <1>3, AppendThread DEF At, D, n
<1>5. FloorsOK(D)
  <2> SUFFICES ASSUME NEW i \in 1 .. n + 1, NEW k \in 1 .. n + 1, i < k,
                      D[i].t = D[k].t, Guarded(D[i]), Guarded(D[k])
               PROVE  Floor(D[i]) <= Floor(D[k])
    BY <1>1 DEF FloorsOK
  <2>1. i \in 1 .. n /\ D[i] = C[i]
    BY <1>1
  <2>2. CASE k = n + 1
    BY <1>1, <2>1, <2>2 DEF Above, n
  <2>3. CASE k # n + 1
    <3>1. k \in 1 .. n /\ D[k] = C[k]
      BY <1>1, <2>3
    <3> QED
      BY <2>1, <3>1 DEF At, FloorsOK, n
  <2> QED
    BY <2>2, <2>3
<1>6. HooksNest(D)
  <2> SUFFICES ASSUME NEW i \in 1 .. n + 1, D[i].k = "hook",
                      NEW k \in i + 1 .. n + 1, D[k].t = D[i].t
               PROVE  /\ D[k].k # "hook" /\ (D[k].k = "pcall" => ~D[k].allowhook)
                      /\ k = i + 1 => D[k].k \notin Meta
    BY <1>1 DEF HooksNest
  <2>1. i \in 1 .. n /\ D[i] = C[i]
    BY <1>1
  <2>2. CASE k = n + 1
    BY <1>1, <2>1, <2>2 DEF n
  <2>3. CASE k # n + 1
    <3>1. k \in i + 1 .. n /\ k \in 1 .. n /\ D[k] = C[k]
      BY <1>1, <2>1, <2>3
    <3>2. HooksNest(C)
      BY DEF At
    <3>3. /\ C[k].k # "hook" /\ (C[k].k = "pcall" => ~C[k].allowhook)
          /\ k = i + 1 => C[k].k \notin Meta
      BY <2>1, <3>1, <3>2 DEF HooksNest, n
    <3> QED
      BY <3>1, <3>3
  <2> QED
    BY <2>2, <2>3
<1>7. Cur(D) = t
  BY <1>1 DEF Cur
<1>8. ASSUME NEW i \in 1 .. n + 1, D[i].k = "resume"
      PROVE  D[i].from \in Thread \ {t} /\ ~Top(ts[D[i].from]).lua
  <2>1. i \in 1 .. n /\ D[i] = C[i]
    BY <1>1, <1>8
  <2> QED
    BY <1>8, <2>1 DEF At, n
<1> QED
  BY <1>1, <1>4, <1>5, <1>6, <1>7, <1>8 DEF At, D

(* The C stack is cut off above its m-th activation.                       *)
LEMMA CutThread ==
  ASSUME NEW C, IsSeq(C), NEW s, NEW L, ThreadOK(L, C, s), NEW m \in 0 .. Len(C) - 1,
         C[m + 1].t = s => C[m + 1].ci = Len(L.ci)
  PROVE  ThreadOK(L, SubSeq(C, 1, m), s)
<1> DEFINE n == Len(C)
           D == SubSeq(C, 1, m)
<1>1. n \in Nat /\ m \in Nat /\ m < n /\ m \in 0 .. n
  BY DEF IsSeq
<1>2. IsSeq(D) /\ Len(D) = m /\ \A i \in 1 .. m : D[i] = C[i]
  BY <1>1, SeqCut
<1> HIDE DEF D, n
<1> SUFFICES ASSUME NEW i \in 1 .. m, D[i].t = s PROVE RecIn(L, D, i)
  BY <1>2 DEF ThreadOK, D
<1>3. i \in 1 .. n /\ i + 1 \in 1 .. n /\ D[i] = C[i] /\ C[i].t = s
  BY <1>1, <1>2
<1>4. RecIn(L, C, i)
  BY <1>3 DEF ThreadOK, n
<1>5. Until(L, D, i) = Until(L, C, i)
  <2>1. CASE i = m
    BY <1>1, <1>2, <1>3, <2>1 DEF Until, n
  <2>2. CASE i < m
    <3>1. i + 1 \in 1 .. m
      BY <1>1, <2>2
    <3> QED
      BY <1>1, <1>2, <1>3, <2>2, <3>1 DEF Until, n
  <2> QED
    BY <1>1, <2>1, <2>2
<1>6. i > 1 => i - 1 \in 1 .. m
  BY <1>1
<1> QED
  BY <1>2, <1>3, <1>4, <1>5, <1>6 DEF RecIn

(* The activations below the innermost ones are as well ordered.           *)
LEMMA CutOrders ==
  ASSUME NEW C, IsSeq(C), FloorsOK(C), HooksNest(C), NEW m \in 0 .. Len(C)
  PROVE  LET D == SubSeq(C, 1, m)
         IN /\ FloorsOK(D) /\ HooksNest(D) /\ IsSeq(D) /\ Len(D) = m
            /\ \A i \in 1 .. m : D[i] = C[i] /\ i \in 1 .. Len(C)
<1> DEFINE D == SubSeq(C, 1, m)
<1>1. IsSeq(D) /\ Len(D) = m /\ \A i \in 1 .. m : D[i] = C[i]
  BY SeqCut
<1>2. Len(C) \in Nat /\ m \in Nat /\ m <= Len(C)
  BY DEF IsSeq
<1> HIDE DEF D
<1>3. \A i \in 1 .. m : i \in 1 .. Len(C)
  BY <1>2
<1>4. FloorsOK(D)
  BY <1>1, <1>3 DEF FloorsOK
<1>5. HooksNest(D)
  <2> SUFFICES ASSUME NEW i \in 1 .. m, D[i].k = "hook",
                      NEW k \in i + 1 .. m, D[k].t = D[i].t
               PROVE  /\ D[k].k # "hook" /\ (D[k].k = "pcall" => ~D[k].allowhook)
                      /\ k = i + 1 => D[k].k \notin Meta
    BY <1>1 DEF HooksNest
  <2>1. k \in i + 1 .. Len(C) /\ k \in 1 .. m /\ i \in 1 .. Len(C)
    BY <1>2, <1>3
  <2>2. D[i] = C[i] /\ D[k] = C[k]
    BY <1>1, <2>1
  <2> HIDE DEF Meta
  <2>3. /\ C[k].k # "hook" /\ (C[k].k = "pcall" => ~C[k].allowhook)
        /\ k = i + 1 => C[k].k \notin Meta
    BY <2>1, <2>2 DEF HooksNest
  <2> QED
    BY <2>2, <2>3
<1> QED
  BY <1>1, <1>3, <1>4, <1>5 DEF D

(* C code is left, and the same thread runs below it.                      *)
LEMMA AtCut ==
  ASSUME NEW ts, NEW t, NEW L, NEW C, At(ts, t, L, C), NEW m \in 0 .. Len(C) - 1,
         C[m + 1].t = t, t = Cur(SubSeq(C, 1, m)),
         NEW M, ThreadOK(M, SubSeq(C, 1, m), t)
  PROVE  At(ts, t, M, SubSeq(C, 1, m))
<1> DEFINE D == SubSeq(C, 1, m)
<1>1. Len(C) \in Nat /\ m \in 0 .. Len(C)
  BY DEF At, IsSeq
<1>2. /\ FloorsOK(D) /\ HooksNest(D) /\ IsSeq(D) /\ Len(D) = m
      /\ \A i \in 1 .. m : D[i] = C[i] /\ i \in 1 .. Len(C)
  BY <1>1, CutOrders DEF At
<1>3. \A s \in Thread \ {t} : ThreadOK(ts[s], D, s)
  BY CutThread DEF At
<1> HIDE DEF D
<1>4. ASSUME NEW i \in 1 .. m, D[i].k = "resume"
      PROVE  D[i].from \in Thread \ {t} /\ ~Top(ts[D[i].from]).lua
  BY <1>2, <1>4 DEF At
<1> QED
  BY <1>2, <1>3, <1>4 DEF At, D

-----------------------------------------------------------------------------
(* Where the activations of the running thread are                         *)

(* The frames that the activations found, for arithmetic.                  *)
LEMMA Levels ==
  ASSUME NEW T, NEW C, NEW p, NEW lev, Good(T, C, p, lev), C # <<>>,
         NEW n, n = Len(C), NEW t, t = C[n].t
  PROVE  /\ n \in Nat /\ n >= 1 /\ n \in 1 .. n /\ t \in Thread /\ Len(T[t].ci) \in Nat
         /\ \A i \in 1 .. n : C[i].ci = lev[i] /\ lev[i] \in Nat
         /\ Upper(T, C, lev, n) = Len(T[t].ci)
         /\ BlockOK(T[t], C[n], lev[n], Len(T[t].ci))
         /\ \A i, j \in 1 .. n : (i <= j /\ C[i].t = C[j].t) => lev[i] <= lev[j]
         /\ \A i \in 1 .. n : C[i].t = t => \A j \in i .. n : C[j].t = t
<1>1. ChainOK(C) /\ FramesOK(T, C, lev) /\ Len(T[t].ci) \in Nat
      /\ \A i \in 1 .. Len(C) : C[i].t \in Thread /\ lev[i] \in Nat
  <2>1. ChainOK(C) /\ FramesOK(T, C, lev)
    BY DEF Good
  <2>2. \A i \in 1 .. Len(C) : C[i].t \in Thread /\ lev[i] \in Nat
    BY Numbers
  <2>3. n \in 1 .. Len(C)
    BY <2>1, RunningThread
  <2> QED
    BY <2>1, <2>2, <2>3, Numbers
<1>2. n \in Nat /\ n >= 1 /\ n \in 1 .. n
  BY <1>1, RunningThread
<1>3. \A i \in 1 .. n : C[i].ci = lev[i]
  BY <1>1 DEF FramesOK
<1>4. Upper(T, C, lev, n) = Len(T[t].ci)
  BY <1>2 DEF Upper
<1>5. BlockOK(T[t], C[n], lev[n], Len(T[t].ci))
  BY <1>1, <1>2, <1>4 DEF FramesOK
<1>6. ASSUME NEW i \in 1 .. n, NEW j \in 1 .. n, i <= j, C[i].t = C[j].t
      PROVE  lev[i] <= lev[j]
  <2>1. j \in i .. n
    BY <1>6
  <2> QED
    BY <1>1, <1>6, <2>1 DEF FramesOK
<1>7. ASSUME NEW i \in 1 .. n, C[i].t = t, NEW j \in i .. n PROVE C[j].t = t
  BY <1>1, <1>2, <1>7 DEF ChainOK, RunsOK
<1> QED
  BY <1>1, <1>2, <1>3, <1>4, <1>5, <1>6, <1>7

(* The same of the activation that runs.                                   *)
LEMMA CurLevels ==
  ASSUME NEW lev, Good(th, cst, pend, lev), cst # <<>>, NEW n, n = Len(cst),
         NEW t, t = Cur(cst)
  PROVE  /\ n \in Nat /\ n >= 1 /\ n \in 1 .. n /\ t \in Thread /\ cst[n].t = t
         /\ \A i \in 1 .. n : cst[i].ci = lev[i] /\ lev[i] \in Nat
         /\ \A i, j \in 1 .. n : (i <= j /\ cst[i].t = cst[j].t) => lev[i] <= lev[j]
         /\ \A i \in 1 .. n : cst[i].t = t => \A j \in i .. n : cst[j].t = t
<1>1. t = cst[n].t
  BY DEF Cur
<1> QED
  BY <1>1, Levels

(* While a function runs, its frame is above those the activations found.  *)
LEMMA Below ==
  ASSUME NEW T, NEW C, NEW lev, Good(T, C, "none", lev), C # <<>>,
         NEW n, n = Len(C), NEW t, t = C[n].t, C[n].k # "hook"
  PROVE  \A i \in 1 .. n : C[i].t = t => C[i].ci < Len(T[t].ci)
<1>1. /\ n \in Nat /\ n >= 1 /\ n \in 1 .. n /\ Len(T[t].ci) \in Nat
      /\ \A i \in 1 .. n : C[i].ci = lev[i] /\ lev[i] \in Nat
      /\ Upper(T, C, lev, n) = Len(T[t].ci)
      /\ \A i, j \in 1 .. n : (i <= j /\ C[i].t = C[j].t) => lev[i] <= lev[j]
  BY Levels
<1>2. lev[n] < Len(T[t].ci)
  <2>1. BusyOK(T, C, "none", lev)
    BY DEF Good
  <2> QED
    BY <1>1, <2>1 DEF BusyOK
<1> SUFFICES ASSUME NEW i \in 1 .. n, C[i].t = t PROVE C[i].ci < Len(T[t].ci)
  OBVIOUS
<1>3. lev[i] <= lev[n]
  BY <1>1
<1> QED
  BY <1>1, <1>2, <1>3

(* A hook has the frame of the function that it interrupts.                *)
LEMMA BelowHook ==
  ASSUME NEW T, NEW C, NEW p, NEW lev, Good(T, C, p, lev), HooksNest(C), C # <<>>,
         NEW n, n = Len(C), NEW t, t = C[n].t, C[n].k = "hook"
  PROVE  /\ C[n].ci = Len(T[t].ci)
         /\ \A i \in 1 .. n - 1 : C[i].t = t => C[i].ci < Len(T[t].ci)
<1>1. /\ n \in Nat /\ n >= 1 /\ n \in 1 .. n /\ Len(T[t].ci) \in Nat
      /\ \A i \in 1 .. n : C[i].ci = lev[i] /\ lev[i] \in Nat
      /\ Upper(T, C, lev, n) = Len(T[t].ci)
      /\ BlockOK(T[t], C[n], lev[n], Len(T[t].ci))
      /\ \A i, j \in 1 .. n : (i <= j /\ C[i].t = C[j].t) => lev[i] <= lev[j]
      /\ \A i \in 1 .. n : C[i].t = t => \A j \in i .. n : C[j].t = t
  BY Levels
<1>2. lev[n] = Len(T[t].ci)
  BY <1>1 DEF BlockOK
<1>3. ASSUME NEW i \in 1 .. n - 1, C[i].t = t PROVE C[i].ci < Len(T[t].ci)
  <2>1. i \in 1 .. n /\ n - 1 \in 1 .. n /\ n - 1 \in i .. n /\ i <= n - 1 /\ n - 1 < n
        /\ (n - 1) + 1 = n /\ n \in (n - 1) + 1 .. n
    BY <1>1
  <2>2. C[n - 1].t = t
    BY <1>1, <1>3, <2>1
  <2>3. C[n - 1].k # "hook"
    BY <2>1, <2>2 DEF HooksNest
  <2>4. BusyOK(T, C, p, lev)
    BY DEF Good
  <2>5. lev[n - 1] < Upper(T, C, lev, n - 1)
    BY <2>1, <2>3, <2>4 DEF BusyOK
  <2>6. Upper(T, C, lev, n - 1) = lev[n]
    BY <2>1, <2>2 DEF Upper
  <2>7. lev[i] <= lev[n - 1]
    BY <1>1, <1>3, <2>1, <2>2
  <2> DEFINE x == lev[i]
             y == lev[n - 1]
             z == lev[n]
  <2>8. x \in Nat /\ y \in Nat /\ z \in Nat /\ C[i].ci = x
    BY <1>1, <2>1
  <2>9. x <= y /\ y < z /\ z = Len(T[t].ci)
    BY <1>2, <2>5, <2>6, <2>7
  <2> HIDE DEF x, y, z
  <2> QED
    BY <2>8, <2>9
<1> QED
  BY <1>1, <1>2, <1>3

(* All activations of thread t are below its top frame.                    *)
Under(L, C, t) == \A i \in 1 .. Len(C) : C[i].t = t => C[i].ci < Len(L.ci)

(* Then they use no slots from the function on.                            *)
LEMMA UnderAbove ==
  ASSUME NEW L, NEW C, NEW t, ThreadOK(L, C, t), Under(L, C, t),
         NEW w \in Int, Top(L).func <= w
  PROVE  Above(C, t, w)
<1> SUFFICES ASSUME NEW i \in 1 .. Len(C), C[i].t = t, Guarded(C[i])
             PROVE  Floor(C[i]) <= w
  BY DEF Above
<1> DEFINE n == Len(L.ci)
<1>1. FloorOK(L, C[i]) /\ Mem(L) /\ C[i].ci \in 1 .. n
  BY DEF ThreadOK, RecIn, RecOK
<1>2. C[i].ci < n
  BY DEF Under
<1>3. n \in Nat /\ n \in 1 .. n /\ L.ci[n].func \in Nat
  <2>1. n \in Nat /\ n >= 1
    BY <1>1, MemFacts
  <2> QED
    BY <1>1, <2>1, MemFacts
<1> HIDE DEF n
<1>4. n \in C[i].ci + 1 .. n
  BY <1>1, <1>2, <1>3
<1>5. Floor(C[i]) <= L.ci[n].func /\ Floor(C[i]) \in Nat
  BY <1>1, <1>4, Sizes DEF FloorOK, n
<1> QED
  BY <1>3, <1>5 DEF Top, n

(* What Lua code knows.                                                    *)
LEMMA LuaAt ==
  ASSUME NEW lev, Good(th, cst, pend, lev), Data(th, cst, pend), NEW t, LuaRuns(t),
         NEW L, L = th[t]
  PROVE  /\ At(th, t, L, cst) /\ pend = "none" /\ cst # <<>> /\ ChainOK(cst)
         /\ ThreadOK(L, cst, t) /\ Mem(L) /\ StateOK(L) /\ IsSeq(cst) /\ L.status = "ok"
         /\ Frame(L) = Top(L) /\ Top(L).lua /\ cst[Len(cst)].k # "hook"
         /\ ~Top(L).open => L.top = Top(L).top
         /\ Under(L, cst, t) /\ Above(cst, t, Top(L).func) /\ Above(cst, t, Top(L).base)
         /\ Top(L) \in FrameType /\ Top(L).base \in Nat /\ Top(L).top \in Nat
         /\ Top(L).func \in Nat /\ 1 <= Top(L).func
         /\ Top(L).func < Top(L).base /\ Top(L).base <= Top(L).top /\ Top(L).top <= Slots
         /\ Top(L).base <= L.top /\ L.top \in Nat /\ L.top <= Slots /\ Clean(L)
         /\ UpFree(L, L.top)
<1>1. pend = "none" /\ cst # <<>> /\ t = Current /\ ~InHook /\ isLua(L)
  BY LuaRunsFacts DEF LuaRuns, InC
<1>2. t = Cur(cst) /\ t = cst[Len(cst)].t /\ Last(cst) = cst[Len(cst)]
  BY <1>1, CurrentThread DEF Cur
<1>3. /\ At(th, t, L, cst) /\ LiveOK(L, cst, pend) /\ L.status = "ok" /\ StateOK(L)
      /\ ChainOK(cst) /\ Mem(L) /\ IsSeq(cst) /\ ThreadOK(L, cst, t)
  BY <1>2, DataAt DEF At
<1>4. cst[Len(cst)].k # "hook"
  BY <1>1, <1>2 DEF InHook
<1>5. Frame(L) = Top(L) /\ Clean(L) /\ L.top \in Nat /\ L.top <= Slots /\ Top(L).base <= L.top
      /\ UpFree(L, L.top)
  BY <1>3, MemFacts, UpsBelow
<1>6. Len(L.ci) \in 1 .. Len(L.ci)
  BY <1>3, MemFacts
<1>7. /\ Top(L) \in FrameType /\ Top(L).base \in Nat /\ Top(L).top \in Nat
      /\ Top(L).func \in Nat /\ Top(L).func < Top(L).base /\ Top(L).base <= Top(L).top
      /\ Top(L).top <= Slots /\ 1 <= Top(L).func
  BY <1>3, <1>6, MemFacts DEF Top
<1>8. Under(L, cst, t)
  BY <1>1, <1>2, <1>4, Below DEF Under
<1>9. Above(cst, t, Top(L).func) /\ Above(cst, t, Top(L).base)
  BY <1>3, <1>7, <1>8, UnderAbove
<1>10. Top(L).lua /\ (~Top(L).open => L.top = Top(L).top)
  BY <1>1, <1>3, <1>4, <1>5 DEF LiveOK, isLua
<1> QED
  BY <1>1, <1>3, <1>4, <1>5, <1>7, <1>8, <1>9, <1>10

(* What C code knows: its slots are those from Bottom(t) on.               *)
LEMMA CAt ==
  ASSUME NEW lev, Good(th, cst, pend, lev), Data(th, cst, pend), NEW t, CRuns(t),
         NEW L, L = th[t]
  PROVE  /\ At(th, t, L, cst) /\ pend = "none" /\ ChainOK(cst)
         /\ ThreadOK(L, cst, t) /\ Mem(L) /\ StateOK(L) /\ IsSeq(cst) /\ L.status = "ok"
         /\ Frame(L) = Top(L) /\ Above(cst, t, Bottom(t)) /\ Bottom(t) \in Slot
         /\ Top(L).base <= Bottom(t) /\ UpFree(L, Bottom(t)) /\ Clean(L)
         /\ Top(L) \in FrameType /\ Top(L).base \in Nat /\ Top(L).top \in Nat
         /\ Top(L).base <= L.top /\ L.top \in Nat /\ L.top <= Slots /\ Top(L).top <= Slots
         /\ Top(L).lua => cst # <<>> /\ cst[Len(cst)].k = "hook"
         /\ InHook <=> (cst # <<>> /\ cst[Len(cst)].k = "hook")
<1>1. /\ pend = "none" /\ t = Current /\ t = Cur(cst) /\ (InHook \/ ~isLua(L))
      /\ cst # <<>> => Last(cst) = cst[Len(cst)]
  BY CRunsFacts, CurrentThread DEF CRuns, InC
<1>2. /\ At(th, t, L, cst) /\ L.status = "ok" /\ StateOK(L)
      /\ ChainOK(cst) /\ Mem(L) /\ IsSeq(cst) /\ ThreadOK(L, cst, t) /\ Len(cst) \in Nat
  BY <1>1, DataAt DEF At
<1>3. InHook <=> (cst # <<>> /\ cst[Len(cst)].k = "hook")
  BY <1>1 DEF InHook
<1>4. Frame(L) = Top(L) /\ Clean(L) /\ L.top \in Nat /\ L.top <= Slots /\ Top(L).base <= L.top
  BY <1>2, MemFacts
<1>5. Len(L.ci) \in 1 .. Len(L.ci)
  BY <1>2, MemFacts
<1>6. /\ Top(L) \in FrameType /\ Top(L).base \in Nat /\ Top(L).top \in Nat
      /\ Top(L).func \in Nat /\ Top(L).func < Top(L).base /\ Top(L).top <= Slots
      /\ Top(L).base \in Slot
  BY <1>2, <1>5, MemFacts DEF Top, FrameType
<1>7. CASE InHook
  <2> DEFINE n == Len(cst)
             e == cst[n]
  <2>1. cst # <<>> /\ e.k = "hook" /\ e.t = t /\ n \in 1 .. n /\ Bottom(t) = e.top
    <3>1. cst # <<>> => Len(cst) >= 1
      BY <1>2, RunningThread
    <3> QED
      BY <1>1, <1>2, <1>3, <1>7, <3>1 DEF Cur, Bottom
  <2>2. e.ci = Len(L.ci)
    BY <1>1, <2>1, BelowHook DEF Data
  <2>3. FloorOK(L, e) /\ Guarded(e)
    BY <1>2, <2>1 DEF ThreadOK, RecIn, RecOK, Guarded
  <2>4. Floor(e) = Bottom(t) /\ Low(e) = Bottom(t)
    BY <2>1 DEF Floor, Low
  <2>5. Bottom(t) \in Slot /\ Top(L).base <= Bottom(t)
    BY <2>2, <2>3, <2>4 DEF FloorOK, Top
  <2>6. ASSUME NEW u \in Ups(L) PROVE u < Bottom(t)
    BY <1>5, <2>2, <2>3, <2>4 DEF FloorOK
  <2>7. ASSUME NEW i \in 1 .. n, cst[i].t = t, Guarded(cst[i]) PROVE Floor(cst[i]) <= Bottom(t)
    <3>1. CASE i = n
      <4>1. Floor(cst[i]) = Bottom(t)
        BY <2>4, <3>1
      <4>2. Bottom(t) \in Nat
        BY <2>5, Sizes
      <4> QED
        BY <4>1, <4>2
    <3>2. CASE i # n
      <4>1. i < n
        BY <2>1, <3>2
      <4> QED
        BY <1>2, <2>1, <2>3, <2>4, <2>7, <4>1 DEF At, FloorsOK
    <3> QED
      BY <3>1, <3>2
  <2>8. Above(cst, t, Bottom(t))
    BY <2>7 DEF Above
  <2> QED
    BY <1>1, <1>2, <1>3, <1>4, <1>6, <2>1, <2>5, <2>6, <2>8 DEF UpFree
<1>8. CASE ~InHook
  <2>1. ~Top(L).lua /\ Bottom(t) = L.base
    BY <1>1, <1>4, <1>8 DEF isLua, Bottom
  <2>2. L.base = Top(L).base
    BY <1>2 DEF Mem, WindowOK, Top
  <2>3. UpFree(L, Top(L).func) /\ Ups(L) \subseteq Nat
    BY <1>2, <2>1, UpsBelow
  <2>4. UpFree(L, Bottom(t))
    BY <1>6, <2>1, <2>2, <2>3 DEF UpFree
  <2>5. Above(cst, t, Bottom(t))
    <3>1. CASE cst = <<>>
      BY <1>2, <3>1, RunningThread DEF Above
    <3>2. CASE cst # <<>>
      <4>1. Under(L, cst, t)
        BY <1>1, <1>3, <1>8, <3>2, Below DEF Under, Cur
      <4> QED
        BY <1>2, <1>6, <2>1, <2>2, <4>1, UnderAbove
    <3> QED
      BY <3>1, <3>2
  <2> QED
    BY <1>1, <1>2, <1>3, <1>4, <1>6, <2>1, <2>2, <2>4, <2>5
<1> QED
  BY <1>7, <1>8

-----------------------------------------------------------------------------
(* Tail calls                                                              *)

(* Fields of no concern to the stack change.                               *)
LEMMA OtherThread ==
  ASSUME NEW C, NEW t, NEW L, ThreadOK(L, C, t), NEW M, DOMAIN M = Fields,
         M.stk = L.stk, M.top = L.top, M.ci = L.ci, M.openupval = L.openupval,
         M.base = L.base, M.status = L.status, M.errfunc = L.errfunc,
         M.allowhook = L.allowhook
  PROVE  ThreadOK(M, C, t) /\ Top(M) = Top(L)
<1>1. M.errfunc \in 0 .. Slots
  BY DEF ThreadOK, Mem
<1>2. \A i \in 1 .. Len(C) : (C[i].t = t /\ C[i].k = "hook") => ~M.allowhook
  BY DEF ThreadOK, RecIn
<1> QED
  BY <1>1, <1>2, SettingsThread

(* What an activation above the last one of thread t has called.           *)
LEMMA EnteredBy ==
  ASSUME NEW L, NEW C, NEW t, ThreadOK(L, C, t), Under(L, C, t),
         NEW i \in 1 .. Len(C), C[i].t = t, C[i].ci = Len(L.ci) - 1, C[i].k # "hook",
         i = Len(C) \/ C[i + 1].t # t
  PROVE  CalleeOK(C[i], L.ci[Len(L.ci) - 1].top, Top(L).func, Top(L).nresults)
<1>1. RecOK(L, C[i], Until(L, C, i)) /\ Len(L.ci) \in Nat
  BY MemFacts DEF ThreadOK, RecIn
<1>2. Until(L, C, i) = Len(L.ci)
  BY DEF Until
<1>3. EnteredOK(L, C[i]) /\ C[i].ci + 1 = Len(L.ci)
  BY <1>1, <1>2 DEF RecOK
<1> QED
  BY <1>3 DEF EnteredOK, Top

(* Moving a frame d slots down keeps its limits inside the stack.          *)
LEMMA Shift ==
  ASSUME NEW x \in Nat, NEW y \in Nat, NEW z \in Nat, NEW top \in Int, 1 <= x, x < y,
         y < z, z <= top, top <= Slots, NEW d, d = y - x
  PROVE  /\ z - d \in Slot /\ top - d \in Slot /\ x < z - d /\ z - d <= top - d
         /\ top - d \in Int /\ top - d <= Slots /\ x < top - d
         /\ \A i \in Slot : i < top - d => i + d \in Slot
BY Sizes DEF Slot

(* The calling frame and its upvalues are gone; the callee is at `func'    *)
(* with base d slots above it.                                             *)
LEMMA TailThread ==
  ASSUME NEW C, IsSeq(C), NEW t, NEW L, ThreadOK(L, C, t), Under(L, C, t),
         L.status = "ok", Top(L).lua, Len(L.ci) >= 2,
         NEW N, NEW f, Up(N, L, f), f.top <= N.top
  PROVE  LET M == TailFrame(N)
         IN ThreadOK(M, C, t) /\ Top(M).top = M.top
<1> DEFINE n == Len(L.ci)
           g == Top(L)
           d == f.func - g.func
           K == luaF_close(L, g.base)
           P == luaD_poscall(K, K.top)
           X == CutTo(P, g.func)
           M == TailFrame(N)
           h == [f EXCEPT !.func = g.func, !.base = @ - d, !.top = N.top - d,
                          !.nresults = g.nresults]
<1>1. Mem(L) /\ n \in Nat /\ n \in 1 .. n /\ n - 1 \in 1 .. n /\ n - 1 < n
  BY MemFacts DEF ThreadOK
<1>2. /\ g \in FrameType /\ g.func \in Nat /\ g.base \in Nat /\ 1 <= g.func
      /\ g.func < g.base /\ g.base <= g.top /\ g.top <= Slots /\ g.base <= L.top
      /\ L.top \in Nat /\ L.top <= Slots /\ g.nresults \in Nat \cup {-1}
      /\ L.ci[n - 1].base \in Nat /\ L.ci[n - 1].base <= g.func
  <2>1. /\ g \in FrameType /\ g.func \in Nat /\ g.base \in Nat /\ 1 <= g.func
        /\ g.func < g.base /\ g.base <= g.top /\ g.top <= Slots /\ g.base <= L.top
        /\ L.top \in Nat /\ L.top <= Slots /\ L.ci[n - 1].base \in Nat
    BY <1>1, MemFacts DEF Top
  <2>2. L.ci[n - 1].base <= g.func
    BY <1>1, FramesNested DEF Top
  <2>3. g.nresults \in Nat \cup {-1}
    BY <2>1 DEF FrameType
  <2> QED
    BY <2>1, <2>2, <2>3
<1>3. /\ ThreadOK(K, C, t) /\ Top(K) = g /\ UpFree(K, g.base) /\ Ups(K) \subseteq Ups(L)
      /\ K.top = L.top /\ K.ci = L.ci
  <2> DEFINE v == g.base
  <2>1. v \in Int
    BY <1>2
  <2>2. K = luaF_close(L, v)
    OBVIOUS
  <2> HIDE DEF v, K
  <2> QED
    BY <2>1, <2>2, CloseThread, ZenonT(30) DEF v
<1>4. /\ Sorted(K.openupval) /\ DOMAIN K = Fields /\ K.stk = L.stk /\ K.status = L.status
      /\ K.errfunc = L.errfunc /\ K.allowhook = L.allowhook /\ Mem(K)
  <2> DEFINE v == g.base
  <2>1. v \in Int /\ DOMAIN L = Fields /\ Sorted(L.openupval)
    BY <1>1, <1>2 DEF Mem
  <2>2. K = luaF_close(L, v)
    OBVIOUS
  <2> HIDE DEF v, K
  <2> QED
    BY <1>3, <2>1, <2>2, CloseFacts DEF ThreadOK
<1>5. UpFree(K, g.func) /\ Ups(K) \subseteq Nat
  BY <1>3, <1>4, UpsBelow
<1> HIDE DEF K
<1>7. /\ DOMAIN P = Fields /\ P.ci = Front(L.ci) /\ P.base = L.ci[n - 1].base
      /\ P.openupval = K.openupval /\ P.status = L.status
      /\ P.errfunc = L.errfunc /\ P.allowhook = L.allowhook
      /\ P.top \in Nat /\ g.func <= P.top
      /\ P.stk \in [Slot -> Value] /\ NilAbove(P)
      /\ \A i \in Slot : i < g.func => P.stk[i] = L.stk[i]
  <2>1. Len(K.ci) >= 2 /\ K.top \in Int /\ Top(K).func <= K.top /\ K.top <= K.top
    BY <1>2, <1>3
  <2> QED
    BY <1>3, <1>4, <2>1, PosCallFacts
<1> HIDE DEF P
<1>8. Clean(P) /\ g.func \in Int
  BY <1>2, <1>7 DEF Clean
<1>9. Edit(X, P, g.func) /\ X.top = g.func
  BY <1>2, <1>8, CutToEdit
<1> HIDE DEF X, g
<1>10. ThreadOK(X, C, t) /\ Top(X) = L.ci[n - 1] /\ Len(X.ci) = n - 1
  <2>1. Above(C, t, g.func)
    BY <1>2, UnderAbove DEF g
  <2>2. \A i \in 1 .. Len(C) : C[i].t = t => C[i].ci < Len(K.ci)
    BY <1>3 DEF Under
  <2>6. K.top = L.top /\ Top(K).func = g.func /\ Len(K.ci) = n /\ X.top = g.func
        /\ K.status = L.status
    BY <1>3, <1>4, <1>9
  <2>3. /\ Len(K.ci) >= 2 /\ K.top \in Int /\ Top(K).func <= K.top /\ K.top <= K.top
        /\ X.top <= Slots
    BY <1>2, <2>6, Sizes
  <2>7. K.status # "yield"
    BY <2>6
  <2>4. UpFree(K, X.top) /\ g.func \in Int /\ g.func <= Top(K).func
        /\ K.ci[Len(K.ci) - 1].base <= g.func /\ UpFree(K, Top(K).func)
    BY <1>2, <1>3, <1>5, <1>9
  <2>5. Edit(X, luaD_poscall(K, K.top), g.func)
    BY <1>9 DEF P
  <2> DEFINE v == g.func
             fr == K.top
  <2>8. K.ci[Len(K.ci) - 1] = L.ci[n - 1] /\ Len(K.ci) = n
    BY <1>3
  <2>9. ThreadOK(K, C, t)
    BY <1>3
  <2> HIDE DEF v, fr
  <2>10. ThreadOK(X, C, t) /\ Top(X) = K.ci[Len(K.ci) - 1] /\ Len(X.ci) = Len(K.ci) - 1
    BY <2>1, <2>2, <2>3, <2>4, <2>5, <2>7, <2>9, PosThread DEF v, fr
  <2> QED
    BY <2>8, <2>10
<1>11. /\ DOMAIN N = Fields /\ N.ci = Append(L.ci, f) /\ f \in FrameType /\ FrameOK(f)
       /\ g.base <= f.func /\ N.stk \in [Slot -> Value] /\ NilAbove(N)
       /\ N.top \in Int /\ f.base <= N.top /\ N.top <= Slots
       /\ \A i \in Slot : i < f.func => N.stk[i] = L.stk[i]
       /\ N.openupval = L.openupval /\ N.base = f.base /\ N.status = L.status
       /\ N.errfunc = L.errfunc /\ N.allowhook = L.allowhook
  BY DEF Up, g
<1>12. /\ f.func \in Nat /\ f.base \in Nat /\ f.func < f.base /\ d \in Int /\ d >= 1
       /\ d = f.func - g.func /\ f.numparams \in Nat
       /\ f.is_vararg => f.func + f.numparams < f.base
  <2>1. /\ f.func \in Nat /\ f.base \in Nat /\ f.func < f.base /\ f.numparams \in Nat
        /\ f.is_vararg => f.func + f.numparams < f.base
    BY <1>11, Sizes DEF FrameType, FrameOK
  <2> QED
    BY <1>2, <1>11, <2>1
<1>23. /\ g.func \in Int /\ f.func \in Int /\ g.func < f.func /\ d = f.func - g.func
       /\ N.top \in Int /\ d >= 1 /\ d \in Int
  <2>1. g.func \in Int /\ g.base \in Int /\ g.func < g.base
    BY <1>2
  <2>2. g.base <= f.func /\ N.top \in Int
    BY <1>11
  <2>3. f.func \in Int /\ d >= 1 /\ d \in Int /\ d = f.func - g.func
    BY <1>12
  <2> HIDE DEF d
  <2> QED
    BY <2>1, <2>2, <2>3
<1>22. /\ f.base - d \in Slot /\ N.top - d \in Slot /\ g.func < f.base - d
       /\ f.base - d <= N.top - d /\ N.top - d \in Int /\ N.top - d <= Slots
       /\ g.func < N.top - d /\ \A i \in Slot : i < N.top - d => i + d \in Slot
  <2> DEFINE x == g.func
             y == f.func
             z == f.base
             top == N.top
  <2>2. /\ x \in Nat /\ y \in Nat /\ z \in Nat /\ top \in Int /\ 1 <= x /\ x < y
        /\ y < z /\ z <= top /\ top <= Slots /\ d = y - x
    <3>1. x \in Nat /\ 1 <= x
      BY <1>2
    <3>2. y \in Nat /\ z \in Nat /\ y < z
      BY <1>12
    <3>3. z <= top /\ top <= Slots
      BY <1>11
    <3> QED
      BY <1>23, <3>1, <3>2, <3>3
  <2> HIDE DEF d, x, y, z, top
  <2>3. /\ z - d \in Slot /\ top - d \in Slot /\ x < z - d /\ z - d <= top - d
        /\ top - d \in Int /\ top - d <= Slots /\ x < top - d
        /\ \A i \in Slot : i < top - d => i + d \in Slot
    BY <2>2, Shift
  <2> QED
    BY <2>3 DEF x, y, z, top
<1> DEFINE k == [i \in Slot |-> IF g.func <= i /\ i < N.top - d THEN N.stk[i + d]
                                ELSE IF N.top - d <= i /\ i < N.top THEN Nil
                                ELSE N.stk[i]]
<1>13. /\ M.stk = k /\ M.top = N.top - d /\ DOMAIN M = Fields
       /\ M.ci = Append(Front(L.ci), h) /\ M.base = f.base - d
       /\ M.openupval = K.openupval /\ M.status = L.status
       /\ M.errfunc = L.errfunc /\ M.allowhook = L.allowhook
  <2>1. IsSeq(L.ci) /\ L.ci \in Seq(FrameType)
    BY <1>1, MemFacts DEF Mem, Nested
  <2>2. Last(N.ci) = f /\ N.ci[Len(N.ci) - 1] = g /\ Front(N.ci) = L.ci
    <3>1. /\ IsSeq(N.ci) /\ Len(N.ci) = n + 1 /\ N.ci[n + 1] = f
          /\ \A i \in 1 .. n : N.ci[i] = L.ci[i]
      BY <1>11, <2>1, SeqAppend
    <3>2. Last(N.ci) = f
      BY <3>1 DEF Last
    <3>3. N.ci[Len(N.ci) - 1] = g
      BY <1>1, <3>1 DEF g, Top
    <3>4. /\ IsSeq(Front(N.ci)) /\ Len(Front(N.ci)) = n
          /\ \A i \in 1 .. n : Front(N.ci)[i] = N.ci[i]
      <4>1. Len(N.ci) > 0 /\ Len(N.ci) - 1 = n
        BY <1>1, <3>1
      <4> QED
        BY <3>1, <4>1, SeqFront
    <3>5. Front(N.ci) = L.ci
      BY <2>1, <3>1, <3>4, SeqSame
    <3> QED
      BY <3>2, <3>3, <3>5
  <2>3. luaF_close(N, g.base).openupval = K.openupval
    <3> DEFINE v == g.base
    <3>1. K = luaF_close(L, v) /\ N.openupval = L.openupval
          /\ DOMAIN N = Fields /\ DOMAIN L = Fields
      BY <1>1, <1>11 DEF K, g, Mem
    <3> HIDE DEF v
    <3>2. luaF_close(N, v).openupval = luaF_close(L, v).openupval
      BY <3>1 DEF luaF_close, Fields
    <3> QED
      BY <3>1, <3>2 DEF v
  <2>4. LET Q == luaF_close(N, g.base)
        IN /\ DOMAIN Q = Fields /\ Q.stk = N.stk /\ Q.ci = N.ci
           /\ Q.status = N.status /\ Q.errfunc = N.errfunc /\ Q.allowhook = N.allowhook
    <3>1. Sorted(N.openupval) /\ g.base \in Int
      BY <1>1, <1>2, <1>11 DEF Mem
    <3> QED
      BY <1>11, <3>1, CloseFacts
  <2> DEFINE Q == luaF_close(N, g.base)
  <2>5. M = [Q EXCEPT !.stk = [i \in Slot |-> IF g.func <= i /\ i < N.top - d THEN @[i + d]
                                ELSE IF N.top - d <= i /\ i < N.top THEN Nil
                                ELSE @[i]],
              !.ci = Append(Front(Front(@)), h), !.base = f.base - d, !.top = N.top - d]
    BY <2>2 DEF TailFrame
  <2> HIDE DEF Q, h, d, M
  <2>6. /\ M.stk = [i \in Slot |-> IF g.func <= i /\ i < N.top - d THEN Q.stk[i + d]
                                ELSE IF N.top - d <= i /\ i < N.top THEN Nil
                                ELSE Q.stk[i]]
        /\ M.ci = Append(Front(Front(Q.ci)), h) /\ M.base = f.base - d
        /\ M.top = N.top - d /\ DOMAIN M = Fields
        /\ M.openupval = Q.openupval /\ M.status = Q.status
        /\ M.errfunc = Q.errfunc /\ M.allowhook = Q.allowhook
    BY <2>4, <2>5 DEF Fields, Q
  <2> QED
    BY <1>11, <2>2, <2>3, <2>4, <2>6 DEF Q, k
<1>14. /\ h.func = g.func /\ h.base = f.base - d /\ h.top = N.top - d
       /\ h.nresults = g.nresults /\ h \in FrameType /\ FrameOK(h)
  <2> DEFINE a == f.base - d
             b == N.top - d
             r == g.nresults
             x == g.func
  <2>1. a \in Slot /\ b \in Slot /\ x \in Slot /\ x < a /\ a <= b /\ r \in Nat \cup {-1}
    BY <1>2, <1>22 DEF g, FrameType
  <2>2. h = [f EXCEPT !.func = x, !.base = a, !.top = b, !.nresults = r]
    OBVIOUS
  <2>3. f.is_vararg => x + f.numparams < a
    <3>1. /\ f.numparams \in Int /\ f.base \in Int
          /\ f.is_vararg => f.func + f.numparams < f.base
      BY <1>12
    <3>2. x \in Int /\ f.func \in Int /\ d = f.func - x
      BY <1>23
    <3> DEFINE params == f.numparams
               y == f.func
               z == f.base
    <3> HIDE DEF params, x, y, z, d
    <3>3. ASSUME y + params < z PROVE x + params < z - d
      BY <3>1, <3>2, <3>3 DEF params, y, z
    <3> QED
      BY <3>1, <3>3 DEF params, y, z
  <2> HIDE DEF a, b, r, x, h, d
  <2>4. /\ h \in FrameType /\ h.func = x /\ h.base = a /\ h.top = b /\ h.nresults = r
        /\ h.is_vararg = f.is_vararg /\ h.numparams = f.numparams
    <3>1. f \in FrameType
      BY <1>11
    <3> QED
      BY <2>1, <2>2, <3>1 DEF FrameType
  <2> QED
    BY <2>1, <2>3, <2>4 DEF FrameOK, a, b, r, x
<1>15. k \in [Slot -> Value]
  <2>1. ASSUME NEW i \in Slot PROVE k[i] \in Value
    <3>1. CASE g.func <= i /\ i < N.top - d
      <4> HIDE DEF d
      <4>1. i + d \in Slot
        BY <1>22, <3>1
      <4> QED
        BY <1>11, <3>1, <4>1
    <3>2. CASE ~(g.func <= i /\ i < N.top - d)
      BY <1>11, <3>2, Sizes
    <3> QED
      BY <3>1, <3>2
  <2> QED
    BY <2>1
<1>16. ASSUME NEW i \in Slot
       PROVE  /\ i >= N.top - d => k[i] = Nil
              /\ i < g.func => k[i] = N.stk[i]
  <2>1. i \in Int
    BY Sizes DEF Slot
  <2>2. i >= N.top => N.stk[i] = Nil
    BY <1>11 DEF NilAbove
  <2> HIDE DEF d
  <2>3. k[i] = IF g.func <= i /\ i < N.top - d THEN N.stk[i + d]
               ELSE IF N.top - d <= i /\ i < N.top THEN Nil ELSE N.stk[i]
    OBVIOUS
  <2> DEFINE x == g.func
             top == N.top
  <2> HIDE DEF k, x, top
  <2>5. x \in Int /\ top \in Int /\ d \in Int /\ d >= 1
    BY <1>23 DEF x, top
  <2>6. x < top - d
    BY <1>22 DEF x, top
  <2>7. ASSUME i >= top - d PROVE k[i] = Nil
    <3>1. CASE i < top
      BY <2>1, <2>3, <2>5, <2>7, <3>1 DEF x, top
    <3>2. CASE i >= top
      <4>1. ~(i < top - d) /\ ~(i < top)
        BY <2>1, <2>5, <2>7, <3>2
      <4> QED
        BY <2>2, <2>3, <3>2, <4>1 DEF x, top
    <3> QED
      BY <2>1, <2>5, <3>1, <3>2
  <2>8. ASSUME i < x PROVE k[i] = N.stk[i]
    <3>1. ~(x <= i) /\ ~(top - d <= i)
      BY <2>1, <2>5, <2>6, <2>8
    <3> QED
      BY <2>3, <3>1 DEF x, top
  <2> QED
    BY <2>7, <2>8 DEF x, top
<1>17. \A i \in Slot : i < g.func => M.stk[i] = X.stk[i]
  <2> SUFFICES ASSUME NEW i \in Slot, i < g.func PROVE M.stk[i] = X.stk[i]
    OBVIOUS
  <2>1. X.stk[i] = L.stk[i]
    BY <1>7, <1>9 DEF Edit, Over
  <2>2. i < f.func
    <3>1. i \in Int
      BY Sizes DEF Slot
    <3> QED
      BY <1>23, <3>1
  <2>3. N.stk[i] = L.stk[i]
    BY <1>11, <2>2
  <2>4. M.stk[i] = N.stk[i]
    BY <1>13, <1>16
  <2> QED
    BY <2>1, <2>3, <2>4
<1> HIDE DEF M, h, k, d
<1>18. Up(M, X, h)
  <2>1. /\ X.ci = Front(L.ci) /\ X.openupval = K.openupval /\ X.status = L.status
        /\ X.errfunc = L.errfunc /\ X.allowhook = L.allowhook
    BY <1>7, <1>9 DEF Edit, Kept
  <2>2. NilAbove(M)
    BY <1>13, <1>16 DEF NilAbove
  <2>3. UpFree(X, h.func)
    BY <1>5, <1>14, <2>1 DEF UpFree, Ups
  <2>4. M.top \in Int /\ h.base <= M.top /\ M.top <= Slots
    BY <1>11, <1>12, <1>13, <1>14, Sizes
  <2>5. Top(X).base <= h.func /\ X.status # "yield" /\ M.base = h.base
    BY <1>2, <1>10, <1>13, <1>14, <2>1
  <2> QED
    BY <1>13, <1>14, <1>15, <1>17, <2>1, <2>2, <2>3, <2>4, <2>5 DEF Up
<1>19. Above(C, t, h.func)
  BY <1>2, <1>14, UnderAbove DEF g
<1>20. Entering(X, C, t, h)
  <2> SUFFICES ASSUME NEW i \in 1 .. Len(C), C[i].t = t, C[i].ci = Len(X.ci),
                      C[i].k # "hook", i = Len(C) \/ C[i + 1].t # t
               PROVE  CalleeOK(C[i], Top(X).top, h.func, h.nresults)
    BY DEF Entering
  <2> QED
    BY <1>10, <1>14, EnteredBy DEF g
<1>21. ThreadOK(M, C, t) /\ Top(M) = h
  BY <1>10, <1>18, <1>19, <1>20, UpThread
<1> QED
  BY <1>13, <1>14, <1>21 DEF M

-----------------------------------------------------------------------------
(* luaD_precall                                                            *)

(* The value at func can be called, for nresults results.                  *)
Ready(L, C, t, func, nresults) ==
  /\ L.status = "ok" /\ func \in Slot /\ Top(L).base <= func /\ func < L.top
  /\ UpFree(L, func) /\ Above(C, t, func) /\ nresults \in Nat \cup {-1}
  /\ \A i \in 1 .. Len(C) :
       (/\ C[i].t = t /\ C[i].ci = Len(L.ci) /\ C[i].k # "hook"
        /\ i = Len(C) \/ C[i + 1].t # t) =>
         CalleeOK(C[i], Top(L).top, func, nresults)

(* An edit above the function leaves it ready to be called.                *)
LEMMA ReadyEdit ==
  ASSUME NEW L, NEW C, NEW t, NEW func, NEW nresults, Ready(L, C, t, func, nresults),
         NEW M, M.ci = L.ci, M.openupval = L.openupval, M.status = L.status, func < M.top
  PROVE  Ready(M, C, t, func, nresults)
BY DEF Ready, UpFree, Ups, Top

(* The frame that is on its way: a Lua function in the frame of its caller *)
(* or above it, or a C function.                                           *)
LEMMA LuaFrameData ==
  ASSUME NEW ts, NEW t, NEW L, NEW C, At(ts, t, L, C), ActsOK(C), C # <<>>,
         NEW func, NEW nresults, Ready(L, C, t, func, nresults), NEW p \in Proto,
         p.is_vararg => func + 1 + 2 * p.numparams <= L.top,
         BaseOf(L, func, p) + p.maxstacksize <= Slots,
         Go(ts, t, LuaFrame(L, func, p, nresults), Executing(C, 1))
  PROVE  Data(th', cst', pend')
<1> DEFINE f == [func |-> func, base |-> BaseOf(L, func, p),
                 top |-> BaseOf(L, func, p) + p.maxstacksize, lua |-> TRUE,
                 nresults |-> nresults, numparams |-> p.numparams,
                 is_vararg |-> p.is_vararg, open |-> FALSE]
           M == LuaFrame(L, func, p, nresults)
<1>1. Mem(L) /\ ThreadOK(L, C, t) /\ IsSeq(C)
  BY DEF At, ThreadOK
<1>2. Up(M, L, f) /\ M.top = f.top
  BY <1>1, LuaFrameUp DEF Ready
<1>3. f.func = func /\ f.nresults = nresults
  OBVIOUS
<1> HIDE DEF f, M
<1>4. Entering(L, C, t, f)
  BY <1>3 DEF Ready, Entering
<1>5. ThreadOK(M, C, t) /\ Top(M) = f
  BY <1>1, <1>2, <1>3, <1>4, UpThread DEF Ready
<1>6. At(ts, t, M, Executing(C, 1))
  BY <1>5, AtStep, AtExec
<1>7. LiveOK(M, Executing(C, 1), "none")
  BY <1>2, <1>5 DEF LiveOK
<1> QED
  BY <1>6, <1>7, AtGo DEF M

(* luaD_precall for a tail call of a Lua function.                         *)
LEMMA TailFrameData ==
  ASSUME NEW ts, NEW t, NEW L, NEW C, At(ts, t, L, C),
         NEW func, NEW nresults, Ready(L, C, t, func, nresults), NEW p \in Proto,
         p.is_vararg => func + 1 + 2 * p.numparams <= L.top,
         BaseOf(L, func, p) + p.maxstacksize <= Slots,
         Under(L, C, t), Top(L).lua, Len(L.ci) >= 2,
         Go(ts, t, TailFrame(LuaFrame(L, func, p, nresults)), C)
  PROVE  Data(th', cst', pend')
<1> DEFINE f == [func |-> func, base |-> BaseOf(L, func, p),
                 top |-> BaseOf(L, func, p) + p.maxstacksize, lua |-> TRUE,
                 nresults |-> nresults, numparams |-> p.numparams,
                 is_vararg |-> p.is_vararg, open |-> FALSE]
           N == LuaFrame(L, func, p, nresults)
           M == TailFrame(N)
<1>1. Mem(L) /\ ThreadOK(L, C, t) /\ IsSeq(C)
  BY DEF At, ThreadOK
<1>2. Up(N, L, f) /\ N.top = f.top
  BY <1>1, LuaFrameUp DEF Ready
<1> HIDE DEF f, N
<1>3. f.top <= N.top
  <2>1. N.top \in Int
    BY <1>2 DEF Up
  <2> QED
    BY <1>2, <2>1
<1>4. ThreadOK(M, C, t) /\ Top(M).top = M.top
  BY <1>1, <1>2, <1>3, TailThread DEF Ready
<1>5. At(ts, t, M, C) /\ LiveOK(M, C, "none")
  BY <1>4, AtStep DEF LiveOK
<1> QED
  BY <1>5, AtGo DEF M, N

(* luaD_precall for a C function.                                          *)
LEMMA CFrameData ==
  ASSUME NEW ts, NEW t, NEW L, NEW C, At(ts, t, L, C),
         NEW func, NEW nresults, Ready(L, C, t, func, nresults),
         L.top + LUA_MINSTACK <= stack_last,
         Go(ts, t, CFrame(L, func, nresults), C)
  PROVE  Data(th', cst', pend')
<1> DEFINE f == [func |-> func, base |-> func + 1,
                 top |-> L.top + LUA_MINSTACK, lua |-> FALSE,
                 nresults |-> nresults, numparams |-> 0,
                 is_vararg |-> FALSE, open |-> FALSE]
           M == CFrame(L, func, nresults)
<1>1. Mem(L) /\ ThreadOK(L, C, t) /\ IsSeq(C)
  BY DEF At, ThreadOK
<1>2. Up(M, L, f)
  BY <1>1, CFrameUp DEF Ready
<1>3. f.func = func /\ f.nresults = nresults /\ ~f.lua
  OBVIOUS
<1> HIDE DEF f, M
<1>4. Entering(L, C, t, f)
  BY <1>3 DEF Ready, Entering
<1>5. ThreadOK(M, C, t) /\ Top(M) = f
  BY <1>1, <1>2, <1>3, <1>4, UpThread DEF Ready
<1>6. At(ts, t, M, C) /\ LiveOK(M, C, "none")
  BY <1>3, <1>5, AtStep DEF LiveOK
<1> QED
  BY <1>6, AtGo DEF M

(* The CallInfo array gets its size.                                       *)
LEMMA AtSize ==
  ASSUME NEW ts, NEW t, NEW L, NEW C, At(ts, t, L, C), NEW s,
         NEW func, NEW nresults, Ready(L, C, t, func, nresults)
  PROVE  LET K == [L EXCEPT !.size_ci = s]
         IN /\ At(ts, t, K, C) /\ Ready(K, C, t, func, nresults)
            /\ K.top = L.top /\ K.ci = L.ci
<1> DEFINE K == [L EXCEPT !.size_ci = s]
<1>1. DOMAIN L = Fields /\ ThreadOK(L, C, t)
  BY DEF At, ThreadOK, Mem
<1>2. /\ DOMAIN K = Fields /\ K.stk = L.stk /\ K.top = L.top /\ K.ci = L.ci
      /\ K.openupval = L.openupval /\ K.base = L.base /\ K.status = L.status
      /\ K.errfunc = L.errfunc /\ K.allowhook = L.allowhook
  BY <1>1 DEF Fields
<1> HIDE DEF K
<1>3. ThreadOK(K, C, t)
  BY <1>1, <1>2, OtherThread
<1>4. Ready(K, C, t, func, nresults)
  <2>1. func < K.top
    BY <1>2 DEF Ready
  <2> QED
    BY <1>2, <2>1, ReadyEdit
<1> QED
  BY <1>2, <1>3, <1>4, AtStep DEF K

(* luaD_precall for a Lua function, with or without room for it.           *)
LEMMA EnterLuaData ==
  ASSUME NEW ts, NEW t, NEW L, NEW C, NEW func, NEW nresults,
         IsSeq(C), ActsOK(C), C # <<>>, At(ts, t, L, C),
         Ready(L, C, t, func, nresults), NEW M, Edit(M, L, func), func < M.top,
         NEW tail \in BOOLEAN,
         tail => Under(L, C, t) /\ Top(L).lua /\ Len(L.ci) >= 2,
         EnterLua(ts, t, M, C, func, nresults, tail)
  PROVE  Data(th', cst', pend')
<1>1. PICK p \in Proto :
        LET L1 == Arguments(M, func, p)
            Enter(K) == IF tail
                        THEN Go(ts, t, TailFrame(LuaFrame(K, func, p, nresults)), C)
                        ELSE Go(ts, t, LuaFrame(K, func, p, nresults), Executing(C, 1))
        IN /\ BaseOf(L1, func, p) + p.maxstacksize <= stack_last
           /\ WithCallInfo(ts, t, L1, C, Enter)
  BY DEF EnterLua
<1> DEFINE L1 == Arguments(M, func, p)
           inc == inc_ci(L1)
           K == [L1 EXCEPT !.size_ci = inc.size]
<1>2. BaseOf(L1, func, p) + p.maxstacksize <= stack_last
  BY <1>1
<1>3. \/ inc.err = "none" /\ tail
         /\ Go(ts, t, TailFrame(LuaFrame(K, func, p, nresults)), C)
      \/ inc.err = "none" /\ ~tail
         /\ Go(ts, t, LuaFrame(K, func, p, nresults), Executing(C, 1))
      \/ inc.err = "overflow" /\ RunError(ts, t, K, C)
      \/ inc.err = "ERRERR" /\ Throw(ts, t, K, C, "ERRERR")
  BY <1>1 DEF WithCallInfo
<1>4. Clean(M) /\ func \in Slot
  BY EditClean DEF Ready
<1>5. /\ Edit(L1, M, func) /\ func < L1.top /\ L1.top <= Slots
      /\ p.is_vararg => func + 1 + 2 * p.numparams <= L1.top
  BY <1>2, <1>4, ArgumentsEdit
<1> HIDE DEF L1
<1>6. Edit(L1, L, func)
  BY <1>5, EditTrans
<1>7. ThreadOK(L1, C, t)
  <2>1. ThreadOK(L, C, t) /\ Ups(L) \subseteq Nat /\ UpFree(L, func) /\ func \in Nat
        /\ L1.top \in Int
    BY <1>4, <1>6, UpsBelow, Sizes DEF At, ThreadOK, Ready, Edit, Over
  <2>2. UpFree(L, L1.top)
    BY <1>5, <2>1 DEF UpFree
  <2> QED
    BY <1>5, <1>6, <2>1, <2>2, EditThread DEF Ready
<1>8. L1.ci = L.ci /\ L1.openupval = L.openupval /\ L1.status = L.status
  BY <1>6 DEF Edit, Kept
<1>9. At(ts, t, L1, C) /\ Ready(L1, C, t, func, nresults)
  BY <1>5, <1>7, <1>8, AtStep, ReadyEdit
<1>10. /\ At(ts, t, K, C) /\ Ready(K, C, t, func, nresults)
       /\ K.top = L1.top /\ K.ci = L.ci
  <2>1. DOMAIN L1 = Fields /\ ThreadOK(L1, C, t)
    BY <1>7 DEF ThreadOK, Mem
  <2>2. /\ DOMAIN K = Fields /\ K.stk = L1.stk /\ K.top = L1.top /\ K.ci = L1.ci
        /\ K.openupval = L1.openupval /\ K.base = L1.base /\ K.status = L1.status
        /\ K.errfunc = L1.errfunc /\ K.allowhook = L1.allowhook
    BY <2>1 DEF Fields
  <2> HIDE DEF K, inc
  <2>3. ThreadOK(K, C, t)
    BY <2>1, <2>2, OtherThread
  <2>4. Ready(K, C, t, func, nresults)
    <3>1. func < K.top
      BY <1>9, <2>2 DEF Ready
    <3> QED
      BY <1>9, <2>2, <3>1, ReadyEdit
  <2> QED
    BY <1>8, <1>9, <2>2, <2>3, <2>4, AtStep
<1> HIDE DEF inc, K
<1>11. CASE RunError(ts, t, K, C)
  BY <1>10, <1>11, AtRunError
<1>12. CASE Throw(ts, t, K, C, "ERRERR")
  BY <1>10, <1>12, AtThrow
<1>13. /\ p.is_vararg => func + 1 + 2 * p.numparams <= K.top
       /\ BaseOf(K, func, p) + p.maxstacksize <= Slots
  <2>1. BaseOf(K, func, p) = BaseOf(L1, func, p)
    BY <1>10 DEF BaseOf
  <2>2. BaseOf(L1, func, p) \in Int /\ p.maxstacksize \in Nat
    <3>1. p \in [numparams : Nat, is_vararg : BOOLEAN, maxstacksize : Nat]
      BY CallsAssumption
    <3>2. L1.top \in Int /\ func \in Int
      BY <1>4, <1>6, Sizes DEF Edit, Over
    <3> QED
      BY <3>1, <3>2 DEF BaseOf
  <2> QED
    BY <1>2, <1>5, <1>10, <2>1, <2>2, Sizes
<1>14. CASE tail /\ Go(ts, t, TailFrame(LuaFrame(K, func, p, nresults)), C)
  <2>1. Under(K, C, t) /\ Top(K).lua /\ Len(K.ci) >= 2
    BY <1>10, <1>14 DEF Under, Top
  <2> QED
    BY <1>10, <1>13, <1>14, <2>1, TailFrameData
<1>15. CASE Go(ts, t, LuaFrame(K, func, p, nresults), Executing(C, 1))
  BY <1>10, <1>13, <1>15, LuaFrameData
<1> QED
  BY <1>3, <1>11, <1>12, <1>14, <1>15

(* luaD_precall for a C function, with or without room for it.             *)
LEMMA EnterCData ==
  ASSUME NEW ts, NEW t, NEW L, NEW C, NEW func, NEW nresults, At(ts, t, L, C),
         Ready(L, C, t, func, nresults), NEW M, Edit(M, L, func), func < M.top,
         EnterC(ts, t, M, C, func, nresults)
  PROVE  Data(th', cst', pend')
<1> DEFINE inc == inc_ci(M)
           K == [M EXCEPT !.size_ci = inc.size]
<1>1. \/ inc.err = "none" /\ Go(ts, t, CFrame(K, func, nresults), C)
      \/ inc.err = "overflow" /\ RunError(ts, t, K, C)
      \/ inc.err = "ERRERR" /\ Throw(ts, t, K, C, "ERRERR")
  BY DEF EnterC, WithCallInfo
<1>2. M.top + LUA_MINSTACK <= stack_last
  BY DEF EnterC
<1>3. ThreadOK(L, C, t) /\ Ups(L) \subseteq Nat /\ UpFree(L, func) /\ func \in Nat
      /\ M.top \in Int /\ IsSeq(C)
  BY UpsBelow, Sizes DEF At, ThreadOK, Ready, Edit, Over
<1>4. M.top <= Slots
  BY <1>2, <1>3, Sizes
<1>5. ThreadOK(M, C, t)
  <2>1. UpFree(L, M.top)
    BY <1>3 DEF UpFree
  <2> QED
    BY <1>3, <1>4, <2>1, EditThread DEF Ready
<1>6. At(ts, t, M, C) /\ Ready(M, C, t, func, nresults)
  BY <1>5, AtStep, ReadyEdit DEF Edit, Kept
<1> HIDE DEF inc
<1>7. At(ts, t, K, C) /\ Ready(K, C, t, func, nresults) /\ K.top = M.top
  BY <1>6, AtSize
<1> HIDE DEF K
<1>8. CASE RunError(ts, t, K, C)
  BY <1>7, <1>8, AtRunError
<1>9. CASE Throw(ts, t, K, C, "ERRERR")
  BY <1>7, <1>9, AtThrow
<1>10. CASE Go(ts, t, CFrame(K, func, nresults), C)
  BY <1>2, <1>7, <1>10, CFrameData
<1> QED
  BY <1>1, <1>8, <1>9, <1>10

(* luaD_precall, for a value that may be called or not.                    *)
LEMMA PrecallData ==
  ASSUME NEW ts, NEW t, NEW L, NEW C, NEW func, NEW nresults, At(ts, t, L, C),
         ActsOK(C), C # <<>>, Ready(L, C, t, func, nresults), NEW tail \in BOOLEAN,
         tail => Under(L, C, t) /\ Top(L).lua /\ Len(L.ci) >= 2,
         luaD_precall(ts, t, L, C, func, nresults, tail)
  PROVE  Data(th', cst', pend')
<1>1. Clean(L) /\ IsSeq(C) /\ L.top \in Int /\ func \in Slot /\ func < L.top /\ func \in Int
  BY MemFacts, Sizes DEF At, ThreadOK, Ready
<1>2. Edit(L, L, func)
  BY <1>1, EditSame
<1>3. Edit(tryfuncTM(L, func), L, func) /\ tryfuncTM(L, func).top = L.top + 1
  BY <1>1, TryEdit
<1>4. CASE RunError(ts, t, L, C)
  BY <1>4, AtRunError
<1>5. ASSUME NEW M \in {L, tryfuncTM(L, func)},
             EnterLua(ts, t, M, C, func, nresults, tail) \/ EnterC(ts, t, M, C, func, nresults)
      PROVE  Data(th', cst', pend')
  <2>1. Edit(M, L, func) /\ func < M.top
    BY <1>1, <1>2, <1>3
  <2>2. CASE EnterLua(ts, t, M, C, func, nresults, tail)
    BY <1>1, <2>1, <2>2, EnterLuaData
  <2>3. CASE EnterC(ts, t, M, C, func, nresults)
    BY <2>1, <2>3, EnterCData
  <2> QED
    BY <1>5, <2>2, <2>3
<1> QED
  BY <1>4, <1>5 DEF luaD_precall

(* luaD_call from a new activation.                                        *)
LEMMA CallData ==
  ASSUME NEW t, NEW L, NEW e, At(th, t, L, Append(cst, e)), ActsOK(cst), ActOK(e),
         NEW func, NEW nresults, Ready(L, Append(cst, e), t, func, nresults),
         luaD_call(t, L, cst, e, func, nresults)
  PROVE  Data(th', cst', pend')
<1> DEFINE C == Append(cst, e)
           m == L.nCcalls + 1
           K == [L EXCEPT !.nCcalls = m]
<1>1. \/ RunError(th, t, K, C) \/ Throw(th, t, K, C, "ERRERR")
      \/ luaD_precall(th, t, K, C, func, nresults, FALSE)
  BY DEF luaD_call
<1>2. DOMAIN L = Fields /\ ThreadOK(L, C, t)
  BY DEF At, ThreadOK, Mem
<1>3. /\ DOMAIN K = Fields /\ K.stk = L.stk /\ K.top = L.top /\ K.ci = L.ci
      /\ K.openupval = L.openupval /\ K.base = L.base /\ K.status = L.status
      /\ K.errfunc = L.errfunc /\ K.allowhook = L.allowhook
  BY <1>2 DEF Fields
<1>4. ActsOK(C) /\ C # <<>>
  <2>1. IsSeq(C) /\ C # <<>>
    <3>1. IsSeq(C) /\ Cur(C) = t /\ t \in Thread
      BY DEF At
    <3> QED
      BY <3>1
  <2> QED
    BY <2>1 DEF ActsOK
<1> HIDE DEF K
<1>5. At(th, t, K, C)
  BY <1>2, <1>3, OtherThread, AtStep
<1>6. Ready(K, C, t, func, nresults)
  <2>1. func < K.top
    BY <1>3 DEF Ready
  <2> QED
    BY <1>3, <2>1, ReadyEdit
<1> HIDE DEF C
<1>7. CASE RunError(th, t, K, C)
  BY <1>5, <1>7, AtRunError
<1>8. CASE Throw(th, t, K, C, "ERRERR")
  BY <1>5, <1>8, AtThrow
<1>9. CASE luaD_precall(th, t, K, C, func, nresults, FALSE)
  BY <1>4, <1>5, <1>6, <1>9, PrecallData
<1> QED
  BY <1>1, <1>7, <1>8, <1>9

-----------------------------------------------------------------------------
(* The instructions of a Lua function                                      *)

(* An instruction that goes on running its function.                       *)
LEMMA LuaGo ==
  ASSUME NEW lev, Good(th, cst, pend, lev), Data(th, cst, pend), NEW t, LuaRuns(t),
         NEW M, ThreadOK(M, cst, t), Top(M).open \/ M.top = Top(M).top,
         Go(th, t, M, cst)
  PROVE  Data(th', cst', pend')
<1>1. At(th, t, th[t], cst)
  BY LuaAt
<1>2. At(th, t, M, cst) /\ LiveOK(M, cst, "none")
  BY <1>1, AtStep DEF LiveOK
<1> QED
  BY <1>2, AtGo

(* The instructions that change registers.                                 *)
LEMMA SetRegistersData ==
  ASSUME NEW lev, Good(th, cst, pend, lev), Data(th, cst, pend), NEW t,
         NEW v \in Stored, SetRegisters(t, v)
  PROVE  Data(th', cst', pend')
<1> DEFINE L == th[t]
           k == [i \in Slot |-> IF i \in Registers(L) THEN v ELSE L.stk[i]]
           M == [L EXCEPT !.stk = k]
<1>1. LuaRuns(t) /\ ~Frame(L).open /\ Go(th, t, M, cst)
  BY DEF SetRegisters
<1>2. /\ ThreadOK(L, cst, t) /\ IsSeq(cst) /\ Frame(L) = Top(L) /\ L.top = Top(L).top
      /\ Above(cst, t, Top(L).base) /\ Top(L).base \in Nat /\ Top(L).top \in Nat
      /\ Top(L).base <= L.top /\ L.top \in Nat /\ L.top <= Slots /\ Clean(L)
      /\ UpFree(L, L.top)
  BY <1>1, LuaAt
<1>3. v \in Value
  BY CallsAssumption DEF Value
<1> DEFINE w == Top(L).base
<1>4. w \in Int /\ w <= L.top
  BY <1>2
<1>5. k \in [Slot -> Value]
  BY <1>2, <1>3 DEF Clean
<1>6. \A i \in Slot : i \in Registers(L) => w <= i /\ i < L.top
  BY <1>2, Sizes DEF Registers
<1> HIDE DEF w
<1>7. \A i \in Slot : (i < w => k[i] = L.stk[i]) /\ (i >= L.top => k[i] = Nil)
  <2> SUFFICES ASSUME NEW i \in Slot
               PROVE  (i < w => k[i] = L.stk[i]) /\ (i >= L.top => k[i] = Nil)
    OBVIOUS
  <2>1. i \in Int /\ (i >= L.top => L.stk[i] = Nil)
    BY <1>2, Sizes DEF Clean, NilAbove
  <2> QED
    BY <1>2, <1>4, <1>6, <2>1
<1> HIDE DEF k
<1>8. /\ DOMAIN M = Fields /\ M.stk = k /\ M.top = L.top /\ M.ci = L.ci
      /\ M.openupval = L.openupval /\ M.base = L.base /\ M.status = L.status
      /\ M.errfunc = L.errfunc /\ M.allowhook = L.allowhook
  BY <1>2 DEF Clean, Fields
<1> HIDE DEF M, L
<1>9. Edit(M, L, w)
  BY <1>2, <1>4, <1>5, <1>7, <1>8 DEF Edit, Kept, Over, NilAbove, w
<1>10. ThreadOK(M, cst, t) /\ Top(M) = Top(L)
  BY <1>2, <1>4, <1>8, <1>9, EditThread DEF w
<1> QED
  BY <1>1, <1>2, <1>8, <1>10, LuaGo

(* OP_CLOSURE, which opens an upvalue.                                     *)
LEMMA ClosureData ==
  ASSUME NEW lev, Good(th, cst, pend, lev), Data(th, cst, pend), NEW t,
         NEW r \in Slot, OP_CLOSURE(t, r)
  PROVE  Data(th', cst', pend')
<1> DEFINE L == th[t]
           M == luaF_findupval(L, r)
<1>1. LuaRuns(t) /\ ~Frame(L).open /\ r \in Registers(L) /\ Go(th, t, M, cst)
  BY DEF OP_CLOSURE
<1>2. /\ ThreadOK(L, cst, t) /\ IsSeq(cst) /\ Frame(L) = Top(L) /\ L.top = Top(L).top
      /\ Top(L).base \in Nat /\ Top(L).top \in Nat /\ Top(L).lua /\ Under(L, cst, t)
  BY <1>1, LuaAt
<1>3. Top(L).base <= r /\ r < Top(L).top /\ r < L.top
  BY <1>1, <1>2 DEF Registers
<1>4. ThreadOK(M, cst, t) /\ Top(M) = Top(L) /\ M.top = L.top
  BY <1>2, <1>3, FindThread DEF Under
<1> HIDE DEF M
<1> QED
  BY <1>1, <1>2, <1>4, LuaGo

(* OP_CLOSE, which closes the upvalues of a block.                         *)
LEMMA CloseData ==
  ASSUME NEW lev, Good(th, cst, pend, lev), Data(th, cst, pend), NEW t,
         NEW r \in Slot, OP_CLOSE(t, r)
  PROVE  Data(th', cst', pend')
<1> DEFINE L == th[t]
           M == luaF_close(L, r)
<1>1. LuaRuns(t) /\ ~Frame(L).open /\ Go(th, t, M, cst)
  BY DEF OP_CLOSE
<1>2. /\ ThreadOK(L, cst, t) /\ IsSeq(cst) /\ Frame(L) = Top(L) /\ L.top = Top(L).top
  BY <1>1, LuaAt
<1>3. r \in Int
  BY Sizes
<1>4. ThreadOK(M, cst, t) /\ Top(M) = Top(L) /\ M.top = L.top
  BY <1>2, <1>3, CloseThread
<1> HIDE DEF M
<1> QED
  BY <1>1, <1>2, <1>4, LuaGo

(* OP_SETUPVAL, which writes a register through an upvalue.                *)
LEMMA SetUpvalData ==
  ASSUME NEW lev, Good(th, cst, pend, lev), Data(th, cst, pend), NEW t,
         NEW v \in Stored, OP_SETUPVAL(t, v)
  PROVE  Data(th', cst', pend')
<1> DEFINE L == th[t]
<1>1. PICK i \in 1 .. Len(L.openupval) : Go(th, t, SetSlot(L, L.openupval[i], v), cst)
  BY DEF OP_SETUPVAL
<1> DEFINE u == L.openupval[i]
           M == SetSlot(L, u, v)
<1>2. LuaRuns(t) /\ ~Frame(L).open /\ u \in Ups(L) /\ Go(th, t, M, cst)
  BY <1>1 DEF OP_SETUPVAL, Ups
<1>3. /\ ThreadOK(L, cst, t) /\ IsSeq(cst) /\ Frame(L) = Top(L) /\ L.top = Top(L).top
      /\ Above(cst, t, Top(L).base) /\ Top(L).base \in Nat
      /\ Top(L).base <= L.top /\ L.top \in Nat /\ Clean(L) /\ UpFree(L, L.top) /\ Mem(L)
  BY <1>2, LuaAt
<1>4. v \in Value
  BY CallsAssumption DEF Value
<1>5. u \in Slot /\ u < L.top
  BY <1>2, <1>3, MemFacts DEF UpFree
<1>6. Sorted(L.openupval)
  BY <1>3 DEF Mem
<1> HIDE DEF u
<1>7. /\ DOMAIN M = Fields /\ M.stk = [L.stk EXCEPT ![u] = v] /\ M.top = L.top
      /\ M.ci = L.ci /\ M.openupval = L.openupval /\ M.base = L.base
      /\ M.status = L.status /\ M.errfunc = L.errfunc /\ M.allowhook = L.allowhook
  BY <1>3 DEF Clean, Fields, SetSlot
<1> HIDE DEF M, L
<1>8. M.stk \in [Slot -> Value] /\ NilAbove(M) /\ Ups(M) = Ups(L)
      /\ \A j \in Slot : M.stk[j] = L.stk[j] \/ j \in Ups(L)
  BY <1>2, <1>3, <1>4, <1>5, <1>7, Sizes DEF Clean, NilAbove, Ups
<1> DEFINE w == Top(L).base
<1>9. w \in Int /\ Top(L).base <= w /\ w <= L.top /\ Above(cst, t, w)
  BY <1>3
<1> HIDE DEF w
<1>10. ThreadOK(M, cst, t) /\ Top(M) = Top(L)
  BY <1>3, <1>6, <1>7, <1>8, <1>9, StayThread
<1> QED
  BY <1>2, <1>3, <1>7, <1>10, LuaGo

(* The frame on top is given its mark.                                     *)
LEMMA MarkThread ==
  ASSUME NEW C, IsSeq(C), NEW t, NEW L, ThreadOK(L, C, t), Under(L, C, t),
         NEW b \in BOOLEAN
  PROVE  LET M == MarkOpen(L, b)
         IN /\ ThreadOK(M, C, t) /\ Top(M) = [Top(L) EXCEPT !.open = b]
            /\ Top(M).top = Top(L).top /\ Top(M).open = b /\ Top(M).base = Top(L).base
            /\ Top(M).lua = Top(L).lua /\ Top(M).func = Top(L).func
            /\ M.top = L.top /\ M.openupval = L.openupval
            /\ M.status = L.status /\ Len(M.ci) = Len(L.ci)
            /\ \A j \in 1 .. Len(L.ci) - 1 : M.ci[j] = L.ci[j]
<1> DEFINE f == [Top(L) EXCEPT !.open = b]
           M == SetFrame(L, f)
<1>1. Mem(L) /\ Frame(L) = Top(L)
  BY MemFacts DEF ThreadOK
<1>2. Top(L) \in FrameType /\ Top(L).base <= Top(L).top /\ Top(L).top \in Nat
  <2>1. Len(L.ci) \in 1 .. Len(L.ci)
    BY <1>1, MemFacts
  <2> QED
    BY <1>1, <2>1, MemFacts DEF Top
<1>3. /\ f \in FrameType /\ SameFrame(f, Top(L)) /\ f.top = Top(L).top
      /\ f.base = Top(L).base /\ f.open = b /\ f.lua = Top(L).lua /\ f.func = Top(L).func
  BY <1>2 DEF FrameType, SameFrame
<1>4. M = MarkOpen(L, b)
  BY <1>1 DEF MarkOpen
<1> HIDE DEF f
<1>5. Settled(L, C, t) /\ \A i \in 1 .. Len(C) : C[i].t = t => C[i].ci < Len(L.ci)
  <2>1. Len(L.ci) \in Nat
    BY <1>1, MemFacts
  <2> QED
    BY <2>1 DEF Settled, Under
<1>6. ThreadOK(M, C, t) /\ Top(M) = f
  BY <1>2, <1>3, <1>5, FrameThread
<1>7. M.top = L.top /\ M.openupval = L.openupval
      /\ M.status = L.status /\ Len(M.ci) = Len(L.ci)
      /\ \A j \in 1 .. Len(L.ci) - 1 : M.ci[j] = L.ci[j]
  BY <1>1, <1>3, SetFrameFacts
<1> QED
  BY <1>3, <1>4, <1>6, <1>7 DEF f

(* No upvalue is open above the registers of the running Lua function.     *)
LEMMA UpsBelowTop ==
  ASSUME NEW L, Mem(L), Top(L).lua
  PROVE  UpFree(L, Top(L).top)
<1> SUFFICES ASSUME NEW u \in Ups(L) PROVE u < Top(L).top
  BY DEF UpFree
<1> DEFINE n == Len(L.ci)
<1>1. /\ n \in Nat /\ n \in 1 .. n /\ u \in Nat
      /\ \A i \in 1 .. n : L.ci[i].func \in Nat /\ L.ci[i].base \in Nat /\ L.ci[i].top \in Nat
                           /\ L.ci[i].func < L.ci[i].base /\ L.ci[i].base <= L.ci[i].top
  BY MemFacts, UpsBelow
<1>2. PICK j \in 1 .. n : Owns(L, j, u)
  BY DEF Mem, Owned
<1>3. CASE j = n
  BY <1>2, <1>3 DEF Owns, Top
<1>4. CASE j # n
  <2>1. j < n /\ j + 1 \in 1 .. n
    BY <1>1, <1>4
  <2>2. u < L.ci[j + 1].func
    BY <1>2, <2>1 DEF Owns
  <2>3. L.ci[j + 1].func <= L.ci[n].func
    <3>1. CASE j + 1 = n
      BY <1>1, <3>1
    <3>2. CASE j + 1 # n
      <4>1. j + 1 < n
        BY <1>1, <2>1, <3>2
      <4>2. L.ci[j + 1].base <= L.ci[n].func
        BY <1>1, <2>1, <4>1, FramesNested
      <4>3. L.ci[j + 1].func < L.ci[j + 1].base /\ L.ci[j + 1].func \in Nat
            /\ L.ci[j + 1].base \in Nat /\ L.ci[n].func \in Nat
        BY <1>1, <2>1
      <4> QED
        BY <4>2, <4>3
    <3> QED
      BY <3>1, <3>2
  <2> DEFINE x == L.ci[j + 1].func
             g == L.ci[n]
  <2>4. x \in Nat /\ g.func \in Nat /\ g.base \in Nat /\ g.top \in Nat
        /\ g.func < g.base /\ g.base <= g.top /\ Top(L) = g
    BY <1>1, <2>1 DEF Top
  <2> HIDE DEF x, g
  <2>5. u < x /\ x <= g.func
    BY <2>2, <2>3 DEF x, g
  <2> QED
    BY <1>1, <2>4, <2>5
<1> QED
  BY <1>3, <1>4

(* The top goes to the end of the frame.                                   *)
LEMMA ToFrameTopEdit ==
  ASSUME NEW L, Clean(L), NEW m, m = Frame(L).top, m \in Int, NEW w \in Int, w <= m
  PROVE  Edit(ToFrameTop(L), L, w) /\ ToFrameTop(L).top = m
<1> DEFINE k == [i \in Slot |-> IF m <= i /\ i < L.top THEN Nil ELSE L.stk[i]]
           M == ToFrameTop(L)
<1>1. /\ k \in [Slot -> Value]
      /\ \A i \in Slot : i >= m => k[i] = Nil
      /\ \A i \in Slot : i < w => k[i] = L.stk[i]
  BY SetNilClean
<1>2. /\ DOMAIN M = Fields /\ M.stk = k /\ M.top = m /\ M.ci = L.ci
      /\ M.openupval = L.openupval /\ M.base = L.base /\ M.status = L.status
      /\ M.errfunc = L.errfunc /\ M.allowhook = L.allowhook
  BY DEF Clean, Fields, ToFrameTop, SetNil
<1> HIDE DEF k, M
<1>3. Edit(M, L, w) /\ M.top = m
  BY <1>1, <1>2 DEF Edit, Kept, Over, NilAbove
<1> QED
  BY <1>3 DEF M

(* OP_SETLIST, which gives the frame its top back.                         *)
LEMMA SetListData ==
  ASSUME NEW lev, Good(th, cst, pend, lev), Data(th, cst, pend), NEW t, OP_SETLIST(t)
  PROVE  Data(th', cst', pend')
<1> DEFINE L == th[t]
           K == ToFrameTop(L)
           q == FALSE
           M == MarkOpen(K, q)
<1>1. LuaRuns(t) /\ Go(th, t, M, cst)
  BY DEF OP_SETLIST
<1>2. /\ ThreadOK(L, cst, t) /\ IsSeq(cst) /\ Frame(L) = Top(L) /\ Top(L).lua
      /\ Above(cst, t, Top(L).base) /\ Top(L).base \in Nat /\ Top(L).top \in Nat
      /\ Top(L).base <= Top(L).top /\ Top(L).top <= Slots /\ Clean(L) /\ Mem(L)
      /\ Under(L, cst, t)
  BY <1>1, LuaAt
<1> DEFINE w == Top(L).base
           m == Top(L).top
<1>3. w \in Int /\ m \in Int /\ w <= m /\ m <= Slots /\ UpFree(L, m) /\ m = Frame(L).top
      /\ Above(cst, t, w)
  BY <1>2, UpsBelowTop
<1> HIDE DEF m
<1>4. Edit(K, L, w) /\ K.top = m
  BY <1>2, <1>3, ToFrameTopEdit
<1> HIDE DEF K
<1>5. ThreadOK(K, cst, t) /\ Top(K) = Top(L)
  BY <1>2, <1>3, <1>4, EditThread
<1>6. Under(K, cst, t)
  BY <1>2, <1>4 DEF Under, Edit, Kept
<1>7. ThreadOK(M, cst, t) /\ Top(M).top = Top(K).top /\ M.top = K.top
  <2>1. q \in BOOLEAN
    OBVIOUS
  <2> HIDE DEF q
  <2> QED
    BY <1>2, <1>5, <1>6, <2>1, MarkThread
<1> HIDE DEF M
<1> QED
  BY <1>1, <1>4, <1>5, <1>7, LuaGo DEF m

(* Copying the extra arguments to registers edits above the first.         *)
LEMMA VarargEdit ==
  ASSUME NEW L, Clean(L), NEW base \in Nat, NEW n \in Nat, n < base, base <= Slots + 1,
         NEW ra \in Nat, 1 <= ra, NEW b \in Nat \cup {-1}, ra <= L.top,
         b # -1 => ra + b <= L.top
  PROVE  LET L1 == IF b = MULTRET THEN [CutTo(L, ra + n) EXCEPT !.top = ra + n] ELSE L
             count == IF b = MULTRET THEN n ELSE b
             M == [L1 EXCEPT !.stk =
                     [i \in Slot |-> IF i \in ra .. ra + count - 1
                                     THEN IF i - ra < n THEN L.stk[base - n + i - ra] ELSE Nil
                                     ELSE @[i]]]
         IN Edit(M, L, ra) /\ M.top = IF b = -1 THEN ra + n ELSE L.top
<1> DEFINE L1 == IF b = MULTRET THEN [CutTo(L, ra + n) EXCEPT !.top = ra + n] ELSE L
           count == IF b = MULTRET THEN n ELSE b
           k == [i \in Slot |-> IF i \in ra .. ra + count - 1
                                THEN IF i - ra < n THEN L.stk[base - n + i - ra] ELSE Nil
                                ELSE L1.stk[i]]
           M == [L1 EXCEPT !.stk = k]
<1>1. Edit(L1, L, ra) /\ L1.top = IF b = -1 THEN ra + n ELSE L.top
  <2>1. CASE b = -1
    <3> DEFINE x == ra + n
               K == CutTo(L, x)
    <3>1. x \in Int /\ ra <= x
      OBVIOUS
    <3> HIDE DEF x
    <3>2. Edit(K, L, ra) /\ K.top = x
      BY <3>1, CutToEdit
    <3>3. L1 = [K EXCEPT !.top = x]
      BY <2>1 DEF MULTRET, x
    <3> HIDE DEF K
    <3>4. L1.top = x /\ DOMAIN L1 = Fields /\ L1.ci = K.ci /\ L1.stk = K.stk
          /\ L1.openupval = K.openupval /\ L1.base = K.base /\ L1.status = K.status
          /\ L1.errfunc = K.errfunc /\ L1.allowhook = K.allowhook
      BY <3>2, <3>3 DEF Edit, Kept, Fields
    <3> HIDE DEF L1
    <3>5. Edit(L1, L, ra)
      BY <3>2, <3>4 DEF Edit, Kept, Over, NilAbove
    <3> QED
      BY <2>1, <3>4, <3>5 DEF x
  <2>2. CASE b # -1
    <3>1. L1 = L
      BY <2>2 DEF MULTRET
    <3> QED
      BY <2>2, <3>1, EditSame
  <2> QED
    BY <2>1, <2>2
<1>2. count \in Nat /\ ra + count <= L1.top
  BY <1>1 DEF MULTRET
<1> HIDE DEF L1, count
<1>3. k \in [Slot -> Value]
  <2> SUFFICES ASSUME NEW i \in Slot PROVE k[i] \in Value
    OBVIOUS
  <2>1. CASE i \in ra .. ra + count - 1 /\ i - ra < n
    <3>1. base - n + i - ra \in Slot
      BY <1>2, <2>1, Sizes DEF Slot
    <3> QED
      BY <2>1, <3>1 DEF Clean
  <2>2. CASE i \in ra .. ra + count - 1 /\ ~(i - ra < n)
    BY <2>2, Sizes
  <2>3. CASE i \notin ra .. ra + count - 1
    BY <1>1, <2>3 DEF Edit, Over
  <2> QED
    BY <2>1, <2>2, <2>3
<1>4. \A i \in Slot : i < ra => k[i] = L.stk[i]
  BY <1>1, <1>2, Sizes DEF Edit, Over
<1>5. \A i \in Slot : i >= L1.top => k[i] = Nil
  <2>1. L1.top \in Int /\ \A i \in Slot : i >= L1.top => L1.stk[i] = Nil
    BY <1>1 DEF Edit, Over, NilAbove
  <2> QED
    BY <1>2, <2>1, Sizes
<1> HIDE DEF k
<1>6. /\ DOMAIN M = Fields /\ M.stk = k /\ M.top = L1.top /\ M.ci = L.ci
      /\ M.openupval = L.openupval /\ M.base = L.base /\ M.status = L.status
      /\ M.errfunc = L.errfunc /\ M.allowhook = L.allowhook
  BY <1>1 DEF Edit, Kept, Fields
<1>7. ra <= L1.top /\ L1.top \in Int
  BY <1>1 DEF Edit, Over
<1> HIDE DEF M
<1>8. Edit(M, L, ra)
  BY <1>3, <1>4, <1>5, <1>6, <1>7 DEF Edit, Kept, Over, NilAbove
<1> QED
  BY <1>1, <1>6, <1>8 DEF M, k, count, L1

(* OP_VARARG.                                                              *)
LEMMA VarargData ==
  ASSUME NEW lev, Good(th, cst, pend, lev), Data(th, cst, pend), NEW t,
         NEW ra \in Slot, NEW b \in Results, OP_VARARG(t, ra, b)
  PROVE  Data(th', cst', pend')
<1> DEFINE L == th[t]
           f == Top(L)
           n == f.base - f.func - f.numparams - 1
           base == f.base
           L1 == IF b = MULTRET THEN [CutTo(L, ra + n) EXCEPT !.top = ra + n] ELSE L
           count == IF b = MULTRET THEN n ELSE b
           K == [L1 EXCEPT !.stk =
                     [i \in Slot |-> IF i \in ra .. ra + count - 1
                                     THEN IF i - ra < n THEN L.stk[base - n + i - ra] ELSE Nil
                                     ELSE @[i]]]
           q == b = MULTRET
           M == MarkOpen(K, q)
<1>1. LuaRuns(t)
  BY DEF OP_VARARG
<1>2. /\ ThreadOK(L, cst, t) /\ IsSeq(cst) /\ Frame(L) = f /\ f.lua /\ Mem(L)
      /\ f.base \in Nat /\ f.top \in Nat /\ f.func \in Nat /\ f \in FrameType
      /\ f.base <= f.top /\ f.top <= Slots /\ Clean(L) /\ Under(L, cst, t)
      /\ 1 <= f.func /\ f.func < f.base /\ (~f.open => L.top = f.top)
  BY <1>1, LuaAt
<1>3. /\ f.is_vararg /\ ~f.open /\ ra \in Registers(L) /\ Temporary(L, ra)
      /\ ra + n <= stack_last /\ ra + b <= f.top /\ Go(th, t, M, cst)
  BY <1>2 DEF OP_VARARG
<1>4. f.numparams \in Nat /\ f.func + f.numparams < f.base
  <2>1. FrameOK(f)
    <3>1. Len(L.ci) \in 1 .. Len(L.ci)
      BY <1>2, MemFacts
    <3> QED
      BY <1>2, <3>1 DEF Mem, Nested, Top
  <2> QED
    BY <1>2, <1>3, <2>1 DEF FrameType, FrameOK
<1>5. base \in Nat /\ n \in Nat /\ n < base /\ base <= Slots + 1
  BY <1>2, <1>4, Sizes
<1>6. /\ base <= ra /\ ra < f.top /\ ra \in Nat /\ 1 <= ra /\ b \in Nat \cup {-1}
      /\ L.top = f.top
  BY <1>2, <1>3, CallsAssumption, Sizes DEF Registers
<1>7. Above(cst, t, ra) /\ UpFree(L, ra)
  <2>1. f.func <= ra
    BY <1>2, <1>6
  <2>2. Above(cst, t, ra)
    BY <1>2, <1>6, <2>1, UnderAbove
  <2> QED
    BY <1>3, <2>2 DEF Temporary, UpFree, Ups
<1>8. ra <= L.top /\ (b # -1 => ra + b <= L.top)
  BY <1>2, <1>3, <1>6
<1> HIDE DEF n, base
<1>9. Edit(K, L, ra) /\ K.top = IF b = -1 THEN ra + n ELSE L.top
  BY <1>2, <1>5, <1>6, <1>8, VarargEdit
<1> HIDE DEF K
<1>10. K.top <= Slots /\ ra <= K.top /\ K.top \in Int
  <2>1. CASE b = -1
    BY <1>3, <1>5, <1>6, <1>9, <2>1, Sizes
  <2>2. CASE b # -1
    BY <1>2, <1>6, <1>9, <2>2
  <2> QED
    BY <2>1, <2>2
<1>11. UpFree(L, K.top)
  BY <1>2, <1>6, <1>7, <1>10, UpsBelow DEF UpFree
<1>12. ThreadOK(K, cst, t) /\ Top(K) = f
  BY <1>2, <1>6, <1>7, <1>9, <1>10, <1>11, EditThread DEF base
<1>13. Under(K, cst, t) /\ q \in BOOLEAN
  BY <1>2, <1>9 DEF Under, Edit, Kept
<1> HIDE DEF q
<1>14. ThreadOK(M, cst, t) /\ Top(M).top = f.top /\ Top(M).open = q /\ M.top = K.top
  BY <1>2, <1>12, <1>13, MarkThread
<1>15. Top(M).open \/ M.top = Top(M).top
  BY <1>6, <1>9, <1>14 DEF q, MULTRET
<1> HIDE DEF M
<1> QED
  BY <1>1, <1>3, <1>14, <1>15, LuaGo

(* An instruction that raises an error.                                    *)
LEMMA LuaErrorData ==
  ASSUME NEW lev, Good(th, cst, pend, lev), Data(th, cst, pend), NEW t, LuaError(t)
  PROVE  Data(th', cst', pend')
<1>1. LuaRuns(t) /\ (RunError(th, t, th[t], cst) \/ Throw(th, t, th[t], cst, "ERRMEM"))
  BY DEF LuaError
<1>2. At(th, t, th[t], cst)
  BY <1>1, LuaAt
<1> QED
  BY <1>1, <1>2, AtRunError, AtThrow

-----------------------------------------------------------------------------
(* The calls of a Lua function                                             *)

(* The operands of OP_CALL and OP_TAILCALL.                                *)
LEMMA OperandsReady ==
  ASSUME NEW lev, Good(th, cst, pend, lev), Data(th, cst, pend), NEW t, LuaRuns(t),
         NEW ra \in Slot, NEW b \in Nat, CallOperands(th[t], ra, b),
         NEW nresults \in Nat \cup {-1}
  PROVE  LET M == WithArguments(th[t], ra, b)
         IN /\ At(th, t, M, cst) /\ Ready(M, cst, t, ra, nresults)
            /\ Under(M, cst, t) /\ Top(M).lua /\ Len(M.ci) >= 2
<1> DEFINE L == th[t]
           K == IF b = 0 THEN L ELSE CutTo(L, ra + b)
           q == FALSE
           M == MarkOpen(K, q)
<1>1. /\ At(th, t, L, cst) /\ ThreadOK(L, cst, t) /\ IsSeq(cst) /\ Frame(L) = Top(L)
      /\ Top(L).lua /\ Mem(L) /\ Clean(L) /\ Under(L, cst, t) /\ L.status = "ok"
      /\ Top(L).base \in Nat /\ Top(L).func \in Nat /\ Top(L).func < Top(L).base
      /\ L.top \in Nat /\ L.top <= Slots /\ StateOK(L)
      /\ Top(L).base <= L.top /\ Top(L).top \in Nat
  BY LuaAt
<1>2. /\ ra \in Nat /\ Top(L).base <= ra /\ Temporary(L, ra) /\ ra < L.top
      /\ b # 0 => ra + b <= L.top
  <2>1. ra \in Nat /\ ra \in Registers(L)
    BY Sizes DEF CallOperands
  <2> QED
    BY <1>1, <2>1 DEF CallOperands, Registers
<1>3. Above(cst, t, ra) /\ UpFree(L, ra)
  <2>1. Top(L).func <= ra
    BY <1>1, <1>2
  <2>2. Above(cst, t, ra)
    BY <1>1, <1>2, <2>1, UnderAbove
  <2> QED
    BY <1>2, <2>2 DEF Temporary, UpFree, Ups
<1>4. Edit(K, L, ra) /\ ra < K.top /\ K.top <= Slots /\ K.top \in Int
  <2>1. CASE b = 0
    BY <1>1, <1>2, <2>1, EditSame
  <2>2. CASE b # 0
    <3> DEFINE x == ra + b
    <3>1. x \in Int /\ ra <= x /\ ra < x /\ x <= Slots
      BY <1>1, <1>2, <2>2, Sizes
    <3> HIDE DEF x
    <3>2. Edit(CutTo(L, x), L, ra) /\ CutTo(L, x).top = x
      BY <1>1, <1>2, <3>1, CutToEdit
    <3>3. K = CutTo(L, x)
      BY <2>2 DEF x
    <3> QED
      BY <3>1, <3>2, <3>3
  <2> QED
    BY <2>1, <2>2
<1> HIDE DEF K
<1>5. UpFree(L, K.top)
  BY <1>1, <1>2, <1>3, <1>4, UpsBelow DEF UpFree
<1>6. ThreadOK(K, cst, t) /\ Top(K) = Top(L)
  BY <1>1, <1>2, <1>3, <1>4, <1>5, EditThread
<1>7. Under(K, cst, t) /\ q \in BOOLEAN /\ K.ci = L.ci /\ K.openupval = L.openupval
      /\ K.status = L.status
  BY <1>1, <1>4 DEF Under, Edit, Kept
<1> HIDE DEF q
<1>8. /\ ThreadOK(M, cst, t) /\ Top(M).base = Top(L).base /\ M.top = K.top
      /\ Top(M).lua = Top(L).lua /\ M.openupval = K.openupval
      /\ M.status = K.status /\ Len(M.ci) = Len(K.ci)
  <2>1. IsSeq(cst) /\ ThreadOK(K, cst, t) /\ Under(K, cst, t) /\ q \in BOOLEAN
    BY <1>1, <1>6, <1>7
  <2>2. /\ ThreadOK(M, cst, t) /\ Top(M).base = Top(K).base /\ M.top = K.top
        /\ Top(M).lua = Top(K).lua /\ M.openupval = K.openupval
        /\ M.status = K.status /\ Len(M.ci) = Len(K.ci)
    BY <2>1, MarkThread
  <2> QED
    BY <1>6, <2>2
<1>9. M = WithArguments(L, ra, b)
  BY DEF WithArguments, K, q
<1> HIDE DEF M
<1>10. At(th, t, M, cst)
  BY <1>1, <1>8, AtStep
<1>11. Under(M, cst, t) /\ Top(M).lua
  BY <1>1, <1>7, <1>8 DEF Under
<1>12. Len(M.ci) >= 2
  <2>1. Len(L.ci) \in Nat /\ Len(L.ci) >= 1
    BY <1>1, MemFacts
  <2>2. Len(L.ci) # 1
    BY <1>1 DEF StateOK, Top
  <2>3. Len(M.ci) = Len(L.ci)
    BY <1>7, <1>8
  <2> DEFINE m == Len(L.ci)
  <2>4. m \in Nat /\ m >= 1 /\ m # 1 /\ Len(M.ci) = m
    BY <2>1, <2>2, <2>3
  <2> HIDE DEF m
  <2>5. m >= 2
    BY <2>4
  <2> QED
    BY <2>4, <2>5
<1>13. Ready(M, cst, t, ra, nresults)
  <2>1. \A i \in 1 .. Len(cst) : ~(cst[i].t = t /\ cst[i].ci = Len(M.ci))
    <3>1. Len(M.ci) \in Nat
      BY <1>1, <1>7, <1>8, MemFacts
    <3> QED
      BY <1>11, <3>1 DEF Under
  <2>2. UpFree(M, ra)
    BY <1>3, <1>7, <1>8 DEF UpFree, Ups
  <2>3. M.status = "ok" /\ Top(M).base <= ra /\ ra < M.top
    BY <1>1, <1>2, <1>4, <1>7, <1>8
  <2> QED
    BY <1>3, <2>1, <2>2, <2>3 DEF Ready
<1> QED
  BY <1>9, <1>10, <1>11, <1>12, <1>13

(* OP_CALL.                                                                *)
LEMMA CallOpData ==
  ASSUME NEW lev, Good(th, cst, pend, lev), Data(th, cst, pend), NEW t,
         NEW ra \in Slot, NEW b \in 0 .. 2, NEW nresults \in Results,
         OP_CALL(t, ra, b, nresults)
  PROVE  Data(th', cst', pend')
<1> DEFINE M == WithArguments(th[t], ra, b)
           tail == FALSE
<1>1. /\ LuaRuns(t) /\ CallOperands(th[t], ra, b)
      /\ luaD_precall(th, t, M, cst, ra, nresults, tail)
  BY DEF OP_CALL
<1>2. b \in Nat /\ nresults \in Nat \cup {-1} /\ tail \in BOOLEAN /\ ~tail
  BY CallsAssumption
<1>3. At(th, t, M, cst) /\ Ready(M, cst, t, ra, nresults)
  BY <1>1, <1>2, OperandsReady
<1>4. ActsOK(cst) /\ cst # <<>>
  BY <1>1, LuaAt DEF ChainOK
<1> HIDE DEF M, tail
<1> QED
  BY <1>1, <1>2, <1>3, <1>4, PrecallData

(* OP_TAILCALL.                                                            *)
LEMMA TailCallData ==
  ASSUME NEW lev, Good(th, cst, pend, lev), Data(th, cst, pend), NEW t,
         NEW ra \in Slot, NEW b \in 0 .. 2, OP_TAILCALL(t, ra, b)
  PROVE  Data(th', cst', pend')
<1> DEFINE M == WithArguments(th[t], ra, b)
           tail == TRUE
           nresults == MULTRET
<1>1. /\ LuaRuns(t) /\ CallOperands(th[t], ra, b)
      /\ luaD_precall(th, t, M, cst, ra, nresults, tail)
  BY DEF OP_TAILCALL
<1>2. b \in Nat /\ nresults \in Nat \cup {-1} /\ tail \in BOOLEAN
  BY DEF MULTRET
<1> HIDE DEF nresults
<1>3. /\ At(th, t, M, cst) /\ Ready(M, cst, t, ra, nresults)
      /\ Under(M, cst, t) /\ Top(M).lua /\ Len(M.ci) >= 2
  BY <1>1, <1>2, OperandsReady
<1>4. ActsOK(cst) /\ cst # <<>>
  BY <1>1, LuaAt DEF ChainOK
<1> HIDE DEF M, tail
<1> QED
  BY <1>1, <1>2, <1>3, <1>4, PrecallData

(* Operands go above the registers, and the metamethod is called.          *)
LEMMA MetaData ==
  ASSUME NEW lev, Good(th, cst, pend, lev), Data(th, cst, pend), NEW t, LuaRuns(t),
         NEW L, L = th[t], ~Top(L).open,
         NEW M, ThreadOK(M, cst, t), M.ci = L.ci, M.openupval = L.openupval,
         M.status = L.status, L.top < M.top, L.top < Slots,
         NEW e, ActOK(e), e.k \in Meta, RecFields(e), e.t = t, e.ci = Len(L.ci),
         MetaRec(L, e), NEW func, func = L.top, NEW nresults,
         nresults = IF e.k = "callTM" THEN 0 ELSE 1,
         luaD_call(t, M, cst, e, func, nresults)
  PROVE  Data(th', cst', pend')
<1>1. /\ At(th, t, L, cst) /\ ThreadOK(L, cst, t) /\ IsSeq(cst) /\ Mem(L) /\ L.status = "ok"
      /\ Top(L).base \in Nat /\ Top(L).base <= L.top /\ L.top \in Nat /\ L.top = Top(L).top
      /\ UpFree(L, L.top) /\ Under(L, cst, t) /\ ChainOK(cst)
  BY LuaAt
<1>2. At(th, t, M, cst) /\ Top(M) = Top(L)
  BY <1>1, AtStep DEF Top
<1>3. ~Guarded(e) /\ e.k # "hook" /\ e.k # "pcall" /\ e.k # "resume" /\ e.k # "call"
  BY DEF Meta, Guarded
<1>4. Len(L.ci) \in Nat /\ Len(L.ci) \in 1 .. Len(L.ci) /\ ~(Len(L.ci) < Len(L.ci))
  BY <1>1, MemFacts
<1>5. RecOK(M, e, Len(M.ci))
  <2>1. MetaRec(M, e)
    BY DEF MetaRec
  <2> QED
    BY <1>3, <1>4, <2>1 DEF RecOK
<1>6. At(th, t, M, Append(cst, e))
  <2>1. cst # <<>> => cst[Len(cst)].k # "hook"
    BY DEF LuaRuns, InC, InHook, Last
  <2>2. \A i \in 1 .. Len(cst) : (cst[i].t = t /\ cst[i].k = "hook") =>
          /\ e.k # "hook" /\ (e.k = "pcall" => ~e.allowhook)
          /\ i = Len(cst) => e.k \notin Meta
    <3>1. ASSUME NEW i \in 1 .. Len(cst), i = Len(cst) PROVE cst[i].k # "hook"
      BY <1>1, <2>1, <3>1 DEF IsSeq
    <3> QED
      BY <1>3, <3>1
  <2> QED
    BY <1>2, <1>3, <1>5, <2>2, AtAppend
<1>7. Ready(M, Append(cst, e), t, func, nresults)
  <2> DEFINE C == Append(cst, e)
  <2>1. /\ Len(C) = Len(cst) + 1 /\ C[Len(cst) + 1] = e
        /\ \A i \in 1 .. Len(cst) : C[i] = cst[i]
        /\ Len(cst) \in Nat
    BY <1>1, SeqAppend
  <2> HIDE DEF C
  <2>2. \A i \in 1 .. Len(C) : i \in 1 .. Len(cst) \/ C[i] = e
    BY <2>1
  <2>3. Above(C, t, func)
    <3>1. Above(cst, t, func)
      BY <1>1, AboveTop
    <3> QED
      BY <1>3, <2>1, <2>2, <3>1 DEF Above
  <2>4. UpFree(M, func)
    BY <1>1 DEF UpFree, Ups
  <2>5. ASSUME NEW i \in 1 .. Len(C), C[i].t = t, C[i].ci = Len(M.ci)
        PROVE  CalleeOK(C[i], Top(M).top, func, nresults)
    <3>1. C[i] = e
      <4>1. CASE i \in 1 .. Len(cst)
        <5>1. cst[i].ci < Len(L.ci)
          BY <1>1, <2>1, <2>5, <4>1 DEF Under
        <5> QED
          BY <1>4, <2>1, <2>5, <4>1, <5>1
      <4> QED
        BY <2>2, <4>1
    <3>2. func + nresults <= Slots
      BY <1>1, Sizes
    <3> QED
      BY <1>1, <1>2, <1>3, <3>1, <3>2 DEF CalleeOK
  <2>6. func \in Slot /\ nresults \in Nat \cup {-1}
    <3>1. 2 <= func
      BY <1>1 DEF Mem, WindowOK
    <3> QED
      BY <1>1, <3>1, Sizes DEF Slot
  <2>7. M.status = "ok" /\ Top(M).base <= func /\ func < M.top
    BY <1>1, <1>2
  <2> QED
    BY <2>3, <2>4, <2>5, <2>6, <2>7 DEF Ready, C
<1>8. ActsOK(cst)
  BY <1>1 DEF ChainOK
<1> QED
  BY <1>6, <1>7, <1>8, CallData

(* Pushing a value keeps a thread in order.                                *)
LEMMA PushMessage ==
  ASSUME NEW C, IsSeq(C), NEW t, NEW L, ThreadOK(L, C, t), L.top < Slots
  PROVE  LET M == Push(L, Message)
         IN /\ ThreadOK(M, C, t) /\ M.top = L.top + 1 /\ M.ci = L.ci
            /\ M.openupval = L.openupval /\ M.status = L.status
<1>1. Message \in Value
  BY Sizes
<1> QED
  BY <1>1, PushThread DEF Edit, Kept

(* So does pushing a function and two arguments.                           *)
LEMMA PushThree ==
  ASSUME NEW C, IsSeq(C), NEW t, NEW L, ThreadOK(L, C, t), L.top + 3 <= Slots
  PROVE  LET M == Push(Push(Push(L, Message), Message), Message)
         IN /\ ThreadOK(M, C, t) /\ M.top = L.top + 3 /\ M.ci = L.ci
            /\ M.openupval = L.openupval /\ M.status = L.status
<1>1. L.top \in Nat /\ Slots \in Nat
  BY MemFacts, Sizes DEF ThreadOK
<1> DEFINE K1 == Push(L, Message)
           K2 == Push(K1, Message)
           K3 == Push(K2, Message)
<1>2. /\ ThreadOK(K1, C, t) /\ K1.top = L.top + 1 /\ K1.ci = L.ci
      /\ K1.openupval = L.openupval /\ K1.status = L.status
  <2>1. L.top < Slots
    BY <1>1
  <2> QED
    BY <2>1, PushMessage
<1> HIDE DEF K1
<1>3. /\ ThreadOK(K2, C, t) /\ K2.top = K1.top + 1 /\ K2.ci = K1.ci
      /\ K2.openupval = K1.openupval /\ K2.status = K1.status
  <2>1. K1.top < Slots
    BY <1>1, <1>2
  <2> QED
    BY <1>2, <2>1, PushMessage
<1> HIDE DEF K2
<1>4. /\ ThreadOK(K3, C, t) /\ K3.top = K2.top + 1 /\ K3.ci = K2.ci
      /\ K3.openupval = K2.openupval /\ K3.status = K2.status
  <2>1. K2.top < Slots
    BY <1>1, <1>2, <1>3
  <2> QED
    BY <1>3, <2>1, PushMessage
<1> HIDE DEF K3
<1> QED
  BY <1>1, <1>2, <1>3, <1>4 DEF K3, K2, K1

(* A metamethod with a result.                                             *)
LEMMA TMresData ==
  ASSUME NEW lev, Good(th, cst, pend, lev), Data(th, cst, pend), NEW t,
         NEW res, callTMres(t, res)
  PROVE  Data(th', cst', pend')
<1> DEFINE L == th[t]
           M == Push(Push(Push(L, Message), Message), Message)
           e == [k |-> "callTMres", t |-> t, nexec |-> 0, ci |-> Len(L.ci), res |-> res]
<1>1. /\ LuaRuns(t) /\ ~Frame(L).open /\ res \in Registers(L) /\ L.top + 3 <= Slots
      /\ luaD_call(t, M, cst, e, L.top, 1)
  BY DEF callTMres
<1>2. /\ At(th, t, L, cst) /\ ThreadOK(L, cst, t) /\ IsSeq(cst) /\ Frame(L) = Top(L)
      /\ Top(L).lua /\ L.top \in Nat /\ L.top <= Slots
      /\ Top(L).base \in Nat /\ Top(L).top \in Nat /\ Top(L).top <= Slots
      /\ 1 <= Top(L).func /\ Top(L).func < Top(L).base /\ Top(L).func \in Nat
  BY <1>1, LuaAt
<1>3. /\ ThreadOK(M, cst, t) /\ M.top = L.top + 3 /\ M.ci = L.ci
      /\ M.openupval = L.openupval /\ M.status = L.status
  <2>1. L.top + 3 <= Slots /\ IsSeq(cst) /\ ThreadOK(L, cst, t)
    BY <1>1, <1>2
  <2> QED
    BY <2>1, PushThree
<1> HIDE DEF M
<1>4. ActOK(e) /\ e.k \in Meta /\ RecFields(e) /\ e.t = t /\ e.ci = Len(L.ci)
      /\ e.k = "callTMres" /\ e.res = res
  <2>1. t \in Thread
    BY <1>2 DEF At
  <2> QED
    BY <2>1 DEF ActOK, Meta, RecFields, Calling
<1>5. res \in Slot /\ Top(L).base <= res /\ res < Top(L).top
  BY <1>1, <1>2, Sizes DEF Registers, Slot
<1> HIDE DEF e
<1>6. MetaRec(L, e)
  BY <1>1, <1>2, <1>4, <1>5 DEF MetaRec, Top
<1>7. L.top < M.top /\ L.top < Slots /\ 1 = IF e.k = "callTM" THEN 0 ELSE 1
  BY <1>1, <1>2, <1>3, <1>4, Sizes
<1> QED
  BY <1>1, <1>2, <1>3, <1>4, <1>6, <1>7, MetaData

(* A comparison by metamethod.                                             *)
LEMMA CompareData ==
  ASSUME NEW lev, Good(th, cst, pend, lev), Data(th, cst, pend), NEW t, call_orderTM(t)
  PROVE  Data(th', cst', pend')
<1> DEFINE L == th[t]
           M == Push(Push(Push(L, Message), Message), Message)
           e == [k |-> "compare", t |-> t, nexec |-> 0, ci |-> Len(L.ci), res |-> L.top]
<1>1. /\ LuaRuns(t) /\ ~Frame(L).open /\ L.top + 3 <= Slots
      /\ luaD_call(t, M, cst, e, L.top, 1)
  BY DEF call_orderTM
<1>2. /\ At(th, t, L, cst) /\ ThreadOK(L, cst, t) /\ IsSeq(cst) /\ Frame(L) = Top(L)
      /\ Top(L).lua /\ L.top \in Nat /\ L.top <= Slots /\ L.top = Top(L).top
  BY <1>1, LuaAt
<1>3. /\ ThreadOK(M, cst, t) /\ M.top = L.top + 3 /\ M.ci = L.ci
      /\ M.openupval = L.openupval /\ M.status = L.status
  <2>1. L.top + 3 <= Slots /\ IsSeq(cst) /\ ThreadOK(L, cst, t)
    BY <1>1, <1>2
  <2> QED
    BY <2>1, PushThree
<1> HIDE DEF M
<1>4. ActOK(e) /\ e.k \in Meta /\ RecFields(e) /\ e.t = t /\ e.ci = Len(L.ci)
      /\ e.k = "compare" /\ e.res = L.top
  <2>1. t \in Thread
    BY <1>2 DEF At
  <2> QED
    BY <2>1 DEF ActOK, Meta, RecFields, Calling
<1> HIDE DEF e
<1>6. MetaRec(L, e)
  BY <1>1, <1>2, <1>4 DEF MetaRec, Top
<1>7. L.top < M.top /\ L.top < Slots /\ 1 = IF e.k = "callTM" THEN 0 ELSE 1
  BY <1>1, <1>2, <1>3, <1>4, Sizes
<1> QED
  BY <1>1, <1>2, <1>3, <1>4, <1>6, <1>7, MetaData

(* A metamethod without results.                                           *)
LEMMA CallTMData ==
  ASSUME NEW lev, Good(th, cst, pend, lev), Data(th, cst, pend), NEW t, callTM(t)
  PROVE  Data(th', cst', pend')
<1> DEFINE L == th[t]
           K == Push(Push(Push(L, Message), Message), Message)
           M == Push(K, Message)
           e == [k |-> "callTM", t |-> t, nexec |-> 0, ci |-> Len(L.ci)]
<1>1. /\ LuaRuns(t) /\ ~Frame(L).open /\ L.top + 4 <= Slots
      /\ luaD_call(t, M, cst, e, L.top, 0)
  BY DEF callTM
<1>2. /\ At(th, t, L, cst) /\ ThreadOK(L, cst, t) /\ IsSeq(cst) /\ Frame(L) = Top(L)
      /\ Top(L).lua /\ L.top \in Nat /\ L.top <= Slots
  BY <1>1, LuaAt
<1>3. /\ ThreadOK(K, cst, t) /\ K.top = L.top + 3 /\ K.ci = L.ci
      /\ K.openupval = L.openupval /\ K.status = L.status
  <2>1. L.top + 3 <= Slots
    BY <1>1, <1>2, Sizes
  <2> QED
    BY <1>2, <2>1, PushThree
<1> HIDE DEF K
<1>5. /\ ThreadOK(M, cst, t) /\ M.top = K.top + 1 /\ M.ci = L.ci
      /\ M.openupval = L.openupval /\ M.status = L.status
  <2>1. K.top < Slots
    BY <1>1, <1>2, <1>3, Sizes
  <2> QED
    BY <1>2, <1>3, <2>1, PushMessage
<1> HIDE DEF M
<1>4. ActOK(e) /\ e.k \in Meta /\ RecFields(e) /\ e.t = t /\ e.ci = Len(L.ci)
      /\ e.k = "callTM"
  <2>1. t \in Thread
    BY <1>2 DEF At
  <2> QED
    BY <2>1 DEF ActOK, Meta, RecFields, Calling
<1> HIDE DEF e
<1>6. MetaRec(L, e)
  BY <1>1, <1>2, <1>4 DEF MetaRec, Top
<1>7. L.top < M.top /\ L.top < Slots /\ 0 = IF e.k = "callTM" THEN 0 ELSE 1
  BY <1>1, <1>2, <1>3, <1>4, <1>5, Sizes
<1> QED
  BY <1>1, <1>2, <1>4, <1>5, <1>6, <1>7, MetaData

(* luaD_callhook: the hook runs above everything the function uses.        *)
LEMMA HookData ==
  ASSUME NEW lev, Good(th, cst, pend, lev), Data(th, cst, pend), NEW t, luaD_callhook(t)
  PROVE  Data(th', cst', pend')
<1> DEFINE L == th[t]
           g == Top(L)
           x == L.top + LUA_MINSTACK
           K == [L EXCEPT !.allowhook = FALSE]
           f == [g EXCEPT !.top = x]
           M == SetFrame(K, f)
           e == [k |-> "hook", t |-> t, nexec |-> 0, ci |-> Len(L.ci),
                 top |-> L.top, citop |-> g.top]
<1>1. LuaRuns(t) /\ L.allowhook /\ L.top + LUA_MINSTACK <= stack_last
  BY DEF luaD_callhook
<1>2. /\ At(th, t, L, cst) /\ ThreadOK(L, cst, t) /\ IsSeq(cst) /\ Frame(L) = g /\ Mem(L)
      /\ g \in FrameType /\ g.base \in Nat /\ g.top \in Nat /\ g.func \in Nat
      /\ g.base <= g.top /\ g.top <= Slots /\ g.lua /\ Under(L, cst, t)
      /\ L.top \in Nat /\ L.top <= Slots /\ g.base <= L.top /\ UpFree(L, L.top)
      /\ 1 <= g.func /\ g.func < g.base /\ (~g.open => L.top = g.top)
  BY <1>1, LuaAt
<1>3. Go(th, t, M, Append(cst, e))
  BY <1>2 DEF luaD_callhook
<1>4. x \in Slot /\ L.top <= x /\ x \in Nat /\ g.base <= x
  BY <1>1, <1>2, Sizes DEF Slot
<1>5. /\ DOMAIN K = Fields /\ K.stk = L.stk /\ K.top = L.top /\ K.ci = L.ci
      /\ K.openupval = L.openupval /\ K.base = L.base /\ K.status = L.status
      /\ K.errfunc = L.errfunc /\ K.allowhook = FALSE /\ L.errfunc \in 0 .. Slots
  BY <1>2 DEF Mem, Fields
<1> HIDE DEF K
<1>6. ThreadOK(K, cst, t) /\ Top(K) = g
  BY <1>2, <1>5, SettingsThread
<1> HIDE DEF x, g
<1>7. /\ f \in FrameType /\ SameFrame(f, g) /\ f.base <= f.top /\ f.top = x /\ f.open = g.open
      /\ f.lua = g.lua /\ f.base = g.base
  BY <1>2, <1>4 DEF FrameType, SameFrame
<1> HIDE DEF f
<1>8. UpFree(K, x)
  <2>1. Ups(K) = Ups(L) /\ Ups(L) \subseteq Nat
    BY <1>2, <1>5, UpsBelow DEF Ups
  <2> QED
    BY <1>2, <1>4, <2>1 DEF UpFree
<1>9. Settled(K, cst, t)
  <2>1. Len(L.ci) \in Nat
    BY <1>2, MemFacts
  <2> QED
    BY <1>2, <1>5, <2>1 DEF Settled, Under
<1>10. ThreadOK(M, cst, t) /\ Top(M) = f
  BY <1>2, <1>6, <1>7, <1>8, <1>9, FrameThread
<1>11. M.openupval = L.openupval /\ M.top = L.top /\ Len(M.ci) = Len(L.ci) /\ M.allowhook = FALSE
  <2>1. Mem(K)
    BY <1>6 DEF ThreadOK
  <2> QED
    BY <1>5, <1>7, <2>1, SetFrameFacts
<1> HIDE DEF M
<1>12. /\ e.k = "hook" /\ e.t = t /\ e.ci = Len(L.ci) /\ e.top = L.top /\ e.citop = g.top
       /\ {"k", "t", "nexec", "ci", "top", "citop"} \subseteq DOMAIN e
  OBVIOUS
<1> HIDE DEF e
<1>13. RecOK(M, e, Len(M.ci))
  <2> DEFINE n == Len(M.ci)
  <2>1. n \in Nat /\ n \in 1 .. n /\ Top(M) = M.ci[n] /\ ~(n < n)
    BY <1>10, MemFacts DEF ThreadOK, Top
  <2>2. L.top \in Slot /\ g.top \in Slot
    BY <1>2, Sizes DEF Slot
  <2>3. Floor(e) = L.top /\ Low(e) = L.top
    BY <1>12 DEF Floor, Low
  <2>4. FloorOK(M, e)
    <3>1. \A u \in Ups(M) : u < L.top
      BY <1>2, <1>11 DEF UpFree, Ups
    <3>2. M.ci[n].base <= L.top /\ \A j \in n + 1 .. n : FALSE
      BY <1>2, <1>7, <1>10, <2>1
    <3> QED
      BY <1>2, <1>11, <1>12, <2>2, <2>3, <3>1, <3>2 DEF FloorOK
  <2>5. HookRec(M, e)
    <3>1. \A u \in Ups(M) : u < g.top
      BY <1>2, <1>11, UpsBelowTop DEF UpFree, Ups, g
    <3> QED
      BY <1>2, <1>7, <1>10, <1>11, <1>12, <2>1, <2>2, <3>1 DEF HookRec
  <2>6. RecFields(e)
    BY <1>12 DEF RecFields
  <2>7. e.k \notin Meta /\ e.k # "pcall"
    BY <1>12 DEF Meta
  <2> QED
    BY <1>11, <1>12, <2>1, <2>4, <2>5, <2>6, <2>7 DEF RecOK
<1>14. At(th, t, M, Append(cst, e))
  <2>1. At(th, t, M, cst)
    BY <1>2, <1>10, AtStep
  <2>2. Above(cst, t, Floor(e))
    <3>1. Floor(e) = L.top
      BY <1>12 DEF Floor
    <3> QED
      BY <1>2, <3>1, AboveTop
  <2>3. \A i \in 1 .. Len(cst) : ~(cst[i].t = t /\ cst[i].k = "hook")
    BY <1>1, <1>2 DEF ThreadOK, RecIn
  <2> QED
    BY <1>11, <1>12, <1>13, <2>1, <2>2, <2>3, AtAppend
<1>15. LiveOK(M, Append(cst, e), "none")
  <2>1. Append(cst, e)[Len(Append(cst, e))] = e
    BY <1>2, SeqAppend
  <2> QED
    BY <1>12, <2>1 DEF LiveOK
<1> QED
  BY <1>3, <1>14, <1>15, AtGo

-----------------------------------------------------------------------------
(* C code: pushes, pops, calls and errors                                  *)

(* C code that goes on running.                                            *)
LEMMA CGo ==
  ASSUME NEW lev, Good(th, cst, pend, lev), Data(th, cst, pend), NEW t, CRuns(t),
         NEW M, ThreadOK(M, cst, t), Top(M).lua = Top(th[t]).lua, Go(th, t, M, cst)
  PROVE  Data(th', cst', pend')
<1>1. At(th, t, th[t], cst) /\ (Top(th[t]).lua => cst # <<>> /\ cst[Len(cst)].k = "hook")
  BY CAt
<1>2. At(th, t, M, cst) /\ LiveOK(M, cst, "none")
  BY <1>1, AtStep DEF LiveOK
<1> QED
  BY <1>2, AtGo

(* lua_push.                                                               *)
LEMMA PushData ==
  ASSUME NEW lev, Good(th, cst, pend, lev), Data(th, cst, pend), NEW t,
         NEW v \in Stored, lua_push(t, v)
  PROVE  Data(th', cst', pend')
<1> DEFINE L == th[t]
           M == Push(L, v)
<1>1. CRuns(t) /\ L.top < Frame(L).top /\ Go(th, t, M, cst)
  BY DEF lua_push
<1>2. /\ ThreadOK(L, cst, t) /\ IsSeq(cst) /\ Frame(L) = Top(L) /\ L.top \in Nat
      /\ Top(L).top \in Nat /\ Top(L).top <= Slots
  BY <1>1, CAt
<1>3. v \in Value /\ L.top < Slots
  BY <1>1, <1>2, CallsAssumption, Sizes DEF Value
<1>4. ThreadOK(M, cst, t) /\ Top(M) = Top(L)
  BY <1>2, <1>3, PushThread
<1> HIDE DEF M
<1> QED
  BY <1>1, <1>4, CGo

(* lua_pop.                                                                *)
LEMMA PopData ==
  ASSUME NEW lev, Good(th, cst, pend, lev), Data(th, cst, pend), NEW t, lua_pop(t)
  PROVE  Data(th', cst', pend')
<1> DEFINE L == th[t]
           x == L.top - 1
           w == Bottom(t)
           M == CutTo(L, x)
<1>1. CRuns(t) /\ L.top > Bottom(t) /\ Go(th, t, M, cst)
  BY DEF lua_pop
<1>2. /\ ThreadOK(L, cst, t) /\ IsSeq(cst) /\ L.top \in Nat /\ L.top <= Slots
      /\ w \in Slot /\ Top(L).base <= w /\ UpFree(L, w) /\ Clean(L) /\ Above(cst, t, w)
      /\ Mem(L)
  BY <1>1, CAt
<1>3. x \in Int /\ w \in Int /\ w <= x /\ x <= Slots
  <2>1. w \in Nat /\ w < L.top /\ L.top \in Nat /\ L.top <= Slots
    BY <1>1, <1>2, MemFacts, Sizes
  <2> HIDE DEF w
  <2> QED
    BY <2>1, Sizes
<1> HIDE DEF x, w
<1>4. Edit(M, L, w) /\ M.top = x
  BY <1>2, <1>3, CutToEdit
<1>5. UpFree(L, x)
  BY <1>2, <1>3, UpsBelow DEF UpFree
<1>6. ThreadOK(M, cst, t) /\ Top(M) = Top(L)
  BY <1>2, <1>3, <1>4, <1>5, EditThread
<1> HIDE DEF M
<1> QED
  BY <1>1, <1>6, CGo

(* lua_error.                                                              *)
LEMMA ErrorData ==
  ASSUME NEW lev, Good(th, cst, pend, lev), Data(th, cst, pend), NEW t, lua_error(t)
  PROVE  Data(th', cst', pend')
<1> DEFINE L == th[t]
           x == L.top - 1
           w == Bottom(t)
<1>1. CRuns(t) /\ L.top > Bottom(t) /\ Throw(th, t, L, cst, "message")
  BY DEF lua_error
<1>2. /\ At(th, t, L, cst) /\ L.top \in Nat /\ Mem(L)
      /\ w \in Slot /\ Top(L).base <= w /\ UpFree(L, w) /\ Above(cst, t, w)
      /\ Top(L).base \in Nat /\ ThreadOK(L, cst, t) /\ IsSeq(cst)
  BY <1>1, CAt
<1>3. x \in Int /\ w \in Int /\ w <= x
  <2>1. w \in Nat /\ w < L.top /\ L.top \in Nat /\ L.top <= Slots
    BY <1>1, <1>2, MemFacts, Sizes
  <2> HIDE DEF w
  <2> QED
    BY <2>1, Sizes
<1>4. UpFree(L, x) /\ Top(L).base <= x
  BY <1>2, <1>3, UpsBelow DEF UpFree
<1>5. Above(cst, t, x)
  <2> SUFFICES ASSUME NEW i \in 1 .. Len(cst), cst[i].t = t, Guarded(cst[i])
               PROVE  Floor(cst[i]) <= x
    BY DEF Above
  <2>1. Floor(cst[i]) <= w
    BY <1>2 DEF Above
  <2>2. Floor(cst[i]) \in Nat
    BY <1>2, Sizes DEF ThreadOK, RecIn, RecOK, FloorOK
  <2> QED
    BY <1>3, <2>1, <2>2
<1>6. MessageOK(L, cst, t, "message") /\ LiveOK(L, cst, "message")
  BY <1>4, <1>5 DEF MessageOK, LiveOK
<1>7. Data([th EXCEPT ![t] = L], cst, "message")
  BY <1>2, <1>6, AtData
<1> QED
  BY <1>1, <1>7 DEF Throw

(* Activations at the frame of C code are hooks.                           *)
LEMMA CSettled ==
  ASSUME NEW lev, Good(th, cst, pend, lev), Data(th, cst, pend), NEW t, CRuns(t)
  PROVE  Settled(th[t], cst, t)
<1>1. /\ ChainOK(cst) /\ pend = "none" /\ At(th, t, th[t], cst)
      /\ InHook <=> (cst # <<>> /\ cst[Len(cst)].k = "hook")
  BY CAt
<1>2. CASE cst = <<>>
  BY <1>1, <1>2, RunningThread DEF Settled
<1>3. CASE cst # <<>>
  <2> DEFINE n == Len(cst)
  <2>1. cst[n].t = t /\ HooksNest(cst) /\ n \in Nat /\ Len(th[t].ci) \in Nat
    BY <1>1, <1>3, RunningThread, MemFacts DEF At, Cur, ThreadOK
  <2>2. CASE cst[n].k = "hook"
    <3>1. \A i \in 1 .. n - 1 : cst[i].t = t => cst[i].ci < Len(th[t].ci)
      BY <1>3, <2>1, <2>2, BelowHook
    <3>2. \A i \in 1 .. n : i \in 1 .. n - 1 \/ i = n
      BY <2>1
    <3> QED
      BY <2>1, <2>2, <3>1, <3>2 DEF Settled
  <2>3. CASE cst[n].k # "hook"
    <3>1. \A i \in 1 .. n : cst[i].t = t => cst[i].ci < Len(th[t].ci)
      BY <1>1, <1>3, <2>1, <2>3, Below
    <3> QED
      BY <2>1, <3>1 DEF Settled
  <2> QED
    BY <2>2, <2>3
<1> QED
  BY <1>2, <1>3

(* lua_call and lua_pcall; the activation is at the frame on top.          *)
LEMMA ApiCallData ==
  ASSUME NEW lev, Good(th, cst, pend, lev), Data(th, cst, pend), NEW t, CRuns(t),
         NEW L, L = th[t], NEW M, ThreadOK(M, cst, t), M.ci = L.ci, M.top = L.top,
         M.openupval = L.openupval, M.status = L.status, M.allowhook = L.allowhook,
         NEW e, ActOK(e), e.k \in {"call", "pcall"}, RecFields(e), e.t = t,
         e.ci = Len(L.ci),
         NEW func \in Int, func < L.top, func >= Bottom(t),
         NEW nresults \in Nat \cup {-1}, nresults = -1 \/ func + nresults <= Slots,
         e.k = "pcall" => /\ FloorOK(M, e) /\ PcallRec(M, e) /\ Floor(e) = func
                          /\ e.allowhook = L.allowhook,
         luaD_call(t, M, cst, e, func, nresults)
  PROVE  Data(th', cst', pend')
<1>1. /\ At(th, t, L, cst) /\ ThreadOK(L, cst, t) /\ IsSeq(cst) /\ Mem(L) /\ L.status = "ok"
      /\ Top(L).base \in Nat /\ L.top \in Nat /\ L.top <= Slots
      /\ Bottom(t) \in Slot /\ Top(L).base <= Bottom(t) /\ UpFree(L, Bottom(t))
      /\ Above(cst, t, Bottom(t)) /\ ChainOK(cst)
      /\ Top(L).lua => cst # <<>> /\ cst[Len(cst)].k = "hook"
  BY CAt
<1>2. At(th, t, M, cst) /\ Top(M) = Top(L)
  BY <1>1, AtStep DEF Top
<1>3. e.k # "hook" /\ e.k # "resume" /\ e.k \notin Meta /\ (Guarded(e) => e.k = "pcall")
  BY DEF Meta, Guarded
<1>4. Len(L.ci) \in Nat /\ Len(L.ci) \in 1 .. Len(L.ci) /\ ~(Len(L.ci) < Len(L.ci))
  BY <1>1, MemFacts
<1>5. RecOK(M, e, Len(M.ci))
  BY <1>3, <1>4 DEF RecOK
<1>6. func \in Slot /\ func \in Int /\ Bottom(t) <= func /\ Top(L).base <= func
      /\ Bottom(t) \in Int
  <2> DEFINE b == Bottom(t)
             base == Top(L).base
             top == L.top
  <2>1. b \in 1 .. Slots /\ base \in Nat /\ base <= b /\ top \in Nat /\ top <= Slots
    BY <1>1 DEF Slot
  <2>2. func \in Int /\ func < top /\ b <= func /\ Slots \in Nat
    BY Sizes
  <2> HIDE DEF b, base, top
  <2>3. func \in 1 .. Slots /\ base <= func /\ b \in Int
    BY <2>1, <2>2
  <2> QED
    BY <2>2, <2>3 DEF Slot, b, base
<1>7. Above(cst, t, func)
  <2> SUFFICES ASSUME NEW i \in 1 .. Len(cst), cst[i].t = t, Guarded(cst[i])
               PROVE  Floor(cst[i]) <= func
    BY DEF Above
  <2>1. Floor(cst[i]) <= Bottom(t)
    BY <1>1 DEF Above
  <2>2. Floor(cst[i]) \in Nat
    BY <1>1, Sizes DEF ThreadOK, RecIn, RecOK, FloorOK
  <2> QED
    BY <1>6, <2>1, <2>2
<1>8. At(th, t, M, Append(cst, e))
  <2>1. \A i \in 1 .. Len(cst) : (cst[i].t = t /\ cst[i].k = "hook") =>
          /\ e.k # "hook" /\ (e.k = "pcall" => ~e.allowhook)
          /\ i = Len(cst) => e.k \notin Meta
    BY <1>1, <1>3 DEF ThreadOK, RecIn
  <2>2. ~M.ci[e.ci].lua \/ (cst # <<>> /\ cst[Len(cst)].k = "hook")
    BY <1>1 DEF Top
  <2>3. Guarded(e) => Above(cst, t, Floor(e))
    BY <1>3, <1>7
  <2> QED
    BY <1>2, <1>3, <1>5, <2>1, <2>2, <2>3, AtAppend
<1>9. Ready(M, Append(cst, e), t, func, nresults)
  <2> DEFINE C == Append(cst, e)
  <2>1. /\ Len(C) = Len(cst) + 1 /\ C[Len(cst) + 1] = e
        /\ \A i \in 1 .. Len(cst) : C[i] = cst[i]
        /\ Len(cst) \in Nat
    BY <1>1, SeqAppend
  <2> HIDE DEF C
  <2>2. \A i \in 1 .. Len(C) : i \in 1 .. Len(cst) \/ C[i] = e
    BY <2>1
  <2>3. Above(C, t, func)
    <3>1. Guarded(e) => Floor(e) <= func
      BY <1>3, <1>6
    <3> QED
      BY <1>7, <2>1, <2>2, <3>1 DEF Above
  <2>4. UpFree(M, func)
    <3>1. Ups(M) = Ups(L) /\ Ups(L) \subseteq Nat
      BY <1>1, UpsBelow DEF Ups
    <3> QED
      BY <1>1, <1>6, <3>1 DEF UpFree
  <2>5. ASSUME NEW i \in 1 .. Len(C), C[i].t = t, C[i].ci = Len(M.ci), C[i].k # "hook"
        PROVE  CalleeOK(C[i], Top(M).top, func, nresults)
    <3>1. C[i] = e
      <4>1. CASE i \in 1 .. Len(cst)
        <5>1. Settled(L, cst, t)
          BY CSettled
        <5> QED
          BY <2>1, <2>5, <4>1, <5>1 DEF Settled
      <4> QED
        BY <2>2, <4>1
    <3> QED
      BY <1>3, <3>1 DEF CalleeOK
  <2>7. M.status = "ok" /\ Top(M).base <= func /\ func < M.top
    BY <1>1, <1>2, <1>6
  <2> QED
    BY <1>6, <2>3, <2>4, <2>5, <2>7 DEF Ready, C
<1>10. ActsOK(cst)
  BY <1>1 DEF ChainOK
<1> QED
  BY <1>8, <1>9, <1>10, CallData

(* The results of a call from C have room where its arguments were.        *)
LEMMA ArgsFit ==
  ASSUME NEW top \in Nat, NEW ft \in Nat, ft <= Slots, NEW nargs \in 0 .. 1,
         NEW nresults \in {-1, 1}, nresults - nargs <= ft - top, NEW func,
         func = top - (nargs + 1)
  PROVE  func \in Int /\ func < top /\ (nresults = -1 \/ func + nresults <= Slots)
BY Sizes

(* lua_call.                                                               *)
LEMMA LuaCallData ==
  ASSUME NEW lev, Good(th, cst, pend, lev), Data(th, cst, pend), NEW t,
         NEW nargs \in 0 .. 1, NEW nresults, nresults = 1, lua_call(t, nargs, nresults)
  PROVE  Data(th', cst', pend')
<1> DEFINE L == th[t]
           func == L.top - (nargs + 1)
           e == [k |-> "call", t |-> t, nexec |-> 0, ci |-> Len(L.ci),
                 nresults |-> nresults]
<1>1. /\ CRuns(t) /\ func >= Bottom(t) /\ nresults - nargs <= Frame(L).top - L.top
      /\ luaD_call(t, L, cst, e, func, nresults)
  BY DEF lua_call
<1>2. /\ ThreadOK(L, cst, t) /\ At(th, t, L, cst) /\ Frame(L) = Top(L)
      /\ L.top \in Nat /\ Top(L).top \in Nat /\ Top(L).top <= Slots
  BY <1>1, CAt
<1>3. func \in Int /\ func < L.top /\ (nresults = -1 \/ func + nresults <= Slots)
  BY <1>1, <1>2, ArgsFit
<1> HIDE DEF func
<1>4. /\ ActOK(e) /\ e.k \in {"call", "pcall"} /\ e.k # "pcall" /\ RecFields(e) /\ e.t = t
      /\ e.ci = Len(L.ci)
  <2>1. t \in Thread
    BY <1>2 DEF At
  <2> QED
    BY <2>1 DEF ActOK, RecFields, Calling
<1> HIDE DEF e
<1>5. nresults \in Nat \cup {-1}
  OBVIOUS
<1> QED
  BY <1>1, <1>2, <1>3, <1>4, <1>5, ApiCallData

(* What a protected call keeps of the stack of its caller.                 *)
LEMMA KeepFacts ==
  ASSUME NEW stk \in [Slot -> Value], NEW b \in Slot, NEW func \in Slot, b <= func
  PROVE  LET keep == SubSeq(stk, b, func - 1)
         IN /\ keep \in Seq(Value) /\ Len(keep) = func - b
            /\ \A i \in 1 .. Len(keep) : keep[i] = stk[b + i - 1]
<1> DEFINE x == func - 1
           keep == SubSeq(stk, b, x)
<1>1. b \in Int /\ x \in Int /\ func \in Int /\ \A i \in b .. x : i \in Slot
  BY Sizes DEF Slot
<1>2. \A i \in b .. x : stk[i] \in Value
  BY <1>1
<1>3. /\ keep \in Seq(Value) /\ Len(keep) = IF b <= x THEN x - b + 1 ELSE 0
      /\ \A i \in 1 .. x - b + 1 : keep[i] = stk[b + i - 1]
  <2> HIDE DEF x
  <2> QED
    BY <1>1, <1>2, SubSeqProperties
<1>4. Len(keep) = func - b
  BY <1>1, <1>3
<1>5. x - b + 1 = func - b
  BY <1>1
<1> QED
  BY <1>3, <1>4, <1>5

(* lua_pcall: what it records is what the stack and the settings are.      *)
LEMMA LuaPcallData ==
  ASSUME NEW lev, Good(th, cst, pend, lev), Data(th, cst, pend), NEW t,
         NEW nargs \in 0 .. 1, NEW nresults, nresults = -1,
         NEW errfunc \in {0, Bottom(t)}, lua_pcall(t, nargs, nresults, errfunc)
  PROVE  Data(th', cst', pend')
<1> DEFINE L == th[t]
           func == L.top - (nargs + 1)
           M == [L EXCEPT !.errfunc = errfunc]
           b == Bottom(t)
           keep == SubSeq(L.stk, b, func - 1)
           e == [k |-> "pcall", t |-> t, nexec |-> 0, ci |-> Len(L.ci),
                 nresults |-> nresults, oldtop |-> func, nCcalls |-> L.nCcalls,
                 allowhook |-> L.allowhook, errfunc |-> L.errfunc,
                 keep |-> keep]
<1>1. /\ CRuns(t) /\ func >= b /\ nresults - nargs <= Frame(L).top - L.top
      /\ luaD_call(t, M, cst, e, func, nresults)
  BY DEF lua_pcall
<1>2. /\ ThreadOK(L, cst, t) /\ At(th, t, L, cst) /\ Frame(L) = Top(L) /\ StateOK(L)
      /\ L.top \in Nat /\ Top(L).top \in Nat /\ Top(L).top <= Slots /\ L.top <= Slots
      /\ b \in Slot /\ Mem(L) /\ Top(L).base <= b /\ UpFree(L, b) /\ IsSeq(cst)
  BY <1>1, CAt
<1>3. func \in Int /\ func < L.top /\ (nresults = -1 \/ func + nresults <= Slots)
  BY <1>1, <1>2, ArgsFit
<1> HIDE DEF func
<1>4. func \in Slot /\ b \in Int /\ func < Slots /\ b <= func
  <2> DEFINE top == L.top
  <2>1. b \in 1 .. Slots /\ top \in Nat /\ top <= Slots
    BY <1>2 DEF Slot
  <2>2. b <= func /\ func \in Int /\ func < top /\ Slots \in Nat
    BY <1>1, <1>3, Sizes
  <2> HIDE DEF b, top
  <2>3. func \in 1 .. Slots /\ b \in Int /\ func < Slots
    BY <2>1, <2>2
  <2> QED
    BY <2>2, <2>3 DEF Slot
<1>5. /\ DOMAIN M = Fields /\ M.stk = L.stk /\ M.top = L.top /\ M.ci = L.ci
      /\ M.openupval = L.openupval /\ M.base = L.base /\ M.status = L.status
      /\ M.errfunc \in 0 .. Slots /\ M.allowhook = L.allowhook /\ L.errfunc \in 0 .. Slots
      /\ L.stk \in [Slot -> Value]
  BY <1>2, <1>4, Sizes DEF Mem, Fields, Slot
<1> HIDE DEF M
<1>6. ThreadOK(M, cst, t) /\ Top(M) = Top(L)
  <2>1. \A i \in 1 .. Len(cst) : (cst[i].t = t /\ cst[i].k = "hook") => ~M.allowhook
    BY <1>2, <1>5 DEF ThreadOK, RecIn
  <2> QED
    BY <1>2, <1>5, <2>1, SettingsThread
<1> HIDE DEF b
<1>7. /\ keep \in Seq(Value) /\ Len(keep) = func - b
      /\ \A i \in 1 .. Len(keep) : keep[i] = L.stk[b + i - 1]
  BY <1>2, <1>4, <1>5, KeepFacts
<1> HIDE DEF keep
<1>8. /\ ActOK(e) /\ e.k = "pcall" /\ RecFields(e) /\ e.t = t
      /\ e.ci = Len(L.ci) /\ e.oldtop = func /\ e.keep = keep
      /\ e.allowhook = L.allowhook /\ e.errfunc = L.errfunc
  <2>1. t \in Thread /\ L.allowhook \in BOOLEAN
    BY <1>2 DEF At, StateOK
  <2> QED
    BY <2>1 DEF ActOK, RecFields, Calling
<1> HIDE DEF e
<1>9. Floor(e) = func /\ Low(e) = b
  <2>1. func - (func - b) = b
    BY <1>3, <1>4
  <2> QED
    BY <1>7, <1>8, <2>1 DEF Floor, Low
<1>10. FloorOK(M, e)
  <2> DEFINE n == Len(M.ci)
  <2>1. n \in Nat /\ n \in 1 .. n /\ Top(M) = M.ci[n] /\ ~(n < n)
    BY <1>6, MemFacts DEF ThreadOK, Top
  <2>2. \A u \in Ups(M) : u < b
    BY <1>2, <1>5 DEF UpFree, Ups
  <2>3. M.ci[n].base <= b /\ \A j \in n + 1 .. n : FALSE
    BY <1>2, <1>6, <2>1 DEF b
  <2>4. func <= M.top
    BY <1>2, <1>3, <1>5
  <2> QED
    BY <1>2, <1>4, <1>5, <1>8, <1>9, <2>2, <2>3, <2>4 DEF FloorOK
<1>11. PcallRec(M, e)
  BY <1>4, <1>5, <1>7, <1>8, <1>9 DEF PcallRec
<1>12. nresults \in Nat \cup {-1} /\ e.k \in {"call", "pcall"}
  BY <1>8
<1> QED
  BY <1>1, <1>3, <1>4, <1>5, <1>6, <1>8, <1>9, <1>10, <1>11, <1>12, ApiCallData DEF b

-----------------------------------------------------------------------------
(* Error handlers, and the end of a hook                                   *)

(* luaG_errormsg, with or without an error function.                       *)
LEMMA ErrorMsgData ==
  ASSUME NEW lev, Good(th, cst, pend, lev), Data(th, cst, pend), luaG_errormsg
  PROVE  Data(th', cst', pend')
<1> DEFINE t == Current
           L == th[t]
           w == L.top - 1
           msg == L.stk[w]
           K == SetSlot(L, w, L.stk[L.errfunc])
           M == Push(K, msg)
           e == [k |-> "handler", t |-> t, nexec |-> 0, ci |-> Len(L.ci)]
<1>1. /\ pend = "message"
      /\ \/ Throw(th, t, L, cst, "ERRRUN") \/ Throw(th, t, L, cst, "ERRERR")
         \/ L.errfunc # 0 /\ L.top < Slots /\ luaD_call(t, M, cst, e, w, 1)
  BY DEF luaG_errormsg
<1>2. t = Cur(cst) /\ cst # <<>>
  BY <1>1, CurrentThread DEF Good
<1> HIDE DEF t
<1>3. /\ At(th, t, L, cst) /\ MessageOK(L, cst, t, pend) /\ L.status = "ok"
      /\ ChainOK(cst) /\ Mem(L) /\ IsSeq(cst) /\ Len(cst) \in Nat /\ ThreadOK(L, cst, t)
      /\ t \in Thread
  BY <1>2, DataAt DEF At
<1>4. CASE Throw(th, t, L, cst, "ERRRUN") \/ Throw(th, t, L, cst, "ERRERR")
  BY <1>3, <1>4, AtThrow
<1>5. CASE L.errfunc # 0 /\ L.top < Slots /\ luaD_call(t, M, cst, e, w, 1)
  <2>1. /\ Top(L).base <= w /\ UpFree(L, w) /\ Above(cst, t, w) /\ Clean(L)
        /\ L.top \in Nat /\ L.top >= 2 /\ L.top < Slots /\ Ups(L) \subseteq Nat
    BY <1>1, <1>3, <1>5, MemFacts, UpsBelow DEF MessageOK
  <2>2. w \in Slot /\ w \in Int /\ w < L.top /\ w + 1 <= Slots /\ w + 1 = L.top
    BY <2>1, Sizes DEF Slot
  <2>3. L.stk[L.errfunc] \in Value /\ msg \in Value
    <3>1. L.errfunc \in Slot
      BY <1>3, <1>5, Sizes DEF Mem, Slot
    <3> QED
      BY <1>3, <2>2, <3>1 DEF Mem
  <2> HIDE DEF w, msg
  <2>4. Edit(K, L, w) /\ K.top = L.top
    <3> DEFINE v == L.stk[L.errfunc]
    <3>1. v \in Value /\ w <= w /\ w <= L.top
      BY <2>2, <2>1, <2>3
    <3> HIDE DEF v
    <3>2. Edit(SetSlot(L, w, v), L, w) /\ SetSlot(L, w, v).top = L.top
      BY <2>1, <2>2, <3>1, SetSlotEdit
    <3> QED
      BY <3>2 DEF v
  <2> HIDE DEF K
  <2>5. Edit(M, K, w) /\ M.top = L.top + 1
    BY <2>1, <2>2, <2>3, <2>4, EditClean, PushEdit
  <2> HIDE DEF M
  <2>6. Edit(M, L, w) /\ M.ci = L.ci /\ M.openupval = L.openupval /\ M.status = L.status
    BY <2>4, <2>5, EditTrans DEF Edit, Kept
  <2>7. UpFree(L, M.top) /\ M.top <= Slots /\ w < M.top
    BY <2>1, <2>2, <2>5, Sizes DEF UpFree
  <2>8. ThreadOK(M, cst, t) /\ Top(M) = Top(L)
    BY <1>3, <2>1, <2>2, <2>6, <2>7, EditThread
  <2>9. At(th, t, M, cst)
    BY <1>3, <2>8, AtStep
  <2>10. /\ ActOK(e) /\ e.k = "handler" /\ RecFields(e) /\ e.t = t /\ e.ci = Len(L.ci)
    BY <1>3 DEF ActOK, RecFields, Calling
  <2> HIDE DEF e
  <2>11. /\ ~Guarded(e) /\ e.k \notin Meta /\ e.k # "resume"
         /\ e.k \notin {"call", "pcall", "hook"}
    BY <2>10 DEF Guarded, Meta
  <2>12. Len(L.ci) \in Nat /\ Len(L.ci) \in 1 .. Len(L.ci) /\ ~(Len(L.ci) < Len(L.ci))
    BY <1>3, MemFacts
  <2>13. RecOK(M, e, Len(M.ci))
    BY <2>6, <2>10, <2>11, <2>12 DEF RecOK
  <2>14. At(th, t, M, Append(cst, e))
    BY <2>6, <2>9, <2>10, <2>11, <2>13, AtAppend
  <2>15. Ready(M, Append(cst, e), t, w, 1)
    <3> DEFINE C == Append(cst, e)
               n == Len(cst)
    <3>1. /\ Len(C) = n + 1 /\ C[n + 1] = e
          /\ \A i \in 1 .. n : C[i] = cst[i]
          /\ n \in Nat
      BY <1>3, SeqAppend
    <3> HIDE DEF C
    <3>2. \A i \in 1 .. Len(C) : i \in 1 .. n \/ i = n + 1
      BY <3>1
    <3>3. Above(C, t, w)
      BY <2>1, <2>11, <3>1, <3>2 DEF Above
    <3>4. UpFree(M, w)
      BY <2>1, <2>6 DEF UpFree, Ups
    <3>5. ASSUME NEW i \in 1 .. Len(C), C[i].t = t, i = Len(C) \/ C[i + 1].t # t
          PROVE  CalleeOK(C[i], Top(M).top, w, 1)
      <4>1. i = n + 1
        <5> SUFFICES ASSUME i \in 1 .. n PROVE FALSE
          BY <3>2
        <5>1. cst[i].t = t /\ cst[n].t = t /\ n \in Nat
          BY <1>2, <3>1, <3>5 DEF Cur
        <5>2. \A j \in i .. n : cst[j].t = t
          BY <1>2, <5>1, Levels
        <5>3. C[i + 1].t = t
          <6>1. CASE i = n
            BY <2>10, <3>1, <6>1
          <6>2. CASE i # n
            <7>1. i + 1 \in i .. n /\ i + 1 \in 1 .. n
              BY <5>1, <6>2
            <7> QED
              BY <3>1, <5>2, <7>1
          <6> QED
            BY <6>1, <6>2
        <5>4. i # Len(C)
          BY <3>1
        <5> QED
          BY <3>5, <5>3, <5>4
      <4> QED
        BY <2>2, <2>11, <3>1, <4>1 DEF CalleeOK
    <3>6. w < M.top /\ Top(M).base <= w /\ M.status = "ok"
      BY <1>3, <2>1, <2>6, <2>7, <2>8
    <3> QED
      BY <2>2, <3>3, <3>4, <3>5, <3>6 DEF Ready, C
  <2>16. ActsOK(cst)
    BY <1>3 DEF ChainOK
  <2> QED
    BY <1>5, <2>10, <2>14, <2>15, <2>16, CallData
<1> QED
  BY <1>1, <1>4, <1>5

(* The end of a hook gives the frame its top back.                         *)
LEMMA HookReturnData ==
  ASSUME NEW lev, Good(th, cst, pend, lev), Data(th, cst, pend), NEW t, HookReturn(t)
  PROVE  Data(th', cst', pend')
<1> DEFINE L == th[t]
           n == Len(cst)
           m == n - 1
           e == cst[n]
           x == e.top
           D == SubSeq(cst, 1, m)
           K == CutTo(L, x)
           H == [K EXCEPT !.allowhook = TRUE]
           f == [Frame(K) EXCEPT !.top = e.citop]
           M == SetFrame(H, f)
<1>1. CRuns(t) /\ InHook
  BY DEF HookReturn
<1>2. /\ At(th, t, L, cst) /\ ThreadOK(L, cst, t) /\ IsSeq(cst) /\ Mem(L) /\ Clean(L)
      /\ Bottom(t) \in Slot /\ Top(L).base <= Bottom(t) /\ UpFree(L, Bottom(t))
      /\ Above(cst, t, Bottom(t)) /\ ChainOK(cst) /\ cst # <<>> /\ e.k = "hook"
      /\ Top(L) \in FrameType /\ Top(L).base \in Nat
      /\ L.top <= Slots /\ L.top \in Nat /\ HooksNest(cst) /\ t = Cur(cst) /\ FloorsOK(cst)
      /\ Ups(L) \subseteq Nat
  BY <1>1, CAt, UpsBelow DEF At
<1>3. /\ n \in Nat /\ n >= 1 /\ n \in 1 .. n /\ e = Last(cst) /\ e.t = t /\ x = Bottom(t)
      /\ Front(cst) = D
  <2>1. n \in Nat /\ n >= 1 /\ n \in 1 .. n
    BY <1>2, RunningThread
  <2>2. e.t = t
    BY <1>2 DEF Cur
  <2>3. e = Last(cst) /\ Front(cst) = D
    BY DEF Last, Front
  <2>4. x = Bottom(t)
    BY <1>1, <2>3 DEF Bottom
  <2> QED
    BY <2>1, <2>2, <2>3, <2>4
<1>4. Go(th, t, M, D)
  BY <1>3 DEF HookReturn
<1> HIDE DEF D
<1>5. x \in Slot /\ x \in Int /\ x <= Slots /\ Top(L).base <= x
  <2> HIDE DEF x, K, H, f, M
  <2>1. x \in Slot /\ Top(L).base <= x
    BY <1>2, <1>3
  <2> QED
    BY <2>1, Sizes DEF Slot
<1>6. m \in Nat /\ m >= 1 /\ m \in 0 .. n - 1 /\ cst[m].t = t /\ cst[m].k # "hook"
      /\ m + 1 = n /\ m \in 1 .. n
  <2> HIDE DEF x, K, H, f, M
  <2>1. n # 1
    BY <1>2 DEF ChainOK, HostOK
  <2>2. /\ m \in Nat /\ m >= 1 /\ m \in 0 .. n - 1 /\ m + 1 = n /\ m \in 1 .. n /\ m <= n
        /\ n \in m + 1 .. n
        /\ \A j \in m + 1 .. n : j = n
    <3>1. n \in Nat /\ n >= 1
      BY <1>3
    <3> HIDE DEF n
    <3> QED
      BY <2>1, <3>1
  <2>3. cst[m].t = t
    BY <1>2, <1>3, <2>2 DEF ChainOK, RunsOK
  <2>4. cst[m].k # "hook"
    BY <1>2, <1>3, <2>2, <2>3 DEF HooksNest
  <2> QED
    BY <2>2, <2>3, <2>4
<1>7. e.ci = Len(L.ci) /\ \A i \in 1 .. m : cst[i].t = t => cst[i].ci < Len(L.ci)
  BY <1>2, <1>3, BelowHook
<1>8. HookRec(L, e) /\ L.ci[e.ci] = Top(L)
  BY <1>2, <1>3, <1>7 DEF ThreadOK, RecIn, RecOK, Top
<1> DEFINE y == e.citop
<1>9. y \in Slot /\ Top(L).base <= y /\ Top(L).lua /\ (~Top(L).open => y = x)
      /\ UpFree(L, y) /\ UpFree(L, x) /\ Above(cst, t, x)
  BY <1>2, <1>3, <1>8 DEF HookRec, UpFree
<1> HIDE DEF x, y, e
<1>10. /\ IsSeq(D) /\ Len(D) = m /\ \A i \in 1 .. m : D[i] = cst[i] /\ i \in 1 .. n
  BY <1>2, <1>6, CutOrders DEF D
<1>11. ThreadOK(L, D, t)
  <2>1. cst[m + 1].t = t => cst[m + 1].ci = Len(L.ci)
    BY <1>6, <1>7 DEF e
  <2> HIDE DEF m
  <2> QED
    BY <1>2, <1>6, <2>1, CutThread DEF D
<1>12. Above(D, t, x)
  BY <1>9, <1>10 DEF Above
<1>13. Edit(K, L, x) /\ K.top = x
  BY <1>2, <1>5, CutToEdit
<1> HIDE DEF K
<1>14. ThreadOK(K, D, t) /\ Top(K) = Top(L)
  BY <1>5, <1>9, <1>10, <1>11, <1>12, <1>13, EditThread
<1>15. Frame(K) = Top(L) /\ Mem(K)
  BY <1>14, MemFacts DEF ThreadOK
<1>16. /\ DOMAIN H = Fields /\ H.stk = K.stk /\ H.top = K.top /\ H.ci = K.ci
       /\ H.openupval = K.openupval /\ H.base = K.base /\ H.status = K.status
       /\ H.errfunc = K.errfunc /\ H.allowhook = TRUE /\ K.errfunc \in 0 .. Slots
  BY <1>15 DEF Mem, Fields
<1> HIDE DEF H
<1>17. ThreadOK(H, D, t) /\ Top(H) = Top(L)
  <2>1. \A i \in 1 .. Len(D) : ~(D[i].t = t /\ D[i].k = "hook")
    <3> SUFFICES ASSUME NEW i \in 1 .. m, cst[i].t = t, cst[i].k = "hook" PROVE FALSE
      BY <1>10
    <3>1. n \in i + 1 .. n /\ i \in 1 .. n
      BY <1>6
    <3> QED
      BY <1>2, <1>3, <3>1 DEF HooksNest, e
  <2> QED
    BY <1>14, <1>16, <2>1, SettingsThread
<1>18. /\ f \in FrameType /\ SameFrame(f, Top(L)) /\ f.top = y /\ f.base = Top(L).base
       /\ f.open = Top(L).open
  BY <1>2, <1>9, <1>15 DEF FrameType, SameFrame, y
<1> HIDE DEF f
<1>19. UpFree(H, y)
  BY <1>9, <1>13, <1>16 DEF UpFree, Ups, Edit, Kept
<1>20. Settled(H, D, t)
  <2>1. H.ci = L.ci /\ Len(L.ci) \in Nat
    BY <1>2, <1>13, <1>16, MemFacts DEF Edit, Kept
  <2> QED
    BY <1>7, <1>10, <2>1 DEF Settled
<1>21. ThreadOK(M, D, t) /\ Top(M) = f
  BY <1>9, <1>10, <1>17, <1>18, <1>19, <1>20, FrameThread
<1>22. M.top = x
  BY <1>13, <1>16, <1>17, <1>18, SetFrameFacts DEF ThreadOK
<1> HIDE DEF M
<1>23. At(th, t, M, D)
  <2>1. t = Cur(D)
    <3>1. D # <<>>
      BY <1>6, <1>10
    <3>2. D[Len(D)] = cst[m]
      BY <1>6, <1>10
    <3> QED
      BY <1>6, <3>1, <3>2 DEF Cur
  <2>2. cst[m + 1].t = t
    BY <1>3, <1>6 DEF e
  <2> HIDE DEF m
  <2> QED
    BY <1>2, <1>6, <1>21, <2>1, <2>2, AtCut DEF D
<1>24. LiveOK(M, D, "none")
  BY <1>9, <1>18, <1>21, <1>22 DEF LiveOK
<1> QED
  BY <1>4, <1>23, <1>24, AtGo

-----------------------------------------------------------------------------
(* Returning to the caller                                                 *)

(* The activations of a thread found ever higher frames; a hook alone      *)
(* found the frame of the activation it interrupted.                       *)
LEMMA CallersBelow ==
  ASSUME NEW lev, Good(th, cst, pend, lev), HooksNest(cst), cst # <<>>,
         NEW n, n = Len(cst), NEW t, t = cst[n].t, cst[n].k \notin {"hook", "handler"}
  PROVE  \A i \in 1 .. n - 1 : cst[i].t = t =>
           cst[i].ci < cst[n].ci \/ (i = n - 1 /\ cst[i].k = "hook")
<1>1. /\ n \in Nat /\ n >= 1
      /\ \A i \in 1 .. n : cst[i].ci = lev[i] /\ lev[i] \in Nat
      /\ \A i, j \in 1 .. n : (i <= j /\ cst[i].t = cst[j].t) => lev[i] <= lev[j]
      /\ \A i \in 1 .. n : cst[i].t = t => \A j \in i .. n : cst[j].t = t
  BY Levels
<1> SUFFICES ASSUME NEW i \in 1 .. n - 1, cst[i].t = t,
                    ~(i = n - 1 /\ cst[i].k = "hook")
             PROVE  lev[i] < lev[n]
  BY <1>1
<1>2. \A j \in i .. n : j \in 1 .. n /\ cst[j].t = t
  BY <1>1
<1>3. BusyOK(th, cst, pend, lev)
  BY DEF Good
<1>4. ASSUME NEW j \in i .. n - 1, cst[j].k # "hook", cst[j + 1].k # "handler"
      PROVE  lev[j] < lev[j + 1]
  <2>1. j \in 1 .. n /\ j + 1 \in 1 .. n /\ j + 1 \in i .. n /\ j < n
    BY <1>1
  <2>2. cst[j + 1].t = cst[j].t
    BY <1>2, <2>1
  <2>3. lev[j] < Upper(th, cst, lev, j)
    BY <1>3, <1>4, <2>1 DEF BusyOK
  <2> QED
    BY <2>1, <2>2, <2>3 DEF Upper
<1>5. CASE cst[n - 1].k # "hook"
  <2>1. n - 1 \in i .. n - 1 /\ (n - 1) + 1 = n
    BY <1>1
  <2>2. lev[n - 1] < lev[n]
    BY <1>4, <1>5, <2>1
  <2>3. lev[i] <= lev[n - 1]
    BY <1>1, <1>2
  <2> QED
    BY <1>1, <2>2, <2>3
<1>6. CASE cst[n - 1].k = "hook"
  <2>1. n - 2 \in i .. n - 1 /\ n - 2 \in 1 .. n /\ n - 1 \in i .. n /\ n - 1 \in 1 .. n
        /\ n - 2 \in i .. n /\ (n - 2) + 1 = n - 1 /\ n - 1 \in (n - 2) + 1 .. n
    BY <1>1, <1>6
  <2>2. cst[n - 2].t = t /\ cst[n - 1].t = t
    BY <1>2, <2>1
  <2>3. cst[n - 2].k # "hook"
    BY <1>6, <2>1, <2>2 DEF HooksNest
  <2>4. lev[n - 2] < lev[n - 1]
    BY <1>4, <1>6, <2>1, <2>3
  <2>5. lev[i] <= lev[n - 2] /\ lev[n - 1] <= lev[n]
    <3> DEFINE x == n - 2
               y == n - 1
    <3>1. /\ x \in 1 .. n /\ y \in 1 .. n /\ i \in 1 .. n /\ n \in 1 .. n
          /\ i <= x /\ y <= n
      BY <1>1, <2>1
    <3>2. cst[x].t = t /\ cst[y].t = t /\ cst[i].t = t /\ cst[n].t = t
      BY <1>1, <2>2
    <3> HIDE DEF x, y
    <3>3. lev[i] <= lev[x] /\ lev[y] <= lev[n]
      BY <1>1, <3>1, <3>2
    <3> QED
      BY <3>3 DEF x, y
  <2>6. lev[n - 2] \in Nat /\ lev[n - 1] \in Nat
    BY <1>1, <2>1
  <2> QED
    BY <1>1, <2>4, <2>5, <2>6
<1> QED
  BY <1>5, <1>6

(* adjustresults changes the frame top of C code.                          *)
LEMMA AdjustThread ==
  ASSUME NEW C, IsSeq(C), NEW t, NEW L, ThreadOK(L, C, t), Settled(L, C, t), NEW e
  PROVE  /\ ThreadOK(adjustresults(L, e), C, t)
         /\ Top(adjustresults(L, e)).lua = Top(L).lua
<1> DEFINE g == Top(L)
           f == [g EXCEPT !.top = L.top]
<1>1. /\ Frame(L) = g /\ g \in FrameType /\ g.top \in Nat /\ L.top \in Nat /\ L.top <= Slots
      /\ g.base <= L.top /\ L.top >= 2
  BY MemFacts DEF ThreadOK, Top
<1>2. CASE e.nresults = MULTRET /\ L.top >= Frame(L).top
  <2>1. adjustresults(L, e) = SetFrame(L, f)
    BY <1>1, <1>2 DEF adjustresults
  <2>2. L.top \in Slot
    BY <1>1, Sizes DEF Slot
  <2>3. /\ f \in FrameType /\ SameFrame(f, g) /\ f.base <= f.top /\ f.top >= g.top
        /\ f.open = g.open /\ f.lua = g.lua
    BY <1>1, <1>2, <2>2 DEF FrameType, SameFrame
  <2> HIDE DEF f
  <2> QED
    BY <2>1, <2>3, FrameThread
<1>3. CASE ~(e.nresults = MULTRET /\ L.top >= Frame(L).top)
  BY <1>3 DEF adjustresults
<1> QED
  BY <1>2, <1>3

(* The activation of a call ends; P is what luaD_poscall leaves.           *)
Ends(P, t, e) ==
  /\ pend = "none" /\ cst # <<>> /\ t = Cur(cst) /\ cst[Len(cst)].k # "hook"
  /\ At(th, t, P, cst) /\ Len(P.ci) = cst[Len(cst)].ci
  /\ RecOK(P, e, Len(P.ci)) /\ e.k = cst[Len(cst)].k /\ e.ci = Len(P.ci)
  /\ e.k \in {"callTMres", "compare"} => P.top = Top(P).top + 1
  /\ e.k = "callTM" => P.top = Top(P).top

(* Once its function has returned, the activation is left.                 *)
LEMMA FrontAt ==
  ASSUME NEW lev, Good(th, cst, pend, lev), NEW P, NEW t, NEW e, Ends(P, t, e),
         e.k # "resume"
  PROVE  LET D == Front(cst)
         IN /\ At(th, t, P, D) /\ IsSeq(D) /\ Len(D) = Len(cst) - 1 /\ Len(D) \in Nat
            /\ e.k # "handler" => Settled(P, D, t)
            /\ e.k \in Meta => Under(P, D, t)
            /\ e.k \in {"call", "pcall"} =>
                 ~Top(P).lua \/ (D # <<>> /\ D[Len(D)].k = "hook")
<1> DEFINE n == Len(cst)
           D == Front(cst)
           m == n - 1
<1>1. /\ n \in Nat /\ n >= 1 /\ cst[n].t = t /\ cst[n].k \notin {"hook", "resume"} /\ cst[n].k = e.k
      /\ IsSeq(cst) /\ ChainOK(cst) /\ HooksNest(cst) /\ ThreadOK(P, cst, t)
      /\ At(th, t, P, cst) /\ Len(P.ci) = cst[n].ci /\ t \in Thread
  BY Levels DEF Ends, Cur, At, Good
<1>2. /\ IsSeq(D) /\ Len(D) = m /\ \A i \in 1 .. m : D[i] = cst[i] /\ i \in 1 .. n
      /\ m \in Nat /\ m + 1 = n
  BY <1>1, SeqFront
<1>3. D = SubSeq(cst, 1, m)
  <2>1. /\ IsSeq(SubSeq(cst, 1, m)) /\ Len(SubSeq(cst, 1, m)) = m
        /\ \A i \in 1 .. m : SubSeq(cst, 1, m)[i] = cst[i]
    <3>1. m \in 0 .. Len(cst)
      BY <1>2
    <3> QED
      BY <1>1, <3>1, SeqCut
  <2> QED
    BY <1>2, <2>1, SeqSame
<1>4. Cur(D) = t /\ (D # <<>> => m >= 1) /\ (m >= 1 => D # <<>>)
  <2>1. D # <<>> => m >= 1
    BY <1>2 DEF IsSeq
  <2>2. m >= 1 => D # <<>>
    BY <1>2
  <2>3. CASE m = 0
    <3>1. cst[1].t = Main
      BY <1>1 DEF ChainOK, HostOK
    <3>4. n \in Nat /\ m + 1 = n /\ m = 0
      BY <1>1, <1>2, <2>3
    <3> HIDE DEF D, m, n
    <3>2. n = 1 /\ ~(m >= 1)
      BY <3>4
    <3>3. D = <<>>
      BY <2>1, <3>2
    <3> QED
      BY <1>1, <1>2, <3>1, <3>2, <3>3 DEF Cur
  <2>4. CASE m # 0
    <3>1. m \in 1 .. n /\ n \in 1 .. n /\ m <= n /\ m >= 1
      BY <1>2, <2>4
    <3>2. \A j \in m + 1 .. n : cst[j].k # "resume"
      BY <1>1, <1>2
    <3>3. cst[m].t = cst[n].t
      BY <1>1, <3>1, <3>2 DEF ChainOK, RunsOK
    <3> QED
      BY <1>1, <1>2, <2>2, <3>1, <3>3 DEF Cur
  <2> QED
    BY <2>1, <2>2, <2>3, <2>4
<1> HIDE DEF D, m, n
<1>5. At(th, t, P, D)
  <2>1. m \in 0 .. Len(cst) - 1
    BY <1>2 DEF n
  <2>2. ThreadOK(P, SubSeq(cst, 1, m), t)
    BY <1>1, <1>2, <2>1, CutThread DEF n
  <2> QED
    BY <1>1, <1>2, <1>3, <1>4, <2>1, <2>2, AtCut DEF n
<1>6. ASSUME e.k # "handler"
      PROVE  \A i \in 1 .. m : D[i].t = t =>
               D[i].ci < Len(P.ci) \/ (i = m /\ D[i].k = "hook")
  <2>1. \A i \in 1 .. n - 1 : cst[i].t = t =>
           cst[i].ci < cst[n].ci \/ (i = n - 1 /\ cst[i].k = "hook")
    BY <1>1, <1>6, CallersBelow DEF Ends, n
  <2> QED
    BY <1>1, <1>2, <2>1 DEF m
<1>7. Len(P.ci) \in Nat /\ \A i \in 1 .. m : D[i].t = t => D[i].ci \in Nat
  <2>1. Len(P.ci) \in Nat
    BY <1>1, MemFacts DEF ThreadOK
  <2> QED
    BY <1>2, <1>5, <2>1 DEF At, ThreadOK, RecIn, RecOK
<1>8. e.k # "handler" => Settled(P, D, t)
  BY <1>2, <1>6, <1>7 DEF Settled
<1>9. e.k \in Meta => Under(P, D, t)
  <2> SUFFICES ASSUME e.k \in Meta, NEW i \in 1 .. m, D[i].t = t, i = m, D[i].k = "hook"
               PROVE  FALSE
    BY <1>2, <1>6 DEF Under, Meta
  <2>1. i \in 1 .. n /\ n \in i + 1 .. n /\ n = i + 1
    BY <1>2
  <2> QED
    BY <1>1, <1>2, <2>1 DEF HooksNest, n
<1>10. e.k \in {"call", "pcall"} => ~Top(P).lua \/ (D # <<>> /\ D[Len(D)].k = "hook")
  <2> SUFFICES ASSUME e.k \in {"call", "pcall"}, Top(P).lua
               PROVE  D # <<>> /\ D[Len(D)].k = "hook"
    OBVIOUS
  <2>1. n \in 1 .. n
    BY <1>1
  <2>2. RecIn(P, cst, n)
    BY <1>1, <2>1 DEF ThreadOK, n
  <2>3. n > 1 /\ cst[n - 1].k = "hook"
    BY <1>1, <2>2 DEF RecIn, Top
  <2>4. m \in 1 .. m /\ n - 1 = m /\ m >= 1
    BY <1>2, <2>3
  <2> QED
    BY <1>2, <1>4, <2>3, <2>4
<1> QED
  BY <1>2, <1>5, <1>8, <1>9, <1>10 DEF D, n, m

(* callTMres has its result; the top slot is given up.                     *)
LEMMA ResultEdit ==
  ASSUME NEW L, Clean(L), NEW e, e.res \in Slot, NEW w \in Int, w <= e.res, e.res < L.top,
         NEW x, x = L.top - 1, x \in Slot, w <= x
  PROVE  Edit(TMresult(L, e), L, w) /\ TMresult(L, e).top = x
<1> DEFINE v == L.stk[x]
           r == e.res
           K == SetSlot(L, r, v)
           M == CutTo(K, x)
<1>1. v \in Value /\ L.top \in Int /\ x \in Int /\ r \in Int /\ w <= L.top
  BY Sizes DEF Clean
<1>2. TMresult(L, e) = M
  BY DEF TMresult
<1> HIDE DEF v, r
<1>3. Edit(K, L, w) /\ K.top = L.top
  <2>1. w <= r /\ r < L.top
    BY DEF r
  <2> QED
    BY <1>1, <2>1, SetSlotEdit
<1> HIDE DEF K
<1>4. Edit(M, K, w) /\ M.top = x
  BY <1>1, <1>3, EditClean, CutToEdit
<1> HIDE DEF M
<1> QED
  BY <1>2, <1>3, <1>4, EditTrans

(* The end of any activation but lua_resume.                               *)
LEMMA FinishData ==
  ASSUME NEW lev, Good(th, cst, pend, lev), NEW P, NEW t, NEW cs, NEW e, e = Last(cs),
         Ends(P, t, e), Front(cs) = Front(cst), e.k # "resume", FinishCall(t, P, cs)
  PROVE  Data(th', cst', pend')
<1> DEFINE D == Front(cst)
           L == [P EXCEPT !.nCcalls = @ - 1]
<1>1. /\ At(th, t, P, D) /\ IsSeq(D) /\ Len(D) \in Nat
      /\ e.k # "handler" => Settled(P, D, t)
      /\ e.k \in Meta => Under(P, D, t)
      /\ e.k \in {"call", "pcall"} => ~Top(P).lua \/ (D # <<>> /\ D[Len(D)].k = "hook")
  BY FrontAt
<1>2. e.k \in {"call", "pcall", "callTMres", "compare", "callTM", "handler"}
  <2>1. Len(cst) \in 1 .. Len(cst)
    BY Levels DEF Ends
  <2> QED
    BY <2>1 DEF Ends, Good, ChainOK, ActsOK, ActOK, Calling
<1> HIDE DEF D
<1>3. ThreadOK(P, D, t) /\ Mem(P)
  BY <1>1 DEF At, ThreadOK
<1>4. /\ DOMAIN L = Fields /\ L.stk = P.stk /\ L.top = P.top /\ L.ci = P.ci
      /\ L.openupval = P.openupval /\ L.base = P.base /\ L.status = P.status
      /\ L.errfunc = P.errfunc /\ L.allowhook = P.allowhook
  BY <1>3 DEF Mem, Fields
<1>5. FinishCall(t, P, cs) =
        CASE e.k = "call" -> Go(th, t, adjustresults(L, e), D)
          [] e.k = "pcall" -> Go(th, t, adjustresults([L EXCEPT !.errfunc = e.errfunc], e), D)
          [] e.k = "callTMres" -> Go(th, t, TMresult(L, e), D)
          [] e.k = "compare" -> EndComparison(t, L, e, D)
          [] e.k = "callTM" -> Go(th, t, L, D)
          [] e.k = "handler" -> Throw(th, t, L, D, "ERRRUN")
          [] e.k = "resume" -> EndResume(t, P, P.top - P.base)
  BY DEF FinishCall, D
<1> HIDE DEF L
<1>6. ThreadOK(L, D, t) /\ Top(L) = Top(P)
  BY <1>3, <1>4, OtherThread
<1>7. At(th, t, L, D)
  BY <1>1, <1>6, AtStep
<1>8. ASSUME NEW M, ThreadOK(M, D, t), Top(M).lua = Top(P).lua, e.k \in {"call", "pcall"},
             Go(th, t, M, D)
      PROVE  Data(th', cst', pend')
  <2>1. LiveOK(M, D, "none")
    BY <1>1, <1>8 DEF LiveOK
  <2> QED
    BY <1>1, <1>8, <2>1, AtStep, AtGo
<1>9. ASSUME NEW M, ThreadOK(M, D, t), M.top = Top(M).top, Go(th, t, M, D)
      PROVE  Data(th', cst', pend')
  <2>1. LiveOK(M, D, "none")
    BY <1>9 DEF LiveOK
  <2> QED
    BY <1>1, <1>9, <2>1, AtStep, AtGo
<1>10. Settled(P, D, t) => Settled(L, D, t)
  BY <1>4 DEF Settled
<1>11. CASE e.k = "call"
  <2>1. ThreadOK(adjustresults(L, e), D, t) /\ Top(adjustresults(L, e)).lua = Top(L).lua
    BY <1>1, <1>6, <1>10, <1>11, AdjustThread
  <2>2. Go(th, t, adjustresults(L, e), D)
    BY <1>5, <1>11
  <2> QED
    BY <1>6, <1>8, <1>11, <2>1, <2>2
<1>12. CASE e.k = "pcall"
  <2> DEFINE N == [L EXCEPT !.errfunc = e.errfunc]
  <2>1. e.errfunc \in 0 .. Slots
    BY <1>12 DEF Ends, RecOK, PcallRec
  <2>2. /\ DOMAIN N = Fields /\ N.stk = L.stk /\ N.top = L.top /\ N.ci = L.ci
        /\ N.openupval = L.openupval /\ N.base = L.base /\ N.status = L.status
        /\ N.errfunc \in 0 .. Slots /\ N.allowhook = L.allowhook
    BY <1>4, <2>1 DEF Fields
  <2>3. Go(th, t, adjustresults(N, e), D)
    BY <1>5, <1>12
  <2> HIDE DEF N
  <2>4. ThreadOK(N, D, t) /\ Top(N) = Top(L)
    <3>1. \A i \in 1 .. Len(D) : (D[i].t = t /\ D[i].k = "hook") => ~N.allowhook
      BY <1>6, <2>2 DEF ThreadOK, RecIn
    <3> QED
      BY <1>6, <2>2, <3>1, SettingsThread
  <2>5. Settled(N, D, t)
    BY <1>1, <1>10, <1>12, <2>2 DEF Settled
  <2>6. ThreadOK(adjustresults(N, e), D, t) /\ Top(adjustresults(N, e)).lua = Top(N).lua
    BY <1>1, <2>4, <2>5, AdjustThread
  <2> QED
    BY <1>6, <1>8, <1>12, <2>3, <2>4, <2>6
<1>13. ASSUME e.k \in {"callTMres", "compare"}
       PROVE  LET M == TMresult(L, e)
              IN /\ Edit(M, L, Top(L).base) /\ M.top = Top(L).top /\ UpFree(L, Top(L).top)
                 /\ Above(D, t, Top(L).base) /\ Top(L).base \in Int /\ Top(L).top \in Int
                 /\ Top(L).base <= Top(L).top /\ Top(L).top <= Slots
  <2> DEFINE w == Top(L).base
             x == Top(L).top
  <2>1. /\ Mem(L) /\ Clean(L) /\ w \in Nat /\ x \in Nat /\ w <= x /\ x <= Slots /\ 1 <= x
        /\ Top(L).func \in Nat /\ Top(L).func <= w
    <3>1. Mem(L)
      BY <1>6 DEF ThreadOK
    <3>2. /\ Clean(L) /\ Len(L.ci) \in 1 .. Len(L.ci) /\ Top(L) = L.ci[Len(L.ci)]
      BY <3>1, MemFacts DEF Top
    <3> QED
      BY <3>1, <3>2, MemFacts
  <2>2. MetaRec(P, e) /\ e.ci = Len(P.ci)
    BY <1>13 DEF Ends, RecOK, Meta
  <2>3. Top(L).lua
    BY <1>6, <2>2 DEF MetaRec, Top
  <2>4. L.top = x + 1
    BY <1>4, <1>6, <1>13 DEF Ends
  <2>5. e.res \in Slot /\ w <= e.res /\ e.res < L.top
    <3>1. x \in Slot
      BY <2>1, Sizes DEF Slot
    <3>2. P.ci[Len(P.ci)] = Top(L)
      BY <1>6 DEF Top
    <3>3. CASE e.k = "callTMres"
      <4>1. e.res \in Slot /\ w <= e.res /\ e.res < x
        BY <2>2, <3>2, <3>3 DEF MetaRec
      <4>2. e.res \in Nat
        BY <4>1, Sizes
      <4> QED
        BY <2>1, <2>4, <4>1, <4>2
    <3>4. CASE e.k = "compare"
      <4>1. e.res = x
        BY <2>2, <3>2, <3>4 DEF MetaRec
      <4> QED
        BY <2>1, <2>4, <3>1, <4>1
    <3> QED
      BY <1>13, <3>3, <3>4
  <2>6. UpFree(L, x)
    BY <2>1, <2>3, UpsBelowTop
  <2>7. Above(D, t, w)
    <3>1. Under(L, D, t)
      BY <1>1, <1>4, <1>13 DEF Under, Meta
    <3> QED
      BY <1>6, <2>1, <3>1, UnderAbove
  <2> HIDE DEF w, x
  <2>8. x = L.top - 1 /\ x \in Slot /\ w <= x /\ x \in Int /\ w \in Int
    BY <2>1, <2>4, Sizes DEF Slot
  <2>9. Edit(TMresult(L, e), L, w) /\ TMresult(L, e).top = x
    BY <2>1, <2>5, <2>8, ResultEdit
  <2> QED
    BY <2>1, <2>6, <2>7, <2>8, <2>9 DEF w, x
<1>14. CASE e.k = "callTMres"
  <2> DEFINE M == TMresult(L, e)
             w == Top(L).base
  <2>1. /\ Edit(M, L, w) /\ M.top = Top(L).top /\ UpFree(L, Top(L).top)
        /\ Above(D, t, w) /\ w \in Int /\ Top(L).top <= Slots
    BY <1>13, <1>14
  <2>2. Go(th, t, M, D)
    BY <1>5, <1>14
  <2> HIDE DEF M
  <2>3. ThreadOK(M, D, t) /\ Top(M) = Top(L)
    <3>1. Top(L).base <= w
      BY <2>1 DEF w
    <3> QED
      BY <1>1, <1>6, <2>1, <3>1, EditThread
  <2> QED
    BY <1>9, <2>1, <2>2, <2>3
<1>15. CASE e.k = "compare"
  <2> DEFINE M == TMresult(L, e)
             w == Top(L).base
             x == Top(L).top
             N == SetSlot(M, M.top, Nil)
  <2>1. /\ Edit(M, L, w) /\ M.top = x /\ UpFree(L, x)
        /\ Above(D, t, w) /\ w \in Int /\ x \in Int /\ x <= Slots /\ w <= x
    BY <1>13, <1>15
  <2>2. th' = [th EXCEPT ![t] = N] /\ cst' = D /\ pend' = "none"
    BY <1>5, <1>15 DEF EndComparison
  <2> HIDE DEF M
  <2>3. Edit(N, M, w) /\ N.top = x
    <3>1. Clean(M) /\ Nil \in Value /\ w <= M.top /\ M.top \in Int
      BY <2>1, EditClean, Sizes
    <3> DEFINE z == M.top
               v == Nil
    <3>2. z \in Int /\ v \in Value /\ w <= z /\ v = Nil
      BY <3>1
    <3> HIDE DEF z, v
    <3>3. Edit(SetSlot(M, z, v), M, w) /\ SetSlot(M, z, v).top = M.top
      BY <2>1, <3>1, <3>2, SetSlotEdit
    <3> QED
      BY <2>1, <3>3 DEF z, v
  <2> HIDE DEF N
  <2>4. Edit(N, L, w)
    BY <2>1, <2>3, EditTrans
  <2>5. ThreadOK(N, D, t) /\ Top(N) = Top(L)
    <3>1. Top(L).base <= w
      BY <2>1 DEF w
    <3> QED
      BY <1>1, <1>6, <2>1, <2>3, <2>4, <3>1, EditThread
  <2>6. LiveOK(N, D, "none")
    BY <2>3, <2>5 DEF LiveOK
  <2>7. MessageOK(N, D, t, "none")
    BY DEF MessageOK
  <2>8. At(th, t, N, D)
    BY <1>1, <2>5, AtStep
  <2> DEFINE q == "none"
  <2>9. q # "enter" /\ LiveOK(N, D, q) /\ MessageOK(N, D, t, q)
    BY <2>6, <2>7
  <2> HIDE DEF q
  <2>10. Data([th EXCEPT ![t] = N], D, q)
    BY <2>8, <2>9, AtData
  <2> QED
    BY <2>2, <2>10 DEF q
<1>16. CASE e.k = "callTM"
  <2>1. Go(th, t, L, D)
    BY <1>5, <1>16
  <2>2. L.top = Top(L).top
    BY <1>4, <1>6, <1>16 DEF Ends
  <2> QED
    BY <1>6, <1>9, <2>1, <2>2
<1>17. CASE e.k = "handler"
  <2> DEFINE q == "ERRRUN"
  <2>1. Throw(th, t, L, D, q) /\ q \in {"ERRRUN", "ERRERR", "ERRMEM"}
    BY <1>5, <1>17
  <2> HIDE DEF q
  <2> QED
    BY <1>7, <2>1, AtThrow
<1> QED
  BY <1>2, <1>11, <1>12, <1>14, <1>15, <1>16, <1>17

-----------------------------------------------------------------------------
(* Back to the thread that resumed this one                                *)

(* lua_xmove edits both threads.                                           *)
LEMMA XmoveEdits ==
  ASSUME NEW K, Clean(K), K.top <= Slots, NEW F, Clean(F), NEW n \in Nat, F.top >= 1,
         1 <= K.top - n, F.top + n <= Slots
  PROVE  LET x == lua_xmove(K, F, n)
         IN /\ Edit(x.from, K, K.top - n) /\ x.from.top = K.top - n
            /\ Edit(x.to, F, F.top) /\ x.to.top = F.top + n
<1> DEFINE b == K.top - n
           stk == [i \in Slot |-> IF i \in F.top .. F.top + n - 1
                                  THEN K.stk[K.top - n + i - F.top] ELSE F.stk[i]]
           X == CutTo(K, b)
           M == [F EXCEPT !.stk = stk, !.top = F.top + n]
<1>1. K.top \in Int /\ F.top \in Int /\ b \in Int
  BY DEF Clean
<1>2. lua_xmove(K, F, n).from = X
  BY DEF lua_xmove
<1>3. lua_xmove(K, F, n).to = M
  BY DEF lua_xmove
<1>4. /\ DOMAIN F = Fields /\ F.stk \in [Slot -> Value]
      /\ \A i \in Slot : i >= F.top => F.stk[i] = Nil
  BY DEF Clean, NilAbove
<1>5. /\ stk \in [Slot -> Value]
      /\ \A i \in Slot : i < F.top => stk[i] = F.stk[i]
      /\ \A i \in Slot : i >= F.top + n => stk[i] = Nil
  <2>1. \A i \in Slot : i \in F.top .. F.top + n - 1 => K.top - n + i - F.top \in Slot
    BY <1>1, Sizes DEF Slot
  <2>2. \A i \in Slot : i \in F.top .. F.top + n - 1 => K.stk[K.top - n + i - F.top] \in Value
    BY <2>1 DEF Clean
  <2>3. \A i \in Slot : i \in Int /\ F.stk[i] \in Value
    BY <1>4, Sizes
  <2> QED
    BY <1>1, <1>4, <2>2, <2>3
<1> HIDE DEF stk
<1>6. /\ DOMAIN M = Fields /\ M.stk = stk /\ M.top = F.top + n /\ M.ci = F.ci
      /\ M.base = F.base /\ M.openupval = F.openupval /\ M.status = F.status
      /\ M.errfunc = F.errfunc /\ M.allowhook = F.allowhook
  BY <1>4 DEF Fields
<1> HIDE DEF M
<1>7. Edit(M, F, F.top)
  <2>1. Kept(M, F)
    BY <1>6 DEF Kept
  <2>2. NilAbove(M) /\ M.top \in Int /\ F.top <= M.top
    BY <1>1, <1>5, <1>6 DEF NilAbove
  <2> QED
    BY <1>5, <1>6, <2>1, <2>2 DEF Edit, Over
<1>8. Edit(X, K, b) /\ X.top = b
  <2>1. b <= b
    BY <1>1
  <2> HIDE DEF b
  <2> QED
    BY <1>1, <2>1, CutToEdit
<1> HIDE DEF X
<1> QED
  BY <1>2, <1>3, <1>6, <1>7, <1>8

(* lua_checkstack keeps a thread in order.                                 *)
LEMMA CheckThread ==
  ASSUME NEW C, IsSeq(C), NEW t, NEW L, ThreadOK(L, C, t), Settled(L, C, t),
         NEW n \in Nat, L.top + n <= Slots
  PROVE  LET M == lua_checkstack(L, n)
         IN /\ ThreadOK(M, C, t) /\ Top(M).lua = Top(L).lua /\ M.top = L.top
            /\ Top(M).base = Top(L).base /\ Top(M).func = Top(L).func
            /\ Len(M.ci) = Len(L.ci) /\ M.openupval = L.openupval
            /\ M.status = L.status /\ M.base = L.base
            /\ \A j \in 1 .. Len(L.ci) - 1 : M.ci[j] = L.ci[j]
            /\ Top(M).nresults = Top(L).nresults
<1> DEFINE g == Top(L)
           z == L.top + n
           f == [g EXCEPT !.top = z]
<1>1. /\ Frame(L) = g /\ g \in FrameType /\ g.top \in Nat /\ L.top \in Nat /\ L.top <= Slots
      /\ g.base <= L.top /\ L.top >= 2 /\ g.base \in Nat
  <2>1. Mem(L)
    BY DEF ThreadOK
  <2>2. Len(L.ci) \in 1 .. Len(L.ci) /\ g = L.ci[Len(L.ci)]
    BY <2>1, MemFacts DEF Top
  <2> QED
    BY <2>1, <2>2, MemFacts
<1>2. CASE Frame(L).top < L.top + n
  <2>1. lua_checkstack(L, n) = SetFrame(L, f)
    BY <1>1, <1>2 DEF lua_checkstack
  <2>2. z \in Slot /\ z >= g.top /\ g.base <= z
    BY <1>1, <1>2, Sizes DEF Slot
  <2> HIDE DEF z, g
  <2>3. /\ f \in FrameType /\ SameFrame(f, g) /\ f.base <= f.top /\ f.top >= g.top
        /\ f.open = g.open /\ f.lua = g.lua /\ f.func = g.func /\ f.base = g.base
        /\ f.nresults = g.nresults
    BY <1>1, <2>2 DEF FrameType, SameFrame
  <2> HIDE DEF f
  <2> USE DEF g
  <2>4. ThreadOK(SetFrame(L, f), C, t) /\ Top(SetFrame(L, f)) = f
    BY <2>3, FrameThread
  <2>5. Mem(L)
    BY DEF ThreadOK
  <2> QED
    BY <2>1, <2>3, <2>4, <2>5, SetFrameFacts
<1>3. CASE ~(Frame(L).top < L.top + n)
  BY <1>3 DEF lua_checkstack
<1> QED
  BY <1>2, <1>3

(* The C stack below the activation of lua_resume in which t runs.         *)
Resumer(t, d, D, from) ==
  /\ DOMAIN th = Thread /\ t \in Thread /\ from \in Thread \ {t}
  /\ IsSeq(D) /\ FloorsOK(D) /\ HooksNest(D) /\ Len(D) \in Nat
  /\ D # <<>> /\ Cur(D) = from /\ \A i \in 1 .. Len(D) : D[i].t # t
  /\ \A s \in Thread \ {t} : ThreadOK(th[s], D, s)
  /\ Under(th[from], D, from) /\ ~Top(th[from]).lua
  /\ \A i \in 1 .. Len(D) : D[i].k = "resume" =>
       D[i].from \in Thread \ {t} /\ ~Top(th[D[i].from]).lua

(* The thread that called lua_resume waits for it in C code.               *)
LEMMA ResumerFacts ==
  ASSUME NEW lev, Good(th, cst, pend, lev), Data(th, cst, pend), cst # <<>>,
         NEW t, t = Cur(cst), NEW d \in 1 .. Len(cst), cst[d].k = "resume", cst[d].t = t
  PROVE  Resumer(t, d, SubSeq(cst, 1, d - 1), cst[d].from)
<1> DEFINE n == Len(cst)
           m == d - 1
           D == SubSeq(cst, 1, m)
           from == cst[d].from
<1>1. /\ n \in Nat /\ n >= 1 /\ cst[n].t = t /\ t \in Thread
      /\ \A i \in 1 .. n : cst[i].ci = lev[i] /\ lev[i] \in Nat
      /\ \A i, j \in 1 .. n : (i <= j /\ cst[i].t = cst[j].t) => lev[i] <= lev[j]
  BY CurLevels
<1>2. /\ At(th, t, th[t], cst) /\ ChainOK(cst) /\ IsSeq(cst) /\ DOMAIN th = Thread
      /\ FloorsOK(cst) /\ HooksNest(cst) /\ Resumers(th, cst)
  BY DataAt DEF At, Data
<1>3. m \in Nat /\ m + 1 = d /\ d <= n /\ m < n /\ m \in 0 .. n /\ m \in 0 .. n - 1
  BY <1>1
<1>4. /\ d > 1 /\ t \in Coroutine /\ from = cst[m].t
      /\ \A i \in 1 .. m : cst[i].t # t
  BY <1>2, <1>3 DEF ChainOK, ResumesOK
<1>5. from \in Thread \ {t}
  BY <1>1, <1>2, FromOther
<1> HIDE DEF from, D
<1>6. /\ FloorsOK(D) /\ HooksNest(D) /\ IsSeq(D) /\ Len(D) = m
      /\ \A i \in 1 .. m : D[i] = cst[i] /\ i \in 1 .. n
  BY <1>2, <1>3, CutOrders DEF D
<1>7. m \in 1 .. m /\ m >= 1 /\ m \in 1 .. n /\ m < n
  BY <1>3, <1>4
<1>8. D # <<>> /\ Cur(D) = from
  <2>1. D # <<>>
    BY <1>6, <1>7
  <2> QED
    BY <1>4, <1>6, <1>7, <2>1 DEF Cur
<1>9. ASSUME NEW s \in Thread \ {t} PROVE ThreadOK(th[s], D, s)
  <2>1. ThreadOK(th[s], cst, s)
    BY <1>2, <1>9 DEF At
  <2>2. m \in 0 .. Len(cst) - 1 /\ cst[m + 1].t # s
    BY <1>3, <1>9
  <2> QED
    BY <1>2, <2>1, <2>2, CutThread DEF D
<1>10. ~Top(th[from]).lua
  BY <1>2 DEF Resumers, from
<1>11. ASSUME NEW i \in 1 .. m, D[i].k = "resume"
       PROVE  D[i].from \in Thread \ {t} /\ ~Top(th[D[i].from]).lua
  <2>1. i \in 1 .. n /\ cst[i].k = "resume" /\ D[i] = cst[i]
    BY <1>6, <1>11
  <2> QED
    BY <1>2, <2>1, FromOther DEF Resumers
<1>12. lev[m] < Len(th[from].ci)
  <2>1. cst[m].k # "hook"
    <3>1. cst[m].k = "hook" => cst[m + 1].k \in Calling
      BY <1>2, <1>3, <1>7 DEF ChainOK, HooksOK
    <3>2. "resume" \notin Calling
      BY DEF Calling
    <3> QED
      BY <1>3, <3>1, <3>2
  <2>2. BusyOK(th, cst, pend, lev)
    BY DEF Good
  <2>3. cst[m + 1].k # "handler"
    BY <1>3
  <2>4. lev[m] < Upper(th, cst, lev, m)
    BY <1>7, <2>1, <2>2, <2>3 DEF BusyOK
  <2>5. cst[m + 1].t # cst[m].t
    BY <1>3, <1>4, <1>5
  <2> QED
    BY <1>4, <2>4, <2>5 DEF Upper
<1>13. Under(th[from], D, from)
  <2> SUFFICES ASSUME NEW i \in 1 .. m, D[i].t = from
               PROVE  D[i].ci < Len(th[from].ci)
    BY <1>6 DEF Under
  <2>1. i \in 1 .. n /\ D[i] = cst[i] /\ i <= m /\ cst[i].t = cst[m].t
    BY <1>3, <1>4, <1>6
  <2>2. cst[i].ci = lev[i] /\ lev[i] <= lev[m] /\ lev[i] \in Nat /\ lev[m] \in Nat
    BY <1>1, <1>7, <2>1
  <2>3. Len(th[from].ci) \in Nat
    <3>1. Mem(th[from])
      BY <1>5, <1>9 DEF ThreadOK
    <3> QED
      BY <3>1, MemFacts
  <2> QED
    BY <1>12, <2>1, <2>2, <2>3
<1>14. \A i \in 1 .. m : D[i].t # t
  BY <1>4, <1>6
<1> QED
  BY <1>1, <1>2, <1>3, <1>5, <1>6, <1>8, <1>9, <1>10, <1>11, <1>13, <1>14 DEF Resumer, D, from

(* The resumer goes on with what the coroutine has left it.                *)
LEMMA BackTo ==
  ASSUME NEW t, NEW d, NEW D, NEW from, Resumer(t, d, D, from),
         NEW X, Mem(X), NEW M, ThreadOK(M, D, from), ~Top(M).lua
  PROVE  Data([th EXCEPT ![t] = X, ![from] = M], D, "none")
<1> DEFINE T == [th EXCEPT ![t] = X, ![from] = M]
<1>1. /\ DOMAIN th = Thread /\ t \in Thread /\ from \in Thread /\ from # t
      /\ Cur(D) = from
  BY DEF Resumer
<1>2. /\ DOMAIN T = Thread /\ T[t] = X /\ T[from] = M
      /\ \A v \in Thread \ {t, from} : T[v] = th[v]
  BY <1>1, PutTwo
<1> HIDE DEF T
<1>3. ThreadOK(X, D, t)
  BY DEF ThreadOK, Resumer
<1>4. \A s \in Thread : ThreadOK(T[s], D, s)
  BY <1>2, <1>3 DEF Resumer
<1>5. Resumers(T, D)
  <2> SUFFICES ASSUME NEW i \in 1 .. Len(D), D[i].k = "resume"
               PROVE  ~Top(T[D[i].from]).lua
    BY DEF Resumers
  <2>1. D[i].from \in Thread \ {t} /\ ~Top(th[D[i].from]).lua
    BY DEF Resumer
  <2> QED
    BY <1>2, <2>1
<1>6. LiveOK(T[from], D, "none") /\ MessageOK(T[from], D, from, "none")
  BY <1>2 DEF LiveOK, MessageOK
<1>7. FloorsOK(D) /\ HooksNest(D)
  BY DEF Resumer
<1> QED
  BY <1>1, <1>2, <1>4, <1>5, <1>6, <1>7 DEF Data, T

(* The n topmost values of K go to the resumer.                            *)
LEMMA HandBack ==
  ASSUME NEW t, NEW d, NEW D, NEW from, Resumer(t, d, D, from),
         NEW K, Mem(K), NEW n \in Nat, NEW b, b = K.top - n, Top(K).base <= b, UpFree(K, b),
         NEW F, ThreadOK(F, D, from), ~Top(F).lua, F.top + n <= Slots,
         NEW x, x = lua_xmove(K, F, n)
  PROVE  Data([th EXCEPT ![t] = x.from, ![from] = x.to], D, "none")
<1>1. /\ Clean(K) /\ K.top <= Slots /\ K.top \in Nat /\ Top(K).base \in Nat
      /\ Top(K).base >= 1
  <2>1. Len(K.ci) \in 1 .. Len(K.ci) /\ Top(K) = K.ci[Len(K.ci)]
    BY MemFacts DEF Top
  <2> QED
    BY <2>1, MemFacts
<1>2. Mem(F) /\ Clean(F) /\ F.top \in Nat /\ F.top >= 2 /\ Top(F).base <= F.top
  BY MemFacts DEF ThreadOK
<1>3. 1 <= K.top - n /\ F.top >= 1 /\ b \in Int /\ b <= Slots
  BY <1>1, <1>2, Sizes
<1>4. /\ Edit(x.from, K, b) /\ x.from.top = b
      /\ Edit(x.to, F, F.top) /\ x.to.top = F.top + n
  BY <1>1, <1>2, <1>3, XmoveEdits
<1>5. IsSeq(D) /\ ThreadOK(K, D, t) /\ Above(D, t, b)
  BY DEF Resumer, ThreadOK, Above
<1>6. ThreadOK(x.from, D, t)
  BY <1>3, <1>4, <1>5, EditThread
<1>7. ThreadOK(x.to, D, from) /\ Top(x.to) = Top(F)
  <2> DEFINE w == F.top
  <2>1. w \in Int /\ Top(F).base <= w /\ x.to.top <= Slots /\ F.top <= w
    BY <1>2, <1>4
  <2>2. UpFree(F, x.to.top)
    <3>1. UpFree(F, F.top) /\ Ups(F) \subseteq Nat
      BY <1>2, UpsBelow
    <3> QED
      BY <1>2, <1>4, <3>1 DEF UpFree
  <2>3. Above(D, from, w)
    BY <2>1, AboveTop
  <2>4. Edit(x.to, F, w)
    BY <1>4
  <2> HIDE DEF w
  <2> QED
    BY <1>5, <2>1, <2>2, <2>3, <2>4, EditThread
<1> QED
  BY <1>6, <1>7, BackTo DEF ThreadOK

(* The end of lua_resume by a return or a yield.                           *)
LEMMA EndResumeData ==
  ASSUME NEW lev, Good(th, cst, pend, lev), Data(th, cst, pend), cst # <<>>,
         NEW t, t = Cur(cst), cst[Len(cst)].k = "resume",
         NEW L, Mem(L), NEW n \in Nat, NEW b, b = L.top - n, Top(L).base <= b, UpFree(L, b),
         EndResume(t, L, n)
  PROVE  Data(th', cst', pend')
<1> DEFINE d == Len(cst)
           D == SubSeq(cst, 1, d - 1)
           e == cst[d]
           from == e.from
           K == [L EXCEPT !.nCcalls = @ - 1]
           n1 == n + 1
           F == lua_checkstack(th[from], n1)
           x == lua_xmove(K, F, n)
<1>1. d \in 1 .. Len(cst) /\ cst[d].t = t /\ d \in Nat /\ d >= 1 /\ IsSeq(cst)
  <2>1. IsSeq(cst)
    BY DEF Good, ChainOK
  <2> QED
    BY <2>1, CurLevels
<1>2. Last(cst) = e
  BY DEF Last
<1>3. Front(cst) = D
  BY DEF Front
<1>4. /\ th[from].top + n + 1 <= stack_last
      /\ th' = [th EXCEPT ![t] = x.from, ![from] = x.to]
      /\ cst' = D /\ pend' = "none"
  BY <1>2, <1>3 DEF EndResume
<1>5. Resumer(t, d, D, from)
  BY <1>1, ResumerFacts
<1> HIDE DEF D, from, d
<1>6. /\ ThreadOK(th[from], D, from) /\ IsSeq(D) /\ Under(th[from], D, from)
      /\ ~Top(th[from]).lua
  BY <1>5 DEF Resumer
<1>7. th[from].top \in Nat /\ Mem(th[from]) /\ n1 \in Nat /\ th[from].top + n1 <= Slots
      /\ th[from].top + n <= Slots
  <2>1. Mem(th[from])
    BY <1>6 DEF ThreadOK
  <2>2. th[from].top \in Nat
    BY <2>1, MemFacts
  <2>3. th[from].top + n + 1 <= stack_last /\ stack_last < Slots /\ Slots \in Nat
        /\ stack_last \in Nat
    BY <1>4, Sizes
  <2> DEFINE a == th[from].top
  <2> HIDE DEF a
  <2>4. n1 \in Nat /\ a + n1 <= Slots /\ a + n <= Slots
    BY <2>2, <2>3 DEF a
  <2> QED
    BY <2>1, <2>2, <2>4 DEF a
<1> HIDE DEF n1
<1>8. ThreadOK(F, D, from) /\ ~Top(F).lua /\ F.top = th[from].top
  <2>1. Settled(th[from], D, from)
    <3>1. Len(th[from].ci) \in Nat
      BY <1>7, MemFacts
    <3> QED
      BY <1>6, <3>1 DEF Settled, Under
  <2> QED
    BY <1>6, <1>7, <2>1, CheckThread
<1> HIDE DEF F
<1>9. /\ DOMAIN K = Fields /\ K.stk = L.stk /\ K.top = L.top /\ K.ci = L.ci
      /\ K.openupval = L.openupval /\ K.base = L.base /\ K.status = L.status
      /\ K.errfunc = L.errfunc /\ K.allowhook = L.allowhook
  BY DEF Mem, Fields
<1> HIDE DEF K
<1>10. Mem(K) /\ Top(K) = Top(L)
  <2> DEFINE C == <<>>
  <2>1. ThreadOK(L, C, t)
    BY DEF ThreadOK
  <2> HIDE DEF C
  <2>2. ThreadOK(K, C, t) /\ Top(K) = Top(L)
    BY <1>9, <2>1, OtherThread
  <2> QED
    BY <2>2 DEF ThreadOK
<1>11. b = K.top - n /\ Top(K).base <= b /\ UpFree(K, b)
  BY <1>9, <1>10 DEF UpFree, Ups
<1>12. F.top + n <= Slots
  BY <1>7, <1>8
<1>13. Data([th EXCEPT ![t] = x.from, ![from] = x.to], D, "none")
  <2> HIDE DEF x
  <2>1. x = lua_xmove(K, F, n)
    BY DEF x
  <2> QED
    BY <1>5, <1>8, <1>10, <1>11, <1>12, <2>1, HandBack
<1> QED
  BY <1>4, <1>13

(* A thread that may yield has no C call but lua_resume waiting for it.    *)
LEMMA YieldEnds ==
  ASSUME NEW lev, Good(th, cst, pend, lev), Data(th, cst, pend), NEW t, NEW k,
         lua_yield(t, k), ~(th[t].nCcalls > th[t].baseCcalls)
  PROVE  /\ cst # <<>> /\ cst[Len(cst)].k = "resume" /\ cst[Len(cst)].k # "hook"
         /\ ~Top(th[t]).lua /\ t = Cur(cst)
         /\ Len(cst) \in 1 .. Len(cst) /\ cst[Len(cst)].t = t
<1> DEFINE L == th[t]
           n == Len(cst)
<1>1. CRuns(t) /\ ~InHook /\ Len(L.ci) > 1
  BY DEF lua_yield
<1>2. /\ At(th, t, L, cst) /\ ChainOK(cst) /\ StateOK(L)
      /\ Top(L).lua => cst # <<>> /\ cst[Len(cst)].k = "hook"
      /\ InHook <=> (cst # <<>> /\ cst[Len(cst)].k = "hook")
  BY <1>1, CAt
<1>3. cst # <<>> /\ cst[n].k # "hook" /\ ~Top(L).lua /\ t = Cur(cst)
  BY <1>1, <1>2, CFunction DEF At
<1>4. n \in Nat /\ n >= 1 /\ n \in 1 .. n /\ cst[n].t = t
  BY <1>3, Levels DEF Cur
<1>5. /\ t \in Running(cst) /\ t = Current
  BY <1>1, <1>2, <1>3, <1>4 DEF CRuns, Running
<1>6. cst[n].k \notin Calling
  <2> SUFFICES ASSUME cst[n].k \in Calling PROVE FALSE
    OBVIOUS
  <2> DEFINE p == n - 1
             c == Cardinality(CallsTo(cst, t, p))
  <2>1. p \in Nat /\ p + 1 = n
    BY <1>4
  <2> HIDE DEF p
  <2>2. c \in Nat /\ Cardinality(CallsTo(cst, t, p + 1)) = c + 1
    BY <1>4, <2>1, CallsCount
  <2>3. L.nCcalls = L.baseCcalls + Cardinality(CallsTo(cst, t, Len(cst)))
    BY <1>5 DEF Good, CountsOK
  <2>4. L.nCcalls \in Int /\ L.baseCcalls \in Int
    BY <1>2 DEF StateOK
  <2> HIDE DEF c
  <2>5. L.nCcalls = L.baseCcalls + (c + 1) /\ ~(L.nCcalls > L.baseCcalls)
    BY <2>1, <2>2, <2>3
  <2> QED
    BY <2>2, <2>4, <2>5
<1> QED
  BY <1>2, <1>3, <1>4, <1>6 DEF ChainOK, ActsOK, ActOK

(* lua_yield: refused, or the results are handed to the resumer.           *)
LEMMA YieldData ==
  ASSUME NEW lev, Good(th, cst, pend, lev), Data(th, cst, pend), NEW t,
         NEW k \in 0 .. 1, lua_yield(t, k)
  PROVE  Data(th', cst', pend')
<1> DEFINE L == th[t]
           b == L.top - k
           K == [L EXCEPT !.base = L.top - k, !.status = "yield"]
           n == Len(cst)
<1>1. /\ CRuns(t) /\ ~InHook /\ Len(L.ci) > 1 /\ k <= L.top - L.base
      /\ IF L.nCcalls > L.baseCcalls THEN RunError(th, t, L, cst)
         ELSE EndResume(t, K, k)
  BY DEF lua_yield
<1>2. /\ At(th, t, L, cst) /\ pend = "none" /\ ChainOK(cst)
      /\ ThreadOK(L, cst, t) /\ Mem(L) /\ IsSeq(cst) /\ L.status = "ok"
      /\ L.top \in Nat /\ L.top <= Slots /\ Top(L).base \in Nat /\ Top(L).base <= L.top
      /\ Top(L).lua => cst # <<>> /\ cst[Len(cst)].k = "hook"
      /\ InHook <=> (cst # <<>> /\ cst[Len(cst)].k = "hook")
  BY <1>1, CAt
<1>3. CASE L.nCcalls > L.baseCcalls
  BY <1>1, <1>2, <1>3, AtRunError
<1>4. CASE ~(L.nCcalls > L.baseCcalls)
  <2>1. EndResume(t, K, k)
    BY <1>1, <1>4
  <2>2. cst # <<>> /\ cst[n].k # "hook" /\ ~Top(L).lua /\ t = Cur(cst)
    BY <1>4, YieldEnds
  <2>3. n \in Nat /\ n >= 1 /\ n \in 1 .. n /\ cst[n].t = t
    BY <2>2, Levels DEF Cur
  <2>4. cst[n].k = "resume"
    BY <1>4, YieldEnds
  <2>5. b \in Int /\ b \in 2 .. Slots /\ Top(L).base <= b /\ b <= L.top
    <3>1. L.base = Top(L).base /\ Top(L).base \in 2 .. Slots
      BY <1>2 DEF Mem, WindowOK, Top
    <3> QED
      BY <1>1, <1>2, <3>1, Sizes
  <2>6. UpFree(L, b)
    <3>1. UpFree(L, Top(L).func) /\ Ups(L) \subseteq Nat
      BY <1>2, <2>2, UpsBelow
    <3>2. Top(L).func \in Nat /\ Top(L).func < Top(L).base
      <4>1. Len(L.ci) \in 1 .. Len(L.ci) /\ Top(L) = L.ci[Len(L.ci)]
        BY <1>2, MemFacts DEF Top
      <4> QED
        BY <1>2, <4>1, MemFacts
    <3> QED
      BY <1>2, <2>5, <3>1, <3>2 DEF UpFree
  <2>7. L.ci[2].nresults = -1
    <3>1. RecIn(L, cst, n)
      BY <1>2, <2>3 DEF ThreadOK
    <3>2. Until(L, cst, n) = Len(L.ci)
      BY <2>3 DEF Until
    <3>3. cst[n].ci = 1
      BY <2>3, <2>4 DEF Good, FramesOK
    <3>4. EnteredOK(L, cst[n])
      BY <1>1, <2>4, <3>1, <3>2, <3>3 DEF RecIn, RecOK
    <3> QED
      BY <2>4, <3>3, <3>4 DEF EnteredOK, CalleeOK
  <2>8. /\ DOMAIN K = Fields /\ K.stk = L.stk /\ K.top = L.top /\ K.ci = L.ci
        /\ K.openupval = L.openupval /\ K.base = b /\ K.status = "yield"
        /\ K.errfunc = L.errfunc
    BY <1>2 DEF Mem, Fields
  <2> HIDE DEF K, b
  <2>9. Mem(K) /\ Top(K) = Top(L)
    <3>1. Len(L.ci) \in Nat /\ Len(L.ci) >= 2
      BY <1>1, <1>2, MemFacts
    <3>2. WindowOK(K)
      BY <1>2, <2>5, <2>8 DEF WindowOK, Mem
    <3>3. NilAbove(K) /\ Owned(K)
      BY <1>2, <2>8 DEF NilAbove, Owned, Mem, Owns, Ups
    <3> QED
      BY <1>2, <2>7, <2>8, <3>1, <3>2, <3>3 DEF Mem, Top
  <2>10. b = K.top - k /\ Top(K).base <= b /\ UpFree(K, b) /\ k \in Nat
    <3>1. b = K.top - k
      BY <2>8 DEF b
    <3> QED
      BY <2>5, <2>6, <2>8, <2>9, <3>1 DEF UpFree, Ups
  <2> QED
    BY <2>1, <2>2, <2>4, <2>9, <2>10, EndResumeData
<1> QED
  BY <1>3, <1>4

-----------------------------------------------------------------------------
(* luaD_poscall and what follows                                           *)

(* Thread t, in state L, is about to return its values from slot fr on.    *)
Leaving(L, t, fr) ==
  /\ ThreadOK(L, cst, t) /\ Under(L, cst, t) /\ L.status = "ok" /\ Len(L.ci) >= 2
  /\ Top(L).func <= fr /\ fr <= L.top /\ fr \in Int /\ UpFree(L, Top(L).func)
  /\ ~L.ci[1].lua

(* The frame below a function that returns, and the results.               *)
LEMMA LeavingFacts ==
  ASSUME NEW L, NEW t, NEW fr, Leaving(L, t, fr), NEW P, P = luaD_poscall(L, fr),
         NEW m, m = Len(L.ci) - 1
  PROVE  /\ Mem(L) /\ m \in Nat /\ m >= 1 /\ m \in 1 .. Len(L.ci) /\ m < Len(L.ci)
         /\ Clean(P) /\ Len(P.ci) = m /\ Top(P) = L.ci[m] /\ Frame(P) = L.ci[m]
         /\ P.ci[m] = L.ci[m]
         /\ P.top = Top(L).func + (IF Top(L).nresults = -1 THEN L.top - fr ELSE Top(L).nresults)
         /\ P.top \in Nat /\ Top(L).func <= P.top /\ Top(L).func \in Nat /\ Top(L).func >= 1
         /\ L.ci[m].base \in Nat /\ L.ci[m].base <= Top(L).func
         /\ L.ci[m].top \in Nat /\ L.ci[m].top <= Slots /\ L.ci[m].base <= L.ci[m].top
         /\ Frame(L) = Top(L) /\ L.top \in Nat /\ L.top <= Slots
         /\ UpFree(L, L.ci[m].top) /\ Ups(L) \subseteq Nat /\ Len(L.ci) \in Nat
<1>1. Mem(L) /\ Len(L.ci) >= 2
  BY DEF Leaving, ThreadOK
<1>2. /\ Len(L.ci) \in Nat /\ Frame(L) = Top(L) /\ L.top \in Nat /\ L.top <= Slots
      /\ Ups(L) \subseteq Nat
  BY <1>1, MemFacts, UpsBelow
<1>3. m \in Nat /\ m >= 1 /\ m \in 1 .. Len(L.ci) /\ m < Len(L.ci)
      /\ Len(L.ci) \in 1 .. Len(L.ci) /\ Top(L) = L.ci[Len(L.ci)]
  BY <1>1, <1>2 DEF Top
<1>4. L.ci[m].base <= Top(L).func
  BY <1>1, <1>3, FramesNested
<1>5. UpFree(L, L.ci[m].top)
  BY <1>1, UpsBelowFrame DEF Leaving
<1>6. /\ DOMAIN P = Fields /\ P.top \in Nat /\ Top(L).func <= P.top
      /\ P.top = Top(L).func + (IF Top(L).nresults = -1 THEN L.top - fr ELSE Top(L).nresults)
      /\ P.stk \in [Slot -> Value] /\ NilAbove(P)
      /\ P.ci \in Seq(FrameType) /\ Len(P.ci) = m
      /\ \A j \in 1 .. m : P.ci[j] = L.ci[j]
      /\ Top(P) = L.ci[m]
  <2>1. Top(L).func <= fr /\ fr <= L.top /\ fr \in Int
    BY DEF Leaving
  <2> QED
    BY <1>1, <1>2, <2>1, PosCallFacts
<1>7. Clean(P)
  BY <1>6 DEF Clean
<1>8. Frame(P) = Top(P) /\ P.ci[m] = L.ci[m]
  BY <1>3, <1>6 DEF Frame, Last, Top
<1>9. /\ L.ci[m].base \in Nat /\ L.ci[m].top \in Nat /\ L.ci[m].top <= Slots
      /\ L.ci[m].base <= L.ci[m].top /\ Top(L).func \in Nat /\ Top(L).func >= 1
  BY <1>1, <1>3, MemFacts
<1> QED
  BY <1>1, <1>2, <1>3, <1>4, <1>5, <1>6, <1>7, <1>8, <1>9

(* The caller runs in the same activation of luaV_execute.                 *)
LEMMA BackInCaller ==
  ASSUME NEW L, NEW t, NEW fr, Leaving(L, t, fr), IsSeq(cst),
         \A i \in 1 .. Len(cst) : cst[i].t = t => cst[i].ci < Len(L.ci) - 1
  PROVE  LET M == AfterCall(luaD_poscall(L, fr), Top(L).nresults)
         IN ThreadOK(M, cst, t) /\ (Top(M).open \/ M.top = Top(M).top)
<1> DEFINE P == luaD_poscall(L, fr)
           m == Len(L.ci) - 1
           w == L.ci[m].base
           nresults == Top(L).nresults
           M == AfterCall(P, nresults)
<1>a. P = luaD_poscall(L, fr) /\ m = Len(L.ci) - 1
  OBVIOUS
<1> HIDE DEF P, m
<1> SUFFICES ThreadOK(M, cst, t) /\ (Top(M).open \/ M.top = Top(M).top)
  BY <1>a
<1>1. /\ Mem(L) /\ m \in Nat /\ m >= 1 /\ m \in 1 .. Len(L.ci) /\ m < Len(L.ci)
      /\ Clean(P) /\ Len(P.ci) = m /\ Top(P) = L.ci[m] /\ Frame(P) = L.ci[m]
      /\ P.top = Top(L).func + (IF nresults = -1 THEN L.top - fr ELSE nresults)
      /\ P.top \in Nat /\ Top(L).func <= P.top /\ Top(L).func \in Nat
      /\ L.ci[m].base \in Nat /\ L.ci[m].base <= Top(L).func
      /\ L.ci[m].top \in Nat /\ L.ci[m].top <= Slots /\ L.ci[m].base <= L.ci[m].top
      /\ Frame(L) = Top(L) /\ L.top \in Nat /\ L.top <= Slots
      /\ UpFree(L, L.ci[m].top) /\ Ups(L) \subseteq Nat /\ Len(L.ci) \in Nat
  BY <1>a, LeavingFacts
<1>2. /\ ThreadOK(L, cst, t) /\ Under(L, cst, t) /\ L.status = "ok" /\ Len(L.ci) >= 2
      /\ Top(L).func <= fr /\ fr <= L.top /\ fr \in Int /\ UpFree(L, Top(L).func)
  BY DEF Leaving
<1>3. Above(cst, t, w)
  <2> SUFFICES ASSUME NEW i \in 1 .. Len(cst), cst[i].t = t, Guarded(cst[i])
               PROVE  Floor(cst[i]) <= w
    BY DEF Above
  <2>1. FloorOK(L, cst[i]) /\ cst[i].ci \in 1 .. Len(L.ci)
    BY <1>2 DEF ThreadOK, RecIn, RecOK
  <2>2. m \in cst[i].ci + 1 .. Len(L.ci)
    <3>1. cst[i].ci < Len(L.ci) - 1 /\ cst[i].ci \in Nat
      BY <1>1, <2>1
    <3> QED
      BY <1>1, <1>a, <3>1
  <2>3. Floor(cst[i]) <= L.ci[m].func /\ Floor(cst[i]) \in Nat
    BY <2>1, <2>2, Sizes DEF FloorOK
  <2>4. L.ci[m].func < w /\ L.ci[m].func \in Nat
    BY <1>1, MemFacts
  <2>5. w \in Nat
    BY <1>1
  <2> DEFINE x == Floor(cst[i])
             y == L.ci[m].func
  <2>6. x \in Nat /\ y \in Nat /\ x <= y /\ y < w
    BY <2>3, <2>4
  <2> HIDE DEF x, y, w
  <2>7. x <= w
    BY <2>5, <2>6
  <2> QED
    BY <2>7 DEF x
<1>4. ASSUME NEW N, Edit(N, P, w), N.top <= Slots, UpFree(L, N.top)
      PROVE  ThreadOK(N, cst, t) /\ Top(N) = L.ci[m] /\ Len(N.ci) = m
  <2>1. w \in Int /\ L.ci[Len(L.ci) - 1].base <= w /\ w <= Top(L).func
    BY <1>1, <1>a
  <2>2. \A i \in 1 .. Len(cst) : cst[i].t = t => cst[i].ci < Len(L.ci)
    BY <1>2 DEF Under
  <2>3. Edit(N, luaD_poscall(L, fr), w) /\ L.status # "yield"
    BY <1>2, <1>4, <1>a
  <2>5. Len(L.ci) - 1 = m
    BY <1>a
  <2> HIDE DEF w
  <2>4. ThreadOK(N, cst, t) /\ Top(N) = L.ci[Len(L.ci) - 1] /\ Len(N.ci) = Len(L.ci) - 1
    BY <1>2, <1>3, <1>4, <2>1, <2>2, <2>3, PosThread
  <2> QED
    BY <2>4, <2>5
<1>5. CASE nresults = -1
  <2>1. P.top <= Slots /\ w <= P.top
    <3> DEFINE x == Top(L).func
               top == L.top
    <3>1. P.top = x + (top - fr)
      BY <1>1, <1>5
    <3>2. x \in Nat /\ x <= fr /\ fr <= top /\ fr \in Int
      BY <1>1, <1>2
    <3>3. w \in Nat /\ w <= x /\ top \in Nat /\ top <= Slots /\ Slots \in Nat
      BY <1>1, Sizes
    <3> HIDE DEF x, top, w
    <3> QED
      BY <3>1, <3>2, <3>3
  <2>2. UpFree(L, P.top)
    BY <1>1, <1>2 DEF UpFree
  <2>3. Edit(P, P, w)
    <3> HIDE DEF w
    <3> QED
      BY <1>1, <2>1, EditSame
  <2>4. ThreadOK(P, cst, t) /\ Len(P.ci) = m
    BY <1>4, <2>1, <2>2, <2>3
  <2>5. Under(P, cst, t)
    BY <2>4, <1>a DEF Under
  <2> DEFINE b == TRUE
  <2>6. b \in BOOLEAN /\ M = MarkOpen(P, b)
    BY <1>5 DEF AfterCall, MULTRET
  <2> HIDE DEF b
  <2>7. ThreadOK(MarkOpen(P, b), cst, t) /\ Top(MarkOpen(P, b)).open = b
    BY <2>4, <2>5, <2>6, MarkThread
  <2> QED
    BY <2>6, <2>7 DEF b
<1>6. CASE nresults # -1
  <2> DEFINE z == L.ci[m].top
  <2>1. M = ToFrameTop(P)
    BY <1>6 DEF AfterCall, MULTRET
  <2>2. Edit(M, P, w) /\ M.top = z
    <3>1. z = Frame(P).top /\ z \in Int /\ w <= z /\ w \in Int
      BY <1>1
    <3> HIDE DEF z, w, M
    <3> QED
      BY <1>1, <2>1, <3>1, ToFrameTopEdit
  <2> HIDE DEF M
  <2> QED
    BY <1>1, <1>4, <2>2
<1> QED
  BY <1>5, <1>6

(* The activation that called the function ends.                           *)
LEMMA BackInC ==
  ASSUME NEW lev, Good(th, cst, pend, lev), Data(th, cst, pend), pend = "none",
         cst # <<>>, NEW t, t = Cur(cst), NEW n, n = Len(cst), cst[n].k # "hook",
         NEW L, NEW fr, Leaving(L, t, fr), Len(L.ci) = cst[n].ci + 1,
         NEW e, e.k = cst[n].k, e.ci = cst[n].ci,
         NEW P, P = luaD_poscall(L, fr),
         ThreadOK(P, cst, t) => RecOK(P, e, Len(P.ci))
  PROVE  Ends(P, t, e)
<1> DEFINE m == Len(L.ci) - 1
           w == Top(L).func
<1>1. /\ Mem(L) /\ m \in Nat /\ m >= 1 /\ m \in 1 .. Len(L.ci) /\ m < Len(L.ci)
      /\ Clean(P) /\ Len(P.ci) = m /\ Top(P) = L.ci[m]
      /\ P.top = w + (IF Top(L).nresults = -1 THEN L.top - fr ELSE Top(L).nresults)
      /\ P.top \in Nat /\ w <= P.top /\ w \in Nat
      /\ L.ci[m].base \in Nat /\ L.ci[m].base <= w
      /\ L.top \in Nat /\ L.top <= Slots /\ Ups(L) \subseteq Nat
  BY LeavingFacts
<1>2. /\ ThreadOK(L, cst, t) /\ Under(L, cst, t) /\ L.status = "ok" /\ Len(L.ci) >= 2
      /\ w <= fr /\ fr <= L.top /\ fr \in Int /\ UpFree(L, w)
  BY DEF Leaving
<1>3. n \in 1 .. n /\ cst[n].t = t /\ IsSeq(cst) /\ At(th, t, th[t], cst)
  BY CurLevels, DataAt
<1>4. CalleeOK(cst[n], L.ci[m].top, w, Top(L).nresults)
  <2>1. cst[n].ci = Len(L.ci) - 1
    <3>1. cst[n].ci \in Nat
      BY <1>2, <1>3, MemFacts DEF ThreadOK, RecIn, RecOK
    <3> QED
      BY <3>1
  <2> QED
    BY <1>2, <1>3, <2>1, EnteredBy
<1>5. P.top <= Slots
  <2>1. CASE Top(L).nresults = -1
    <3>1. P.top = w + (L.top - fr)
      BY <1>1, <2>1
    <3> QED
      BY <1>1, <1>2, <3>1, Sizes
  <2>2. CASE Top(L).nresults # -1
    BY <1>1, <1>4, <2>2 DEF CalleeOK
  <2> QED
    BY <2>1, <2>2
<1>6. UpFree(L, P.top)
  BY <1>1, <1>2 DEF UpFree
<1>7. ThreadOK(P, cst, t)
  <2>1. w \in Int /\ L.ci[Len(L.ci) - 1].base <= w /\ w <= Top(L).func
    BY <1>1
  <2>2. \A i \in 1 .. Len(cst) : cst[i].t = t => cst[i].ci < Len(L.ci)
    BY <1>2 DEF Under
  <2>3. Above(cst, t, w)
    BY <1>1, <1>2, UnderAbove
  <2>4. Edit(P, luaD_poscall(L, fr), w)
    <3>1. Edit(P, P, w)
      <4> HIDE DEF w
      <4> QED
        BY <1>1, EditSame
    <3> QED
      BY <3>1
  <2>5. L.status # "yield" /\ UpFree(L, Top(L).func) /\ Top(L).func <= fr
    BY <1>2
  <2> HIDE DEF w
  <2> QED
    BY <1>2, <1>3, <1>5, <1>6, <2>1, <2>2, <2>3, <2>4, <2>5, PosThread
<1>8. At(th, t, P, cst)
  BY <1>3, <1>7, AtStep
<1>9. cst[n].ci = m
  <2>1. cst[n].ci \in Nat
    BY <1>2, <1>3, MemFacts DEF ThreadOK, RecIn, RecOK
  <2> QED
    BY <2>1
<1>10. e.k \in Meta => P.top = Top(P).top + (IF e.k = "callTM" THEN 0 ELSE 1)
  <2>1. Top(P).top \in Nat
    BY <1>1, MemFacts
  <2> QED
    BY <1>1, <1>4, <2>1 DEF CalleeOK
<1>11. Top(P).top \in Nat
  BY <1>1, MemFacts
<1>12. Len(P.ci) = cst[n].ci /\ RecOK(P, e, Len(P.ci)) /\ e.ci = Len(P.ci)
  BY <1>1, <1>7, <1>9
<1>13. /\ e.k \in {"callTMres", "compare"} => P.top = Top(P).top + 1
       /\ e.k = "callTM" => P.top = Top(P).top
  BY <1>10, <1>11 DEF Meta
<1> HIDE DEF m, w
<1> QED
  BY <1>8, <1>12, <1>13 DEF Ends

(* luaD_poscall, into Lua code or into the C code that called.             *)
LEMMA ReturnData ==
  ASSUME NEW lev, Good(th, cst, pend, lev), Data(th, cst, pend), pend = "none",
         cst # <<>>, NEW t, t = Cur(cst), NEW n, n = Len(cst), cst[n].k # "hook",
         NEW L, NEW fr, Leaving(L, t, fr), NEW x \in Nat, Len(L.ci) = lev[n] + x + 1,
         cst[n].nexec = IF isLua(L) THEN x + 1 ELSE x, Return(t, L, fr)
  PROVE  Data(th', cst', pend')
<1> DEFINE P == luaD_poscall(L, fr)
           cs == IF isLua(L) THEN Executing(cst, -1) ELSE cst
           nresults == Frame(L).nresults
           M == AfterCall(P, nresults)
<1>1. IF Last(cs).nexec = 0 THEN FinishCall(t, P, cs) ELSE Go(th, t, M, cs)
  BY DEF Return
<1>2. /\ n \in Nat /\ n >= 1 /\ n \in 1 .. n /\ cst[n].t = t
      /\ \A i \in 1 .. n : cst[i].ci = lev[i] /\ lev[i] \in Nat
      /\ \A i, j \in 1 .. n : (i <= j /\ cst[i].t = cst[j].t) => lev[i] <= lev[j]
  BY CurLevels
<1>3. /\ At(th, t, th[t], cst) /\ ChainOK(cst) /\ IsSeq(cst) /\ ActsOK(cst)
  BY DataAt DEF ChainOK
<1>4. /\ ThreadOK(L, cst, t) /\ Under(L, cst, t) /\ Frame(L) = Top(L)
      /\ At(th, t, L, cst)
  <2>1. ThreadOK(L, cst, t) /\ Under(L, cst, t)
    BY DEF Leaving
  <2> QED
    BY <1>3, <2>1, MemFacts, AtStep DEF ThreadOK
<1>5. /\ IsSeq(cs) /\ Len(cs) = n /\ Last(cs) = cs[n] /\ cs[n].nexec = x
      /\ \A i \in 1 .. n - 1 : cs[i] = cst[i]
      /\ \A y : At(th, t, y, cst) => At(th, t, y, cs)
      /\ \A y : RecOK(y, cst[n], Len(y.ci)) => RecOK(y, cs[n], Len(y.ci))
      /\ cs[n].k = cst[n].k /\ cs[n].ci = cst[n].ci
  <2>1. CASE isLua(L)
    <3> DEFINE d == -1
               v == cst[n].nexec + d
               f == [cst[n] EXCEPT !.nexec = v]
               z == [cst EXCEPT ![Len(cst)] = f]
    <3>1. d \in Int /\ v = x
      BY <2>1
    <3>2. cs = Executing(cst, d) /\ cs = z
      BY <2>1 DEF Executing
    <3>3. \A y : At(th, t, y, cst) => At(th, t, y, Executing(cst, d))
      <4> HIDE DEF d
      <4> QED
        BY <1>3, AtExec
    <3> HIDE DEF d, v
    <3>4. /\ "nexec" \in DOMAIN cst[n] /\ f.nexec = v
      BY <1>2, <1>3 DEF ActsOK, ActOK
    <3>5. f = [cst[n] EXCEPT !.nexec = v]
      OBVIOUS
    <3> HIDE DEF f
    <3>6. IsSeq(z) /\ Len(z) = n /\ z[n] = f /\ \A i \in 1 .. n - 1 : z[i] = cst[i]
      <4>1. IsSeq(cst) /\ Len(cst) = n /\ Len(cst) > 0
        BY <1>2, <1>3
      <4>2. IsSeq(z) /\ Len(z) = Len(cst) /\ z[Len(cst)] = f
            /\ \A i \in 1 .. Len(cst) - 1 : z[i] = cst[i]
        <5>1. ASSUME NEW s, IsSeq(s), Len(s) > 0
              PROVE  LET y == [s EXCEPT ![Len(s)] = f]
                     IN /\ IsSeq(y) /\ Len(y) = Len(s) /\ y[Len(s)] = f
                        /\ \A i \in 1 .. Len(s) - 1 : y[i] = s[i]
          BY <5>1, SeqSet
        <5> QED
          BY <4>1, <5>1
      <4> QED
        BY <4>1, <4>2
    <3>7. RecOK(L, cst[n], Until(L, cst, n))
      BY <1>2, <1>4 DEF ThreadOK, RecIn
    <3>8. f.k = cst[n].k /\ f.ci = cst[n].ci
      BY <3>5, <3>7, RecSame
    <3>9. \A y : RecOK(y, cst[n], Len(y.ci)) => RecOK(y, f, Len(y.ci))
      BY <3>5, RecSame
    <3> HIDE DEF z, cs
    <3>10. Last(cs) = cs[n]
      BY <3>2, <3>6 DEF Last
    <3> QED
      BY <3>1, <3>2, <3>3, <3>4, <3>6, <3>8, <3>9, <3>10
  <2>2. CASE ~isLua(L)
    BY <1>2, <1>3, <2>2 DEF Last
  <2> QED
    BY <2>1, <2>2
<1> HIDE DEF cs
<1>6. CASE x # 0
  <2>1. Go(th, t, M, cs)
    BY <1>1, <1>5, <1>6
  <2>2. \A i \in 1 .. Len(cst) : cst[i].t = t => cst[i].ci < Len(L.ci) - 1
    <3> SUFFICES ASSUME NEW i \in 1 .. n, cst[i].t = t PROVE cst[i].ci < lev[n] + x
      BY <1>2
    <3>1. lev[i] <= lev[n] /\ lev[i] \in Nat /\ lev[n] \in Nat /\ cst[i].ci = lev[i]
      BY <1>2
    <3> QED
      BY <1>6, <3>1
  <2>3. M = AfterCall(luaD_poscall(L, fr), Top(L).nresults)
    BY <1>4
  <2> HIDE DEF M
  <2>4. ThreadOK(M, cst, t) /\ (Top(M).open \/ M.top = Top(M).top)
    BY <1>3, <2>2, <2>3, BackInCaller
  <2>5. At(th, t, M, cs)
    BY <1>4, <1>5, <2>4, AtStep
  <2>6. LiveOK(M, cs, "none")
    BY <2>4 DEF LiveOK
  <2> QED
    BY <2>1, <2>5, <2>6, AtGo
<1>7. CASE x = 0
  <2> DEFINE e == cs[n]
  <2>1. FinishCall(t, P, cs)
    BY <1>1, <1>5, <1>7
  <2> HIDE DEF P, M
  <2>2. Len(L.ci) = cst[n].ci + 1
    BY <1>2, <1>7
  <2>3. P = luaD_poscall(L, fr)
    BY DEF P
  <2>4. ThreadOK(P, cst, t) => RecOK(P, e, Len(P.ci))
    <3>1. Until(P, cst, n) = Len(P.ci)
      BY <1>2 DEF Until
    <3> QED
      BY <1>2, <1>5, <3>1 DEF ThreadOK, RecIn
  <2>5. e.k = cst[n].k /\ e.ci = cst[n].ci /\ e = Last(cs)
    BY <1>5
  <2> HIDE DEF e
  <2>6. Ends(P, t, e)
    BY <2>2, <2>3, <2>4, <2>5, BackInC
  <2>7. CASE e.k # "resume"
    <3>1. Front(cs) = Front(cst)
      <4>1. /\ IsSeq(Front(cs)) /\ Len(Front(cs)) = n - 1
            /\ \A i \in 1 .. n - 1 : Front(cs)[i] = cs[i]
        <5>1. IsSeq(cs) /\ Len(cs) = n /\ Len(cs) > 0
          BY <1>2, <1>5
        <5> QED
          BY <5>1, SeqFront
      <4>2. /\ IsSeq(Front(cst)) /\ Len(Front(cst)) = n - 1
            /\ \A i \in 1 .. n - 1 : Front(cst)[i] = cst[i]
        <5>1. IsSeq(cst) /\ Len(cst) = n /\ Len(cst) > 0
          BY <1>2, <1>3
        <5> QED
          BY <5>1, SeqFront
      <4>3. \A i \in 1 .. Len(Front(cst)) : Front(cs)[i] = Front(cst)[i]
        BY <1>5, <4>1, <4>2
      <4> QED
        BY <4>1, <4>2, <4>3, SeqSame
    <3> QED
      BY <2>1, <2>5, <2>6, <2>7, <3>1, FinishData
  <2>8. CASE e.k = "resume"
    <3> DEFINE k == P.top - P.base
               b == P.top - k
    <3>1. EndResume(t, P, k)
      BY <2>1, <2>5, <2>8 DEF FinishCall
    <3>2. cst[n].k = "resume" /\ Mem(P) /\ P.status = "ok"
      <4>1. Mem(P)
        BY <2>6 DEF Ends, At, ThreadOK
      <4>2. P.status = "ok"
        BY <2>3 DEF Leaving, luaD_poscall
      <4> QED
        BY <2>5, <2>8, <4>1, <4>2
    <3>3. Len(P.ci) = 1
      <4>1. cst[n].ci = 1
        BY <1>2, <3>2 DEF Good, FramesOK
      <4> QED
        BY <2>5, <2>6, <4>1 DEF Ends
    <3>4. P.base = Top(P).base /\ Top(P).base <= P.top /\ P.base \in Nat /\ P.top \in Nat
      <4>1. 1 \in 1 .. Len(P.ci) /\ Top(P) = P.ci[1]
        BY <3>3 DEF Top
      <4>2. P.status # "yield" => P.base = Top(P).base
        BY <3>2 DEF Mem, WindowOK, Top
      <4> QED
        BY <3>2, <4>1, <4>2, MemFacts
    <3>5. k \in Nat /\ b = P.base
      BY <3>4
    <3>6. UpFree(P, P.base)
      <4> SUFFICES ASSUME NEW u \in Ups(P) PROVE FALSE
        BY DEF UpFree
      <4>1. PICK j \in 1 .. Len(P.ci) : Owns(P, j, u)
        BY <3>2 DEF Mem, Owned
      <4>2. P.ci[1].lua
        BY <3>3, <4>1 DEF Owns
      <4>3. P.ci[1] = L.ci[1] /\ ~L.ci[1].lua
        <5> DEFINE m == Len(L.ci) - 1
        <5>1. P.ci[m] = L.ci[m] /\ Len(P.ci) = m
          <6>1. m = Len(L.ci) - 1
            OBVIOUS
          <6> HIDE DEF m
          <6> QED
            BY <2>3, <6>1, LeavingFacts
        <5> QED
          BY <3>3, <5>1 DEF Leaving
      <4> QED
        BY <4>2, <4>3
    <3> HIDE DEF k, b
    <3> QED
      BY <3>1, <3>2, <3>4, <3>5, <3>6, EndResumeData DEF b
  <2> QED
    BY <2>7, <2>8
<1> QED
  BY <1>6, <1>7

(* The function that runs returns from state L: its luaV_execute runs x    *)
(* Lua functions more, or it is a C function above x of them.              *)
Exits(t, L, fr, x, lev) ==
  /\ pend = "none" /\ cst # <<>> /\ t = Cur(cst) /\ cst[Len(cst)].k # "hook"
  /\ Leaving(L, t, fr) /\ x \in Nat /\ Len(L.ci) = lev[Len(cst)] + x + 1
  /\ cst[Len(cst)].nexec = IF isLua(L) THEN x + 1 ELSE x
  /\ L.nCcalls = th[t].nCcalls /\ L.allowhook = th[t].allowhook
  /\ Return(t, L, fr)

(* OP_RETURN.                                                              *)
LEMMA ReturnOpExits ==
  ASSUME NEW lev, Good(th, cst, pend, lev), Data(th, cst, pend), NEW t,
         NEW r \in Slot, NEW b \in 0 .. 2, OP_RETURN(t, r, b)
  PROVE  \E L, x : Exits(t, L, r, x, lev)
<1> DEFINE g == Top(th[t])
           base == g.base
           K == luaF_close(th[t], base)
           z == r + b - 1
           L == IF b = 0 THEN K ELSE CutTo(K, z)
           n == Len(cst)
           x == cst[n].nexec - 1
<1>1. /\ LuaRuns(t)
      /\ r \in Registers(luaF_close(th[t], Frame(th[t]).base))
      /\ IF Frame(luaF_close(th[t], Frame(th[t]).base)).open
         THEN b = 0 /\ r <= luaF_close(th[t], Frame(th[t]).base).top
         ELSE b > 0 /\ r + b - 1 <= luaF_close(th[t], Frame(th[t]).base).top
      /\ Return(t, IF b = 0 THEN luaF_close(th[t], Frame(th[t]).base)
                   ELSE CutTo(luaF_close(th[t], Frame(th[t]).base), r + b - 1), r)
  BY DEF OP_RETURN
<1>2. /\ At(th, t, th[t], cst) /\ pend = "none" /\ cst # <<>>
      /\ ThreadOK(th[t], cst, t) /\ Mem(th[t]) /\ IsSeq(cst) /\ th[t].status = "ok"
      /\ Frame(th[t]) = g /\ g.lua /\ cst[n].k # "hook"
      /\ Under(th[t], cst, t) /\ Above(cst, t, base)
      /\ base \in Nat /\ g.func \in Nat /\ g.func < base /\ base <= th[t].top
      /\ th[t].top \in Nat /\ th[t].top <= Slots /\ StateOK(th[t]) /\ ChainOK(cst)
  BY <1>1, LuaAt
<1>3. /\ r \in Registers(K) /\ Return(t, L, r)
      /\ IF Frame(K).open THEN b = 0 /\ r <= K.top ELSE b > 0 /\ z <= K.top
  BY <1>1, <1>2
<1>4. /\ ThreadOK(K, cst, t) /\ Top(K) = g /\ UpFree(K, base)
      /\ K.top = th[t].top /\ K.ci = th[t].ci /\ K.status = "ok"
  <2>1. base \in Int
    BY <1>2
  <2>2. DOMAIN th[t] = Fields /\ Sorted(th[t].openupval)
    BY <1>2 DEF Mem
  <2> HIDE DEF base, g
  <2>3. K.status = th[t].status
    BY <2>1, <2>2, CloseFacts
  <2>4. ThreadOK(th[t], cst, t) /\ IsSeq(cst)
    BY <1>2
  <2>5. /\ ThreadOK(luaF_close(th[t], base), cst, t)
        /\ Top(luaF_close(th[t], base)) = Top(th[t])
        /\ UpFree(luaF_close(th[t], base), base)
        /\ luaF_close(th[t], base).top = th[t].top
        /\ luaF_close(th[t], base).ci = th[t].ci
    BY <2>1, <2>4, CloseThread
  <2>6. th[t].status = "ok"
    BY <1>2
  <2> HIDE DEF K
  <2>7. K = luaF_close(th[t], base)
    BY DEF K
  <2> QED
    BY <2>3, <2>5, <2>6, <2>7 DEF g
<1> HIDE DEF K
<1>5. /\ Mem(K) /\ Clean(K) /\ Frame(K) = g /\ r \in Nat /\ base <= r /\ Ups(K) \subseteq Nat
  <2>1. Mem(K) /\ Frame(K) = g
    BY <1>4, MemFacts DEF ThreadOK
  <2> QED
    BY <1>2, <1>3, <1>4, <2>1, MemFacts, UpsBelow, Sizes DEF Registers
<1>6. /\ ThreadOK(L, cst, t) /\ L.ci = th[t].ci /\ L.status = "ok" /\ r <= L.top
      /\ UpFree(L, base)
  <2>1. CASE b = 0
    BY <1>3, <1>4, <2>1
  <2>2. CASE b # 0
    <3>1. z \in Int /\ base <= z /\ z <= K.top /\ r <= z /\ base \in Int /\ K.top <= Slots
      BY <1>2, <1>3, <1>4, <1>5, <2>2
    <3>2. z <= Slots
      BY <1>2, <1>4, <3>1, Sizes
    <3> HIDE DEF z, base
    <3> DEFINE N == CutTo(K, z)
    <3>3. L = N
      BY <2>2
    <3>4. Edit(N, K, base) /\ N.top = z
      BY <1>5, <3>1, CutToEdit
    <3> HIDE DEF N, L
    <3>5. UpFree(K, z)
      BY <1>4, <1>5, <3>1 DEF UpFree
    <3>6. Top(K).base <= base
      BY <1>4, <3>1 DEF base
    <3>7. ThreadOK(N, cst, t)
      BY <1>2, <1>4, <3>1, <3>2, <3>4, <3>5, <3>6, EditThread
    <3>8. N.ci = K.ci /\ N.openupval = K.openupval /\ N.status = K.status
      BY <3>4 DEF Edit, Kept
    <3> QED
      BY <1>4, <3>1, <3>3, <3>4, <3>7, <3>8 DEF UpFree, Ups
  <2> QED
    BY <2>1, <2>2
<1> HIDE DEF L
<1>7. Len(L.ci) >= 2 /\ ~L.ci[1].lua /\ isLua(L) /\ Top(L) = g
  <2>1. ~th[t].ci[1].lua /\ Len(th[t].ci) \in Nat /\ Len(th[t].ci) >= 1
    BY <1>2, MemFacts DEF StateOK
  <2>2. th[t].ci[Len(th[t].ci)].lua
    BY <1>2 DEF Top
  <2>3. Top(L) = g
    BY <1>6 DEF Top
  <2>4. Frame(L) = Top(L)
    BY <1>6, MemFacts DEF ThreadOK
  <2> QED
    BY <1>2, <1>6, <2>1, <2>2, <2>3, <2>4 DEF isLua
<1>8. Leaving(L, t, r)
  <2>1. Under(L, cst, t)
    BY <1>2, <1>6 DEF Under
  <2>2. UpFree(L, Top(L).func)
    BY <1>6, <1>7, UpsBelow DEF ThreadOK
  <2> QED
    BY <1>2, <1>5, <1>6, <1>7, <2>1, <2>2 DEF Leaving
<1>9. x \in Nat /\ cst[n].nexec = x + 1 /\ Len(L.ci) = lev[n] + x + 1
  <2>1. Now(th, t, th[t], cst, "none", lev) /\ Free(th[t], cst, lev)
    BY <1>1, LuaRunsFacts
  <2>2. cst[n].nexec \in Nat /\ cst[n].nexec >= 1 /\ lev[n] \in Nat
    BY <2>1, FreeFacts
  <2> QED
    BY <1>6, <2>1, <2>2 DEF Free
<1> HIDE DEF x
<1>10. t = Cur(cst) /\ r \in Int
  BY <1>2, <1>5 DEF At
<1>11. L.nCcalls = th[t].nCcalls /\ L.allowhook = th[t].allowhook
  <2>1. StackOnly(K, th[t])
    BY <1>2, StackOps DEF Mem, K
  <2> HIDE DEF z
  <2>2. StackOnly(CutTo(K, z), K)
    BY <2>1, StackOps DEF StackOnly
  <2>3. StackOnly(L, th[t])
    BY <2>1, <2>2, StackTrans DEF L
  <2> QED
    BY <2>3 DEF StackOnly, SameSettings
<1> QED
  BY <1>2, <1>3, <1>7, <1>8, <1>9, <1>10, <1>11 DEF Exits

(* The return of a C function.                                             *)
LEMMA CReturnExits ==
  ASSUME NEW lev, Good(th, cst, pend, lev), Data(th, cst, pend), NEW t,
         NEW k \in 0 .. 1, CReturn(t, k)
  PROVE  \E L, fr, x : Exits(t, L, fr, x, lev)
<1> DEFINE L == th[t]
           fr == L.top - k
           n == Len(cst)
           x == cst[n].nexec
<1>1. /\ CRuns(t) /\ ~InHook /\ Len(L.ci) > 1 /\ k <= L.top - L.base
      /\ Return(t, L, fr)
  BY DEF CReturn
<1>2. /\ At(th, t, L, cst) /\ pend = "none" /\ ChainOK(cst)
      /\ ThreadOK(L, cst, t) /\ Mem(L) /\ IsSeq(cst) /\ L.status = "ok"
      /\ L.top \in Nat /\ L.top <= Slots /\ Top(L).base \in Nat /\ Top(L).base <= L.top
      /\ Top(L).lua => cst # <<>> /\ cst[Len(cst)].k = "hook"
      /\ InHook <=> (cst # <<>> /\ cst[Len(cst)].k = "hook")
      /\ StateOK(L) /\ Frame(L) = Top(L)
  BY <1>1, CAt
<1>3. /\ cst # <<>> /\ cst[n].k # "hook" /\ Len(L.ci) = lev[n] + x + 1
  BY <1>1, CFunction
<1>4. t = Cur(cst) /\ ~Top(L).lua /\ n \in Nat /\ n \in 1 .. n /\ cst[n].t = t
  BY <1>1, <1>2, <1>3, Levels DEF At, Cur
<1>5. x \in Nat
  BY <1>2, <1>4 DEF ChainOK, ActsOK, ActOK
<1>6. Leaving(L, t, fr)
  <2>1. /\ Top(L).func \in Nat /\ Top(L).func < Top(L).base /\ Len(L.ci) \in Nat
    <3>1. Len(L.ci) \in 1 .. Len(L.ci) /\ Top(L) = L.ci[Len(L.ci)]
      BY <1>2, MemFacts DEF Top
    <3> QED
      BY <1>2, <3>1, MemFacts
  <2>2. UpFree(L, Top(L).func)
    BY <1>2, <1>4, UpsBelow
  <2>3. Under(L, cst, t)
    BY <1>2, <1>3, <1>4, Below DEF Under
  <2>4. L.base = Top(L).base
    BY <1>2 DEF Mem, WindowOK, Top
  <2>5. Top(L).func <= fr /\ fr <= L.top /\ fr \in Int
    BY <1>1, <1>2, <2>1, <2>4
  <2> QED
    BY <1>1, <1>2, <2>1, <2>2, <2>3, <2>5 DEF Leaving, StateOK
<1>7. ~isLua(L)
  BY <1>2, <1>4 DEF isLua
<1> HIDE DEF x, fr, L
<1>8. cst[n].nexec = IF isLua(L) THEN x + 1 ELSE x
  BY <1>7 DEF x
<1> QED
  BY <1>1, <1>2, <1>3, <1>4, <1>5, <1>6, <1>8 DEF Exits, L

(* OP_RETURN.                                                              *)
LEMMA ReturnOpData ==
  ASSUME NEW lev, Good(th, cst, pend, lev), Data(th, cst, pend), NEW t,
         NEW r \in Slot, NEW b \in 0 .. 2, OP_RETURN(t, r, b)
  PROVE  Data(th', cst', pend')
<1>1. PICK L, x : Exits(t, L, r, x, lev)
  BY ReturnOpExits
<1> QED
  BY <1>1, ReturnData DEF Exits

(* The return of a C function.                                             *)
LEMMA CReturnData ==
  ASSUME NEW lev, Good(th, cst, pend, lev), Data(th, cst, pend), NEW t,
         NEW k \in 0 .. 1, CReturn(t, k)
  PROVE  Data(th', cst', pend')
<1>1. PICK L, fr, x : Exits(t, L, fr, x, lev)
  BY CReturnExits
<1> QED
  BY <1>1, ReturnData DEF Exits

-----------------------------------------------------------------------------
(* Errors that leave a thread                                              *)

(* luaD_seterrorobj leaves one value, the message.                         *)
LEMMA ErrorObjEdit ==
  ASSUME NEW L, Clean(L), NEW w \in Slot, w <= L.top, L.top - 1 \in Slot, NEW p
  PROVE  LET M == luaD_seterrorobj(L, p, w)
         IN Edit(M, L, w) /\ M.top = w + 1
<1> DEFINE msg == IF p = "ERRRUN" THEN L.stk[L.top - 1] ELSE Message
           S == SetSlot(L, w, msg)
           x == w + 1
           N == CutTo(S, x)
           M == luaD_seterrorobj(L, p, w)
<1>1. msg \in Value /\ w \in Int /\ L.top \in Int /\ DOMAIN L = Fields
      /\ L.stk \in [Slot -> Value] /\ x \in Int /\ x = w + 1
  BY Sizes DEF Clean
<1>2. M = [N EXCEPT !.top = x]
  BY DEF luaD_seterrorobj
<1> HIDE DEF msg, x
<1>3. /\ DOMAIN S = Fields /\ S.stk = [L.stk EXCEPT ![w] = msg] /\ S.top = L.top
      /\ S.ci = L.ci /\ S.base = L.base /\ S.openupval = L.openupval
      /\ S.status = L.status /\ S.errfunc = L.errfunc /\ S.allowhook = L.allowhook
  BY <1>1 DEF SetSlot, Fields
<1> HIDE DEF S
<1>4. /\ DOMAIN N = Fields /\ N.top = x
      /\ N.stk = [i \in Slot |-> IF x <= i /\ i < S.top THEN Nil ELSE S.stk[i]]
      /\ N.ci = S.ci /\ N.base = S.base /\ N.openupval = S.openupval
      /\ N.status = S.status /\ N.errfunc = S.errfunc /\ N.allowhook = S.allowhook
  BY <1>3 DEF CutTo, SetNil, Fields
<1> HIDE DEF N
<1>5. /\ DOMAIN M = Fields /\ M.top = x /\ M.stk = N.stk
      /\ M.ci = N.ci /\ M.base = N.base /\ M.openupval = N.openupval
      /\ M.status = N.status /\ M.errfunc = N.errfunc /\ M.allowhook = N.allowhook
  BY <1>2, <1>4 DEF Fields
<1> HIDE DEF M
<1>6. /\ M.stk \in [Slot -> Value] /\ \A i \in Slot : i < w => M.stk[i] = L.stk[i]
      /\ \A i \in Slot : i >= x => M.stk[i] = Nil
  <2>1. S.stk \in [Slot -> Value] /\ \A i \in Slot : i # w => S.stk[i] = L.stk[i]
    BY <1>1, <1>3
  <2>2. \A i \in Slot : i >= L.top => L.stk[i] = Nil
    BY DEF Clean, NilAbove
  <2>3. \A i \in Slot : i \in Nat
    BY Sizes
  <2>4. \A i \in Slot : S.stk[i] \in Value
    BY <2>1
  <2>5. \A i \in Slot : M.stk[i] = IF x <= i /\ i < L.top THEN Nil ELSE S.stk[i]
    BY <1>3, <1>4, <1>5
  <2>6. M.stk \in [Slot -> Value]
    BY <1>4, <1>5, <2>4, Sizes
  <2>7. ASSUME NEW i \in Slot, i < w PROVE M.stk[i] = L.stk[i]
    <3>1. i \in Nat /\ w \in Int /\ x = w + 1
      BY <1>1, <2>3
    <3>2. i # w /\ ~(x <= i)
      BY <2>7, <3>1
    <3> QED
      BY <2>1, <2>5, <3>2
  <2>8. ASSUME NEW i \in Slot, i >= x PROVE M.stk[i] = Nil
    <3>1. i \in Nat /\ w \in Int /\ x = w + 1 /\ L.top \in Int
      BY <1>1, <2>3
    <3>2. i # w
      BY <2>8, <3>1
    <3>3. S.stk[i] = L.stk[i]
      BY <2>1, <3>2
    <3>4. CASE i < L.top
      BY <2>5, <2>8, <3>4
    <3>5. CASE i >= L.top
      BY <2>2, <2>5, <3>3, <3>5
    <3> DEFINE top == L.top
    <3> HIDE DEF top
    <3>6. i < top \/ i >= top
      BY <3>1 DEF top
    <3> QED
      BY <3>4, <3>5, <3>6 DEF top
  <2> QED
    BY <2>6, <2>7, <2>8
<1>7. Kept(M, L)
  BY <1>3, <1>4, <1>5 DEF Kept
<1>8. Over(M, L, w)
  BY <1>1, <1>5, <1>6 DEF Over, NilAbove
<1> QED
  BY <1>1, <1>5, <1>7, <1>8 DEF Edit, M

(* Changing the top of a frame keeps a thread's stack in order.            *)
LEMMA NewTop ==
  ASSUME NEW N, Mem(N), NEW f \in FrameType, SameFrame(f, Top(N)), f.base <= f.top,
         f.open = Top(N).open, UpFree(N, f.top)
  PROVE  LET K == SetFrame(N, f)
         IN Mem(K) /\ Top(K) = f /\ K.top = N.top /\ K.openupval = N.openupval
<1> DEFINE C == <<>>
           t == Main
           K == SetFrame(N, f)
<1>1. ThreadOK(N, C, t) /\ Settled(N, C, t) /\ IsSeq(C)
  BY DEF ThreadOK, Settled, IsSeq
<1>2. K.top = N.top /\ K.openupval = N.openupval
  BY SetFrameFacts
<1> HIDE DEF C
<1>3. ThreadOK(K, C, t) /\ Top(K) = f
  BY <1>1, FrameThread
<1> QED
  BY <1>2, <1>3 DEF ThreadOK

(* The thread that an error has ended, with the message on its stack.      *)
LEMMA DeadThread ==
  ASSUME NEW L, Mem(L), L.status = "ok", L.top < Slots, NEW w, w = L.top, NEW p,
         NEW L1, L1 = luaD_seterrorobj(L, p, w)
  PROVE  LET K == SetFrame([L1 EXCEPT !.status = "dead", !.nCcalls = @ - 1],
                           [Frame(L1) EXCEPT !.top = L1.top])
         IN Mem(K) /\ K.top = w + 1 /\ Top(K).base <= w /\ UpFree(K, w) /\ w \in Nat
<1> DEFINE C == <<>>
           t == Main
           N == [L1 EXCEPT !.status = "dead", !.nCcalls = @ - 1]
           f == [Frame(L1) EXCEPT !.top = L1.top]
           K == SetFrame(N, f)
<1>3. /\ Clean(L) /\ w \in Nat /\ w \in Slot /\ w - 1 \in Slot /\ w <= Slots
      /\ Top(L).base <= w /\ Top(L).base \in Nat /\ UpFree(L, w) /\ Ups(L) \subseteq Nat
      /\ Top(L).top \in Nat /\ Top(L) \in FrameType
  <2>1. /\ Clean(L) /\ L.top \in Nat /\ L.top >= 2 /\ L.top <= Slots
        /\ Top(L).base <= L.top /\ UpFree(L, L.top) /\ Ups(L) \subseteq Nat
    BY MemFacts, UpsBelow
  <2>2. Len(L.ci) \in 1 .. Len(L.ci) /\ Top(L) = L.ci[Len(L.ci)]
    BY MemFacts DEF Top
  <2>3. Top(L).base \in Nat /\ Top(L).top \in Nat /\ Top(L) \in FrameType
    BY <2>2, MemFacts
  <2> QED
    BY <2>1, <2>3, Sizes DEF Slot
<1>4. Edit(L1, L, w) /\ L1.top = w + 1
  <2>1. w <= L.top /\ L.top - 1 \in Slot
    BY <1>3
  <2> QED
    BY <1>3, <2>1, ErrorObjEdit
<1>5. ThreadOK(L, C, t) /\ IsSeq(C) /\ Above(C, t, w)
  BY DEF ThreadOK, Above, IsSeq
<1>6. w \in Int /\ L1.top \in Int /\ L1.top <= Slots /\ UpFree(L, L1.top)
  BY <1>3, <1>4, Sizes DEF UpFree
<1>7. ThreadOK(L1, C, t) /\ Top(L1) = Top(L)
  <2> HIDE DEF C
  <2> QED
    BY <1>3, <1>4, <1>5, <1>6, EditThread
<1>8. /\ Mem(L1) /\ L1.status = "ok" /\ L1.openupval = L.openupval
      /\ Frame(L1) = Top(L)
  BY <1>4, <1>7, MemFacts DEF ThreadOK, Edit, Kept
<1>9. /\ DOMAIN N = Fields /\ N.stk = L1.stk /\ N.top = L1.top /\ N.ci = L1.ci
      /\ N.base = L1.base /\ N.openupval = L1.openupval /\ N.status = "dead"
      /\ N.errfunc = L1.errfunc /\ N.allowhook = L1.allowhook
  BY <1>8 DEF Mem, Fields
<1> HIDE DEF N
<1>10. Mem(N) /\ Top(N) = Top(L)
  <2>1. WindowOK(N)
    BY <1>8, <1>9 DEF WindowOK, Mem
  <2>2. NilAbove(N)
    BY <1>8, <1>9 DEF NilAbove, Mem
  <2>3. Owned(N)
    <3>1. Owned(L1) /\ Ups(N) = Ups(L1)
      BY <1>8, <1>9 DEF Mem, Ups
    <3>2. \A j, u : Owns(L1, j, u) => Owns(N, j, u)
      BY <1>9 DEF Owns
    <3> QED
      BY <1>9, <3>1, <3>2 DEF Owned
  <2> QED
    BY <1>7, <1>8, <1>9, <2>1, <2>2, <2>3 DEF Mem, Top
<1>11. /\ f \in FrameType /\ SameFrame(f, Top(N)) /\ f.base <= f.top /\ f.open = Top(N).open
       /\ f.top = N.top /\ f.base = Top(L).base
  <2>1. L1.top \in Slot /\ Top(L).base <= L1.top
    BY <1>3, <1>4, <1>6 DEF Slot
  <2> QED
    BY <1>3, <1>8, <1>9, <1>10, <2>1 DEF FrameType, SameFrame
<1> HIDE DEF f
<1>12. UpFree(N, f.top)
  BY <1>8, <1>9, <1>6, <1>11 DEF UpFree, Ups
<1>14. Mem(K) /\ Top(K) = f /\ K.top = N.top /\ K.openupval = N.openupval
  BY <1>10, <1>11, <1>12, NewTop
<1> HIDE DEF K
<1>15. Mem(K) /\ K.top = w + 1 /\ Top(K).base <= w /\ UpFree(K, w)
  <2>1. UpFree(K, w)
    BY <1>3, <1>8, <1>9, <1>14 DEF UpFree, Ups
  <2> QED
    BY <1>3, <1>4, <1>9, <1>11, <1>14, <2>1
<1> QED
  BY <1>3, <1>15 DEF K, N, f

(* lua_resume catches: the thread is dead, the message goes to the resumer. *)
LEMMA ResumeCatchData ==
  ASSUME NEW lev, Good(th, cst, pend, lev), Data(th, cst, pend), cst # <<>>,
         NEW t, t = Cur(cst), NEW d \in 1 .. Len(cst), cst[d].k = "resume", cst[d].t = t,
         NEW from, from = cst[d].from, th[from].top < stack_last,
         NEW K, NEW w, Mem(K), K.top = w + 1, Top(K).base <= w, UpFree(K, w), w \in Nat,
         NEW n, n = 1, NEW x, x = lua_xmove(K, th[from], n)
  PROVE  Data([th EXCEPT ![t] = x.from, ![from] = x.to], SubSeq(cst, 1, d - 1), "none")
<1> DEFINE D == SubSeq(cst, 1, d - 1)
           F == th[from]
<1>1. Resumer(t, d, D, from)
  BY ResumerFacts
<1> HIDE DEF D
<1>2. /\ ThreadOK(F, D, from) /\ ~Top(F).lua /\ F.top + 1 <= Slots
  <2>1. ThreadOK(th[from], D, from) /\ ~Top(th[from]).lua
    BY <1>1 DEF Resumer
  <2>2. th[from].top \in Nat
    BY <2>1, MemFacts DEF ThreadOK
  <2> QED
    BY <2>1, <2>2, Sizes
<1>3. w = K.top - n /\ n \in Nat /\ F.top + n <= Slots
  BY <1>2
<1>4. x = lua_xmove(K, F, n)
  OBVIOUS
<1> HIDE DEF F
<1>5. Data([th EXCEPT ![t] = x.from, ![from] = x.to], D, "none")
  BY <1>1, <1>2, <1>3, <1>4, HandBack
<1> QED
  BY <1>5 DEF D

-----------------------------------------------------------------------------
(* Errors that a protected call catches                                    *)

(* The fields that luaD_pcall restores.                                    *)
LEMMA RecoverFields ==
  ASSUME NEW L, NEW e, NEW p, NEW A, A = luaF_close(L, e.oldtop), DOMAIN A = Fields,
         NEW B, B = luaD_seterrorobj(A, p, e.oldtop), DOMAIN B = Fields, B.ci = L.ci
  PROVE  LET M == Recover(L, e, p)
         IN /\ DOMAIN M = Fields /\ M.stk = B.stk /\ M.top = B.top
            /\ M.ci = SubSeq(L.ci, 1, e.ci) /\ M.base = L.ci[e.ci].base
            /\ M.openupval = B.openupval /\ M.status = B.status
            /\ M.errfunc = e.errfunc /\ M.allowhook = e.allowhook
            /\ M.nCcalls = e.nCcalls
<1> DEFINE kept == L.size_ci > LUAI_MAXCALLS /\ e.ci >= LUAI_MAXCALLS
           R == [B EXCEPT !.nCcalls = e.nCcalls, !.ci = SubSeq(@, 1, e.ci),
                          !.base = B.ci[e.ci].base, !.allowhook = e.allowhook,
                          !.errfunc = e.errfunc, !.kept = kept]
           M == restore_stack_limit(R)
<1>1. Recover(L, e, p) = M
  BY DEF Recover
<1> HIDE DEF kept
<1>2. /\ DOMAIN R = Fields /\ R.ci = SubSeq(L.ci, 1, e.ci) /\ R.base = L.ci[e.ci].base
      /\ R.stk = B.stk /\ R.top = B.top /\ R.openupval = B.openupval
      /\ R.status = B.status /\ R.errfunc = e.errfunc /\ R.allowhook = e.allowhook
      /\ R.nCcalls = e.nCcalls
  BY DEF Fields
<1> HIDE DEF R
<1>3. /\ DOMAIN M = Fields /\ M.stk = R.stk /\ M.top = R.top /\ M.ci = R.ci
      /\ M.base = R.base /\ M.openupval = R.openupval /\ M.status = R.status
      /\ M.errfunc = R.errfunc /\ M.allowhook = R.allowhook /\ M.nCcalls = R.nCcalls
  BY <1>2 DEF restore_stack_limit, Fields
<1> HIDE DEF M
<1> QED
  BY <1>1, <1>2, <1>3

(* The stack goes down to the frame that called lua_pcall.                 *)
LEMMA RecoverDown ==
  ASSUME NEW L, Mem(L), L.status = "ok", NEW e, NEW m, m = e.ci, m \in 1 .. Len(L.ci),
         NEW w, w = e.oldtop, w \in Slot, w < Slots, w <= L.top, L.ci[m].base <= w,
         m < Len(L.ci) => w <= L.ci[m + 1].func, e.errfunc \in 0 .. Slots, NEW p
  PROVE  LET M == Recover(L, e, p)
         IN /\ Down(M, L, m, w) /\ M.ci[m] = L.ci[m] /\ Top(M) = L.ci[m]
            /\ M.allowhook = e.allowhook
            /\ \A i \in Slot : i < w => M.stk[i] = L.stk[i]
            /\ M.base = L.ci[m].base /\ M.errfunc = e.errfunc /\ M.nCcalls = e.nCcalls
            /\ Len(M.ci) = m
<1> DEFINE A == luaF_close(L, w)
           B == luaD_seterrorobj(A, p, w)
           M == Recover(L, e, p)
<1>1. /\ Clean(L) /\ L.top \in Nat /\ L.top <= Slots /\ L.top >= 2 /\ w \in Int /\ w \in Nat
      /\ DOMAIN L = Fields /\ Sorted(L.openupval) /\ L.ci[m] \in FrameType
      /\ L.ci[m].base \in Nat /\ L.ci[m].top \in Nat /\ L.ci[m].base <= L.ci[m].top
      /\ L.ci[m].base \in 2 .. Slots /\ Slots \in Nat
  <2>1. /\ L.ci[m].func \in Nat /\ 1 <= L.ci[m].func /\ L.ci[m].func < L.ci[m].base
        /\ L.ci[m].base <= L.ci[m].top /\ L.ci[m].top <= Slots
        /\ L.ci[m].base \in Nat /\ L.ci[m].top \in Nat /\ L.ci[m] \in FrameType
    BY MemFacts
  <2>2. Slots \in Nat /\ w \in Nat
    BY Sizes
  <2>3. Clean(L) /\ L.top \in Nat /\ L.top <= Slots /\ L.top >= 2
    BY MemFacts
  <2>4. DOMAIN L = Fields /\ Sorted(L.openupval)
    BY DEF Mem
  <2> DEFINE base == L.ci[m].base
             func == L.ci[m].func
             ctop == L.ci[m].top
  <2> HIDE DEF base, func, ctop
  <2>5. base \in 2 .. Slots
    <3>1. func \in Nat /\ 1 <= func /\ func < base /\ base <= ctop /\ ctop <= Slots
          /\ base \in Nat /\ ctop \in Nat
      BY <2>1 DEF base, func, ctop
    <3> QED
      BY <2>2, <3>1
  <2> QED
    BY <2>1, <2>2, <2>3, <2>4, <2>5 DEF base
<1>2. /\ Sorted(A.openupval) /\ Ups(A) \subseteq Ups(L) /\ UpFree(A, w)
      /\ DOMAIN A = Fields /\ A.stk = L.stk /\ A.top = L.top
      /\ A.ci = L.ci /\ A.status = L.status
  BY <1>1, CloseFacts
<1>3. A = luaF_close(L, e.oldtop)
  OBVIOUS
<1> HIDE DEF A
<1>4. Clean(A) /\ w <= A.top /\ A.top - 1 \in Slot
  <2>1. L.top - 1 \in Slot
    BY <1>1 DEF Slot
  <2> QED
    BY <1>1, <1>2, <2>1 DEF Clean, NilAbove
<1>5. Edit(B, A, w) /\ B.top = w + 1
  BY <1>4, ErrorObjEdit
<1>6. B = luaD_seterrorobj(A, p, e.oldtop)
  OBVIOUS
<1> HIDE DEF B
<1>7. /\ DOMAIN B = Fields /\ B.ci = L.ci /\ B.openupval = A.openupval
      /\ B.status = "ok" /\ B.stk \in [Slot -> Value] /\ NilAbove(B)
      /\ \A i \in Slot : i < w => B.stk[i] = L.stk[i]
  BY <1>2, <1>5 DEF Edit, Kept, Over
<1>8. /\ DOMAIN M = Fields /\ M.stk = B.stk /\ M.top = w + 1
      /\ M.ci = SubSeq(L.ci, 1, m) /\ M.base = L.ci[m].base
      /\ M.openupval = A.openupval /\ M.status = "ok"
      /\ M.errfunc = e.errfunc /\ M.allowhook = e.allowhook /\ M.nCcalls = e.nCcalls
  BY <1>2, <1>3, <1>5, <1>6, <1>7, RecoverFields
<1> HIDE DEF M
<1>9. /\ M.ci \in Seq(FrameType) /\ Len(M.ci) = m /\ m \in Nat
      /\ \A j \in 1 .. m : M.ci[j] = L.ci[j]
  <2>1. L.ci \in Seq(FrameType) /\ IsSeq(L.ci) /\ Len(L.ci) \in Nat
    BY MemFacts DEF Mem, Nested
  <2>2. m \in 0 .. Len(L.ci)
    BY <2>1
  <2>3. /\ IsSeq(M.ci) /\ Len(M.ci) = m /\ \A j \in 1 .. m : M.ci[j] = L.ci[j]
    BY <1>8, <2>1, <2>2, SeqCut
  <2>4. M.ci \in Seq(FrameType)
    BY <1>8, <2>1, <2>2
  <2> QED
    BY <2>2, <2>3, <2>4
<1>10. /\ Sorted(M.openupval) /\ Ups(M) \subseteq Ups(L) /\ UpFree(M, w)
       /\ NilAbove(M) /\ M.top \in Int /\ M.top <= Slots /\ w <= M.top
  <2>1. Sorted(M.openupval) /\ Ups(M) = Ups(A)
    BY <1>2, <1>8 DEF Ups
  <2>2. NilAbove(M)
    BY <1>5, <1>7, <1>8 DEF NilAbove
  <2>3. M.top \in Int /\ M.top <= Slots /\ w <= M.top
    BY <1>1, <1>8
  <2> QED
    BY <1>2, <2>1, <2>2, <2>3 DEF UpFree
<1>11. UpFree(M, M.top) /\ (m < Len(L.ci) => UpFree(M, L.ci[m + 1].func))
  <2>1. \A u \in Ups(M) : u \in Nat /\ u < w
    <3>1. Ups(L) \subseteq Nat
      BY UpsBelow
    <3> QED
      BY <1>10, <3>1 DEF UpFree
  <2>2. UpFree(M, M.top)
    BY <1>1, <1>8, <2>1 DEF UpFree
  <2>3. ASSUME m < Len(L.ci) PROVE UpFree(M, L.ci[m + 1].func)
    <3>1. m + 1 \in 1 .. Len(L.ci)
      BY <2>3, MemFacts
    <3>2. L.ci[m + 1].func \in Nat
      BY <3>1, MemFacts
    <3> QED
      BY <1>1, <2>1, <2>3, <3>2 DEF UpFree
  <2> QED
    BY <2>2, <2>3
<1>12. m \in 1 .. m /\ \A j \in 1 .. m - 1 : j \in 1 .. m
  BY <1>9
<1>13. Down(M, L, m, w)
  <2>1. DOMAIN M = Fields /\ M.ci \in Seq(FrameType) /\ Len(M.ci) = m
    BY <1>8, <1>9
  <2>2. /\ \A j \in 1 .. m - 1 : M.ci[j] = L.ci[j]
        /\ M.ci[m] = L.ci[m] /\ SameFrame(M.ci[m], L.ci[m])
        /\ M.ci[m].base <= M.ci[m].top /\ M.ci[m].top >= L.ci[m].top
    <3>1. \A j \in 1 .. m - 1 : M.ci[j] = L.ci[j]
      BY <1>9, <1>12
    <3>2. M.ci[m] = L.ci[m]
      BY <1>9, <1>12
    <3>3. L.ci[m].base <= L.ci[m].top /\ L.ci[m].top \in Nat
      BY <1>1
    <3>4. SameFrame(L.ci[m], L.ci[m])
      BY SameFrameRefl
    <3> QED
      BY <3>1, <3>2, <3>3, <3>4
  <2>3. M.stk \in [Slot -> Value] /\ \A i \in Slot : i < w => M.stk[i] = L.stk[i]
    BY <1>7, <1>8
  <2>4. /\ M.base \in 2 .. Slots /\ M.base = L.ci[m].base /\ M.status # "yield"
        /\ M.errfunc \in 0 .. Slots
    BY <1>1, <1>8
  <2> QED
    BY <1>1, <1>10, <1>11, <2>1, <2>2, <2>3, <2>4 DEF Down
<1>14. Top(M) = L.ci[m] /\ M.ci[m] = L.ci[m]
  BY <1>9, <1>12 DEF Top
<1> QED
  BY <1>7, <1>8, <1>9, <1>13, <1>14 DEF M

(* The frames below are those that the callers of lua_pcall know.          *)
LEMMA CaughtThread ==
  ASSUME NEW lev, Good(th, cst, pend, lev), Data(th, cst, pend), cst # <<>>,
         NEW t, t = Cur(cst), NEW d \in 1 .. Len(cst), cst[d].k = "pcall",
         \A i \in d .. Len(cst) : cst[i].t = t,
         NEW D, D = SubSeq(cst, 1, d - 1), NEW L, L = th[t],
         NEW M, Down(M, L, cst[d].ci, cst[d].oldtop),
         M.ci[cst[d].ci] = L.ci[cst[d].ci], M.allowhook = cst[d].allowhook
  PROVE  ThreadOK(M, D, t)
<1> DEFINE m == cst[d].ci
           w == cst[d].oldtop
<1>1. /\ ThreadOK(L, cst, t) /\ Mem(L) /\ ChainOK(cst) /\ IsSeq(cst) /\ Len(cst) \in Nat
      /\ FloorsOK(cst) /\ HooksNest(cst)
  BY DataAt DEF At, Data
<1>2. d \in Nat /\ d >= 1 /\ d <= Len(cst) /\ d - 1 \in 0 .. Len(cst) /\ cst[d].t = t
      /\ Len(cst) \in 1 .. Len(cst)
  BY <1>1
<1>3. /\ Len(D) = d - 1 /\ \A i \in 1 .. d - 1 : D[i] = cst[i] /\ i \in 1 .. Len(cst)
  BY <1>1, <1>2, CutOrders
<1>4. Mem(M) /\ Len(M.ci) = m /\ m \in Nat
      /\ \A j \in 1 .. m : j < m => M.ci[j] = L.ci[j]
  BY <1>1, DownMem, DownFrames
<1>5. /\ \A i \in 1 .. Len(cst) : cst[i].ci = lev[i] /\ lev[i] \in Nat
      /\ \A i, j \in 1 .. Len(cst) :
           (i <= j /\ cst[i].t = cst[j].t) => lev[i] <= lev[j]
  <2>1. t = cst[Len(cst)].t
    BY DEF Cur
  <2> QED
    BY <2>1, Levels
<1>6. ASSUME NEW i \in 1 .. d - 1, cst[i].t = t
      PROVE  RecIn(M, D, i)
  <2> DEFINE e == cst[i]
  <2>1. i \in 1 .. Len(cst) /\ i + 1 \in 1 .. Len(cst) /\ i < d /\ i + 1 <= d
        /\ i \in Nat /\ i >= 1 /\ d \in 1 .. Len(cst) /\ D[i] = e
        /\ d \in i + 1 .. Len(cst)
    BY <1>2, <1>3
  <2>2. RecIn(L, cst, i)
    BY <1>1, <1>6, <2>1 DEF ThreadOK
  <2>3. cst[i + 1].t = t
    <3>1. cst[i].t = cst[d].t /\ i + 1 \in i .. d
      BY <1>2, <1>6, <2>1
    <3> QED
      BY <1>1, <1>6, <2>1, <3>1 DEF ChainOK, RunsOK
  <2>4. Until(L, cst, i) = cst[i + 1].ci
    BY <1>2, <1>6, <2>1, <2>3 DEF Until
  <2>5. Until(M, D, i) = cst[i + 1].ci
    <3>1. CASE i < d - 1
      <4>1. i + 1 \in 1 .. d - 1 /\ i < Len(D) /\ D[i + 1] = cst[i + 1]
        BY <1>2, <1>3, <2>1, <3>1
      <4> QED
        BY <1>6, <2>1, <2>3, <4>1 DEF Until
    <3>2. CASE i = d - 1
      <4>1. ~(i < Len(D)) /\ i + 1 = d
        BY <1>2, <1>3, <3>2
      <4> QED
        BY <1>4, <4>1 DEF Until
    <3> QED
      BY <1>2, <3>1, <3>2
  <2>6. cst[i + 1].ci \in Int /\ cst[i + 1].ci <= m /\ e.ci <= m /\ e.ci \in Nat
    BY <1>2, <1>5, <1>6, <2>1, <2>3
  <2>7. Guarded(e) => Floor(e) <= w
    <3>1. Guarded(cst[d]) /\ Floor(cst[d]) = w
      BY DEF Guarded, Floor
    <3> QED
      BY <1>1, <1>2, <1>6, <2>1, <3>1 DEF FloorsOK
  <2>8. RecOK(L, e, cst[i + 1].ci)
    BY <2>2, <2>4 DEF RecIn
  <2>9. RecOK(M, e, cst[i + 1].ci)
    BY <1>1, <2>6, <2>7, <2>8, DownRec
  <2>10. e.k = "hook" => ~M.allowhook
    BY <1>1, <1>2, <1>6, <2>1 DEF HooksNest
  <2>11. M.ci[e.ci] = L.ci[e.ci]
    <3>1. e.ci \in 1 .. Len(L.ci)
      BY <2>8 DEF RecOK
    <3>2. e.ci \in 1 .. m /\ (e.ci < m \/ e.ci = m)
      BY <1>4, <2>6, <3>1
    <3>3. M.ci[m] = L.ci[m]
      OBVIOUS
    <3> HIDE DEF e, m
    <3> QED
      BY <1>4, <3>2, <3>3
  <2>12. e.k \in {"call", "pcall"} => ~L.ci[e.ci].lua \/ (i > 1 /\ cst[i - 1].k = "hook")
    BY <2>2 DEF RecIn
  <2>13. i > 1 => D[i - 1] = cst[i - 1]
    BY <1>2, <1>3, <2>1
  <2> HIDE DEF e
  <2> QED
    BY <2>1, <2>5, <2>9, <2>10, <2>11, <2>12, <2>13 DEF RecIn
<1> QED
  BY <1>3, <1>4, <1>6 DEF ThreadOK

(* lua_pcall catches an error.                                             *)
LEMMA PcallCatchData ==
  ASSUME NEW lev, Good(th, cst, pend, lev), Data(th, cst, pend), cst # <<>>,
         NEW t, t = Cur(cst), NEW d \in 1 .. Len(cst), cst[d].k = "pcall",
         \A i \in d .. Len(cst) : cst[i].t = t,
         NEW p
  PROVE  Data([th EXCEPT ![t] = Recover(th[t], cst[d], p)], SubSeq(cst, 1, d - 1), "none")
<1> DEFINE L == th[t]
           e == cst[d]
           m == e.ci
           w == e.oldtop
           D == SubSeq(cst, 1, d - 1)
           M == Recover(L, e, p)
<1>1. /\ At(th, t, L, cst) /\ L.status = "ok" /\ Mem(L) /\ ChainOK(cst)
      /\ IsSeq(cst) /\ Len(cst) \in Nat
  BY DataAt
<1>2. d \in Nat /\ d >= 1 /\ d <= Len(cst) /\ d - 1 \in 0 .. Len(cst) - 1 /\ e.t = t
      /\ (d - 1) + 1 = d
  BY <1>1
<1>3. RecIn(L, cst, d)
  BY <1>1, <1>2 DEF At, ThreadOK
<1>4. /\ m \in 1 .. Len(L.ci) /\ FloorOK(L, e) /\ PcallRec(L, e)
      /\ ~L.ci[m].lua \/ (d > 1 /\ cst[d - 1].k = "hook")
  <2>1. Guarded(e)
    BY DEF Guarded
  <2> HIDE DEF L
  <2> QED
    BY <1>3, <2>1 DEF RecIn, RecOK
<1>5. /\ w \in Slot /\ w < Slots /\ w <= L.top /\ L.ci[m].base <= w
      /\ e.errfunc \in 0 .. Slots
      /\ (m < Len(L.ci) => w <= L.ci[m + 1].func)
  <2>1. Floor(e) = w
    BY DEF Floor
  <2>2. w \in Slot /\ w < Slots /\ w <= L.top /\ e.errfunc \in 0 .. Slots
        /\ L.ci[m].base <= Low(e) /\ Low(e) <= w /\ Low(e) \in Slot
        /\ \A j \in m + 1 .. Len(L.ci) : w <= L.ci[j].func
    BY <1>4, <2>1 DEF FloorOK, PcallRec
  <2>3. L.ci[m].base \in Nat /\ Len(L.ci) \in Nat
    BY <1>1, <1>4, MemFacts
  <2> HIDE DEF L, m, w
  <2>4. Low(e) \in Nat /\ w \in Nat
    BY <2>2, Sizes
  <2>5. L.ci[m].base <= w
    BY <2>2, <2>3, <2>4
  <2>6. m < Len(L.ci) => m + 1 \in m + 1 .. Len(L.ci)
    BY <1>4, <2>3
  <2> QED
    BY <2>2, <2>5, <2>6
<1>6. /\ Down(M, L, m, w) /\ M.ci[m] = L.ci[m] /\ Top(M) = L.ci[m]
      /\ M.allowhook = e.allowhook
  <2>1. m = e.ci /\ w = e.oldtop
    OBVIOUS
  <2>2. e.errfunc \in 0 .. Slots
    BY <1>5
  <2> HIDE DEF L, e, m, w
  <2>3. /\ m \in 1 .. Len(L.ci) /\ w \in Slot /\ w < Slots /\ w <= L.top
        /\ L.ci[m].base <= w /\ (m < Len(L.ci) => w <= L.ci[m + 1].func)
    BY <1>4, <1>5
  <2> QED
    BY <1>1, <2>1, <2>2, <2>3, RecoverDown
<1> HIDE DEF M
<1>7. ThreadOK(M, D, t)
  <2> HIDE DEF L, D
  <2>1. D = SubSeq(cst, 1, d - 1) /\ L = th[t]
    BY DEF L, D
  <2> QED
    BY <1>6, <2>1, CaughtThread
<1>8. Len(D) = d - 1 /\ \A i \in 1 .. d - 1 : D[i] = cst[i]
  <2> HIDE DEF D
  <2>1. d - 1 \in 0 .. Len(cst)
    BY <1>1, <1>2
  <2> QED
    BY <1>1, <2>1, SeqCut DEF D
<1>9. t = Cur(D)
  <2> HIDE DEF D
  <2>1. CASE d = 1
    <3>1. D = <<>>
      BY <2>1 DEF D
    <3>2. e.t = Main
      BY <1>1, <1>2, <2>1 DEF ChainOK, HostOK
    <3> QED
      BY <1>2, <3>1, <3>2 DEF Cur
  <2>2. CASE d > 1
    <3>1. d - 1 \in 1 .. Len(cst) /\ d - 1 <= d /\ d - 1 \in 1 .. d - 1
          /\ \A n \in (d - 1) + 1 .. d : n = d
      BY <1>1, <1>2, <2>2
    <3>2. cst[d - 1].t = cst[d].t
      BY <1>1, <3>1 DEF ChainOK, RunsOK
    <3>3. D # <<>> /\ D[Len(D)] = cst[d - 1]
      BY <1>2, <1>8, <2>2, <3>1
    <3> QED
      BY <1>2, <3>2, <3>3 DEF Cur
  <2> QED
    BY <1>2, <2>1, <2>2
<1>10. At(th, t, M, D)
  BY <1>1, <1>2, <1>7, <1>9, AtCut
<1>11. LiveOK(M, D, "none")
  <2>1. ASSUME D # <<>>, D[Len(D)].k # "hook" PROVE ~Top(M).lua
    <3> HIDE DEF D, L, e, m
    <3>1. d > 1 => D[Len(D)] = cst[d - 1]
      BY <1>2, <1>8
    <3> QED
      BY <1>4, <1>6, <2>1, <3>1
  <2> QED
    BY <2>1 DEF LiveOK
<1>12. MessageOK(M, D, t, "none")
  BY DEF MessageOK
<1> HIDE DEF D, L
<1>13. Data([th EXCEPT ![t] = M], D, "none")
  BY <1>10, <1>11, <1>12, AtData
<1> QED
  BY <1>13 DEF M, D, L

(* There is an error, and C code waits for it.                              *)
LEMMA ErrorPending ==
  ASSUME NEW lev, Good(th, cst, pend, lev), luaD_throw
  PROVE  pend \in {"ERRRUN", "ERRERR", "ERRMEM"} /\ cst # <<>>
<1>1. pend \in {"ERRRUN", "ERRERR", "ERRMEM"}
  BY Zenon DEF luaD_throw
<1>2. cst = <<>> => pend = "none"
  BY DEF Good
<1> QED
  BY <1>1, <1>2

(* An error is caught by a protected call or a resume of the same thread.  *)
LEMMA Caught ==
  ASSUME NEW lev, Good(th, cst, pend, lev), luaD_throw
  PROVE  LET t == Cur(cst)
             d == CHOOSE i \in 1 .. Len(cst) :
                    /\ cst[i].k \in {"pcall", "resume"}
                    /\ \A j \in i + 1 .. Len(cst) : cst[j].k \notin {"pcall", "resume"}
         IN /\ Current = t
            /\ d \in 1 .. Len(cst) /\ cst[d].k \in {"pcall", "resume"} /\ Len(cst) \in Nat
            /\ \A i \in d .. Len(cst) : cst[i].t = t
<1> DEFINE d == CHOOSE i \in 1 .. Len(cst) :
                  /\ cst[i].k \in {"pcall", "resume"}
                  /\ \A j \in i + 1 .. Len(cst) : cst[j].k \notin {"pcall", "resume"}
<1>1. cst # <<>>
  BY ErrorPending
<1>2. Current = Cur(cst)
  BY CurrentThread
<1>3. /\ d \in 1 .. Len(cst) /\ cst[d].k \in {"pcall", "resume"} /\ Len(cst) \in Nat
      /\ \A i \in d .. Len(cst) : cst[i].t = Current
  BY <1>1, Catcher, Zenon
<1> HIDE DEF d
<1>4. \A i \in d .. Len(cst) : cst[i].t = Cur(cst)
  BY <1>2, <1>3
<1> QED
  BY <1>2, <1>3, <1>4, Zenon DEF d

(* luaD_throw in the two places it may go to.                              *)
LEMMA Throws ==
  ASSUME luaD_throw, NEW t, Current = t
  PROVE  LET d == CHOOSE i \in 1 .. Len(cst) :
                    /\ cst[i].k \in {"pcall", "resume"}
                    /\ \A j \in i + 1 .. Len(cst) : cst[j].k \notin {"pcall", "resume"}
             from == cst[d].from
             L == th[t]
             L1 == luaD_seterrorobj(L, pend, L.top)
             K == SetFrame([L1 EXCEPT !.status = "dead", !.nCcalls = @ - 1],
                           [Frame(L1) EXCEPT !.top = L1.top])
             x == lua_xmove(K, th[from], 1)
         IN /\ pend' = "none" /\ cst' = SubSeq(cst, 1, d - 1)
            /\ cst[d].k = "pcall" => th' = [th EXCEPT ![t] = Recover(L, cst[d], pend)]
            /\ cst[d].k # "pcall" =>
                 /\ L.top < Slots /\ th[from].top < stack_last
                 /\ th' = [th EXCEPT ![t] = x.from, ![from] = x.to]
BY Zenon DEF luaD_throw

(* luaD_throw, wherever the error is caught.                               *)
LEMMA ThrowData ==
  ASSUME NEW lev, Good(th, cst, pend, lev), Data(th, cst, pend), luaD_throw
  PROVE  Data(th', cst', pend')
<1> DEFINE t == Cur(cst)
           d == CHOOSE i \in 1 .. Len(cst) :
                  /\ cst[i].k \in {"pcall", "resume"}
                  /\ \A j \in i + 1 .. Len(cst) : cst[j].k \notin {"pcall", "resume"}
           from == cst[d].from
           L == th[t]
           L1 == luaD_seterrorobj(L, pend, L.top)
           K == SetFrame([L1 EXCEPT !.status = "dead", !.nCcalls = @ - 1],
                         [Frame(L1) EXCEPT !.top = L1.top])
           x == lua_xmove(K, th[from], 1)
<1>1. pend \in {"ERRRUN", "ERRERR", "ERRMEM"} /\ cst # <<>>
  BY ErrorPending
<1>2. Current = t
  BY CurrentThread
<1>3. /\ d \in 1 .. Len(cst) /\ cst[d].k \in {"pcall", "resume"} /\ Len(cst) \in Nat
      /\ \A i \in d .. Len(cst) : cst[i].t = t
  BY Caught, Zenon
<1>4. /\ pend' = "none" /\ cst' = SubSeq(cst, 1, d - 1)
      /\ cst[d].k = "pcall" => th' = [th EXCEPT ![t] = Recover(L, cst[d], pend)]
      /\ cst[d].k # "pcall" =>
           /\ L.top < Slots /\ th[from].top < stack_last
           /\ th' = [th EXCEPT ![t] = x.from, ![from] = x.to]
  BY <1>2, Throws, Zenon
<1> HIDE DEF d
<1>5. CASE cst[d].k = "pcall"
  <2>1. Data([th EXCEPT ![t] = Recover(th[t], cst[d], pend)], SubSeq(cst, 1, d - 1), "none")
    BY <1>1, <1>3, <1>5, PcallCatchData
  <2> QED
    BY <1>4, <1>5, <2>1
<1>6. CASE cst[d].k # "pcall"
  <2>1. cst[d].k = "resume" /\ cst[d].t = t
    <3>1. d \in d .. Len(cst)
      BY <1>3
    <3> QED
      BY <1>3, <1>6, <3>1
  <2>2. Mem(L) /\ L.status = "ok"
    BY DataAt
  <2>3. L.top < Slots /\ th[from].top < stack_last
        /\ th' = [th EXCEPT ![t] = x.from, ![from] = x.to]
    BY <1>4, <1>6
  <2> HIDE DEF L
  <2>4. Mem(K) /\ K.top = L.top + 1 /\ Top(K).base <= L.top /\ UpFree(K, L.top)
        /\ L.top \in Nat
    BY <2>2, <2>3, DeadThread
  <2> HIDE DEF K
  <2>5. Data([th EXCEPT ![t] = x.from, ![from] = x.to], SubSeq(cst, 1, d - 1), "none")
    <3> HIDE DEF t, from
    <3>1. t = Cur(cst) /\ from = cst[d].from
      BY DEF t, from
    <3> DEFINE w == L.top
               n == 1
    <3>2. K.top = w + 1 /\ Top(K).base <= w /\ UpFree(K, w) /\ w \in Nat /\ n = 1
          /\ x = lua_xmove(K, th[from], n)
      BY <2>4
    <3> HIDE DEF w, n, x
    <3> QED
      BY <1>1, <1>3, <2>1, <2>3, <2>4, <3>1, <3>2, ResumeCatchData
  <2> QED
    BY <1>4, <2>3, <2>5
<1> QED
  BY <1>5, <1>6

-----------------------------------------------------------------------------
(* Resuming: a C function of t, whose state is L, gives its n topmost      *)
(* values to co, which is not on the C stack.                              *)
Idles(t, co) ==
  /\ cst # <<>> /\ t = Cur(cst) /\ cst[Len(cst)].k # "hook" /\ pend = "none"
  /\ co \in Coroutine \ Running(cst) /\ co \in Thread \ {t}
  /\ \A i \in 1 .. Len(cst) : cst[i].t # co
  /\ IsSeq(cst) /\ ~Top(th[t]).lua

(* Taking the arguments of lua_resume off the stack of its caller.         *)
LEMMA GiveThread ==
  ASSUME NEW lev, Good(th, cst, pend, lev), Data(th, cst, pend), NEW t, CRuns(t),
         ~InHook, NEW n \in Nat, NEW L, L = th[t], n <= L.top - L.base, NEW M, NEW y,
         y = L.top - n, Edit(M, L, y), M.top = y
  PROVE  ThreadOK(M, cst, t) /\ Top(M) = Top(L) /\ y \in Nat /\ y <= Slots /\ ~Top(L).lua
<1> DEFINE w == Bottom(t)
<1>1. /\ ThreadOK(L, cst, t) /\ IsSeq(cst) /\ Above(cst, t, w) /\ w \in Slot
      /\ Top(L).base <= w /\ UpFree(L, w) /\ Top(L).base \in Nat /\ L.top \in Nat
      /\ L.top <= Slots /\ Mem(L)
      /\ (Top(L).lua => cst # <<>> /\ cst[Len(cst)].k = "hook")
      /\ (InHook <=> (cst # <<>> /\ cst[Len(cst)].k = "hook"))
  BY CAt
<1>2. w = L.base /\ ~Top(L).lua
  BY <1>1 DEF Bottom
<1>3. w \in Nat
  BY <1>1, Sizes
<1> HIDE DEF w
<1>4. y \in Int /\ y \in Nat /\ w <= y /\ Top(L).base <= y /\ y <= L.top /\ y <= Slots
  <2>1. n <= L.top - w
    BY <1>2
  <2>2. Slots \in Nat
    BY Sizes
  <2> QED
    BY <1>1, <1>3, <2>1, <2>2
<1>5. UpFree(L, y)
  <2>1. Ups(L) \subseteq Nat
    BY <1>1, UpsBelow
  <2> QED
    BY <1>1, <1>3, <1>4, <2>1 DEF UpFree
<1>6. Above(cst, t, y)
  <2>1. \A i \in 1 .. Len(cst) : (cst[i].t = t /\ Guarded(cst[i])) => Floor(cst[i]) \in Nat
    <3>1. ASSUME NEW i \in 1 .. Len(cst), cst[i].t = t, Guarded(cst[i])
          PROVE  Floor(cst[i]) \in Nat
      <4>1. RecIn(L, cst, i)
        BY <1>1, <3>1 DEF ThreadOK
      <4>2. Floor(cst[i]) \in Slot
        BY <3>1, <4>1 DEF RecIn, RecOK, FloorOK
      <4> QED
        BY <4>2, Sizes
    <3> QED
      BY <3>1
  <2> QED
    BY <1>1, <1>3, <1>4, <2>1 DEF Above
<1>7. ThreadOK(M, cst, t) /\ Top(M) = Top(L)
  BY <1>1, <1>4, <1>5, <1>6, EditThread
<1> QED
  BY <1>2, <1>4, <1>7

(* The two threads of a resume.                                            *)
LEMMA IdlesFacts ==
  ASSUME NEW lev, Good(th, cst, pend, lev), Data(th, cst, pend), NEW t, NEW co,
         NEW n \in Nat, auxresume(t, co, n)
  PROVE  /\ Idles(t, co) /\ CRuns(t) /\ ~InHook /\ n <= th[t].top - th[t].base
         /\ ThreadOK(th[co], cst, co) /\ StateOK(th[co])
         /\ th[co].top + n < Slots /\ ~Top(th[co]).lua
         /\ \/ th[co].status = "ok" /\ Len(th[co].ci) = 1 /\ th[co].top # th[co].base
            \/ th[co].status = "yield" /\ Suspended(th[co])
<1>1. /\ CRuns(t) /\ ~InHook /\ cst # <<>> /\ co \in Coroutine
      /\ costatus(t, co) = "suspended" /\ n <= th[t].top - th[t].base
      /\ th[co].top + n <= stack_last
  BY DEF auxresume
<1>2. /\ pend = "none" /\ t = Current /\ t = Cur(cst) /\ t \in Thread /\ DOMAIN th = Thread
  BY <1>1, CRunsFacts
<1>3. /\ co # t
      /\ \/ th[co].status = "ok" /\ Len(th[co].ci) = 1 /\ th[co].top # th[co].base
         \/ th[co].status = "yield"
  <2>1. co # t
    BY <1>1 DEF costatus
  <2>2. StateOK(th[co])
    BY <1>1 DEF Good, Thread
  <2>3. /\ th[co].status \in {"none", "ok", "yield", "dead"}
        /\ Len(th[co].ci) \in Nat /\ Len(th[co].ci) >= 1
    <3>1. Mem(th[co])
      BY <1>1 DEF Data, ThreadOK, Thread
    <3> QED
      BY <2>2, <3>1, MemFacts DEF StateOK
  <2>4. CASE th[co].status = "yield"
    BY <2>1, <2>4
  <2>5. CASE th[co].status = "ok"
    <3>1. CASE Len(th[co].ci) > 1
      BY <1>1, <2>1, <2>3, <2>5, <3>1 DEF costatus
    <3>2. CASE Len(th[co].ci) = 1 /\ th[co].top = th[co].base
      BY <1>1, <2>1, <2>3, <2>5, <3>2 DEF costatus
    <3>3. Len(th[co].ci) = 1 \/ Len(th[co].ci) > 1
      <4> DEFINE k == Len(th[co].ci)
      <4>1. k \in Nat /\ k >= 1
        BY <2>3
      <4> HIDE DEF k
      <4>2. k = 1 \/ k > 1
        BY <4>1
      <4> QED
        BY <4>2 DEF k
    <3> QED
      BY <2>1, <2>5, <3>1, <3>2, <3>3
  <2>6. CASE th[co].status \notin {"yield", "ok"}
    BY <1>1, <2>1, <2>6 DEF costatus
  <2> QED
    BY <2>4, <2>5, <2>6
<1>4. co \in Thread \ Running(cst) /\ co \in Thread \ {t}
  BY <1>1, <1>2, <1>3, NotRunning
<1>5. \A i \in 1 .. Len(cst) : cst[i].t # co
  BY <1>4 DEF Running
<1>6. ThreadOK(th[co], cst, co) /\ StateOK(th[co])
  BY <1>4 DEF Data, Good
<1>7. th[co].status = "yield" => Suspended(th[co])
  BY <1>4 DEF Good, StatusOK
<1>8. ~Top(th[co]).lua
  BY <1>3, <1>6, <1>7 DEF Top, Suspended, StateOK
<1>9. th[co].top + n < Slots
  <2>1. th[co].top \in Nat
    BY <1>6, MemFacts DEF ThreadOK
  <2> QED
    BY <1>1, <2>1, Sizes
<1>10. cst[Len(cst)].k # "hook" /\ IsSeq(cst) /\ ~Top(th[t]).lua
  BY <1>1, CAt
<1> QED
  BY <1>1, <1>2, <1>3, <1>4, <1>5, <1>6, <1>7, <1>8, <1>9, <1>10 DEF Idles

(* What the two threads are like then.                                     *)
LEMMA TakeThread ==
  ASSUME NEW t, NEW co, Idles(t, co), NEW n \in Nat, NEW W, W = th[co],
         ThreadOK(W, cst, co), W.top + n <= Slots, ~Top(W).lua,
         NEW A, A = lua_checkstack(W, n), NEW M, Edit(M, A, A.top), M.top = A.top + n
  PROVE  /\ ThreadOK(M, cst, co) /\ M.top = W.top + n /\ M.top <= Slots
         /\ Top(M).base = Top(W).base /\ Top(M).func = Top(W).func /\ ~Top(M).lua
         /\ Len(M.ci) = Len(W.ci)
         /\ \A j \in 1 .. Len(W.ci) : M.ci[j].nresults = W.ci[j].nresults
         /\ \A j \in 1 .. Len(W.ci) : M.ci[j].lua = W.ci[j].lua
<1>1. IsSeq(cst) /\ Settled(W, cst, co)
  BY DEF Idles, Settled
<1>2. /\ ThreadOK(A, cst, co) /\ Top(A).lua = Top(W).lua /\ A.top = W.top
      /\ Top(A).base = Top(W).base /\ Top(A).func = Top(W).func
      /\ Len(A.ci) = Len(W.ci)
      /\ \A j \in 1 .. Len(W.ci) - 1 : A.ci[j] = W.ci[j]
      /\ Top(A).nresults = Top(W).nresults
  BY <1>1, CheckThread
<1>3. Mem(A) /\ Mem(W)
  BY <1>2 DEF ThreadOK
<1>4. A.top \in Nat /\ A.top \in Int /\ Top(A).base <= A.top /\ M.top <= Slots
      /\ W.top \in Nat /\ Len(W.ci) \in Nat /\ Len(W.ci) >= 1
  BY <1>2, <1>3, MemFacts
<1>5. UpFree(A, M.top)
  <2>1. UpFree(A, A.top) /\ Ups(A) \subseteq Nat
    BY <1>3, UpsBelow
  <2>2. \A u \in Nat : u < A.top => u < M.top
    BY <1>4
  <2> QED
    BY <2>1, <2>2 DEF UpFree
<1>6. Above(cst, co, A.top)
  BY DEF Idles, Above
<1>7. ThreadOK(M, cst, co) /\ Top(M) = Top(A)
  BY <1>1, <1>2, <1>4, <1>5, <1>6, EditThread
<1>8. M.ci = A.ci
  BY DEF Edit, Kept
<1>9. \A j \in 1 .. Len(W.ci) : j = Len(W.ci) \/ j \in 1 .. Len(W.ci) - 1
  BY <1>4
<1>10. \A j \in 1 .. Len(W.ci) : A.ci[j].nresults = W.ci[j].nresults
                                 /\ A.ci[j].lua = W.ci[j].lua
  BY <1>2, <1>9 DEF Top
<1> QED
  BY <1>2, <1>4, <1>7, <1>8, <1>10

(* The resume is refused: the message goes to the thread that asked.       *)
LEMMA RefuseData ==
  ASSUME NEW lev, Good(th, cst, pend, lev), Data(th, cst, pend), NEW t, NEW co,
         Idles(t, co), NEW X, ThreadOK(X, cst, co), ~Top(X).lua, X.top < Slots,
         NEW F, ThreadOK(F, cst, t), ~Top(F).lua, resume_error(t, co, F, X)
  PROVE  Data(th', cst', pend')
<1> DEFINE b == Frame(X).base
           K == CutTo(X, b)
           Y == Push(K, Message)
           n == 1
           x == lua_xmove(Y, F, n)
           ts == [th EXCEPT ![co] = x.from]
<1>1. F.top < stack_last /\ Go(ts, t, x.to, cst)
  BY DEF resume_error
<1>2. /\ Mem(X) /\ Mem(F) /\ Clean(X) /\ Clean(F) /\ IsSeq(cst)
      /\ X.top \in Nat /\ F.top \in Nat /\ F.top >= 2 /\ F.top <= Slots
      /\ Top(F).base <= F.top /\ Top(X).base <= X.top /\ b = Top(X).base
  BY MemFacts DEF ThreadOK, Idles
<1>3. b \in Nat /\ b >= 2 /\ Top(X).func \in Nat /\ Top(X).func < b
  <2>1. Len(X.ci) \in 1 .. Len(X.ci) /\ Top(X) = X.ci[Len(X.ci)]
    BY <1>2, MemFacts DEF Top
  <2>2. /\ Top(X).func \in Nat /\ Top(X).base \in Nat /\ 1 <= Top(X).func
        /\ Top(X).func < Top(X).base
    BY <1>2, <2>1, MemFacts
  <2> HIDE DEF b
  <2> QED
    BY <1>2, <2>2
<1> HIDE DEF b
<1>4. b \in Int /\ b <= X.top /\ b + 1 <= Slots /\ b <= Slots
  <2>1. Slots \in Nat
    BY Sizes
  <2> QED
    BY <1>2, <1>3, <2>1
<1>5. UpFree(X, b)
  <2>1. UpFree(X, Top(X).func) /\ Ups(X) \subseteq Nat
    BY <1>2, UpsBelow
  <2> QED
    BY <1>3, <2>1 DEF UpFree
<1>6. Edit(K, X, b) /\ K.top = b
  <2>1. b <= b
    BY <1>3
  <2> QED
    BY <1>2, <1>4, <2>1, CutToEdit
<1>7. Edit(Y, X, b) /\ Y.top = b + 1
  <2>1. Clean(K) /\ b <= K.top /\ Message \in Value
    BY <1>4, <1>6, EditClean, Sizes
  <2> HIDE DEF K
  <2>2. Edit(Y, K, b) /\ Y.top = b + 1
    BY <1>4, <1>6, <2>1, PushEdit
  <2> QED
    BY <1>6, <2>2, EditTrans
<1> HIDE DEF Y, K
<1>8. /\ Edit(x.from, Y, b) /\ x.from.top = b
      /\ Edit(x.to, F, F.top) /\ x.to.top = F.top + 1
  <2>1. /\ Clean(Y) /\ Y.top <= Slots /\ n \in Nat /\ F.top >= 1 /\ 1 <= Y.top - n
        /\ F.top + n <= Slots /\ Y.top - n = b /\ F.top + n = F.top + 1
    <3>1. Clean(Y)
      BY <1>7, EditClean
    <3> QED
      BY <1>1, <1>2, <1>3, <1>4, <1>7, <3>1, Sizes
  <2> HIDE DEF n
  <2> QED
    BY <1>2, <2>1, XmoveEdits
<1> HIDE DEF x
<1>9. ThreadOK(x.from, cst, co)
  <2>1. Edit(x.from, X, b)
    BY <1>7, <1>8, EditTrans
  <2>2. Above(cst, co, b)
    BY DEF Idles, Above
  <2>3. Top(X).base <= b
    BY <1>2, <1>3
  <2> QED
    BY <1>2, <1>4, <1>5, <1>8, <2>1, <2>2, <2>3, EditThread
<1>10. ThreadOK(x.to, cst, t) /\ ~Top(x.to).lua
  <2>1. UpFree(F, x.to.top)
    <3>1. UpFree(F, F.top) /\ Ups(F) \subseteq Nat
      BY <1>2, UpsBelow
    <3>2. \A u \in Nat : u < F.top => u < x.to.top
      BY <1>2, <1>8
    <3> QED
      BY <3>1, <3>2 DEF UpFree
  <2>2. F.top \in Int /\ F.top <= F.top /\ x.to.top <= Slots
    BY <1>1, <1>2, <1>8, Sizes
  <2>3. Above(cst, t, F.top)
    BY <2>2, AboveTop
  <2> QED
    BY <1>2, <1>8, <2>1, <2>2, <2>3, EditThread
<1>11. At(ts, t, x.to, cst)
  <2>1. At(th, t, th[t], cst) /\ ChainOK(cst)
    BY DataAt DEF Idles
  <2>2. co \in Thread /\ co # t /\ co \notin Running(cst) /\ DOMAIN th = Thread
    BY <2>1 DEF Idles, At
  <2>3. DOMAIN ts = Thread /\ ts[co] = x.from /\ \A s \in Thread \ {co} : ts[s] = th[s]
    BY <2>2, PutFacts
  <2> HIDE DEF ts
  <2>4. \A s \in Thread \ {t} : ThreadOK(ts[s], cst, s)
    BY <1>9, <2>1, <2>2, <2>3 DEF At
  <2>5. ASSUME NEW j \in 1 .. Len(cst), cst[j].k = "resume"
        PROVE  cst[j].from \in Thread \ {t} /\ ~Top(ts[cst[j].from]).lua
    <3>1. cst[j].from \in Thread \ {t} /\ ~Top(th[cst[j].from]).lua
      BY <2>1, <2>5 DEF At
    <3>2. j > 1 /\ cst[j].from = cst[j - 1].t
      BY <2>1, <2>5, FromOther
    <3>3. j - 1 \in 1 .. Len(cst)
      BY <3>2
    <3>4. cst[j].from # co
      BY <2>2, <3>2, <3>3 DEF Running
    <3> QED
      BY <2>3, <3>1, <3>4
  <2> QED
    BY <1>10, <2>1, <2>3, <2>4, <2>5 DEF At
<1>12. LiveOK(x.to, cst, "none")
  BY <1>10 DEF LiveOK
<1> HIDE DEF ts
<1> QED
  BY <1>1, <1>11, <1>12, AtGo

(* The coroutine gets an activation, its first.                            *)
LEMMA FirstRec ==
  ASSUME NEW X, Mem(X), Len(X.ci) >= 2 => X.ci[2].nresults = -1,
         NEW C, IsSeq(C), NEW co, NEW t, \A i \in 1 .. Len(C) : C[i].t # co,
         NEW e, e = [k |-> "resume", t |-> co, nexec |-> 0, ci |-> 1, from |-> t]
  PROVE  ThreadOK(X, Append(C, e), co)
<1> DEFINE D == Append(C, e)
           n == Len(C) + 1
<1>1. /\ Len(D) = n /\ Len(C) \in Nat /\ \A i \in 1 .. Len(C) : D[i] = C[i]
      /\ D[n] = e
  BY SeqAppend
<1>2. /\ e.k = "resume" /\ e.t = co /\ e.ci = 1
      /\ {"k", "t", "nexec", "ci", "from"} \subseteq DOMAIN e
  OBVIOUS
<1>3. RecOK(X, e, Len(X.ci))
  <2> HIDE DEF D
  <2>1. Len(X.ci) \in Nat /\ Len(X.ci) >= 1
    BY MemFacts
  <2>2. RecFields(e)
    BY <1>2 DEF RecFields
  <2>3. e.ci < Len(X.ci) => e.ci + 1 \in 1 .. Len(X.ci) /\ EnteredOK(X, e)
    <3>1. ASSUME e.ci < Len(X.ci) PROVE e.ci + 1 = 2 /\ 2 \in 1 .. Len(X.ci) /\ X.ci[2].nresults = -1
      BY <1>2, <2>1, <3>1
    <3> QED
      BY <1>2, <3>1 DEF EnteredOK, CalleeOK, Meta
  <2>4. e.ci \in 1 .. Len(X.ci)
    BY <1>2, <2>1
  <2> QED
    BY <1>2, <2>2, <2>3, <2>4 DEF RecOK, Guarded, Meta
<1> HIDE DEF D
<1>4. RecIn(X, D, n)
  <2>1. Until(X, D, n) = Len(X.ci)
    BY <1>1 DEF Until
  <2> QED
    BY <1>1, <1>2, <1>3, <2>1 DEF RecIn
<1>5. ASSUME NEW i \in 1 .. Len(D), D[i].t = co PROVE RecIn(X, D, i)
  <2>1. i \in 1 .. Len(C) \/ i = n
    BY <1>1
  <2>2. i = n
    BY <1>1, <1>5, <2>1
  <2> QED
    BY <1>4, <2>2
<1>6. ThreadOK(X, D, co)
  BY <1>5 DEF ThreadOK
<1> QED
  BY <1>6 DEF D

(* The coroutine runs once lua_resume is on the C stack.                   *)
LEMMA AtResumed ==
  ASSUME NEW lev, Good(th, cst, pend, lev), Data(th, cst, pend), NEW t, NEW co,
         Idles(t, co), NEW F, ThreadOK(F, cst, t), ~Top(F).lua,
         NEW X, Mem(X), Len(X.ci) >= 2 => X.ci[2].nresults = -1,
         NEW e, e = [k |-> "resume", t |-> co, nexec |-> 0, ci |-> 1, from |-> t]
  PROVE  At([th EXCEPT ![t] = F], co, X, Append(cst, e))
<1> DEFINE D == Append(cst, e)
           n == Len(cst) + 1
           ts == [th EXCEPT ![t] = F]
<1>1. /\ At(th, t, th[t], cst) /\ ChainOK(cst) /\ IsSeq(cst)
      /\ co \in Thread /\ co # t /\ co \notin Running(cst)
      /\ \A i \in 1 .. Len(cst) : cst[i].t # co
  BY DataAt DEF Idles
<1>2. DOMAIN th = Thread /\ t \in Thread
  BY <1>1 DEF At
<1>3. /\ Len(D) = n /\ Len(cst) \in Nat /\ \A i \in 1 .. Len(cst) : D[i] = cst[i]
      /\ D[n] = e /\ IsSeq(D) /\ D # <<>>
  BY <1>1, SeqAppend
<1>4. e.k = "resume" /\ e.t = co /\ e.from = t
  OBVIOUS
<1>5. DOMAIN ts = Thread /\ ts[t] = F /\ \A s \in Thread \ {t} : ts[s] = th[s]
  BY <1>2, PutFacts
<1>6. ThreadOK(X, D, co)
  BY <1>1, FirstRec
<1>7. ASSUME NEW s \in Thread \ {co} PROVE ThreadOK(ts[s], D, s)
  <2>1. ThreadOK(ts[s], cst, s)
    BY <1>1, <1>5 DEF At
  <2> HIDE DEF ts
  <2>2. e.t # s
    BY <1>4, <1>7
  <2> QED
    BY <1>1, <2>1, <2>2, AppendThread
<1> HIDE DEF D, ts
<1>8. co = Cur(D)
  BY <1>3, <1>4 DEF Cur
<1>9. \A i \in 1 .. Len(D) : i \in 1 .. Len(cst) \/ i = n
  BY <1>3
<1>10. FloorsOK(D)
  <2>1. FloorsOK(cst) /\ ~Guarded(e)
    BY <1>1, <1>4 DEF At, Guarded
  <2> QED
    BY <1>3, <1>9, <2>1 DEF FloorsOK
<1>11. HooksNest(D)
  <2>1. HooksNest(cst)
    BY <1>1 DEF At
  <2> SUFFICES ASSUME NEW i \in 1 .. Len(D), D[i].k = "hook",
                      NEW j \in i + 1 .. Len(D), D[j].t = D[i].t
               PROVE  /\ D[j].k # "hook" /\ (D[j].k = "pcall" => ~D[j].allowhook)
                      /\ j = i + 1 => D[j].k \notin Meta
    BY DEF HooksNest
  <2>2. i \in 1 .. Len(cst) /\ D[i] = cst[i]
    BY <1>3, <1>4, <1>9
  <2>3. j # n
    BY <1>1, <1>3, <1>4, <2>2
  <2>4. j \in i + 1 .. Len(cst) /\ D[j] = cst[j]
    BY <1>3, <2>2, <2>3
  <2> QED
    BY <2>1, <2>2, <2>4 DEF HooksNest
<1>12. ASSUME NEW j \in 1 .. Len(D), D[j].k = "resume"
       PROVE  D[j].from \in Thread \ {co} /\ ~Top(ts[D[j].from]).lua
  <2>1. CASE j = n
    BY <1>1, <1>2, <1>3, <1>4, <1>5, <2>1
  <2>2. CASE j \in 1 .. Len(cst)
    <3>1. D[j] = cst[j]
      BY <1>3, <2>2
    <3>2. cst[j].from \in Thread \ {t} /\ ~Top(th[cst[j].from]).lua
      BY <1>1, <1>12, <2>2, <3>1 DEF At
    <3>3. j > 1 /\ cst[j].from = cst[j - 1].t
      BY <1>1, <1>12, <2>2, <3>1, FromOther
    <3>4. j - 1 \in 1 .. Len(cst)
      BY <1>3, <2>2, <3>3
    <3> QED
      BY <1>1, <1>5, <3>1, <3>2, <3>3, <3>4
  <2> QED
    BY <1>9, <2>1, <2>2
<1>13. At(ts, co, X, D)
  BY <1>1, <1>3, <1>5, <1>6, <1>7, <1>8, <1>10, <1>11, <1>12 DEF At
<1> QED
  BY <1>13 DEF D, ts

(* lua_resume starts a coroutine.                                          *)
LEMMA StartData ==
  ASSUME NEW lev, Good(th, cst, pend, lev), Data(th, cst, pend), NEW t, NEW co,
         Idles(t, co), NEW F, ThreadOK(F, cst, t), ~Top(F).lua,
         NEW X, ThreadOK(X, cst, co), ~Top(X).lua, X.status = "ok", Len(X.ci) = 1,
         X.top <= Slots, NEW n \in Nat, NEW func, func = X.top - n - 1, Top(X).base <= func,
         NEW e, e = [k |-> "resume", t |-> co, nexec |-> 0, ci |-> 1, from |-> t],
         NEW nresults, nresults = -1,
         EnterLua([th EXCEPT ![t] = F], co, X, Append(cst, e), func, nresults, FALSE)
  PROVE  Data(th', cst', pend')
<1> DEFINE D == Append(cst, e)
           ts == [th EXCEPT ![t] = F]
           tail == FALSE
<1>1. Mem(X) /\ ~(Len(X.ci) >= 2) /\ IsSeq(cst) /\ ChainOK(cst) /\ co \in Thread
      /\ \A i \in 1 .. Len(cst) : cst[i].t # co
  BY DataAt DEF ThreadOK, Idles
<1>2. At(ts, co, X, D)
  BY <1>1, AtResumed
<1>3. /\ Len(D) = Len(cst) + 1 /\ Len(cst) \in Nat
      /\ \A i \in 1 .. Len(cst) : D[i] = cst[i]
      /\ D[Len(cst) + 1] = e /\ IsSeq(D) /\ D # <<>>
  BY <1>1, SeqAppend
<1>4. e.k = "resume" /\ e.t = co /\ e.nexec = 0
      /\ {"k", "t", "nexec", "ci", "from"} \subseteq DOMAIN e
  OBVIOUS
<1> HIDE DEF D, ts
<1>5. \A i \in 1 .. Len(D) : i \in 1 .. Len(cst) \/ D[i] = e
  BY <1>3
<1>6. ActsOK(D)
  <2>1. ActOK(e)
    BY <1>1, <1>4 DEF ActOK
  <2>2. ActsOK(cst)
    BY <1>1 DEF ChainOK
  <2> QED
    BY <1>3, <1>5, <2>1, <2>2 DEF ActsOK
<1>7. /\ func \in Slot /\ func < X.top /\ func \in Nat /\ func \in Int /\ func <= X.top
      /\ Top(X).func < func /\ Clean(X) /\ UpFree(X, Top(X).func) /\ Ups(X) \subseteq Nat
      /\ Top(X).func \in Nat
  <2>1. Len(X.ci) \in 1 .. Len(X.ci) /\ Top(X) = X.ci[Len(X.ci)]
    BY <1>1, MemFacts DEF Top
  <2>2. /\ Top(X).func \in Nat /\ Top(X).base \in Nat /\ 1 <= Top(X).func
        /\ Top(X).func < Top(X).base
    BY <1>1, <2>1, MemFacts
  <2>3. X.top \in Nat /\ Clean(X) /\ UpFree(X, Top(X).func) /\ Ups(X) \subseteq Nat
    BY <1>1, MemFacts, UpsBelow
  <2>4. Slots \in Nat
    BY Sizes
  <2>5. func \in Int /\ func < X.top /\ Top(X).func < func
    BY <2>2, <2>3
  <2>6. func \in Nat /\ func \in 1 .. Slots /\ func <= X.top
    BY <2>2, <2>3, <2>4, <2>5
  <2> QED
    BY <2>2, <2>3, <2>5, <2>6 DEF Slot
<1>8. Ready(X, D, co, func, nresults)
  <2>1. UpFree(X, func)
    BY <1>7 DEF UpFree
  <2>2. ASSUME NEW i \in 1 .. Len(D), D[i].t = co PROVE D[i] = e
    BY <1>1, <1>3, <1>5, <2>2
  <2>3. Above(D, co, func)
    BY <1>4, <2>2 DEF Above, Guarded
  <2>4. \A tp : CalleeOK(e, tp, func, nresults)
    BY <1>4 DEF CalleeOK, Meta
  <2> QED
    BY <1>7, <2>1, <2>2, <2>3, <2>4 DEF Ready
<1>9. Edit(X, X, func)
  BY <1>7, EditSame
<1>10. EnterLua(ts, co, X, D, func, nresults, tail) /\ tail \in BOOLEAN /\ ~tail
  BY DEF D, ts
<1> HIDE DEF tail
<1> QED
  BY <1>2, <1>3, <1>6, <1>7, <1>8, <1>9, <1>10, EnterLuaData

(* What follows a call changes no frame but by its top.                    *)
LEMMA AfterCallFrames ==
  ASSUME NEW P, DOMAIN P = Fields, P.ci \in Seq(FrameType), Len(P.ci) >= 1, NEW nr
  PROVE  LET M == AfterCall(P, nr)
         IN /\ Len(M.ci) = Len(P.ci)
            /\ \A j \in 1 .. Len(P.ci) : M.ci[j].nresults = P.ci[j].nresults
<1> DEFINE n == Len(P.ci)
           f == [Frame(P) EXCEPT !.open = TRUE]
           s == [P.ci EXCEPT ![n] = f]
<1>1. n \in Nat /\ n \in 1 .. n /\ IsSeq(P.ci) /\ P.ci # <<>>
  BY SeqElements
<1>2. Frame(P) = P.ci[n] /\ Frame(P) \in FrameType
  BY <1>1 DEF Frame, Last
<1>3. f \in FrameType /\ f.nresults = P.ci[n].nresults
  BY <1>2 DEF FrameType
<1>4. Len(s) = n /\ \A j \in 1 .. n : s[j] = IF j = n THEN f ELSE P.ci[j]
  BY <1>1, <1>3
<1>5. MarkOpen(P, TRUE).ci = s
  BY DEF MarkOpen, SetFrame, Fields
<1>6. ToFrameTop(P).ci = P.ci
  BY DEF ToFrameTop, SetNil, Fields
<1> HIDE DEF f, s
<1>7. CASE nr = MULTRET
  BY <1>3, <1>4, <1>5, <1>7 DEF AfterCall
<1>8. CASE nr # MULTRET
  BY <1>6, <1>8 DEF AfterCall
<1> QED
  BY <1>7, <1>8

(* luaD_poscall sets the base.                                             *)
LEMMA PosCallBase ==
  ASSUME NEW L, DOMAIN L = Fields, NEW b, NEW fr
  PROVE  luaD_poscall([L EXCEPT !.base = b], fr) = luaD_poscall(L, fr)
<1> DEFINE M == [L EXCEPT !.base = b]
<1>1. /\ DOMAIN M = Fields /\ M.stk = L.stk /\ M.top = L.top /\ M.ci = L.ci
      /\ \A x \in Fields : x # "base" => M[x] = L[x]
  BY DEF Fields
<1>2. Frame(M) = Frame(L)
  BY <1>1 DEF Frame
<1> HIDE DEF M
<1> DEFINE nres == L.top - fr
           wanted == IF Frame(L).nresults = MULTRET THEN nres ELSE Frame(L).nresults
           stk == [i \in Slot |->
                     IF i \in Frame(L).func .. Frame(L).func + wanted - 1
                     THEN IF i - Frame(L).func < nres THEN L.stk[fr + i - Frame(L).func] ELSE Nil
                     ELSE IF Frame(L).func + wanted <= i /\ i < L.top THEN Nil ELSE L.stk[i]]
           ci == Front(L.ci)
           base == L.ci[Len(L.ci) - 1].base
           top == Frame(L).func + wanted
<1>3. luaD_poscall(L, fr) = [L EXCEPT !.stk = stk, !.ci = ci, !.base = base, !.top = top]
  BY DEF luaD_poscall
<1>4. luaD_poscall(M, fr) = [M EXCEPT !.stk = stk, !.ci = ci, !.base = base, !.top = top]
  BY <1>1, <1>2 DEF luaD_poscall
<1> HIDE DEF stk, ci, base, top
<1>5. [M EXCEPT !.stk = stk, !.ci = ci, !.base = base, !.top = top]
        = [L EXCEPT !.stk = stk, !.ci = ci, !.base = base, !.top = top]
  BY <1>1 DEF Fields
<1> QED
  BY <1>3, <1>4, <1>5 DEF M

(* lua_resume wakes a coroutine up.                                        *)
LEMMA WakeData ==
  ASSUME NEW lev, Good(th, cst, pend, lev), Data(th, cst, pend), NEW t, NEW co,
         Idles(t, co), NEW F, ThreadOK(F, cst, t), ~Top(F).lua,
         NEW X, ThreadOK(X, cst, co), Len(X.ci) >= 3, ~X.ci[1].lua, ~Top(X).lua,
         X.status = "yield", NEW fr, Top(X).base <= fr, fr <= X.top, fr \in Int,
         NEW e, e = [k |-> "resume", t |-> co, nexec |-> 0, ci |-> 1, from |-> t],
         NEW d,
         Go([th EXCEPT ![t] = F], co,
            AfterCall(luaD_poscall([X EXCEPT !.status = "ok"], fr), Frame(X).nresults),
            Executing(Append(cst, e), d))
  PROVE  Data(th', cst', pend')
<1> DEFINE D == Append(cst, e)
           ts == [th EXCEPT ![t] = F]
           b == Top(X).base
           A == [X EXCEPT !.status = "ok"]
           L == [A EXCEPT !.base = b]
           P == luaD_poscall(L, fr)
           M == AfterCall(P, Top(L).nresults)
<1>1. /\ Mem(X) /\ IsSeq(cst) /\ ChainOK(cst) /\ co \in Thread
      /\ \A i \in 1 .. Len(cst) : cst[i].t # co
  BY DataAt DEF ThreadOK, Idles
<1>2. /\ DOMAIN A = Fields /\ DOMAIN L = Fields /\ L.stk = X.stk /\ L.top = X.top
      /\ L.ci = X.ci /\ L.openupval = X.openupval /\ L.errfunc = X.errfunc
      /\ L.status = "ok" /\ L.base = b
  BY <1>1 DEF Mem, Fields
<1> HIDE DEF A, L
<1>3. Frame(X) = Top(X) /\ Top(L) = Top(X) /\ Frame(L) = Frame(X)
  BY <1>1, <1>2, MemFacts DEF Top, Frame
<1>4. luaD_poscall(A, fr) = P
  BY <1>2, PosCallBase DEF L
<1>5. /\ Len(X.ci) \in Nat /\ Top(X).func \in Nat /\ b \in Nat /\ 1 <= Top(X).func
      /\ Top(X).func < b /\ b <= X.top /\ X.top \in Nat /\ X.top <= Slots
  <2>1. Len(X.ci) \in 1 .. Len(X.ci) /\ Top(X) = X.ci[Len(X.ci)]
    BY <1>1, MemFacts DEF Top
  <2> HIDE DEF b
  <2>2. b = Top(X).base
    BY DEF b
  <2> QED
    BY <1>1, <2>1, <2>2, MemFacts
<1> HIDE DEF b
<1>6. b \in 2 .. Slots /\ b = Top(X).base
  <2>1. Slots \in Nat
    BY Sizes
  <2>2. b \in 2 .. Slots
    BY <1>5, <2>1
  <2> QED
    BY <2>2 DEF b
<1>7. Mem(L)
  <2>1. WindowOK(L)
    <3>1. L.top \in 2 .. Slots /\ L.ci[Len(L.ci)].base <= L.top
      BY <1>1, <1>2 DEF Mem, WindowOK
    <3>2. L.base = L.ci[Len(L.ci)].base
      BY <1>2, <1>6 DEF Top
    <3> QED
      BY <1>2, <1>6, <3>1, <3>2 DEF WindowOK
  <2>2. NilAbove(L) /\ Owned(L)
    <3>1. NilAbove(X) /\ Owned(X)
      BY <1>1 DEF Mem
    <3>2. NilAbove(L)
      BY <1>2, <3>1 DEF NilAbove
    <3>3. Ups(L) = Ups(X)
      BY <1>2 DEF Ups
    <3>4. \A j, u : Owns(L, j, u) <=> Owns(X, j, u)
      BY <1>2 DEF Owns
    <3> QED
      BY <1>2, <3>1, <3>2, <3>3, <3>4 DEF Owned
  <2>3. /\ L.stk \in [Slot -> Value] /\ L.errfunc \in 0 .. Slots
        /\ Nested(L.ci) /\ Sorted(L.openupval)
    BY <1>1, <1>2 DEF Mem
  <2> QED
    BY <1>2, <2>1, <2>2, <2>3 DEF Mem
<1>8. Leaving(L, co, fr)
  <2>1. ThreadOK(L, cst, co) /\ Under(L, cst, co)
    BY <1>1, <1>7 DEF ThreadOK, Under
  <2>2. UpFree(L, Top(L).func)
    BY <1>3, <1>7, UpsBelow
  <2>3. Top(L).func <= fr /\ fr <= L.top /\ fr \in Int /\ Len(L.ci) >= 2
    BY <1>2, <1>3, <1>5, <1>6
  <2> QED
    BY <1>2, <2>1, <2>2, <2>3 DEF Leaving
<1>9. ThreadOK(M, cst, co) /\ (Top(M).open \/ M.top = Top(M).top)
  BY <1>1, <1>8, BackInCaller
<1>10. Len(M.ci) >= 2 => M.ci[2].nresults = -1
  <2>1. /\ DOMAIN P = Fields /\ P.ci \in Seq(FrameType) /\ Len(P.ci) = Len(X.ci) - 1
        /\ \A j \in 1 .. Len(X.ci) - 1 : P.ci[j] = X.ci[j]
    <3>1. Len(L.ci) >= 2 /\ Top(L).func <= fr /\ fr <= L.top /\ fr \in Int
      BY <1>8 DEF Leaving
    <3>2. /\ DOMAIN P = Fields /\ P.ci \in Seq(FrameType) /\ Len(P.ci) = Len(L.ci) - 1
          /\ \A j \in 1 .. Len(L.ci) - 1 : P.ci[j] = L.ci[j]
      BY <1>7, <3>1, PosCallFacts
    <3> QED
      BY <1>2, <3>2
  <2> HIDE DEF P
  <2>2. 2 \in 1 .. Len(X.ci) - 1 /\ Len(P.ci) >= 1 /\ 2 \in 1 .. Len(P.ci)
    BY <1>5, <2>1
  <2>3. \A j \in 1 .. Len(P.ci) : M.ci[j].nresults = P.ci[j].nresults
    BY <2>1, <2>2, AfterCallFrames
  <2>4. X.ci[2].nresults = -1
    BY <1>1 DEF Mem
  <2> QED
    BY <2>1, <2>2, <2>3, <2>4
<1>11. Go(ts, co, M, Executing(D, d))
  BY <1>3, <1>4 DEF A
<1> HIDE DEF M, P
<1>12. At(ts, co, M, D)
  BY <1>9, <1>10, AtResumed DEF ThreadOK
<1>13. /\ Len(D) = Len(cst) + 1 /\ Len(cst) \in Nat
       /\ \A i \in 1 .. Len(cst) : D[i] = cst[i]
       /\ D[Len(cst) + 1] = e /\ IsSeq(D) /\ D # <<>>
  BY <1>1, SeqAppend
<1>14. ActsOK(D)
  <2>1. ActOK(e)
    BY <1>1 DEF ActOK
  <2>2. ActsOK(cst)
    BY <1>1 DEF ChainOK
  <2> HIDE DEF D
  <2>3. \A i \in 1 .. Len(D) : i \in 1 .. Len(cst) \/ D[i] = e
    BY <1>13
  <2> QED
    BY <1>13, <2>1, <2>2, <2>3 DEF ActsOK
<1> HIDE DEF D, ts
<1>15. At(ts, co, M, Executing(D, d))
  BY <1>12, <1>13, <1>14, AtExec
<1>16. LiveOK(M, Executing(D, d), "none")
  BY <1>9 DEF LiveOK
<1> QED
  BY <1>11, <1>15, <1>16, AtGo

(* lua_resume, of a coroutine that starts, goes on or cannot do either.    *)
LEMMA ResumeData ==
  ASSUME NEW lev, Good(th, cst, pend, lev), Data(th, cst, pend), NEW t, NEW co,
         NEW n \in Nat, auxresume(t, co, n)
  PROVE  Data(th', cst', pend')
<1> DEFINE W == th[co]
           A == lua_checkstack(W, n)
           x == lua_xmove(th[t], A, n)
           depth == th[t].nCcalls
           e == [k |-> "resume", t |-> co, nexec |-> 0, ci |-> 1, from |-> t]
           D == Append(cst, e)
           X == [x.to EXCEPT !.nCcalls = depth]
           Y == [x.to EXCEPT !.nCcalls = depth + 1, !.baseCcalls = depth + 1]
<1>1. \/ resume_error(t, co, x.from, X)
      \/ resume([th EXCEPT ![t] = x.from], co, Y, D, n)
  BY Zenon DEF auxresume
<1>2. /\ Idles(t, co) /\ CRuns(t) /\ ~InHook /\ n <= th[t].top - th[t].base
      /\ ThreadOK(W, cst, co) /\ StateOK(W) /\ W.top + n < Slots /\ ~Top(W).lua
      /\ \/ W.status = "ok" /\ Len(W.ci) = 1 /\ W.top # W.base
         \/ W.status = "yield" /\ Suspended(W)
  BY IdlesFacts
<1> HIDE DEF depth
<1>3. /\ Mem(W) /\ Mem(th[t]) /\ W.top \in Nat /\ W.top <= Slots /\ W.top >= 2
      /\ W.top + n <= Slots
  <2>1. Mem(W) /\ Mem(th[t])
    BY <1>2, DataAt DEF ThreadOK, Idles
  <2>2. W.top \in Nat /\ W.top <= Slots /\ W.top >= 2
    BY <2>1, MemFacts
  <2> HIDE DEF W
  <2> QED
    BY <1>2, <2>1, <2>2, Sizes
<1>4. Clean(A) /\ A.top = W.top /\ Settled(W, cst, co)
  <2>1. Settled(W, cst, co) /\ IsSeq(cst)
    BY <1>2 DEF Idles, Settled
  <2> HIDE DEF W
  <2>2. ThreadOK(A, cst, co) /\ A.top = W.top
    BY <1>2, <1>3, <2>1, CheckThread
  <2> QED
    BY <2>1, <2>2, MemFacts DEF ThreadOK
<1>5. /\ Edit(x.from, th[t], th[t].top - n) /\ x.from.top = th[t].top - n
      /\ Edit(x.to, A, A.top) /\ x.to.top = A.top + n
  <2> DEFINE K == th[t]
  <2>1. /\ Clean(K) /\ K.top <= Slots /\ K.top \in Nat /\ Top(K).base <= K.top
        /\ K.base \in 2 .. Slots
    BY <1>3, MemFacts DEF Mem, WindowOK
  <2>2. n <= K.top - K.base
    BY <1>2
  <2> HIDE DEF K, A, W
  <2>3. 1 <= K.top - n /\ A.top >= 1 /\ A.top + n <= Slots
    BY <1>3, <1>4, <2>1, <2>2, Sizes
  <2>4. x = lua_xmove(K, A, n)
    BY DEF K
  <2> HIDE DEF x
  <2>5. /\ Edit(x.from, K, K.top - n) /\ x.from.top = K.top - n
        /\ Edit(x.to, A, A.top) /\ x.to.top = A.top + n
    BY <1>4, <2>1, <2>3, <2>4, XmoveEdits
  <2> QED
    BY <2>5 DEF K
<1> HIDE DEF x
<1> DEFINE F == x.from
<1>6. ThreadOK(F, cst, t) /\ ~Top(F).lua
  <2> HIDE DEF F
  <2> DEFINE y == th[t].top - n
  <2>1. Edit(F, th[t], y) /\ F.top = y
    BY <1>5 DEF F
  <2>2. y = th[t].top - n
    OBVIOUS
  <2> HIDE DEF y
  <2>3. ThreadOK(F, cst, t) /\ Top(F) = Top(th[t]) /\ ~Top(th[t]).lua
    BY <1>2, <2>1, <2>2, GiveThread
  <2> QED
    BY <2>3
<1> DEFINE Z == x.to
<1>7. /\ ThreadOK(Z, cst, co) /\ Z.top = W.top + n /\ Z.top <= Slots
      /\ Top(Z).base = Top(W).base /\ ~Top(Z).lua /\ Len(Z.ci) = Len(W.ci)
      /\ \A j \in 1 .. Len(W.ci) : Z.ci[j].lua = W.ci[j].lua
  <2> HIDE DEF Z
  <2>1. Edit(Z, A, A.top) /\ Z.top = A.top + n
    BY <1>5 DEF Z
  <2>2. A = lua_checkstack(W, n) /\ W = th[co]
    OBVIOUS
  <2> HIDE DEF W, A
  <2> QED
    BY <1>2, <1>3, <2>1, <2>2, TakeThread
<1>8. DOMAIN Z = Fields /\ Z.status = W.status
  <2>1. DOMAIN Z = Fields
    BY <1>7 DEF ThreadOK, Mem
  <2>2. A.status = W.status
    <3> HIDE DEF W
    <3>1. IsSeq(cst)
      BY <1>2 DEF Idles
    <3> QED
      BY <1>2, <1>3, <1>4, <3>1, CheckThread
  <2>3. Z.status = A.status
    <3> HIDE DEF A
    <3> QED
      BY <1>5 DEF Edit, Kept
  <2> QED
    BY <2>1, <2>2, <2>3
<1> HIDE DEF A, Z
<1>9. X = [Z EXCEPT !.nCcalls = depth]
      /\ Y = [Z EXCEPT !.nCcalls = depth + 1, !.baseCcalls = depth + 1]
  BY DEF Z
<1> HIDE DEF X, Y
<1>10. CASE resume_error(t, co, F, X)
  <2>1. /\ DOMAIN X = Fields /\ X.stk = Z.stk /\ X.top = Z.top /\ X.ci = Z.ci
        /\ X.openupval = Z.openupval /\ X.base = Z.base /\ X.status = Z.status
        /\ X.errfunc = Z.errfunc /\ X.allowhook = Z.allowhook
    BY <1>8, <1>9 DEF Fields
  <2>2. ThreadOK(X, cst, co) /\ Top(X) = Top(Z)
    BY <1>7, <2>1, OtherThread
  <2>3. X.top < Slots
    BY <1>2, <1>7, <2>1
  <2> HIDE DEF F
  <2> QED
    BY <1>2, <1>6, <1>7, <1>10, <2>2, <2>3, RefuseData
<1>11. CASE resume([th EXCEPT ![t] = F], co, Y, D, n)
  <2>1. /\ DOMAIN Y = Fields /\ Y.stk = Z.stk /\ Y.top = Z.top /\ Y.ci = Z.ci
        /\ Y.openupval = Z.openupval /\ Y.base = Z.base /\ Y.status = Z.status
        /\ Y.errfunc = Z.errfunc /\ Y.allowhook = Z.allowhook
    BY <1>8, <1>9 DEF Fields
  <2>2. ThreadOK(Y, cst, co) /\ Top(Y) = Top(Z)
    BY <1>7, <2>1, OtherThread
  <2>3. Mem(Y) /\ Y.top = W.top + n /\ Y.top <= Slots /\ Y.status = W.status
        /\ Len(Y.ci) = Len(W.ci) /\ Top(Y).base = Top(W).base /\ ~Top(Y).lua
    BY <1>7, <1>8, <2>1, <2>2 DEF ThreadOK
  <2>4. Top(W).base \in Nat /\ Top(W).base <= W.top
    <3>1. Len(W.ci) \in 1 .. Len(W.ci) /\ Top(W) = W.ci[Len(W.ci)]
      BY <1>3, MemFacts DEF Top
    <3> HIDE DEF W
    <3> QED
      BY <1>3, <3>1, MemFacts
  <2> DEFINE ts == [th EXCEPT ![t] = F]
  <2>5. CASE Y.status = "ok"
    <3> DEFINE func == Y.top - n - 1
               nresults == -1
    <3>1. EnterLua(ts, co, Y, D, func, nresults, FALSE)
      BY <1>11, <2>5 DEF resume, MULTRET
    <3>2. Len(W.ci) = 1 /\ W.top # W.base
      BY <1>2, <2>3, <2>5
    <3>3. W.base = Top(W).base
      BY <1>3, <2>3, <2>5 DEF Mem, WindowOK, Top
    <3>4. Top(Y).base <= func
      <4> HIDE DEF W
      <4>1. Top(W).base < W.top
        BY <1>3, <2>4, <3>2, <3>3
      <4> QED
        BY <1>3, <2>3, <2>4, <4>1
    <3>5. Len(Y.ci) = 1
      BY <2>3, <3>2
    <3>6. func = Y.top - n - 1 /\ nresults = -1
      OBVIOUS
    <3> HIDE DEF func, nresults, F, W
    <3> QED
      BY <1>2, <1>6, <2>2, <2>3, <2>5, <3>1, <3>4, <3>5, <3>6, StartData
  <2>6. CASE Y.status # "ok"
    <3> DEFINE fr == Y.top - n
               B == luaD_poscall([Y EXCEPT !.status = "ok"], fr)
               d == Len(B.ci) - 1
    <3>1. Go(ts, co, AfterCall(B, Frame(Y).nresults), Executing(D, d))
      BY <1>11, <2>6 DEF resume
    <3>2. W.status = "yield" /\ Suspended(W)
      BY <1>2, <2>3, <2>6
    <3>3. Len(Y.ci) >= 3 /\ ~Y.ci[1].lua /\ Y.status = "yield"
      <4>1. Len(Y.ci) >= 3 /\ Y.status = "yield"
        BY <2>3, <3>2 DEF Suspended
      <4>2. ~W.ci[1].lua /\ 1 \in 1 .. Len(W.ci)
        BY <1>2, <1>3, MemFacts DEF StateOK
      <4> QED
        BY <1>7, <2>1, <4>1, <4>2
    <3>4. Top(Y).base <= fr /\ fr <= Y.top /\ fr \in Int
      <4> HIDE DEF W
      <4> QED
        BY <1>3, <2>3, <2>4
    <3> HIDE DEF fr, d, F, W
    <3> QED
      BY <1>2, <1>6, <2>2, <2>3, <3>1, <3>3, <3>4, WakeData
  <2> QED
    BY <2>5, <2>6
<1> QED
  BY <1>1, <1>10, <1>11 DEF X, Y

-----------------------------------------------------------------------------
(* New threads                                                             *)

(* lua_newthread makes a stack in order.                                   *)
LEMMA NewStateMem ==
  ASSUME NEW s \in {"ok", "none"}, NEW L, L = NewState(s)
  PROVE  /\ Mem(L) /\ L.top = 2 /\ Top(L).base = 2 /\ ~Top(L).lua
<1> DEFINE f == [func |-> 1, base |-> 2, top |-> 2 + LUA_MINSTACK, lua |-> FALSE,
                 nresults |-> 0, numparams |-> 0, is_vararg |-> FALSE, open |-> FALSE]
<1>1. /\ DOMAIN L = Fields /\ L.stk = [i \in Slot |-> Nil] /\ L.top = 2 /\ L.base = 2
      /\ L.ci = <<f>> /\ L.status = s /\ L.errfunc = 0 /\ L.openupval = <<>>
  BY DEF NewState, Fields
<1>2. f \in FrameType /\ FrameOK(f)
  <2>1. 1 \in Slot /\ 2 \in Slot /\ 2 + LUA_MINSTACK \in Slot /\ LUA_MINSTACK >= 1
        /\ LUA_MINSTACK \in Nat
    BY Sizes DEF Slot
  <2> QED
    BY <2>1 DEF FrameType, FrameOK
<1>3. f.base = 2 /\ ~f.lua
  OBVIOUS
<1> HIDE DEF f
<1>4. Len(L.ci) = 1 /\ L.ci[1] = f /\ L.ci \in Seq(FrameType)
  BY <1>1, <1>2
<1>5. Nested(L.ci)
  BY <1>2, <1>4 DEF Nested
<1>6. WindowOK(L)
  <2>1. 2 \in 2 .. Slots
    BY Sizes
  <2> QED
    BY <1>1, <1>3, <1>4, <2>1 DEF WindowOK
<1>7. NilAbove(L) /\ L.stk \in [Slot -> Value] /\ 0 \in 0 .. Slots
  BY <1>1, Sizes DEF NilAbove
<1>8. Sorted(L.openupval) /\ Owned(L)
  BY <1>1 DEF Sorted, Owned, Ups
<1> QED
  BY <1>1, <1>3, <1>4, <1>5, <1>6, <1>7, <1>8 DEF Mem, Top

(* Another thread that is not on the C stack changes.                      *)
LEMMA AtOther ==
  ASSUME NEW C, NEW t, NEW L, At(th, t, L, C), ChainOK(C), NEW M, ThreadOK(M, C, t),
         NEW co \in Thread, co # t, co \notin Running(C), NEW N, ThreadOK(N, C, co)
  PROVE  At([th EXCEPT ![co] = N], t, M, C)
<1> DEFINE ts == [th EXCEPT ![co] = N]
<1>1. DOMAIN th = Thread
  BY DEF At
<1>2. DOMAIN ts = Thread /\ ts[co] = N /\ \A s \in Thread \ {co} : ts[s] = th[s]
  BY <1>1, PutFacts
<1> HIDE DEF ts
<1>3. \A s \in Thread \ {t} : ThreadOK(ts[s], C, s)
  BY <1>2 DEF At
<1>4. ASSUME NEW j \in 1 .. Len(C), C[j].k = "resume"
      PROVE  C[j].from \in Thread \ {t} /\ ~Top(ts[C[j].from]).lua
  <2>1. C[j].from \in Thread \ {t} /\ ~Top(th[C[j].from]).lua
    BY <1>4 DEF At
  <2>2. j > 1 /\ C[j].from = C[j - 1].t
    BY <1>4, FromOther
  <2>3. j - 1 \in 1 .. Len(C)
    BY <2>2
  <2>4. C[j].from # co
    BY <2>2, <2>3 DEF Running
  <2> QED
    BY <1>2, <2>1, <2>4
<1>5. At(ts, t, M, C)
  BY <1>2, <1>3, <1>4 DEF At
<1> QED
  BY <1>5 DEF ts

(* luaB_cocreate.                                                          *)
LEMMA CreateData ==
  ASSUME NEW lev, Good(th, cst, pend, lev), Data(th, cst, pend), NEW t, NEW co,
         luaB_cocreate(t, co)
  PROVE  Data(th', cst', pend')
<1> DEFINE L == th[t]
           M == Push(L, Message)
           K == NewState("ok")
           N == Push(K, Message)
           ts == [th EXCEPT ![co] = N]
<1>1. /\ CRuns(t) /\ ~InHook /\ cst # <<>> /\ co \in Coroutine /\ th[co].status = "none"
      /\ L.top < Frame(L).top
      /\ th' = [th EXCEPT ![co] = N, ![t] = Push(@, Message)]
      /\ cst' = cst /\ pend' = pend
  BY Zenon DEF luaB_cocreate
<1>2. /\ At(th, t, L, cst) /\ pend = "none" /\ ChainOK(cst) /\ ThreadOK(L, cst, t)
      /\ IsSeq(cst) /\ Frame(L) = Top(L) /\ L.top \in Nat /\ L.status = "ok"
      /\ Top(L).top \in Nat /\ Top(L).top <= Slots /\ DOMAIN th = Thread /\ t \in Thread
      /\ cst[Len(cst)].k # "hook" /\ ~Top(L).lua
  BY <1>1, CAt DEF At
<1>3. co \in Thread /\ co # t /\ co \notin Running(cst)
  <2>1. StatusOK(th, cst)
    BY DEF Good
  <2>2. co \in Thread /\ "none" # "ok"
    BY <1>1 DEF Thread
  <2> QED
    BY <1>1, <1>2, <2>1, <2>2 DEF StatusOK
<1>4. th' = [ts EXCEPT ![t] = M]
  <2>1. ts[t] = L
    BY <1>2, <1>3
  <2> HIDE DEF N
  <2> QED
    BY <1>1, <2>1
<1>5. ThreadOK(M, cst, t) /\ Top(M) = Top(L)
  <2>1. L.top < Slots /\ Message \in Value
    BY <1>1, <1>2, Sizes
  <2> HIDE DEF L
  <2> QED
    BY <1>2, <2>1, PushThread
<1>6. ThreadOK(N, cst, co)
  <2>1. Mem(K) /\ K.top = 2
    BY NewStateMem
  <2> HIDE DEF K
  <2>2. ThreadOK(K, cst, co)
    BY <1>3, <2>1 DEF ThreadOK, Running
  <2>3. K.top < Slots /\ Message \in Value
    BY <2>1, Sizes
  <2> QED
    BY <1>2, <2>2, <2>3, PushThread
<1> HIDE DEF L, M, N, K
<1>7. At(ts, t, M, cst)
  BY <1>2, <1>3, <1>5, <1>6, AtOther
<1>8. LiveOK(M, cst, "none") /\ MessageOK(M, cst, t, "none")
  BY <1>2, <1>5 DEF LiveOK, MessageOK
<1> HIDE DEF ts
<1>9. Data([ts EXCEPT ![t] = M], cst, "none")
  BY <1>7, <1>8, AtData
<1> QED
  BY <1>1, <1>2, <1>4, <1>9

-----------------------------------------------------------------------------
(* The invariant                                                           *)

(* The initial state is in order.                                          *)
LEMMA InitData == Init => Data(th, cst, pend)
<1> SUFFICES ASSUME Init PROVE Data(th, cst, pend)
  OBVIOUS
<1>1. cst = <<>> /\ pend = "none" /\ DOMAIN th = Thread /\ Len(cst) = 0
  BY DEF Init
<1>2. ASSUME NEW t \in Thread PROVE ThreadOK(th[t], cst, t)
  <2> DEFINE s == IF t = Main THEN "ok" ELSE "none"
  <2>1. th[t] = NewState(s) /\ s \in {"ok", "none"}
    BY DEF Init
  <2> HIDE DEF s
  <2>2. Mem(th[t])
    BY <2>1, NewStateMem
  <2> QED
    BY <1>1, <2>2 DEF ThreadOK
<1>3. FloorsOK(cst) /\ HooksNest(cst) /\ Resumers(th, cst)
  BY <1>1 DEF FloorsOK, HooksNest, Resumers
<1>4. LiveOK(th[Cur(cst)], cst, pend) /\ MessageOK(th[Cur(cst)], cst, Cur(cst), pend)
  BY <1>1 DEF LiveOK, MessageOK
<1> QED
  BY <1>1, <1>2, <1>3, <1>4 DEF Data

(* The steps of Lua code.                                                  *)
LEMMA LuaStepData ==
  ASSUME NEW lev, Good(th, cst, pend, lev), Data(th, cst, pend), NEW t, LuaStep(t)
  PROVE  Data(th', cst', pend')
<1>1. ASSUME NEW v \in Stored, SetRegisters(t, v) PROVE Data(th', cst', pend')
  BY <1>1, SetRegistersData
<1>2. ASSUME NEW r \in Slot, NEW b \in 0 .. 2, NEW n \in Results, OP_CALL(t, r, b, n)
      PROVE  Data(th', cst', pend')
  BY <1>2, CallOpData
<1>3. ASSUME NEW r \in Slot, NEW b \in 0 .. 2, OP_TAILCALL(t, r, b) PROVE Data(th', cst', pend')
  BY <1>3, TailCallData
<1>4. ASSUME NEW r \in Slot, NEW b \in 0 .. 2, OP_RETURN(t, r, b) PROVE Data(th', cst', pend')
  BY <1>4, ReturnOpData
<1>5. ASSUME NEW r \in Slot, OP_CLOSURE(t, r) PROVE Data(th', cst', pend')
  BY <1>5, ClosureData
<1>6. ASSUME NEW r \in Slot, OP_CLOSE(t, r) PROVE Data(th', cst', pend')
  BY <1>6, CloseData
<1>7. ASSUME NEW r \in Slot, NEW b \in Results, OP_VARARG(t, r, b) PROVE Data(th', cst', pend')
  BY <1>7, VarargData
<1>8. ASSUME NEW r, callTMres(t, r) PROVE Data(th', cst', pend')
  BY <1>8, TMresData
<1>9. ASSUME NEW v \in Stored, OP_SETUPVAL(t, v) PROVE Data(th', cst', pend')
  BY <1>9, SetUpvalData
<1>10. CASE OP_SETLIST(t)
  BY <1>10, SetListData
<1>11. CASE callTM(t)
  BY <1>11, CallTMData
<1>12. CASE call_orderTM(t)
  BY <1>12, CompareData
<1>13. CASE LuaError(t)
  BY <1>13, LuaErrorData
<1>14. CASE luaD_callhook(t)
  BY <1>14, HookData
<1>15. CASE \E v \in Stored : SetRegisters(t, v) \/ OP_SETUPVAL(t, v)
  BY <1>1, <1>9, <1>15
<1>16. CASE \E r \in Slot, b \in 0 .. 2 :
              (\E n \in Results : OP_CALL(t, r, b, n)) \/ OP_TAILCALL(t, r, b) \/ OP_RETURN(t, r, b)
  <2>1. PICK r \in Slot, b \in 0 .. 2 :
          (\E n \in Results : OP_CALL(t, r, b, n)) \/ OP_TAILCALL(t, r, b) \/ OP_RETURN(t, r, b)
    BY <1>16
  <2> QED
    BY <1>2, <1>3, <1>4, <2>1
<1>17. CASE \E r \in Slot :
              OP_CLOSURE(t, r) \/ OP_CLOSE(t, r) \/ \E b \in Results : OP_VARARG(t, r, b)
  <2>1. PICK r \in Slot :
          OP_CLOSURE(t, r) \/ OP_CLOSE(t, r) \/ \E b \in Results : OP_VARARG(t, r, b)
    BY <1>17
  <2> QED
    BY <1>5, <1>6, <1>7, <2>1
<1>18. CASE \E r \in {Frame(th[t]).base} : callTMres(t, r)
  BY <1>8, <1>18
<1> QED
  BY <1>10, <1>11, <1>12, <1>13, <1>14, <1>15, <1>16, <1>17, <1>18, Zenon DEF LuaStep

(* The steps of C code.                                                    *)
LEMMA CStepData ==
  ASSUME NEW lev, Good(th, cst, pend, lev), Data(th, cst, pend), NEW t, CStep(t)
  PROVE  Data(th', cst', pend')
<1>1. ASSUME NEW v \in Stored, lua_push(t, v) PROVE Data(th', cst', pend')
  BY <1>1, PushData
<1>2. CASE lua_pop(t)
  BY <1>2, PopData
<1>3. ASSUME NEW a \in 0 .. 1, lua_call(t, a, 1) PROVE Data(th', cst', pend')
  BY <1>3, LuaCallData
<1>4. ASSUME NEW a \in 0 .. 1, NEW ef \in {0, Bottom(t)}, lua_pcall(t, a, MULTRET, ef)
      PROVE  Data(th', cst', pend')
  BY <1>4, LuaPcallData DEF MULTRET
<1>5. CASE lua_error(t)
  BY <1>5, ErrorData
<1>6. ASSUME NEW n \in 0 .. 1, CReturn(t, n) PROVE Data(th', cst', pend')
  BY <1>6, CReturnData
<1>7. CASE HookReturn(t)
  BY <1>7, HookReturnData
<1>8. ASSUME NEW co, luaB_cocreate(t, co) PROVE Data(th', cst', pend')
  BY <1>8, CreateData
<1>9. ASSUME NEW co, NEW n \in 0 .. 1, auxresume(t, co, n) PROVE Data(th', cst', pend')
  <2>1. n \in Nat
    BY <1>9
  <2> QED
    BY <1>9, <2>1, ResumeData
<1>10. ASSUME NEW n \in 0 .. 1, lua_yield(t, n) PROVE Data(th', cst', pend')
  BY <1>10, YieldData
<1>11. CASE \E v \in Stored : lua_push(t, v)
  BY <1>1, <1>11
<1>12. CASE \E a \in 0 .. 1 :
              \/ lua_call(t, a, 1)
              \/ \E ef \in {0, Bottom(t)} : lua_pcall(t, a, MULTRET, ef)
  <2>1. PICK a \in 0 .. 1 : \/ lua_call(t, a, 1)
                           \/ \E ef \in {0, Bottom(t)} : lua_pcall(t, a, MULTRET, ef)
    BY <1>12
  <2> QED
    BY <1>3, <1>4, <2>1
<1>13. CASE \E n \in 0 .. 1 : CReturn(t, n)
  BY <1>6, <1>13
<1>14. CASE \E co \in Coroutine :
              luaB_cocreate(t, co) \/ \E n \in 0 .. 1 : auxresume(t, co, n)
  <2>1. PICK co : luaB_cocreate(t, co) \/ \E n \in 0 .. 1 : auxresume(t, co, n)
    BY <1>14
  <2> QED
    BY <1>8, <1>9, <2>1
<1>15. CASE \E n \in 0 .. 1 : lua_yield(t, n)
  BY <1>10, <1>15
<1> QED
  BY <1>2, <1>5, <1>7, <1>11, <1>12, <1>13, <1>14, <1>15, Zenon DEF CStep

(* The invariant is inductive.                                             *)
LEMMA StackNext == StackInv /\ [Next]_cvars => StackInv'
<1> SUFFICES ASSUME StackInv, [Next]_cvars PROVE StackInv'
  OBVIOUS
<1>1. CallsInv /\ Data(th, cst, pend)
  BY DEF StackInv
<1>2. PICK lev \in [1 .. Len(cst) -> Nat] : Good(th, cst, pend, lev)
  BY <1>1 DEF CallsInv
<1>3. Data(th', cst', pend')
  <2>1. CASE luaG_errormsg
    BY <1>1, <1>2, <2>1, ErrorMsgData
  <2>2. CASE luaD_throw
    BY <1>1, <1>2, <2>2, ThrowData
  <2>3. ASSUME NEW t \in Thread, LuaStep(t) PROVE Data(th', cst', pend')
    BY <1>1, <1>2, <2>3, LuaStepData
  <2>4. ASSUME NEW t \in Thread, CStep(t) PROVE Data(th', cst', pend')
    BY <1>1, <1>2, <2>4, CStepData
  <2>5. CASE UNCHANGED cvars
    BY <1>1, <2>5 DEF cvars
  <2> QED
    BY <2>1, <2>2, <2>3, <2>4, <2>5 DEF Next
<1>4. CallsInv'
  BY <1>1, NextInv
<1> QED
  BY <1>3, <1>4 DEF StackInv, Data

-----------------------------------------------------------------------------
(* Theorems                                                                *)

(* Whatever Lua and C code do, the stack of every thread and the records   *)
(* of the activations on the C stack agree: the frames of a thread lie one *)
(* above the other, hooks and protected calls own the slots above those of *)
(* their callers, and what lua_pcall has kept is still in its place.       *)
THEOREM StackInvariance == Spec => []StackInv
<1>1. Init => StackInv
  BY InitInv, InitData DEF StackInv
<1> QED
  BY <1>1, StackNext, PTL DEF Spec

(* The windows of every lua_State lie inside its stack, one above the      *)
(* other (the lua_asserts on ci->top in luaD_precall).                     *)
THEOREM CallsTypes == Spec => []CallsTypeOK
<1>1. StackInv => CallsTypeOK
  <2> SUFFICES ASSUME StackInv PROVE CallsTypeOK
    OBVIOUS
  <2>1. PICK lev \in [1 .. Len(cst) -> Nat] : Good(th, cst, pend, lev)
    BY DEF StackInv, CallsInv
  <2>2. Data(th, cst, pend)
    BY DEF StackInv
  <2>3. pend \in {"none", "message", "ERRRUN", "ERRERR", "ERRMEM"}
    BY <2>1, <2>2 DEF Good, Data, Errors
  <2>4. ASSUME NEW t \in Thread, NEW L, L = th[t]
        PROVE  /\ L.status \in {"none", "ok", "yield", "dead"}
               /\ L.stk \in [Slot -> Val \cup {Nil}]
               /\ L.top \in 2 .. Slots /\ L.base \in 2 .. Slots
               /\ L.status # "yield" => L.base = Frame(L).base /\ L.base <= L.top
               /\ Len(L.ci) <= L.size_ci
               /\ \A i \in 1 .. Len(L.ci) :
                    /\ L.ci[i].func < L.ci[i].base /\ L.ci[i].base <= L.ci[i].top
                    /\ L.ci[i].top <= Slots
                    /\ i > 1 => L.ci[i - 1].base <= L.ci[i].func
    <3>1. StateOK(L) /\ Mem(L)
      BY <2>1, <2>2, <2>4 DEF Good, Data, ThreadOK
    <3>2. /\ L.status \in {"none", "ok", "yield", "dead"}
          /\ L.stk \in [Slot -> Val \cup {Nil}]
          /\ L.top \in 2 .. Slots /\ L.base \in 2 .. Slots
          /\ Len(L.ci) <= L.size_ci /\ Top(L).base <= L.top
          /\ L.status # "yield" => L.base = Top(L).base
      BY <3>1 DEF StateOK, Mem, WindowOK, Value, Top
    <3>3. Frame(L) = Top(L) /\ Len(L.ci) \in Nat
      BY <3>1, MemFacts
    <3>4. ASSUME NEW i \in 1 .. Len(L.ci)
          PROVE  /\ L.ci[i].func < L.ci[i].base /\ L.ci[i].base <= L.ci[i].top
                 /\ L.ci[i].top <= Slots
                 /\ i > 1 => L.ci[i - 1].base <= L.ci[i].func
      <4>1. i > 1 => i - 1 \in 1 .. Len(L.ci) /\ i - 1 < i
        BY <3>3
      <4>2. i > 1 => L.ci[i - 1].base <= L.ci[i].func
        BY <3>1, <4>1, FramesNested
      <4> QED
        BY <3>1, <4>2, MemFacts
    <3> QED
      BY <3>2, <3>3, <3>4
  <2>5. \A i \in 1 .. Len(cst) : cst[i].t \in Thread /\ cst[i].nexec \in Nat
    BY <2>1 DEF Good, ChainOK, ActsOK, ActOK
  <2> QED
    BY <2>3, <2>4, <2>5 DEF CallsTypeOK
<1> QED
  BY <1>1, StackInvariance, PTL

(* No slot above the top of a stack holds a value, whatever calls, errors  *)
(* and yields came before (checkrangeisnil in luaD_precall and             *)
(* luaD_reallocstack).                                                     *)
THEOREM StacksClear == Spec => []ClearAbove
<1>1. StackInv => ClearAbove
  <2> SUFFICES ASSUME StackInv, NEW t \in Thread, NEW i \in th[t].top .. Slots
               PROVE  th[t].stk[i] = Nil
    BY DEF ClearAbove
  <2>1. Mem(th[t])
    BY DEF StackInv, Data, ThreadOK
  <2>2. th[t].top \in Nat /\ th[t].top >= 2 /\ NilAbove(th[t])
    BY <2>1, MemFacts DEF Mem
  <2>3. i \in Slot /\ i >= th[t].top
    BY <2>2, Sizes DEF Slot
  <2> QED
    BY <2>2, <2>3 DEF NilAbove
<1> QED
  BY <1>1, StackInvariance, PTL

(* The open upvalues of a thread are ordered, and each is a register of a  *)
(* Lua function that is still active: luaF_close is called on every path   *)
(* out of a function, by a return, a tail call or an error.                *)
THEOREM UpvaluesActive == Spec => []UpvaluesInFrames
<1>1. StackInv => UpvaluesInFrames
  <2> SUFFICES ASSUME StackInv PROVE UpvaluesInFrames
    OBVIOUS
  <2> SUFFICES ASSUME NEW t \in Thread, NEW L, L = th[t],
                      NEW i \in 1 .. Len(L.openupval)
               PROVE  /\ i > 1 => L.openupval[i - 1] > L.openupval[i]
                      /\ \E j \in 1 .. Len(L.ci) :
                           /\ L.ci[j].lua /\ L.ci[j].base <= L.openupval[i]
                           /\ L.openupval[i] < (IF j < Len(L.ci) THEN L.ci[j + 1].func
                                                ELSE Slots + 1)
    BY DEF UpvaluesInFrames
  <2>1. Mem(L)
    BY DEF StackInv, Data, ThreadOK
  <2>2. Sorted(L.openupval) /\ Owned(L)
    BY <2>1 DEF Mem
  <2>3. Len(L.openupval) \in Nat
    BY <2>2 DEF Sorted
  <2>4. i > 1 => L.openupval[i - 1] > L.openupval[i]
    <3>1. i > 1 => i - 1 \in 1 .. Len(L.openupval) /\ i - 1 < i
      BY <2>3
    <3> QED
      BY <2>2, <3>1 DEF Sorted
  <2> DEFINE u == L.openupval[i]
  <2>5. u \in Ups(L) /\ u \in Slot
    BY <2>2 DEF Ups, Sorted
  <2>6. PICK j \in 1 .. Len(L.ci) : Owns(L, j, u)
    BY <2>2, <2>5 DEF Owned
  <2>7. u < Slots + 1
    BY <2>5, Sizes DEF Slot
  <2>8. /\ L.ci[j].lua /\ L.ci[j].base <= u
        /\ u < (IF j < Len(L.ci) THEN L.ci[j + 1].func ELSE Slots + 1)
    BY <2>6, <2>7 DEF Owns
  <2> QED
    BY <2>4, <2>8
<1> QED
  BY <1>1, StackInvariance, PTL

-----------------------------------------------------------------------------
(* A protected call gives its caller back what it had                      *)

(* The slots below the call are those of the record.                       *)
LEMMA KeptBack ==
  ASSUME NEW L, NEW e, e.k = "pcall", FloorOK(L, e), PcallRec(L, e),
         NEW stk \in [Slot -> Value], \A i \in Slot : i < e.oldtop => stk[i] = L.stk[i]
  PROVE  SubSeq(stk, e.oldtop - Len(e.keep), e.oldtop - 1) = e.keep
<1> DEFINE w == e.oldtop
           n == Len(e.keep)
           b == w - n
<1>1. b \in Slot /\ w \in Slot /\ b <= w /\ n \in Nat
  BY DEF FloorOK, PcallRec, Low, Floor
<1>2. \A i \in 1 .. n : e.keep[i] = L.stk[b + i - 1]
  BY DEF PcallRec, Low
<1>3. b \in Nat /\ w \in Nat /\ w - b = n
  <2> HIDE DEF w, n
  <2>1. w \in Nat /\ n \in Nat /\ b \in Nat /\ b = w - n
    BY <1>1, Sizes
  <2> HIDE DEF b
  <2> QED
    BY <2>1
<1> HIDE DEF b, w
<1>4. LET keep == SubSeq(stk, b, w - 1)
      IN /\ keep \in Seq(Value) /\ Len(keep) = w - b
         /\ \A i \in 1 .. Len(keep) : keep[i] = stk[b + i - 1]
  BY <1>1, KeepFacts
<1> DEFINE keep == SubSeq(stk, b, w - 1)
<1>5. keep \in Seq(Value) /\ Len(keep) = n /\ \A i \in 1 .. n : keep[i] = stk[b + i - 1]
  BY <1>3, <1>4
<1> HIDE DEF keep
<1>6. \A i \in 1 .. n : keep[i] = e.keep[i]
  <2> SUFFICES ASSUME NEW i \in 1 .. n PROVE stk[b + i - 1] = L.stk[b + i - 1]
    BY <1>2, <1>5
  <2> DEFINE j == b + i - 1
  <2>1. j \in Nat /\ b <= j /\ j < w
    BY <1>1, <1>3
  <2> HIDE DEF j
  <2>2. j \in Slot
    BY <1>1, <2>1, Sizes DEF Slot
  <2>3. stk[j] = L.stk[j]
    BY <2>1, <2>2 DEF w
  <2> QED
    BY <2>3 DEF j
<1>7. e.keep \in Seq(Value)
  BY DEF PcallRec
<1>8. IsSeq(keep) /\ IsSeq(e.keep)
  <2>1. ASSUME NEW s \in Seq(Value) PROVE IsSeq(s)
    BY DEF IsSeq
  <2> QED
    BY <1>5, <1>7, <2>1
<1>9. keep = e.keep
  BY <1>5, <1>6, <1>8, SeqSame
<1> QED
  BY <1>9 DEF keep, b, w

(* When the function that lua_pcall called returns, the calls that began   *)
(* inside it have ended, and hooks are as they were.                       *)
LEMMA CaughtSettings ==
  ASSUME NEW lev, Good(th, cst, pend, lev), Data(th, cst, pend),
         NEW n, n = Len(cst), n \in 1 .. Len(cst), cst[n].k = "pcall", NEW t, t = cst[n].t
  PROVE  /\ th[t].nCcalls - 1 = cst[n].nCcalls
         /\ th[t].allowhook = cst[n].allowhook
<1>1. t \in Thread /\ StateOK(th[t]) /\ ActOK(cst[n])
  BY DEF Good, ChainOK, ActsOK, ActOK
<1>2. th[t].nCcalls - 1 = cst[n].nCcalls
  <2> DEFINE p == n - 1
             c == Cardinality(CallsTo(cst, t, p))
  <2>1. p \in Nat /\ p + 1 = n /\ cst[p + 1].t = t /\ cst[p + 1].k \in Calling
    BY DEF Calling
  <2>2. t \in Running(cst)
    BY DEF Running
  <2>3. /\ th[t].nCcalls = th[t].baseCcalls + Cardinality(CallsTo(cst, t, n))
        /\ cst[n].nCcalls = th[t].baseCcalls + Cardinality(CallsTo(cst, t, p))
    BY <2>2 DEF Good, CountsOK
  <2> HIDE DEF p
  <2>4. c \in Nat /\ Cardinality(CallsTo(cst, t, p + 1)) = c + 1
    BY <2>1, CallsCount
  <2>5. th[t].baseCcalls \in Int
    BY <1>1 DEF StateOK
  <2> HIDE DEF c
  <2>6. th[t].nCcalls = th[t].baseCcalls + (c + 1) /\ cst[n].nCcalls = th[t].baseCcalls + c
    BY <2>1, <2>3, <2>4 DEF c
  <2> QED
    BY <2>4, <2>5, <2>6
<1>3. th[t].allowhook \in BOOLEAN /\ cst[n].allowhook \in BOOLEAN
  BY <1>1 DEF StateOK, ActOK
<1>4. ASSUME ~th[t].allowhook PROVE ~cst[n].allowhook
  <2>1. th[t].status = "ok"
    BY <1>1 DEF Good, StatusOK, Running
  <2>2. Has(cst, n, t, "hook")
    BY <1>1, <1>4, <2>1 DEF Good, SettingsOK
  <2>3. PICK i \in 1 .. n : cst[i].t = t /\ cst[i].k = "hook"
    BY <2>2 DEF Has
  <2>4. i # n
    BY <2>3
  <2>5. n \in i + 1 .. n
    BY <2>4
  <2>6. HooksNest(cst)
    BY DEF Data
  <2> QED
    BY <2>3, <2>5, <2>6 DEF HooksNest
<1>5. ASSUME ~cst[n].allowhook PROVE ~th[t].allowhook
  <2>1. Has(cst, n - 1, t, "hook")
    BY <1>5 DEF Good, SettingsOK
  <2>2. PICK i \in 1 .. n - 1 : cst[i].t = t /\ cst[i].k = "hook"
    BY <2>1 DEF Has
  <2>3. i \in 1 .. n
    BY <2>2
  <2>4. RecIn(th[t], cst, i)
    BY <1>1, <2>2, <2>3 DEF Data, ThreadOK
  <2> QED
    BY <2>2, <2>4 DEF RecIn
<1>6. th[t].allowhook = cst[n].allowhook
  BY <1>3, <1>4, <1>5
<1> QED
  BY <1>2, <1>6

(* The end of lua_pcall by an error.                                       *)
LEMMA ThrowRestores ==
  ASSUME NEW lev, Good(th, cst, pend, lev), Data(th, cst, pend), luaD_throw
  PROVE  PcallReturns
<1> DEFINE t == Cur(cst)
           d == CHOOSE i \in 1 .. Len(cst) :
                  /\ cst[i].k \in {"pcall", "resume"}
                  /\ \A j \in i + 1 .. Len(cst) : cst[j].k \notin {"pcall", "resume"}
           L == th[t]
           e == cst[d]
           m == e.ci
           w == e.oldtop
           M == Recover(L, e, pend)
<1>1. pend \in {"ERRRUN", "ERRERR", "ERRMEM"} /\ cst # <<>>
  BY ErrorPending
<1>2. Current = t
  BY CurrentThread
<1>3. /\ d \in 1 .. Len(cst) /\ Len(cst) \in Nat
      /\ \A i \in d .. Len(cst) : cst[i].t = t
  BY Caught, Zenon
<1>4. /\ cst' = SubSeq(cst, 1, d - 1)
      /\ e.k = "pcall" => th' = [th EXCEPT ![t] = Recover(L, e, pend)]
  BY <1>2, Throws, Zenon
<1> HIDE DEF d, t
<1>5. /\ d \in Nat /\ d >= 1 /\ d - 1 \in 0 .. Len(cst) /\ (d - 1) + 1 = d
      /\ d \in d .. Len(cst)
  BY <1>3
<1>6. At(th, t, L, cst) /\ L.status = "ok" /\ Mem(L) /\ IsSeq(cst)
  BY <1>1, DataAt DEF t
<1>7. Len(cst') = d - 1
  BY <1>4, <1>5, <1>6, SeqCut
<1>8. e.t = t /\ DOMAIN th = Thread /\ t \in Thread
  BY <1>3, <1>5, <1>6 DEF At
<1> SUFFICES ASSUME e.k = "pcall"
             PROVE  LET K == th'[t]
                    IN /\ Len(K.ci) = e.ci /\ K.base = Frame(K).base
                       /\ K.nCcalls = e.nCcalls /\ K.errfunc = e.errfunc
                       /\ K.allowhook = e.allowhook
                       /\ SubSeq(K.stk, e.oldtop - Len(e.keep), e.oldtop - 1) = e.keep
  BY <1>5, <1>7, <1>8 DEF PcallReturns
<1>9. th'[t] = M
  BY <1>4, <1>8
<1>10. RecIn(L, cst, d)
  BY <1>3, <1>6, <1>8 DEF At, ThreadOK
<1>11. m \in 1 .. Len(L.ci) /\ FloorOK(L, e) /\ PcallRec(L, e)
  <2>1. Guarded(e)
    BY DEF Guarded
  <2> HIDE DEF L
  <2> QED
    BY <1>10, <2>1 DEF RecIn, RecOK
<1>12. /\ w \in Slot /\ w < Slots /\ w <= L.top /\ L.ci[m].base <= w
       /\ e.errfunc \in 0 .. Slots
       /\ (m < Len(L.ci) => w <= L.ci[m + 1].func)
  <2>1. Floor(e) = w
    BY DEF Floor
  <2>2. w \in Slot /\ w < Slots /\ w <= L.top /\ e.errfunc \in 0 .. Slots
        /\ L.ci[m].base <= Low(e) /\ Low(e) <= w /\ Low(e) \in Slot
        /\ \A j \in m + 1 .. Len(L.ci) : w <= L.ci[j].func
    BY <1>11, <2>1 DEF FloorOK, PcallRec
  <2>3. L.ci[m].base \in Nat /\ Len(L.ci) \in Nat
    BY <1>6, <1>11, MemFacts
  <2> HIDE DEF L, m, w
  <2>4. Low(e) \in Nat /\ w \in Nat
    BY <2>2, Sizes
  <2>5. L.ci[m].base <= w
    BY <2>2, <2>3, <2>4
  <2>6. m < Len(L.ci) => m + 1 \in m + 1 .. Len(L.ci)
    BY <1>11, <2>3
  <2> QED
    BY <2>2, <2>5, <2>6
<1>13. /\ Down(M, L, m, w) /\ Top(M) = L.ci[m] /\ M.allowhook = e.allowhook
       /\ \A i \in Slot : i < w => M.stk[i] = L.stk[i]
       /\ M.base = L.ci[m].base /\ M.errfunc = e.errfunc /\ M.nCcalls = e.nCcalls
       /\ Len(M.ci) = m
  <2>1. m = e.ci /\ w = e.oldtop
    OBVIOUS
  <2>2. e.errfunc \in 0 .. Slots
    BY <1>12
  <2> HIDE DEF L, e, m, w
  <2>3. /\ m \in 1 .. Len(L.ci) /\ w \in Slot /\ w < Slots /\ w <= L.top
        /\ L.ci[m].base <= w /\ (m < Len(L.ci) => w <= L.ci[m + 1].func)
    BY <1>11, <1>12
  <2> QED
    BY <1>6, <2>1, <2>2, <2>3, RecoverDown
<1> HIDE DEF M
<1>14. M.stk \in [Slot -> Value]
  BY <1>13 DEF Down
<1>15. SubSeq(M.stk, e.oldtop - Len(e.keep), e.oldtop - 1) = e.keep
  <2> HIDE DEF L, e
  <2>1. e.k = "pcall" /\ FloorOK(L, e) /\ PcallRec(L, e)
    BY <1>11
  <2>2. \A i \in Slot : i < e.oldtop => M.stk[i] = L.stk[i]
    BY <1>13
  <2> QED
    BY <1>14, <2>1, <2>2, KeptBack
<1>16. Frame(M) = Top(M)
  BY <1>13 DEF Frame, Top, Last
<1> HIDE DEF e, L
<1>17. M.base = Frame(M).base
  BY <1>13, <1>16
<1> QED
  BY <1>9, <1>13, <1>15, <1>17

(* The end of lua_pcall by a return.                                       *)
LEMMA ReturnRestores ==
  ASSUME NEW lev, Good(th, cst, pend, lev), Data(th, cst, pend), pend = "none",
         cst # <<>>, NEW t, t = Cur(cst), NEW n, n = Len(cst), cst[n].k # "hook",
         NEW L, NEW fr, Leaving(L, t, fr), L.nCcalls = th[t].nCcalls,
         L.allowhook = th[t].allowhook,
         NEW x \in Nat, Len(L.ci) = lev[n] + x + 1,
         cst[n].nexec = IF isLua(L) THEN x + 1 ELSE x, Return(t, L, fr)
  PROVE  PcallReturns
<1> DEFINE P == luaD_poscall(L, fr)
           cs == IF isLua(L) THEN Executing(cst, -1) ELSE cst
           m == Len(L.ci) - 1
           e == cst[n]
           f == cs[n]
<1>1. /\ n \in Nat /\ n >= 1 /\ n \in 1 .. n /\ e.t = t
      /\ \A i \in 1 .. n : cst[i].ci = lev[i] /\ lev[i] \in Nat
  BY CurLevels
<1>2. /\ At(th, t, th[t], cst) /\ IsSeq(cst) /\ ActsOK(cst)
  BY DataAt DEF ChainOK
<1>3. DOMAIN th = Thread /\ t \in Thread
  BY <1>2 DEF At
<1>4. /\ IsSeq(cs) /\ Len(cs) = n /\ Last(cs) = f /\ f.nexec = x /\ f.k = e.k
      /\ e.k = "pcall" => f.errfunc = e.errfunc
  <2>1. CASE isLua(L)
    <3> DEFINE v == e.nexec - 1
               g == [e EXCEPT !.nexec = e.nexec + -1]
               z == [cst EXCEPT ![Len(cst)] = g]
    <3>1. cs = z
      BY <2>1 DEF Executing
    <3>2. {"k", "nexec"} \subseteq DOMAIN e /\ (e.k = "pcall" => "errfunc" \in DOMAIN e)
          /\ e.nexec \in Nat /\ e.nexec + -1 = x
      BY <1>1, <1>2, <2>1 DEF ActsOK, ActOK
    <3> HIDE DEF e
    <3>3. g.nexec = x /\ g.k = e.k /\ (e.k = "pcall" => g.errfunc = e.errfunc)
      BY <3>2
    <3> HIDE DEF g
    <3>4. IsSeq(z) /\ Len(z) = n /\ z[n] = g
      <4>1. IsSeq(cst) /\ Len(cst) = n /\ Len(cst) > 0
        BY <1>1, <1>2
      <4>2. ASSUME NEW s, IsSeq(s), Len(s) > 0
            PROVE  LET y == [s EXCEPT ![Len(s)] = g]
                   IN IsSeq(y) /\ Len(y) = Len(s) /\ y[Len(s)] = g
        BY <4>2, SeqSet
      <4>3. IsSeq(z) /\ Len(z) = Len(cst) /\ z[Len(cst)] = g
        BY <4>1, <4>2
      <4> QED
        BY <4>1, <4>3
    <3> HIDE DEF z, cs
    <3>5. Last(cs) = cs[n]
      BY <3>1, <3>4 DEF Last
    <3> QED
      BY <3>1, <3>3, <3>4, <3>5
  <2>2. CASE ~isLua(L)
    BY <1>1, <1>2, <2>2 DEF Last
  <2> QED
    BY <2>1, <2>2
<1>5. IF f.nexec = 0 THEN FinishCall(t, P, cs) ELSE cst' = cs
  BY <1>4 DEF Return, Go
<1> HIDE DEF cs
<1>6. CASE x # 0
  <2>1. Len(cst') = n
    BY <1>4, <1>5, <1>6
  <2> QED
    BY <1>1, <2>1 DEF PcallReturns
<1>7. CASE e.k # "pcall" /\ Len(cst') >= n - 1
  <2>1. Len(cst') < Len(cst) => Len(cst') + 1 = n
    BY <1>1, <1>7
  <2> QED
    BY <1>7, <2>1 DEF PcallReturns
<1>8. CASE x = 0
  <2>1. FinishCall(t, P, cs)
    BY <1>4, <1>5, <1>8
  <2>2. Len(Front(cs)) = n - 1 /\ Len(Front(cst)) = n - 1
    BY <1>1, <1>2, <1>4, SeqFront
  <2>3. Len(cst') = n - 1
    <3>1. f.k \in {"call", "pcall", "callTMres", "compare", "callTM", "handler", "resume"}
      BY <1>1, <1>2, <1>4, <1>8 DEF ActsOK, ActOK, Calling
    <3>2. cst' \in {Front(cs), Front(cst)}
      BY <1>4, <2>1, <3>1 DEF FinishCall, Go, EndComparison, Throw, EndResume
    <3> QED
      BY <2>2, <3>2
  <2>4. CASE e.k # "pcall"
    BY <1>1, <1>7, <2>3, <2>4
  <2>5. CASE e.k = "pcall"
    <3> DEFINE A == [P EXCEPT !.nCcalls = @ - 1]
               N == [A EXCEPT !.errfunc = f.errfunc]
               M == adjustresults(N, f)
    <3>1. Go(th, t, M, Front(cs))
      BY <1>4, <2>1, <2>5 DEF FinishCall
    <3>2. th'[t] = M
      BY <1>3, <3>1 DEF Go
    <3> SUFFICES /\ Len(M.ci) = e.ci /\ M.base = Frame(M).base
                 /\ M.nCcalls = e.nCcalls /\ M.errfunc = e.errfunc
                 /\ M.allowhook = e.allowhook
                 /\ SubSeq(M.stk, e.oldtop - Len(e.keep), e.oldtop - 1) = e.keep
      <4>1. (n - 1) + 1 = n
        BY <1>1
      <4>2. Len(cst') + 1 = n
        BY <2>3, <4>1
      <4>3. e.t = t
        BY <1>1
      <4> HIDE DEF M, N, P
      <4> QED
        BY <3>2, <4>2, <4>3 DEF PcallReturns
    <3>3. Mem(L) /\ fr \in Int /\ m \in Nat /\ m >= 1 /\ Len(L.ci) = m + 1
      <4>1. Mem(L) /\ Len(L.ci) >= 2
        BY DEF Leaving, ThreadOK
      <4>2. Len(L.ci) \in Nat
        BY <4>1, MemFacts
      <4>3. fr \in Int
        BY DEF Leaving
      <4>4. m \in Nat /\ m >= 1 /\ Len(L.ci) = m + 1
        BY <4>1, <4>2
      <4> QED
        BY <4>1, <4>3, <4>4
    <3>4. /\ DOMAIN P = Fields /\ P.base = L.ci[m].base /\ P.allowhook = L.allowhook
          /\ P.stk \in [Slot -> Value] /\ P.ci \in Seq(FrameType) /\ Len(P.ci) = m
          /\ P.ci[m] = L.ci[m]
          /\ \A i \in Slot : i < Top(L).func => P.stk[i] = L.stk[i]
      <4>1. m \in 1 .. m
        BY <3>3
      <4>2. Len(L.ci) - 1 = m
        OBVIOUS
      <4> HIDE DEF m
      <4> QED
        BY <3>3, <4>1, <4>2, PosCallFacts DEF Leaving
    <3>5. P.nCcalls = th[t].nCcalls
      <4>1. DOMAIN L = Fields
        BY <3>3 DEF Mem
      <4> QED
        BY <4>1 DEF luaD_poscall, Fields
    <3> HIDE DEF P, m
    <3>6. /\ DOMAIN N = Fields /\ N.base = P.base /\ N.allowhook = P.allowhook
          /\ N.stk = P.stk /\ N.ci = P.ci /\ N.nCcalls = P.nCcalls - 1
          /\ N.errfunc = f.errfunc
      BY <3>4 DEF Fields
    <3> HIDE DEF N
    <3>7. /\ M.base = N.base /\ M.allowhook = N.allowhook /\ M.stk = N.stk
          /\ M.nCcalls = N.nCcalls /\ M.errfunc = N.errfunc
          /\ Len(M.ci) = m /\ Frame(M).base = L.ci[m].base
      <4>1. IsSeq(N.ci) /\ Len(N.ci) = m /\ Len(N.ci) > 0 /\ Frame(N) = L.ci[m]
            /\ Frame(N) \in FrameType
        <5>1. m \in 1 .. m
          BY <3>3
        <5>2. IsSeq(P.ci)
          BY <3>4, SeqElements
        <5> QED
          BY <3>3, <3>4, <3>6, <5>1, <5>2 DEF Frame, Last
      <4>2. CASE M = N
        BY <3>6, <4>1, <4>2
      <4>3. CASE M # N
        <5> DEFINE g == [Frame(N) EXCEPT !.top = N.top]
                   z == [N.ci EXCEPT ![Len(N.ci)] = g]
        <5>1. M = [N EXCEPT !.ci = z]
          BY <4>3 DEF adjustresults, SetFrame
        <5>2. g.base = L.ci[m].base
          BY <4>1 DEF FrameType
        <5> HIDE DEF g
        <5>3. ASSUME NEW s, IsSeq(s), Len(s) > 0
              PROVE  LET y == [s EXCEPT ![Len(s)] = g]
                     IN IsSeq(y) /\ Len(y) = Len(s) /\ y[Len(s)] = g
          BY <5>3, SeqSet
        <5>4. Len(z) = m /\ z[m] = g
          BY <4>1, <5>3
        <5> HIDE DEF z, M
        <5>5. /\ M.base = N.base /\ M.allowhook = N.allowhook /\ M.stk = N.stk
              /\ M.nCcalls = N.nCcalls /\ M.errfunc = N.errfunc /\ M.ci = z
          BY <3>6, <5>1 DEF Fields
        <5>6. Frame(M) = g
          BY <5>4, <5>5 DEF Frame, Last
        <5> QED
          BY <5>2, <5>4, <5>5, <5>6
      <4> QED
        BY <4>2, <4>3
    <3> HIDE DEF M
    <3>8. th[t].nCcalls - 1 = e.nCcalls /\ th[t].allowhook = e.allowhook
      BY <1>1, <2>5, CaughtSettings
    <3>9. L.allowhook = th[t].allowhook
      OBVIOUS
    <3>10. m = e.ci
      <4>1. Len(L.ci) = lev[n] + 1 /\ e.ci = lev[n] /\ lev[n] \in Nat
        BY <1>1, <1>8
      <4> QED
        BY <4>1 DEF m
    <3>11. RecOK(L, e, Until(L, cst, n))
      BY <1>1 DEF Leaving, ThreadOK, RecIn
    <3>12. FloorOK(L, e) /\ PcallRec(L, e)
      BY <2>5, <3>11 DEF RecOK, Guarded
    <3>13. \A i \in Slot : i < e.oldtop => M.stk[i] = L.stk[i]
      <4> SUFFICES ASSUME NEW i \in Slot, i < e.oldtop PROVE i < Top(L).func
        BY <3>4, <3>6, <3>7
      <4>1. Len(L.ci) \in m + 1 .. Len(L.ci) /\ Top(L) = L.ci[Len(L.ci)]
        BY <3>3 DEF Top
      <4>2. e.oldtop <= Top(L).func /\ e.oldtop \in Slot
        BY <2>5, <3>10, <3>12, <4>1 DEF FloorOK, Floor
      <4>3. Top(L).func \in Nat
        BY <3>3, <4>1, MemFacts
      <4>4. i \in Nat /\ e.oldtop \in Nat
        BY <4>2, Sizes
      <4> DEFINE w == e.oldtop
                 k == Top(L).func
      <4>5. i \in Nat /\ w \in Nat /\ k \in Nat /\ i < w /\ w <= k
        BY <4>2, <4>3, <4>4
      <4> HIDE DEF w, k
      <4>6. i < k
        BY <4>5
      <4> QED
        BY <4>6 DEF k
    <3>14. M.stk \in [Slot -> Value]
      BY <3>4, <3>6, <3>7
    <3> HIDE DEF e
    <3>15. SubSeq(M.stk, e.oldtop - Len(e.keep), e.oldtop - 1) = e.keep
      <4>1. e.k = "pcall"
        BY <2>5
      <4> QED
        BY <3>12, <3>13, <3>14, <4>1, KeptBack
    <3> QED
      BY <1>4, <2>5, <3>4, <3>5, <3>6, <3>7, <3>8, <3>9, <3>10, <3>15
  <2> QED
    BY <2>4, <2>5
<1> QED
  BY <1>6, <1>8

(* Counting functions keeps the C stack as deep as it is.                  *)
LEMMA ExecutingLen ==
  ASSUME NEW cs, IsSeq(cs), cs # <<>>, NEW d
  PROVE  Len(Executing(cs, d)) = Len(cs)
<1> DEFINE g == [cs[Len(cs)] EXCEPT !.nexec = @ + d]
<1>1. Len(cs) \in Nat /\ Len(cs) > 0
  BY DEF IsSeq
<1>2. Executing(cs, d) = [cs EXCEPT ![Len(cs)] = g]
  BY DEF Executing
<1> HIDE DEF g
<1> QED
  BY <1>1, <1>2, SeqSet

(* Entering a Lua function keeps the activations.                          *)
LEMMA EnterLuaLen ==
  ASSUME NEW ts, NEW t, NEW L, NEW cs, IsSeq(cs), cs # <<>>, NEW func, NEW k, NEW tail,
         EnterLua(ts, t, L, cs, func, k, tail)
  PROVE  Len(cst') = Len(cs)
<1>1. \A M, C : Go(ts, t, M, C) => cst' = C
  BY DEF Go
<1>2. \A M, e : Throw(ts, t, M, cs, e) => cst' = cs
  BY DEF Throw
<1>3. \A M : RunError(ts, t, M, cs) => cst' = cs
  BY <1>2, Zenon DEF RunError
<1>4. cst' = cs \/ cst' = Executing(cs, 1)
  BY <1>1, <1>2, <1>3 DEF EnterLua, WithCallInfo
<1> QED
  BY <1>4, ExecutingLen

(* A call adds an activation, or none.                                     *)
LEMMA PrecallLen ==
  ASSUME NEW ts, NEW t, NEW L, NEW cs, IsSeq(cs), cs # <<>>, NEW func, NEW k, NEW tail,
         luaD_precall(ts, t, L, cs, func, k, tail)
  PROVE  Len(cst') = Len(cs)
<1>1. \A M, C : Go(ts, t, M, C) => cst' = C
  BY DEF Go
<1>2. \A M, e : Throw(ts, t, M, cs, e) => cst' = cs
  BY DEF Throw
<1>3. \A M : RunError(ts, t, M, cs) => cst' = cs
  BY <1>2, Zenon DEF RunError
<1>4. ASSUME NEW M, EnterLua(ts, t, M, cs, func, k, tail) PROVE Len(cst') = Len(cs)
  BY <1>4, EnterLuaLen
<1>5. ASSUME NEW M, EnterC(ts, t, M, cs, func, k) PROVE Len(cst') = Len(cs)
  BY <1>1, <1>2, <1>3, <1>5 DEF EnterC, WithCallInfo
<1> QED
  BY <1>3, <1>4, <1>5, Zenon DEF luaD_precall

(* So does entering a function; a call from C makes it one deeper.         *)
LEMMA CallLen ==
  ASSUME NEW t, NEW L, NEW e, NEW func, NEW k, IsSeq(cst),
         luaD_call(t, L, cst, e, func, k)
  PROVE  Len(cst') = Len(cst) + 1
<1> DEFINE C == Append(cst, e)
<1>1. IsSeq(C) /\ C # <<>> /\ Len(C) = Len(cst) + 1
  BY SeqAppend
<1> HIDE DEF C
<1>2. \A M, x : Throw(th, t, M, C, x) => cst' = C
  BY DEF Throw
<1>3. \A M : RunError(th, t, M, C) => cst' = C
  BY <1>2, Zenon DEF RunError
<1>4. cst' = C \/ \E M : luaD_precall(th, t, M, C, func, k, FALSE)
  BY <1>2, <1>3, Zenon DEF luaD_call, C
<1>5. ASSUME NEW M, luaD_precall(th, t, M, C, func, k, FALSE) PROVE Len(cst') = Len(C)
  BY <1>1, <1>5, PrecallLen
<1> QED
  BY <1>1, <1>4, <1>5

(* A step that leaves no C code ends no protected call.                    *)
LEMMA Stays ==
  ASSUME Len(cst) \in Nat, Len(cst') = Len(cst) \/ Len(cst') = Len(cst) + 1
  PROVE  PcallReturns
BY DEF PcallReturns

(* The end of an activation that is none of lua_pcall.                     *)
LEMMA OtherEnds ==
  ASSUME IsSeq(cst), cst # <<>>, cst[Len(cst)].k # "pcall", cst' = Front(cst)
  PROVE  PcallReturns
<1>1. Len(cst) \in Nat /\ Len(cst) > 0
  BY DEF IsSeq
<1>2. Len(cst') + 1 = Len(cst)
  BY <1>1, SeqFront
<1> QED
  BY <1>2 DEF PcallReturns

(* The steps of Lua code.                                                  *)
LEMMA LuaStepRestores ==
  ASSUME NEW lev, Good(th, cst, pend, lev), Data(th, cst, pend), NEW t, LuaStep(t)
  PROVE  PcallReturns
<1>1. IsSeq(cst) /\ Len(cst) \in Nat
  BY DEF Good, ChainOK, IsSeq
<1>2. ASSUME NEW L, Go(th, t, L, cst) PROVE PcallReturns
  BY <1>1, <1>2, Stays DEF Go
<1>3. ASSUME NEW L, NEW e, NEW func, NEW k, luaD_call(t, L, cst, e, func, k)
      PROVE  PcallReturns
  BY <1>1, <1>3, CallLen, Stays
<1>4. ASSUME NEW v, SetRegisters(t, v) \/ OP_SETUPVAL(t, v) PROVE PcallReturns
  BY <1>2, <1>4, Zenon DEF SetRegisters, OP_SETUPVAL
<1>5. ASSUME NEW r, OP_CLOSURE(t, r) \/ OP_CLOSE(t, r) PROVE PcallReturns
  BY <1>2, <1>5, Zenon DEF OP_CLOSURE, OP_CLOSE
<1>6. ASSUME NEW r, NEW b, OP_VARARG(t, r, b) PROVE PcallReturns
  BY <1>2, <1>6, Zenon DEF OP_VARARG
<1>7. ASSUME NEW r, NEW b, NEW k, OP_CALL(t, r, b, k) \/ OP_TAILCALL(t, r, b)
      PROVE  PcallReturns
  <2>1. LuaRuns(t)
    BY <1>7, Zenon DEF OP_CALL, OP_TAILCALL
  <2>2. cst # <<>>
    BY <2>1, LuaAt
  <2>3. ASSUME NEW L, NEW tail, NEW m, luaD_precall(th, t, L, cst, r, m, tail)
        PROVE  PcallReturns
    BY <1>1, <2>2, <2>3, PrecallLen, Stays
  <2> QED
    BY <1>7, <2>3, Zenon DEF OP_CALL, OP_TAILCALL
<1>8. ASSUME NEW r \in Slot, NEW b \in 0 .. 2, OP_RETURN(t, r, b) PROVE PcallReturns
  <2>1. PICK L, x : Exits(t, L, r, x, lev)
    BY <1>8, ReturnOpExits
  <2> QED
    BY <2>1, ReturnRestores DEF Exits
<1>9. ASSUME NEW r, callTMres(t, r) PROVE PcallReturns
  BY <1>3, <1>9, Zenon DEF callTMres
<1>10. CASE OP_SETLIST(t)
  BY <1>2, <1>10, Zenon DEF OP_SETLIST
<1>11. CASE callTM(t) \/ call_orderTM(t)
  BY <1>3, <1>11, Zenon DEF callTM, call_orderTM
<1>12. CASE LuaError(t)
  <2>1. cst' = cst
    BY <1>12 DEF LuaError, RunError, Throw
  <2> QED
    BY <1>1, <2>1, Stays
<1>13. CASE luaD_callhook(t)
  <2>1. PICK e : cst' = Append(cst, e)
    BY <1>13, Zenon DEF luaD_callhook, Go
  <2>2. Len(cst') = Len(cst) + 1
    BY <1>1, <2>1, SeqAppend
  <2> QED
    BY <1>1, <2>2, Stays
<1>14. CASE \E v \in Stored : SetRegisters(t, v) \/ OP_SETUPVAL(t, v)
  BY <1>4, <1>14
<1>15. CASE \E r \in Slot, b \in 0 .. 2 :
              (\E k \in Results : OP_CALL(t, r, b, k)) \/ OP_TAILCALL(t, r, b) \/ OP_RETURN(t, r, b)
  <2>1. PICK r \in Slot, b \in 0 .. 2 :
          (\E k \in Results : OP_CALL(t, r, b, k)) \/ OP_TAILCALL(t, r, b) \/ OP_RETURN(t, r, b)
    BY <1>15
  <2> QED
    BY <1>7, <1>8, <2>1
<1>16. CASE \E r \in Slot :
              OP_CLOSURE(t, r) \/ OP_CLOSE(t, r) \/ \E b \in Results : OP_VARARG(t, r, b)
  <2>1. PICK r \in Slot :
          OP_CLOSURE(t, r) \/ OP_CLOSE(t, r) \/ \E b \in Results : OP_VARARG(t, r, b)
    BY <1>16
  <2> QED
    BY <1>5, <1>6, <2>1
<1>17. CASE \E r \in {Frame(th[t]).base} : callTMres(t, r)
  BY <1>9, <1>17
<1> QED
  BY <1>10, <1>11, <1>12, <1>13, <1>14, <1>15, <1>16, <1>17, Zenon DEF LuaStep

(* The steps of C code.                                                    *)
LEMMA CStepRestores ==
  ASSUME NEW lev, Good(th, cst, pend, lev), Data(th, cst, pend), NEW t, CStep(t)
  PROVE  PcallReturns
<1>1. IsSeq(cst) /\ Len(cst) \in Nat
  BY DEF Good, ChainOK, IsSeq
<1>2. ASSUME NEW L, Go(th, t, L, cst) PROVE PcallReturns
  BY <1>1, <1>2, Stays DEF Go
<1>3. ASSUME NEW L, NEW e, NEW func, NEW k, luaD_call(t, L, cst, e, func, k)
      PROVE  PcallReturns
  BY <1>1, <1>3, CallLen, Stays
<1>4. ASSUME NEW v, lua_push(t, v) PROVE PcallReturns
  BY <1>2, <1>4, Zenon DEF lua_push
<1>5. CASE lua_pop(t)
  BY <1>2, <1>5, Zenon DEF lua_pop
<1>6. ASSUME NEW a, NEW ef, lua_call(t, a, 1) \/ lua_pcall(t, a, MULTRET, ef)
      PROVE  PcallReturns
  BY <1>3, <1>6, Zenon DEF lua_call, lua_pcall
<1>7. CASE lua_error(t)
  <2>1. cst' = cst
    BY <1>7 DEF lua_error, Throw
  <2> QED
    BY <1>1, <2>1, Stays
<1>8. ASSUME NEW k \in 0 .. 1, CReturn(t, k) PROVE PcallReturns
  <2>1. PICK L, fr, x : Exits(t, L, fr, x, lev)
    BY <1>8, CReturnExits
  <2> QED
    BY <2>1, ReturnRestores DEF Exits
<1>9. CASE HookReturn(t)
  <2>1. CRuns(t) /\ InHook /\ cst' = Front(cst)
    BY <1>9 DEF HookReturn, Go
  <2>2. cst # <<>> /\ cst[Len(cst)].k = "hook"
    BY <2>1, CAt
  <2> QED
    BY <1>1, <2>1, <2>2, OtherEnds
<1>10. ASSUME NEW co, luaB_cocreate(t, co) PROVE PcallReturns
  <2>1. cst' = cst
    BY <1>10 DEF luaB_cocreate
  <2> QED
    BY <1>1, <2>1, Stays
<1>11. ASSUME NEW co, NEW k, auxresume(t, co, k) PROVE PcallReturns
  <2> DEFINE C == Append(cst, [k |-> "resume", t |-> co, nexec |-> 0, ci |-> 1, from |-> t])
  <2>1. IsSeq(C) /\ C # <<>> /\ Len(C) = Len(cst) + 1
    BY <1>1, SeqAppend
  <2>2. \/ cst' = cst
        \/ \E ts, L : resume(ts, co, L, C, k)
    BY <1>11, Zenon DEF auxresume, resume_error, Go
  <2> HIDE DEF C
  <2>3. ASSUME NEW ts, NEW L, resume(ts, co, L, C, k) PROVE Len(cst') = Len(cst) + 1
    <3>1. CASE L.status = "ok"
      <4> DEFINE w == L.top - k - 1
      <4>1. EnterLua(ts, co, L, C, w, MULTRET, FALSE)
        BY <2>3, <3>1 DEF resume
      <4> HIDE DEF w
      <4>2. Len(cst') = Len(C)
        BY <2>1, <4>1, EnterLuaLen
      <4> QED
        BY <2>1, <4>2
    <3>2. CASE L.status # "ok"
      <4>1. PICK d : cst' = Executing(C, d)
        BY <2>3, <3>2, Zenon DEF resume, Go
      <4> QED
        BY <2>1, <4>1, ExecutingLen
    <3> QED
      BY <3>1, <3>2
  <2> QED
    BY <1>1, <2>2, <2>3, Stays
<1>12. ASSUME NEW k \in 0 .. 1, lua_yield(t, k) PROVE PcallReturns
  <2>1. CRuns(t) /\ ~InHook
    BY <1>12 DEF lua_yield
  <2>2. cst' = cst \/ (cst' = Front(cst) /\ ~(th[t].nCcalls > th[t].baseCcalls))
    BY <1>12 DEF lua_yield, RunError, Throw, EndResume
  <2>3. CASE cst' = cst
    BY <1>1, <2>3, Stays
  <2>4. CASE cst' = Front(cst) /\ ~(th[t].nCcalls > th[t].baseCcalls)
    <3>1. cst # <<>> /\ cst[Len(cst)].k = "resume"
      BY <1>12, <2>4, YieldEnds
    <3> QED
      BY <1>1, <2>4, <3>1, OtherEnds
  <2> QED
    BY <2>2, <2>3, <2>4
<1>13. CASE \E v \in Stored : lua_push(t, v)
  BY <1>4, <1>13
<1>14. CASE \E a \in 0 .. 1 :
              \/ lua_call(t, a, 1)
              \/ \E ef \in {0, Bottom(t)} : lua_pcall(t, a, MULTRET, ef)
  BY <1>6, <1>14
<1>15. CASE \E k \in 0 .. 1 : CReturn(t, k)
  BY <1>8, <1>15
<1>16. CASE \E co \in Coroutine :
              luaB_cocreate(t, co) \/ \E k \in 0 .. 1 : auxresume(t, co, k)
  BY <1>10, <1>11, <1>16
<1>17. CASE \E k \in 0 .. 1 : lua_yield(t, k)
  BY <1>12, <1>17
<1> QED
  BY <1>5, <1>7, <1>9, <1>13, <1>14, <1>15, <1>16, <1>17, Zenon DEF CStep

(* When lua_pcall ends, by a return or by an error, its caller has the     *)
(* stack below the call, the call depth, the error handler and the hook    *)
(* setting that it had before (luaD_pcall, luaD_rawrunprotected).          *)
THEOREM PcallRestored == Spec => PcallRestores
<1>1. StackInv /\ [Next]_cvars => [PcallReturns]_cvars
  <2> SUFFICES ASSUME StackInv, Next PROVE PcallReturns
    OBVIOUS
  <2>1. PICK lev \in [1 .. Len(cst) -> Nat] : Good(th, cst, pend, lev)
    BY DEF StackInv, CallsInv
  <2>2. Data(th, cst, pend)
    BY DEF StackInv
  <2>3. CASE luaG_errormsg
    <3>1. IsSeq(cst) /\ Len(cst) \in Nat
      BY <2>1 DEF Good, ChainOK, IsSeq
    <3>2. \/ Len(cst') = Len(cst)
          \/ \E t, L, e, func, k : luaD_call(t, L, cst, e, func, k)
      BY <2>3, Zenon DEF luaG_errormsg, Throw
    <3> QED
      BY <3>1, <3>2, CallLen, Stays
  <2>4. CASE luaD_throw
    BY <2>1, <2>2, <2>4, ThrowRestores
  <2>5. ASSUME NEW t \in Thread, LuaStep(t) \/ CStep(t) PROVE PcallReturns
    BY <2>1, <2>2, <2>5, LuaStepRestores, CStepRestores
  <2> QED
    BY <2>3, <2>4, <2>5, Zenon DEF Next
<1> QED
  BY <1>1, StackInvariance, PTL DEF Spec, PcallRestores

=============================================================================
