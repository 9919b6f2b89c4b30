------------------------------- MODULE GcLists ------------------------------
(***************************************************************************)
(* The linked lists of lgc.c, pointer by pointer: the doubly linked rootgc *)
(* list, the circular list of userdata that wait for their finalizer, and  *)
(* g->sweepgc, the address of the link the sweep reads next.  LuaHeap has  *)
(* these lists as sets; here luaC_link, luaS_newudata, the luarc_free*     *)
(* functions, luaC_separateudata, GCTM and sweeplist rewire them between   *)
(* the steps of a sweep.                                                   *)
(*                                                                         *)
(* What decides which objects are dead is not here: the atomic phase finds *)
(* any set of them dead, and any object may be released by its count.      *)
(***************************************************************************)
EXTENDS Integers, Sequences, FiniteSets

CONSTANTS Plain,       \* tables, closures, prototypes, threads, closed upvalues
          Udata,       \* userdata, all with a finalizer
          Main,        \* the main thread
          Nil,         \* NULL
          Errors       \* whether a finalizer may raise an error

Obj == Plain \cup Udata
Cell == Obj \cup {Main}

(* The address &g->rootgc; the address &o->next is written o.              *)
Root == "&rootgc"

ASSUME ListAssumption ==
  /\ Main \notin Obj /\ Nil \notin Cell /\ Root \notin Cell
  /\ Plain \cap Udata = {}
  /\ IsFiniteSet(Plain) /\ IsFiniteSet(Udata)
  /\ Errors \in BOOLEAN

VARIABLES next, prev,   \* the links in each object's header
          rootgc,       \* g->rootgc
          sweepgc,      \* g->sweepgc: Root or the object whose next it is
          tmudata,      \* g->tmudata: the last of the circular list, or Nil
          gcstate,      \* "mark", "sweep" or "finalize"; "closed" in the end
          dead,         \* objects with the other white
          fin,          \* userdata with FINALIZEDBIT
          place,        \* where each object is meant to be
          frames,       \* objects being released, innermost last
          full,         \* "no", or the half luaC_fullgc is in
          depth,        \* frames below the active luaC_fullgc
          closing       \* how far lua_close has come

vars == <<next, prev, rootgc, sweepgc, tmudata, gcstate, dead, fin, place,
          frames, full, depth, closing>>

(* "list": on rootgc.  "tmu": on tmudata.  "off": unlinked by a luarc_free*)
(* that has not freed it.  "lost": unlinked by one that never will, since *)
(* an error of a finalizer has unwound it.                                 *)
TypeOK ==
  /\ next \in [Cell -> Cell \cup {Nil}] /\ prev \in [Cell -> Cell \cup {Nil}]
  /\ rootgc \in Cell /\ sweepgc \in Cell \cup {Root}
  /\ tmudata \in Udata \cup {Nil}
  /\ gcstate \in {"mark", "sweep", "finalize", "closed"}
  /\ dead \subseteq Obj /\ fin \subseteq Udata
  /\ place \in [Obj -> {"free", "list", "tmu", "off", "lost"}]
  /\ frames \in Seq(Obj)
  /\ full \in {"no", "finish", "cycle"} /\ depth \in Nat /\ closing \in {"no", "separated", "finalizers"}

Init ==
  /\ next = [o \in Cell |-> Nil] /\ prev = [o \in Cell |-> Nil]
  /\ rootgc = Main /\ sweepgc = Root /\ tmudata = Nil
  /\ gcstate = "mark" /\ dead = {} /\ fin = {}
  /\ place = [o \in Obj |-> "free"]
  /\ frames = <<>> /\ full = "no" /\ depth = 0 /\ closing = "no"

Top == frames[Len(frames)]
Finalizing == {u \in Udata : place[u] = "list" /\ \E i \in 1 .. Len(frames) : frames[i] = u}

(* Lua code runs, at the bottom of the C stack or in a finalizer.          *)
LuaRuns ==
  /\ frames # <<>> => Top \in Finalizing
  /\ gcstate # "closed" /\ closing # "separated"
  /\ full = "no" \/ Len(frames) > depth \/ (full = "cycle" /\ gcstate = "finalize")

(* *p, for the address p of a link                                         *)
At(p) == IF p = Root THEN rootgc ELSE next[p]

(* The path from o along the links nx, Nil once it has ended, and the      *)
(* cells it comes to.                                                      *)
Path(nx, o) ==
  LET path[n \in 0 .. Cardinality(Cell)] ==
        IF n = 0 THEN o
        ELSE LET c == path[n - 1] IN IF c = Nil THEN Nil ELSE nx[c]
  IN path

Reached(nx, o) == {Path(nx, o)[n] : n \in 0 .. Cardinality(Cell)} \ {Nil}

(* What is on the circular list                                            *)
Tmudata == IF tmudata = Nil THEN {} ELSE Reached(next, next[tmudata])

-----------------------------------------------------------------------------
(* Linking                                                                 *)

(* luaC_link and luaC_linkupval: at the head of rootgc                     *)
Link(o) ==
  /\ LuaRuns /\ o \in Plain /\ place[o] = "free"
  /\ next' = [next EXCEPT ![o] = rootgc]
  /\ prev' = [prev EXCEPT ![o] = Nil, ![rootgc] = o]
  /\ rootgc' = o
  /\ place' = [place EXCEPT ![o] = "list"]
  /\ UNCHANGED <<sweepgc, tmudata, gcstate, dead, fin, frames, full, depth, closing>>

(* Mutant: the userdata behind the main thread is forgotten.               *)
NextAfterMainOnly(nx, u) == [nx EXCEPT ![u] = Nil, ![Main] = u]

(* The links after u is put behind the main thread, as luaS_newudata and   *)
(* GCTM do, from the links nx and pv.                                      *)
NextAfterMain(nx, u) == [nx EXCEPT ![u] = nx[Main], ![Main] = u]

PrevAfterMain(nx, pv, u) ==
  [o \in Cell |-> IF o = u THEN Main ELSE IF o = nx[Main] THEN u ELSE pv[o]]

(* luaS_newudata                                                           *)
NewUdata(u) ==
  /\ LuaRuns /\ u \in Udata /\ place[u] = "free"
  /\ next' = NextAfterMain(next, u)
  /\ prev' = PrevAfterMain(next, prev, u)
  /\ place' = [place EXCEPT ![u] = "list"]
  /\ fin' = fin \ {u}
  /\ UNCHANGED <<rootgc, sweepgc, tmudata, gcstate, dead, frames, full, depth, closing>>

-----------------------------------------------------------------------------
(* Releases                                                                *)

(* Mutant: the next object keeps its prev.                                 *)
PrevWithoutNot(o) == prev

(* The links without o: its neighbours are joined.                         *)
NextWithout(o) ==
  IF prev[o] = Nil THEN next ELSE [next EXCEPT ![prev[o]] = next[o]]

PrevWithout(o) ==
  IF next[o] = Nil THEN prev ELSE [prev EXCEPT ![next[o]] = prev[o]]

(* Mutants: g->sweepgc is left where it is, and moved past an object.       *)
AdjustedNot(o) == sweepgc
AdjustedPast(o) ==
  IF gcstate = "sweep" /\ sweepgc = o /\ next[o] # Nil THEN next[o] ELSE sweepgc

(* g->sweepgc once o is gone: it must not stay inside o.                   *)
Adjusted(o) ==
  IF gcstate = "sweep" /\ sweepgc = o
  THEN IF prev[o] = Nil THEN Root ELSE prev[o]
  ELSE sweepgc

(* luarc_freetable and its kin, up to the release of the members           *)
Unlink(o) ==
  /\ o \in Plain /\ place[o] = "list"
  /\ next' = NextWithout(o) /\ prev' = PrevWithout(o)
  /\ rootgc' = IF prev[o] = Nil THEN next[o] ELSE rootgc
  /\ sweepgc' = Adjusted(o)
  /\ place' = [place EXCEPT ![o] = "off"]
  /\ frames' = Append(frames, o)
  /\ UNCHANGED <<tmudata, gcstate, dead, fin, full, depth, closing>>

(* luarc_freeudata, up to the call of the finalizer: u is unlinked, put in *)
(* front of tmudata, taken from there by GCTM and linked behind the main   *)
(* thread.  g->sweepgc is not looked at yet.                               *)
CallFinalizer(u) ==
  /\ u \in Udata /\ place[u] = "list" /\ u \notin fin
  /\ fin' = fin \cup {u}
  /\ dead' = dead \ {u}
  /\ next' = NextAfterMain(NextWithout(u), u)
  /\ prev' = PrevAfterMain(NextWithout(u), PrevWithout(u), u)
  /\ frames' = Append(frames, u)
  /\ UNCHANGED <<rootgc, sweepgc, tmudata, gcstate, place, full, depth, closing>>

(* A member whose count reaches zero is released in a nested activation.   *)
Release(o) ==
  /\ LuaRuns \/ (frames # <<>> /\ place[Top] = "off")
  /\ Unlink(o) \/ CallFinalizer(o)

(* luarc_freeudata after the call                                          *)
UnlinkUdata ==
  /\ LuaRuns /\ frames # <<>>
  /\ next' = NextWithout(Top) /\ prev' = PrevWithout(Top)
  /\ sweepgc' = Adjusted(Top)
  /\ place' = [place EXCEPT ![Top] = "off"]
  /\ UNCHANGED <<rootgc, tmudata, gcstate, dead, fin, frames, full, depth, closing>>

(* luaM_free; the memory may be anything from now on.                      *)
Free ==
  /\ frames # <<>> /\ place[Top] = "off"
  /\ place' = [place EXCEPT ![Top] = "free"]
  /\ next' = [next EXCEPT ![Top] = Nil] /\ prev' = [prev EXCEPT ![Top] = Nil]
  /\ dead' = dead \ {Top}
  /\ frames' = SubSeq(frames, 1, Len(frames) - 1)
  /\ UNCHANGED <<rootgc, sweepgc, tmudata, gcstate, fin, full, depth, closing>>

Above(k) == {frames[i] : i \in k + 1 .. Len(frames)}

(* A finalizer raises an error.  It goes to a lua_pcall at the bottom of   *)
(* the C stack (k = 0; in lua_close, to the loop of it) or in the          *)
(* finalizer of frame k, and unwinds the luarc_free* in between: what they *)
(* have unlinked is on no list and freed by nobody.  A userdata whose      *)
(* finalizer ran stays on rootgc, with FINALIZEDBIT.  A luaC_fullgc that   *)
(* the lua_pcall is outside of is unwound too, in any of its states.       *)
FinalizerError(k) ==
  /\ Errors /\ LuaRuns /\ k \in 0 .. Len(frames)
  /\ k > 0 => frames[k] \in Finalizing
  /\ frames' = SubSeq(frames, 1, k)
  /\ place' = [o \in Obj |-> IF place[o] = "off" /\ o \in Above(k) THEN "lost" ELSE place[o]]
  /\ \/ k >= depth /\ UNCHANGED <<full, depth>>
     \/ k <= depth /\ full' = "no" /\ depth' = 0
  /\ UNCHANGED <<next, prev, rootgc, sweepgc, tmudata, gcstate, dead, fin, closing>>

-----------------------------------------------------------------------------
(* The collector                                                           *)

(* luaC_checkGC and collectgarbage call the collector from Lua code, a     *)
(* running luaC_fullgc calls it by itself.                                 *)
CollectorRuns == IF full = "no" THEN LuaRuns ELSE Len(frames) = depth

(* One turn of luaC_separateudata: the userdata behind c.at moves to the   *)
(* end of tmudata if it is in W, or else c.at moves on.  What moves keeps  *)
(* a stale prev.                                                           *)
SeparateNext(W, c) ==
  LET curr == c.next[c.at]
  IN IF curr = Nil THEN c
     ELSE IF curr \notin W THEN [c EXCEPT !.at = curr]
     ELSE LET after == c.next[curr]
              first == IF c.tmudata = Nil THEN curr ELSE c.next[c.tmudata]
          IN [next |-> [o \in Cell |-> IF o = curr THEN first
                                       ELSE IF o = c.at THEN after
                                       ELSE IF o = c.tmudata THEN curr ELSE c.next[o]],
              prev |-> [o \in Cell |-> IF o = after THEN c.prev[curr] ELSE c.prev[o]],
              tmudata |-> curr, at |-> c.at]

Unseparated == [next |-> next, prev |-> prev, tmudata |-> tmudata, at |-> Main]

(* luaC_separateudata, all its turns: there are not more than userdata.    *)
Separated(W) ==
  LET turn[n \in 0 .. Cardinality(Udata)] ==
        IF n = 0 THEN Unseparated ELSE SeparateNext(W, turn[n - 1])
  IN turn[Cardinality(Udata)]

Separate(W) ==
  LET s == Separated(W)
  IN /\ next' = s.next /\ prev' = s.prev /\ tmudata' = s.tmudata
     /\ fin' = fin \cup W
     /\ place' = [o \in Obj |-> IF o \in W THEN "tmu" ELSE place[o]]

(* atomic: D is what was not marked.  What waits in tmudata, and what a    *)
(* finalizer was called with, is marked.                                   *)
Atomic(D) ==
  /\ CollectorRuns
  /\ gcstate = IF full = "finish" THEN "finalize" ELSE "mark"
  /\ D \subseteq {o \in Obj : place[o] = "list"} \ Finalizing
  /\ Separate((D \cap Udata) \ fin)
  /\ dead' = D \ (Udata \ fin)
  /\ sweepgc' = Root
  /\ gcstate' = "sweep"
  /\ full' = IF full = "finish" THEN "cycle" ELSE full
  /\ UNCHANGED <<rootgc, frames, depth, closing>>

(* sweeplist, one object per step: *p is freed if it is dead, and then p   *)
(* stays; otherwise p moves on.  The sweep ends when *p is NULL.           *)
SweepStep ==
  /\ CollectorRuns /\ gcstate = "sweep"
  /\ LET curr == At(sweepgc)
     IN IF curr = Nil THEN UNCHANGED <<next, prev, rootgc, sweepgc, dead, place>>
        ELSE IF curr \in dead
        THEN /\ rootgc' = IF sweepgc = Root THEN next[curr] ELSE rootgc
             /\ next' = [o \in Cell |-> IF o = sweepgc THEN next[curr]
                                       ELSE IF o = curr THEN Nil ELSE next[o]]
             /\ prev' = [o \in Cell |-> IF o = next[curr] THEN prev[curr]
                                       ELSE IF o = curr THEN Nil ELSE prev[o]]
             /\ place' = [place EXCEPT ![curr] = "free"]
             /\ dead' = dead \ {curr}
             /\ UNCHANGED sweepgc
        ELSE sweepgc' = curr /\ UNCHANGED <<next, prev, rootgc, dead, place>>
  /\ gcstate' = IF (IF sweepgc' = Root THEN rootgc' ELSE next'[sweepgc']) = Nil
                THEN "finalize" ELSE "sweep"
  /\ UNCHANGED <<tmudata, fin, frames, full, depth, closing>>

(* GCTM: the first of tmudata goes back to rootgc, white.  It is called in *)
(* GCSfinalize, and by lua_close in any state.                             *)
GCTM ==
  /\ \/ CollectorRuns /\ gcstate = "finalize" /\ full # "finish"
     \/ closing # "no" /\ frames = <<>> /\ full = "no"
  /\ tmudata # Nil
  /\ LET u  == next[tmudata]
         nx == [next EXCEPT ![tmudata] = next[u]]
     IN /\ tmudata' = IF u = tmudata THEN Nil ELSE tmudata
        /\ next' = NextAfterMain(nx, u)
        /\ prev' = PrevAfterMain(nx, prev, u)
        /\ place' = [place EXCEPT ![u] = "list"]
        /\ dead' = dead \ {u}
  /\ closing' = IF closing = "separated" THEN "finalizers" ELSE closing
  /\ UNCHANGED <<rootgc, sweepgc, gcstate, fin, frames, full, depth>>

EndCycle ==
  /\ CollectorRuns /\ gcstate = "finalize" /\ full # "finish" /\ tmudata = Nil
  /\ gcstate' = "mark"
  /\ full' = "no" /\ depth' = 0
  /\ UNCHANGED <<next, prev, rootgc, sweepgc, tmudata, dead, fin, place, frames, closing>>

(* luaC_fullgc: a mark phase is given up, and the pending sweep finished.  *)
FullGC ==
  /\ CollectorRuns /\ full = "no"
  /\ full' = "finish" /\ depth' = Len(frames)
  /\ IF gcstate = "mark" THEN gcstate' = "sweep" /\ sweepgc' = Root
     ELSE UNCHANGED <<gcstate, sweepgc>>
  /\ UNCHANGED <<next, prev, rootgc, tmudata, dead, fin, place, frames, closing>>

(* lua_close: all userdata is separated, whatever the collector is doing.  *)
LuaClose ==
  /\ closing = "no" /\ frames = <<>> /\ full = "no"
  /\ Separate({u \in Udata : place[u] = "list"} \ fin)
  /\ closing' = "separated"
  /\ UNCHANGED <<rootgc, sweepgc, gcstate, dead, frames, full, depth>>

(* close_state: luaC_freeall sweeps rootgc down to the main thread.        *)
FreeAll ==
  /\ closing # "no" /\ frames = <<>> /\ full = "no" /\ tmudata = Nil /\ gcstate # "closed"
  /\ rootgc' = Main
  /\ next' = [o \in Cell |-> Nil] /\ prev' = [o \in Cell |-> Nil]
  /\ place' = [o \in Obj |-> IF o \in Reached(next, rootgc) THEN "free" ELSE place[o]]
  /\ dead' = {} /\ sweepgc' = Root
  /\ gcstate' = "closed"
  /\ UNCHANGED <<tmudata, fin, frames, full, depth, closing>>

-----------------------------------------------------------------------------
LuaCode == \E o \in Obj : Link(o) \/ NewUdata(o) \/ Release(o)

Releases == UnlinkUdata \/ Free \/ \E k \in 0 .. Len(frames) : FinalizerError(k)

Collector ==
  \/ \E D \in SUBSET Obj : Atomic(D)
  \/ SweepStep \/ GCTM \/ EndCycle \/ FullGC

Next == LuaCode \/ Releases \/ Collector \/ LuaClose \/ FreeAll

Spec == Init /\ [][Next]_vars

-----------------------------------------------------------------------------
(* Properties                                                              *)

(* rootgc and tmudata hold exactly the objects they should, each once, and *)
(* prev is the inverse of next all along rootgc: the unlinking code of     *)
(* luarc_free*, sweeplist and luaC_separateudata never drops, doubles or   *)
(* keeps an object, whatever lists it is spliced out of in between.        *)
ListsExact ==
  LET root == Path(next, rootgc)
  IN /\ Reached(next, rootgc) = {Main} \cup {o \in Obj : place[o] = "list"}
     /\ root[Cardinality(Cell)] = Nil
     /\ \A i \in 1 .. Cardinality(Cell) : root[i] # Nil => prev[root[i]] = root[i - 1]
     /\ Tmudata = {o \in Obj : place[o] = "tmu"}

(* During a sweep g->sweepgc is the address of a link of the list, never   *)
(* of one inside an object that luarc_free* has freed or is freeing.       *)
SweepInList ==
  gcstate = "sweep" /\ closing = "no" => sweepgc \in {Root, Main} \/ place[sweepgc] = "list"

(* A dead object lies ahead of g->sweepgc, so this sweep will free it: no  *)
(* adjustment of the pointer jumps over one.                               *)
DeadAhead ==
  gcstate = "sweep" /\ closing = "no" =>
    \A o \in dead : place[o] = "list" => o \in Reached(next, At(sweepgc))

(* lua_close frees every object but those that an error of a finalizer has *)
(* lost: close_state asserts that rootgc is down to the main thread and    *)
(* that no memory is left, and the second is true only without such errors *)
(* (README, known defects).                                                *)
CloseFreesAll ==
  gcstate = "closed" => \A o \in Obj : place[o] = "free" \/ (Errors /\ place[o] = "lost")
=============================================================================
