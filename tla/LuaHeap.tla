------------------------------- MODULE LuaHeap ------------------------------
(***************************************************************************)
(* The whole memory manager: the reference counting of RefCount together   *)
(* with the incremental mark-and-sweep collector of lgc.c.  Lua code (and  *)
(* every release it causes) interleaves with the single steps of the       *)
(* collector; a store into a black object goes through a write barrier;    *)
(* luarc_free* unlinks what it frees from the collector's lists; the sweep *)
(* frees dead objects without touching the counts of what they refer to.   *)
(*                                                                         *)
(* Lists whose order no property can tell apart are sets (gray, grayagain, *)
(* weak, tmudata, and `unswept' for the part of rootgc after sweepgc).     *)
(***************************************************************************)
EXTENDS RefCount

CONSTANTS Table,      \* tables; Main is a thread, the others are closures
          Udata,      \* userdata
          WeakTable,  \* tables whose metatable says __mode = "v"
          GlobalFld,  \* Main's globals, registry and basic metatables
          NestedGC,   \* may a finalizer run collector steps?
          BarrierLost, \* may a store that begins a release go without its barrier?
          MaxRef      \* bound: stores stop when a count has reached it

ASSUME KindAssumption ==
  /\ Table \subseteq Obj \ {Main} /\ WeakTable \subseteq Table
  /\ Udata \subseteq (Obj \ {Main}) \ Table /\ GcObj \subseteq Udata
  /\ GlobalFld \subseteq Fld /\ NestedGC \in BOOLEAN /\ BarrierLost \in {FALSE, Errors}
  /\ MaxRef \in Nat

VARIABLES color, gcstate,
          gray, grayagain, weak,   \* objects to traverse, again, and to clear
          pending,                 \* slots of weak tables cleartable has to visit
          unswept,                 \* objects between sweepgc and the end of rootgc
          tmudata,                 \* userdata waiting for the finalize phase
          full,                    \* "no", or the half luaC_fullgc is in
          depth                    \* frames below the active atomic or luaC_fullgc

gcvars == <<color, gcstate, gray, grayagain, weak, pending,
            unswept, tmudata, full, depth>>
vars == <<rcvars, gcvars>>

(***************************************************************************)
(* Colours are relative to g->currentwhite: "white" is luaC_white(g) and   *)
(* "dead" is otherwhite(g).  iswhite() is true of both.                    *)
(***************************************************************************)
White(o) == color[o] \in {"white", "dead"}

(* cleartable runs inside atomic(), where gcstate is still GCSpropagate.   *)
Marking == gcstate \in {"propagate", "clear"}

HeapTypeOK ==
  /\ TypeOK
  /\ color \in [Obj -> {"white", "dead", "gray", "black"}]
  /\ gcstate \in {"pause", "propagate", "clear", "sweep", "finalize"}
  /\ gray \subseteq Obj /\ grayagain \subseteq Obj /\ weak \subseteq WeakTable
  /\ pending \subseteq WeakTable \X Fld
  /\ unswept \subseteq Obj /\ tmudata \subseteq GcObj
  /\ full \in {"no", "finish", "cycle"} /\ depth \in Nat

HeapInit ==
  /\ Init
  /\ color = [o \in Obj |-> "white"]
  /\ gcstate = "pause"
  /\ gray = {} /\ grayagain = {} /\ weak = {}
  /\ pending = {} /\ unswept = {} /\ tmudata = {} /\ full = "no"
  /\ depth = 0

(* atomic() or luaC_fullgc is running, and not inside a finalizer that it  *)
(* has called: the Lua code and the release below it wait.                 *)
Busy == Len(frames) = depth /\ (gcstate = "clear" \/ full # "no")

-----------------------------------------------------------------------------
(* Marking                                                                 *)

Children(o) == {fld[<<o, f>>] : f \in Fld} \ {Nil}

(* What traversing o marks: a table with weak values marks none, and the   *)
(* stack of the main thread holds the arguments of running finalizers.     *)
Traversed(o) ==
  IF o \in WeakTable THEN {}
  ELSE IF o = Main THEN Children(o) \cup {u \in Udata : st[u] = "finalizing"}
  ELSE Children(o)

(* The smallest set that contains S and, with each element of Via, the     *)
(* white objects it refers to.                                             *)
WhiteClosure(S, Via) ==
  {o \in Obj : \A C \in SUBSET Obj :
     S \subseteq C /\ (\A p \in C \cap Via : \A c \in Traversed(p) : White(c) => c \in C)
       => o \in C}

(* reallymarkobject of the white objects of S: userdata is blackened and   *)
(* its members are marked at once, anything else joins the gray list.      *)
Marked(S) == WhiteClosure({o \in S : White(o)}, Udata)

MarkColor(o) == IF o \in Udata THEN "black" ELSE "gray"

-----------------------------------------------------------------------------
(* Lua code and the collector's state                                      *)

(* Objects that luarc_free* takes off rootgc in this step.                 *)
Unlinked == {o \in Obj : st'[o] = "dying" /\ st[o] \in {"live", "finalizing"}}

(* Mutant: luarc_free* leaves the gray lists alone.                        *)
UngrayedNone == {}

(* Those it also takes off gray, grayagain or weak: gray ones, and only    *)
(* while marking.                                                          *)
Ungrayed == {o \in Unlinked : Marking /\ color[o] = "gray"}

(* The lists after the releases of this step, with `marked' added to gray  *)
(* and `pushed' to grayagain.                                              *)
Relist(marked, pushed) ==
  /\ gray' = (gray \ Ungrayed) \cup marked
  /\ grayagain' = (grayagain \ Ungrayed) \cup pushed
  /\ weak' = weak \ Ungrayed
  /\ unswept' = unswept \ Unlinked

(* Mutant: a store without luaC_barrier.                                   *)
BarrierMissing(p, v) ==
  /\ Relist({}, {})
  /\ UNCHANGED <<color, gcstate, pending, tmudata, full, depth>>

(* luaC_barrier and luaC_barriert after v was stored in p: a black table   *)
(* turns gray again; for any other black object the stored value is        *)
(* marked, or once marking is over the object itself is made white.        *)
WriteBarrier(p, v) ==
  LET needed  == v # Nil /\ color[p] = "black" /\ White(v)
      back    == needed /\ p \in Table
      forward == needed /\ p \notin Table
      marked  == IF forward /\ Marking THEN Marked({v}) ELSE {}
  IN /\ color' = [o \in Obj |->
           IF o \in marked THEN MarkColor(o)
           ELSE IF o = p /\ back THEN "gray"
           ELSE IF o = p /\ forward /\ ~Marking THEN "white"
           ELSE color[o]]
     /\ Relist(marked \ Udata, IF back THEN {p} ELSE {})
     /\ UNCHANGED <<gcstate, pending, tmudata, full, depth>>

(* A step without a barrier.  The colour of a free cell means nothing.     *)
NoBarrier ==
  /\ Relist({}, {})
  /\ color' = [o \in Obj |-> IF st'[o] = "free" THEN "white" ELSE color[o]]
  /\ UNCHANGED <<gcstate, pending, tmudata, full, depth>>

(* The barrier of a store comes after the release of the old value.  Where *)
(* the release ends, it could as well have come before, since no collector *)
(* step runs in between unless NestedGC; but an error of a finalizer that  *)
(* the release calls skips it, which BarrierLost lets any release do.      *)
Barrier(p, v) ==
  \E skipped \in {FALSE, BarrierLost /\ frames' # frames} :
    IF skipped THEN NoBarrier ELSE WriteBarrier(p, v)

HeapAssign(p, f, q, g) ==
  /\ fld[<<q, g>>] # Nil => ref[fld[<<q, g>>]] < MaxRef
  /\ Assign(p, f, q, g)
  /\ Barrier(p, fld[<<q, g>>])

HeapAssignArgument(p, f) == AssignArgument(p, f) /\ Barrier(p, Top)

HeapClear(p, f) == Clear(p, f) /\ NoBarrier

(* luaC_link gives a new object the current white.                         *)
HeapNew(o, s) ==
  /\ New(o, s)
  /\ color' = [color EXCEPT ![o] = "white"]
  /\ Relist({}, {})
  /\ UNCHANGED <<gcstate, pending, tmudata, full, depth>>

(* GCTM, called by luarc_freeudata, whitens the udata it puts back.        *)
HeapCallFinalizer ==
  /\ CallFinalizer
  /\ color' = [color EXCEPT ![Top] = "white"]
  /\ Relist({}, {})
  /\ UNCHANGED <<gcstate, pending, tmudata, full, depth>>

HeapRelease ==
  /\ \/ FinalizerReturn
     \/ \E f \in Fld : ReleaseMember(f)
     \/ FreeObject
  /\ NoBarrier

(* An error that leaves cleartable also leaves atomic(), with the collector *)
(* still in GCSpropagate, to run atomic() again; it leaves luaC_fullgc too. *)
HeapFinalizerError ==
  /\ FinalizerError
  /\ Relist({}, {})
  /\ IF Len(frames') <= depth
     THEN /\ gcstate' = IF gcstate = "clear" THEN "propagate" ELSE gcstate
          /\ pending' = {} /\ full' = "no" /\ depth' = 0
     ELSE UNCHANGED <<gcstate, pending, full, depth>>
  /\ UNCHANGED <<color, tmudata>>

-----------------------------------------------------------------------------
(* The collector: singlestep                                               *)

(* Steps run from luaC_checkGC and collectgarbage in Lua code; luaC_fullgc *)
(* runs them itself, not in the finalizers it calls.                       *)
CollectorMayRun ==
  /\ MutatorRuns
  /\ IF full = "no" THEN NestedGC \/ frames = <<>> ELSE Len(frames) = depth

(* The objects on the rootgc list.                                         *)
rootgc == {o \in Obj : st[o] \in {"live", "finalizing"}} \ tmudata

(* markroot: from GCSpause, or from luaC_fullgc once the pending sweep is  *)
(* over, in which case tmudata need not be empty.                          *)
MarkRoot ==
  /\ CollectorMayRun
  /\ gcstate = IF full = "finish" THEN "finalize" ELSE "pause"
  /\ full' = IF full = "finish" THEN "cycle" ELSE full
  /\ LET globals == {fld[<<Main, f>>] : f \in GlobalFld} \ {Nil}
         marked  == Marked({Main} \cup globals)
     IN /\ color' = [o \in Obj |-> IF o \in marked THEN MarkColor(o) ELSE color[o]]
        /\ gray' = marked \ Udata
  /\ grayagain' = {} /\ weak' = {}
  /\ gcstate' = "propagate"
  /\ UNCHANGED <<rcvars, pending, unswept, tmudata, depth>>

(* traversetable: does it link o into g->weak?                             *)
LinksWeak(o) == o \in WeakTable

(* propagatemark: threads and weak tables stay gray on a list of their own.*)
Propagate(o) ==
  /\ CollectorMayRun /\ gcstate = "propagate" /\ o \in gray
  /\ LET marked == Marked(Traversed(o))
     IN /\ color' = [a \in Obj |->
              IF a = o THEN (IF o = Main \/ LinksWeak(o) THEN "gray" ELSE "black")
              ELSE IF a \in marked THEN MarkColor(a) ELSE color[a]]
        /\ gray' = (gray \ {o}) \cup (marked \ Udata)
  /\ grayagain' = IF o = Main THEN grayagain \cup {o} ELSE grayagain
  /\ weak' = IF LinksWeak(o) THEN weak \cup {o} ELSE weak
  /\ UNCHANGED <<rcvars, gcstate, pending, unswept, tmudata, full, depth>>

(* Mutant: atomic forgets g->grayagain, but for the running thread.        *)
RemarkedOnce == weak \cup {Main}

(* The gray lists that atomic traverses once more, and the running thread. *)
Remarked == grayagain \cup weak \cup {Main}

(* luaC_separateudata, once the objects of `marked' are: the userdata that *)
(* gets FINALIZEDBIT, of which the part with a finalizer goes to tmudata.  *)
Separated(marked) ==
  {u \in Udata \cap rootgc : White(u) /\ u \notin marked /\ u \notin fin}

(* atomic, up to cleartable: the weak and the grayagain lists are          *)
(* traversed once more to the end, the white userdata with a finalizer     *)
(* moves to tmudata, and what tmudata reaches is marked as well.           *)
Atomic ==
  /\ CollectorMayRun /\ gcstate = "propagate" /\ gray = {}
  /\ LET first   == WhiteClosure(Remarked, Obj)
         dead    == Separated(first)
         waiting == tmudata \cup (dead \cap GcObj)
         all     == first \cup WhiteClosure(waiting, Obj)
     IN /\ fin' = fin \cup dead
        /\ tmudata' = waiting
        /\ color' = [o \in Obj |->
              IF o \notin all THEN color[o]
              ELSE IF o = Main \/ o \in WeakTable THEN "gray" ELSE "black"]
        /\ weak' = all \cap WeakTable
        /\ pending' = weak' \X Fld
  /\ grayagain' = {Main}
  /\ gcstate' = "clear"
  /\ depth' = Len(frames)
  /\ UNCHANGED <<st, fld, ref, frames, gray, unswept, full>>

(* Mutant: weak values are never cleared.                                  *)
isclearedNever(v) == FALSE

(* iscleared, for a value                                                  *)
iscleared(v) == v # Nil /\ (White(v) \/ (v \in Udata /\ v \in fin))

(* cleartable visits a slot: clearing it may release the object there.     *)
ClearSlot(x) ==
  /\ Len(frames) = depth /\ gcstate = "clear" /\ x \in pending
  /\ pending' = pending \ {x}
  /\ IF iscleared(fld[x])
     THEN /\ SetObj(st, ref, x[1], x[2], Nil)
          /\ Relist({}, {})
     ELSE UNCHANGED <<st, fld, ref, frames, gray, grayagain, weak, unswept>>
  /\ UNCHANGED <<fin, color, gcstate, tmudata, full, depth>>

(* Mutant: the whites are not exchanged.                                   *)
FlippedNot(c) == c

(* otherwhite(g) becomes the current white.                                *)
Flipped(c) ==
  IF c = "white" THEN "dead" ELSE IF c = "dead" THEN "white" ELSE c

(* The end of atomic: the whites are exchanged and the sweep starts.       *)
FlipWhite ==
  /\ Len(frames) = depth /\ gcstate = "clear" /\ pending = {}
  /\ color' = [o \in Obj |-> IF st[o] = "free" THEN "white" ELSE Flipped(color[o])]
  /\ unswept' = rootgc
  /\ gcstate' = "sweep"
  /\ depth' = IF full = "no" THEN 0 ELSE depth
  /\ UNCHANGED <<rcvars, gray, grayagain, weak, pending, tmudata, full>>

(* luaC_fullgc: a mark phase is abandoned, everything is swept, and so     *)
(* made white, and then a whole cycle runs.                                *)
FullGC ==
  /\ CollectorMayRun /\ full = "no" /\ gcstate # "clear"
  /\ full' = "finish" /\ depth' = Len(frames)
  /\ IF gcstate \in {"pause", "propagate"}
     THEN /\ gray' = {} /\ grayagain' = {} /\ weak' = {}
          /\ unswept' = rootgc
          /\ gcstate' = "sweep"
     ELSE UNCHANGED <<gray, grayagain, weak, unswept, gcstate>>
  /\ UNCHANGED <<rcvars, color, pending, tmudata>>

(* makewhite, of a survivor; the colour of a free cell means nothing.      *)
Swept(o) == "white"

(* sweeplist: a dead object is freed, and the counts of what it refers to  *)
(* are left as they are; any other is made white.                          *)
Sweep(o) ==
  /\ CollectorMayRun /\ gcstate = "sweep" /\ o \in unswept
  /\ unswept' = unswept \ {o}
  /\ IF color[o] = "dead"
     THEN /\ st' = [st EXCEPT ![o] = "free"]
          /\ fld' = [x \in Obj \X Fld |-> IF x[1] = o THEN Nil ELSE fld[x]]
          /\ ref' = [ref EXCEPT ![o] = 0]
          /\ fin' = fin \ {o}
     ELSE UNCHANGED <<st, fld, ref, fin>>
  /\ color' = [color EXCEPT ![o] = Swept(o)]
  /\ UNCHANGED <<frames, gcstate, gray, grayagain, weak,
                 pending, tmudata, full, depth>>

EndSweep ==
  /\ CollectorMayRun /\ gcstate = "sweep" /\ unswept = {}
  /\ gcstate' = "finalize"
  /\ UNCHANGED <<rcvars, color, gray, grayagain, weak, pending,
                 unswept, tmudata, full, depth>>

(* GCTM in GCSfinalize: the udata returns to rootgc, white, and is passed  *)
(* to its finalizer, which may keep it in a register or ignore it.  The    *)
(* body of the finalizer is ordinary Lua code; an error in it also ends    *)
(* luaC_fullgc.                                                            *)
CallGCTM(u) ==
  /\ CollectorMayRun /\ gcstate = "finalize" /\ full # "finish" /\ u \in tmudata
  /\ tmudata' = tmudata \ {u}
  /\ color' = [color EXCEPT ![u] = "white"]
  /\ \/ \E s \in Fld : fld[<<Main, s>>] = Nil /\ SetObj(st, ref, Main, s, u)
     \/ UNCHANGED <<st, fld, ref, frames>>
  /\ full' \in IF Errors THEN {full, "no"} ELSE {full}
  /\ depth' = IF full' = "no" THEN 0 ELSE depth
  /\ UNCHANGED <<fin, gcstate, gray, grayagain, weak, pending, unswept>>

EndCycle ==
  /\ CollectorMayRun /\ gcstate = "finalize" /\ tmudata = {} /\ full # "finish"
  /\ gcstate' = "pause"
  /\ full' = "no" /\ depth' = 0
  /\ UNCHANGED <<rcvars, color, gray, grayagain, weak, pending,
                 unswept, tmudata>>

-----------------------------------------------------------------------------
(* Between its finalizers, luaC_fullgc lets Lua code run only in GCTM.     *)
LuaRuns == ~Busy \/ (gcstate = "finalize" /\ full = "cycle")

Mutator ==
  /\ LuaRuns
  /\ \/ \E p, q \in Obj, f, g \in Fld : HeapAssign(p, f, q, g)
     \/ \E p \in Obj, f \in Fld : HeapClear(p, f)
     \/ \E p \in Obj, f \in Fld : HeapAssignArgument(p, f)
     \/ \E o \in Obj, s \in Fld : HeapNew(o, s)

Releases == ~Busy /\ (HeapCallFinalizer \/ HeapRelease \/ HeapFinalizerError)

Collector ==
  \/ MarkRoot
  \/ \E o \in Obj : Propagate(o)
  \/ Atomic
  \/ \E x \in pending : ClearSlot(x)
  \/ FlipWhite
  \/ \E o \in Obj : Sweep(o)
  \/ EndSweep
  \/ \E u \in GcObj : CallGCTM(u)
  \/ EndCycle

HeapNext == Mutator \/ Releases \/ Collector \/ FullGC

HeapSpec == HeapInit /\ [][HeapNext]_vars

(* Finalizers end, and allocation keeps calling luaC_step.                 *)
HeapFairness == SF_vars(Releases) /\ SF_vars(Collector)

FairHeapSpec == HeapSpec /\ HeapFairness

-----------------------------------------------------------------------------
(* Properties                                                              *)

(* Lua code never meets freed memory: every object that can be reached     *)
(* from the registers, the globals and the arguments of running finalizers *)
(* is allocated, whatever the interleaving of stores, releases and         *)
(* collector steps.                                                        *)
NoUseAfterFree ==
  \A o \in Obj : st[o] = "free" => ~Heap!Reachable(o)

(* A release never touches freed memory: an object whose luarc_free*       *)
(* activation is on the C stack, and everything it still refers to, is     *)
(* allocated.                                                              *)
ReleaseSafe ==
  \A i \in 1 .. Len(frames) :
    /\ st[frames[i]] # "free"
    /\ \A c \in Children(frames[i]) : st[c] # "free"

(* Dead objects the sweep has still to free.                               *)
Garbage == {o \in unswept : color[o] = "dead"}

(* Objects whose luarc_free* activation an error has unwound: they are on  *)
(* no list, and neither the counter nor the sweep comes back to them.      *)
Lost == {o \in Obj : st[o] = "dying" /\ \A i \in 1 .. Len(frames) : frames[i] # o}

(* Objects whose fields nobody reads again.                                *)
Stale == Garbage \cup Lost

(* The count of an object is at least the number of fields that refer to   *)
(* it, those of garbage and of lost objects aside: sweeping a dead         *)
(* referrer without luarc_subref, or what a lost one refers to, can delay  *)
(* a release but can never cause a premature one.                          *)
RefCovers ==
  \A o \in Obj : st[o] # "free" =>
    ref[o] >= Cardinality({x \in Holders(o) : x[1] \notin Stale}) + ArgumentCount(o)

(* While marking, no black object on rootgc refers to a white one:         *)
(* luaC_barrierf, luaC_barrierback and the barrier-free thread stacks keep *)
(* it so.  (Userdata in tmudata may be black from the last cycle: marktmu  *)
(* whitens and marks it again.)                                            *)
TriColor ==
  gcstate = "propagate" =>
    \A p \in rootgc : color[p] = "black" =>
      \A c \in Children(p) : ~White(c)

(* While marking, the gray lists hold exactly the gray objects, all of     *)
(* them allocated: luarc_free* unlinks what it frees, and nothing gray is  *)
(* forgotten by the atomic phase.                                          *)
GrayListed ==
  gcstate = "propagate" =>
    gray \cup grayagain \cup weak =
      {o \in Obj : st[o] \in {"live", "finalizing"} /\ color[o] = "gray"}

(* README: "The Mark/Sweep GC is used to reclaim garbage heap objects that *)
(* have circular reference".  An object Lua code can no longer reach is    *)
(* freed in the end, unless its finalizer makes it reachable again.        *)
CyclesReclaimed ==
  \A o \in Obj :
    (st[o] # "free" /\ ~Heap!Reachable(o)) ~> (st[o] = "free" \/ Heap!Reachable(o))
=============================================================================
