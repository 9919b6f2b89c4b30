---------------------------- MODULE AbstractHeap ----------------------------
(***************************************************************************)
(* What the memory manager promises Lua code (manual 2.10): objects come   *)
(* and go, but only "objects that are no longer accessible from Lua" are   *)
(* ever finalized, stripped of their references or freed.  How it finds    *)
(* them (reference counts, mark and sweep) is not visible here.            *)
(***************************************************************************)
CONSTANTS Obj, Fld, Nil, Main

VARIABLES alive,   \* objects whose memory is allocated
          graph,   \* the reference each field holds
          args     \* objects that running finalizers were called with

heap == <<alive, graph, args>>

Roots == {Main} \cup args

ClosedUnderFields(S) ==
  \A p \in S, f \in Fld : graph[<<p, f>>] # Nil => graph[<<p, f>>] \in S

Reachable(o) ==
  \A S \in SUBSET Obj : Roots \subseteq S /\ ClosedUnderFields(S) => o \in S

Init ==
  /\ alive = {Main}
  /\ graph = [x \in Obj \X Fld |-> Nil]
  /\ args = {}

(* Lua code stores a value it can reach in a field it can reach.           *)
Store(p, f, v) ==
  /\ Reachable(p) /\ (v # Nil => Reachable(v))
  /\ graph' = [graph EXCEPT ![<<p, f>>] = v]
  /\ UNCHANGED <<alive, args>>

(* Lua code creates an object, held by the field that receives it.         *)
Create(o, p, f) ==
  /\ o \notin alive /\ Reachable(p)
  /\ alive' = alive \cup {o}
  /\ graph' = [graph EXCEPT ![<<p, f>>] = o]
  /\ UNCHANGED args

(* The collector starts a finalizer for an unreachable object.             *)
Finalize(o) ==
  /\ o \in alive /\ ~Reachable(o)
  /\ args' = args \cup {o}
  /\ UNCHANGED <<alive, graph>>

(* Finalizers return, or are unwound by an error.                          *)
EndFinalize ==
  /\ args' \in SUBSET args /\ args' # args
  /\ UNCHANGED <<alive, graph>>

(* The collector drops a reference held by an unreachable object.          *)
Strip(o, f) ==
  /\ ~Reachable(o)
  /\ graph' = [graph EXCEPT ![<<o, f>>] = Nil]
  /\ UNCHANGED <<alive, args>>

(* The collector frees an unreachable object.                              *)
Reclaim(o) ==
  /\ o \in alive /\ ~Reachable(o)
  /\ alive' = alive \ {o}
  /\ UNCHANGED <<graph, args>>

Next ==
  \/ \E p \in Obj, f \in Fld, v \in Obj \cup {Nil} : Store(p, f, v)
  \/ \E o, p \in Obj, f \in Fld : Create(o, p, f)
  \/ \E o \in Obj : Finalize(o) \/ Reclaim(o)
  \/ EndFinalize
  \/ \E o \in Obj, f \in Fld : Strip(o, f)

Spec == Init /\ [][Next]_heap
=============================================================================
