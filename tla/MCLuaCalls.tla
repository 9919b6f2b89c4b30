----------------------------- MODULE MCLuaCalls -----------------------------
(* LuaCalls with bounds that let TLC finish: one value, one coroutine, one *)
(* fixed and one vararg function, a CallInfo array that overflows at the   *)
(* third nested call and a C stack limit of three calls.                   *)
EXTENDS LuaCalls

CONSTANTS MaxFrames,        \* bound: activations and frames
          MaxUpvalues,      \* bound: open upvalues
          MaxWindow         \* bound: values of a C function on its stack

MCProto == {[numparams |-> 1, is_vararg |-> FALSE, maxstacksize |-> 2],
            [numparams |-> 1, is_vararg |-> TRUE, maxstacksize |-> 2]}

MCResults == {MULTRET, 1}

Frames == FoldSet(LAMBDA t, n : n + Len(th[t].ci), Len(cst), Thread)

Upvalues == FoldSet(LAMBDA t, n : n + Len(th[t].openupval), 0, Thread)

(* Once there is a coroutine, the main thread only runs the one C function *)
(* that resumes it, without hooks; a behaviour ends with the coroutine.    *)
WithCoroutine ==
  LET L == th[Main]
  IN /\ Frames + Upvalues <= MaxFrames + 1 /\ Len(L.ci) = 2
     /\ L.base = 3 /\ L.size_ci = BASIC_CI_SIZE /\ L.errfunc = 0
     /\ \A i \in 1 .. Len(cst) : cst[i].k # "hook"
     /\ \A co \in Coroutine : costatus(Main, co) # "dead"

(* The host program keeps no nil on its stack, and ends when a protected   *)
(* call has met a stack overflow.                                          *)
Host ==
  LET L == th[Main]
  IN L.size_ci = BASIC_CI_SIZE /\ \A i \in L.base .. L.top - 1 : L.stk[i] # Nil

Bounded ==
  /\ Upvalues <= MaxUpvalues
  /\ InC(Current) => th[Current].top - Bottom(Current) <= MaxWindow
  /\ cst = <<>> => Host
  /\ InHook => Frames < MaxFrames
  /\ IF \A co \in Coroutine : th[co].status = "none" THEN Frames <= MaxFrames
     ELSE WithCoroutine
=============================================================================
