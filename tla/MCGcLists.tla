------------------------------ MODULE MCGcLists -----------------------------
(* GcLists for TLC: objects of a kind are interchangeable.                 *)
EXTENDS GcLists, TLC

Symmetry == Permutations(Plain) \cup Permutations(Udata)
=============================================================================
