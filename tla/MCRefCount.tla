----------------------------- MODULE MCRefCount -----------------------------
(* RefCount on a heap of three objects; the two userdata with finalizers   *)
(* are interchangeable, and so are the fields.                             *)
EXTENDS RefCount, TLC

Symmetry == Permutations(GcObj) \cup Permutations(Fld)
=============================================================================
