----------------------------- MODULE MCApiStack -----------------------------
(* ApiStack with one object of each kind besides the running function and  *)
(* the table of globals.                                                   *)
EXTENDS ApiStack

CONSTANTS t0, f0, t1, f1, u1, h1,
          MaxPlaces         \* bound: places in use

MCKind == [o \in Obj |-> CASE o \in {t0, t1} -> "table"
                           [] o \in {f0, f1} -> "function"
                           [] o = u1 -> "userdata"
                           [] o = h1 -> "thread"]

(* A lost reference or a slot left behind counts as a place; one is enough. *)
Bounded ==
  LET odd == Cardinality(leaked) + Cardinality(left)
  IN /\ Cardinality({p \in Place : mem[p] # Nil}) <= MaxPlaces - odd
     /\ odd <= 1 /\ t0 \notin leaked
=============================================================================
