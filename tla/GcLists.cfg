SPECIFICATION Spec
CONSTANTS
  Plain = {p, q, r}
  Udata = {u, v}
  Main = main
  Nil = Nil
  Errors = TRUE
SYMMETRY Symmetry
INVARIANTS ListsExact SweepInList DeadAhead CloseFreesAll
CHECK_DEADLOCK FALSE
