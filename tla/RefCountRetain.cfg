SPECIFICATION Spec
SYMMETRY Symmetry
CONSTANTS
  Obj = {main, a, b, u}
  Main = main
  Fld = {x, y}
  Nil = Nil
  GcObj = {b, u}
  Retain = TRUE
  Errors = FALSE
INVARIANT NoDangling
