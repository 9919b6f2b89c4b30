SPECIFICATION Spec
SYMMETRY Symmetry
CONSTANTS
  Obj = {main, a, b, u}
  Main = main
  Fld = {x, y}
  Nil = Nil
  GcObj = {b, u}
  Retain = FALSE
  Errors = FALSE
INVARIANTS RefExact NoDangling NoDoubleRelease ImmediateReclaim NothingLost
