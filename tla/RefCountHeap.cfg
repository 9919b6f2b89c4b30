SPECIFICATION Spec
CONSTANTS
  Obj = {main, b, u}
  Main = main
  Fld = {x, y}
  Nil = Nil
  GcObj = {b, u}
  Retain = FALSE
  Errors = TRUE
PROPERTY ImplementsHeap
