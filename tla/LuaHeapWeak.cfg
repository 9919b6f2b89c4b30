SPECIFICATION FairHeapSpec
CONSTANTS
  Obj = {main, c, w}
  Main = main
  Fld = {x, y}
  Nil = Nil
  Table = {w}
  Udata = {}
  WeakTable = {w}
  GcObj = {}
  GlobalFld = {x}
  MaxRef = 3
  NestedGC = FALSE
  BarrierLost = FALSE
  Retain = FALSE
  Errors = FALSE
INVARIANT NoUseAfterFree
PROPERTY CyclesReclaimed
