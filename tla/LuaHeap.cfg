SPECIFICATION HeapSpec
CONSTANTS
  Obj = {main, a, u}
  Main = main
  Fld = {x, y}
  Nil = Nil
  Table = {a}
  Udata = {u}
  WeakTable = {}
  GcObj = {u}
  GlobalFld = {x}
  MaxRef = 4
  NestedGC = FALSE
  BarrierLost = FALSE
  Retain = FALSE
  Errors = TRUE
INVARIANTS NoUseAfterFree ReleaseSafe RefCovers TriColor GrayListed
