CONSTANTS
  Coroutine = {co1}
  Main = main
  Nil = nil
  Val = {v1}
  Proto <- MCProto
  Stored = {v1}
  Results <- MCResults
  Slots = 9
  MaxFrames = 6
  MaxUpvalues = 1
  MaxWindow = 2
  EXTRA_STACK = 1
  LUA_MINSTACK = 1
  BASIC_CI_SIZE = 3
  LUAI_MAXCALLS = 5
  LUAI_MAXCCALLS = 3
SPECIFICATION Spec
CONSTRAINT Bounded
INVARIANT ComparisonResult
CHECK_DEADLOCK FALSE
