CONSTANTS
  t0 = t0
  f0 = f0
  t1 = t1
  f1 = f1
  u1 = u1
  h1 = h1
  Obj = {t0, f0, t1, f1, u1, h1}
  Kind <- MCKind
  Nil = nil
  Num = num
  Running = f0
  Globals = t0
  Slots = 3
  MaxPlaces = 5
  FinalizerInHalf = FALSE
SPECIFICATION Spec
CONSTRAINT Bounded
INVARIANTS
  ApiCounts
  ReleaseUnreferenced
  TopIsNil
