SPECIFICATION Spec
CONSTANTS
  str = str
  obj = obj
  Nil = Nil
  IntKey = {1, 2, 3}
  StrKey = {str}
  ObjKey = {obj}
  Hash <- MCHash
  MaxBits = 3
  MaxInt = 3
  MaxPart = 3
  MaxRef = 2
INVARIANTS GetMatches RehashMakesRoom ArraySizeOptimal IsBorder NextComplete KeyRefsCover
PROPERTY NextOnce
