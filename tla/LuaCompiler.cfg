CONSTANTS
  MAXINDEXRK = 2
  MAXSTACK = 30
  MAXARG_C = 2
  MAXARG_Bx = 15
  MAXARG_sBx = 35
  LFIELDS_PER_FLUSH = 2
  LUAI_MAXVARS = 9
  LUAI_MAXUPVALUES = 3
  SHRT_MAX = 18
  LUAI_MAXCCALLS = 30
  Slots = 40
  Denotation <- Meaning
  Compile <- luaY_parser
  Programs <- MCPrograms
  MaxSteps = 150
  Globals <- MCGlobals
SPECIFICATION Spec
INVARIANTS MeaningKept CodeChecks RejectedRightly DumpKept TopKept NamesRight
