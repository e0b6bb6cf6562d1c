CONSTANTS
  SIZE_A = 5
  SIZE_B = 5
  SIZE_C = 5
  MAXSTACK = 15
  LFIELDS_PER_FLUSH = 2
  LUAI_MAXVARS = 10
  LUAI_MAXUPVALUES = 4
  LUAI_MAXCCALLS = 12
  BASIC_CI_SIZE = 8
  LUAI_MAXCALLS = 20
  LUA_MINSTACK = 20
  MAXTAGLOOP = 10
  MaxNumber = 30
  StringLess <- MCStringLess
  Hash <- MCHash
  MAXASIZE = 32
  MAX_INT = 64
  Meant <- MCMeant
  Compiled <- MCCompiled
  Programs <- MCPrograms
SPECIFICATION Spec
INVARIANTS AsWritten CutIsRefused Asserted UpvaluesLive
PROPERTIES FramesApart SortKeepsAll
CHECK_DEADLOCK FALSE
