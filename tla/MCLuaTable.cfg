CONSTANTS
  SIZE_A = 5
  SIZE_B = 5
  SIZE_C = 5
  MAXSTACK = 15
  LFIELDS_PER_FLUSH = 2
  LUAI_MAXCCALLS = 12
  MAXASIZE = 2
  MAX_INT = 4
  StringLess <- MCStringLess
  Hash <- MCHash
  Fields <- MCFields
  Values <- MCValues
  NoKey <- MCNoKey
SPECIFICATION Spec
INVARIANTS TableOK LengthIsBorder
PROPERTIES IsMap
