CONSTANTS
  LUA_MAXCAPTURES = 3
  LUAL_BUFFERSIZE = 1
  LUA_MINSTACK = 6
  Answers <- MCAnswers
SPECIFICATION MCSpec
INVARIANTS AsMeant StaysInside StackSuffices ReadAsWritten
CHECK_DEADLOCK FALSE
