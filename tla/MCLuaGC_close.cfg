CONSTANTS
  g = g
  r = r
  w = w
  f = f
  c = c
  p = p
  q = q
  u = u
  main = main
  co = co
  v = v
  s = s
  o = o
  Strings = {s}
  Tables = {g, r, w}
  Closures = {f, c, o}
  Methods = {o}
  Protos = {p, q}
  Userdata = {u}
  Threads = {main, co}
  UpVals = {v}
  mainthread = main
  registry = r
  Fixed = {}
  hash <- MCHash
  Size = 1
  Node = {1}
  Level = {1}
  KeyWeak = {r}
  ValueWeak = {r, w}
  HasGC = {r}
  Nil = nil
  Number = number
  DeadKey = dead
  Closed = closed
  GCSWEEPMAX = 5
  Rank <- MCRank
  Whites = {white0, white1}
  Heaps <- MCHeaps
  Files <- MCFiles
  MaxSteps = 2
SYMMETRY Symmetry
SPECIFICATION Spec
INVARIANTS AllFreed
CHECK_DEADLOCK FALSE
