\* The engine's thread and those of a scene and a behavior, sharing two files;
\* scripts nest two deep.
CONSTANTS
  main = main
  namespace = ns
  None = none
  Threads = {main, t1, t2}
  Files = {f1, f2}
  MaxArgs = 1
  MaxDepth = 2
  MaxUnder = 2
SPECIFICATION Spec
INVARIANTS OwnCallbacks Balanced
