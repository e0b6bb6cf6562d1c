\* A one-shot emitter, one of two ticks and an infinite one, at four particles
\* in three ticks, in a pool of three.
CONSTANTS
  Infinite = forever
  Lifetimes = {0, 2, forever}
  Pool = 3
  Rate = 4
  Second = 3
  MinLife = 1
  MaxLife = 3
  MaxDelta = 2
  MaxAge = 8
SPECIFICATION Spec
INVARIANTS TypeOK AgedOnce
PROPERTIES EndsByItself
