\* Three actors, two layers: every interleaving of spawning, destroying and
\* collisions with the loops of a frame.
CONSTANTS
  a1 = a1
  a2 = a2
  a3 = a3
  back = back
  front = front
  Actors = {a1, a2, a3}
  Layers = {back, front}
  Z <- MCZ
  Prefab <- MCPrefab
  Named <- MCNamed
  Nobody = Nobody
SPECIFICATION Spec
INVARIANTS NoneLost DoomedRemoved
PROPERTIES ImplementsLife
CHECK_DEADLOCK TRUE
