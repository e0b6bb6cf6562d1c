CONSTANTS
  idle = idle
  walk = walk
  jump = jump
  none = none
  noframe = noframe
  x = x
  y = y
  z = z
  None = none
  NoFrame = noframe
  Names = {idle, walk, jump}
  Frames <- MCFrames
  Anims <- MCAnims
  Second = 4
  MaxDelta = 2
  MaxDuration = 10
  Width = 4
  Height = 2
  Bounds <- MCBounds
  Points <- MCPoints
  Zooms = {1}
  MaxStack = 2
  Characters = {x, y, z}
  Strings <- MCStrings
  Fonts <- MCFonts
SPECIFICATION Spec
INVARIANTS TextAsWritten
PROPERTIES CellsInOrder AnimationEnds
