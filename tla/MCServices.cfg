\* Three sources whose counters outgrow their handles after two sounds; an
\* actor with both components, enabled or not, one that is a rigid body only,
\* and one that has a collider only.
CONSTANTS
  Sources = 3
  Counters = 3
  MaxPlays = 6
  Actors = {ship, rock, ghost}
  Bodied = {ship, ghost}
  Shaped = {ship, rock}
  MaxQueued = 1
SPECIFICATION MCSpec
INVARIANTS HandlesKeepToTheirSound CollidersExist
PROPERTIES SourcesReturn
