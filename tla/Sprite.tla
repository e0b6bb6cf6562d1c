--------------------------------- MODULE Sprite ---------------------------------
(***************************************************************************)
(* Sprite.m: a sprite shows frames of an atlas and plays its animations.   *)
(*                                                                         *)
(* A sprite is spawned while the game runs, perhaps before its atlas is    *)
(* loaded: then it has none and never gets one.  Its frame is a number and *)
(* its animation a pointer into the atlas; advance runs once a frame and   *)
(* computes the number from the time the animation has been playing.  An   *)
(* atlas that is unloaded under its sprites is not modelled: the pointer   *)
(* is then to freed memory.                                                *)
(***************************************************************************)
EXTENDS Atlas

CONSTANTS NoFrame,             \* -1UL
          Second, MaxDelta,    \* ticks of a second, and of the longest frame
          MaxDuration          \* bounds how long an animation plays

ASSUME SpriteAssumption ==
  /\ NoFrame \notin Nat
  /\ Second \in Nat \ {0} /\ MaxDelta \in Nat \ {0} /\ MaxDuration \in Nat

VARIABLES spawned,
          m_atlas,             \* does the sprite have its atlas?
          m_frame, m_anim, m_duration,
          playing, shown       \* ghosts: the element of the document that m_anim
                               \* and m_frame come from, or None

spriteVars == <<spawned, m_atlas, m_frame, m_anim, m_duration, playing, shown>>
SpriteInit == /\ spawned = FALSE /\ m_atlas = FALSE
              /\ m_frame = NoFrame /\ m_anim = None /\ m_duration = 0
              /\ playing = None /\ shown = None

--------------------------------------------------------------------------------
Spawn == /\ ~spawned
         /\ spawned' = TRUE
         /\ m_atlas' = Loaded
         /\ UNCHANGED <<atlasVars, m_frame, m_anim, m_duration, playing, shown>>

(* A sprite without an atlas gets 0 for every name, as nil answers all     *)
(* messages with 0.                                                        *)
frameNamed(n) == IF ~m_atlas THEN 0
                 ELSE IF m_frames[n] = None THEN NoFrame ELSE m_frames[n]

setFrame(n) ==
  /\ spawned
  /\ m_frame' = frameNamed(n)
  /\ shown' = FrameElement(n)
  /\ UNCHANGED <<atlasVars, spawned, m_atlas, m_anim, m_duration, playing>>

animNamed(n) == IF m_atlas THEN m_anims[n] ELSE None

playAnim(n) ==
  /\ spawned
  /\ m_anim' = animNamed(n)
  /\ m_duration' = 0
  /\ playing' = AnimElement(n)
  /\ UNCHANGED <<atlasVars, spawned, m_atlas, m_frame, shown>>

--------------------------------------------------------------------------------
Playing == m_anim # None

(* How many frames the animation has been playing for. *)
Played == (m_duration * m_anim.fps) \div Second

(* Mutant: an animation is over at one time only, which a long frame skips. *)
OverOnce == ~m_anim.looping /\ Played = m_anim.len

Over == ~m_anim.looping /\ Played >= m_anim.len

(* Mutant: an animation that is over is not put on its last frame. *)
CurrentWrapped == m_anim.frame + (Played % m_anim.len)

(* The frame to show; an animation that is over stays on its last. *)
Current == IF Over THEN m_anim.frame + m_anim.len - 1
                   ELSE m_anim.frame + (Played % m_anim.len)

advance(d) ==
  /\ spawned /\ Playing
  /\ m_duration + d <= MaxDuration
  /\ m_frame' = Current
  /\ m_anim' = IF Over THEN None ELSE m_anim
  /\ m_duration' = m_duration + d
  /\ shown' = playing
  /\ UNCHANGED <<atlasVars, spawned, m_atlas, playing>>

--------------------------------------------------------------------------------
(* What a script does with a sprite. *)
CallSprite == Spawn \/ \E n \in Names : setFrame(n) \/ playAnim(n)

--------------------------------------------------------------------------------
(* What render draws: a cell of the texture, or nothing. *)
Drawn == m_atlas /\ m_frame # NoFrame /\ m_frame < Len(cells)
DrawnCell == cells[m_frame + 1]

(* A sprite that has its atlas finds by a name what the document's last    *)
(* element of that name cut out of the texture, although the atlas keeps   *)
(* numbers only, which depend on all that was loaded before.               *)
NamesFindTheirCells ==
  m_atlas =>
    \A n \in Names :
      /\ IF FrameElement(n) = None
         THEN frameNamed(n) = NoFrame
         ELSE /\ frameNamed(n) < Len(cells)
              /\ cells[frameNamed(n) + 1].of = FrameElement(n)
      /\ IF AnimElement(n) = None
         THEN animNamed(n) = None
         ELSE LET a == animNamed(n)
              IN  /\ a.frame + a.len <= Len(cells)
                  /\ \A k \in 0 .. a.len - 1 :
                       cells[a.frame + k + 1] = Cell(AnimElement(n), k)

(* The step that ends an animation leaves its last cell, also where a      *)
(* script has set a frame since the step before.                           *)
StopsOnLast ==
  [][m_duration' > 0 /\ Playing /\ ~Playing' =>
       Drawn' /\ DrawnCell' = Cell(playing, m_anim.len - 1)]_<<atlasVars, spriteVars>>

(* An animation of the document that does not loop comes to its end once   *)
(* it plays, unless it is played anew or another is: then is_anim_playing  *)
(* tells scripts that it is over, and what is drawn is the last cell that  *)
(* was cut for it, however long the frames are that it is advanced by and  *)
(* whatever set_frame has put in its place meanwhile.                      *)
AnimationEnds ==
  \A i \in DOMAIN Anims :
    ~Anims[i].looping /\ Anims[i].fps > 0 =>
      (Playing /\ playing = Len(Frames) + i /\ m_duration > 0
        ~> \/ m_duration = 0
           \/ /\ ~Playing /\ Drawn
              /\ DrawnCell = Cell(Len(Frames) + i, Anims[i].rows * Anims[i].cols - 1))

(* A step in which an animation goes on playing. *)
GoesOn == m_atlas /\ Playing /\ shown = playing /\ shown' = shown /\ m_duration > 0
            /\ m_duration' >= m_duration

(* The cells of an animation come in their order: one that does not loop   *)
(* never goes back, the step that ends it included, and none is skipped    *)
(* unless the cells change faster than frames are drawn.                   *)
CellsInOrder ==
  [][GoesOn => /\ ~m_anim.looping => DrawnCell'.at >= DrawnCell.at
               /\ m_anim.fps * MaxDelta <= Second =>
                    DrawnCell'.at \in {DrawnCell.at, (DrawnCell.at + 1) % m_anim.len}]_<<atlasVars, spriteVars>>

================================================================================
