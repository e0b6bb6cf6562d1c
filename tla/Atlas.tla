--------------------------------- MODULE Atlas ---------------------------------
(***************************************************************************)
(* Atlas.m and Texture.m: cutting a texture into frames and animations.    *)
(*                                                                         *)
(* A texture numbers its frames from 0 in the order they were added; an    *)
(* atlas keeps the numbers of its named frames and animations.  The atlas  *)
(* is loaded element by element from its document, in the loader's thread, *)
(* and can only be found by name when it is complete (AssetLoader.tla).    *)
(* Elements with an attribute missing are skipped by the code and are not  *)
(* in Frames and Anims; what a frame looks like is left out.               *)
(***************************************************************************)
EXTENDS Integers, Sequences, FiniteSetsExt

CONSTANTS Names, None,
          Frames,      \* the names of the frames in the document, in its order
          Anims        \* its animations: name, rows, cols, fps, looping

(* What the atlas keeps of an animation. *)
Sequence == [frame : Nat, len : Nat \ {0}, fps : Nat, looping : BOOLEAN]

(* A row or column count of 0 is a division by zero later (Sprite.m). *)
ASSUME AtlasAssumption ==
  /\ None \notin Nat \cup Sequence
  /\ Frames \in Seq(Names)
  /\ Anims \in Seq([name : Names, rows : Nat \ {0}, cols : Nat \ {0},
                    fps : Nat, looping : BOOLEAN])

VARIABLES cells,       \* the texture's frames: the element each was cut for
          m_frames,    \* the number of a named frame, or None
          m_anims,     \* the sequence of a named animation, or None
          element      \* the element to load next; the texture itself is 0

atlasVars == <<cells, m_frames, m_anims, element>>

Elements == Len(Frames) + Len(Anims)

Loaded == element = Elements + 1

AtlasInit == /\ cells = <<>>
             /\ m_frames = [n \in Names |-> None]
             /\ m_anims = [n \in Names |-> None]
             /\ element = 0

Cell(e, k) == [of |-> e, at |-> k]

(* Mutant: the count of frames instead of the number of the last. *)
addFrameCount == Len(cells) + 1

(* The number of a frame that is added next. *)
addFrame == Len(cells)

(* The first frame of a new texture is the whole of it. *)
LoadTexture ==
  /\ element = 0
  /\ cells' = <<Cell(0, 0)>>
  /\ element' = 1
  /\ UNCHANGED <<m_frames, m_anims>>

(* A later frame takes the name of an earlier one. *)
LoadFrame ==
  /\ element \in 1 .. Len(Frames)
  /\ m_frames' = [m_frames EXCEPT ![Frames[element]] = addFrame]
  /\ cells' = Append(cells, Cell(element, 0))
  /\ element' = element + 1
  /\ UNCHANGED m_anims

(* The cells of an animation, row by row. *)
addSpriteFrames(a) == [k \in 1 .. a.rows * a.cols |-> Cell(element, k - 1)]

LoadAnim ==
  /\ element \in Len(Frames) + 1 .. Elements
  /\ LET a == Anims[element - Len(Frames)]
     IN  /\ m_anims' = [m_anims EXCEPT ![a.name] =
                          [frame |-> addFrame, len |-> a.rows * a.cols,
                           fps |-> a.fps, looping |-> a.looping]]
         /\ cells' = cells \o addSpriteFrames(a)
  /\ element' = element + 1
  /\ UNCHANGED m_frames

Load == LoadTexture \/ LoadFrame \/ LoadAnim

--------------------------------------------------------------------------------
(* The elements of the document that have a name; the last counts. *)
FramesNamed(n) == {i \in DOMAIN Frames : Frames[i] = n}
AnimsNamed(n) == {i \in DOMAIN Anims : Anims[i].name = n}

FrameElement(n) == IF FramesNamed(n) = {} THEN None ELSE Max(FramesNamed(n))
AnimElement(n) == IF AnimsNamed(n) = {} THEN None ELSE Len(Frames) + Max(AnimsNamed(n))
================================================================================
