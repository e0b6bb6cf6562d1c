-------------------------------- MODULE Drawing --------------------------------
(***************************************************************************)
(* Engine.render, GUI.m and the parts of a scene that draw: what a frame   *)
(* shows, composed of a sprite with its atlas, a font and the camera.      *)
(*                                                                         *)
(* The loader thread loads the atlas, then the font.  The main thread goes *)
(* through frames: components and scripts advance, render draws the scene  *)
(* with the camera's projection and then runs the scripts' gui callbacks   *)
(* with that of the display.  Scripts call the sprite and the camera at    *)
(* any point of a frame where they run; no script runs while the scene is  *)
(* drawn.  Scripts do not change the gui: what they draw shows in the      *)
(* invariants, for every string, at every point.                           *)
(***************************************************************************)
EXTENDS Sprite, Camera, Font

VARIABLES phase,       \* "advance": from the gui callbacks to the components;
                       \* "advanced": from there to render; "gui": in it
          m_rendering, \* GUI: do primitives draw?
          matrix       \* external: the projection that OpenGL draws with

drawingVars == <<phase, m_rendering, matrix>>
vars == <<atlasVars, spriteVars, cameraVars, fontVars, drawingVars>>

Init == /\ AtlasInit /\ SpriteInit /\ CameraInit /\ FontInit
        /\ phase = "advance"
        /\ m_rendering = FALSE
        /\ matrix = DefaultProjection

--------------------------------------------------------------------------------
Advance(d) ==
  /\ phase = "advance"
  /\ phase' = "advanced"
  /\ \/ advance(d)
     \/ ~(spawned /\ Playing) /\ UNCHANGED <<atlasVars, spriteVars>>
  /\ UNCHANGED <<cameraVars, fontVars, m_rendering, matrix>>

(* GUI.startRendering with the projection that is loaded: nothing if the   *)
(* gui is being rendered already.                                          *)
startRendering(loaded) ==
  /\ m_rendering' = TRUE
  /\ \/ m_rendering /\ matrix' = loaded
     \/ ~m_rendering /\ matrix' = DefaultProjection

stopRendering == m_rendering' = FALSE

(* Engine.render, up to the gui callbacks: the scene is drawn between the  *)
(* two projections.                                                        *)
Render == /\ phase = "advanced"
          /\ phase' = "gui"
          /\ startRendering(projection)
          /\ UNCHANGED <<atlasVars, spriteVars, cameraVars, fontVars>>

(* The gui callbacks have returned; render and update end. *)
EndGui == /\ phase = "gui"
          /\ phase' = "advance"
          /\ stopRendering
          /\ UNCHANGED <<atlasVars, spriteVars, cameraVars, fontVars, matrix>>

(* Scripts. *)
Call == /\ \/ CallSprite /\ UNCHANGED cameraVars
           \/ CallCamera /\ UNCHANGED <<atlasVars, spriteVars>>
        /\ UNCHANGED <<fontVars, drawingVars>>

(* The loader thread. *)
LoadAssets == /\ \/ Load /\ UNCHANGED fontVars
                 \/ Loaded /\ LoadFont /\ UNCHANGED atlasVars
              /\ UNCHANGED <<spriteVars, cameraVars, drawingVars>>

TimePasses == \E d \in 1 .. MaxDelta : Advance(d)

FrameStep == \/ Render \/ EndGui
             \/ Advance(0) \/ TimePasses

(* Frames follow one another, and the clock does not stand still. *)
FramesFollow == WF_vars(FrameStep) /\ SF_vars(TimePasses)

Next == LoadAssets \/ FrameStep \/ Call

Spec == Init /\ [][Next]_vars /\ FramesFollow
================================================================================
