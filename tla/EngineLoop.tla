------------------------------- MODULE EngineLoop -------------------------------
(***************************************************************************)
(* Engine.m, Intro.m, Input.m and the event handlers of Display.m: the     *)
(* timer that steps frames, the scene they are for, the splash screen that *)
(* loads the game's first scene, and the input that arrives between frames.*)
(*                                                                         *)
(* One thread runs the events and the frames.  A frame is advance (clock,  *)
(* physics, scene), render (scene and gui) and update, which enters a      *)
(* pending scene and flushes the input.  They call scripts once the game's *)
(* scene is loaded, and a script that calls quit closes the display: the   *)
(* application exits inside that call.                                     *)
(*                                                                         *)
(* Time is counted in ticks.  The window system is external: it reports a  *)
(* move of the pointer as mouseMoved only while no button is held, and as  *)
(* a drag, which Display does not handle, otherwise.                       *)
(***************************************************************************)
EXTENDS Integers

CONSTANTS Keys, Buttons,
          Positions,   \* where the pointer can be
          Origin,      \* the position Input starts with
          EaseTime, DelayTime,         \* ticks of the splash screen's stages
          MaxDelta,    \* ticks of the longest frame
          MaxHits      \* bounds the presses of a key between two frames

Inputs == Keys \cup Buttons

ASSUME LoopAssumption == /\ Keys \cap Buttons = {}
                         /\ Origin \in Positions
                         /\ EaseTime \in Nat /\ DelayTime \in Nat
                         /\ MaxDelta \in Nat \ {0}
                         /\ MaxHits \in Nat

VARIABLES
  phase,               \* where the frame is; "events" between two frames
  m_scene, m_pendingScene,
  loadable,            \* does the Initial Scene exist, and its script load?
  m_stage, left,       \* the splash screen: its stage, what is left of it
  status, hits,        \* Input: the state of each key and button
  position,            \* Input: the position of the mouse
  pointer,             \* external: where the pointer is
  fresh, due           \* ghosts: the presses since the last frame began, and
                       \* those of the time before, due in this frame

sceneVars == <<m_scene, m_pendingScene, loadable, m_stage, left>>
inputVars == <<status, hits, position>>
ghostVars == <<fresh, due>>
vars == <<phase, sceneVars, inputVars, pointer, ghostVars>>

NoHits == [k \in Inputs |-> 0]

(* Engine.start: the timer runs and the splash screen is pending. *)
Init == /\ phase = "events"
        /\ m_scene = "none" /\ m_pendingScene = "intro"
        /\ loadable \in BOOLEAN
        /\ m_stage = "easeIn" /\ left = EaseTime
        /\ status = [k \in Inputs |-> FALSE]
        /\ hits = NoHits
        /\ position = Origin
        /\ pointer \in Positions
        /\ fresh = NoHits /\ due = NoHits

--------------------------------------------------------------------------------
(* The events between two frames. *)

(* keyDown without its repeats, mouseDown and rightMouseDown.  The release *)
(* can have gone to another window.                                        *)
Press(k) ==
  /\ phase = "events"
  /\ fresh[k] < MaxHits
  /\ status' = [status EXCEPT ![k] = TRUE]
  /\ hits' = [hits EXCEPT ![k] = @ + 1]
  /\ fresh' = [fresh EXCEPT ![k] = @ + 1]
  /\ UNCHANGED <<phase, sceneVars, position, pointer, due>>

Release(k) ==
  /\ phase = "events"
  /\ status[k]
  /\ status' = [status EXCEPT ![k] = FALSE]
  /\ UNCHANGED <<phase, sceneVars, hits, position, pointer, ghostVars>>

MovePointer(p) ==
  /\ phase = "events"
  /\ pointer' = p
  /\ \/ (\A b \in Buttons : ~status[b]) /\ position' = p
     \/ (\E b \in Buttons : status[b]) /\ UNCHANGED position
  /\ UNCHANGED <<phase, sceneVars, status, hits, ghostVars>>

(* windowWillClose: the user closes the window, or a script calls quit. *)
Close ==
  /\ phase # "exited"
  /\ phase = "events" \/ "game" \in {m_scene, m_pendingScene}
  /\ phase' = "exited"
  /\ UNCHANGED <<sceneVars, inputVars, pointer, ghostVars>>

--------------------------------------------------------------------------------
(* The frame. *)

(* Mutant of BeginFrame: the input is flushed before the frame. *)
BeginFlushed ==
  /\ phase = "events"
  /\ phase' = "advance"
  /\ hits' = NoHits
  /\ due' = fresh /\ fresh' = NoHits
  /\ UNCHANGED <<sceneVars, status, position, pointer>>

(* The timer fires. *)
BeginFrame ==
  /\ phase = "events"
  /\ phase' = "advance"
  /\ due' = fresh /\ fresh' = NoHits
  /\ UNCHANGED <<sceneVars, inputVars, pointer>>

(* A stage of the splash screen goes on, or gives way to the next. *)
StayIn(dt) == /\ left - dt >= 0
              /\ left' = left - dt
              /\ UNCHANGED m_stage

MoveOn(dt, stage, time) == /\ left - dt < 0
                           /\ m_stage' = stage /\ left' = time

(* loadScene refuses while another scene is pending. *)
loadScene == IF m_pendingScene = "none" /\ loadable
             THEN m_pendingScene' = "game" ELSE UNCHANGED m_pendingScene

(* Mutant of IntroAdvance: a stage that ends leads back to the delay. *)
IntroAdvanceRound(dt) ==
  /\ \/ StayIn(dt)
     \/ MoveOn(dt, "delay", DelayTime)
  /\ UNCHANGED m_pendingScene

(* Intro.advance.  After the last stage it tries to load the first scene,  *)
(* again in every frame if that fails.                                     *)
IntroAdvance(dt) ==
  \/ /\ StayIn(dt)
     /\ UNCHANGED m_pendingScene
  \/ /\ m_stage = "easeIn" /\ MoveOn(dt, "delay", DelayTime)
     /\ UNCHANGED m_pendingScene
  \/ /\ m_stage = "delay" /\ MoveOn(dt, "easeOut", EaseTime)
     /\ UNCHANGED m_pendingScene
  \/ /\ m_stage = "easeOut" /\ MoveOn(dt, "easeOut", -1)
     /\ loadScene

(* Engine.advance.  The first frame has no scene yet, and the scripts of   *)
(* the game's scene change nothing here but by Close.                      *)
Advance(dt) ==
  /\ phase = "advance"
  /\ phase' = "render"
  /\ \/ m_scene = "intro" /\ IntroAdvance(dt)
     \/ m_scene # "intro" /\ UNCHANGED <<m_pendingScene, m_stage, left>>
  /\ UNCHANGED <<m_scene, loadable, inputVars, pointer, ghostVars>>

Render ==
  /\ phase = "render"
  /\ phase' = "update"
  /\ UNCHANGED <<sceneVars, inputVars, pointer, ghostVars>>

(* Input.flush with NO: the hit counts are reset, nothing else. *)
flush == hits' = NoHits /\ UNCHANGED <<status, position>>

(* The pending scene becomes the current one and is started. *)
EnterScene ==
  /\ m_pendingScene # "none"
  /\ m_scene' = m_pendingScene /\ m_pendingScene' = "none"

Update ==
  /\ phase = "update"
  /\ phase' = "events"
  /\ \/ EnterScene
     \/ m_pendingScene = "none" /\ UNCHANGED <<m_scene, m_pendingScene>>
  /\ flush
  /\ UNCHANGED <<loadable, m_stage, left, pointer, ghostVars>>

--------------------------------------------------------------------------------
Event == \/ \E k \in Inputs : Press(k) \/ Release(k)
         \/ \E p \in Positions : MovePointer(p)
         \/ Close

TimePasses == \E dt \in 1 .. MaxDelta : Advance(dt)

Frame == BeginFrame \/ Advance(0) \/ TimePasses \/ Render \/ Update

Next == Event \/ Frame

(* The timer repeats, scripts return, and the clock does not stand still.  *)
Spec == Init /\ [][Next]_vars /\ WF_vars(Frame) /\ SF_vars(TimePasses)

--------------------------------------------------------------------------------
(* What scripts and the gui poll, of a key or a button. *)
keyDown(k) == status[k]
keyHits(k) == hits[k]

TypeOK ==
  /\ phase \in {"events", "advance", "render", "update", "exited"}
  /\ m_scene \in {"none", "intro", "game"}
  /\ m_pendingScene \in {"none", "intro", "game"}
  /\ loadable \in BOOLEAN
  /\ m_stage \in {"easeIn", "delay", "easeOut"}
  /\ left \in Int
  /\ status \in [Inputs -> BOOLEAN]
  /\ hits \in [Inputs -> Nat]
  /\ position \in Positions /\ pointer \in Positions
  /\ fresh \in [Inputs -> Nat] /\ due \in [Inputs -> Nat]

(* Scripts poll hit counts at any point of a frame, and Engine.update      *)
(* flushes them at its end: a frame reports exactly the presses since the  *)
(* frame before it began, each press to one frame and none to no frame,    *)
(* also of a key that was released again before the frame.                 *)
PressesReportedOnce ==
  \A k \in Inputs :
    /\ phase \in {"advance", "render", "update"} => keyHits(k) = due[k]
    /\ phase = "events" => keyHits(k) = fresh[k]

(* A key or button that is held stays down: nothing in a frame, the flush  *)
(* and the change of scenes included, forgets it (flush takes a reset flag *)
(* that Input.init sets and Engine.update does not).                       *)
HeldOverFrames ==
  [][\A k \in Inputs : keyDown(k) /\ phase # "events" => keyDown(k)']_vars

(* loadScene is never refused because a scene is already pending: each     *)
(* frame enters the scene that the splash screen loaded in it.             *)
NoSceneWaits ==
  phase = "advance" /\ m_scene # "none" => m_pendingScene = "none"

(* The splash screen ends: the game's first scene is entered if there is   *)
(* one to load, unless the window is closed before.                        *)
SplashEnds == loadable ~> (m_scene = "game" \/ phase = "exited")

================================================================================
