------------------------------ MODULE Engine_proofs ------------------------------
(***************************************************************************)
(* Proofs about what Engine.m updates in each frame.                       *)
(*                                                                         *)
(* EngineLoop.tla: its types, what a frame reports of the input, and that  *)
(* scenes are entered one at a time, for any keys, stage times and frame   *)
(* lengths.  Audio.tla: the pool of sources, for every number of sources   *)
(* and every width of the counter in a handle.  World.tla: that an actor   *)
(* whose shape is in the space exists, for any set of actors and           *)
(* components.  The three share no variable.                               *)
(***************************************************************************)
EXTENDS EngineLoop, Audio, World, TLAPS

--------------------------------------------------------------------------------
(* The run loop and the input. *)

(* Once there is a scene, no other is pending from one frame's update to   *)
(* the next frame's advance.                                               *)
EnteredAtOnce ==
  phase \in {"events", "advance"} /\ m_scene # "none" => m_pendingScene = "none"

(* No event is handled inside a frame. *)
NoPressInFrame == phase \in {"advance", "render", "update"} => fresh = NoHits

LoopInv == TypeOK /\ PressesReportedOnce /\ EnteredAtOnce /\ NoPressInFrame

LEMMA LoopStart == Init => LoopInv
BY LoopAssumption
   DEF Init, LoopInv, TypeOK, PressesReportedOnce, EnteredAtOnce, NoPressInFrame, NoHits, keyHits

(* The splash screen changes only its stage, its timer and what is pending.*)
LEMMA IntroTypes ==
  ASSUME TypeOK, NEW dt \in Nat, IntroAdvance(dt)
  PROVE  /\ m_stage' \in {"easeIn", "delay", "easeOut"}
         /\ left' \in Int
         /\ m_pendingScene' \in {"none", "intro", "game"}
BY LoopAssumption DEF TypeOK, IntroAdvance, StayIn, MoveOn, loadScene

LEMMA LoopStep == LoopInv /\ [Next]_vars => LoopInv'
<1> SUFFICES ASSUME LoopInv, [Next]_vars PROVE LoopInv'
  OBVIOUS
<1> USE LoopAssumption DEF LoopInv, TypeOK, PressesReportedOnce, EnteredAtOnce, NoPressInFrame,
                              keyHits
<1>1. ASSUME NEW k \in Inputs, Press(k) PROVE LoopInv'
  BY <1>1 DEF Press, sceneVars
<1>2. ASSUME NEW k \in Inputs, Release(k) PROVE LoopInv'
  BY <1>2 DEF Release, sceneVars, ghostVars
<1>3. ASSUME NEW p \in Positions, MovePointer(p) PROVE LoopInv'
  BY <1>3 DEF MovePointer, sceneVars, ghostVars
<1>4. CASE Close
  BY <1>4 DEF Close, sceneVars, inputVars, ghostVars
<1>5. CASE BeginFrame
  BY <1>5 DEF BeginFrame, NoHits, sceneVars, inputVars
<1>6. ASSUME NEW dt \in Nat, Advance(dt) PROVE LoopInv'
  <2>1. /\ m_stage' \in {"easeIn", "delay", "easeOut"}
        /\ left' \in Int
        /\ m_pendingScene' \in {"none", "intro", "game"}
    BY <1>6, IntroTypes DEF Advance
  <2> QED
    BY <1>6, <2>1 DEF Advance, inputVars, ghostVars
<1>7. CASE Render
  BY <1>7 DEF Render, sceneVars, inputVars, ghostVars
<1>8. CASE Update
  <2>1. m_scene' \in {"none", "intro", "game"} /\ m_pendingScene' = "none"
    BY <1>8 DEF Update, EnterScene
  <2>2. hits' = NoHits /\ status' = status /\ position' = position
    BY <1>8 DEF Update, flush
  <2>3. fresh = NoHits
    BY <1>8 DEF Update
  <2> QED
    BY <1>8, <2>1, <2>2, <2>3 DEF Update, ghostVars, NoHits
<1>9. CASE UNCHANGED vars
  BY <1>9 DEF vars, sceneVars, inputVars, ghostVars
<1>10. ASSUME Next PROVE LoopInv'
  <2>1. Inputs = Keys \cup Buttons /\ 0 \in Nat /\ 1 .. MaxDelta \subseteq Nat
    BY DEF Inputs
  <2> QED
    BY <1>10, <2>1, <1>1, <1>2, <1>3, <1>4, <1>5, <1>6, <1>7, <1>8
       DEF Next, Event, Frame, TimePasses
<1> QED
  BY <1>9, <1>10

(* The strengthened invariant holds in every state. *)
THEOREM LoopInvariance == Spec => []LoopInv
BY LoopStart, LoopStep, PTL DEF Spec

(* The loop's state has its types: no hit count falls below zero. *)
THEOREM LoopTyping == Spec => []TypeOK
<1>1. LoopInv => TypeOK
  BY DEF LoopInv
<1> QED
  BY <1>1, LoopInvariance, PTL

(* A frame reports the presses since the frame before, each exactly once.  *)
THEOREM Reporting == Spec => []PressesReportedOnce
<1>1. LoopInv => PressesReportedOnce
  BY DEF LoopInv
<1> QED
  BY <1>1, LoopInvariance, PTL

(* loadScene never finds another scene pending. *)
THEOREM Entering == Spec => []NoSceneWaits
<1>1. LoopInv => NoSceneWaits
  BY DEF LoopInv, EnteredAtOnce, NoSceneWaits
<1> QED
  BY <1>1, LoopInvariance, PTL

(* A frame forgets no key or button that is held. *)
THEOREM Holding == Spec => HeldOverFrames
<1>1. ASSUME [Next]_vars
      PROVE  [\A k \in Inputs : keyDown(k) /\ phase # "events" => keyDown(k)']_vars
  <2> SUFFICES ASSUME Next, NEW k \in Inputs, status[k], phase # "events"
               PROVE  status'[k]
    BY <1>1 DEF keyDown
  <2>1. UNCHANGED status
    BY DEF Next, Event, Frame, TimePasses, Press, Release, MovePointer, Close,
           BeginFrame, Advance, Render, Update, flush, inputVars
  <2> QED
    BY <2>1
<1> QED
  BY <1>1, PTL DEF Spec, HeldOverFrames

--------------------------------------------------------------------------------
(* The pool of sources. *)

(* Every handle was made from a value its source's counter has had, and if *)
(* the counter still has it, the handle's sound is the source's last one.  *)
IssuedInv ==
  \A k \in DOMAIN issued :
    \E c \in 1 .. i[issued[k].source] :
      /\ issued[k].counter = c % Counters
      /\ c = i[issued[k].source] => sound[issued[k].source] = k

AudioInv == AudioTypeOK /\ IssuedInv /\ SoundingIsInUse

LEMMA LowBits ==
  ASSUME NEW c \in Nat
  PROVE  c % Counters \in 0 .. Counters - 1 /\ c % Counters <= c
<1>1. Counters \in Nat /\ Counters > 0
  BY AudioAssumption
<1>2. c % Counters \in 0 .. Counters - 1
  BY <1>1
<1>3. CASE c < Counters
  <2>1. c % Counters = c
    BY <1>1, <1>3
  <2>. QED BY <1>2, <2>1
<1>4. CASE ~(c < Counters)
  BY <1>1, <1>2, <1>4
<1>. QED BY <1>3, <1>4

LEMMA AudioStart == AudioInit => AudioInv
<1>. SUFFICES ASSUME AudioInit PROVE AudioInv
  OBVIOUS
<1>1. issued \in Seq([source : Source, counter : 0 .. Counters - 1])
  BY DEF AudioInit
<1>2. Sources \in Nat
  BY AudioAssumption
<1>. QED BY <1>1, <1>2 DEF AudioInit, AudioInv, AudioTypeOK, IssuedInv, SoundingIsInUse

LEMMA AudioStep == AudioInv /\ [AudioNext]_audioVars => AudioInv'
<1>. SUFFICES ASSUME AudioInv, [AudioNext]_audioVars PROVE AudioInv'
  OBVIOUS
<1>. DEFINE Handles == [source : Source, counter : 0 .. Counters - 1]
<1>0. AudioTypeOK /\ IssuedInv /\ SoundingIsInUse
  BY DEF AudioInv
<1>1. ASSUME NEW s \in Source, Play(s) PROVE AudioInv'
  <2>. DEFINE h == handleForSource(s, i[s] + 1)
              n == Len(issued) + 1
  <2>1. /\ i[s] \in Nat /\ issued \in Seq(Handles) /\ Len(issued) \in Nat
        /\ DOMAIN issued = 1 .. Len(issued)
    BY <1>0 DEF AudioTypeOK
  <2>2. /\ \A t \in Source : i'[t] = IF t = s THEN i[s] + 1 ELSE i[t]
        /\ \A t \in Source : sound'[t] = IF t = s THEN n ELSE sound[t]
        /\ \A t \in Source : state'[t] = IF t = s THEN TRUE ELSE state[t]
        /\ \A t \in Source : al'[t] = IF t = s THEN "playing" ELSE al[t]
        /\ i' \in [Source -> Nat]
    BY <1>0, <1>1, <2>1 DEF AudioTypeOK, Play
  <2>3. issued' = Append(issued, h)
    BY <1>0, <1>1, <2>2 DEF Play, handleForSource
  <2>4. h \in Handles /\ h.source = s /\ h.counter = (i[s] + 1) % Counters
    BY <2>1, LowBits DEF handleForSource
  <2>. HIDE DEF h
  <2>5. /\ issued' \in Seq(Handles) /\ Len(issued') = n /\ DOMAIN issued' = 1 .. n
        /\ issued'[n] = h
        /\ \A k \in 1 .. Len(issued) : issued'[k] = issued[k] /\ issued[k] \in Handles
    <3>. HIDE DEF Handles
    <3>1. /\ issued' \in Seq(Handles) /\ Len(issued') = n /\ issued'[n] = h
          /\ \A k \in 1 .. Len(issued) : issued'[k] = issued[k]
      BY <2>1, <2>3, <2>4
    <3>. QED BY <2>1, <3>1
  <2>6. AudioTypeOK'
    <3>1. sound' \in [Source -> 0 .. Len(issued')]
      BY <1>0, <1>1, <2>1, <2>5 DEF AudioTypeOK, Play
    <3>2. state' \in [Source -> BOOLEAN]
      BY <1>0, <1>1 DEF AudioTypeOK, Play
    <3>3. al' \in [Source -> {"initial", "playing", "paused", "stopped"}]
      BY <1>0, <1>1 DEF AudioTypeOK, Play
    <3>. QED BY <2>2, <2>5, <3>1, <3>2, <3>3 DEF AudioTypeOK
  <2>7. ASSUME NEW k \in 1 .. n
        PROVE  \E c \in 1 .. i'[issued'[k].source] :
                 /\ issued'[k].counter = c % Counters
                 /\ c = i'[issued'[k].source] => sound'[issued'[k].source] = k
    <3>1. CASE k = n
      <4>1. /\ issued'[k].source = s /\ issued'[k].counter = (i[s] + 1) % Counters
            /\ i'[s] = i[s] + 1 /\ sound'[s] = k
        BY <2>2, <2>4, <2>5, <3>1
      <4>. QED BY <2>1, <4>1
    <3>2. CASE k # n
      <4>1. k \in 1 .. Len(issued) /\ issued'[k] = issued[k] /\ issued[k] \in Handles
        BY <2>1, <2>5, <3>2
      <4>2. PICK c \in 1 .. i[issued[k].source] :
                   /\ issued[k].counter = c % Counters
                   /\ c = i[issued[k].source] => sound[issued[k].source] = k
        BY <1>0, <2>1, <4>1 DEF IssuedInv
      <4>3. issued[k].source \in Source /\ i[issued[k].source] \in Nat
        BY <1>0, <4>1 DEF AudioTypeOK
      <4>4. CASE issued[k].source = s
        <5>1. i'[issued'[k].source] = i[s] + 1 /\ c \in 1 .. i[s]
          BY <2>2, <4>1, <4>2, <4>4
        <5>2. c \in 1 .. i'[issued'[k].source] /\ c # i'[issued'[k].source]
          BY <2>1, <5>1
        <5>. QED BY <4>1, <4>2, <5>2
      <4>5. CASE issued[k].source # s
        BY <2>2, <4>1, <4>2, <4>3, <4>5
      <4>. QED BY <4>4, <4>5
    <3>. QED BY <3>1, <3>2
  <2>8. IssuedInv'
    BY <2>5, <2>7 DEF IssuedInv
  <2>9. SoundingIsInUse'
    BY <1>0, <2>2 DEF SoundingIsInUse
  <2>. QED BY <2>6, <2>8, <2>9 DEF AudioInv
<1>2. ASSUME NEW s \in Source, NEW k \in DOMAIN issued,
             Finish(s) \/ Pause(k, s) \/ Stop(k, s)
      PROVE  AudioInv'
  <2>1. /\ UNCHANGED <<i, state, issued, sound>>
        /\ al' \in [Source -> {"initial", "playing", "paused", "stopped"}]
        /\ al[s] \in {"playing", "paused"}
        /\ \A t \in Source : t # s => al'[t] = al[t]
    BY <1>0, <1>2 DEF AudioTypeOK, Finish, Pause, Stop
  <2>2. SoundingIsInUse'
    BY <1>0, <2>1 DEF SoundingIsInUse
  <2>. QED BY <1>0, <2>1, <2>2 DEF AudioInv, AudioTypeOK, IssuedInv
<1>3. ASSUME NEW s \in Source, Finish(s) PROVE AudioInv'
  <2>1. /\ UNCHANGED <<i, state, issued, sound>>
        /\ al' \in [Source -> {"initial", "playing", "paused", "stopped"}]
        /\ al[s] \in {"playing", "paused"}
        /\ \A t \in Source : t # s => al'[t] = al[t]
    BY <1>0, <1>3 DEF AudioTypeOK, Finish
  <2>2. SoundingIsInUse'
    BY <1>0, <2>1 DEF SoundingIsInUse
  <2>. QED BY <1>0, <2>1, <2>2 DEF AudioInv, AudioTypeOK, IssuedInv
<1>4. ASSUME update PROVE AudioInv'
  <2>1. /\ UNCHANGED <<i, al, issued, sound>>
        /\ state' \in [Source -> BOOLEAN]
    BY <1>0, <1>4 DEF AudioTypeOK, update, Queued
  <2>2. \A s \in Source : al[s] # "stopped" /\ state[s] => state'[s]
    BY <1>0, <1>4 DEF AudioTypeOK, update, Queued
  <2>3. SoundingIsInUse'
    BY <1>0, <2>1, <2>2 DEF SoundingIsInUse
  <2>. QED BY <1>0, <2>1, <2>3 DEF AudioInv, AudioTypeOK, IssuedInv
<1>5. ASSUME UNCHANGED audioVars PROVE AudioInv'
  BY <1>0, <1>5 DEF AudioInv, AudioTypeOK, IssuedInv, SoundingIsInUse, audioVars
<1>. QED BY <1>1, <1>2, <1>3, <1>4, <1>5 DEF AudioNext

(* Issued handles are always explained by the counters. *)
THEOREM AudioInvariance == AudioSpec => []AudioInv
<1>. QED BY AudioStart, AudioStep, PTL DEF AudioSpec

(* The audio pool keeps its types, and handles stay within their bits.     *)
THEOREM AudioTyping == AudioSpec => []AudioTypeOK
<1>1. AudioInv => AudioTypeOK
  BY DEF AudioInv
<1>. QED BY <1>1, AudioInvariance, PTL

(* sourceForHandle never resolves a handle to a later sound, at any number *)
(* of sounds: past the largest counter a handle holds it resolves none.    *)
THEOREM Handles == AudioSpec => []HandlesKeepToTheirSound
<1>1. AudioInv => HandlesKeepToTheirSound
  <2>. SUFFICES ASSUME AudioInv, NEW k \in DOMAIN issued, NEW s \in Source,
                       Refers(issued[k], s)
                PROVE  sound[s] = k
    BY DEF HandlesKeepToTheirSound
  <2>1. issued[k].source = s /\ issued[k].counter = i[s] /\ i[s] \in Nat
    BY DEF Refers, AudioInv, AudioTypeOK
  <2>2. PICK c \in 1 .. i[s] : /\ issued[k].counter = c % Counters
                               /\ c = i[s] => sound[s] = k
    BY <2>1 DEF AudioInv, IssuedInv
  <2>3. c \in Nat /\ c % Counters <= c /\ c % Counters \in 0 .. Counters - 1
    BY <2>1, <2>2, LowBits
  <2>4. c = i[s]
    BY <2>1, <2>2, <2>3, AudioAssumption
  <2>. QED BY <2>2, <2>4
<1>. QED BY <1>1, AudioInvariance, PTL

(* Audio.update never reclaims a source that has a sound to play.          *)
THEOREM InUse == AudioSpec => []SoundingIsInUse
<1>1. AudioInv => SoundingIsInUse
  BY DEF AudioInv
<1>. QED BY <1>1, AudioInvariance, PTL

--------------------------------------------------------------------------------
(* The space and its removal queues. *)

(* Until the first step is over there is no actor and nothing is queued.   *)
FirstStepEmpty ==
  callback => /\ spacePhase = "step"
              /\ \A a \in Actors : life[a] = "unborn" /\ m_bodyRemovalQueue[a] = 0
              /\ shapes = {} /\ m_shapeRemovalQueue = {} /\ joined = {}

(* A body that was enabled once and is not now is queued for removal. *)
DisabledAreQueued ==
  \A a \in joined : bodyOn[a] \/ m_bodyRemovalQueue[a] > 0

(* An actor whose body was in the space and who left is held by the queue. *)
LeftAreQueued ==
  \A a \in joined : life[a] = "left" => m_bodyRemovalQueue[a] > 0

WorldInv == WorldTypeOK /\ FirstStepEmpty /\ DisabledAreQueued /\ LeftAreQueued

LEMMA WorldStart == WorldInit => WorldInv
<1> SUFFICES ASSUME WorldInit PROVE WorldInv
  OBVIOUS
<1>1. WorldTypeOK
  BY DEF WorldInit, WorldTypeOK
<1>2. FirstStepEmpty
  BY DEF WorldInit, FirstStepEmpty
<1>3. DisabledAreQueued
  BY DEF WorldInit, DisabledAreQueued
<1>4. LeftAreQueued
  BY DEF WorldInit, LeftAreQueued
<1> QED
  BY <1>1, <1>2, <1>3, <1>4 DEF WorldInv

(* The steps that happen only when scripts run: the first step is over.    *)
LEMMA AfterFirstStep ==
  ASSUME WorldInv, ScriptsRun
  PROVE  ~callback
BY DEF WorldInv, FirstStepEmpty, ScriptsRun

LEMMA WorldStep == WorldInv /\ [WorldNext]_worldVars => WorldInv'
<1> SUFFICES ASSUME WorldInv, [WorldNext]_worldVars PROVE WorldInv'
  OBVIOUS
<1> USE WorldAssumption
<1>1. ASSUME NEW a \in Actors, Spawn(a) PROVE WorldInv'
  <2>1. ~callback
    BY <1>1, AfterFirstStep DEF Spawn
  <2> QED
    BY <1>1, <2>1 DEF WorldInv, WorldTypeOK, FirstStepEmpty, DisabledAreQueued, LeftAreQueued,
                      Spawn, spaceVars, onVars
<1>2. ASSUME NEW a \in Actors, Start(a) PROVE WorldInv'
  <2>1. ~callback
    BY <1>2, AfterFirstStep DEF Start, ScriptsRun
  <2>2. WorldTypeOK'
    BY <1>2 DEF WorldInv, WorldTypeOK, Start, addRigidBody, onVars
  <2>3. LeftAreQueued'
    BY <1>2 DEF WorldInv, WorldTypeOK, LeftAreQueued, Start, addRigidBody, onVars
  <2> QED
    BY <1>2, <2>1, <2>2, <2>3 DEF WorldInv, FirstStepEmpty, DisabledAreQueued, Start,
                                  addRigidBody, onVars
<1>3. ASSUME NEW a \in Actors, Leave(a) PROVE WorldInv'
  <2>1. ~callback
    BY <1>3, AfterFirstStep DEF Leave, ScriptsRun
  <2>2. WorldTypeOK'
    BY <1>3 DEF WorldInv, WorldTypeOK, Leave, removeRigidBody, onVars
  <2>3. /\ \A b \in Actors : /\ m_bodyRemovalQueue'[b] >= m_bodyRemovalQueue[b]
                             /\ b = a /\ b \in Bodied /\ bodyOn[b]
                                  => m_bodyRemovalQueue'[b] > 0
        /\ joined' = joined
    BY <1>3 DEF WorldInv, WorldTypeOK, Leave, removeRigidBody
  <2>4. DisabledAreQueued'
    BY <1>3, <2>2, <2>3 DEF WorldInv, WorldTypeOK, DisabledAreQueued, Leave, onVars
  <2>5. LeftAreQueued'
    <3> SUFFICES ASSUME NEW b \in joined, life'[b] = "left"
                 PROVE  m_bodyRemovalQueue'[b] > 0
      BY <2>3 DEF LeftAreQueued
    <3>1. CASE b = a
      BY <1>3, <3>1, <2>2, <2>3 DEF WorldInv, WorldTypeOK, DisabledAreQueued
    <3>2. CASE b # a
      BY <1>3, <3>2, <2>2, <2>3 DEF WorldInv, WorldTypeOK, LeftAreQueued, Leave
    <3> QED
      BY <3>1, <3>2
  <2> QED
    BY <1>3, <2>1, <2>2, <2>4, <2>5 DEF WorldInv, FirstStepEmpty, Leave
<1>4. ASSUME NEW a \in Actors, EnableBody(a) PROVE WorldInv'
  <2>1. ~callback
    BY <1>4, AfterFirstStep DEF EnableBody, Reachable
  <2> QED
    BY <1>4, <2>1 DEF WorldInv, WorldTypeOK, FirstStepEmpty, DisabledAreQueued, LeftAreQueued,
                      EnableBody, Reachable, addRigidBody
<1>5. ASSUME NEW a \in Actors, DisableBody(a) PROVE WorldInv'
  <2>1. ~callback
    BY <1>5, AfterFirstStep DEF DisableBody, Reachable
  <2> QED
    BY <1>5, <2>1 DEF WorldInv, WorldTypeOK, FirstStepEmpty, DisabledAreQueued, LeftAreQueued,
                      DisableBody, Reachable, removeRigidBody
<1>6. ASSUME NEW a \in Actors, ToggleShape(a) PROVE WorldInv'
  <2>1. ~callback
    BY <1>6, AfterFirstStep DEF ToggleShape, Reachable
  <2> QED
    BY <1>6, <2>1 DEF WorldInv, WorldTypeOK, FirstStepEmpty, DisabledAreQueued, LeftAreQueued,
                      ToggleShape, Reachable, spaceVars
<1>7. CASE BeginStep
  BY <1>7 DEF WorldInv, WorldTypeOK, FirstStepEmpty, DisabledAreQueued, LeftAreQueued,
              BeginStep, spaceVars, onVars
<1>8. CASE EndStep
  <2>1. CASE callback
    <3>1. /\ shapes' = {} /\ m_shapeRemovalQueue' = {}
          /\ m_bodyRemovalQueue' = [b \in Actors |-> 0]
      BY <1>8, <2>1 DEF WorldInv, FirstStepEmpty, EndStep, removeShapesAndBodies
    <3>2. bodies' \in [Actors -> Nat]
      BY <1>8, <2>1 DEF WorldInv, WorldTypeOK, EndStep, removeShapesAndBodies
    <3>3. joined' = {}
      BY <1>8, <2>1 DEF WorldInv, FirstStepEmpty, EndStep
    <3> QED
      BY <1>8, <3>1, <3>2, <3>3 DEF WorldInv, WorldTypeOK, FirstStepEmpty, DisabledAreQueued,
                                    LeftAreQueued, EndStep, onVars
  <2>2. CASE ~callback
    BY <1>8, <2>2 DEF WorldInv, WorldTypeOK, FirstStepEmpty, DisabledAreQueued, LeftAreQueued,
                      EndStep, spaceVars, onVars
  <2> QED
    BY <2>1, <2>2
<1>9. CASE UNCHANGED worldVars
  BY <1>9 DEF WorldInv, WorldTypeOK, FirstStepEmpty, DisabledAreQueued, LeftAreQueued, worldVars,
              spaceVars, onVars
<1> QED
  BY <1>1, <1>2, <1>3, <1>4, <1>5, <1>6, <1>7, <1>8, <1>9 DEF WorldNext

(* The strengthened invariant holds in every state. *)
THEOREM WorldInvariance == WorldSpec => []WorldInv
BY WorldStart, WorldStep, PTL DEF WorldSpec

(* The world's state has its types: no body is in the space less than zero *)
(* times, whatever the scripts toggle.                                     *)
THEOREM WorldTyping == WorldSpec => []WorldTypeOK
<1>1. WorldInv => WorldTypeOK
  BY DEF WorldInv
<1> QED
  BY <1>1, WorldInvariance, PTL

(* An actor that World's beginCollision may be given after it was freed    *)
(* never had its body in the space, whichever components actors have and   *)
(* their prefabs enable.                                                   *)
THEOREM Colliding == WorldSpec => []CollidersExist
<1>1. WorldInv => CollidersExist
  BY DEF WorldInv, WorldTypeOK, LeftAreQueued, CollidersExist, Freed
<1> QED
  BY <1>1, WorldInvariance, PTL
================================================================================
