--------------------------------- MODULE World ---------------------------------
(***************************************************************************)
(* World.m, RigidBody.m, Collider.m and the parts of Actor.m that use      *)
(* them: which bodies and shapes the one Chipmunk space holds, the queues  *)
(* of removals, and whether an actor that is told of a collision still     *)
(* exists.                                                                 *)
(*                                                                         *)
(* The engine makes the world, steps it at the start of every frame, and   *)
(* has no scene during the first step.  The space is external: its step    *)
(* ends by running the post-step callbacks that were added since the last  *)
(* one, each once.  An actor is freed when its layer has released it and   *)
(* no removal queue holds it; scripts that keep a released actor are       *)
(* outside the model.                                                      *)
(***************************************************************************)
EXTENDS Naturals

CONSTANTS Actors,
          Bodied,      \* the actors with a RigidBody component
          Shaped,      \* the actors with a Collider component
          MaxQueued    \* bounds how often a script toggles a component

ASSUME WorldAssumption == /\ Bodied \subseteq Actors
                          /\ Shaped \subseteq Actors
                          /\ MaxQueued \in Nat

VARIABLES bodies,      \* how often the space holds the body of each actor
          shapes,      \* the actors whose shape is in the space
          m_bodyRemovalQueue,          \* how often each actor is queued
          m_shapeRemovalQueue,         \* the queued colliders, by actor
          callback,    \* is the post-step callback of the world pending?
          spacePhase,  \* "step" inside cpSpaceStep, else "frame"
          bodyOn, shapeOn,             \* m_enabled of the two components
          life,
          joined       \* history: the actors whose body was ever put into the space

spaceVars == <<bodies, shapes, m_bodyRemovalQueue, m_shapeRemovalQueue>>
onVars    == <<bodyOn, shapeOn>>
worldVars == <<spaceVars, callback, spacePhase, onVars, life, joined>>

(* World.init has added the callback, and the first step has begun.  A     *)
(* prefab can leave a component disabled.                                  *)
WorldInit == /\ bodies = [a \in Actors |-> 0]
             /\ shapes = {}
             /\ m_bodyRemovalQueue = [a \in Actors |-> 0]
             /\ m_shapeRemovalQueue = {}
             /\ callback = TRUE
             /\ spacePhase = "step"
             /\ bodyOn \in [Bodied -> BOOLEAN]
             /\ shapeOn \in [Shaped -> BOOLEAN]
             /\ life = [a \in Actors |-> "unborn"]
             /\ joined = {}

(* The actors that have been deallocated. *)
Freed == {a \in Actors : life[a] = "left" /\ m_bodyRemovalQueue[a] = 0}

(* Scripts run when there is an actor to call them from, or between steps. *)
ScriptsRun == spacePhase = "frame" \/ \E a \in Actors : life[a] = "active"

--------------------------------------------------------------------------------
(* The removal queues. *)

addRigidBody(a) == /\ bodies' = [bodies EXCEPT ![a] = @ + 1]
                   /\ joined' = joined \cup {a}

removeRigidBody(a) ==
  /\ m_bodyRemovalQueue' = [m_bodyRemovalQueue EXCEPT ![a] = @ + 1]
  /\ UNCHANGED <<bodies, joined>>

(* removeShapesAndBodies: the queued shapes are added, not removed, and    *)
(* cpSpaceRemoveBody takes one entry of a body out of the space.           *)
removeShapesAndBodies ==
  /\ shapes' = shapes \cup m_shapeRemovalQueue
  /\ bodies' = [a \in Actors |-> IF m_bodyRemovalQueue[a] < bodies[a]
                                 THEN bodies[a] - m_bodyRemovalQueue[a] ELSE 0]
  /\ m_shapeRemovalQueue' = {}
  /\ m_bodyRemovalQueue' = [a \in Actors |-> 0]

--------------------------------------------------------------------------------
(* The components of an actor. *)

Spawn(a) ==
  /\ ScriptsRun
  /\ life[a] = "unborn"
  /\ life' = [life EXCEPT ![a] = "spawned"]
  /\ UNCHANGED <<spaceVars, callback, spacePhase, onVars, joined>>

(* Actor.start: the enabled components are started. *)
Start(a) ==
  /\ spacePhase = "frame"
  /\ life[a] = "spawned"
  /\ life' = [life EXCEPT ![a] = "active"]
  /\ \/ a \in Bodied /\ bodyOn[a] /\ addRigidBody(a)
     \/ ~(a \in Bodied /\ bodyOn[a]) /\ UNCHANGED <<bodies, joined>>
  /\ shapes' = IF a \in Shaped /\ shapeOn[a] THEN shapes \cup {a} ELSE shapes
  /\ UNCHANGED <<m_bodyRemovalQueue, m_shapeRemovalQueue, callback, spacePhase, onVars>>

(* Actor.leave: the enabled components leave; the layer releases the actor.*)
(* A collider without a shape, disabled when it was started, queues none.  *)
Leave(a) ==
  /\ spacePhase = "frame"
  /\ life[a] = "active"
  /\ life' = [life EXCEPT ![a] = "left"]
  /\ \/ a \in Bodied /\ bodyOn[a] /\ removeRigidBody(a)
     \/ ~(a \in Bodied /\ bodyOn[a]) /\ UNCHANGED <<bodies, m_bodyRemovalQueue, joined>>
  /\ m_shapeRemovalQueue' =
       IF a \in shapes /\ shapeOn[a] THEN m_shapeRemovalQueue \cup {a}
                                     ELSE m_shapeRemovalQueue
  /\ UNCHANGED <<shapes, callback, spacePhase, onVars>>

(* RigidBody.enable and disable, called by a script at any time in between *)
(* (also before the actor is started); neither looks at m_enabled.         *)
Reachable(a) == ScriptsRun /\ life[a] \in {"spawned", "active"}

EnableBody(a) ==
  /\ Reachable(a) /\ a \in Bodied
  /\ bodies[a] <= MaxQueued
  /\ addRigidBody(a)
  /\ bodyOn' = [bodyOn EXCEPT ![a] = TRUE]
  /\ UNCHANGED <<shapes, m_bodyRemovalQueue, m_shapeRemovalQueue, callback, spacePhase,
                 shapeOn, life>>

DisableBody(a) ==
  /\ Reachable(a) /\ a \in Bodied
  /\ m_bodyRemovalQueue[a] < MaxQueued
  /\ removeRigidBody(a)
  /\ bodyOn' = [bodyOn EXCEPT ![a] = FALSE]
  /\ UNCHANGED <<shapes, m_shapeRemovalQueue, callback, spacePhase, shapeOn, life>>

(* A collider only inherits BaseComponent's enable and disable. *)
ToggleShape(a) ==
  /\ Reachable(a) /\ a \in Shaped
  /\ shapeOn' = [shapeOn EXCEPT ![a] = ~@]
  /\ UNCHANGED <<spaceVars, callback, spacePhase, bodyOn, life, joined>>

--------------------------------------------------------------------------------
(* World.step. *)

BeginStep ==
  /\ spacePhase = "frame"
  /\ spacePhase' = "step"
  /\ UNCHANGED <<spaceVars, callback, onVars, life, joined>>

(* Mutant of EndStep: the callback stays registered. *)
EndStepAgain ==
  /\ spacePhase = "step"
  /\ spacePhase' = "frame"
  /\ removeShapesAndBodies
  /\ UNCHANGED <<callback, onVars, life, joined>>

(* The space forgets a callback it has run, and World adds it only once. *)
EndStep ==
  /\ spacePhase = "step"
  /\ spacePhase' = "frame"
  /\ \/ callback /\ removeShapesAndBodies
     \/ ~callback /\ UNCHANGED spaceVars
  /\ callback' = FALSE
  /\ UNCHANGED <<onVars, life, joined>>

WorldNext == \/ BeginStep \/ EndStep
             \/ \E a \in Actors : \/ Spawn(a) \/ Start(a) \/ Leave(a)
                                  \/ EnableBody(a) \/ DisableBody(a) \/ ToggleShape(a)

WorldSpec == WorldInit /\ [][WorldNext]_worldVars

--------------------------------------------------------------------------------
WorldTypeOK ==
  /\ bodies \in [Actors -> Nat]
  /\ shapes \in SUBSET Shaped
  /\ m_bodyRemovalQueue \in [Actors -> Nat]
  /\ m_shapeRemovalQueue \in SUBSET Shaped
  /\ callback \in BOOLEAN
  /\ spacePhase \in {"step", "frame"}
  /\ bodyOn \in [Bodied -> BOOLEAN]
  /\ shapeOn \in [Shaped -> BOOLEAN]
  /\ life \in [Actors -> {"unborn", "spawned", "active", "left"}]
  /\ joined \in SUBSET Bodied

(* Two shapes of the space that touch give World.beginCollision the bodies *)
(* of their actors, and it calls those actors: a shape stays in the space  *)
(* when its actor is freed only if the actor's body was never put there,   *)
(* for want of a RigidBody or because it was never enabled.  The body of   *)
(* any other is queued before it is freed, whatever scripts toggle, and    *)
(* the queue retains it.                                                   *)
CollidersExist == shapes \cap Freed \cap joined = {}

================================================================================
