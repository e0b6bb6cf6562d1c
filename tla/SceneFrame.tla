------------------------------ MODULE SceneFrame ------------------------------
(***************************************************************************)
(* Scene.m, Layer.m and the parts of Engine.m, World.m and Actor.m that    *)
(* drive them: the frames of a running scene, and the life of the actors   *)
(* in its layers.                                                          *)
(*                                                                         *)
(* One thread runs the frame as nested loops over layers and actors.  Each *)
(* loop calls scripts, and a script may spawn actors, destroy any actor it *)
(* knows and add layers before it returns to the loop that called it: what *)
(* the loops see is what the scripts left.  A call of a script is a step   *)
(* that sets running, the actions of the script are steps of their own,    *)
(* and Return goes back to the loop.  Rendering calls no script and        *)
(* changes none of this state, so a frame is the physics step, advance,    *)
(* the gui and update.                                                     *)
(*                                                                         *)
(* An actor's callback goes to its Behavior components in their order, to  *)
(* each that is enabled when its turn comes; scripts enable and disable    *)
(* the components that have a name.  What the other components do in a     *)
(* callback (Sprite, Emitter, RigidBody, Collider) is in their modules.    *)
(*                                                                         *)
(* Two uses are outside the model: a script that holds on to an actor the  *)
(* layer has already released, and add_layer called from an actor's script *)
(* (it would change the array the scene is enumerating).                   *)
(***************************************************************************)
EXTENDS Naturals, Sequences, Functions

CONSTANTS Actors,      \* every actor a scene may ever spawn (bounds spawning)
          Layers,      \* every layer a scene may ever add
          Z,           \* the z-ordering of each layer
          Prefab,      \* the behaviors of each actor, by index, that begin enabled
          Named,       \* and those with a name: a script can reach them
          Nobody       \* no script is running, or the scene's own script is

ASSUME SceneAssumption == /\ Nobody \notin Actors
                          /\ Z \in [Layers -> Nat]
                          /\ Prefab \in [Actors -> SUBSET (Nat \ {0})]
                          /\ Named \in [Actors -> SUBSET (Nat \ {0})]

VARIABLES m_layers,      \* the scene's layers, sorted by z
          m_actors, m_newActors,           \* the two lists of each layer
          m_dead,        \* actors on which kill was called
          newFrameActors,                  \* local of Layer.update
          phase, li, ai, \* the loop the frame is in, and its two indices
          enabled,       \* the enabled behaviors of each actor
          running,       \* the script call in progress: whose, which, to which behavior
          partner,       \* the second actor of a collision being reported
          touched,       \* pairs whose collision this physics step reported
          stage,         \* ghost: where each actor is in its life
          doomed         \* ghost: the dead actors Layer.update found

listVars  == <<m_layers, m_actors, m_newActors, m_dead>>
loopVars  == <<phase, li, ai, newFrameActors>>
worldVars == <<partner, touched>>
ghostVars == <<stage, doomed>>
vars == <<listVars, loopVars, enabled, running, worldVars, ghostVars>>

Idle == [actor |-> Nobody, event |-> "none", component |-> 0]

(* Engine.update has just made the scene current and calls Scene.start. *)
Init == /\ m_layers = <<>>
        /\ m_actors = [l \in Layers |-> <<>>]
        /\ m_newActors = [l \in Layers |-> <<>>]
        /\ m_dead = {}
        /\ newFrameActors = <<>>
        /\ phase = "world" /\ li = 1 /\ ai = 1
        /\ enabled = Prefab
        /\ running = [actor |-> Nobody, event |-> "start", component |-> 0]
        /\ partner = Nobody /\ touched = {}
        /\ stage = [a \in Actors |-> "unborn"]
        /\ doomed = {}

--------------------------------------------------------------------------------
(* What a script may do while it runs. *)

Sorted(s) == \A i, j \in DOMAIN s : i < j => Z[s[i]] <= Z[s[j]]

(* l_addLayer: addObject, then sortUsingSelector:orderWith:, which may put *)
(* layers of equal z in any order.                                         *)
AddLayer(l) ==
  /\ running # Idle /\ running.actor = Nobody
  /\ l \notin Range(m_layers)
  /\ m_layers' \in {s \in [1 .. Len(m_layers) + 1 -> Range(m_layers) \cup {l}] :
                      Range(s) = Range(m_layers) \cup {l} /\ Sorted(s)}
  /\ UNCHANGED <<m_actors, m_newActors, m_dead, loopVars, enabled, running,
                 worldVars, ghostVars>>

(* Mutant: the actor enters the list the loops are going through. *)
SpawnAtOnce(l, a) ==
  /\ running # Idle
  /\ l \in Range(m_layers)
  /\ stage[a] = "unborn"
  /\ m_actors' = [m_actors EXCEPT ![l] = Append(@, a)]
  /\ stage' = [stage EXCEPT ![a] = "spawned"]
  /\ UNCHANGED <<m_layers, m_newActors, m_dead, loopVars, enabled, running, worldVars,
                 doomed>>

(* l_spawn: the actor only enters the list of new actors. *)
Spawn(l, a) ==
  /\ running # Idle
  /\ l \in Range(m_layers)
  /\ stage[a] = "unborn"
  /\ m_newActors' = [m_newActors EXCEPT ![l] = Append(@, a)]
  /\ stage' = [stage EXCEPT ![a] = "spawned"]
  /\ UNCHANGED <<m_layers, m_actors, m_dead, loopVars, enabled, running, worldVars,
                 doomed>>

(* l_destroy: kill only sets the flag. *)
Destroy(a) ==
  /\ running # Idle
  /\ stage[a] \in {"spawned", "active"}
  /\ m_dead' = m_dead \cup {a}
  /\ UNCHANGED <<m_layers, m_actors, m_newActors, loopVars, enabled, running,
                 worldVars, ghostVars>>

Layer == m_layers[li]

Actor == m_actors[Layer][ai]

(* The actors a layer holds: those with a life before them, and the one    *)
(* that is being told to leave.                                            *)
Held(a) == stage[a] \in {"spawned", "active"} \/ (phase = "remove" /\ a = Actor)

(* l_setEnabled, l_enable and l_disable of a component with a name. *)
SetEnabled(a, i, flag) ==
  /\ running # Idle /\ Held(a)
  /\ i \in Named[a]
  /\ enabled' = [enabled EXCEPT ![a] = IF flag THEN @ \cup {i} ELSE @ \ {i}]
  /\ UNCHANGED <<listVars, loopVars, running, worldVars, ghostVars>>

--------------------------------------------------------------------------------
(* The callbacks. *)

(* The loop of Actor.start, advance, update, leave, gui and beginCollision *)
(* over the components, from the one after index i on.                     *)
Later(a, i) == {j \in enabled[a] : j > i}

(* Mutant of Tell: components are called enabled or not. *)
TellAll(a, e, i) ==
  LET behaviors == {j \in Prefab[a] \cup Named[a] : j > i}
  IN  \/ \E j \in behaviors : /\ \A k \in behaviors : j <= k
                            /\ running' = [actor |-> a, event |-> e, component |-> j]
      \/ behaviors = {} /\ running' = Idle

Tell(a, e, i) ==
  \/ \E j \in Later(a, i) : /\ \A k \in Later(a, i) : j <= k
                           /\ running' = [actor |-> a, event |-> e, component |-> j]
  \/ Later(a, i) = {} /\ running' = Idle

Call(a, e) == Tell(a, e, 0)

CallScene(e) == running' = [actor |-> Nobody, event |-> e, component |-> 0]

(* The script returns, to the loop over the components of its actor. *)
Return ==
  /\ running # Idle
  /\ \/ running.actor # Nobody /\ Tell(running.actor, running.event, running.component)
     \/ running.actor = Nobody /\ running' = Idle
  /\ UNCHANGED <<listVars, loopVars, enabled, worldVars, ghostVars>>

--------------------------------------------------------------------------------
(* World.step.  The body of an actor is in the space from its start on;    *)
(* it is never taken out (see README), so it can collide after leave too.  *)

Bodies == {a \in Actors : stage[a] \in {"active", "left"}}

(* beginCollision: a pair with a dead actor is ignored; otherwise the      *)
(* first actor is told, then the second.                                   *)
BeginCollision(a, b) ==
  /\ phase = "world" /\ running = Idle /\ partner = Nobody
  /\ a # b /\ {a, b} \notin touched
  /\ touched' = touched \cup {{a, b}}
  /\ \/ /\ a \notin m_dead /\ b \notin m_dead
        /\ Call(a, "collide")
        /\ partner' = b
     \/ /\ a \in m_dead \/ b \in m_dead
        /\ UNCHANGED <<running, partner>>
  /\ UNCHANGED <<listVars, enabled, loopVars, ghostVars>>

TellPartner ==
  /\ phase = "world" /\ running = Idle /\ partner # Nobody
  /\ Call(partner, "collide")
  /\ partner' = Nobody
  /\ UNCHANGED <<listVars, enabled, loopVars, touched, ghostVars>>

(* The step ends; Scene.advance calls the scene's script first. *)
EndStep ==
  /\ phase = "world" /\ running = Idle /\ partner = Nobody
  /\ touched' = {}
  /\ CallScene("advance")
  /\ phase' = "advance" /\ li' = 1 /\ ai' = 1
  /\ UNCHANGED <<listVars, enabled, newFrameActors, partner, ghostVars>>

--------------------------------------------------------------------------------
(* Layer.advance and Layer.gui: every actor of every layer is called.      *)

InLayer(p) == phase = p /\ running = Idle /\ li <= Len(m_layers)

CallActors(p) ==
  /\ InLayer(p)
  /\ ai <= Len(m_actors[Layer])
  /\ Call(Actor, p)
  /\ ai' = ai + 1
  /\ UNCHANGED <<listVars, enabled, phase, li, newFrameActors, worldVars, ghostVars>>

NextLayer(p) ==
  /\ InLayer(p)
  /\ ai > Len(m_actors[Layer])
  /\ li' = li + 1 /\ ai' = 1
  /\ UNCHANGED <<listVars, phase, newFrameActors, enabled, running, worldVars, ghostVars>>

(* Scene.gui calls the scene's script, then the layers. *)
EndAdvance ==
  /\ phase = "advance" /\ running = Idle /\ li > Len(m_layers)
  /\ CallScene("gui")
  /\ phase' = "gui" /\ li' = 1 /\ ai' = 1
  /\ UNCHANGED <<listVars, enabled, newFrameActors, worldVars, ghostVars>>

EndGui ==
  /\ phase = "gui" /\ running = Idle /\ li > Len(m_layers)
  /\ phase' = "update" /\ li' = 1 /\ ai' = 1
  /\ UNCHANGED <<listVars, newFrameActors, enabled, running, worldVars, ghostVars>>

--------------------------------------------------------------------------------
(* Layer.update. *)

(* Mutant: the removal loop starts one actor too low. *)
TakeAndStartLow ==
  /\ InLayer("update")
  /\ newFrameActors' = m_newActors[Layer]
  /\ m_newActors' = [m_newActors EXCEPT ![Layer] = <<>>]
  /\ doomed' = m_dead \cap Range(m_actors[Layer])
  /\ phase' = "sweep"
  /\ ai' = IF m_actors[Layer] = <<>> THEN 0 ELSE Len(m_actors[Layer]) - 1
  /\ UNCHANGED <<m_layers, m_actors, m_dead, li, enabled, running, worldVars, stage>>

(* The list of new actors is taken and emptied, the removal loop starts at *)
(* the last actor.                                                         *)
TakeNewActors ==
  /\ InLayer("update")
  /\ newFrameActors' = m_newActors[Layer]
  /\ m_newActors' = [m_newActors EXCEPT ![Layer] = <<>>]
  /\ doomed' = m_dead \cap Range(m_actors[Layer])
  /\ phase' = "sweep" /\ ai' = Len(m_actors[Layer])
  /\ UNCHANGED <<m_layers, m_actors, m_dead, li, enabled, running, worldVars, stage>>

KeepActor ==
  /\ phase = "sweep" /\ running = Idle /\ ai > 0
  /\ Actor \notin m_dead
  /\ ai' = ai - 1
  /\ UNCHANGED <<listVars, phase, li, newFrameActors, enabled, running, worldVars,
                 ghostVars>>

LeaveActor ==
  /\ phase = "sweep" /\ running = Idle /\ ai > 0
  /\ Actor \in m_dead
  /\ Call(Actor, "leave")
  /\ stage' = [stage EXCEPT ![Actor] = "left"]
  /\ phase' = "remove"
  /\ UNCHANGED <<listVars, enabled, li, ai, newFrameActors, worldVars, doomed>>

(* Mutant: the last actor is dropped without taking the place at i. *)
RemoveLast(s, i) == SubSeq(s, 1, Len(s) - 1)

(* The list without the actor at i: the last actor takes its place. *)
SwapRemove(s, i) == SubSeq([s EXCEPT ![i] = s[Len(s)]], 1, Len(s) - 1)

(* After a swap the loop looks at the same index again. *)
RemoveActor ==
  /\ phase = "remove" /\ running = Idle
  /\ m_actors' = [m_actors EXCEPT ![Layer] = SwapRemove(@, ai)]
  /\ \/ ai < Len(m_actors[Layer]) /\ ai' = ai
     \/ ai = Len(m_actors[Layer]) /\ ai' = ai - 1
  /\ phase' = "sweep"
  /\ UNCHANGED <<m_layers, m_newActors, m_dead, li, newFrameActors, enabled, running,
                 worldVars, ghostVars>>

EndSweep ==
  /\ phase = "sweep" /\ running = Idle /\ ai = 0
  /\ phase' = "alive" /\ ai' = 1
  /\ UNCHANGED <<listVars, li, newFrameActors, enabled, running, worldVars, ghostVars>>

UpdateActor ==
  /\ phase = "alive" /\ running = Idle
  /\ ai <= Len(m_actors[Layer])
  /\ Call(Actor, "update")
  /\ ai' = ai + 1
  /\ UNCHANGED <<listVars, enabled, phase, li, newFrameActors, worldVars, ghostVars>>

AddNewActors ==
  /\ phase = "alive" /\ running = Idle
  /\ ai > Len(m_actors[Layer])
  /\ m_actors' = [m_actors EXCEPT ![Layer] = @ \o newFrameActors]
  /\ phase' = "start" /\ ai' = 1
  /\ UNCHANGED <<m_layers, m_newActors, m_dead, li, newFrameActors, enabled, running,
                 worldVars, ghostVars>>

StartActor ==
  /\ phase = "start" /\ running = Idle
  /\ ai <= Len(newFrameActors)
  /\ Call(newFrameActors[ai], "start")
  /\ stage' = [stage EXCEPT ![newFrameActors[ai]] = "active"]
  /\ ai' = ai + 1
  /\ UNCHANGED <<listVars, enabled, phase, li, newFrameActors, worldVars, doomed>>

EndLayer ==
  /\ phase = "start" /\ running = Idle
  /\ ai > Len(newFrameActors)
  /\ newFrameActors' = <<>> /\ doomed' = {}
  /\ phase' = "update" /\ li' = li + 1 /\ ai' = 1
  /\ UNCHANGED <<listVars, enabled, running, worldVars, stage>>

(* Scene.update ends with the scene's script; the next frame follows. *)
EndFrame ==
  /\ phase = "update" /\ running = Idle /\ li > Len(m_layers)
  /\ CallScene("update")
  /\ phase' = "world" /\ li' = 1 /\ ai' = 1
  /\ UNCHANGED <<listVars, enabled, newFrameActors, worldVars, ghostVars>>

--------------------------------------------------------------------------------
Script == \/ \E l \in Layers : AddLayer(l)
          \/ \E l \in Layers, a \in Actors : Spawn(l, a)
          \/ \E a \in Actors : Destroy(a)
          \/ \E a \in Actors, flag \in BOOLEAN : \E i \in Named[a] : SetEnabled(a, i, flag)

Frame == \/ TellPartner \/ EndStep
         \/ CallActors("advance") \/ NextLayer("advance") \/ EndAdvance
         \/ CallActors("gui") \/ NextLayer("gui") \/ EndGui
         \/ TakeNewActors \/ KeepActor \/ LeaveActor \/ RemoveActor \/ EndSweep
         \/ UpdateActor \/ AddNewActors \/ StartActor \/ EndLayer \/ EndFrame

Next == \/ Script \/ Return \/ Frame
        \/ \E a, b \in Bodies : BeginCollision(a, b)

(* The timer keeps stepping frames, and a script that is called returns.   *)
Spec == Init /\ [][Next]_vars /\ WF_vars(Frame) /\ WF_vars(Return)

--------------------------------------------------------------------------------
(* Properties. *)

Events == {"none", "collide", "start", "advance", "gui", "update", "leave"}

Calls == [actor : Actors \cup {Nobody}, event : Events, component : Nat]

TypeOK ==
  /\ m_layers \in Seq(Layers)
  /\ m_actors \in [Layers -> Seq(Actors)]
  /\ m_newActors \in [Layers -> Seq(Actors)]
  /\ newFrameActors \in Seq(Actors)
  /\ m_dead \in SUBSET Actors
  /\ phase \in {"world", "advance", "gui", "update", "sweep", "remove", "alive",
                "start"}
  /\ li \in Nat \ {0} /\ ai \in Nat
  /\ phase \in {"sweep", "remove", "alive", "start"} => li <= Len(m_layers)
  /\ enabled \in [Actors -> SUBSET (Nat \ {0})]
  /\ running \in Calls
  /\ partner \in Actors \cup {Nobody}
  /\ touched \in SUBSET SUBSET Actors
  /\ stage \in [Actors -> {"unborn", "spawned", "active", "left"}]
  /\ doomed \in SUBSET Actors

(* The actors Layer.update has taken from the list of new actors and not   *)
(* yet added to the layer.                                                 *)
Taken == IF phase \in {"sweep", "remove", "alive"} THEN newFrameActors ELSE <<>>

(* Spawning, taking, adding and swapping out never leave an actor twice in *)
(* the lists of the scene (Layer.m keeps two lists and a local copy).      *)
NoDuplicates ==
  /\ \A l \in Layers : IsInjective(m_actors[l]) /\ IsInjective(m_newActors[l])
  /\ IsInjective(newFrameActors)
  /\ \A k, l \in Layers :
       /\ k # l => /\ Range(m_actors[k]) \cap Range(m_actors[l]) = {}
                   /\ Range(m_newActors[k]) \cap Range(m_newActors[l]) = {}
       /\ Range(m_actors[k]) \cap Range(m_newActors[l]) = {}
       /\ Range(m_actors[k]) \cap Range(Taken) = {}
       /\ Range(m_newActors[k]) \cap Range(Taken) = {}

(* An actor that was spawned is in some list until its leave callback, and *)
(* an actor that has left is in none once the loop has taken it out.       *)
Listed == {a \in Actors : \/ a \in Range(Taken)
                          \/ \E l \in Layers : \/ a \in Range(m_actors[l])
                                               \/ a \in Range(m_newActors[l])}

NoneLost ==
  \A a \in Actors :
    /\ stage[a] \in {"spawned", "active"} => a \in Listed
    /\ stage[a] = "left" /\ phase # "remove" => a \notin Listed

(* The loop that swaps the last actor into the freed place skips nobody:   *)
(* an actor that was dead when its layer began its update is neither       *)
(* updated nor kept.                                                       *)
DoomedRemoved ==
  phase \in {"alive", "start"} => doomed \cap Range(m_actors[Layer]) = {}

(* The behaviors of an actor get the callbacks of its life in order and    *)
(* each once (Layer.update, Layer.advance, Layer.gui and                   *)
(* World.beginCollision make them), each behavior that is enabled at its   *)
(* turn, whatever the ones before it enabled, disabled, spawned or         *)
(* destroyed; every spawned actor is started and every destroyed one       *)
(* leaves.                                                                 *)
Life == INSTANCE ActorLife WITH dead <- m_dead

ImplementsLife == Life!Spec
===============================================================================
