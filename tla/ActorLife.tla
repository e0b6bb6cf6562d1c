------------------------------- MODULE ActorLife -------------------------------
(***************************************************************************)
(* What a scene promises to the behaviors of an actor: they are started    *)
(* once, after the actor was spawned; the other callbacks come after the   *)
(* start and, if the actor is destroyed, before leave, which comes once,   *)
(* last and only to a destroyed actor.  A callback reaches the behaviors   *)
(* of the actor one after the other, each that is enabled at its turn; a   *)
(* behavior that is not gets no such callback later either.  SceneFrame is *)
(* shown to implement it.                                                  *)
(***************************************************************************)
EXTENDS Naturals

CONSTANTS Actors, Prefab, Named, Nobody

VARIABLES stage,     \* where each actor is in its life
          dead,      \* the actors destroyed so far
          enabled,   \* the enabled behaviors of each actor
          running    \* the callback being made: whose, which, to which behavior

lifeVars == <<stage, dead, enabled, running>>

Events == {"collide", "advance", "gui", "update"}

Idle == [actor |-> Nobody, event |-> "none", component |-> 0]

Init == /\ stage = [a \in Actors |-> "unborn"]
        /\ dead = {}
        /\ enabled = Prefab
        /\ running = [actor |-> Nobody, event |-> "start", component |-> 0]

(* While a script runs, it spawns an actor, destroys one, or enables or    *)
(* disables a behavior.                                                    *)
Spawn(a) == /\ running # Idle
            /\ stage[a] = "unborn"
            /\ stage' = [stage EXCEPT ![a] = "spawned"]
            /\ UNCHANGED <<dead, enabled, running>>

Kill(a) == /\ running # Idle
           /\ stage[a] \in {"spawned", "active"}
           /\ dead' = dead \cup {a}
           /\ UNCHANGED <<stage, enabled, running>>

Switch(a) == /\ running # Idle
             /\ \E i \in Named[a], flag \in BOOLEAN :
                  enabled' = [enabled EXCEPT ![a] = IF flag THEN @ \cup {i} ELSE @ \ {i}]
             /\ UNCHANGED <<stage, dead, running>>

(* The scene's own script is called, or returns. *)
Elsewhere == /\ running.actor = Nobody /\ running'.actor = Nobody
             /\ UNCHANGED <<stage, dead, enabled>>

(* The first enabled behavior of an actor after index i is called, or, if  *)
(* there is none, the callback is over.                                    *)
Reaches(a, e, i) ==
  LET later == {j \in enabled[a] : j > i}
  IN  IF later = {} THEN running' = Idle
      ELSE \E j \in later : /\ \A k \in later : j <= k
                            /\ running' = [actor |-> a, event |-> e, component |-> j]

(* The callbacks of an actor. *)
Start(a) == /\ running = Idle /\ stage[a] = "spawned"
            /\ stage' = [stage EXCEPT ![a] = "active"]
            /\ Reaches(a, "start", 0)
            /\ UNCHANGED <<dead, enabled>>

Callback(a) == /\ running = Idle /\ stage[a] = "active"
               /\ \E e \in Events : Reaches(a, e, 0)
               /\ UNCHANGED <<stage, dead, enabled>>

Leave(a) == /\ running = Idle /\ stage[a] = "active" /\ a \in dead
            /\ stage' = [stage EXCEPT ![a] = "left"]
            /\ Reaches(a, "leave", 0)
            /\ UNCHANGED <<dead, enabled>>

Continue(a) == /\ running.actor = a
               /\ Reaches(a, running.event, running.component)
               /\ UNCHANGED <<stage, dead, enabled>>

Next == \/ Elsewhere
        \/ \E a \in Actors : \/ Spawn(a) \/ Kill(a) \/ Switch(a)
                             \/ Start(a) \/ Callback(a) \/ Leave(a) \/ Continue(a)

(* Every spawned actor is started and every destroyed one leaves, although *)
(* neither can happen while a script runs.                                 *)
Fairness == \A a \in Actors : SF_lifeVars(Start(a)) /\ SF_lifeVars(Leave(a))

Safe == Init /\ [][Next]_lifeVars

Spec == Safe /\ Fairness
===============================================================================
