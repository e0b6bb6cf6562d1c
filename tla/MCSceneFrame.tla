----------------------------- MODULE MCSceneFrame -----------------------------
(* Two layers and three actors: one with two behaviors of which a script   *)
(* can reach the second, one with a behavior that begins disabled (until a *)
(* script enables it nothing of the actor is called, and it goes through   *)
(* the lists all the same), and one with a single behavior, always on.     *)
EXTENDS SceneFrame, TLC

CONSTANTS a1, a2, a3, back, front

MCZ == (back :> 0) @@ (front :> 1)

MCPrefab == (a1 :> {1, 2}) @@ (a2 :> {}) @@ (a3 :> {1})
MCNamed  == (a1 :> {2}) @@ (a2 :> {1}) @@ (a3 :> {})
===============================================================================
