--------------------------- MODULE SceneFrame_proofs ---------------------------
(***************************************************************************)
(* Proofs about the loops of a frame, for every set of actors and layers.  *)
(***************************************************************************)
EXTENDS SceneFrame, TLAPS

InUpdate == phase \in {"sweep", "remove", "alive", "start"}

(* Where the loops are, and what that implies. *)
LoopInv ==
  /\ InUpdate => running = Idle \/ running.actor \in Actors
  /\ phase # "sweep" => ai >= 1
  /\ phase = "sweep" => ai <= Len(m_actors[Layer])
  /\ phase = "remove" => ai <= Len(m_actors[Layer]) /\ Actor \in m_dead
  /\ phase = "start" => Range(newFrameActors) \subseteq Range(m_actors[Layer])
  /\ ~InUpdate => newFrameActors = <<>>

(* The actors that are in a layer and have another stage than "active": in *)
(* the start loop those it has not come to, in the removal loop the one    *)
(* that was just told to leave.                                            *)
Unstarted == IF phase = "start"
             THEN {newFrameActors[j] : j \in ai .. Len(newFrameActors)}
             ELSE {}

Leaving == IF phase = "remove" THEN {Actor} ELSE {}

StageInv ==
  /\ \A l \in Layers : \A a \in Range(m_newActors[l]) : stage[a] = "spawned"
  /\ \A a \in Range(Taken) : stage[a] = "spawned"
  /\ \A l \in Layers : \A a \in Range(m_actors[l]) :
       stage[a] = IF a \in Unstarted THEN "spawned"
                  ELSE IF a \in Leaving THEN "left" ELSE "active"
  /\ \A a \in Actors : stage[a] \in {"spawned", "active"} => a \in Listed
  /\ \A a \in Actors : stage[a] = "left" => a \in m_dead
  /\ partner # Nobody => phase = "world" /\ stage[partner] = "active"

(* Above its index the removal loop has left no actor that was dead when   *)
(* it began.                                                               *)
SweepInv ==
  /\ doomed \subseteq m_dead
  /\ \A a \in doomed : stage[a] \in {"active", "left"}
  /\ phase \in {"sweep", "remove"} =>
       \A j \in DOMAIN m_actors[Layer] : j > ai => m_actors[Layer][j] \notin doomed
  /\ DoomedRemoved

IInv == TypeOK /\ LoopInv /\ NoDuplicates /\ StageInv /\ SweepInv

--------------------------------------------------------------------------------
(* The operators on lists. *)

LEMMA RangeFacts ==
  ASSUME NEW S, NEW s \in Seq(S)
  PROVE  /\ Range(s) \subseteq S
         /\ \A i \in DOMAIN s : s[i] \in Range(s)
         /\ \A a \in Range(s) : \E i \in DOMAIN s : s[i] = a
         /\ DOMAIN s = 1 .. Len(s)
         /\ Len(s) \in Nat
BY DEF Range

LEMMA AppendFacts ==
  ASSUME NEW S, NEW s \in Seq(S), NEW a \in S
  PROVE  /\ Append(s, a) \in Seq(S)
         /\ Range(Append(s, a)) = Range(s) \cup {a}
         /\ IsInjective(s) /\ a \notin Range(s) => IsInjective(Append(s, a))
<1>. DEFINE t == Append(s, a)
<1>1. /\ t \in Seq(S) /\ Len(t) = Len(s) + 1
      /\ t[Len(s) + 1] = a
      /\ \A i \in 1 .. Len(s) : t[i] = s[i]
  OBVIOUS
<1>2. DOMAIN s = 1 .. Len(s) /\ DOMAIN t = 1 .. Len(s) + 1 /\ Len(s) \in Nat
  BY <1>1
<1>. HIDE DEF t
<1>3. Range(t) = Range(s) \cup {a}
  BY <1>1, <1>2 DEF Range
<1>4. IsInjective(s) /\ a \notin Range(s) => IsInjective(t)
  BY <1>1, <1>2 DEF Range, IsInjective
<1>. QED BY <1>1, <1>3, <1>4 DEF t

LEMMA ConcatFacts ==
  ASSUME NEW S, NEW s \in Seq(S), NEW t \in Seq(S)
  PROVE  /\ s \o t \in Seq(S)
         /\ Range(s \o t) = Range(s) \cup Range(t)
         /\ IsInjective(s) /\ IsInjective(t) /\ Range(s) \cap Range(t) = {}
            => IsInjective(s \o t)
<1>. DEFINE u == s \o t
<1>1. /\ u \in Seq(S) /\ Len(u) = Len(s) + Len(t)
      /\ \A i \in 1 .. Len(u) : u[i] = IF i <= Len(s) THEN s[i] ELSE t[i - Len(s)]
  OBVIOUS
<1>2. /\ DOMAIN s = 1 .. Len(s) /\ DOMAIN t = 1 .. Len(t)
      /\ DOMAIN u = 1 .. Len(s) + Len(t)
      /\ Len(s) \in Nat /\ Len(t) \in Nat
  BY <1>1
<1>. HIDE DEF u
<1>3. \A j \in 1 .. Len(t) : u[j + Len(s)] = t[j]
  <2>. TAKE j \in 1 .. Len(t)
  <2>1. j + Len(s) \in 1 .. Len(u) /\ ~(j + Len(s) <= Len(s)) /\ (j + Len(s)) - Len(s) = j
    BY <1>1, <1>2
  <2>. QED BY <1>1, <2>1
<1>4. \A i \in 1 .. Len(u) : u[i] \in IF i <= Len(s) THEN Range(s) ELSE Range(t)
  <2>. TAKE i \in 1 .. Len(u)
  <2>1. CASE i <= Len(s)
    BY <2>1, <1>1, <1>2 DEF Range
  <2>2. CASE ~(i <= Len(s))
    <3>1. i - Len(s) \in 1 .. Len(t) /\ u[i] = t[i - Len(s)]
      BY <2>2, <1>1, <1>2
    <3>. QED BY <2>2, <3>1, <1>2 DEF Range
  <2>. QED BY <2>1, <2>2
<1>5. Range(u) = Range(s) \cup Range(t)
  <2>1. Range(u) \subseteq Range(s) \cup Range(t)
    BY <1>1, <1>2, <1>4 DEF Range
  <2>2. Range(s) \subseteq Range(u)
    BY <1>1, <1>2 DEF Range
  <2>3. Range(t) \subseteq Range(u)
    BY <1>2, <1>3 DEF Range
  <2>. QED BY <2>1, <2>2, <2>3
<1>6. IsInjective(s) /\ IsInjective(t) /\ Range(s) \cap Range(t) = {} => IsInjective(u)
  <2>. SUFFICES ASSUME IsInjective(s), IsInjective(t), Range(s) \cap Range(t) = {},
                       NEW i \in DOMAIN u, NEW j \in DOMAIN u, u[i] = u[j]
                PROVE  i = j
    BY DEF IsInjective
  <2>1. CASE i <= Len(s) /\ j <= Len(s)
    BY <2>1, <1>1, <1>2 DEF IsInjective
  <2>2. CASE i > Len(s) /\ j > Len(s)
    <3>1. i - Len(s) \in DOMAIN t /\ j - Len(s) \in DOMAIN t
      BY <2>2, <1>2
    <3>2. t[i - Len(s)] = t[j - Len(s)]
      BY <2>2, <1>1, <1>2
    <3>3. i - Len(s) = j - Len(s)
      BY <3>1, <3>2 DEF IsInjective
    <3>. QED BY <3>3, <1>2
  <2>3. CASE i <= Len(s) /\ j > Len(s)
    <3>1. u[i] \in Range(s) /\ u[j] \in Range(t)
      BY <2>3, <1>1, <1>2, <1>4
    <3>. QED BY <3>1
  <2>4. CASE i > Len(s) /\ j <= Len(s)
    <3>1. u[j] \in Range(s) /\ u[i] \in Range(t)
      BY <2>4, <1>1, <1>2, <1>4
    <3>. QED BY <3>1
  <2>. QED BY <2>1, <2>2, <2>3, <2>4, <1>2
<1>. QED BY <1>1, <1>5, <1>6 DEF u

(* Removing by swapping keeps the other actors, each once and, except for  *)
(* the last one, in its place.                                             *)
LEMMA SwapRemoveFacts ==
  ASSUME NEW S, NEW s \in Seq(S), NEW i \in DOMAIN s
  PROVE  /\ SwapRemove(s, i) \in Seq(S)
         /\ Len(SwapRemove(s, i)) = Len(s) - 1
         /\ \A j \in DOMAIN SwapRemove(s, i) :
              j # i => SwapRemove(s, i)[j] = s[j]
         /\ IsInjective(s) => /\ IsInjective(SwapRemove(s, i))
                              /\ Range(SwapRemove(s, i)) = Range(s) \ {s[i]}
<1>. DEFINE w == [s EXCEPT ![i] = s[Len(s)]]
            t == SubSeq(w, 1, Len(s) - 1)
<1>1. /\ DOMAIN s = 1 .. Len(s) /\ Len(s) \in Nat /\ Len(s) >= 1
      /\ s[Len(s)] \in S
  OBVIOUS
<1>2. /\ w \in Seq(S) /\ Len(w) = Len(s)
      /\ \A j \in 1 .. Len(s) : w[j] = IF j = i THEN s[Len(s)] ELSE s[j]
  BY <1>1
<1>. HIDE DEF w
<1>3. /\ t \in Seq(S) /\ Len(t) = Len(s) - 1
      /\ \A j \in 1 .. Len(s) - 1 : t[j] = IF j = i THEN s[Len(s)] ELSE s[j]
  BY <1>1, <1>2
<1>4. DOMAIN t = 1 .. Len(s) - 1
  BY <1>3
<1>. HIDE DEF t
<1>5. IsInjective(s) => IsInjective(t)
  BY <1>1, <1>3, <1>4 DEF IsInjective
<1>6. ASSUME IsInjective(s) PROVE Range(t) = Range(s) \ {s[i]}
  <2>1. Range(t) \subseteq Range(s) \ {s[i]}
    BY <1>1, <1>3, <1>4, <1>6 DEF IsInjective, Range
  <2>2. ASSUME NEW a \in Range(s), a # s[i] PROVE a \in Range(t)
    <3>1. PICK j \in DOMAIN s : s[j] = a
      BY DEF Range
    <3>2. CASE j < Len(s)
      <4>1. j \in DOMAIN t /\ t[j] = a
        BY <3>1, <3>2, <2>2, <1>1, <1>3, <1>4
      <4>. QED BY <4>1 DEF Range
    <3>3. CASE j = Len(s)
      <4>1. i # j
        BY <2>2, <3>1
      <4>2. i \in DOMAIN t /\ t[i] = a
        BY <3>1, <3>3, <4>1, <1>1, <1>3, <1>4
      <4>. QED BY <4>2 DEF Range
    <3>. QED BY <3>1, <3>2, <3>3, <1>1
  <2>. QED BY <2>1, <2>2
<1>. QED BY <1>1, <1>3, <1>4, <1>5, <1>6 DEF SwapRemove, w, t

(* The layer and the actor a loop is at. *)
LEMMA AtLayer ==
  ASSUME TypeOK, li <= Len(m_layers)
  PROVE  /\ Layer \in Layers
         /\ m_actors[Layer] \in Seq(Actors) /\ m_newActors[Layer] \in Seq(Actors)
<1>1. m_layers \in Seq(Layers) /\ li \in Nat \ {0}
  BY DEF TypeOK
<1>2. Layer \in Layers
  BY <1>1 DEF Layer
<1>. QED BY <1>2 DEF TypeOK

LEMMA AtActor ==
  ASSUME TypeOK, li <= Len(m_layers), ai >= 1, ai <= Len(m_actors[Layer])
  PROVE  /\ Actor \in Actors
         /\ ai \in DOMAIN m_actors[Layer]
         /\ Actor \in Range(m_actors[Layer])
<1>1. m_actors[Layer] \in Seq(Actors) /\ ai \in Nat
  BY AtLayer DEF TypeOK
<1>. QED BY <1>1 DEF Actor, Range

LEMMA ListTypes ==
  ASSUME TypeOK
  PROVE  /\ \A k \in Layers : /\ Range(m_newActors[k]) \subseteq Actors
                             /\ Range(m_actors[k]) \subseteq Actors
         /\ Range(Taken) \subseteq Actors
<1>1. Taken \in Seq(Actors)
  BY DEF TypeOK, Taken
<1>. QED BY <1>1, RangeFacts DEF TypeOK

(* A callback goes to one behavior of the actor, or to none. *)
LEMMA TellFacts ==
  ASSUME TypeOK, NEW a \in Actors, NEW e \in Events, NEW i \in Nat, Tell(a, e, i)
  PROVE  running' \in Calls /\ (running' = Idle \/ running'.actor = a)
<1>1. Later(a, i) \subseteq Nat
  BY DEF TypeOK, Later
<1>2. ASSUME NEW j \in Later(a, i),
             running' = [actor |-> a, event |-> e, component |-> j]
      PROVE  running' \in Calls /\ running'.actor = a
  BY <1>1, <1>2 DEF Calls
<1>3. Idle \in Calls
  BY DEF Idle, Calls, Events
<1>. QED BY <1>2, <1>3 DEF Tell

LEMMA CallFacts ==
  ASSUME TypeOK, NEW a \in Actors, NEW e \in Events, Call(a, e)
  PROVE  running' \in Calls /\ (running' = Idle \/ running'.actor = a)
BY TellFacts DEF Call

LEMMA CallSceneFacts ==
  ASSUME NEW e \in Events, CallScene(e)
  PROVE  running' \in Calls
BY DEF CallScene, Calls

LEMMA InitIInv == Init => IInv
<1>. SUFFICES ASSUME Init PROVE IInv
  OBVIOUS
<1>0. Range(<<>>) = {} /\ IsInjective(<<>>)
  BY DEF Range, IsInjective
<1>1. TypeOK
  <2>1. /\ m_layers \in Seq(Layers) /\ newFrameActors \in Seq(Actors)
        /\ m_actors \in [Layers -> Seq(Actors)]
        /\ m_newActors \in [Layers -> Seq(Actors)]
    BY DEF Init
  <2>2. enabled \in [Actors -> SUBSET (Nat \ {0})] /\ running \in Calls
    BY SceneAssumption DEF Init, Calls, Events
  <2>. QED BY <2>1, <2>2 DEF Init, TypeOK
<1>2. LoopInv
  BY DEF Init, LoopInv, InUpdate
<1>3. NoDuplicates
  BY <1>0 DEF Init, NoDuplicates, Taken
<1>4. StageInv
  BY <1>0 DEF Init, StageInv, Taken
<1>5. SweepInv
  BY DEF Init, SweepInv, DoomedRemoved
<1>. QED BY <1>1, <1>2, <1>3, <1>4, <1>5 DEF IInv

--------------------------------------------------------------------------------
(* Every step keeps the types. *)
LEMMA TypeStep == IInv /\ [Next]_vars => TypeOK'
<1>. SUFFICES ASSUME IInv, [Next]_vars PROVE TypeOK'
  OBVIOUS
<1>0. TypeOK /\ LoopInv
  BY DEF IInv
<1>. USE DEF listVars, loopVars, worldVars, ghostVars
<1>1. ASSUME NEW l \in Layers, AddLayer(l) PROVE TypeOK'
  <2>1. Range(m_layers) \subseteq Layers /\ Len(m_layers) \in Nat
    BY <1>0, RangeFacts DEF TypeOK
  <2>2. PICK s \in [1 .. Len(m_layers) + 1 -> Range(m_layers) \cup {l}] : m_layers' = s
    BY <1>1 DEF AddLayer
  <2>3. s \in Seq(Layers) /\ Len(s) = Len(m_layers) + 1
    BY <2>1, <2>2
  <2>4. m_layers' \in Seq(Layers) /\ Len(m_layers') >= Len(m_layers)
    BY <2>1, <2>2, <2>3
  <2>5. UNCHANGED <<m_actors, m_newActors, m_dead, loopVars, enabled, running, worldVars,
                 ghostVars>>
    BY <1>1 DEF AddLayer
  <2>. QED BY ONLY <1>0, <2>1, <2>4, <2>5 DEF TypeOK, loopVars, worldVars, ghostVars
<1>2. ASSUME NEW l \in Layers, NEW a \in Actors, Spawn(l, a) PROVE TypeOK'
  <2>1. m_newActors' \in [Layers -> Seq(Actors)]
    BY <1>0, <1>2 DEF TypeOK, Spawn
  <2>. QED BY <1>0, <1>2, <2>1 DEF TypeOK, Spawn
<1>3. ASSUME NEW a \in Actors, Destroy(a) PROVE TypeOK'
  BY <1>0, <1>3 DEF TypeOK, Destroy
<1>23. ASSUME NEW a \in Actors, NEW flag \in BOOLEAN, NEW i \in Named[a],
              SetEnabled(a, i, flag)
       PROVE  TypeOK'
  <2>1. i \in Nat \ {0}
    BY SceneAssumption
  <2>2. enabled' \in [Actors -> SUBSET (Nat \ {0})]
    BY <1>0, <1>23, <2>1 DEF TypeOK, SetEnabled
  <2>. QED BY <1>0, <1>23, <2>2 DEF TypeOK, SetEnabled
<1>4. ASSUME Return PROVE TypeOK'
  <2>1. running' \in Calls
    <3>1. CASE running.actor = Nobody
      BY <1>4, <3>1 DEF Return, Idle, Calls, Events
    <3>2. CASE running.actor # Nobody
      <4>1. /\ running.actor \in Actors /\ running.event \in Events
            /\ running.component \in Nat
        BY <1>0, <3>2 DEF TypeOK, Calls
      <4>2. Tell(running.actor, running.event, running.component)
        BY <1>4, <3>2 DEF Return
      <4>. QED BY <1>0, <4>1, <4>2, TellFacts
    <3>. QED BY <3>1, <3>2
  <2>. QED BY <1>0, <1>4, <2>1 DEF TypeOK, Return
<1>5. ASSUME NEW a \in Bodies, NEW b \in Bodies, BeginCollision(a, b) PROVE TypeOK'
  <2>1. a \in Actors /\ b \in Actors
    BY DEF Bodies
  <2>2. touched' \in SUBSET SUBSET Actors
    BY <1>0, <1>5, <2>1 DEF TypeOK, BeginCollision
  <2>3. /\ running' = running \/ Call(a, "collide")
        /\ partner' = partner \/ partner' = b
        /\ UNCHANGED <<listVars, loopVars, enabled, ghostVars>>
    BY <1>5 DEF BeginCollision
  <2>4. running' \in Calls
    BY <1>0, <2>1, <2>3, CallFacts DEF TypeOK, Events
  <2>. QED BY <1>0, <2>1, <2>2, <2>3, <2>4 DEF TypeOK
<1>6. ASSUME TellPartner PROVE TypeOK'
  <2>1. partner \in Actors /\ Call(partner, "collide")
    BY <1>0, <1>6 DEF TellPartner, TypeOK
  <2>2. running' \in Calls
    BY <1>0, <2>1, CallFacts DEF Events
  <2>. QED BY <1>0, <1>6, <2>2 DEF TypeOK, TellPartner
<1>7. ASSUME EndStep PROVE TypeOK'
  <2>1. running' \in Calls
    BY <1>7, CallSceneFacts DEF EndStep, Events
  <2>. QED BY <1>0, <1>7, <2>1 DEF TypeOK, EndStep
<1>8. ASSUME NEW p \in {"advance", "gui"}, CallActors(p) PROVE TypeOK'
  <2>1. Actor \in Actors
    BY <1>0, <1>8, AtActor DEF CallActors, InLayer, LoopInv
  <2>2. running' \in Calls
    BY <1>0, <1>8, <2>1, CallFacts DEF CallActors, Events
  <2>. QED BY <1>0, <1>8, <2>2 DEF TypeOK, CallActors, InLayer
<1>9. ASSUME NEW p \in {"advance", "gui"}, NextLayer(p) PROVE TypeOK'
  BY <1>0, <1>9 DEF TypeOK, NextLayer, InLayer
<1>10. ASSUME EndAdvance PROVE TypeOK'
  <2>1. running' \in Calls
    BY <1>10, CallSceneFacts DEF EndAdvance, Events
  <2>. QED BY <1>0, <1>10, <2>1 DEF TypeOK, EndAdvance
<1>11. ASSUME EndGui PROVE TypeOK'
  BY <1>0, <1>11 DEF TypeOK, EndGui
<1>12. ASSUME TakeNewActors PROVE TypeOK'
  <2>1. /\ Layer \in Layers /\ m_actors[Layer] \in Seq(Actors)
        /\ m_newActors[Layer] \in Seq(Actors) /\ Len(m_actors[Layer]) \in Nat
    BY <1>0, <1>12, AtLayer DEF TakeNewActors, InLayer
  <2>2. m_newActors' \in [Layers -> Seq(Actors)]
    <3>1. <<>> \in Seq(Actors)
      OBVIOUS
    <3>. QED BY <1>0, <1>12, <3>1 DEF TypeOK, TakeNewActors
  <2>3. doomed' \in SUBSET Actors
    BY <1>0, <1>12 DEF TypeOK, TakeNewActors
  <2>. QED BY <1>0, <1>12, <2>1, <2>2, <2>3 DEF TypeOK, TakeNewActors, InLayer
<1>13. ASSUME KeepActor PROVE TypeOK'
  BY <1>0, <1>13 DEF TypeOK, KeepActor
<1>14. ASSUME LeaveActor PROVE TypeOK'
  <2>1. Actor \in Actors
    BY <1>0, <1>14, AtActor DEF LeaveActor, LoopInv, TypeOK
  <2>2. running' \in Calls
    BY <1>0, <1>14, <2>1, CallFacts DEF LeaveActor, Events
  <2>. QED BY <1>0, <1>14, <2>1, <2>2 DEF TypeOK, LeaveActor
<1>15. ASSUME RemoveActor PROVE TypeOK'
  <2>1. /\ Layer \in Layers /\ m_actors[Layer] \in Seq(Actors)
        /\ ai \in DOMAIN m_actors[Layer]
    BY <1>0, <1>15, AtLayer, AtActor DEF RemoveActor, LoopInv, TypeOK
  <2>2. SwapRemove(m_actors[Layer], ai) \in Seq(Actors)
    BY <2>1, SwapRemoveFacts
  <2>3. m_actors' \in [Layers -> Seq(Actors)]
    BY <1>0, <1>15, <2>2 DEF TypeOK, RemoveActor
  <2>4. ai' \in Nat
    BY <1>0, <1>15, <2>1 DEF TypeOK, RemoveActor
  <2>. QED BY <1>0, <1>15, <2>3, <2>4 DEF TypeOK, RemoveActor
<1>16. ASSUME EndSweep PROVE TypeOK'
  BY <1>0, <1>16 DEF TypeOK, EndSweep
<1>17. ASSUME UpdateActor PROVE TypeOK'
  <2>1. Actor \in Actors
    BY <1>0, <1>17, AtActor DEF UpdateActor, LoopInv, TypeOK
  <2>2. running' \in Calls
    BY <1>0, <1>17, <2>1, CallFacts DEF UpdateActor, Events
  <2>. QED BY <1>0, <1>17, <2>2 DEF TypeOK, UpdateActor
<1>18. ASSUME AddNewActors PROVE TypeOK'
  <2>1. Layer \in Layers /\ m_actors[Layer] \o newFrameActors \in Seq(Actors)
    BY <1>0, <1>18, AtLayer DEF TypeOK, AddNewActors
  <2>2. m_actors' \in [Layers -> Seq(Actors)]
    BY <1>0, <1>18, <2>1 DEF TypeOK, AddNewActors
  <2>. QED BY <1>0, <1>18, <2>2 DEF TypeOK, AddNewActors
<1>19. ASSUME StartActor PROVE TypeOK'
  <2>1. newFrameActors[ai] \in Actors
    BY <1>0, <1>19 DEF TypeOK, StartActor, LoopInv
  <2>2. running' \in Calls
    BY <1>0, <1>19, <2>1, CallFacts DEF StartActor, Events
  <2>. QED BY <1>0, <1>19, <2>1, <2>2 DEF TypeOK, StartActor
<1>20. ASSUME EndLayer PROVE TypeOK'
  BY <1>0, <1>20 DEF TypeOK, EndLayer
<1>21. ASSUME EndFrame PROVE TypeOK'
  <2>1. running' \in Calls
    BY <1>21, CallSceneFacts DEF EndFrame, Events
  <2>. QED BY <1>0, <1>21, <2>1 DEF TypeOK, EndFrame
<1>22. ASSUME UNCHANGED vars PROVE TypeOK'
  BY <1>0, <1>22 DEF TypeOK, vars
<1>. QED
  BY <1>1, <1>2, <1>3, <1>4, <1>5, <1>6, <1>7, <1>8, <1>9, <1>10, <1>11, <1>12,
     <1>13, <1>14, <1>15, <1>16, <1>17, <1>18, <1>19, <1>20, <1>21, <1>22, <1>23
     DEF Next, Script, Frame

--------------------------------------------------------------------------------
(* Every step keeps the loops where they may be. *)
LEMMA LoopStep == IInv /\ [Next]_vars => LoopInv'
<1>. SUFFICES ASSUME IInv, [Next]_vars PROVE LoopInv'
  OBVIOUS
<1>0. TypeOK /\ LoopInv
  BY DEF IInv
<1>. USE DEF listVars, loopVars, worldVars, ghostVars, InUpdate
<1>1. ASSUME NEW l \in Layers, AddLayer(l) PROVE LoopInv'
  <2>1. ~InUpdate
    BY <1>0, <1>1, SceneAssumption DEF AddLayer, LoopInv, Idle
  <2>. QED BY <1>0, <1>1, <2>1 DEF LoopInv, AddLayer
<1>2. ASSUME NEW l \in Layers, NEW a \in Actors, Spawn(l, a) PROVE LoopInv'
  BY <1>0, <1>2 DEF LoopInv, Spawn, Layer, Actor
<1>3. ASSUME NEW a \in Actors, Destroy(a) PROVE LoopInv'
  BY <1>0, <1>3 DEF LoopInv, Destroy, Layer, Actor
<1>23. ASSUME NEW a \in Actors, NEW flag \in BOOLEAN, NEW i \in Named[a],
              SetEnabled(a, i, flag)
       PROVE  LoopInv'
  BY <1>0, <1>23 DEF LoopInv, SetEnabled, Layer, Actor
<1>4. ASSUME Return PROVE LoopInv'
  <2>1. running' = Idle \/ running'.actor \in Actors
    <3>1. CASE running.actor = Nobody
      BY <1>4, <3>1 DEF Return
    <3>2. CASE running.actor # Nobody
      <4>1. /\ running.actor \in Actors /\ running.event \in Events
            /\ running.component \in Nat
        BY <1>0, <3>2 DEF TypeOK, Calls
      <4>2. Tell(running.actor, running.event, running.component)
        BY <1>4, <3>2 DEF Return
      <4>. QED BY <1>0, <4>1, <4>2, TellFacts
    <3>. QED BY <3>1, <3>2
  <2>. QED BY <1>0, <1>4, <2>1 DEF LoopInv, Return, Layer, Actor
<1>5. ASSUME NEW a \in Bodies, NEW b \in Bodies, BeginCollision(a, b) PROVE LoopInv'
  BY <1>0, <1>5 DEF LoopInv, BeginCollision
<1>6. ASSUME TellPartner PROVE LoopInv'
  BY <1>0, <1>6 DEF LoopInv, TellPartner
<1>7. ASSUME EndStep PROVE LoopInv'
  BY <1>0, <1>7 DEF LoopInv, EndStep
<1>8. ASSUME NEW p \in {"advance", "gui"}, CallActors(p) PROVE LoopInv'
  BY <1>0, <1>8 DEF LoopInv, CallActors, InLayer, TypeOK
<1>9. ASSUME NEW p \in {"advance", "gui"}, NextLayer(p) PROVE LoopInv'
  BY <1>0, <1>9 DEF LoopInv, NextLayer, InLayer
<1>10. ASSUME EndAdvance PROVE LoopInv'
  BY <1>0, <1>10 DEF LoopInv, EndAdvance
<1>11. ASSUME EndGui PROVE LoopInv'
  BY <1>0, <1>11 DEF LoopInv, EndGui
<1>12. ASSUME TakeNewActors PROVE LoopInv'
  <2>1. Len(m_actors[Layer]) \in Nat
    BY <1>0, <1>12, AtLayer DEF TakeNewActors, InLayer
  <2>. QED BY <1>0, <1>12, <2>1 DEF LoopInv, TakeNewActors, InLayer, Layer
<1>13. ASSUME KeepActor PROVE LoopInv'
  <2>1. Len(m_actors[Layer]) \in Nat
    BY <1>0, <1>13, AtLayer DEF KeepActor, TypeOK
  <2>. QED BY <1>0, <1>13, <2>1 DEF LoopInv, KeepActor, Layer, TypeOK
<1>14. ASSUME LeaveActor PROVE LoopInv'
  <2>1. Actor \in Actors
    BY <1>0, <1>14, AtActor DEF LeaveActor, LoopInv, TypeOK
  <2>2. running' = Idle \/ running'.actor \in Actors
    BY <1>0, <1>14, <2>1, CallFacts DEF LeaveActor, Events
  <2>. QED BY <1>0, <1>14, <2>2 DEF LoopInv, LeaveActor, Layer, Actor, TypeOK
<1>15. ASSUME RemoveActor PROVE LoopInv'
  <2>1. /\ Layer \in Layers /\ m_actors[Layer] \in Seq(Actors)
        /\ ai \in DOMAIN m_actors[Layer]
    BY <1>0, <1>15, AtLayer, AtActor DEF RemoveActor, LoopInv, TypeOK
  <2>5. Len(SwapRemove(m_actors[Layer], ai)) = Len(m_actors[Layer]) - 1
    BY <2>1, SwapRemoveFacts
  <2>2. /\ Len(SwapRemove(m_actors[Layer], ai)) = Len(m_actors[Layer]) - 1
        /\ Len(m_actors[Layer]) \in Nat
    BY <2>1, <2>5
  <2>3. m_actors'[Layer] = SwapRemove(m_actors[Layer], ai)
    BY <1>0, <1>15, <2>1 DEF TypeOK, RemoveActor
  <2>4. ai' <= Len(m_actors'[Layer])
    BY <1>0, <1>15, <2>1, <2>2, <2>3 DEF RemoveActor, TypeOK
  <2>. QED BY <1>0, <1>15, <2>4 DEF LoopInv, RemoveActor, Layer
<1>16. ASSUME EndSweep PROVE LoopInv'
  BY <1>0, <1>16 DEF LoopInv, EndSweep
<1>17. ASSUME UpdateActor PROVE LoopInv'
  <2>1. Actor \in Actors
    BY <1>0, <1>17, AtActor DEF UpdateActor, LoopInv, TypeOK
  <2>2. running' = Idle \/ running'.actor \in Actors
    BY <1>0, <1>17, <2>1, CallFacts DEF UpdateActor, Events
  <2>. QED BY <1>0, <1>17, <2>2 DEF LoopInv, UpdateActor, TypeOK
<1>18. ASSUME AddNewActors PROVE LoopInv'
  <2>1. Layer \in Layers /\ m_actors[Layer] \in Seq(Actors)
    BY <1>0, <1>18, AtLayer DEF TypeOK, AddNewActors
  <2>2. m_actors'[Layer] = m_actors[Layer] \o newFrameActors
    BY <1>0, <1>18, <2>1 DEF TypeOK, AddNewActors
  <2>3. Range(newFrameActors) \subseteq Range(m_actors'[Layer])
    BY <1>0, <2>1, <2>2, ConcatFacts DEF TypeOK
  <2>. QED BY <1>0, <1>18, <2>3 DEF LoopInv, AddNewActors, Layer
<1>19. ASSUME StartActor PROVE LoopInv'
  <2>1. newFrameActors[ai] \in Actors
    BY <1>0, <1>19 DEF TypeOK, StartActor, LoopInv
  <2>2. running' = Idle \/ running'.actor \in Actors
    BY <1>0, <1>19, <2>1, CallFacts DEF StartActor, Events
  <2>. QED BY <1>0, <1>19, <2>2 DEF LoopInv, StartActor, Layer, TypeOK
<1>20. ASSUME EndLayer PROVE LoopInv'
  BY <1>0, <1>20 DEF LoopInv, EndLayer
<1>21. ASSUME EndFrame PROVE LoopInv'
  BY <1>0, <1>21 DEF LoopInv, EndFrame
<1>22. ASSUME UNCHANGED vars PROVE LoopInv'
  BY <1>0, <1>22 DEF LoopInv, vars, Layer, Actor
<1>. QED
  BY <1>1, <1>2, <1>3, <1>4, <1>5, <1>6, <1>7, <1>8, <1>9, <1>10, <1>11, <1>12,
     <1>13, <1>14, <1>15, <1>16, <1>17, <1>18, <1>19, <1>20, <1>21, <1>22, <1>23
     DEF Next, Script, Frame

--------------------------------------------------------------------------------
(* No step lists an actor twice.  A spawned actor is new to every list, as *)
(* listed actors are no longer unborn.                                     *)
LEMMA ListedAreBorn ==
  ASSUME IInv, NEW a \in Actors, stage[a] = "unborn"
  PROVE  /\ \A l \in Layers : a \notin Range(m_actors[l]) /\ a \notin Range(m_newActors[l])
         /\ a \notin Range(Taken)
BY DEF IInv, StageInv

LEMMA DupStep == IInv /\ [Next]_vars => NoDuplicates'
<1>. SUFFICES ASSUME IInv, [Next]_vars PROVE NoDuplicates'
  OBVIOUS
<1>0. TypeOK /\ LoopInv /\ NoDuplicates
  BY DEF IInv
<1>. USE DEF listVars, loopVars, worldVars, ghostVars
<1>1. ASSUME UNCHANGED <<m_actors, m_newActors, newFrameActors>>, Taken' = Taken
      PROVE  NoDuplicates'
  BY <1>0, <1>1 DEF NoDuplicates
<1>2. ASSUME NEW l \in Layers, NEW a \in Actors, Spawn(l, a) PROVE NoDuplicates'
  <2>1. /\ m_newActors[l] \in Seq(Actors) /\ DOMAIN m_newActors = Layers
        /\ m_newActors' = [m_newActors EXCEPT ![l] = Append(m_newActors[l], a)]
        /\ UNCHANGED <<m_actors, newFrameActors>> /\ Taken' = Taken
    BY <1>0, <1>2 DEF TypeOK, Spawn, Taken
  <2>2. /\ \A k \in Layers : a \notin Range(m_actors[k]) /\ a \notin Range(m_newActors[k])
        /\ a \notin Range(Taken)
    BY <1>2, ListedAreBorn DEF Spawn
  <2>3. /\ IsInjective(Append(m_newActors[l], a))
        /\ Range(Append(m_newActors[l], a)) = Range(m_newActors[l]) \cup {a}
    BY <1>0, <2>1, <2>2, AppendFacts DEF NoDuplicates
  <2>4. \A k \in Layers : m_newActors'[k] = IF k = l THEN Append(m_newActors[l], a)
                                                     ELSE m_newActors[k]
    BY <2>1
  <2>5. \A k \in Layers : /\ IsInjective(m_newActors'[k])
                          /\ Range(m_newActors'[k]) = Range(m_newActors[k])
                                \cup (IF k = l THEN {a} ELSE {})
    BY <1>0, <2>3, <2>4 DEF NoDuplicates
  <2>6. \A j, k \in Layers :
          j # k => Range(m_newActors'[j]) \cap Range(m_newActors'[k]) = {}
    BY <1>0, <2>2, <2>5 DEF NoDuplicates
  <2>7. \A j, k \in Layers : /\ Range(m_actors'[j]) \cap Range(m_newActors'[k]) = {}
                             /\ Range(m_newActors'[k]) \cap Range(Taken') = {}
    BY <1>0, <2>1, <2>2, <2>5 DEF NoDuplicates
  <2>8. /\ \A k \in Layers : IsInjective(m_actors'[k]) /\ IsInjective(m_newActors'[k])
        /\ IsInjective(newFrameActors')
    BY <1>0, <2>1, <2>5 DEF NoDuplicates
  <2>9. \A j, k \in Layers : /\ j # k => Range(m_actors'[j]) \cap Range(m_actors'[k]) = {}
                             /\ Range(m_actors'[j]) \cap Range(Taken') = {}
    BY <1>0, <2>1 DEF NoDuplicates
  <2>. QED BY <2>6, <2>7, <2>8, <2>9 DEF NoDuplicates
<1>3. ASSUME TakeNewActors PROVE NoDuplicates'
  <2>1. /\ Layer \in Layers /\ DOMAIN m_newActors = Layers
        /\ newFrameActors' = m_newActors[Layer]
        /\ m_newActors' = [m_newActors EXCEPT ![Layer] = <<>>]
        /\ UNCHANGED m_actors /\ Taken' = newFrameActors'
    BY <1>0, <1>3, AtLayer DEF TypeOK, TakeNewActors, InLayer, Taken
  <2>2. IsInjective(<<>>) /\ Range(<<>>) = {}
    BY DEF IsInjective, Range
  <2>3. \A k \in Layers : m_newActors'[k] = IF k = Layer THEN <<>> ELSE m_newActors[k]
    BY <2>1
  <2>4. \A k \in Layers : /\ IsInjective(m_newActors'[k])
                          /\ Range(m_newActors'[k]) =
                               IF k = Layer THEN {} ELSE Range(m_newActors[k])
    BY <1>0, <2>2, <2>3 DEF NoDuplicates
  <2>. QED BY <1>0, <2>1, <2>4 DEF NoDuplicates
<1>4. ASSUME RemoveActor PROVE NoDuplicates'
  <2>1. /\ Layer \in Layers /\ m_actors[Layer] \in Seq(Actors)
        /\ ai \in DOMAIN m_actors[Layer] /\ DOMAIN m_actors = Layers
    BY <1>0, <1>4, AtLayer, AtActor DEF RemoveActor, LoopInv, TypeOK
  <2>2. /\ m_actors' = [m_actors EXCEPT ![Layer] = SwapRemove(m_actors[Layer], ai)]
        /\ UNCHANGED <<m_newActors, newFrameActors>> /\ Taken' = Taken
    BY <1>4 DEF RemoveActor, Taken
  <2>3. \A k \in Layers : m_actors'[k] = IF k = Layer THEN SwapRemove(m_actors[Layer], ai)
                                                      ELSE m_actors[k]
    BY <2>1, <2>2
  <2>4. /\ IsInjective(SwapRemove(m_actors[Layer], ai))
        /\ Range(SwapRemove(m_actors[Layer], ai)) \subseteq Range(m_actors[Layer])
    BY <1>0, <2>1, SwapRemoveFacts DEF NoDuplicates
  <2>5. \A k \in Layers : /\ IsInjective(m_actors'[k])
                          /\ Range(m_actors'[k]) \subseteq Range(m_actors[k])
    BY <1>0, <2>3, <2>4 DEF NoDuplicates
  <2>. QED BY <1>0, <2>2, <2>5 DEF NoDuplicates
<1>5. ASSUME AddNewActors PROVE NoDuplicates'
  <2>1. /\ Layer \in Layers /\ m_actors[Layer] \in Seq(Actors)
        /\ newFrameActors \in Seq(Actors) /\ DOMAIN m_actors = Layers
    BY <1>0, <1>5, AtLayer DEF AddNewActors, TypeOK
  <2>2. /\ m_actors' = [m_actors EXCEPT ![Layer] = m_actors[Layer] \o newFrameActors]
        /\ UNCHANGED <<m_newActors, newFrameActors>>
        /\ Taken = newFrameActors /\ Taken' = <<>>
    BY <1>5 DEF AddNewActors, Taken
  <2>3. \A k \in Layers : m_actors'[k] = IF k = Layer THEN m_actors[Layer] \o newFrameActors
                                                      ELSE m_actors[k]
    BY <2>1, <2>2
  <2>4. /\ IsInjective(m_actors[Layer] \o newFrameActors)
        /\ Range(m_actors[Layer] \o newFrameActors) =
             Range(m_actors[Layer]) \cup Range(newFrameActors)
    BY <1>0, <2>1, <2>2, ConcatFacts DEF NoDuplicates
  <2>5. \A k \in Layers : /\ IsInjective(m_actors'[k])
                          /\ Range(m_actors'[k]) = Range(m_actors[k])
                               \cup (IF k = Layer THEN Range(newFrameActors) ELSE {})
    BY <1>0, <2>3, <2>4 DEF NoDuplicates
  <2>6. Range(Taken') = {}
    BY <2>2 DEF Range
  <2>7. /\ \A k \in Layers : IsInjective(m_actors'[k]) /\ IsInjective(m_newActors'[k])
        /\ IsInjective(newFrameActors')
    BY <1>0, <2>2, <2>5 DEF NoDuplicates
  <2>8. \A k, l \in Layers :
          k # l => Range(m_actors'[k]) \cap Range(m_actors'[l]) = {}
    BY <1>0, <2>2, <2>5 DEF NoDuplicates
  <2>9. \A k, l \in Layers :
          /\ k # l => Range(m_newActors'[k]) \cap Range(m_newActors'[l]) = {}
          /\ Range(m_actors'[k]) \cap Range(m_newActors'[l]) = {}
    BY <1>0, <2>2, <2>5 DEF NoDuplicates
  <2>10. \A k \in Layers : /\ Range(m_actors'[k]) \cap Range(Taken') = {}
                           /\ Range(m_newActors'[k]) \cap Range(Taken') = {}
    BY <2>6
  <2>. QED BY <2>7, <2>8, <2>9, <2>10 DEF NoDuplicates
<1>6. ASSUME EndLayer PROVE NoDuplicates'
  <2>1. /\ newFrameActors' = <<>> /\ Taken' = <<>> /\ Taken = <<>>
        /\ UNCHANGED <<m_actors, m_newActors>>
    BY <1>6 DEF EndLayer, Taken
  <2>2. IsInjective(<<>>)
    BY DEF IsInjective
  <2>. QED BY <1>0, <2>1, <2>2 DEF NoDuplicates
<1>7. ASSUME \/ \E l \in Layers : AddLayer(l)
             \/ \E a \in Actors : Destroy(a)
             \/ \E a \in Actors, flag \in BOOLEAN : \E i \in Named[a] : SetEnabled(a, i, flag)
             \/ \E a, b \in Bodies : BeginCollision(a, b)
             \/ Return \/ TellPartner \/ EndStep \/ EndAdvance \/ EndGui \/ EndFrame
      PROVE  NoDuplicates'
  BY <1>1, <1>7 DEF AddLayer, Destroy, SetEnabled, BeginCollision, Return, TellPartner, EndStep,
     EndAdvance, EndGui, EndFrame, Taken
<1>8. ASSUME \/ CallActors("advance") \/ CallActors("gui")
             \/ NextLayer("advance") \/ NextLayer("gui")
             \/ KeepActor \/ LeaveActor \/ EndSweep \/ UpdateActor \/ StartActor
             \/ UNCHANGED vars
      PROVE  NoDuplicates'
  BY <1>1, <1>8 DEF CallActors, NextLayer, KeepActor, LeaveActor, EndSweep, UpdateActor,
     StartActor, vars, Taken
<1>. QED
  BY <1>2, <1>3, <1>4, <1>5, <1>6, <1>7, <1>8 DEF Next, Script, Frame

--------------------------------------------------------------------------------
(* Every step keeps the stages right. *)
LEMMA StageStep == IInv /\ [Next]_vars => StageInv'
<1>. SUFFICES ASSUME IInv, [Next]_vars PROVE StageInv'
  OBVIOUS
<1>0. TypeOK /\ LoopInv /\ NoDuplicates /\ StageInv
  BY DEF IInv
<1>. USE DEF listVars, loopVars, worldVars, ghostVars, InUpdate
<1>1. ASSUME UNCHANGED <<m_actors, m_newActors, stage>>, Taken' = Taken,
             Unstarted' = Unstarted, Leaving' = Leaving, m_dead \subseteq m_dead',
             partner' # Nobody => phase' = "world" /\ stage[partner'] = "active"
      PROVE  StageInv'
  <2>1. Listed' = Listed
    BY <1>1 DEF Listed
  <2>. QED BY <1>0, <1>1, <2>1 DEF StageInv
<1>2. ASSUME NEW l \in Layers, NEW a \in Actors, Spawn(l, a) PROVE StageInv'
  <2>1. /\ m_newActors[l] \in Seq(Actors) /\ DOMAIN m_newActors = Layers
        /\ m_newActors' = [m_newActors EXCEPT ![l] = Append(m_newActors[l], a)]
        /\ UNCHANGED <<m_actors, m_dead, partner, phase>> /\ Taken' = Taken
        /\ Unstarted' = Unstarted /\ Leaving' = Leaving
    BY <1>0, <1>2 DEF TypeOK, Spawn, Taken, Unstarted, Leaving, Actor, Layer
  <2>2. /\ \A k \in Layers : a \notin Range(m_actors[k]) /\ a \notin Range(m_newActors[k])
        /\ a \notin Range(Taken)
    BY <1>2, ListedAreBorn DEF Spawn
  <2>3. Range(Append(m_newActors[l], a)) = Range(m_newActors[l]) \cup {a}
    BY <2>1, AppendFacts
  <2>4. \A k \in Layers : Range(m_newActors'[k]) = Range(m_newActors[k])
                                \cup (IF k = l THEN {a} ELSE {})
    BY <2>1, <2>3
  <2>5. /\ \A b \in Actors : stage'[b] = IF b = a THEN "spawned" ELSE stage[b]
        /\ stage[a] = "unborn"
    BY <1>0, <1>2 DEF TypeOK, Spawn
  <2>6. /\ \A k \in Layers : Range(m_newActors[k]) \subseteq Actors
                             /\ Range(m_actors[k]) \subseteq Actors
        /\ Range(Taken) \subseteq Actors
    BY <1>0, ListTypes
  <2>7. Listed' = Listed \cup {a}
    BY <2>1, <2>4 DEF Listed
  <2>8. /\ \A k \in Layers : \A b \in Range(m_newActors'[k]) : stage'[b] = "spawned"
        /\ \A b \in Range(Taken') : stage'[b] = "spawned"
    BY <1>0, <2>1, <2>4, <2>5, <2>6 DEF StageInv
  <2>9. \A k \in Layers : \A b \in Range(m_actors'[k]) :
          stage'[b] = IF b \in Unstarted' THEN "spawned"
                      ELSE IF b \in Leaving' THEN "left" ELSE "active"
    BY <1>0, <2>1, <2>2, <2>5, <2>6 DEF StageInv
  <2>10. \A b \in Actors : /\ stage'[b] \in {"spawned", "active"} => b \in Listed'
                           /\ stage'[b] = "left" => b \in m_dead'
    BY <1>0, <2>1, <2>5, <2>7 DEF StageInv
  <2>11. partner' # Nobody => phase' = "world" /\ stage'[partner'] = "active"
    BY <1>0, <2>1, <2>5 DEF StageInv, TypeOK
  <2>. QED BY <2>8, <2>9, <2>10, <2>11 DEF StageInv
<1>3. ASSUME TakeNewActors PROVE StageInv'
  <2>1. /\ Layer \in Layers /\ DOMAIN m_newActors = Layers
        /\ m_newActors' = [m_newActors EXCEPT ![Layer] = <<>>]
        /\ UNCHANGED <<m_actors, m_dead, stage, partner>>
        /\ Taken' = m_newActors[Layer] /\ Taken = <<>>
        /\ Unstarted' = Unstarted /\ Leaving' = Leaving
        /\ phase = "update"
    BY <1>0, <1>3, AtLayer DEF TypeOK, TakeNewActors, InLayer, Taken, Unstarted, Leaving
  <2>2. Range(<<>>) = {}
    BY DEF Range
  <2>3. \A k \in Layers : Range(m_newActors'[k]) =
                               IF k = Layer THEN {} ELSE Range(m_newActors[k])
    BY <2>1, <2>2
  <2>4. Listed' = Listed
    BY <2>1, <2>2, <2>3 DEF Listed
  <2>. QED BY <1>0, <2>1, <2>3, <2>4 DEF StageInv
<1>4. ASSUME LeaveActor PROVE StageInv'
  <2>1. /\ Layer \in Layers /\ Actor \in Actors /\ Actor \in Range(m_actors[Layer])
    BY <1>0, <1>4, AtLayer, AtActor DEF LeaveActor, LoopInv, TypeOK
  <2>2. /\ Unstarted = {} /\ Unstarted' = {} /\ Leaving = {} /\ Leaving' = {Actor}
        /\ Taken' = Taken
        /\ UNCHANGED <<m_actors, m_newActors, m_dead, partner>>
        /\ partner = Nobody /\ Actor \in m_dead
    BY <1>0, <1>4 DEF LeaveActor, Unstarted, Leaving, Taken, Actor, Layer, StageInv
  <2>3. stage[Actor] = "active"
    BY <1>0, <2>1, <2>2 DEF StageInv
  <2>4. \A b \in Actors : stage'[b] = IF b = Actor THEN "left" ELSE stage[b]
    BY <1>0, <1>4 DEF TypeOK, LeaveActor
  <2>5. /\ \A k \in Layers : Range(m_newActors[k]) \subseteq Actors
                             /\ Range(m_actors[k]) \subseteq Actors
        /\ Range(Taken) \subseteq Actors
    BY <1>0, ListTypes
  <2>6. Listed' = Listed
    BY <2>2 DEF Listed
  <2>7. /\ \A k \in Layers : \A b \in Range(m_newActors'[k]) : stage'[b] = "spawned"
        /\ \A b \in Range(Taken') : stage'[b] = "spawned"
    BY <1>0, <2>2, <2>3, <2>4, <2>5 DEF StageInv
  <2>8. \A k \in Layers : \A b \in Range(m_actors'[k]) :
          stage'[b] = IF b \in Unstarted' THEN "spawned"
                      ELSE IF b \in Leaving' THEN "left" ELSE "active"
    BY <1>0, <2>2, <2>4, <2>5 DEF StageInv
  <2>9. \A b \in Actors : /\ stage'[b] \in {"spawned", "active"} => b \in Listed'
                          /\ stage'[b] = "left" => b \in m_dead'
    BY <1>0, <2>2, <2>4, <2>6 DEF StageInv
  <2>. QED BY <2>2, <2>7, <2>8, <2>9 DEF StageInv
<1>5. ASSUME RemoveActor PROVE StageInv'
  <2>1. /\ Layer \in Layers /\ m_actors[Layer] \in Seq(Actors)
        /\ ai \in DOMAIN m_actors[Layer] /\ DOMAIN m_actors = Layers
        /\ Actor \in Range(m_actors[Layer]) /\ Actor \in Actors
    BY <1>0, <1>5, AtLayer, AtActor DEF RemoveActor, LoopInv, TypeOK
  <2>2. /\ m_actors' = [m_actors EXCEPT ![Layer] = SwapRemove(m_actors[Layer], ai)]
        /\ UNCHANGED <<m_newActors, stage, m_dead, partner>> /\ Taken' = Taken
        /\ Unstarted = {} /\ Unstarted' = {} /\ Leaving' = {} /\ Leaving = {Actor}
        /\ partner = Nobody
    BY <1>0, <1>5 DEF RemoveActor, Taken, Unstarted, Leaving, StageInv
  <2>3. Range(SwapRemove(m_actors[Layer], ai)) = Range(m_actors[Layer]) \ {Actor}
    BY <1>0, <2>1, SwapRemoveFacts DEF NoDuplicates, Actor
  <2>4. \A k \in Layers : k # Layer => Actor \notin Range(m_actors[k])
    BY <1>0, <2>1 DEF NoDuplicates
  <2>5. \A k \in Layers : Range(m_actors'[k]) = Range(m_actors[k]) \ {Actor}
    BY <2>1, <2>2, <2>3, <2>4
  <2>6. stage[Actor] = "left"
    BY <1>0, <2>1, <2>2 DEF StageInv
  <2>7. \A b \in Actors : b \in Listed /\ b # Actor => b \in Listed'
    BY <2>2, <2>5 DEF Listed
  <2>8. \A b \in Actors : stage'[b] \in {"spawned", "active"} => b \in Listed'
    BY <1>0, <2>2, <2>6, <2>7 DEF StageInv
  <2>9. \A k \in Layers : \A b \in Range(m_actors'[k]) : stage'[b] = "active"
    BY <1>0, <2>2, <2>5 DEF StageInv
  <2>. QED BY <1>0, <2>2, <2>8, <2>9 DEF StageInv
<1>6. ASSUME AddNewActors PROVE StageInv'
  <2>1. /\ Layer \in Layers /\ m_actors[Layer] \in Seq(Actors)
        /\ newFrameActors \in Seq(Actors) /\ DOMAIN m_actors = Layers
    BY <1>0, <1>6, AtLayer DEF AddNewActors, TypeOK
  <2>2. /\ m_actors' = [m_actors EXCEPT ![Layer] = m_actors[Layer] \o newFrameActors]
        /\ UNCHANGED <<m_newActors, stage, m_dead, partner>>
        /\ Taken = newFrameActors /\ Taken' = <<>> /\ Leaving = {} /\ Leaving' = {}
        /\ Unstarted = {} /\ partner = Nobody
    BY <1>0, <1>6 DEF AddNewActors, Taken, Leaving, Unstarted, StageInv
  <2>3. Unstarted' = Range(newFrameActors)
    BY <1>6, <2>1 DEF AddNewActors, Unstarted, Range
  <2>4. Range(m_actors[Layer] \o newFrameActors) =
          Range(m_actors[Layer]) \cup Range(newFrameActors)
    BY <2>1, ConcatFacts
  <2>5. \A k \in Layers : Range(m_actors'[k]) = Range(m_actors[k])
                               \cup (IF k = Layer THEN Range(newFrameActors) ELSE {})
    BY <2>1, <2>2, <2>4
  <2>6. Range(Taken') = {}
    BY <2>2 DEF Range
  <2>7. Listed' = Listed
    BY <2>1, <2>2, <2>5, <2>6 DEF Listed
  <2>8. \A k \in Layers : \A b \in Range(m_actors'[k]) :
          stage[b] = IF b \in Range(newFrameActors) THEN "spawned" ELSE "active"
    BY <1>0, <2>2, <2>5 DEF StageInv, NoDuplicates
  <2>. QED BY <1>0, <2>2, <2>3, <2>6, <2>7, <2>8 DEF StageInv
<1>7. ASSUME StartActor PROVE StageInv'
  <2>. DEFINE a == newFrameActors[ai]
  <2>1. /\ Layer \in Layers /\ newFrameActors \in Seq(Actors)
        /\ ai \in 1 .. Len(newFrameActors) /\ a \in Actors
        /\ a \in Range(newFrameActors)
    BY <1>0, <1>7, AtLayer DEF StartActor, LoopInv, TypeOK, Range
  <2>2. /\ UNCHANGED <<m_actors, m_newActors, m_dead, partner>>
        /\ Taken = <<>> /\ Taken' = <<>> /\ Leaving = {} /\ Leaving' = {}
        /\ partner = Nobody
        /\ \A b \in Actors : stage'[b] = IF b = a THEN "active" ELSE stage[b]
    BY <1>0, <1>7 DEF StartActor, Taken, Leaving, StageInv, TypeOK
  <2>3. Unstarted' = Unstarted \ {a}
    <3>1. /\ Unstarted = {newFrameActors[j] : j \in ai .. Len(newFrameActors)}
          /\ Unstarted' = {newFrameActors[j] : j \in ai + 1 .. Len(newFrameActors)}
      BY <1>7 DEF StartActor, Unstarted
    <3>2. \A j \in ai .. Len(newFrameActors) : newFrameActors[j] = a => j = ai
      BY <1>0, <2>1 DEF NoDuplicates, IsInjective
    <3>. QED BY <2>1, <3>1, <3>2
  <2>4. a \in Unstarted
    BY <1>7, <2>1 DEF StartActor, Unstarted
  <2>5. a \in Range(m_actors[Layer])
    BY <1>0, <1>7, <2>1 DEF StartActor, LoopInv
  <2>6. \A k \in Layers : /\ Range(m_newActors[k]) \subseteq Actors
                          /\ Range(m_actors[k]) \subseteq Actors
    BY <1>0, ListTypes
  <2>. HIDE DEF a
  <2>7. \A k \in Layers : a \notin Range(m_newActors[k])
    BY <1>0, <2>1, <2>5 DEF NoDuplicates
  <2>8. Range(Taken') = {} /\ Listed' = Listed
    BY <2>2 DEF Range, Listed
  <2>9. \A k \in Layers : \A b \in Range(m_newActors'[k]) : stage'[b] = "spawned"
    BY <1>0, <2>2, <2>6, <2>7 DEF StageInv
  <2>10. \A k \in Layers : \A b \in Range(m_actors'[k]) :
           stage'[b] = IF b \in Unstarted' THEN "spawned" ELSE "active"
    BY <1>0, <2>2, <2>3, <2>6 DEF StageInv
  <2>11. stage[a] = "spawned"
    BY <1>0, <2>1, <2>4, <2>5 DEF StageInv
  <2>12. \A b \in Actors : /\ stage'[b] \in {"spawned", "active"} => b \in Listed'
                           /\ stage'[b] = "left" => b \in m_dead'
    BY <1>0, <2>2, <2>8, <2>11 DEF StageInv
  <2>. QED BY <2>2, <2>8, <2>9, <2>10, <2>12 DEF StageInv
<1>8. ASSUME EndLayer PROVE StageInv'
  <2>1. /\ UNCHANGED <<m_actors, m_newActors, stage, m_dead, partner>>
        /\ Taken = <<>> /\ Taken' = <<>> /\ Leaving = {} /\ Leaving' = {}
        /\ partner = Nobody /\ Unstarted' = {}
    BY <1>0, <1>8 DEF EndLayer, Taken, Leaving, StageInv, Unstarted
  <2>2. Unstarted = {}
    BY <1>0, <1>8 DEF EndLayer, Unstarted, TypeOK
  <2>. QED BY <1>1, <2>1, <2>2
<1>9. ASSUME NEW a \in Bodies, NEW b \in Bodies, BeginCollision(a, b) PROVE StageInv'
  <2>1. partner' # Nobody => partner' = b /\ b \notin m_dead
    BY <1>9 DEF BeginCollision
  <2>2. b \notin m_dead => stage[b] = "active"
    BY <1>0 DEF Bodies, StageInv
  <2>. QED BY <1>1, <1>9, <2>1, <2>2
        DEF BeginCollision, Taken, Unstarted, Leaving, Actor, Layer
<1>10. ASSUME \/ \E l \in Layers : AddLayer(l)
              \/ \E a \in Actors : Destroy(a)
              \/ \E a \in Actors, flag \in BOOLEAN : \E i \in Named[a] : SetEnabled(a, i, flag)
              \/ Return \/ TellPartner \/ EndStep \/ EndAdvance \/ EndGui \/ EndFrame
       PROVE  StageInv'
  <2>1. /\ UNCHANGED <<m_actors, m_newActors, stage>>
        /\ m_dead \subseteq m_dead'
        /\ partner' = Nobody \/ (partner' = partner /\ phase' = phase)
    BY <1>0, <1>10 DEF AddLayer, Destroy, SetEnabled, Return, TellPartner, EndStep, EndAdvance,
       EndGui, EndFrame, StageInv
  <2>2. Taken' = Taken /\ Unstarted' = Unstarted
    <3>1. CASE TellPartner \/ EndStep \/ EndAdvance \/ EndGui \/ EndFrame
      BY <3>1 DEF TellPartner, EndStep, EndAdvance, EndGui, EndFrame, Taken, Unstarted
    <3>2. CASE ~(TellPartner \/ EndStep \/ EndAdvance \/ EndGui \/ EndFrame)
      <4>1. UNCHANGED <<phase, ai, newFrameActors>>
        BY <1>10, <3>2 DEF AddLayer, Destroy, SetEnabled, Return
      <4>. QED BY <4>1 DEF Taken, Unstarted
    <3>. QED BY <3>1, <3>2
  <2>3. Leaving' = Leaving
    <3>1. CASE \E l \in Layers : AddLayer(l)
      <4>1. phase # "remove" /\ phase' = phase
        BY <1>0, <3>1, SceneAssumption DEF AddLayer, LoopInv, Idle
      <4>. QED BY <4>1 DEF Leaving
    <3>2. CASE ~(\E l \in Layers : AddLayer(l))
      BY <1>10, <3>2 DEF Destroy, SetEnabled, Return, TellPartner, EndStep, EndAdvance, EndGui,
         EndFrame, Leaving, Actor, Layer
    <3>. QED BY <3>1, <3>2
  <2>. QED BY <1>0, <1>1, <2>1, <2>2, <2>3 DEF StageInv
<1>11. ASSUME \/ CallActors("advance") \/ CallActors("gui")
              \/ NextLayer("advance") \/ NextLayer("gui")
              \/ KeepActor \/ EndSweep \/ UpdateActor \/ UNCHANGED vars
       PROVE  StageInv'
  <2>1. /\ UNCHANGED <<m_actors, m_newActors, m_dead, stage, partner>>
        /\ partner = Nobody \/ phase' = phase
    BY <1>0, <1>11 DEF CallActors, NextLayer, KeepActor, EndSweep, UpdateActor, vars,
       StageInv
  <2>2. Taken' = Taken /\ Unstarted' = Unstarted
    BY <1>11 DEF CallActors, NextLayer, InLayer, KeepActor, EndSweep, UpdateActor, vars,
       Taken, Unstarted
  <2>3. Leaving' = Leaving
    BY <1>11 DEF CallActors, NextLayer, InLayer, KeepActor, EndSweep, UpdateActor, vars,
       Leaving, Actor, Layer
  <2>. QED BY <1>0, <1>1, <2>1, <2>2, <2>3 DEF StageInv
<1>. QED
  BY <1>2, <1>3, <1>4, <1>5, <1>6, <1>7, <1>8, <1>9, <1>10, <1>11
     DEF Next, Script, Frame

--------------------------------------------------------------------------------
(* Every step keeps the removal loop's promise. *)
LEMMA SweepStep == IInv /\ [Next]_vars => SweepInv'
<1>. SUFFICES ASSUME IInv, [Next]_vars PROVE SweepInv'
  OBVIOUS
<1>0. TypeOK /\ LoopInv /\ NoDuplicates /\ StageInv /\ SweepInv
  BY DEF IInv
<1>. USE DEF listVars, loopVars, worldVars, ghostVars, InUpdate
<1>1. ASSUME TakeNewActors PROVE SweepInv'
  <2>1. /\ m_actors[Layer] \in Seq(Actors) /\ Layer \in Layers
        /\ ai' = Len(m_actors[Layer])
        /\ m_actors' = m_actors /\ Layer' = Layer /\ phase' = "sweep"
        /\ stage' = stage /\ m_dead' = m_dead
        /\ doomed' = m_dead \cap Range(m_actors[Layer])
    BY <1>0, <1>1, AtLayer DEF TakeNewActors, InLayer, Layer
  <2>2. Unstarted = {} /\ Leaving = {}
    BY <1>1 DEF TakeNewActors, InLayer, Unstarted, Leaving
  <2>3. \A a \in doomed' : stage[a] = "active"
    BY <1>0, <2>1, <2>2 DEF StageInv
  <2>4. \A j \in DOMAIN m_actors[Layer] : ~(j > ai')
    BY <2>1
  <2>. QED BY <2>1, <2>3, <2>4 DEF SweepInv, DoomedRemoved
<1>2. ASSUME KeepActor PROVE SweepInv'
  <2>1. /\ m_actors[Layer] \in Seq(Actors)
        /\ ai \in Nat /\ ai' = ai - 1 /\ Actor \notin doomed
        /\ UNCHANGED <<m_actors, Layer, phase, stage, m_dead, doomed>>
        /\ phase = "sweep"
    BY <1>0, <1>2, AtLayer DEF KeepActor, TypeOK, Layer, SweepInv
  <2>2. \A j \in DOMAIN m_actors[Layer] : j > ai' => m_actors[Layer][j] \notin doomed
    BY <1>0, <2>1 DEF SweepInv, Actor
  <2>. QED BY <1>0, <2>1, <2>2 DEF SweepInv, DoomedRemoved
<1>3. ASSUME LeaveActor PROVE SweepInv'
  <2>1. /\ UNCHANGED <<m_actors, Layer, ai, m_dead, doomed>>
        /\ phase = "sweep" /\ phase' = "remove"
    BY <1>3 DEF LeaveActor, Layer
  <2>2. \A a \in Actors : stage'[a] = stage[a] \/ stage'[a] = "left"
    BY <1>0, <1>3 DEF LeaveActor, TypeOK
  <2>. QED BY <1>0, <2>1, <2>2 DEF SweepInv, DoomedRemoved, TypeOK
<1>4. ASSUME RemoveActor PROVE SweepInv'
  <2>. DEFINE s == m_actors[Layer]
              t == SwapRemove(s, ai)
  <2>1. /\ Layer \in Layers /\ s \in Seq(Actors) /\ ai \in DOMAIN s
        /\ DOMAIN m_actors = Layers
    BY <1>0, <1>4, AtLayer, AtActor DEF RemoveActor, LoopInv, TypeOK
  <2>2. /\ m_actors' = [m_actors EXCEPT ![Layer] = t]
        /\ UNCHANGED <<Layer, stage, m_dead, doomed>>
        /\ phase = "remove" /\ phase' = "sweep"
        /\ ai' = ai \/ (ai = Len(s) /\ ai' = ai - 1)
    BY <1>4 DEF RemoveActor, Layer
  <2>3. m_actors'[Layer] = t
    BY <2>1, <2>2
  <2>4. /\ t \in Seq(Actors) /\ Len(t) = Len(s) - 1
        /\ \A j \in DOMAIN t : j # ai => t[j] = s[j]
    BY <2>1, SwapRemoveFacts
  <2>5. \A j \in DOMAIN s : j > ai => s[j] \notin doomed
    BY <1>0, <2>2 DEF SweepInv
  <2>. HIDE DEF t
  <2>6. ASSUME NEW j \in DOMAIN t, j > ai' PROVE t[j] \notin doomed
    <3>1. j \in 1 .. Len(s) - 1 /\ Len(s) \in Nat /\ ai \in 1 .. Len(s)
      BY <2>1, <2>4
    <3>2. ai' = ai /\ j > ai /\ j \in DOMAIN s
      BY <2>1, <2>2, <2>6, <3>1
    <3>. QED BY <2>4, <2>5, <2>6, <3>2
  <2>. QED BY <1>0, <2>2, <2>3, <2>6 DEF SweepInv, DoomedRemoved
<1>5. ASSUME EndSweep PROVE SweepInv'
  <2>1. /\ UNCHANGED <<m_actors, Layer, stage, m_dead, doomed>>
        /\ phase = "sweep" /\ phase' = "alive" /\ ai = 0
        /\ m_actors[Layer] \in Seq(Actors)
    BY <1>0, <1>5, AtLayer DEF EndSweep, Layer, TypeOK
  <2>2. \A j \in DOMAIN m_actors[Layer] : m_actors[Layer][j] \notin doomed
    BY <1>0, <2>1 DEF SweepInv
  <2>3. doomed \cap Range(m_actors[Layer]) = {}
    BY <2>2 DEF Range
  <2>. QED BY <1>0, <2>1, <2>3 DEF SweepInv, DoomedRemoved
<1>6. ASSUME AddNewActors PROVE SweepInv'
  <2>1. /\ Layer \in Layers /\ m_actors[Layer] \in Seq(Actors)
        /\ newFrameActors \in Seq(Actors) /\ DOMAIN m_actors = Layers
    BY <1>0, <1>6, AtLayer DEF AddNewActors, TypeOK
  <2>2. /\ m_actors' = [m_actors EXCEPT ![Layer] = m_actors[Layer] \o newFrameActors]
        /\ UNCHANGED <<Layer, stage, m_dead, doomed>>
        /\ phase = "alive" /\ phase' = "start" /\ Taken = newFrameActors
    BY <1>6 DEF AddNewActors, Layer, Taken
  <2>3. Range(m_actors'[Layer]) = Range(m_actors[Layer]) \cup Range(newFrameActors)
    BY <2>1, <2>2, ConcatFacts
  <2>4. doomed \cap Range(newFrameActors) = {}
    BY <1>0, <2>2 DEF StageInv, SweepInv
  <2>. QED BY <1>0, <2>2, <2>3, <2>4 DEF SweepInv, DoomedRemoved
<1>7. ASSUME UpdateActor \/ StartActor PROVE SweepInv'
  <2>1. /\ UNCHANGED <<m_actors, Layer, phase, m_dead, doomed>>
        /\ phase \in {"alive", "start"}
    BY <1>7 DEF UpdateActor, StartActor, Layer
  <2>2. \A a \in Actors : stage'[a] = stage[a] \/ stage'[a] = "active"
    BY <1>0, <1>7 DEF UpdateActor, StartActor, TypeOK
  <2>. QED BY <1>0, <2>1, <2>2 DEF SweepInv, DoomedRemoved, TypeOK
<1>8. ASSUME EndLayer PROVE SweepInv'
  BY <1>8 DEF EndLayer, SweepInv, DoomedRemoved
<1>9. ASSUME NEW l \in Layers, NEW a \in Actors, Spawn(l, a) PROVE SweepInv'
  <2>1. UNCHANGED <<m_actors, Layer, ai, phase, m_dead, doomed>>
    BY <1>9 DEF Spawn, Layer
  <2>2. \A b \in Actors : stage'[b] = stage[b] \/ stage[b] = "unborn"
    BY <1>0, <1>9 DEF Spawn, TypeOK
  <2>. QED BY <1>0, <2>1, <2>2 DEF SweepInv, DoomedRemoved, TypeOK
<1>10. ASSUME \/ \E a \in Actors : Destroy(a)
              \/ \E a \in Actors, flag \in BOOLEAN : \E i \in Named[a] : SetEnabled(a, i, flag)
              \/ Return \/ UNCHANGED vars
       PROVE  SweepInv'
  <2>1. /\ UNCHANGED <<m_actors, Layer, ai, phase, stage, doomed>>
        /\ m_dead \subseteq m_dead'
    BY <1>10 DEF Destroy, SetEnabled, Return, vars, Layer
  <2>. QED BY <1>0, <2>1 DEF SweepInv, DoomedRemoved
<1>11. ASSUME \/ \E l \in Layers : AddLayer(l)
              \/ \E a, b \in Bodies : BeginCollision(a, b)
              \/ TellPartner \/ EndStep \/ EndAdvance \/ EndGui \/ EndFrame
              \/ CallActors("advance") \/ CallActors("gui")
              \/ NextLayer("advance") \/ NextLayer("gui")
       PROVE  SweepInv'
  <2>1. UNCHANGED <<stage, m_dead, doomed>> /\ ~InUpdate'
    BY <1>0, <1>11, SceneAssumption DEF AddLayer, BeginCollision, TellPartner, EndStep,
       EndAdvance, EndGui, EndFrame, CallActors, NextLayer, InLayer, LoopInv, Idle
  <2>. QED BY <1>0, <2>1 DEF SweepInv, DoomedRemoved
<1>. QED
  BY <1>1, <1>2, <1>3, <1>4, <1>5, <1>6, <1>7, <1>8, <1>9, <1>10, <1>11
     DEF Next, Script, Frame

--------------------------------------------------------------------------------
(* The invariant holds in every state of every scene. *)
THEOREM Invariance == Spec => []IInv
<1>1. Init => IInv
  BY InitIInv
<1>2. IInv /\ [Next]_vars => IInv'
  BY TypeStep, LoopStep, DupStep, StageStep, SweepStep DEF IInv
<1>. QED BY <1>1, <1>2, PTL DEF Spec

(* Layer.update, Layer.advance and World.step keep every variable of the   *)
(* scene within its type, whatever the scripts do.                         *)
THEOREM Typing == Spec => []TypeOK
<1>1. IInv => TypeOK
  BY DEF IInv
<1>. QED BY <1>1, Invariance, PTL

(* No actor is ever twice in the lists of a scene (l_spawn and             *)
(* Layer.update).                                                          *)
THEOREM Once == Spec => []NoDuplicates
<1>1. IInv => NoDuplicates
  BY DEF IInv
<1>. QED BY <1>1, Invariance, PTL

(* Between its spawn and its leave callback an actor is in some list, and  *)
(* afterwards in none (l_spawn and Layer.update).                          *)
THEOREM Kept == Spec => []NoneLost
<1>1. IInv => NoneLost
  <2>. SUFFICES ASSUME IInv, NEW a \in Actors, stage[a] = "left", phase # "remove"
                PROVE  a \notin Listed
    BY DEF IInv, StageInv, NoneLost
  <2>. QED BY DEF IInv, StageInv, Leaving, Listed
<1>. QED BY <1>1, Invariance, PTL

(* An actor that was dead when Layer.update began is not updated by it.    *)
THEOREM Removal == Spec => []DoomedRemoved
<1>1. IInv => DoomedRemoved
  BY DEF IInv, SweepInv
<1>. QED BY <1>1, Invariance, PTL

--------------------------------------------------------------------------------
(* Every step is a step of an actor's life or leaves it as it is. *)
LEMMA LifeStep == IInv /\ [Next]_vars => [Life!Next]_Life!lifeVars
<1>. SUFFICES ASSUME IInv, [Next]_vars PROVE [Life!Next]_Life!lifeVars
  OBVIOUS
<1>0. TypeOK /\ LoopInv /\ StageInv /\ SweepInv
  BY DEF IInv
<1>. USE DEF listVars, loopVars, worldVars, ghostVars, Call
<1>18. /\ Life!Idle = Idle
       /\ \A a, e, i : Tell(a, e, i) => Life!Reaches(a, e, i)
  BY DEF Life!Idle, Idle, Tell, Later, Life!Reaches
<1>1. ASSUME NEW l \in Layers, AddLayer(l) PROVE UNCHANGED Life!lifeVars
  BY <1>1 DEF AddLayer, Life!lifeVars
<1>2. ASSUME NEW l \in Layers, NEW a \in Actors, Spawn(l, a) PROVE Life!Spawn(a)
  BY <1>2, <1>18 DEF Spawn, Life!Spawn
<1>3. ASSUME NEW a \in Actors, Destroy(a) PROVE Life!Kill(a)
  BY <1>3, <1>18 DEF Destroy, Life!Kill
<1>17. ASSUME NEW a \in Actors, NEW flag \in BOOLEAN, NEW i \in Named[a],
              SetEnabled(a, i, flag)
       PROVE  Life!Switch(a)
  BY <1>18, <1>17 DEF SetEnabled, Life!Switch
<1>4. ASSUME Return PROVE Life!Elsewhere \/ \E a \in Actors : Life!Continue(a)
  <2>1. CASE running.actor = Nobody
    BY <1>4, <2>1 DEF Return, Idle, Life!Elsewhere
  <2>2. CASE running.actor # Nobody
    <3>1. running.actor \in Actors
      BY <1>0, <2>2 DEF TypeOK, Calls
    <3>2. Life!Continue(running.actor)
      BY <1>4, <1>18, <2>2 DEF Return, Life!Continue
    <3>. QED BY <3>1, <3>2
  <2>. QED BY <2>1, <2>2
<1>5. ASSUME NEW a \in Bodies, NEW b \in Bodies, BeginCollision(a, b)
      PROVE  Life!Callback(a) \/ UNCHANGED Life!lifeVars
  <2>1. a \notin m_dead => stage[a] = "active"
    BY <1>0 DEF Bodies, StageInv
  <2>. QED BY <1>5, <1>18, <2>1 DEF BeginCollision, Life!Callback, Life!Events, Life!lifeVars
<1>6. ASSUME TellPartner PROVE Life!Callback(partner)
  BY <1>0, <1>6, <1>18 DEF TellPartner, StageInv, Life!Callback, Life!Events
<1>7. ASSUME EndStep \/ EndAdvance \/ EndFrame PROVE Life!Elsewhere
  BY <1>7 DEF EndStep, EndAdvance, EndFrame, CallScene, Idle, Life!Elsewhere
<1>8. ASSUME NEW p \in {"advance", "gui"}, CallActors(p) PROVE Life!Callback(Actor)
  <2>1. /\ Actor \in Range(m_actors[Layer]) /\ Layer \in Layers
    BY <1>0, <1>8, AtLayer, AtActor DEF CallActors, InLayer, LoopInv
  <2>2. stage[Actor] = "active"
    BY <1>0, <1>8, <2>1 DEF StageInv, CallActors, InLayer, Unstarted, Leaving
  <2>. QED BY <1>8, <1>18, <2>2 DEF CallActors, InLayer, Life!Callback, Life!Events
<1>9. ASSUME \/ NextLayer("advance") \/ NextLayer("gui") \/ EndGui \/ TakeNewActors
             \/ KeepActor \/ RemoveActor \/ EndSweep \/ AddNewActors \/ EndLayer
             \/ UNCHANGED vars
      PROVE  UNCHANGED Life!lifeVars
  BY <1>9 DEF NextLayer, EndGui, TakeNewActors, KeepActor, RemoveActor, EndSweep,
     AddNewActors, EndLayer, vars, Life!lifeVars
<1>10. ASSUME LeaveActor PROVE Life!Leave(Actor) /\ Actor \in Actors
  <2>3. /\ li <= Len(m_layers) /\ ai >= 1 /\ ai <= Len(m_actors[Layer])
    BY <1>0, <1>10 DEF LeaveActor, LoopInv, TypeOK
  <2>1. /\ Actor \in Range(m_actors[Layer]) /\ Layer \in Layers /\ Actor \in Actors
    BY <1>0, <2>3, AtLayer, AtActor
  <2>2. stage[Actor] = "active"
    BY <1>0, <1>10, <2>1 DEF StageInv, LeaveActor, Unstarted, Leaving
  <2>. QED BY <1>10, <1>18, <2>1, <2>2 DEF LeaveActor, Life!Leave
<1>11. ASSUME UpdateActor PROVE Life!Callback(Actor) /\ Actor \in Actors
  <2>1. /\ Actor \in Range(m_actors[Layer]) /\ Layer \in Layers /\ Actor \in Actors
    BY <1>0, <1>11, AtLayer, AtActor DEF UpdateActor, LoopInv, TypeOK
  <2>2. stage[Actor] = "active"
    BY <1>0, <1>11, <2>1 DEF StageInv, UpdateActor, Unstarted, Leaving
  <2>. QED BY <1>11, <1>18, <2>1, <2>2 DEF UpdateActor, Life!Callback, Life!Events
<1>12. ASSUME StartActor PROVE \E a \in Actors : Life!Start(a)
  <2>. DEFINE a == newFrameActors[ai]
  <2>1. /\ ai \in 1 .. Len(newFrameActors) /\ a \in Actors /\ Layer \in Layers
        /\ a \in Range(newFrameActors)
    BY <1>0, <1>12, AtLayer DEF StartActor, LoopInv, TypeOK, Range
  <2>2. a \in Unstarted /\ a \in Range(m_actors[Layer])
    BY <1>0, <1>12, <2>1 DEF StartActor, Unstarted, LoopInv
  <2>3. stage[a] = "spawned"
    BY <1>0, <2>1, <2>2 DEF StageInv
  <2>4. Life!Start(a)
    BY <1>12, <1>18, <2>3 DEF StartActor, Life!Start
  <2>. QED BY <2>1, <2>4
<1>13. ASSUME NEW p \in {"advance", "gui"}, CallActors(p) PROVE Actor \in Actors
  BY <1>0, <1>13, AtActor DEF CallActors, InLayer, LoopInv
<1>14. TellPartner => partner \in Actors
  BY <1>0 DEF TellPartner, TypeOK
<1>15. Bodies \subseteq Actors
  BY DEF Bodies
<1>16. Life!Next \/ UNCHANGED Life!lifeVars
  BY <1>1, <1>2, <1>3, <1>4, <1>5, <1>6, <1>7, <1>8, <1>9, <1>10, <1>11, <1>12, <1>13,
     <1>14, <1>15, <1>17 DEF Next, Script, Frame, Life!Next
<1>. QED BY <1>16

(* A scene gives every actor the callbacks of its life in order, each once *)
(* (the safety part of ImplementsLife; the runs check its fairness).       *)
THEOREM Implementation == Spec => Life!Safe
<1>1. Init => Life!Init
  BY DEF Init, Life!Init
<1>. QED BY <1>1, LifeStep, Invariance, PTL DEF Spec, Life!Safe
===============================================================================
