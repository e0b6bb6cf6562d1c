-------------------------------- MODULE Emitter --------------------------------
(***************************************************************************)
(* Emitter.m: the particles of one emitter, which live in a fixed pool     *)
(* whose first m_count entries are in use, and the emitter's own life.     *)
(*                                                                         *)
(* Emitter.advance runs once a frame: it ages the particles from the last  *)
(* to the first, filling the place of a dead one with the last one in use, *)
(* and then emits new ones.  Scripts start and stop the emitter between    *)
(* two frames.  Time is counted in ticks.  Where a particle is, its speed  *)
(* and colour are left out: nothing here depends on them.                  *)
(***************************************************************************)
EXTENDS Integers, Sequences, FiniteSets

CONSTANTS Pool,          \* how many particles fit (500 in Emitter.h)
          Rate, Second,  \* particles per second, ticks per second
          Lifetimes,     \* the lifetimes of an emitter; 0 is one shot
          Infinite,      \* the lifetime of an emitter that goes on
          MinLife, MaxLife,          \* the lifetime of a particle
          MaxDelta,      \* ticks of the longest frame
          MaxAge         \* bounds the age of an emitter; finite ones stay below

ASSUME EmitterAssumption ==
  /\ Pool \in Nat \ {0}
  /\ Rate \in Nat /\ Second \in Nat \ {0}
  /\ Lifetimes \subseteq Nat \cup {Infinite} /\ Infinite \notin Nat
  /\ MinLife \in Nat /\ MaxLife \in Nat /\ MinLife <= MaxLife
  /\ MaxDelta \in Nat \ {0} /\ MaxAge \in Nat

VARIABLES particles,     \* the part of m_particles in use; m_count is its length
          m_lifetime, m_active, m_age, m_total,
          phase, i,      \* where advance is: "frame" between two calls
          dt             \* the time step of this frame

emitterVars == <<m_lifetime, m_active, m_age, m_total>>
vars == <<particles, emitterVars, phase, i, dt>>

(* A prefab may make the emitter active from the start. *)
Init == /\ particles = <<>>
        /\ m_lifetime \in Lifetimes
        /\ m_active \in BOOLEAN
        /\ m_age = 0 /\ m_total = 0
        /\ phase = "frame" /\ i = 0 /\ dt = 0

(* The particle that advance is at. *)
Particle == particles[i]

--------------------------------------------------------------------------------
(* Scripts. *)

startEmitter ==
  /\ phase = "frame"
  /\ ~m_active
  /\ m_active' = TRUE /\ m_age' = 0 /\ m_total' = 0
  /\ UNCHANGED <<particles, m_lifetime, phase, i, dt>>

stopEmitter ==
  /\ phase = "frame"
  /\ m_active' = FALSE
  /\ UNCHANGED <<particles, m_lifetime, m_age, m_total, phase, i, dt>>

--------------------------------------------------------------------------------
(* Emitter.advance. *)

(* Ghost: the time since the birth of every particle in use. *)
Older(d) == [k \in DOMAIN particles |-> [particles[k] EXCEPT !.since = @ + d]]

BeginAdvance(d) ==
  /\ phase = "frame"
  /\ m_active => m_age + d <= MaxAge
  /\ phase' = "age"
  /\ i' = Len(particles)
  /\ dt' = d
  /\ particles' = Older(d)
  /\ UNCHANGED emitterVars

AgeParticle ==
  /\ phase = "age" /\ i > 0
  /\ Particle.age + dt <= Particle.life
  /\ particles' = [particles EXCEPT ![i].age = @ + dt]
  /\ i' = i - 1
  /\ UNCHANGED <<emitterVars, phase, dt>>

(* The last particle in use takes the place of the one at k. *)
SwapOut(s, k) == SubSeq([s EXCEPT ![k] = s[Len(s)]], 1, Len(s) - 1)

(* Mutant of KillParticle: the particle that took the place is looked at,  *)
(* and aged, again.                                                        *)
KillAndStay ==
  /\ phase = "age" /\ i > 0
  /\ Particle.age + dt > Particle.life
  /\ particles' = SwapOut(particles, i)
  /\ i' = IF i < Len(particles) THEN i ELSE i - 1
  /\ UNCHANGED <<emitterVars, phase, dt>>

KillParticle ==
  /\ phase = "age" /\ i > 0
  /\ Particle.age + dt > Particle.life
  /\ particles' = SwapOut(particles, i)
  /\ i' = i - 1
  /\ UNCHANGED <<emitterVars, phase, dt>>

(* The emitter is not active: the frame is done. *)
EndAdvance ==
  /\ phase = "age" /\ i = 0
  /\ ~m_active
  /\ phase' = "frame" /\ dt' = 0
  /\ UNCHANGED <<particles, emitterVars, i>>

(* How many particles the rate asks for at an age; a one-shot emitter asks *)
(* for a second's worth at once.                                           *)
Wanted(age) == IF m_lifetime = 0 THEN Rate ELSE ((age * Rate) \div Second) - m_total

(* Mutant: what is left of the pool is not looked at. *)
RoomInPool(n) == n <= Pool

(* The pool has room for n more particles. *)
Room(n) == Len(particles) + n <= Pool

(* As many as are wanted, or as the pool has room for. *)
Births(age) == IF Room(Wanted(age)) THEN Wanted(age) ELSE Pool - Len(particles)

Newborn(lives) == [k \in DOMAIN lives |-> [age |-> 0, life |-> lives[k], since |-> 0]]

(* Mutant: a lifetime is taken for one that does not end. *)
ActiveUnlessOneShot == m_lifetime # 0

(* Will the emitter be active in the next frame? *)
StillActive == m_lifetime = Infinite \/ m_age < m_lifetime

(* The new particles; those there is no room for count as emitted, too.    *)
Emit ==
  /\ phase = "age" /\ i = 0
  /\ m_active
  /\ m_active' = StillActive
  /\ m_age' = m_age + dt
  /\ m_total' = m_total + Wanted(m_age')
  /\ \E lives \in [1 .. Births(m_age') -> MinLife .. MaxLife] :
       particles' = particles \o Newborn(lives)
  /\ phase' = "frame" /\ dt' = 0
  /\ UNCHANGED <<m_lifetime, i>>

--------------------------------------------------------------------------------
Script == startEmitter \/ stopEmitter

TimePasses == \E d \in 1 .. MaxDelta : BeginAdvance(d)

Advance == \/ BeginAdvance(0) \/ TimePasses
           \/ AgeParticle \/ KillParticle \/ EndAdvance \/ Emit

Next == Script \/ Advance

(* Frames follow one another, and the clock does not stand still. *)
Spec == Init /\ [][Next]_vars /\ WF_vars(Advance) /\ SF_vars(TimePasses)

--------------------------------------------------------------------------------
(* m_count never exceeds the pool. *)
TypeOK ==
  /\ particles \in Seq([age : Nat, life : MinLife .. MaxLife, since : Nat])
  /\ Len(particles) <= Pool
  /\ m_lifetime \in Lifetimes
  /\ m_active \in BOOLEAN
  /\ m_age \in Nat /\ m_total \in Nat
  /\ phase \in {"frame", "age"}
  /\ i \in 0 .. Len(particles)
  /\ dt \in 0 .. MaxDelta

(* Every frame ages every particle in use by the frame's time step, once,  *)
(* although the loop moves particles while it runs over them.              *)
AgedOnce ==
  \A k \in DOMAIN particles :
    particles[k].since = particles[k].age + (IF phase = "age" /\ k <= i THEN dt ELSE 0)

(* Between two frames no particle is in use that has outlived its life. *)
NoneOverdue ==
  phase = "frame" => \A k \in DOMAIN particles : particles[k].since <= particles[k].life

(* The particles in use that live for l ticks and were born t ticks ago. *)
Born(l, t) == {k \in DOMAIN particles : particles[k].life = l /\ particles[k].since = t}

(* A finite emitter goes on for less than two frames after its lifetime,   *)
(* and asks for no more particles than its rate gives it in that time,     *)
(* however its scripts start and stop it (startEmitter resets both).       *)
OverInTime ==
  m_lifetime # Infinite =>
    /\ m_age <= m_lifetime + 2 * MaxDelta
    /\ m_total * Second <= Rate * (m_age + Second)

(* A finite emitter stops emitting by itself. *)
EndsByItself == m_lifetime # Infinite /\ m_active ~> ~m_active
================================================================================
