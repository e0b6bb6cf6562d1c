----------------------------- MODULE Emitter_proofs -----------------------------
(***************************************************************************)
(* Proofs about Emitter.tla, for a pool of any size, any rate and any      *)
(* frame lengths: the pool is never overrun, every frame ages every        *)
(* particle once, none outlives its life, and a finite emitter ends in     *)
(* time.                                                                   *)
(***************************************************************************)
EXTENDS Emitter, SequenceTheorems, TLAPS

(* No particle has been aged beyond its life. *)
Within == \A k \in DOMAIN particles : particles[k].age <= particles[k].life

(* What the emitter has asked for so far is what its rate gives it. *)
Account == /\ m_lifetime = 0 => /\ m_total \in {0, Rate}
                                /\ m_active => m_total = 0
           /\ m_lifetime # 0 => m_total = (m_age * Rate) \div Second

(* An emitter that will still be active is not much older than its life. *)
Running == m_lifetime # Infinite =>
             /\ m_active => m_age <= m_lifetime + MaxDelta
             /\ m_age <= m_lifetime + 2 * MaxDelta

IInv == TypeOK /\ AgedOnce /\ Within /\ Account /\ Running

Particles == [age : Nat, life : MinLife .. MaxLife, since : Nat]

--------------------------------------------------------------------------------
(* Division by a positive number. *)
LEMMA DivBounds ==
  ASSUME NEW a \in Nat
  PROVE  a \div Second \in Nat /\ (a \div Second) * Second <= a
BY EmitterAssumption

(* A number and the quotient of a larger one. *)
LEMMA DivMonotone ==
  ASSUME NEW a \in Nat, NEW b \in Nat, a <= b
  PROVE  a \div Second <= b \div Second
BY EmitterAssumption

(* An older emitter has asked for at least as many particles. *)
LEMMA RateMonotone ==
  ASSUME NEW a \in Nat, NEW d \in Nat
  PROVE  /\ a * Rate \in Nat /\ (a + d) * Rate \in Nat
         /\ (a * Rate) \div Second <= ((a + d) * Rate) \div Second
<1>1. a * Rate \in Nat /\ d * Rate \in Nat
  BY EmitterAssumption
<1>2. (a + d) * Rate = a * Rate + d * Rate
  BY EmitterAssumption
<1> QED
  BY <1>1, <1>2, DivMonotone

(* The particles after one was swapped out: one less, each of them one of  *)
(* those before, those below the place unchanged.                          *)
LEMMA SwappedOut ==
  ASSUME NEW s \in Seq(Particles), NEW k \in 1 .. Len(s)
  PROVE  /\ SwapOut(s, k) \in Seq(Particles)
         /\ Len(SwapOut(s, k)) = Len(s) - 1
         /\ \A j \in 1 .. Len(s) - 1 : SwapOut(s, k)[j] = IF j = k THEN s[Len(s)] ELSE s[j]
<1> DEFINE t == [s EXCEPT ![k] = s[Len(s)]]
<1>1. t \in Seq(Particles) /\ Len(t) = Len(s)
  OBVIOUS
<1>2. \A j \in 1 .. Len(s) : t[j] = IF j = k THEN s[Len(s)] ELSE s[j]
  OBVIOUS
<1>3. SwapOut(s, k) = SubSeq(t, 1, Len(s) - 1)
  BY DEF SwapOut
<1> HIDE DEF t
<1>4. SubSeq(t, 1, Len(s) - 1) \in Seq(Particles)
  BY <1>1
<1>5. Len(SubSeq(t, 1, Len(s) - 1)) = Len(s) - 1
  BY <1>1
<1>6. \A j \in 1 .. Len(s) - 1 : SubSeq(t, 1, Len(s) - 1)[j] = t[j]
  BY <1>1
<1> QED
  BY <1>2, <1>3, <1>4, <1>5, <1>6

--------------------------------------------------------------------------------
LEMMA InitIInv == Init => IInv
<1> SUFFICES ASSUME Init PROVE IInv
  OBVIOUS
<1> USE EmitterAssumption DEF Init
<1>1. TypeOK
  BY DEF TypeOK
<1>2. AgedOnce /\ Within
  BY DEF AgedOnce, Within
<1>3. Account
  <2>1. 0 * Rate = 0 /\ 0 \div Second = 0
    OBVIOUS
  <2> QED
    BY <2>1 DEF Account
<1>4. Running
  BY DEF Running
<1> QED
  BY <1>1, <1>2, <1>3, <1>4 DEF IInv

(* A particle with another age, or another time since its birth. *)
LEMMA Changed ==
  ASSUME NEW p \in Particles, NEW n \in Nat
  PROVE  /\ [p EXCEPT !.age = n] \in Particles
         /\ [p EXCEPT !.age = n].age = n
         /\ [p EXCEPT !.age = n].life = p.life
         /\ [p EXCEPT !.age = n].since = p.since
         /\ [p EXCEPT !.since = n] \in Particles
         /\ [p EXCEPT !.since = n].age = p.age
         /\ [p EXCEPT !.since = n].life = p.life
         /\ [p EXCEPT !.since = n].since = n
BY DEF Particles

(* The fields of a particle. *)
LEMMA Fields ==
  ASSUME NEW p \in Particles
  PROVE  p.age \in Nat /\ p.since \in Nat /\ p.life \in MinLife .. MaxLife /\ p.life \in Nat
BY EmitterAssumption DEF Particles

(* The particles in use, as a function on their places. *)
LEMMA InUse ==
  ASSUME TypeOK
  PROVE  /\ particles \in Seq(Particles) /\ Len(particles) \in Nat
         /\ DOMAIN particles = 1 .. Len(particles)
         /\ \A k \in 1 .. Len(particles) :
              /\ particles[k] \in Particles
              /\ particles[k].age \in Nat /\ particles[k].since \in Nat
              /\ particles[k].life \in Nat
         /\ dt \in Nat
<1>1. particles \in Seq(Particles)
  BY DEF TypeOK, Particles
<1>2. /\ Len(particles) \in Nat /\ DOMAIN particles = 1 .. Len(particles)
      /\ \A k \in 1 .. Len(particles) : particles[k] \in Particles
  BY <1>1
<1>3. dt \in Nat
  BY EmitterAssumption DEF TypeOK
<1> QED
  BY <1>1, <1>2, <1>3, Fields

(* Steps that leave the particles, the emitter and the place alone. *)
LEMMA StutterIInv == IInv /\ UNCHANGED vars => IInv'
BY DEF IInv, TypeOK, AgedOnce, Within, Account, Running, vars, emitterVars

LEMMA ScriptIInv == IInv /\ Script => IInv'
<1> SUFFICES ASSUME IInv, Script PROVE IInv'
  OBVIOUS
<1> USE EmitterAssumption DEF IInv
<1>1. UNCHANGED <<particles, m_lifetime, phase, i, dt>>
  BY DEF Script, startEmitter, stopEmitter
<1>2. /\ m_active' \in BOOLEAN
      /\ \/ m_active' /\ m_age' = 0 /\ m_total' = 0
         \/ ~m_active' /\ UNCHANGED <<m_age, m_total>>
  BY DEF Script, startEmitter, stopEmitter
<1>3. TypeOK'
  BY <1>1, <1>2 DEF TypeOK
<1>4. AgedOnce' /\ Within'
  BY <1>1 DEF AgedOnce, Within
<1>5. Account'
  <2>1. 0 * Rate = 0 /\ 0 \div Second = 0
    OBVIOUS
  <2> QED
    BY <1>1, <1>2, <2>1 DEF Account
<1>6. Running'
  BY <1>1, <1>2 DEF Running, TypeOK
<1> QED
  BY <1>3, <1>4, <1>5, <1>6

LEMMA BeginIInv ==
  ASSUME NEW d \in 0 .. MaxDelta
  PROVE  IInv /\ BeginAdvance(d) => IInv'
<1> SUFFICES ASSUME IInv, BeginAdvance(d) PROVE IInv'
  OBVIOUS
<1> USE EmitterAssumption DEF IInv
<1>1. /\ phase = "frame" /\ phase' = "age"
      /\ i' = Len(particles) /\ dt' = d
      /\ particles' = Older(d)
      /\ UNCHANGED <<m_lifetime, m_active, m_age, m_total>>
  BY DEF BeginAdvance, emitterVars
<1>2. /\ particles \in Seq(Particles) /\ Len(particles) \in Nat
      /\ DOMAIN particles = 1 .. Len(particles)
      /\ \A k \in 1 .. Len(particles) :
           /\ particles[k] \in Particles
           /\ particles[k].age \in Nat /\ particles[k].since \in Nat
           /\ particles[k].life \in Nat
  BY InUse
<1>3. \A k \in 1 .. Len(particles) :
        /\ Older(d)[k] \in Particles
        /\ Older(d)[k].age = particles[k].age
        /\ Older(d)[k].life = particles[k].life
        /\ Older(d)[k].since = particles[k].since + d
  <2> TAKE k \in 1 .. Len(particles)
  <2>1. particles[k] \in Particles /\ particles[k].since + d \in Nat
    BY <1>2
  <2>2. Older(d)[k] = [particles[k] EXCEPT !.since = particles[k].since + d]
    BY <1>2 DEF Older
  <2>3. PICK n \in Nat : n = particles[k].since + d
    BY <2>1
  <2>4. Older(d)[k] = [particles[k] EXCEPT !.since = n]
    BY <2>2, <2>3
  <2>5. /\ [particles[k] EXCEPT !.since = n] \in Particles
        /\ [particles[k] EXCEPT !.since = n].age = particles[k].age
        /\ [particles[k] EXCEPT !.since = n].life = particles[k].life
        /\ [particles[k] EXCEPT !.since = n].since = n
    BY ONLY <2>1, <2>3, Changed
  <2> QED
    BY <2>3, <2>4, <2>5
<1>4. /\ Older(d) \in Seq(Particles) /\ Len(Older(d)) = Len(particles)
      /\ DOMAIN Older(d) = 1 .. Len(particles)
  <2>1. Older(d) = [k \in 1 .. Len(particles) |-> [particles[k] EXCEPT !.since = @ + d]]
    BY <1>2 DEF Older
  <2>2. Older(d) \in [1 .. Len(particles) -> Particles]
    BY <1>3, <2>1
  <2> QED
    BY <1>2, <2>1, <2>2
<1>5. TypeOK'
  BY <1>1, <1>2, <1>4 DEF TypeOK, Particles
<1>6. AgedOnce'
  <2>1. \A k \in 1 .. Len(particles) : particles[k].since = particles[k].age
    BY <1>1, <1>2 DEF AgedOnce
  <2> QED
    BY <1>1, <1>2, <1>3, <1>4, <2>1 DEF AgedOnce
<1>7. Within'
  BY <1>1, <1>2, <1>3, <1>4 DEF Within
<1>8. Account' /\ Running'
  BY <1>1 DEF Account, Running
<1> QED
  BY <1>5, <1>6, <1>7, <1>8

LEMMA AgeIInv == IInv /\ AgeParticle => IInv'
<1> SUFFICES ASSUME IInv, AgeParticle PROVE IInv'
  OBVIOUS
<1> USE EmitterAssumption DEF IInv
<1>1. /\ phase = "age" /\ phase' = "age" /\ i > 0 /\ i' = i - 1
      /\ particles[i].age + dt <= particles[i].life
      /\ particles' = [particles EXCEPT ![i].age = @ + dt]
      /\ UNCHANGED <<m_lifetime, m_active, m_age, m_total, dt>>
  BY DEF AgeParticle, Particle, emitterVars
<1>2. /\ particles \in Seq(Particles) /\ Len(particles) \in Nat
      /\ DOMAIN particles = 1 .. Len(particles)
      /\ \A k \in 1 .. Len(particles) :
           /\ particles[k] \in Particles
           /\ particles[k].age \in Nat /\ particles[k].since \in Nat
           /\ particles[k].life \in Nat
      /\ i \in 1 .. Len(particles) /\ dt \in Nat
  BY <1>1, InUse DEF TypeOK
<1>3. /\ particles' \in Seq(Particles) /\ Len(particles') = Len(particles)
      /\ DOMAIN particles' = 1 .. Len(particles)
  <2>1. [particles[i] EXCEPT !.age = @ + dt] \in Particles
    <3>1. particles[i] \in Particles /\ particles[i].age + dt \in Nat
      BY <1>2
    <3> QED
      BY ONLY <3>1, Changed
  <2>2. particles' = [particles EXCEPT ![i] = [particles[i] EXCEPT !.age = @ + dt]]
    BY <1>1, <1>2
  <2> QED
    BY <1>2, <2>1, <2>2
<1>4. \A k \in 1 .. Len(particles) :
        /\ particles'[k].life = particles[k].life
        /\ particles'[k].since = particles[k].since
        /\ particles'[k].age = IF k = i THEN particles[k].age + dt ELSE particles[k].age
  BY <1>1, <1>2, Changed
<1>5. TypeOK'
  <2>1. i - 1 \in 0 .. Len(particles)
    BY <1>2
  <2> QED
    BY <1>1, <1>3, <2>1 DEF TypeOK, Particles
<1>6. AgedOnce'
  BY <1>1, <1>2, <1>3, <1>4 DEF AgedOnce
<1>7. Within'
  BY <1>1, <1>2, <1>3, <1>4 DEF Within
<1>8. Account' /\ Running'
  BY <1>1 DEF Account, Running
<1> QED
  BY <1>5, <1>6, <1>7, <1>8

(* The particle that takes the place of a dead one has been aged already. *)
LEMMA KillIInv == IInv /\ KillParticle => IInv'
<1> SUFFICES ASSUME IInv, KillParticle PROVE IInv'
  OBVIOUS
<1> USE EmitterAssumption DEF IInv
<1>1. /\ phase = "age" /\ phase' = "age" /\ i > 0 /\ i' = i - 1
      /\ particles' = SwapOut(particles, i)
      /\ UNCHANGED <<m_lifetime, m_active, m_age, m_total, dt>>
  BY DEF KillParticle, Particle, emitterVars
<1>2. /\ particles \in Seq(Particles) /\ Len(particles) \in Nat
      /\ DOMAIN particles = 1 .. Len(particles)
      /\ \A k \in 1 .. Len(particles) :
           /\ particles[k] \in Particles
           /\ particles[k].age \in Nat /\ particles[k].since \in Nat
           /\ particles[k].life \in Nat
      /\ i \in 1 .. Len(particles) /\ dt \in Nat
  BY <1>1, InUse DEF TypeOK
<1>3. /\ particles' \in Seq(Particles) /\ Len(particles') = Len(particles) - 1
      /\ DOMAIN particles' = 1 .. Len(particles) - 1
      /\ \A j \in 1 .. Len(particles) - 1 :
           particles'[j] = IF j = i THEN particles[Len(particles)] ELSE particles[j]
  <2>1. /\ SwapOut(particles, i) \in Seq(Particles)
        /\ Len(SwapOut(particles, i)) = Len(particles) - 1
        /\ \A j \in 1 .. Len(particles) - 1 :
             SwapOut(particles, i)[j] = IF j = i THEN particles[Len(particles)] ELSE particles[j]
    BY ONLY <1>2, SwappedOut
  <2> QED
    BY ONLY <1>1, <2>1
<1>5. TypeOK'
  BY <1>1, <1>2, <1>3 DEF TypeOK, Particles
<1>6. AgedOnce'
  <2> SUFFICES ASSUME NEW k \in 1 .. Len(particles) - 1
               PROVE  particles'[k].since = particles'[k].age + (IF k <= i - 1 THEN dt ELSE 0)
    BY <1>1, <1>3 DEF AgedOnce
  <2>0. \A j \in 1 .. Len(particles) :
          particles[j].since = particles[j].age + (IF j <= i THEN dt ELSE 0)
    <3>1. AgedOnce
      OBVIOUS
    <3> QED
      BY ONLY <1>1, <1>2, <3>1 DEF AgedOnce
  <2>1. CASE k = i
    <3>1. Len(particles) > i /\ Len(particles) \in 1 .. Len(particles)
      BY <1>2, <2>1
    <3>2. particles[Len(particles)].since = particles[Len(particles)].age + 0
      <4>1. Len(particles) \in Nat /\ i \in Nat
        BY <1>2
      <4>2. ~(Len(particles) <= i)
        BY ONLY <3>1, <4>1
      <4>3. particles[Len(particles)].since =
              particles[Len(particles)].age + (IF Len(particles) <= i THEN dt ELSE 0)
        BY ONLY <2>0, <3>1
      <4> QED
        BY ONLY <4>2, <4>3
    <3>3. particles'[k] = particles[Len(particles)]
      BY ONLY <1>3, <2>1
    <3> QED
      BY ONLY <1>2, <2>1, <3>2, <3>3
  <2>2. CASE k # i
    <3>1. k \in 1 .. Len(particles) /\ (k <= i <=> k <= i - 1)
      BY ONLY <1>2, <2>2
    <3>2. particles'[k] = particles[k]
      BY ONLY <1>3, <2>2
    <3> QED
      BY ONLY <2>0, <3>1, <3>2
  <2> QED
    BY <2>1, <2>2
<1>7. Within'
  <2>1. \A j \in 1 .. Len(particles) : particles[j].age <= particles[j].life
    BY <1>2 DEF Within
  <2>2. \A j \in 1 .. Len(particles) - 1 : particles'[j].age <= particles'[j].life
    BY ONLY <1>2, <1>3, <2>1
  <2> QED
    BY <1>3, <2>2 DEF Within
<1>8. Account' /\ Running'
  BY <1>1 DEF Account, Running
<1> QED
  BY <1>5, <1>6, <1>7, <1>8

LEMMA EndIInv == IInv /\ EndAdvance => IInv'
<1> SUFFICES ASSUME IInv, EndAdvance PROVE IInv'
  OBVIOUS
<1> USE EmitterAssumption DEF IInv
<1>1. /\ phase = "age" /\ phase' = "frame" /\ i = 0 /\ dt' = 0
      /\ UNCHANGED <<particles, m_lifetime, m_active, m_age, m_total, i>>
  BY DEF EndAdvance, emitterVars
<1>2. TypeOK'
  BY <1>1 DEF TypeOK
<1>3. AgedOnce'
  <2>1. \A k \in DOMAIN particles : ~(k <= 0)
    BY DEF TypeOK
  <2> QED
    BY <1>1, <2>1 DEF AgedOnce
<1>4. Within' /\ Account' /\ Running'
  BY <1>1 DEF Within, Account, Running
<1> QED
  BY <1>2, <1>3, <1>4

LEMMA EmitIInv == IInv /\ Emit => IInv'
<1> SUFFICES ASSUME IInv, Emit PROVE IInv'
  OBVIOUS
<1> USE EmitterAssumption DEF IInv
<1>1. /\ phase = "age" /\ phase' = "frame" /\ i = 0 /\ dt' = 0
      /\ m_active /\ m_active' = StillActive
      /\ m_age' = m_age + dt
      /\ m_total' = m_total + Wanted(m_age')
      /\ UNCHANGED <<m_lifetime, i>>
  BY DEF Emit
<1>2. PICK lives \in [1 .. Births(m_age') -> MinLife .. MaxLife] :
        particles' = particles \o Newborn(lives)
  BY DEF Emit
<1>3. /\ particles \in Seq(Particles) /\ Len(particles) \in Nat
      /\ Len(particles) <= Pool
      /\ DOMAIN particles = 1 .. Len(particles)
      /\ \A k \in 1 .. Len(particles) :
           /\ particles[k] \in Particles
           /\ particles[k].age \in Nat /\ particles[k].since \in Nat
           /\ particles[k].life \in Nat
      /\ dt \in Nat /\ dt <= MaxDelta
      /\ m_age \in Nat /\ m_age' \in Nat /\ m_total \in Nat
  BY <1>1, InUse DEF TypeOK
<1>4. Wanted(m_age') \in Nat
  <2>1. CASE m_lifetime = 0
    BY <2>1 DEF Wanted
  <2>2. CASE m_lifetime # 0
    <3>1. m_total = (m_age * Rate) \div Second
      BY <2>2 DEF Account
    <3>2. /\ (m_age * Rate) \div Second <= ((m_age + dt) * Rate) \div Second
          /\ (m_age + dt) * Rate \in Nat
      BY <1>3, RateMonotone
    <3>3. ((m_age + dt) * Rate) \div Second \in Nat
      BY <3>2, DivBounds
    <3> QED
      BY <1>1, <1>3, <2>2, <3>1, <3>2, <3>3 DEF Wanted
  <2> QED
    BY <2>1, <2>2
<1>5. PICK b \in Nat : b = Births(m_age') /\ Len(particles) + b <= Pool
  BY <1>3, <1>4 DEF Births, Room
<1>6. /\ Newborn(lives) \in Seq(Particles) /\ Len(Newborn(lives)) = b
      /\ \A k \in 1 .. b : Newborn(lives)[k] = [age |-> 0, life |-> lives[k], since |-> 0]
  <2>1. lives \in [1 .. b -> MinLife .. MaxLife]
    BY <1>5
  <2>2. Newborn(lives) = [k \in 1 .. b |-> [age |-> 0, life |-> lives[k], since |-> 0]]
    BY <2>1 DEF Newborn
  <2>3. Newborn(lives) \in [1 .. b -> Particles]
    <3>1. \A k \in 1 .. b : [age |-> 0, life |-> lives[k], since |-> 0] \in Particles
      BY <2>1 DEF Particles
    <3> QED
      BY <2>2, <3>1
  <2> QED
    BY <1>5, <2>2, <2>3
<1>7. /\ particles' \in Seq(Particles) /\ Len(particles') = Len(particles) + b
      /\ DOMAIN particles' = 1 .. Len(particles')
      /\ \A k \in 1 .. Len(particles') :
           \/ k \in 1 .. Len(particles) /\ particles'[k] = particles[k]
           \/ /\ k - Len(particles) \in 1 .. b
              /\ particles'[k] = Newborn(lives)[k - Len(particles)]
  <2> DEFINE new == Newborn(lives)
  <2>1. new \in Seq(Particles) /\ Len(new) = b /\ particles' = particles \o new
    BY <1>2, <1>6
  <2> HIDE DEF new
  <2>nat. b \in Nat
    OBVIOUS
  <2>2. /\ particles' \in Seq(Particles) /\ Len(particles') = Len(particles) + b
        /\ \A k \in 1 .. Len(particles) + b :
             particles'[k] = IF k <= Len(particles) THEN particles[k]
                                                    ELSE new[k - Len(particles)]
    BY ONLY <1>3, <2>1, ConcatProperties
  <2>3. \A k \in 1 .. Len(particles') :
          particles'[k] = IF k <= Len(particles) THEN particles[k]
                                                 ELSE new[k - Len(particles)]
    BY ONLY <2>2
  <2>4. \A k \in 1 .. Len(particles') :
          \/ k \in 1 .. Len(particles) /\ k <= Len(particles)
          \/ k - Len(particles) \in 1 .. b /\ ~(k <= Len(particles))
    BY ONLY <1>3, <2>2, <2>nat
  <2>5. DOMAIN particles' = 1 .. Len(particles')
    BY <2>2
  <2> QED
    BY <1>3, <2>2, <2>3, <2>4, <2>5 DEF new
<1>8. \A k \in 1 .. b : /\ Newborn(lives)[k].age = 0 /\ Newborn(lives)[k].since = 0
                       /\ Newborn(lives)[k].age <= Newborn(lives)[k].life
  <2> TAKE k \in 1 .. b
  <2>1. lives[k] \in MinLife .. MaxLife
    BY <1>5
  <2>2. Newborn(lives)[k] = [age |-> 0, life |-> lives[k], since |-> 0]
    BY <1>6
  <2> QED
    BY ONLY <2>1, <2>2, EmitterAssumption
<1>9. TypeOK'
  <2>1. m_active' \in BOOLEAN
    BY <1>1 DEF StillActive
  <2> QED
    BY <1>1, <1>3, <1>4, <1>5, <1>7, <2>1 DEF TypeOK, Particles
<1>10. AgedOnce'
  <2>1. \A k \in 1 .. Len(particles) : particles[k].since = particles[k].age
    BY <1>1, <1>3 DEF AgedOnce
  <2>2. \A k \in 1 .. Len(particles') : particles'[k].since = particles'[k].age
    BY <1>7, <1>8, <2>1
  <2>3. \A k \in 1 .. Len(particles') : particles'[k].since \in Nat /\ particles'[k].age \in Nat
    BY <1>7, Fields, InUse
  <2> QED
    BY <1>1, <1>7, <2>2, <2>3 DEF AgedOnce
<1>11. Within'
  <2>1. \A k \in 1 .. Len(particles) : particles[k].age <= particles[k].life
    BY <1>3 DEF Within
  <2>2. \A k \in 1 .. Len(particles') : particles'[k].age <= particles'[k].life
    BY <1>7, <1>8, <2>1
  <2> QED
    BY <1>7, <2>2 DEF Within
<1>12. Account'
  <2>1. CASE m_lifetime = 0
    <3>1. ~m_active'
      <4>1. ~(m_age < 0) /\ m_lifetime # Infinite
        BY <1>3, <2>1
      <4>2. ~StillActive
        BY <2>1, <4>1 DEF StillActive
      <4> QED
        BY <1>1, <4>2
    <3>2. m_total = 0 /\ m_total' = Rate
      BY <1>1, <2>1 DEF Account, Wanted
    <3> QED
      BY <1>1, <2>1, <3>1, <3>2 DEF Account
  <2>2. CASE m_lifetime # 0
    <3>1. (m_age' * Rate) \div Second \in Int
      <4>1. m_age' * Rate \in Nat
        BY <1>1, <1>3, RateMonotone
      <4> QED
        BY <4>1, DivBounds
    <3>2. Wanted(m_age') = ((m_age' * Rate) \div Second) - m_total
      BY <2>2 DEF Wanted
    <3> QED
      BY <1>1, <1>3, <2>2, <3>1, <3>2 DEF Account
  <2> QED
    BY <2>1, <2>2
<1>13. Running'
  <2> SUFFICES ASSUME m_lifetime # Infinite
               PROVE  /\ m_active' => m_age' <= m_lifetime + MaxDelta
                      /\ m_age' <= m_lifetime + 2 * MaxDelta
    BY <1>1 DEF Running
  <2>1. m_lifetime \in Nat
    BY DEF TypeOK
  <2>2. m_age <= m_lifetime + MaxDelta
    BY <1>1 DEF Running
  <2>3. m_active' => m_age < m_lifetime
    BY <1>1 DEF StillActive
  <2> QED
    BY <1>1, <1>3, <2>1, <2>2, <2>3
<1> QED
  BY <1>9, <1>10, <1>11, <1>12, <1>13

(* Every step preserves the invariant. *)
LEMMA StepIInv == IInv /\ [Next]_vars => IInv'
<1>1. ASSUME IInv, Advance PROVE IInv'
  <2>1. 0 \in 0 .. MaxDelta /\ 1 .. MaxDelta \subseteq 0 .. MaxDelta
    BY EmitterAssumption
  <2>2. (\E d \in 0 .. MaxDelta : BeginAdvance(d)) \/ AgeParticle \/ KillParticle
          \/ EndAdvance \/ Emit
    BY <1>1, <2>1 DEF Advance, TimePasses
  <2> QED
    BY <1>1, <2>2, BeginIInv, AgeIInv, KillIInv, EndIInv, EmitIInv
<1> QED
  BY <1>1, ScriptIInv, StutterIInv DEF Next

(* The inductive invariant holds always. *)
THEOREM Invariance == Spec => []IInv
BY InitIInv, StepIInv, PTL DEF Spec

(* The pool of particles (m_count) is never overrun. *)
THEOREM Typing == Spec => []TypeOK
BY Invariance, PTL DEF IInv

(* Emitter.advance ages every particle once a frame, although it moves     *)
(* particles while it runs over them.                                      *)
THEOREM Ageing == Spec => []AgedOnce
BY Invariance, PTL DEF IInv

(* No particle is in use between two frames that has outlived its life. *)
THEOREM NotOverdue == Spec => []NoneOverdue
<1>1. IInv => NoneOverdue
  <2> SUFFICES ASSUME IInv, phase = "frame", NEW k \in DOMAIN particles
               PROVE  particles[k].since <= particles[k].life
    BY DEF NoneOverdue
  <2>1. TypeOK /\ AgedOnce /\ Within
    BY DEF IInv
  <2>2. particles[k].since = particles[k].age + 0
    BY <2>1 DEF AgedOnce
  <2>3. particles[k].age <= particles[k].life
    BY <2>1 DEF Within
  <2>4. particles[k].age \in Nat
    BY <2>1, InUse
  <2> QED
    BY <2>2, <2>3, <2>4
<1> QED
  BY <1>1, Invariance, PTL

(* A finite emitter is over in time, and asks for no more than its rate    *)
(* gives it.                                                               *)
THEOREM Ending == Spec => []OverInTime
<1>1. IInv => OverInTime
  <2> SUFFICES ASSUME IInv, m_lifetime # Infinite
               PROVE  /\ m_age <= m_lifetime + 2 * MaxDelta
                      /\ m_total * Second <= Rate * (m_age + Second)
    BY DEF OverInTime
  <2> USE EmitterAssumption
  <2>1. m_age \in Nat /\ m_total \in Nat
    BY DEF IInv, TypeOK
  <2>2. m_age <= m_lifetime + 2 * MaxDelta
    BY DEF IInv, Running
  <2>3. Rate * (m_age + Second) = Rate * m_age + Rate * Second
    BY <2>1
  <2>4. Rate * m_age \in Nat /\ Rate * Second \in Nat
    BY <2>1
  <2>5. CASE m_lifetime = 0
    <3>1. m_total \in {0, Rate}
      BY <2>5 DEF IInv, Account
    <3>2. m_total * Second <= Rate * Second
      BY <3>1, <2>4
    <3> QED
      BY <2>2, <2>3, <2>4, <2>1, <3>1, <3>2
  <2>6. CASE m_lifetime # 0
    <3>1. m_total = (m_age * Rate) \div Second
      BY <2>6 DEF IInv, Account
    <3>2. m_age * Rate = Rate * m_age
      BY <2>1
    <3>3. ((m_age * Rate) \div Second) * Second <= m_age * Rate
      BY <2>4, <3>2, DivBounds
    <3>4. m_total * Second <= Rate * m_age
      BY <3>1, <3>2, <3>3
    <3>5. m_total * Second \in Nat
      BY <2>1
    <3> QED
      BY <2>2, <2>3, <2>4, <3>4, <3>5
  <2> QED
    BY <2>5, <2>6
<1> QED
  BY <1>1, Invariance, PTL
================================================================================
